---------------------------- MODULE MCAuthServer ----------------------------
(* Two engines that were given one id, over a session that may have been resumed. *)
EXTENDS AuthServer

MCIdOf == [e \in Engines |-> CHOOSE t \in Taxis : TRUE]
=============================================================================

-------------------------- MODULE MCCentralProcess --------------------------
(* The central, started twice. *)
EXTENDS CentralProcess
=============================================================================

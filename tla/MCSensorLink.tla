---------------------------- MODULE MCSensorLink ----------------------------
(***************************************************************************)
(* Two sensors at a time or one after the other, choices of two seconds,   *)
(* and a first frame that is nothing, negative, or a wait.                 *)
(***************************************************************************)
EXTENDS SensorLink

MCGarbage == {-1, 0, 2}
=============================================================================

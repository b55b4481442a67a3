---------------------------- MODULE MCCentralGUI ----------------------------
(* One digit stands for ten; windows of two lines. *)
EXTENDS CentralGUI
=============================================================================

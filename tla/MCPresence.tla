----------------------------- MODULE MCPresence -----------------------------
(* Presence with one taxi and one customer. *)
EXTENDS Presence

CONSTANTS t1, c1
=============================================================================

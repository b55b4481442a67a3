------------------------------ MODULE Registry ------------------------------
(***************************************************************************)
(* What registering a taxi promises, whatever the conversation between the *)
(* engine and the central is like.  An engine is let in only after its     *)
(* taxi was stored and an announcement of it queued, once; the central is  *)
(* told that a taxi is new by the one engine that found no row, and an     *)
(* engine that meets a row reconnects it.  That row may have been          *)
(* reconnected already: two engines with one id are not kept apart.  The   *)
(* announcements arrive in their order, or are lost with their producer.   *)
(***************************************************************************)
EXTENDS Sequences

CONSTANTS
    Engines,    \* processes that may ask to be let in
    Taxis,      \* taxi ids
    IdOf        \* the id each process is started with

VARIABLES
    row,        \* each taxi's row: "none", or what its column connected says
    stage,      \* how far each engine has come
    queued,     \* announcements that have not been sent
    log         \* topic "requests": the announcements that have

Rows == {"none", "connected", "disconnected"}

Stages == {"out", "new", "again", "announced", "in"}

Announcement(s, t) == [subject |-> s, taxiId |-> t]

\* A session may be resumed: rows of disconnected and of connected taxis are there.
Init ==
    /\ row \in [Taxis -> Rows]
    /\ stage = [e \in Engines |-> "out"]
    /\ queued = <<>>
    /\ log = <<>>

Store(e) ==
    /\ stage[e] = "out"
    /\ row' = [row EXCEPT ![IdOf[e]] = "connected"]
    /\ stage' = [stage EXCEPT ![e] = IF row[IdOf[e]] = "none" THEN "new" ELSE "again"]
    /\ UNCHANGED <<queued, log>>

Announce(e) ==
    /\ stage[e] \in {"new", "again"}
    /\ queued' = Append(queued, Announcement(
                IF stage[e] = "new" THEN "NEW_TAXI" ELSE "TAXI_RECONNECTED", IdOf[e]))
    /\ stage' = [stage EXCEPT ![e] = "announced"]
    /\ UNCHANGED <<row, log>>

LetIn(e) ==
    /\ stage[e] = "announced"
    /\ stage' = [stage EXCEPT ![e] = "in"]
    /\ UNCHANGED <<row, queued, log>>

Disconnect(t) ==
    /\ row[t] # "none"
    /\ row' = [row EXCEPT ![t] = "disconnected"]
    /\ UNCHANGED <<stage, queued, log>>

Deliver ==
    /\ queued # <<>>
    /\ log' = Append(log, Head(queued))
    /\ queued' = Tail(queued)
    /\ UNCHANGED <<row, stage>>

Lose ==
    /\ queued' = <<>>
    /\ UNCHANGED <<row, stage, log>>

Next ==
    \/ \E e \in Engines : Store(e) \/ Announce(e) \/ LetIn(e)
    \/ \E t \in Taxis : Disconnect(t)
    \/ Deliver \/ Lose

Spec == Init /\ [][Next]_<<row, stage, queued, log>>
=============================================================================

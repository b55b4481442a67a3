------------------------------ MODULE Carriage ------------------------------
(***************************************************************************)
(* What the central promises about rides, and nothing else: who is on      *)
(* board of which taxi, and what the customers are told about it.          *)
(*                                                                         *)
(*   - a taxi carries at most one customer, and takes one only when empty; *)
(*   - PICKED_UP is said exactly to a customer that boards, when it does;  *)
(*   - COMPLETED is said exactly to a customer that gets off, when it      *)
(*     does, unless the central dies while saying it;                      *)
(*   - an operator's order may empty a taxi without a word;                *)
(*   - a central that can no longer record rides may say once what did not *)
(*     happen, when it comes to be so, and never speaks of rides again.    *)
(*                                                                         *)
(* KafkaServer implements it (CarriageImplemented there).                  *)
(***************************************************************************)
EXTENDS Protocol

VARIABLES
    aboard,    \* [Taxis -> Customers \cup {None}]
    notices,   \* [Customers -> Seq(CustomerNotice)], what each has still to read
    recording  \* whether rides can still be recorded

vars == <<aboard, notices, recording>>

RideNotices == {Notice("CUSTOMER_PICKED_UP"), Notice("CUSTOMER_SERVICE_COMPLETED")}

OtherNotices == CustomerNotice \ RideNotices

\* A session that is resumed may have customers on board.
Init ==
    /\ aboard \in [Taxis -> Customers \cup {None}]
    /\ notices = [c \in Customers |-> <<>>]
    /\ recording = TRUE

\* c boards t; the words are those of a pick-up, or a refusal when the central does not know
\* where to take it.
Board(t, c) ==
    /\ recording
    /\ aboard[t] = None
    /\ aboard' = [aboard EXCEPT ![t] = c]
    /\ \E m \in {Notice("CUSTOMER_PICKED_UP"), Notice("CUSTOMER_SERVICE_DENIED")} :
            notices' = Send(notices, c, m)

\* The customer of t gets off; in the same step another customer may be given the taxi.
Alight(t) ==
    /\ recording
    /\ aboard[t] # None
    /\ aboard' = [aboard EXCEPT ![t] = None]
    /\ LET told == Send(notices, aboard[t], Notice("CUSTOMER_SERVICE_COMPLETED"))
       IN  \/ notices' = told
           \/ \E c \in Customers : notices' = Send(told, c, Accepted(t))

\* The central dies before the customer hears of it.
AlightUnheard(t) ==
    /\ recording
    /\ aboard[t] # None
    /\ aboard' = [aboard EXCEPT ![t] = None]
    /\ UNCHANGED notices

\* The central says what it fails to record: a customer boards an empty taxi, or the customer of
\* a taxi gets off.
Misreport(t, c) ==
    /\ recording /\ ~recording'
    /\ \/ aboard[t] = None /\ notices' = Send(notices, c, Notice("CUSTOMER_PICKED_UP"))
       \/ aboard[t] = c /\ notices' = Send(notices, c, Notice("CUSTOMER_SERVICE_COMPLETED"))
    /\ UNCHANGED aboard

\* Everything the central says besides: once, or twice.
Say(c, m) ==
    /\ m \in OtherNotices
    /\ \/ notices' = Send(notices, c, m)
       \/ notices' = Send(Send(notices, c, m), c, m)
    /\ UNCHANGED aboard

Hear(c) ==
    /\ notices[c] # <<>>
    /\ notices' = [notices EXCEPT ![c] = Tail(@)]
    /\ UNCHANGED aboard

FailToRecord == recording /\ UNCHANGED <<aboard, notices>>

\* With any step, the means to record may be lost, and they do not come back.
Next ==
    /\ recording' \in {recording, FALSE}
    /\ \/ \E t \in Taxis :
            \/ Alight(t) \/ AlightUnheard(t)
            \/ \E c \in Customers : Board(t, c) \/ Misreport(t, c)
       \/ \E c \in Customers : Hear(c) \/ \E m \in OtherNotices : Say(c, m)
       \/ FailToRecord

Spec == Init /\ [][Next]_vars
=============================================================================

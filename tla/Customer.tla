------------------------------ MODULE Customer ------------------------------
(***************************************************************************)
(* The customer program (EC_Customer.cpp): it joins, then asks for its     *)
(* services one after the other and follows each until it is told that it  *)
(* is over.  Its pings are left out: here no customer is taken for a stray.*)
(***************************************************************************)
EXTENDS Protocol

CONSTANTS
    Wishes,      \* [Customers -> Seq(Services)]: the services file of each
    Home,        \* [Customers -> Points]: CUSTOMER_COORD
    RestFrom,    \* seconds counted down between two services, 4 in the code
    MaxRequests  \* bound: messages waiting in "requests"

VARIABLES
    rider,       \* [Customers -> the memory of each customer]
    requests,    \* topic "requests"
    responses    \* topic "responses", as inboxes

Memory ==
    [stage : {"out", "joining", "asking", "following", "resting", "gone", "failed"},
     index : Nat, left : 0..RestFrom]

TypeOK == rider \in [Customers -> Memory]

Init == rider = [c \in Customers |-> [stage |-> "out", index |-> 1, left |-> 0]]

Say(m) ==
    /\ Len(requests) < MaxRequests
    /\ requests' = Append(requests, m)

Wish(c) == Wishes[c][rider[c].index]

At(c, stage) == rider[c].stage = stage

Goes(c, stage) == rider' = [rider EXCEPT ![c].stage = stage]

-----------------------------------------------------------------------------
(* handshake                                                               *)

\* Mutant: it does not wait to be accepted.
JoinsAtOnce(c) ==
    /\ At(c, "out")
    /\ Say([subject |-> "NEW_CUSTOMER", id |-> c, coord |-> Home[c]])
    /\ Goes(c, IF Wishes[c] = <<>> THEN "gone" ELSE "asking")
    /\ UNCHANGED responses

Joins(c) ==
    /\ At(c, "out")
    /\ Say([subject |-> "NEW_CUSTOMER", id |-> c, coord |-> Home[c]])
    /\ Goes(c, "joining")
    /\ UNCHANGED responses

\* The next message of the topic that is for c.
Next(c, m) ==
    /\ responses[c] # <<>>
    /\ m = Head(responses[c])
    /\ responses' = [responses EXCEPT ![c] = Tail(@)]
    /\ UNCHANGED requests

\* While it joins, a customer looks only at messages with its own uuid.
IsWelcome(c) ==
    /\ At(c, "joining")
    /\ Next(c, Notice("ACCEPT"))
    /\ Goes(c, IF Wishes[c] = <<>> THEN "gone" ELSE "asking")

IsRefused(c) ==
    /\ At(c, "joining")
    /\ Next(c, Notice("DENY"))
    /\ Goes(c, "failed")

\* Five seconds without an answer.
GivesUp(c) ==
    /\ At(c, "joining")
    /\ Goes(c, "failed")
    /\ UNCHANGED <<requests, responses>>

-----------------------------------------------------------------------------
(* askService                                                              *)

Asks(c) ==
    /\ At(c, "asking")
    /\ Say([subject |-> "CUSTOMER_SERVICE_REQUEST", id |-> c, data |-> Wish(c),
            session |-> "current"])
    /\ Goes(c, "following")
    /\ UNCHANGED responses

\* Notices that are only shown.
HearsNews(c) ==
    /\ At(c, "following")
    /\ \/ \E s \in {"CUSTOMER_PRIORITY", "CUSTOMER_PICKED_UP", "CUSTOMER_ENQUEUED"} :
            Next(c, Notice(s))
       \/ \E t \in Taxis : Next(c, Accepted(t))
    /\ UNCHANGED rider

\* "We've arrived to", or "The location asked for doesn't exist": on to the next service.
HearsOutcome(c, s) ==
    /\ At(c, "following")
    /\ Next(c, Notice(s))
    /\ rider' = [rider EXCEPT ![c].stage = "resting", ![c].left = RestFrom]

HearsDisconnect(c) ==
    /\ At(c, "following")
    /\ Next(c, Notice("CUSTOMER_DISCONNECT"))
    /\ Goes(c, "gone")

\* One second of main's countdown: NEXT_REQUEST is sent before each.
Rests(c) ==
    /\ At(c, "resting")
    /\ rider[c].left > 0
    /\ Say([subject |-> "CUSTOMER_UPDATE_NEXT_REQUEST", id |-> c,
            data |-> IF rider[c].left > 1 THEN 1 ELSE 0, session |-> "current"])
    /\ rider' = [rider EXCEPT ![c].left = @ - 1]
    /\ UNCHANGED responses

GoesOn(c) ==
    /\ At(c, "resting")
    /\ rider[c].left = 0
    /\ rider' = [rider EXCEPT
            ![c].stage = IF rider[c].index < Len(Wishes[c]) THEN "asking" ELSE "gone",
            ![c].index = IF rider[c].index < Len(Wishes[c]) THEN @ + 1 ELSE @]
    /\ UNCHANGED <<requests, responses>>

Follows(c) ==
    \/ HearsNews(c)
    \/ \E s \in {"CUSTOMER_SERVICE_COMPLETED", "CUSTOMER_SERVICE_DENIED"} : HearsOutcome(c, s)
    \/ HearsDisconnect(c)

Acts(c) ==
    \/ Joins(c) \/ IsWelcome(c) \/ IsRefused(c) \/ Asks(c) \/ Follows(c) \/ Rests(c) \/ GoesOn(c)
=============================================================================

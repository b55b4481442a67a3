------------------------------ MODULE Presence ------------------------------
(***************************************************************************)
(* How the central knows who is still there.  Engines and customers send a *)
(* ping every second; its handler writes last_update, and so does any      *)
(* other UPDATE that changes the row (ON UPDATE CURRENT_TIMESTAMP).  Every  *)
(* second the process of checkStrays reads from the database who has been  *)
(* silent for more than three seconds and orders the central, through the  *)
(* topic "requests", to disconnect them.                                   *)
(*                                                                         *)
(* The ping, the query and the order are three processes apart, so the     *)
(* order can be about an earlier life of the client it reaches, and a ping *)
(* that waits in the topic is as good as none.  What can be promised       *)
(* depends on delays the code does not bound: they are constants here, and *)
(* TimingAssumption says how they must relate to the three seconds.        *)
(*                                                                         *)
(* A row that counts as present is a taxi's with connected = TRUE, and any *)
(* row of a customer.  One process per client at a time: AuthServer is     *)
(* about two engines with one id.                                          *)
(***************************************************************************)
EXTENDS Integers, Sequences

CONSTANTS
    Taxis, Customers,
    Pause,        \* seconds from one ping of a client to the next, at most
    Lag,          \* seconds a message waits in "requests" before it is handled, at most
    CheckPause,   \* seconds from one query of checkStrays to the next, at most
    Delay,        \* seconds checkStrays takes to send the orders of a query, at most
    MaxNow        \* bound: seconds

Clients == Taxis \cup Customers

\* INTERVAL 3 SECOND
Patience == 3

ASSUME ClientsAssumption == Taxis \cap Customers = {}

ASSUME TimingAssumption ==
    /\ Pause \in Nat \ {0} /\ CheckPause \in Nat \ {0}
    /\ Lag \in Nat /\ Delay \in Nat /\ MaxNow \in Nat
    /\ Pause + Lag <= Patience

VARIABLES
    now,        \* NOW(), the clock of the database
    present,    \* clients whose row counts as present
    last,       \* its last_update (0 for the others, which nobody reads)
    carried,    \* customers some taxi's customer_id refers to: they cannot be deleted
    freed,      \* when a customer was last let go of
    alive,      \* clients that run and know the session
    born,       \* when the current life of a client began (0 for those that are not alive)
    pinged,     \* when it last sent a ping (0 likewise)
    requests,   \* topic "requests"
    found,      \* checkStrays: silent clients it has still to send the order of
    checked     \* checkStrays: when it last queried the database

clientVars == <<alive, born, pinged>>
rowVars == <<present, last>>
holdVars == <<carried, freed>>
checkVars == <<found, checked>>
vars == <<now, rowVars, holdVars, clientVars, requests, checkVars>>

Subjects == {"PING", "NEW_CUSTOMER", "ORDER_DISCONNECT"}

Request == [subject : Subjects, client : Clients, sent : Nat]

TypeOK ==
    /\ now \in 0..MaxNow
    /\ present \subseteq Clients
    /\ last \in [Clients -> Nat]
    /\ carried \subseteq Customers \cap present
    /\ freed \in [Customers -> Nat]
    /\ alive \subseteq Clients
    /\ born \in [Clients -> Nat]
    /\ pinged \in [Clients -> Nat]
    /\ requests \in Seq(Request)
    /\ found \subseteq Clients
    /\ checked \in Nat

Init ==
    /\ now = 0
    /\ present = {}
    /\ last = [e \in Clients |-> 0]
    /\ carried = {}
    /\ freed = [c \in Customers |-> 0]
    /\ alive = {}
    /\ born = [e \in Clients |-> 0]
    /\ pinged = [e \in Clients |-> 0]
    /\ requests = <<>>
    /\ found = {}
    /\ checked = 0

-----------------------------------------------------------------------------
(* Clients                                                                 *)

Message(s, e) == [subject |-> s, client |-> e, sent |-> now]

\* e begins a life.
Begin(e) ==
    /\ alive' = alive \cup {e}
    /\ born' = [born EXCEPT ![e] = now]
    /\ pinged' = [pinged EXCEPT ![e] = now]

\* The row of e is written.
Stamp(e) == last' = [last EXCEPT ![e] = now]

Appear(e) == present' = present \cup {e} /\ Stamp(e)

Disappear(e) == present' = present \ {e} /\ last' = [last EXCEPT ![e] = 0]

\* AuthServer inserts the taxi, or sets connected, which had to be FALSE.
Register(t) ==
    /\ t \notin alive
    /\ t \notin present
    /\ Begin(t) /\ Appear(t)
    /\ UNCHANGED <<now, holdVars, requests, checkVars>>

\* A customer starts and asks to be let in.
AskIn(c) ==
    /\ c \notin alive
    /\ \A i \in DOMAIN requests : requests[i].client = c => requests[i].subject # "NEW_CUSTOMER"
    /\ requests' = Append(requests, Message("NEW_CUSTOMER", c))
    /\ UNCHANGED <<now, rowVars, holdVars, clientVars, checkVars>>

\* The ping thread sleeps for a second after each ping.
Ping(e) ==
    /\ e \in alive
    /\ now > pinged[e]
    /\ pinged' = [pinged EXCEPT ![e] = now]
    /\ requests' = Append(requests, Message("PING", e))
    /\ UNCHANGED <<now, rowVars, holdVars, alive, born, checkVars>>

\* A client ends: it is closed, killed, done, or has read the order to disconnect.  An engine
\* that stops in good order may still send ORDER_TAXI_DISCONNECT for itself.
End(e) ==
    /\ e \in alive
    /\ alive' = alive \ {e}
    /\ born' = [born EXCEPT ![e] = 0]
    /\ pinged' = [pinged EXCEPT ![e] = 0]
    /\ \/ UNCHANGED requests
       \/ e \in Taxis /\ requests' = Append(requests, Message("ORDER_DISCONNECT", e))
    /\ UNCHANGED <<now, rowVars, holdVars, checkVars>>

-----------------------------------------------------------------------------
(* The central's handlers                                                  *)

\* The messages in the topic, in no order.
Waiting == {requests[i] : i \in DOMAIN requests}

Receives(subject) == requests # <<>> /\ Head(requests).subject = subject

\* TAXI_PING, CUSTOMER_PING.  There is nothing to stamp once a customer's row is gone.
HandlePing ==
    /\ Receives("PING")
    /\ requests' = Tail(requests)
    /\ LET e == Head(requests).client
       IN  \/ e \in present /\ Stamp(e)
           \/ e \notin present /\ UNCHANGED last
    /\ UNCHANGED present
    /\ UNCHANGED <<now, holdVars, clientVars, checkVars>>

\* Denied while a row of that id is there.  The customer may have given up by the time it is let in.
HandleNewCustomer ==
    /\ Receives("NEW_CUSTOMER")
    /\ requests' = Tail(requests)
    /\ LET c == Head(requests).client
       IN  \/ c \in present /\ UNCHANGED <<rowVars, clientVars>>
           \/ c \notin present /\ Appear(c) /\ (Begin(c) \/ UNCHANGED clientVars)
    /\ UNCHANGED <<now, holdVars, checkVars>>

\* Mutant: the row goes although a taxi refers to it.
DisconnectAnyone ==
    /\ Receives("ORDER_DISCONNECT")
    /\ requests' = Tail(requests)
    /\ Disappear(Head(requests).client)
    /\ UNCHANGED <<now, holdVars, clientVars, checkVars>>

\* ORDER_TAXI_DISCONNECT, ORDER_CUSTOMER_DISCONNECT.  A customer that is being carried stays.
HandleDisconnect ==
    /\ Receives("ORDER_DISCONNECT")
    /\ requests' = Tail(requests)
    /\ LET e == Head(requests).client
       IN  \/ e \notin carried /\ Disappear(e)
           \/ e \in carried /\ UNCHANGED rowVars
    /\ UNCHANGED <<now, holdVars, clientVars, checkVars>>

\* Any other handler that changes the row: a move, a flag, an order.
ChangeRow(e) ==
    /\ e \in present
    /\ Stamp(e)
    /\ UNCHANGED <<now, present, holdVars, clientVars, requests, checkVars>>

\* setOnboard, when the customer is picked up.
PickUp(c) ==
    /\ c \in present \ carried
    /\ carried' = carried \cup {c}
    /\ Stamp(c)
    /\ UNCHANGED <<now, present, freed, clientVars, requests, checkVars>>

\* setOnboard at the end of a ride; or ORDER_TAXI_GO_TO, which does not touch the customer's row.
LetGo(c) ==
    /\ c \in carried
    /\ carried' = carried \ {c}
    /\ freed' = [freed EXCEPT ![c] = now]
    /\ Stamp(c) \/ UNCHANGED last
    /\ UNCHANGED <<now, present, clientVars, requests, checkVars>>

-----------------------------------------------------------------------------
(* checkStrays                                                             *)

\* Mutant: last_update <= NOW() - INTERVAL 3 SECOND.
StraysAtLimit == {e \in present : last[e] <= now - Patience}

\* last_update < NOW() - INTERVAL 3 SECOND
Strays == {e \in present : last[e] < now - Patience}

\* Mutant: the second result set, the customers, is not read.
QueryTaxisOnly ==
    /\ found = {}
    /\ now > checked
    /\ found' = Strays \cap Taxis
    /\ checked' = now
    /\ UNCHANGED <<now, rowVars, holdVars, clientVars, requests>>

Query ==
    /\ found = {}
    /\ now > checked
    /\ found' = Strays
    /\ checked' = now
    /\ UNCHANGED <<now, rowVars, holdVars, clientVars, requests>>

\* One order for each, taxis first.
Order(e) ==
    /\ e \in found
    /\ found \cap Taxis # {} => e \in Taxis
    /\ found' = found \ {e}
    /\ requests' = Append(requests, Message("ORDER_DISCONNECT", e))
    /\ UNCHANGED <<now, rowVars, holdVars, clientVars, checked>>

-----------------------------------------------------------------------------
(* Time                                                                    *)

\* Nobody is later than the constants say.
InTime ==
    /\ \A e \in alive : now < pinged[e] + Pause
    /\ \A m \in Waiting : now < m.sent + Lag
    /\ now < checked + CheckPause
    /\ found # {} => now < checked + Delay

Tick ==
    /\ now < MaxNow
    /\ InTime
    /\ now' = now + 1
    /\ UNCHANGED <<rowVars, holdVars, clientVars, requests, checkVars>>

Handle == HandlePing \/ HandleNewCustomer \/ HandleDisconnect

Next ==
    \/ Tick
    \/ \E t \in Taxis : Register(t)
    \/ \E c \in Customers : AskIn(c) \/ PickUp(c) \/ LetGo(c)
    \/ \E e \in Clients : Ping(e) \/ End(e) \/ ChangeRow(e) \/ Order(e)
    \/ Handle
    \/ Query

Spec == Init /\ [][Next]_vars

-----------------------------------------------------------------------------
(* Properties                                                              *)

\* A client that lives and pings is not taken for a stray: the central disconnects one only in the
\* first seconds of its life, by an order that was about the life before.  The ping may be handled
\* as late as Patience - Pause seconds after it was sent.
OnlyNewcomersDisconnected ==
    [][\A e \in alive :
        e \in present \ present' => now <= born[e] + Delay + Lag]_vars

\* A client that is gone does not stay on the map: whoever counts as present, and is not being
\* carried, was heard of, or let go of by a taxi, in the last few seconds.
NobodyLingers ==
    \A e \in present \ carried :
        LET limit == Patience + CheckPause + Delay + Lag
        IN  \/ now <= last[e] + limit
            \/ e \in Customers /\ now <= freed[e] + limit
=============================================================================

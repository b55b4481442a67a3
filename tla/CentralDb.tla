----------------------------- MODULE CentralDb ------------------------------
(***************************************************************************)
(* The central's MySQL schema (mysql/initialize.sql) and the statements    *)
(* KafkaServer and AuthServer run on it, one operator each: from the       *)
(* database before to the database after, or to the rows selected.         *)
(*                                                                         *)
(* An UPDATE ... WHERE id = ... that matches no row changes nothing.  The  *)
(* foreign keys are part of the operators: an operator named ...Fails says *)
(* when MySQL refuses the statement.  The last_update columns are read by  *)
(* checkStrays alone and are left out.                                     *)
(***************************************************************************)
EXTENDS Protocol

CONSTANTS
    LetterOf,    \* the location letter equal to a customer's id once case is ignored
    MaxNow       \* bound: seconds that may pass (in_queue is a TIMESTAMP)

ASSUME LetterAssumption == LetterOf \in [Customers -> Services]

ASSUME MaxNowAssumption == MaxNow \in Nat

TaxiRow ==
    [pos : Points, dest : Points \cup {None}, customer_id : Customers \cup {None},
     service : Customers \cup {None}, connected : BOOLEAN, ready : BOOLEAN,
     stopped : BOOLEAN, wait_time : Countdown]

CustomerRow ==
    [pos : Points, destination : Services \cup {None}, next_request : Countdown,
     onboard : BOOLEAN, in_queue : (0..MaxNow) \cup {None}]

\* prot::Customer as the map shows it: only whether the customer is queued.
CustomerShown ==
    [pos : Points, destination : Services \cup {None}, next_request : Countdown,
     onboard : BOOLEAN, in_queue : BOOLEAN]

ASSUME NoRowAssumption == None \notin TaxiRow \cup CustomerRow

Db == [taxis : [Taxis -> TaxiRow \cup {None}],
       customers : [Customers -> CustomerRow \cup {None}],
       locations : [Services -> Points \cup {None}]]

\* What a prot::Map holds.
Map == [locations : [Services -> Points \cup {None}],
        customers : [Customers -> CustomerShown \cup {None}],
        taxis : [Taxis -> TaxiRow \cup {None}]]

HasTaxi(d, t)     == d.taxis[t] # None
HasCustomer(d, c) == d.customers[c] # None
HasLocation(d, l) == d.locations[l] # None

\* fk_customer_id, fk_service and fk_destination: MySQL stores nothing else.
ForeignKeys(d) ==
    /\ \A t \in Taxis, c \in Customers : HasTaxi(d, t) =>
        /\ d.taxis[t].customer_id = c => HasCustomer(d, c)
        /\ d.taxis[t].service = c => HasLocation(d, LetterOf[c])
    /\ \A c \in Customers, l \in Services :
        HasCustomer(d, c) /\ d.customers[c].destination = l => HasLocation(d, l)

\* The database of a fresh session: readFile has inserted the locations.
EmptyDb(locations) ==
    [taxis |-> [t \in Taxis |-> None], customers |-> [c \in Customers |-> None],
     locations |-> locations]

-----------------------------------------------------------------------------
(* Single-row writes                                                       *)

SetTaxi(d, t, row) ==
    IF HasTaxi(d, t) THEN [d EXCEPT !.taxis = [@ EXCEPT ![t] = row]] ELSE d

SetCustomer(d, c, row) ==
    IF HasCustomer(d, c) THEN [d EXCEPT !.customers = [@ EXCEPT ![c] = row]] ELSE d

NewTaxiRow ==
    [pos |-> Base, dest |-> None, customer_id |-> None, service |-> None,
     connected |-> TRUE, ready |-> FALSE, stopped |-> FALSE, wait_time |-> 0]

\* Mutant: a taxi that has a row is not connected again.
RegisterNewOnly(d, t) ==
    IF HasTaxi(d, t) THEN d ELSE [d EXCEPT !.taxis = [@ EXCEPT ![t] = NewTaxiRow]]

\* checkId and addTaxi of the authentication server: insert, or connect again.
RegisterTaxi(d, t) ==
    [d EXCEPT !.taxis = [@ EXCEPT ![t] =
        IF HasTaxi(d, t) THEN [d.taxis[t] EXCEPT !.connected = TRUE] ELSE NewTaxiRow]]

NewCustomerRow(p) ==
    [pos |-> p, destination |-> None, next_request |-> 0, onboard |-> FALSE, in_queue |-> None]

InsertCustomer(d, c, p) == [d EXCEPT !.customers = [@ EXCEPT ![c] = NewCustomerRow(p)]]

\* fk_customer_id: a customer some taxi carries cannot be deleted.
DeleteCustomer(d, c) ==
    IF \E t \in Taxis : HasTaxi(d, t) /\ d.taxis[t].customer_id = c
    THEN d
    ELSE [d EXCEPT !.customers = [@ EXCEPT ![c] = None]]

DisconnectTaxi(d, t)   == SetTaxi(d, t, [d.taxis[t] EXCEPT !.connected = FALSE])
SetReady(d, t, b)      == SetTaxi(d, t, [d.taxis[t] EXCEPT !.ready = b])
SetStopped(d, t, b)    == SetTaxi(d, t, [d.taxis[t] EXCEPT !.stopped = b])
SetWaitTime(d, t, w)   == SetTaxi(d, t, [d.taxis[t] EXCEPT !.wait_time = w, !.ready = (w = 0)])
MoveTaxi(d, t, p)      == SetTaxi(d, t, [d.taxis[t] EXCEPT !.pos = p])
MoveCustomer(d, c, p)  == SetCustomer(d, c, [d.customers[c] EXCEPT !.pos = p])
SetNextRequest(d, c, n) == SetCustomer(d, c, [d.customers[c] EXCEPT !.next_request = n])
Enqueue(d, c, now)     == SetCustomer(d, c, [d.customers[c] EXCEPT !.in_queue = now])
Dequeue(d, c)          == SetCustomer(d, c, [d.customers[c] EXCEPT !.in_queue = None])

\* The second statement of the query names the taxi's id as a customer's, so no customer matches.
SendTaxi(d, t, p) ==
    SetTaxi(d, t, [d.taxis[t] EXCEPT !.dest = p, !.customer_id = None])

MoveLocation(d, l, p) ==
    IF HasLocation(d, l) THEN [d EXCEPT !.locations = [@ EXCEPT ![l] = p]] ELSE d

-----------------------------------------------------------------------------
(* Statements over two tables                                              *)

SetDestinationFails(d, c, l) == HasCustomer(d, c) /\ ~HasLocation(d, l)

SetDestination(d, c, l) ==
    SetCustomer(d, c, [d.customers[c] EXCEPT !.destination = l])

\* Mutant: the taxi keeps the customer that got off.
OnboardKept(d, c, t, val) ==
    LET e == SetCustomer(d, c, [d.customers[c] EXCEPT !.onboard = val])
    IN  IF val /\ HasCustomer(d, c)
        THEN SetTaxi(e, t, [e.taxis[t] EXCEPT !.customer_id = c])
        ELSE e

\* setOnboard(c, t, val).  When c has no row, fk_customer_id refuses the second of its two
\* statements, and query() does not look at the status of a second statement.
SetOnboard(d, c, t, val) ==
    LET e == SetCustomer(d, c, [d.customers[c] EXCEPT !.onboard = val])
    IN  IF val /\ ~HasCustomer(d, c)
        THEN e
        ELSE SetTaxi(e, t, [e.taxis[t] EXCEPT !.customer_id = IF val THEN c ELSE None])

\* Mutant: the service is not stored.
AssignWithoutService(d, t, c) ==
    IF HasCustomer(d, c)
    THEN SetTaxi(d, t, [d.taxis[t] EXCEPT !.dest = d.customers[c].pos])
    ELSE d

\* The UPDATE ... JOIN of assign: nothing is joined when c has no row.  It stores the customer's
\* id in taxis.service, which references locations(id).
Assign(d, t, c) ==
    IF HasCustomer(d, c)
    THEN SetTaxi(d, t, [d.taxis[t] EXCEPT !.dest = d.customers[c].pos, !.service = c])
    ELSE d

\* assign throws: the query is refused by fk_service, or the dest_x it reads back is missing.
AssignThrows(d, t, c) ==
    \/ HasCustomer(d, c) /\ ~HasLocation(d, LetterOf[c])
    \/ ~HasTaxi(d, t)
    \/ Assign(d, t, c).taxis[t].dest = None

-----------------------------------------------------------------------------
(* Queries                                                                 *)

\* "connected = TRUE AND wait_time < NOW() - INTERVAL 3 SECOND LIMIT 1": a number of seconds is
\* always below a date read as a number, so any connected taxi may be the one row returned.
AvailableTaxis(d) == {t \in Taxis : HasTaxi(d, t) /\ d.taxis[t].connected}

Queued(d) == {c \in Customers : HasCustomer(d, c) /\ d.customers[c].in_queue # None}

\* "ORDER BY in_queue LIMIT 1": timestamps of one second apart may tie.
FirstInQueue(d) ==
    {c \in Queued(d) : \A o \in Queued(d) : d.customers[c].in_queue <= d.customers[o].in_queue}

CarriedBy(d, t) == IF HasTaxi(d, t) THEN d.taxis[t].customer_id ELSE None

ServiceOf(d, t) == IF HasTaxi(d, t) THEN d.taxis[t].service ELSE None

\* Mutant: joins locations on the customer's id.
DestinationByLetter(d, c) == IF HasCustomer(d, c) THEN d.locations[LetterOf[c]] ELSE None

DestinationOf(d, c) ==
    IF HasCustomer(d, c) /\ d.customers[c].destination # None
    THEN d.locations[d.customers[c].destination]
    ELSE None

\* The columns refreshMap selects: all but service and the queue's timestamps.
View(d) ==
    [locations |-> d.locations,
     customers |-> [c \in Customers |->
        IF HasCustomer(d, c)
        THEN [d.customers[c] EXCEPT !.in_queue = (@ # None)] ELSE None],
     taxis |-> [t \in Taxis |->
        IF HasTaxi(d, t) THEN [d.taxis[t] EXCEPT !.service = None] ELSE None]]
=============================================================================

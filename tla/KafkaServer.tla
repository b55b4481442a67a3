---------------------------- MODULE KafkaServer -----------------------------
(***************************************************************************)
(* The central's message loop, KafkaServer::startInternal: it takes one    *)
(* message at a time from the topic "requests", changes the database and   *)
(* answers on "responses"; after every message it publishes the map.       *)
(*                                                                         *)
(* A handler is one step: nobody else writes the columns it reads, except  *)
(* taxis.connected, which it reads once.  Its database connection may      *)
(* break between two messages or between two of its queries; a query has   *)
(* then run, or not.  The member `response` is reused from message to      *)
(* message; every handler sets the members the reader of its subject       *)
(* looks at, and only those are modelled.                                  *)
(*                                                                         *)
(* The environment of this module is open: any client may send any of the  *)
(* messages it knows how to build, in any order.  EasyCab closes it with   *)
(* the real clients.                                                       *)
(***************************************************************************)
EXTENDS CentralDb

CONSTANTS
    Inputs,       \* the requests clients send: all of them, or those a run is about
    Locations,    \* the locations file: [Services -> Points \cup {None}]
    Resumed,      \* databases an earlier start of the session may have left
    MaxRequests,  \* bound: messages waiting in "requests"
    MaxUnread,    \* bound: notices a subscriber may be behind when the next message is handled
    Patient,      \* bound: whether messages are only sent when the server may handle them
    DbMayFail     \* whether the server may lose its database connection

ASSUME LocationsAssumption == Locations \in [Services -> Points \cup {None}]

ASSUME ResumedAssumption == \A d \in Resumed : d \in Db /\ ForeignKeys(d)

ASSUME InputsAssumption == Inputs \subseteq Request

ASSUME FlagsAssumption == DbMayFail \in BOOLEAN /\ Patient \in BOOLEAN

VARIABLES
    db,          \* the MySQL database
    now,         \* its clock, in seconds
    dbUp,        \* the server's database connection works; nothing opens it again
    requests,    \* topic "requests"
    responses,   \* topic "responses": what each subscriber has still to read
    map,         \* the last snapshot on topic "map"
    server,      \* the server process: "running", or "crashed" by an exception
    announcing,  \* registrations stored and not yet in the topic: to be produced, or just queued
    joined       \* customers that were accepted and know the session

vars == <<db, now, dbUp, requests, responses, map, server, announcing, joined>>

Registration == [subject : {"NEW_TAXI", "TAXI_RECONNECTED"}, taxiId : Taxis,
                 session : {"current"}]

TypeOK ==
    /\ db \in Db
    /\ now \in 0..MaxNow
    /\ dbUp \in BOOLEAN
    /\ requests \in Seq(Request)
    /\ responses \in Inboxes
    /\ map \in Map
    /\ server \in {"running", "crashed"}
    /\ announcing \subseteq Registration
    /\ joined \subseteq Customers

\* A fresh session, or one that is resumed: with its rows, and with customers that were accepted.
Init ==
    /\ \/ db = EmptyDb(Locations) /\ joined = {}
       \/ db \in Resumed /\ joined \in SUBSET Customers
    /\ now = 0
    /\ dbUp = TRUE
    /\ requests = <<>>
    /\ responses = [s \in Subscribers |-> <<>>]
    /\ map = View(db)
    /\ server = "running"
    /\ announcing = {}

-----------------------------------------------------------------------------
(* The loop                                                                *)

request == Head(requests)

Pending == server = "running" /\ requests # <<>>

Authentic(m) == m.subject \notin GreenList => m.session = "current"

\* A message of the given subjects is at the head and passes the session check.
Receives(subjects) ==
    /\ Pending
    /\ request.subject \in subjects
    /\ Authentic(request)

\* The connection breaks during this step.
Breaks == DbMayFail /\ dbUp /\ dbUp' = FALSE

\* Mutant: the map is read before the handler's statements have run.
PublishedBefore(d, answered) ==
    /\ requests' = Tail(requests)
    /\ db' = IF dbUp THEN d ELSE db
    /\ responses' = answered
    /\ map' = IF dbUp THEN View(db) ELSE map
    /\ UNCHANGED <<now, dbUp, server, announcing>>

\* The handler is done: what it stored, what it answered, and refreshMap.  Without a
\* connection no query has any effect and no map is published; it may break as late as here.
Done(d, answered) ==
    /\ requests' = Tail(requests)
    /\ db' = IF dbUp THEN d ELSE db
    /\ responses' = answered
    /\ \/ map' = (IF dbUp THEN View(d) ELSE map) /\ dbUp' = dbUp
       \/ map' = map /\ Breaks
    /\ UNCHANGED <<now, server, announcing>>

\* An exception leaves startInternal and aborts the process.  The producer hands messages over
\* in the background: what this handler answered is lost or not.  Its message is not committed.
Abort(d, answered) ==
    /\ server' = "crashed"
    /\ db' = IF dbUp THEN d ELSE db
    /\ responses' \in {responses, answered}
    /\ UNCHANGED <<now, dbUp, requests, map, announcing, joined>>

Simple(d, answered) == Done(d, answered) /\ UNCHANGED joined

\* A message from another session is skipped, and no map is published.
IgnoreOtherSession ==
    /\ Pending
    /\ ~Authentic(request)
    /\ requests' = Tail(requests)
    /\ UNCHANGED <<db, now, dbUp, responses, map, server, announcing, joined>>

-----------------------------------------------------------------------------
(* Queries whose result is empty without a connection                      *)

checkQueue(d) == IF dbUp THEN FirstInQueue(d) ELSE {}

checkAvailableTaxis == IF dbUp THEN AvailableTaxis(db) ELSE {}

carryingClient(t) == IF dbUp THEN CarriedBy(db, t) ELSE None

getService(t) == IF dbUp THEN ServiceOf(db, t) ELSE None

\* Mutant: sends the destination read before the UPDATE.
AssignedBefore(answered, d, t, c) ==
    Send(Send(answered, t, GoTo(db.taxis[t].dest)), c, Accepted(t))

\* What assign(t, c) sends: the taxi to the customer's position, then the news to the customer.
Assigned(answered, d, t, c) ==
    Send(Send(answered, t, GoTo(d.taxis[t].dest)), c, Accepted(t))

\* assign(t, c) in a handler that ends with it.
EndByAssigning(d, answered, t, c) ==
    IF AssignThrows(d, t, c)
    THEN Abort(d, answered)
    ELSE LET e == Assign(d, t, c) IN Simple(e, Assigned(answered, e, t, c))

-----------------------------------------------------------------------------
(* Taxis                                                                   *)

\* A taxi that joins takes the customer that heads the queue.
TaxiJoins ==
    /\ Receives({"NEW_TAXI", "TAXI_RECONNECTED"})
    /\ \/ checkQueue(db) = {} /\ Simple(db, responses)
       \/ \E c \in checkQueue(db) : EndByAssigning(db, responses, request.taxiId, c)

\* Mutant: the customer on board stays behind.
MovedAlone == MoveTaxi(db, request.taxiId, request.coord)

\* The position of the taxi and of the customer it carries.
Moved ==
    LET moved == MoveTaxi(db, request.taxiId, request.coord)
        c == carryingClient(request.taxiId)
    IN  IF c = None THEN moved ELSE MoveCustomer(moved, c, request.coord)

TaxiMoves ==
    /\ Receives({"TAXI_MOVE"})
    /\ Simple(Moved, responses)

\* Destination reached with a customer on board: the ride is over and the taxi takes the
\* customer that heads the queue.
CompleteRide ==
    /\ Receives({"TAXI_DESTINATION_REACHED"})
    /\ LET t == request.taxiId
           c == carryingClient(t)
           d == SetOnboard(Moved, c, t, FALSE)
           answered == Send(responses, c, Notice("CUSTOMER_SERVICE_COMPLETED"))
       IN  /\ c # None
           /\ \/ checkQueue(d) = {} /\ Simple(d, answered)
              \/ \E q \in checkQueue(d) : EndByAssigning(d, answered, t, q)

\* Mutant: no test for a destination that is missing.
PickUpUnchecked ==
    /\ Receives({"TAXI_DESTINATION_REACHED"})
    /\ LET t == request.taxiId
           c == getService(t)
       IN  /\ carryingClient(t) = None
           /\ c # None
           /\ Simple(SetOnboard(Moved, c, t, TRUE),
                     Send(Send(responses, c, Notice("CUSTOMER_PICKED_UP")),
                          t, GoTo(DestinationOf(db, c))))

\* Destination reached by an empty taxi that has a service: the customer boards, even when
\* there is no destination to take it to.
PickUpCustomer ==
    /\ Receives({"TAXI_DESTINATION_REACHED"})
    /\ LET t == request.taxiId
           c == getService(t)
           p == DestinationOf(db, c)
       IN  /\ carryingClient(t) = None
           /\ c # None
           /\ Simple(SetOnboard(Moved, c, t, TRUE),
                     IF p = None
                     THEN Send(responses, c, Notice("CUSTOMER_SERVICE_DENIED"))
                     ELSE Send(Send(responses, c, Notice("CUSTOMER_PICKED_UP")), t, GoTo(p)))

\* Destination reached by an empty taxi with no service: customer.value() throws, before the
\* test for this case.
ReachWithoutService ==
    /\ Receives({"TAXI_DESTINATION_REACHED"})
    /\ carryingClient(request.taxiId) = None
    /\ getService(request.taxiId) = None
    /\ Abort(Moved, responses)

SetTaxiReady ==
    /\ Receives({"TAXI_READY", "TAXI_NOT_READY"})
    /\ Simple(SetReady(db, request.taxiId, request.subject = "TAXI_READY"), responses)

UpdateWaitTime ==
    /\ Receives({"TAXI_UPDATE_WAIT_TIME"})
    /\ Simple(SetWaitTime(db, request.taxiId, request.data), responses)

\* TAXI_PING and CUSTOMER_PING write last_update only.
Ping ==
    /\ Receives({"TAXI_PING", "CUSTOMER_PING"})
    /\ Simple(db, responses)

-----------------------------------------------------------------------------
(* Customers                                                               *)

\* Accepted with the session, or denied while a customer of that id is in the database.
NewCustomer ==
    /\ Receives({"NEW_CUSTOMER"})
    /\ LET c == request.id
           d == InsertCustomer(db, c, request.coord)
       IN  \/ /\ ~dbUp
              /\ Simple(db, responses)
           \/ /\ dbUp /\ HasCustomer(db, c)
              /\ Simple(db, Send(responses, c, Notice("DENY")))
           \/ /\ dbUp /\ ~HasCustomer(db, c)
              /\ joined' = joined \cup {c}
              /\ Done(d, Send(responses, c, Notice("ACCEPT")))

\* No taxi: the customer is queued, and what it asked for is not stored.  Otherwise the
\* destination is stored and the taxi assigned; ACCEPTED goes out twice.
ServiceRequest ==
    /\ Receives({"CUSTOMER_SERVICE_REQUEST"})
    /\ LET c == request.id
           l == request.data
           d == SetDestination(db, c, l)
       IN  \/ /\ checkAvailableTaxis = {}
              /\ Simple(Enqueue(db, c, now), Send(responses, c, Notice("CUSTOMER_ENQUEUED")))
           \/ /\ checkAvailableTaxis # {}
              /\ SetDestinationFails(db, c, l)
              /\ Simple(db, Send(responses, c, Notice("CUSTOMER_SERVICE_DENIED")))
           \/ /\ ~SetDestinationFails(db, c, l)
              /\ \E t \in checkAvailableTaxis :
                    LET e == Assign(d, t, c)
                    IN  IF AssignThrows(d, t, c)
                        THEN Abort(d, responses)
                        ELSE Simple(e, Send(Assigned(responses, e, t, c), c, Accepted(t)))

UpdateNextRequest ==
    /\ Receives({"CUSTOMER_UPDATE_NEXT_REQUEST"})
    /\ Simple(SetNextRequest(db, request.id, request.data), responses)

-----------------------------------------------------------------------------
(* Orders of the front end, and of checkStrays                             *)

OrderGoTo ==
    /\ Receives({"ORDER_TAXI_GO_TO", "ORDER_TAXI_RETURN_TO_BASE"})
    /\ LET t == request.taxiId
           p == IF request.subject = "ORDER_TAXI_GO_TO" THEN request.coord ELSE Base
       IN  Simple(SendTaxi(db, t, p), Send(responses, t, GoTo(p)))

OrderStop ==
    /\ Receives({"ORDER_TAXI_STOP"})
    /\ Simple(SetStopped(db, request.taxiId, TRUE),
              Send(responses, request.taxiId, Notice("TAXI_STOP")))

\* Mutant: the query of OrderStop, copied.
ContinueStoresStop ==
    /\ Receives({"ORDER_TAXI_CONTINUE"})
    /\ Simple(SetStopped(db, request.taxiId, TRUE),
              Send(responses, request.taxiId, Notice("TAXI_CONTINUE")))

OrderContinue ==
    /\ Receives({"ORDER_TAXI_CONTINUE"})
    /\ Simple(SetStopped(db, request.taxiId, FALSE),
              Send(responses, request.taxiId, Notice("TAXI_CONTINUE")))

OrderTaxiDisconnect ==
    /\ Receives({"ORDER_TAXI_DISCONNECT"})
    /\ Simple(DisconnectTaxi(db, request.taxiId),
              Send(responses, request.taxiId, Notice("TAXI_DISCONNECT")))

\* The customer is told even when the DELETE is refused because it is being carried.
OrderCustomerDisconnect ==
    /\ Receives({"ORDER_CUSTOMER_DISCONNECT"})
    /\ Simple(DeleteCustomer(db, request.id),
              Send(responses, request.id, Notice("CUSTOMER_DISCONNECT")))

\* in_queue becomes NULL.
OrderPriority ==
    /\ Receives({"ORDER_CUSTOMER_PRIORITY"})
    /\ Simple(Dequeue(db, request.id), Send(responses, request.id, Notice("CUSTOMER_PRIORITY")))

OrderLocationMove ==
    /\ Receives({"ORDER_LOCATION_MOVE"})
    /\ Simple(MoveLocation(db, request.id, request.coord), responses)

-----------------------------------------------------------------------------
(* The connection breaks between two queries of a handler                  *)

\* The handler goes on with d stored, and without its last queries and refreshMap.
Broken(d, answered) ==
    /\ Breaks
    /\ requests' = Tail(requests)
    /\ db' = d
    /\ responses' = answered
    /\ UNCHANGED <<now, map, server, announcing, joined>>

\* assign() reads the result of a query that has none.
AssignBroken(d, answered, t, c) ==
    /\ DbMayFail /\ dbUp
    /\ \E e \in {d, Assign(d, t, c)} : Abort(e, answered)

JoinBroken ==
    /\ Receives({"NEW_TAXI", "TAXI_RECONNECTED"})
    /\ \E c \in checkQueue(db) : AssignBroken(db, responses, request.taxiId, c)

\* The customer is told that its ride is over, whether or not it has left its seat.
RideBroken ==
    /\ Receives({"TAXI_DESTINATION_REACHED"})
    /\ LET t == request.taxiId
           c == carryingClient(t)
           d == SetOnboard(Moved, c, t, FALSE)
           answered == Send(responses, c, Notice("CUSTOMER_SERVICE_COMPLETED"))
       IN  /\ c # None
           /\ \/ \E e \in {db, Moved, d} : Broken(e, answered)
              \/ \E q \in checkQueue(d) : AssignBroken(d, answered, t, q)

\* No service, no destination, or nobody on board.
PickUpBroken ==
    /\ Receives({"TAXI_DESTINATION_REACHED"})
    /\ LET t == request.taxiId
           c == getService(t)
           p == DestinationOf(db, c)
           denied == Send(responses, c, Notice("CUSTOMER_SERVICE_DENIED"))
       IN  /\ carryingClient(t) = None
           /\ c # None
           /\ \/ DbMayFail /\ dbUp /\ Abort(Moved, responses)
              \/ Broken(Moved, denied)
              \/ /\ p # None
                 /\ Broken(Moved, Send(Send(responses, c, Notice("CUSTOMER_PICKED_UP")), t, GoTo(p)))

\* The customer gets a row, and no answer.
NewCustomerBroken ==
    /\ Receives({"NEW_CUSTOMER"})
    /\ ~HasCustomer(db, request.id)
    /\ Broken(InsertCustomer(db, request.id, request.coord), responses)

ServiceBroken ==
    /\ Receives({"CUSTOMER_SERVICE_REQUEST"})
    /\ LET c == request.id
           d == SetDestination(db, c, request.data)
       IN  /\ checkAvailableTaxis # {} /\ ~SetDestinationFails(db, c, request.data)
           /\ \/ \E e \in {db, d} : Broken(e, Send(responses, c, Notice("CUSTOMER_SERVICE_DENIED")))
              \/ \E t \in checkAvailableTaxis : AssignBroken(d, responses, t, c)

\* Where a handler has one query, or reads no more of the database, it goes as without a
\* connection (LoseDb before it) or loses the map alone (Done).
HandleBroken == JoinBroken \/ RideBroken \/ PickUpBroken \/ NewCustomerBroken \/ ServiceBroken

-----------------------------------------------------------------------------
(* The server's own steps                                                  *)

Handle ==
    \/ IgnoreOtherSession
    \/ TaxiJoins \/ TaxiMoves \/ CompleteRide \/ PickUpCustomer \/ ReachWithoutService
    \/ SetTaxiReady \/ UpdateWaitTime \/ Ping
    \/ NewCustomer \/ ServiceRequest \/ UpdateNextRequest
    \/ OrderGoTo \/ OrderStop \/ OrderContinue \/ OrderTaxiDisconnect
    \/ OrderCustomerDisconnect \/ OrderPriority \/ OrderLocationMove

\* Bound: the server is not ahead of its readers by more than MaxUnread.
NotAhead == \A s \in Subscribers : Len(responses[s]) <= MaxUnread

-----------------------------------------------------------------------------
(* Around the server                                                       *)

\* The second the TIMESTAMP of the queue counts in.
Tick ==
    /\ now < MaxNow
    /\ now' = now + 1
    /\ UNCHANGED <<db, dbUp, requests, responses, map, server, announcing, joined>>

LoseDb ==
    /\ Breaks
    /\ UNCHANGED <<db, now, requests, responses, map, server, announcing, joined>>

\* Mutant: a taxi that connects again is not announced.
RegisterUnannounced(t) ==
    /\ ~(HasTaxi(db, t) /\ db.taxis[t].connected)
    /\ db' = RegisterTaxi(db, t)
    /\ announcing' = announcing \cup
        {m \in Registration : ~HasTaxi(db, t) /\ m.subject = "NEW_TAXI" /\ m.taxiId = t}
    /\ UNCHANGED <<now, dbUp, requests, responses, map, server, joined>>

\* AuthServer, step one: checkId found no row or a disconnected taxi, and addTaxi stores it.
Register(t) ==
    /\ ~(HasTaxi(db, t) /\ db.taxis[t].connected)
    /\ db' = RegisterTaxi(db, t)
    /\ announcing' = announcing \cup
        {[subject |-> IF HasTaxi(db, t) THEN "TAXI_RECONNECTED" ELSE "NEW_TAXI",
          taxiId |-> t, session |-> "current"]}
    /\ UNCHANGED <<now, dbUp, requests, responses, map, server, joined>>

\* The bounds on topic "requests".
Room == Len(requests) < MaxRequests /\ (Patient => NotAhead)

\* Step two: addTaxi produces the request.
Announce ==
    \E m \in announcing :
        /\ Room
        /\ requests' = Append(requests, m)
        /\ announcing' = announcing \ {m}
        /\ UNCHANGED <<db, now, dbUp, responses, map, server, joined>>

\* Who can have sent m: a registered taxi, a customer that joined; the front end and newcomers
\* are free.  A client of an earlier session may still send what it likes.
CanSend(m) ==
    m.subject \notin GreenList /\ m.session = "current" =>
        IF m.subject \in TaxiSignals \cup TaxiArrivals \cup {"TAXI_UPDATE_WAIT_TIME"}
        THEN HasTaxi(db, m.taxiId)
        ELSE m.id \in joined

\* NEW_TAXI and TAXI_RECONNECTED come from Announce alone.
Submit(m) ==
    /\ Room
    /\ requests' = Append(requests, m)
    /\ m.subject \notin {"NEW_TAXI", "TAXI_RECONNECTED"}
    /\ CanSend(m)
    /\ UNCHANGED <<db, now, dbUp, responses, map, server, announcing, joined>>

\* A subscriber reads on.
Read(s) ==
    /\ responses[s] # <<>>
    /\ responses' = [responses EXCEPT ![s] = Tail(@)]
    /\ UNCHANGED <<db, now, dbUp, requests, map, server, announcing, joined>>

Environment ==
    \/ Tick
    \/ LoseDb
    \/ \E t \in Taxis : Register(t)
    \/ Announce
    \/ \E s \in Subscribers : Read(s)
    \/ \E m \in Inputs : Submit(m)

Next == (NotAhead /\ (Handle \/ HandleBroken)) \/ Environment

Spec == Init /\ [][Next]_vars

-----------------------------------------------------------------------------
(* Properties                                                              *)

\* What the front end shows is what the central knows: once every request has been handled and
\* every registration announced, the last map published is the database's view.  refreshMap runs
\* after each handler, and AuthServer relies on the request it sends to have one published.
MapFresh ==
    (server = "running" /\ dbUp /\ requests = <<>> /\ announcing = {}) => map = View(db)

\* A registration waits to be handled.
Refreshing ==
    \E i \in DOMAIN requests :
        requests[i].subject \in {"NEW_TAXI", "TAXI_RECONNECTED"} /\ requests[i].session = "current"

\* Why MapFresh holds, at every moment: the map lags behind the database only for a registration
\* that the central has still to be told of, or to handle.  Nobody else writes the database.
MapLagsForRegistrations ==
    (server = "running" /\ dbUp) => (map = View(db) \/ announcing # {} \/ Refreshing)

\* m is among the notices this step adds to the inbox of s.
Tells(s, m) ==
    \E i \in Len(responses[s]) + 1 .. Len(responses'[s]) : responses'[s][i] = m

\* Nobody is promised a taxi that is not on its way: when a customer of the database is told it
\* was assigned taxi t, the same handler has stored it as t's service, has set t's destination to
\* where the customer stands, and has told t to go there.  The template `response`, the JOIN of
\* assign and its read-back have to agree for this.
AssignmentAnnounced ==
    [][\A c \in Customers, t \in Taxis :
        Tells(c, Accepted(t)) /\ HasCustomer(db, c) =>
            /\ db'.taxis[t].service = c
            /\ db'.taxis[t].dest = db'.customers[c].pos
            /\ Tells(t, GoTo(db'.customers[c].pos))]_vars

\* The central carries customers the way Carriage promises: what it tells riders is what its
\* database does to them, whatever the order of arrivals and orders, and a connection that breaks
\* in the middle of a handler makes it say one untrue thing at most.
Rides == INSTANCE Carriage WITH
    aboard    <- [t \in Taxis |-> CarriedBy(db, t)],
    notices   <- [c \in Customers |-> responses[c]],
    recording <- dbUp

CarriageImplemented == Rides!Spec
=============================================================================

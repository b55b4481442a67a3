------------------------- MODULE KafkaServerProofs --------------------------
(***************************************************************************)
(* What holds of KafkaServer for any taxis, customers, locations, cells    *)
(* and inputs.                                                             *)
(***************************************************************************)
EXTENDS KafkaServer, TLAPS

-----------------------------------------------------------------------------
(* Types of what the database operators return                             *)

LEMMA TaxiRowType ==
    ASSUME NEW d \in Db, NEW t \in Taxis, HasTaxi(d, t)
    PROVE  d.taxis[t] \in TaxiRow
BY DEF Db, HasTaxi

LEMMA CustomerRowType ==
    ASSUME NEW d \in Db, NEW c \in Customers, HasCustomer(d, c)
    PROVE  d.customers[c] \in CustomerRow
BY DEF Db, HasCustomer

LEMMA SetTaxiType ==
    ASSUME NEW d \in Db, NEW t \in Taxis, NEW row, HasTaxi(d, t) => row \in TaxiRow
    PROVE  SetTaxi(d, t, row) \in Db
BY DEF SetTaxi, HasTaxi, Db

LEMMA SetCustomerType ==
    ASSUME NEW d \in Db, NEW c \in Customers, NEW row, HasCustomer(d, c) => row \in CustomerRow
    PROVE  SetCustomer(d, c, row) \in Db
BY DEF SetCustomer, HasCustomer, Db

LEMMA TaxiUpdatesType ==
    ASSUME NEW d \in Db, NEW t \in Taxis
    PROVE  /\ DisconnectTaxi(d, t) \in Db
           /\ \A b \in BOOLEAN : SetReady(d, t, b) \in Db /\ SetStopped(d, t, b) \in Db
           /\ \A w \in Countdown : SetWaitTime(d, t, w) \in Db
           /\ \A p \in Points : MoveTaxi(d, t, p) \in Db /\ SendTaxi(d, t, p) \in Db
<1>1. DisconnectTaxi(d, t) \in Db
  BY TaxiRowType, SetTaxiType DEF DisconnectTaxi, TaxiRow
<1>2. ASSUME NEW b \in BOOLEAN PROVE SetReady(d, t, b) \in Db /\ SetStopped(d, t, b) \in Db
  BY TaxiRowType, SetTaxiType DEF SetReady, SetStopped, TaxiRow
<1>3. ASSUME NEW w \in Countdown PROVE SetWaitTime(d, t, w) \in Db
  BY TaxiRowType, SetTaxiType DEF SetWaitTime, TaxiRow
<1>4. ASSUME NEW p \in Points PROVE MoveTaxi(d, t, p) \in Db /\ SendTaxi(d, t, p) \in Db
  BY TaxiRowType, SetTaxiType DEF MoveTaxi, SendTaxi, TaxiRow
<1>5. QED BY <1>1, <1>2, <1>3, <1>4

LEMMA CustomerUpdatesType ==
    ASSUME NEW d \in Db, NEW c \in Customers
    PROVE  /\ DeleteCustomer(d, c) \in Db
           /\ Dequeue(d, c) \in Db
           /\ \A p \in Points : InsertCustomer(d, c, p) \in Db /\ MoveCustomer(d, c, p) \in Db
           /\ \A n \in Countdown : SetNextRequest(d, c, n) \in Db
           /\ \A n \in 0..MaxNow : Enqueue(d, c, n) \in Db
           /\ \A l \in Services : SetDestination(d, c, l) \in Db
<1>1. DeleteCustomer(d, c) \in Db
  BY DEF DeleteCustomer, Db
<1>2. Dequeue(d, c) \in Db
  BY CustomerRowType, SetCustomerType DEF Dequeue, CustomerRow
<1>3. ASSUME NEW p \in Points PROVE InsertCustomer(d, c, p) \in Db
  <2>1. NewCustomerRow(p) \in CustomerRow
    BY MaxNowAssumption DEF NewCustomerRow, CustomerRow, Countdown
  <2>2. QED BY <2>1 DEF InsertCustomer, Db
<1>4. ASSUME NEW p \in Points PROVE MoveCustomer(d, c, p) \in Db
  BY CustomerRowType, SetCustomerType DEF MoveCustomer, CustomerRow
<1>5. ASSUME NEW n \in Countdown PROVE SetNextRequest(d, c, n) \in Db
  BY CustomerRowType, SetCustomerType DEF SetNextRequest, CustomerRow
<1>6. ASSUME NEW n \in 0..MaxNow PROVE Enqueue(d, c, n) \in Db
  BY CustomerRowType, SetCustomerType DEF Enqueue, CustomerRow
<1>7. ASSUME NEW l \in Services PROVE SetDestination(d, c, l) \in Db
  BY CustomerRowType, SetCustomerType DEF SetDestination, CustomerRow
<1>8. QED BY <1>1, <1>2, <1>3, <1>4, <1>5, <1>6, <1>7

LEMMA RegisterTaxiType ==
    ASSUME NEW d \in Db, NEW t \in Taxis
    PROVE  RegisterTaxi(d, t) \in Db
<1>1. NewTaxiRow \in TaxiRow
  BY BaseAssumption DEF NewTaxiRow, TaxiRow, Countdown
<1>2. HasTaxi(d, t) => [d.taxis[t] EXCEPT !.connected = TRUE] \in TaxiRow
  BY TaxiRowType DEF TaxiRow
<1>3. QED BY <1>1, <1>2 DEF RegisterTaxi, Db

LEMMA MoveLocationType ==
    ASSUME NEW d \in Db, NEW l \in Services, NEW p \in Points
    PROVE  MoveLocation(d, l, p) \in Db
BY DEF MoveLocation, Db

LEMMA SetOnboardType ==
    ASSUME NEW d \in Db, NEW c \in Customers, NEW t \in Taxis, NEW val \in BOOLEAN
    PROVE  SetOnboard(d, c, t, val) \in Db
<1> DEFINE e == SetCustomer(d, c, [d.customers[c] EXCEPT !.onboard = val])
<1>1. e \in Db
  BY CustomerRowType, SetCustomerType DEF CustomerRow
<1>2. SetTaxi(e, t, [e.taxis[t] EXCEPT !.customer_id = IF val THEN c ELSE None]) \in Db
  BY <1>1, TaxiRowType, SetTaxiType DEF TaxiRow
<1>3. QED BY <1>1, <1>2 DEF SetOnboard

LEMMA AssignType ==
    ASSUME NEW d \in Db, NEW t \in Taxis, NEW c \in Customers
    PROVE  /\ Assign(d, t, c) \in Db
           /\ ~AssignThrows(d, t, c) => Assign(d, t, c).taxis[t].dest \in Points
<1>1. Assign(d, t, c) \in Db
  <2>1. CASE HasCustomer(d, c)
    <3>1. d.customers[c].pos \in Points
      BY <2>1, CustomerRowType DEF CustomerRow
    <3>2. QED BY <2>1, <3>1, TaxiRowType, SetTaxiType DEF Assign, TaxiRow
  <2>2. CASE ~HasCustomer(d, c)
    BY <2>2 DEF Assign
  <2>3. QED BY <2>1, <2>2
<1>2. ASSUME ~AssignThrows(d, t, c) PROVE Assign(d, t, c).taxis[t].dest \in Points
  <2> DEFINE e == Assign(d, t, c)
  <2>1. HasTaxi(d, t) /\ e.taxis[t].dest # None
    BY <1>2 DEF AssignThrows
  <2>2. HasTaxi(e, t)
    <3>1. CASE HasCustomer(d, c)
      <4> DEFINE row == [d.taxis[t] EXCEPT !.dest = d.customers[c].pos, !.service = c]
      <4>1. row \in TaxiRow
        <5>1. d.customers[c].pos \in Points
          BY <3>1, CustomerRowType DEF CustomerRow
        <5>2. d.taxis[t] \in TaxiRow
          BY <2>1, TaxiRowType
        <5>3. QED BY <5>1, <5>2 DEF TaxiRow
      <4>2. row # None
        BY <4>1, NoRowAssumption
      <4>3. e.taxis[t] = row
        BY <2>1, <3>1 DEF Assign, SetTaxi, Db
      <4>4. QED BY <4>2, <4>3 DEF HasTaxi
    <3>2. CASE ~HasCustomer(d, c)
      BY <2>1, <3>2 DEF Assign
    <3>3. QED BY <3>1, <3>2
  <2>3. QED BY <1>1, <2>1, <2>2, TaxiRowType DEF TaxiRow
<1>3. QED BY <1>1, <1>2

LEMMA ViewType ==
    ASSUME NEW d \in Db
    PROVE  View(d) \in Map
<1>1. ASSUME NEW c \in Customers, HasCustomer(d, c)
      PROVE  [d.customers[c] EXCEPT !.in_queue = (@ # None)] \in CustomerShown
  BY <1>1, CustomerRowType DEF CustomerRow, CustomerShown
<1>2. ASSUME NEW t \in Taxis, HasTaxi(d, t)
      PROVE  [d.taxis[t] EXCEPT !.service = None] \in TaxiRow
  BY <1>2, TaxiRowType DEF TaxiRow
<1>3. QED BY <1>1, <1>2 DEF View, Map, Db

-----------------------------------------------------------------------------
(* Messages                                                                *)

LEMMA RequestMembers ==
    ASSUME NEW m \in Request
    PROVE  /\ m.subject \in TaxiSignals \cup TaxiArrivals \cup TaxiOrders
                 \cup {"TAXI_UPDATE_WAIT_TIME", "ORDER_TAXI_GO_TO"} => m.taxiId \in Taxis
           /\ m.subject \in CustomerOrders
                 \cup {"NEW_CUSTOMER", "CUSTOMER_PING", "CUSTOMER_SERVICE_REQUEST",
                       "CUSTOMER_UPDATE_NEXT_REQUEST"} => m.id \in Customers
           /\ m.subject \in TaxiArrivals
                 \cup {"NEW_CUSTOMER", "ORDER_TAXI_GO_TO", "ORDER_LOCATION_MOVE"} => m.coord \in Points
           /\ m.subject \in {"TAXI_UPDATE_WAIT_TIME", "CUSTOMER_UPDATE_NEXT_REQUEST"}
                 => m.data \in Countdown
           /\ m.subject = "CUSTOMER_SERVICE_REQUEST" => m.data \in Services
           /\ m.subject = "ORDER_LOCATION_MOVE" => m.id \in Services
BY DEF Request, TaxiSignals, TaxiArrivals, TaxiOrders, CustomerOrders

LEMMA NoticeTypes ==
    /\ \A p \in Points : GoTo(p) \in TaxiNotice
    /\ \A t \in Taxis : Accepted(t) \in CustomerNotice
    /\ \A s \in {"TAXI_STOP", "TAXI_CONTINUE", "TAXI_DISCONNECT"} : Notice(s) \in TaxiNotice
    /\ \A s \in {"CUSTOMER_DISCONNECT", "CUSTOMER_PRIORITY", "CUSTOMER_PICKED_UP",
                  "CUSTOMER_ENQUEUED", "CUSTOMER_SERVICE_COMPLETED",
                  "CUSTOMER_SERVICE_DENIED", "ACCEPT", "DENY"} : Notice(s) \in CustomerNotice
BY DEF GoTo, Accepted, Notice, TaxiNotice, CustomerNotice

LEMMA SendType ==
    ASSUME NEW inbox \in Inboxes, NEW s \in Subscribers, NEW m \in TaxiNotice \cup CustomerNotice
    PROVE  Send(inbox, s, m) \in Inboxes
BY DEF Send, Inboxes

-----------------------------------------------------------------------------
(* What every handler does                                                 *)

\* The message at the head was authentic and is answered, from a database to a database.
Handled ==
    /\ Pending /\ Authentic(request)
    /\ \E d \in Db, answered \in Inboxes :
        \/ Done(d, answered) /\ joined' \subseteq Customers
        \/ Abort(d, answered)
        \/ Broken(d, answered)

LEMMA SimpleHandles ==
    ASSUME TypeOK, NEW S, Receives(S), NEW d \in Db, NEW answered \in Inboxes,
           Simple(d, answered) \/ Abort(d, answered)
    PROVE  Handled
BY DEF Handled, Receives, Simple, TypeOK

LEMMA AssigningHandles ==
    ASSUME TypeOK, NEW S, Receives(S), NEW d \in Db, NEW answered \in Inboxes,
           NEW t \in Taxis, NEW c \in Customers, EndByAssigning(d, answered, t, c)
    PROVE  Handled
<1> DEFINE e == Assign(d, t, c)
<1>1. CASE AssignThrows(d, t, c)
  BY <1>1, SimpleHandles DEF EndByAssigning
<1>2. CASE ~AssignThrows(d, t, c)
  <2>1. e \in Db /\ e.taxis[t].dest \in Points
    BY <1>2, AssignType
  <2>2. Assigned(answered, e, t, c) \in Inboxes
    BY <2>1, NoticeTypes, SendType DEF Assigned, Subscribers
  <2>3. QED BY <1>2, <2>1, <2>2, SimpleHandles DEF EndByAssigning
<1>3. QED BY <1>1, <1>2

LEMMA RequestType ==
    ASSUME TypeOK, NEW S, Receives(S)
    PROVE  /\ request \in Request
           /\ request.subject \in S
           /\ Tail(requests) \in Seq(Request)
BY DEF TypeOK, Receives, Pending, request

LEMMA QueryTypes ==
    ASSUME TypeOK, NEW t \in Taxis
    PROVE  /\ carryingClient(t) \in Customers \cup {None}
           /\ getService(t) \in Customers \cup {None}
           /\ checkAvailableTaxis \subseteq Taxis
           /\ \A d \in Db : checkQueue(d) \subseteq Customers
<1>1. HasTaxi(db, t) => db.taxis[t] \in TaxiRow
  BY TaxiRowType DEF TypeOK
<1>2. CarriedBy(db, t) \in Customers \cup {None} /\ ServiceOf(db, t) \in Customers \cup {None}
  BY <1>1 DEF CarriedBy, ServiceOf, TaxiRow
<1>3. QED
  BY <1>2 DEF carryingClient, getService, checkAvailableTaxis, AvailableTaxis, checkQueue,
              FirstInQueue, Queued

LEMMA DestinationType ==
    ASSUME NEW d \in Db, NEW c \in Customers
    PROVE  DestinationOf(d, c) \in Points \cup {None}
<1>1. HasCustomer(d, c) => d.customers[c] \in CustomerRow
  BY CustomerRowType
<1>2. HasCustomer(d, c) /\ d.customers[c].destination # None => d.customers[c].destination \in Services
  BY <1>1 DEF CustomerRow
<1>3. QED BY <1>2 DEF DestinationOf, Db

LEMMA MovedType ==
    ASSUME TypeOK, request.taxiId \in Taxis, request.coord \in Points
    PROVE  Moved \in Db
<1> DEFINE moved == MoveTaxi(db, request.taxiId, request.coord)
           c == carryingClient(request.taxiId)
<1>1. moved \in Db
  BY TaxiUpdatesType DEF TypeOK
<1>2. c # None => MoveCustomer(moved, c, request.coord) \in Db
  BY <1>1, QueryTypes, CustomerUpdatesType
<1>3. QED BY <1>1, <1>2 DEF Moved

LEMMA EveryMessageHandled ==
    ASSUME TypeOK, Handle
    PROVE  IgnoreOtherSession \/ Handled
<1> DEFINE t == request.taxiId
           c == request.id
<1>0. /\ db \in Db /\ responses \in Inboxes /\ now \in 0..MaxNow
      /\ Taxis \subseteq Subscribers /\ Customers \subseteq Subscribers
  BY DEF TypeOK, Subscribers
<1>1. CASE IgnoreOtherSession
  BY <1>1
<1>2. CASE TaxiJoins
  <2>1. Receives({"NEW_TAXI", "TAXI_RECONNECTED"}) /\ t \in Taxis
    BY <1>2, RequestType, RequestMembers DEF TaxiJoins, TaxiSignals
  <2>2. checkQueue(db) \subseteq Customers
    BY <1>0, <2>1, QueryTypes
  <2>3. QED BY <1>0, <1>2, <2>1, <2>2, SimpleHandles, AssigningHandles DEF TaxiJoins
<1>3. CASE TaxiMoves
  <2>1. Receives({"TAXI_MOVE"}) /\ t \in Taxis /\ request.coord \in Points
    BY <1>3, RequestType, RequestMembers DEF TaxiMoves, TaxiArrivals
  <2>2. QED BY <1>0, <1>3, <2>1, MovedType, SimpleHandles DEF TaxiMoves
<1>4. CASE CompleteRide
  <2> DEFINE r == carryingClient(t)
             d == SetOnboard(Moved, r, t, FALSE)
             answered == Send(responses, r, Notice("CUSTOMER_SERVICE_COMPLETED"))
  <2>1. Receives({"TAXI_DESTINATION_REACHED"}) /\ t \in Taxis /\ request.coord \in Points
    BY <1>4, RequestType, RequestMembers DEF CompleteRide, TaxiArrivals
  <2>2. r \in Customers
    BY <1>4, <2>1, QueryTypes DEF CompleteRide
  <2>3. d \in Db
    BY <2>1, <2>2, MovedType, SetOnboardType
  <2>4. answered \in Inboxes
    BY <1>0, <2>2, NoticeTypes, SendType
  <2>5. checkQueue(d) \subseteq Customers
    BY <2>1, <2>3, QueryTypes
  <2>6. QED
    BY <1>4, <2>1, <2>3, <2>4, <2>5, SimpleHandles, AssigningHandles DEF CompleteRide
<1>5. CASE PickUpCustomer
  <2> DEFINE r == getService(t)
             q == DestinationOf(db, r)
             d == SetOnboard(Moved, r, t, TRUE)
             denied == Send(responses, r, Notice("CUSTOMER_SERVICE_DENIED"))
             picked == Send(Send(responses, r, Notice("CUSTOMER_PICKED_UP")), t, GoTo(q))
  <2>1. Receives({"TAXI_DESTINATION_REACHED"}) /\ t \in Taxis /\ request.coord \in Points
    BY <1>5, RequestType, RequestMembers DEF PickUpCustomer, TaxiArrivals
  <2>2. r \in Customers
    BY <1>5, <2>1, QueryTypes DEF PickUpCustomer
  <2>3. d \in Db
    BY <2>1, <2>2, MovedType, SetOnboardType
  <2>4. denied \in Inboxes
    BY <1>0, <2>2, NoticeTypes, SendType
  <2>5. q # None => picked \in Inboxes
    BY <1>0, <2>1, <2>2, DestinationType, NoticeTypes, SendType
  <2>6. QED BY <1>5, <2>1, <2>3, <2>4, <2>5, SimpleHandles DEF PickUpCustomer
<1>6. CASE ReachWithoutService
  <2>1. Receives({"TAXI_DESTINATION_REACHED"}) /\ t \in Taxis /\ request.coord \in Points
    BY <1>6, RequestType, RequestMembers DEF ReachWithoutService, TaxiArrivals
  <2>2. QED BY <1>0, <1>6, <2>1, MovedType, SimpleHandles DEF ReachWithoutService
<1>7. CASE SetTaxiReady
  <2>1. Receives({"TAXI_READY", "TAXI_NOT_READY"}) /\ t \in Taxis
    BY <1>7, RequestType, RequestMembers DEF SetTaxiReady, TaxiSignals
  <2>2. SetReady(db, t, request.subject = "TAXI_READY") \in Db
    BY <1>0, <2>1, TaxiUpdatesType
  <2>3. QED BY <1>0, <1>7, <2>1, <2>2, SimpleHandles DEF SetTaxiReady
<1>8. CASE UpdateWaitTime
  <2>1. /\ Receives({"TAXI_UPDATE_WAIT_TIME"})
        /\ t \in Taxis /\ request.data \in Countdown
    BY <1>8, RequestType, RequestMembers DEF UpdateWaitTime
  <2>2. SetWaitTime(db, t, request.data) \in Db
    BY <1>0, <2>1, TaxiUpdatesType
  <2>3. QED BY <1>0, <1>8, <2>1, <2>2, SimpleHandles DEF UpdateWaitTime
<1>9. CASE Ping
  BY <1>0, <1>9, SimpleHandles DEF Ping
<1>10. CASE NewCustomer
  <2>1. Receives({"NEW_CUSTOMER"}) /\ c \in Customers /\ request.coord \in Points
    BY <1>10, RequestType, RequestMembers DEF NewCustomer
  <2>2. InsertCustomer(db, c, request.coord) \in Db
    BY <1>0, <2>1, CustomerUpdatesType
  <2>3. /\ Send(responses, c, Notice("DENY")) \in Inboxes
        /\ Send(responses, c, Notice("ACCEPT")) \in Inboxes
    BY <1>0, <2>1, NoticeTypes, SendType
  <2>4. joined \cup {c} \subseteq Customers
    BY <2>1 DEF TypeOK
  <2>5. QED
    BY <1>0, <1>10, <2>1, <2>2, <2>3, <2>4, SimpleHandles DEF NewCustomer, Handled, Receives
<1>11. CASE ServiceRequest
  <2> DEFINE d == SetDestination(db, c, request.data)
  <2>1. /\ Receives({"CUSTOMER_SERVICE_REQUEST"})
        /\ c \in Customers /\ request.data \in Services
    BY <1>11, RequestType, RequestMembers DEF ServiceRequest
  <2>2. Enqueue(db, c, now) \in Db /\ d \in Db
    BY <1>0, <2>1, CustomerUpdatesType
  <2>3. /\ Send(responses, c, Notice("CUSTOMER_ENQUEUED")) \in Inboxes
        /\ Send(responses, c, Notice("CUSTOMER_SERVICE_DENIED")) \in Inboxes
    BY <1>0, <2>1, NoticeTypes, SendType
  <2>4. checkAvailableTaxis \subseteq Taxis
    BY DEF checkAvailableTaxis, AvailableTaxis
  <2>5. ASSUME NEW a \in checkAvailableTaxis, ~AssignThrows(d, a, c)
        PROVE  /\ Assign(d, a, c) \in Db
               /\ Send(Assigned(responses, Assign(d, a, c), a, c), c, Accepted(a)) \in Inboxes
    <3>1. Assign(d, a, c) \in Db /\ Assign(d, a, c).taxis[a].dest \in Points
      BY <2>1, <2>2, <2>4, <2>5, AssignType
    <3>2. QED BY <1>0, <2>1, <2>4, <3>1, NoticeTypes, SendType DEF Assigned
  <2>6. QED
    BY <1>0, <1>11, <2>1, <2>2, <2>3, <2>5, SimpleHandles DEF ServiceRequest
<1>12. CASE UpdateNextRequest
  <2>1. /\ Receives({"CUSTOMER_UPDATE_NEXT_REQUEST"})
        /\ c \in Customers /\ request.data \in Countdown
    BY <1>12, RequestType, RequestMembers DEF UpdateNextRequest
  <2>2. SetNextRequest(db, c, request.data) \in Db
    BY <1>0, <2>1, CustomerUpdatesType
  <2>3. QED BY <1>0, <1>12, <2>1, <2>2, SimpleHandles DEF UpdateNextRequest
<1>13. CASE OrderGoTo
  <2> DEFINE q == IF request.subject = "ORDER_TAXI_GO_TO" THEN request.coord ELSE Base
  <2>1. Receives({"ORDER_TAXI_GO_TO", "ORDER_TAXI_RETURN_TO_BASE"}) /\ t \in Taxis
    BY <1>13, RequestType, RequestMembers DEF OrderGoTo, TaxiOrders
  <2>2. q \in Points
    BY <2>1, RequestType, RequestMembers, BaseAssumption
  <2>3. SendTaxi(db, t, q) \in Db /\ Send(responses, t, GoTo(q)) \in Inboxes
    BY <1>0, <2>1, <2>2, TaxiUpdatesType, NoticeTypes, SendType
  <2>4. QED BY <1>13, <2>1, <2>3, SimpleHandles DEF OrderGoTo
<1>14. CASE OrderStop
  <2>1. Receives({"ORDER_TAXI_STOP"}) /\ t \in Taxis
    BY <1>14, RequestType, RequestMembers DEF OrderStop, TaxiOrders
  <2>2. SetStopped(db, t, TRUE) \in Db /\ Send(responses, t, Notice("TAXI_STOP")) \in Inboxes
    BY <1>0, <2>1, TaxiUpdatesType, NoticeTypes, SendType
  <2>3. QED BY <1>14, <2>1, <2>2, SimpleHandles DEF OrderStop
<1>15. CASE OrderContinue
  <2>1. Receives({"ORDER_TAXI_CONTINUE"}) /\ t \in Taxis
    BY <1>15, RequestType, RequestMembers DEF OrderContinue, TaxiOrders
  <2>2. /\ SetStopped(db, t, FALSE) \in Db
        /\ Send(responses, t, Notice("TAXI_CONTINUE")) \in Inboxes
    BY <1>0, <2>1, TaxiUpdatesType, NoticeTypes, SendType
  <2>3. QED BY <1>15, <2>1, <2>2, SimpleHandles DEF OrderContinue
<1>16. CASE OrderTaxiDisconnect
  <2>1. Receives({"ORDER_TAXI_DISCONNECT"}) /\ t \in Taxis
    BY <1>16, RequestType, RequestMembers DEF OrderTaxiDisconnect, TaxiOrders
  <2>2. /\ DisconnectTaxi(db, t) \in Db
        /\ Send(responses, t, Notice("TAXI_DISCONNECT")) \in Inboxes
    BY <1>0, <2>1, TaxiUpdatesType, NoticeTypes, SendType
  <2>3. QED BY <1>16, <2>1, <2>2, SimpleHandles DEF OrderTaxiDisconnect
<1>17. CASE OrderCustomerDisconnect
  <2>1. Receives({"ORDER_CUSTOMER_DISCONNECT"}) /\ c \in Customers
    BY <1>17, RequestType, RequestMembers DEF OrderCustomerDisconnect, CustomerOrders
  <2>2. /\ DeleteCustomer(db, c) \in Db
        /\ Send(responses, c, Notice("CUSTOMER_DISCONNECT")) \in Inboxes
    BY <1>0, <2>1, CustomerUpdatesType, NoticeTypes, SendType
  <2>3. QED BY <1>17, <2>1, <2>2, SimpleHandles DEF OrderCustomerDisconnect
<1>18. CASE OrderPriority
  <2>1. Receives({"ORDER_CUSTOMER_PRIORITY"}) /\ c \in Customers
    BY <1>18, RequestType, RequestMembers DEF OrderPriority, CustomerOrders
  <2>2. /\ Dequeue(db, c) \in Db
        /\ Send(responses, c, Notice("CUSTOMER_PRIORITY")) \in Inboxes
    BY <1>0, <2>1, CustomerUpdatesType, NoticeTypes, SendType
  <2>3. QED BY <1>18, <2>1, <2>2, SimpleHandles DEF OrderPriority
<1>19. CASE OrderLocationMove
  <2>1. /\ Receives({"ORDER_LOCATION_MOVE"})
        /\ request.id \in Services /\ request.coord \in Points
    BY <1>19, RequestType, RequestMembers DEF OrderLocationMove
  <2>2. MoveLocation(db, request.id, request.coord) \in Db
    BY <1>0, <2>1, MoveLocationType
  <2>3. QED BY <1>0, <1>19, <2>1, <2>2, SimpleHandles DEF OrderLocationMove
<1>20. QED
  BY <1>1, <1>2, <1>3, <1>4, <1>5, <1>6, <1>7, <1>8, <1>9, <1>10, <1>11, <1>12, <1>13, <1>14,
     <1>15, <1>16, <1>17, <1>18, <1>19 DEF Handle

LEMMA BreakingHandles ==
    ASSUME NEW S, Receives(S), NEW d \in Db, NEW answered \in Inboxes,
           Broken(d, answered) \/ Abort(d, answered)
    PROVE  Handled
BY DEF Handled, Receives

LEMMA AssigningBreakHandles ==
    ASSUME NEW S, Receives(S), NEW d \in Db, NEW answered \in Inboxes,
           NEW t \in Taxis, NEW c \in Customers, AssignBroken(d, answered, t, c)
    PROVE  Handled
<1>1. PICK e \in {d, Assign(d, t, c)} : Abort(e, answered)
  BY DEF AssignBroken
<1>2. e \in Db
  BY AssignType
<1>3. QED BY <1>1, <1>2, BreakingHandles

LEMMA EveryBreakHandled ==
    ASSUME TypeOK, HandleBroken
    PROVE  Handled
<1> DEFINE t == request.taxiId
           c == request.id
<1>0. /\ db \in Db /\ responses \in Inboxes
      /\ Taxis \subseteq Subscribers /\ Customers \subseteq Subscribers
  BY DEF TypeOK, Subscribers
<1>1. CASE JoinBroken
  <2>1. Receives({"NEW_TAXI", "TAXI_RECONNECTED"}) /\ t \in Taxis
    BY <1>1, RequestType, RequestMembers DEF JoinBroken, TaxiSignals
  <2>2. checkQueue(db) \subseteq Customers
    BY <1>0, <2>1, QueryTypes
  <2>3. QED BY <1>0, <1>1, <2>1, <2>2, AssigningBreakHandles DEF JoinBroken
<1>2. CASE RideBroken
  <2> DEFINE r == carryingClient(t)
             d == SetOnboard(Moved, r, t, FALSE)
             answered == Send(responses, r, Notice("CUSTOMER_SERVICE_COMPLETED"))
  <2>1. Receives({"TAXI_DESTINATION_REACHED"}) /\ t \in Taxis /\ request.coord \in Points
    BY <1>2, RequestType, RequestMembers DEF RideBroken, TaxiArrivals
  <2>2. r \in Customers
    BY <1>2, <2>1, QueryTypes DEF RideBroken
  <2>3. Moved \in Db /\ d \in Db
    BY <2>1, <2>2, MovedType, SetOnboardType
  <2>4. answered \in Inboxes
    BY <1>0, <2>2, NoticeTypes, SendType
  <2>5. checkQueue(d) \subseteq Customers
    BY <2>1, <2>3, QueryTypes
  <2>6. QED
    BY <1>0, <1>2, <2>1, <2>3, <2>4, <2>5, BreakingHandles, AssigningBreakHandles DEF RideBroken
<1>3. CASE PickUpBroken
  <2> DEFINE r == getService(t)
             q == DestinationOf(db, r)
             denied == Send(responses, r, Notice("CUSTOMER_SERVICE_DENIED"))
             picked == Send(Send(responses, r, Notice("CUSTOMER_PICKED_UP")), t, GoTo(q))
  <2>1. Receives({"TAXI_DESTINATION_REACHED"}) /\ t \in Taxis /\ request.coord \in Points
    BY <1>3, RequestType, RequestMembers DEF PickUpBroken, TaxiArrivals
  <2>2. r \in Customers
    BY <1>3, <2>1, QueryTypes DEF PickUpBroken
  <2>3. Moved \in Db
    BY <2>1, MovedType
  <2>4. denied \in Inboxes
    BY <1>0, <2>2, NoticeTypes, SendType
  <2>5. q # None => picked \in Inboxes
    BY <1>0, <2>1, <2>2, DestinationType, NoticeTypes, SendType
  <2>6. QED BY <1>0, <1>3, <2>1, <2>3, <2>4, <2>5, BreakingHandles DEF PickUpBroken
<1>4. CASE NewCustomerBroken
  <2>1. Receives({"NEW_CUSTOMER"}) /\ c \in Customers /\ request.coord \in Points
    BY <1>4, RequestType, RequestMembers DEF NewCustomerBroken
  <2>2. InsertCustomer(db, c, request.coord) \in Db
    BY <1>0, <2>1, CustomerUpdatesType
  <2>3. QED BY <1>0, <1>4, <2>1, <2>2, BreakingHandles DEF NewCustomerBroken
<1>5. CASE ServiceBroken
  <2> DEFINE d == SetDestination(db, c, request.data)
  <2>1. /\ Receives({"CUSTOMER_SERVICE_REQUEST"})
        /\ c \in Customers /\ request.data \in Services
    BY <1>5, RequestType, RequestMembers DEF ServiceBroken
  <2>2. d \in Db
    BY <1>0, <2>1, CustomerUpdatesType
  <2>3. Send(responses, c, Notice("CUSTOMER_SERVICE_DENIED")) \in Inboxes
    BY <1>0, <2>1, NoticeTypes, SendType
  <2>4. checkAvailableTaxis \subseteq Taxis
    BY DEF checkAvailableTaxis, AvailableTaxis
  <2>5. QED
    BY <1>0, <1>5, <2>1, <2>2, <2>3, <2>4, BreakingHandles, AssigningBreakHandles
       DEF ServiceBroken
<1>6. QED BY <1>1, <1>2, <1>3, <1>4, <1>5 DEF HandleBroken

-----------------------------------------------------------------------------
(* The types, and the map                                                  *)

LEMMA InitType ==
    ASSUME Init
    PROVE  TypeOK
<1>1. EmptyDb(Locations) \in Db
  BY LocationsAssumption DEF EmptyDb, Db
<1>2. db \in Db /\ joined \subseteq Customers
  BY <1>1, ResumedAssumption DEF Init
<1>3. responses \in Inboxes
  BY DEF Init, Inboxes
<1>4. QED
  BY <1>2, <1>3, ViewType, MaxNowAssumption DEF Init, TypeOK

LEMMA HandledType ==
    ASSUME TypeOK, Handled
    PROVE  TypeOK'
<1>1. Tail(requests) \in Seq(Request)
  BY DEF TypeOK, Handled, Pending
<1>2. PICK d \in Db, answered \in Inboxes :
        \/ Done(d, answered) /\ joined' \subseteq Customers
        \/ Abort(d, answered)
        \/ Broken(d, answered)
  BY DEF Handled
<1>3. CASE Done(d, answered) /\ joined' \subseteq Customers
  BY <1>1, <1>3, ViewType DEF Done, Breaks, TypeOK
<1>4. CASE Abort(d, answered)
  BY <1>4 DEF Abort, TypeOK
<1>5. CASE Broken(d, answered)
  BY <1>1, <1>5 DEF Broken, Breaks, TypeOK
<1>6. QED BY <1>2, <1>3, <1>4, <1>5

LEMMA RegistersType ==
    ASSUME TypeOK, NEW t \in Taxis, Register(t)
    PROVE  TypeOK'
<1>1. RegisterTaxi(db, t) \in Db
  BY RegisterTaxiType DEF TypeOK
<1>2. announcing' \subseteq Registration
  BY DEF Register, Registration, TypeOK
<1>3. QED BY <1>1, <1>2 DEF Register, TypeOK

LEMMA EnvironmentType ==
    ASSUME TypeOK, Environment
    PROVE  TypeOK'
<1>1. CASE Tick
  BY <1>1, MaxNowAssumption DEF Tick, TypeOK
<1>2. CASE LoseDb
  BY <1>2 DEF LoseDb, Breaks, TypeOK
<1>3. ASSUME NEW t \in Taxis, Register(t) PROVE TypeOK'
  BY <1>3, RegistersType
<1>4. CASE Announce
  <2>1. Registration \subseteq Request
    BY SessionsAssumption DEF Registration, Request, TaxiSignals
  <2>2. PICK m \in announcing : requests' = Append(requests, m) /\ announcing' = announcing \ {m}
    BY <1>4 DEF Announce
  <2>3. QED BY <1>4, <2>1, <2>2 DEF Announce, TypeOK
<1>5. ASSUME NEW m \in Inputs, Submit(m) PROVE TypeOK'
  BY <1>5, InputsAssumption DEF Submit, TypeOK
<1>6. ASSUME NEW s \in Subscribers, Read(s) PROVE TypeOK'
  <2>1. responses' \in Inboxes
    BY <1>6 DEF Read, Inboxes, TypeOK
  <2>2. QED BY <1>6, <2>1 DEF Read, TypeOK
<1>7. QED BY <1>1, <1>2, <1>3, <1>4, <1>5, <1>6 DEF Environment

LEMMA StepType ==
    ASSUME TypeOK, [Next]_vars
    PROVE  TypeOK'
<1>1. CASE Handle
  <2>1. CASE IgnoreOtherSession
    BY <2>1 DEF IgnoreOtherSession, Pending, TypeOK
  <2>2. QED BY <1>1, <2>1, EveryMessageHandled, HandledType
<1>2. CASE HandleBroken
  BY <1>2, EveryBreakHandled, HandledType
<1>3. CASE Environment
  BY <1>3, EnvironmentType
<1>4. CASE UNCHANGED vars
  BY <1>4 DEF vars, TypeOK
<1>5. QED BY <1>1, <1>2, <1>3, <1>4 DEF Next

\* Whatever the clients send, in whatever order, and whenever the connection is lost, what the
\* central stores, answers and publishes keeps its type: no handler needs a row that is missing.
THEOREM TypeCorrect == Spec => []TypeOK
<1>1. Init => TypeOK
  BY InitType
<1>2. TypeOK /\ [Next]_vars => TypeOK'
  BY StepType
<1>3. QED BY <1>1, <1>2, PTL DEF Spec

-----------------------------------------------------------------------------

\* A handled message leaves a fresh map, or no server or no database connection.
LEMMA HandledMap ==
    ASSUME Handled
    PROVE  MapLagsForRegistrations'
BY DEF Handled, Done, Abort, Broken, Breaks, MapLagsForRegistrations

\* The map lags for registrations only: the database is written by the handlers, which publish
\* it, and by Register, which leaves an announcement behind.
THEOREM MapLags == Spec => []MapLagsForRegistrations
<1>1. Init => MapLagsForRegistrations
  BY DEF Init, MapLagsForRegistrations
<1>2. ASSUME TypeOK, MapLagsForRegistrations, [Next]_vars
      PROVE  MapLagsForRegistrations'
  <2>1. CASE IgnoreOtherSession
    <3>1. ASSUME Refreshing PROVE Refreshing'
      <4>1. PICK i \in DOMAIN requests :
              /\ requests[i].subject \in {"NEW_TAXI", "TAXI_RECONNECTED"}
              /\ requests[i].session = "current"
        BY <3>1 DEF Refreshing
      <4>2. i # 1
        BY <2>1, <4>1 DEF IgnoreOtherSession, Authentic, request
      <4>3. i - 1 \in DOMAIN requests' /\ requests'[i - 1] = requests[i]
        BY <1>2, <2>1, <4>2 DEF IgnoreOtherSession, Pending, TypeOK
      <4>4. QED BY <4>1, <4>3 DEF Refreshing
    <3>2. QED BY <1>2, <2>1, <3>1 DEF IgnoreOtherSession, MapLagsForRegistrations
  <2>2. CASE Handled
    BY <2>2, HandledMap
  <2>3. CASE Environment
    <3>1. CASE Tick \/ LoseDb \/ \E s \in Subscribers : Read(s)
      BY <1>2, <3>1 DEF Tick, LoseDb, Breaks, Read, MapLagsForRegistrations, Refreshing
    <3>2. CASE \E t \in Taxis : Register(t)
      BY <3>2 DEF Register, MapLagsForRegistrations
    <3>3. CASE Announce
      <4>1. PICK m \in announcing : requests' = Append(requests, m)
        BY <3>3 DEF Announce
      <4>2. /\ m.subject \in {"NEW_TAXI", "TAXI_RECONNECTED"} /\ m.session = "current"
            /\ Len(requests) + 1 \in DOMAIN requests' /\ requests'[Len(requests) + 1] = m
        BY <1>2, <4>1 DEF TypeOK, Registration
      <4>3. QED BY <4>2 DEF MapLagsForRegistrations, Refreshing
    <3>4. CASE \E m \in Inputs : Submit(m)
      <4>1. PICK m \in Inputs : Submit(m)
        BY <3>4
      <4>2. Refreshing => Refreshing'
        BY <1>2, <4>1 DEF Submit, Refreshing, TypeOK
      <4>3. QED BY <1>2, <4>1, <4>2 DEF Submit, MapLagsForRegistrations
    <3>5. QED BY <2>3, <3>1, <3>2, <3>3, <3>4 DEF Environment
  <2>4. CASE UNCHANGED vars
    BY <1>2, <2>4 DEF vars, MapLagsForRegistrations, Refreshing
  <2>5. QED
    BY <1>2, <2>1, <2>2, <2>3, <2>4, EveryMessageHandled, EveryBreakHandled DEF Next
<1>3. QED BY <1>1, <1>2, TypeCorrect, PTL DEF Spec

\* Once everything is announced and handled, the front end shows the database.
THEOREM MapIsFresh == Spec => []MapFresh
<1>1. MapLagsForRegistrations => MapFresh
  BY DEF MapLagsForRegistrations, MapFresh, Refreshing
<1>2. QED BY <1>1, MapLags, PTL

-----------------------------------------------------------------------------
(* Rides: what each operator of the database does to who is on board       *)

Aboard(d) == [t \in Taxis |-> CarriedBy(d, t)]

Notices(r) == [c \in Customers |-> r[c]]

LEMMA SetCustomerAboard ==
    ASSUME NEW d \in Db, NEW c \in Customers, NEW row
    PROVE  Aboard(SetCustomer(d, c, row)) = Aboard(d)
<1>1. SetCustomer(d, c, row).taxis = d.taxis
  BY DEF SetCustomer, Db
<1>2. QED BY <1>1 DEF Aboard, CarriedBy, HasTaxi

LEMMA SetTaxiAboard ==
    ASSUME NEW d \in Db, NEW t \in Taxis, NEW row, HasTaxi(d, t) => row \in TaxiRow
    PROVE  Aboard(SetTaxi(d, t, row)) =
                IF HasTaxi(d, t) THEN [Aboard(d) EXCEPT ![t] = row.customer_id] ELSE Aboard(d)
<1>1. CASE HasTaxi(d, t)
  <2>1. row # None
    BY <1>1, NoRowAssumption
  <2>2. SetTaxi(d, t, row).taxis = [d.taxis EXCEPT ![t] = row] /\ d.taxis \in [Taxis -> TaxiRow \cup {None}]
    BY <1>1 DEF SetTaxi, Db
  <2>3. \A u \in Taxis : CarriedBy(SetTaxi(d, t, row), u) = IF u = t THEN row.customer_id ELSE CarriedBy(d, u)
    BY <2>1, <2>2 DEF CarriedBy, HasTaxi
  <2>4. QED BY <1>1, <2>3 DEF Aboard
<1>2. CASE ~HasTaxi(d, t)
  BY <1>2 DEF SetTaxi
<1>3. QED BY <1>1, <1>2

\* A write that leaves customer_id alone.
LEMMA SameCarried ==
    ASSUME NEW d \in Db, NEW t \in Taxis, NEW row,
           HasTaxi(d, t) => row \in TaxiRow /\ row.customer_id = d.taxis[t].customer_id
    PROVE  Aboard(SetTaxi(d, t, row)) = Aboard(d)
<1>1. CASE HasTaxi(d, t)
  <2>1. Aboard(d)[t] = row.customer_id
    BY <1>1 DEF Aboard, CarriedBy
  <2>2. [Aboard(d) EXCEPT ![t] = row.customer_id] = Aboard(d)
    BY <2>1 DEF Aboard
  <2>3. QED BY <1>1, <2>2, SetTaxiAboard
<1>2. CASE ~HasTaxi(d, t)
  BY <1>2 DEF SetTaxi
<1>3. QED BY <1>1, <1>2

LEMMA TaxiUpdatesAboard ==
    ASSUME NEW d \in Db, NEW t \in Taxis
    PROVE  /\ Aboard(DisconnectTaxi(d, t)) = Aboard(d)
           /\ \A b \in BOOLEAN : /\ Aboard(SetReady(d, t, b)) = Aboard(d)
                                 /\ Aboard(SetStopped(d, t, b)) = Aboard(d)
           /\ \A w \in Countdown : Aboard(SetWaitTime(d, t, w)) = Aboard(d)
           /\ \A p \in Points : Aboard(MoveTaxi(d, t, p)) = Aboard(d)
           /\ \A p \in Points : Aboard(SendTaxi(d, t, p)) = [Aboard(d) EXCEPT ![t] = None]
<1>0. HasTaxi(d, t) => d.taxis[t] \in TaxiRow
  BY TaxiRowType
<1>1. Aboard(DisconnectTaxi(d, t)) = Aboard(d)
  BY <1>0, SameCarried DEF DisconnectTaxi, TaxiRow
<1>2. ASSUME NEW b \in BOOLEAN
      PROVE  Aboard(SetReady(d, t, b)) = Aboard(d) /\ Aboard(SetStopped(d, t, b)) = Aboard(d)
  BY <1>0, SameCarried DEF SetReady, SetStopped, TaxiRow
<1>3. ASSUME NEW w \in Countdown PROVE Aboard(SetWaitTime(d, t, w)) = Aboard(d)
  <2> DEFINE row == [d.taxis[t] EXCEPT !.wait_time = w, !.ready = (w = 0)]
  <2>1. HasTaxi(d, t) => row \in TaxiRow /\ row.customer_id = d.taxis[t].customer_id
    BY <1>0 DEF TaxiRow
  <2>2. Aboard(SetTaxi(d, t, row)) = Aboard(d)
    BY <2>1, SameCarried
  <2>3. QED BY <2>2 DEF SetWaitTime
<1>4. ASSUME NEW p \in Points PROVE Aboard(MoveTaxi(d, t, p)) = Aboard(d)
  BY <1>0, SameCarried DEF MoveTaxi, TaxiRow
<1>5. ASSUME NEW p \in Points PROVE Aboard(SendTaxi(d, t, p)) = [Aboard(d) EXCEPT ![t] = None]
  <2> DEFINE row == [d.taxis[t] EXCEPT !.dest = p, !.customer_id = None]
  <2>1. HasTaxi(d, t) => row \in TaxiRow /\ row.customer_id = None
    BY <1>0 DEF TaxiRow
  <2>2. ~HasTaxi(d, t) => Aboard(d)[t] = None
    BY DEF Aboard, CarriedBy
  <2>3. ~HasTaxi(d, t) => Aboard(d) = [Aboard(d) EXCEPT ![t] = None]
    BY <2>2 DEF Aboard
  <2>4. Aboard(SetTaxi(d, t, row)) = [Aboard(d) EXCEPT ![t] = None]
    <3>1. CASE HasTaxi(d, t)
      BY <2>1, <3>1, SetTaxiAboard
    <3>2. CASE ~HasTaxi(d, t)
      BY <2>3, <3>2 DEF SetTaxi
    <3>3. QED BY <3>1, <3>2
  <2>5. QED BY <2>4 DEF SendTaxi
<1>6. QED BY <1>1, <1>2, <1>3, <1>4, <1>5

LEMMA CustomerUpdatesAboard ==
    ASSUME NEW d \in Db, NEW c \in Customers
    PROVE  /\ Aboard(DeleteCustomer(d, c)) = Aboard(d)
           /\ Aboard(Dequeue(d, c)) = Aboard(d)
           /\ \A p : Aboard(InsertCustomer(d, c, p)) = Aboard(d) /\ Aboard(MoveCustomer(d, c, p)) = Aboard(d)
           /\ \A n : Aboard(SetNextRequest(d, c, n)) = Aboard(d) /\ Aboard(Enqueue(d, c, n)) = Aboard(d)
           /\ \A l : Aboard(SetDestination(d, c, l)) = Aboard(d)
<1>1. DeleteCustomer(d, c).taxis = d.taxis /\ \A p : InsertCustomer(d, c, p).taxis = d.taxis
  BY DEF DeleteCustomer, InsertCustomer, Db
<1>2. /\ Aboard(DeleteCustomer(d, c)) = Aboard(d)
      /\ \A p : Aboard(InsertCustomer(d, c, p)) = Aboard(d)
  BY <1>1 DEF Aboard, CarriedBy, HasTaxi
<1>3. QED BY <1>2, SetCustomerAboard DEF Dequeue, MoveCustomer, SetNextRequest, Enqueue, SetDestination

LEMMA MoveLocationAboard ==
    ASSUME NEW d \in Db, NEW l, NEW p
    PROVE  Aboard(MoveLocation(d, l, p)) = Aboard(d)
BY DEF MoveLocation, Db, Aboard, CarriedBy, HasTaxi

LEMMA RegisterTaxiAboard ==
    ASSUME NEW d \in Db, NEW t \in Taxis
    PROVE  Aboard(RegisterTaxi(d, t)) = Aboard(d)
<1> DEFINE row == IF HasTaxi(d, t) THEN [d.taxis[t] EXCEPT !.connected = TRUE] ELSE NewTaxiRow
<1>1. row \in TaxiRow /\ row.customer_id = CarriedBy(d, t)
  <2>1. NewTaxiRow \in TaxiRow /\ NewTaxiRow.customer_id = None
    BY BaseAssumption DEF NewTaxiRow, TaxiRow, Countdown
  <2>2. HasTaxi(d, t) => [d.taxis[t] EXCEPT !.connected = TRUE] \in TaxiRow
    BY TaxiRowType DEF TaxiRow
  <2>3. HasTaxi(d, t) => [d.taxis[t] EXCEPT !.connected = TRUE].customer_id = d.taxis[t].customer_id
    BY TaxiRowType DEF TaxiRow
  <2>4. QED BY <2>1, <2>2, <2>3 DEF CarriedBy
<1>2. row # None
  BY <1>1, NoRowAssumption
<1>3. RegisterTaxi(d, t).taxis = [d.taxis EXCEPT ![t] = row] /\ d.taxis \in [Taxis -> TaxiRow \cup {None}]
  BY DEF RegisterTaxi, Db
<1>4. \A u \in Taxis : CarriedBy(RegisterTaxi(d, t), u) = CarriedBy(d, u)
  <2>1. CarriedBy(RegisterTaxi(d, t), t) = row.customer_id
    BY <1>2, <1>3 DEF CarriedBy, HasTaxi
  <2>2. \A u \in Taxis : u # t => CarriedBy(RegisterTaxi(d, t), u) = CarriedBy(d, u)
    BY <1>3 DEF CarriedBy, HasTaxi
  <2>3. QED BY <1>1, <2>1, <2>2
<1>5. QED BY <1>4 DEF Aboard

LEMMA SetOnboardAboard ==
    ASSUME NEW d \in Db, NEW c \in Customers, NEW t \in Taxis, NEW val \in BOOLEAN
    PROVE  Aboard(SetOnboard(d, c, t, val)) =
              IF ~HasTaxi(d, t) \/ (val /\ ~HasCustomer(d, c)) THEN Aboard(d)
              ELSE [Aboard(d) EXCEPT ![t] = IF val THEN c ELSE None]
<1> DEFINE e == SetCustomer(d, c, [d.customers[c] EXCEPT !.onboard = val])
           row == [e.taxis[t] EXCEPT !.customer_id = IF val THEN c ELSE None]
<1>1. e \in Db /\ Aboard(e) = Aboard(d)
  BY CustomerRowType, SetCustomerType, SetCustomerAboard DEF CustomerRow
<1>2. HasTaxi(e, t) <=> HasTaxi(d, t)
  BY DEF SetCustomer, HasTaxi, Db
<1>3. HasTaxi(e, t) => row \in TaxiRow /\ row.customer_id = IF val THEN c ELSE None
  BY <1>1, TaxiRowType DEF TaxiRow
<1>4. Aboard(SetTaxi(e, t, row)) =
        IF HasTaxi(d, t) THEN [Aboard(d) EXCEPT ![t] = IF val THEN c ELSE None] ELSE Aboard(d)
  <2> HIDE DEF e, row
  <2>1. CASE HasTaxi(d, t)
    BY <1>1, <1>2, <1>3, <2>1, SetTaxiAboard
  <2>2. CASE ~HasTaxi(d, t)
    BY <1>1, <1>2, <2>2 DEF SetTaxi
  <2>3. QED BY <2>1, <2>2
<1>5. CASE val /\ ~HasCustomer(d, c)
  BY <1>1, <1>5 DEF SetOnboard
<1>6. CASE ~(val /\ ~HasCustomer(d, c))
  <2>1. SetOnboard(d, c, t, val) = SetTaxi(e, t, row)
    BY <1>6 DEF SetOnboard
  <2> HIDE DEF e, row
  <2>2. QED BY <1>4, <1>6, <2>1
<1>7. QED BY <1>5, <1>6

LEMMA Boards ==
    ASSUME NEW d \in Db, NEW c \in Customers, NEW t \in Taxis, HasTaxi(d, t), HasCustomer(d, c)
    PROVE  Aboard(SetOnboard(d, c, t, TRUE)) = [Aboard(d) EXCEPT ![t] = c]
<1>1. Aboard(SetOnboard(d, c, t, TRUE)) =
              IF ~HasTaxi(d, t) \/ (TRUE /\ ~HasCustomer(d, c)) THEN Aboard(d)
              ELSE [Aboard(d) EXCEPT ![t] = IF TRUE THEN c ELSE None]
  <2>1. \A val \in BOOLEAN :
            Aboard(SetOnboard(d, c, t, val)) =
                IF ~HasTaxi(d, t) \/ (val /\ ~HasCustomer(d, c)) THEN Aboard(d)
                ELSE [Aboard(d) EXCEPT ![t] = IF val THEN c ELSE None]
    BY SetOnboardAboard
  <2>2. QED BY <2>1, Zenon
<1>2. QED BY <1>1

LEMMA DoesNotBoard ==
    ASSUME NEW d \in Db, NEW c \in Customers, NEW t \in Taxis, ~HasCustomer(d, c)
    PROVE  Aboard(SetOnboard(d, c, t, TRUE)) = Aboard(d)
<1>1. Aboard(SetOnboard(d, c, t, TRUE)) =
              IF ~HasTaxi(d, t) \/ (TRUE /\ ~HasCustomer(d, c)) THEN Aboard(d)
              ELSE [Aboard(d) EXCEPT ![t] = IF TRUE THEN c ELSE None]
  <2>1. \A val \in BOOLEAN :
            Aboard(SetOnboard(d, c, t, val)) =
                IF ~HasTaxi(d, t) \/ (val /\ ~HasCustomer(d, c)) THEN Aboard(d)
                ELSE [Aboard(d) EXCEPT ![t] = IF val THEN c ELSE None]
    BY SetOnboardAboard
  <2>2. QED BY <2>1, Zenon
<1>2. QED BY <1>1

LEMMA GetsOff ==
    ASSUME NEW d \in Db, NEW c \in Customers, NEW t \in Taxis, HasTaxi(d, t)
    PROVE  Aboard(SetOnboard(d, c, t, FALSE)) = [Aboard(d) EXCEPT ![t] = None]
<1>1. Aboard(SetOnboard(d, c, t, FALSE)) =
              IF ~HasTaxi(d, t) \/ (FALSE /\ ~HasCustomer(d, c)) THEN Aboard(d)
              ELSE [Aboard(d) EXCEPT ![t] = IF FALSE THEN c ELSE None]
  <2>1. \A val \in BOOLEAN :
            Aboard(SetOnboard(d, c, t, val)) =
                IF ~HasTaxi(d, t) \/ (val /\ ~HasCustomer(d, c)) THEN Aboard(d)
                ELSE [Aboard(d) EXCEPT ![t] = IF val THEN c ELSE None]
    BY SetOnboardAboard
  <2>2. QED BY <2>1, Zenon
<1>2. QED BY <1>1

LEMMA AssignAboard ==
    ASSUME NEW d \in Db, NEW t \in Taxis, NEW c \in Customers
    PROVE  Aboard(Assign(d, t, c)) = Aboard(d)
<1>1. CASE HasCustomer(d, c)
  <2> DEFINE row == [d.taxis[t] EXCEPT !.dest = d.customers[c].pos, !.service = c]
  <2>1. d.customers[c].pos \in Points
    BY <1>1, CustomerRowType DEF CustomerRow
  <2>2. HasTaxi(d, t) => row \in TaxiRow /\ row.customer_id = d.taxis[t].customer_id
    BY <2>1, TaxiRowType DEF TaxiRow
  <2>3. QED BY <1>1, <2>2, SameCarried DEF Assign
<1>2. CASE ~HasCustomer(d, c)
  BY <1>2 DEF Assign
<1>3. QED BY <1>1, <1>2

-----------------------------------------------------------------------------
(* What a handler says to customers                                        *)

\* Carriage has the same vocabulary.
LEMMA RideVocabulary ==
    /\ \A inbox, s, m : Rides!Send(inbox, s, m) = Send(inbox, s, m)
    /\ \A s : Rides!Notice(s) = Notice(s)
    /\ \A t : Rides!Accepted(t) = Accepted(t)
    /\ Rides!CustomerNotice = CustomerNotice
BY DEF Rides!Send, Send, Rides!Notice, Notice, Rides!Accepted, Accepted, Rides!CustomerNotice,
       CustomerNotice

LEMMA OtherNoticesAre ==
    /\ \A t \in Taxis : Accepted(t) \in Rides!OtherNotices
    /\ \A s \in {"CUSTOMER_DISCONNECT", "CUSTOMER_PRIORITY", "CUSTOMER_ENQUEUED",
                  "CUSTOMER_SERVICE_DENIED", "ACCEPT", "DENY"} : Notice(s) \in Rides!OtherNotices
<1>1. \A t \in Taxis : Accepted(t) \in CustomerNotice
                        /\ Accepted(t).subject \notin {"CUSTOMER_PICKED_UP", "CUSTOMER_SERVICE_COMPLETED"}
  BY NoticeTypes DEF Accepted
<1>2. \A s : Notice(s).subject = s
  BY DEF Notice
<1>3. QED
  BY <1>1, <1>2, RideVocabulary, NoticeTypes DEF Rides!OtherNotices, Rides!RideNotices

\* What is said to a taxi is no notice to a customer.
LEMMA SendNotices ==
    ASSUME NEW inbox \in Inboxes, NEW m
    PROVE  /\ \A c \in Customers : Notices(Send(inbox, c, m)) = Send(Notices(inbox), c, m)
           /\ \A t \in Taxis : Notices(Send(inbox, t, m)) = Notices(inbox)
<1>1. inbox = [s \in Subscribers |-> inbox[s]]
  BY DEF Inboxes
<1>2. Customers \subseteq Subscribers /\ \A t \in Taxis : t \in Subscribers /\ t \notin Customers
  BY ClientsAssumption DEF Subscribers
<1>3. ASSUME NEW c \in Customers PROVE Notices(Send(inbox, c, m)) = Send(Notices(inbox), c, m)
  <2>1. \A s \in Subscribers : Send(inbox, c, m)[s] = IF s = c THEN Append(inbox[c], m) ELSE inbox[s]
    BY <1>1, <1>2 DEF Send
  <2>2. Send(Notices(inbox), c, m) =
            [s \in Customers |-> IF s = c THEN Append(inbox[c], m) ELSE inbox[s]]
    BY DEF Send, Notices
  <2>3. QED BY <1>2, <2>1, <2>2 DEF Notices
<1>4. ASSUME NEW t \in Taxis PROVE Notices(Send(inbox, t, m)) = Notices(inbox)
  <2>1. \A s \in Customers : Send(inbox, t, m)[s] = inbox[s]
    BY <1>1, <1>2 DEF Send
  <2>2. QED BY <2>1 DEF Notices
<1>5. QED BY <1>3, <1>4

LEMMA AssignedNotices ==
    ASSUME NEW inbox \in Inboxes, NEW d \in Db, NEW t \in Taxis, NEW c \in Customers,
           d.taxis[t].dest \in Points
    PROVE  /\ Assigned(inbox, d, t, c) \in Inboxes
           /\ Notices(Assigned(inbox, d, t, c)) = Send(Notices(inbox), c, Accepted(t))
<1>1. Send(inbox, t, GoTo(d.taxis[t].dest)) \in Inboxes
  BY NoticeTypes, SendType DEF Subscribers
<1>2. Assigned(inbox, d, t, c) \in Inboxes
  BY <1>1, NoticeTypes, SendType DEF Assigned, Subscribers
<1>3. QED BY <1>1, <1>2, SendNotices DEF Assigned

-----------------------------------------------------------------------------
(* Each handler is a step of Carriage, or none                             *)

RideStep == Rides!Next \/ UNCHANGED Rides!vars

\* The connection is as before, or lost.
Failing == dbUp' \in {dbUp, FALSE}

\* However a handler ends.
Ends(d, answered) ==
    /\ db' = (IF dbUp THEN d ELSE db)
    /\ responses' \in {responses, answered}
    /\ Failing

LEMMA HandlerEnds ==
    ASSUME NEW d, NEW answered,
           \/ Simple(d, answered) \/ Done(d, answered) \/ Abort(d, answered)
           \/ Broken(d, answered)
    PROVE  Ends(d, answered)
BY DEF Simple, Done, Abort, Broken, Breaks, Failing, Ends

LEMMA NothingNew ==
    ASSUME TypeOK, Failing, Aboard(db') = Aboard(db), Notices(responses') = Notices(responses)
    PROVE  RideStep
<1>1. UNCHANGED <<[t \in Taxis |-> CarriedBy(db, t)], [c \in Customers |-> responses[c]]>>
  BY DEF Aboard, Notices
<1>2. CASE dbUp' = dbUp
  BY <1>1, <1>2 DEF RideStep, Rides!vars
<1>3. CASE dbUp' # dbUp
  <2>1. dbUp /\ dbUp' \in {dbUp, FALSE}
    BY <1>3 DEF Failing, TypeOK
  <2>2. Rides!FailToRecord
    BY <1>1, <2>1 DEF Rides!FailToRecord
  <2>3. QED BY <2>1, <2>2 DEF RideStep, Rides!Next
<1>4. QED BY <1>2, <1>3

LEMMA QuietHandler ==
    ASSUME TypeOK, NEW d, NEW answered, Ends(d, answered),
           Aboard(d) = Aboard(db), Notices(answered) = Notices(responses)
    PROVE  RideStep
BY NothingNew DEF Ends

\* A handler that tells c something once, or twice.
LEMMA SpokenHandler ==
    ASSUME TypeOK, NEW d, NEW answered, Ends(d, answered), Aboard(d) = Aboard(db),
           NEW c \in Customers, NEW m \in Rides!OtherNotices,
           Notices(answered) \in {Send(Notices(responses), c, m),
                                  Send(Send(Notices(responses), c, m), c, m)}
    PROVE  RideStep
<1>1. Aboard(db') = Aboard(db) /\ Failing
  BY DEF Ends
<1>2. CASE responses' = responses
  BY <1>1, <1>2, NothingNew
<1>3. CASE responses' = answered
  <2>1. Rides!Say(c, m)
    BY <1>1, <1>3, RideVocabulary DEF Rides!Say, Aboard, Notices
  <2>2. QED BY <1>1, <2>1 DEF RideStep, Rides!Next, Failing
<1>4. QED BY <1>2, <1>3 DEF Ends

\* assign at the end of a handler that has come to d and answered.
LEMMA AssigningEnds ==
    ASSUME NEW d \in Db, NEW answered \in Inboxes, NEW t \in Taxis, NEW c \in Customers,
           EndByAssigning(d, answered, t, c)
    PROVE  \/ Ends(d, answered)
           \/ \E e \in Db, told \in Inboxes :
                /\ Aboard(e) = Aboard(d)
                /\ Notices(told) = Send(Notices(answered), c, Accepted(t))
                /\ db' = (IF dbUp THEN e ELSE db) /\ responses' = told /\ Failing
<1>1. CASE AssignThrows(d, t, c)
  BY <1>1, HandlerEnds DEF EndByAssigning
<1>2. CASE ~AssignThrows(d, t, c)
  <2> DEFINE e == Assign(d, t, c)
             told == Assigned(answered, e, t, c)
  <2>1. e \in Db /\ e.taxis[t].dest \in Points /\ Aboard(e) = Aboard(d)
    BY <1>2, AssignType, AssignAboard
  <2>2. Simple(e, told)
    BY <1>2 DEF EndByAssigning
  <2> HIDE DEF e
  <2>3. told \in Inboxes /\ Notices(told) = Send(Notices(answered), c, Accepted(t))
    BY <2>1, AssignedNotices
  <2>4. db' = (IF dbUp THEN e ELSE db) /\ responses' = told /\ Failing
    BY <2>2 DEF Simple, Done, Breaks, Failing
  <2>5. QED BY <2>1, <2>3, <2>4
<1>3. QED BY <1>1, <1>2

LEMMA JoiningRides ==
    ASSUME TypeOK, TaxiJoins
    PROVE  RideStep
<1> DEFINE t == request.taxiId
<1>0. db \in Db /\ responses \in Inboxes
  BY DEF TypeOK
<1>1. Receives({"NEW_TAXI", "TAXI_RECONNECTED"}) /\ t \in Taxis
  BY RequestType, RequestMembers DEF TaxiJoins, TaxiSignals
<1>2. checkQueue(db) \subseteq Customers
  BY <1>0, <1>1, QueryTypes
<1>3. CASE Simple(db, responses)
  BY <1>3, HandlerEnds, QuietHandler
<1>4. ASSUME NEW c \in checkQueue(db), EndByAssigning(db, responses, t, c) PROVE RideStep
  <2>0. c \in Customers
    BY <1>2
  <2>1. CASE Ends(db, responses)
    BY <2>1, QuietHandler
  <2>2. ASSUME NEW e \in Db, NEW told \in Inboxes, Aboard(e) = Aboard(db),
               Notices(told) = Send(Notices(responses), c, Accepted(t)),
               db' = (IF dbUp THEN e ELSE db), responses' = told, Failing
        PROVE  RideStep
    BY <1>1, <2>0, <2>2, OtherNoticesAre, SpokenHandler DEF Ends
  <2>3. QED BY <1>0, <1>1, <1>4, <2>0, <2>1, <2>2, AssigningEnds
<1>5. QED BY <1>3, <1>4 DEF TaxiJoins

LEMMA MovedAboard ==
    ASSUME TypeOK, request.taxiId \in Taxis, request.coord \in Points
    PROVE  /\ Aboard(Moved) = Aboard(db)
           /\ \A t \in Taxis : HasTaxi(Moved, t) <=> HasTaxi(db, t)
           /\ \A c \in Customers : HasCustomer(Moved, c) <=> HasCustomer(db, c)
<1> DEFINE t == request.taxiId
           p == request.coord
           moved == MoveTaxi(db, t, p)
           c == carryingClient(t)
<1>0. db \in Db
  BY DEF TypeOK
<1>1. moved \in Db /\ Aboard(moved) = Aboard(db)
  BY <1>0, TaxiUpdatesType, TaxiUpdatesAboard
<1>2. /\ \A u \in Taxis : HasTaxi(moved, u) <=> HasTaxi(db, u)
      /\ moved.customers = db.customers
  <2> DEFINE row == [db.taxis[t] EXCEPT !.pos = p]
  <2>1. HasTaxi(db, t) => row \in TaxiRow
    BY <1>0, TaxiRowType DEF TaxiRow
  <2>2. HasTaxi(db, t) => row # None
    BY <2>1, NoRowAssumption
  <2>3. QED BY <1>0, <2>2 DEF MoveTaxi, SetTaxi, HasTaxi, Db
<1>3. CASE c = None
  BY <1>1, <1>2, <1>3 DEF Moved, HasCustomer
<1>4. CASE c # None
  <2> DEFINE row == [moved.customers[c] EXCEPT !.pos = p]
  <2>0. c \in Customers
    BY <1>4, QueryTypes
  <2>1. Moved = SetCustomer(moved, c, row)
    BY <1>4 DEF Moved, MoveCustomer
  <2>2. HasCustomer(moved, c) => row \in CustomerRow
    BY <1>1, <2>0, CustomerRowType DEF CustomerRow
  <2>3. HasCustomer(moved, c) => row # None
    BY <2>2, NoRowAssumption
  <2> HIDE DEF moved, row
  <2>4. Aboard(Moved) = Aboard(db)
    BY <1>1, <2>0, <2>1, SetCustomerAboard
  <2>5. /\ \A u \in Taxis : HasTaxi(Moved, u) <=> HasTaxi(moved, u)
        /\ \A d \in Customers : HasCustomer(Moved, d) <=> HasCustomer(moved, d)
    BY <1>1, <2>0, <2>1, <2>3 DEF SetCustomer, HasTaxi, HasCustomer, Db
  <2>6. QED BY <1>2, <2>4, <2>5 DEF HasCustomer
<1>5. QED BY <1>3, <1>4

\* Boarding: a customer without a row is refused, and does not board.
LEMMA PickUpRides ==
    ASSUME TypeOK, PickUpCustomer
    PROVE  RideStep
<1>t. /\ request.taxiId \in Taxis /\ request.coord \in Points
      /\ getService(request.taxiId) \in Customers
  <2>1. request.taxiId \in Taxis /\ request.coord \in Points
    BY RequestType, RequestMembers DEF PickUpCustomer, TaxiArrivals
  <2>2. QED BY <2>1, QueryTypes DEF PickUpCustomer
<1>u. PICK t \in Taxis, c \in Customers : t = request.taxiId /\ c = getService(t)
  BY <1>t
<1> DEFINE q == DestinationOf(db, c)
           d == SetOnboard(Moved, c, t, TRUE)
           denied == Send(responses, c, Notice("CUSTOMER_SERVICE_DENIED"))
           picked == Send(Send(responses, c, Notice("CUSTOMER_PICKED_UP")), t, GoTo(q))
<1>0. /\ db \in Db /\ responses \in Inboxes /\ Taxis \subseteq Subscribers
      /\ Customers \subseteq Subscribers
  BY DEF TypeOK, Subscribers
<1>2. dbUp /\ HasTaxi(db, t) /\ carryingClient(t) = None
  BY <1>u, NoneAssumption DEF PickUpCustomer, getService, ServiceOf
<1>3. Moved \in Db /\ Aboard(Moved) = Aboard(db) /\ HasTaxi(Moved, t)
      /\ (HasCustomer(Moved, c) <=> HasCustomer(db, c))
  BY <1>t, <1>2, MovedType, MovedAboard
<1>4. Aboard(d) = IF HasCustomer(db, c) THEN [Aboard(db) EXCEPT ![t] = c] ELSE Aboard(db)
  <2>1. CASE HasCustomer(db, c)
    <3>1. Moved \in Db /\ HasTaxi(Moved, t) /\ HasCustomer(Moved, c)
      BY <1>3, <2>1
    <3>2. Aboard(d) = [Aboard(Moved) EXCEPT ![t] = c]
      BY <3>1, Boards, Zenon
    <3>3. QED BY <1>3, <2>1, <3>2
  <2>2. CASE ~HasCustomer(db, c)
    <3>1. Aboard(d) = Aboard(Moved)
      BY <1>3, <2>2, DoesNotBoard, Zenon
    <3>2. QED BY <1>3, <2>2, <3>1
  <2>3. QED BY <2>1, <2>2
<1>5. Aboard(db)[t] = None
  BY <1>2 DEF Aboard, carryingClient
<1>6. /\ Notices(denied) = Send(Notices(responses), c, Notice("CUSTOMER_SERVICE_DENIED"))
      /\ Notices(picked) = Send(Notices(responses), c, Notice("CUSTOMER_PICKED_UP"))
  <2>1. Send(responses, c, Notice("CUSTOMER_PICKED_UP")) \in Inboxes
    BY <1>0, NoticeTypes, SendType
  <2>2. QED BY <1>0, <2>1, SendNotices
<1>7. Simple(d, IF q = None THEN denied ELSE picked)
  BY <1>u DEF PickUpCustomer
<1>8. db' = d /\ responses' = (IF q = None THEN denied ELSE picked) /\ Failing
  BY <1>2, <1>7 DEF Simple, Done, Breaks, Failing
<1>9. CASE HasCustomer(db, c)
  <2>1. Rides!Board(t, c)
    BY <1>2, <1>4, <1>5, <1>6, <1>8, <1>9, RideVocabulary DEF Rides!Board, Aboard, Notices
  <2>2. QED BY <1>8, <2>1 DEF RideStep, Rides!Next, Failing
<1>10. CASE ~HasCustomer(db, c)
  <2>1. q = None
    BY <1>10 DEF DestinationOf
  <2>2. Ends(d, denied) /\ Aboard(d) = Aboard(db)
    BY <1>4, <1>8, <1>2, <1>10, <2>1 DEF Ends
  <2>3. QED BY <1>6, <2>2, OtherNoticesAre, SpokenHandler
<1>11. QED BY <1>9, <1>10

LEMMA CompleteRides ==
    ASSUME TypeOK, CompleteRide
    PROVE  RideStep
<1>t. /\ request.taxiId \in Taxis /\ request.coord \in Points
      /\ carryingClient(request.taxiId) \in Customers
  <2>1. request.taxiId \in Taxis /\ request.coord \in Points
    BY RequestType, RequestMembers DEF CompleteRide, TaxiArrivals
  <2>2. QED BY <2>1, QueryTypes DEF CompleteRide
<1>u. PICK t \in Taxis, c \in Customers : t = request.taxiId /\ c = carryingClient(t)
  BY <1>t
<1> DEFINE d == SetOnboard(Moved, c, t, FALSE)
           answered == Send(responses, c, Notice("CUSTOMER_SERVICE_COMPLETED"))
<1>0. /\ db \in Db /\ responses \in Inboxes /\ Taxis \subseteq Subscribers
      /\ Customers \subseteq Subscribers
  BY DEF TypeOK, Subscribers
<1>2. dbUp /\ HasTaxi(db, t) /\ CarriedBy(db, t) = c /\ c # None
  BY <1>u, NoneAssumption DEF carryingClient, CarriedBy
<1>3. Moved \in Db /\ Aboard(Moved) = Aboard(db) /\ HasTaxi(Moved, t)
  BY <1>t, <1>2, MovedType, MovedAboard
<1>4. d \in Db /\ Aboard(d) = [Aboard(db) EXCEPT ![t] = None]
  <2>1. d \in Db /\ Aboard(d) = [Aboard(Moved) EXCEPT ![t] = None]
    BY <1>3, SetOnboardType, GetsOff, Zenon
  <2>2. QED BY <1>3, <2>1
<1>5. Aboard(db)[t] = c
  BY <1>2 DEF Aboard
<1>6. /\ answered \in Inboxes
      /\ Notices(answered) = Send(Notices(responses), c, Notice("CUSTOMER_SERVICE_COMPLETED"))
  BY <1>0, NoticeTypes, SendType, SendNotices
<1>7. checkQueue(d) \subseteq Customers
  BY <1>4, QueryTypes
<1>8. ASSUME Ends(d, answered) PROVE RideStep
  <2>1. Aboard(db') = [Aboard(db) EXCEPT ![t] = None]
    BY <1>2, <1>4, <1>8 DEF Ends
  <2>2. CASE responses' = answered
    <3>1. Rides!Alight(t)
      BY <1>2, <1>5, <1>6, <2>1, <2>2, RideVocabulary DEF Rides!Alight, Aboard, Notices
    <3>2. QED BY <1>8, <3>1 DEF RideStep, Rides!Next, Ends, Failing
  <2>3. CASE responses' = responses
    <3>1. Rides!AlightUnheard(t)
      BY <1>2, <1>5, <2>1, <2>3 DEF Rides!AlightUnheard, Aboard, Notices
    <3>2. QED BY <1>8, <3>1 DEF RideStep, Rides!Next, Ends, Failing
  <2>4. QED BY <1>8, <2>2, <2>3 DEF Ends
<1>9. ASSUME NEW q \in checkQueue(d), EndByAssigning(d, answered, t, q) PROVE RideStep
  <2>0. q \in Customers
    BY <1>7
  <2>1. ASSUME NEW e \in Db, NEW told \in Inboxes, Aboard(e) = Aboard(d),
               Notices(told) = Send(Notices(answered), q, Accepted(t)),
               db' = (IF dbUp THEN e ELSE db), responses' = told, Failing
        PROVE  RideStep
    <3>1. /\ Aboard(db') = [Aboard(db) EXCEPT ![t] = None]
          /\ Notices(responses') =
                Send(Send(Notices(responses), c, Notice("CUSTOMER_SERVICE_COMPLETED")), q, Accepted(t))
      BY <1>2, <1>4, <1>6, <2>1
    <3>2. Rides!Alight(t)
      BY <1>2, <1>5, <2>0, <3>1, RideVocabulary DEF Rides!Alight, Aboard, Notices
    <3>3. QED BY <2>1, <3>2 DEF RideStep, Rides!Next, Failing
  <2>2. \/ Ends(d, answered)
        \/ \E e \in Db, told \in Inboxes :
                /\ Aboard(e) = Aboard(d)
                /\ Notices(told) = Send(Notices(answered), q, Accepted(t))
                /\ db' = (IF dbUp THEN e ELSE db) /\ responses' = told /\ Failing
    <3> HIDE DEF d, answered
    <3>1. QED BY <1>4, <1>6, <1>9, <2>0, AssigningEnds
  <2>3. QED BY <1>8, <2>1, <2>2
<1>10. QED BY <1>u, <1>8, <1>9, HandlerEnds DEF CompleteRide

\* Handlers that are silent to customers and leave who is on board alone.
LEMMA QuietRides ==
    ASSUME TypeOK,
           \/ TaxiMoves \/ ReachWithoutService \/ SetTaxiReady \/ UpdateWaitTime \/ Ping
           \/ UpdateNextRequest \/ OrderStop \/ OrderContinue \/ OrderTaxiDisconnect
           \/ OrderLocationMove
    PROVE  RideStep
<1> DEFINE t == request.taxiId
<1>0. db \in Db /\ responses \in Inboxes
  BY DEF TypeOK
<1>1. CASE TaxiMoves \/ ReachWithoutService
  <2>1. t \in Taxis /\ request.coord \in Points
    BY <1>1, RequestType, RequestMembers DEF TaxiMoves, ReachWithoutService, TaxiArrivals
  <2>2. Ends(Moved, responses) /\ Aboard(Moved) = Aboard(db)
    BY <1>1, <2>1, MovedAboard, HandlerEnds DEF TaxiMoves, ReachWithoutService
  <2>3. QED BY <2>2, QuietHandler
<1>2. CASE SetTaxiReady \/ UpdateWaitTime
  <2>1. t \in Taxis
    BY <1>2, RequestType, RequestMembers DEF SetTaxiReady, UpdateWaitTime, TaxiSignals
  <2>2. CASE SetTaxiReady
    <3>1. Aboard(SetReady(db, t, request.subject = "TAXI_READY")) = Aboard(db)
      BY <1>0, <2>1, TaxiUpdatesAboard
    <3>2. Ends(SetReady(db, t, request.subject = "TAXI_READY"), responses)
      BY <2>2, HandlerEnds DEF SetTaxiReady
    <3>3. QED BY <3>1, <3>2, QuietHandler
  <2>3. CASE UpdateWaitTime
    <3>1. request.data \in Countdown
      BY <2>3, RequestType, RequestMembers DEF UpdateWaitTime
    <3>2. Ends(SetWaitTime(db, t, request.data), responses)
      BY <2>3, HandlerEnds DEF UpdateWaitTime
    <3>3. QED BY <1>0, <2>1, <3>1, <3>2, TaxiUpdatesAboard, QuietHandler
  <2>4. QED BY <1>2, <2>2, <2>3
<1>3. CASE Ping
  BY <1>3, HandlerEnds, QuietHandler DEF Ping
<1>4. CASE UpdateNextRequest
  <2>1. request.id \in Customers
    BY <1>4, RequestType, RequestMembers DEF UpdateNextRequest
  <2>2. Ends(SetNextRequest(db, request.id, request.data), responses)
    BY <1>4, HandlerEnds DEF UpdateNextRequest
  <2>3. QED BY <1>0, <2>1, <2>2, CustomerUpdatesAboard, QuietHandler
<1>5. CASE OrderStop \/ OrderContinue \/ OrderTaxiDisconnect
  <2>1. t \in Taxis
    BY <1>5, RequestType, RequestMembers
    DEF OrderStop, OrderContinue, OrderTaxiDisconnect, TaxiOrders
  <2>0. \A b \in BOOLEAN : Aboard(SetStopped(db, t, b)) = Aboard(db)
    BY <1>0, <2>1, TaxiUpdatesAboard
  <2>2. \A m : Notices(Send(responses, t, m)) = Notices(responses)
    BY <1>0, <2>1, SendNotices
  <2>3. CASE OrderStop
    <3> DEFINE d == SetStopped(db, t, TRUE)
    <3>1. Ends(d, Send(responses, t, Notice("TAXI_STOP")))
      BY <2>3, HandlerEnds DEF OrderStop
    <3>2. Aboard(d) = Aboard(db)
      BY <2>0, Zenon
    <3> HIDE DEF d
    <3>3. QED BY <2>2, <3>1, <3>2, QuietHandler
  <2>4. CASE OrderContinue
    <3> DEFINE d == SetStopped(db, t, FALSE)
    <3>1. Ends(d, Send(responses, t, Notice("TAXI_CONTINUE")))
      BY <2>4, HandlerEnds DEF OrderContinue
    <3>2. Aboard(d) = Aboard(db)
      BY <2>0, Zenon
    <3> HIDE DEF d
    <3>3. QED BY <2>2, <3>1, <3>2, QuietHandler
  <2>5. CASE OrderTaxiDisconnect
    <3>1. Ends(DisconnectTaxi(db, t), Send(responses, t, Notice("TAXI_DISCONNECT")))
      BY <2>5, HandlerEnds DEF OrderTaxiDisconnect
    <3>2. QED BY <1>0, <2>1, <2>2, <3>1, TaxiUpdatesAboard, QuietHandler
  <2>6. QED BY <1>5, <2>3, <2>4, <2>5
<1>6. CASE OrderLocationMove
  <2>1. Ends(MoveLocation(db, request.id, request.coord), responses)
    BY <1>6, HandlerEnds DEF OrderLocationMove
  <2>2. QED BY <1>0, <2>1, MoveLocationAboard, QuietHandler
<1>7. QED BY <1>1, <1>2, <1>3, <1>4, <1>5, <1>6

\* Handlers that tell a customer something and leave who is on board alone.
LEMMA SpokenRides ==
    ASSUME TypeOK,
           NewCustomer \/ ServiceRequest \/ OrderCustomerDisconnect \/ OrderPriority
    PROVE  RideStep
<1> DEFINE c == request.id
<1>0. db \in Db /\ responses \in Inboxes
  BY DEF TypeOK
<1>1. c \in Customers
  BY RequestType, RequestMembers
  DEF NewCustomer, ServiceRequest, OrderCustomerDisconnect, OrderPriority, CustomerOrders
<1>2. \A m : Notices(Send(responses, c, m)) = Send(Notices(responses), c, m)
  BY <1>0, <1>1, SendNotices
<1>3. ASSUME NEW d, NEW s \in {"CUSTOMER_DISCONNECT", "CUSTOMER_PRIORITY", "CUSTOMER_ENQUEUED",
                                "CUSTOMER_SERVICE_DENIED", "ACCEPT", "DENY"},
             Ends(d, Send(responses, c, Notice(s))), Aboard(d) = Aboard(db)
      PROVE  RideStep
  BY <1>1, <1>2, <1>3, OtherNoticesAre, SpokenHandler
<1>4. CASE NewCustomer
  <2>1. Aboard(InsertCustomer(db, c, request.coord)) = Aboard(db)
    BY <1>0, <1>1, CustomerUpdatesAboard
  <2>2. \/ Ends(db, responses)
        \/ Ends(db, Send(responses, c, Notice("DENY")))
        \/ Ends(InsertCustomer(db, c, request.coord), Send(responses, c, Notice("ACCEPT")))
    BY <1>4, HandlerEnds DEF NewCustomer
  <2>3. QED BY <1>3, <2>1, <2>2, QuietHandler
<1>5. CASE OrderCustomerDisconnect \/ OrderPriority
  <2>1. Aboard(DeleteCustomer(db, c)) = Aboard(db) /\ Aboard(Dequeue(db, c)) = Aboard(db)
    BY <1>0, <1>1, CustomerUpdatesAboard
  <2>2. \/ Ends(DeleteCustomer(db, c), Send(responses, c, Notice("CUSTOMER_DISCONNECT")))
        \/ Ends(Dequeue(db, c), Send(responses, c, Notice("CUSTOMER_PRIORITY")))
    BY <1>5, HandlerEnds DEF OrderCustomerDisconnect, OrderPriority
  <2>3. QED BY <1>3, <2>1, <2>2
<1>6. CASE ServiceRequest
  <2> DEFINE d == SetDestination(db, c, request.data)
  <2>1. Receives({"CUSTOMER_SERVICE_REQUEST"}) /\ request.data \in Services
    BY <1>6, RequestType, RequestMembers DEF ServiceRequest
  <2>2. d \in Db /\ Aboard(d) = Aboard(db) /\ Aboard(Enqueue(db, c, now)) = Aboard(db)
    BY <1>0, <1>1, <2>1, CustomerUpdatesType, CustomerUpdatesAboard
  <2>3. CASE Simple(Enqueue(db, c, now), Send(responses, c, Notice("CUSTOMER_ENQUEUED")))
    BY <1>3, <2>2, <2>3, HandlerEnds
  <2>4. CASE Simple(db, Send(responses, c, Notice("CUSTOMER_SERVICE_DENIED")))
    BY <1>3, <2>4, HandlerEnds
  <2>5. ASSUME NEW t \in checkAvailableTaxis,
               IF AssignThrows(d, t, c)
               THEN Abort(d, responses)
               ELSE Simple(Assign(d, t, c),
                           Send(Assigned(responses, Assign(d, t, c), t, c), c, Accepted(t)))
        PROVE  RideStep
    <3> DEFINE e == Assign(d, t, c)
               told == Send(Assigned(responses, e, t, c), c, Accepted(t))
    <3>0. t \in Taxis
      BY DEF checkAvailableTaxis, AvailableTaxis
    <3>1. CASE AssignThrows(d, t, c)
      BY <2>2, <2>5, <3>1, HandlerEnds, QuietHandler
    <3>2. CASE ~AssignThrows(d, t, c)
      <4>1. e \in Db /\ e.taxis[t].dest \in Points /\ Aboard(e) = Aboard(db)
        BY <1>1, <2>2, <3>0, <3>2, AssignType, AssignAboard
      <4>2. Ends(e, told)
        BY <2>5, <3>2, HandlerEnds
      <4> HIDE DEF e
      <4>3. Notices(told) = Send(Send(Notices(responses), c, Accepted(t)), c, Accepted(t))
        <5>1. /\ Assigned(responses, e, t, c) \in Inboxes
              /\ Notices(Assigned(responses, e, t, c)) = Send(Notices(responses), c, Accepted(t))
          BY <1>0, <1>1, <3>0, <4>1, AssignedNotices
        <5>2. QED BY <1>1, <5>1, SendNotices
      <4>4. QED BY <1>1, <3>0, <4>1, <4>2, <4>3, OtherNoticesAre, SpokenHandler
    <3>3. QED BY <3>1, <3>2
  <2>6. QED BY <1>6, <2>3, <2>4, <2>5 DEF ServiceRequest
<1>7. QED BY <1>4, <1>5, <1>6

\* A taxi that is sent somewhere loses its customer without a word.
LEMMA OrderGoToRides ==
    ASSUME TypeOK, OrderGoTo
    PROVE  RideStep
<1>1. request.taxiId \in Taxis
  BY RequestType, RequestMembers DEF OrderGoTo, TaxiOrders
<1>2. PICK t \in Taxis : t = request.taxiId
  BY <1>1
<1> DEFINE p == IF request.subject = "ORDER_TAXI_GO_TO" THEN request.coord ELSE Base
<1>3. db \in Db /\ responses \in Inboxes /\ p \in Points
  BY RequestType, RequestMembers, BaseAssumption DEF OrderGoTo, TypeOK
<1>4. Ends(SendTaxi(db, t, p), Send(responses, t, GoTo(p)))
  BY <1>2, HandlerEnds DEF OrderGoTo
<1>5. /\ Aboard(SendTaxi(db, t, p)) = [Aboard(db) EXCEPT ![t] = None]
      /\ Notices(Send(responses, t, GoTo(p))) = Notices(responses)
  BY <1>3, TaxiUpdatesAboard, SendNotices
<1>6. Notices(responses') = Notices(responses) /\ Failing
  BY <1>4, <1>5 DEF Ends
<1>7. CASE Aboard(db') = Aboard(db)
  BY <1>6, <1>7, NothingNew
<1>8. CASE Aboard(db') # Aboard(db)
  <2>1. dbUp /\ Aboard(db') = [Aboard(db) EXCEPT ![t] = None]
    BY <1>4, <1>5, <1>8 DEF Ends
  <2>2. Aboard(db)[t] # None
    BY <1>8, <2>1 DEF Aboard
  <2>3. Rides!AlightUnheard(t)
    BY <1>6, <2>1, <2>2 DEF Rides!AlightUnheard, Aboard, Notices
  <2>4. QED BY <1>6, <2>3 DEF RideStep, Rides!Next, Failing
<1>9. QED BY <1>7, <1>8

\* A connection that breaks in a handler makes the central say what has not happened, or keep
\* silent about what has.
LEMMA BrokenRides ==
    ASSUME TypeOK, HandleBroken
    PROVE  RideStep
<1>0. /\ db \in Db /\ responses \in Inboxes /\ Taxis \subseteq Subscribers
      /\ Customers \subseteq Subscribers
  BY DEF TypeOK, Subscribers
<1>1. ASSUME NEW d \in Db, Aboard(d) = Aboard(db), NEW c \in Customers, NEW t \in Taxis,
             AssignBroken(d, responses, t, c)
      PROVE  RideStep
  <2>1. PICK e \in {d, Assign(d, t, c)} : Abort(e, responses)
    BY <1>1 DEF AssignBroken
  <2>2. Aboard(e) = Aboard(db)
    BY <1>1, AssignAboard
  <2>3. QED BY <2>1, <2>2, HandlerEnds, QuietHandler
<1>2. CASE JoinBroken
  <2>1. Receives({"NEW_TAXI", "TAXI_RECONNECTED"}) /\ request.taxiId \in Taxis
    BY <1>2, RequestType, RequestMembers DEF JoinBroken, TaxiSignals
  <2>2. checkQueue(db) \subseteq Customers
    BY <1>0, <2>1, QueryTypes
  <2>3. QED BY <1>0, <1>1, <1>2, <2>1, <2>2 DEF JoinBroken
<1>3. CASE RideBroken
  <2>1. /\ request.taxiId \in Taxis /\ request.coord \in Points
        /\ carryingClient(request.taxiId) \in Customers
    <3>1. request.taxiId \in Taxis /\ request.coord \in Points
      BY <1>3, RequestType, RequestMembers DEF RideBroken, TaxiArrivals
    <3>2. QED BY <1>3, <3>1, QueryTypes DEF RideBroken
  <2>2. PICK t \in Taxis, c \in Customers : t = request.taxiId /\ c = carryingClient(t)
    BY <2>1
  <2> DEFINE d == SetOnboard(Moved, c, t, FALSE)
             answered == Send(responses, c, Notice("CUSTOMER_SERVICE_COMPLETED"))
  <2>3. dbUp /\ HasTaxi(db, t) /\ Aboard(db)[t] = c /\ c # None
    BY <2>2, NoneAssumption DEF carryingClient, CarriedBy, Aboard
  <2>4. Moved \in Db /\ Aboard(Moved) = Aboard(db) /\ HasTaxi(Moved, t)
    BY <2>1, <2>2, <2>3, MovedType, MovedAboard
  <2>5. d \in Db /\ Aboard(d) = [Aboard(db) EXCEPT ![t] = None]
    <3>1. d \in Db /\ Aboard(d) = [Aboard(Moved) EXCEPT ![t] = None]
      BY <2>4, SetOnboardType, GetsOff, Zenon
    <3>2. QED BY <2>4, <3>1
  <2>6. Notices(answered) = Send(Notices(responses), c, Notice("CUSTOMER_SERVICE_COMPLETED"))
    BY <1>0, SendNotices
  <2>7. \/ \E e \in {db, Moved, d} : Broken(e, answered)
        \/ \E q \in checkQueue(d) : AssignBroken(d, answered, t, q)
    BY <1>3, <2>2 DEF RideBroken
  <2>8. checkQueue(d) \subseteq Customers
    BY <2>5, QueryTypes
  <2> HIDE DEF d, answered
  <2>9. ASSUME dbUp' \in {dbUp, FALSE}, Aboard(db') = [Aboard(db) EXCEPT ![t] = None],
               responses' \in {responses, answered}
        PROVE  RideStep
    <3>1. Rides!Alight(t) \/ Rides!AlightUnheard(t)
      BY <2>3, <2>6, <2>9, RideVocabulary
      DEF Rides!Alight, Rides!AlightUnheard, Aboard, Notices
    <3>2. QED BY <2>9, <3>1 DEF RideStep, Rides!Next
  <2>10. ASSUME NEW e \in {db, Moved}, Broken(e, answered) PROVE RideStep
    <3>1. ~dbUp' /\ dbUp' = FALSE /\ Aboard(db') = Aboard(db) /\ responses' = answered
      BY <2>4, <2>10 DEF Broken, Breaks
    <3>2. Rides!Misreport(t, c)
      BY <2>3, <2>6, <3>1, RideVocabulary DEF Rides!Misreport, Aboard, Notices
    <3>3. QED BY <3>1, <3>2 DEF RideStep, Rides!Next
  <2>11. CASE Broken(d, answered)
    BY <2>5, <2>9, <2>11 DEF Broken, Breaks
  <2>12. ASSUME NEW q \in checkQueue(d), AssignBroken(d, answered, t, q) PROVE RideStep
    <3>1. PICK e \in {d, Assign(d, t, q)} : Abort(e, answered)
      BY <2>12 DEF AssignBroken
    <3>2. Aboard(e) = Aboard(d)
      BY <2>5, <2>8, AssignAboard
    <3>3. QED BY <2>3, <2>5, <2>9, <3>1, <3>2 DEF Abort
  <2>13. QED BY <2>7, <2>10, <2>11, <2>12
<1>4. CASE PickUpBroken
  <2>1. /\ request.taxiId \in Taxis /\ request.coord \in Points
        /\ getService(request.taxiId) \in Customers
    <3>1. request.taxiId \in Taxis /\ request.coord \in Points
      BY <1>4, RequestType, RequestMembers DEF PickUpBroken, TaxiArrivals
    <3>2. QED BY <1>4, <3>1, QueryTypes DEF PickUpBroken
  <2>2. PICK t \in Taxis, c \in Customers : t = request.taxiId /\ c = getService(t)
    BY <2>1
  <2> DEFINE p == DestinationOf(db, c)
             denied == Send(responses, c, Notice("CUSTOMER_SERVICE_DENIED"))
             picked == Send(Send(responses, c, Notice("CUSTOMER_PICKED_UP")), t, GoTo(p))
  <2>3. dbUp /\ Aboard(db)[t] = None
    BY <1>4, <2>2, NoneAssumption DEF PickUpBroken, getService, carryingClient, Aboard
  <2>4. Aboard(Moved) = Aboard(db)
    BY <2>1, MovedAboard
  <2>5. /\ Notices(denied) = Send(Notices(responses), c, Notice("CUSTOMER_SERVICE_DENIED"))
        /\ Notices(picked) = Send(Notices(responses), c, Notice("CUSTOMER_PICKED_UP"))
    <3>1. Send(responses, c, Notice("CUSTOMER_PICKED_UP")) \in Inboxes
      BY <1>0, NoticeTypes, SendType
    <3>2. QED BY <1>0, <3>1, SendNotices
  <2>6. Abort(Moved, responses) \/ Broken(Moved, denied) \/ Broken(Moved, picked)
    BY <1>4, <2>2 DEF PickUpBroken
  <2> HIDE DEF denied, picked
  <2>7. CASE Abort(Moved, responses)
    BY <2>4, <2>7, HandlerEnds, QuietHandler
  <2>8. CASE Broken(Moved, denied)
    BY <2>4, <2>5, <2>8, HandlerEnds, OtherNoticesAre, SpokenHandler
  <2>9. CASE Broken(Moved, picked)
    <3>1. ~dbUp' /\ dbUp' = FALSE /\ Aboard(db') = Aboard(db) /\ responses' = picked
      BY <2>4, <2>9 DEF Broken, Breaks
    <3>2. Rides!Misreport(t, c)
      BY <2>3, <2>5, <3>1, RideVocabulary DEF Rides!Misreport, Aboard, Notices
    <3>3. QED BY <3>1, <3>2 DEF RideStep, Rides!Next
  <2>10. QED BY <2>6, <2>7, <2>8, <2>9
<1>5. CASE NewCustomerBroken
  <2>1. request.id \in Customers
    BY <1>5, RequestType, RequestMembers DEF NewCustomerBroken
  <2>2. Aboard(InsertCustomer(db, request.id, request.coord)) = Aboard(db)
    BY <1>0, <2>1, CustomerUpdatesAboard
  <2>3. QED BY <1>5, <2>2, HandlerEnds, QuietHandler DEF NewCustomerBroken
<1>6. CASE ServiceBroken
  <2> DEFINE c == request.id
             d == SetDestination(db, c, request.data)
             denied == Send(responses, c, Notice("CUSTOMER_SERVICE_DENIED"))
  <2>1. c \in Customers /\ request.data \in Services
    BY <1>6, RequestType, RequestMembers DEF ServiceBroken
  <2>2. d \in Db /\ Aboard(d) = Aboard(db)
    BY <1>0, <2>1, CustomerUpdatesType, CustomerUpdatesAboard
  <2>3. Notices(denied) = Send(Notices(responses), c, Notice("CUSTOMER_SERVICE_DENIED"))
    BY <1>0, <2>1, SendNotices
  <2>4. \/ \E e \in {db, d} : Broken(e, denied)
        \/ \E t \in checkAvailableTaxis : AssignBroken(d, responses, t, c)
    BY <1>6 DEF ServiceBroken
  <2> HIDE DEF d, denied
  <2>5. ASSUME NEW e \in {db, d}, Broken(e, denied) PROVE RideStep
    BY <2>1, <2>2, <2>3, <2>5, HandlerEnds, OtherNoticesAre, SpokenHandler
  <2>6. checkAvailableTaxis \subseteq Taxis
    BY DEF checkAvailableTaxis, AvailableTaxis
  <2>7. QED BY <1>1, <2>1, <2>2, <2>4, <2>5, <2>6
<1>7. QED BY <1>2, <1>3, <1>4, <1>5, <1>6 DEF HandleBroken

LEMMA EnvironmentRides ==
    ASSUME TypeOK, Environment
    PROVE  RideStep
<1>1. CASE Tick \/ LoseDb \/ Announce \/ \E m \in Inputs : Submit(m)
  <2>1. UNCHANGED <<db, responses>> /\ Failing
    BY <1>1 DEF Tick, LoseDb, Breaks, Announce, Submit, Failing
  <2>2. QED BY <2>1, NothingNew
<1>2. ASSUME NEW t \in Taxis, Register(t) PROVE RideStep
  <2>1. Aboard(RegisterTaxi(db, t)) = Aboard(db)
    BY RegisterTaxiAboard DEF TypeOK
  <2>2. db' = RegisterTaxi(db, t) /\ responses' = responses /\ Failing
    BY <1>2 DEF Register, Failing
  <2>3. QED BY <2>1, <2>2, NothingNew
<1>3. ASSUME NEW s \in Subscribers, Read(s) PROVE RideStep
  <2>1. /\ Aboard(db') = Aboard(db) /\ Failing
        /\ responses[s] # <<>> /\ responses' = [responses EXCEPT ![s] = Tail(@)]
        /\ responses = [u \in Subscribers |-> responses[u]]
    BY <1>3 DEF Read, Failing, TypeOK, Inboxes
  <2>2. CASE s \in Customers
    <3>1. Notices(responses') = [Notices(responses) EXCEPT ![s] = Tail(@)]
      BY <2>1, <2>2 DEF Notices, Subscribers
    <3>2. Rides!Hear(s)
      BY <2>1, <2>2, <3>1 DEF Rides!Hear, Aboard, Notices
    <3>3. QED BY <2>1, <2>2, <3>2 DEF RideStep, Rides!Next, Failing
  <2>3. CASE s \notin Customers
    <3>1. Notices(responses') = Notices(responses)
      BY <2>1, <2>3 DEF Notices, Subscribers
    <3>2. QED BY <2>1, <3>1, NothingNew
  <2>4. QED BY <2>2, <2>3
<1>4. QED BY <1>1, <1>2, <1>3 DEF Environment

LEMMA RidesMap ==
    TypeOK /\ [Next]_vars => [Rides!Next]_<<[t \in Taxis |-> CarriedBy(db, t)],
                                            [c \in Customers |-> responses[c]],
                                            dbUp>>
<1> SUFFICES ASSUME TypeOK, [Next]_vars PROVE RideStep
  BY DEF RideStep, Rides!vars
<1>1. CASE UNCHANGED vars \/ IgnoreOtherSession
  <2>1. UNCHANGED <<db, responses>> /\ Failing
    BY <1>1 DEF vars, IgnoreOtherSession, Failing
  <2>2. QED BY <2>1, NothingNew
<1>2. CASE Handle
  BY <1>1, <1>2, JoiningRides, PickUpRides, CompleteRides, QuietRides, SpokenRides, OrderGoToRides
  DEF Handle
<1>3. CASE HandleBroken
  BY <1>3, BrokenRides
<1>4. CASE Environment
  BY <1>4, EnvironmentRides
<1>5. QED BY <1>1, <1>2, <1>3, <1>4 DEF Next

\* The central implements Carriage: for any taxis, customers, locations and requests, in a fresh or
\* a resumed session, it tells riders exactly what its database does to them, whatever the order of
\* arrivals, orders and disconnections, and says one untrue thing at most when its connection
\* breaks.
THEOREM CentralCarries == Spec => CarriageImplemented
<1>1. ASSUME Init PROVE Rides!Init
  <2>1. db \in Db /\ dbUp = TRUE
    BY <1>1, InitType DEF TypeOK, Init
  <2>2. \A t \in Taxis : CarriedBy(db, t) \in Customers \cup {None}
    <3>1. ASSUME NEW t \in Taxis, HasTaxi(db, t) PROVE db.taxis[t].customer_id \in Customers \cup {None}
      BY <2>1, <3>1, TaxiRowType DEF TaxiRow
    <3>2. QED BY <3>1 DEF CarriedBy
  <2>3. \A c \in Customers : responses[c] = <<>>
    BY <1>1 DEF Init, Subscribers
  <2>4. QED BY <2>1, <2>2, <2>3 DEF Rides!Init
<1>2. QED
  BY <1>1, RidesMap, TypeCorrect, PTL DEF Spec, CarriageImplemented, Rides!Spec, Rides!vars

-----------------------------------------------------------------------------
(* Assignments                                                             *)

\* m is among what r has in the inbox of s beyond what is there now.
Says(r, s, m) == \E i \in Len(responses[s]) + 1 .. Len(r[s]) : r[s][i] = m

\* r is what was to be read, and more.
Longer(r) ==
    /\ r \in Inboxes
    /\ \A s \in Subscribers :
        /\ Len(responses[s]) <= Len(r[s])
        /\ \A i \in 1..Len(responses[s]) : r[s][i] = responses[s][i]

LEMMA SaysMore ==
    ASSUME TypeOK, NEW r, Longer(r), NEW u \in Subscribers, NEW m \in TaxiNotice \cup CustomerNotice
    PROVE  /\ Longer(Send(r, u, m))
           /\ \A s \in Subscribers : \A n : Says(Send(r, u, m), s, n) <=> Says(r, s, n) \/ (s = u /\ n = m)
<1>1. r \in Inboxes /\ Send(r, u, m) \in Inboxes
  BY SendType DEF Longer
<1>2. \A s \in Subscribers : /\ r[s] \in Seq(TaxiNotice \cup CustomerNotice)
                             /\ responses[s] \in Seq(TaxiNotice \cup CustomerNotice)
                             /\ Len(r[s]) \in Nat /\ Len(responses[s]) \in Nat
                             /\ Len(responses[s]) <= Len(r[s])
  BY <1>1 DEF Inboxes, Longer, TypeOK
<1>3. \A s \in Subscribers : Send(r, u, m)[s] = IF s = u THEN Append(r[u], m) ELSE r[s]
  BY <1>1 DEF Send, Inboxes
<1>4. /\ Len(Send(r, u, m)[u]) = Len(r[u]) + 1
      /\ \A i \in 1..Len(r[u]) : Send(r, u, m)[u][i] = r[u][i]
      /\ Send(r, u, m)[u][Len(r[u]) + 1] = m
  <2> DEFINE q == r[u]
  <2>1. q \in Seq(TaxiNotice \cup CustomerNotice) /\ Send(r, u, m)[u] = Append(q, m)
    BY <1>2, <1>3
  <2> HIDE DEF q
  <2>2. /\ Len(Append(q, m)) = Len(q) + 1
        /\ \A i \in 1..Len(q) : Append(q, m)[i] = q[i]
        /\ Append(q, m)[Len(q) + 1] = m
    BY <2>1
  <2>3. QED BY <2>1, <2>2 DEF q
<1>5. Longer(Send(r, u, m))
  <2>1. \A s \in Subscribers : \A i \in 1..Len(responses[s]) :
            i \in 1..Len(r[s]) /\ r[s][i] = responses[s][i]
    BY <1>2 DEF Longer
  <2>2. \A s \in Subscribers : \A i \in 1..Len(r[s]) : Send(r, u, m)[s][i] = r[s][i]
    BY <1>3, <1>4
  <2>3. QED BY <1>1, <1>2, <1>3, <1>4, <2>1, <2>2 DEF Longer
<1>6. ASSUME NEW n PROVE Says(Send(r, u, m), u, n) <=> Says(r, u, n) \/ n = m
  <2>1. ASSUME Says(r, u, n) PROVE Says(Send(r, u, m), u, n)
    BY <1>2, <1>4, <2>1 DEF Says
  <2>2. ASSUME n = m PROVE Says(Send(r, u, m), u, n)
    BY <1>2, <1>4, <2>2 DEF Says
  <2>3. ASSUME Says(Send(r, u, m), u, n) PROVE Says(r, u, n) \/ n = m
    <3>1. PICK i \in Len(responses[u]) + 1 .. Len(r[u]) + 1 : Send(r, u, m)[u][i] = n
      BY <1>4, <2>3 DEF Says
    <3>2. i = Len(r[u]) + 1 \/ i \in 1..Len(r[u])
      BY <1>2, <3>1
    <3>3. QED BY <1>2, <1>4, <3>1, <3>2 DEF Says
  <2>4. QED BY <2>1, <2>2, <2>3
<1>7. ASSUME NEW s \in Subscribers, NEW n, s # u PROVE Says(Send(r, u, m), s, n) <=> Says(r, s, n)
  BY <1>3, <1>7 DEF Says
<1>8. QED BY <1>5, <1>6, <1>7

LEMMA SaysNothing ==
    ASSUME TypeOK
    PROVE  Longer(responses) /\ \A s \in Subscribers : \A n : ~Says(responses, s, n)
<1>1. \A s \in Subscribers : Len(responses[s]) \in Nat
  BY DEF TypeOK, Inboxes
<1>2. QED BY <1>1 DEF Longer, Says, TypeOK

\* What assign leaves in the database.
LEMMA AssignStores ==
    ASSUME NEW d \in Db, NEW t \in Taxis, NEW c \in Customers, HasCustomer(d, c), ~AssignThrows(d, t, c)
    PROVE  /\ Assign(d, t, c).taxis[t].service = c
           /\ Assign(d, t, c).taxis[t].dest = d.customers[c].pos
           /\ Assign(d, t, c).customers = d.customers
<1> DEFINE row == [d.taxis[t] EXCEPT !.dest = d.customers[c].pos, !.service = c]
<1>1. HasTaxi(d, t)
  BY DEF AssignThrows
<1>2. Assign(d, t, c) = [d EXCEPT !.taxis = [@ EXCEPT ![t] = row]]
  BY <1>1 DEF Assign, SetTaxi
<1>3. Assign(d, t, c).taxis[t] = row /\ Assign(d, t, c).customers = d.customers
  BY <1>2 DEF Db
<1>4. d.taxis[t] \in TaxiRow
  BY <1>1, TaxiRowType
<1>5. row.service = c /\ row.dest = d.customers[c].pos
  BY <1>4 DEF TaxiRow
<1>6. QED BY <1>3, <1>5

\* What AssignmentAnnounced says of a step.
Announced ==
    \A c \in Customers, t \in Taxis :
        Tells(c, Accepted(t)) /\ HasCustomer(db, c) =>
            /\ db'.taxis[t].service = c
            /\ db'.taxis[t].dest = db'.customers[c].pos
            /\ Tells(t, GoTo(db'.customers[c].pos))

SaysNoTaxi(r) == Longer(r) /\ \A c \in Customers, t \in Taxis : ~Says(r, c, Accepted(t))

LEMMA NobodyAssigned ==
    ASSUME NEW r, SaysNoTaxi(r), TypeOK, responses' \in {responses, r}
    PROVE  Announced
<1>1. \A c \in Customers, t \in Taxis : ~Says(responses', c, Accepted(t))
  BY SaysNothing DEF SaysNoTaxi, Subscribers
<1>2. QED BY <1>1 DEF Announced, Tells, Says

LEMMA SaysNoTaxiGrows ==
    ASSUME TypeOK, NEW r, SaysNoTaxi(r), NEW u \in Subscribers, NEW m \in TaxiNotice \cup CustomerNotice,
           \A t \in Taxis : m # Accepted(t)
    PROVE  SaysNoTaxi(Send(r, u, m))
BY SaysMore DEF SaysNoTaxi, Subscribers

LEMMA OtherWords ==
    /\ \A p, t : GoTo(p) # Accepted(t)
    /\ \A s \in {"TAXI_STOP", "TAXI_CONTINUE", "TAXI_DISCONNECT", "CUSTOMER_DISCONNECT",
                  "CUSTOMER_PRIORITY", "CUSTOMER_PICKED_UP", "CUSTOMER_ENQUEUED",
                  "CUSTOMER_SERVICE_COMPLETED", "CUSTOMER_SERVICE_DENIED", "ACCEPT", "DENY"} :
            \A t : Notice(s) # Accepted(t)
    /\ \A t, u : Accepted(t) = Accepted(u) => t = u
<1>1. /\ \A p : GoTo(p).subject = "TAXI_GO_TO"
      /\ \A s : Notice(s).subject = s
      /\ \A t : Accepted(t).subject = "CUSTOMER_SERVICE_ACCEPTED" /\ Accepted(t).taxiId = t
  BY DEF GoTo, Notice, Accepted
<1>2. QED BY <1>1

\* assign(t, c) tells c and nobody else, and what it tells is so.
LEMMA AssigningAnnounces ==
    ASSUME TypeOK, NEW d \in Db, NEW answered, SaysNoTaxi(answered),
           NEW t \in Taxis, NEW c \in Customers,
           dbUp, HasCustomer(db, c) => HasCustomer(d, c), ~AssignThrows(d, t, c),
           db' = Assign(d, t, c),
           responses' \in {Assigned(answered, Assign(d, t, c), t, c),
                           Send(Assigned(answered, Assign(d, t, c), t, c), c, Accepted(t))}
    PROVE  Announced
<1> DEFINE p == db'.taxis[t].dest
           one == Send(answered, t, GoTo(p))
           two == Send(one, c, Accepted(t))
           three == Send(two, c, Accepted(t))
<1>1. p \in Points /\ t \in Subscribers /\ c \in Subscribers
  BY AssignType DEF Subscribers
<1>2. GoTo(p) \in TaxiNotice \cup CustomerNotice /\ Accepted(t) \in TaxiNotice \cup CustomerNotice
  BY <1>1, NoticeTypes
<1>3. responses' \in {two, three}
  BY DEF Assigned
<1> HIDE DEF p
<1>4. SaysNoTaxi(one) /\ Longer(one) /\ Says(one, t, GoTo(p))
  BY <1>1, <1>2, SaysNoTaxiGrows, SaysMore, OtherWords DEF SaysNoTaxi
<1> HIDE DEF one
<1>5. /\ Longer(two)
      /\ \A s \in Subscribers : \A n : Says(two, s, n) <=> Says(one, s, n) \/ (s = c /\ n = Accepted(t))
  BY <1>1, <1>2, <1>4, SaysMore
<1> HIDE DEF two
<1>6. \A s \in Subscribers : \A n : Says(three, s, n) <=> Says(two, s, n) \/ (s = c /\ n = Accepted(t))
  BY <1>1, <1>2, <1>5, SaysMore
<1> HIDE DEF three
<1>7. /\ \A s \in Subscribers : \A n : Says(responses', s, n) => Says(one, s, n) \/ (s = c /\ n = Accepted(t))
      /\ Says(responses', t, GoTo(p))
  BY <1>1, <1>3, <1>4, <1>5, <1>6
<1>8. \A b \in Customers, u \in Taxis : Says(responses', b, Accepted(u)) => b = c /\ u = t
  BY <1>4, <1>7, OtherWords DEF SaysNoTaxi, Subscribers
<1>9. HasCustomer(db, c) => db'.taxis[t].service = c /\ p = db'.customers[c].pos
  BY AssignStores DEF p
<1>10. QED BY <1>7, <1>8, <1>9 DEF Announced, Tells, Says, p

\* A handler that does not speak of taxis.
LEMMA SilentOnTaxis ==
    ASSUME NEW d, NEW answered, Ends(d, answered), SaysNoTaxi(answered), TypeOK
    PROVE  Announced
BY NobodyAssigned DEF Ends

LEMMA EndsByAnnouncing ==
    ASSUME TypeOK, NEW d \in Db, NEW answered, SaysNoTaxi(answered),
           NEW t \in Taxis, NEW c \in Customers, dbUp, HasCustomer(d, c),
           EndByAssigning(d, answered, t, c)
    PROVE  Announced
<1>1. CASE AssignThrows(d, t, c)
  BY <1>1, HandlerEnds, SilentOnTaxis DEF EndByAssigning
<1>2. CASE ~AssignThrows(d, t, c)
  BY <1>2, AssigningAnnounces DEF EndByAssigning, Simple, Done
<1>3. QED BY <1>1, <1>2

LEMMA QueueHasRows ==
    ASSUME NEW d, NEW c \in checkQueue(d)
    PROVE  dbUp /\ c \in Customers /\ HasCustomer(d, c)
BY DEF checkQueue, FirstInQueue, Queued

\* The handlers that assign a taxi.
LEMMA AssigningHandlersAnnounce ==
    ASSUME TypeOK, TaxiJoins \/ CompleteRide \/ ServiceRequest
    PROVE  Announced
<1>0. db \in Db /\ responses \in Inboxes /\ SaysNoTaxi(responses)
  BY SaysNothing DEF TypeOK, SaysNoTaxi, Subscribers
<1>1. CASE TaxiJoins
  <2>1. request.taxiId \in Taxis
    BY <1>1, RequestType, RequestMembers DEF TaxiJoins, TaxiSignals
  <2>2. CASE Simple(db, responses)
    BY <1>0, <2>2, HandlerEnds, SilentOnTaxis
  <2>3. ASSUME NEW c \in checkQueue(db), EndByAssigning(db, responses, request.taxiId, c)
        PROVE  Announced
    BY <1>0, <2>1, <2>3, QueueHasRows, EndsByAnnouncing
  <2>4. QED BY <1>1, <2>2, <2>3 DEF TaxiJoins
<1>2. CASE CompleteRide
  <2> DEFINE t == request.taxiId
             c == carryingClient(t)
             d == SetOnboard(Moved, c, t, FALSE)
             answered == Send(responses, c, Notice("CUSTOMER_SERVICE_COMPLETED"))
  <2>1. t \in Taxis /\ request.coord \in Points
    BY <1>2, RequestType, RequestMembers DEF CompleteRide, TaxiArrivals
  <2>2. c \in Customers /\ c \in Subscribers
    BY <1>2, <2>1, QueryTypes DEF CompleteRide, Subscribers
  <2>3. d \in Db
    BY <2>1, <2>2, MovedType, SetOnboardType
  <2>4. SaysNoTaxi(answered)
    BY <1>0, <2>2, NoticeTypes, OtherWords, SaysNoTaxiGrows
  <2>5. \/ Simple(d, answered)
        \/ \E q \in checkQueue(d) : EndByAssigning(d, answered, t, q)
    BY <1>2 DEF CompleteRide
  <2> HIDE DEF d, answered
  <2>6. CASE Simple(d, answered)
    BY <2>4, <2>6, HandlerEnds, SilentOnTaxis
  <2>7. ASSUME NEW q \in checkQueue(d), EndByAssigning(d, answered, t, q) PROVE Announced
    BY <2>1, <2>3, <2>4, <2>7, QueueHasRows, EndsByAnnouncing
  <2>8. QED BY <2>5, <2>6, <2>7
<1>3. CASE ServiceRequest
  <2> DEFINE c == request.id
             d == SetDestination(db, c, request.data)
  <2>1. c \in Customers /\ c \in Subscribers /\ request.data \in Services
    BY <1>3, RequestType, RequestMembers DEF ServiceRequest, Subscribers
  <2>2. d \in Db
    BY <1>0, <2>1, CustomerUpdatesType
  <2>3. HasCustomer(db, c) => HasCustomer(d, c)
    <3> DEFINE row == [db.customers[c] EXCEPT !.destination = request.data]
    <3>1. SUFFICES ASSUME HasCustomer(db, c) PROVE HasCustomer(d, c)
      OBVIOUS
    <3>2. row \in CustomerRow
      BY <1>0, <2>1, <3>1, CustomerRowType DEF CustomerRow
    <3>3. d.customers[c] = row
      BY <1>0, <2>1, <3>1 DEF SetDestination, SetCustomer, Db
    <3>4. QED BY <3>2, <3>3, NoRowAssumption DEF HasCustomer
  <2>4. /\ SaysNoTaxi(Send(responses, c, Notice("CUSTOMER_ENQUEUED")))
        /\ SaysNoTaxi(Send(responses, c, Notice("CUSTOMER_SERVICE_DENIED")))
    BY <1>0, <2>1, NoticeTypes, OtherWords, SaysNoTaxiGrows
  <2>5. CASE \/ Simple(Enqueue(db, c, now), Send(responses, c, Notice("CUSTOMER_ENQUEUED")))
             \/ Simple(db, Send(responses, c, Notice("CUSTOMER_SERVICE_DENIED")))
    BY <2>4, <2>5, HandlerEnds, SilentOnTaxis
  <2>6. ASSUME NEW t \in checkAvailableTaxis,
               IF AssignThrows(d, t, c)
               THEN Abort(d, responses)
               ELSE Simple(Assign(d, t, c),
                           Send(Assigned(responses, Assign(d, t, c), t, c), c, Accepted(t)))
        PROVE  Announced
    <3>1. t \in Taxis /\ dbUp
      BY DEF checkAvailableTaxis, AvailableTaxis
    <3> HIDE DEF d
    <3>2. CASE AssignThrows(d, t, c)
      BY <1>0, <2>6, <3>2, HandlerEnds, SilentOnTaxis
    <3>3. CASE ~AssignThrows(d, t, c)
      <4>1. /\ db' = Assign(d, t, c)
            /\ responses' = Send(Assigned(responses, Assign(d, t, c), t, c), c, Accepted(t))
        BY <2>6, <3>1, <3>3 DEF Simple, Done
      <4>2. QED BY <1>0, <2>1, <2>2, <2>3, <3>1, <3>3, <4>1, AssigningAnnounces
    <3>4. QED BY <3>2, <3>3
  <2>7. QED BY <1>3, <2>5, <2>6 DEF ServiceRequest
<1>4. QED BY <1>1, <1>2, <1>3

\* No other handler says that a taxi was assigned.
LEMMA OtherHandlersSilent ==
    ASSUME TypeOK,
           \/ TaxiMoves \/ PickUpCustomer \/ ReachWithoutService \/ SetTaxiReady \/ UpdateWaitTime
           \/ Ping \/ NewCustomer \/ UpdateNextRequest \/ OrderGoTo \/ OrderStop \/ OrderContinue
           \/ OrderTaxiDisconnect \/ OrderCustomerDisconnect \/ OrderPriority \/ OrderLocationMove
    PROVE  Announced
<1>0. SaysNoTaxi(responses)
  BY SaysNothing DEF SaysNoTaxi, Subscribers
<1>1. ASSUME NEW s \in Subscribers,
             NEW w \in {"TAXI_STOP", "TAXI_CONTINUE", "TAXI_DISCONNECT", "CUSTOMER_DISCONNECT",
                        "CUSTOMER_PRIORITY", "CUSTOMER_PICKED_UP", "CUSTOMER_SERVICE_DENIED",
                        "ACCEPT", "DENY"}
      PROVE  SaysNoTaxi(Send(responses, s, Notice(w)))
  <2>1. Notice(w) \in TaxiNotice \cup CustomerNotice /\ \A t \in Taxis : Notice(w) # Accepted(t)
    BY NoticeTypes, OtherWords
  <2>2. QED BY <1>0, <2>1, SaysNoTaxiGrows
<1>2. CASE \/ TaxiMoves \/ ReachWithoutService \/ SetTaxiReady \/ UpdateWaitTime \/ Ping
           \/ UpdateNextRequest \/ OrderLocationMove
  <2>1. responses' = responses
    BY <1>2 DEF TaxiMoves, ReachWithoutService, SetTaxiReady, UpdateWaitTime, Ping,
                UpdateNextRequest, OrderLocationMove, Simple, Done, Abort
  <2>2. QED BY <1>0, <2>1, NobodyAssigned
<1>3. CASE OrderStop \/ OrderContinue \/ OrderTaxiDisconnect
  <2>1. request.taxiId \in Subscribers
    BY <1>3, RequestType, RequestMembers
    DEF OrderStop, OrderContinue, OrderTaxiDisconnect, TaxiOrders, Subscribers
  <2>2. \E w \in {"TAXI_STOP", "TAXI_CONTINUE", "TAXI_DISCONNECT"} :
            responses' = Send(responses, request.taxiId, Notice(w))
    BY <1>3 DEF OrderStop, OrderContinue, OrderTaxiDisconnect, Simple, Done
  <2>3. QED BY <1>1, <2>1, <2>2, NobodyAssigned
<1>4. CASE NewCustomer \/ OrderCustomerDisconnect \/ OrderPriority
  <2>1. request.id \in Subscribers
    BY <1>4, RequestType, RequestMembers
    DEF NewCustomer, OrderCustomerDisconnect, OrderPriority, CustomerOrders, Subscribers
  <2>2. \/ responses' = responses
        \/ \E w \in {"ACCEPT", "DENY", "CUSTOMER_DISCONNECT", "CUSTOMER_PRIORITY"} :
              responses' = Send(responses, request.id, Notice(w))
    BY <1>4 DEF NewCustomer, OrderCustomerDisconnect, OrderPriority, Simple, Done
  <2>3. QED BY <1>0, <1>1, <2>1, <2>2, NobodyAssigned
<1>5. CASE OrderGoTo
  <2> DEFINE p == IF request.subject = "ORDER_TAXI_GO_TO" THEN request.coord ELSE Base
  <2>1. request.taxiId \in Subscribers /\ p \in Points
    BY <1>5, RequestType, RequestMembers, BaseAssumption DEF OrderGoTo, TaxiOrders, Subscribers
  <2>2. responses' = Send(responses, request.taxiId, GoTo(p))
    BY <1>5 DEF OrderGoTo, Simple, Done
  <2>3. GoTo(p) \in TaxiNotice \cup CustomerNotice /\ \A t \in Taxis : GoTo(p) # Accepted(t)
    BY <2>1, NoticeTypes, OtherWords
  <2>4. QED BY <1>0, <2>1, <2>2, <2>3, SaysNoTaxiGrows, NobodyAssigned
<1>6. CASE PickUpCustomer
  <2> DEFINE t == request.taxiId
             c == getService(t)
             p == DestinationOf(db, c)
             told == Send(responses, c, Notice("CUSTOMER_PICKED_UP"))
  <2>1. t \in Taxis /\ t \in Subscribers
    BY <1>6, RequestType, RequestMembers DEF PickUpCustomer, TaxiArrivals, Subscribers
  <2>2. c \in Customers /\ c \in Subscribers
    BY <1>6, <2>1, QueryTypes DEF PickUpCustomer, Subscribers
  <2>3. p \in Points \cup {None}
    BY <2>2, DestinationType DEF TypeOK
  <2>4. responses' = IF p = None THEN Send(responses, c, Notice("CUSTOMER_SERVICE_DENIED"))
                                 ELSE Send(told, t, GoTo(p))
    BY <1>6 DEF PickUpCustomer, Simple, Done
  <2>5. SaysNoTaxi(Send(responses, c, Notice("CUSTOMER_SERVICE_DENIED"))) /\ SaysNoTaxi(told)
    BY <1>1, <2>2
  <2> HIDE DEF p, told
  <2>6. CASE p = None
    BY <2>4, <2>5, <2>6, NobodyAssigned
  <2>7. CASE p # None
    <3>1. GoTo(p) \in TaxiNotice \cup CustomerNotice /\ \A u \in Taxis : GoTo(p) # Accepted(u)
      BY <2>3, <2>7, NoticeTypes, OtherWords
    <3>2. SaysNoTaxi(Send(told, t, GoTo(p)))
      BY <2>1, <2>5, <3>1, SaysNoTaxiGrows
    <3>3. QED BY <2>4, <2>7, <3>2, NobodyAssigned
  <2>8. QED BY <2>6, <2>7
<1>7. QED BY <1>2, <1>3, <1>4, <1>5, <1>6

\* Nor does one whose connection breaks: assign() throws before it has told the customer.
LEMMA BrokenSilent ==
    ASSUME TypeOK, HandleBroken
    PROVE  Announced
<1>0. responses \in Inboxes /\ SaysNoTaxi(responses)
  BY SaysNothing DEF TypeOK, SaysNoTaxi, Subscribers
<1>1. ASSUME NEW s \in Subscribers,
             NEW w \in {"CUSTOMER_PICKED_UP", "CUSTOMER_SERVICE_COMPLETED", "CUSTOMER_SERVICE_DENIED"}
      PROVE  SaysNoTaxi(Send(responses, s, Notice(w)))
  <2>1. Notice(w) \in TaxiNotice \cup CustomerNotice /\ \A t \in Taxis : Notice(w) # Accepted(t)
    BY NoticeTypes, OtherWords
  <2>2. QED BY <1>0, <2>1, SaysNoTaxiGrows
<1>2. ASSUME NEW d, NEW t, NEW c, NEW answered, SaysNoTaxi(answered), AssignBroken(d, answered, t, c)
      PROVE  Announced
  BY <1>2, NobodyAssigned DEF AssignBroken, Abort
<1>3. ASSUME NEW d, NEW answered, SaysNoTaxi(answered), Broken(d, answered) PROVE Announced
  BY <1>3, NobodyAssigned DEF Broken
<1>4. CASE JoinBroken
  BY <1>0, <1>2, <1>4 DEF JoinBroken
<1>5. CASE RideBroken
  <2> DEFINE c == carryingClient(request.taxiId)
             d == SetOnboard(Moved, c, request.taxiId, FALSE)
             answered == Send(responses, c, Notice("CUSTOMER_SERVICE_COMPLETED"))
  <2>1. request.taxiId \in Taxis
    BY <1>5, RequestType, RequestMembers DEF RideBroken, TaxiArrivals
  <2>2. c \in Subscribers
    BY <1>5, <2>1, QueryTypes DEF RideBroken, Subscribers
  <2>3. SaysNoTaxi(answered)
    BY <1>1, <2>2
  <2>4. \/ \E e \in {db, Moved, d} : Broken(e, answered)
        \/ \E q \in checkQueue(d) : AssignBroken(d, answered, request.taxiId, q)
    BY <1>5 DEF RideBroken
  <2> HIDE DEF c, d, answered
  <2>5. QED BY <1>2, <1>3, <2>3, <2>4
<1>6. CASE PickUpBroken
  <2> DEFINE t == request.taxiId
             c == getService(t)
             p == DestinationOf(db, c)
             denied == Send(responses, c, Notice("CUSTOMER_SERVICE_DENIED"))
             told == Send(responses, c, Notice("CUSTOMER_PICKED_UP"))
  <2>1. t \in Taxis /\ t \in Subscribers
    BY <1>6, RequestType, RequestMembers DEF PickUpBroken, TaxiArrivals, Subscribers
  <2>2. c \in Customers /\ c \in Subscribers
    BY <1>6, <2>1, QueryTypes DEF PickUpBroken, Subscribers
  <2>3. p \in Points \cup {None}
    BY <2>2, DestinationType DEF TypeOK
  <2>4. SaysNoTaxi(denied) /\ SaysNoTaxi(told)
    BY <1>1, <2>2
  <2>5. \/ Abort(Moved, responses)
        \/ Broken(Moved, denied)
        \/ p # None /\ Broken(Moved, Send(told, t, GoTo(p)))
    BY <1>6 DEF PickUpBroken
  <2> HIDE DEF t, p, denied, told
  <2>6. CASE Abort(Moved, responses)
    BY <1>0, <2>6, NobodyAssigned DEF Abort
  <2>7. ASSUME p # None, Broken(Moved, Send(told, t, GoTo(p))) PROVE Announced
    <3>1. GoTo(p) \in TaxiNotice \cup CustomerNotice /\ \A u \in Taxis : GoTo(p) # Accepted(u)
      BY <2>3, <2>7, NoticeTypes, OtherWords
    <3>2. SaysNoTaxi(Send(told, t, GoTo(p)))
      BY <2>1, <2>4, <3>1, SaysNoTaxiGrows
    <3>3. QED BY <1>3, <2>7, <3>2
  <2>8. QED BY <1>3, <2>4, <2>5, <2>6, <2>7
<1>7. CASE NewCustomerBroken
  BY <1>0, <1>3, <1>7 DEF NewCustomerBroken
<1>8. CASE ServiceBroken
  <2>1. request.id \in Subscribers
    BY <1>8, RequestType, RequestMembers DEF ServiceBroken, Subscribers
  <2>2. SaysNoTaxi(Send(responses, request.id, Notice("CUSTOMER_SERVICE_DENIED")))
    BY <1>1, <2>1
  <2>3. QED BY <1>0, <1>2, <1>3, <1>8, <2>2 DEF ServiceBroken
<1>9. QED BY <1>4, <1>5, <1>6, <1>7, <1>8 DEF HandleBroken

LEMMA StepAnnounces ==
    TypeOK /\ [Next]_vars => Announced
<1> SUFFICES ASSUME TypeOK, [Next]_vars PROVE Announced
  OBVIOUS
<1>1. CASE responses' = responses
  BY <1>1, SaysNothing, NobodyAssigned DEF SaysNoTaxi, Subscribers
<1>2. ASSUME NEW s \in Subscribers, Read(s) PROVE Announced
  <2>1. /\ responses[s] \in Seq(TaxiNotice \cup CustomerNotice) /\ responses[s] # <<>>
        /\ responses' = [responses EXCEPT ![s] = Tail(@)]
    BY <1>2 DEF Read, TypeOK, Inboxes
  <2>2. Len(Tail(responses[s])) = Len(responses[s]) - 1 /\ Len(responses[s]) \in Nat
    BY <2>1
  <2>3. \A u \in Subscribers : /\ Len(responses[u]) \in Nat /\ Len(responses'[u]) \in Nat
                               /\ Len(responses'[u]) <= Len(responses[u])
    BY <2>1, <2>2 DEF TypeOK, Inboxes
  <2>4. QED BY <2>3 DEF Announced, Tells, Subscribers
<1>3. CASE Handle
  BY <1>1, <1>3, AssigningHandlersAnnounce, OtherHandlersSilent DEF Handle, IgnoreOtherSession
<1>4. CASE HandleBroken
  BY <1>4, BrokenSilent
<1>5. CASE Environment
  BY <1>1, <1>2, <1>5 DEF Environment, Tick, LoseDb, Register, Announce, Submit
<1>6. QED BY <1>1, <1>3, <1>4, <1>5 DEF Next, vars

\* Nobody is promised a taxi that is not on its way, whatever the taxis, the customers, the map and
\* the requests: the promise, what assign stores and what it tells the taxi are made by one handler
\* and name the same taxi, customer and cell.
THEOREM PromisesAreKept == Spec => AssignmentAnnounced
BY StepAnnounces, TypeCorrect, PTL DEF Spec, AssignmentAnnounced, Announced

-----------------------------------------------------------------------------
(* Standing: whether a taxi is known, connected and stopped, and what the  *)
(* handlers say of it                                                      *)

SameStanding(d, e) ==
    \A t \in Taxis :
        /\ HasTaxi(d, t) <=> HasTaxi(e, t)
        /\ HasTaxi(d, t) => /\ e.taxis[t].connected = d.taxis[t].connected
                            /\ e.taxis[t].stopped = d.taxis[t].stopped

LEMMA SetTaxiStanding ==
    ASSUME NEW d \in Db, NEW t \in Taxis, NEW row,
           HasTaxi(d, t) => /\ row \in TaxiRow
                            /\ row.connected = d.taxis[t].connected
                            /\ row.stopped = d.taxis[t].stopped
    PROVE  SameStanding(d, SetTaxi(d, t, row))
<1>1. CASE HasTaxi(d, t)
  <2>1. row # None
    BY <1>1, NoRowAssumption
  <2>2. \A u \in Taxis : SetTaxi(d, t, row).taxis[u] = IF u = t THEN row ELSE d.taxis[u]
    BY <1>1 DEF SetTaxi, Db
  <2>3. QED BY <1>1, <2>1, <2>2 DEF SameStanding, HasTaxi
<1>2. CASE ~HasTaxi(d, t)
  BY <1>2 DEF SetTaxi, SameStanding
<1>3. QED BY <1>1, <1>2

LEMMA OtherTablesStanding ==
    ASSUME NEW d, NEW e, e.taxis = d.taxis
    PROVE  SameStanding(d, e)
BY DEF SameStanding, HasTaxi

LEMMA StandingIsTransitive ==
    ASSUME NEW d, NEW e, NEW f, SameStanding(d, e), SameStanding(e, f)
    PROVE  SameStanding(d, f)
BY DEF SameStanding

LEMMA TaxiUpdatesStanding ==
    ASSUME NEW d \in Db, NEW t \in Taxis
    PROVE  /\ \A b \in BOOLEAN : SameStanding(d, SetReady(d, t, b))
           /\ \A w \in Countdown : SameStanding(d, SetWaitTime(d, t, w))
           /\ \A p \in Points : /\ SameStanding(d, MoveTaxi(d, t, p))
                                /\ SameStanding(d, SendTaxi(d, t, p))
<1>1. ASSUME NEW b \in BOOLEAN PROVE SameStanding(d, SetReady(d, t, b))
  BY TaxiRowType, SetTaxiStanding DEF SetReady, TaxiRow
<1>2. ASSUME NEW w \in Countdown PROVE SameStanding(d, SetWaitTime(d, t, w))
  BY TaxiRowType, SetTaxiStanding DEF SetWaitTime, TaxiRow
<1>3. ASSUME NEW p \in Points
      PROVE  SameStanding(d, MoveTaxi(d, t, p)) /\ SameStanding(d, SendTaxi(d, t, p))
  BY TaxiRowType, SetTaxiStanding DEF MoveTaxi, SendTaxi, TaxiRow
<1>4. QED BY <1>1, <1>2, <1>3

LEMMA CustomerUpdatesStanding ==
    ASSUME NEW d \in Db, NEW c
    PROVE  /\ SameStanding(d, DeleteCustomer(d, c))
           /\ SameStanding(d, Dequeue(d, c))
           /\ \A p : SameStanding(d, InsertCustomer(d, c, p)) /\ SameStanding(d, MoveCustomer(d, c, p))
           /\ \A n : SameStanding(d, SetNextRequest(d, c, n)) /\ SameStanding(d, Enqueue(d, c, n))
           /\ \A l : SameStanding(d, SetDestination(d, c, l))
           /\ \A p : SameStanding(d, MoveLocation(d, c, p))
<1>1. \A row : SetCustomer(d, c, row).taxis = d.taxis
  BY DEF SetCustomer, Db
<1>2. /\ DeleteCustomer(d, c).taxis = d.taxis
      /\ \A p : InsertCustomer(d, c, p).taxis = d.taxis /\ MoveLocation(d, c, p).taxis = d.taxis
  BY DEF DeleteCustomer, InsertCustomer, MoveLocation, Db
<1>3. QED
  BY <1>1, <1>2, OtherTablesStanding
  DEF Dequeue, MoveCustomer, SetNextRequest, Enqueue, SetDestination

LEMMA SetOnboardStanding ==
    ASSUME NEW d \in Db, NEW c \in Customers, NEW t \in Taxis, NEW val \in BOOLEAN
    PROVE  SameStanding(d, SetOnboard(d, c, t, val))
<1> DEFINE e == SetCustomer(d, c, [d.customers[c] EXCEPT !.onboard = val])
           row == [e.taxis[t] EXCEPT !.customer_id = IF val THEN c ELSE None]
<1>1. e \in Db
  BY CustomerRowType, SetCustomerType DEF CustomerRow
<1>2. SameStanding(d, e)
  <2>1. e.taxis = d.taxis
    BY DEF SetCustomer, Db
  <2>2. QED BY <2>1, OtherTablesStanding
<1> HIDE DEF e
<1>3. SameStanding(e, SetTaxi(e, t, row))
  BY <1>1, TaxiRowType, SetTaxiStanding DEF TaxiRow
<1>4. SetOnboard(d, c, t, val) \in {e, SetTaxi(e, t, row)}
  BY DEF SetOnboard, e
<1>5. QED BY <1>2, <1>3, <1>4, StandingIsTransitive

LEMMA AssignStanding ==
    ASSUME NEW d \in Db, NEW t \in Taxis, NEW c \in Customers
    PROVE  SameStanding(d, Assign(d, t, c))
<1>1. CASE HasCustomer(d, c)
  <2>1. d.customers[c].pos \in Points
    BY <1>1, CustomerRowType DEF CustomerRow
  <2>2. QED BY <1>1, <2>1, TaxiRowType, SetTaxiStanding DEF Assign, TaxiRow
<1>2. CASE ~HasCustomer(d, c)
  BY <1>2, OtherTablesStanding DEF Assign
<1>3. QED BY <1>1, <1>2

LEMMA MovedStanding ==
    ASSUME TypeOK, request.taxiId \in Taxis, request.coord \in Points
    PROVE  SameStanding(db, Moved)
<1> DEFINE moved == MoveTaxi(db, request.taxiId, request.coord)
<1>1. moved \in Db /\ SameStanding(db, moved)
  BY TaxiUpdatesType, TaxiUpdatesStanding DEF TypeOK
<1>2. \A c : SameStanding(moved, MoveCustomer(moved, c, request.coord))
  BY <1>1, CustomerUpdatesStanding
<1>3. QED BY <1>1, <1>2, StandingIsTransitive DEF Moved

\* The words that change how a client stands.
Loud == {"TAXI_STOP", "TAXI_CONTINUE", "TAXI_DISCONNECT", "ACCEPT"}

\* r has more to read, and none of it is loud.
Plain(r) == Longer(r) /\ \A s \in Subscribers : \A n : Says(r, s, n) => n.subject \notin Loud

\* A step that changes nobody's standing and says nothing about it.
Plainly == SameStanding(db, db') /\ Plain(responses') /\ joined' = joined

\* A customer is accepted, and told so.
Accepts ==
    /\ SameStanding(db, db')
    /\ \E c \in Customers :
        joined' = joined \cup {c} /\ responses' = Send(responses, c, Notice("ACCEPT"))

LEMMA PlainGrows ==
    ASSUME TypeOK, NEW r, Plain(r), NEW u \in Subscribers, NEW m \in TaxiNotice \cup CustomerNotice,
           m.subject \notin Loud
    PROVE  Plain(Send(r, u, m))
BY SaysMore DEF Plain

LEMMA PlainWords ==
    /\ \A p \in Points : GoTo(p) \in TaxiNotice \cup CustomerNotice /\ GoTo(p).subject \notin Loud
    /\ \A t \in Taxis : /\ Accepted(t) \in TaxiNotice \cup CustomerNotice
                        /\ Accepted(t).subject \notin Loud
    /\ \A s \in {"CUSTOMER_DISCONNECT", "CUSTOMER_PRIORITY", "CUSTOMER_PICKED_UP",
                  "CUSTOMER_ENQUEUED", "CUSTOMER_SERVICE_COMPLETED",
                  "CUSTOMER_SERVICE_DENIED", "DENY"} :
            Notice(s) \in TaxiNotice \cup CustomerNotice /\ Notice(s).subject \notin Loud
<1>1. /\ \A p : GoTo(p).subject = "TAXI_GO_TO"
      /\ \A s : Notice(s).subject = s
      /\ \A t : Accepted(t).subject = "CUSTOMER_SERVICE_ACCEPTED"
  BY DEF GoTo, Notice, Accepted
<1>2. QED BY <1>1, NoticeTypes DEF Loud

LEMMA PlainSend ==
    ASSUME TypeOK, NEW r, Plain(r), NEW u \in Subscribers
    PROVE  /\ \A p \in Points : Plain(Send(r, u, GoTo(p)))
           /\ \A t \in Taxis : Plain(Send(r, u, Accepted(t)))
           /\ \A s \in {"CUSTOMER_DISCONNECT", "CUSTOMER_PRIORITY", "CUSTOMER_PICKED_UP",
                         "CUSTOMER_ENQUEUED", "CUSTOMER_SERVICE_COMPLETED",
                         "CUSTOMER_SERVICE_DENIED", "DENY"} : Plain(Send(r, u, Notice(s)))
BY PlainGrows, PlainWords

LEMMA PlainEnds ==
    ASSUME TypeOK, NEW d, NEW answered, Simple(d, answered) \/ Abort(d, answered),
           SameStanding(db, d), Plain(answered)
    PROVE  Plainly
<1>1. Plain(responses)
  BY SaysNothing DEF Plain
<1>2. SameStanding(db, db)
  BY DEF SameStanding
<1>3. joined' = joined
  BY DEF Simple, Abort
<1>4. QED BY <1>1, <1>2, <1>3, HandlerEnds DEF Ends, Plainly

LEMMA PlainAssigned ==
    ASSUME TypeOK, NEW d \in Db, NEW r, Plain(r), NEW t \in Taxis, NEW c \in Customers,
           ~AssignThrows(d, t, c)
    PROVE  Plain(Assigned(r, Assign(d, t, c), t, c))
<1> DEFINE p == Assign(d, t, c).taxis[t].dest
<1>1. p \in Points /\ t \in Subscribers /\ c \in Subscribers
  BY AssignType DEF Subscribers
<1>2. Assigned(r, Assign(d, t, c), t, c) = Send(Send(r, t, GoTo(p)), c, Accepted(t))
  BY DEF Assigned
<1> HIDE DEF p
<1>3. Plain(Send(r, t, GoTo(p)))
  BY <1>1, PlainSend
<1>4. QED BY <1>1, <1>2, <1>3, PlainSend

LEMMA PlainAssigning ==
    ASSUME TypeOK, NEW d \in Db, SameStanding(db, d), NEW answered, Plain(answered),
           NEW t \in Taxis, NEW c \in Customers, EndByAssigning(d, answered, t, c)
    PROVE  Plainly
<1>1. CASE AssignThrows(d, t, c)
  BY <1>1, PlainEnds DEF EndByAssigning
<1>2. CASE ~AssignThrows(d, t, c)
  <2>1. SameStanding(db, Assign(d, t, c))
    BY AssignStanding, StandingIsTransitive
  <2>2. Simple(Assign(d, t, c), Assigned(answered, Assign(d, t, c), t, c))
    BY <1>2 DEF EndByAssigning
  <2>3. QED BY <1>2, <2>1, <2>2, PlainAssigned, PlainEnds
<1>3. QED BY <1>1, <1>2

LEMMA RidesArePlain ==
    ASSUME TypeOK, TaxiJoins \/ TaxiMoves \/ CompleteRide \/ PickUpCustomer \/ ReachWithoutService
    PROVE  Plainly
<1> DEFINE t == request.taxiId
<1>0. /\ db \in Db /\ SameStanding(db, db) /\ Plain(responses)
      /\ \A s \in Taxis \cup Customers : s \in Subscribers
  BY SaysNothing DEF TypeOK, SameStanding, Plain, Subscribers
<1>1. t \in Taxis
  BY RequestType, RequestMembers
  DEF TaxiJoins, TaxiMoves, CompleteRide, PickUpCustomer, ReachWithoutService, TaxiSignals, TaxiArrivals
<1>2. ASSUME TaxiMoves \/ CompleteRide \/ PickUpCustomer \/ ReachWithoutService
      PROVE  Moved \in Db /\ SameStanding(db, Moved)
  <2>1. request.coord \in Points
    BY <1>2, RequestType, RequestMembers
    DEF TaxiMoves, CompleteRide, PickUpCustomer, ReachWithoutService, TaxiArrivals
  <2>2. QED BY <1>1, <2>1, MovedType, MovedStanding
<1>3. CASE TaxiJoins
  <2>1. \A c \in checkQueue(db) : c \in Customers
    BY QueueHasRows
  <2>2. QED BY <1>0, <1>1, <1>3, <2>1, PlainEnds, PlainAssigning DEF TaxiJoins
<1>4. CASE TaxiMoves \/ ReachWithoutService
  BY <1>0, <1>2, <1>4, PlainEnds DEF TaxiMoves, ReachWithoutService
<1>5. CASE CompleteRide
  <2> DEFINE c == carryingClient(t)
             d == SetOnboard(Moved, c, t, FALSE)
             answered == Send(responses, c, Notice("CUSTOMER_SERVICE_COMPLETED"))
  <2>1. c \in Customers
    BY <1>1, <1>5, QueryTypes DEF CompleteRide
  <2>2. d \in Db /\ SameStanding(db, d)
    BY <1>1, <1>2, <1>5, <2>1, SetOnboardType, SetOnboardStanding, StandingIsTransitive
  <2>3. Plain(answered)
    BY <1>0, <2>1, PlainSend
  <2>4. Simple(d, answered) \/ \E q \in checkQueue(d) : EndByAssigning(d, answered, t, q)
    BY <1>5 DEF CompleteRide
  <2> HIDE DEF d, answered
  <2>5. QED BY <1>1, <2>2, <2>3, <2>4, QueueHasRows, PlainEnds, PlainAssigning
<1>6. CASE PickUpCustomer
  <2> DEFINE c == getService(t)
             p == DestinationOf(db, c)
             d == SetOnboard(Moved, c, t, TRUE)
             denied == Send(responses, c, Notice("CUSTOMER_SERVICE_DENIED"))
             told == Send(responses, c, Notice("CUSTOMER_PICKED_UP"))
  <2>1. c \in Customers
    BY <1>1, <1>6, QueryTypes DEF PickUpCustomer
  <2>2. SameStanding(db, d)
    BY <1>1, <1>2, <1>6, <2>1, SetOnboardStanding, StandingIsTransitive
  <2>3. p \in Points \cup {None}
    BY <1>0, <2>1, DestinationType
  <2>4. Simple(d, IF p = None THEN denied ELSE Send(told, t, GoTo(p)))
    BY <1>6 DEF PickUpCustomer
  <2>5. Plain(denied) /\ Plain(told)
    BY <1>0, <2>1, PlainSend
  <2> HIDE DEF p, d, denied, told
  <2>6. p # None => Plain(Send(told, t, GoTo(p)))
    BY <1>0, <1>1, <2>3, <2>5, PlainSend
  <2>7. QED BY <2>2, <2>4, <2>5, <2>6, PlainEnds
<1>7. QED BY <1>3, <1>4, <1>5, <1>6

LEMMA ReportsArePlain ==
    ASSUME TypeOK, SetTaxiReady \/ UpdateWaitTime \/ Ping \/ UpdateNextRequest \/ OrderLocationMove
    PROVE  Plainly
<1> DEFINE t == request.taxiId
<1>0. db \in Db /\ SameStanding(db, db) /\ Plain(responses)
  BY SaysNothing DEF TypeOK, SameStanding, Plain
<1>1. CASE SetTaxiReady
  <2> DEFINE d == SetReady(db, t, request.subject = "TAXI_READY")
  <2>1. t \in Taxis
    BY <1>1, RequestType, RequestMembers DEF SetTaxiReady, TaxiSignals
  <2>2. SameStanding(db, d) /\ Simple(d, responses)
    BY <1>0, <1>1, <2>1, TaxiUpdatesStanding DEF SetTaxiReady
  <2>3. QED BY <1>0, <2>2, PlainEnds
<1>2. CASE UpdateWaitTime
  <2>1. t \in Taxis /\ request.data \in Countdown
    BY <1>2, RequestType, RequestMembers DEF UpdateWaitTime
  <2>2. QED BY <1>0, <1>2, <2>1, TaxiUpdatesStanding, PlainEnds DEF UpdateWaitTime
<1>3. CASE Ping \/ UpdateNextRequest \/ OrderLocationMove
  BY <1>0, <1>3, CustomerUpdatesStanding, PlainEnds DEF Ping, UpdateNextRequest, OrderLocationMove
<1>4. QED BY <1>1, <1>2, <1>3

LEMMA AnswersArePlain ==
    ASSUME TypeOK,
           NewCustomer \/ ServiceRequest \/ OrderGoTo \/ OrderCustomerDisconnect \/ OrderPriority
    PROVE  Plainly \/ Accepts
<1>0. /\ db \in Db /\ SameStanding(db, db) /\ Plain(responses)
      /\ \A s \in Taxis \cup Customers : s \in Subscribers
  BY SaysNothing DEF TypeOK, SameStanding, Plain, Subscribers
<1>1. CASE OrderGoTo
  <2> DEFINE t == request.taxiId
             p == IF request.subject = "ORDER_TAXI_GO_TO" THEN request.coord ELSE Base
  <2>1. t \in Taxis /\ p \in Points
    BY <1>1, RequestType, RequestMembers, BaseAssumption DEF OrderGoTo, TaxiOrders
  <2>2. Simple(SendTaxi(db, t, p), Send(responses, t, GoTo(p)))
    BY <1>1 DEF OrderGoTo
  <2> HIDE DEF p
  <2>3. QED BY <1>0, <2>1, <2>2, TaxiUpdatesStanding, PlainSend, PlainEnds
<1> DEFINE c == request.id
<1>2. CASE NewCustomer
  <2>1. c \in Customers
    BY <1>2, RequestType, RequestMembers DEF NewCustomer
  <2>2. CASE Simple(db, responses) \/ Simple(db, Send(responses, c, Notice("DENY")))
    BY <1>0, <2>1, <2>2, PlainSend, PlainEnds
  <2>3. CASE /\ joined' = joined \cup {c}
             /\ Done(InsertCustomer(db, c, request.coord), Send(responses, c, Notice("ACCEPT")))
    <3>1. SameStanding(db, db')
      BY <1>0, <2>3, CustomerUpdatesStanding DEF Done
    <3>2. QED BY <2>1, <2>3, <3>1 DEF Done, Accepts
  <2>4. QED BY <1>2, <2>2, <2>3 DEF NewCustomer
<1>3. CASE OrderCustomerDisconnect \/ OrderPriority
  <2>1. c \in Customers
    BY <1>3, RequestType, RequestMembers DEF OrderCustomerDisconnect, OrderPriority, CustomerOrders
  <2>2. \/ Simple(DeleteCustomer(db, c), Send(responses, c, Notice("CUSTOMER_DISCONNECT")))
        \/ Simple(Dequeue(db, c), Send(responses, c, Notice("CUSTOMER_PRIORITY")))
    BY <1>3 DEF OrderCustomerDisconnect, OrderPriority
  <2>3. QED BY <1>0, <2>1, <2>2, CustomerUpdatesStanding, PlainSend, PlainEnds
<1>4. CASE ServiceRequest
  <2> DEFINE d == SetDestination(db, c, request.data)
  <2>1. c \in Customers /\ request.data \in Services
    BY <1>4, RequestType, RequestMembers DEF ServiceRequest
  <2>2. d \in Db /\ SameStanding(db, d) /\ SameStanding(db, Enqueue(db, c, now))
    BY <1>0, <2>1, CustomerUpdatesType, CustomerUpdatesStanding
  <2>3. CASE \/ Simple(Enqueue(db, c, now), Send(responses, c, Notice("CUSTOMER_ENQUEUED")))
             \/ Simple(db, Send(responses, c, Notice("CUSTOMER_SERVICE_DENIED")))
    BY <1>0, <2>1, <2>2, <2>3, PlainSend, PlainEnds
  <2>4. ASSUME NEW t \in checkAvailableTaxis,
               IF AssignThrows(d, t, c)
               THEN Abort(d, responses)
               ELSE Simple(Assign(d, t, c),
                           Send(Assigned(responses, Assign(d, t, c), t, c), c, Accepted(t)))
        PROVE  Plainly
    <3>1. t \in Taxis
      BY DEF checkAvailableTaxis, AvailableTaxis
    <3> HIDE DEF d
    <3>2. CASE AssignThrows(d, t, c)
      BY <1>0, <2>2, <2>4, <3>2, PlainEnds
    <3>3. CASE ~AssignThrows(d, t, c)
      <4>1. SameStanding(db, Assign(d, t, c))
        BY <2>1, <2>2, <3>1, AssignStanding, StandingIsTransitive
      <4>2. Plain(Assigned(responses, Assign(d, t, c), t, c))
        BY <1>0, <2>1, <2>2, <3>1, <3>3, PlainAssigned
      <4>3. Plain(Send(Assigned(responses, Assign(d, t, c), t, c), c, Accepted(t)))
        BY <1>0, <2>1, <3>1, <4>2, PlainSend
      <4>4. QED BY <2>4, <3>3, <4>1, <4>3, PlainEnds
    <3>4. QED BY <3>2, <3>3
  <2>5. QED BY <1>4, <2>3, <2>4 DEF ServiceRequest
<1>5. QED BY <1>1, <1>2, <1>3, <1>4

\* Three orders change how a taxi stands, and each tells the taxi; whoever is accepted is told.
LEMMA HandlersSayHowOneStands ==
    ASSUME TypeOK, Handle
    PROVE  Plainly \/ Accepts \/ OrderStop \/ OrderContinue \/ OrderTaxiDisconnect
<1>1. CASE IgnoreOtherSession
  <2>1. SameStanding(db, db') /\ Plain(responses') /\ joined' = joined
    BY <1>1, SaysNothing DEF IgnoreOtherSession, SameStanding, Plain
  <2>2. QED BY <2>1 DEF Plainly
<1>2. QED
  BY <1>1, RidesArePlain, ReportsArePlain, AnswersArePlain DEF Handle

LEMMA SetStoppedStanding ==
    ASSUME NEW d \in Db, NEW t \in Taxis, NEW b \in BOOLEAN, NEW u \in Taxis
    PROVE  /\ HasTaxi(d, u) <=> HasTaxi(SetStopped(d, t, b), u)
           /\ HasTaxi(d, u) =>
                /\ SetStopped(d, t, b).taxis[u].connected = d.taxis[u].connected
                /\ SetStopped(d, t, b).taxis[u].stopped = IF u = t THEN b ELSE d.taxis[u].stopped
<1> DEFINE row == [d.taxis[t] EXCEPT !.stopped = b]
<1>1. CASE HasTaxi(d, t)
  <2>1. d.taxis[t] \in TaxiRow
    BY <1>1, TaxiRowType
  <2>2. row \in TaxiRow /\ row.stopped = b /\ row.connected = d.taxis[t].connected
    BY <2>1 DEF TaxiRow
  <2>3. row # None
    BY <2>2, NoRowAssumption
  <2>4. SetStopped(d, t, b).taxis[u] = IF u = t THEN row ELSE d.taxis[u]
    BY <1>1 DEF SetStopped, SetTaxi, Db
  <2> HIDE DEF row
  <2>5. QED BY <1>1, <2>2, <2>3, <2>4 DEF HasTaxi
<1>2. CASE ~HasTaxi(d, t)
  BY <1>2 DEF SetStopped, SetTaxi
<1>3. QED BY <1>1, <1>2

LEMMA DisconnectStanding ==
    ASSUME NEW d \in Db, NEW t \in Taxis, NEW u \in Taxis
    PROVE  /\ HasTaxi(d, u) <=> HasTaxi(DisconnectTaxi(d, t), u)
           /\ HasTaxi(d, u) =>
                /\ DisconnectTaxi(d, t).taxis[u].stopped = d.taxis[u].stopped
                /\ u # t => DisconnectTaxi(d, t).taxis[u].connected = d.taxis[u].connected
<1> DEFINE row == [d.taxis[t] EXCEPT !.connected = FALSE]
<1>1. CASE HasTaxi(d, t)
  <2>1. d.taxis[t] \in TaxiRow
    BY <1>1, TaxiRowType
  <2>2. row \in TaxiRow /\ row.stopped = d.taxis[t].stopped
    BY <2>1 DEF TaxiRow
  <2>3. row # None
    BY <2>2, NoRowAssumption
  <2>4. DisconnectTaxi(d, t).taxis[u] = IF u = t THEN row ELSE d.taxis[u]
    BY <1>1 DEF DisconnectTaxi, SetTaxi, Db
  <2> HIDE DEF row
  <2>5. QED BY <1>1, <2>2, <2>3, <2>4 DEF HasTaxi
<1>2. CASE ~HasTaxi(d, t)
  BY <1>2 DEF DisconnectTaxi, SetTaxi
<1>3. QED BY <1>1, <1>2

\* What taxi t is told of STOP and CONTINUE in a step is what the step stores.
StopTold(t) ==
    \/ /\ \A n : Says(responses', t, n) => n.subject \notin {"TAXI_STOP", "TAXI_CONTINUE"}
       /\ HasTaxi(db, t) => db'.taxis[t].stopped = db.taxis[t].stopped
    \/ /\ request.subject = "ORDER_TAXI_STOP" /\ request.taxiId = t
       /\ responses'[t] = Append(responses[t], Notice("TAXI_STOP"))
       /\ dbUp /\ HasTaxi(db, t) => db'.taxis[t].stopped
    \/ /\ request.subject = "ORDER_TAXI_CONTINUE" /\ request.taxiId = t
       /\ responses'[t] = Append(responses[t], Notice("TAXI_CONTINUE"))
       /\ dbUp /\ HasTaxi(db, t) => ~db'.taxis[t].stopped

\* All of it, for every client.
StandingTold ==
    /\ \A t \in Taxis :
        /\ HasTaxi(db, t) <=> HasTaxi(db', t)
        /\ HasTaxi(db, t) =>
            \/ db'.taxis[t].connected = db.taxis[t].connected
            \/ Says(responses', t, Notice("TAXI_DISCONNECT"))
        /\ StopTold(t)
    /\ joined \subseteq joined'
    /\ Longer(responses')
    /\ \A c \in Customers : \A n : Says(responses', c, n) /\ n.subject = "ACCEPT" => c \in joined'

\* A notice for one client only.
LEMMA OneIsTold ==
    ASSUME TypeOK, NEW u \in Subscribers, NEW m \in TaxiNotice \cup CustomerNotice,
           responses' = Send(responses, u, m)
    PROVE  /\ Longer(responses')
           /\ \A s \in Subscribers : \A n : Says(responses', s, n) <=> s = u /\ n = m
           /\ responses'[u] = Append(responses[u], m)
<1>1. /\ Longer(responses')
      /\ \A s \in Subscribers : \A n : Says(responses', s, n) <=> s = u /\ n = m
  BY SaysMore, SaysNothing
<1>2. responses'[u] = Append(responses[u], m)
  BY DEF Send, TypeOK, Inboxes
<1>3. QED BY <1>1, <1>2

\* An order to stop, or to go on.
LEMMA StopOrderTold ==
    ASSUME TypeOK, OrderStop \/ OrderContinue
    PROVE  StandingTold
<1> DEFINE t == request.taxiId
           w == IF OrderStop THEN "TAXI_STOP" ELSE "TAXI_CONTINUE"
<1>0. t \in Taxis /\ t \in Subscribers /\ db \in Db
  BY RequestType, RequestMembers DEF OrderStop, OrderContinue, TaxiOrders, Subscribers, TypeOK
<1>1. /\ Notice("TAXI_STOP") \in TaxiNotice \cup CustomerNotice
      /\ Notice("TAXI_CONTINUE") \in TaxiNotice \cup CustomerNotice
      /\ Notice("TAXI_STOP").subject = "TAXI_STOP" /\ Notice("TAXI_CONTINUE").subject = "TAXI_CONTINUE"
  BY NoticeTypes DEF Notice
<1>2. \A b \in BOOLEAN, u \in Taxis :
            /\ HasTaxi(db, u) <=> HasTaxi(SetStopped(db, t, b), u)
            /\ HasTaxi(db, u) =>
                /\ SetStopped(db, t, b).taxis[u].connected = db.taxis[u].connected
                /\ SetStopped(db, t, b).taxis[u].stopped = IF u = t THEN b ELSE db.taxis[u].stopped
  BY <1>0, SetStoppedStanding
<1>3. \A s \in Taxis \cup Customers : s \in Subscribers
  BY DEF Subscribers
<1>4. CASE OrderStop
  <2> DEFINE d == SetStopped(db, t, TRUE)
  <2>1. /\ request.subject = "ORDER_TAXI_STOP"
        /\ db' = (IF dbUp THEN d ELSE db) /\ responses' = Send(responses, t, Notice("TAXI_STOP"))
        /\ joined' = joined
    BY <1>4, RequestType DEF OrderStop, Simple, Done
  <2>2. \A u \in Taxis : /\ HasTaxi(db, u) <=> HasTaxi(d, u)
                         /\ HasTaxi(db, u) =>
                              /\ d.taxis[u].connected = db.taxis[u].connected
                              /\ d.taxis[u].stopped = IF u = t THEN TRUE ELSE db.taxis[u].stopped
    BY <1>2, Zenon
  <2> HIDE DEF d
  <2>3. /\ Longer(responses')
        /\ \A s \in Subscribers : \A n : Says(responses', s, n) <=> s = t /\ n = Notice("TAXI_STOP")
        /\ responses'[t] = Append(responses[t], Notice("TAXI_STOP"))
    BY <1>0, <1>1, <2>1, OneIsTold
  <2>4. \A u \in Taxis : StopTold(u)
    BY <1>3, <2>1, <2>2, <2>3 DEF StopTold
  <2>5. QED BY <1>1, <1>3, <2>1, <2>2, <2>3, <2>4 DEF StandingTold
<1>5. CASE OrderContinue
  <2> DEFINE d == SetStopped(db, t, FALSE)
  <2>1. /\ request.subject = "ORDER_TAXI_CONTINUE"
        /\ db' = (IF dbUp THEN d ELSE db) /\ responses' = Send(responses, t, Notice("TAXI_CONTINUE"))
        /\ joined' = joined
    BY <1>5, RequestType DEF OrderContinue, Simple, Done
  <2>2. \A u \in Taxis : /\ HasTaxi(db, u) <=> HasTaxi(d, u)
                         /\ HasTaxi(db, u) =>
                              /\ d.taxis[u].connected = db.taxis[u].connected
                              /\ d.taxis[u].stopped = IF u = t THEN FALSE ELSE db.taxis[u].stopped
    BY <1>2, Zenon
  <2> HIDE DEF d
  <2>3. /\ Longer(responses')
        /\ \A s \in Subscribers : \A n : Says(responses', s, n) <=> s = t /\ n = Notice("TAXI_CONTINUE")
        /\ responses'[t] = Append(responses[t], Notice("TAXI_CONTINUE"))
    BY <1>0, <1>1, <2>1, OneIsTold
  <2>4. \A u \in Taxis : StopTold(u)
    BY <1>3, <2>1, <2>2, <2>3 DEF StopTold
  <2>5. QED BY <1>1, <1>3, <2>1, <2>2, <2>3, <2>4 DEF StandingTold
<1>6. QED BY <1>4, <1>5

LEMMA DisconnectOrderTold ==
    ASSUME TypeOK, OrderTaxiDisconnect
    PROVE  StandingTold
<1> DEFINE t == request.taxiId
           d == DisconnectTaxi(db, t)
<1>0. t \in Taxis /\ t \in Subscribers /\ db \in Db
  BY RequestType, RequestMembers DEF OrderTaxiDisconnect, TaxiOrders, Subscribers, TypeOK
<1>1. /\ Notice("TAXI_DISCONNECT") \in TaxiNotice \cup CustomerNotice
      /\ Notice("TAXI_DISCONNECT").subject = "TAXI_DISCONNECT"
  BY NoticeTypes DEF Notice
<1>2. /\ db' = (IF dbUp THEN d ELSE db) /\ responses' = Send(responses, t, Notice("TAXI_DISCONNECT"))
      /\ joined' = joined
  BY DEF OrderTaxiDisconnect, Simple, Done
<1>3. \A u \in Taxis : /\ HasTaxi(db, u) <=> HasTaxi(d, u)
                       /\ HasTaxi(db, u) =>
                            /\ d.taxis[u].stopped = db.taxis[u].stopped
                            /\ u # t => d.taxis[u].connected = db.taxis[u].connected
  BY <1>0, DisconnectStanding
<1> HIDE DEF d
<1>4. \A s \in Taxis \cup Customers : s \in Subscribers
  BY DEF Subscribers
<1>5. /\ Longer(responses')
      /\ \A s \in Subscribers : \A n : Says(responses', s, n) <=> s = t /\ n = Notice("TAXI_DISCONNECT")
  BY <1>0, <1>1, <1>2, OneIsTold
<1>6. \A u \in Taxis : StopTold(u)
  BY <1>1, <1>2, <1>3, <1>4, <1>5 DEF StopTold
<1>7. QED BY <1>1, <1>2, <1>3, <1>4, <1>5, <1>6 DEF StandingTold

\* Whatever the central handles, nobody's standing changes without a word to whom it is about.
LEMMA HandlingIsTold ==
    ASSUME TypeOK, Handle
    PROVE  StandingTold
<1>0. \A s \in Taxis \cup Customers : s \in Subscribers
  BY DEF Subscribers
<1>1. CASE Plainly
  <2>1. \A t \in Taxis : StopTold(t)
    BY <1>0, <1>1 DEF Plainly, SameStanding, Plain, StopTold, Loud
  <2>2. QED BY <1>0, <1>1, <2>1 DEF Plainly, SameStanding, Plain, StandingTold, Loud
<1>2. CASE Accepts
  <2>1. PICK c \in Customers :
            joined' = joined \cup {c} /\ responses' = Send(responses, c, Notice("ACCEPT"))
    BY <1>2 DEF Accepts
  <2>2. Notice("ACCEPT") \in TaxiNotice \cup CustomerNotice /\ Notice("ACCEPT").subject = "ACCEPT"
    BY NoticeTypes DEF Notice
  <2>3. /\ Longer(responses')
        /\ \A s \in Subscribers : \A n : Says(responses', s, n) <=> s = c /\ n = Notice("ACCEPT")
    BY <1>0, <2>1, <2>2, OneIsTold
  <2>4. \A t \in Taxis : StopTold(t)
    BY <1>0, <1>2, <2>2, <2>3 DEF Accepts, SameStanding, StopTold
  <2>5. QED BY <1>0, <1>2, <2>1, <2>2, <2>3, <2>4 DEF Accepts, SameStanding, StandingTold
<1>3. QED BY <1>1, <1>2, HandlersSayHowOneStands, StopOrderTold, DisconnectOrderTold

-----------------------------------------------------------------------------
(* Seats: what both tables say of who is on board                          *)

\* What the table of customers says, of whom it has.
Sitting(d) ==
    [c \in Customers |->
        IF HasCustomer(d, c) THEN IF d.customers[c].onboard THEN "riding" ELSE "waiting" ELSE "away"]

LEMMA OtherTablesSitting ==
    ASSUME NEW d, NEW e, e.customers = d.customers
    PROVE  Sitting(e) = Sitting(d)
BY DEF Sitting, HasCustomer

LEMMA SetCustomerSitting ==
    ASSUME NEW d \in Db, NEW c \in Customers, NEW row, HasCustomer(d, c) => row \in CustomerRow
    PROVE  Sitting(SetCustomer(d, c, row)) =
              IF HasCustomer(d, c)
              THEN [Sitting(d) EXCEPT ![c] = IF row.onboard THEN "riding" ELSE "waiting"]
              ELSE Sitting(d)
<1>1. CASE HasCustomer(d, c)
  <2>1. row # None
    BY <1>1, NoRowAssumption
  <2>2. SetCustomer(d, c, row).customers = [d.customers EXCEPT ![c] = row]
        /\ d.customers \in [Customers -> CustomerRow \cup {None}]
    BY <1>1 DEF SetCustomer, Db
  <2>3. QED BY <1>1, <2>1, <2>2 DEF Sitting, HasCustomer
<1>2. CASE ~HasCustomer(d, c)
  BY <1>2 DEF SetCustomer
<1>3. QED BY <1>1, <1>2

\* A write that leaves onboard alone.
LEMMA SameSitting ==
    ASSUME NEW d \in Db, NEW c \in Customers, NEW row,
           HasCustomer(d, c) => row \in CustomerRow /\ row.onboard = d.customers[c].onboard
    PROVE  Sitting(SetCustomer(d, c, row)) = Sitting(d)
<1>1. CASE HasCustomer(d, c)
  <2>1. Sitting(d)[c] = IF row.onboard THEN "riding" ELSE "waiting"
    BY <1>1 DEF Sitting
  <2>2. [Sitting(d) EXCEPT ![c] = IF row.onboard THEN "riding" ELSE "waiting"] = Sitting(d)
    BY <2>1 DEF Sitting
  <2>3. QED BY <1>1, <2>2, SetCustomerSitting
<1>2. CASE ~HasCustomer(d, c)
  BY <1>2 DEF SetCustomer
<1>3. QED BY <1>1, <1>2

LEMMA SetTaxiSitting ==
    ASSUME NEW d \in Db, NEW t, NEW row
    PROVE  Sitting(SetTaxi(d, t, row)) = Sitting(d)
<1>1. SetTaxi(d, t, row).customers = d.customers
  BY DEF SetTaxi, Db
<1>2. QED BY <1>1, OtherTablesSitting

LEMMA TaxiUpdatesSitting ==
    ASSUME NEW d \in Db, NEW t
    PROVE  /\ Sitting(DisconnectTaxi(d, t)) = Sitting(d)
           /\ \A b : Sitting(SetReady(d, t, b)) = Sitting(d) /\ Sitting(SetStopped(d, t, b)) = Sitting(d)
           /\ \A w : Sitting(SetWaitTime(d, t, w)) = Sitting(d)
           /\ \A p : Sitting(MoveTaxi(d, t, p)) = Sitting(d) /\ Sitting(SendTaxi(d, t, p)) = Sitting(d)
           /\ \A c : Sitting(Assign(d, t, c)) = Sitting(d)
           /\ Sitting(RegisterTaxi(d, t)) = Sitting(d)
           /\ \A l, p : Sitting(MoveLocation(d, l, p)) = Sitting(d)
<1>1. RegisterTaxi(d, t).customers = d.customers
  BY DEF RegisterTaxi, Db
<1>2. \A l, p : MoveLocation(d, l, p).customers = d.customers
  BY DEF MoveLocation, Db
<1>3. Sitting(RegisterTaxi(d, t)) = Sitting(d) /\ \A l, p : Sitting(MoveLocation(d, l, p)) = Sitting(d)
  BY <1>1, <1>2, OtherTablesSitting
<1>4. Sitting(DisconnectTaxi(d, t)) = Sitting(d)
  BY SetTaxiSitting DEF DisconnectTaxi
<1>5. \A b : Sitting(SetReady(d, t, b)) = Sitting(d) /\ Sitting(SetStopped(d, t, b)) = Sitting(d)
  BY SetTaxiSitting DEF SetReady, SetStopped
<1>6. \A w : Sitting(SetWaitTime(d, t, w)) = Sitting(d)
  BY SetTaxiSitting DEF SetWaitTime
<1>7. \A p : Sitting(MoveTaxi(d, t, p)) = Sitting(d) /\ Sitting(SendTaxi(d, t, p)) = Sitting(d)
  BY SetTaxiSitting DEF MoveTaxi, SendTaxi
<1>8. \A c : Sitting(Assign(d, t, c)) = Sitting(d)
  BY SetTaxiSitting DEF Assign
<1>9. QED BY <1>3, <1>4, <1>5, <1>6, <1>7, <1>8

LEMMA CustomerUpdatesSitting ==
    ASSUME NEW d \in Db, NEW c \in Customers
    PROVE  /\ Sitting(Dequeue(d, c)) = Sitting(d)
           /\ \A p \in Points : Sitting(MoveCustomer(d, c, p)) = Sitting(d)
           /\ \A n \in Countdown : Sitting(SetNextRequest(d, c, n)) = Sitting(d)
           /\ \A n \in 0..MaxNow : Sitting(Enqueue(d, c, n)) = Sitting(d)
           /\ \A l \in Services : Sitting(SetDestination(d, c, l)) = Sitting(d)
<1>0. HasCustomer(d, c) => d.customers[c] \in CustomerRow
  BY CustomerRowType
<1>1. Sitting(Dequeue(d, c)) = Sitting(d)
  BY <1>0, SameSitting DEF Dequeue, CustomerRow
<1>2. ASSUME NEW p \in Points PROVE Sitting(MoveCustomer(d, c, p)) = Sitting(d)
  BY <1>0, SameSitting DEF MoveCustomer, CustomerRow
<1>3. ASSUME NEW n \in Countdown PROVE Sitting(SetNextRequest(d, c, n)) = Sitting(d)
  BY <1>0, SameSitting DEF SetNextRequest, CustomerRow
<1>4. ASSUME NEW n \in 0..MaxNow PROVE Sitting(Enqueue(d, c, n)) = Sitting(d)
  BY <1>0, SameSitting DEF Enqueue, CustomerRow
<1>5. ASSUME NEW l \in Services PROVE Sitting(SetDestination(d, c, l)) = Sitting(d)
  BY <1>0, SameSitting DEF SetDestination, CustomerRow
<1>6. QED BY <1>1, <1>2, <1>3, <1>4, <1>5

LEMMA ComesAndGoesSitting ==
    ASSUME NEW d \in Db, NEW c \in Customers
    PROVE  /\ \A p \in Points : Sitting(InsertCustomer(d, c, p)) = [Sitting(d) EXCEPT ![c] = "waiting"]
           /\ \/ Sitting(DeleteCustomer(d, c)) = Sitting(d)
              \/ /\ Sitting(DeleteCustomer(d, c)) = [Sitting(d) EXCEPT ![c] = "away"]
                 /\ \A t \in Taxis : Aboard(d)[t] # c
<1>0. d.customers \in [Customers -> CustomerRow \cup {None}]
  BY DEF Db
<1>1. ASSUME NEW p \in Points
      PROVE  Sitting(InsertCustomer(d, c, p)) = [Sitting(d) EXCEPT ![c] = "waiting"]
  <2>1. NewCustomerRow(p) \in CustomerRow /\ NewCustomerRow(p).onboard = FALSE
    BY MaxNowAssumption DEF NewCustomerRow, CustomerRow, Countdown
  <2>2. NewCustomerRow(p) # None
    BY <2>1, NoRowAssumption
  <2>3. InsertCustomer(d, c, p).customers = [d.customers EXCEPT ![c] = NewCustomerRow(p)]
    BY DEF InsertCustomer, Db
  <2> HIDE DEF NewCustomerRow
  <2>4. QED BY <1>0, <2>1, <2>2, <2>3 DEF Sitting, HasCustomer
<1>2. ASSUME \E t \in Taxis : HasTaxi(d, t) /\ d.taxis[t].customer_id = c
      PROVE  Sitting(DeleteCustomer(d, c)) = Sitting(d)
  BY <1>2 DEF DeleteCustomer
<1>3. ASSUME ~ \E t \in Taxis : HasTaxi(d, t) /\ d.taxis[t].customer_id = c
      PROVE  /\ Sitting(DeleteCustomer(d, c)) = [Sitting(d) EXCEPT ![c] = "away"]
             /\ \A t \in Taxis : Aboard(d)[t] # c
  <2>1. DeleteCustomer(d, c).customers = [d.customers EXCEPT ![c] = None]
    BY <1>3 DEF DeleteCustomer, Db
  <2>2. \A t \in Taxis : Aboard(d)[t] # c
    BY <1>3, NoneAssumption DEF Aboard, CarriedBy
  <2>3. Sitting(DeleteCustomer(d, c)) = [Sitting(d) EXCEPT ![c] = "away"]
    BY <1>0, <2>1 DEF Sitting, HasCustomer
  <2>4. QED BY <2>2, <2>3
<1>4. QED BY <1>1, <1>2, <1>3

LEMMA SetOnboardSitting ==
    ASSUME NEW d \in Db, NEW c \in Customers, NEW t \in Taxis, NEW val \in BOOLEAN
    PROVE  Sitting(SetOnboard(d, c, t, val)) =
              IF HasCustomer(d, c)
              THEN [Sitting(d) EXCEPT ![c] = IF val THEN "riding" ELSE "waiting"]
              ELSE Sitting(d)
<1> DEFINE row == [d.customers[c] EXCEPT !.onboard = val]
           e == SetCustomer(d, c, row)
<1>1. HasCustomer(d, c) => row \in CustomerRow /\ row.onboard = val
  BY CustomerRowType DEF CustomerRow
<1>2. e \in Db
  BY <1>1, SetCustomerType
<1>3. Sitting(e) = IF HasCustomer(d, c)
                   THEN [Sitting(d) EXCEPT ![c] = IF val THEN "riding" ELSE "waiting"]
                   ELSE Sitting(d)
  <2> HIDE DEF row
  <2>1. CASE HasCustomer(d, c)
    BY <1>1, <2>1, SetCustomerSitting
  <2>2. CASE ~HasCustomer(d, c)
    BY <2>2 DEF SetCustomer
  <2>3. QED BY <2>1, <2>2
<1>4. \A r : Sitting(SetTaxi(e, t, r)) = Sitting(e)
  BY <1>2, SetTaxiSitting
<1>5. SetOnboard(d, c, t, val) = e \/ \E r : SetOnboard(d, c, t, val) = SetTaxi(e, t, r)
  BY DEF SetOnboard
<1> HIDE DEF e
<1>6. QED BY <1>3, <1>4, <1>5

LEMMA MovedSitting ==
    ASSUME TypeOK, request.taxiId \in Taxis, request.coord \in Points
    PROVE  Sitting(Moved) = Sitting(db)
<1> DEFINE moved == MoveTaxi(db, request.taxiId, request.coord)
           c == carryingClient(request.taxiId)
<1>1. moved \in Db /\ Sitting(moved) = Sitting(db)
  BY TaxiUpdatesType, TaxiUpdatesSitting DEF TypeOK
<1>2. c # None => c \in Customers
  BY QueryTypes
<1>3. c # None => Sitting(MoveCustomer(moved, c, request.coord)) = Sitting(db)
  BY <1>1, <1>2, CustomerUpdatesSitting
<1>4. QED BY <1>1, <1>3 DEF Moved

\* How seats change in one step: not at all, or for one customer or one taxi.
Kept(d) == Aboard(d) = Aboard(db) /\ Sitting(d) = Sitting(db)

Seated(t, c) ==
    /\ Aboard(db)[t] = None /\ Sitting(db)[c] # "away"
    /\ Aboard(db') = [Aboard(db) EXCEPT ![t] = c]
    /\ Sitting(db') = [Sitting(db) EXCEPT ![c] = "riding"]

Left(t, c) ==
    /\ Aboard(db)[t] = c
    /\ Aboard(db') = [Aboard(db) EXCEPT ![t] = None]
    /\ Sitting(db') = IF Sitting(db)[c] = "away" THEN Sitting(db)
                      ELSE [Sitting(db) EXCEPT ![c] = "waiting"]

Arrived(c) ==
    /\ Sitting(db)[c] = "away"
    /\ Aboard(db') = Aboard(db) /\ Sitting(db') = [Sitting(db) EXCEPT ![c] = "waiting"]

Departed(c) ==
    /\ requests # <<>> /\ request.subject = "ORDER_CUSTOMER_DISCONNECT" /\ request.id = c
    /\ \A t \in Taxis : Aboard(db)[t] # c
    /\ Aboard(db') = Aboard(db) /\ Sitting(db') = [Sitting(db) EXCEPT ![c] = "away"]

Diversions == {"ORDER_TAXI_GO_TO", "ORDER_TAXI_RETURN_TO_BASE"}

Diverted(t) ==
    /\ requests # <<>> /\ request.subject \in Diversions
    /\ Aboard(db') = [Aboard(db) EXCEPT ![t] = None] /\ Sitting(db') = Sitting(db)

SeatStep ==
    \/ Kept(db')
    \/ \E t \in Taxis, c \in Customers : Seated(t, c) \/ Left(t, c)
    \/ \E c \in Customers : Arrived(c) \/ Departed(c)
    \/ \E t \in Taxis : Diverted(t)

LEMMA KeepsSeats ==
    ASSUME NEW d, NEW answered, Kept(d),
           \/ Simple(d, answered) \/ Done(d, answered) \/ Abort(d, answered)
           \/ Broken(d, answered)
    PROVE  SeatStep
BY DEF Simple, Done, Abort, Broken, Kept, SeatStep

LEMMA AssignSitting ==
    ASSUME NEW d \in Db, NEW t, NEW c
    PROVE  Sitting(Assign(d, t, c)) = Sitting(d)
BY SetTaxiSitting DEF Assign

\* Assigning only says where a taxi is to go.
LEMMA AssigningSeats ==
    ASSUME NEW d \in Db, NEW answered, NEW t \in Taxis, NEW c \in Customers,
           EndByAssigning(d, answered, t, c)
    PROVE  \E e : /\ Aboard(e) = Aboard(d) /\ Sitting(e) = Sitting(d)
                  /\ db' = IF dbUp THEN e ELSE db
<1>1. Aboard(Assign(d, t, c)) = Aboard(d) /\ Sitting(Assign(d, t, c)) = Sitting(d)
  BY AssignAboard, AssignSitting
<1>2. CASE AssignThrows(d, t, c)
  <2>1. db' = IF dbUp THEN d ELSE db
    BY <1>2 DEF EndByAssigning, Abort
  <2>2. QED BY <2>1
<1>3. CASE ~AssignThrows(d, t, c)
  <2>1. db' = IF dbUp THEN Assign(d, t, c) ELSE db
    BY <1>3 DEF EndByAssigning, Simple, Done
  <2>2. QED BY <1>1, <2>1
<1>4. QED BY <1>2, <1>3

LEMMA PickUpSeats ==
    ASSUME TypeOK, PickUpCustomer
    PROVE  SeatStep
<1>t. /\ request.taxiId \in Taxis /\ request.coord \in Points
      /\ getService(request.taxiId) \in Customers
  <2>1. request.taxiId \in Taxis /\ request.coord \in Points
    BY RequestType, RequestMembers DEF PickUpCustomer, TaxiArrivals
  <2>2. QED BY <2>1, QueryTypes DEF PickUpCustomer
<1>u. PICK t \in Taxis, c \in Customers : t = request.taxiId /\ c = getService(t)
  BY <1>t
<1>2. dbUp /\ HasTaxi(db, t) /\ carryingClient(t) = None
  BY <1>u, NoneAssumption DEF PickUpCustomer, getService, ServiceOf
<1>3. /\ Moved \in Db /\ Aboard(Moved) = Aboard(db) /\ HasTaxi(Moved, t)
      /\ (HasCustomer(Moved, c) <=> HasCustomer(db, c))
      /\ Sitting(Moved) = Sitting(db)
  BY <1>t, <1>2, MovedType, MovedAboard, MovedSitting
<1> DEFINE d == SetOnboard(Moved, c, t, TRUE)
<1>4. db' = d
  BY <1>u, <1>2 DEF PickUpCustomer, Simple, Done
<1>5. Sitting(d) = IF HasCustomer(Moved, c) THEN [Sitting(Moved) EXCEPT ![c] = "riding"]
                                            ELSE Sitting(Moved)
  <2>1. \A val \in BOOLEAN :
            Sitting(SetOnboard(Moved, c, t, val)) =
              IF HasCustomer(Moved, c)
              THEN [Sitting(Moved) EXCEPT ![c] = IF val THEN "riding" ELSE "waiting"]
              ELSE Sitting(Moved)
    BY <1>3, SetOnboardSitting
  <2>2. Sitting(d) = IF HasCustomer(Moved, c)
                     THEN [Sitting(Moved) EXCEPT ![c] = IF TRUE THEN "riding" ELSE "waiting"]
                     ELSE Sitting(Moved)
    BY <2>1, Zenon
  <2> HIDE DEF d
  <2>3. QED BY <2>2
<1>6. Aboard(db)[t] = None
  BY <1>2 DEF Aboard, carryingClient
<1>7. CASE HasCustomer(db, c)
  <2>1. Moved \in Db /\ HasTaxi(Moved, t) /\ HasCustomer(Moved, c)
    BY <1>3, <1>7
  <2>2. Aboard(d) = [Aboard(Moved) EXCEPT ![t] = c]
    BY <2>1, Boards, Zenon
  <2>3. Sitting(db)[c] # "away"
    BY <1>7 DEF Sitting
  <2> HIDE DEF d
  <2>4. Seated(t, c)
    BY <1>3, <1>4, <1>5, <1>6, <2>1, <2>2, <2>3 DEF Seated
  <2>5. QED BY <2>4 DEF SeatStep
<1>8. CASE ~HasCustomer(db, c)
  <2>1. Aboard(d) = Aboard(Moved)
    BY <1>3, <1>8, DoesNotBoard, Zenon
  <2> HIDE DEF d
  <2>2. Kept(db')
    BY <1>3, <1>4, <1>5, <1>8, <2>1 DEF Kept
  <2>3. QED BY <2>2 DEF SeatStep
<1>9. QED BY <1>7, <1>8

LEMMA CompleteSeats ==
    ASSUME TypeOK, CompleteRide
    PROVE  SeatStep
<1>t. /\ request.taxiId \in Taxis /\ request.coord \in Points
      /\ carryingClient(request.taxiId) \in Customers
  <2>1. request.taxiId \in Taxis /\ request.coord \in Points
    BY RequestType, RequestMembers DEF CompleteRide, TaxiArrivals
  <2>2. QED BY <2>1, QueryTypes DEF CompleteRide
<1>u. PICK t \in Taxis, c \in Customers : t = request.taxiId /\ c = carryingClient(t)
  BY <1>t
<1> DEFINE d == SetOnboard(Moved, c, t, FALSE)
           answered == Send(responses, c, Notice("CUSTOMER_SERVICE_COMPLETED"))
<1>2. dbUp /\ HasTaxi(db, t) /\ CarriedBy(db, t) = c /\ c # None
  BY <1>u, NoneAssumption DEF carryingClient, CarriedBy
<1>3. /\ Moved \in Db /\ Aboard(Moved) = Aboard(db) /\ HasTaxi(Moved, t)
      /\ (HasCustomer(Moved, c) <=> HasCustomer(db, c))
      /\ Sitting(Moved) = Sitting(db)
  BY <1>t, <1>2, MovedType, MovedAboard, MovedSitting
<1>4. d \in Db /\ Aboard(d) = [Aboard(db) EXCEPT ![t] = None]
  <2>1. d \in Db /\ Aboard(d) = [Aboard(Moved) EXCEPT ![t] = None]
    BY <1>3, SetOnboardType, GetsOff, Zenon
  <2>2. QED BY <1>3, <2>1
<1>5. Sitting(d) = IF HasCustomer(Moved, c) THEN [Sitting(Moved) EXCEPT ![c] = "waiting"]
                                            ELSE Sitting(Moved)
  <2>1. \A val \in BOOLEAN :
            Sitting(SetOnboard(Moved, c, t, val)) =
              IF HasCustomer(Moved, c)
              THEN [Sitting(Moved) EXCEPT ![c] = IF val THEN "riding" ELSE "waiting"]
              ELSE Sitting(Moved)
    BY <1>3, SetOnboardSitting
  <2>2. Sitting(d) = IF HasCustomer(Moved, c)
                     THEN [Sitting(Moved) EXCEPT ![c] = IF FALSE THEN "riding" ELSE "waiting"]
                     ELSE Sitting(Moved)
    BY <2>1, Zenon
  <2> HIDE DEF d
  <2>3. QED BY <2>2
<1>6. Sitting(d) = IF Sitting(db)[c] = "away" THEN Sitting(db)
                   ELSE [Sitting(db) EXCEPT ![c] = "waiting"]
  <2> HIDE DEF d
  <2>1. HasCustomer(db, c) <=> Sitting(db)[c] # "away"
    BY DEF Sitting
  <2>2. QED BY <1>3, <1>5, <2>1
<1> HIDE DEF d
<1>7. ASSUME NEW e, Aboard(e) = Aboard(d), Sitting(e) = Sitting(d), db' = e PROVE SeatStep
  <2>1. Left(t, c)
    BY <1>2, <1>4, <1>6, <1>7 DEF Left, Aboard
  <2>2. QED BY <2>1 DEF SeatStep
<1>8. CASE Simple(d, answered)
  BY <1>2, <1>7, <1>8 DEF Simple, Done
<1>9. ASSUME NEW q \in checkQueue(d), EndByAssigning(d, answered, t, q) PROVE SeatStep
  <2>1. q \in Customers
    BY <1>4, QueryTypes
  <2> HIDE DEF answered
  <2>2. PICK e : Aboard(e) = Aboard(d) /\ Sitting(e) = Sitting(d) /\ db' = IF dbUp THEN e ELSE db
    BY <1>4, <1>9, <2>1, AssigningSeats
  <2>3. QED BY <1>2, <1>7, <2>2
<1>10. QED BY <1>u, <1>8, <1>9 DEF CompleteRide, d

\* Every handler, whatever the customers and the operators ask for.
LEMMA HandlersSeat ==
    ASSUME TypeOK, Handle
    PROVE  SeatStep
<1> DEFINE t == request.taxiId
           c == request.id
<1>0. db \in Db /\ responses \in Inboxes /\ now \in 0..MaxNow /\ Kept(db)
  BY DEF TypeOK, Kept
<1>1. CASE IgnoreOtherSession
  BY <1>0, <1>1 DEF IgnoreOtherSession, SeatStep, Kept
<1>2. CASE TaxiJoins
  <2>1. t \in Taxis
    BY <1>2, RequestType, RequestMembers DEF TaxiJoins, TaxiSignals
  <2>2. checkQueue(db) \subseteq Customers
    BY <1>0, <2>1, QueryTypes
  <2>3. CASE Simple(db, responses)
    BY <1>0, <2>3, KeepsSeats
  <2>4. ASSUME NEW q \in checkQueue(db), EndByAssigning(db, responses, t, q) PROVE SeatStep
    <3>1. PICK e : Aboard(e) = Aboard(db) /\ Sitting(e) = Sitting(db) /\ db' = IF dbUp THEN e ELSE db
      BY <1>0, <2>1, <2>2, <2>4, AssigningSeats
    <3>2. QED BY <3>1 DEF SeatStep, Kept
  <2>5. QED BY <1>2, <2>3, <2>4 DEF TaxiJoins
<1>3. CASE TaxiMoves \/ ReachWithoutService
  <2>1. t \in Taxis /\ request.coord \in Points
    BY <1>3, RequestType, RequestMembers DEF TaxiMoves, ReachWithoutService, TaxiArrivals
  <2>2. Kept(Moved)
    BY <2>1, MovedAboard, MovedSitting DEF Kept
  <2>3. QED BY <1>3, <2>2, KeepsSeats DEF TaxiMoves, ReachWithoutService
<1>4. CASE SetTaxiReady \/ UpdateWaitTime
  <2>1. t \in Taxis
    BY <1>4, RequestType, RequestMembers DEF SetTaxiReady, UpdateWaitTime, TaxiSignals
  <2>2. CASE SetTaxiReady
    <3>1. \A b \in BOOLEAN : Kept(SetReady(db, t, b))
      BY <1>0, <2>1, TaxiUpdatesAboard, TaxiUpdatesSitting DEF Kept
    <3>2. Kept(SetReady(db, t, request.subject = "TAXI_READY"))
      BY <3>1, Zenon
    <3>3. QED BY <2>2, <3>2, KeepsSeats DEF SetTaxiReady
  <2>3. CASE UpdateWaitTime
    <3>1. request.data \in Countdown
      BY <2>3, RequestType, RequestMembers DEF UpdateWaitTime
    <3>2. Kept(SetWaitTime(db, t, request.data))
      BY <1>0, <2>1, <3>1, TaxiUpdatesAboard, TaxiUpdatesSitting DEF Kept
    <3>3. QED BY <2>3, <3>2, KeepsSeats DEF UpdateWaitTime
  <2>4. QED BY <1>4, <2>2, <2>3
<1>5. CASE Ping
  BY <1>0, <1>5, KeepsSeats DEF Ping
<1>6. CASE NewCustomer
  <2>1. c \in Customers /\ request.coord \in Points
    BY <1>6, RequestType, RequestMembers DEF NewCustomer
  <2>2. ASSUME NEW answered, Simple(db, answered) PROVE SeatStep
    BY <1>0, <2>2, KeepsSeats
  <2>3. CASE /\ dbUp /\ ~HasCustomer(db, c)
             /\ Done(InsertCustomer(db, c, request.coord), Send(responses, c, Notice("ACCEPT")))
    <3>1. db' = InsertCustomer(db, c, request.coord)
      BY <2>3 DEF Done
    <3>2. Arrived(c)
      <4>1. Sitting(db)[c] = "away"
        BY <2>1, <2>3 DEF Sitting
      <4>2. QED
        BY <1>0, <2>1, <3>1, <4>1, ComesAndGoesSitting, CustomerUpdatesAboard DEF Arrived
    <3>3. QED BY <2>1, <3>2 DEF SeatStep
  <2>4. QED BY <1>6, <2>2, <2>3 DEF NewCustomer
<1>7. CASE ServiceRequest
  <2>1. c \in Customers /\ request.data \in Services
    BY <1>7, RequestType, RequestMembers DEF ServiceRequest
  <2> DEFINE d == SetDestination(db, c, request.data)
  <2>2. d \in Db /\ Kept(d) /\ Kept(Enqueue(db, c, now))
    BY <1>0, <2>1, CustomerUpdatesType, CustomerUpdatesAboard, CustomerUpdatesSitting DEF Kept
  <2>3. checkAvailableTaxis \subseteq Taxis
    BY DEF checkAvailableTaxis, AvailableTaxis
  <2>4. ASSUME NEW u \in Taxis PROVE Kept(Assign(d, u, c))
    <3> HIDE DEF d
    <3>1. QED BY <2>1, <2>2, AssignAboard, AssignSitting DEF Kept
  <2>5. \/ \E answered : Simple(Enqueue(db, c, now), answered) \/ Simple(db, answered)
        \/ Abort(d, responses)
        \/ \E u \in Taxis : \E answered : Simple(Assign(d, u, c), answered)
    <3>1. (checkAvailableTaxis = {} /\ Simple(Enqueue(db, c, now), Send(responses, c, Notice("CUSTOMER_ENQUEUED"))))
          => \E answered : Simple(Enqueue(db, c, now), answered)
      OBVIOUS
    <3>2. QED BY <1>7, <2>3, <3>1 DEF ServiceRequest
  <2> HIDE DEF d
  <2>6. QED BY <1>0, <2>2, <2>4, <2>5, KeepsSeats
<1>8. CASE UpdateNextRequest
  <2>1. c \in Customers /\ request.data \in Countdown
    BY <1>8, RequestType, RequestMembers DEF UpdateNextRequest
  <2>2. Kept(SetNextRequest(db, c, request.data))
    BY <1>0, <2>1, CustomerUpdatesAboard, CustomerUpdatesSitting DEF Kept
  <2>3. QED BY <1>8, <2>2, KeepsSeats DEF UpdateNextRequest
<1>9. CASE OrderGoTo
  <2>1. /\ t \in Taxis /\ request.subject \in Diversions /\ requests # <<>>
        /\ request.subject = "ORDER_TAXI_GO_TO" => request.coord \in Points
    BY <1>9, RequestType, RequestMembers DEF OrderGoTo, Receives, Pending, TaxiOrders, Diversions
  <2> DEFINE p == IF request.subject = "ORDER_TAXI_GO_TO" THEN request.coord ELSE Base
  <2>2. p \in Points
    BY <2>1, BaseAssumption
  <2>3. Simple(SendTaxi(db, t, p), Send(responses, t, GoTo(p)))
    BY <1>9 DEF OrderGoTo
  <2> HIDE DEF p
  <2>4. Aboard(SendTaxi(db, t, p)) = [Aboard(db) EXCEPT ![t] = None]
        /\ Sitting(SendTaxi(db, t, p)) = Sitting(db)
    BY <1>0, <2>1, <2>2, TaxiUpdatesAboard, TaxiUpdatesSitting
  <2>5. CASE dbUp
    <3>1. Diverted(t)
      BY <2>1, <2>3, <2>4, <2>5 DEF Diverted, Simple, Done
    <3>2. QED BY <2>1, <3>1 DEF SeatStep
  <2>6. CASE ~dbUp
    BY <1>0, <2>3, <2>6 DEF Simple, Done, SeatStep
  <2>7. QED BY <2>5, <2>6
<1>10. CASE OrderStop \/ OrderContinue \/ OrderTaxiDisconnect
  <2>1. t \in Taxis
    BY <1>10, RequestType, RequestMembers
    DEF OrderStop, OrderContinue, OrderTaxiDisconnect, TaxiOrders
  <2>2. \A b \in BOOLEAN : Kept(SetStopped(db, t, b))
    BY <1>0, <2>1, TaxiUpdatesAboard, TaxiUpdatesSitting DEF Kept
  <2>3. Kept(DisconnectTaxi(db, t))
    BY <1>0, <2>1, TaxiUpdatesAboard, TaxiUpdatesSitting DEF Kept
  <2>4. \/ \E b \in BOOLEAN : \E answered : Simple(SetStopped(db, t, b), answered)
        \/ \E answered : Simple(DisconnectTaxi(db, t), answered)
    BY <1>10, Zenon DEF OrderStop, OrderContinue, OrderTaxiDisconnect
  <2>5. QED BY <2>2, <2>3, <2>4, KeepsSeats
<1>11. CASE OrderCustomerDisconnect
  <2>1. c \in Customers
    BY <1>11, RequestType, RequestMembers DEF OrderCustomerDisconnect, CustomerOrders
  <2>7. requests # <<>> /\ request.subject = "ORDER_CUSTOMER_DISCONNECT"
    BY <1>11 DEF OrderCustomerDisconnect, Receives, Pending
  <2> DEFINE d == DeleteCustomer(db, c)
  <2>2. Aboard(d) = Aboard(db)
    BY <1>0, <2>1, CustomerUpdatesAboard
  <2>3. \/ Sitting(d) = Sitting(db)
        \/ Sitting(d) = [Sitting(db) EXCEPT ![c] = "away"] /\ \A u \in Taxis : Aboard(db)[u] # c
    BY <1>0, <2>1, ComesAndGoesSitting
  <2>4. db' = d \/ db' = db
    BY <1>11 DEF OrderCustomerDisconnect, Simple, Done
  <2> HIDE DEF d
  <2>5. Kept(db') \/ Departed(c)
    BY <1>0, <2>2, <2>3, <2>4, <2>7 DEF Kept, Departed
  <2>6. QED BY <2>1, <2>5 DEF SeatStep
<1>12. CASE OrderPriority
  <2>1. c \in Customers
    BY <1>12, RequestType, RequestMembers DEF OrderPriority, CustomerOrders
  <2>2. Kept(Dequeue(db, c))
    BY <1>0, <2>1, CustomerUpdatesAboard, CustomerUpdatesSitting DEF Kept
  <2>3. QED BY <1>12, <2>2, KeepsSeats DEF OrderPriority
<1>13. CASE OrderLocationMove
  <2>1. Kept(MoveLocation(db, request.id, request.coord))
    BY <1>0, MoveLocationAboard, TaxiUpdatesSitting DEF Kept
  <2>2. QED BY <1>13, <2>1, KeepsSeats DEF OrderLocationMove
<1>14. QED
  BY <1>1, <1>2, <1>3, <1>4, <1>5, <1>6, <1>7, <1>8, <1>9, <1>10, <1>11, <1>12, <1>13,
     PickUpSeats, CompleteSeats DEF Handle

\* A customer whose ride is said to be over has left its seat, or keeps it.
LEMMA BrokenSeats ==
    ASSUME TypeOK, HandleBroken
    PROVE  SeatStep
<1>0. db \in Db /\ Kept(db)
  BY DEF TypeOK, Kept
<1>1. ASSUME NEW d \in Db, Kept(d), NEW answered, NEW t \in Taxis, NEW c \in Customers,
             AssignBroken(d, answered, t, c)
      PROVE  SeatStep
  <2>1. PICK e \in {d, Assign(d, t, c)} : Abort(e, answered)
    BY <1>1 DEF AssignBroken
  <2>2. Kept(e)
    BY <1>1, AssignAboard, AssignSitting DEF Kept
  <2>3. QED BY <2>1, <2>2, KeepsSeats
<1>2. CASE JoinBroken
  <2>1. request.taxiId \in Taxis
    BY <1>2, RequestType, RequestMembers DEF JoinBroken, TaxiSignals
  <2>2. checkQueue(db) \subseteq Customers
    BY <1>0, <2>1, QueryTypes
  <2>3. QED BY <1>0, <1>1, <1>2, <2>1, <2>2 DEF JoinBroken
<1>3. CASE RideBroken
  <2>1. /\ request.taxiId \in Taxis /\ request.coord \in Points
        /\ carryingClient(request.taxiId) \in Customers
    <3>1. request.taxiId \in Taxis /\ request.coord \in Points
      BY <1>3, RequestType, RequestMembers DEF RideBroken, TaxiArrivals
    <3>2. QED BY <1>3, <3>1, QueryTypes DEF RideBroken
  <2>2. PICK t \in Taxis, c \in Customers : t = request.taxiId /\ c = carryingClient(t)
    BY <2>1
  <2> DEFINE d == SetOnboard(Moved, c, t, FALSE)
             answered == Send(responses, c, Notice("CUSTOMER_SERVICE_COMPLETED"))
  <2>3. HasTaxi(db, t) /\ CarriedBy(db, t) = c /\ c # None
    BY <2>2, NoneAssumption DEF carryingClient, CarriedBy
  <2>4. /\ Moved \in Db /\ Aboard(Moved) = Aboard(db) /\ HasTaxi(Moved, t)
        /\ (HasCustomer(Moved, c) <=> HasCustomer(db, c))
        /\ Sitting(Moved) = Sitting(db)
    BY <2>1, <2>2, <2>3, MovedType, MovedAboard, MovedSitting
  <2>5. d \in Db /\ Aboard(d) = [Aboard(db) EXCEPT ![t] = None]
    <3>1. d \in Db /\ Aboard(d) = [Aboard(Moved) EXCEPT ![t] = None]
      BY <2>4, SetOnboardType, GetsOff, Zenon
    <3>2. QED BY <2>4, <3>1
  <2>6. Sitting(d) = IF HasCustomer(Moved, c) THEN [Sitting(Moved) EXCEPT ![c] = "waiting"]
                                              ELSE Sitting(Moved)
    <3>1. \A val \in BOOLEAN :
              Sitting(SetOnboard(Moved, c, t, val)) =
                IF HasCustomer(Moved, c)
                THEN [Sitting(Moved) EXCEPT ![c] = IF val THEN "riding" ELSE "waiting"]
                ELSE Sitting(Moved)
      BY <2>4, SetOnboardSitting
    <3>2. Sitting(d) = IF HasCustomer(Moved, c)
                       THEN [Sitting(Moved) EXCEPT ![c] = IF FALSE THEN "riding" ELSE "waiting"]
                       ELSE Sitting(Moved)
      BY <3>1, Zenon
    <3> HIDE DEF d
    <3>3. QED BY <3>2
  <2>7. \/ \E e \in {db, Moved, d} : Broken(e, answered)
        \/ \E q \in checkQueue(d) : AssignBroken(d, answered, t, q)
    BY <1>3, <2>2 DEF RideBroken
  <2>8. checkQueue(d) \subseteq Customers
    BY <2>5, QueryTypes
  <2> HIDE DEF d, answered
  <2>9. Sitting(d) = IF Sitting(db)[c] = "away" THEN Sitting(db)
                     ELSE [Sitting(db) EXCEPT ![c] = "waiting"]
    <3>1. HasCustomer(db, c) <=> Sitting(db)[c] # "away"
      BY DEF Sitting
    <3>2. QED BY <2>4, <2>6, <3>1
  <2>10. ASSUME NEW e, Aboard(e) = Aboard(d), Sitting(e) = Sitting(d), db' = e PROVE SeatStep
    <3>1. Left(t, c)
      BY <2>3, <2>5, <2>9, <2>10 DEF Left, Aboard
    <3>2. QED BY <3>1 DEF SeatStep
  <2>11. ASSUME NEW e \in {db, Moved}, Broken(e, answered) PROVE SeatStep
    BY <1>0, <2>4, <2>11, KeepsSeats DEF Kept
  <2>12. CASE Broken(d, answered)
    BY <2>10, <2>12 DEF Broken
  <2>13. ASSUME NEW q \in checkQueue(d), AssignBroken(d, answered, t, q) PROVE SeatStep
    <3>1. PICK e \in {d, Assign(d, t, q)} : Abort(e, answered)
      BY <2>13 DEF AssignBroken
    <3>2. Aboard(e) = Aboard(d) /\ Sitting(e) = Sitting(d)
      BY <2>5, <2>8, AssignAboard, AssignSitting
    <3>3. db' = e
      BY <2>13, <3>1 DEF AssignBroken, Abort
    <3>4. QED BY <2>10, <3>2, <3>3
  <2>14. QED BY <2>7, <2>11, <2>12, <2>13
<1>4. CASE PickUpBroken
  <2>1. request.taxiId \in Taxis /\ request.coord \in Points
    BY <1>4, RequestType, RequestMembers DEF PickUpBroken, TaxiArrivals
  <2>2. Kept(Moved)
    BY <2>1, MovedAboard, MovedSitting DEF Kept
  <2>3. \E answered : Abort(Moved, answered) \/ Broken(Moved, answered)
    BY <1>4 DEF PickUpBroken
  <2>4. QED BY <2>2, <2>3, KeepsSeats
<1>5. CASE NewCustomerBroken
  <2>1. request.id \in Customers /\ request.coord \in Points
    BY <1>5, RequestType, RequestMembers DEF NewCustomerBroken
  <2>2. db' = InsertCustomer(db, request.id, request.coord) /\ Sitting(db)[request.id] = "away"
    BY <1>5, <2>1 DEF NewCustomerBroken, Broken, Sitting
  <2>3. Arrived(request.id)
    BY <1>0, <2>1, <2>2, ComesAndGoesSitting, CustomerUpdatesAboard DEF Arrived
  <2>4. QED BY <2>1, <2>3 DEF SeatStep
<1>6. CASE ServiceBroken
  <2> DEFINE c == request.id
             d == SetDestination(db, c, request.data)
  <2>1. c \in Customers /\ request.data \in Services
    BY <1>6, RequestType, RequestMembers DEF ServiceBroken
  <2>2. d \in Db /\ Kept(d)
    BY <1>0, <2>1, CustomerUpdatesType, CustomerUpdatesAboard, CustomerUpdatesSitting DEF Kept
  <2>3. checkAvailableTaxis \subseteq Taxis
    BY DEF checkAvailableTaxis, AvailableTaxis
  <2>4. \/ \E e \in {db, d} : \E answered : Broken(e, answered)
        \/ \E u \in checkAvailableTaxis : AssignBroken(d, responses, u, c)
    BY <1>6 DEF ServiceBroken
  <2> HIDE DEF d
  <2>5. QED BY <1>0, <1>1, <2>1, <2>2, <2>3, <2>4, KeepsSeats
<1>7. QED BY <1>2, <1>3, <1>4, <1>5, <1>6 DEF HandleBroken

LEMMA StepSeats ==
    TypeOK /\ [Next]_vars => SeatStep
<1> SUFFICES ASSUME TypeOK, [Next]_vars PROVE SeatStep
  OBVIOUS
<1>1. CASE UNCHANGED vars
  BY <1>1 DEF vars, SeatStep, Kept
<1>2. CASE Handle
  BY <1>2, HandlersSeat
<1>3. CASE HandleBroken
  BY <1>3, BrokenSeats
<1>4. CASE Tick \/ LoseDb \/ Announce \/ (\E s \in Subscribers : Read(s)) \/ \E m \in Inputs : Submit(m)
  BY <1>4 DEF Tick, LoseDb, Announce, Read, Submit, SeatStep, Kept
<1>5. ASSUME NEW t \in Taxis, Register(t) PROVE SeatStep
  <2>1. db \in Db /\ db' = RegisterTaxi(db, t)
    BY <1>5 DEF TypeOK, Register
  <2>2. Aboard(db') = Aboard(db)
    BY <2>1, RegisterTaxiAboard
  <2>3. Sitting(db') = Sitting(db)
    BY <2>1, TaxiUpdatesSitting
  <2>4. QED BY <2>2, <2>3 DEF SeatStep, Kept
<1>6. QED BY <1>1, <1>2, <1>3, <1>4, <1>5 DEF Next, Environment

\* Whoever has a seat in a taxi is a customer of the database and rides.
CarriedRideIn(d) ==
    \A t \in Taxis :
        LET c == CarriedBy(d, t)
        IN  c # None => HasCustomer(d, c) /\ d.customers[c].onboard

CarriedRide == CarriedRideIn(db)

\* Whoever rides has a seat in some taxi.
RidersAreCarried ==
    \A c \in Customers :
        HasCustomer(db, c) /\ db.customers[c].onboard => \E t \in Taxis : CarriedBy(db, t) = c

LEMMA SeatsOf ==
    ASSUME NEW d \in Db
    PROVE  /\ \A t \in Taxis : Aboard(d)[t] = CarriedBy(d, t) /\ Aboard(d)[t] \in Customers \cup {None}
           /\ \A c \in Customers :
                Sitting(d)[c] = "riding" <=> HasCustomer(d, c) /\ d.customers[c].onboard
<1>1. \A t \in Taxis : HasTaxi(d, t) => d.taxis[t].customer_id \in Customers \cup {None}
  BY TaxiRowType DEF TaxiRow
<1>2. QED BY <1>1 DEF Aboard, CarriedBy, Sitting

\* With one taxi, a customer leaves its seat and stops riding in the same step.
LEMMA StepKeepsCarried ==
    ASSUME \A t, u \in Taxis : t = u, TypeOK, TypeOK', SeatStep, CarriedRide
    PROVE  CarriedRide'
<1>0. /\ \A t \in Taxis : Aboard(db)[t] \in Customers => Sitting(db)[Aboard(db)[t]] = "riding"
      /\ \A t \in Taxis : Aboard(db)[t] \in Customers \cup {None}
  BY SeatsOf, NoneAssumption DEF TypeOK, CarriedRide, CarriedRideIn
<1>1. DOMAIN Aboard(db) = Taxis /\ DOMAIN Sitting(db) = Customers
  BY DEF Aboard, Sitting
<1>2. \A t \in Taxis : Aboard(db')[t] \in Customers => Sitting(db')[Aboard(db')[t]] = "riding"
  <2>1. CASE Kept(db')
    BY <1>0, <2>1 DEF Kept
  <2>2. ASSUME NEW t \in Taxis, NEW c \in Customers, Seated(t, c)
        PROVE  Sitting(db')[Aboard(db')[t]] = "riding"
    BY <1>1, <2>2 DEF Seated
  <2>3. ASSUME NEW t \in Taxis, Aboard(db') = [Aboard(db) EXCEPT ![t] = None]
        PROVE  Aboard(db')[t] \notin Customers
    BY <1>1, <2>3, NoneAssumption
  <2>4. ASSUME NEW c \in Customers, Arrived(c) \/ Departed(c), NEW t \in Taxis,
               Aboard(db')[t] \in Customers
        PROVE  Sitting(db')[Aboard(db')[t]] = "riding"
    BY <1>0, <1>1, <2>4 DEF Arrived, Departed
  <2>5. QED BY <2>1, <2>2, <2>3, <2>4 DEF SeatStep, Left, Diverted
<1>3. \A t \in Taxis :
        /\ Aboard(db')[t] = CarriedBy(db', t) /\ Aboard(db')[t] \in Customers \cup {None}
        /\ \A c \in Customers :
            Sitting(db')[c] = "riding" <=> HasCustomer(db', c) /\ db'.customers[c].onboard
  BY SeatsOf DEF TypeOK
<1>4. QED BY <1>2, <1>3 DEF CarriedRide, CarriedRideIn

\* A customer loses its seat without getting off only if its taxi is sent elsewhere.
LEMMA StepKeepsRiders ==
    ASSUME TypeOK, TypeOK', SeatStep, RidersAreCarried, \A t \in Taxis : ~Diverted(t)
    PROVE  RidersAreCarried'
<1>0. \A c \in Customers : Sitting(db)[c] = "riding" => \E t \in Taxis : Aboard(db)[t] = c
  BY SeatsOf DEF TypeOK, RidersAreCarried
<1>1. DOMAIN Aboard(db) = Taxis /\ DOMAIN Sitting(db) = Customers
  BY DEF Aboard, Sitting
<1>2. \A c \in Customers : Sitting(db')[c] = "riding" => \E t \in Taxis : Aboard(db')[t] = c
  <2>1. CASE Kept(db')
    BY <1>0, <2>1 DEF Kept
  <2>2. ASSUME NEW t \in Taxis, NEW c \in Customers, Seated(t, c), NEW b \in Customers,
               Sitting(db')[b] = "riding"
        PROVE  \E u \in Taxis : Aboard(db')[u] = b
    <3>1. CASE b = c
      BY <1>1, <2>2, <3>1 DEF Seated
    <3>2. CASE b # c
      <4>1. PICK u \in Taxis : Aboard(db)[u] = b
        BY <1>0, <1>1, <2>2, <3>2 DEF Seated
      <4>2. u # t
        BY <2>2, <4>1, NoneAssumption DEF Seated
      <4>3. QED BY <1>1, <2>2, <4>1, <4>2 DEF Seated
    <3>3. QED BY <3>1, <3>2
  <2>3. ASSUME NEW t \in Taxis, NEW c \in Customers, Left(t, c), NEW b \in Customers,
               Sitting(db')[b] = "riding"
        PROVE  \E u \in Taxis : Aboard(db')[u] = b
    <3>1. b # c /\ Sitting(db)[b] = "riding"
      BY <1>1, <2>3 DEF Left
    <3>2. PICK u \in Taxis : Aboard(db)[u] = b
      BY <1>0, <3>1
    <3>3. QED BY <1>1, <2>3, <3>1, <3>2 DEF Left
  <2>4. ASSUME NEW c \in Customers, Arrived(c) \/ Departed(c), NEW b \in Customers,
               Sitting(db')[b] = "riding"
        PROVE  \E u \in Taxis : Aboard(db')[u] = b
    BY <1>0, <1>1, <2>4 DEF Arrived, Departed
  <2>5. QED BY <2>1, <2>2, <2>3, <2>4 DEF SeatStep
<1>3. /\ \A t \in Taxis : Aboard(db')[t] = CarriedBy(db', t)
      /\ \A c \in Customers :
            Sitting(db')[c] = "riding" <=> HasCustomer(db', c) /\ db'.customers[c].onboard
  BY SeatsOf DEF TypeOK
<1>4. QED BY <1>2, <1>3 DEF RidersAreCarried

\* With one taxi, who is carried rides and has a row, whatever is ordered, whoever leaves and
\* wherever a handler breaks off, if it was so in the session that is resumed: SetOnboard writes both
\* tables, and customers come and go only while they have no seat.
THEOREM CarriedCustomersRide ==
    /\ \A t, u \in Taxis : t = u
    /\ \A d \in Resumed : CarriedRideIn(d)
    => (Spec => []CarriedRide)
<1> SUFFICES ASSUME \A t, u \in Taxis : t = u, \A d \in Resumed : CarriedRideIn(d)
             PROVE  Spec => []CarriedRide
  OBVIOUS
<1>1. Init => CarriedRide
  BY DEF Init, EmptyDb, CarriedRide, CarriedRideIn, CarriedBy, HasTaxi
<1>2. TypeOK /\ TypeOK' /\ CarriedRide /\ [Next]_vars => CarriedRide'
  BY StepSeats, StepKeepsCarried
<1>3. QED BY <1>1, <1>2, TypeCorrect, PTL DEF Spec

-----------------------------------------------------------------------------
(* Duty: taxis are sent only to customers, and the central survives         *)

\* e has the services and the locations of d, and perhaps more.
Richer(d, e) ==
    /\ \A t \in Taxis : ServiceOf(d, t) # None => ServiceOf(e, t) # None
    /\ \A l \in Services : HasLocation(d, l) => HasLocation(e, l)

LEMMA RicherIsTransitive ==
    ASSUME NEW d, NEW e, NEW f, Richer(d, e), Richer(e, f)
    PROVE  Richer(d, f)
BY DEF Richer

LEMMA SetTaxiRicher ==
    ASSUME NEW d \in Db, NEW t \in Taxis, NEW row,
           HasTaxi(d, t) => row \in TaxiRow /\ (row.service = d.taxis[t].service \/ row.service # None)
    PROVE  Richer(d, SetTaxi(d, t, row))
<1>1. CASE HasTaxi(d, t)
  <2>1. row # None
    BY <1>1, NoRowAssumption
  <2>2. /\ \A u \in Taxis : SetTaxi(d, t, row).taxis[u] = IF u = t THEN row ELSE d.taxis[u]
        /\ SetTaxi(d, t, row).locations = d.locations
    BY <1>1 DEF SetTaxi, Db
  <2>3. QED BY <1>1, <2>1, <2>2 DEF Richer, ServiceOf, HasTaxi, HasLocation
<1>2. CASE ~HasTaxi(d, t)
  BY <1>2 DEF SetTaxi, Richer
<1>3. QED BY <1>1, <1>2

LEMMA SetCustomerRicher ==
    ASSUME NEW d \in Db, NEW c, NEW row
    PROVE  Richer(d, SetCustomer(d, c, row))
<1>1. SetCustomer(d, c, row).taxis = d.taxis /\ SetCustomer(d, c, row).locations = d.locations
  BY DEF SetCustomer, Db
<1>2. QED BY <1>1 DEF Richer, ServiceOf, HasTaxi, HasLocation

LEMMA TaxiUpdatesRicher ==
    ASSUME NEW d \in Db, NEW t \in Taxis
    PROVE  /\ Richer(d, DisconnectTaxi(d, t))
           /\ \A b \in BOOLEAN : Richer(d, SetReady(d, t, b)) /\ Richer(d, SetStopped(d, t, b))
           /\ \A w \in Countdown : Richer(d, SetWaitTime(d, t, w))
           /\ \A p \in Points : Richer(d, MoveTaxi(d, t, p))
<1>1. Richer(d, DisconnectTaxi(d, t))
  BY TaxiRowType, SetTaxiRicher DEF DisconnectTaxi, TaxiRow
<1>2. ASSUME NEW b \in BOOLEAN PROVE Richer(d, SetReady(d, t, b))
  BY TaxiRowType, SetTaxiRicher DEF SetReady, TaxiRow
<1>3. ASSUME NEW b \in BOOLEAN PROVE Richer(d, SetStopped(d, t, b))
  BY TaxiRowType, SetTaxiRicher DEF SetStopped, TaxiRow
<1>4. ASSUME NEW w \in Countdown PROVE Richer(d, SetWaitTime(d, t, w))
  BY TaxiRowType, SetTaxiRicher DEF SetWaitTime, TaxiRow
<1>5. ASSUME NEW p \in Points PROVE Richer(d, MoveTaxi(d, t, p))
  BY TaxiRowType, SetTaxiRicher DEF MoveTaxi, TaxiRow
<1>6. QED BY <1>1, <1>2, <1>3, <1>4, <1>5

LEMMA CustomerUpdatesRicher ==
    ASSUME NEW d \in Db, NEW c
    PROVE  /\ Richer(d, DeleteCustomer(d, c))
           /\ Richer(d, Dequeue(d, c))
           /\ \A p : Richer(d, InsertCustomer(d, c, p)) /\ Richer(d, MoveCustomer(d, c, p))
           /\ \A n : Richer(d, SetNextRequest(d, c, n)) /\ Richer(d, Enqueue(d, c, n))
           /\ \A l : Richer(d, SetDestination(d, c, l))
           /\ \A l \in Services, p \in Points : Richer(d, MoveLocation(d, l, p))
<1>1. \A row : Richer(d, SetCustomer(d, c, row))
  BY SetCustomerRicher
<1>2. /\ DeleteCustomer(d, c).taxis = d.taxis /\ DeleteCustomer(d, c).locations = d.locations
      /\ \A p : /\ InsertCustomer(d, c, p).taxis = d.taxis
                /\ InsertCustomer(d, c, p).locations = d.locations
  BY DEF DeleteCustomer, InsertCustomer, Db
<1>3. Richer(d, DeleteCustomer(d, c)) /\ \A p : Richer(d, InsertCustomer(d, c, p))
  BY <1>2 DEF Richer, ServiceOf, HasTaxi, HasLocation
<1>4. ASSUME NEW l \in Services, NEW p \in Points PROVE Richer(d, MoveLocation(d, l, p))
  <2>1. /\ MoveLocation(d, l, p).taxis = d.taxis
        /\ \A k \in Services : MoveLocation(d, l, p).locations[k] \in {d.locations[k], p}
    BY DEF MoveLocation, Db
  <2>2. QED BY <2>1, NoneAssumption DEF Richer, ServiceOf, HasTaxi, HasLocation
<1>5. Richer(d, Dequeue(d, c)) /\ \A p : Richer(d, MoveCustomer(d, c, p))
  BY <1>1 DEF Dequeue, MoveCustomer
<1>6. \A n : Richer(d, SetNextRequest(d, c, n)) /\ Richer(d, Enqueue(d, c, n))
  BY <1>1 DEF SetNextRequest, Enqueue
<1>7. \A l : Richer(d, SetDestination(d, c, l))
  BY <1>1 DEF SetDestination
<1>8. QED BY <1>3, <1>4, <1>5, <1>6, <1>7

LEMMA SetOnboardRicher ==
    ASSUME NEW d \in Db, NEW c \in Customers, NEW t \in Taxis, NEW val \in BOOLEAN
    PROVE  Richer(d, SetOnboard(d, c, t, val))
<1> DEFINE e == SetCustomer(d, c, [d.customers[c] EXCEPT !.onboard = val])
           row == [e.taxis[t] EXCEPT !.customer_id = IF val THEN c ELSE None]
<1>1. e \in Db
  BY CustomerRowType, SetCustomerType DEF CustomerRow
<1>2. Richer(d, e)
  BY SetCustomerRicher
<1> HIDE DEF e
<1>3. Richer(e, SetTaxi(e, t, row))
  BY <1>1, TaxiRowType, SetTaxiRicher DEF TaxiRow
<1>4. SetOnboard(d, c, t, val) \in {e, SetTaxi(e, t, row)}
  BY DEF SetOnboard, e
<1>5. QED BY <1>2, <1>3, <1>4, RicherIsTransitive

LEMMA AssignRicher ==
    ASSUME NEW d \in Db, NEW t \in Taxis, NEW c \in Customers
    PROVE  Richer(d, Assign(d, t, c))
<1>1. CASE HasCustomer(d, c)
  <2>1. d.customers[c].pos \in Points
    BY <1>1, CustomerRowType DEF CustomerRow
  <2> DEFINE row == [d.taxis[t] EXCEPT !.dest = d.customers[c].pos, !.service = c]
  <2>2. HasTaxi(d, t) => row \in TaxiRow /\ row.service = c
    BY <2>1, TaxiRowType DEF TaxiRow
  <2>3. Assign(d, t, c) = SetTaxi(d, t, row)
    BY <1>1 DEF Assign
  <2> HIDE DEF row
  <2>4. QED BY <2>2, <2>3, NoneAssumption, SetTaxiRicher
<1>2. CASE ~HasCustomer(d, c)
  BY <1>2 DEF Assign, Richer
<1>3. QED BY <1>1, <1>2

LEMMA MovedRicher ==
    ASSUME TypeOK, request.taxiId \in Taxis, request.coord \in Points
    PROVE  Richer(db, Moved)
<1> DEFINE moved == MoveTaxi(db, request.taxiId, request.coord)
<1>1. moved \in Db /\ Richer(db, moved)
  BY TaxiUpdatesType, TaxiUpdatesRicher DEF TypeOK
<1>2. \A c : Richer(moved, MoveCustomer(moved, c, request.coord))
  BY <1>1, CustomerUpdatesRicher
<1>3. QED BY <1>1, <1>2, RicherIsTransitive DEF Moved

\* r has more to read, and sends no taxi that has no service in d.
OnDuty(d, r) ==
    /\ Longer(r)
    /\ \A t \in Taxis : \A n : Says(r, t, n) /\ n.subject = "TAXI_GO_TO" => ServiceOf(d, t) # None

\* The central survives the message, loses no service, and sends only taxis that have one.
Survives ==
    /\ Richer(db, db')
    /\ OnDuty(db', responses')
    /\ server' = server

LEMMA DutyGrows ==
    ASSUME TypeOK, NEW d, NEW r, OnDuty(d, r), NEW u \in Subscribers,
           NEW m \in TaxiNotice \cup CustomerNotice,
           m.subject = "TAXI_GO_TO" /\ u \in Taxis => ServiceOf(d, u) # None
    PROVE  OnDuty(d, Send(r, u, m))
<1>1. \A s \in Taxis : s \in Subscribers
  BY DEF Subscribers
<1>2. QED BY <1>1, SaysMore DEF OnDuty

LEMMA DutySend ==
    ASSUME TypeOK, NEW d, NEW r, OnDuty(d, r), NEW u \in Subscribers
    PROVE  /\ \A t \in Taxis : OnDuty(d, Send(r, u, Accepted(t)))
           /\ \A s \in {"TAXI_STOP", "TAXI_CONTINUE", "TAXI_DISCONNECT", "CUSTOMER_DISCONNECT",
                         "CUSTOMER_PRIORITY", "CUSTOMER_PICKED_UP", "CUSTOMER_ENQUEUED",
                         "CUSTOMER_SERVICE_COMPLETED", "CUSTOMER_SERVICE_DENIED", "ACCEPT", "DENY"} :
                  OnDuty(d, Send(r, u, Notice(s)))
<1>1. /\ \A t : Accepted(t).subject # "TAXI_GO_TO"
      /\ \A s : Notice(s).subject = s
  BY DEF Accepted, Notice
<1>2. QED BY <1>1, NoticeTypes, DutyGrows

LEMMA DutyOfMore ==
    ASSUME NEW d, NEW e, NEW r, Richer(d, e), OnDuty(d, r)
    PROVE  OnDuty(e, r)
BY DEF OnDuty, Richer

LEMMA Idle ==
    ASSUME TypeOK
    PROVE  (\A d : OnDuty(d, responses)) /\ \A d : Richer(d, d)
<1>1. \A t \in Taxis : t \in Subscribers
  BY DEF Subscribers
<1>2. QED BY <1>1, SaysNothing DEF OnDuty, Richer

LEMMA DutyEnds ==
    ASSUME dbUp, NEW d, NEW answered, Simple(d, answered) \/ Done(d, answered),
           Richer(db, d), OnDuty(d, answered)
    PROVE  Survives
BY DEF Simple, Done, Survives

\* assign throws for nobody whose letter is a location.
LEMMA AssignHolds ==
    ASSUME NEW d \in Db, NEW t \in Taxis, NEW c \in Customers,
           HasTaxi(d, t), HasCustomer(d, c), HasLocation(d, LetterOf[c])
    PROVE  /\ ~AssignThrows(d, t, c)
           /\ ServiceOf(Assign(d, t, c), t) # None
<1> DEFINE row == [d.taxis[t] EXCEPT !.dest = d.customers[c].pos, !.service = c]
<1>1. d.customers[c].pos \in Points
  BY CustomerRowType DEF CustomerRow
<1>2. row \in TaxiRow /\ row.dest # None /\ row.service # None
  BY <1>1, TaxiRowType, NoneAssumption DEF TaxiRow
<1>3. Assign(d, t, c).taxis[t] = row
  BY DEF Assign, SetTaxi, Db
<1> HIDE DEF row
<1>4. QED BY <1>2, <1>3, NoRowAssumption DEF AssignThrows, ServiceOf, HasTaxi

LEMMA DutyAssigned ==
    ASSUME TypeOK, NEW d \in Db, NEW r, OnDuty(d, r), NEW t \in Taxis, NEW c \in Customers,
           HasTaxi(d, t), HasCustomer(d, c), HasLocation(d, LetterOf[c])
    PROVE  OnDuty(Assign(d, t, c), Assigned(r, Assign(d, t, c), t, c))
<1> DEFINE e == Assign(d, t, c)
           p == e.taxis[t].dest
<1>1. ~AssignThrows(d, t, c) /\ ServiceOf(e, t) # None
  BY AssignHolds
<1>2. p \in Points /\ t \in Subscribers /\ c \in Subscribers
  BY <1>1, AssignType DEF Subscribers
<1>3. OnDuty(e, r)
  BY AssignRicher, DutyOfMore
<1>4. Assigned(r, e, t, c) = Send(Send(r, t, GoTo(p)), c, Accepted(t))
  BY DEF Assigned
<1> HIDE DEF p, e
<1>5. OnDuty(e, Send(r, t, GoTo(p)))
  BY <1>1, <1>2, <1>3, NoticeTypes, DutyGrows
<1>6. OnDuty(e, Send(Send(r, t, GoTo(p)), c, Accepted(t)))
  BY <1>2, <1>5, DutySend
<1>7. QED BY <1>4, <1>6 DEF e

LEMMA DutyAssigning ==
    ASSUME TypeOK, dbUp, NEW d \in Db, Richer(db, d), NEW r, OnDuty(d, r),
           NEW t \in Taxis, NEW c \in Customers,
           HasTaxi(d, t), HasCustomer(d, c), HasLocation(d, LetterOf[c]),
           EndByAssigning(d, r, t, c)
    PROVE  Survives
<1>1. Simple(Assign(d, t, c), Assigned(r, Assign(d, t, c), t, c))
  BY AssignHolds DEF EndByAssigning
<1>2. QED BY <1>1, AssignRicher, RicherIsTransitive, DutyAssigned, DutyEnds

\* A request that finds what it speaks of, while every customer's letter is a location.
Expected ==
    /\ dbUp
    /\ request.subject \notin Diversions
    /\ request.subject = "CUSTOMER_SERVICE_REQUEST" => HasCustomer(db, request.id)
    /\ request.subject \in {"NEW_TAXI", "TAXI_RECONNECTED"} => HasTaxi(db, request.taxiId)
    /\ request.subject = "TAXI_DESTINATION_REACHED" => ServiceOf(db, request.taxiId) # None
    /\ \A c \in Customers : HasLocation(db, LetterOf[c])

LEMMA RidesSurvive ==
    ASSUME TypeOK, Expected, TaxiJoins \/ TaxiMoves \/ CompleteRide \/ PickUpCustomer
    PROVE  Survives
<1> DEFINE t == request.taxiId
<1>0. /\ db \in Db /\ Richer(db, db) /\ \A d : OnDuty(d, responses)
      /\ \A s \in Taxis \cup Customers : s \in Subscribers
      /\ dbUp /\ \A c \in Customers : HasLocation(db, LetterOf[c]) /\ LetterOf[c] \in Services
  BY Idle, LetterAssumption DEF TypeOK, Subscribers, Expected
<1>1. t \in Taxis
  BY RequestType, RequestMembers
  DEF TaxiJoins, TaxiMoves, CompleteRide, PickUpCustomer, TaxiSignals, TaxiArrivals
<1>2. ASSUME TaxiMoves \/ CompleteRide \/ PickUpCustomer
      PROVE  Moved \in Db /\ Richer(db, Moved) /\ SameStanding(db, Moved)
  <2>1. request.coord \in Points
    BY <1>2, RequestType, RequestMembers DEF TaxiMoves, CompleteRide, PickUpCustomer, TaxiArrivals
  <2>2. QED BY <1>1, <2>1, MovedType, MovedRicher, MovedStanding
<1>3. CASE TaxiJoins
  <2>1. HasTaxi(db, t)
    BY <1>3, RequestType DEF TaxiJoins, Expected
  <2>2. \A c \in checkQueue(db) : c \in Customers /\ HasCustomer(db, c)
    BY QueueHasRows
  <2>3. QED BY <1>0, <1>1, <1>3, <2>1, <2>2, DutyEnds, DutyAssigning DEF TaxiJoins
<1>4. CASE TaxiMoves
  BY <1>0, <1>2, <1>4, DutyEnds DEF TaxiMoves
<1>5. CASE CompleteRide
  <2> DEFINE c == carryingClient(t)
             d == SetOnboard(Moved, c, t, FALSE)
             answered == Send(responses, c, Notice("CUSTOMER_SERVICE_COMPLETED"))
  <2>1. c \in Customers /\ HasTaxi(db, t)
    BY <1>1, <1>5, QueryTypes DEF CompleteRide, carryingClient, CarriedBy
  <2>2. d \in Db /\ Richer(db, d) /\ SameStanding(db, d)
    BY <1>1, <1>2, <1>5, <2>1, SetOnboardType, SetOnboardRicher, RicherIsTransitive,
       SetOnboardStanding, StandingIsTransitive
  <2>3. OnDuty(d, answered)
    BY <1>0, <2>1, DutySend
  <2>4. Simple(d, answered) \/ \E q \in checkQueue(d) : EndByAssigning(d, answered, t, q)
    BY <1>5 DEF CompleteRide
  <2> HIDE DEF d, answered
  <2>5. /\ HasTaxi(d, t)
        /\ \A q \in checkQueue(d) : q \in Customers /\ HasCustomer(d, q)
        /\ \A q \in Customers : HasLocation(d, LetterOf[q])
    BY <1>0, <1>1, <2>1, <2>2, QueueHasRows DEF SameStanding, Richer
  <2>6. QED BY <1>0, <1>1, <2>2, <2>3, <2>4, <2>5, DutyEnds, DutyAssigning
<1>6. CASE PickUpCustomer
  <2> DEFINE c == getService(t)
             p == DestinationOf(db, c)
             d == SetOnboard(Moved, c, t, TRUE)
             denied == Send(responses, c, Notice("CUSTOMER_SERVICE_DENIED"))
             told == Send(responses, c, Notice("CUSTOMER_PICKED_UP"))
  <2>1. c \in Customers
    BY <1>1, <1>6, QueryTypes DEF PickUpCustomer
  <2>2. Richer(db, d)
    BY <1>1, <1>2, <1>6, <2>1, SetOnboardRicher, RicherIsTransitive
  <2>3. p \in Points \cup {None}
    BY <1>0, <2>1, DestinationType
  <2>4. Simple(d, IF p = None THEN denied ELSE Send(told, t, GoTo(p)))
    BY <1>6 DEF PickUpCustomer
  <2>5. OnDuty(d, denied) /\ OnDuty(d, told)
    BY <1>0, <2>1, DutySend
  <2>6. ServiceOf(d, t) # None
    BY <1>0, <1>1, <1>6, <2>1, <2>2, NoneAssumption DEF PickUpCustomer, getService, Richer
  <2> HIDE DEF p, d, denied, told
  <2>7. p # None => OnDuty(d, Send(told, t, GoTo(p)))
    BY <1>0, <1>1, <2>3, <2>5, <2>6, NoticeTypes, DutyGrows
  <2>8. QED BY <1>0, <2>2, <2>4, <2>5, <2>7, DutyEnds
<1>7. QED BY <1>3, <1>4, <1>5, <1>6

LEMMA ReportsSurvive ==
    ASSUME TypeOK, Expected,
           SetTaxiReady \/ UpdateWaitTime \/ Ping \/ UpdateNextRequest \/ OrderLocationMove
    PROVE  Survives
<1> DEFINE t == request.taxiId
<1>0. db \in Db /\ dbUp /\ Richer(db, db) /\ \A d : OnDuty(d, responses)
  BY Idle DEF TypeOK, Expected
<1>1. CASE SetTaxiReady
  <2> DEFINE d == SetReady(db, t, request.subject = "TAXI_READY")
  <2>1. t \in Taxis
    BY <1>1, RequestType, RequestMembers DEF SetTaxiReady, TaxiSignals
  <2>2. Richer(db, d) /\ Simple(d, responses)
    BY <1>0, <1>1, <2>1, TaxiUpdatesRicher DEF SetTaxiReady
  <2>3. QED BY <1>0, <2>2, DutyEnds
<1>2. CASE UpdateWaitTime
  <2>1. t \in Taxis /\ request.data \in Countdown
    BY <1>2, RequestType, RequestMembers DEF UpdateWaitTime
  <2>2. QED BY <1>0, <1>2, <2>1, TaxiUpdatesRicher, DutyEnds DEF UpdateWaitTime
<1>3. CASE OrderLocationMove
  <2>1. request.id \in Services /\ request.coord \in Points
    BY <1>3, RequestType, RequestMembers DEF OrderLocationMove
  <2>2. QED BY <1>0, <1>3, <2>1, CustomerUpdatesRicher, DutyEnds DEF OrderLocationMove
<1>4. CASE Ping \/ UpdateNextRequest
  BY <1>0, <1>4, CustomerUpdatesRicher, DutyEnds DEF Ping, UpdateNextRequest
<1>5. QED BY <1>1, <1>2, <1>3, <1>4

LEMMA OrdersSurvive ==
    ASSUME TypeOK, Expected, OrderStop \/ OrderContinue \/ OrderTaxiDisconnect
    PROVE  Survives
<1> DEFINE t == request.taxiId
<1>0. /\ db \in Db /\ dbUp /\ \A d : OnDuty(d, responses)
      /\ t \in Taxis /\ t \in Subscribers
  BY Idle, RequestType, RequestMembers
  DEF TypeOK, Expected, Subscribers, OrderStop, OrderContinue, OrderTaxiDisconnect, TaxiOrders
<1>1. /\ \A b \in BOOLEAN : Richer(db, SetStopped(db, t, b))
      /\ Richer(db, DisconnectTaxi(db, t))
  BY <1>0, TaxiUpdatesRicher
<1>2. \A d : /\ OnDuty(d, Send(responses, t, Notice("TAXI_STOP")))
             /\ OnDuty(d, Send(responses, t, Notice("TAXI_CONTINUE")))
             /\ OnDuty(d, Send(responses, t, Notice("TAXI_DISCONNECT")))
  BY <1>0, DutySend
<1>3. Richer(db, SetStopped(db, t, TRUE)) /\ Richer(db, SetStopped(db, t, FALSE))
  BY <1>1, Zenon
<1>4. QED BY <1>0, <1>1, <1>2, <1>3, DutyEnds DEF OrderStop, OrderContinue, OrderTaxiDisconnect

LEMMA AnswersSurvive ==
    ASSUME TypeOK, Expected,
           NewCustomer \/ ServiceRequest \/ OrderCustomerDisconnect \/ OrderPriority
    PROVE  Survives
<1> DEFINE c == request.id
<1>0. /\ db \in Db /\ dbUp /\ Richer(db, db) /\ \A d : OnDuty(d, responses)
      /\ c \in Customers /\ c \in Subscribers
      /\ \A t \in Taxis : t \in Subscribers
      /\ \A b \in Customers : HasLocation(db, LetterOf[b]) /\ LetterOf[b] \in Services
  BY Idle, LetterAssumption, RequestType, RequestMembers
  DEF TypeOK, Expected, Subscribers, NewCustomer, ServiceRequest, OrderCustomerDisconnect,
      OrderPriority, CustomerOrders
<1>1. \A d : \A s \in {"CUSTOMER_DISCONNECT", "CUSTOMER_PRIORITY", "CUSTOMER_ENQUEUED",
                       "CUSTOMER_SERVICE_DENIED", "ACCEPT", "DENY"} :
            OnDuty(d, Send(responses, c, Notice(s)))
  BY <1>0, DutySend
<1>2. CASE NewCustomer
  BY <1>0, <1>1, <1>2, CustomerUpdatesRicher, DutyEnds DEF NewCustomer
<1>3. CASE OrderCustomerDisconnect \/ OrderPriority
  BY <1>0, <1>1, <1>3, CustomerUpdatesRicher, DutyEnds DEF OrderCustomerDisconnect, OrderPriority
<1>4. CASE ServiceRequest
  <2> DEFINE d == SetDestination(db, c, request.data)
  <2>1. request.data \in Services /\ HasCustomer(db, c)
    BY <1>4, RequestType, RequestMembers DEF ServiceRequest, Expected
  <2>2. d \in Db /\ Richer(db, d) /\ Richer(db, Enqueue(db, c, now)) /\ SameStanding(db, d)
    BY <1>0, <2>1, CustomerUpdatesType, CustomerUpdatesRicher, CustomerUpdatesStanding
  <2>3. CASE \/ Simple(Enqueue(db, c, now), Send(responses, c, Notice("CUSTOMER_ENQUEUED")))
             \/ Simple(db, Send(responses, c, Notice("CUSTOMER_SERVICE_DENIED")))
    BY <1>0, <1>1, <2>2, <2>3, DutyEnds
  <2>4. HasCustomer(d, c)
    <3>1. d.customers[c] \in {d.customers[c], [db.customers[c] EXCEPT !.destination = request.data]}
          /\ [db.customers[c] EXCEPT !.destination = request.data] \in CustomerRow
      BY <1>0, <2>1, CustomerRowType DEF CustomerRow
    <3>2. d.customers[c] = [db.customers[c] EXCEPT !.destination = request.data]
      BY <1>0, <2>1 DEF SetDestination, SetCustomer, Db
    <3>3. QED BY <3>1, <3>2, NoRowAssumption DEF HasCustomer
  <2>5. ASSUME NEW t \in checkAvailableTaxis,
               IF AssignThrows(d, t, c)
               THEN Abort(d, responses)
               ELSE Simple(Assign(d, t, c),
                           Send(Assigned(responses, Assign(d, t, c), t, c), c, Accepted(t)))
        PROVE  Survives
    <3>1. t \in Taxis /\ HasTaxi(db, t)
      BY DEF checkAvailableTaxis, AvailableTaxis
    <3> HIDE DEF d
    <3>2. HasTaxi(d, t) /\ HasLocation(d, LetterOf[c])
      BY <1>0, <2>2, <3>1 DEF SameStanding, Richer
    <3>3. Simple(Assign(d, t, c),
                 Send(Assigned(responses, Assign(d, t, c), t, c), c, Accepted(t)))
      BY <1>0, <2>2, <2>4, <2>5, <3>1, <3>2, AssignHolds
    <3>4. OnDuty(Assign(d, t, c), Assigned(responses, Assign(d, t, c), t, c))
      BY <1>0, <2>2, <2>4, <3>1, <3>2, DutyAssigned
    <3>5. OnDuty(Assign(d, t, c),
                 Send(Assigned(responses, Assign(d, t, c), t, c), c, Accepted(t)))
      BY <1>0, <3>1, <3>4, DutySend
    <3>6. Richer(db, Assign(d, t, c))
      BY <1>0, <2>2, <3>1, AssignRicher, RicherIsTransitive
    <3>7. QED BY <1>0, <3>3, <3>5, <3>6, DutyEnds
  <2>6. QED BY <1>4, <2>3, <2>5 DEF ServiceRequest
<1>5. QED BY <1>2, <1>3, <1>4

LEMMA ExpectedSurvives ==
    ASSUME TypeOK, Handle, Expected
    PROVE  Survives
<1>1. ~ReachWithoutService
  BY DEF ReachWithoutService, Receives, getService, Expected
<1>2. ~OrderGoTo
  BY DEF OrderGoTo, Receives, Expected, Diversions
<1>3. CASE IgnoreOtherSession
  BY <1>3, Idle DEF IgnoreOtherSession, Survives
<1>4. QED
  BY <1>1, <1>2, <1>3, RidesSurvive, ReportsSurvive, OrdersSurvive, AnswersSurvive DEF Handle

\* Whoever is accepted has a row.
LEMMA AcceptedHaveRows ==
    ASSUME TypeOK, Handle, NEW c \in joined', c \notin joined
    PROVE  c \in Customers /\ HasCustomer(db', c)
<1>1. CASE NewCustomer
  <2>1. request.id \in Customers /\ request.coord \in Points
    BY <1>1, RequestType, RequestMembers DEF NewCustomer
  <2>2. c = request.id /\ db' = InsertCustomer(db, c, request.coord)
    BY <1>1 DEF NewCustomer, Simple, Done
  <2>3. NewCustomerRow(request.coord) \in CustomerRow
    BY <2>1 DEF NewCustomerRow, CustomerRow, Countdown
  <2>4. QED BY <2>1, <2>2, <2>3, NoRowAssumption DEF InsertCustomer, HasCustomer, TypeOK, Db
<1>2. CASE ~NewCustomer
  <2>1. joined' = joined
    BY <1>2 DEF Handle, IgnoreOtherSession, TaxiJoins, TaxiMoves, CompleteRide, PickUpCustomer,
                ReachWithoutService, SetTaxiReady, UpdateWaitTime, Ping, ServiceRequest,
                UpdateNextRequest, OrderGoTo, OrderStop, OrderContinue, OrderTaxiDisconnect,
                OrderCustomerDisconnect, OrderPriority, OrderLocationMove, EndByAssigning,
                Simple, Abort
  <2>2. QED BY <2>1
<1>3. QED BY <1>1, <1>2

\* A row goes only by the order to disconnect its customer.
LEMMA RowsGoByOrder ==
    ASSUME TypeOK, Handle, NEW c \in Customers, HasCustomer(db, c), ~HasCustomer(db', c)
    PROVE  requests # <<>> /\ request.subject = "ORDER_CUSTOMER_DISCONNECT" /\ request.id = c
<1>1. \A d : HasCustomer(d, c) <=> Sitting(d)[c] # "away"
  BY DEF Sitting
<1>2. Sitting(db)[c] # "away" /\ Sitting(db')[c] = "away"
  BY <1>1
<1>3. \A b \in Customers : \A s : [Sitting(db) EXCEPT ![b] = s][c] = IF b = c THEN s ELSE Sitting(db)[c]
  BY DEF Sitting
<1>4. ~Kept(db') /\ ~\E t \in Taxis : Diverted(t)
  BY <1>2 DEF Kept, Diverted
<1>5. ASSUME NEW b \in Customers, NEW t \in Taxis, Seated(t, b) \/ Left(t, b) PROVE FALSE
  BY <1>2, <1>3, <1>5 DEF Seated, Left
<1>6. ASSUME NEW b \in Customers, Arrived(b) PROVE FALSE
  BY <1>2, <1>3, <1>6 DEF Arrived
<1>7. PICK b \in Customers : Departed(b)
  BY <1>4, <1>5, <1>6, HandlersSeat DEF SeatStep
<1>8. b = c
  BY <1>2, <1>3, <1>7 DEF Departed
<1>9. QED BY <1>7, <1>8 DEF Departed

\* Registering takes nothing away.
LEMMA RegisteringIsRicher ==
    ASSUME NEW d \in Db, NEW t \in Taxis
    PROVE  Richer(d, RegisterTaxi(d, t)) /\ RegisterTaxi(d, t).customers = d.customers
<1> DEFINE row == IF HasTaxi(d, t) THEN [d.taxis[t] EXCEPT !.connected = TRUE] ELSE NewTaxiRow
           e == [d EXCEPT !.taxis = [@ EXCEPT ![t] = row]]
<1>1. RegisterTaxi(d, t) = e
  BY DEF RegisterTaxi
<1>2. HasTaxi(d, t) => row \in TaxiRow /\ row.service = d.taxis[t].service
  BY TaxiRowType DEF TaxiRow
<1>3. HasTaxi(d, t) => row # None /\ row.service = d.taxis[t].service
  BY <1>2, NoRowAssumption
<1> HIDE DEF row
<1>4. /\ \A u \in Taxis : e.taxis[u] = IF u = t THEN row ELSE d.taxis[u]
      /\ e.locations = d.locations /\ e.customers = d.customers
  BY DEF Db
<1> HIDE DEF e
<1>5. QED BY <1>1, <1>3, <1>4 DEF Richer, ServiceOf, HasTaxi, HasLocation

-----------------------------------------------------------------------------
(* What a ride depends on: where taxis and customers are, who carries and   *)
(* serves whom, who is queued; and the handlers that leave it alone         *)

\* Nothing a ride depends on differs for t.
SameTaxi(d, e, t) ==
    /\ HasTaxi(e, t) <=> HasTaxi(d, t)
    /\ HasTaxi(d, t) =>
        /\ e.taxis[t].pos = d.taxis[t].pos
        /\ e.taxis[t].customer_id = d.taxis[t].customer_id
        /\ e.taxis[t].service = d.taxis[t].service

\* Nor for c, which is no more queued than it was.
SameCustomer(d, e, c) ==
    /\ HasCustomer(d, c) =>
        /\ HasCustomer(e, c)
        /\ e.customers[c].pos = d.customers[c].pos
        /\ e.customers[c].destination = d.customers[c].destination
    /\ c \in Queued(e) => c \in Queued(d)

Calm(d, e) ==
    /\ e.locations = d.locations
    /\ \A t \in Taxis : SameTaxi(d, e, t)
    /\ \A c \in Customers : SameCustomer(d, e, c)

LEMMA CalmItself ==
    ASSUME NEW d
    PROVE  Calm(d, d)
BY DEF Calm, SameTaxi, SameCustomer

LEMMA SetTaxiCalm ==
    ASSUME NEW d \in Db, NEW t \in Taxis, NEW row,
           HasTaxi(d, t) => /\ row \in TaxiRow
                            /\ row.pos = d.taxis[t].pos
                            /\ row.customer_id = d.taxis[t].customer_id
                            /\ row.service = d.taxis[t].service
    PROVE  Calm(d, SetTaxi(d, t, row))
<1> DEFINE e == SetTaxi(d, t, row)
<1>1. CASE HasTaxi(d, t)
  <2>1. row # None
    BY <1>1, NoRowAssumption
  <2>2. /\ \A u \in Taxis : e.taxis[u] = IF u = t THEN row ELSE d.taxis[u]
        /\ e.locations = d.locations /\ e.customers = d.customers
    BY <1>1 DEF SetTaxi, Db
  <2> HIDE DEF e
  <2>3. \A u \in Taxis : SameTaxi(d, e, u)
    BY <1>1, <2>1, <2>2 DEF SameTaxi, HasTaxi
  <2>4. \A c \in Customers : SameCustomer(d, e, c)
    BY <2>2 DEF SameCustomer, HasCustomer, Queued
  <2>5. QED BY <2>2, <2>3, <2>4 DEF Calm, e
<1>2. CASE ~HasTaxi(d, t)
  BY <1>2, CalmItself DEF SetTaxi
<1>3. QED BY <1>1, <1>2

LEMMA SetCustomerCalm ==
    ASSUME NEW d \in Db, NEW c \in Customers, NEW row,
           HasCustomer(d, c) => /\ row \in CustomerRow
                                /\ row.pos = d.customers[c].pos
                                /\ row.destination = d.customers[c].destination
                                /\ row.in_queue \in {d.customers[c].in_queue, None}
    PROVE  Calm(d, SetCustomer(d, c, row))
<1> DEFINE e == SetCustomer(d, c, row)
<1>1. CASE HasCustomer(d, c)
  <2>1. row # None
    BY <1>1, NoRowAssumption
  <2>2. /\ \A b \in Customers : e.customers[b] = IF b = c THEN row ELSE d.customers[b]
        /\ e.locations = d.locations /\ e.taxis = d.taxis
    BY <1>1 DEF SetCustomer, Db
  <2> HIDE DEF e
  <2>3. \A b \in Customers : SameCustomer(d, e, b)
    BY <1>1, <2>1, <2>2 DEF SameCustomer, HasCustomer, Queued
  <2>4. \A t \in Taxis : SameTaxi(d, e, t)
    BY <2>2 DEF SameTaxi, HasTaxi
  <2>5. QED BY <2>2, <2>3, <2>4 DEF Calm, e
<1>2. CASE ~HasCustomer(d, c)
  BY <1>2, CalmItself DEF SetCustomer
<1>3. QED BY <1>1, <1>2

LEMMA TaxiUpdatesCalm ==
    ASSUME NEW d \in Db, NEW t \in Taxis
    PROVE  /\ Calm(d, DisconnectTaxi(d, t))
           /\ \A b \in BOOLEAN : Calm(d, SetReady(d, t, b)) /\ Calm(d, SetStopped(d, t, b))
           /\ \A w \in Countdown : Calm(d, SetWaitTime(d, t, w))
<1>1. Calm(d, DisconnectTaxi(d, t))
  BY TaxiRowType, SetTaxiCalm DEF DisconnectTaxi, TaxiRow
<1>2. ASSUME NEW b \in BOOLEAN PROVE Calm(d, SetReady(d, t, b)) /\ Calm(d, SetStopped(d, t, b))
  BY TaxiRowType, SetTaxiCalm DEF SetReady, SetStopped, TaxiRow
<1>3. ASSUME NEW w \in Countdown PROVE Calm(d, SetWaitTime(d, t, w))
  BY TaxiRowType, SetTaxiCalm DEF SetWaitTime, TaxiRow
<1>4. QED BY <1>1, <1>2, <1>3

LEMMA CustomerUpdatesCalm ==
    ASSUME NEW d \in Db, NEW c \in Customers
    PROVE  /\ Calm(d, Dequeue(d, c))
           /\ \A n \in Countdown : Calm(d, SetNextRequest(d, c, n))
           /\ \A p \in Points : ~HasCustomer(d, c) => Calm(d, InsertCustomer(d, c, p))
<1>1. Calm(d, Dequeue(d, c))
  BY CustomerRowType, SetCustomerCalm DEF Dequeue, CustomerRow
<1>2. ASSUME NEW n \in Countdown PROVE Calm(d, SetNextRequest(d, c, n))
  BY CustomerRowType, SetCustomerCalm DEF SetNextRequest, CustomerRow
<1>3. ASSUME NEW p \in Points, ~HasCustomer(d, c) PROVE Calm(d, InsertCustomer(d, c, p))
  <2> DEFINE e == InsertCustomer(d, c, p)
  <2>1. /\ \A b \in Customers : e.customers[b] = IF b = c THEN NewCustomerRow(p) ELSE d.customers[b]
        /\ e.locations = d.locations /\ e.taxis = d.taxis
    BY DEF InsertCustomer, Db
  <2>2. NewCustomerRow(p).in_queue = None
    BY DEF NewCustomerRow
  <2> HIDE DEF e
  <2>3. \A b \in Customers : SameCustomer(d, e, b)
    BY <1>3, <2>1, <2>2 DEF SameCustomer, HasCustomer, Queued
  <2>4. \A t \in Taxis : SameTaxi(d, e, t)
    BY <2>1 DEF SameTaxi, HasTaxi
  <2>5. QED BY <2>1, <2>3, <2>4 DEF Calm, e
<1>4. QED BY <1>1, <1>2, <1>3

\* The words that a ride consists of, and the one that ends a customer's program.
Moving == {"TAXI_GO_TO", "CUSTOMER_SERVICE_COMPLETED", "CUSTOMER_SERVICE_DENIED",
           "CUSTOMER_DISCONNECT"}

\* r has more to read, and nothing in it moves anybody.
Hush(r) == Longer(r) /\ \A s \in Subscribers : \A n : Says(r, s, n) => n.subject \notin Moving

Calmly == Calm(db, db') /\ Hush(responses')

LEMMA HushSend ==
    ASSUME TypeOK, NEW u \in Subscribers
    PROVE  /\ Hush(responses)
           /\ \A s \in {"TAXI_STOP", "TAXI_CONTINUE", "TAXI_DISCONNECT", "CUSTOMER_PRIORITY",
                         "ACCEPT", "DENY", "CUSTOMER_ENQUEUED"} :
                  Hush(Send(responses, u, Notice(s)))
<1>1. \A s : Notice(s).subject = s
  BY DEF Notice
<1>2. Hush(responses)
  BY SaysNothing DEF Hush
<1>3. QED BY <1>1, <1>2, NoticeTypes, SaysMore DEF Hush, Moving

LEMMA CalmEnds ==
    ASSUME dbUp, NEW d, NEW answered, Simple(d, answered) \/ Done(d, answered),
           Calm(db, d), Hush(answered)
    PROVE  Calmly
BY DEF Simple, Done, Calmly

LEMMA ReportsAreCalm ==
    ASSUME TypeOK, dbUp, SetTaxiReady \/ UpdateWaitTime \/ Ping \/ UpdateNextRequest
    PROVE  Calmly
<1> DEFINE t == request.taxiId
<1>0. db \in Db /\ Calm(db, db) /\ Hush(responses)
  BY CalmItself, SaysNothing DEF TypeOK, Hush
<1>1. CASE SetTaxiReady
  <2> DEFINE d == SetReady(db, t, request.subject = "TAXI_READY")
  <2>1. t \in Taxis
    BY <1>1, RequestType, RequestMembers DEF SetTaxiReady, TaxiSignals
  <2>2. Calm(db, d) /\ Simple(d, responses)
    BY <1>0, <1>1, <2>1, TaxiUpdatesCalm DEF SetTaxiReady
  <2>3. QED BY <1>0, <2>2, CalmEnds
<1>2. CASE UpdateWaitTime
  <2>1. t \in Taxis /\ request.data \in Countdown
    BY <1>2, RequestType, RequestMembers DEF UpdateWaitTime
  <2>2. QED BY <1>0, <1>2, <2>1, TaxiUpdatesCalm, CalmEnds DEF UpdateWaitTime
<1>3. CASE UpdateNextRequest
  <2>1. request.id \in Customers /\ request.data \in Countdown
    BY <1>3, RequestType, RequestMembers DEF UpdateNextRequest
  <2>2. QED BY <1>0, <1>3, <2>1, CustomerUpdatesCalm, CalmEnds DEF UpdateNextRequest
<1>4. CASE Ping
  BY <1>0, <1>4, CalmEnds DEF Ping
<1>5. QED BY <1>1, <1>2, <1>3, <1>4

LEMMA OrdersAreCalm ==
    ASSUME TypeOK, dbUp, OrderStop \/ OrderContinue \/ OrderTaxiDisconnect
    PROVE  Calmly
<1> DEFINE t == request.taxiId
<1>0. db \in Db /\ t \in Taxis /\ t \in Subscribers
  BY RequestType, RequestMembers
  DEF TypeOK, Subscribers, OrderStop, OrderContinue, OrderTaxiDisconnect, TaxiOrders
<1>1. \A b \in BOOLEAN : Calm(db, SetStopped(db, t, b))
  BY <1>0, TaxiUpdatesCalm
<1>2. /\ Calm(db, SetStopped(db, t, TRUE)) /\ Calm(db, SetStopped(db, t, FALSE))
      /\ Calm(db, DisconnectTaxi(db, t))
  <2>1. Calm(db, SetStopped(db, t, TRUE)) /\ Calm(db, SetStopped(db, t, FALSE))
    BY <1>1, Zenon
  <2>2. QED BY <1>0, <2>1, TaxiUpdatesCalm
<1>3. /\ Hush(Send(responses, t, Notice("TAXI_STOP")))
      /\ Hush(Send(responses, t, Notice("TAXI_CONTINUE")))
      /\ Hush(Send(responses, t, Notice("TAXI_DISCONNECT")))
  BY <1>0, HushSend
<1>4. QED BY <1>2, <1>3, CalmEnds DEF OrderStop, OrderContinue, OrderTaxiDisconnect

LEMMA AnswersAreCalm ==
    ASSUME TypeOK, dbUp, NewCustomer \/ OrderPriority
    PROVE  Calmly
<1> DEFINE c == request.id
<1>0. /\ db \in Db /\ Calm(db, db) /\ Hush(responses) /\ c \in Customers /\ c \in Subscribers
  BY CalmItself, SaysNothing, RequestType, RequestMembers
  DEF TypeOK, Hush, Subscribers, NewCustomer, OrderPriority, CustomerOrders
<1>1. \A s \in {"CUSTOMER_PRIORITY", "ACCEPT", "DENY"} : Hush(Send(responses, c, Notice(s)))
  BY <1>0, HushSend
<1>2. CASE NewCustomer
  <2>1. request.coord \in Points
    BY <1>2, RequestType, RequestMembers DEF NewCustomer
  <2>2. QED BY <1>0, <1>1, <1>2, <2>1, CustomerUpdatesCalm, CalmEnds DEF NewCustomer
<1>3. CASE OrderPriority
  BY <1>0, <1>1, <1>3, CustomerUpdatesCalm, CalmEnds DEF OrderPriority
<1>4. QED BY <1>2, <1>3

\* The requests that a ride consists of; the operator's that interfere with one.
Calls == {"CUSTOMER_SERVICE_REQUEST", "TAXI_DESTINATION_REACHED"}
Interferes == {"ORDER_CUSTOMER_DISCONNECT", "ORDER_LOCATION_MOVE"}

\* Other requests but TAXI_MOVE leave rides alone: a registration, when nobody is queued.
LEMMA HandlersAreCalm ==
    ASSUME TypeOK, dbUp, Handle,
           request.subject \notin Calls \cup Interferes \cup Diversions \cup {"TAXI_MOVE"},
           request.subject \in {"NEW_TAXI", "TAXI_RECONNECTED"} => checkQueue(db) = {}
    PROVE  Calmly
<1>1. ~TaxiMoves /\ ~CompleteRide /\ ~PickUpCustomer /\ ~ReachWithoutService /\ ~ServiceRequest
  BY DEF TaxiMoves, CompleteRide, PickUpCustomer, ReachWithoutService, ServiceRequest, Receives, Calls
<1>2. ~OrderGoTo /\ ~OrderCustomerDisconnect /\ ~OrderLocationMove
  BY DEF OrderGoTo, OrderCustomerDisconnect, OrderLocationMove, Receives, Interferes, Diversions
<1>3. Calm(db, db) /\ Hush(responses)
  BY CalmItself, SaysNothing DEF Hush
<1>4. CASE IgnoreOtherSession
  BY <1>3, <1>4 DEF IgnoreOtherSession, Calmly
<1>5. CASE TaxiJoins
  <2>1. checkQueue(db) = {}
    BY <1>5 DEF TaxiJoins, Receives
  <2>2. Simple(db, responses)
    BY <1>5, <2>1 DEF TaxiJoins
  <2>3. QED BY <1>3, <2>2, CalmEnds
<1>6. QED
  BY <1>1, <1>2, <1>4, <1>5, ReportsAreCalm, OrdersAreCalm, AnswersAreCalm DEF Handle

\* What a write to one row leaves.
LEMMA TaxiWritten ==
    ASSUME NEW d \in Db, NEW t \in Taxis, HasTaxi(d, t), NEW row \in TaxiRow
    PROVE  /\ SetTaxi(d, t, row) \in Db
           /\ SetTaxi(d, t, row).locations = d.locations
           /\ SetTaxi(d, t, row).customers = d.customers
           /\ \A u \in Taxis : /\ HasTaxi(SetTaxi(d, t, row), u) <=> HasTaxi(d, u)
                               /\ SetTaxi(d, t, row).taxis[u] = IF u = t THEN row ELSE d.taxis[u]
<1>1. SetTaxi(d, t, row) \in Db
  BY SetTaxiType
<1>2. SetTaxi(d, t, row) = [d EXCEPT !.taxis = [@ EXCEPT ![t] = row]]
  BY DEF SetTaxi
<1>3. \A u \in Taxis : SetTaxi(d, t, row).taxis[u] = IF u = t THEN row ELSE d.taxis[u]
  BY <1>2 DEF Db
<1>4. \A u \in Taxis : HasTaxi(SetTaxi(d, t, row), u) <=> HasTaxi(d, u)
  BY <1>3, NoRowAssumption DEF HasTaxi
<1>5. QED BY <1>1, <1>2, <1>3, <1>4 DEF Db

LEMMA CustomerWritten ==
    ASSUME NEW d \in Db, NEW c \in Customers, HasCustomer(d, c), NEW row \in CustomerRow
    PROVE  /\ SetCustomer(d, c, row) \in Db
           /\ SetCustomer(d, c, row).locations = d.locations
           /\ SetCustomer(d, c, row).taxis = d.taxis
           /\ \A b \in Customers :
                /\ HasCustomer(SetCustomer(d, c, row), b) <=> HasCustomer(d, b)
                /\ SetCustomer(d, c, row).customers[b] = IF b = c THEN row ELSE d.customers[b]
<1>1. SetCustomer(d, c, row) \in Db
  BY SetCustomerType
<1>2. SetCustomer(d, c, row) = [d EXCEPT !.customers = [@ EXCEPT ![c] = row]]
  BY DEF SetCustomer
<1>3. \A b \in Customers : SetCustomer(d, c, row).customers[b] = IF b = c THEN row ELSE d.customers[b]
  BY <1>2 DEF Db
<1>4. \A b \in Customers : HasCustomer(SetCustomer(d, c, row), b) <=> HasCustomer(d, b)
  BY <1>3, NoRowAssumption DEF HasCustomer
<1>5. QED BY <1>1, <1>2, <1>3, <1>4 DEF Db

\* t has come to p with whom it carried, and now carries `seat`; the rest is as it was.
Lands(d, e, t, p, seat) ==
    /\ e.locations = d.locations
    /\ \A u \in Taxis :
        /\ HasTaxi(e, u) <=> HasTaxi(d, u)
        /\ CarriedBy(e, u) = IF u = t THEN seat ELSE CarriedBy(d, u)
        /\ ServiceOf(e, u) = ServiceOf(d, u)
        /\ HasTaxi(d, u) => e.taxis[u].pos = IF u = t THEN p ELSE d.taxis[u].pos
    /\ \A b \in Customers :
        /\ HasCustomer(e, b) <=> HasCustomer(d, b)
        /\ HasCustomer(d, b) =>
            /\ e.customers[b].pos = IF b = CarriedBy(d, t) THEN p ELSE d.customers[b].pos
            /\ e.customers[b].destination = d.customers[b].destination
            /\ e.customers[b].in_queue = d.customers[b].in_queue

LEMMA MovedLands ==
    ASSUME TypeOK, dbUp, NEW t \in Taxis, NEW p \in Points, HasTaxi(db, t),
           request.taxiId = t, request.coord = p
    PROVE  Moved \in Db /\ Lands(db, Moved, t, p, CarriedBy(db, t))
<1> DEFINE row == [db.taxis[t] EXCEPT !.pos = p]
           e == MoveTaxi(db, t, p)
           c == CarriedBy(db, t)
<1>0. db \in Db /\ db.taxis[t] \in TaxiRow /\ c \in Customers \cup {None} /\ c = carryingClient(t)
  BY TaxiRowType, QueryTypes DEF TypeOK, carryingClient
<1>1. /\ row \in TaxiRow /\ row.pos = p /\ row.customer_id = db.taxis[t].customer_id
      /\ row.service = db.taxis[t].service
  BY <1>0 DEF TaxiRow
<1>2. /\ e \in Db /\ e.locations = db.locations /\ e.customers = db.customers
      /\ \A u \in Taxis : /\ HasTaxi(e, u) <=> HasTaxi(db, u)
                          /\ e.taxis[u] = IF u = t THEN row ELSE db.taxis[u]
  BY <1>0, <1>1, TaxiWritten DEF MoveTaxi
<1>3. Moved = IF c = None THEN e ELSE MoveCustomer(e, c, p)
  BY <1>0 DEF Moved
<1>4. Moved \in Db
  BY <1>0, MovedType DEF TypeOK
<1> HIDE DEF row, e, c
<1>5. \A u \in Taxis :
        /\ CarriedBy(e, u) = CarriedBy(db, u) /\ ServiceOf(e, u) = ServiceOf(db, u)
        /\ HasTaxi(db, u) => e.taxis[u].pos = IF u = t THEN p ELSE db.taxis[u].pos
  BY <1>1, <1>2 DEF CarriedBy, ServiceOf
<1>6. CASE c # None /\ HasCustomer(db, c)
  <2> DEFINE line == [e.customers[c] EXCEPT !.pos = p]
  <2>1. HasCustomer(e, c) /\ c \in Customers /\ e.customers[c] \in CustomerRow
    BY <1>0, <1>2, <1>6, CustomerRowType DEF HasCustomer
  <2>2. /\ line \in CustomerRow /\ line.pos = p
        /\ line.destination = db.customers[c].destination
        /\ line.in_queue = db.customers[c].in_queue
    BY <1>2, <2>1 DEF CustomerRow
  <2>3. Moved = SetCustomer(e, c, line)
    BY <1>3, <1>6 DEF MoveCustomer
  <2> HIDE DEF line
  <2>4. /\ Moved.locations = e.locations /\ Moved.taxis = e.taxis
        /\ \A b \in Customers : /\ HasCustomer(Moved, b) <=> HasCustomer(e, b)
                                /\ Moved.customers[b] = IF b = c THEN line ELSE e.customers[b]
    BY <1>2, <2>1, <2>2, <2>3, CustomerWritten
  <2>5. \A b \in Customers :
            /\ HasCustomer(Moved, b) <=> HasCustomer(db, b)
            /\ HasCustomer(db, b) =>
                /\ Moved.customers[b].pos = IF b = c THEN p ELSE db.customers[b].pos
                /\ Moved.customers[b].destination = db.customers[b].destination
                /\ Moved.customers[b].in_queue = db.customers[b].in_queue
    BY <1>2, <2>2, <2>4 DEF HasCustomer
  <2>6. \A u \in Taxis : /\ HasTaxi(Moved, u) <=> HasTaxi(e, u)
                         /\ CarriedBy(Moved, u) = CarriedBy(e, u)
                         /\ ServiceOf(Moved, u) = ServiceOf(e, u)
                         /\ Moved.taxis[u] = e.taxis[u]
    BY <2>4 DEF HasTaxi, CarriedBy, ServiceOf
  <2>7. QED BY <1>2, <1>4, <1>5, <2>4, <2>5, <2>6 DEF Lands, c
<1>7. CASE ~(c # None /\ HasCustomer(db, c))
  <2>1. Moved = e
    BY <1>2, <1>3, <1>7 DEF MoveCustomer, SetCustomer, HasCustomer
  <2>2. \A b \in Customers : HasCustomer(e, b) <=> HasCustomer(db, b)
    BY <1>2 DEF HasCustomer
  <2>3. \A b \in Customers : HasCustomer(db, b) => b # c
    BY <1>7, NoneAssumption
  <2>4. QED BY <1>2, <1>4, <1>5, <2>1, <2>2, <2>3 DEF Lands, c
<1>8. QED BY <1>6, <1>7

LEMMA SeatChanges ==
    ASSUME NEW d \in Db, NEW e \in Db, NEW t \in Taxis, NEW p, NEW seat, Lands(d, e, t, p, seat),
           NEW c \in Customers, NEW val \in BOOLEAN, HasTaxi(e, t), HasCustomer(e, c)
    PROVE  Lands(d, SetOnboard(e, c, t, val), t, p, IF val THEN c ELSE None)
<1> DEFINE line == [e.customers[c] EXCEPT !.onboard = val]
           f == SetCustomer(e, c, line)
           row == [f.taxis[t] EXCEPT !.customer_id = IF val THEN c ELSE None]
           g == SetTaxi(f, t, row)
<1>1. SetOnboard(e, c, t, val) = g
  BY DEF SetOnboard
<1>2. e.customers[c] \in CustomerRow
  BY CustomerRowType
<1>3. /\ line \in CustomerRow /\ line.pos = e.customers[c].pos
      /\ line.destination = e.customers[c].destination /\ line.in_queue = e.customers[c].in_queue
  BY <1>2 DEF CustomerRow
<1> HIDE DEF line
<1>4. /\ f \in Db /\ f.locations = e.locations /\ f.taxis = e.taxis
      /\ \A b \in Customers : /\ HasCustomer(f, b) <=> HasCustomer(e, b)
                              /\ f.customers[b] = IF b = c THEN line ELSE e.customers[b]
  BY <1>3, CustomerWritten
<1> HIDE DEF f
<1>5. HasTaxi(f, t) /\ f.taxis[t] \in TaxiRow
  BY <1>4, TaxiRowType DEF HasTaxi
<1>6. /\ row \in TaxiRow /\ row.customer_id = IF val THEN c ELSE None
      /\ row.pos = e.taxis[t].pos /\ row.service = e.taxis[t].service
  BY <1>4, <1>5 DEF TaxiRow
<1> HIDE DEF row
<1>7. /\ g.locations = f.locations /\ g.customers = f.customers
      /\ \A u \in Taxis : /\ HasTaxi(g, u) <=> HasTaxi(f, u)
                          /\ g.taxis[u] = IF u = t THEN row ELSE f.taxis[u]
  BY <1>4, <1>5, <1>6, TaxiWritten
<1> HIDE DEF g
<1>8. \A b \in Customers : /\ HasCustomer(g, b) <=> HasCustomer(e, b)
                           /\ g.customers[b].pos = e.customers[b].pos
                           /\ g.customers[b].destination = e.customers[b].destination
                           /\ g.customers[b].in_queue = e.customers[b].in_queue
  BY <1>3, <1>4, <1>7 DEF HasCustomer
<1>9. \A u \in Taxis : /\ HasTaxi(g, u) <=> HasTaxi(e, u)
                       /\ CarriedBy(g, u) = IF u = t THEN (IF val THEN c ELSE None) ELSE CarriedBy(e, u)
                       /\ ServiceOf(g, u) = ServiceOf(e, u)
                       /\ g.taxis[u].pos = e.taxis[u].pos
  BY <1>4, <1>5, <1>6, <1>7 DEF HasTaxi, CarriedBy, ServiceOf
<1>10. Lands(d, g, t, p, IF val THEN c ELSE None)
  BY <1>4, <1>7, <1>8, <1>9 DEF Lands
<1>11. QED BY <1>1, <1>10

\* Which handlers a message of a ride goes to.
LEMMA WhoHandles ==
    ASSUME Handle, Authentic(request)
    PROVE  /\ request.subject = "TAXI_MOVE" => TaxiMoves
           /\ request.subject = "TAXI_DESTINATION_REACHED" =>
                CompleteRide \/ PickUpCustomer \/ ReachWithoutService
           /\ request.subject = "CUSTOMER_SERVICE_REQUEST" => ServiceRequest
BY DEF Handle, IgnoreOtherSession, Receives, TaxiJoins, TaxiMoves, CompleteRide, PickUpCustomer,
       ReachWithoutService, SetTaxiReady, UpdateWaitTime, Ping, NewCustomer, ServiceRequest,
       UpdateNextRequest, OrderGoTo, OrderStop, OrderContinue, OrderTaxiDisconnect,
       OrderCustomerDisconnect, OrderPriority, OrderLocationMove

LEMMA TaxiMoveLands ==
    ASSUME TypeOK, dbUp, Handle, Authentic(request), request.subject = "TAXI_MOVE",
           HasTaxi(db, request.taxiId)
    PROVE  /\ Lands(db, db', request.taxiId, request.coord, CarriedBy(db, request.taxiId))
           /\ responses' = responses
<1>1. TaxiMoves
  BY WhoHandles
<1>2. request.taxiId \in Taxis /\ request.coord \in Points
  BY <1>1, RequestType, RequestMembers DEF TaxiMoves, TaxiArrivals
<1>3. db' = Moved /\ responses' = responses
  BY <1>1 DEF TaxiMoves, Simple, Done
<1>4. QED BY <1>2, <1>3, MovedLands

\* A taxi that carries c reaches its destination while nobody is queued: c gets off there.
LEMMA RideEnds ==
    ASSUME TypeOK, dbUp, Handle, Authentic(request), request.subject = "TAXI_DESTINATION_REACHED",
           NEW t, t = request.taxiId, HasTaxi(db, t), NEW c \in Customers, CarriedBy(db, t) = c,
           HasCustomer(db, c), Queued(db) = {}
    PROVE  /\ Lands(db, db', t, request.coord, None)
           /\ responses' = Send(responses, c, Notice("CUSTOMER_SERVICE_COMPLETED"))
<1> DEFINE d == SetOnboard(Moved, c, t, FALSE)
           answered == Send(responses, c, Notice("CUSTOMER_SERVICE_COMPLETED"))
<1>0. c # None
  BY NoneAssumption
<1>1. CompleteRide
  BY <1>0, WhoHandles DEF PickUpCustomer, ReachWithoutService, carryingClient
<1>2. t \in Taxis /\ request.coord \in Points
  BY <1>1, RequestType, RequestMembers DEF CompleteRide, TaxiArrivals
<1>3. db \in Db /\ Moved \in Db /\ Lands(db, Moved, t, request.coord, CarriedBy(db, t))
  BY <1>2, MovedLands DEF TypeOK
<1>4. HasTaxi(Moved, t) /\ HasCustomer(Moved, c)
  BY <1>2, <1>3 DEF Lands
<1>5. Lands(db, d, t, request.coord, None)
  BY <1>2, <1>3, <1>4, SeatChanges
<1>6. Simple(d, answered) \/ \E q \in checkQueue(d) : EndByAssigning(d, answered, t, q)
  BY <1>1 DEF CompleteRide, carryingClient
<1> HIDE DEF d, answered
<1>7. checkQueue(d) = {}
  <2>1. \A b \in Customers : HasCustomer(d, b) =>
            HasCustomer(db, b) /\ d.customers[b].in_queue = db.customers[b].in_queue
    BY <1>5 DEF Lands
  <2>2. \A b \in Customers : ~(HasCustomer(db, b) /\ db.customers[b].in_queue # None)
    BY DEF Queued
  <2>3. QED BY <2>1, <2>2 DEF checkQueue, FirstInQueue, Queued
<1>8. db' = d /\ responses' = answered
  BY <1>6, <1>7 DEF Simple, Done
<1>9. QED BY <1>5, <1>8 DEF answered

\* An empty taxi reaches the customer that it serves: the customer boards, and the taxi is told
\* where to go with it.
LEMMA RideBegins ==
    ASSUME TypeOK, dbUp, Handle, Authentic(request), request.subject = "TAXI_DESTINATION_REACHED",
           NEW t, t = request.taxiId, HasTaxi(db, t), CarriedBy(db, t) = None,
           NEW c \in Customers, ServiceOf(db, t) = c, HasCustomer(db, c), DestinationOf(db, c) # None
    PROVE  /\ Lands(db, db', t, request.coord, c)
           /\ responses' = Send(Send(responses, c, Notice("CUSTOMER_PICKED_UP")),
                                t, GoTo(DestinationOf(db, c)))
<1> DEFINE d == SetOnboard(Moved, c, t, TRUE)
<1>0. c # None
  BY NoneAssumption
<1>1. PickUpCustomer
  BY <1>0, WhoHandles DEF CompleteRide, ReachWithoutService, carryingClient, getService
<1>2. t \in Taxis /\ request.coord \in Points
  BY <1>1, RequestType, RequestMembers DEF PickUpCustomer, TaxiArrivals
<1>3. db \in Db /\ Moved \in Db /\ Lands(db, Moved, t, request.coord, CarriedBy(db, t))
  BY <1>2, MovedLands DEF TypeOK
<1>4. HasTaxi(Moved, t) /\ HasCustomer(Moved, c)
  BY <1>2, <1>3 DEF Lands
<1>5. Lands(db, d, t, request.coord, c)
  BY <1>2, <1>3, <1>4, SeatChanges
<1>6. /\ db' = d
      /\ responses' = Send(Send(responses, c, Notice("CUSTOMER_PICKED_UP")),
                           t, GoTo(DestinationOf(db, c)))
  BY <1>1 DEF PickUpCustomer, getService, Simple, Done
<1>7. QED BY <1>5, <1>6

\* t serves c, which is bound for l; the rest is as it was.
Serves(d, e, t, c, l) ==
    /\ e.locations = d.locations
    /\ \A u \in Taxis :
        /\ HasTaxi(e, u) <=> HasTaxi(d, u)
        /\ CarriedBy(e, u) = CarriedBy(d, u)
        /\ ServiceOf(e, u) = IF u = t THEN c ELSE ServiceOf(d, u)
        /\ HasTaxi(d, u) => e.taxis[u].pos = d.taxis[u].pos
    /\ \A b \in Customers :
        /\ HasCustomer(e, b) <=> HasCustomer(d, b)
        /\ HasCustomer(d, b) =>
            /\ e.customers[b].pos = d.customers[b].pos
            /\ e.customers[b].destination = IF b = c THEN l ELSE d.customers[b].destination
            /\ e.customers[b].in_queue = d.customers[b].in_queue

LEMMA DestinationStored ==
    ASSUME NEW d \in Db, NEW c \in Customers, HasCustomer(d, c), NEW l \in Services
    PROVE  /\ SetDestination(d, c, l) \in Db
           /\ SetDestination(d, c, l).taxis = d.taxis
           /\ SetDestination(d, c, l).locations = d.locations
           /\ \A b \in Customers :
                /\ HasCustomer(SetDestination(d, c, l), b) <=> HasCustomer(d, b)
                /\ HasCustomer(d, b) =>
                    /\ SetDestination(d, c, l).customers[b].pos = d.customers[b].pos
                    /\ SetDestination(d, c, l).customers[b].in_queue = d.customers[b].in_queue
                    /\ SetDestination(d, c, l).customers[b].destination =
                            IF b = c THEN l ELSE d.customers[b].destination
<1> DEFINE row == [d.customers[c] EXCEPT !.destination = l]
           e == SetCustomer(d, c, row)
<1>1. d.customers[c] \in CustomerRow
  BY CustomerRowType
<1>2. /\ row \in CustomerRow /\ row.pos = d.customers[c].pos /\ row.destination = l
      /\ row.in_queue = d.customers[c].in_queue
  BY <1>1 DEF CustomerRow
<1>3. SetDestination(d, c, l) = e
  BY DEF SetDestination
<1> HIDE DEF row
<1>4. /\ e \in Db /\ e.locations = d.locations /\ e.taxis = d.taxis
      /\ \A b \in Customers : /\ HasCustomer(e, b) <=> HasCustomer(d, b)
                              /\ e.customers[b] = IF b = c THEN row ELSE d.customers[b]
  BY <1>2, CustomerWritten
<1> HIDE DEF e
<1>5. QED BY <1>2, <1>3, <1>4

LEMMA AssignServes ==
    ASSUME NEW d \in Db, NEW t \in Taxis, NEW c \in Customers, HasTaxi(d, t), HasCustomer(d, c)
    PROVE  /\ Assign(d, t, c).locations = d.locations
           /\ Assign(d, t, c).customers = d.customers
           /\ Assign(d, t, c).taxis[t].dest = d.customers[c].pos
           /\ \A u \in Taxis :
                /\ HasTaxi(Assign(d, t, c), u) <=> HasTaxi(d, u)
                /\ CarriedBy(Assign(d, t, c), u) = CarriedBy(d, u)
                /\ ServiceOf(Assign(d, t, c), u) = IF u = t THEN c ELSE ServiceOf(d, u)
                /\ HasTaxi(d, u) => Assign(d, t, c).taxis[u].pos = d.taxis[u].pos
<1> DEFINE row == [d.taxis[t] EXCEPT !.dest = d.customers[c].pos, !.service = c]
           e == SetTaxi(d, t, row)
<1>1. d.taxis[t] \in TaxiRow /\ d.customers[c].pos \in Points
  BY TaxiRowType, CustomerRowType DEF CustomerRow
<1>2. /\ row \in TaxiRow /\ row.pos = d.taxis[t].pos /\ row.dest = d.customers[c].pos
      /\ row.service = c /\ row.customer_id = d.taxis[t].customer_id
  BY <1>1 DEF TaxiRow
<1>3. Assign(d, t, c) = e
  BY DEF Assign
<1> HIDE DEF row
<1>4. /\ e.locations = d.locations /\ e.customers = d.customers
      /\ \A u \in Taxis : /\ HasTaxi(e, u) <=> HasTaxi(d, u)
                          /\ e.taxis[u] = IF u = t THEN row ELSE d.taxis[u]
  BY <1>2, TaxiWritten
<1> HIDE DEF e
<1>5. QED BY <1>2, <1>3, <1>4 DEF CarriedBy, ServiceOf

\* A customer asks: it is queued, or told that its place does not exist, or a taxi is sent to it.
LEMMA RideAsked ==
    ASSUME TypeOK, dbUp, Handle, Authentic(request), request.subject = "CUSTOMER_SERVICE_REQUEST",
           NEW c, c = request.id, HasCustomer(db, c), HasLocation(db, LetterOf[c])
    PROVE  \/ /\ db' = Enqueue(db, c, now)
              /\ responses' = Send(responses, c, Notice("CUSTOMER_ENQUEUED"))
           \/ /\ db' = db
              /\ responses' = Send(responses, c, Notice("CUSTOMER_SERVICE_DENIED"))
           \/ /\ HasLocation(db, request.data)
              /\ \E t \in Taxis :
                    /\ HasTaxi(db, t)
                    /\ Serves(db, db', t, c, request.data)
                    /\ responses' = Send(Send(Send(responses, t, GoTo(db.customers[c].pos)),
                                              c, Accepted(t)), c, Accepted(t))
<1> DEFINE l == request.data
           d == SetDestination(db, c, l)
<1>1. ServiceRequest
  BY WhoHandles
<1>2. c \in Customers /\ l \in Services /\ db \in Db
  BY <1>1, RequestType, RequestMembers DEF ServiceRequest, TypeOK
<1>3. /\ d \in Db /\ d.taxis = db.taxis /\ d.locations = db.locations
      /\ \A b \in Customers :
            /\ HasCustomer(d, b) <=> HasCustomer(db, b)
            /\ HasCustomer(db, b) =>
                /\ d.customers[b].pos = db.customers[b].pos
                /\ d.customers[b].in_queue = db.customers[b].in_queue
                /\ d.customers[b].destination = IF b = c THEN l ELSE db.customers[b].destination
  BY <1>2, DestinationStored
<1>4. ASSUME NEW t \in checkAvailableTaxis, ~SetDestinationFails(db, c, l),
             IF AssignThrows(d, t, c)
             THEN Abort(d, responses)
             ELSE Simple(Assign(d, t, c),
                         Send(Assigned(responses, Assign(d, t, c), t, c), c, Accepted(t)))
      PROVE  /\ HasLocation(db, l) /\ t \in Taxis /\ HasTaxi(db, t)
             /\ Serves(db, db', t, c, l)
             /\ responses' = Send(Send(Send(responses, t, GoTo(db.customers[c].pos)),
                                       c, Accepted(t)), c, Accepted(t))
  <2> DEFINE e == Assign(d, t, c)
  <2>1. t \in Taxis /\ HasTaxi(db, t) /\ HasLocation(db, l)
    BY <1>4 DEF checkAvailableTaxis, AvailableTaxis, SetDestinationFails
  <2>2. /\ HasTaxi(d, t) /\ HasCustomer(d, c) /\ HasLocation(d, LetterOf[c])
        /\ \A u \in Taxis : /\ HasTaxi(d, u) <=> HasTaxi(db, u)
                            /\ CarriedBy(d, u) = CarriedBy(db, u)
                            /\ ServiceOf(d, u) = ServiceOf(db, u)
    BY <1>2, <1>3, <2>1 DEF HasTaxi, HasLocation, CarriedBy, ServiceOf
  <2> HIDE DEF d
  <2>3. db' = e /\ responses' = Send(Assigned(responses, e, t, c), c, Accepted(t))
    BY <1>2, <1>3, <1>4, <2>1, <2>2, AssignHolds DEF Simple, Done
  <2>4. /\ e.locations = d.locations /\ e.customers = d.customers
        /\ e.taxis[t].dest = d.customers[c].pos
        /\ \A u \in Taxis :
                /\ HasTaxi(e, u) <=> HasTaxi(d, u)
                /\ CarriedBy(e, u) = CarriedBy(d, u)
                /\ ServiceOf(e, u) = IF u = t THEN c ELSE ServiceOf(d, u)
                /\ HasTaxi(d, u) => e.taxis[u].pos = d.taxis[u].pos
    BY <1>2, <1>3, <2>1, <2>2, AssignServes
  <2> HIDE DEF e
  <2>5. \A b \in Customers : HasCustomer(e, b) <=> HasCustomer(d, b)
    BY <2>4 DEF HasCustomer
  <2>6. Serves(db, e, t, c, l)
    BY <1>2, <1>3, <2>2, <2>4, <2>5 DEF Serves
  <2>7. e.taxis[t].dest = db.customers[c].pos
    BY <1>2, <1>3, <2>4
  <2>8. QED BY <2>1, <2>3, <2>6, <2>7 DEF Assigned
<1>5. \/ checkAvailableTaxis = {}
         /\ Simple(Enqueue(db, c, now), Send(responses, c, Notice("CUSTOMER_ENQUEUED")))
      \/ Simple(db, Send(responses, c, Notice("CUSTOMER_SERVICE_DENIED")))
      \/ /\ ~SetDestinationFails(db, c, l)
         /\ \E t \in checkAvailableTaxis :
                IF AssignThrows(d, t, c)
                THEN Abort(d, responses)
                ELSE Simple(Assign(d, t, c),
                            Send(Assigned(responses, Assign(d, t, c), t, c), c, Accepted(t)))
  BY <1>1 DEF ServiceRequest
<1> HIDE DEF d, l
<1>6. CASE Simple(Enqueue(db, c, now), Send(responses, c, Notice("CUSTOMER_ENQUEUED")))
  BY <1>6 DEF Simple, Done
<1>7. CASE Simple(db, Send(responses, c, Notice("CUSTOMER_SERVICE_DENIED")))
  BY <1>7 DEF Simple, Done
<1>8. CASE /\ ~SetDestinationFails(db, c, l)
           /\ \E t \in checkAvailableTaxis :
                IF AssignThrows(d, t, c)
                THEN Abort(d, responses)
                ELSE Simple(Assign(d, t, c),
                            Send(Assigned(responses, Assign(d, t, c), t, c), c, Accepted(t)))
  BY <1>4, <1>8 DEF l
<1>9. QED BY <1>5, <1>6, <1>7, <1>8

LEMMA EnqueueStores ==
    ASSUME NEW d \in Db, NEW c \in Customers, HasCustomer(d, c), NEW n \in 0..MaxNow
    PROVE  /\ Enqueue(d, c, n).taxis = d.taxis
           /\ Enqueue(d, c, n).locations = d.locations
           /\ \A b \in Customers : HasCustomer(d, b) =>
                /\ HasCustomer(Enqueue(d, c, n), b)
                /\ Enqueue(d, c, n).customers[b].pos = d.customers[b].pos
                /\ Enqueue(d, c, n).customers[b].destination = d.customers[b].destination
<1> DEFINE row == [d.customers[c] EXCEPT !.in_queue = n]
           e == SetCustomer(d, c, row)
<1>1. d.customers[c] \in CustomerRow
  BY CustomerRowType
<1>2. /\ row \in CustomerRow /\ row.pos = d.customers[c].pos
      /\ row.destination = d.customers[c].destination
  BY <1>1 DEF CustomerRow
<1>3. Enqueue(d, c, n) = e
  BY DEF Enqueue
<1> HIDE DEF row
<1>4. /\ e.locations = d.locations /\ e.taxis = d.taxis
      /\ \A b \in Customers : /\ HasCustomer(e, b) <=> HasCustomer(d, b)
                              /\ e.customers[b] = IF b = c THEN row ELSE d.customers[b]
  BY <1>2, CustomerWritten
<1> HIDE DEF e
<1>5. QED BY <1>2, <1>3, <1>4

=============================================================================

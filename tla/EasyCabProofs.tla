--------------------------- MODULE EasyCabProofs ----------------------------
(***************************************************************************)
(* What holds of the whole system, for any number of taxis and customers,  *)
(* any services, orders and map.  The central of EasyCab is the one that   *)
(* KafkaServerProofs is about, so what is proved there is used here.       *)
(***************************************************************************)
EXTENDS EasyCab, TLAPS

\* The central, with what is proved of it.
P == INSTANCE KafkaServerProofs WITH Inputs <- Request, DbMayFail <- FALSE, Patient <- FALSE,
                                       Resumed <- {}

\* The torus, with what is proved of it.
G == INSTANCE TripProofs WITH Destinations <- {}, pos <- ordered, dest <- ordered

-----------------------------------------------------------------------------
(* The assumptions of the central are those of the system                  *)

LEMMA CentralAssumptions ==
    /\ P!BaseAssumption /\ P!NoneAssumption /\ P!ClientsAssumption /\ P!SessionsAssumption
    /\ P!LetterAssumption /\ P!MaxNowAssumption /\ P!NoRowAssumption /\ P!LocationsAssumption
    /\ P!InputsAssumption /\ P!FlagsAssumption /\ P!ResumedAssumption
<1>1. P!BaseAssumption
  BY BaseAssumption DEF P!BaseAssumption
<1>2. P!NoneAssumption
  BY NoneAssumption DEF P!NoneAssumption
<1>3. P!ClientsAssumption
  BY ClientsAssumption DEF P!ClientsAssumption
<1>4. P!SessionsAssumption
  BY SessionsAssumption DEF P!SessionsAssumption
<1>5. P!LetterAssumption
  BY LetterAssumption DEF P!LetterAssumption
<1>6. P!MaxNowAssumption
  BY MaxNowAssumption DEF P!MaxNowAssumption
<1>7. P!NoRowAssumption
  BY NoRowAssumption
  DEF P!NoRowAssumption, P!TaxiRow, P!CustomerRow, P!Countdown, TaxiRow, CustomerRow, Countdown
<1>8. P!LocationsAssumption
  BY LocationsAssumption DEF P!LocationsAssumption
<1>9. P!InputsAssumption
  BY DEF P!InputsAssumption, P!Request, P!TaxiSignals, P!TaxiArrivals, P!TaxiOrders,
         P!CustomerOrders,
         P!Countdown, Request, TaxiSignals, TaxiArrivals, TaxiOrders, CustomerOrders, Countdown
<1>10. P!FlagsAssumption
  BY DEF P!FlagsAssumption
<1>11. P!ResumedAssumption
  BY DEF P!ResumedAssumption
<1>12. QED BY <1>1, <1>2, <1>3, <1>4, <1>5, <1>6, <1>7, <1>8, <1>9, <1>10, <1>11

-----------------------------------------------------------------------------
(* Central and P are the same module: operator by operator, they say the   *)
(* same.                                                                   *)

LEMMA SameRows ==
    /\ \A d, t : (P!HasTaxi(d, t) <=> Central!HasTaxi(d, t))
    /\ \A d, t : P!CarriedBy(d, t) = Central!CarriedBy(d, t)
    /\ \A d, t : P!ServiceOf(d, t) = Central!ServiceOf(d, t)
    /\ \A d, t : P!DisconnectTaxi(d, t) = Central!DisconnectTaxi(d, t)
    /\ \A d, t, b : P!SetReady(d, t, b) = Central!SetReady(d, t, b)
    /\ \A d, t, b : P!SetStopped(d, t, b) = Central!SetStopped(d, t, b)
    /\ \A d, t, w : P!SetWaitTime(d, t, w) = Central!SetWaitTime(d, t, w)
    /\ \A d, t, p : P!MoveTaxi(d, t, p) = Central!MoveTaxi(d, t, p)
    /\ \A d, t, p : P!SendTaxi(d, t, p) = Central!SendTaxi(d, t, p)
    /\ \A d, t : P!RegisterTaxi(d, t) = Central!RegisterTaxi(d, t)
BY DEF P!HasTaxi, Central!HasTaxi, P!CarriedBy, Central!CarriedBy, P!ServiceOf, Central!ServiceOf,
       P!DisconnectTaxi, Central!DisconnectTaxi, P!SetReady, Central!SetReady, P!SetStopped,
       Central!SetStopped, P!SetWaitTime, Central!SetWaitTime, P!MoveTaxi, Central!MoveTaxi,
       P!SendTaxi, Central!SendTaxi, P!SetTaxi, Central!SetTaxi, P!RegisterTaxi,
       Central!RegisterTaxi, P!NewTaxiRow, Central!NewTaxiRow

LEMMA SameCustomerRows ==
    /\ \A d, c : (P!HasCustomer(d, c) <=> Central!HasCustomer(d, c))
    /\ \A d, c, p : P!InsertCustomer(d, c, p) = Central!InsertCustomer(d, c, p)
    /\ \A d, c : P!DeleteCustomer(d, c) = Central!DeleteCustomer(d, c)
    /\ \A d, c, p : P!MoveCustomer(d, c, p) = Central!MoveCustomer(d, c, p)
    /\ \A d, c, n : P!SetNextRequest(d, c, n) = Central!SetNextRequest(d, c, n)
    /\ \A d, c, n : P!Enqueue(d, c, n) = Central!Enqueue(d, c, n)
    /\ \A d, c : P!Dequeue(d, c) = Central!Dequeue(d, c)
    /\ \A d, c, l : P!SetDestination(d, c, l) = Central!SetDestination(d, c, l)
    /\ \A d, c : P!DestinationOf(d, c) = Central!DestinationOf(d, c)
    /\ \A d, l, p : P!MoveLocation(d, l, p) = Central!MoveLocation(d, l, p)
    /\ \A d, c, l : (P!SetDestinationFails(d, c, l) <=> Central!SetDestinationFails(d, c, l))
BY DEF P!HasTaxi, Central!HasTaxi, P!HasCustomer, Central!HasCustomer, P!InsertCustomer,
       Central!InsertCustomer, P!NewCustomerRow, Central!NewCustomerRow, P!DeleteCustomer,
       Central!DeleteCustomer, P!MoveCustomer, Central!MoveCustomer, P!SetNextRequest,
       Central!SetNextRequest, P!Enqueue, Central!Enqueue, P!Dequeue, Central!Dequeue,
       P!SetDestination, Central!SetDestination, P!SetCustomer, Central!SetCustomer,
       P!DestinationOf, Central!DestinationOf, P!MoveLocation, Central!MoveLocation,
       P!HasLocation, Central!HasLocation, P!SetDestinationFails, Central!SetDestinationFails

LEMMA SameJoins ==
    /\ \A d, c, t, v : P!SetOnboard(d, c, t, v) = Central!SetOnboard(d, c, t, v)
    /\ \A d, t, c : P!Assign(d, t, c) = Central!Assign(d, t, c)
    /\ \A d, t, c : (P!AssignThrows(d, t, c) <=> Central!AssignThrows(d, t, c))
    /\ \A d : P!FirstInQueue(d) = Central!FirstInQueue(d)
    /\ \A d : P!AvailableTaxis(d) = Central!AvailableTaxis(d)
    /\ \A d : P!View(d) = Central!View(d)
BY DEF P!HasTaxi, Central!HasTaxi, P!HasCustomer, Central!HasCustomer, P!HasLocation,
       Central!HasLocation, P!SetCustomer, Central!SetCustomer, P!SetTaxi, Central!SetTaxi,
       P!SetOnboard, Central!SetOnboard, P!Assign, Central!Assign, P!AssignThrows,
       Central!AssignThrows, P!FirstInQueue, Central!FirstInQueue, P!Queued, Central!Queued,
       P!AvailableTaxis, Central!AvailableTaxis, P!View, Central!View

LEMMA SameWords ==
    /\ \A r, s, m : P!Send(r, s, m) = Central!Send(r, s, m)
    /\ \A p : P!GoTo(p) = Central!GoTo(p)
    /\ \A t : P!Accepted(t) = Central!Accepted(t)
    /\ \A s : P!Notice(s) = Central!Notice(s)
    /\ P!Request = Central!Request
    /\ P!Subscribers = Central!Subscribers
    /\ P!Registration = Central!Registration
BY DEF P!Send, Central!Send, P!GoTo, Central!GoTo, P!Accepted, Central!Accepted, P!Notice,
       Central!Notice, P!Request, Central!Request, P!Subscribers, Central!Subscribers,
       P!Registration, Central!Registration, P!TaxiSignals, Central!TaxiSignals, P!TaxiArrivals,
       Central!TaxiArrivals, P!TaxiOrders, Central!TaxiOrders, P!CustomerOrders,
       Central!CustomerOrders, P!Countdown, Central!Countdown

\* The connection of this central never breaks.
LEMMA ConnectionHolds ==
    /\ ~P!Breaks /\ ~P!HandleBroken /\ ~P!LoseDb /\ \A d, r : ~P!Broken(d, r)
    /\ ~Central!Breaks /\ ~Central!HandleBroken /\ ~Central!LoseDb
BY DEF P!Breaks, P!LoseDb, P!Broken, P!HandleBroken, P!AssignBroken, P!JoinBroken, P!RideBroken,
       P!PickUpBroken, P!NewCustomerBroken, P!ServiceBroken, Central!Breaks, Central!LoseDb,
       Central!Broken, Central!HandleBroken, Central!AssignBroken, Central!JoinBroken,
       Central!RideBroken, Central!PickUpBroken, Central!NewCustomerBroken, Central!ServiceBroken

LEMMA SameLoop ==
    /\ P!request = Central!request
    /\ \A s : (P!Receives(s) <=> Central!Receives(s))
    /\ \A d, r : (P!Simple(d, r) <=> Central!Simple(d, r))
    /\ \A d, r : (P!Done(d, r) <=> Central!Done(d, r))
    /\ \A d, r : (P!Abort(d, r) <=> Central!Abort(d, r))
    /\ (P!IgnoreOtherSession <=> Central!IgnoreOtherSession)
    /\ P!checkAvailableTaxis = Central!checkAvailableTaxis
    /\ \A d : P!checkQueue(d) = Central!checkQueue(d)
    /\ \A t : P!carryingClient(t) = Central!carryingClient(t)
    /\ \A t : P!getService(t) = Central!getService(t)
BY SameJoins, SameRows, ConnectionHolds
DEF P!request, Central!request, P!Receives, Central!Receives, P!Pending, Central!Pending,
    P!Authentic, Central!Authentic, P!GreenList, Central!GreenList, P!TaxiOrders,
    Central!TaxiOrders, P!CustomerOrders, Central!CustomerOrders, P!Simple, Central!Simple,
    P!Done, Central!Done, P!Abort, Central!Abort, P!IgnoreOtherSession,
    Central!IgnoreOtherSession, P!checkAvailableTaxis, Central!checkAvailableTaxis, P!checkQueue,
    Central!checkQueue, P!carryingClient, Central!carryingClient, P!getService, Central!getService

LEMMA SameMoved == P!Moved = Central!Moved
BY SameRows, SameCustomerRows, SameLoop DEF P!Moved, Central!Moved

LEMMA SameAssigning ==
    /\ \A r, d, t, c : P!Assigned(r, d, t, c) = Central!Assigned(r, d, t, c)
    /\ \A d, r, t, c : (P!EndByAssigning(d, r, t, c) <=> Central!EndByAssigning(d, r, t, c))
<1>1. \A r, d, t, c : P!Assigned(r, d, t, c) = Central!Assigned(r, d, t, c)
  BY SameWords DEF P!Assigned, Central!Assigned
<1>2. QED BY <1>1, SameJoins, SameLoop DEF P!EndByAssigning, Central!EndByAssigning

LEMMA SameHandlers == P!Handle <=> Central!Handle

<1>1. P!TaxiJoins <=> Central!TaxiJoins
  BY SameRows, SameCustomerRows, SameJoins, SameWords, SameLoop, SameMoved, SameAssigning
  DEF P!TaxiJoins, Central!TaxiJoins

<1>2. P!TaxiMoves <=> Central!TaxiMoves
  BY SameRows, SameCustomerRows, SameJoins, SameWords, SameLoop, SameMoved, SameAssigning
  DEF P!TaxiMoves, Central!TaxiMoves

<1>3. P!CompleteRide <=> Central!CompleteRide
  BY SameRows, SameCustomerRows, SameJoins, SameWords, SameLoop, SameMoved, SameAssigning
  DEF P!CompleteRide, Central!CompleteRide

<1>4. P!PickUpCustomer <=> Central!PickUpCustomer
  BY SameRows, SameCustomerRows, SameJoins, SameWords, SameLoop, SameMoved, SameAssigning
  DEF P!PickUpCustomer, Central!PickUpCustomer

<1>5. P!ReachWithoutService <=> Central!ReachWithoutService
  BY SameRows, SameCustomerRows, SameJoins, SameWords, SameLoop, SameMoved, SameAssigning
  DEF P!ReachWithoutService, Central!ReachWithoutService

<1>6. P!SetTaxiReady <=> Central!SetTaxiReady
  BY SameRows, SameCustomerRows, SameJoins, SameWords, SameLoop, SameMoved, SameAssigning
  DEF P!SetTaxiReady, Central!SetTaxiReady

<1>7. P!UpdateWaitTime <=> Central!UpdateWaitTime
  BY SameRows, SameCustomerRows, SameJoins, SameWords, SameLoop, SameMoved, SameAssigning
  DEF P!UpdateWaitTime, Central!UpdateWaitTime

<1>8. P!Ping <=> Central!Ping
  BY SameRows, SameCustomerRows, SameJoins, SameWords, SameLoop, SameMoved, SameAssigning
  DEF P!Ping, Central!Ping

<1>9. P!NewCustomer <=> Central!NewCustomer
  BY SameRows, SameCustomerRows, SameJoins, SameWords, SameLoop, SameMoved, SameAssigning
  DEF P!NewCustomer, Central!NewCustomer

<1>10. P!ServiceRequest <=> Central!ServiceRequest
  BY SameRows, SameCustomerRows, SameJoins, SameWords, SameLoop, SameMoved, SameAssigning
  DEF P!ServiceRequest, Central!ServiceRequest

<1>11. P!UpdateNextRequest <=> Central!UpdateNextRequest
  BY SameRows, SameCustomerRows, SameJoins, SameWords, SameLoop, SameMoved, SameAssigning
  DEF P!UpdateNextRequest, Central!UpdateNextRequest

<1>12. P!OrderGoTo <=> Central!OrderGoTo
  BY SameRows, SameCustomerRows, SameJoins, SameWords, SameLoop, SameMoved, SameAssigning
  DEF P!OrderGoTo, Central!OrderGoTo

<1>13. P!OrderStop <=> Central!OrderStop
  BY SameRows, SameCustomerRows, SameJoins, SameWords, SameLoop, SameMoved, SameAssigning
  DEF P!OrderStop, Central!OrderStop

<1>14. P!OrderContinue <=> Central!OrderContinue
  BY SameRows, SameCustomerRows, SameJoins, SameWords, SameLoop, SameMoved, SameAssigning
  DEF P!OrderContinue, Central!OrderContinue

<1>15. P!OrderTaxiDisconnect <=> Central!OrderTaxiDisconnect
  BY SameRows, SameCustomerRows, SameJoins, SameWords, SameLoop, SameMoved, SameAssigning
  DEF P!OrderTaxiDisconnect, Central!OrderTaxiDisconnect

<1>16. P!OrderCustomerDisconnect <=> Central!OrderCustomerDisconnect
  BY SameRows, SameCustomerRows, SameJoins, SameWords, SameLoop, SameMoved, SameAssigning
  DEF P!OrderCustomerDisconnect, Central!OrderCustomerDisconnect

<1>17. P!OrderPriority <=> Central!OrderPriority
  BY SameRows, SameCustomerRows, SameJoins, SameWords, SameLoop, SameMoved, SameAssigning
  DEF P!OrderPriority, Central!OrderPriority

<1>18. P!OrderLocationMove <=> Central!OrderLocationMove
  BY SameRows, SameCustomerRows, SameJoins, SameWords, SameLoop, SameMoved, SameAssigning
  DEF P!OrderLocationMove, Central!OrderLocationMove

<1>19. QED
  BY <1>1, <1>2, <1>3, <1>4, <1>5, <1>6, <1>7, <1>8, <1>9, <1>10, <1>11, <1>12, <1>13, <1>14,
     <1>15, <1>16, <1>17, <1>18, SameLoop
  DEF P!Handle, Central!Handle

LEMMA SameStep ==
    /\ P!Init <=> Central!Init
    /\ P!Next <=> Central!Next
    /\ P!vars = Central!vars
<1>1. P!Init <=> Central!Init
  BY SameJoins, SameWords DEF P!Init, Central!Init, P!EmptyDb, Central!EmptyDb
<1>2. P!vars = Central!vars
  BY DEF P!vars, Central!vars
<1>3. P!NotAhead <=> Central!NotAhead
  BY SameWords DEF P!NotAhead, Central!NotAhead
<1>4. \A t : P!Register(t) <=> Central!Register(t)
  BY SameRows DEF P!Register, Central!Register
<1>5. P!Announce <=> Central!Announce
  BY <1>3 DEF P!Announce, Central!Announce, P!Room, Central!Room
<1>6. \A m : P!Submit(m) <=> Central!Submit(m)
  BY <1>3, SameRows
  DEF P!Submit, Central!Submit, P!Room, Central!Room, P!CanSend, Central!CanSend, P!GreenList,
      Central!GreenList, P!TaxiOrders, Central!TaxiOrders, P!CustomerOrders, Central!CustomerOrders,
      P!TaxiSignals, Central!TaxiSignals, P!TaxiArrivals, Central!TaxiArrivals
<1>7. \A s : P!Read(s) <=> Central!Read(s)
  BY DEF P!Read, Central!Read
<1>8. P!Tick <=> Central!Tick
  BY DEF P!Tick, Central!Tick
<1>9. P!Environment <=> Central!Environment
  BY <1>4, <1>5, <1>6, <1>7, <1>8, ConnectionHolds, SameWords DEF P!Environment, Central!Environment
<1>10. P!Next <=> Central!Next
  BY <1>3, <1>9, SameHandlers, ConnectionHolds DEF P!Next, Central!Next
<1>11. QED BY <1>1, <1>2, <1>10

\* The types too, which EasyCab itself names.
LEMMA SameTypes ==
    /\ P!TypeOK <=> Central!TypeOK
    /\ P!TypeOK => /\ db \in Db /\ requests \in Seq(Request) /\ responses \in Inboxes
                   /\ joined \subseteq Customers
    /\ P!Subscribers = Subscribers
    /\ P!Request = Request
<1>1. P!Db = Db /\ Central!Db = Db
  BY DEF P!Db, Central!Db, Db, P!TaxiRow, Central!TaxiRow, TaxiRow, P!CustomerRow,
         Central!CustomerRow,
         CustomerRow, P!Countdown, Central!Countdown, Countdown
<1>2. P!Request = Request /\ Central!Request = Request
  BY DEF P!Request, P!TaxiSignals, P!TaxiArrivals, P!TaxiOrders, P!CustomerOrders, P!Countdown,
         Central!Request, Central!TaxiSignals, Central!TaxiArrivals, Central!TaxiOrders,
         Central!CustomerOrders, Central!Countdown,
         Request, TaxiSignals, TaxiArrivals, TaxiOrders, CustomerOrders, Countdown
<1>3. P!Inboxes = Inboxes /\ Central!Inboxes = Inboxes /\ P!Subscribers = Subscribers
  BY DEF P!Inboxes, P!Subscribers, P!TaxiNotice, P!CustomerNotice, Central!Inboxes,
         Central!Subscribers, Central!TaxiNotice, Central!CustomerNotice, Inboxes, Subscribers,
         TaxiNotice, CustomerNotice
<1>4. P!Map = Central!Map
  BY DEF P!Map, Central!Map, P!TaxiRow, Central!TaxiRow, P!CustomerShown, Central!CustomerShown,
         P!Countdown, Central!Countdown
<1>5. QED BY <1>1, <1>2, <1>3, <1>4, SameWords DEF P!TypeOK, Central!TypeOK

\* Where a step leads is a point.
LEMMA StepIsPoint ==
    ASSUME NEW p \in Points, NEW q \in Points
    PROVE  Taxi!Grid!step(p, q) \in Points
<1>1. Points = G!Cells /\ Points \subseteq Int \X Int
  BY MapAssumption DEF G!Cells, G!Size, Taxi!Grid!Cells, Taxi!Grid!Size
<1>2. G!HalfAssumption /\ G!DestinationsAssumption
  BY MapAssumption DEF G!HalfAssumption, G!DestinationsAssumption
<1>3. G!step(p, q) \in G!Cells
  BY <1>1, <1>2, G!StepOnMap
<1>4. G!step(p, q) = Taxi!Grid!step(p, q)
  BY DEF G!step, Taxi!Grid!step, G!NextMove, Taxi!Grid!NextMove, G!Best, Taxi!Grid!Best,
         G!calculateDistance, Taxi!Grid!calculateDistance, G!Along, Taxi!Grid!Along, G!min,
         Taxi!Grid!min, G!abs, Taxi!Grid!abs, G!mirror, Taxi!Grid!mirror, G!directions,
         Taxi!Grid!directions, G!Size, Taxi!Grid!Size
<1>5. QED BY <1>1, <1>3, <1>4

-----------------------------------------------------------------------------
(* The messages that the components send                                   *)

LEMMA SayingServes ==
    ASSUME NEW m \in Request, Taxi!Say(m), m.subject \notin {"NEW_TAXI", "TAXI_RECONNECTED"},
           P!CanSend(m), UNCHANGED <<centralVars, responses>>
    PROVE  P!Next
<1>1. P!Submit(m)
  BY DEF P!Submit, P!Room, Taxi!Say, centralVars
<1>2. QED BY <1>1 DEF P!Next, P!Environment

\* What engines say of themselves, and what is ordered, with nobody to register first.
LEMMA TaxiMessages ==
    ASSUME NEW t \in Taxis
    PROVE  /\ \A s \in {"TAXI_READY", "TAXI_NOT_READY"} :
                /\ Taxi!Signal(s, t) \in Request
                /\ Taxi!Signal(s, t).subject = s /\ Taxi!Signal(s, t).taxiId = t
           /\ \A s \in TaxiArrivals, p \in Points :
                /\ Taxi!Arrival(s, t, p) \in Request
                /\ Taxi!Arrival(s, t, p).subject = s /\ Taxi!Arrival(s, t, p).taxiId = t
           /\ \A w \in Countdown :
                /\ Taxi!WaitTime(t, w) \in Request
                /\ Taxi!WaitTime(t, w).subject = "TAXI_UPDATE_WAIT_TIME"
                /\ Taxi!WaitTime(t, w).taxiId = t
<1>1. \A s \in {"TAXI_READY", "TAXI_NOT_READY"} : Taxi!Signal(s, t) \in Request
  BY SessionsAssumption DEF Taxi!Signal, Request, TaxiSignals
<1>2. \A s \in TaxiArrivals, p \in Points : Taxi!Arrival(s, t, p) \in Request
  BY SessionsAssumption DEF Taxi!Arrival, Request
<1>3. \A w \in Countdown : Taxi!WaitTime(t, w) \in Request
  BY SessionsAssumption DEF Taxi!WaitTime, Request
<1>4. QED BY <1>1, <1>2, <1>3 DEF Taxi!Signal, Taxi!Arrival, Taxi!WaitTime

LEMMA TaxiMaySay ==
    ASSUME NEW m, m.taxiId \in Taxis, HasTaxi(db, m.taxiId),
           m.subject \in TaxiSignals \cup TaxiArrivals \cup {"TAXI_UPDATE_WAIT_TIME"}
    PROVE  P!CanSend(m)
BY DEF P!CanSend, P!HasTaxi, HasTaxi, P!TaxiSignals, TaxiSignals, P!TaxiArrivals, TaxiArrivals

LEMMA AnyoneMayOrder ==
    ASSUME NEW m, m.subject \in GreenList
    PROVE  P!CanSend(m) /\ m.subject \notin {"NEW_TAXI", "TAXI_RECONNECTED"}
BY DEF P!CanSend, GreenList, TaxiOrders, CustomerOrders, P!GreenList, P!TaxiOrders, P!CustomerOrders

LEMMA CustomerMaySay ==
    ASSUME NEW m, m.id \in joined, m.subject \in {"CUSTOMER_SERVICE_REQUEST", "CUSTOMER_UPDATE_NEXT_REQUEST"}
    PROVE  P!CanSend(m) /\ m.subject \notin {"NEW_TAXI", "TAXI_RECONNECTED"}
BY DEF P!CanSend, P!TaxiSignals, P!TaxiArrivals

LEMMA HearingServes ==
    ASSUME NEW s \in Subscribers, responses[s] # <<>>,
           responses' = [responses EXCEPT ![s] = Tail(@)],
           UNCHANGED <<centralVars, requests>>
    PROVE  P!Next
<1>1. P!Read(s) /\ s \in P!Subscribers
  BY SameTypes DEF P!Read, centralVars
<1>2. QED BY <1>1 DEF P!Next, P!Environment

-----------------------------------------------------------------------------
(* The inductive invariant: who sends messages may                         *)

\* An engine that has begun to authenticate has a row, whatever has become of it since.
Registered == \A t \in Taxis : engine[t].life # "off" => HasTaxi(db, t)

\* A customer that asks was accepted, and one that is told so will have been.
Welcomed ==
    \A c \in Customers :
        /\ rider[c].stage \in {"asking", "following", "resting"} => c \in joined
        /\ \A i \in DOMAIN responses[c] : responses[c][i].subject = "ACCEPT" => c \in joined

\* The service a customer asks for is one of its list.
Listed ==
    \A c \in Customers :
        /\ rider[c].stage \in {"out", "joining"} => rider[c].index = 1
        /\ rider[c].stage \in {"asking", "following", "resting"} => rider[c].index \in 1..Len(Wishes[c])

IInv == TypeOK /\ Registered /\ Welcomed /\ Listed

LEMMA TypesOfIInv ==
    ASSUME IInv
    PROVE  /\ P!TypeOK
           /\ db \in Db /\ requests \in Seq(Request) /\ responses \in Inboxes /\ joined \subseteq Customers
           /\ engine \in [Taxis -> Taxi!Memory]
           /\ rider \in [Customers -> Rider!Memory]
           /\ ordered \in 0..MaxOrders
BY SameTypes DEF IInv, TypeOK, Taxi!TypeOK, Rider!TypeOK

-----------------------------------------------------------------------------
(* Every step of the system is one of the central or of its environment    *)

Serves == P!Next \/ UNCHANGED P!vars

LEMMA SilentServes ==
    ASSUME UNCHANGED <<centralVars, requests, responses>>
    PROVE  Serves
BY DEF Serves, P!vars, centralVars

LEMMA EngineServes ==
    ASSUME IInv, NEW t \in Taxis, TaxiStarts(t) \/ TaxiObeys(t) \/ TaxiDrives(t) \/ TaxiLeaves(t)
    PROVE  Serves
<1>0. /\ UNCHANGED centralVars /\ t \in Subscribers
      /\ engine[t] \in Taxi!Memory
      /\ engine[t].pos \in Points /\ engine[t].coord \in Points
  BY TypesOfIInv DEF TaxiStarts, TaxiObeys, TaxiDrives, TaxiLeaves, Subscribers, Taxi!Memory
<1>1. ASSUME Taxi!Runs(t) PROVE HasTaxi(db, t)
  BY <1>1 DEF IInv, Registered, Taxi!Runs
<1>2. ASSUME NEW s, Taxi!Hears(t, s) PROVE Serves
  BY <1>0, <1>2, HearingServes DEF Taxi!Hears, Serves
<1>3. ASSUME NEW s \in {"TAXI_READY", "TAXI_NOT_READY"}, Taxi!Runs(t), Taxi!Say(Taxi!Signal(s, t)),
             UNCHANGED responses
      PROVE  Serves
  <2>1. P!CanSend(Taxi!Signal(s, t))
    BY <1>1, <1>3, TaxiMessages, TaxiMaySay DEF TaxiSignals
  <2>2. QED BY <1>0, <1>3, <2>1, TaxiMessages, SayingServes DEF Serves
<1>4. ASSUME NEW s \in TaxiArrivals, NEW p \in Points, Taxi!Runs(t),
             Taxi!Say(Taxi!Arrival(s, t, p)), UNCHANGED responses
      PROVE  Serves
  <2>1. P!CanSend(Taxi!Arrival(s, t, p))
    BY <1>1, <1>4, TaxiMessages, TaxiMaySay
  <2>2. s \notin {"NEW_TAXI", "TAXI_RECONNECTED"}
    BY DEF TaxiArrivals
  <2>3. QED BY <1>0, <1>4, <2>1, <2>2, TaxiMessages, SayingServes DEF Serves
<1>5. ASSUME NEW w \in Countdown, Taxi!Runs(t), Taxi!Say(Taxi!WaitTime(t, w)), UNCHANGED responses
      PROVE  Serves
  <2>1. P!CanSend(Taxi!WaitTime(t, w))
    BY <1>1, <1>5, TaxiMessages, TaxiMaySay
  <2>2. QED BY <1>0, <1>5, <2>1, TaxiMessages, SayingServes DEF Serves
<1>6. CASE TaxiStarts(t)
  BY <1>6, SilentServes DEF TaxiStarts, Taxi!Starts
<1>7. CASE TaxiObeys(t)
  <2>1. CASE Taxi!ReadsPosition(t) \/ Taxi!Redirects(t)
    BY <1>0, <2>1, SilentServes DEF Taxi!ReadsPosition, Taxi!Redirects
  <2>2. CASE Taxi!AnswersArrived(t)
    <3>1. /\ Taxi!Runs(t) /\ UNCHANGED responses
          /\ Taxi!Say(Taxi!Arrival("TAXI_DESTINATION_REACHED", t, engine[t].coord))
      BY <2>2 DEF Taxi!AnswersArrived
    <3>2. QED BY <1>0, <1>4, <3>1 DEF TaxiArrivals
  <2>3. QED
    BY <1>2, <1>7, <2>1, <2>2
    DEF TaxiObeys, Taxi!ObeysOrders, Taxi!HearsGoTo, Taxi!HearsStop, Taxi!HearsContinue,
        Taxi!HearsDisconnect
<1>8. CASE TaxiDrives(t)
  <2>1. CASE Taxi!SensorConnects(t)
    BY <1>3, <2>1 DEF Taxi!SensorConnects, Taxi!Sensor
  <2>2. CASE Taxi!WaitFrame(t)
    <3>1. PICK w \in Frames \ {0} : \E left \in 0..w : Taxi!Say(Taxi!WaitTime(t, left))
      BY <2>2 DEF Taxi!WaitFrame
    <3>2. PICK left \in 0..w : Taxi!Say(Taxi!WaitTime(t, left))
      BY <3>1
    <3>3. left \in Countdown
      BY <3>1, FramesAssumption DEF Countdown
    <3>4. QED BY <1>5, <2>2, <3>2, <3>3 DEF Taxi!WaitFrame, Taxi!Sensor
  <2>3. CASE Taxi!DriveFrame(t) \/ Taxi!Drives(t)
    BY <1>0, <2>3, SilentServes DEF Taxi!DriveFrame, Taxi!Drives, Taxi!Sensor
  <2>4. CASE Taxi!Reports(t)
    <3> DEFINE s == IF engine[t].pos # engine[t].dest THEN "TAXI_MOVE" ELSE "TAXI_DESTINATION_REACHED"
    <3>1. Taxi!Runs(t) /\ UNCHANGED responses /\ Taxi!Say(Taxi!Arrival(s, t, engine[t].pos))
      BY <2>4 DEF Taxi!Reports, Taxi!Sensor
    <3>2. s \in TaxiArrivals
      BY DEF TaxiArrivals
    <3> HIDE DEF s
    <3>3. QED BY <1>0, <1>4, <3>1, <3>2
  <2>5. QED BY <1>8, <2>1, <2>2, <2>3, <2>4 DEF TaxiDrives, Taxi!Attends
<1>9. CASE TaxiLeaves(t)
  <2>1. CASE Taxi!Quits(t) \/ Taxi!Exits(t) \/ Taxi!SensorNext(t)
    BY <1>0, <2>1, SilentServes DEF Taxi!Quits, Taxi!Exits, Taxi!SensorNext, Taxi!Sensor
  <2>2. CASE Taxi!SensorLeaves(t)
    BY <1>3, <2>2 DEF Taxi!SensorLeaves, Taxi!Sensor
  <2>3. CASE Taxi!SaysGoodbye(t)
    <3> DEFINE m == [subject |-> "ORDER_TAXI_DISCONNECT", taxiId |-> t]
    <3>1. m \in Request /\ m.subject \in GreenList
      BY DEF Request, GreenList, TaxiOrders
    <3>2. Taxi!Say(m) /\ UNCHANGED responses
      BY <2>3 DEF Taxi!SaysGoodbye, Taxi!Sensor
    <3> HIDE DEF m
    <3>3. QED BY <1>0, <3>1, <3>2, AnyoneMayOrder, SayingServes DEF Serves
  <2>4. QED BY <1>9, <2>1, <2>2, <2>3 DEF TaxiLeaves
<1>10. QED BY <1>6, <1>7, <1>8, <1>9

LEMMA CustomerServes ==
    ASSUME IInv, NEW c \in Customers, CustomerActs(c) \/ CustomerGivesUp(c) \/ Unheard(c)
    PROVE  Serves
<1>0. c \in Subscribers /\ rider[c] \in Rider!Memory
  BY TypesOfIInv DEF Subscribers
<1>1. CASE CustomerGivesUp(c)
  BY <1>1, SilentServes DEF CustomerGivesUp, Rider!GivesUp
<1>2. CASE Unheard(c)
  <2>1. responses[c] # <<>> /\ responses' = [responses EXCEPT ![c] = Tail(@)]
        /\ UNCHANGED <<centralVars, requests>>
    BY <1>2 DEF Unheard, Central!Read, centralVars
  <2>2. QED BY <1>0, <2>1, HearingServes DEF Serves
<1>3. CASE CustomerActs(c)
  <2>0. UNCHANGED centralVars
    BY <1>3 DEF CustomerActs
  <2>1. ASSUME NEW m, Rider!Next(c, m) PROVE Serves
    BY <1>0, <2>0, <2>1, HearingServes DEF Rider!Next, Serves
  <2>2. ASSUME NEW m \in Request, Rider!Say(m), UNCHANGED responses, P!CanSend(m),
               m.subject \notin {"NEW_TAXI", "TAXI_RECONNECTED"}
        PROVE  Serves
    BY <2>0, <2>2, SayingServes DEF Serves, Rider!Say, Taxi!Say
  <2>3. CASE Rider!Joins(c)
    <3> DEFINE m == [subject |-> "NEW_CUSTOMER", id |-> c, coord |-> Home[c]]
    <3>1. m \in Request /\ m.subject \in GreenList
      BY CustomersAssumption DEF Request, GreenList
    <3>2. Rider!Say(m) /\ UNCHANGED responses
      BY <2>3 DEF Rider!Joins
    <3> HIDE DEF m
    <3>3. QED BY <2>2, <3>1, <3>2, AnyoneMayOrder
  <2>4. CASE Rider!Asks(c)
    <3> DEFINE m == [subject |-> "CUSTOMER_SERVICE_REQUEST", id |-> c, data |-> Rider!Wish(c),
                     session |-> "current"]
    <3>1. c \in joined /\ rider[c].index \in 1..Len(Wishes[c])
      BY <2>4 DEF IInv, Welcomed, Listed, Rider!Asks, Rider!At
    <3>2. Rider!Wish(c) \in Services
      BY <3>1, CustomersAssumption DEF Rider!Wish
    <3>3. m \in Request /\ m.id \in joined /\ m.subject = "CUSTOMER_SERVICE_REQUEST"
      BY <3>1, <3>2, SessionsAssumption DEF Request
    <3>4. Rider!Say(m) /\ UNCHANGED responses
      BY <2>4 DEF Rider!Asks
    <3> HIDE DEF m
    <3>5. QED BY <2>2, <3>3, <3>4, CustomerMaySay
  <2>5. CASE Rider!Rests(c)
    <3> DEFINE m == [subject |-> "CUSTOMER_UPDATE_NEXT_REQUEST", id |-> c,
                     data |-> IF rider[c].left > 1 THEN 1 ELSE 0, session |-> "current"]
    <3>1. c \in joined
      BY <2>5 DEF IInv, Welcomed, Rider!Rests, Rider!At
    <3>2. m \in Request /\ m.id \in joined /\ m.subject = "CUSTOMER_UPDATE_NEXT_REQUEST"
      BY <3>1, SessionsAssumption DEF Request, Countdown
    <3>3. Rider!Say(m) /\ UNCHANGED responses
      BY <2>5 DEF Rider!Rests
    <3> HIDE DEF m
    <3>4. QED BY <2>2, <3>2, <3>3, CustomerMaySay
  <2>6. CASE Rider!GoesOn(c)
    BY <2>0, <2>6, SilentServes DEF Rider!GoesOn
  <2>7. QED
    BY <1>3, <2>1, <2>3, <2>4, <2>5, <2>6
    DEF CustomerActs, Rider!Acts, Rider!IsWelcome, Rider!IsRefused, Rider!Follows, Rider!HearsNews,
        Rider!HearsOutcome, Rider!HearsDisconnect
<1>4. QED BY <1>1, <1>2, <1>3

LEMMA StepServes ==
    ASSUME IInv, [Next]_vars
    PROVE  Serves
<1>1. CASE CentralHandles
  BY <1>1, SameStep DEF CentralHandles, Serves, Central!Next
<1>2. CASE ClockTicks \/ RegistrationAnnounced \/ \E t \in Taxis : TaxiRegisters(t)
  BY <1>2, SameStep
  DEF ClockTicks, RegistrationAnnounced, TaxiRegisters, Serves, Central!Next, Central!Environment
<1>3. CASE OperatorOrders
  <2>1. PICK m \in Orders : Taxi!Say(m)
    BY <1>3 DEF OperatorOrders
  <2>2. m \in Request /\ m.subject \in GreenList
    BY OrdersAssumption
  <2>3. QED BY <1>3, <2>1, <2>2, AnyoneMayOrder, SayingServes DEF OperatorOrders, Serves
<1>4. ASSUME NEW t \in Taxis, StrayTaxi(t) PROVE Serves
  <2> DEFINE m == [subject |-> "ORDER_TAXI_DISCONNECT", taxiId |-> t]
  <2>1. m \in Request /\ m.subject \in GreenList
    BY DEF Request, GreenList, TaxiOrders
  <2>2. Taxi!Say(m) /\ UNCHANGED <<centralVars, responses>>
    BY <1>4 DEF StrayTaxi
  <2> HIDE DEF m
  <2>3. QED BY <2>1, <2>2, AnyoneMayOrder, SayingServes DEF Serves
<1>5. ASSUME NEW c \in Customers, StrayCustomer(c) PROVE Serves
  <2> DEFINE m == [subject |-> "ORDER_CUSTOMER_DISCONNECT", id |-> c]
  <2>1. m \in Request /\ m.subject \in GreenList
    BY DEF Request, GreenList, CustomerOrders
  <2>2. Taxi!Say(m) /\ UNCHANGED <<centralVars, responses>>
    BY <1>5 DEF StrayCustomer
  <2> HIDE DEF m
  <2>3. QED BY <2>1, <2>2, AnyoneMayOrder, SayingServes DEF Serves
<1>6. CASE UNCHANGED vars
  BY <1>6, SilentServes DEF vars
<1>7. QED BY <1>1, <1>2, <1>3, <1>4, <1>5, <1>6, EngineServes, CustomerServes DEF Next

-----------------------------------------------------------------------------
(* The invariant is inductive                                              *)

LEMMA CentralType ==
    ASSUME IInv, [Next]_vars
    PROVE  Central!TypeOK' /\ P!TypeOK'
<1>1. P!TypeOK /\ [P!Next]_(P!vars)
  BY StepServes, TypesOfIInv DEF Serves
<1>2. P!TypeOK'
  BY <1>1, CentralAssumptions, P!StepType
<1>3. P!TypeOK' <=> Central!TypeOK'
  BY SameTypes, PTL
<1>4. QED BY <1>2, <1>3

\* The engines: only that of t moves, and it stays an engine.
LEMMA EngineType ==
    ASSUME IInv, NEW t \in Taxis,
           \/ TaxiRegisters(t) \/ TaxiStarts(t) \/ TaxiObeys(t) \/ TaxiDrives(t) \/ TaxiLeaves(t)
    PROVE  /\ engine' \in [Taxis -> Taxi!Memory]
           /\ \A u \in Taxis : u # t => engine'[u] = engine[u]
           /\ engine[t].life = "off" => engine'[t].life = "off" \/ TaxiRegisters(t)
<1>0. engine \in [Taxis -> Taxi!Memory] /\ responses \in Inboxes /\ t \in Subscribers
  BY TypesOfIInv DEF Subscribers
<1>1. \A life \in {"off", "authenticating"} : Taxi!Fresh(life) \in Taxi!Memory
  BY BaseAssumption DEF Taxi!Fresh, Taxi!Memory
<1>2. CASE TaxiRegisters(t)
  BY <1>0, <1>1, <1>2 DEF TaxiRegisters, Taxi!Authenticates
<1>3. CASE TaxiStarts(t)
  BY <1>0, <1>3 DEF TaxiStarts, Taxi!Starts, Taxi!Memory
<1>4. CASE TaxiObeys(t)
  <2>1. CASE Taxi!HearsGoTo(t)
    <3> DEFINE p == Head(responses[t]).coord
    <3>1. /\ Head(responses[t]) \in TaxiNotice \cup CustomerNotice
          /\ Head(responses[t]).subject = "TAXI_GO_TO"
      BY <1>0, <2>1 DEF Taxi!HearsGoTo, Taxi!Hears, Inboxes
    <3>2. p \in Points
      BY <3>1 DEF TaxiNotice, CustomerNotice
    <3>3. PICK k \in {"reading", "arrived", "answering", "redirecting"} :
            engine' = [engine EXCEPT ![t].kafka = k, ![t].coord = p]
      <4>1. CASE engine[t].pos = p
        BY <2>1, <4>1 DEF Taxi!HearsGoTo
      <4>2. CASE engine[t].pos # p
        BY <2>1, <4>2 DEF Taxi!HearsGoTo
      <4>3. QED BY <4>1, <4>2
    <3>4. engine[t].life = "running"
      BY <2>1 DEF Taxi!HearsGoTo, Taxi!Hears, Taxi!Runs
    <3> HIDE DEF p
    <3>5. [engine[t] EXCEPT !.kafka = k, !.coord = p] \in Taxi!Memory
      BY <1>0, <3>2 DEF Taxi!Memory
    <3>6. engine' = [engine EXCEPT ![t] = [engine[t] EXCEPT !.kafka = k, !.coord = p]]
      BY <1>0, <3>3
    <3>7. QED BY <1>0, <3>4, <3>5, <3>6
  <2>2. CASE Taxi!ReadsPosition(t) \/ Taxi!AnswersArrived(t) \/ Taxi!Redirects(t)
    BY <1>0, <2>2, BaseAssumption
    DEF Taxi!ReadsPosition, Taxi!AnswersArrived, Taxi!Redirects, Taxi!Memory, Taxi!Runs
  <2>3. CASE Taxi!HearsStop(t) \/ Taxi!HearsContinue(t) \/ Taxi!HearsDisconnect(t)
    <3>1. Taxi!Runs(t)
      BY <2>3 DEF Taxi!HearsStop, Taxi!HearsContinue, Taxi!HearsDisconnect, Taxi!Hears
    <3>2. PICK b \in BOOLEAN : \/ engine' = [engine EXCEPT ![t].orderedToStop = b]
                               \/ engine' = [engine EXCEPT ![t].stop = b]
      BY <2>3 DEF Taxi!HearsStop, Taxi!HearsContinue, Taxi!HearsDisconnect
    <3>3. QED BY <1>0, <3>1, <3>2 DEF Taxi!Memory, Taxi!Runs
  <2>4. QED BY <1>4, <2>1, <2>2, <2>3 DEF TaxiObeys, Taxi!ObeysOrders
<1>5. ASSUME NEW from, NEW to \in {"absent", "waiting", "driving", "leaving", "ended"},
             Taxi!Sensor(t, from, to)
      PROVE  /\ engine' \in [Taxis -> Taxi!Memory]
             /\ \A u \in Taxis : u # t => engine'[u] = engine[u]
             /\ engine[t].life # "off"
  BY <1>0, <1>5 DEF Taxi!Sensor, Taxi!Memory, Taxi!Runs
<1>6. CASE TaxiDrives(t)
  <2>1. CASE Taxi!Drives(t)
    <3>1. Taxi!Grid!step(engine[t].pos, engine[t].dest) \in Points
      BY <1>0, StepIsPoint DEF Taxi!Memory
    <3>2. QED BY <1>0, <2>1, <3>1 DEF Taxi!Drives, Taxi!Memory, Taxi!Runs
  <2>2. QED
    BY <1>5, <1>6, <2>1
    DEF TaxiDrives, Taxi!SensorConnects, Taxi!Attends, Taxi!WaitFrame, Taxi!DriveFrame, Taxi!Reports
<1>7. CASE TaxiLeaves(t)
  <2>1. CASE Taxi!Quits(t)
    BY <1>0, <2>1 DEF Taxi!Quits, Taxi!Memory, Taxi!Runs
  <2>2. CASE Taxi!Exits(t)
    BY <1>0, <1>1, <2>2 DEF Taxi!Exits, Taxi!Runs
  <2>3. QED
    BY <1>5, <1>7, <2>1, <2>2 DEF TaxiLeaves, Taxi!SensorLeaves, Taxi!SensorNext, Taxi!SaysGoodbye
<1>8. QED BY <1>2, <1>3, <1>4, <1>6, <1>7

\* The customers: only c moves, stays a customer, and only ever asks for what is on its list.
LEMMA CustomerType ==
    ASSUME IInv, NEW c \in Customers, CustomerActs(c) \/ CustomerGivesUp(c)
    PROVE  /\ rider' \in [Customers -> Rider!Memory]
           /\ \A b \in Customers : b # c => rider'[b] = rider[b]
           /\ Listed'
           /\ rider'[c].stage \in {"asking", "following", "resting"} =>
                \/ rider[c].stage \in {"asking", "following", "resting"}
                \/ Rider!IsWelcome(c)
<1>0. /\ rider \in [Customers -> Rider!Memory] /\ RestFrom \in Nat
      /\ Wishes[c] \in Seq(Services)
  BY TypesOfIInv, CustomersAssumption
<1> DEFINE Good(m) ==
        /\ m \in Rider!Memory
        /\ m.stage \in {"out", "joining"} => m.index = 1
        /\ m.stage \in {"asking", "following", "resting"} => m.index \in 1..Len(Wishes[c])
<1>1. Good(rider[c])
  BY <1>0 DEF IInv, Listed
<1>2. ASSUME NEW m, rider' = [rider EXCEPT ![c] = m], Good(m)
      PROVE  /\ rider' \in [Customers -> Rider!Memory]
             /\ \A b \in Customers : b # c => rider'[b] = rider[b]
             /\ Listed' /\ rider'[c] = m
  BY <1>0, <1>2 DEF IInv, Listed
<1>3. ASSUME NEW stage \in {"joining", "failed", "gone", "following"}, Rider!Goes(c, stage),
             stage = "joining" => rider[c].stage = "out",
             stage = "following" => rider[c].stage = "asking"
      PROVE  /\ rider' = [rider EXCEPT ![c] = [rider[c] EXCEPT !.stage = stage]]
             /\ Good([rider[c] EXCEPT !.stage = stage])
             /\ [rider[c] EXCEPT !.stage = stage].stage = stage
  <2>1. rider[c] \in Rider!Memory
    BY <1>0
  <2>2. QED BY <1>1, <1>3, <2>1 DEF Rider!Goes, Rider!Memory
<1>4. CASE CustomerGivesUp(c) \/ Rider!Joins(c) \/ Rider!IsRefused(c) \/ Rider!HearsDisconnect(c)
  <2>1. PICK stage \in {"joining", "failed", "gone"} :
            Rider!Goes(c, stage) /\ (stage = "joining" => rider[c].stage = "out")
    BY <1>4
    DEF CustomerGivesUp, Rider!GivesUp, Rider!Joins, Rider!IsRefused, Rider!HearsDisconnect,
        Rider!At
  <2>2. QED BY <1>2, <1>3, <2>1
<1>5. CASE Rider!Asks(c)
  BY <1>2, <1>3, <1>5 DEF Rider!Asks, Rider!At
<1>6. CASE Rider!IsWelcome(c)
  <2> DEFINE m == [rider[c] EXCEPT !.stage = IF Wishes[c] = <<>> THEN "gone" ELSE "asking"]
  <2>1. rider' = [rider EXCEPT ![c] = m]
    BY <1>6 DEF Rider!IsWelcome, Rider!Goes
  <2>2. rider[c].index = 1 /\ rider[c] \in Rider!Memory
    BY <1>0, <1>1, <1>6 DEF Rider!IsWelcome, Rider!At
  <2>3. Wishes[c] # <<>> => 1 \in 1..Len(Wishes[c])
    BY <1>0
  <2>4. Good(m)
    BY <2>2, <2>3 DEF Rider!Memory
  <2>5. QED BY <1>2, <1>6, <2>1, <2>4
<1>7. CASE Rider!HearsNews(c)
  BY <1>0, <1>7 DEF Rider!HearsNews, IInv, Listed
<1>8. ASSUME NEW s, Rider!HearsOutcome(c, s)
      PROVE  /\ rider' \in [Customers -> Rider!Memory]
             /\ \A b \in Customers : b # c => rider'[b] = rider[b]
             /\ Listed' /\ rider[c].stage = "following"
  <2> DEFINE m == [rider[c] EXCEPT !.stage = "resting", !.left = RestFrom]
  <2>1. rider' = [rider EXCEPT ![c] = m] /\ rider[c].stage = "following"
    BY <1>8 DEF Rider!HearsOutcome, Rider!At
  <2>0. rider[c] \in Rider!Memory /\ RestFrom \in 0..RestFrom
    BY <1>0
  <2>2. m \in Rider!Memory /\ m.stage = "resting" /\ m.index = rider[c].index
    BY <2>0 DEF Rider!Memory
  <2> HIDE DEF m
  <2>3. QED BY <1>1, <1>2, <2>1, <2>2
<1>9. CASE Rider!Rests(c)
  <2> DEFINE m == [rider[c] EXCEPT !.left = rider[c].left - 1]
  <2>1. rider' = [rider EXCEPT ![c] = m] /\ rider[c].stage = "resting" /\ rider[c].left > 0
    BY <1>9 DEF Rider!Rests, Rider!At
  <2>0. rider[c].left \in 0..RestFrom
    BY <1>0 DEF Rider!Memory
  <2>2. rider[c] \in Rider!Memory /\ rider[c].left - 1 \in 0..RestFrom
    BY <1>0, <2>0, <2>1
  <2>3. m \in Rider!Memory /\ m.stage = rider[c].stage /\ m.index = rider[c].index
    BY <2>2 DEF Rider!Memory
  <2> HIDE DEF m
  <2>4. QED BY <1>1, <1>2, <2>1, <2>3
<1>10. CASE Rider!GoesOn(c)
  <2> DEFINE more == rider[c].index < Len(Wishes[c])
             m == [rider[c] EXCEPT !.stage = IF more THEN "asking" ELSE "gone",
                                   !.index = IF more THEN rider[c].index + 1 ELSE rider[c].index]
  <2>1. rider' = [rider EXCEPT ![c] = m] /\ rider[c].stage = "resting"
    BY <1>10 DEF Rider!GoesOn, Rider!At
  <2>2. Good(m)
    <3>1. rider[c] \in Rider!Memory /\ rider[c].index \in 1..Len(Wishes[c]) /\ Len(Wishes[c]) \in Nat
      BY <1>0, <1>1, <2>1
    <3>2. CASE more
      <4>1. m = [rider[c] EXCEPT !.stage = "asking", !.index = rider[c].index + 1]
        BY <3>2
      <4>2. rider[c].index + 1 \in 1..Len(Wishes[c]) /\ rider[c].index + 1 \in Nat
        BY <3>1, <3>2
      <4> HIDE DEF m, more
      <4>3. m \in Rider!Memory /\ m.stage = "asking" /\ m.index = rider[c].index + 1
        BY <3>1, <4>1, <4>2 DEF Rider!Memory
      <4>4. QED BY <4>2, <4>3
    <3>3. CASE ~more
      BY <3>1, <3>3 DEF Rider!Memory
    <3>4. QED BY <3>2, <3>3
  <2>3. QED BY <1>2, <2>1, <2>2
<1>11. QED
  BY <1>4, <1>5, <1>6, <1>7, <1>8, <1>9, <1>10 DEF CustomerActs, Rider!Acts, Rider!Follows

\* What the central's handlers do to the standing of the clients.
LEMMA HandlesStanding ==
    ASSUME IInv, CentralHandles
    PROVE  P!StandingTold /\ UNCHANGED <<engine, rider, ordered>>
<1>1. P!TypeOK /\ P!Handle
  BY TypesOfIInv, SameHandlers DEF CentralHandles
<1>2. QED BY <1>1, CentralAssumptions, P!HandlingIsTold DEF CentralHandles

\* The other steps write neither what the central knows ...
LEMMA OthersLeaveCentral ==
    ASSUME [Next]_vars, ~CentralHandles
    PROVE  /\ joined' = joined /\ dbUp' = dbUp /\ server' = server
           /\ db' = db \/ \E t \in Taxis : TaxiRegisters(t)
<1>1. CASE UNCHANGED centralVars
  BY <1>1 DEF centralVars
<1>2. CASE ClockTicks \/ RegistrationAnnounced
  BY <1>2 DEF ClockTicks, RegistrationAnnounced, Central!Tick, Central!Announce
<1>3. CASE \E t \in Taxis : TaxiRegisters(t)
  BY <1>3 DEF TaxiRegisters, Central!Register
<1>4. ASSUME NEW c \in Customers, Unheard(c) PROVE UNCHANGED centralVars
  BY <1>4 DEF Unheard, Central!Read, centralVars
<1>5. QED
  BY <1>1, <1>2, <1>3, <1>4
  DEF Next, vars, OperatorOrders, TaxiStarts, TaxiObeys, TaxiDrives, TaxiLeaves, StrayTaxi,
      StrayCustomer, CustomerActs, CustomerGivesUp

\* ... nor the inboxes, but for reading on.
LEMMA OthersReadOn ==
    ASSUME IInv, [Next]_vars, ~CentralHandles
    PROVE  \A s \in Subscribers : \/ responses'[s] = responses[s]
                                  \/ responses[s] # <<>> /\ responses'[s] = Tail(responses[s])
<1>0. responses \in Inboxes
  BY TypesOfIInv
<1>1. CASE UNCHANGED responses
  BY <1>1
<1>2. ASSUME NEW u \in Subscribers, responses[u] # <<>>,
             responses' = [responses EXCEPT ![u] = Tail(@)]
      PROVE  \A s \in Subscribers : \/ responses'[s] = responses[s]
                                    \/ responses[s] # <<>> /\ responses'[s] = Tail(responses[s])
  BY <1>0, <1>2 DEF Inboxes
<1>3. ASSUME NEW t \in Taxis, TaxiObeys(t)
      PROVE  UNCHANGED responses \/ \E s : Taxi!Hears(t, s)
  BY <1>3
  DEF TaxiObeys, Taxi!ObeysOrders, Taxi!HearsGoTo, Taxi!ReadsPosition, Taxi!AnswersArrived,
      Taxi!Redirects, Taxi!HearsStop, Taxi!HearsContinue, Taxi!HearsDisconnect
<1>4. ASSUME NEW t \in Taxis,
             TaxiRegisters(t) \/ TaxiStarts(t) \/ TaxiDrives(t) \/ TaxiLeaves(t) \/ StrayTaxi(t)
      PROVE  UNCHANGED responses
  BY <1>4
  DEF TaxiRegisters, Central!Register, TaxiStarts, Taxi!Starts, TaxiDrives, Taxi!SensorConnects,
      Taxi!Attends, Taxi!WaitFrame, Taxi!DriveFrame, Taxi!Drives, Taxi!Reports, TaxiLeaves,
      Taxi!Quits, Taxi!Exits, Taxi!SensorLeaves, Taxi!SensorNext, Taxi!SaysGoodbye, Taxi!Sensor,
      StrayTaxi
<1>5. ASSUME NEW c \in Customers, CustomerActs(c) \/ CustomerGivesUp(c) \/ StrayCustomer(c)
      PROVE  UNCHANGED responses \/ \E m : Rider!Next(c, m)
  BY <1>5
  DEF CustomerActs, Rider!Acts, Rider!Joins, Rider!IsWelcome, Rider!IsRefused, Rider!Asks,
      Rider!Follows, Rider!HearsNews, Rider!HearsOutcome, Rider!HearsDisconnect, Rider!Rests,
      Rider!GoesOn, CustomerGivesUp, Rider!GivesUp, StrayCustomer
<1>6. ASSUME NEW c \in Customers, Unheard(c)
      PROVE  responses[c] # <<>> /\ responses' = [responses EXCEPT ![c] = Tail(@)]
  BY <1>6 DEF Unheard, Central!Read
<1>7. \A s \in Taxis \cup Customers : s \in Subscribers
  BY DEF Subscribers
<1>8. ASSUME NEW t \in Taxis, TaxiObeys(t)
      PROVE  \A s \in Subscribers : \/ responses'[s] = responses[s]
                                    \/ responses[s] # <<>> /\ responses'[s] = Tail(responses[s])
  BY <1>1, <1>2, <1>3, <1>7, <1>8 DEF Taxi!Hears
<1>9. ASSUME NEW c \in Customers,
             CustomerActs(c) \/ CustomerGivesUp(c) \/ StrayCustomer(c) \/ Unheard(c)
      PROVE  \A s \in Subscribers : \/ responses'[s] = responses[s]
                                    \/ responses[s] # <<>> /\ responses'[s] = Tail(responses[s])
  BY <1>1, <1>2, <1>5, <1>6, <1>7, <1>9 DEF Rider!Next
<1>10. CASE ClockTicks \/ RegistrationAnnounced \/ OperatorOrders \/ UNCHANGED vars
  BY <1>10
  DEF ClockTicks, RegistrationAnnounced, OperatorOrders, vars, Central!Tick, Central!Announce
<1>11. QED BY <1>1, <1>4, <1>8, <1>9, <1>10 DEF Next

LEMMA NobodyForgotten ==
    ASSUME IInv, [Next]_vars
    PROVE  /\ \A t \in Taxis : HasTaxi(db, t) => HasTaxi(db', t)
           /\ \A t \in Taxis : TaxiRegisters(t) => HasTaxi(db', t)
           /\ joined \subseteq joined'
<1>0. /\ \A d, t : P!HasTaxi(d, t) <=> HasTaxi(d, t)
      /\ db \in Db
  BY TypesOfIInv DEF P!HasTaxi, HasTaxi
<1>1. ASSUME NEW t \in Taxis, TaxiRegisters(t)
      PROVE  HasTaxi(db', t) /\ \A u \in Taxis : HasTaxi(db, u) => HasTaxi(db', u)
  <2> DEFINE row == IF HasTaxi(db, t) THEN [db.taxis[t] EXCEPT !.connected = TRUE] ELSE NewTaxiRow
  <2>1. db' = [db EXCEPT !.taxis = [@ EXCEPT ![t] = row]]
    BY <1>1
    DEF TaxiRegisters, Central!Register, Central!RegisterTaxi, Central!HasTaxi, HasTaxi,
        Central!NewTaxiRow, NewTaxiRow
  <2>2. row \in TaxiRow
    <3>1. NewTaxiRow \in TaxiRow
      BY BaseAssumption DEF NewTaxiRow, TaxiRow, Countdown
    <3>2. HasTaxi(db, t) => db.taxis[t] \in TaxiRow
      BY <1>0 DEF Db, HasTaxi
    <3>3. QED BY <3>1, <3>2 DEF TaxiRow
  <2> HIDE DEF row
  <2>3. row # None
    BY <2>2, NoRowAssumption
  <2>4. QED BY <1>0, <2>1, <2>3 DEF HasTaxi, Db
<1>2. CASE CentralHandles
  BY <1>0, <1>1, <1>2, HandlesStanding DEF P!StandingTold
<1>3. CASE ~CentralHandles
  BY <1>1, <1>3, OthersLeaveCentral
<1>4. QED BY <1>2, <1>3

LEMMA StepKeepsIInv ==
    IInv /\ [Next]_vars => IInv'
<1> SUFFICES ASSUME IInv, [Next]_vars PROVE IInv'
  OBVIOUS
<1>0. /\ engine \in [Taxis -> Taxi!Memory] /\ rider \in [Customers -> Rider!Memory]
      /\ responses \in Inboxes /\ ordered \in 0..MaxOrders /\ MaxOrders \in Nat
  BY TypesOfIInv, OrdersAssumption
<1>1. \/ UNCHANGED engine
      \/ \E t \in Taxis : \/ TaxiRegisters(t) \/ TaxiStarts(t) \/ TaxiObeys(t) \/ TaxiDrives(t)
                          \/ TaxiLeaves(t)
  BY DEF Next, vars, CentralHandles, ClockTicks, RegistrationAnnounced, OperatorOrders, StrayTaxi,
         CustomerActs, CustomerGivesUp, StrayCustomer, Unheard
<1>2. UNCHANGED rider \/ \E c \in Customers : CustomerActs(c) \/ CustomerGivesUp(c)
  BY DEF Next, vars, CentralHandles, ClockTicks, RegistrationAnnounced, OperatorOrders, StrayTaxi,
         StrayCustomer, Unheard, TaxiRegisters, TaxiStarts, TaxiObeys, TaxiDrives, TaxiLeaves
<1>3. ordered' \in 0..MaxOrders
  <2>1. ordered' = ordered \/ (ordered < MaxOrders /\ ordered' = ordered + 1)
    BY DEF Next, vars, CentralHandles, ClockTicks, RegistrationAnnounced, OperatorOrders, StrayTaxi,
           StrayCustomer, Unheard, TaxiRegisters, TaxiStarts, TaxiObeys, TaxiDrives, TaxiLeaves,
           CustomerActs, CustomerGivesUp
  <2>2. QED BY <1>0, <2>1
<1>4. TypeOK'
  <2>1. engine' \in [Taxis -> Taxi!Memory]
    BY <1>0, <1>1, EngineType
  <2>2. rider' \in [Customers -> Rider!Memory]
    BY <1>0, <1>2, CustomerType
  <2>3. QED BY <1>3, <2>1, <2>2, CentralType DEF TypeOK, Taxi!TypeOK, Rider!TypeOK
<1>5. Registered'
  <2>1. CASE UNCHANGED engine
    BY <2>1, NobodyForgotten DEF IInv, Registered
  <2>2. ASSUME NEW t \in Taxis,
               \/ TaxiRegisters(t) \/ TaxiStarts(t) \/ TaxiObeys(t) \/ TaxiDrives(t) \/ TaxiLeaves(t)
        PROVE  Registered'
    BY <2>2, EngineType, NobodyForgotten DEF IInv, Registered
  <2>3. QED BY <1>1, <2>1, <2>2
<1>6. Listed'
  <2>1. CASE UNCHANGED rider
    BY <2>1 DEF IInv, Listed
  <2>2. QED BY <1>2, <2>1, CustomerType
<1>7. Welcomed'
  <2>1. ASSUME NEW c \in Customers, rider'[c].stage \in {"asking", "following", "resting"}
        PROVE  c \in joined'
    <3>1. CASE rider[c].stage \in {"asking", "following", "resting"}
      BY <3>1, NobodyForgotten DEF IInv, Welcomed
    <3>2. CASE Rider!IsWelcome(c)
      <4>1. /\ responses[c] # <<>> /\ Head(responses[c]) = Rider!Notice("ACCEPT")
            /\ c \in Subscribers
        BY <3>2 DEF Rider!IsWelcome, Rider!Next, Subscribers
      <4>2. 1 \in DOMAIN responses[c] /\ responses[c][1].subject = "ACCEPT"
        BY <1>0, <4>1 DEF Inboxes, Rider!Notice
      <4>3. QED BY <4>2, NobodyForgotten DEF IInv, Welcomed
    <3>3. QED BY <1>2, <2>1, <3>1, <3>2, CustomerType
  <2>2. ASSUME NEW c \in Customers, NEW i \in DOMAIN responses'[c],
               responses'[c][i].subject = "ACCEPT"
        PROVE  c \in joined'
    <3>0. c \in Subscribers /\ responses[c] \in Seq(TaxiNotice \cup CustomerNotice)
      BY <1>0 DEF Subscribers, Inboxes
    <3>1. CASE CentralHandles
      <4>0. responses' \in Inboxes /\ P!Subscribers = Subscribers
        <5>1. P!Inboxes = Inboxes
          BY DEF P!Inboxes, P!Subscribers, P!TaxiNotice, P!CustomerNotice, Inboxes, Subscribers,
                 TaxiNotice, CustomerNotice
        <5>2. QED BY <3>1, <5>1, HandlesStanding, SameTypes DEF P!StandingTold, P!Longer
      <4>1. i \in 1..Len(responses'[c]) /\ Len(responses[c]) \in Nat
        BY <2>2, <3>0, <4>0 DEF Inboxes
      <4>2. CASE i \in 1..Len(responses[c])
        <5>1. responses'[c][i] = responses[c][i]
          BY <3>0, <3>1, <4>0, <4>2, HandlesStanding DEF P!StandingTold, P!Longer
        <5>2. c \in joined
          BY <2>2, <3>0, <4>2, <5>1 DEF IInv, Welcomed
        <5>3. QED BY <5>2, NobodyForgotten
      <4>3. CASE i \in Len(responses[c]) + 1 .. Len(responses'[c])
        <5>1. P!Says(responses', c, responses'[c][i])
          BY <4>3 DEF P!Says
        <5>2. QED BY <2>2, <3>1, <5>1, HandlesStanding DEF P!StandingTold
      <4>4. QED BY <4>1, <4>2, <4>3
    <3>2. CASE ~CentralHandles
      <4>1. \E j \in DOMAIN responses[c] : responses[c][j].subject = "ACCEPT"
        <5>1. CASE responses'[c] = responses[c]
          BY <2>2, <5>1
        <5>2. CASE responses[c] # <<>> /\ responses'[c] = Tail(responses[c])
          <6>1. i + 1 \in DOMAIN responses[c] /\ responses'[c][i] = responses[c][i + 1]
            BY <2>2, <3>0, <5>2
          <6>2. QED BY <2>2, <6>1
        <5>3. QED BY <3>0, <3>2, <5>1, <5>2, OthersReadOn
      <4>2. QED BY <4>1, NobodyForgotten DEF IInv, Welcomed
    <3>3. QED BY <3>1, <3>2
  <2>3. QED BY <2>1, <2>2 DEF Welcomed
<1>8. QED BY <1>4, <1>5, <1>6, <1>7 DEF IInv

LEMMA InitIInv ==
    Init => IInv
<1> SUFFICES ASSUME Init PROVE IInv
  OBVIOUS
<1>1. Central!TypeOK
  BY SameStep, SameTypes, CentralAssumptions, P!InitType DEF Init
<1>2. engine \in [Taxis -> Taxi!Memory] /\ \A t \in Taxis : engine[t].life = "off"
  BY BaseAssumption DEF Init, Taxi!Init, Taxi!Fresh, Taxi!Memory
<1>3. /\ rider \in [Customers -> Rider!Memory]
      /\ \A c \in Customers : rider[c].stage = "out" /\ rider[c].index = 1
  <2>1. 0 \in 0..RestFrom
    BY CustomersAssumption
  <2>2. QED BY <2>1 DEF Init, Rider!Init, Rider!Memory
<1>4. ordered \in 0..MaxOrders
  BY OrdersAssumption DEF Init
<1>5. \A c \in Customers : responses[c] = <<>>
  BY DEF Init, Central!Init, Central!Subscribers
<1>6. Registered /\ Listed
  BY <1>2, <1>3 DEF Registered, Listed
<1>7. Welcomed
  BY <1>3, <1>5 DEF Welcomed
<1>8. QED BY <1>1, <1>2, <1>3, <1>4, <1>6, <1>7 DEF IInv, TypeOK, Taxi!TypeOK, Rider!TypeOK

LEMMA SpecIInv == Spec => []IInv
BY InitIInv, StepKeepsIInv, PTL DEF Spec

\* The types are kept: memories stay engines' and customers', and every message either topic
\* carries is one of the protocol, whoever sent it.
THEOREM TypeCorrect == Spec => []TypeOK
BY SpecIInv, PTL DEF IInv

-----------------------------------------------------------------------------
(* The central is used as it expects                                       *)

LEMMA SpecServes == Spec => P!Spec
<1>1. Init => P!Init
  BY SameStep DEF Init
<1>2. IInv /\ [Next]_vars => [P!Next]_(P!vars)
  BY StepServes DEF Serves
<1>3. QED BY <1>1, <1>2, SpecIInv, PTL DEF Spec, P!Spec

\* The system implements the central: taxis, customers, sensors, strays and the operator, whatever
\* they do and whoever has left meanwhile, only ever use KafkaServer as its environment may.
THEOREM CentralIsServed == Spec => CentralServes
<1>1. Init => Central!Init
  BY DEF Init
<1>2. IInv /\ [Next]_vars => [Central!Next]_(Central!vars)
  BY StepServes, SameStep DEF Serves, P!vars, Central!vars
<1>3. QED BY <1>1, <1>2, SpecIInv, PTL DEF Spec, CentralServes, Central!Spec

\* So the central carries customers in the system the way Carriage promises: nobody boards twice,
\* and riders are told of what happens to them when it happens.
THEOREM SystemCarries == Spec => P!CarriageImplemented
BY SpecServes, CentralAssumptions, P!CentralCarries, PTL

\* And no customer of the system is promised a taxi that is not on its way to it.
THEOREM SystemKeepsPromises == Spec => P!AssignmentAnnounced
BY SpecServes, CentralAssumptions, P!PromisesAreKept, PTL

\* And the map at the front end is the database's, once every request has been handled.
THEOREM SystemShowsTheMap == Spec => []P!MapFresh
BY SpecServes, CentralAssumptions, P!MapIsFresh, PTL

-----------------------------------------------------------------------------
(* Who is told to disconnect                                               *)

\* A taxi that works is connected, or the order to disconnect waits in its inbox: from the moment
\* its engine authenticates, so that a disconnection that was meant for an earlier engine of the
\* same taxi is still obeyed by the new one.
ToldToGo ==
    \A t \in Taxis :
        engine[t].life # "off" /\ ~engine[t].stop =>
            \/ db.taxis[t].connected
            \/ \E i \in DOMAIN responses[t] : responses[t][i].subject = "TAXI_DISCONNECT"

\* What reading on does to an inbox: the rest is a place nearer.
LEMMA ReadingOn ==
    ASSUME NEW S, NEW s \in Seq(S), s # <<>>
    PROVE  /\ Tail(s) \in Seq(S)
           /\ Head(s) = s[1] /\ 1 \in DOMAIN s
           /\ \A i \in DOMAIN Tail(s) : i + 1 \in DOMAIN s /\ Tail(s)[i] = s[i + 1]
           /\ \A i \in DOMAIN s : i # 1 => i - 1 \in DOMAIN Tail(s) /\ Tail(s)[i - 1] = s[i]
OBVIOUS

\* What the central writes to an inbox: what is there stays.
LEMMA WritingOn ==
    ASSUME IInv, CentralHandles, NEW s \in Subscribers
    PROVE  /\ responses' \in Inboxes
           /\ DOMAIN responses[s] \subseteq DOMAIN responses'[s]
           /\ \A i \in DOMAIN responses[s] : responses'[s][i] = responses[s][i]
           /\ \A i \in DOMAIN responses'[s] : i \notin DOMAIN responses[s] =>
                P!Says(responses', s, responses'[s][i])
<1>1. P!Inboxes = Inboxes /\ P!Subscribers = Subscribers
  BY DEF P!Inboxes, P!Subscribers, P!TaxiNotice, P!CustomerNotice, Inboxes, Subscribers,
         TaxiNotice, CustomerNotice
<1>2. /\ responses' \in Inboxes /\ responses \in Inboxes
      /\ Len(responses[s]) <= Len(responses'[s])
      /\ \A i \in 1..Len(responses[s]) : responses'[s][i] = responses[s][i]
  BY <1>1, HandlesStanding, TypesOfIInv DEF P!StandingTold, P!Longer
<1>3. /\ responses[s] \in Seq(TaxiNotice \cup CustomerNotice)
      /\ responses'[s] \in Seq(TaxiNotice \cup CustomerNotice)
  BY <1>2 DEF Inboxes
<1>4. ASSUME NEW i \in DOMAIN responses'[s], i \notin DOMAIN responses[s]
      PROVE  P!Says(responses', s, responses'[s][i])
  <2>1. i \in Len(responses[s]) + 1 .. Len(responses'[s])
    BY <1>3, <1>4
  <2>2. QED BY <2>1 DEF P!Says
<1>5. QED BY <1>2, <1>3, <1>4

\* A step that leaves t as it stands: nothing read, no flag but stop touched, and stop not cleared.
Undisturbed(t) ==
    /\ responses'[t] = responses[t]
    /\ engine'[t].life = "off" <=> engine[t].life = "off"
    /\ engine'[t].orderedToStop = engine[t].orderedToStop
    /\ engine[t].stop => engine'[t].stop

\* A step in which t reads an order, and obeys it.
Obeyed(t) ==
    /\ responses[t] # <<>> /\ responses'[t] = Tail(responses[t])
    /\ engine'[t].life = "running" /\ engine[t].life = "running"
    /\ LET s == Head(responses[t]).subject IN
        /\ s = "TAXI_STOP" => engine'[t].orderedToStop
        /\ s = "TAXI_CONTINUE" => ~engine'[t].orderedToStop
        /\ s \notin {"TAXI_STOP", "TAXI_CONTINUE"} =>
                engine'[t].orderedToStop = engine[t].orderedToStop
        /\ s = "TAXI_DISCONNECT" => engine'[t].stop
    /\ engine[t].stop => engine'[t].stop

\* What may happen to t while the central does not handle a request.
LEMMA Obeying ==
    ASSUME IInv, [Next]_vars, ~CentralHandles, NEW t \in Taxis
    PROVE  \/ TaxiRegisters(t)
           \/ TaxiLeaves(t) /\ engine' = [engine EXCEPT ![t] = Taxi!Fresh("off")]
                            /\ UNCHANGED responses
           \/ Undisturbed(t)
           \/ Obeyed(t)
<1>0. /\ responses \in Inboxes /\ engine \in [Taxis -> Taxi!Memory]
      /\ t \in Subscribers
  BY TypesOfIInv DEF Subscribers
<1>1. ASSUME UNCHANGED engine, responses'[t] = responses[t] PROVE Undisturbed(t)
  BY <1>1 DEF Undisturbed
<1>2. ASSUME NEW c \in Customers, NEW m, Rider!Next(c, m) PROVE responses'[t] = responses[t]
  <2>1. c # t /\ responses' = [responses EXCEPT ![c] = Tail(@)]
    BY <1>2, ClientsAssumption DEF Rider!Next
  <2>2. QED BY <1>0, <2>1 DEF Inboxes
<1>3. ASSUME NEW c \in Customers,
             CustomerActs(c) \/ CustomerGivesUp(c) \/ StrayCustomer(c) \/ Unheard(c)
      PROVE  Undisturbed(t)
  <2>1. CASE Unheard(c)
    <3>1. c # t /\ responses' = [responses EXCEPT ![c] = Tail(@)] /\ UNCHANGED engine
      BY <2>1, ClientsAssumption DEF Unheard, Central!Read
    <3>2. QED BY <1>0, <1>1, <3>1 DEF Inboxes
  <2>2. CASE CustomerActs(c)
    <3>1. UNCHANGED responses \/ \E m : Rider!Next(c, m)
      BY <2>2
      DEF CustomerActs, Rider!Acts, Rider!Joins, Rider!IsWelcome, Rider!IsRefused, Rider!Asks,
          Rider!Follows, Rider!HearsNews, Rider!HearsOutcome, Rider!HearsDisconnect, Rider!Rests,
          Rider!GoesOn
    <3>2. QED BY <1>1, <1>2, <2>2, <3>1 DEF CustomerActs
  <2>3. QED
    BY <1>1, <1>3, <2>1, <2>2 DEF CustomerGivesUp, Rider!GivesUp, StrayCustomer
<1>4. ASSUME NEW u \in Taxis, u # t,
             TaxiRegisters(u) \/ TaxiStarts(u) \/ TaxiObeys(u) \/ TaxiDrives(u) \/ TaxiLeaves(u)
      PROVE  Undisturbed(t)
  <2>1. engine'[t] = engine[t]
    BY <1>4, EngineType
  <2>2. responses'[t] = responses[t]
    <3>1. CASE TaxiObeys(u)
      <4>1. UNCHANGED responses \/ responses' = [responses EXCEPT ![u] = Tail(@)]
        BY <3>1
        DEF TaxiObeys, Taxi!ObeysOrders, Taxi!HearsGoTo, Taxi!ReadsPosition, Taxi!AnswersArrived,
            Taxi!Redirects, Taxi!HearsStop, Taxi!HearsContinue, Taxi!HearsDisconnect, Taxi!Hears
      <4>2. QED BY <1>0, <1>4, <4>1 DEF Inboxes
    <3>2. CASE TaxiRegisters(u) \/ TaxiStarts(u) \/ TaxiDrives(u) \/ TaxiLeaves(u)
      BY <3>2
      DEF TaxiRegisters, Central!Register, TaxiStarts, Taxi!Starts, TaxiDrives, Taxi!SensorConnects,
          Taxi!Attends, Taxi!WaitFrame, Taxi!DriveFrame, Taxi!Drives, Taxi!Reports, TaxiLeaves,
          Taxi!Quits, Taxi!Exits, Taxi!SensorLeaves, Taxi!SensorNext, Taxi!SaysGoodbye, Taxi!Sensor
    <3>3. QED BY <1>4, <3>1, <3>2
  <2>3. QED BY <2>1, <2>2 DEF Undisturbed
<1>5. CASE TaxiObeys(t)
  <2>1. CASE Taxi!ReadsPosition(t) \/ Taxi!AnswersArrived(t) \/ Taxi!Redirects(t)
    BY <1>0, <2>1
    DEF Undisturbed, Taxi!ReadsPosition, Taxi!AnswersArrived, Taxi!Redirects, Taxi!Memory
  <2>2. ASSUME NEW s, Taxi!Hears(t, s)
        PROVE  /\ responses[t] # <<>> /\ responses'[t] = Tail(responses[t])
               /\ Head(responses[t]).subject = s
               /\ engine[t].life = "running" /\ ~engine[t].stop
    BY <1>0, <2>2 DEF Taxi!Hears, Taxi!Runs, Inboxes
  <2>3. CASE Taxi!HearsGoTo(t)
    <3>1. PICK k, p : engine' = [engine EXCEPT ![t].kafka = k, ![t].coord = p]
      BY <2>3 DEF Taxi!HearsGoTo
    <3>2. /\ engine'[t].life = engine[t].life
          /\ engine'[t].orderedToStop = engine[t].orderedToStop
      BY <1>0, <3>1 DEF Taxi!Memory
    <3>3. QED BY <2>2, <2>3, <3>2 DEF Taxi!HearsGoTo, Obeyed
  <2>4. CASE Taxi!HearsStop(t) \/ Taxi!HearsContinue(t)
    BY <1>0, <2>2, <2>4 DEF Taxi!HearsStop, Taxi!HearsContinue, Obeyed, Taxi!Memory
  <2>5. CASE Taxi!HearsDisconnect(t)
    BY <1>0, <2>2, <2>5 DEF Taxi!HearsDisconnect, Obeyed, Taxi!Memory
  <2>6. QED BY <1>5, <2>1, <2>3, <2>4, <2>5 DEF TaxiObeys, Taxi!ObeysOrders
<1>6. CASE TaxiStarts(t)
  BY <1>0, <1>6 DEF TaxiStarts, Taxi!Starts, Undisturbed, Taxi!Memory
<1>7. ASSUME NEW from, NEW to, Taxi!Sensor(t, from, to) PROVE Undisturbed(t)
  BY <1>0, <1>7 DEF Taxi!Sensor, Undisturbed, Taxi!Memory
<1>8. CASE TaxiDrives(t)
  <2>1. CASE Taxi!Drives(t)
    BY <1>0, <2>1 DEF Taxi!Drives, Undisturbed, Taxi!Memory
  <2>2. QED
    BY <1>7, <1>8, <2>1
    DEF TaxiDrives, Taxi!SensorConnects, Taxi!Attends, Taxi!WaitFrame, Taxi!DriveFrame, Taxi!Reports
<1>9. CASE TaxiLeaves(t)
  <2>1. CASE Taxi!Quits(t)
    BY <1>0, <2>1 DEF Taxi!Quits, Undisturbed, Taxi!Memory
  <2>2. CASE Taxi!Exits(t)
    BY <1>9, <2>2 DEF Taxi!Exits
  <2>3. QED
    BY <1>7, <1>9, <2>1, <2>2 DEF TaxiLeaves, Taxi!SensorLeaves, Taxi!SensorNext, Taxi!SaysGoodbye
<1>10. CASE \/ ClockTicks \/ RegistrationAnnounced \/ OperatorOrders \/ UNCHANGED vars
            \/ \E u \in Taxis : StrayTaxi(u)
  BY <1>1, <1>10
  DEF ClockTicks, RegistrationAnnounced, OperatorOrders, vars, StrayTaxi, Central!Tick,
      Central!Announce
<1>11. QED BY <1>3, <1>4, <1>5, <1>6, <1>8, <1>9, <1>10 DEF Next

LEMMA StepKeepsToldToGo ==
    IInv /\ ToldToGo /\ [Next]_vars => ToldToGo'
<1> SUFFICES ASSUME IInv, ToldToGo, [Next]_vars,
                    NEW t \in Taxis, engine'[t].life # "off", ~engine'[t].stop
             PROVE  \/ db'.taxis[t].connected
                    \/ \E i \in DOMAIN responses'[t] : responses'[t][i].subject = "TAXI_DISCONNECT"
  BY DEF ToldToGo
<1>0. /\ t \in Subscribers /\ responses \in Inboxes /\ db \in Db
      /\ engine \in [Taxis -> Taxi!Memory]
      /\ responses[t] \in Seq(TaxiNotice \cup CustomerNotice)
  BY TypesOfIInv DEF Subscribers, Inboxes
<1> DEFINE Told == \E i \in DOMAIN responses[t] : responses[t][i].subject = "TAXI_DISCONNECT"
<1>1. CASE CentralHandles
  <2>1. /\ engine[t].life # "off" /\ ~engine[t].stop /\ HasTaxi(db, t)
    BY <1>1, HandlesStanding DEF IInv, Registered
  <2>2. CASE Told
    BY <1>0, <1>1, <2>2, WritingOn
  <2>3. CASE db.taxis[t].connected
    <3>1. P!HasTaxi(db, t)
      BY <2>1 DEF P!HasTaxi, HasTaxi
    <3>2. db'.taxis[t].connected \/ P!Says(responses', t, P!Notice("TAXI_DISCONNECT"))
      BY <1>1, <2>3, <3>1, HandlesStanding DEF P!StandingTold
    <3>3. CASE P!Says(responses', t, P!Notice("TAXI_DISCONNECT"))
      <4>1. PICK i \in Len(responses[t]) + 1 .. Len(responses'[t]) :
                    responses'[t][i] = P!Notice("TAXI_DISCONNECT")
        BY <3>3 DEF P!Says
      <4>2. responses'[t] \in Seq(TaxiNotice \cup CustomerNotice)
        BY <1>0, <1>1, WritingOn DEF Inboxes
      <4>3. i \in DOMAIN responses'[t]
        BY <1>0, <4>1, <4>2
      <4>4. QED BY <4>1, <4>3 DEF P!Notice
    <3>4. QED BY <3>2, <3>3
  <2>4. QED BY <2>1, <2>2, <2>3 DEF ToldToGo
<1>2. CASE TaxiRegisters(t)
  <2>1. db' = [db EXCEPT !.taxis = [@ EXCEPT ![t] =
                 IF HasTaxi(db, t) THEN [db.taxis[t] EXCEPT !.connected = TRUE] ELSE NewTaxiRow]]
    BY <1>2
    DEF TaxiRegisters, Central!Register, Central!RegisterTaxi, Central!HasTaxi, HasTaxi,
        Central!NewTaxiRow, NewTaxiRow
  <2>2. db'.taxis[t].connected
    BY <1>0, <2>1 DEF HasTaxi, Db, NewTaxiRow, TaxiRow
  <2>3. QED BY <2>2
<1>3. CASE ~CentralHandles /\ ~TaxiRegisters(t)
  <2>1. db'.taxis[t] = db.taxis[t]
    <3>1. ASSUME NEW u \in Taxis, TaxiRegisters(u) PROVE db'.taxis[t] = db.taxis[t]
      BY <1>0, <1>3, <3>1
      DEF TaxiRegisters, Central!Register, Central!RegisterTaxi, Db
    <3>2. QED BY <1>3, <3>1, OthersLeaveCentral
  <2>2. Undisturbed(t) \/ Obeyed(t)
    <3>1. ASSUME engine' = [engine EXCEPT ![t] = Taxi!Fresh("off")] PROVE FALSE
      BY <1>0, <3>1 DEF Taxi!Fresh
    <3>2. QED BY <1>3, <3>1, Obeying
  <2>3. engine[t].life # "off" /\ ~engine[t].stop
    BY <2>2 DEF Undisturbed, Obeyed
  <2>4. CASE db.taxis[t].connected
    BY <2>1, <2>4
  <2>5. ASSUME NEW i \in DOMAIN responses[t], responses[t][i].subject = "TAXI_DISCONNECT"
        PROVE  \E j \in DOMAIN responses'[t] : responses'[t][j].subject = "TAXI_DISCONNECT"
    <3>1. CASE Undisturbed(t)
      BY <2>5, <3>1 DEF Undisturbed
    <3>2. CASE Obeyed(t)
      <4>1. i # 1
        BY <1>0, <2>5, <3>2, ReadingOn DEF Obeyed
      <4>2. i - 1 \in DOMAIN responses'[t] /\ responses'[t][i - 1] = responses[t][i]
        BY <1>0, <3>2, <4>1, ReadingOn DEF Obeyed
      <4>3. QED BY <2>5, <4>2
    <3>3. QED BY <2>2, <3>1, <3>2
  <2>6. QED BY <2>3, <2>4, <2>5 DEF ToldToGo
<1>4. QED BY <1>1, <1>2, <1>3

\* Strays, goodbyes, registrations and the operator's orders may overlap as they like: a taxi that
\* runs is one that the database has connected, unless its order to disconnect is underway.
THEOREM TaxisAreConnected == Spec => []ConnectedAgreement
<1>1. Init => ToldToGo
  BY DEF Init, Taxi!Init, Taxi!Fresh, ToldToGo
<1>2. ToldToGo => ConnectedAgreement
  BY DEF ToldToGo, ConnectedAgreement, OrderUnderway, Taxi!Runs
<1>3. QED BY <1>1, <1>2, SpecIInv, StepKeepsToldToGo, PTL DEF Spec

-----------------------------------------------------------------------------
(* Who has been told to stop                                               *)

Commands == {"TAXI_STOP", "TAXI_CONTINUE"}

\* With the inbox s still to be read, the central's flag is stored and the engine's is kept: what
\* the engine will have come to when it has read everything is what the central has stored.
Agrees(s, stored, kept) ==
    /\ (\A i \in DOMAIN s : s[i].subject \notin Commands) => stored = kept
    /\ \A i \in DOMAIN s :
            /\ s[i].subject \in Commands
            /\ \A j \in DOMAIN s : j > i => s[j].subject \notin Commands
            => (stored <=> s[i].subject = "TAXI_STOP")

\* A command that is written last decides.
LEMMA LastCommandDecides ==
    ASSUME NEW S, NEW s \in Seq(S), NEW m \in S, m.subject \in Commands,
           NEW stored \in BOOLEAN, stored <=> m.subject = "TAXI_STOP", NEW kept
    PROVE  Agrees(Append(s, m), stored, kept)
<1> DEFINE r == Append(s, m)
<1>1. /\ DOMAIN r = 1..Len(s) + 1 /\ Len(s) \in Nat /\ Len(s) + 1 \in DOMAIN r
      /\ r[Len(s) + 1] = m
  OBVIOUS
<1> HIDE DEF r
<1>2. \A i \in DOMAIN r : i = Len(s) + 1 \/ Len(s) + 1 > i
  BY <1>1
<1>3. QED BY <1>1, <1>2 DEF Agrees

\* What is no command changes nothing, as long as what is there stays.
LEMMA OtherNewsAgree ==
    ASSUME NEW S, NEW s \in Seq(S), NEW r \in Seq(S), NEW stored, NEW kept, Agrees(s, stored, kept),
           DOMAIN s \subseteq DOMAIN r, \A i \in DOMAIN s : r[i] = s[i],
           \A i \in DOMAIN r : i \notin DOMAIN s => r[i].subject \notin Commands
    PROVE  Agrees(r, stored, kept)
BY DEF Agrees

\* A command that is read moves from the inbox to the engine; anything else just goes.
LEMMA ReadingAgrees ==
    ASSUME NEW S, NEW s \in Seq(S), s # <<>>, NEW stored \in BOOLEAN, NEW kept \in BOOLEAN,
           NEW after \in BOOLEAN, Agrees(s, stored, kept),
           Head(s).subject = "TAXI_STOP" => after,
           Head(s).subject = "TAXI_CONTINUE" => ~after,
           Head(s).subject \notin Commands => after = kept
    PROVE  Agrees(Tail(s), stored, after)
<1> DEFINE r == Tail(s)
<1>0. DOMAIN s \subseteq Int /\ \A i \in DOMAIN r : i \in Int /\ i >= 1
  OBVIOUS
<1>1. /\ Head(s) = s[1] /\ 1 \in DOMAIN s
      /\ \A i \in DOMAIN r : i + 1 \in DOMAIN s /\ r[i] = s[i + 1]
      /\ \A i \in DOMAIN s : i # 1 => i - 1 \in DOMAIN r /\ r[i - 1] = s[i]
  BY ReadingOn
<1> HIDE DEF r
<1>2. ASSUME \A i \in DOMAIN r : r[i].subject \notin Commands
      PROVE  stored = after
  <2>1. \A i \in DOMAIN s : i # 1 => s[i].subject \notin Commands
    BY <1>1, <1>2
  <2>2. CASE s[1].subject \in Commands
    <3>1. stored <=> s[1].subject = "TAXI_STOP"
      BY <1>1, <2>1, <2>2 DEF Agrees
    <3>2. after <=> s[1].subject = "TAXI_STOP"
      BY <1>1, <2>2 DEF Commands
    <3>3. QED BY <3>1, <3>2
  <2>3. CASE s[1].subject \notin Commands
    <3>1. stored = kept
      BY <2>1, <2>3 DEF Agrees
    <3>2. QED BY <1>1, <2>3, <3>1
  <2>4. QED BY <2>2, <2>3
<1>3. ASSUME NEW i \in DOMAIN r, r[i].subject \in Commands,
             \A j \in DOMAIN r : j > i => r[j].subject \notin Commands
      PROVE  stored <=> r[i].subject = "TAXI_STOP"
  <2>1. i + 1 \in DOMAIN s /\ s[i + 1] = r[i]
    BY <1>1
  <2>2. ASSUME NEW j \in DOMAIN s, j > i + 1 PROVE s[j].subject \notin Commands
    <3>1. j # 1
      BY <1>0, <1>3, <2>2
    <3>2. j - 1 \in DOMAIN r /\ r[j - 1] = s[j] /\ j - 1 > i
      BY <1>0, <1>1, <2>2, <3>1
    <3>3. QED BY <1>3, <3>2
  <2>3. QED BY <1>3, <2>1, <2>2 DEF Agrees
<1>4. QED BY <1>2, <1>3 DEF Agrees, r

StopOrders == {"ORDER_TAXI_STOP", "ORDER_TAXI_CONTINUE"}

\* While nobody leaves, a taxi without a row has no engine and has been told nothing, and one that
\* has a row has been told, or will find in its inbox, what the row says.
Stops ==
    /\ dbUp = TRUE
    /\ \A t \in Taxis :
        /\ ~HasTaxi(db, t) =>
            /\ \A i \in DOMAIN requests :
                    requests[i].subject \in StopOrders => requests[i].taxiId # t
            /\ \A i \in DOMAIN responses[t] : responses[t][i].subject \notin Commands
        /\ engine[t].life = "off" => ~HasTaxi(db, t)
        /\ HasTaxi(db, t) => Agrees(responses[t], db.taxis[t].stopped, engine[t].orderedToStop)

\* The central takes its requests from the front, and keeps its connection.
LEMMA CentralConsumes ==
    ASSUME IInv, CentralHandles
    PROVE  /\ dbUp' = dbUp
           /\ requests # <<>> /\ P!request = Head(requests)
           /\ requests' = requests \/ requests' = Tail(requests)
<1>1. P!TypeOK /\ P!Handle
  BY TypesOfIInv, SameHandlers DEF CentralHandles
<1>2. P!IgnoreOtherSession \/ P!Handled
  BY <1>1, CentralAssumptions, P!EveryMessageHandled
<1>3. QED
  BY <1>2, ConnectionHolds
  DEF P!IgnoreOtherSession, P!Handled, P!Done, P!Abort, P!Pending, P!request

\* A customer whose program has ended.
Gone(c) == rider[c].stage \in {"gone", "failed"}

\* Who sends the requests that the central depends on: only the operator dismisses a customer that
\* still runs, a customer asks when its turn has come, a taxi that says it has arrived was sent, and
\* a registration is announced.
Means(m) ==
    /\ m.subject = "ORDER_CUSTOMER_DISCONNECT" => m \in Orders \/ Gone(m.id)
    /\ m.subject = "CUSTOMER_SERVICE_REQUEST" => m.id \in Customers /\ rider[m.id].stage = "asking"
    /\ m.subject = "TAXI_DESTINATION_REACHED" =>
            m.taxiId \in Taxis
            /\ (engine[m.taxiId].kafka = "answering" \/ engine[m.taxiId].sensor = "moved")
    /\ m.subject \in {"NEW_TAXI", "TAXI_RECONNECTED"} => m \in announcing

\* The others add to the requests at the end, order only taxis that the database has to stop or go
\* on, and leave it to the operator to send a taxi elsewhere.
Asks ==
    \/ requests' = requests
    \/ \E m \in Request :
        /\ requests' = Append(requests, m)
        /\ m.subject \in StopOrders => HasTaxi(db, m.taxiId)
        /\ m.subject \in P!Diversions => m \in Orders
        /\ Means(m)

LEMMA OthersAsk ==
    ASSUME IInv, [Next]_vars, ~CentralHandles
    PROVE  Asks
<1>1. ASSUME NEW m \in Request, m.subject \notin StopOrders \cup P!Diversions, Means(m),
             Taxi!Say(m) \/ Rider!Say(m)
      PROVE  Asks
  BY <1>1 DEF Asks, Taxi!Say, Rider!Say
<1>2. CASE OperatorOrders
  <2>1. PICK m \in Orders :
            /\ m.subject \in TaxiOrders \cup {"ORDER_TAXI_GO_TO"} => HasTaxi(db, m.taxiId)
            /\ Taxi!Say(m)
    BY <1>2 DEF OperatorOrders
  <2>2. m \in Request /\ (m.subject \in StopOrders => HasTaxi(db, m.taxiId))
    BY <2>1, OrdersAssumption DEF StopOrders, P!Diversions, TaxiOrders
  <2>3. m.subject \in GreenList
    BY OrdersAssumption
  <2>4. Means(m)
    BY <2>3 DEF Means, GreenList, TaxiOrders, CustomerOrders
  <2>5. QED BY <2>1, <2>2, <2>4 DEF Asks, Taxi!Say
<1>3. CASE RegistrationAnnounced
  <2>1. PICK m \in announcing : requests' = Append(requests, m)
    BY <1>3 DEF RegistrationAnnounced, Central!Announce
  <2>2. m \in Central!Registration
    BY <2>1 DEF IInv, TypeOK, Central!TypeOK
  <2>3. m \in Request /\ m.subject \notin StopOrders \cup P!Diversions
    BY <2>2, SessionsAssumption
    DEF Central!Registration, Request, TaxiSignals, StopOrders, P!Diversions
  <2>4. Means(m)
    BY <2>1, <2>2 DEF Means, Central!Registration
  <2>5. QED BY <2>1, <2>3, <2>4 DEF Asks
<1>4. ASSUME NEW t \in Taxis, TaxiStarts(t) \/ TaxiObeys(t) \/ TaxiDrives(t) \/ TaxiLeaves(t)
      PROVE  Asks
  <2>0. engine[t].pos \in Points /\ engine[t].coord \in Points
    BY TypesOfIInv DEF Taxi!Memory
  <2>1. ASSUME NEW s \in TaxiArrivals, NEW p \in Points, Taxi!Say(Taxi!Arrival(s, t, p)),
               engine[t].kafka = "answering" \/ engine[t].sensor = "moved"
        PROVE  Asks
    BY <1>1, <2>1, TaxiMessages DEF TaxiArrivals, StopOrders, P!Diversions, Means
  <2>2. ASSUME NEW s \in {"TAXI_READY", "TAXI_NOT_READY"}, Taxi!Say(Taxi!Signal(s, t)) PROVE Asks
    BY <1>1, <2>2, TaxiMessages DEF StopOrders, P!Diversions, Means
  <2>3. ASSUME NEW w \in Countdown, Taxi!Say(Taxi!WaitTime(t, w)) PROVE Asks
    BY <1>1, <2>3, TaxiMessages DEF StopOrders, P!Diversions, Means
  <2>4. CASE Taxi!AnswersArrived(t)
    BY <2>0, <2>1, <2>4 DEF Taxi!AnswersArrived, TaxiArrivals
  <2>5. CASE Taxi!SensorConnects(t) \/ Taxi!SensorLeaves(t)
    BY <2>2, <2>5 DEF Taxi!SensorConnects, Taxi!SensorLeaves
  <2>6. CASE Taxi!WaitFrame(t)
    <3>1. PICK w \in Frames \ {0} : \E left \in 0..w : Taxi!Say(Taxi!WaitTime(t, left))
      BY <2>6 DEF Taxi!WaitFrame
    <3>2. PICK left \in 0..w : Taxi!Say(Taxi!WaitTime(t, left))
      BY <3>1
    <3>3. left \in Countdown
      BY <3>1, FramesAssumption DEF Countdown
    <3>4. QED BY <2>3, <3>2, <3>3
  <2>7. CASE Taxi!Reports(t)
    <3> DEFINE s == IF engine[t].pos # engine[t].dest THEN "TAXI_MOVE" ELSE "TAXI_DESTINATION_REACHED"
    <3>1. /\ Taxi!Say(Taxi!Arrival(s, t, engine[t].pos)) /\ s \in TaxiArrivals
          /\ engine[t].sensor = "moved"
      BY <2>7 DEF Taxi!Reports, Taxi!Sensor, TaxiArrivals
    <3> HIDE DEF s
    <3>2. QED BY <2>0, <2>1, <3>1
  <2>8. CASE Taxi!SaysGoodbye(t)
    <3>1. [subject |-> "ORDER_TAXI_DISCONNECT", taxiId |-> t] \in Request
      BY DEF Request, TaxiOrders
    <3>2. QED BY <1>1, <2>8, <3>1 DEF Taxi!SaysGoodbye, StopOrders, P!Diversions, Means
  <2>9. CASE \/ TaxiStarts(t) \/ Taxi!HearsGoTo(t) \/ Taxi!ReadsPosition(t) \/ Taxi!Redirects(t)
             \/ Taxi!HearsStop(t) \/ Taxi!HearsContinue(t) \/ Taxi!HearsDisconnect(t)
             \/ Taxi!DriveFrame(t) \/ Taxi!Drives(t) \/ Taxi!Quits(t) \/ Taxi!Exits(t)
             \/ Taxi!SensorNext(t)
    BY <2>9
    DEF Asks, TaxiStarts, Taxi!Starts, Taxi!HearsGoTo, Taxi!ReadsPosition, Taxi!Redirects,
        Taxi!HearsStop, Taxi!HearsContinue, Taxi!HearsDisconnect, Taxi!Hears, Taxi!DriveFrame,
        Taxi!Drives, Taxi!Quits, Taxi!Exits, Taxi!SensorNext
  <2>10. QED
    BY <1>4, <2>4, <2>5, <2>6, <2>7, <2>8, <2>9
    DEF TaxiObeys, Taxi!ObeysOrders, TaxiDrives, Taxi!Attends, TaxiLeaves
<1>5. ASSUME NEW t \in Taxis, TaxiRegisters(t) \/ StrayTaxi(t) PROVE Asks
  <2>1. [subject |-> "ORDER_TAXI_DISCONNECT", taxiId |-> t] \in Request
    BY DEF Request, TaxiOrders
  <2>2. QED
    BY <1>1, <1>5, <2>1
    DEF Asks, TaxiRegisters, Central!Register, StrayTaxi, StopOrders, P!Diversions, Means
<1>6. ASSUME NEW c \in Customers,
             CustomerActs(c) \/ CustomerGivesUp(c) \/ StrayCustomer(c) \/ Unheard(c)
      PROVE  Asks
  <2>1. CASE Rider!Joins(c)
    <3>1. [subject |-> "NEW_CUSTOMER", id |-> c, coord |-> Home[c]] \in Request
      BY CustomersAssumption DEF Request
    <3>2. QED BY <1>1, <2>1, <3>1 DEF Rider!Joins, StopOrders, P!Diversions, Means
  <2>2. CASE Rider!Asks(c)
    <3>1. rider[c].index \in 1..Len(Wishes[c])
      BY <2>2 DEF IInv, Listed, Rider!Asks, Rider!At
    <3>2. Rider!Wish(c) \in Services
      BY <3>1, CustomersAssumption DEF Rider!Wish
    <3>3. [subject |-> "CUSTOMER_SERVICE_REQUEST", id |-> c, data |-> Rider!Wish(c),
           session |-> "current"] \in Request
      BY <3>2, SessionsAssumption DEF Request
    <3>4. QED BY <1>1, <2>2, <3>3 DEF Rider!Asks, Rider!At, StopOrders, P!Diversions, Means
  <2>3. CASE Rider!Rests(c)
    <3> DEFINE m == [subject |-> "CUSTOMER_UPDATE_NEXT_REQUEST", id |-> c,
                     data |-> IF rider[c].left > 1 THEN 1 ELSE 0, session |-> "current"]
    <3>1. m \in Request /\ m.subject \notin StopOrders \cup P!Diversions /\ Means(m)
      BY SessionsAssumption DEF Request, Countdown, StopOrders, P!Diversions, Means
    <3>2. Rider!Say(m)
      BY <2>3 DEF Rider!Rests
    <3> HIDE DEF m
    <3>3. QED BY <1>1, <3>1, <3>2
  <2>4. CASE StrayCustomer(c)
    <3>1. [subject |-> "ORDER_CUSTOMER_DISCONNECT", id |-> c] \in Request
      BY DEF Request, CustomerOrders
    <3>2. QED BY <1>1, <2>4, <3>1 DEF StrayCustomer, StopOrders, P!Diversions, Means, Gone
  <2>5. CASE \/ CustomerGivesUp(c) \/ Unheard(c) \/ Rider!IsWelcome(c) \/ Rider!IsRefused(c)
             \/ Rider!Follows(c) \/ Rider!GoesOn(c)
    BY <2>5
    DEF Asks, CustomerGivesUp, Rider!GivesUp, Unheard, Central!Read, Rider!IsWelcome,
        Rider!IsRefused,
        Rider!Follows, Rider!HearsNews, Rider!HearsOutcome, Rider!HearsDisconnect, Rider!Next,
        Rider!GoesOn
  <2>6. QED BY <1>6, <2>1, <2>2, <2>3, <2>4, <2>5 DEF CustomerActs, Rider!Acts
<1>7. CASE ClockTicks \/ UNCHANGED vars
  BY <1>7 DEF Asks, ClockTicks, Central!Tick, vars
<1>8. QED BY <1>2, <1>3, <1>4, <1>5, <1>6, <1>7 DEF Next

LEMMA DbStaysDb == P!TypeOK' => db' \in Db
<1>1. P!Db = Db
  BY DEF P!Db, Db, P!TaxiRow, TaxiRow, P!CustomerRow, CustomerRow, P!Countdown, Countdown
<1>2. QED BY <1>1 DEF P!TypeOK

\* What a step does to the requests that wait: those about a taxi without a row stay unheard of.
LEMMA NoOrdersForStrangers ==
    ASSUME IInv, Stops, [Next]_vars, NEW t \in Taxis, ~HasTaxi(db', t)
    PROVE  /\ ~HasTaxi(db, t)
           /\ \A i \in DOMAIN requests' :
                requests'[i].subject \in StopOrders => requests'[i].taxiId # t
<1>0. requests \in Seq(Request) /\ ~HasTaxi(db, t)
  BY TypesOfIInv, NobodyForgotten
<1> DEFINE Clear(s) == \A i \in DOMAIN s : s[i].subject \in StopOrders => s[i].taxiId # t
<1>1. Clear(requests)
  BY <1>0 DEF Stops
<1>2. CASE requests' = Tail(requests) /\ requests # <<>>
  <2>1. \A i \in DOMAIN Tail(requests) :
            i + 1 \in DOMAIN requests /\ Tail(requests)[i] = requests[i + 1]
    BY <1>0, <1>2, ReadingOn
  <2>2. QED BY <1>0, <1>1, <1>2, <2>1
<1>3. ASSUME NEW m \in Request, requests' = Append(requests, m),
             m.subject \in StopOrders => HasTaxi(db, m.taxiId)
      PROVE  Clear(requests')
  <2>1. \A i \in DOMAIN requests' : (i \in DOMAIN requests /\ requests'[i] = requests[i])
                                    \/ requests'[i] = m
    BY <1>0, <1>3
  <2>2. m.subject \in StopOrders => m.taxiId # t
    BY <1>0, <1>3
  <2>3. QED BY <1>1, <2>1, <2>2
<1>4. requests' = requests => Clear(requests')
  BY <1>1
<1>5. QED
  <2>1. CASE CentralHandles
    BY <1>0, <1>2, <1>4, <2>1, CentralConsumes
  <2>2. CASE ~CentralHandles
    BY <1>0, <1>3, <1>4, <2>2, OthersAsk DEF Asks
  <2>3. QED BY <2>1, <2>2

LEMMA StepKeepsStops ==
    ASSUME ~Leaving, IInv, Stops, [Next]_vars
    PROVE  Stops'
<1>0. /\ responses \in Inboxes /\ db \in Db /\ requests \in Seq(Request)
      /\ engine \in [Taxis -> Taxi!Memory]
      /\ \A t \in Taxis : t \in Subscribers
  BY TypesOfIInv DEF Subscribers
<1>1. dbUp' = TRUE
  BY CentralConsumes, OthersLeaveCentral DEF Stops
<1>2. ASSUME NEW t \in Taxis
      PROVE  /\ responses[t] \in Seq(TaxiNotice \cup CustomerNotice)
             /\ engine[t].orderedToStop \in BOOLEAN
             /\ HasTaxi(db, t) => db.taxis[t].stopped \in BOOLEAN
             /\ P!HasTaxi(db, t) <=> HasTaxi(db, t)
             /\ P!HasTaxi(db', t) <=> HasTaxi(db', t)
  BY <1>0 DEF Inboxes, Taxi!Memory, Db, HasTaxi, TaxiRow, P!HasTaxi
<1> DEFINE NotTold(t) == \A i \in DOMAIN responses[t] : responses[t][i].subject \notin Commands
           ToldAll(t) == Agrees(responses[t], db.taxis[t].stopped, engine[t].orderedToStop)
           Good(t) == /\ ~HasTaxi(db, t) => NotTold(t)
                      /\ engine[t].life = "off" => ~HasTaxi(db, t)
                      /\ HasTaxi(db, t) => ToldAll(t)
<1>3. \A t \in Taxis : Good(t)
  BY DEF Stops
<1>4. ASSUME NEW t \in Taxis, CentralHandles
      PROVE  Good(t)'
  <2>1. /\ HasTaxi(db', t) <=> HasTaxi(db, t)
        /\ engine' = engine
        /\ P!StopTold(t)
    BY <1>2, <1>4, HandlesStanding DEF P!StandingTold
  <2>2. /\ responses'[t] \in Seq(TaxiNotice \cup CustomerNotice)
        /\ DOMAIN responses[t] \subseteq DOMAIN responses'[t]
        /\ \A i \in DOMAIN responses[t] : responses'[t][i] = responses[t][i]
        /\ \A i \in DOMAIN responses'[t] : i \notin DOMAIN responses[t] =>
             P!Says(responses', t, responses'[t][i])
    BY <1>0, <1>4, WritingOn DEF Inboxes
  <2>3. CASE /\ \A n : P!Says(responses', t, n) => n.subject \notin {"TAXI_STOP", "TAXI_CONTINUE"}
             /\ P!HasTaxi(db, t) => db'.taxis[t].stopped = db.taxis[t].stopped
    <3>1. \A i \in DOMAIN responses'[t] : i \notin DOMAIN responses[t] =>
             responses'[t][i].subject \notin Commands
      BY <2>2, <2>3 DEF Commands
    <3>2. NotTold(t) => NotTold(t)'
      BY <2>2, <3>1
    <3>3. ASSUME HasTaxi(db, t) PROVE ToldAll(t)'
      <4>1. ToldAll(t) /\ db'.taxis[t].stopped = db.taxis[t].stopped
        BY <1>2, <1>3, <2>3, <3>3
      <4>2. Agrees(responses'[t], db.taxis[t].stopped, engine[t].orderedToStop)
        BY <1>2, <2>2, <3>1, <4>1, OtherNewsAgree
      <4>3. QED BY <2>1, <4>1, <4>2
    <3>4. QED BY <1>3, <2>1, <3>2, <3>3
  <2>4. ASSUME NEW order \in StopOrders, NEW notice \in Commands,
               P!request.subject = order, P!request.taxiId = t,
               responses'[t] = Append(responses[t], P!Notice(notice)),
               HasTaxi(db, t) => (db'.taxis[t].stopped <=> notice = "TAXI_STOP")
        PROVE  Good(t)'
    <3>1. HasTaxi(db, t)
      <4>1. P!request = requests[1] /\ 1 \in DOMAIN requests
        BY <1>0, <1>4, CentralConsumes
      <4>2. QED BY <2>4, <4>1 DEF Stops
    <3>2. db'.taxis[t].stopped \in BOOLEAN
      <4>1. P!TypeOK'
        BY CentralType
      <4>2. db' \in Db
        BY <4>1, DbStaysDb
      <4>3. QED BY <2>1, <3>1, <4>2 DEF Db, HasTaxi, TaxiRow
    <3>3. P!Notice(notice) \in TaxiNotice \cup CustomerNotice /\ P!Notice(notice).subject = notice
      BY DEF P!Notice, TaxiNotice, Commands
    <3>4. Agrees(responses'[t], db'.taxis[t].stopped, engine'[t].orderedToStop)
      BY <1>2, <2>4, <3>1, <3>2, <3>3, LastCommandDecides
    <3>5. QED BY <1>3, <2>1, <3>1, <3>4
  <2> HIDE DEF Good
  <2>5. dbUp
    BY DEF Stops
  <2>6. QED BY <1>2, <2>1, <2>3, <2>4, <2>5 DEF P!StopTold, StopOrders, Commands
<1>5. ASSUME NEW t \in Taxis, ~CentralHandles
      PROVE  Good(t)'
  <2>1. CASE TaxiRegisters(t)
    <3>1. engine[t].life = "off" /\ engine' = [engine EXCEPT ![t] = Taxi!Fresh("authenticating")]
      BY <2>1 DEF TaxiRegisters, Taxi!Authenticates
    <3>2. ~HasTaxi(db, t) /\ NotTold(t)
      BY <1>3, <3>1
    <3>3. db' = [db EXCEPT !.taxis = [@ EXCEPT ![t] = NewTaxiRow]] /\ UNCHANGED responses
      BY <2>1, <3>2
      DEF TaxiRegisters, Central!Register, Central!RegisterTaxi, Central!HasTaxi, HasTaxi,
          Central!NewTaxiRow, NewTaxiRow
    <3>4. db'.taxis[t].stopped = FALSE
      BY <1>0, <3>3 DEF Db, NewTaxiRow
    <3>5. engine'[t].orderedToStop = FALSE /\ engine'[t].life # "off"
      BY <1>0, <3>1 DEF Taxi!Fresh
    <3>6. HasTaxi(db', t)
      BY <2>1, NobodyForgotten
    <3>7. ToldAll(t)'
      BY <3>2, <3>3, <3>4, <3>5 DEF Agrees
    <3>8. QED BY <3>5, <3>6, <3>7
  <2>2. CASE ~TaxiRegisters(t)
    <3>1. Undisturbed(t) \/ Obeyed(t)
      BY <1>5, <2>2, Obeying DEF TaxiLeaves
    <3>2. db'.taxis[t] = db.taxis[t]
      <4>1. ASSUME NEW u \in Taxis, TaxiRegisters(u) PROVE db'.taxis[t] = db.taxis[t]
        BY <1>0, <2>2, <4>1 DEF TaxiRegisters, Central!Register, Central!RegisterTaxi, Db
      <4>2. QED BY <1>5, <4>1, OthersLeaveCentral
    <3>3. HasTaxi(db', t) <=> HasTaxi(db, t)
      BY <3>2 DEF HasTaxi
    <3>4. CASE Undisturbed(t)
      BY <1>3, <3>2, <3>3, <3>4 DEF Undisturbed
    <3>5. CASE Obeyed(t)
      <4>1. NotTold(t) => NotTold(t)'
        BY <1>2, <3>5, ReadingOn DEF Obeyed
      <4>2. ASSUME HasTaxi(db, t) PROVE ToldAll(t)'
        <5>1. engine'[t].orderedToStop \in BOOLEAN
          BY StepKeepsIInv DEF IInv, TypeOK, Taxi!TypeOK, Taxi!Memory
        <5>2. ToldAll(t) /\ db.taxis[t].stopped \in BOOLEAN
          BY <1>2, <1>3, <4>2
        <5>3. Agrees(Tail(responses[t]), db.taxis[t].stopped, engine'[t].orderedToStop)
          BY <1>2, <3>5, <5>1, <5>2, ReadingAgrees DEF Obeyed, Commands
        <5>4. QED BY <3>2, <3>5, <5>3 DEF Obeyed
      <4>3. QED BY <1>3, <3>3, <3>5, <4>1, <4>2 DEF Obeyed
    <3>6. QED BY <3>1, <3>4, <3>5
  <2>3. QED BY <2>1, <2>2
<1>6. \A t \in Taxis : Good(t)'
  BY <1>4, <1>5
<1>7. QED BY <1>1, <1>6, NoOrdersForStrangers DEF Stops

\* Before anything happens, nobody is ordered to stop, ...
LEMMA InitStops ==
    ASSUME Init
    PROVE  Stops
<1>1. requests = <<>> /\ responses = [s \in Central!Subscribers |-> <<>>] /\ dbUp = TRUE
      /\ db = Central!EmptyDb(Locations)
  BY DEF Init, Central!Init
<1>2. \A t \in Taxis : responses[t] = <<>> /\ ~HasTaxi(db, t)
  BY <1>1 DEF Central!Subscribers, Central!EmptyDb, HasTaxi
<1>3. QED BY <1>1, <1>2 DEF Stops

\* Orders to stop and to go on reach a taxi in the order in which the central stored them: when none
\* is underway, engine and database agree.  Only an engine that leaves and is started again has
\* forgotten what the database still stores of it, so this is of systems that nobody leaves.
THEOREM StopsAreAgreed ==
    ~Leaving => (Spec => []StopAgreement)
<1> SUFFICES ASSUME ~Leaving PROVE Spec => []StopAgreement
  OBVIOUS
<1>1. Init => Stops
  BY InitStops
<1>2. IInv /\ Stops => StopAgreement
  <2> SUFFICES ASSUME IInv, Stops, NEW t \in Taxis, Taxi!Runs(t),
                      ~OrderUnderway(t, "ORDER_TAXI_STOP", "TAXI_STOP"),
                      ~OrderUnderway(t, "ORDER_TAXI_CONTINUE", "TAXI_CONTINUE")
               PROVE  db.taxis[t].stopped = engine[t].orderedToStop
    BY DEF StopAgreement
  <2>1. HasTaxi(db, t)
    BY DEF IInv, Registered, Taxi!Runs
  <2>2. \A i \in DOMAIN responses[t] : responses[t][i].subject \notin Commands
    BY DEF OrderUnderway, Commands
  <2>3. QED BY <2>1, <2>2 DEF Stops, Agrees
<1>3. IInv /\ Stops /\ [Next]_vars => Stops'
  BY StepKeepsStops
<1>4. QED BY <1>1, <1>2, <1>3, SpecIInv, PTL DEF Spec

-----------------------------------------------------------------------------
(* Who is on board                                                         *)

\* The operator may send a taxi elsewhere, which takes its customer's seat.
SendsAway == \E m \in Orders : m.subject \in P!Diversions

\* Nobody else asks for it.
Undiverted ==
    \A i \in DOMAIN requests : requests[i].subject \in P!Diversions => requests[i] \in Orders

LEMMA StepKeepsUndiverted ==
    IInv /\ Undiverted /\ [Next]_vars => Undiverted'
<1> SUFFICES ASSUME IInv, Undiverted, [Next]_vars PROVE Undiverted'
  OBVIOUS
<1>0. requests \in Seq(Request)
  BY TypesOfIInv
<1>1. CASE CentralHandles
  <2>1. CASE requests' = requests
    BY <2>1 DEF Undiverted
  <2>2. CASE requests' = Tail(requests) /\ requests # <<>>
    <3>1. \A i \in DOMAIN Tail(requests) :
            i + 1 \in DOMAIN requests /\ Tail(requests)[i] = requests[i + 1]
      BY <1>0, <2>2, ReadingOn
    <3>2. QED BY <2>2, <3>1 DEF Undiverted
  <2>3. QED BY <1>1, <2>1, <2>2, CentralConsumes
<1>2. CASE ~CentralHandles
  <2>1. CASE requests' = requests
    BY <2>1 DEF Undiverted
  <2>2. ASSUME NEW m \in Request, requests' = Append(requests, m),
               m.subject \in P!Diversions => m \in Orders
        PROVE  Undiverted'
    <3>1. \A i \in DOMAIN requests' : (i \in DOMAIN requests /\ requests'[i] = requests[i])
                                      \/ requests'[i] = m
      BY <1>0, <2>2
    <3>2. QED BY <2>2, <3>1 DEF Undiverted
  <2>3. QED BY <1>2, <2>1, <2>2, OthersAsk DEF Asks
<1>3. QED BY <1>1, <1>2

\* Unless the operator sends it away, no taxi loses its customer: whoever the database says rides
\* has a seat in some taxi, with any number of taxis and whoever leaves.
THEOREM RidersKeepTheirSeats ==
    ~SendsAway => (Spec => []P!RidersAreCarried)
<1> SUFFICES ASSUME ~SendsAway PROVE Spec => []P!RidersAreCarried
  OBVIOUS
<1>1. Init => Undiverted /\ P!RidersAreCarried
  <2> SUFFICES ASSUME Init PROVE Undiverted /\ P!RidersAreCarried
    OBVIOUS
  <2>1. requests = <<>> /\ db = Central!EmptyDb(Locations)
    BY DEF Init, Central!Init
  <2>2. \A c \in Customers : ~P!HasCustomer(db, c)
    BY <2>1 DEF Central!EmptyDb, P!HasCustomer
  <2>3. QED BY <2>1, <2>2 DEF Undiverted, P!RidersAreCarried
<1>2. IInv /\ IInv' /\ Undiverted /\ P!RidersAreCarried /\ [Next]_vars => P!RidersAreCarried'
  <2> SUFFICES ASSUME IInv, IInv', Undiverted, P!RidersAreCarried, [Next]_vars
               PROVE  P!RidersAreCarried'
    OBVIOUS
  <2>1. P!TypeOK /\ P!TypeOK' /\ [P!Next]_(P!vars)
    BY TypesOfIInv, CentralType, StepServes DEF Serves
  <2>2. P!SeatStep
    BY <2>1, CentralAssumptions, P!StepSeats
  <2>3. ASSUME NEW t \in Taxis, P!Diverted(t) PROVE FALSE
    <3>1. requests # <<>> /\ Head(requests).subject \in P!Diversions
      BY <2>3 DEF P!Diverted, P!request
    <3>2. Head(requests) = requests[1] /\ 1 \in DOMAIN requests
      BY <3>1, TypesOfIInv, ReadingOn
    <3>3. QED BY <3>1, <3>2 DEF Undiverted, SendsAway
  <2>4. QED BY <2>1, <2>2, <2>3, CentralAssumptions, P!StepKeepsRiders
<1>3. QED BY <1>1, <1>2, StepKeepsUndiverted, SpecIInv, PTL DEF Spec

\* With one taxi that the operator does not send away, the two tables agree on who is on board.  A
\* second taxi may head for a customer that the queue still has, and a customer that gets off one
\* then rides no more for the table of customers.
THEOREM TablesAgreeOnRiders ==
    (\A t, u \in Taxis : t = u) /\ ~SendsAway => (Spec => []OnboardAgreement)
<1> SUFFICES ASSUME \A t, u \in Taxis : t = u, ~SendsAway PROVE Spec => []OnboardAgreement
  OBVIOUS
<1>1. Spec => []P!CarriedRide
  <2>1. \A d \in {} : P!CarriedRideIn(d)
    OBVIOUS
  <2>2. QED BY <2>1, SpecServes, CentralAssumptions, P!CarriedCustomersRide, PTL
<1>2. Spec => []P!RidersAreCarried
  BY RidersKeepTheirSeats
<1>3. P!CarriedRide /\ P!RidersAreCarried => OnboardAgreement
  BY NoneAssumption
  DEF P!CarriedRide, P!CarriedRideIn, P!RidersAreCarried, OnboardAgreement, P!HasCustomer,
      HasCustomer, P!CarriedBy, CarriedBy, P!HasTaxi, HasTaxi
<1>4. QED BY <1>1, <1>2, <1>3, PTL

-----------------------------------------------------------------------------
(* Why the central survives                                                *)

\* The operator may dismiss a customer whose program runs.
Dismisses == \E m \in Orders : m.subject = "ORDER_CUSTOMER_DISCONNECT"

\* Every customer's letter is a location.
LettersLocated == \A c \in Customers : Locations[LetterOf[c]] # None

\* The engine of t is bound for somewhere, or about to say that it is there.
Underway(t) ==
    \/ engine[t].kafka # "reading" \/ engine[t].pos # engine[t].dest
    \/ engine[t].sensor \in {"driving", "moved"}

\* It will be: it is told to go somewhere.
Sent(t) ==
    Underway(t) \/ \E i \in DOMAIN responses[t] : responses[t][i].subject = "TAXI_GO_TO"

\* It was: it has said that it is there.
Arriving(t) ==
    \E i \in DOMAIN requests :
        requests[i].subject = "TAXI_DESTINATION_REACHED" /\ requests[i].taxiId = t

\* From the order to the report, the central knows for which customer t is underway.
OnErrands == \A t \in Taxis : Sent(t) \/ Arriving(t) => ServiceOf(db, t) # None

\* Taxis are announced once they are stored.
Enlisted ==
    /\ \A m \in announcing : HasTaxi(db, m.taxiId)
    /\ \A i \in DOMAIN requests :
        requests[i].subject \in {"NEW_TAXI", "TAXI_RECONNECTED"} => HasTaxi(db, requests[i].taxiId)

\* A customer keeps its row until its program has ended, and beyond what it has asked before.
Lodged ==
    /\ \A c \in joined : ~Gone(c) => HasCustomer(db, c)
    /\ \A i \in DOMAIN requests :
        /\ requests[i].subject = "ORDER_CUSTOMER_DISCONNECT" => Gone(requests[i].id)
        /\ requests[i].subject = "CUSTOMER_SERVICE_REQUEST" =>
            /\ HasCustomer(db, requests[i].id)
            /\ \A j \in DOMAIN requests :
                j < i /\ requests[j].subject = "ORDER_CUSTOMER_DISCONNECT" =>
                    requests[j].id # requests[i].id

\* The central works, on a map that has a place for every letter.
Works ==
    /\ dbUp = TRUE /\ server = "running"
    /\ \A c \in Customers : HasLocation(db, LetterOf[c])

Safe == Works /\ OnErrands /\ Enlisted /\ Lodged

LEMMA OwnRows ==
    /\ \A d, t : P!HasTaxi(d, t) <=> HasTaxi(d, t)
    /\ \A d, c : P!HasCustomer(d, c) <=> HasCustomer(d, c)
    /\ \A d, t : P!ServiceOf(d, t) = ServiceOf(d, t)
    /\ \A d, l : P!HasLocation(d, l) <=> HasLocation(d, l)
BY DEF P!HasTaxi, HasTaxi, P!HasCustomer, HasCustomer, P!ServiceOf, ServiceOf, P!HasLocation,
       HasLocation

\* What the central depends on is so when it takes a request.
LEMMA CentralExpects ==
    ASSUME ~SendsAway, IInv, Undiverted, Safe, CentralHandles
    PROVE  P!Expected
<1>1. requests # <<>> /\ P!request = requests[1] /\ 1 \in DOMAIN requests
  BY CentralConsumes, TypesOfIInv, ReadingOn
<1>2. P!request.subject \notin P!Diversions
  BY <1>1 DEF Undiverted, SendsAway
<1>3. requests[1] \in P!Request
  BY <1>1, TypesOfIInv, SameTypes
<1>4. P!request.subject = "CUSTOMER_SERVICE_REQUEST" => P!HasCustomer(db, P!request.id)
  BY <1>1, OwnRows DEF Safe, Lodged
<1>5. P!request.subject \in {"NEW_TAXI", "TAXI_RECONNECTED"} => P!HasTaxi(db, P!request.taxiId)
  BY <1>1, OwnRows DEF Safe, Enlisted
<1>6. P!request.subject = "TAXI_DESTINATION_REACHED" => P!ServiceOf(db, P!request.taxiId) # None
  <2>1. P!request.subject = "TAXI_DESTINATION_REACHED" => P!request.taxiId \in Taxis
    BY <1>1, <1>3, CentralAssumptions, P!RequestMembers DEF P!TaxiArrivals
  <2>2. QED BY <1>1, <2>1, OwnRows DEF Safe, OnErrands, Arriving
<1>7. dbUp /\ \A c \in Customers : P!HasLocation(db, LetterOf[c])
  BY OwnRows DEF Safe, Works
<1>8. QED BY <1>2, <1>4, <1>5, <1>6, <1>7 DEF P!Expected

\* So it survives it, and has done with it.
LEMMA CentralSurvives ==
    ASSUME ~SendsAway, IInv, Undiverted, Safe, CentralHandles
    PROVE  /\ P!Survives
           /\ requests # <<>> /\ requests' = Tail(requests)
           /\ announcing' = announcing /\ UNCHANGED <<engine, rider>>
<1>1. P!TypeOK /\ P!Handle
  BY TypesOfIInv, SameHandlers DEF CentralHandles
<1>2. P!Survives
  BY <1>1, CentralExpects, CentralAssumptions, P!ExpectedSurvives
<1>3. server' = "running"
  BY <1>2 DEF P!Survives, Safe, Works
<1>4. P!IgnoreOtherSession \/ P!Handled
  BY <1>1, CentralAssumptions, P!EveryMessageHandled
<1>5. ~\E d, answered : P!Abort(d, answered)
  BY <1>3 DEF P!Abort
<1>6. requests # <<>> /\ requests' = Tail(requests) /\ announcing' = announcing
  BY <1>4, <1>5, ConnectionHolds DEF P!IgnoreOtherSession, P!Handled, P!Done, P!Pending
<1>7. QED BY <1>2, <1>6 DEF CentralHandles

LEMMA OthersKeepRows ==
    ASSUME IInv, [Next]_vars, ~CentralHandles
    PROVE  P!Richer(db, db') /\ db'.customers = db.customers
<1>0. P!TypeOK /\ P!Db = Db
  BY TypesOfIInv
  DEF P!Db, Db, P!TaxiRow, TaxiRow, P!CustomerRow, CustomerRow, P!Countdown, Countdown
<1>1. CASE db' = db
  BY <1>1 DEF P!Richer
<1>2. ASSUME NEW t \in Taxis, TaxiRegisters(t)
      PROVE  P!Richer(db, db') /\ db'.customers = db.customers
  <2>1. db' = P!RegisterTaxi(db, t)
    BY <1>2, SameRows DEF TaxiRegisters, Central!Register
  <2>2. db \in P!Db
    BY <1>0, TypesOfIInv
  <2>3. QED BY <2>1, <2>2, CentralAssumptions, P!RegisteringIsRicher
<1>3. QED BY <1>1, <1>2, OthersLeaveCentral

\* No step of the system takes a service or a location away.
LEMMA NothingLost ==
    ASSUME ~SendsAway, IInv, Undiverted, Safe, [Next]_vars
    PROVE  /\ \A t \in Taxis : ServiceOf(db, t) # None => ServiceOf(db', t) # None
           /\ \A l \in Services : HasLocation(db, l) => HasLocation(db', l)
<1>1. P!Richer(db, db')
  BY CentralSurvives, OthersKeepRows DEF P!Survives
<1>2. QED BY <1>1, OwnRows DEF P!Richer

LEMMA StepKeepsWorks ==
    ASSUME ~SendsAway, IInv, Undiverted, Safe, [Next]_vars
    PROVE  Works'
<1>1. dbUp' = TRUE
  BY CentralConsumes, OthersLeaveCentral DEF Safe, Works
<1>2. server' = "running"
  BY CentralSurvives, OthersLeaveCentral DEF Safe, Works, P!Survives
<1>3. \A c \in Customers : HasLocation(db', LetterOf[c])
  BY NothingLost, LetterAssumption DEF Safe, Works
<1>4. QED BY <1>1, <1>2, <1>3 DEF Works

\* An engine gets underway only by an order to go somewhere.
LEMMA SetsOutWhenTold ==
    ASSUME IInv, NEW t \in Taxis, Underway(t)', ~Underway(t),
           TaxiRegisters(t) \/ TaxiStarts(t) \/ TaxiObeys(t) \/ TaxiDrives(t) \/ TaxiLeaves(t)
    PROVE  responses[t] # <<>> /\ Head(responses[t]).subject = "TAXI_GO_TO"
<1>0. engine \in [Taxis -> Taxi!Memory] /\ engine[t] \in Taxi!Memory
  BY TypesOfIInv
<1>1. ASSUME NEW life, engine' = [engine EXCEPT ![t] = Taxi!Fresh(life)] PROVE FALSE
  <2>1. engine'[t] = Taxi!Fresh(life)
    BY <1>0, <1>1
  <2>2. QED BY <2>1 DEF Underway, Taxi!Fresh
<1>2. ASSUME NEW from, NEW to, Taxi!Sensor(t, from, to), to \notin {"driving", "moved"} PROVE FALSE
  BY <1>0, <1>2 DEF Taxi!Sensor, Underway, Taxi!Memory
<1>3. CASE TaxiRegisters(t)
  BY <1>1, <1>3 DEF TaxiRegisters, Taxi!Authenticates
<1>4. CASE TaxiStarts(t)
  BY <1>0, <1>4 DEF TaxiStarts, Taxi!Starts, Underway, Taxi!Memory
<1>5. CASE TaxiObeys(t)
  <2>1. CASE Taxi!HearsGoTo(t)
    BY <2>1 DEF Taxi!HearsGoTo, Taxi!Hears
  <2>2. CASE Taxi!ReadsPosition(t) \/ Taxi!AnswersArrived(t) \/ Taxi!Redirects(t)
    BY <2>2 DEF Taxi!ReadsPosition, Taxi!AnswersArrived, Taxi!Redirects, Underway
  <2>3. CASE Taxi!HearsStop(t) \/ Taxi!HearsContinue(t) \/ Taxi!HearsDisconnect(t)
    BY <1>0, <2>3
    DEF Taxi!HearsStop, Taxi!HearsContinue, Taxi!HearsDisconnect, Underway, Taxi!Memory
  <2>4. QED BY <1>5, <2>1, <2>2, <2>3 DEF TaxiObeys, Taxi!ObeysOrders
<1>6. CASE TaxiDrives(t)
  <2>1. CASE Taxi!DriveFrame(t)
    BY <2>1 DEF Taxi!DriveFrame, Underway
  <2>2. CASE Taxi!Drives(t)
    BY <2>2 DEF Taxi!Drives, Underway
  <2>3. QED
    BY <1>2, <1>6, <2>1, <2>2
    DEF TaxiDrives, Taxi!SensorConnects, Taxi!Attends, Taxi!WaitFrame, Taxi!Reports
<1>7. CASE TaxiLeaves(t)
  <2>1. CASE Taxi!Quits(t)
    BY <1>0, <2>1 DEF Taxi!Quits, Underway, Taxi!Memory
  <2>2. CASE Taxi!Exits(t)
    BY <1>1, <2>2 DEF Taxi!Exits
  <2>3. QED
    BY <1>2, <1>7, <2>1, <2>2 DEF TaxiLeaves, Taxi!SensorLeaves, Taxi!SensorNext, Taxi!SaysGoodbye
<1>8. QED BY <1>3, <1>4, <1>5, <1>6, <1>7

\* Only the central sends taxis anywhere.
LEMMA OthersSendNobody ==
    ASSUME IInv, [Next]_vars, ~CentralHandles, NEW t \in Taxis, Sent(t)'
    PROVE  Sent(t)
<1>0. t \in Subscribers /\ responses[t] \in Seq(TaxiNotice \cup CustomerNotice)
  BY TypesOfIInv DEF Subscribers, Inboxes
<1>1. ASSUME NEW i \in DOMAIN responses'[t], responses'[t][i].subject = "TAXI_GO_TO"
      PROVE  Sent(t)
  <2>1. CASE responses'[t] = responses[t]
    BY <1>1, <2>1 DEF Sent
  <2>2. CASE responses[t] # <<>> /\ responses'[t] = Tail(responses[t])
    <3>1. i + 1 \in DOMAIN responses[t] /\ responses'[t][i] = responses[t][i + 1]
      BY <1>0, <1>1, <2>2, ReadingOn
    <3>2. QED BY <1>1, <3>1 DEF Sent
  <2>3. QED BY <1>0, <2>1, <2>2, OthersReadOn
<1>2. CASE Underway(t)'
  <2>1. \/ UNCHANGED engine
        \/ \E u \in Taxis : \/ TaxiRegisters(u) \/ TaxiStarts(u) \/ TaxiObeys(u) \/ TaxiDrives(u)
                            \/ TaxiLeaves(u)
    BY DEF Next, vars, CentralHandles, ClockTicks, RegistrationAnnounced, OperatorOrders, StrayTaxi,
           CustomerActs, CustomerGivesUp, StrayCustomer, Unheard
  <2>2. CASE engine'[t] = engine[t]
    BY <1>2, <2>2 DEF Underway, Sent
  <2>3. CASE TaxiRegisters(t) \/ TaxiStarts(t) \/ TaxiObeys(t) \/ TaxiDrives(t) \/ TaxiLeaves(t)
    <3>1. CASE Underway(t)
      BY <3>1 DEF Sent
    <3>2. CASE ~Underway(t)
      <4>1. responses[t] # <<>> /\ Head(responses[t]).subject = "TAXI_GO_TO"
        BY <1>2, <2>3, <3>2, SetsOutWhenTold
      <4>2. Head(responses[t]) = responses[t][1] /\ 1 \in DOMAIN responses[t]
        BY <1>0, <4>1, ReadingOn
      <4>3. QED BY <4>1, <4>2 DEF Sent
    <3>3. QED BY <3>1, <3>2
  <2>4. ASSUME NEW u \in Taxis, u # t,
               \/ TaxiRegisters(u) \/ TaxiStarts(u) \/ TaxiObeys(u) \/ TaxiDrives(u)
               \/ TaxiLeaves(u)
        PROVE  engine'[t] = engine[t]
    BY <2>4, EngineType
  <2>5. QED BY <2>1, <2>2, <2>3, <2>4
<1>3. QED BY <1>1, <1>2 DEF Sent

LEMMA StepKeepsErrands ==
    ASSUME ~SendsAway, IInv, Undiverted, Safe, [Next]_vars
    PROVE  OnErrands'
<1>0. requests \in Seq(Request)
  BY TypesOfIInv
<1> SUFFICES ASSUME NEW t \in Taxis, Sent(t)' \/ Arriving(t)'
             PROVE  ServiceOf(db', t) # None
  BY DEF OnErrands
<1>1. ASSUME Sent(t) \/ Arriving(t) PROVE ServiceOf(db', t) # None
  BY <1>1, NothingLost DEF Safe, OnErrands
<1>2. CASE CentralHandles
  <2>0. t \in Subscribers /\ P!Survives /\ UNCHANGED engine
        /\ requests # <<>> /\ requests' = Tail(requests)
    BY <1>2, CentralSurvives DEF Subscribers
  <2>1. ASSUME NEW i \in DOMAIN responses'[t], responses'[t][i].subject = "TAXI_GO_TO"
        PROVE  ServiceOf(db', t) # None
    <3>1. CASE i \in DOMAIN responses[t]
      <4>1. responses'[t][i] = responses[t][i]
        BY <1>2, <2>0, <3>1, WritingOn
      <4>2. QED BY <1>1, <2>1, <3>1, <4>1 DEF Sent
    <3>2. CASE i \notin DOMAIN responses[t]
      <4>1. P!Says(responses', t, responses'[t][i])
        BY <1>2, <2>0, <2>1, <3>2, WritingOn
      <4>2. QED BY <2>0, <2>1, <4>1, OwnRows DEF P!Survives, P!OnDuty
    <3>3. QED BY <3>1, <3>2
  <2>2. CASE Underway(t)'
    BY <1>1, <2>0, <2>2 DEF Underway, Sent
  <2>3. Arriving(t)' => Arriving(t)
    BY <1>0, <2>0, ReadingOn DEF Arriving
  <2>4. QED BY <1>1, <2>1, <2>2, <2>3 DEF Sent
<1>3. CASE ~CentralHandles
  <2>1. CASE Sent(t)'
    BY <1>1, <1>3, <2>1, OthersSendNobody
  <2>2. ASSUME NEW i \in DOMAIN requests',
               requests'[i].subject = "TAXI_DESTINATION_REACHED", requests'[i].taxiId = t
        PROVE  Sent(t) \/ Arriving(t)
    <3>1. CASE requests' = requests
      BY <2>2, <3>1 DEF Arriving
    <3>2. ASSUME NEW m \in Request, requests' = Append(requests, m), Means(m)
          PROVE  Sent(t) \/ Arriving(t)
      <4>1. (i \in DOMAIN requests /\ requests'[i] = requests[i]) \/ requests'[i] = m
        BY <1>0, <2>2, <3>2
      <4>2. QED BY <2>2, <3>2, <4>1 DEF Means, Sent, Underway, Arriving
    <3>3. QED BY <1>3, <3>1, <3>2, OthersAsk DEF Asks
  <2>3. QED BY <1>1, <2>1, <2>2 DEF Arriving
<1>4. QED BY <1>2, <1>3

\* What is announced was stored: before, or in this step.
LEMMA AnnouncedIsStored ==
    ASSUME ~SendsAway, IInv, Undiverted, Safe, [Next]_vars, NEW m \in announcing'
    PROVE  m \in announcing \/ (m.taxiId \in Taxis /\ HasTaxi(db', m.taxiId))
<1>1. CASE CentralHandles
  BY <1>1, CentralSurvives
<1>2. ASSUME NEW t \in Taxis, TaxiRegisters(t)
      PROVE  m \in announcing \/ (m.taxiId \in Taxis /\ HasTaxi(db', m.taxiId))
  <2>1. m \in announcing \/ m.taxiId = t
    BY <1>2 DEF TaxiRegisters, Central!Register
  <2>2. QED BY <1>2, <2>1, NobodyForgotten
<1>3. CASE ClockTicks \/ RegistrationAnnounced
  BY <1>3 DEF ClockTicks, RegistrationAnnounced, Central!Tick, Central!Announce
<1>4. CASE \E c \in Customers : Unheard(c)
  BY <1>4 DEF Unheard, Central!Read
<1>5. CASE UNCHANGED centralVars
  BY <1>5 DEF centralVars
<1>6. QED
  BY <1>1, <1>2, <1>3, <1>4, <1>5
  DEF Next, vars, OperatorOrders, TaxiStarts, TaxiObeys, TaxiDrives, TaxiLeaves, StrayTaxi,
      StrayCustomer, CustomerActs, CustomerGivesUp

LEMMA StepKeepsEnlisted ==
    ASSUME ~SendsAway, IInv, Undiverted, Safe, [Next]_vars
    PROVE  Enlisted'
<1>0. requests \in Seq(Request) /\ \A m \in announcing : m.taxiId \in Taxis
  BY TypesOfIInv DEF P!TypeOK, P!Registration
<1>1. \A m \in Request : m.subject \in {"NEW_TAXI", "TAXI_RECONNECTED"} => m.taxiId \in Taxis
  BY CentralAssumptions, SameTypes, P!RequestMembers DEF P!TaxiSignals
<1>2. \A t \in Taxis : HasTaxi(db, t) => HasTaxi(db', t)
  BY NobodyForgotten
<1>3. \A m \in announcing' : HasTaxi(db', m.taxiId)
  BY <1>0, <1>2, AnnouncedIsStored DEF Safe, Enlisted
<1>4. ASSUME NEW i \in DOMAIN requests,
             requests[i].subject \in {"NEW_TAXI", "TAXI_RECONNECTED"}
      PROVE  HasTaxi(db', requests[i].taxiId)
  <2>1. requests[i] \in Request
    BY <1>0
  <2>2. QED BY <1>1, <1>2, <1>4, <2>1 DEF Safe, Enlisted
<1>5. ASSUME NEW i \in DOMAIN requests',
             requests'[i].subject \in {"NEW_TAXI", "TAXI_RECONNECTED"}
      PROVE  HasTaxi(db', requests'[i].taxiId)
  <2>1. CASE CentralHandles
    <3>1. i + 1 \in DOMAIN requests /\ requests'[i] = requests[i + 1]
      BY <1>0, <1>5, <2>1, CentralSurvives, ReadingOn
    <3>2. QED BY <1>4, <1>5, <3>1
  <2>2. CASE ~CentralHandles
    <3>1. CASE requests' = requests
      BY <1>4, <1>5, <3>1
    <3>2. ASSUME NEW m \in Request, requests' = Append(requests, m), Means(m)
          PROVE  HasTaxi(db', requests'[i].taxiId)
      <4>1. (i \in DOMAIN requests /\ requests'[i] = requests[i]) \/ requests'[i] = m
        BY <1>0, <1>5, <3>2
      <4>2. m.subject \in {"NEW_TAXI", "TAXI_RECONNECTED"} => HasTaxi(db', m.taxiId)
        BY <1>0, <1>2, <3>2 DEF Means, Safe, Enlisted
      <4>3. QED BY <1>4, <1>5, <4>1, <4>2
    <3>3. QED BY <2>2, <3>1, <3>2, OthersAsk DEF Asks
  <2>3. QED BY <2>1, <2>2
<1>6. QED BY <1>3, <1>5 DEF Enlisted

\* A program that has ended stays so.
LEMMA GoneForGood ==
    ASSUME IInv, [Next]_vars, NEW c \in Customers, Gone(c)
    PROVE  Gone(c)'
<1>1. UNCHANGED rider \/ \E b \in Customers : CustomerActs(b) \/ CustomerGivesUp(b)
  BY DEF Next, vars, CentralHandles, ClockTicks, RegistrationAnnounced, OperatorOrders, StrayTaxi,
         StrayCustomer, Unheard, TaxiRegisters, TaxiStarts, TaxiObeys, TaxiDrives, TaxiLeaves
<1>2. ~CustomerActs(c) /\ ~CustomerGivesUp(c)
  BY DEF Gone, CustomerActs, CustomerGivesUp, Rider!GivesUp, Rider!Acts, Rider!Joins,
         Rider!IsWelcome, Rider!IsRefused, Rider!Asks, Rider!Follows, Rider!HearsNews,
         Rider!HearsOutcome, Rider!HearsDisconnect, Rider!Rests, Rider!GoesOn, Rider!At
<1>3. rider'[c] = rider[c]
  BY <1>1, <1>2, CustomerType
<1>4. QED BY <1>3 DEF Gone

\* The ids in the requests are those of customers.
LEMMA NamesInRequests ==
    ASSUME IInv, NEW i \in DOMAIN requests,
           requests[i].subject \in {"ORDER_CUSTOMER_DISCONNECT", "CUSTOMER_SERVICE_REQUEST"}
    PROVE  requests[i].id \in Customers
<1>1. requests[i] \in P!Request
  BY TypesOfIInv, SameTypes
<1>2. QED BY <1>1, CentralAssumptions, P!RequestMembers DEF P!CustomerOrders

LEMMA CentralKeepsLodged ==
    ASSUME ~SendsAway, IInv, Undiverted, Safe, CentralHandles
    PROVE  Lodged'
<1>0. /\ requests \in Seq(Request) /\ requests # <<>> /\ requests' = Tail(requests)
      /\ P!request = requests[1] /\ 1 \in DOMAIN requests
      /\ UNCHANGED rider /\ P!TypeOK /\ P!Handle /\ joined \subseteq Customers
  BY TypesOfIInv, CentralSurvives, CentralConsumes, ReadingOn, SameHandlers DEF CentralHandles
<1>1. ASSUME NEW c \in Customers, HasCustomer(db, c), ~HasCustomer(db', c)
      PROVE  requests[1].subject = "ORDER_CUSTOMER_DISCONNECT" /\ requests[1].id = c
  <2>1. P!HasCustomer(db, c) /\ ~P!HasCustomer(db', c)
    BY <1>1, OwnRows
  <2>2. QED BY <1>0, <2>1, CentralAssumptions, P!RowsGoByOrder
<1>2. ASSUME NEW c \in joined', ~Gone(c)
      PROVE  HasCustomer(db', c)
  <2>1. CASE c \in joined
    <3>1. c \in Customers /\ HasCustomer(db, c)
      BY <1>0, <1>2, <2>1 DEF Safe, Lodged
    <3>2. ~(requests[1].subject = "ORDER_CUSTOMER_DISCONNECT" /\ requests[1].id = c)
      BY <1>0, <1>2 DEF Safe, Lodged
    <3>3. QED BY <1>1, <3>1, <3>2
  <2>2. CASE c \notin joined
    BY <1>0, <1>2, <2>2, CentralAssumptions, OwnRows, P!AcceptedHaveRows
  <2>3. QED BY <2>1, <2>2
<1>3. /\ \A i \in DOMAIN requests' : i + 1 \in DOMAIN requests /\ requests'[i] = requests[i + 1]
      /\ \A i \in DOMAIN requests' : i \in Int /\ 1 < i + 1
  BY <1>0
<1>4. ASSUME NEW i \in DOMAIN requests', requests'[i].subject = "ORDER_CUSTOMER_DISCONNECT"
      PROVE  Gone(requests'[i].id)
  BY <1>3, <1>4 DEF Safe, Lodged
<1>5. ASSUME NEW i \in DOMAIN requests', requests'[i].subject = "CUSTOMER_SERVICE_REQUEST"
      PROVE  /\ HasCustomer(db', requests'[i].id)
             /\ \A j \in DOMAIN requests' :
                    j < i /\ requests'[j].subject = "ORDER_CUSTOMER_DISCONNECT" =>
                        requests'[j].id # requests'[i].id
  <2> DEFINE c == requests'[i].id
  <2>1. i + 1 \in DOMAIN requests /\ requests'[i] = requests[i + 1] /\ 1 < i + 1
    BY <1>3
  <2>2. /\ HasCustomer(db, c) /\ c \in Customers
        /\ \A j \in DOMAIN requests :
            j < i + 1 /\ requests[j].subject = "ORDER_CUSTOMER_DISCONNECT" => requests[j].id # c
    BY <1>5, <2>1, NamesInRequests DEF Safe, Lodged
  <2>3. HasCustomer(db', c)
    BY <1>0, <1>1, <2>1, <2>2
  <2>4. ASSUME NEW j \in DOMAIN requests', j < i,
               requests'[j].subject = "ORDER_CUSTOMER_DISCONNECT"
        PROVE  requests'[j].id # c
    <3>1. j + 1 \in DOMAIN requests /\ requests'[j] = requests[j + 1] /\ j + 1 < i + 1
      BY <1>3, <2>4
    <3>2. QED BY <2>2, <2>4, <3>1
  <2>5. QED BY <2>3, <2>4
<1>6. \A c : Gone(c)' <=> Gone(c)
  BY <1>0 DEF Gone
<1>7. QED BY <1>2, <1>4, <1>5, <1>6 DEF Lodged

LEMMA OthersKeepLodged ==
    ASSUME ~Dismisses, IInv, Safe, [Next]_vars, ~CentralHandles
    PROVE  Lodged'
<1> DEFINE Ended(c) == rider'[c].stage \in {"gone", "failed"}
<1>0. /\ requests \in Seq(Request) /\ joined' = joined /\ joined \subseteq Customers
      /\ \A c : HasCustomer(db', c) <=> HasCustomer(db, c)
      /\ \A c \in Customers : Gone(c) => Ended(c)
  BY TypesOfIInv, OthersLeaveCentral, OthersKeepRows, GoneForGood DEF HasCustomer, Gone
<1>1. \A c \in joined' : ~Ended(c) => HasCustomer(db', c)
  BY <1>0 DEF Safe, Lodged
<1>2. ASSUME NEW i \in DOMAIN requests, requests[i].subject = "ORDER_CUSTOMER_DISCONNECT"
      PROVE  Gone(requests[i].id) /\ Ended(requests[i].id)
  BY <1>0, <1>2, NamesInRequests DEF Safe, Lodged
<1>3. CASE requests' = requests
  <2>1. \A i \in DOMAIN requests' :
            requests'[i].subject = "ORDER_CUSTOMER_DISCONNECT" => Ended(requests'[i].id)
    BY <1>2, <1>3
  <2>2. QED BY <1>0, <1>1, <1>3, <2>1 DEF Safe, Lodged, Gone
<1>4. ASSUME NEW m \in Request, requests' = Append(requests, m), Means(m)
      PROVE  Lodged'
  <2>1. /\ DOMAIN requests' = DOMAIN requests \cup {Len(requests) + 1}
        /\ \A i \in DOMAIN requests : requests'[i] = requests[i]
        /\ requests'[Len(requests) + 1] = m
        /\ \A i \in DOMAIN requests : i < Len(requests) + 1
        /\ \A i, j \in DOMAIN requests' : j < i => j \in DOMAIN requests
    BY <1>0, <1>4
  <2>2. m.subject = "ORDER_CUSTOMER_DISCONNECT" => Ended(m.id)
    <3>1. m.subject = "ORDER_CUSTOMER_DISCONNECT" => m.id \in Customers
      BY CentralAssumptions, SameTypes, P!RequestMembers DEF P!CustomerOrders
    <3>2. QED BY <1>0, <1>4, <3>1 DEF Means, Dismisses
  <2>3. m.subject = "CUSTOMER_SERVICE_REQUEST" => HasCustomer(db', m.id) /\ ~Gone(m.id)
    BY <1>0, <1>4 DEF Means, IInv, Welcomed, Safe, Lodged, Gone
  <2>4. ASSUME NEW i \in DOMAIN requests'
        PROVE  requests'[i].subject = "ORDER_CUSTOMER_DISCONNECT" => Ended(requests'[i].id)
    BY <1>2, <2>1, <2>2
  <2>5. ASSUME NEW i \in DOMAIN requests', requests'[i].subject = "CUSTOMER_SERVICE_REQUEST"
        PROVE  HasCustomer(db', requests'[i].id)
    BY <1>0, <2>1, <2>3, <2>5 DEF Safe, Lodged
  <2>6. ASSUME NEW i \in DOMAIN requests', requests'[i].subject = "CUSTOMER_SERVICE_REQUEST",
               NEW j \in DOMAIN requests', j < i,
               requests'[j].subject = "ORDER_CUSTOMER_DISCONNECT"
        PROVE  requests'[j].id # requests'[i].id
    <3>1. j \in DOMAIN requests /\ requests'[j] = requests[j]
      BY <2>1, <2>6
    <3>2. CASE i \in DOMAIN requests
      BY <2>1, <2>6, <3>1, <3>2 DEF Safe, Lodged
    <3>3. CASE requests'[i] = m
      BY <1>2, <2>3, <2>6, <3>1, <3>3
    <3>4. QED BY <2>1, <3>2, <3>3
  <2>7. QED BY <1>1, <2>4, <2>5, <2>6 DEF Lodged, Gone
<1>5. QED BY <1>3, <1>4, OthersAsk DEF Asks

\* ... nobody is sent anywhere, and the central depends on nothing but the locations.
LEMMA InitSafe ==
    ASSUME LettersLocated, Init
    PROVE  Undiverted /\ Safe
<1>1. /\ requests = <<>> /\ announcing = {} /\ joined = {} /\ dbUp = TRUE
      /\ server = "running" /\ db = Central!EmptyDb(Locations)
      /\ responses = [s \in Central!Subscribers |-> <<>>]
  BY DEF Init, Central!Init
<1>2. ASSUME NEW t \in Taxis PROVE ~Sent(t)
  <2>1. engine[t] = Taxi!Fresh("off") /\ DOMAIN responses[t] = {}
    BY <1>1 DEF Central!Subscribers, Init, Taxi!Init
  <2>2. engine[t].kafka = "reading" /\ engine[t].pos = engine[t].dest /\ engine[t].sensor = "absent"
    BY <2>1 DEF Taxi!Fresh
  <2>3. QED BY <2>1, <2>2 DEF Sent, Underway
<1>3. \A c \in Customers : HasLocation(db, LetterOf[c])
  BY <1>1 DEF Central!EmptyDb, HasLocation, LettersLocated
<1>4. QED
  BY <1>1, <1>2, <1>3 DEF Undiverted, Safe, Works, OnErrands, Arriving, Enlisted, Lodged

\* What the central depends on stays so, whoever takes the step.
LEMMA StepKeepsSafe ==
    ASSUME ~SendsAway, ~Dismisses, IInv, Undiverted, Safe, [Next]_vars
    PROVE  Safe'
<1>1. Lodged'
  BY CentralKeepsLodged, OthersKeepLodged
<1>2. QED BY <1>1, StepKeepsWorks, StepKeepsErrands, StepKeepsEnlisted DEF Safe

\* The handlers trust their messages: one about a taxi or a customer that the database does not
\* have, or has no service for, throws, and nothing catches it.  As long as the operator neither
\* sends taxis away nor dismisses customers, and every customer's letter is a location, none of
\* them ever comes, with any number of taxis and customers and whoever leaves or joins again.
THEOREM CentralSurvivesAll ==
    ~SendsAway /\ ~Dismisses /\ LettersLocated => (Spec => []NeverAborts)
<1> SUFFICES ASSUME ~SendsAway, ~Dismisses, LettersLocated PROVE Spec => []NeverAborts
  OBVIOUS
<1>1. Init => Undiverted /\ Safe
  BY InitSafe
<1>2. IInv /\ Undiverted /\ Safe /\ [Next]_vars => Safe'
  BY StepKeepsSafe
<1>3. Safe => NeverAborts
  BY DEF Safe, Works, NeverAborts
<1>4. QED BY <1>1, <1>2, <1>3, StepKeepsUndiverted, SpecIInv, PTL DEF Spec

-----------------------------------------------------------------------------
(* What waits in a topic                                                   *)

\* None of the messages s has a subject in S.
Without(s, S) == \A i \in DOMAIN s : s[i].subject \notin S

\* The one that has is m.
Only(s, S, m) ==
    /\ m.subject \in S
    /\ \E i \in DOMAIN s : s[i] = m /\ \A j \in DOMAIN s : s[j].subject \in S => j = i

\* As to the subjects in S, r has what s had.
Keeps(s, r, S) ==
    /\ Without(s, S) => Without(r, S)
    /\ \A m : Only(s, S, m) => Only(r, S, m)

\* Reading a message that is not of S keeps those that are, ...
LEMMA KeepsReading ==
    ASSUME NEW M, NEW s \in Seq(M), s # <<>>, NEW S, Head(s).subject \notin S
    PROVE  Keeps(s, Tail(s), S)
<1>1. Without(s, S) => Without(Tail(s), S)
  BY ReadingOn DEF Without
<1>2. ASSUME NEW m, Only(s, S, m) PROVE Only(Tail(s), S, m)
  <2>1. PICK i \in DOMAIN s : s[i] = m /\ \A j \in DOMAIN s : s[j].subject \in S => j = i
    BY <1>2 DEF Only
  <2>2. i # 1 /\ i - 1 \in DOMAIN Tail(s) /\ Tail(s)[i - 1] = m
    BY <1>2, <2>1, ReadingOn DEF Only
  <2>3. ASSUME NEW j \in DOMAIN Tail(s), Tail(s)[j].subject \in S PROVE j = i - 1
    <3>1. j + 1 \in DOMAIN s /\ Tail(s)[j] = s[j + 1] /\ j \in Int /\ i \in Int
      BY ReadingOn
    <3>2. j + 1 = i
      BY <2>1, <2>3, <3>1
    <3>3. QED BY <3>1, <3>2
  <2>4. QED BY <1>2, <2>2, <2>3 DEF Only
<1>3. QED BY <1>1, <1>2 DEF Keeps

\* What is written: the old ones and one more.
LEMMA Writing ==
    ASSUME NEW M, NEW s \in Seq(M), NEW m \in M
    PROVE  /\ Append(s, m) \in Seq(M)
           /\ DOMAIN Append(s, m) = DOMAIN s \cup {Len(s) + 1}
           /\ Append(s, m)[Len(s) + 1] = m
           /\ \A i \in DOMAIN s : i < Len(s) + 1 /\ Append(s, m)[i] = s[i]
OBVIOUS

\* ... and so does writing one, ...
LEMMA KeepsWriting ==
    ASSUME NEW M, NEW s \in Seq(M), NEW m \in M, NEW S, m.subject \notin S
    PROVE  Keeps(s, Append(s, m), S)
<1>1. Without(s, S) => Without(Append(s, m), S)
  BY Writing DEF Without
<1>2. ASSUME NEW n, Only(s, S, n) PROVE Only(Append(s, m), S, n)
  BY <1>2, Writing DEF Only
<1>3. QED BY <1>1, <1>2 DEF Keeps

\* ... doing nothing, ...
LEMMA KeepsItself == \A s, S : Keeps(s, s, S)
BY DEF Keeps

\* ... and writing several.
LEMMA KeepsLonger ==
    ASSUME NEW M, NEW s \in Seq(M), NEW r \in Seq(M), NEW S,
           DOMAIN s \subseteq DOMAIN r, \A i \in DOMAIN s : r[i] = s[i],
           \A i \in DOMAIN r : i \notin DOMAIN s => r[i].subject \notin S
    PROVE  Keeps(s, r, S)
BY DEF Keeps, Without, Only

\* The only one of S is read: it is the one, and none is left.
LEMMA OnlyRead ==
    ASSUME NEW M, NEW s \in Seq(M), s # <<>>, NEW S, NEW m, Only(s, S, m), Head(s).subject \in S
    PROVE  Head(s) = m /\ Without(Tail(s), S)
<1>1. PICK i \in DOMAIN s : s[i] = m /\ \A j \in DOMAIN s : s[j].subject \in S => j = i
  BY DEF Only
<1>2. i = 1 /\ Head(s) = m
  BY <1>1, ReadingOn
<1>3. ASSUME NEW j \in DOMAIN Tail(s), Tail(s)[j].subject \in S PROVE FALSE
  <2>1. j + 1 \in DOMAIN s /\ Tail(s)[j] = s[j + 1] /\ j \in Nat \ {0}
    BY ReadingOn
  <2>2. j + 1 = 1
    BY <1>1, <1>2, <1>3, <2>1
  <2>3. QED BY <2>1, <2>2
<1>4. QED BY <1>2, <1>3 DEF Without

\* One of S is written where there was none.
LEMMA OnlyWritten ==
    ASSUME NEW M, NEW s \in Seq(M), NEW m \in M, NEW S, Without(s, S), m.subject \in S
    PROVE  Only(Append(s, m), S, m)
<1>1. \A j \in DOMAIN Append(s, m) : Append(s, m)[j].subject \in S => j = Len(s) + 1
  BY Writing DEF Without
<1>2. Len(s) + 1 \in DOMAIN Append(s, m) /\ Append(s, m)[Len(s) + 1] = m
  BY Writing
<1>3. QED BY <1>1, <1>2 DEF Only

\* Where there is none of S, none is read.
LEMMA WithoutReads ==
    ASSUME NEW M, NEW s \in Seq(M), s # <<>>, NEW S, Without(s, S)
    PROVE  Head(s).subject \notin S
BY ReadingOn DEF Without

\* What a ride consists of, in each topic; the registrations.
Calls == P!Calls
Entries == {"NEW_TAXI", "TAXI_RECONNECTED"}
Drives == {"TAXI_GO_TO"}
Outcomes == {"CUSTOMER_SERVICE_COMPLETED", "CUSTOMER_SERVICE_DENIED"}

\* The only call among the requests s is m, and no registration comes after it.
Due(s, m) ==
    /\ m.subject \in Calls
    /\ \E i \in DOMAIN s :
        /\ s[i] = m
        /\ \A j \in DOMAIN s : (s[j].subject \in Calls => j = i) /\ (s[j].subject \in Entries => j < i)

\* No call is a registration.
LEMMA CallsAndEntries ==
    \A x \in Calls : x \notin Entries
BY DEF Calls, Entries, P!Calls

\* A call that is due stays due until it is read, ...
LEMMA DueRead ==
    ASSUME NEW M, NEW s \in Seq(M), s # <<>>, NEW m, Due(s, m)
    PROVE  /\ Head(s).subject \notin Calls => Due(Tail(s), m)
           /\ Head(s).subject \in Calls =>
                Head(s) = m /\ Without(Tail(s), Calls) /\ Without(Tail(s), Entries)
<1>1. PICK i \in DOMAIN s :
        /\ s[i] = m
        /\ \A j \in DOMAIN s : (s[j].subject \in Calls => j = i) /\ (s[j].subject \in Entries => j < i)
  BY DEF Due
<1>2. \A j \in DOMAIN Tail(s) : j + 1 \in DOMAIN s /\ Tail(s)[j] = s[j + 1] /\ j \in Nat \ {0}
  BY ReadingOn
<1>3. CASE Head(s).subject \notin Calls
  <2>1. i # 1 /\ i - 1 \in DOMAIN Tail(s) /\ Tail(s)[i - 1] = m /\ i \in Int
    BY <1>1, <1>3, ReadingOn DEF Due
  <2>2. ASSUME NEW j \in DOMAIN Tail(s)
        PROVE  /\ Tail(s)[j].subject \in Calls => j = i - 1
               /\ Tail(s)[j].subject \in Entries => j < i - 1
    <3>1. /\ Tail(s)[j].subject \in Calls => j + 1 = i
          /\ Tail(s)[j].subject \in Entries => j + 1 < i
      BY <1>1, <1>2
    <3>2. QED BY <1>2, <2>1, <3>1
  <2>3. QED BY <1>3, <2>1, <2>2 DEF Due
<1>4. CASE Head(s).subject \in Calls
  <2>1. i = 1 /\ Head(s) = m
    BY <1>1, <1>4, ReadingOn
  <2>2. ASSUME NEW j \in DOMAIN Tail(s)
        PROVE  Tail(s)[j].subject \notin Calls /\ Tail(s)[j].subject \notin Entries
    <3>1. /\ Tail(s)[j].subject \in Calls => j + 1 = 1
          /\ Tail(s)[j].subject \in Entries => j + 1 < 1
      BY <1>1, <1>2, <2>1
    <3>2. QED BY <1>2, <3>1
  <2>3. QED BY <1>4, <2>1, <2>2 DEF Without
<1>5. QED BY <1>3, <1>4

\* ... and is so when it is written.
LEMMA DueWritten ==
    ASSUME NEW M, NEW s \in Seq(M), NEW m \in M
    PROVE  /\ \A n : Due(s, n) /\ m.subject \notin Calls \cup Entries => Due(Append(s, m), n)
           /\ Without(s, Calls) /\ m.subject \in Calls => Due(Append(s, m), m)
<1>1. ASSUME NEW n, Due(s, n), m.subject \notin Calls \cup Entries PROVE Due(Append(s, m), n)
  <2>1. PICK i \in DOMAIN s :
          /\ s[i] = n
          /\ \A j \in DOMAIN s : (s[j].subject \in Calls => j = i) /\ (s[j].subject \in Entries => j < i)
    BY <1>1 DEF Due
  <2>2. i \in DOMAIN Append(s, m) /\ Append(s, m)[i] = n
    BY <2>1, Writing
  <2>3. ASSUME NEW j \in DOMAIN Append(s, m)
        PROVE  /\ Append(s, m)[j].subject \in Calls => j = i
               /\ Append(s, m)[j].subject \in Entries => j < i
    BY <1>1, <2>1, Writing
  <2>4. QED BY <1>1, <2>2, <2>3 DEF Due
<1>2. ASSUME Without(s, Calls), m.subject \in Calls PROVE Due(Append(s, m), m)
  <2>1. Len(s) + 1 \in DOMAIN Append(s, m) /\ Append(s, m)[Len(s) + 1] = m
    BY Writing
  <2>2. ASSUME NEW j \in DOMAIN Append(s, m)
        PROVE  /\ Append(s, m)[j].subject \in Calls => j = Len(s) + 1
               /\ Append(s, m)[j].subject \in Entries => j < Len(s) + 1
    BY <1>2, Writing, CallsAndEntries DEF Without
  <2>3. QED BY <1>2, <2>1, <2>2 DEF Due
<1>3. QED BY <1>1, <1>2

\* The request m says where t is.
ReportOf(m, t) == m.subject \in TaxiArrivals /\ m.taxiId = t

\* With the requests s to be handled, `stored` is where the database has t and `kept` where t is:
\* the last report says where, and without any the two are the same.
Located(s, t, stored, kept) ==
    /\ (\A i \in DOMAIN s : ~ReportOf(s[i], t)) => stored = kept
    /\ \A i \in DOMAIN s :
        ReportOf(s[i], t) /\ (\A j \in DOMAIN s : j > i => ~ReportOf(s[j], t)) => s[i].coord = kept

\* A report that is handled moves the taxi in the database; the last one still counts.
LEMMA LocatedRead ==
    ASSUME NEW M, NEW s \in Seq(M), s # <<>>, NEW t, NEW stored, NEW kept,
           Located(s, t, stored, kept)
    PROVE  /\ ~ReportOf(Head(s), t) => Located(Tail(s), t, stored, kept)
           /\ ReportOf(Head(s), t) => Located(Tail(s), t, Head(s).coord, kept)
<1>1. /\ \A j \in DOMAIN Tail(s) : j + 1 \in DOMAIN s /\ Tail(s)[j] = s[j + 1] /\ j \in Nat \ {0}
      /\ \A i \in DOMAIN s : i \in Nat \ {0} /\ (i # 1 => i - 1 \in DOMAIN Tail(s)
                                                    /\ Tail(s)[i - 1] = s[i])
      /\ 1 \in DOMAIN s /\ Head(s) = s[1]
  BY ReadingOn
<1>2. ASSUME NEW i \in DOMAIN Tail(s), ReportOf(Tail(s)[i], t),
             \A j \in DOMAIN Tail(s) : j > i => ~ReportOf(Tail(s)[j], t)
      PROVE  Tail(s)[i].coord = kept
  <2>1. ASSUME NEW j \in DOMAIN s, j > i + 1 PROVE ~ReportOf(s[j], t)
    <3>1. j - 1 \in DOMAIN Tail(s) /\ Tail(s)[j - 1] = s[j] /\ j - 1 > i
      BY <1>1, <2>1
    <3>2. QED BY <1>2, <3>1
  <2>2. i + 1 \in DOMAIN s /\ s[i + 1] = Tail(s)[i]
    BY <1>1
  <2>3. QED BY <1>2, <2>1, <2>2 DEF Located
<1>3. ASSUME \A i \in DOMAIN Tail(s) : ~ReportOf(Tail(s)[i], t)
      PROVE  IF ReportOf(Head(s), t) THEN Head(s).coord = kept ELSE stored = kept
  <2>1. \A i \in DOMAIN s : i # 1 => ~ReportOf(s[i], t)
    BY <1>1, <1>3
  <2>2. \A j \in DOMAIN s : j > 1 => ~ReportOf(s[j], t)
    BY <1>1, <2>1
  <2>3. QED BY <1>1, <2>1, <2>2 DEF Located
<1>4. QED BY <1>2, <1>3 DEF Located

\* A report that is added says where the taxi is; other messages say nothing of it.
LEMMA LocatedWritten ==
    ASSUME NEW M, NEW s \in Seq(M), NEW m \in M, NEW t, NEW stored, NEW kept
    PROVE  /\ Located(s, t, stored, kept) /\ ~ReportOf(m, t) => Located(Append(s, m), t, stored, kept)
           /\ ReportOf(m, t) /\ m.coord = kept => Located(Append(s, m), t, stored, kept)
<1> DEFINE r == Append(s, m)
           n == Len(s) + 1
<1>1. /\ DOMAIN r = DOMAIN s \cup {n} /\ r[n] = m
      /\ \A i \in DOMAIN s : i < n /\ r[i] = s[i]
      /\ n \in Nat /\ \A i \in DOMAIN s : i \in Nat
  BY Writing
<1> HIDE DEF r, n
<1>2. ASSUME Located(s, t, stored, kept), ~ReportOf(m, t) PROVE Located(r, t, stored, kept)
  <2>1. (\A i \in DOMAIN r : ~ReportOf(r[i], t)) => stored = kept
    BY <1>1, <1>2 DEF Located
  <2>2. ASSUME NEW i \in DOMAIN r, ReportOf(r[i], t),
               \A j \in DOMAIN r : j > i => ~ReportOf(r[j], t)
        PROVE  r[i].coord = kept
    <3>1. i \in DOMAIN s /\ r[i] = s[i]
      BY <1>1, <1>2, <2>2
    <3>2. \A j \in DOMAIN s : j > i => ~ReportOf(s[j], t)
      BY <1>1, <2>2
    <3>3. QED BY <1>2, <2>2, <3>1, <3>2 DEF Located
  <2>3. QED BY <2>1, <2>2 DEF Located
<1>3. ASSUME ReportOf(m, t), m.coord = kept PROVE Located(r, t, stored, kept)
  <2>1. ASSUME NEW i \in DOMAIN r, \A j \in DOMAIN r : j > i => ~ReportOf(r[j], t)
        PROVE  r[i].coord = kept
    <3>1. ~(n > i)
      BY <1>1, <1>3, <2>1
    <3>2. i = n
      BY <1>1, <3>1
    <3>3. QED BY <1>1, <1>3, <3>2
  <2>2. n \in DOMAIN r /\ ReportOf(r[n], t)
    BY <1>1, <1>3
  <2>3. QED BY <2>1, <2>2 DEF Located
<1>4. QED BY <1>2, <1>3 DEF r

-----------------------------------------------------------------------------
(* A ride, from the wish to the outcome, when there is one customer         *)

\* What c asks; what t says when it is at p.
Asking(c) == [subject |-> "CUSTOMER_SERVICE_REQUEST", id |-> c, data |-> Rider!Wish(c),
              session |-> "current"]

Reached(t, p) == Taxi!Arrival("TAXI_DESTINATION_REACHED", t, p)

\* c waits for its service to end.
Following(c) == rider[c].stage = "following"

\* Nobody rides, no taxi is underway or told to go anywhere, c is not queued.
Vacant == \A t \in Taxis : CarriedBy(db, t) = None
Still == \A t \in Taxis : ~Underway(t) /\ Without(responses[t], Drives)
Unqueued(c) == c \notin P!Queued(db)

\* Nothing is asked and nothing is said.
Silence(c) == Without(requests, Calls) /\ Without(responses[c], Outcomes)

\* c follows no service ...
Idle(c) == ~Following(c) /\ Silence(c) /\ Still /\ Vacant /\ Unqueued(c)

\* ... has asked for one ...
Asked(c) ==
    /\ Following(c) /\ Due(requests, Asking(c)) /\ Without(responses[c], Outcomes)
    /\ Still /\ Vacant /\ Unqueued(c)

\* ... is queued ...
Waits(c) == Following(c) /\ Silence(c) /\ Without(requests, Entries) /\ Still /\ Vacant

\* ... or is told how it ended: where c asked to be, or not at all.
Over(c) ==
    /\ Following(c) /\ Without(requests, Calls) /\ Still /\ Vacant /\ Unqueued(c)
    /\ \E s \in Outcomes :
        /\ Only(responses[c], Outcomes, Notice(s))
        /\ s = "CUSTOMER_SERVICE_COMPLETED" => db.customers[c].pos = Locations[Rider!Wish(c)]

\* Meanwhile t serves c, to take it where it asked to be; and nobody else moves.
Engaged(c, t) ==
    /\ Following(c) /\ Without(responses[c], Outcomes) /\ Unqueued(c)
    /\ HasTaxi(db, t) /\ ServiceOf(db, t) = c
    /\ db.customers[c].destination = Rider!Wish(c) /\ Locations[Rider!Wish(c)] # None
    /\ \A u \in Taxis : u # t =>
            CarriedBy(db, u) = None /\ ~Underway(u) /\ Without(responses[u], Drives)
    /\ CarriedBy(db, t) \in {None, c}
    /\ CarriedBy(db, t) = c => db.customers[c].pos = db.taxis[t].pos

\* Where t has to go: first to c, then where c asked to be.
Goal(c, t) == IF CarriedBy(db, t) = c THEN Locations[Rider!Wish(c)] ELSE db.customers[c].pos

\* t does not move.
Parked(t) == engine[t].pos = engine[t].dest /\ engine[t].sensor \notin {"driving", "moved"}

\* The engine of t has heard that p is its goal, and has not reported that it is there.
Heading(t, p) ==
    \/ /\ engine[t].kafka \in {"arrived", "answering"} /\ Parked(t)
       /\ engine[t].coord = p /\ engine[t].pos = p
    \/ /\ engine[t].kafka = "redirecting" /\ Parked(t)
       /\ engine[t].coord = p /\ engine[t].pos # p
    \/ /\ engine[t].kafka = "reading" /\ engine[t].dest = p
       /\ (engine[t].pos # p \/ engine[t].sensor = "moved")

\* t is told to go, is on its way, or says that it is there.
Ordered(c, t) ==
    Without(requests, Calls) /\ ~Underway(t) /\ Only(responses[t], Drives, GoTo(Goal(c, t)))
OnWay(c, t) ==
    Without(requests, Calls) /\ Heading(t, Goal(c, t)) /\ Without(responses[t], Drives)
Arrives(c, t) ==
    /\ Only(requests, Calls, Reached(t, Goal(c, t)))
    /\ ~Underway(t) /\ Without(responses[t], Drives)

\* t serves c; a ride is in one of its phases.
Served(c, t) == Engaged(c, t) /\ (Ordered(c, t) \/ OnWay(c, t) \/ Arrives(c, t))

Phase(c) == Idle(c) \/ Asked(c) \/ Waits(c) \/ Over(c) \/ \E t \in Taxis : Served(c, t)

-----------------------------------------------------------------------------
(* Steps that a ride does not notice                                       *)

\* t drives, is parked or is about to answer as before.
SameCourse(t) ==
    /\ engine'[t].kafka = engine[t].kafka /\ engine'[t].coord = engine[t].coord
    /\ engine'[t].pos = engine[t].pos /\ engine'[t].dest = engine[t].dest
    /\ \/ engine'[t].sensor = engine[t].sensor
       \/ {engine[t].sensor, engine'[t].sensor} \cap {"driving", "moved"} = {}

\* c keeps its row, its seat and its wish; it moves only with its taxi.
SameRide(c) ==
    /\ \A t \in Taxis :
        /\ HasTaxi(db, t) => HasTaxi(db', t)
        /\ CarriedBy(db', t) = CarriedBy(db, t)
        /\ ServiceOf(db', t) = ServiceOf(db, t)
    /\ Unqueued(c) => Unqueued(c)'
    /\ HasCustomer(db, c) =>
        /\ db'.customers[c].destination = db.customers[c].destination
        /\ (\A t \in Taxis : CarriedBy(db, t) # c) => db'.customers[c].pos = db.customers[c].pos
        /\ \A t \in Taxis :
            /\ CarriedBy(db, t) = c /\ (\A u \in Taxis : u # t => CarriedBy(db, u) # c)
            /\ HasTaxi(db, t) /\ db.customers[c].pos = db.taxis[t].pos
            => db'.customers[c].pos = db'.taxis[t].pos

\* A step that the ride of c does not notice: in what its topics hold of it, nothing changes.
Quiet(c) ==
    /\ SameRide(c)
    /\ \A t \in Taxis :
        /\ Underway(t) => SameCourse(t)
        /\ ~Underway(t) => ~Underway(t)'
        /\ Keeps(responses[t], responses'[t], Drives)
    /\ Keeps(responses[c], responses'[c], Outcomes)
    /\ Keeps(requests, requests', Calls)
    /\ Following(c)' <=> Following(c)
    /\ Following(c) =>
        /\ rider'[c] = rider[c]
        /\ Due(requests, Asking(c)) => Due(requests', Asking(c))
        /\ Without(requests, Entries) => Without(requests', Entries)

\* A taxi that has heard where to go is underway.
LEMMA HeadingIsUnderway ==
    ASSUME NEW t, NEW p, Heading(t, p)
    PROVE  Underway(t)
BY DEF Heading, Underway

\* A ride stays in its phase over such a step.
LEMMA QuietKeepsPhase ==
    ASSUME NEW c \in Customers, Quiet(c), Phase(c), Following(c) => HasCustomer(db, c)
    PROVE  Phase(c)'
<1>0. Rider!Wish(c)' = Rider!Wish(c) \/ ~Following(c)
  BY DEF Quiet, Rider!Wish
<1>1. /\ Still => Still'
      /\ Vacant => Vacant'
      /\ Silence(c) => Silence(c)'
      /\ Unqueued(c) => Unqueued(c)'
      /\ Following(c)' <=> Following(c)
  BY DEF Quiet, Still, Vacant, Silence, SameRide, Keeps
<1>2. CASE Idle(c)
  BY <1>1, <1>2 DEF Idle, Phase
<1>3. CASE Asked(c)
  <2>1. Asking(c)' = Asking(c)
    BY <1>0, <1>3 DEF Asked, Asking
  <2>2. Due(requests, Asking(c))' /\ Without(responses[c], Outcomes)'
    BY <1>3, <2>1 DEF Asked, Quiet, Keeps
  <2>3. Asked(c)'
    BY <1>1, <1>3, <2>2 DEF Asked
  <2>4. QED BY <2>3 DEF Phase
<1>4. CASE Waits(c)
  BY <1>1, <1>4 DEF Waits, Phase, Quiet
<1>5. CASE Over(c)
  <2>1. PICK s \in Outcomes :
            /\ Only(responses[c], Outcomes, Notice(s))
            /\ s = "CUSTOMER_SERVICE_COMPLETED" => db.customers[c].pos = Locations[Rider!Wish(c)]
    BY <1>5 DEF Over
  <2>2. Only(responses'[c], Outcomes, Notice(s))
    BY <2>1 DEF Quiet, Keeps
  <2>3. db'.customers[c].pos = db.customers[c].pos
    BY <1>5, NoneAssumption DEF Over, Vacant, Quiet, SameRide
  <2>4. Without(requests', Calls)
    BY <1>5 DEF Over, Quiet, Keeps
  <2>5. Over(c)'
    BY <1>0, <1>1, <1>5, <2>1, <2>2, <2>3, <2>4 DEF Over
  <2>6. QED BY <2>5 DEF Phase
<1>6. ASSUME NEW t \in Taxis, Served(c, t) PROVE Phase(c)'
  <2>0. Following(c) /\ HasCustomer(db, c) /\ Rider!Wish(c)' = Rider!Wish(c) /\ c # None
    BY <1>0, <1>6, NoneAssumption DEF Served, Engaged
  <2>1. Engaged(c, t)'
    <3>1. Following(c)' /\ Without(responses'[c], Outcomes) /\ Unqueued(c)'
      BY <1>1, <1>6 DEF Served, Engaged, Quiet, Keeps
    <3>2. /\ HasTaxi(db', t) /\ ServiceOf(db', t) = c /\ CarriedBy(db', t) \in {None, c}
          /\ db'.customers[c].destination = Rider!Wish(c)' /\ Locations[Rider!Wish(c)'] # None
      BY <1>6, <2>0 DEF Served, Engaged, Quiet, SameRide
    <3>3. \A u \in Taxis : u # t =>
                /\ CarriedBy(db', u) = None /\ ~Underway(u)' /\ Without(responses'[u], Drives)
      BY <1>6 DEF Served, Engaged, Quiet, SameRide, Keeps
    <3>4. CarriedBy(db', t) = c => db'.customers[c].pos = db'.taxis[t].pos
      BY <1>6, <2>0 DEF Served, Engaged, Quiet, SameRide
    <3>5. QED BY <3>1, <3>2, <3>3, <3>4 DEF Engaged
  <2>2. Goal(c, t)' = Goal(c, t)
    <3>1. CarriedBy(db', t) = CarriedBy(db, t)
      BY DEF Quiet, SameRide
    <3>2. CarriedBy(db, t) # c => db'.customers[c].pos = db.customers[c].pos
      BY <1>6, <2>0 DEF Served, Engaged, Quiet, SameRide
    <3>3. QED BY <2>0, <3>1, <3>2 DEF Goal
  <2>3. CASE Ordered(c, t)
    <3>1. Ordered(c, t)'
      BY <2>2, <2>3 DEF Ordered, Quiet, Keeps
    <3>2. QED BY <2>1, <3>1 DEF Served, Phase
  <2>4. CASE OnWay(c, t)
    <3>1. SameCourse(t)
      BY <2>4, HeadingIsUnderway DEF OnWay, Quiet
    <3>2. Heading(t, Goal(c, t))'
      BY <2>2, <2>4, <3>1 DEF OnWay, Heading, SameCourse, Parked
    <3>3. OnWay(c, t)'
      BY <2>4, <3>2 DEF OnWay, Quiet, Keeps
    <3>4. QED BY <2>1, <3>3 DEF Served, Phase
  <2>5. CASE Arrives(c, t)
    <3>1. Arrives(c, t)'
      BY <2>2, <2>5 DEF Arrives, Reached, Taxi!Arrival, Quiet, Keeps
    <3>2. QED BY <2>1, <3>1 DEF Served, Phase
  <2>6. QED BY <1>6, <2>3, <2>4, <2>5 DEF Served
<1>7. QED BY <1>2, <1>3, <1>4, <1>5, <1>6 DEF Phase

-----------------------------------------------------------------------------
(* What the taxi does                                                      *)

\* A step of t on its way.
Turn(t) ==
    /\ \/ Taxi!HearsGoTo(t) \/ Taxi!ReadsPosition(t) \/ Taxi!AnswersArrived(t) \/ Taxi!Redirects(t)
       \/ Taxi!DriveFrame(t) \/ Taxi!Drives(t) \/ Taxi!Reports(t)
    /\ UNCHANGED <<centralVars, rider, ordered>>

\* It changes nothing of the others.
LEMMA TurnsAreLocal ==
    ASSUME IInv, NEW t \in Taxis, Turn(t)
    PROVE  /\ db' = db /\ rider' = rider
           /\ \A u \in Taxis : u # t => engine'[u] = engine[u]
           /\ \A s \in Subscribers : s # t => responses'[s] = responses[s]
           /\ engine' \in [Taxis -> Taxi!Memory]
<1>0. responses \in Inboxes /\ engine \in [Taxis -> Taxi!Memory]
  BY TypesOfIInv
<1>1. UNCHANGED responses \/ responses' = [responses EXCEPT ![t] = Tail(@)]
  BY DEF Turn, Taxi!HearsGoTo, Taxi!ReadsPosition, Taxi!AnswersArrived, Taxi!Redirects,
         Taxi!DriveFrame, Taxi!Drives, Taxi!Reports, Taxi!Hears, Taxi!Sensor
<1>2. \A s \in Subscribers : s # t => responses'[s] = responses[s]
  BY <1>0, <1>1 DEF Inboxes
<1>3. TaxiObeys(t) \/ TaxiDrives(t)
  BY DEF Turn, TaxiObeys, Taxi!ObeysOrders, TaxiDrives, Taxi!Attends
<1>4. engine' \in [Taxis -> Taxi!Memory] /\ \A u \in Taxis : u # t => engine'[u] = engine[u]
  BY <1>0, <1>3, EngineType
<1>5. db' = db /\ rider' = rider
  BY DEF Turn, centralVars
<1>6. QED BY <1>2, <1>4, <1>5

\* Only a taxi that was sent takes one.
LEMMA TurnsAreSent ==
    ASSUME IInv, NEW t \in Taxis, Turn(t)
    PROVE  Underway(t) \/ ~Without(responses[t], Drives)
<1>1. CASE Taxi!HearsGoTo(t)
  <2>1. responses[t] # <<>> /\ Head(responses[t]).subject \in Drives
    BY <1>1 DEF Taxi!HearsGoTo, Taxi!Hears, Drives
  <2>2. responses[t] \in Seq(TaxiNotice \cup CustomerNotice)
    BY TypesOfIInv DEF Inboxes, Subscribers
  <2>3. QED BY <2>1, <2>2, WithoutReads
<1>2. CASE \/ Taxi!ReadsPosition(t) \/ Taxi!AnswersArrived(t) \/ Taxi!Redirects(t)
           \/ Taxi!DriveFrame(t) \/ Taxi!Drives(t) \/ Taxi!Reports(t)
  BY <1>2
  DEF Taxi!ReadsPosition, Taxi!AnswersArrived, Taxi!Redirects, Taxi!DriveFrame, Taxi!Drives,
      Taxi!Reports, Taxi!Sensor, Underway
<1>3. QED BY <1>1, <1>2 DEF Turn

\* The taxi that takes a turn is the one that serves c.
LEMMA TurnsAreServed ==
    ASSUME IInv, NEW c \in Customers, Phase(c), NEW t \in Taxis, Turn(t)
    PROVE  Served(c, t)
<1>1. ~Still
  BY TurnsAreSent DEF Still
<1>2. PICK u \in Taxis : Served(c, u)
  BY <1>1 DEF Phase, Idle, Asked, Waits, Over
<1>3. u = t
  BY <1>2, TurnsAreSent DEF Served, Engaged
<1>4. QED BY <1>2, <1>3

\* A turn leaves who serves whom, and the goal, as they are.
LEMMA TurnsKeepEngaged ==
    ASSUME IInv, NEW c \in Customers, NEW t \in Taxis, Turn(t), Engaged(c, t)
    PROVE  Engaged(c, t)' /\ Goal(c, t)' = Goal(c, t)
<1>1. /\ db' = db /\ rider' = rider
      /\ \A u \in Taxis : u # t => engine'[u] = engine[u]
      /\ \A s \in Subscribers : s # t => responses'[s] = responses[s]
  BY TurnsAreLocal
<1>2. c \in Subscribers /\ c # t /\ \A u \in Taxis : u \in Subscribers
  BY ClientsAssumption DEF Subscribers
<1>3. \A u \in Taxis : u # t => (Underway(u)' <=> Underway(u)) /\ responses'[u] = responses[u]
  BY <1>1, <1>2 DEF Underway
<1>4. Rider!Wish(c)' = Rider!Wish(c) /\ responses'[c] = responses[c]
  BY <1>1, <1>2 DEF Rider!Wish
<1>5. QED BY <1>1, <1>3, <1>4 DEF Engaged, Following, Unqueued, Goal

\* An order is heard once, is driven to its end, and is answered once: whatever the order of the
\* two threads of the engine, one token of the ride passes from inbox to engine to requests.
LEMMA TurnsKeepPhase ==
    ASSUME IInv, NEW c \in Customers, Phase(c), NEW t \in Taxis, Turn(t)
    PROVE  Phase(c)'
<1> DEFINE rest == Tail(responses[t])
<1>p. PICK p : p = Goal(c, t)
  OBVIOUS
<1>0. /\ engine \in [Taxis -> Taxi!Memory] /\ engine[t] \in Taxi!Memory
      /\ requests \in Seq(Request) /\ responses \in Inboxes /\ t \in Subscribers
      /\ responses[t] \in Seq(TaxiNotice \cup CustomerNotice)
  BY TypesOfIInv DEF Inboxes, Subscribers
<1>1. Served(c, t)
  BY TurnsAreServed
<1>2. Engaged(c, t)' /\ Goal(c, t)' = p
  BY <1>p, <1>1, TurnsKeepEngaged DEF Served
<1>3. \/ Ordered(c, t)' \/ OnWay(c, t)' \/ Arrives(c, t)'
      => Phase(c)'
  BY <1>2 DEF Served, Phase
<1>4. CASE Taxi!HearsGoTo(t)
  <2>1. /\ responses[t] # <<>> /\ Head(responses[t]).subject \in Drives
        /\ engine[t].kafka = "reading"
        /\ responses' = [responses EXCEPT ![t] = rest] /\ requests' = requests
        /\ engine' = [engine EXCEPT
                ![t].kafka = IF engine[t].pos = Head(responses[t]).coord THEN "arrived" ELSE "redirecting",
                ![t].coord = Head(responses[t]).coord]
    BY <1>4 DEF Taxi!HearsGoTo, Taxi!Hears, Drives
  <2>2. Ordered(c, t)
    BY <1>0, <1>1, <2>1, WithoutReads DEF Served, OnWay, Arrives
  <2>3. Head(responses[t]) = GoTo(p) /\ Without(rest, Drives)
    BY <1>p, <1>0, <2>1, <2>2, OnlyRead DEF Ordered, GoTo
  <2>4. responses'[t] = rest
    BY <1>0, <2>1 DEF Inboxes
  <2>5. engine[t].pos = engine[t].dest /\ engine[t].sensor \notin {"driving", "moved"}
    BY <2>2 DEF Ordered, Underway
  <2>6. /\ engine'[t].kafka = IF engine[t].pos = p THEN "arrived" ELSE "redirecting"
        /\ engine'[t].coord = p /\ engine'[t].pos = engine[t].pos
        /\ engine'[t].dest = engine[t].dest /\ engine'[t].sensor = engine[t].sensor
    BY <1>0, <2>1, <2>3 DEF GoTo, Taxi!Memory
  <2>7. Heading(t, p)'
    BY <1>2, <2>5, <2>6 DEF Heading, Parked
  <2>8. OnWay(c, t)'
    BY <1>2, <2>1, <2>2, <2>3, <2>4, <2>7 DEF OnWay, Ordered, Heading, Parked
  <2>9. QED BY <1>3, <2>8
<1>5. ASSUME ~Taxi!HearsGoTo(t)
      PROVE  responses' = responses /\ Underway(t)
  BY <1>5
  DEF Turn, Taxi!ReadsPosition, Taxi!AnswersArrived, Taxi!Redirects, Taxi!DriveFrame, Taxi!Drives,
      Taxi!Reports, Taxi!Sensor, Underway
<1>6. ASSUME ~Taxi!HearsGoTo(t)
      PROVE  Without(requests, Calls) /\ Heading(t, p) /\ Without(responses'[t], Drives)
  BY <1>p, <1>1, <1>5, <1>6 DEF Served, Ordered, Arrives, OnWay
<1>7. ASSUME ~Taxi!HearsGoTo(t), requests' = requests, Heading(t, p)'
      PROVE  Phase(c)'
  <2>1. OnWay(c, t)'
    BY <1>2, <1>6, <1>7 DEF OnWay, Heading, Parked
  <2>2. QED BY <1>3, <2>1
<1>8. ASSUME ~Taxi!HearsGoTo(t), requests' = Append(requests, Reached(t, p)),
             Reached(t, p) \in Request, ~Underway(t)'
      PROVE  Phase(c)'
  <2>1. Reached(t, p).subject \in Calls
    BY DEF Reached, Taxi!Arrival, Calls, P!Calls
  <2>2. Only(requests', Calls, Reached(t, p))
    BY <1>0, <1>6, <1>8, <2>1, OnlyWritten
  <2>3. Arrives(c, t)'
    BY <1>2, <1>6, <1>8, <2>2 DEF Arrives, Reached, Taxi!Arrival
  <2>4. QED BY <1>3, <2>3
<1>9. CASE Taxi!ReadsPosition(t)
  <2>1. /\ engine[t].kafka = "arrived" /\ requests' = requests
        /\ engine' = [engine EXCEPT ![t].kafka = "answering", ![t].coord = engine[t].pos]
    BY <1>9 DEF Taxi!ReadsPosition
  <2>2. ~Taxi!HearsGoTo(t)
    BY <2>1 DEF Taxi!HearsGoTo, Taxi!Hears
  <2>3. /\ engine'[t].kafka = "answering" /\ engine'[t].coord = engine[t].pos
        /\ engine'[t].pos = engine[t].pos
        /\ engine'[t].dest = engine[t].dest /\ engine'[t].sensor = engine[t].sensor
    BY <1>0, <2>1 DEF Taxi!Memory
  <2>4. Parked(t) /\ engine[t].pos = p
    BY <1>6, <2>1, <2>2 DEF Heading
  <2>5. Heading(t, p)'
    BY <1>2, <2>3, <2>4 DEF Heading, Parked
  <2>6. QED BY <1>7, <2>1, <2>2, <2>5
<1>10. CASE Taxi!AnswersArrived(t)
  <2>1. /\ engine[t].kafka = "answering"
        /\ requests' = Append(requests, Reached(t, engine[t].coord))
        /\ engine' = [engine EXCEPT ![t].kafka = "reading", ![t].coord = Base]
    BY <1>10 DEF Taxi!AnswersArrived, Taxi!Say, Reached
  <2>2. ~Taxi!HearsGoTo(t)
    BY <2>1 DEF Taxi!HearsGoTo, Taxi!Hears
  <2>3. Parked(t) /\ engine[t].coord = p /\ p \in Points
    BY <1>0, <1>6, <2>1, <2>2 DEF Heading, Taxi!Memory
  <2>4. /\ engine'[t].kafka = "reading" /\ engine'[t].pos = engine[t].pos
        /\ engine'[t].dest = engine[t].dest /\ engine'[t].sensor = engine[t].sensor
    BY <1>0, <2>1 DEF Taxi!Memory
  <2>5. ~Underway(t)'
    BY <2>3, <2>4 DEF Underway, Parked
  <2>6. Reached(t, p) \in Request
    BY <2>3, TaxiMessages DEF Reached, TaxiArrivals
  <2>7. QED BY <1>8, <2>1, <2>2, <2>3, <2>5, <2>6
<1>11. CASE Taxi!Redirects(t)
  <2>1. /\ engine[t].kafka = "redirecting" /\ requests' = requests
        /\ engine' = [engine EXCEPT ![t].dest = engine[t].coord, ![t].kafka = "reading",
                                    ![t].coord = Base]
    BY <1>11 DEF Taxi!Redirects
  <2>2. ~Taxi!HearsGoTo(t)
    BY <2>1 DEF Taxi!HearsGoTo, Taxi!Hears
  <2>3. engine[t].coord = p /\ engine[t].pos # p
    BY <1>6, <2>1, <2>2 DEF Heading
  <2>4. /\ engine'[t].kafka = "reading" /\ engine'[t].dest = p /\ engine'[t].pos = engine[t].pos
    BY <1>0, <2>1, <2>3 DEF Taxi!Memory
  <2>5. Heading(t, p)'
    BY <1>2, <2>3, <2>4 DEF Heading
  <2>6. QED BY <1>7, <2>1, <2>2, <2>5
<1>12. CASE Taxi!DriveFrame(t)
  <2>1. /\ engine[t].pos # engine[t].dest /\ requests' = requests /\ engine[t].sensor = "waiting"
        /\ engine' = [engine EXCEPT ![t].sensor = "driving"] /\ responses' = responses
    BY <1>12 DEF Taxi!DriveFrame, Taxi!Sensor
  <2>2. ~Taxi!HearsGoTo(t)
    <3>1. ASSUME Taxi!HearsGoTo(t) PROVE FALSE
      <4>1. engine'[t].sensor = engine[t].sensor
        BY <1>0, <3>1 DEF Taxi!HearsGoTo, Taxi!Memory
      <4>2. engine'[t].sensor = "driving"
        BY <1>0, <2>1 DEF Taxi!Memory
      <4>3. QED BY <2>1, <4>1, <4>2
    <3>2. QED BY <3>1
  <2>3. engine[t].kafka = "reading" /\ engine[t].dest = p /\ engine[t].pos # p
    BY <1>6, <2>1, <2>2 DEF Heading, Parked
  <2>4. /\ engine'[t].kafka = engine[t].kafka /\ engine'[t].dest = engine[t].dest
        /\ engine'[t].pos = engine[t].pos
    BY <1>0, <2>1 DEF Taxi!Memory
  <2>5. Heading(t, p)'
    BY <1>2, <2>3, <2>4 DEF Heading
  <2>6. QED BY <1>7, <2>1, <2>2, <2>5
<1>13. CASE Taxi!Drives(t)
  <2>1. /\ engine[t].sensor = "driving" /\ requests' = requests /\ responses' = responses
        /\ engine' = [engine EXCEPT ![t].pos = Taxi!Grid!step(engine[t].pos, engine[t].dest),
                                    ![t].sensor = "moved"]
    BY <1>13 DEF Taxi!Drives
  <2>2. /\ engine'[t].kafka = engine[t].kafka /\ engine'[t].dest = engine[t].dest
        /\ engine'[t].sensor = "moved"
    BY <1>0, <2>1 DEF Taxi!Memory
  <2>3. ~Taxi!HearsGoTo(t)
    <3>1. ASSUME Taxi!HearsGoTo(t) PROVE FALSE
      <4>1. engine'[t].sensor = engine[t].sensor
        BY <1>0, <3>1 DEF Taxi!HearsGoTo, Taxi!Memory
      <4>2. QED BY <2>1, <2>2, <4>1
    <3>2. QED BY <3>1
  <2>4. engine[t].kafka = "reading" /\ engine[t].dest = p
    BY <1>6, <2>1, <2>3 DEF Heading, Parked
  <2>5. Heading(t, p)'
    BY <1>2, <2>2, <2>4 DEF Heading
  <2>6. QED BY <1>7, <2>1, <2>3, <2>5
<1>14. CASE Taxi!Reports(t)
  <2> DEFINE s == IF engine[t].pos # engine[t].dest THEN "TAXI_MOVE" ELSE "TAXI_DESTINATION_REACHED"
             m == Taxi!Arrival(s, t, engine[t].pos)
  <2>1. /\ engine[t].sensor = "moved" /\ requests' = Append(requests, m)
        /\ engine' = [engine EXCEPT ![t].sensor = "waiting"]
    BY <1>14 DEF Taxi!Reports, Taxi!Sensor, Taxi!Say
  <2>2. /\ engine'[t].kafka = engine[t].kafka /\ engine'[t].dest = engine[t].dest
        /\ engine'[t].pos = engine[t].pos /\ engine'[t].sensor = "waiting"
    BY <1>0, <2>1 DEF Taxi!Memory
  <2>3. ~Taxi!HearsGoTo(t)
    <3>1. ASSUME Taxi!HearsGoTo(t) PROVE FALSE
      <4>1. engine'[t].sensor = engine[t].sensor
        BY <1>0, <3>1 DEF Taxi!HearsGoTo, Taxi!Memory
      <4>2. QED BY <2>1, <2>2, <4>1
    <3>2. QED BY <3>1
  <2>4. engine[t].kafka = "reading" /\ engine[t].dest = p
    BY <1>6, <2>1, <2>3 DEF Heading, Parked
  <2>5. m \in Request
    BY <1>0, TaxiMessages DEF TaxiArrivals, Taxi!Memory
  <2>6. CASE engine[t].pos # engine[t].dest
    <3>1. m.subject \notin Calls
      BY <2>6 DEF Taxi!Arrival, Calls, P!Calls
    <3> HIDE DEF m
    <3>2. Without(requests', Calls)
      BY <1>0, <1>6, <2>1, <2>3, <2>5, <3>1, KeepsWriting DEF Keeps
    <3>3. Heading(t, p)'
      BY <1>2, <2>2, <2>4, <2>6 DEF Heading
    <3>4. OnWay(c, t)'
      BY <1>2, <1>6, <2>3, <3>2, <3>3 DEF OnWay, Heading, Parked
    <3>5. QED BY <1>3, <3>4
  <2>7. CASE engine[t].pos = engine[t].dest
    <3>1. m = Reached(t, p)
      BY <2>4, <2>7 DEF Reached
    <3>2. ~Underway(t)'
      BY <2>2, <2>4, <2>7 DEF Underway
    <3>3. QED BY <1>8, <2>1, <2>3, <2>5, <3>1, <3>2
  <2>8. QED BY <2>6, <2>7
<1>15. QED BY <1>4, <1>9, <1>10, <1>11, <1>12, <1>13, <1>14 DEF Turn

-----------------------------------------------------------------------------
(* What the others do besides                                              *)

\* The operator may move a location.
MovesLocations == \E m \in Orders : m.subject = "ORDER_LOCATION_MOVE"

\* A message that neither asks for a ride nor reports on one is added, or none.
Utters ==
    \/ requests' = requests
    \/ \E m \in Request :
        /\ requests' = Append(requests, m)
        /\ m.subject \notin Calls \cup TaxiArrivals
        /\ m.subject \in Entries => m \in announcing
        /\ m.subject \in P!Interferes => m \in Orders

\* Without turns and without questions nothing that matters to a ride is said.
LEMMA OthersUtter ==
    ASSUME ~Leaving, IInv, [Next]_vars, ~CentralHandles,
           \A t \in Taxis : ~Turn(t), \A c \in Customers : ~Rider!Asks(c)
    PROVE  Utters
<1>0. /\ TaxiArrivals = {"TAXI_MOVE", "TAXI_DESTINATION_REACHED"}
      /\ Calls = {"CUSTOMER_SERVICE_REQUEST", "TAXI_DESTINATION_REACHED"}
      /\ P!Interferes = {"ORDER_CUSTOMER_DISCONNECT", "ORDER_LOCATION_MOVE"}
  BY DEF TaxiArrivals, Calls, P!Calls, P!Interferes
<1>1. ASSUME NEW m \in Request, Taxi!Say(m) \/ Rider!Say(m),
             m.subject \in {"TAXI_READY", "TAXI_UPDATE_WAIT_TIME", "NEW_CUSTOMER",
                            "CUSTOMER_UPDATE_NEXT_REQUEST"}
      PROVE  Utters
  BY <1>0, <1>1 DEF Utters, Taxi!Say, Rider!Say, Entries
<1>2. CASE OperatorOrders
  <2>1. PICK m \in Orders : Taxi!Say(m)
    BY <1>2 DEF OperatorOrders
  <2>2. m \in Request /\ m.subject \in GreenList
    BY OrdersAssumption
  <2>3. m.subject \notin Calls \cup TaxiArrivals \cup Entries
    BY <1>0, <2>2 DEF GreenList, TaxiOrders, CustomerOrders, Entries
  <2>4. QED BY <2>1, <2>2, <2>3 DEF Utters, Taxi!Say
<1>3. CASE RegistrationAnnounced
  <2>1. PICK m \in announcing : requests' = Append(requests, m)
    BY <1>3 DEF RegistrationAnnounced, Central!Announce
  <2>2. m \in Central!Registration
    BY <2>1 DEF IInv, TypeOK, Central!TypeOK
  <2>3. m \in Request /\ m.subject \in Entries
    BY <2>2, SessionsAssumption DEF Central!Registration, Request, TaxiSignals, Entries
  <2>4. QED BY <1>0, <2>1, <2>3 DEF Utters, Entries
<1>4. ASSUME NEW t \in Taxis, TaxiStarts(t) \/ TaxiObeys(t) \/ TaxiDrives(t)
      PROVE  Utters
  <2>1. CASE Taxi!SensorConnects(t)
    BY <1>1, <2>1, TaxiMessages DEF Taxi!SensorConnects
  <2>2. CASE Taxi!WaitFrame(t)
    <3>1. PICK w \in Frames \ {0} : \E left \in 0..w : Taxi!Say(Taxi!WaitTime(t, left))
      BY <2>2 DEF Taxi!WaitFrame
    <3>2. w \in 0..1
      BY FramesAssumption DEF Countdown
    <3>3. PICK left \in Countdown : Taxi!Say(Taxi!WaitTime(t, left))
      BY <3>1, <3>2 DEF Countdown
    <3>4. QED BY <1>1, <3>3, TaxiMessages
  <2>3. CASE TaxiStarts(t) \/ Taxi!HearsStop(t) \/ Taxi!HearsContinue(t) \/ Taxi!HearsDisconnect(t)
    BY <2>3
    DEF Utters, TaxiStarts, Taxi!Starts, Taxi!HearsStop, Taxi!HearsContinue, Taxi!HearsDisconnect,
        Taxi!Hears
  <2>4. ~Turn(t)
    OBVIOUS
  <2>5. QED
    BY <1>4, <2>1, <2>2, <2>3, <2>4
    DEF TaxiObeys, Taxi!ObeysOrders, TaxiDrives, Taxi!Attends, Turn
<1>5. ASSUME NEW c \in Customers, CustomerActs(c) PROVE Utters
  <2>1. CASE Rider!Joins(c)
    <3>1. [subject |-> "NEW_CUSTOMER", id |-> c, coord |-> Home[c]] \in Request
      BY CustomersAssumption DEF Request
    <3>2. QED BY <1>1, <2>1, <3>1 DEF Rider!Joins
  <2>2. CASE Rider!Rests(c)
    <3> DEFINE m == [subject |-> "CUSTOMER_UPDATE_NEXT_REQUEST", id |-> c,
                     data |-> IF rider[c].left > 1 THEN 1 ELSE 0, session |-> "current"]
    <3>1. m \in Request /\ m.subject = "CUSTOMER_UPDATE_NEXT_REQUEST"
      BY SessionsAssumption DEF Request, Countdown
    <3>2. Rider!Say(m)
      BY <2>2 DEF Rider!Rests
    <3> HIDE DEF m
    <3>3. QED BY <1>1, <3>1, <3>2
  <2>3. CASE Rider!IsWelcome(c) \/ Rider!IsRefused(c) \/ Rider!Follows(c) \/ Rider!GoesOn(c)
    BY <2>3
    DEF Utters, Rider!IsWelcome, Rider!IsRefused, Rider!Follows, Rider!HearsNews,
        Rider!HearsOutcome, Rider!HearsDisconnect, Rider!Next, Rider!GoesOn
  <2>4. ~Rider!Asks(c)
    OBVIOUS
  <2>5. QED BY <1>5, <2>1, <2>2, <2>3, <2>4 DEF CustomerActs, Rider!Acts
<1>6. CASE \/ ClockTicks \/ UNCHANGED vars \/ \E t \in Taxis : TaxiRegisters(t)
           \/ \E c \in Customers : Unheard(c)
  BY <1>6
  DEF Utters, ClockTicks, Central!Tick, vars, TaxiRegisters, Central!Register, Unheard, Central!Read
<1>7. QED
  BY <1>2, <1>3, <1>4, <1>5, <1>6
  DEF Next, TaxiLeaves, StrayTaxi, CustomerGivesUp, StrayCustomer

\* Engines keep their course but for turns, and run on.
LEMMA OthersKeepCourse ==
    ASSUME ~Leaving, IInv, [Next]_vars, ~CentralHandles, NEW t \in Taxis, ~TaxiRegisters(t)
    PROVE  /\ engine'[t].life = "running" <=> engine[t].life = "running" \/ TaxiStarts(t)
           /\ ~Turn(t) => SameCourse(t)
<1>0. engine \in [Taxis -> Taxi!Memory] /\ engine[t] \in Taxi!Memory
  BY TypesOfIInv
<1>1. CASE engine'[t] = engine[t]
  BY <1>0, <1>1 DEF SameCourse, TaxiStarts, Taxi!Starts, Taxi!Memory
<1>2. CASE TaxiStarts(t)
  BY <1>0, <1>2 DEF TaxiStarts, Taxi!Starts, SameCourse, Taxi!Memory
<1>3. CASE TaxiObeys(t)
  <2>0. ~TaxiStarts(t)
    BY <1>0, <1>3
    DEF TaxiObeys, TaxiStarts, Taxi!Starts, Taxi!ObeysOrders, Taxi!HearsGoTo, Taxi!ReadsPosition,
        Taxi!AnswersArrived, Taxi!Redirects, Taxi!HearsStop, Taxi!HearsContinue,
        Taxi!HearsDisconnect, Taxi!Hears, Taxi!Runs
  <2>1. CASE Taxi!HearsStop(t) \/ Taxi!HearsContinue(t) \/ Taxi!HearsDisconnect(t)
    BY <1>0, <2>0, <2>1
    DEF Taxi!HearsStop, Taxi!HearsContinue, Taxi!HearsDisconnect, SameCourse, Taxi!Memory
  <2>2. CASE Taxi!HearsGoTo(t) \/ Taxi!ReadsPosition(t) \/ Taxi!AnswersArrived(t) \/ Taxi!Redirects(t)
    <3>1. Turn(t)
      BY <1>3, <2>2 DEF Turn, TaxiObeys
    <3>2. engine'[t].life = engine[t].life
      BY <1>0, <2>2
      DEF Taxi!HearsGoTo, Taxi!ReadsPosition, Taxi!AnswersArrived, Taxi!Redirects, Taxi!Memory
    <3>3. QED BY <2>0, <3>1, <3>2
  <2>3. QED BY <1>3, <2>1, <2>2 DEF TaxiObeys, Taxi!ObeysOrders
<1>4. CASE TaxiDrives(t)
  <2>0. ~TaxiStarts(t)
    BY <1>0, <1>4
    DEF TaxiDrives, TaxiStarts, Taxi!Starts, Taxi!SensorConnects, Taxi!Attends, Taxi!WaitFrame,
        Taxi!DriveFrame, Taxi!Drives, Taxi!Reports, Taxi!Sensor, Taxi!Runs
  <2>1. CASE Taxi!SensorConnects(t) \/ Taxi!WaitFrame(t)
    BY <1>0, <2>0, <2>1
    DEF Taxi!SensorConnects, Taxi!WaitFrame, Taxi!Sensor, SameCourse, Taxi!Memory
  <2>2. CASE Taxi!DriveFrame(t) \/ Taxi!Drives(t) \/ Taxi!Reports(t)
    <3>1. Turn(t)
      BY <1>4, <2>2 DEF Turn, TaxiDrives
    <3>2. engine'[t].life = engine[t].life
      BY <1>0, <2>2 DEF Taxi!DriveFrame, Taxi!Drives, Taxi!Reports, Taxi!Sensor, Taxi!Memory
    <3>3. QED BY <2>0, <3>1, <3>2
  <2>3. QED BY <1>4, <2>1, <2>2 DEF TaxiDrives, Taxi!Attends
<1>5. ASSUME NEW u \in Taxis, u # t,
             TaxiRegisters(u) \/ TaxiStarts(u) \/ TaxiObeys(u) \/ TaxiDrives(u)
      PROVE  engine'[t] = engine[t]
  BY <1>5, EngineType
<1>6. \/ UNCHANGED engine
      \/ \E u \in Taxis : TaxiRegisters(u) \/ TaxiStarts(u) \/ TaxiObeys(u) \/ TaxiDrives(u)
  BY DEF Next, vars, CentralHandles, ClockTicks, RegistrationAnnounced, OperatorOrders, StrayTaxi,
         CustomerActs, CustomerGivesUp, StrayCustomer, Unheard, TaxiLeaves
<1>7. QED BY <1>1, <1>2, <1>3, <1>4, <1>5, <1>6

-----------------------------------------------------------------------------
(* What the others do is quiet, but for turns, questions and answers        *)

\* Only one customer travels.
OneCustomer == \E c : Customers = {c}

\* Nobody leaves the house before every engine runs and every taxi is announced.
Early ==
    \A c \in Customers : rider[c].stage # "out" =>
        announcing = {} /\ \A t \in Taxis : Taxi!Runs(t)

\* Nothing in the topics comes from another session, moves a location or dismisses a customer.
Current ==
    /\ \A i \in DOMAIN requests : requests[i].subject \in TaxiArrivals => requests[i].session = "current"
    /\ Without(requests, P!Interferes)
    /\ \A c \in Customers : Without(responses[c], {"CUSTOMER_DISCONNECT"})

\* An engine that authenticates is new to the database.
LEMMA RegistersWithoutRow ==
    ASSUME Stops, Safe, NEW t \in Taxis, TaxiRegisters(t)
    PROVE  ~HasTaxi(db, t) /\ ~Sent(t)
<1>1. ~HasTaxi(db, t)
  BY DEF Stops, TaxiRegisters, Taxi!Authenticates
<1>2. QED BY <1>1 DEF Safe, OnErrands, ServiceOf

\* Engines keep their course but for turns.
LEMMA EnginesAreQuiet ==
    ASSUME ~Leaving, IInv, Safe, Stops, [Next]_vars, ~CentralHandles, NEW t \in Taxis, ~Turn(t)
    PROVE  (Underway(t) => SameCourse(t)) /\ (~Underway(t) => ~Underway(t)')
<1>1. CASE TaxiRegisters(t)
  <2>1. engine'[t] = Taxi!Fresh("authenticating")
    BY <1>1, TypesOfIInv DEF TaxiRegisters, Taxi!Authenticates
  <2>2. ~Underway(t) /\ ~Underway(t)'
    BY <1>1, <2>1, RegistersWithoutRow DEF Underway, Taxi!Fresh, Sent
  <2>3. QED BY <2>2
<1>2. CASE ~TaxiRegisters(t)
  <2>1. SameCourse(t)
    BY <1>2, OthersKeepCourse
  <2>2. QED BY <2>1 DEF SameCourse, Underway
<1>3. QED BY <1>1, <1>2

\* Rows: those that there are stay as they are, and a new one carries nobody.
LEMMA RowsAreQuiet ==
    ASSUME IInv, Safe, Stops, [Next]_vars, ~CentralHandles, NEW c \in Customers
    PROVE  /\ SameRide(c) /\ db'.customers = db.customers /\ db'.locations = db.locations
           /\ \A t \in Taxis : HasTaxi(db, t) => HasTaxi(db', t) /\ db'.taxis[t] = db.taxis[t]
           /\ \A t \in Taxis : ~HasTaxi(db, t) /\ HasTaxi(db', t) =>
                TaxiRegisters(t) /\ db'.taxis[t].pos = Base
<1>1. CASE db' = db
  BY <1>1 DEF SameRide, Unqueued
<1>2. ASSUME NEW t \in Taxis, TaxiRegisters(t)
      PROVE  /\ SameRide(c) /\ db'.customers = db.customers /\ db'.locations = db.locations
             /\ \A u \in Taxis : HasTaxi(db, u) => HasTaxi(db', u) /\ db'.taxis[u] = db.taxis[u]
             /\ \A u \in Taxis : ~HasTaxi(db, u) /\ HasTaxi(db', u) =>
                    TaxiRegisters(u) /\ db'.taxis[u].pos = Base
  <2>0. ~HasTaxi(db, t) /\ db \in Db
    BY <1>2, RegistersWithoutRow, TypesOfIInv
  <2>1. db' = [db EXCEPT !.taxis = [@ EXCEPT ![t] = NewTaxiRow]]
    BY <1>2, <2>0
    DEF TaxiRegisters, Central!Register, Central!RegisterTaxi, Central!HasTaxi, HasTaxi,
        Central!NewTaxiRow, NewTaxiRow
  <2>2. /\ db'.customers = db.customers /\ db'.locations = db.locations
        /\ \A u \in Taxis : db'.taxis[u] = IF u = t THEN NewTaxiRow ELSE db.taxis[u]
    BY <2>0, <2>1 DEF Db
  <2>3. /\ NewTaxiRow.customer_id = None /\ NewTaxiRow.service = None /\ NewTaxiRow.pos = Base
        /\ HasTaxi(db', t)
    BY <1>2, NobodyForgotten DEF NewTaxiRow
  <2>4. \A u \in Taxis :
            /\ HasTaxi(db, u) => HasTaxi(db', u) /\ db'.taxis[u] = db.taxis[u]
            /\ CarriedBy(db', u) = CarriedBy(db, u) /\ ServiceOf(db', u) = ServiceOf(db, u)
    BY <2>0, <2>2, <2>3 DEF HasTaxi, CarriedBy, ServiceOf
  <2>5. Unqueued(c) <=> Unqueued(c)'
    BY <2>2 DEF Unqueued, P!Queued, P!HasCustomer
  <2>6. SameRide(c)
    BY <2>2, <2>4, <2>5 DEF SameRide
  <2>7. \A u \in Taxis : ~HasTaxi(db, u) /\ HasTaxi(db', u) => u = t
    BY <2>2 DEF HasTaxi
  <2>8. db'.taxis[t].pos = Base
    BY <2>2, <2>3
  <2>9. QED BY <1>2, <2>2, <2>4, <2>6, <2>7, <2>8
<1>3. QED BY <1>1, <1>2, OthersLeaveCentral

\* What taxis read that is no order to go anywhere.
LEMMA TaxisReadQuietly ==
    ASSUME IInv, [Next]_vars, ~CentralHandles, ~Leaving, NEW t \in Taxis, ~Turn(t)
    PROVE  Keeps(responses[t], responses'[t], Drives)
<1>0. t \in Subscribers /\ responses \in Inboxes /\ responses[t] \in Seq(TaxiNotice \cup CustomerNotice)
  BY TypesOfIInv DEF Subscribers, Inboxes
<1>1. CASE responses'[t] = responses[t]
  BY <1>1, KeepsItself
<1>2. ASSUME NEW s \in {"TAXI_STOP", "TAXI_CONTINUE", "TAXI_DISCONNECT"}, Taxi!Hears(t, s)
      PROVE  Keeps(responses[t], responses'[t], Drives)
  <2>1. responses[t] # <<>> /\ Head(responses[t]).subject = s /\ responses'[t] = Tail(responses[t])
    BY <1>0, <1>2 DEF Taxi!Hears, Inboxes
  <2>2. Head(responses[t]).subject \notin Drives
    BY <2>1 DEF Drives
  <2>3. QED BY <1>0, <2>1, <2>2, KeepsReading
<1>3. CASE TaxiObeys(t)
  <2>1. CASE Taxi!HearsStop(t) \/ Taxi!HearsContinue(t) \/ Taxi!HearsDisconnect(t)
    BY <1>2, <2>1 DEF Taxi!HearsStop, Taxi!HearsContinue, Taxi!HearsDisconnect
  <2>2. ~(Taxi!HearsGoTo(t) \/ Taxi!ReadsPosition(t) \/ Taxi!AnswersArrived(t) \/ Taxi!Redirects(t))
    BY <1>3 DEF Turn, TaxiObeys
  <2>3. QED BY <1>3, <2>1, <2>2 DEF TaxiObeys, Taxi!ObeysOrders
<1>4. ASSUME NEW u \in Taxis, u # t, TaxiObeys(u)
      PROVE  responses'[t] = responses[t]
  <2>1. UNCHANGED responses \/ \E s : Taxi!Hears(u, s)
    BY <1>4
    DEF TaxiObeys, Taxi!ObeysOrders, Taxi!HearsGoTo, Taxi!ReadsPosition, Taxi!AnswersArrived,
        Taxi!Redirects, Taxi!HearsStop, Taxi!HearsContinue, Taxi!HearsDisconnect
  <2>2. QED BY <1>0, <1>4, <2>1 DEF Taxi!Hears, Inboxes
<1>5. ASSUME NEW c \in Customers, CustomerActs(c) \/ Unheard(c)
      PROVE  responses'[t] = responses[t]
  <2>1. c # t
    BY ClientsAssumption
  <2>2. UNCHANGED responses \/ responses' = [responses EXCEPT ![c] = Tail(@)]
    BY <1>5
    DEF CustomerActs, Rider!Acts, Rider!Joins, Rider!IsWelcome, Rider!IsRefused, Rider!Asks,
        Rider!Follows, Rider!HearsNews, Rider!HearsOutcome, Rider!HearsDisconnect, Rider!Next,
        Rider!Rests, Rider!GoesOn, Unheard, Central!Read
  <2>3. QED BY <1>0, <2>1, <2>2 DEF Inboxes
<1>6. CASE \/ ClockTicks \/ RegistrationAnnounced \/ OperatorOrders \/ UNCHANGED vars
           \/ \E u \in Taxis : TaxiRegisters(u) \/ TaxiStarts(u) \/ TaxiDrives(u)
  BY <1>1, <1>6
  DEF ClockTicks, RegistrationAnnounced, Central!Tick, Central!Announce, OperatorOrders, vars,
      TaxiRegisters, Central!Register, TaxiStarts, Taxi!Starts, TaxiDrives, Taxi!SensorConnects,
      Taxi!Attends, Taxi!WaitFrame, Taxi!DriveFrame, Taxi!Drives, Taxi!Reports, Taxi!Sensor
<1>7. QED
  BY <1>1, <1>3, <1>4, <1>5, <1>6
  DEF Next, TaxiLeaves, StrayTaxi, CustomerGivesUp, StrayCustomer

\* What a customer does that neither asks nor hears an outcome.
LEMMA RiderIsQuiet ==
    ASSUME ~Leaving, OneCustomer, IInv, Current, [Next]_vars, ~CentralHandles, NEW c \in Customers,
           Phase(c), ~Rider!Asks(c), \A s \in Outcomes : ~Rider!HearsOutcome(c, s)
    PROVE  /\ Keeps(responses[c], responses'[c], Outcomes)
           /\ Following(c)' <=> Following(c)
           /\ Following(c) => rider'[c] = rider[c]
<1>0. /\ c \in Subscribers /\ responses \in Inboxes
      /\ responses[c] \in Seq(TaxiNotice \cup CustomerNotice)
      /\ rider \in [Customers -> Rider!Memory] /\ Customers = {c}
  BY TypesOfIInv DEF Subscribers, Inboxes, OneCustomer
<1>1. ASSUME responses[c] # <<>>, responses'[c] = Tail(responses[c]),
             Head(responses[c]).subject \notin Outcomes
      PROVE  Keeps(responses[c], responses'[c], Outcomes)
  BY <1>0, <1>1, KeepsReading
<1>2. ASSUME NEW m, Rider!Next(c, m)
      PROVE  responses[c] # <<>> /\ m = Head(responses[c]) /\ responses'[c] = Tail(responses[c])
  BY <1>0, <1>2 DEF Rider!Next, Inboxes
<1>3. CASE UNCHANGED rider /\ responses'[c] = responses[c]
  BY <1>3, KeepsItself DEF Following
<1>4. ASSUME NEW s \in {"ACCEPT", "DENY"}, NEW stage \in {"asking", "gone", "failed"},
             Rider!At(c, "joining"), Rider!Next(c, Rider!Notice(s)), Rider!Goes(c, stage)
      PROVE  /\ Keeps(responses[c], responses'[c], Outcomes)
             /\ Following(c)' <=> Following(c)
             /\ Following(c) => rider'[c] = rider[c]
  <2>1. ~Following(c) /\ ~Following(c)'
    BY <1>0, <1>4 DEF Following, Rider!At, Rider!Goes, Rider!Memory
  <2>2. Head(responses[c]).subject \notin Outcomes
    BY <1>2, <1>4 DEF Rider!Notice, Outcomes
  <2>3. QED BY <1>1, <1>2, <1>4, <2>1, <2>2
<1>5. CASE Rider!IsWelcome(c)
  BY <1>4, <1>5 DEF Rider!IsWelcome
<1>6. CASE Rider!IsRefused(c)
  BY <1>4, <1>6 DEF Rider!IsRefused
<1>7. CASE Rider!HearsNews(c)
  <2>0. \E m : Rider!Next(c, m) /\ m.subject \notin Outcomes
    <3>1. CASE \E s \in {"CUSTOMER_PRIORITY", "CUSTOMER_PICKED_UP", "CUSTOMER_ENQUEUED"} :
                  Rider!Next(c, Rider!Notice(s))
      BY <3>1 DEF Rider!Notice, Outcomes
    <3>2. CASE \E t \in Taxis : Rider!Next(c, Rider!Accepted(t))
      BY <3>2 DEF Rider!Accepted, Outcomes
    <3>3. QED BY <1>7, <3>1, <3>2 DEF Rider!HearsNews
  <2>1. Head(responses[c]).subject \notin Outcomes
    BY <1>2, <2>0
  <2>2. responses[c] # <<>> /\ responses'[c] = Tail(responses[c]) /\ rider' = rider
    BY <1>2, <1>7 DEF Rider!HearsNews
  <2>3. QED BY <1>1, <2>1, <2>2 DEF Following
<1>8. ~Rider!HearsDisconnect(c)
  <2>1. SUFFICES ASSUME Rider!HearsDisconnect(c) PROVE FALSE
    OBVIOUS
  <2>2. responses[c] # <<>> /\ Head(responses[c]).subject \in {"CUSTOMER_DISCONNECT"}
    BY <2>1, <1>2 DEF Rider!HearsDisconnect, Rider!Notice
  <2>3. QED BY <1>0, <2>2, WithoutReads DEF Current
<1>9. CASE Rider!Joins(c) \/ Rider!Rests(c) \/ Rider!GoesOn(c)
  <2>1. responses'[c] = responses[c]
    BY <1>9 DEF Rider!Joins, Rider!Rests, Rider!GoesOn
  <2>2. ~Following(c) /\ ~Following(c)'
    BY <1>0, <1>9
    DEF Rider!Joins, Rider!Rests, Rider!GoesOn, Rider!At, Rider!Goes, Following, Rider!Memory
  <2>3. QED BY <2>1, <2>2, KeepsItself
<1>10. CASE Unheard(c)
  <2>1. responses[c] # <<>> /\ responses'[c] = Tail(responses[c]) /\ rider' = rider /\ ~Following(c)
    BY <1>0, <1>10 DEF Unheard, Central!Read, Following, Inboxes
  <2>2. Without(responses[c], Outcomes)
    BY <2>1 DEF Phase, Idle, Silence, Asked, Waits, Over, Served, Engaged
  <2>3. Head(responses[c]).subject \notin Outcomes
    BY <1>0, <2>1, <2>2, WithoutReads
  <2>4. QED BY <1>1, <2>1, <2>3 DEF Following
<1>11. ASSUME NEW b \in Customers, CustomerActs(b) \/ Unheard(b)
       PROVE  \/ Rider!IsWelcome(c) \/ Rider!IsRefused(c) \/ Rider!HearsNews(c) \/ Unheard(c)
              \/ Rider!Joins(c) \/ Rider!Rests(c) \/ Rider!GoesOn(c)
  <2>1. b = c
    BY <1>0
  <2>2. QED BY <1>8, <1>11, <2>1 DEF CustomerActs, Rider!Acts, Rider!Follows, Outcomes
<1>12. ASSUME NEW u \in Taxis, TaxiObeys(u)
       PROVE  UNCHANGED rider /\ responses'[c] = responses[c]
  <2>1. UNCHANGED responses \/ \E s : Taxi!Hears(u, s)
    BY <1>12
    DEF TaxiObeys, Taxi!ObeysOrders, Taxi!HearsGoTo, Taxi!ReadsPosition, Taxi!AnswersArrived,
        Taxi!Redirects, Taxi!HearsStop, Taxi!HearsContinue, Taxi!HearsDisconnect
  <2>2. u # c
    BY ClientsAssumption
  <2>3. QED BY <1>0, <1>12, <2>1, <2>2 DEF Taxi!Hears, Inboxes, TaxiObeys
<1>13. CASE \/ ClockTicks \/ RegistrationAnnounced \/ OperatorOrders \/ UNCHANGED vars
            \/ \E u \in Taxis : TaxiRegisters(u) \/ TaxiStarts(u) \/ TaxiDrives(u)
  BY <1>3, <1>13
  DEF ClockTicks, RegistrationAnnounced, Central!Tick, Central!Announce, OperatorOrders, vars,
      TaxiRegisters, Central!Register, TaxiStarts, Taxi!Starts, TaxiDrives, Taxi!SensorConnects,
      Taxi!Attends, Taxi!WaitFrame, Taxi!DriveFrame, Taxi!Drives, Taxi!Reports, Taxi!Sensor
<1>14. QED
  BY <1>3, <1>5, <1>6, <1>7, <1>9, <1>10, <1>11, <1>12, <1>13
  DEF Next, TaxiLeaves, StrayTaxi, CustomerGivesUp, StrayCustomer

\* So no other step of the environment disturbs a ride.
LEMMA OthersAreQuiet ==
    ASSUME ~Leaving, OneCustomer, IInv, Safe, Stops, Early, Current, [Next]_vars, ~CentralHandles,
           NEW c \in Customers, Phase(c), \A t \in Taxis : ~Turn(t),
           ~Rider!Asks(c), \A s \in Outcomes : ~Rider!HearsOutcome(c, s)
    PROVE  Quiet(c)
<1>0. requests \in Seq(Request) /\ Customers = {c}
  BY TypesOfIInv DEF OneCustomer
<1>1. SameRide(c)
  BY RowsAreQuiet
<1>2. \A t \in Taxis :
        /\ Underway(t) => SameCourse(t)
        /\ ~Underway(t) => ~Underway(t)'
        /\ Keeps(responses[t], responses'[t], Drives)
  BY EnginesAreQuiet, TaxisReadQuietly
<1>3. /\ Keeps(responses[c], responses'[c], Outcomes)
      /\ Following(c)' <=> Following(c)
      /\ Following(c) => rider'[c] = rider[c]
  BY RiderIsQuiet
<1>4. Utters
  BY <1>0, OthersUtter
<1>5. ASSUME NEW m \in announcing, Following(c) PROVE FALSE
  <2>1. m.taxiId \in Taxis
    BY TypesOfIInv DEF P!TypeOK, P!Registration
  <2>2. rider[c].stage # "out"
    BY <1>5 DEF Following
  <2>3. QED BY <2>1, <2>2 DEF Early
<1>6. ASSUME NEW m \in Request, requests' = Append(requests, m),
             m.subject \notin Calls \cup TaxiArrivals, m.subject \in Entries => m \in announcing
      PROVE  /\ Keeps(requests, requests', Calls)
             /\ Following(c) =>
                    /\ Due(requests, Asking(c)) => Due(requests', Asking(c))
                    /\ Without(requests, Entries) => Without(requests', Entries)
  <2>1. Keeps(requests, requests', Calls)
    BY <1>0, <1>6, KeepsWriting
  <2>2. ASSUME Following(c)
        PROVE  /\ Due(requests, Asking(c)) => Due(requests', Asking(c))
               /\ Keeps(requests, requests', Entries)
    <3>1. m.subject \notin Entries
      BY <1>5, <1>6, <2>2
    <3>2. QED BY <1>0, <1>6, <3>1, KeepsWriting, DueWritten
  <2>3. QED BY <2>1, <2>2 DEF Keeps
<1>7. CASE requests' = requests
  BY <1>1, <1>2, <1>3, <1>7, KeepsItself DEF Quiet
<1>8. QED BY <1>1, <1>2, <1>3, <1>4, <1>6, <1>7 DEF Utters, Quiet

\* Only customers move customers, and then nothing else moves.
LEMMA CustomersActAlone ==
    ASSUME ~Leaving, [Next]_vars, rider' # rider
    PROVE  /\ UNCHANGED <<centralVars, engine>>
           /\ \E c \in Customers : CustomerActs(c)
BY DEF Next, vars, CentralHandles, ClockTicks, RegistrationAnnounced, OperatorOrders, StrayTaxi,
       StrayCustomer, Unheard, TaxiRegisters, TaxiStarts, TaxiObeys, TaxiDrives, TaxiLeaves,
       CustomerActs, CustomerGivesUp

\* What a customer asks is a call.
LEMMA AskingIsCall ==
    ASSUME IInv, NEW c \in Customers, rider[c].stage = "asking"
    PROVE  Asking(c) \in Request /\ Asking(c).subject \in Calls
<1>1. rider[c].index \in 1..Len(Wishes[c])
  BY DEF IInv, Listed
<1>2. Rider!Wish(c) \in Services
  BY <1>1, CustomersAssumption DEF Rider!Wish
<1>3. QED BY <1>2, SessionsAssumption DEF Asking, Request, Calls, P!Calls

\* The customer asks: from Idle to Asked.
LEMMA AskingKeepsPhase ==
    ASSUME ~Leaving, IInv, [Next]_vars, NEW c \in Customers, Phase(c), Rider!Asks(c)
    PROVE  Phase(c)'
<1>0. /\ rider \in [Customers -> Rider!Memory] /\ requests \in Seq(Request)
      /\ rider[c].stage = "asking"
  BY TypesOfIInv DEF Rider!Asks, Rider!At
<1>1. /\ requests' = Append(requests, Asking(c)) /\ responses' = responses
      /\ rider' = [rider EXCEPT ![c].stage = "following"]
  BY DEF Rider!Asks, Rider!Say, Rider!Goes, Asking
<1>2. rider'[c].stage = "following" /\ rider'[c].index = rider[c].index
  BY <1>0, <1>1 DEF Rider!Memory
<1>3. db' = db /\ engine' = engine
  BY <1>0, <1>2, CustomersActAlone DEF centralVars
<1>4. Idle(c)
  BY <1>0 DEF Phase, Asked, Waits, Over, Served, Engaged, Following
<1>5. Asking(c)' = Asking(c)
  BY <1>2 DEF Asking, Rider!Wish
<1>6. Asking(c) \in Request /\ Asking(c).subject \in Calls
  BY <1>0, AskingIsCall
<1>7. Due(requests', Asking(c))
  BY <1>0, <1>1, <1>4, <1>6, DueWritten DEF Idle, Silence
<1>8. Asked(c)'
  BY <1>1, <1>2, <1>3, <1>4, <1>5, <1>7
  DEF Asked, Idle, Silence, Following, Still, Underway, Vacant, Unqueued
<1>9. QED BY <1>8 DEF Phase

\* It hears how its service ended: from Over to Idle.
LEMMA HearingKeepsPhase ==
    ASSUME ~Leaving, IInv, [Next]_vars, NEW c \in Customers, Phase(c),
           NEW s \in Outcomes, Rider!HearsOutcome(c, s)
    PROVE  Phase(c)'
<1>0. /\ rider \in [Customers -> Rider!Memory] /\ c \in Subscribers /\ responses \in Inboxes
      /\ responses[c] \in Seq(TaxiNotice \cup CustomerNotice) /\ Following(c)
  BY TypesOfIInv DEF Subscribers, Inboxes, Rider!HearsOutcome, Rider!At, Following
<1>1. /\ responses[c] # <<>> /\ Head(responses[c]).subject \in Outcomes
      /\ responses' = [responses EXCEPT ![c] = Tail(@)] /\ requests' = requests
      /\ rider' = [rider EXCEPT ![c].stage = "resting", ![c].left = RestFrom]
  BY DEF Rider!HearsOutcome, Rider!Next, Rider!Notice
<1>2. rider'[c].stage = "resting"
  BY <1>0, <1>1 DEF Rider!Memory
<1>3. db' = db /\ engine' = engine
  BY <1>0, <1>2, CustomersActAlone DEF centralVars, Following
<1>4. ~Without(responses[c], Outcomes)
  BY <1>0, <1>1, WithoutReads
<1>5. Over(c)
  BY <1>4 DEF Phase, Idle, Silence, Asked, Waits, Served, Engaged
<1>6. Without(Tail(responses[c]), Outcomes)
  BY <1>0, <1>1, <1>5, OnlyRead DEF Over
<1>7. responses'[c] = Tail(responses[c]) /\ \A t \in Taxis : responses'[t] = responses[t]
  BY <1>0, <1>1, ClientsAssumption DEF Inboxes, Subscribers
<1>8. Idle(c)'
  BY <1>1, <1>2, <1>3, <1>5, <1>6, <1>7
  DEF Idle, Over, Silence, Following, Still, Underway, Vacant, Unqueued
<1>9. QED BY <1>8 DEF Phase

\* A customer that follows has a row.
LEMMA FollowersHaveRows ==
    ASSUME IInv, Safe, NEW c \in Customers, Following(c)
    PROVE  HasCustomer(db, c)
BY DEF Following, IInv, Welcomed, Safe, Lodged, Gone

\* All steps but those of the central.
LEMMA OthersKeepPhase ==
    ASSUME ~Leaving, OneCustomer, IInv, Safe, Stops, Early, Current, [Next]_vars, ~CentralHandles,
           NEW c \in Customers, Phase(c)
    PROVE  Phase(c)'
<1>1. CASE \E t \in Taxis : Turn(t)
  BY <1>1, TurnsKeepPhase
<1>2. CASE Rider!Asks(c)
  BY <1>2, AskingKeepsPhase
<1>3. CASE \E s \in Outcomes : Rider!HearsOutcome(c, s)
  BY <1>3, HearingKeepsPhase
<1>4. CASE /\ \A t \in Taxis : ~Turn(t)
           /\ ~Rider!Asks(c) /\ \A s \in Outcomes : ~Rider!HearsOutcome(c, s)
  BY <1>4, OthersAreQuiet, QuietKeepsPhase, FollowersHaveRows
<1>5. QED BY <1>1, <1>2, <1>3, <1>4

-----------------------------------------------------------------------------
(* What the central does                                                    *)

\* KafkaServer and this module read the database and write to inboxes alike.
LEMMA OwnWords ==
    /\ \A d, t : P!CarriedBy(d, t) = CarriedBy(d, t)
    /\ \A d, c : P!DestinationOf(d, c) = DestinationOf(d, c)
    /\ \A r, s, m : P!Send(r, s, m) = Send(r, s, m)
    /\ \A p : P!GoTo(p) = GoTo(p)
    /\ \A t : P!Accepted(t) = Accepted(t)
    /\ \A s : P!Notice(s) = Notice(s)
BY DEF P!CarriedBy, CarriedBy, P!DestinationOf, DestinationOf, P!Send, Send, P!GoTo, GoTo,
       P!Accepted, Accepted, P!Notice, Notice, P!HasTaxi, HasTaxi, P!HasCustomer, HasCustomer

\* The taxis that report are where they say, and the rest of the database's map stays as it is.
Tracks ==
    /\ db'.locations = db.locations
    /\ \A t \in Taxis :
        /\ HasTaxi(db', t) <=> HasTaxi(db, t)
        /\ HasTaxi(db, t) =>
            db'.taxis[t].pos = IF ReportOf(Head(requests), t) THEN Head(requests).coord
                                                              ELSE db.taxis[t].pos
    /\ \A c \in Customers : Keeps(responses[c], responses'[c], {"CUSTOMER_DISCONNECT"})

\* The central takes the request m.
Takes(m) ==
    /\ P!TypeOK /\ P!Handle /\ dbUp
    /\ requests \in Seq(Request) /\ requests # <<>> /\ requests' = Tail(requests)
    /\ m = Head(requests) /\ m = P!request /\ m \in P!Request
    /\ UNCHANGED <<engine, rider>>

\* It does so in every step of it, and the request is none that sends a taxi away.
LEMMA CentralTakes ==
    ASSUME ~SendsAway, IInv, Undiverted, Safe, CentralHandles
    PROVE  Takes(Head(requests)) /\ Head(requests).subject \notin P!Diversions
<1>1. /\ P!TypeOK /\ P!Handle /\ requests \in Seq(Request) /\ requests # <<>>
      /\ requests' = Tail(requests) /\ UNCHANGED <<engine, rider>>
  BY TypesOfIInv, SameHandlers, CentralSurvives DEF CentralHandles
<1>2. Head(requests) = requests[1] /\ 1 \in DOMAIN requests /\ Head(requests) \in P!Request
  BY <1>1, SameTypes
<1>3. dbUp
  BY DEF Safe, Works
<1>4. Head(requests).subject \notin P!Diversions
  BY <1>2 DEF Undiverted, SendsAway
<1>5. QED BY <1>1, <1>2, <1>3, <1>4 DEF Takes, P!request

\* More to read, but nothing of S.
LEMMA MoreKeeps ==
    ASSUME IInv, CentralHandles, NEW s \in Subscribers, NEW S,
           \A n : P!Says(responses', s, n) => n.subject \notin S
    PROVE  Keeps(responses[s], responses'[s], S)
<1>1. responses[s] \in Seq(TaxiNotice \cup CustomerNotice)
  BY TypesOfIInv DEF Inboxes
<1>2. responses'[s] \in Seq(TaxiNotice \cup CustomerNotice)
  BY WritingOn DEF Inboxes
<1>3. \A i \in DOMAIN responses'[s] : i \notin DOMAIN responses[s] => responses'[s][i].subject \notin S
  BY WritingOn
<1>4. QED BY <1>1, <1>2, <1>3, WritingOn, KeepsLonger

\* What the central does to inboxes, one message at a time.
LEMMA Sending ==
    ASSUME NEW r \in Inboxes, NEW s \in Subscribers, NEW m \in TaxiNotice \cup CustomerNotice
    PROVE  /\ Send(r, s, m) \in Inboxes
           /\ Send(r, s, m)[s] = Append(r[s], m)
           /\ \A u \in Subscribers : u # s => Send(r, s, m)[u] = r[u]
           /\ \A u \in Subscribers : r[u] \in Seq(TaxiNotice \cup CustomerNotice)
BY DEF Inboxes, Send

\* Consuming a request that is no call: what is due stays due.
LEMMA TakingKeeps ==
    ASSUME NEW m, Takes(m), m.subject \notin Calls, NEW c
    PROVE  /\ Keeps(requests, requests', Calls)
           /\ Due(requests, Asking(c)) => Due(requests', Asking(c))
           /\ Without(requests, Entries) => Without(requests', Entries)
<1>1. requests \in Seq(Request) /\ requests # <<>> /\ requests' = Tail(requests) /\ m = Head(requests)
  BY DEF Takes
<1>2. Without(requests, Entries) => Without(Tail(requests), Entries)
  BY <1>1, ReadingOn DEF Without
<1>3. QED BY <1>1, <1>2, KeepsReading, DueRead

\* A request that is neither a call nor a report leaves the ride alone.
LEMMA CalmKeepsPhase ==
    ASSUME OneCustomer, IInv, Safe, CentralHandles, NEW c \in Customers, Phase(c),
           NEW m, Takes(m), m.subject \notin Calls \cup P!Interferes \cup P!Diversions \cup {"TAXI_MOVE"}
    PROVE  Phase(c)' /\ Tracks
<1>0. /\ Customers = {c} /\ c \in Subscribers /\ \A t \in Taxis : t \in Subscribers
      /\ requests \in Seq(Request) /\ requests # <<>> /\ m = Head(requests) /\ m = P!request
  BY DEF OneCustomer, Subscribers, Takes
<1>1. m.subject \in Entries => Unqueued(c)
  <2>1. m.subject \in Entries => ~Without(requests, Entries)
    BY <1>0, WithoutReads
  <2>2. QED BY <2>1 DEF Phase, Idle, Asked, Over, Waits, Served, Engaged
<1>2. m.subject \in Entries => P!checkQueue(db) = {}
  BY <1>0, <1>1 DEF Unqueued, P!checkQueue, P!FirstInQueue, P!Queued
<1>3. P!Calmly
  BY <1>0, <1>2, CentralAssumptions, P!HandlersAreCalm DEF Takes, Entries, Calls
<1>4. \A s \in Subscribers : \A n : P!Says(responses', s, n) => n.subject \notin P!Moving
  BY <1>3, SameTypes DEF P!Calmly, P!Hush
<1>5. /\ \A t \in Taxis : Keeps(responses[t], responses'[t], Drives)
      /\ Keeps(responses[c], responses'[c], Outcomes)
      /\ \A b \in Customers : Keeps(responses[b], responses'[b], {"CUSTOMER_DISCONNECT"})
  BY <1>0, <1>4, MoreKeeps DEF P!Moving, Drives, Outcomes
<1>6. /\ db'.locations = db.locations
      /\ \A t \in Taxis : P!SameTaxi(db, db', t)
      /\ P!SameCustomer(db, db', c)
  BY <1>3 DEF P!Calmly, P!Calm
<1>7. \A t \in Taxis :
        /\ HasTaxi(db', t) <=> HasTaxi(db, t)
        /\ CarriedBy(db', t) = CarriedBy(db, t) /\ ServiceOf(db', t) = ServiceOf(db, t)
        /\ HasTaxi(db, t) => db'.taxis[t].pos = db.taxis[t].pos
  BY <1>6, OwnRows DEF P!SameTaxi, CarriedBy, ServiceOf
<1>8. SameRide(c)
  BY <1>6, <1>7, OwnRows DEF P!SameCustomer, SameRide, Unqueued
<1>9. \A t \in Taxis : ~ReportOf(m, t)
  BY DEF ReportOf, TaxiArrivals, Calls, P!Calls
<1>10. Tracks
  BY <1>0, <1>5, <1>6, <1>7, <1>9 DEF Tracks
<1>11. engine' = engine /\ rider' = rider
  BY DEF Takes
<1>12. Quiet(c)
  BY <1>5, <1>8, <1>11, TakingKeeps DEF Quiet, SameCourse, Underway, Following
<1>13. QED BY <1>10, <1>12, QuietKeepsPhase, FollowersHaveRows

\* A taxi that t carries c in moves c with it.
LEMMA LandingRide ==
    ASSUME NEW c \in Customers, NEW t \in Taxis, NEW p, NEW seat, NEW e,
           P!Lands(db, e, t, p, seat), HasTaxi(db, t)
    PROVE  /\ e.locations = db.locations
           /\ \A u \in Taxis :
                /\ HasTaxi(e, u) <=> HasTaxi(db, u)
                /\ CarriedBy(e, u) = IF u = t THEN seat ELSE CarriedBy(db, u)
                /\ ServiceOf(e, u) = ServiceOf(db, u)
                /\ HasTaxi(db, u) => e.taxis[u].pos = IF u = t THEN p ELSE db.taxis[u].pos
           /\ c \in P!Queued(e) <=> c \in P!Queued(db)
           /\ HasCustomer(db, c) =>
                /\ e.customers[c].pos = IF c = CarriedBy(db, t) THEN p ELSE db.customers[c].pos
                /\ e.customers[c].destination = db.customers[c].destination
BY OwnRows, OwnWords DEF P!Lands, P!Queued

\* A report on the way moves the taxi, and its passenger with it.
LEMMA MovingKeepsPhase ==
    ASSUME IInv, Safe, CentralHandles, NEW c \in Customers, Phase(c),
           NEW m, Takes(m), m.subject = "TAXI_MOVE", m.session = "current", HasTaxi(db, m.taxiId)
    PROVE  Phase(c)' /\ Tracks
<1> DEFINE t == m.taxiId
<1>0. m = Head(requests) /\ m = P!request /\ engine' = engine /\ rider' = rider
  BY DEF Takes
<1>1. t \in Taxis
  BY CentralAssumptions, P!RequestMembers DEF Takes, P!TaxiArrivals
<1>2. P!Authentic(P!request)
  BY <1>0 DEF P!Authentic
<1>3. /\ P!Lands(db, db', t, m.coord, P!CarriedBy(db, t))
      /\ responses' = responses
  BY <1>0, <1>2, OwnRows, CentralAssumptions, P!TaxiMoveLands DEF Takes
<1>4. P!Lands(db, db', t, m.coord, CarriedBy(db, t))
  BY <1>3, OwnWords
<1>5. /\ db'.locations = db.locations
      /\ \A u \in Taxis :
            /\ HasTaxi(db', u) <=> HasTaxi(db, u)
            /\ CarriedBy(db', u) = CarriedBy(db, u)
            /\ ServiceOf(db', u) = ServiceOf(db, u)
            /\ HasTaxi(db, u) => db'.taxis[u].pos = IF u = t THEN m.coord ELSE db.taxis[u].pos
      /\ c \in P!Queued(db') <=> c \in P!Queued(db)
      /\ HasCustomer(db, c) =>
            /\ db'.customers[c].pos = IF c = CarriedBy(db, t) THEN m.coord ELSE db.customers[c].pos
            /\ db'.customers[c].destination = db.customers[c].destination
  BY <1>1, <1>4, LandingRide
<1>6. \A u \in Taxis : ReportOf(m, u) <=> u = t
  BY DEF ReportOf, TaxiArrivals
<1>7. Tracks
  BY <1>0, <1>3, <1>5, <1>6, KeepsItself DEF Tracks
<1>8. SameRide(c)
  BY <1>1, <1>5 DEF SameRide, Unqueued
<1>9. m.subject \notin Calls
  BY DEF Calls, P!Calls
<1>10. Quiet(c)
  BY <1>0, <1>3, <1>8, <1>9, TakingKeeps, KeepsItself DEF Quiet, SameCourse, Underway, Following
<1>11. QED BY <1>7, <1>10, QuietKeepsPhase, FollowersHaveRows

\* The call that comes is the one that c waits for an answer to.
LEMMA ReadsAsking ==
    ASSUME IInv, CentralHandles, NEW c \in Customers, NEW m, Takes(m), m.subject \in Calls, Asked(c)
    PROVE  m = Asking(c) /\ Without(requests', Calls) /\ Without(requests', Entries)
BY DueRead DEF Takes, Asked

\* A customer asks: it is queued, refused, or served by a taxi that was free.
LEMMA AskedKeepsPhase ==
    ASSUME IInv, Safe, db.locations = Locations, CentralHandles, NEW c \in Customers,
           NEW m, Takes(m), m.subject \in Calls, Asked(c)
    PROVE  Phase(c)' /\ Tracks
<1>0. /\ m = Head(requests) /\ m = P!request /\ engine' = engine /\ rider' = rider
      /\ responses \in Inboxes /\ c \in Subscribers /\ \A t \in Taxis : t \in Subscribers /\ t # c
      /\ c # None /\ dbUp
  BY TypesOfIInv, ClientsAssumption, NoneAssumption DEF Takes, Subscribers
<1>1. /\ m = Asking(c) /\ Without(requests', Calls) /\ Without(requests', Entries)
  BY ReadsAsking
<1>2. m.subject = "CUSTOMER_SERVICE_REQUEST" /\ m.id = c /\ m.data = Rider!Wish(c) /\ m.session = "current"
  BY <1>1 DEF Asking
<1>3. Following(c) /\ HasCustomer(db, c) /\ Rider!Wish(c)' = Rider!Wish(c) /\ Following(c)'
  BY <1>0, FollowersHaveRows DEF Asked, Following, Rider!Wish
<1>4. P!HasCustomer(db, c) /\ P!HasLocation(db, LetterOf[c]) /\ P!Authentic(P!request)
  BY <1>0, <1>2, <1>3, OwnRows DEF P!Authentic, Safe, Works
<1>5. \/ /\ db' = P!Enqueue(db, c, now)
         /\ responses' = P!Send(responses, c, P!Notice("CUSTOMER_ENQUEUED"))
      \/ /\ db' = db
         /\ responses' = P!Send(responses, c, P!Notice("CUSTOMER_SERVICE_DENIED"))
      \/ /\ P!HasLocation(db, m.data)
         /\ \E t \in Taxis :
                /\ P!HasTaxi(db, t)
                /\ P!Serves(db, db', t, c, m.data)
                /\ responses' = P!Send(P!Send(P!Send(responses, t, P!GoTo(db.customers[c].pos)),
                                              c, P!Accepted(t)), c, P!Accepted(t))
  BY <1>0, <1>2, <1>4, CentralAssumptions, P!RideAsked DEF Takes
<1>6. \A t \in Taxis : ~ReportOf(m, t)
  BY <1>2 DEF ReportOf, TaxiArrivals
<1>7. \A t \in Taxis : Underway(t)' <=> Underway(t)
  BY <1>0 DEF Underway
<1>8. ASSUME NEW s \in {"CUSTOMER_ENQUEUED", "CUSTOMER_SERVICE_DENIED"},
             responses' = P!Send(responses, c, P!Notice(s)), db'.taxis = db.taxis,
             db'.locations = db.locations
      PROVE  /\ responses'[c] = Append(responses[c], Notice(s))
             /\ Notice(s) \in TaxiNotice \cup CustomerNotice
             /\ responses[c] \in Seq(TaxiNotice \cup CustomerNotice)
             /\ Still' /\ Vacant' /\ Tracks
  <2>1. Notice(s) \in TaxiNotice \cup CustomerNotice
    BY DEF Notice, CustomerNotice
  <2>2. responses' = Send(responses, c, Notice(s))
    BY <1>8, OwnWords
  <2>3. /\ responses'[c] = Append(responses[c], Notice(s))
        /\ \A u \in Subscribers : u # c => responses'[u] = responses[u]
        /\ responses[c] \in Seq(TaxiNotice \cup CustomerNotice)
    BY <1>0, <2>1, <2>2, Sending
  <2>4. Still'
    BY <1>0, <1>7, <2>3 DEF Asked, Still
  <2>5. Vacant'
    BY <1>8 DEF Asked, Vacant, CarriedBy, HasTaxi
  <2>6. Notice(s).subject \notin {"CUSTOMER_DISCONNECT"}
    BY DEF Notice
  <2>7. Keeps(responses[c], responses'[c], {"CUSTOMER_DISCONNECT"})
    BY <2>1, <2>3, <2>6, KeepsWriting
  <2>8. \A b \in Customers : Keeps(responses[b], responses'[b], {"CUSTOMER_DISCONNECT"})
    BY <2>3, <2>7, KeepsItself DEF Subscribers
  <2>9. Tracks
    BY <1>0, <1>6, <1>8, <2>8 DEF Tracks, HasTaxi
  <2>10. QED BY <2>1, <2>3, <2>4, <2>5, <2>9
<1>9. CASE /\ db' = P!Enqueue(db, c, now)
           /\ responses' = P!Send(responses, c, P!Notice("CUSTOMER_ENQUEUED"))
  <2>1. db \in P!Db /\ now \in 0..MaxNow
    BY DEF Takes, P!TypeOK
  <2>2. db'.taxis = db.taxis /\ db'.locations = db.locations
    BY <1>4, <1>9, <2>1, CentralAssumptions, P!EnqueueStores
  <2>3. Notice("CUSTOMER_ENQUEUED").subject \notin Outcomes
    BY DEF Notice, Outcomes
  <2>4. Without(responses'[c], Outcomes)
    BY <1>8, <1>9, <2>2, <2>3, KeepsWriting DEF Asked, Keeps
  <2>5. Waits(c)'
    BY <1>1, <1>3, <1>8, <1>9, <2>2, <2>4 DEF Waits, Silence
  <2>6. QED BY <1>8, <1>9, <2>2, <2>5 DEF Phase
<1>10. CASE /\ db' = db
            /\ responses' = P!Send(responses, c, P!Notice("CUSTOMER_SERVICE_DENIED"))
  <2>1. Notice("CUSTOMER_SERVICE_DENIED").subject \in Outcomes /\ "CUSTOMER_SERVICE_DENIED" \in Outcomes
    BY DEF Notice, Outcomes
  <2>2. Only(responses'[c], Outcomes, Notice("CUSTOMER_SERVICE_DENIED"))
    BY <1>8, <1>10, <2>1, OnlyWritten DEF Asked
  <2>3. Unqueued(c)'
    BY <1>10 DEF Asked, Unqueued
  <2>4. Over(c)'
    BY <1>1, <1>3, <1>8, <1>10, <2>1, <2>2, <2>3 DEF Over
  <2>5. QED BY <1>8, <1>10, <2>4 DEF Phase
<1>11. ASSUME P!HasLocation(db, m.data),
              NEW t \in Taxis, P!HasTaxi(db, t), P!Serves(db, db', t, c, m.data),
              responses' = P!Send(P!Send(P!Send(responses, t, P!GoTo(db.customers[c].pos)),
                                         c, P!Accepted(t)), c, P!Accepted(t))
       PROVE  Phase(c)' /\ Tracks
  <2> DEFINE g == GoTo(db.customers[c].pos)
             a == Accepted(t)
             r == Send(responses, t, g)
             q == Send(r, c, a)
  <2>1. db.customers[c].pos \in Points
    BY <1>3, TypesOfIInv DEF Db, HasCustomer, CustomerRow
  <2>2. /\ g \in TaxiNotice \cup CustomerNotice /\ a \in TaxiNotice \cup CustomerNotice
        /\ g.subject \in Drives /\ g.subject # "CUSTOMER_DISCONNECT"
        /\ a.subject \notin Outcomes /\ a.subject \notin {"CUSTOMER_DISCONNECT"}
    BY <2>1 DEF GoTo, Accepted, TaxiNotice, CustomerNotice, Drives, Outcomes
  <2>3. responses' = Send(q, c, a)
    BY <1>11, OwnWords
  <2> HIDE DEF g, a
  <2>4. /\ r \in Inboxes /\ r[t] = Append(responses[t], g)
        /\ responses[t] \in Seq(TaxiNotice \cup CustomerNotice)
        /\ \A u \in Subscribers : u # t => r[u] = responses[u]
    BY <1>0, <2>2, Sending
  <2>5. /\ q \in Inboxes /\ q[c] = Append(r[c], a) /\ r[c] \in Seq(TaxiNotice \cup CustomerNotice)
        /\ \A u \in Subscribers : u # c => q[u] = r[u]
    BY <1>0, <2>2, <2>4, Sending
  <2>6. /\ responses'[c] = Append(q[c], a) /\ q[c] \in Seq(TaxiNotice \cup CustomerNotice)
        /\ \A u \in Subscribers : u # c => responses'[u] = q[u]
    BY <1>0, <2>2, <2>3, <2>5, Sending
  <2> HIDE DEF r, q
  <2>7. /\ responses'[t] = Append(responses[t], g)
        /\ \A u \in Taxis : u # t => responses'[u] = responses[u]
        /\ \A b \in Customers : b # c => responses'[b] = responses[b]
        /\ q[c] = Append(responses[c], a) /\ responses[c] \in Seq(TaxiNotice \cup CustomerNotice)
    BY <1>0, <2>4, <2>5, <2>6, ClientsAssumption DEF Subscribers
  <2>8. /\ Keeps(responses[c], responses'[c], {"CUSTOMER_DISCONNECT"})
        /\ Without(responses'[c], Outcomes)
    <3>1. ASSUME NEW S, a.subject \notin S
          PROVE  Keeps(responses[c], responses'[c], S)
      <4>1. Keeps(responses[c], q[c], S)
        BY <2>2, <2>7, <3>1, KeepsWriting
      <4>2. Keeps(q[c], responses'[c], S)
        BY <2>2, <2>6, <3>1, KeepsWriting
      <4>3. QED BY <4>1, <4>2 DEF Keeps
    <3>2. Keeps(responses[c], responses'[c], {"CUSTOMER_DISCONNECT"})
      BY <2>2, <3>1
    <3>3. Keeps(responses[c], responses'[c], Outcomes)
      BY <2>2, <3>1
    <3>4. QED BY <3>2, <3>3 DEF Keeps, Asked
  <2>9. Only(responses'[t], Drives, g)
    BY <2>2, <2>4, <2>7, OnlyWritten DEF Asked, Still
  <2>10. /\ db'.locations = db.locations
         /\ \A u \in Taxis :
                /\ HasTaxi(db', u) <=> HasTaxi(db, u)
                /\ CarriedBy(db', u) = CarriedBy(db, u)
                /\ ServiceOf(db', t) = c
                /\ HasTaxi(db, u) => db'.taxis[u].pos = db.taxis[u].pos
         /\ db'.customers[c].pos = db.customers[c].pos
         /\ db'.customers[c].destination = m.data
         /\ c \in P!Queued(db') <=> c \in P!Queued(db)
         /\ HasTaxi(db, t)
    BY <1>3, <1>11, OwnRows, OwnWords DEF P!Serves, P!Queued
  <2>11. Tracks
    BY <1>0, <1>6, <2>7, <2>8, <2>10, KeepsItself DEF Tracks
  <2>12. /\ Locations[Rider!Wish(c)] # None
    BY <1>2, <1>11 DEF P!HasLocation
  <2>13. Engaged(c, t)'
    BY <1>0, <1>2, <1>3, <1>7, <2>7, <2>8, <2>10, <2>12 DEF Engaged, Asked, Still, Vacant, Unqueued
  <2>14. Goal(c, t)' = db.customers[c].pos
    BY <1>0, <2>10 DEF Goal, Asked, Vacant
  <2>15. GoTo(Goal(c, t))' = g
    BY <2>14 DEF g, GoTo
  <2>16. Ordered(c, t)'
    BY <1>1, <1>7, <2>9, <2>15 DEF Ordered, Asked, Still
  <2>17. QED BY <2>11, <2>13, <2>16 DEF Served, Phase
<1>12. QED BY <1>5, <1>9, <1>10, <1>11

\* A taxi arrives: at its customer, which it picks up, or with it where it asked to be.
LEMMA ArrivingKeepsPhase ==
    ASSUME OneCustomer, IInv, Safe, db.locations = Locations, CentralHandles, NEW c \in Customers,
           NEW m, Takes(m), m.subject \in Calls, NEW t \in Taxis, Engaged(c, t), Arrives(c, t)
    PROVE  Phase(c)' /\ Tracks
<1>p. PICK p : p = Goal(c, t)
  OBVIOUS
<1>0. /\ m = Head(requests) /\ m = P!request /\ engine' = engine /\ rider' = rider
      /\ requests \in Seq(Request) /\ requests # <<>> /\ requests' = Tail(requests)
      /\ responses \in Inboxes /\ c \in Subscribers /\ t \in Subscribers
      /\ \A u \in Taxis : u \in Subscribers /\ u # c
      /\ c # None /\ dbUp /\ Customers = {c}
  BY TypesOfIInv, ClientsAssumption, NoneAssumption DEF Takes, Subscribers, OneCustomer
<1>1. m = Reached(t, p) /\ Without(requests', Calls)
  BY <1>p, <1>0, OnlyRead DEF Arrives
<1>2. m.subject = "TAXI_DESTINATION_REACHED" /\ m.taxiId = t /\ m.coord = p /\ m.session = "current"
  BY <1>1 DEF Reached, Taxi!Arrival
<1>3. /\ Following(c) /\ HasCustomer(db, c) /\ Rider!Wish(c)' = Rider!Wish(c) /\ Following(c)'
      /\ HasTaxi(db, t)
  BY <1>0, FollowersHaveRows DEF Engaged, Following, Rider!Wish
<1>4. P!HasCustomer(db, c) /\ P!HasTaxi(db, t) /\ P!Authentic(P!request)
  BY <1>0, <1>2, <1>3, OwnRows DEF P!Authentic
<1>5. \A u \in Taxis : ReportOf(m, u) <=> u = t
  BY <1>2 DEF ReportOf, TaxiArrivals
<1>6. \A u \in Taxis : Underway(u)' <=> Underway(u)
  BY <1>0 DEF Underway
<1>7. /\ db.customers[c].destination = Rider!Wish(c) /\ Locations[Rider!Wish(c)] # None
      /\ Rider!Wish(c) \in Services /\ DestinationOf(db, c) = Locations[Rider!Wish(c)]
      /\ Locations[Rider!Wish(c)] \in Points
  <2>1. rider[c].index \in 1..Len(Wishes[c])
    BY <1>3 DEF IInv, Listed, Following
  <2>2. Rider!Wish(c) \in Services
    BY <2>1, CustomersAssumption DEF Rider!Wish
  <2>3. QED BY <1>3, <2>2, NoneAssumption, LocationsAssumption DEF Engaged, DestinationOf
<1>8. P!Queued(db) = {}
  BY <1>0 DEF Engaged, Unqueued, P!Queued
<1>9. CASE CarriedBy(db, t) = c
  <2> DEFINE n == Notice("CUSTOMER_SERVICE_COMPLETED")
  <2>1. p = Locations[Rider!Wish(c)]
    BY <1>p, <1>9 DEF Goal
  <2>2. /\ P!Lands(db, db', t, m.coord, None)
        /\ responses' = P!Send(responses, c, P!Notice("CUSTOMER_SERVICE_COMPLETED"))
    BY <1>0, <1>2, <1>4, <1>8, <1>9, OwnWords, CentralAssumptions, P!RideEnds DEF Takes
  <2>3. n \in TaxiNotice \cup CustomerNotice /\ n.subject \in Outcomes
        /\ n.subject \notin {"CUSTOMER_DISCONNECT"}
        /\ "CUSTOMER_SERVICE_COMPLETED" \in Outcomes
    BY DEF Notice, CustomerNotice, Outcomes
  <2>4. responses' = Send(responses, c, n)
    BY <2>2, OwnWords
  <2> HIDE DEF n
  <2>5. /\ responses'[c] = Append(responses[c], n)
        /\ responses[c] \in Seq(TaxiNotice \cup CustomerNotice)
        /\ \A u \in Taxis : responses'[u] = responses[u]
    BY <1>0, <2>3, <2>4, Sending
  <2>6. Only(responses'[c], Outcomes, n)
    BY <2>3, <2>5, OnlyWritten DEF Engaged
  <2>7. Keeps(responses[c], responses'[c], {"CUSTOMER_DISCONNECT"})
    BY <2>3, <2>5, KeepsWriting
  <2>8. /\ db'.locations = db.locations
        /\ \A u \in Taxis :
            /\ HasTaxi(db', u) <=> HasTaxi(db, u)
            /\ CarriedBy(db', u) = IF u = t THEN None ELSE CarriedBy(db, u)
            /\ HasTaxi(db, u) => db'.taxis[u].pos = IF u = t THEN p ELSE db.taxis[u].pos
        /\ c \in P!Queued(db') <=> c \in P!Queued(db)
        /\ db'.customers[c].pos = p
    BY <1>2, <1>3, <1>9, <2>2, LandingRide
  <2>9. Tracks
    BY <1>0, <1>2, <1>5, <2>7, <2>8 DEF Tracks
  <2>10. Still' /\ Vacant' /\ Unqueued(c)'
    BY <1>6, <2>5, <2>8 DEF Engaged, Arrives, Still, Vacant, Unqueued
  <2>11. Over(c)'
    BY <1>1, <1>3, <2>1, <2>3, <2>6, <2>8, <2>10 DEF Over, n
  <2>12. QED BY <2>9, <2>11 DEF Phase
<1>10. CASE CarriedBy(db, t) = None
  <2> DEFINE n == Notice("CUSTOMER_PICKED_UP")
             g == GoTo(Locations[Rider!Wish(c)])
             r == Send(responses, c, n)
  <2>1. p = db.customers[c].pos
    BY <1>p, <1>0, <1>10 DEF Goal
  <2>2. /\ P!Lands(db, db', t, m.coord, c)
        /\ responses' = P!Send(P!Send(responses, c, P!Notice("CUSTOMER_PICKED_UP")),
                               t, P!GoTo(P!DestinationOf(db, c)))
    <3>1. P!CarriedBy(db, t) = None /\ P!ServiceOf(db, t) = c /\ P!DestinationOf(db, c) # None
      BY <1>7, <1>10, OwnRows, OwnWords DEF Engaged
    <3>2. QED BY <1>0, <1>2, <1>4, <3>1, CentralAssumptions, P!RideBegins DEF Takes
  <2>3. /\ n \in TaxiNotice \cup CustomerNotice /\ g \in TaxiNotice \cup CustomerNotice
        /\ n.subject \notin Outcomes /\ n.subject \notin {"CUSTOMER_DISCONNECT"} /\ g.subject \in Drives
    BY <1>7 DEF Notice, GoTo, TaxiNotice, CustomerNotice, Outcomes, Drives
  <2>4. responses' = Send(r, t, g)
    BY <1>7, <2>2, OwnWords
  <2> HIDE DEF n, g
  <2>5. /\ r \in Inboxes /\ r[c] = Append(responses[c], n)
        /\ responses[c] \in Seq(TaxiNotice \cup CustomerNotice)
        /\ \A u \in Subscribers : u # c => r[u] = responses[u]
    BY <1>0, <2>3, Sending
  <2>6. /\ responses'[t] = Append(r[t], g)
        /\ \A u \in Subscribers : u # t => responses'[u] = r[u]
        /\ r[t] \in Seq(TaxiNotice \cup CustomerNotice)
    BY <1>0, <2>3, <2>4, <2>5, Sending
  <2> HIDE DEF r
  <2>7. /\ responses'[t] = Append(responses[t], g) /\ responses'[c] = Append(responses[c], n)
        /\ \A u \in Taxis : u # t => responses'[u] = responses[u]
        /\ responses[t] \in Seq(TaxiNotice \cup CustomerNotice)
    BY <1>0, <2>5, <2>6
  <2>8. /\ Keeps(responses[c], responses'[c], {"CUSTOMER_DISCONNECT"})
        /\ Without(responses'[c], Outcomes)
    <3>1. \A S \in {{"CUSTOMER_DISCONNECT"}, Outcomes} : Keeps(responses[c], responses'[c], S)
      BY <2>3, <2>5, <2>7, KeepsWriting
    <3>2. QED BY <3>1 DEF Keeps, Engaged
  <2>9. Only(responses'[t], Drives, g)
    BY <2>3, <2>7, OnlyWritten DEF Arrives
  <2>10. /\ db'.locations = db.locations
         /\ \A u \in Taxis :
            /\ HasTaxi(db', u) <=> HasTaxi(db, u)
            /\ CarriedBy(db', u) = IF u = t THEN c ELSE CarriedBy(db, u)
            /\ ServiceOf(db', u) = ServiceOf(db, u)
            /\ HasTaxi(db, u) => db'.taxis[u].pos = IF u = t THEN p ELSE db.taxis[u].pos
         /\ c \in P!Queued(db') <=> c \in P!Queued(db)
         /\ db'.customers[c].pos = p
         /\ db'.customers[c].destination = db.customers[c].destination
    BY <1>0, <1>2, <1>3, <1>10, <2>1, <2>2, LandingRide
  <2>11. Tracks
    BY <1>0, <1>2, <1>5, <2>8, <2>10 DEF Tracks
  <2>12. Engaged(c, t)'
    BY <1>3, <1>6, <1>7, <2>7, <2>8, <2>10 DEF Engaged, Unqueued
  <2>13. Goal(c, t)' = Locations[Rider!Wish(c)]
    BY <1>3, <2>10 DEF Goal
  <2>14. GoTo(Goal(c, t))' = g
    BY <2>13 DEF g, GoTo
  <2>15. Ordered(c, t)'
    BY <1>1, <1>6, <2>9, <2>14 DEF Ordered, Arrives
  <2>16. QED BY <2>11, <2>12, <2>15 DEF Served, Phase
<1>11. QED BY <1>9, <1>10 DEF Engaged

\* The locations are those of the file.
Mapped == db.locations = Locations

\* The database has every taxi where it is, but for its reports that are still to be handled.
Whereabouts ==
    \A t \in Taxis :
        /\ ~HasTaxi(db, t) => \A i \in DOMAIN requests : ~ReportOf(requests[i], t)
        /\ HasTaxi(db, t) /\ engine[t].sensor # "moved" =>
            Located(requests, t, db.taxis[t].pos, engine[t].pos)

\* A call that comes to the central is the one the ride waits for.
LEMMA CallsAreAwaited ==
    ASSUME NEW c \in Customers, Phase(c), NEW m, Takes(m), m.subject \in Calls
    PROVE  Asked(c) \/ \E t \in Taxis : Engaged(c, t) /\ Arrives(c, t)
<1>1. ~Without(requests, Calls)
  BY WithoutReads DEF Takes
<1>2. QED BY <1>1 DEF Phase, Idle, Silence, Waits, Over, Served, Ordered, OnWay

\* All steps of the central.
LEMMA CentralKeepsPhase ==
    ASSUME ~SendsAway, OneCustomer, IInv, Undiverted, Safe, Current, Mapped, Whereabouts,
           CentralHandles, NEW c \in Customers, Phase(c)
    PROVE  Phase(c)' /\ Tracks
<1>p. PICK m : m = Head(requests)
  OBVIOUS
<1>1. Takes(m) /\ m.subject \notin P!Diversions
  BY <1>p, CentralTakes
<1>2. requests \in Seq(Request) /\ requests # <<>> /\ 1 \in DOMAIN requests /\ requests[1] = m
  BY <1>1, <1>p, ReadingOn DEF Takes
<1>3. CASE m.subject \in Calls
  BY <1>1, <1>3, CallsAreAwaited, AskedKeepsPhase, ArrivingKeepsPhase DEF Mapped
<1>4. CASE m.subject = "TAXI_MOVE"
  <2>1. m.session = "current"
    BY <1>2, <1>4 DEF Current, TaxiArrivals
  <2>2. m.taxiId \in Taxis
    BY <1>1, <1>4, CentralAssumptions, P!RequestMembers DEF Takes, P!TaxiArrivals
  <2>3. ReportOf(m, m.taxiId)
    BY <1>4 DEF ReportOf, TaxiArrivals
  <2>4. HasTaxi(db, m.taxiId)
    BY <1>2, <2>2, <2>3 DEF Whereabouts
  <2>5. QED BY <1>1, <1>4, <2>1, <2>4, MovingKeepsPhase
<1>5. CASE m.subject \notin Calls \cup {"TAXI_MOVE"}
  <2>1. m.subject \notin P!Interferes
    BY <1>2 DEF Current, Without
  <2>2. QED BY <1>1, <1>5, <2>1, CalmKeepsPhase
<1>6. QED BY <1>3, <1>4, <1>5

\* What the central does to the map.
LEMMA CentralKeepsWhereabouts ==
    ASSUME IInv, CentralHandles, NEW m, Takes(m), Tracks, Mapped, Whereabouts, Current
    PROVE  Whereabouts' /\ Mapped' /\ Current'
<1>0. /\ requests \in Seq(Request) /\ requests # <<>> /\ requests' = Tail(requests)
      /\ engine' = engine
  BY DEF Takes
<1>1. \A i \in DOMAIN requests' : i + 1 \in DOMAIN requests /\ requests'[i] = requests[i + 1]
  BY <1>0, ReadingOn
<1>2. ASSUME NEW t \in Taxis, ~HasTaxi(db', t)
      PROVE  \A i \in DOMAIN requests' : ~ReportOf(requests'[i], t)
  BY <1>1, <1>2 DEF Tracks, Whereabouts
<1>3. ASSUME NEW t \in Taxis, HasTaxi(db', t), engine'[t].sensor # "moved"
      PROVE  Located(requests', t, db'.taxis[t].pos, engine'[t].pos)
  <2>1. HasTaxi(db, t) /\ Located(requests, t, db.taxis[t].pos, engine[t].pos)
    BY <1>0, <1>3 DEF Tracks, Whereabouts
  <2>2. db'.taxis[t].pos = IF ReportOf(Head(requests), t) THEN Head(requests).coord
                                                          ELSE db.taxis[t].pos
    BY <2>1 DEF Tracks
  <2>3. QED BY <1>0, <2>1, <2>2, LocatedRead
<1>4. Current'
  BY <1>1 DEF Current, Without, Tracks, Keeps
<1>5. QED BY <1>2, <1>3, <1>4 DEF Whereabouts, Mapped, Tracks

\* What a turn of t leaves behind: nothing new of t, or a report where t is.
LEMMA TurnsReport ==
    ASSUME IInv, NEW c \in Customers, Phase(c), NEW t \in Taxis, Turn(t)
    PROVE  \/ /\ requests' = requests
              /\ engine'[t].sensor # "moved" =>
                    engine[t].sensor # "moved" /\ engine'[t].pos = engine[t].pos
           \/ \E s \in TaxiArrivals :
                /\ requests' = Append(requests, Taxi!Arrival(s, t, engine[t].pos))
                /\ engine'[t].pos = engine[t].pos
<1>0. engine \in [Taxis -> Taxi!Memory] /\ engine[t] \in Taxi!Memory
  BY TypesOfIInv
<1>1. CASE Taxi!HearsGoTo(t) \/ Taxi!ReadsPosition(t) \/ Taxi!Redirects(t) \/ Taxi!DriveFrame(t)
  BY <1>0, <1>1
  DEF Taxi!HearsGoTo, Taxi!Hears, Taxi!ReadsPosition, Taxi!Redirects, Taxi!DriveFrame,
      Taxi!Sensor, Taxi!Memory
<1>2. CASE Taxi!Drives(t)
  <2>1. engine'[t].sensor = "moved" /\ requests' = requests
    BY <1>0, <1>2 DEF Taxi!Drives, Taxi!Memory
  <2>2. QED BY <2>1
<1>3. CASE Taxi!AnswersArrived(t)
  <2>1. Underway(t) /\ engine[t].kafka = "answering"
    BY <1>3 DEF Taxi!AnswersArrived, Underway
  <2>2. Served(c, t)
    BY TurnsAreServed
  <2>3. Heading(t, Goal(c, t))
    BY <2>1, <2>2 DEF Served, Ordered, OnWay, Arrives
  <2>4. engine[t].coord = engine[t].pos
    BY <2>1, <2>3 DEF Heading
  <2>5. requests' = Append(requests, Taxi!Arrival("TAXI_DESTINATION_REACHED", t, engine[t].pos))
    BY <1>3, <2>4 DEF Taxi!AnswersArrived, Taxi!Say
  <2>6. engine'[t].pos = engine[t].pos
    BY <1>0, <1>3 DEF Taxi!AnswersArrived, Taxi!Memory
  <2>7. QED BY <2>5, <2>6 DEF TaxiArrivals
<1>4. CASE Taxi!Reports(t)
  <2>1. \E s \in TaxiArrivals : requests' = Append(requests, Taxi!Arrival(s, t, engine[t].pos))
    BY <1>4 DEF Taxi!Reports, Taxi!Say, TaxiArrivals
  <2>2. engine'[t].pos = engine[t].pos
    BY <1>0, <1>4 DEF Taxi!Reports, Taxi!Sensor, Taxi!Memory
  <2>3. QED BY <2>1, <2>2
<1>5. QED BY <1>1, <1>2, <1>3, <1>4 DEF Turn

\* A message that is added: what it says of taxis is true, and it is no trouble unless ordered.
Adds(m) ==
    /\ requests' = Append(requests, m)
    /\ m.subject \in TaxiArrivals => m.session = "current"
    /\ \A t \in Taxis : ReportOf(m, t) => HasTaxi(db, t) /\ m.coord = engine'[t].pos
    /\ m.subject \in P!Interferes => m \in Orders

\* No step but those of the central adds anything else.
LEMMA OthersAdd ==
    ASSUME ~Leaving, IInv, [Next]_vars, ~CentralHandles, NEW c \in Customers, Phase(c)
    PROVE  requests' = requests \/ \E m \in Request : Adds(m)
<1>1. ASSUME NEW t \in Taxis, Turn(t)
      PROVE  requests' = requests \/ \E m \in Request : Adds(m)
  <2>1. CASE \E s \in TaxiArrivals :
                /\ requests' = Append(requests, Taxi!Arrival(s, t, engine[t].pos))
                /\ engine'[t].pos = engine[t].pos
    <3>1. PICK s \in TaxiArrivals :
            /\ requests' = Append(requests, Taxi!Arrival(s, t, engine[t].pos))
            /\ engine'[t].pos = engine[t].pos
      BY <2>1
    <3> DEFINE m == Taxi!Arrival(s, t, engine[t].pos)
    <3>2. HasTaxi(db, t)
      BY <1>1
      DEF IInv, Registered, Turn, Taxi!HearsGoTo, Taxi!Hears, Taxi!ReadsPosition,
          Taxi!AnswersArrived, Taxi!Redirects, Taxi!DriveFrame, Taxi!Drives, Taxi!Reports,
          Taxi!Sensor, Taxi!Runs
    <3>3. m \in Request
      BY TypesOfIInv, TaxiMessages DEF Taxi!Memory
    <3>4. /\ m.subject = s /\ m.taxiId = t /\ m.coord = engine[t].pos /\ m.session = "current"
      BY DEF Taxi!Arrival
    <3>5. s \notin P!Interferes
      BY DEF P!Interferes, TaxiArrivals
    <3>6. \A u \in Taxis : ReportOf(m, u) => HasTaxi(db, u) /\ m.coord = engine'[u].pos
      BY <3>1, <3>2, <3>4 DEF ReportOf
    <3>7. Adds(m)
      BY <3>1, <3>4, <3>5, <3>6 DEF Adds
    <3>8. QED BY <3>3, <3>7
  <2>2. QED BY <1>1, <2>1, TurnsReport
<1>2. ASSUME NEW b \in Customers, Rider!Asks(b)
      PROVE  \E m \in Request : Adds(m)
  <2>1. requests' = Append(requests, Asking(b)) /\ rider[b].stage = "asking"
    BY <1>2 DEF Rider!Asks, Rider!Say, Rider!At, Asking
  <2>2. Asking(b).subject = "CUSTOMER_SERVICE_REQUEST"
    BY DEF Asking
  <2>3. Adds(Asking(b))
    BY <2>1, <2>2 DEF Adds, ReportOf, TaxiArrivals, P!Interferes
  <2>4. QED BY <2>1, <2>3, AskingIsCall
<1>3. CASE (\A t \in Taxis : ~Turn(t)) /\ \A b \in Customers : ~Rider!Asks(b)
  <2>1. Utters
    BY <1>3, OthersUtter
  <2>2. QED BY <2>1 DEF Utters, Adds, ReportOf
<1>4. QED BY <1>1, <1>2, <1>3

\* So the topics stay without trouble, ...
LEMMA OthersKeepCurrent ==
    ASSUME ~Leaving, ~Dismisses, ~MovesLocations, IInv, Current, [Next]_vars, ~CentralHandles,
           NEW c \in Customers, Phase(c)
    PROVE  Current'
<1>0. requests \in Seq(Request) /\ responses \in Inboxes
  BY TypesOfIInv
<1>1. ASSUME requests' = requests
      PROVE  /\ \A i \in DOMAIN requests' :
                    requests'[i].subject \in TaxiArrivals => requests'[i].session = "current"
             /\ Without(requests', P!Interferes)
  BY <1>1 DEF Current, Without
<1>2. ASSUME NEW m \in Request, Adds(m)
      PROVE  /\ \A i \in DOMAIN requests' :
                    requests'[i].subject \in TaxiArrivals => requests'[i].session = "current"
             /\ Without(requests', P!Interferes)
  <2>1. m.subject \notin P!Interferes
    BY <1>2 DEF Adds, Dismisses, MovesLocations, P!Interferes
  <2>2. \A i \in DOMAIN requests' : requests'[i] = m \/ (i \in DOMAIN requests /\ requests'[i] = requests[i])
    BY <1>0, <1>2, Writing DEF Adds
  <2>3. QED BY <1>2, <2>1, <2>2 DEF Current, Without, Adds
<1>3. ASSUME NEW b \in Customers PROVE Without(responses'[b], {"CUSTOMER_DISCONNECT"})
  <2>1. b \in Subscribers /\ responses[b] \in Seq(TaxiNotice \cup CustomerNotice)
    BY <1>0 DEF Subscribers, Inboxes
  <2>2. Without(responses[b], {"CUSTOMER_DISCONNECT"})
    BY DEF Current
  <2>3. CASE responses'[b] = responses[b]
    BY <2>2, <2>3
  <2>4. CASE responses[b] # <<>> /\ responses'[b] = Tail(responses[b])
    <3>1. \A i \in DOMAIN Tail(responses[b]) :
            i + 1 \in DOMAIN responses[b] /\ Tail(responses[b])[i] = responses[b][i + 1]
      BY <2>1, <2>4, ReadingOn
    <3>2. QED BY <2>2, <2>4, <3>1 DEF Without
  <2>5. QED BY <2>1, <2>3, <2>4, OthersReadOn
<1>4. QED BY <1>1, <1>2, <1>3, OthersAdd DEF Current

\* ... and the last report of each taxi says where it is.
LEMMA OthersKeepWhereabouts ==
    ASSUME ~Leaving, IInv, Safe, Stops, Mapped, Whereabouts, [Next]_vars, ~CentralHandles,
           NEW c \in Customers, Phase(c)
    PROVE  Whereabouts' /\ Mapped'
<1>0. requests \in Seq(Request) /\ engine \in [Taxis -> Taxi!Memory]
  BY TypesOfIInv
<1>1. /\ db'.locations = db.locations
      /\ \A t \in Taxis : HasTaxi(db, t) => HasTaxi(db', t) /\ db'.taxis[t] = db.taxis[t]
      /\ \A t \in Taxis : ~HasTaxi(db, t) /\ HasTaxi(db', t) =>
            TaxiRegisters(t) /\ db'.taxis[t].pos = Base
  BY RowsAreQuiet
<1>2. requests' = requests \/ \E m \in Request : Adds(m)
  BY OthersAdd
<1>3. ASSUME NEW t \in Taxis, ~HasTaxi(db, t)
      PROVE  \A i \in DOMAIN requests' : ~ReportOf(requests'[i], t)
  <2>1. \A i \in DOMAIN requests : ~ReportOf(requests[i], t)
    BY <1>3 DEF Whereabouts
  <2>2. ASSUME NEW m \in Request, Adds(m)
        PROVE  \A i \in DOMAIN requests' : ~ReportOf(requests'[i], t)
    <3>1. ~ReportOf(m, t)
      BY <1>3, <2>2 DEF Adds
    <3>2. QED BY <1>0, <2>1, <2>2, <3>1, Writing DEF Adds
  <2>3. QED BY <1>2, <2>1, <2>2
<1>4. ASSUME NEW t \in Taxis, ~HasTaxi(db, t), HasTaxi(db', t)
      PROVE  Located(requests', t, db'.taxis[t].pos, engine'[t].pos)
  <2>1. TaxiRegisters(t) /\ db'.taxis[t].pos = Base
    BY <1>1, <1>4
  <2>2. engine'[t].pos = Base
    BY <1>0, <2>1 DEF TaxiRegisters, Taxi!Authenticates, Taxi!Fresh
  <2>3. QED BY <1>3, <1>4, <2>1, <2>2 DEF Located
<1>5. ASSUME NEW t \in Taxis, HasTaxi(db, t), engine'[t].sensor # "moved"
      PROVE  Located(requests', t, db'.taxis[t].pos, engine'[t].pos)
  <2>1. db'.taxis[t].pos = db.taxis[t].pos
    BY <1>1, <1>5
  <2>2. ASSUME engine[t].sensor # "moved", engine'[t].pos = engine[t].pos
        PROVE  Located(requests', t, db'.taxis[t].pos, engine'[t].pos)
    <3>1. Located(requests, t, db'.taxis[t].pos, engine'[t].pos)
      BY <1>5, <2>1, <2>2 DEF Whereabouts
    <3>2. ASSUME NEW m \in Request, Adds(m)
          PROVE  Located(requests', t, db'.taxis[t].pos, engine'[t].pos)
      BY <1>0, <3>1, <3>2, LocatedWritten DEF Adds
    <3>3. QED BY <1>2, <3>1, <3>2
  <2>3. CASE Turn(t)
    <3>1. CASE requests' = requests
      <4>1. \A s : Append(requests, s) # requests
        BY <1>0
      <4>2. engine[t].sensor # "moved" /\ engine'[t].pos = engine[t].pos
        BY <1>5, <2>3, <3>1, <4>1, TurnsReport
      <4>3. QED BY <2>2, <4>2
    <3>2. ASSUME NEW m \in Request, Adds(m), requests' # requests
          PROVE  Located(requests', t, db'.taxis[t].pos, engine'[t].pos)
      <4>1. PICK s \in TaxiArrivals : requests' = Append(requests, Taxi!Arrival(s, t, engine[t].pos))
        BY <2>3, <3>2, TurnsReport
      <4>2. m = Taxi!Arrival(s, t, engine[t].pos)
        <5>1. Append(requests, m)[Len(requests) + 1] = m
          BY <1>0
        <5>2. Append(requests, Taxi!Arrival(s, t, engine[t].pos))[Len(requests) + 1]
                = Taxi!Arrival(s, t, engine[t].pos)
          BY <1>0
        <5>3. QED BY <3>2, <4>1, <5>1, <5>2 DEF Adds
      <4>3. ReportOf(m, t)
        BY <4>2 DEF ReportOf, Taxi!Arrival
      <4>4. m.coord = engine'[t].pos /\ requests' = Append(requests, m)
        BY <3>2, <4>3 DEF Adds
      <4>5. QED BY <1>0, <4>3, <4>4, LocatedWritten
    <3>3. QED BY <1>2, <3>1, <3>2
  <2>4. CASE ~Turn(t)
    <3>1. ~TaxiRegisters(t)
      BY <1>5, RegistersWithoutRow
    <3>2. SameCourse(t)
      BY <2>4, <3>1, OthersKeepCourse
    <3>3. QED BY <1>5, <2>2, <3>2 DEF SameCourse
  <2>5. QED BY <2>3, <2>4
<1>6. QED BY <1>1, <1>3, <1>4, <1>5 DEF Whereabouts, Mapped

\* Taxis are announced when they register.
LEMMA RegisteredIsAnnounced ==
    ASSUME ~SendsAway, IInv, Undiverted, Safe, [Next]_vars, NEW m \in announcing'
    PROVE  m \in announcing \/ \E t \in Taxis : TaxiRegisters(t) /\ m.taxiId = t
<1>1. CASE CentralHandles
  BY <1>1, CentralSurvives
<1>2. ASSUME NEW t \in Taxis, TaxiRegisters(t)
      PROVE  m \in announcing \/ m.taxiId = t
  BY <1>2 DEF TaxiRegisters, Central!Register
<1>3. CASE ClockTicks \/ RegistrationAnnounced
  BY <1>3 DEF ClockTicks, RegistrationAnnounced, Central!Tick, Central!Announce
<1>4. CASE \E c \in Customers : Unheard(c)
  BY <1>4 DEF Unheard, Central!Read
<1>5. CASE UNCHANGED centralVars
  BY <1>5 DEF centralVars
<1>6. QED
  BY <1>1, <1>2, <1>3, <1>4, <1>5
  DEF Next, vars, OperatorOrders, TaxiStarts, TaxiObeys, TaxiDrives, TaxiLeaves, StrayTaxi,
      CustomerActs, CustomerGivesUp, StrayCustomer, centralVars

\* Customers leave the house late enough to find every taxi announced.
LEMMA StepKeepsEarly ==
    ASSUME TaxisFirst, ~Leaving, ~SendsAway, IInv, Undiverted, Safe, Early, [Next]_vars
    PROVE  Early'
<1>0. engine \in [Taxis -> Taxi!Memory] /\ rider \in [Customers -> Rider!Memory]
  BY TypesOfIInv
<1>1. CASE CentralHandles
  <2>1. engine' = engine /\ rider' = rider /\ announcing' = announcing
    BY <1>1, CentralSurvives
  <2>2. QED BY <2>1 DEF Early, Taxi!Runs
<1>2. CASE ~CentralHandles
  <2>1. ASSUME NEW t \in Taxis, TaxiRegisters(t)
        PROVE  engine[t].life = "off" /\ engine'[t].life = "authenticating"
    BY <1>0, <2>1 DEF TaxiRegisters, Taxi!Authenticates, Taxi!Fresh
  <2>2. ASSUME NEW t \in Taxis, Taxi!Runs(t) PROVE Taxi!Runs(t)'
    <3>1. ~TaxiRegisters(t)
      BY <2>1, <2>2 DEF Taxi!Runs
    <3>2. QED BY <1>2, <2>2, <3>1, OthersKeepCourse DEF Taxi!Runs
  <2>3. ASSUME announcing = {}, \A t \in Taxis : Taxi!Runs(t)
        PROVE  announcing' = {} /\ \A t \in Taxis : Taxi!Runs(t)'
    <3>1. \A t \in Taxis : ~TaxiRegisters(t)
      BY <2>1, <2>3 DEF Taxi!Runs
    <3>2. \A m \in announcing' : m \in announcing
      BY <3>1, RegisteredIsAnnounced
    <3>3. QED BY <2>2, <2>3, <3>2
  <2>4. ASSUME NEW c \in Customers, rider'[c].stage # "out"
        PROVE  announcing = {} /\ \A t \in Taxis : Taxi!Runs(t)
    <3>1. CASE rider' = rider
      BY <2>4, <3>1 DEF Early
    <3>2. CASE rider' # rider
      <4>1. \E b \in Customers : CustomerActs(b)
        BY <3>2, CustomersActAlone
      <4>2. QED BY <4>1 DEF CustomerActs, Taxi!Runs
    <3>3. QED BY <3>1, <3>2
  <2>5. QED BY <2>3, <2>4 DEF Early
<1>3. QED BY <1>1, <1>2

-----------------------------------------------------------------------------
(* Rides                                                                   *)

\* The invariant of rides.
Journey ==
    /\ Early /\ Current /\ Mapped /\ Whereabouts
    /\ \A c \in Customers : Phase(c)

\* There is one customer, it leaves the house once every taxi runs and is announced, and nobody
\* leaves, or is sent away, or dismissed; nor does a location move.
OneRideAtATime ==
    /\ OneCustomer /\ TaxisFirst /\ LettersLocated
    /\ ~Leaving /\ ~SendsAway /\ ~Dismisses /\ ~MovesLocations

\* Every step keeps it ...
LEMMA StepKeepsJourney ==
    ASSUME OneRideAtATime, IInv, Undiverted, Safe, Stops, Journey, [Next]_vars
    PROVE  Journey'
<1>0. PICK c \in Customers : Customers = {c}
  BY DEF OneRideAtATime, OneCustomer
<1>1. /\ OneCustomer /\ TaxisFirst /\ ~Leaving /\ ~SendsAway /\ ~Dismisses /\ ~MovesLocations
      /\ Early /\ Current /\ Mapped /\ Whereabouts /\ Phase(c)
  BY DEF OneRideAtATime, Journey
<1>2. Early'
  BY <1>1, StepKeepsEarly
<1>3. Phase(c)' /\ Whereabouts' /\ Mapped' /\ Current'
  <2>1. CASE CentralHandles
    <3>1. Phase(c)' /\ Tracks
      BY <1>1, <2>1, CentralKeepsPhase
    <3>2. QED BY <1>1, <2>1, <3>1, CentralTakes, CentralKeepsWhereabouts
  <2>2. CASE ~CentralHandles
    BY <1>1, <2>2, OthersKeepPhase, OthersKeepWhereabouts, OthersKeepCurrent
  <2>3. QED BY <2>1, <2>2
<1>4. \A b \in Customers : b = c
  BY <1>0
<1>5. \A b \in Customers : Phase(b)'
  BY <1>3, <1>4
<1>6. QED BY <1>2, <1>3, <1>5 DEF Journey

\* ... and it holds before anything happens.
LEMMA InitJourney ==
    ASSUME Init
    PROVE  Journey
<1>1. /\ requests = <<>> /\ announcing = {} /\ db = Central!EmptyDb(Locations)
      /\ responses = [s \in Central!Subscribers |-> <<>>]
  BY DEF Init, Central!Init
<1>2. \A s \in Subscribers : responses[s] = <<>>
  BY <1>1 DEF Central!Subscribers, Subscribers
<1>3. /\ \A t \in Taxis : engine[t] = Taxi!Fresh("off")
      /\ \A c \in Customers : rider[c].stage = "out"
  BY DEF Init, Taxi!Init, Rider!Init
<1>4. ASSUME NEW t \in Taxis PROVE ~Underway(t) /\ ~Taxi!Runs(t)
  <2>1. /\ engine[t].life = "off" /\ engine[t].kafka = "reading"
        /\ engine[t].pos = engine[t].dest /\ engine[t].sensor = "absent"
    BY <1>3 DEF Taxi!Fresh
  <2>2. QED BY <2>1 DEF Underway, Taxi!Runs
<1>5. /\ \A t \in Taxis : ~HasTaxi(db, t) /\ CarriedBy(db, t) = None
      /\ \A c \in Customers : ~HasCustomer(db, c)
      /\ db.locations = Locations
  BY <1>1 DEF Central!EmptyDb, HasTaxi, HasCustomer, CarriedBy
<1>6. \A S : Without(requests, S) /\ \A s \in Subscribers : Without(responses[s], S)
  BY <1>1, <1>2 DEF Without
<1>7. Early
  BY <1>1, <1>3 DEF Early
<1>8. Current
  <2>1. DOMAIN requests = {}
    BY <1>1
  <2>2. QED BY <1>6, <2>1 DEF Current, Without, Subscribers
<1>9. Whereabouts
  <2>1. DOMAIN requests = {}
    BY <1>1
  <2>2. QED BY <1>5, <2>1 DEF Whereabouts
<1>10. ASSUME NEW c \in Customers PROVE Idle(c)
  <2>1. ~Following(c) /\ Silence(c)
    BY <1>3, <1>6 DEF Following, Silence, Subscribers
  <2>2. Still /\ Vacant
    BY <1>4, <1>5, <1>6 DEF Still, Vacant, Subscribers
  <2>3. Unqueued(c)
    BY <1>5, OwnRows DEF Unqueued, P!Queued
  <2>4. QED BY <2>1, <2>2, <2>3 DEF Idle
<1>11. QED BY <1>5, <1>7, <1>8, <1>9, <1>10 DEF Journey, Mapped, Phase

\* The customer that sits in t is the one whose ride t makes.
LEMMA PassengersAreServed ==
    ASSUME Journey, NEW t \in Taxis, CarriedBy(db, t) # None
    PROVE  \A c \in Customers : Served(c, t) /\ CarriedBy(db, t) = c
<1> SUFFICES ASSUME NEW c \in Customers PROVE Served(c, t) /\ CarriedBy(db, t) = c
  OBVIOUS
<1>1. PICK u \in Taxis : Served(c, u)
  BY DEF Journey, Phase, Idle, Asked, Waits, Over, Vacant
<1>2. u = t
  BY <1>1 DEF Served, Engaged
<1>3. QED BY <1>1, <1>2 DEF Served, Engaged

\* What the rides show, at any moment.
LEMMA JourneyIsRight ==
    ASSUME OneCustomer, IInv, Safe, Journey
    PROVE  PositionAgreement /\ CarriedTogether /\ BoundForDestination /\ ArrivedWhereAsked
<1>0. PICK c \in Customers : Customers = {c}
  BY DEF OneCustomer
<1>1. /\ c \in Subscribers /\ responses[c] \in Seq(TaxiNotice \cup CustomerNotice)
      /\ Mapped /\ Phase(c)
  BY TypesOfIInv DEF Subscribers, Inboxes, Journey
<1>2. PositionAgreement
  <2> SUFFICES ASSUME NEW t \in Taxis, Taxi!Runs(t), engine[t].sensor # "moved", ~Reporting(t)
               PROVE  db.taxis[t].pos = engine[t].pos
    BY DEF PositionAgreement
  <2>1. HasTaxi(db, t)
    BY DEF IInv, Registered, Taxi!Runs
  <2>2. Located(requests, t, db.taxis[t].pos, engine[t].pos)
    BY <2>1 DEF Journey, Whereabouts
  <2>3. QED BY <2>2 DEF Located, Reporting, ReportOf
<1>3. CarriedTogether
  <2> SUFFICES ASSUME NEW t \in Taxis, CarriedBy(db, t) # None
               PROVE  db.customers[CarriedBy(db, t)].pos = db.taxis[t].pos
    BY DEF CarriedTogether
  <2>1. QED BY PassengersAreServed, <1>0 DEF Served, Engaged
<1>4. BoundForDestination
  <2> SUFFICES ASSUME NEW t \in Taxis, CarriedBy(db, t) # None, ~Reporting(t),
                      engine[t].kafka = "reading", engine[t].sensor # "moved", responses[t] = <<>>
               PROVE  engine[t].dest = DestinationOf(db, CarriedBy(db, t))
    BY DEF BoundForDestination
  <2>1. Served(c, t) /\ CarriedBy(db, t) = c
    BY <1>0, PassengersAreServed
  <2>2. ~Ordered(c, t)
    BY DEF Ordered, Only
  <2>3. ~Arrives(c, t)
    BY DEF Arrives, Only, Reached, Taxi!Arrival, Reporting, TaxiArrivals
  <2>4. Heading(t, Locations[Rider!Wish(c)])
    BY <2>1, <2>2, <2>3 DEF Served, OnWay, Goal
  <2>5. engine[t].dest = Locations[Rider!Wish(c)]
    BY <2>4 DEF Heading
  <2>6. Following(c) /\ db.customers[c].destination = Rider!Wish(c)
    BY <2>1 DEF Served, Engaged
  <2>7. HasCustomer(db, c)
    BY <2>6, FollowersHaveRows
  <2>8. rider[c].index \in 1..Len(Wishes[c])
    BY <2>6 DEF IInv, Listed, Following
  <2>9. Rider!Wish(c) \in Services
    BY <2>8, CustomersAssumption DEF Rider!Wish
  <2>10. QED BY <1>1, <2>1, <2>5, <2>6, <2>7, <2>9, NoneAssumption DEF Mapped, DestinationOf
<1>5. ArrivedWhereAsked
  <2> SUFFICES ASSUME rider[c].stage = "following", responses[c] # <<>>,
                      Head(responses[c]) = Notice("CUSTOMER_SERVICE_COMPLETED")
               PROVE  db.customers[c].pos = db.locations[Rider!Wish(c)]
    BY <1>0 DEF ArrivedWhereAsked
  <2>1. Head(responses[c]).subject \in Outcomes
    BY DEF Notice, Outcomes
  <2>2. ~Without(responses[c], Outcomes)
    BY <1>1, <2>1, WithoutReads
  <2>3. Over(c)
    BY <1>1, <2>2 DEF Phase, Idle, Silence, Asked, Waits, Served, Engaged
  <2>4. PICK s \in Outcomes :
            /\ Only(responses[c], Outcomes, Notice(s))
            /\ s = "CUSTOMER_SERVICE_COMPLETED" => db.customers[c].pos = Locations[Rider!Wish(c)]
    BY <2>3 DEF Over
  <2>5. Head(responses[c]) = Notice(s)
    BY <1>1, <2>1, <2>4, OnlyRead
  <2>6. s = "CUSTOMER_SERVICE_COMPLETED"
    BY <2>5 DEF Notice
  <2>7. QED BY <1>1, <2>4, <2>6 DEF Mapped
<1>6. QED BY <1>2, <1>3, <1>4, <1>5

\* What the rides show.
RidesAreRight == PositionAgreement /\ CarriedTogether /\ BoundForDestination /\ ArrivedWhereAsked

\* They show it at any moment.
LEMMA SpecJourney ==
    OneRideAtATime => (Spec => []RidesAreRight)
<1> SUFFICES ASSUME OneRideAtATime PROVE Spec => []RidesAreRight
  OBVIOUS
<1> DEFINE All == Undiverted /\ Safe /\ Stops /\ Journey
<1>1. Init => All
  BY InitSafe, InitStops, InitJourney DEF OneRideAtATime
<1>2. IInv /\ All /\ [Next]_vars => All'
  BY StepKeepsUndiverted, StepKeepsSafe, StepKeepsStops, StepKeepsJourney DEF OneRideAtATime
<1>3. IInv /\ All => RidesAreRight
  BY JourneyIsRight DEF OneRideAtATime, RidesAreRight
<1> HIDE DEF All
<1>4. QED BY <1>1, <1>2, <1>3, SpecIInv, PTL DEF Spec

\* While one customer at a time travels, with any number of taxis and stops on the way, the central
\* knows where its taxis are: the last report of each says where it is, whatever was handled before.
THEOREM PositionsAreAgreed ==
    OneRideAtATime => (Spec => []PositionAgreement)
<1>1. RidesAreRight => PositionAgreement
  BY DEF RidesAreRight
<1>2. QED BY <1>1, SpecJourney, PTL

\* A customer on board moves in the database as its taxi does, report by report.
THEOREM CustomersRideAlong ==
    OneRideAtATime => (Spec => []CarriedTogether)
<1>1. RidesAreRight => CarriedTogether
  BY DEF RidesAreRight
<1>2. QED BY <1>1, SpecJourney, PTL

\* The order to go on arrives at the taxi that picked the customer up, and is about the place that
\* this customer asked for.
THEOREM PassengersAreBoundForDestination ==
    OneRideAtATime => (Spec => []BoundForDestination)
<1>1. RidesAreRight => BoundForDestination
  BY DEF RidesAreRight
<1>2. QED BY <1>1, SpecJourney, PTL

\* A customer is told that its service is completed only at the place it asked for: the report that
\* ends the ride is never an earlier one, of the taxi's arrival at the customer.
THEOREM CustomersArriveWhereAsked ==
    OneRideAtATime => (Spec => []ArrivedWhereAsked)
<1>1. RidesAreRight => ArrivedWhereAsked
  BY DEF RidesAreRight
<1>2. QED BY <1>1, SpecJourney, PTL
=============================================================================

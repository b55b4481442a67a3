------------------------------ MODULE EasyCab -------------------------------
(***************************************************************************)
(* The whole system: the central (KafkaServer, with the registrations of   *)
(* AuthServer), a digital engine per taxi, a program per customer, the     *)
(* operator at the front end and checkStrays, talking through the topics   *)
(* "requests" and "responses".  Every message is delivered once and in     *)
(* order, as a topic with one partition does while nobody restarts the     *)
(* central.                                                                *)
(***************************************************************************)
EXTENDS CentralDb

CONSTANTS
    Locations,   \* the locations file
    Wishes,      \* the services file of each customer
    Home,        \* where each customer waits first
    Half,        \* half the side of the map
    Frames,      \* wait times the sensors send
    RestFrom,    \* seconds between two services of a customer
    Orders,      \* what the operator may order
    MaxOrders,   \* bound: orders given in all
    TaxisFirst,  \* whether customers wait until every taxi has joined and is announced
    Leaving,     \* whether taxis, sensors and customers may leave before they are done
    MaxRequests, \* bound: messages waiting in "requests"
    MaxUnread    \* bound: notices an inbox may hold when the central handles a request

VARIABLES
    db, now, dbUp, map, server, announcing, joined,   \* the central
    requests, responses,                              \* the topics
    engine,                                           \* the digital engines
    rider,                                            \* the customers
    ordered                                           \* orders given so far

ASSUME LocationsAssumption == Locations \in [Services -> Points \cup {None}]

ASSUME CustomersAssumption ==
    /\ Wishes \in [Customers -> Seq(Services)]
    /\ Home \in [Customers -> Points]
    /\ RestFrom \in Nat

\* Wait times are cut like the counters they are stored in.
ASSUME FramesAssumption == Frames \subseteq Countdown

ASSUME OrdersAssumption ==
    /\ Orders \subseteq {m \in Request : m.subject \in GreenList \ {"NEW_CUSTOMER"}}
    /\ MaxOrders \in Nat

\* The central as KafkaServer has it: open to any request.  Here it only gets those that the other
\* components send.
Central == INSTANCE KafkaServer WITH Inputs <- Request, DbMayFail <- FALSE,
                                       Patient <- FALSE, Resumed <- {}
Taxi    == INSTANCE DigitalEngine
Rider   == INSTANCE Customer

\* The points of the database are the cells that the engines drive on.
ASSUME MapAssumption == Half \in Nat \ {0} /\ Points = Taxi!Grid!Cells

centralVars == <<db, now, dbUp, map, server, announcing, joined>>

vars == <<centralVars, requests, responses, engine, rider, ordered>>

TypeOK ==
    /\ Central!TypeOK
    /\ Taxi!TypeOK
    /\ Rider!TypeOK
    /\ ordered \in 0..MaxOrders

Init ==
    /\ Central!Init
    /\ Taxi!Init
    /\ Rider!Init
    /\ ordered = 0

-----------------------------------------------------------------------------
(* The central                                                             *)

CentralHandles ==
    /\ Central!NotAhead
    /\ Central!Handle
    /\ UNCHANGED <<engine, rider, ordered>>

ClockTicks ==
    /\ Central!Tick
    /\ UNCHANGED <<engine, rider, ordered>>

\* An engine authenticates, and the authentication server stores it.
TaxiRegisters(t) ==
    /\ Taxi!Authenticates(t)
    /\ Central!Register(t)
    /\ UNCHANGED <<rider, ordered>>

\* The authentication server produces the request: its producer queues it and a thread of the
\* client library has it in the topic some time later.
RegistrationAnnounced ==
    /\ Central!Announce
    /\ UNCHANGED <<engine, rider, ordered>>

\* The engine has its reply as soon as the request is queued: it may start, and speak, before its
\* own announcement is in the topic.
TaxiStarts(t) ==
    /\ Taxi!Starts(t)
    /\ UNCHANGED <<centralVars, rider, ordered>>

\* checkStrays: a connected taxi whose engine no longer pings, a customer that no longer does.
StrayTaxi(t) ==
    /\ Leaving
    /\ HasTaxi(db, t) /\ db.taxis[t].connected
    /\ engine[t].life = "off"
    /\ Len(responses[t]) < MaxUnread
    /\ Taxi!Say([subject |-> "ORDER_TAXI_DISCONNECT", taxiId |-> t])
    /\ UNCHANGED <<centralVars, responses, engine, rider, ordered>>

StrayCustomer(c) ==
    /\ Leaving
    /\ HasCustomer(db, c)
    /\ rider[c].stage \in {"gone", "failed"}
    /\ Len(responses[c]) < MaxUnread
    /\ Taxi!Say([subject |-> "ORDER_CUSTOMER_DISCONNECT", id |-> c])
    /\ UNCHANGED <<centralVars, responses, engine, rider, ordered>>

-----------------------------------------------------------------------------
(* The others                                                              *)

TaxiObeys(t) ==
    /\ Taxi!ObeysOrders(t)
    /\ UNCHANGED <<centralVars, rider, ordered>>

TaxiDrives(t) ==
    /\ Taxi!SensorConnects(t) \/ Taxi!Attends(t)
    /\ UNCHANGED <<centralVars, rider, ordered>>

TaxiLeaves(t) ==
    /\ Leaving
    /\ \/ Taxi!Quits(t) \/ Taxi!Exits(t)
       \/ Taxi!SensorLeaves(t) \/ Taxi!SensorNext(t) \/ Taxi!SaysGoodbye(t)
    /\ UNCHANGED <<centralVars, rider, ordered>>

CustomerActs(c) ==
    /\ TaxisFirst => announcing = {} /\ \A t \in Taxis : engine[t].life = "running"
    /\ Rider!Acts(c)
    /\ UNCHANGED <<centralVars, engine, ordered>>

CustomerGivesUp(c) ==
    /\ Leaving
    /\ Rider!GivesUp(c)
    /\ UNCHANGED <<centralVars, engine, ordered>>

\* Nobody reads what is said to a customer program that has ended: it goes by.
Unheard(c) ==
    /\ rider[c].stage \in {"gone", "failed"}
    /\ Central!Read(c)
    /\ UNCHANGED <<engine, rider, ordered>>

\* The front end shows taxis and customers that are in the database, and orders about them.
OperatorOrders ==
    /\ ordered < MaxOrders
    /\ \E m \in Orders :
        /\ m.subject \in TaxiOrders \cup {"ORDER_TAXI_GO_TO"} => HasTaxi(db, m.taxiId)
        /\ m.subject \in CustomerOrders => HasCustomer(db, m.id)
        /\ Taxi!Say(m)
    /\ ordered' = ordered + 1
    /\ UNCHANGED <<centralVars, responses, engine, rider>>

Next ==
    \/ CentralHandles \/ ClockTicks \/ RegistrationAnnounced \/ OperatorOrders
    \/ \E t \in Taxis :
        \/ TaxiRegisters(t) \/ TaxiStarts(t) \/ TaxiObeys(t) \/ TaxiDrives(t) \/ TaxiLeaves(t)
        \/ StrayTaxi(t)
    \/ \E c \in Customers : CustomerActs(c) \/ CustomerGivesUp(c) \/ StrayCustomer(c) \/ Unheard(c)

Spec == Init /\ [][Next]_vars

\* Every process keeps running: the central's loop, the engine's threads, the customer's loop;
\* frames keep coming, and again and again one that lets the taxi drive.  Kafka never refuses a
\* message, so an action that has to wait for room in "requests", the model's bound, is strongly
\* fair.  Operators, sensors that leave and time-outs are under no obligation.
Fairness ==
    /\ WF_vars(CentralHandles)
    /\ SF_vars(RegistrationAnnounced)
    /\ \A t \in Taxis :
        /\ WF_vars(TaxiRegisters(t)) /\ WF_vars(TaxiStarts(t))
        /\ SF_vars(TaxiObeys(t))
        /\ SF_vars(Taxi!SensorConnects(t) /\ TaxiDrives(t))
        /\ SF_vars(Taxi!DriveFrame(t) /\ TaxiDrives(t))
        /\ WF_vars(Taxi!Drives(t) /\ TaxiDrives(t))
        /\ SF_vars(Taxi!Reports(t) /\ TaxiDrives(t))
    /\ \A c \in Customers : SF_vars(CustomerActs(c))

FairSpec == Spec /\ Fairness

-----------------------------------------------------------------------------
(* Properties                                                              *)

\* The requests that report where t is.
Reporting(t) ==
    \E i \in DOMAIN requests :
        requests[i].subject \in TaxiArrivals /\ requests[i].taxiId = t

\* The order m is on its way to t, in either topic.
OrderUnderway(t, order, notice) ==
    \/ \E i \in DOMAIN requests :
            requests[i].subject = order /\ requests[i].taxiId = t
    \/ \E i \in DOMAIN responses[t] : responses[t][i].subject = notice

\* The central knows where its taxis are: once all reports are handled, its database has each
\* running taxi where the taxi is.
PositionAgreement ==
    \A t \in Taxis :
        (Taxi!Runs(t) /\ engine[t].sensor # "moved" /\ engine[t].kafka # "answering"
            /\ ~Reporting(t))
        => db.taxis[t].pos = engine[t].pos

\* STOP and CONTINUE arrive in the order given: once none is underway, the central's flag and the
\* engine's are the same.
StopAgreement ==
    \A t \in Taxis :
        (Taxi!Runs(t)
            /\ ~OrderUnderway(t, "ORDER_TAXI_STOP", "TAXI_STOP")
            /\ ~OrderUnderway(t, "ORDER_TAXI_CONTINUE", "TAXI_CONTINUE"))
        => db.taxis[t].stopped = engine[t].orderedToStop

\* A taxi that runs and has not been told to disconnect, nor is about to be, is connected for the
\* central: strays, goodbyes and registrations may overlap.
ConnectedAgreement ==
    \A t \in Taxis :
        (Taxi!Runs(t) /\ ~engine[t].stop
            /\ ~OrderUnderway(t, "ORDER_TAXI_DISCONNECT", "TAXI_DISCONNECT"))
        => db.taxis[t].connected

\* A customer that is carried is where its taxi is.
CarriedTogether ==
    \A t \in Taxis : LET c == CarriedBy(db, t) IN
        c # None => db.customers[c].pos = db.taxis[t].pos

\* A taxi with a customer on board and no news underway is bound for what the customer asked for.
BoundForDestination ==
    \A t \in Taxis : LET c == CarriedBy(db, t) IN
        (c # None /\ ~Reporting(t) /\ engine[t].kafka = "reading" /\ engine[t].sensor # "moved"
            /\ responses[t] = <<>>)
        => engine[t].dest = DestinationOf(db, c)

\* A customer that is told it has arrived is at the place it asked for.
ArrivedWhereAsked ==
    \A c \in Customers :
        (rider[c].stage = "following" /\ responses[c] # <<>>
            /\ Head(responses[c]) = Notice("CUSTOMER_SERVICE_COMPLETED"))
        => db.customers[c].pos = db.locations[Rider!Wish(c)]

\* The two tables tell the same story of who is on board: customers.onboard and taxis.customer_id
\* are written by one query and customers come and go in between.
OnboardAgreement ==
    \A c \in Customers : HasCustomer(db, c) =>
        (db.customers[c].onboard <=> \E t \in Taxis : CarriedBy(db, t) = c)

\* Whatever the other components do, the central is used as KafkaServer expects: only taxis of the
\* database and customers that were accepted send it messages, whoever has left, failed or been
\* disconnected meanwhile.  So what is proved of KafkaServer holds in the whole system.
CentralServes == Central!Spec

\* The central survives.
NeverAborts == server = "running"

\* A customer that asked for a service comes to know how it ended, unless its taxi is stopped
\* for good.
EveryAskAnswered ==
    (\A t \in Taxis : <>[](~engine[t].orderedToStop))
        => \A c \in Customers : rider[c].stage = "following" ~> rider[c].stage # "following"
=============================================================================

------------------------------ MODULE Protocol ------------------------------
(***************************************************************************)
(* The vocabulary of EasyCab: who takes part, and the messages of the      *)
(* Kafka topics "requests" and "responses" (src/Common/Protocols.h).       *)
(*                                                                         *)
(* prot::Message is one flat class whose meaningful members depend on its  *)
(* subject.  Here a message is a record with exactly the members that the  *)
(* reader of that subject looks at, so "requests" carries a union of       *)
(* record types and every reader of "responses" an inbox of notices.       *)
(***************************************************************************)
EXTENDS Integers, Sequences

CONSTANTS
    Taxis,       \* the taxi ids (DE_ID)
    Customers,   \* the customer ids (CUSTOMER_ID), lower-case letters
    Services,    \* the letters a customer may ask for
    Points,      \* the cells of the map
    Base,        \* the cell (0, 0): where taxis start and return to
    Sessions,    \* session strings: "current", that of the running central, and "stale" ones
    None         \* SQL's NULL, an absent row, an empty std::optional

ASSUME BaseAssumption == Base \in Points

ASSUME NoneAssumption ==
    /\ None \notin Taxis \cup Customers \cup Services \cup Points
    /\ None \notin Nat

\* Taxi ids are numbers, customer ids letters.
ASSUME ClientsAssumption == Taxis \cap Customers = {}

ASSUME SessionsAssumption == "current" \in Sessions

Subscribers == Taxis \cup Customers

-----------------------------------------------------------------------------
(* Topic "requests": what the digital engines, the customers, the          *)
(* authentication server and the front end tell the central.               *)

TaxiSignals == {"NEW_TAXI", "TAXI_RECONNECTED", "TAXI_READY", "TAXI_NOT_READY",
                "TAXI_PING"}

TaxiArrivals == {"TAXI_MOVE", "TAXI_DESTINATION_REACHED"}

TaxiOrders == {"ORDER_TAXI_STOP", "ORDER_TAXI_CONTINUE",
               "ORDER_TAXI_RETURN_TO_BASE", "ORDER_TAXI_DISCONNECT"}

CustomerOrders == {"ORDER_CUSTOMER_DISCONNECT", "ORDER_CUSTOMER_PRIORITY"}

\* Those for whom the session is not checked.
GreenList == TaxiOrders \cup CustomerOrders
                \cup {"ORDER_TAXI_GO_TO", "ORDER_LOCATION_MOVE", "NEW_CUSTOMER"}

\* Seconds of a countdown, NEXT_REQUEST and wait_time, cut to "none left" and "some left".
Countdown == 0..1

Request ==
    [subject : TaxiSignals, taxiId : Taxis, session : Sessions]
    \cup [subject : TaxiArrivals, taxiId : Taxis, coord : Points, session : Sessions]
    \cup [subject : {"TAXI_UPDATE_WAIT_TIME"}, taxiId : Taxis, data : Countdown, session : Sessions]
    \cup [subject : {"NEW_CUSTOMER"}, id : Customers, coord : Points]
    \cup [subject : {"CUSTOMER_PING"}, id : Customers, session : Sessions]
    \cup [subject : {"CUSTOMER_SERVICE_REQUEST"}, id : Customers, data : Services, session : Sessions]
    \cup [subject : {"CUSTOMER_UPDATE_NEXT_REQUEST"}, id : Customers, data : Countdown, session : Sessions]
    \cup [subject : TaxiOrders, taxiId : Taxis]
    \cup [subject : {"ORDER_TAXI_GO_TO"}, taxiId : Taxis, coord : Points]
    \cup [subject : CustomerOrders, id : Customers]
    \cup [subject : {"ORDER_LOCATION_MOVE"}, id : Services, coord : Points]

-----------------------------------------------------------------------------
(* Topic "responses": what the central answers, as its readers see it.  A  *)
(* digital engine skips what does not name its taxi, a customer what does  *)
(* not name it (or, while it joins, its own uuid).                         *)

GoTo(p)     == [subject |-> "TAXI_GO_TO", coord |-> p]
Accepted(t) == [subject |-> "CUSTOMER_SERVICE_ACCEPTED", taxiId |-> t]
Notice(s)   == [subject |-> s]

TaxiNotice ==
    [subject : {"TAXI_GO_TO"}, coord : Points]
    \cup [subject : {"TAXI_STOP", "TAXI_CONTINUE", "TAXI_DISCONNECT"}]

CustomerNotice ==
    [subject : {"CUSTOMER_SERVICE_ACCEPTED"}, taxiId : Taxis]
    \cup [subject : {"CUSTOMER_DISCONNECT", "CUSTOMER_PRIORITY", "CUSTOMER_PICKED_UP",
                     "CUSTOMER_ENQUEUED", "CUSTOMER_SERVICE_COMPLETED",
                     "CUSTOMER_SERVICE_DENIED", "ACCEPT", "DENY"}]

\* The topic as its subscribers have still to read it.
Inboxes == [Subscribers -> Seq(TaxiNotice \cup CustomerNotice)]

\* One message more in the inbox of s.
Send(inbox, s, m) == [inbox EXCEPT ![s] = Append(@, m)]
=============================================================================

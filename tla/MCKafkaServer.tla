--------------------------- MODULE MCKafkaServer ----------------------------
(* KafkaServer on small instances. *)
EXTENDS KafkaServer, TLC

CONSTANTS t1, t2, c1, c2, A, B, base, spot

\* c1 has a location named like it, c2 has not; one location is on the map.
MCLetterOf == (c1 :> A) @@ [c \in Customers |-> B]

MCLocations == (A :> spot) @@ [l \in Services |-> None]

Of(subjects) == {m \in Request : m.subject \in subjects}

\* An earlier start has left a taxi that carries c1 to A, or one that has disconnected and still
\* has the service of its last ride, while c1 stands in the queue.
Riding ==
    [taxis |-> [t \in Taxis |-> [NewTaxiRow EXCEPT !.dest = spot, !.customer_id = c1, !.service = c1]],
     customers |-> [c \in Customers |->
        IF c = c1 THEN [NewCustomerRow(base) EXCEPT !.destination = A, !.onboard = TRUE] ELSE None],
     locations |-> MCLocations]

Left ==
    [taxis |-> [t \in Taxis |-> [NewTaxiRow EXCEPT !.pos = spot, !.dest = spot, !.service = c1,
                                                   !.connected = FALSE]],
     customers |-> [c \in Customers |->
        IF c = c1 THEN [NewCustomerRow(spot) EXCEPT !.destination = A, !.in_queue = 0] ELSE None],
     locations |-> MCLocations]

MCResumed == {Riding, Left}

\* What moves taxis and customers about.
RideInputs ==
    Of({"TAXI_MOVE", "TAXI_DESTINATION_REACHED", "CUSTOMER_SERVICE_REQUEST",
        "ORDER_TAXI_DISCONNECT", "ORDER_TAXI_GO_TO", "ORDER_CUSTOMER_DISCONNECT",
        "ORDER_CUSTOMER_PRIORITY"})
    \cup {m \in Of({"NEW_CUSTOMER"}) : m.coord = spot}

\* Everything else, which touches flags, counters and locations, and the other session.
FlagInputs ==
    Of({"TAXI_READY", "TAXI_NOT_READY", "TAXI_PING", "TAXI_UPDATE_WAIT_TIME", "CUSTOMER_PING",
        "CUSTOMER_UPDATE_NEXT_REQUEST", "ORDER_TAXI_STOP", "ORDER_TAXI_CONTINUE",
        "ORDER_TAXI_RETURN_TO_BASE", "ORDER_TAXI_DISCONNECT", "ORDER_LOCATION_MOVE",
        "NEW_CUSTOMER"})
    \cup {m \in Of({"CUSTOMER_SERVICE_REQUEST"}) : m.data = B}
=============================================================================

----------------------------- MODULE MCEasyCab ------------------------------
(* EasyCab on small instances. *)
EXTENDS EasyCab, TLC

CONSTANTS t1, t2, c1, c2, A, B

MCPoints == (0 .. 2 * Half - 1) \X (0 .. 2 * Half - 1)

MCBase == <<0, 0>>

MCLetterOf == [c \in Customers |-> IF c = c1 THEN A ELSE B]

MCLocations == (A :> <<1, 3>>) @@ (B :> <<2, 1>>)

MCHome == [c \in Customers |-> IF c = c1 THEN <<1, 1>> ELSE <<0, 2>>]

MCWishes == [c \in Customers |-> IF c = c1 THEN <<A, B>> ELSE <<B>>]

OneWish == [c \in Customers |-> <<A>>]

NoOrders == {}

StopOrders == [subject : {"ORDER_TAXI_STOP", "ORDER_TAXI_CONTINUE"}, taxiId : Taxis]

GoToOrders == [subject : {"ORDER_TAXI_GO_TO"}, taxiId : Taxis, coord : {Base, <<2, 2>>}]
=============================================================================

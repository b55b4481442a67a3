--------------------------- MODULE DigitalEngine ----------------------------
(***************************************************************************)
(* The digital engine of a taxi (EC_DE.cpp).  Two of its threads matter:   *)
(* the Kafka thread, which obeys the central's orders, and the sensor      *)
(* thread, which makes one iteration of attend() per frame of the sensor   *)
(* and drives.  They share pos, dest, orderedToStop and stop; a mutex      *)
(* guards each read and each write, and nothing longer.  So every peek and *)
(* poke whose order can matter is a step of its own.                       *)
(***************************************************************************)
EXTENDS Protocol

CONSTANTS
    Half,       \* half the side of the map
    Frames,     \* wait times the sensor sends: 0, and 1 for "some seconds"
    MaxRequests \* bound: messages waiting in "requests"

Grid == INSTANCE Torus

VARIABLES
    engine,     \* [Taxis -> the memory of each engine]
    requests,   \* topic "requests"
    responses   \* topic "responses", as inboxes

vars == <<engine, requests, responses>>

\* kafka: "reading", or inside the TAXI_GO_TO branch: "arrived" (the order names pos),
\* "answering" (that position is about to be sent), "redirecting" (dest is about to change).
\* sensor: "absent", "waiting" for a frame, inside attend() "driving" (allowed to step) and
\* "moved" (the step is done and not reported), "leaving" after attend(), "ended".
Memory ==
    [life : {"off", "authenticating", "running"}, stop : BOOLEAN,
     pos : Points, dest : Points, orderedToStop : BOOLEAN,
     kafka : {"reading", "arrived", "answering", "redirecting"}, coord : Points,
     sensor : {"absent", "waiting", "driving", "moved", "leaving", "ended"}]

\* What a new process starts with.
Fresh(life) ==
    [life |-> life, stop |-> FALSE, pos |-> Base, dest |-> Base, orderedToStop |-> FALSE,
     kafka |-> "reading", coord |-> Base, sensor |-> "absent"]

TypeOK == engine \in [Taxis -> Memory]

Init == engine = [t \in Taxis |-> Fresh("off")]

\* Both producers share one topic.
Say(m) ==
    /\ Len(requests) < MaxRequests
    /\ requests' = Append(requests, m)

Signal(s, t)      == [subject |-> s, taxiId |-> t, session |-> "current"]
Arrival(s, t, p)  == [subject |-> s, taxiId |-> t, coord |-> p, session |-> "current"]
WaitTime(t, w)    == [subject |-> "TAXI_UPDATE_WAIT_TIME", taxiId |-> t, data |-> w,
                      session |-> "current"]

Runs(t) == engine[t].life = "running"

-----------------------------------------------------------------------------
(* The process                                                             *)

\* authenticate() has sent the id: the authentication server takes over.
Authenticates(t) ==
    /\ engine[t].life = "off"
    /\ engine' = [engine EXCEPT ![t] = Fresh("authenticating")]

\* The reply was ACK, with the session: main starts the threads.
Starts(t) ==
    /\ engine[t].life = "authenticating"
    /\ engine' = [engine EXCEPT ![t].life = "running"]
    /\ UNCHANGED <<requests, responses>>

\* The operator leaves the engine's menu.
Quits(t) ==
    /\ Runs(t)
    /\ ~engine[t].stop
    /\ engine' = [engine EXCEPT ![t].stop = TRUE]
    /\ UNCHANGED <<requests, responses>>

\* main joins the Kafka thread and exits; the detached sensor thread dies wherever it is.
Exits(t) ==
    /\ Runs(t)
    /\ engine[t].stop /\ engine[t].kafka = "reading"
    /\ engine' = [engine EXCEPT ![t] = Fresh("off")]
    /\ UNCHANGED <<requests, responses>>

-----------------------------------------------------------------------------
(* listenKafka                                                             *)

\* The next order is read, and its subject is s.
Hears(t, s) ==
    /\ Runs(t)
    /\ ~engine[t].stop /\ engine[t].kafka = "reading"
    /\ responses[t] # <<>>
    /\ Head(responses[t]).subject = s
    /\ responses' = [responses EXCEPT ![t] = Tail(@)]
    /\ UNCHANGED requests

\* Mutant: a taxi that was ordered to stop takes no other order.
IgnoresGoToWhenStopped(t) ==
    /\ Hears(t, "TAXI_GO_TO")
    /\ LET p == Head(responses[t]).coord
       IN  IF engine[t].orderedToStop
           THEN UNCHANGED engine
           ELSE engine' = [engine EXCEPT
                    ![t].kafka = IF engine[t].pos = p THEN "arrived" ELSE "redirecting",
                    ![t].coord = p]

\* Mutant: a taxi that is already there says nothing.
GoesToInSilence(t) ==
    /\ Hears(t, "TAXI_GO_TO")
    /\ LET p == Head(responses[t]).coord
       IN  engine' = [engine EXCEPT
            ![t].kafka = IF engine[t].pos = p THEN "reading" ELSE "redirecting",
            ![t].coord = p]

\* The order is compared with pos, and the lock released before anything is done about it.
HearsGoTo(t) ==
    /\ Hears(t, "TAXI_GO_TO")
    /\ LET p == Head(responses[t]).coord
       IN  engine' = [engine EXCEPT
            ![t].kafka = IF engine[t].pos = p THEN "arrived" ELSE "redirecting",
            ![t].coord = p]

\* "Already there": pos is read once more for the answer.  dest stays what it was.
ReadsPosition(t) ==
    /\ Runs(t) /\ engine[t].kafka = "arrived"
    /\ engine' = [engine EXCEPT ![t].kafka = "answering", ![t].coord = engine[t].pos]
    /\ UNCHANGED <<requests, responses>>

AnswersArrived(t) ==
    /\ Runs(t) /\ engine[t].kafka = "answering"
    /\ Say(Arrival("TAXI_DESTINATION_REACHED", t, engine[t].coord))
    /\ engine' = [engine EXCEPT ![t].kafka = "reading", ![t].coord = Base]
    /\ UNCHANGED responses

Redirects(t) ==
    /\ Runs(t) /\ engine[t].kafka = "redirecting"
    /\ engine' = [engine EXCEPT ![t].dest = engine[t].coord, ![t].kafka = "reading",
                                ![t].coord = Base]
    /\ UNCHANGED <<requests, responses>>

HearsStop(t) ==
    /\ Hears(t, "TAXI_STOP")
    /\ engine' = [engine EXCEPT ![t].orderedToStop = TRUE]

HearsContinue(t) ==
    /\ Hears(t, "TAXI_CONTINUE")
    /\ engine' = [engine EXCEPT ![t].orderedToStop = FALSE]

HearsDisconnect(t) ==
    /\ Hears(t, "TAXI_DISCONNECT")
    /\ engine' = [engine EXCEPT ![t].stop = TRUE]

ObeysOrders(t) ==
    \/ HearsGoTo(t) \/ ReadsPosition(t) \/ AnswersArrived(t) \/ Redirects(t)
    \/ HearsStop(t) \/ HearsContinue(t) \/ HearsDisconnect(t)

-----------------------------------------------------------------------------
(* listenSensor and attend                                                 *)

Sensor(t, from, to) ==
    /\ Runs(t)
    /\ engine[t].sensor = from
    /\ engine' = [engine EXCEPT ![t].sensor = to]
    /\ UNCHANGED responses

SensorConnects(t) ==
    /\ ~engine[t].stop
    /\ Sensor(t, "absent", "waiting")
    /\ Say(Signal("TAXI_READY", t))

\* A frame that asks to wait is passed on, a second less.
WaitFrame(t) ==
    /\ Sensor(t, "waiting", "waiting")
    /\ \E w \in Frames \ {0} : \E left \in 0..w : Say(WaitTime(t, left))

\* A frame that does not, while the engine may drive.  One that finds it at rest changes nothing.
DriveFrame(t) ==
    /\ 0 \in Frames
    /\ engine[t].pos # engine[t].dest /\ ~engine[t].orderedToStop
    /\ Sensor(t, "waiting", "driving")
    /\ UNCHANGED requests

\* step() reads pos and dest anew.
Drives(t) ==
    /\ Runs(t) /\ engine[t].sensor = "driving"
    /\ engine' = [engine EXCEPT ![t].pos = Grid!step(engine[t].pos, engine[t].dest),
                                ![t].sensor = "moved"]
    /\ UNCHANGED <<requests, responses>>

\* Mutant: reports where the taxi is bound for.
ReportsDestination(t) ==
    /\ Sensor(t, "moved", "waiting")
    /\ Say(Arrival(IF engine[t].pos # engine[t].dest THEN "TAXI_MOVE"
                                                     ELSE "TAXI_DESTINATION_REACHED",
                   t, engine[t].dest))

\* dest is read anew: the report says whether pos is where the engine is now bound for.
Reports(t) ==
    /\ Sensor(t, "moved", "waiting")
    /\ Say(Arrival(IF engine[t].pos # engine[t].dest THEN "TAXI_MOVE"
                                                     ELSE "TAXI_DESTINATION_REACHED",
                   t, engine[t].pos))

\* The connection fails, or attend() sees stop.
SensorLeaves(t) ==
    /\ Sensor(t, "waiting", "leaving")
    /\ Say(Signal("TAXI_NOT_READY", t))

SensorNext(t) ==
    /\ ~engine[t].stop
    /\ Sensor(t, "leaving", "absent")
    /\ UNCHANGED requests

\* The loop of listenSensor ends: a last message, if main has not exited first.
SaysGoodbye(t) ==
    /\ engine[t].stop
    /\ Sensor(t, "leaving", "ended")
    /\ Say([subject |-> "ORDER_TAXI_DISCONNECT", taxiId |-> t])

Attends(t) == WaitFrame(t) \/ DriveFrame(t) \/ Drives(t) \/ Reports(t)
=============================================================================

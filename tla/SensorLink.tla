----------------------------- MODULE SensorLink -----------------------------
(***************************************************************************)
(* The connections between a taxi's sensors and its digital engine:        *)
(* communicateWithDE() and the menu of EC_SE.cpp at one end,               *)
(* listenSensor() and attend() of EC_DE.cpp at the other.  They take turns:*)
(* the engine's frame says whether the taxi may move, the sensor's how     *)
(* many seconds it has to wait.  Which frames DigitalEngine may receive    *)
(* follows from here; the map and the orders of DigitalEngine are reduced  *)
(* to two flags that other threads change at any time.                     *)
(*                                                                         *)
(* The engine attends one sensor at a time.  Another one that connects     *)
(* waits in the backlog (beyond the length given to listen, it connects    *)
(* later); one the engine has given up may live on, with its menu in use,  *)
(* until it finds its connection closed.                                   *)
(***************************************************************************)
EXTENDS Integers, Sequences

CONSTANTS
    Sensors,    \* processes of EC_SE for this taxi, each started once
    None,       \* no sensor
    Choices,    \* seconds the menu offers
    Garbage,    \* what a socket that has read nothing may yield for a wait time
    MaxChoices  \* bound: choices made

ASSUME SensorsAssumption == None \notin Sensors

\* One second would be over before the engine hears of it; the menu offers 5, 15 and 30.
ASSUME ChoicesAssumption == Choices \subseteq Nat \ {0, 1}

ASSUME GarbageAssumption == Garbage \subseteq Int

ASSUME BoundsAssumption == MaxChoices \in Nat

VARIABLES
    engine,     \* the sensor thread of EC_DE
    attended,   \* the sensor whose connection attend() has
    backlog,    \* connections still to be accepted
    going,      \* pos # dest
    ordered,    \* orderedToStop
    sensor,     \* the processes of EC_SE
    menu,       \* 0, or what a main thread is about to store in its counter
    toSensor,   \* may the taxi move?
    toEngine,   \* how long does it have to wait?
    told,       \* the wait time last told to the central for a frame of the sensor attended
    overrun,    \* steps since a choice was stored at the sensor attended that it has not told yet
    choices

vars == <<engine, attended, backlog, going, ordered, sensor, menu, toSensor, toEngine, told,
          overrun, choices>>

\* "absent": in accept(); "deciding" to "reading": in attend(); "over": the thread has ended, and
\* with it what accepts; "ended": the process has gone.
\* wait: the last wait time read; heard: it was in a frame; moving: attend's variable.
EngineState ==
    [at : {"absent", "deciding", "driving", "answering", "reading", "leaving", "over", "ended"},
     wait : Int, heard : BOOLEAN, moving : BOOLEAN, stop : BOOLEAN]

\* "idle": no engine was there to connect to, and nobody tries again.  "tested": the counter was
\* not 0, and is about to be decremented.
SensorState ==
    [at : {"off", "idle", "reading", "replying", "sleeping", "tested", "ended"},
     counter : Nat, moving : BOOLEAN]

NoChoice == -1

TypeOK ==
    /\ engine \in EngineState /\ attended \in Sensors \cup {None}
    /\ backlog \in Seq(Sensors)
    /\ going \in BOOLEAN /\ ordered \in BOOLEAN
    /\ sensor \in [Sensors -> SensorState] /\ menu \in [Sensors -> Choices \cup {0}]
    /\ toSensor \in [Sensors -> Seq(BOOLEAN)] /\ toEngine \in [Sensors -> Seq(Nat)]
    /\ told \in Nat
    /\ overrun \in Nat \cup {NoChoice}
    /\ choices \in 0..MaxChoices

Init ==
    /\ engine = [at |-> "absent", wait |-> 0, heard |-> FALSE, moving |-> FALSE, stop |-> FALSE]
    /\ attended = None /\ backlog = <<>>
    /\ going \in BOOLEAN /\ ordered = FALSE
    /\ sensor = [s \in Sensors |-> [at |-> "off", counter |-> 0, moving |-> FALSE]]
    /\ menu = [s \in Sensors |-> 0]
    /\ toSensor = [s \in Sensors |-> <<>>] /\ toEngine = [s \in Sensors |-> <<>>]
    /\ told = 0
    /\ overrun = NoChoice
    /\ choices = 0

InAttend == engine.at \in {"deciding", "driving", "answering", "reading"}

InBacklog(s) == \E i \in DOMAIN backlog : backlog[i] = s

\* The sensor's end of a connection, and the engine's.
Connected(s) == sensor[s].at \in {"reading", "replying", "sleeping", "tested"}

Linked(s) == attended = s \/ InBacklog(s)

-----------------------------------------------------------------------------
(* The engine: listenSensor and attend                                     *)

\* A new socket has read nothing, and attend() looks at its data before it reads.  The sensor may
\* have gone already.
Accepts ==
    /\ engine.at = "absent" /\ backlog # <<>>
    /\ \E w \in Garbage : engine' = [engine EXCEPT !.at = "deciding", !.wait = w, !.heard = FALSE]
    /\ attended' = Head(backlog) /\ backlog' = Tail(backlog)
    /\ UNCHANGED <<going, ordered, sensor, menu, toSensor, toEngine, told, overrun, choices>>

\* Mutant: the central is told the seconds as they come.
WaitsInFull ==
    /\ engine.at = "deciding" /\ engine.wait > 0
    /\ engine' = [engine EXCEPT !.at = "answering", !.moving = going]
    /\ told' = IF engine.heard THEN engine.wait ELSE told
    /\ overrun' = IF engine.heard THEN NoChoice ELSE overrun
    /\ UNCHANGED <<attended, backlog, going, ordered, sensor, menu, toSensor, toEngine, choices>>

\* The wait time is told to the central, a second less.
Waits ==
    /\ engine.at = "deciding" /\ engine.wait > 0
    /\ engine' = [engine EXCEPT !.at = "answering", !.moving = going]
    /\ told' = IF engine.heard THEN engine.wait - 1 ELSE told
    /\ overrun' = IF engine.heard THEN NoChoice ELSE overrun
    /\ UNCHANGED <<attended, backlog, going, ordered, sensor, menu, toSensor, toEngine, choices>>

\* The taxi is allowed to step, or at rest.
GoesOn ==
    /\ engine.at = "deciding" /\ engine.wait <= 0
    /\ engine' = [engine EXCEPT !.at = IF going /\ ~ordered THEN "driving" ELSE "answering",
                                !.moving = going]
    /\ UNCHANGED <<attended, backlog, going, ordered, sensor, menu, toSensor, toEngine, told,
                   overrun, choices>>

\* step(), after which the taxi has arrived or not, and the report.
Drives ==
    /\ engine.at = "driving"
    /\ going' \in BOOLEAN
    /\ engine' = [engine EXCEPT !.at = "answering", !.moving = going']
    /\ overrun' = IF overrun = NoChoice THEN NoChoice ELSE overrun + 1
    /\ UNCHANGED <<attended, backlog, ordered, sensor, menu, toSensor, toEngine, told, choices>>

\* What the loop's body has declared ends with it.
Answers ==
    /\ engine.at = "answering"
    /\ engine' = [engine EXCEPT !.at = "reading", !.wait = 0, !.heard = FALSE, !.moving = FALSE]
    /\ toSensor' = IF Connected(attended)
                   THEN [toSensor EXCEPT ![attended] = Append(@, engine.moving /\ ~ordered)]
                   ELSE toSensor
    /\ UNCHANGED <<attended, backlog, going, ordered, sensor, menu, toEngine, told, overrun, choices>>

\* stop is looked at before the read, and may be set during it.
HearsFrame ==
    /\ engine.at = "reading" /\ toEngine[attended] # <<>>
    /\ engine' = [engine EXCEPT !.at = "deciding", !.wait = Head(toEngine[attended]), !.heard = TRUE]
    /\ toEngine' = [toEngine EXCEPT ![attended] = Tail(@)]
    /\ UNCHANGED <<attended, backlog, going, ordered, sensor, menu, toSensor, told, overrun, choices>>

\* Mutant: silence does not end attend(), which goes on with the data it has.
IgnoresSilence ==
    /\ engine.at = "reading" /\ (toEngine[attended] = <<>> \/ engine.stop)
    /\ engine' = [engine EXCEPT !.at = IF engine.stop THEN "leaving" ELSE "deciding"]
    /\ attended' = IF engine.stop THEN None ELSE attended
    /\ UNCHANGED <<backlog, going, ordered, sensor, menu, toSensor, toEngine, told, overrun, choices>>

\* The connection has failed, two seconds were silent, or stop is set: the socket is closed.  A
\* choice the sensor has not told yet is lost with it.
LeavesSensor ==
    /\ engine.at = "reading" /\ (toEngine[attended] = <<>> \/ engine.stop)
    /\ engine' = [engine EXCEPT !.at = "leaving"]
    /\ attended' = None
    /\ toEngine' = [toEngine EXCEPT ![attended] = <<>>]
    /\ told' = 0 /\ overrun' = NoChoice
    /\ UNCHANGED <<backlog, going, ordered, sensor, menu, toSensor, choices>>

\* The loop of listenSensor.
ListensAgain ==
    /\ engine.at = "leaving"
    /\ engine' = [engine EXCEPT !.at = IF engine.stop THEN "over" ELSE "absent"]
    /\ UNCHANGED <<attended, backlog, going, ordered, sensor, menu, toSensor, toEngine, told,
                   overrun, choices>>

-----------------------------------------------------------------------------
(* The rest of the engine                                                  *)

\* An order changes the destination; to return to the base may make it the position.
Redirects ==
    /\ engine.at # "ended"
    /\ going' = ~going
    /\ UNCHANGED <<engine, attended, backlog, ordered, sensor, menu, toSensor, toEngine, told,
                   overrun, choices>>

HearsOrder ==
    /\ engine.at # "ended"
    /\ ordered' = ~ordered
    /\ UNCHANGED <<engine, attended, backlog, going, sensor, menu, toSensor, toEngine, told,
                   overrun, choices>>

Stops ==
    /\ ~engine.stop
    /\ engine' = [engine EXCEPT !.stop = TRUE]
    /\ UNCHANGED <<attended, backlog, going, ordered, sensor, menu, toSensor, toEngine, told,
                   overrun, choices>>

\* main does not wait for the sensor thread; what the process had in memory is gone.
Exits ==
    /\ engine.stop /\ engine.at # "ended"
    /\ engine' = [at |-> "ended", wait |-> 0, heard |-> FALSE, moving |-> FALSE, stop |-> TRUE]
    /\ attended' = None /\ backlog' = <<>>
    /\ going' = FALSE /\ ordered' = FALSE
    /\ toEngine' = [s \in Sensors |-> <<>>]
    /\ told' = 0 /\ overrun' = NoChoice
    /\ UNCHANGED <<sensor, menu, toSensor, choices>>

-----------------------------------------------------------------------------
(* A sensor                                                                *)

\* Mutant: the sensor speaks first.
GreetsFirst(s) ==
    /\ sensor[s].at = "off" /\ engine.at # "ended"
    /\ sensor' = [sensor EXCEPT ![s].at = "replying"]
    /\ backlog' = Append(backlog, s)
    /\ UNCHANGED <<engine, attended, going, ordered, menu, toSensor, toEngine, told, overrun, choices>>

\* It connects, whatever the engine is doing.
StartsSensor(s) ==
    /\ sensor[s].at = "off" /\ engine.at # "ended"
    /\ sensor' = [sensor EXCEPT ![s].at = "reading"]
    /\ backlog' = Append(backlog, s)
    /\ UNCHANGED <<engine, attended, going, ordered, menu, toSensor, toEngine, told, overrun, choices>>

\* connectTo fails, the thread returns, and the process stays.
FindsNobody(s) ==
    /\ sensor[s].at = "off" /\ engine.at = "ended"
    /\ sensor' = [sensor EXCEPT ![s].at = "idle"]
    /\ UNCHANGED <<engine, attended, backlog, going, ordered, menu, toSensor, toEngine, told,
                   overrun, choices>>

HearsEngine(s) ==
    /\ sensor[s].at = "reading" /\ toSensor[s] # <<>>
    /\ sensor' = [sensor EXCEPT ![s].at = "replying", ![s].moving = Head(toSensor[s])]
    /\ toSensor' = [toSensor EXCEPT ![s] = Tail(@)]
    /\ UNCHANGED <<engine, attended, backlog, going, ordered, menu, toEngine, told, overrun, choices>>

Replies(s) ==
    /\ sensor[s].at = "replying"
    /\ sensor' = [sensor EXCEPT ![s].at = "sleeping"]
    /\ toEngine' = IF Linked(s) THEN [toEngine EXCEPT ![s] = Append(@, sensor[s].counter)]
                   ELSE toEngine
    /\ UNCHANGED <<engine, attended, backlog, going, ordered, menu, toSensor, told, overrun, choices>>

\* Mutant: a taxi that may not move does not wait either.
WakesWhenMoving(s) ==
    /\ sensor[s].at = "sleeping"
    /\ sensor' = [sensor EXCEPT ![s].at =
            IF sensor[s].counter # 0 /\ sensor[s].moving THEN "tested" ELSE "reading"]
    /\ UNCHANGED <<engine, attended, backlog, going, ordered, menu, toSensor, toEngine, told,
                   overrun, choices>>

\* Mutant: the counter is not looked at.
WakesUnchecked(s) ==
    /\ sensor[s].at = "sleeping"
    /\ sensor' = [sensor EXCEPT ![s].at = "tested"]
    /\ UNCHANGED <<engine, attended, backlog, going, ordered, menu, toSensor, toEngine, told,
                   overrun, choices>>

\* A second later, the counter is tested.
Wakes(s) ==
    /\ sensor[s].at = "sleeping"
    /\ sensor' = [sensor EXCEPT ![s].at = IF sensor[s].counter # 0 THEN "tested" ELSE "reading"]
    /\ UNCHANGED <<engine, attended, backlog, going, ordered, menu, toSensor, toEngine, told,
                   overrun, choices>>

\* Under a lock of its own: the main thread may have stored a choice since.
CountsDown(s) ==
    /\ sensor[s].at = "tested"
    /\ sensor' = [sensor EXCEPT ![s].at = "reading", ![s].counter = @ - 1]
    /\ UNCHANGED <<engine, attended, backlog, going, ordered, menu, toSensor, toEngine, told,
                   overrun, choices>>

\* The process ends, because its engine has hung up or its user leaves, in the middle of anything.
EndsSensor(s) ==
    /\ sensor' = [sensor EXCEPT ![s] = [at |-> "ended", counter |-> 0, moving |-> FALSE]]
    /\ menu' = [menu EXCEPT ![s] = 0]
    /\ toSensor' = [toSensor EXCEPT ![s] = <<>>]
    /\ overrun' = IF attended = s THEN NoChoice ELSE overrun
    /\ UNCHANGED <<engine, attended, backlog, going, ordered, toEngine, told, choices>>

FindsClosed(s) ==
    /\ sensor[s].at = "reading" /\ toSensor[s] = <<>>
    /\ ~Linked(s)
    /\ EndsSensor(s)

Quits(s) ==
    /\ sensor[s].at \notin {"off", "ended"}
    /\ EndsSensor(s)

\* The user picks an entry while the taxi moves, as far as this sensor was told; the lock is
\* released before the choice is stored.
Chooses(s) ==
    /\ Connected(s) /\ sensor[s].moving
    /\ menu[s] = 0 /\ choices < MaxChoices
    /\ \E c \in Choices : menu' = [menu EXCEPT ![s] = c]
    /\ choices' = choices + 1
    /\ UNCHANGED <<engine, attended, backlog, going, ordered, sensor, toSensor, toEngine, told, overrun>>

SetsCounter(s) ==
    /\ menu[s] # 0
    /\ sensor' = [sensor EXCEPT ![s].counter = menu[s]]
    /\ menu' = [menu EXCEPT ![s] = 0]
    /\ overrun' = IF attended = s /\ overrun = NoChoice THEN 0 ELSE overrun
    /\ UNCHANGED <<engine, attended, backlog, going, ordered, toSensor, toEngine, told, choices>>

Attends ==
    \/ Accepts \/ Waits \/ GoesOn \/ Drives \/ Answers \/ HearsFrame
    \/ LeavesSensor \/ ListensAgain

Communicates(s) == HearsEngine(s) \/ Replies(s) \/ Wakes(s) \/ CountsDown(s) \/ FindsClosed(s)

Next ==
    \/ Attends
    \/ Redirects \/ HearsOrder \/ Stops \/ Exits
    \/ \E s \in Sensors :
        \/ StartsSensor(s) \/ FindsNobody(s) \/ Communicates(s)
        \/ Quits(s) \/ Chooses(s) \/ SetsCounter(s)

Spec == Init /\ [][Next]_vars

\* A read of the engine returns within two seconds, and a sensor sleeps for one.
FairSpec == Spec /\ WF_vars(Attends) /\ \A s \in Sensors : WF_vars(Communicates(s))

-----------------------------------------------------------------------------
(* Properties                                                              *)

Count(b) == IF b THEN 1 ELSE 0

\* The engine has something to do for the sensor s, or will have when it accepts it.
EngineActs(s) ==
    \/ InBacklog(s)
    \/ attended = s /\ engine.at \in {"deciding", "driving", "answering"}

\* Engine and sensor take turns, though no frame is numbered, the engine gives up on silence and
\* another sensor may be there: at most one of them has something to do for the other, or one
\* frame is under way.
TakeTurns ==
    \A s \in Sensors :
        Count(EngineActs(s)) + Count(sensor[s].at = "replying")
            + Len(toSensor[s]) + Len(toEngine[s]) <= 1

\* A user who reports an inconvenience at the sensor that is attended sees the taxi make one more
\* step at most for it, the one it was already allowed, whatever other sensors say.
StopsInTime == overrun <= 1

\* A taxi drives on only when the central was told that its wait is over, whatever was chosen and
\* when: a count that began with this sensor has gone down to zero in topic "requests".
WaitIsToldToTheEnd == engine.at = "driving" => told = 0

\* A count comes to its end, also when the taxi is ordered to stop meanwhile, or when the engine
\* has given its sensor up and attends another.
WaitEnds == \A s \in Sensors : sensor[s].counter > 0 ~> sensor[s].counter = 0
=============================================================================

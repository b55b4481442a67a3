-------------------------- MODULE SensorLinkProofs --------------------------
(***************************************************************************)
(* What holds between sensors and engine for any number of sensors, every  *)
(* menu and every first frame.                                             *)
(***************************************************************************)
EXTENDS SensorLink, TLAPS

-----------------------------------------------------------------------------
(* Types                                                                   *)

LEMMA Frames ==
    ASSUME NEW S, NEW s \in Seq(S)
    PROVE  /\ Len(s) \in Nat /\ (s = <<>> <=> Len(s) = 0) /\ <<>> \in Seq(S)
           /\ s # <<>> => Head(s) \in S /\ Tail(s) \in Seq(S) /\ Len(Tail(s)) = Len(s) - 1
           /\ \A x \in S : /\ Append(s, x) \in Seq(S) /\ Len(Append(s, x)) = Len(s) + 1
                           /\ s = <<>> => Head(Append(s, x)) = x
OBVIOUS

LEMMA LastFrame == ASSUME NEW S, NEW s \in Seq(S), Len(s) = 1 PROVE Tail(s) = <<>>
<1>0. Tail(s) \in Seq(S) /\ Len(Tail(s)) = 0
  BY Frames
<1>1. PICK t \in Seq(S) : t = Tail(s) /\ Len(t) = 0
  BY <1>0
<1>2. t = <<>>
  BY <1>1
<1>3. QED BY <1>1, <1>2

\* A counter that was tested is still not 0 when it is decremented: nobody else takes from it.
Tested == \A s \in Sensors : sensor[s].at = "tested" => sensor[s].counter > 0

\* attend() has a connection.
Attending ==
    /\ InAttend <=> attended # None
    /\ engine.heard => engine.wait >= 0

LEMMA EngineTypes ==
    ASSUME TypeOK, Attending,
           Attends \/ Redirects \/ HearsOrder \/ Stops \/ Exits
    PROVE  TypeOK' /\ Attending'
<1> USE DEF Attending, InAttend
<1>0. /\ engine \in EngineState /\ engine.moving \in BOOLEAN /\ ordered \in BOOLEAN
      /\ toEngine \in [Sensors -> Seq(Nat)] /\ toSensor \in [Sensors -> Seq(BOOLEAN)]
      /\ backlog \in Seq(Sensors) /\ attended \in Sensors \cup {None} /\ told \in Nat
  BY DEF TypeOK, EngineState
<1>1. CASE Accepts
  <2>1. attended' \in Sensors /\ backlog' \in Seq(Sensors)
    BY <1>0, <1>1, Frames DEF Accepts
  <2>2. engine' \in EngineState /\ engine'.at = "deciding" /\ ~engine'.heard
    BY <1>0, <1>1, GarbageAssumption DEF Accepts, EngineState
  <2>3. QED BY <1>1, <2>1, <2>2, SensorsAssumption DEF Accepts, TypeOK
<1>2. CASE Waits
  <2>1. engine' \in EngineState
    BY <1>0, <1>2 DEF Waits, TypeOK, EngineState
  <2>2. told' \in Nat
    BY <1>0, <1>2 DEF Waits, EngineState
  <2>3. engine'.at = "answering" /\ engine.at = "deciding" /\ engine'.wait = engine.wait
        /\ engine'.heard = engine.heard /\ attended' = attended
    BY <1>0, <1>2 DEF Waits, EngineState
  <2>4. QED BY <1>2, <2>1, <2>2, <2>3 DEF Waits, TypeOK
<1>3. CASE GoesOn
  <2>1. engine' \in EngineState /\ engine.at = "deciding" /\ engine'.at \in {"driving", "answering"}
        /\ engine'.wait = engine.wait /\ engine'.heard = engine.heard /\ attended' = attended
    BY <1>0, <1>3 DEF GoesOn, TypeOK, EngineState
  <2>2. QED BY <1>3, <2>1 DEF GoesOn, TypeOK
<1>4. CASE Drives
  <2>1. engine' \in EngineState /\ engine.at = "driving" /\ engine'.at = "answering"
        /\ engine'.wait = engine.wait /\ engine'.heard = engine.heard /\ attended' = attended
    BY <1>0, <1>4 DEF Drives, EngineState
  <2>2. overrun' \in Nat \cup {NoChoice}
    BY <1>4 DEF Drives, TypeOK, NoChoice
  <2>3. QED BY <1>4, <2>1, <2>2 DEF Drives, TypeOK
<1>5. CASE Answers
  <2>0. /\ engine' = [engine EXCEPT !.at = "reading", !.wait = 0, !.heard = FALSE, !.moving = FALSE]
        /\ engine.at = "answering" /\ attended' = attended
    BY <1>5 DEF Answers
  <2>1. /\ engine' \in EngineState /\ engine.at = "answering" /\ engine'.at = "reading"
        /\ ~engine'.heard /\ attended' = attended
    <3>1. engine \in EngineState /\ 0 \in Int
      BY <1>0
    <3>2. engine' \in EngineState
      BY ONLY <2>0, <3>1 DEF EngineState
    <3>3. engine'.at = "reading" /\ engine'.heard = FALSE
      BY ONLY <2>0, <3>1 DEF EngineState
    <3>4. QED BY <2>0, <3>2, <3>3
  <2>2. attended \in Sensors
    BY <1>0, <2>1
  <2>3. toSensor' \in [Sensors -> Seq(BOOLEAN)]
    <3> DEFINE b == engine.moving /\ ~ordered
    <3>1. b \in BOOLEAN /\ toSensor[attended] \in Seq(BOOLEAN)
      BY <1>0, <2>2
    <3>2. toSensor' = toSensor
          \/ toSensor' = [toSensor EXCEPT ![attended] = Append(toSensor[attended], b)]
      BY <1>5 DEF Answers
    <3> HIDE DEF b
    <3>3. Append(toSensor[attended], b) \in Seq(BOOLEAN)
      BY <3>1
    <3>4. QED BY <1>0, <3>2, <3>3
  <2>4. QED BY <1>5, <2>1, <2>3 DEF Answers, TypeOK
<1>6. CASE HearsFrame
  <2>1. attended \in Sensors /\ engine.at = "reading" /\ toEngine[attended] # <<>>
    BY <1>0, <1>6 DEF HearsFrame
  <2> DEFINE w == Head(toEngine[attended])
  <2>2. w \in Nat /\ Tail(toEngine[attended]) \in Seq(Nat)
    BY <1>0, <2>1, Frames
  <2>3. engine' = [engine EXCEPT !.at = "deciding", !.wait = w, !.heard = TRUE]
    BY <1>6 DEF HearsFrame
  <2>4. toEngine' \in [Sensors -> Seq(Nat)]
    BY <1>0, <1>6, <2>2 DEF HearsFrame
  <2> HIDE DEF w
  <2>5. engine' \in EngineState /\ engine'.at = "deciding" /\ engine'.wait = w
    <3>1. engine \in EngineState /\ w \in Int
      BY <1>0, <2>2
    <3>2. engine' \in EngineState
      BY ONLY <2>3, <3>1 DEF EngineState
    <3>3. QED BY ONLY <2>3, <3>1, <3>2 DEF EngineState
  <2>6. QED BY <1>6, <2>1, <2>2, <2>4, <2>5 DEF HearsFrame, TypeOK
<1>7. CASE LeavesSensor
  <2>1. engine' \in EngineState /\ engine'.at = "leaving" /\ attended' = None
        /\ engine'.wait = engine.wait /\ engine'.heard = engine.heard
    BY <1>0, <1>7 DEF LeavesSensor, EngineState
  <2>2. toEngine' \in [Sensors -> Seq(Nat)]
    BY <1>0, <1>7, Frames DEF LeavesSensor
  <2>3. QED BY <1>7, <2>1, <2>2 DEF LeavesSensor, TypeOK, NoChoice
<1>8. CASE ListensAgain
  <2>1. engine' \in EngineState /\ engine.at = "leaving" /\ engine'.at \in {"over", "absent"}
        /\ engine'.wait = engine.wait /\ engine'.heard = engine.heard /\ attended' = attended
    BY <1>0, <1>8 DEF ListensAgain, EngineState
  <2>2. QED BY <1>8, <2>1 DEF ListensAgain, TypeOK
<1>9. CASE Redirects
  BY <1>9 DEF Redirects, TypeOK
<1>10. CASE HearsOrder
  BY <1>10 DEF HearsOrder, TypeOK
<1>11. CASE Stops
  <2>1. engine' \in EngineState /\ engine'.at = engine.at
        /\ engine'.wait = engine.wait /\ engine'.heard = engine.heard /\ attended' = attended
    BY <1>0, <1>11 DEF Stops, EngineState
  <2>2. QED BY <1>11, <2>1 DEF Stops, TypeOK
<1>12. CASE Exits
  <2>1. engine' \in EngineState /\ engine'.at = "ended" /\ attended' = None /\ ~engine'.heard
    BY <1>12 DEF Exits, EngineState
  <2>2. toEngine' \in [Sensors -> Seq(Nat)] /\ backlog' \in Seq(Sensors)
    BY <1>12, Frames DEF Exits
  <2>3. QED BY <1>12, <2>1, <2>2 DEF Exits, TypeOK, NoChoice
<1>13. QED
  BY <1>1, <1>2, <1>3, <1>4, <1>5, <1>6, <1>7, <1>8, <1>9, <1>10, <1>11, <1>12 DEF Attends

\* A step of the sensor s, of its user, or its start.
Acts(s) ==
    StartsSensor(s) \/ FindsNobody(s) \/ Communicates(s) \/ Quits(s) \/ Chooses(s) \/ SetsCounter(s)

LEMMA SensorTypes ==
    ASSUME TypeOK, Tested, NEW s \in Sensors, Acts(s)
    PROVE  TypeOK' /\ Tested'
<1>0. /\ sensor \in [Sensors -> SensorState] /\ sensor[s] \in SensorState
      /\ toEngine \in [Sensors -> Seq(Nat)] /\ toSensor \in [Sensors -> Seq(BOOLEAN)]
      /\ menu \in [Sensors -> Choices \cup {0}] /\ backlog \in Seq(Sensors)
  BY DEF TypeOK
<1>a. ASSUME sensor'[s] \in SensorState, sensor' = [sensor EXCEPT ![s] = sensor'[s]],
             sensor'[s].at = "tested" => sensor'[s].counter > 0
      PROVE  sensor' \in [Sensors -> SensorState] /\ Tested'
  BY <1>0, <1>a DEF Tested
<1>1. CASE StartsSensor(s)
  <2>1. sensor' \in [Sensors -> SensorState] /\ Tested'
    BY <1>0, <1>1, <1>a DEF StartsSensor, SensorState
  <2>2. backlog' \in Seq(Sensors)
    BY <1>0, <1>1, Frames DEF StartsSensor
  <2>3. QED BY <1>1, <2>1, <2>2 DEF StartsSensor, TypeOK
<1>2. CASE FindsNobody(s)
  <2>1. sensor' \in [Sensors -> SensorState] /\ Tested'
    BY <1>0, <1>2, <1>a DEF FindsNobody, SensorState
  <2>2. QED BY <1>2, <2>1 DEF FindsNobody, TypeOK
<1>3. CASE HearsEngine(s)
  <2>1. Head(toSensor[s]) \in BOOLEAN /\ Tail(toSensor[s]) \in Seq(BOOLEAN)
    BY <1>0, <1>3, Frames DEF HearsEngine
  <2>2. sensor' \in [Sensors -> SensorState] /\ Tested'
    <3> DEFINE b == Head(toSensor[s])
    <3>1. sensor' = [sensor EXCEPT ![s].at = "replying", ![s].moving = b] /\ b \in BOOLEAN
      BY <1>3, <2>1 DEF HearsEngine
    <3> HIDE DEF b
    <3>2. QED BY <1>0, <3>1, <1>a DEF SensorState
  <2>3. toSensor' \in [Sensors -> Seq(BOOLEAN)]
    BY <1>0, <1>3, <2>1 DEF HearsEngine
  <2>4. QED BY <1>3, <2>2, <2>3 DEF HearsEngine, TypeOK
<1>4. CASE Replies(s)
  <2>1. sensor' \in [Sensors -> SensorState] /\ Tested'
    BY <1>0, <1>4, <1>a DEF Replies, SensorState
  <2>2. toEngine' \in [Sensors -> Seq(Nat)]
    <3>1. Append(toEngine[s], sensor[s].counter) \in Seq(Nat)
      BY <1>0, Frames DEF SensorState
    <3>2. QED BY <1>0, <1>4, <3>1 DEF Replies
  <2>3. QED BY <1>4, <2>1, <2>2 DEF Replies, TypeOK
<1>5. CASE Wakes(s)
  <2>1. sensor' \in [Sensors -> SensorState] /\ Tested'
    <3> DEFINE p == IF sensor[s].counter # 0 THEN "tested" ELSE "reading"
    <3>1. sensor' = [sensor EXCEPT ![s].at = p] /\ p \in {"tested", "reading"}
      BY <1>5 DEF Wakes
    <3>2. p = "tested" => sensor[s].counter > 0
      BY <1>0 DEF SensorState
    <3> HIDE DEF p
    <3>3. QED BY <1>0, <3>1, <3>2, <1>a DEF SensorState
  <2>2. QED BY <1>5, <2>1 DEF Wakes, TypeOK
<1>6. CASE CountsDown(s)
  <2>1. sensor' \in [Sensors -> SensorState] /\ Tested'
    <3> DEFINE n == sensor[s].counter - 1
    <3>1. n \in Nat /\ sensor' = [sensor EXCEPT ![s].at = "reading", ![s].counter = n]
      BY <1>0, <1>6 DEF CountsDown, Tested, SensorState
    <3> HIDE DEF n
    <3>2. QED BY <1>0, <3>1, <1>a DEF SensorState
  <2>2. QED BY <1>6, <2>1 DEF CountsDown, TypeOK
<1>7. CASE FindsClosed(s) \/ Quits(s)
  <2>0. EndsSensor(s)
    BY <1>7 DEF FindsClosed, Quits
  <2>1. sensor' \in [Sensors -> SensorState] /\ Tested'
    BY <1>0, <2>0, <1>a DEF EndsSensor, SensorState
  <2>2. menu' \in [Sensors -> Choices \cup {0}] /\ toSensor' \in [Sensors -> Seq(BOOLEAN)]
        /\ overrun' \in Nat \cup {NoChoice}
    BY <1>0, <2>0, Frames DEF EndsSensor, TypeOK
  <2>3. QED BY <2>0, <2>1, <2>2 DEF EndsSensor, TypeOK
<1>8. CASE Chooses(s)
  <2>1. choices' \in 0..MaxChoices
    BY <1>8, BoundsAssumption DEF Chooses, TypeOK
  <2>2. menu' \in [Sensors -> Choices \cup {0}]
    BY <1>0, <1>8 DEF Chooses
  <2>3. QED BY <1>8, <2>1, <2>2 DEF Chooses, TypeOK, Tested
<1>9. CASE SetsCounter(s)
  <2>1. menu[s] \in Nat \ {0}
    BY <1>0, <1>9, ChoicesAssumption DEF SetsCounter
  <2>2. sensor' \in [Sensors -> SensorState] /\ Tested'
    <3> DEFINE m == menu[s]
    <3>1. m \in Nat /\ m > 0 /\ sensor' = [sensor EXCEPT ![s].counter = m]
      BY <1>9, <2>1 DEF SetsCounter
    <3> HIDE DEF m
    <3>2. /\ sensor'[s] \in SensorState /\ sensor' = [sensor EXCEPT ![s] = sensor'[s]]
          /\ sensor'[s].counter > 0
      BY <1>0, <3>1 DEF SensorState
    <3>3. QED BY <3>2, <1>a
  <2>3. menu' \in [Sensors -> Choices \cup {0}] /\ overrun' \in Nat \cup {NoChoice}
    BY <1>0, <1>9 DEF SetsCounter, TypeOK
  <2>4. QED BY <1>9, <2>2, <2>3 DEF SetsCounter, TypeOK
<1>10. QED
  BY <1>1, <1>2, <1>3, <1>4, <1>5, <1>6, <1>7, <1>8, <1>9 DEF Acts, Communicates

LEMMA TypeInvariant == Spec => [](TypeOK /\ Tested /\ Attending)
<1>1. Init => TypeOK /\ Tested /\ Attending
  <2> SUFFICES ASSUME Init PROVE TypeOK /\ Tested /\ Attending
    OBVIOUS
  <2>1. engine \in EngineState /\ sensor \in [Sensors -> SensorState]
    BY DEF Init, EngineState, SensorState
  <2>2. toSensor \in [Sensors -> Seq(BOOLEAN)] /\ toEngine \in [Sensors -> Seq(Nat)]
        /\ backlog \in Seq(Sensors)
    BY Frames DEF Init
  <2>3. choices \in 0..MaxChoices /\ overrun \in Nat \cup {NoChoice}
    BY BoundsAssumption DEF Init
  <2>4. Tested /\ Attending
    BY DEF Init, Tested, Attending, InAttend
  <2>5. QED BY <2>1, <2>2, <2>3, <2>4 DEF Init, TypeOK
<1>2. TypeOK /\ Tested /\ Attending /\ [Next]_vars => (TypeOK /\ Tested /\ Attending)'
  <2> SUFFICES ASSUME TypeOK, Tested, Attending, [Next]_vars
               PROVE  TypeOK' /\ Tested' /\ Attending'
    OBVIOUS
  <2>1. CASE Attends \/ Redirects \/ HearsOrder \/ Stops \/ Exits
    <3>1. sensor' = sensor
      BY <2>1 DEF Attends, Accepts, Waits, GoesOn, Drives, Answers, HearsFrame, LeavesSensor,
         ListensAgain, Redirects, HearsOrder, Stops, Exits
    <3>2. QED BY <2>1, <3>1, EngineTypes DEF Tested
  <2>2. ASSUME NEW s \in Sensors, Acts(s) PROVE TypeOK' /\ Tested' /\ Attending'
    <3>1. engine' = engine /\ attended' = attended
      BY <2>2 DEF Acts, Communicates, StartsSensor, FindsNobody, HearsEngine, Replies, Wakes,
         CountsDown, FindsClosed, Quits, EndsSensor, Chooses, SetsCounter
    <3>2. QED BY <2>2, <3>1, SensorTypes DEF Attending, InAttend
  <2>3. CASE UNCHANGED vars
    BY <2>3 DEF vars, TypeOK, Tested, Attending, InAttend
  <2>4. QED BY <2>1, <2>2, <2>3 DEF Next, Acts
<1>3. QED BY <1>1, <1>2, PTL DEF Spec

\* Waits, counters and frames keep their types: the counter is tested before it is decremented,
\* under two locks, and no other thread of the sensor can take it below zero in between.
THEOREM LinkTypes == Spec => []TypeOK
BY TypeInvariant, PTL

-----------------------------------------------------------------------------
(* The connections                                                         *)

\* Every sensor has one connection, in the backlog or attended.
Distinct == \A i, j \in DOMAIN backlog : backlog[i] = backlog[j] => i = j

LEMMA Enqueues ==
    ASSUME TypeOK, Distinct, NEW s \in Sensors, ~InBacklog(s), backlog' = Append(backlog, s)
    PROVE  /\ Distinct'
           /\ \A u : InBacklog(u)' <=> InBacklog(u) \/ u = s
<1>1. backlog \in Seq(Sensors) /\ Len(backlog) \in Nat /\ DOMAIN backlog = 1..Len(backlog)
  BY DEF TypeOK
<1>2. /\ backlog' \in Seq(Sensors) /\ Len(backlog') = Len(backlog) + 1
      /\ \A i \in 1..Len(backlog) : backlog'[i] = backlog[i]
      /\ backlog'[Len(backlog) + 1] = s
  BY <1>1
<1>3. DOMAIN backlog' = DOMAIN backlog \cup {Len(backlog) + 1}
  BY <1>1, <1>2
<1>4. QED BY <1>1, <1>2, <1>3 DEF Distinct, InBacklog

LEMMA Dequeues ==
    ASSUME TypeOK, Distinct, backlog # <<>>, backlog' = Tail(backlog)
    PROVE  /\ Distinct' /\ Head(backlog) \in Sensors /\ InBacklog(Head(backlog))
           /\ \A u : InBacklog(u)' <=> InBacklog(u) /\ u # Head(backlog)
<1>1. /\ backlog \in Seq(Sensors) /\ Len(backlog) \in Nat \ {0} /\ DOMAIN backlog = 1..Len(backlog)
      /\ Head(backlog) = backlog[1] /\ 1 \in DOMAIN backlog
  BY DEF TypeOK
<1>2. /\ backlog' \in Seq(Sensors) /\ Len(backlog') = Len(backlog) - 1
      /\ \A i \in 1..(Len(backlog) - 1) : backlog'[i] = backlog[i + 1]
      /\ DOMAIN backlog' = 1..(Len(backlog) - 1)
  BY <1>1
<1>3. Distinct' /\ Head(backlog) \in Sensors /\ InBacklog(Head(backlog))
  BY <1>1, <1>2 DEF Distinct, InBacklog
<1>4. \A u : InBacklog(u)' => InBacklog(u) /\ u # Head(backlog)
  BY <1>1, <1>2 DEF Distinct, InBacklog
<1>5. ASSUME NEW u, InBacklog(u), u # Head(backlog) PROVE InBacklog(u)'
  <2>1. PICK i \in DOMAIN backlog : backlog[i] = u
    BY <1>5 DEF InBacklog
  <2>2. i # 1 /\ i - 1 \in 1..(Len(backlog) - 1) /\ (i - 1) + 1 = i
    BY <1>1, <1>5, <2>1
  <2>3. backlog'[i - 1] = u
    BY <1>2, <2>1, <2>2
  <2>4. QED BY <1>2, <2>2, <2>3 DEF InBacklog
<1>6. QED BY <1>3, <1>4, <1>5

\* One of the two has something to do for the other, or one frame is under way.
Turns(s) ==
    /\ EngineActs(s) => sensor[s].at # "replying" /\ toSensor[s] = <<>> /\ toEngine[s] = <<>>
    /\ sensor[s].at = "replying" => toSensor[s] = <<>> /\ toEngine[s] = <<>>
    /\ toSensor[s] # <<>> => Len(toSensor[s]) = 1 /\ toEngine[s] = <<>>
    /\ toEngine[s] # <<>> => Len(toEngine[s]) = 1

\* A menu entry is chosen, and a frame sent, with a sensor that an engine has accepted.
Link(s) ==
    /\ Turns(s)
    /\ attended = s => ~InBacklog(s)
    /\ ~Linked(s) => toEngine[s] = <<>>
    /\ sensor[s].at \in {"off", "idle"} => ~Linked(s) /\ toSensor[s] = <<>>
    /\ menu[s] # 0 \/ sensor[s].moving => Connected(s) /\ ~InBacklog(s)

Links == Distinct /\ \A s \in Sensors : Link(s)

LEMMA TurnsCount == ASSUME TypeOK, Links PROVE TakeTurns
<1> SUFFICES ASSUME NEW s \in Sensors
             PROVE  Count(EngineActs(s)) + Count(sensor[s].at = "replying")
                        + Len(toSensor[s]) + Len(toEngine[s]) <= 1
  BY DEF TakeTurns
<1> DEFINE m == Len(toSensor[s])  n == Len(toEngine[s])
<1>1. /\ m \in Nat /\ n \in Nat /\ (m = 0 <=> toSensor[s] = <<>>) /\ (n = 0 <=> toEngine[s] = <<>>)
  <2>1. toSensor[s] \in Seq(BOOLEAN) /\ toEngine[s] \in Seq(Nat)
    BY DEF TypeOK
  <2>2. QED BY <2>1, Frames
<1>2. /\ EngineActs(s) => sensor[s].at # "replying" /\ m = 0 /\ n = 0
      /\ sensor[s].at = "replying" => m = 0 /\ n = 0
      /\ m # 0 => m = 1 /\ n = 0
      /\ n # 0 => n = 1
  <2>1. Turns(s)
    BY DEF Links, Link
  <2>2. QED BY <1>1, <2>1 DEF Turns
<1>3. /\ Count(EngineActs(s)) = IF EngineActs(s) THEN 1 ELSE 0
      /\ Count(sensor[s].at = "replying") = IF sensor[s].at = "replying" THEN 1 ELSE 0
  BY DEF Count
<1> HIDE DEF m, n
<1>4. Count(EngineActs(s)) + Count(sensor[s].at = "replying") + m + n <= 1
  BY <1>1, <1>2, <1>3
<1>5. QED BY <1>4 DEF m, n

\* What the connection of s consists of is as it was.
LEMMA LinkStays ==
    ASSUME NEW s \in Sensors, Link(s),
           UNCHANGED <<sensor[s], menu[s], toSensor[s], toEngine[s]>>,
           InBacklog(s)' <=> InBacklog(s), (attended = s)' <=> (attended = s),
           EngineActs(s)' => EngineActs(s)
    PROVE  Link(s)'
<1>1. Turns(s)'
  BY DEF Link, Turns
<1>2. Linked(s)' <=> Linked(s)
  BY DEF Linked
<1>3. QED BY <1>1, <1>2 DEF Link, Connected

\* The engine's steps on the connection it has.
LEMMA EngineLinks ==
    ASSUME TypeOK, Attending, Links,
           Attends \/ Redirects \/ HearsOrder \/ Stops \/ Exits
    PROVE  Links'
<1>0. /\ engine \in EngineState /\ Distinct /\ attended \in Sensors \cup {None}
      /\ toEngine \in [Sensors -> Seq(Nat)] /\ toSensor \in [Sensors -> Seq(BOOLEAN)]
      /\ InAttend => attended \in Sensors
  BY DEF TypeOK, Links, Attending
<1>l. \A u \in Sensors : Link(u)
  BY DEF Links
<1>s. sensor' = sensor /\ menu' = menu
  BY DEF Attends, Accepts, Waits, GoesOn, Drives, Answers, HearsFrame, LeavesSensor,
     ListensAgain, Redirects, HearsOrder, Stops, Exits
<1>a. ASSUME backlog' = backlog
      PROVE  /\ Distinct' /\ \A u : InBacklog(u)' <=> InBacklog(u)
  BY <1>0, <1>a DEF Distinct, InBacklog
\* Nothing the connections consist of changes.
<1>b. ASSUME UNCHANGED <<backlog, attended, toSensor, toEngine>>,
             engine'.at \in {"deciding", "driving", "answering"}
                => engine.at \in {"deciding", "driving", "answering"}
      PROVE  Links'
  <2>1. ASSUME NEW u \in Sensors PROVE Link(u)'
    <3>1. EngineActs(u)' => EngineActs(u)
      BY <1>a, <1>b DEF EngineActs
    <3>2. QED BY <1>a, <1>b, <1>l, <1>s, <3>1, LinkStays
  <2>2. QED BY <1>a, <1>b, <2>1 DEF Links
<1>1. CASE Accepts
  <2>0. PICK h : h = Head(backlog)
    OBVIOUS
  <2>1. /\ engine.at = "absent" /\ engine'.at = "deciding" /\ attended = None /\ attended' = h
        /\ toSensor' = toSensor /\ toEngine' = toEngine
        /\ backlog # <<>> /\ backlog' = Tail(backlog)
    BY <1>0, <1>1, <2>0 DEF Accepts, EngineState, Attending, InAttend
  <2>2. /\ Distinct' /\ h \in Sensors /\ InBacklog(h)
        /\ \A u : InBacklog(u)' <=> InBacklog(u) /\ u # h
    BY <1>0, <2>0, <2>1, Dequeues
  <2>3. Link(h)'
    <3>1. Turns(h)'
      BY <1>l, <1>s, <2>1, <2>2 DEF Link, Turns, EngineActs
    <3>2. Linked(h) /\ Linked(h)'
      BY <2>1, <2>2 DEF Linked
    <3>3. QED BY <1>l, <1>s, <2>1, <2>2, <3>1, <3>2 DEF Link, Connected
  <2>4. ASSUME NEW u \in Sensors, u # h PROVE Link(u)'
    <3>1. (InBacklog(u)' <=> InBacklog(u)) /\ attended # u /\ attended' # u
      BY <2>1, <2>2, <2>4, SensorsAssumption
    <3>2. EngineActs(u)' => EngineActs(u)
      BY <3>1 DEF EngineActs
    <3>3. QED BY <1>l, <1>s, <2>1, <2>4, <3>1, <3>2, LinkStays
  <2>5. QED BY <2>2, <2>3, <2>4 DEF Links
<1>2. CASE Waits
  <2>1. /\ UNCHANGED <<backlog, attended, toSensor, toEngine>>
        /\ engine.at = "deciding"
    BY <1>2 DEF Waits
  <2>2. QED BY <1>b, <2>1
<1>3. CASE GoesOn
  <2>1. /\ UNCHANGED <<backlog, attended, toSensor, toEngine>>
        /\ engine.at = "deciding"
    BY <1>3 DEF GoesOn
  <2>2. QED BY <1>b, <2>1
<1>4. CASE Drives
  <2>1. /\ UNCHANGED <<backlog, attended, toSensor, toEngine>>
        /\ engine.at = "driving"
    BY <1>4 DEF Drives
  <2>2. QED BY <1>b, <2>1
<1>5. CASE Answers
  <2> DEFINE b == engine.moving /\ ~ordered
  <2>1. /\ UNCHANGED <<backlog, attended, toEngine>>
        /\ engine.at = "answering" /\ engine'.at = "reading" /\ attended \in Sensors
        /\ toSensor' = IF Connected(attended)
                       THEN [toSensor EXCEPT ![attended] = Append(@, b)] ELSE toSensor
    BY <1>0, <1>5 DEF Answers, EngineState, InAttend
  <2>2. /\ toSensor[attended] = <<>> /\ toEngine[attended] = <<>>
        /\ sensor[attended].at # "replying" /\ ~InBacklog(attended)
    BY <1>l, <2>1 DEF Link, Turns, EngineActs
  <2>3. /\ toSensor'[attended] # <<>> => Len(toSensor'[attended]) = 1 /\ Connected(attended)
        /\ \A u \in Sensors : u # attended => toSensor'[u] = toSensor[u]
    <3>1. b \in BOOLEAN
      BY <1>0 DEF TypeOK, EngineState
    <3> HIDE DEF b
    <3>2. Len(Append(toSensor[attended], b)) = 1
      BY <2>2, <3>1
    <3>3. QED BY <1>0, <2>1, <2>2, <3>2
  <2> HIDE DEF b
  <2>4. ASSUME NEW u \in Sensors PROVE Link(u)'
    <3>1. CASE u = attended
      <4>1. ~EngineActs(attended)'
        BY <1>a, <2>1, <2>2 DEF EngineActs
      <4>2. Turns(attended)'
        BY <1>s, <2>1, <2>2, <2>3, <4>1 DEF Turns
      <4>3. Linked(attended) /\ Linked(attended)'
        BY <2>1 DEF Linked
      <4>4. QED BY <1>a, <1>l, <1>s, <2>1, <2>2, <2>3, <3>1, <4>2, <4>3 DEF Link, Connected
    <3>2. CASE u # attended
      <4>1. EngineActs(u)' => EngineActs(u)
        BY <1>a, <2>1, <3>2 DEF EngineActs
      <4>2. QED BY <1>a, <1>l, <1>s, <2>1, <2>3, <3>2, <4>1, LinkStays
    <3>3. QED BY <3>1, <3>2
  <2>5. QED BY <1>a, <2>1, <2>4 DEF Links
<1>6. CASE HearsFrame
  <2>1. /\ UNCHANGED <<backlog, attended, toSensor>>
        /\ engine.at = "reading" /\ engine'.at = "deciding" /\ attended \in Sensors
        /\ toEngine[attended] # <<>> /\ toEngine' = [toEngine EXCEPT ![attended] = Tail(@)]
    BY <1>0, <1>6 DEF HearsFrame, EngineState, InAttend
  <2>2. /\ Len(toEngine[attended]) = 1 /\ toSensor[attended] = <<>>
        /\ sensor[attended].at # "replying" /\ ~InBacklog(attended)
    BY <1>l, <2>1 DEF Link, Turns
  <2>3. toEngine'[attended] = <<>> /\ \A u \in Sensors : u # attended => toEngine'[u] = toEngine[u]
    <3>1. toEngine[attended] \in Seq(Nat)
      BY <1>0, <2>1
    <3>2. Tail(toEngine[attended]) = <<>>
      BY <2>2, <3>1, LastFrame
    <3>3. QED BY <1>0, <2>1, <3>2
  <2>4. ASSUME NEW u \in Sensors PROVE Link(u)'
    <3>1. CASE u = attended
      <4>1. Turns(attended)'
        BY <1>s, <2>1, <2>2, <2>3 DEF Turns
      <4>2. Linked(attended) /\ Linked(attended)'
        BY <2>1 DEF Linked
      <4>3. QED BY <1>a, <1>l, <1>s, <2>1, <2>2, <3>1, <4>1, <4>2 DEF Link, Connected
    <3>2. CASE u # attended
      <4>1. EngineActs(u)' => EngineActs(u)
        BY <1>a, <2>1, <3>2 DEF EngineActs
      <4>2. QED BY <1>a, <1>l, <1>s, <2>1, <2>3, <3>2, <4>1, LinkStays
    <3>3. QED BY <3>1, <3>2
  <2>5. QED BY <1>a, <2>1, <2>4 DEF Links
<1>7. CASE LeavesSensor
  <2>1. /\ UNCHANGED <<backlog, toSensor>> /\ attended' = None
        /\ engine.at = "reading" /\ engine'.at = "leaving" /\ attended \in Sensors
        /\ toEngine' = [toEngine EXCEPT ![attended] = <<>>]
    BY <1>0, <1>7 DEF LeavesSensor, EngineState, InAttend
  <2>2. /\ \A u \in Sensors : attended' # u
        /\ toEngine'[attended] = <<>> /\ \A u \in Sensors : u # attended => toEngine'[u] = toEngine[u]
    BY <1>0, <2>1, SensorsAssumption
  <2>3. ASSUME NEW u \in Sensors PROVE Link(u)'
    <3>1. CASE u = attended
      <4>1. ~InBacklog(u) /\ ~InBacklog(u)' /\ ~Linked(u)'
        BY <1>a, <1>l, <2>1, <2>2, <3>1 DEF Link, Linked
      <4>2. Turns(u)'
        BY <1>l, <1>s, <2>1, <2>2, <3>1, <4>1 DEF Link, Turns, EngineActs
      <4>3. sensor[u].at \notin {"off", "idle"}
        BY <1>l, <3>1 DEF Link, Linked
      <4>4. QED BY <1>l, <1>s, <2>1, <2>2, <3>1, <4>1, <4>2, <4>3 DEF Link, Connected
    <3>2. CASE u # attended
      <4>1. (attended = u)' <=> (attended = u)
        BY <2>2, <3>2
      <4>2. EngineActs(u)' => EngineActs(u)
        BY <1>a, <2>1, <2>2 DEF EngineActs
      <4>3. QED BY <1>a, <1>l, <1>s, <2>1, <2>2, <3>2, <4>1, <4>2, LinkStays
    <3>3. QED BY <3>1, <3>2
  <2>4. QED BY <1>a, <2>1, <2>3 DEF Links
<1>8. CASE ListensAgain
  <2>1. /\ UNCHANGED <<backlog, attended, toSensor, toEngine>>
        /\ engine'.at \in {"over", "absent"}
    BY <1>0, <1>8 DEF ListensAgain, EngineState
  <2>2. QED BY <1>b, <2>1
<1>9. CASE Redirects \/ HearsOrder \/ Stops
  <2>1. /\ UNCHANGED <<backlog, attended, toSensor, toEngine>>
        /\ engine'.at = engine.at
    BY <1>0, <1>9 DEF Redirects, HearsOrder, Stops, EngineState
  <2>2. QED BY <1>b, <2>1
<1>10. CASE Exits
  <2>1. /\ engine'.at = "ended" /\ attended' = None /\ backlog' = <<>> /\ toSensor' = toSensor
        /\ \A u \in Sensors : toEngine'[u] = <<>> /\ attended' # u
    BY <1>0, <1>10, SensorsAssumption DEF Exits, EngineState
  <2>2. Distinct' /\ \A u : ~InBacklog(u)'
    BY <2>1 DEF Distinct, InBacklog
  <2>3. ASSUME NEW u \in Sensors PROVE Link(u)'
    <3>1. ~EngineActs(u)' /\ ~Linked(u)'
      BY <2>1, <2>2 DEF EngineActs, Linked
    <3>2. Turns(u)'
      BY <1>l, <1>s, <2>1, <3>1 DEF Link, Turns
    <3>3. QED BY <1>l, <1>s, <2>1, <2>2, <3>1, <3>2 DEF Link, Connected
  <2>4. QED BY <2>2, <2>3 DEF Links
<1>11. QED
  BY <1>1, <1>2, <1>3, <1>4, <1>5, <1>6, <1>7, <1>8, <1>9, <1>10 DEF Attends

\* The next frame of the sensor asks for a wait, if there is one.
Fresh(s) ==
    Connected(s) => /\ sensor[s].counter >= 1
                    /\ sensor[s].at \in {"sleeping", "tested"} => sensor[s].counter >= 2

\* A frame that says at least n has been sent and not been answered.
SentAtLeast(a, n) ==
    \/ toEngine[a] # <<>> /\ Head(toEngine[a]) >= n
    \/ engine.at = "deciding" /\ engine.heard /\ engine.wait >= n

\* The engine is not going to drive before it has read of a wait.
Owed(a) ==
    \/ SentAtLeast(a, 1)
    \/ engine.at \notin {"deciding", "driving"} /\ toEngine[a] = <<>> /\ Fresh(a)

\* What the sensor attended has to say of its waits is sure to be told in time.
Owing ==
    /\ overrun \in {NoChoice, 0, 1}
    /\ attended = None => overrun = NoChoice /\ told = 0
    /\ attended # None =>
        /\ SentAtLeast(attended, 2) => Fresh(attended)
        /\ overrun = 0 => SentAtLeast(attended, 1) \/ Fresh(attended)
        /\ overrun = 1 \/ told > 0 => Owed(attended)

-----------------------------------------------------------------------------
(* A sensor's steps                                                        *)

\* Only what belongs to s changes, and neither the engine nor what it has.
LEMMA OthersKeepLinks ==
    ASSUME TypeOK, Links, NEW s \in Sensors, Acts(s)
    PROVE  /\ UNCHANGED <<engine, attended, told>>
           /\ \A u \in Sensors : u # s =>
                UNCHANGED <<sensor[u], menu[u], toSensor[u], toEngine[u]>>
<1>0. /\ sensor \in [Sensors -> SensorState] /\ menu \in [Sensors -> Choices \cup {0}]
      /\ toEngine \in [Sensors -> Seq(Nat)] /\ toSensor \in [Sensors -> Seq(BOOLEAN)]
  BY DEF TypeOK
<1>1. QED
  BY <1>0 DEF Acts, Communicates, StartsSensor, FindsNobody, HearsEngine, Replies, Wakes,
     CountsDown, FindsClosed, Quits, EndsSensor, Chooses, SetsCounter

LEMMA SensorLinks ==
    ASSUME TypeOK, Links, NEW s \in Sensors, Acts(s)
    PROVE  Links'
<1>0. /\ sensor \in [Sensors -> SensorState] /\ sensor[s] \in SensorState
      /\ menu \in [Sensors -> Choices \cup {0}]
      /\ toEngine \in [Sensors -> Seq(Nat)] /\ toSensor \in [Sensors -> Seq(BOOLEAN)]
  BY DEF TypeOK
<1>l. \A u \in Sensors : Link(u)
  BY DEF Links
<1>k. Turns(s)
  BY <1>l DEF Link
<1>e. /\ UNCHANGED <<engine, attended>>
      /\ \A u \in Sensors : u # s =>
            UNCHANGED <<sensor[u], menu[u], toSensor[u], toEngine[u]>>
  BY OthersKeepLinks
\* It is enough to look at the connection of s, the backlog apart.
<1>a. ASSUME backlog' = backlog, Link(s)'
      PROVE  Links'
  <2>1. Distinct' /\ \A u : InBacklog(u)' <=> InBacklog(u)
    BY <1>a DEF Distinct, InBacklog, Links
  <2>2. ASSUME NEW u \in Sensors, u # s PROVE Link(u)'
    <3>1. EngineActs(u)' => EngineActs(u)
      BY <1>e, <2>1 DEF EngineActs
    <3>2. QED BY <1>e, <1>l, <2>1, <2>2, <3>1, LinkStays
  <2>3. QED BY <1>a, <2>1, <2>2 DEF Links
<1>b. ASSUME backlog' = backlog
      PROVE  /\ InBacklog(s)' <=> InBacklog(s)
             /\ Linked(s)' <=> Linked(s)
             /\ EngineActs(s)' <=> EngineActs(s)
  BY <1>b, <1>e DEF InBacklog, Linked, EngineActs
<1>1. CASE StartsSensor(s)
  <2>1. /\ sensor[s].at = "off" /\ sensor'[s].at = "reading" /\ sensor'[s].moving = sensor[s].moving
        /\ backlog' = Append(backlog, s) /\ UNCHANGED <<menu, toSensor, toEngine>>
    BY <1>0, <1>1 DEF StartsSensor, SensorState
  <2>2. /\ ~InBacklog(s) /\ attended # s /\ toSensor[s] = <<>> /\ toEngine[s] = <<>>
        /\ menu[s] = 0 /\ ~sensor[s].moving
    BY <1>l, <2>1 DEF Link, Linked, Connected
  <2>3. /\ Distinct' /\ \A u : InBacklog(u)' <=> InBacklog(u) \/ u = s
    BY <2>1, <2>2, Enqueues DEF Links
  <2>4. Link(s)'
    BY <1>e, <2>1, <2>2, <2>3 DEF Link, Turns, Linked
  <2>5. ASSUME NEW u \in Sensors, u # s PROVE Link(u)'
    <3>1. InBacklog(u)' <=> InBacklog(u)
      BY <2>3, <2>5
    <3>2. EngineActs(u)' => EngineActs(u)
      BY <1>e, <3>1 DEF EngineActs
    <3>3. QED BY <1>e, <1>l, <2>5, <3>1, <3>2, LinkStays
  <2>6. QED BY <2>3, <2>4, <2>5 DEF Links
<1>2. CASE FindsNobody(s)
  <2>1. /\ sensor[s].at = "off" /\ sensor'[s].at = "idle" /\ sensor'[s].moving = sensor[s].moving
        /\ UNCHANGED <<backlog, menu, toSensor, toEngine>>
    BY <1>0, <1>2 DEF FindsNobody, SensorState
  <2>2. QED BY <1>a, <1>b, <1>e, <1>k, <1>l, <2>1 DEF Link, Turns, Connected
<1>3. CASE HearsEngine(s)
  <2>1. /\ sensor[s].at = "reading" /\ sensor'[s].at = "replying" /\ toSensor[s] # <<>>
        /\ UNCHANGED <<backlog, menu, toEngine>>
        /\ toSensor'[s] = Tail(toSensor[s])
    BY <1>0, <1>3 DEF HearsEngine, SensorState
  <2>2. Tail(toSensor[s]) = <<>> /\ toEngine[s] = <<>> /\ ~EngineActs(s)
    <3>1. Len(toSensor[s]) = 1 /\ toEngine[s] = <<>> /\ ~EngineActs(s)
      BY <1>k, <2>1 DEF Turns
    <3>2. Tail(toSensor[s]) = <<>>
      BY <1>0, <3>1, LastFrame
    <3>3. QED BY <3>1, <3>2
  <2>3. ~InBacklog(s)
    BY <2>2 DEF EngineActs
  <2>4. QED BY <1>a, <1>b, <1>l, <1>e, <2>1, <2>2, <2>3 DEF Link, Turns, Connected
<1>4. CASE Replies(s)
  <2>1. /\ sensor[s].at = "replying" /\ sensor'[s].at = "sleeping"
        /\ sensor'[s].moving = sensor[s].moving
        /\ UNCHANGED <<backlog, menu, toSensor>>
        /\ IF Linked(s) THEN toEngine'[s] = Append(toEngine[s], sensor[s].counter)
           ELSE toEngine'[s] = toEngine[s]
    BY <1>0, <1>4 DEF Replies, SensorState
  <2>2. ~EngineActs(s) /\ toSensor[s] = <<>> /\ toEngine[s] = <<>>
    BY <1>k, <2>1 DEF Turns
  <2>3. toEngine'[s] # <<>> => Len(toEngine'[s]) = 1 /\ Linked(s)
    <3>1. toEngine[s] \in Seq(Nat) /\ sensor[s].counter \in Nat /\ Len(<<>>) = 0
      BY <1>0 DEF SensorState
    <3>2. Len(Append(toEngine[s], sensor[s].counter)) = 1
      BY <2>2, <3>1
    <3>3. QED BY <2>1, <2>2, <3>2
  <2>4. QED BY <1>a, <1>b, <1>l, <1>e, <2>1, <2>2, <2>3 DEF Link, Turns, Connected
<1>5. CASE Wakes(s) \/ CountsDown(s)
  <2>1. /\ sensor[s].at \in {"sleeping", "tested"} /\ sensor'[s].at \in {"tested", "reading"}
        /\ sensor'[s].moving = sensor[s].moving
        /\ UNCHANGED <<backlog, menu, toSensor, toEngine>>
    BY <1>0, <1>5 DEF Wakes, CountsDown, SensorState
  <2>2. QED BY <1>a, <1>b, <1>e, <1>k, <1>l, <2>1 DEF Link, Turns, Connected
<1>6. CASE FindsClosed(s) \/ Quits(s)
  <2>1. /\ sensor[s].at \notin {"off", "ended"} /\ sensor'[s].at = "ended" /\ ~sensor'[s].moving
        /\ UNCHANGED <<backlog, toEngine>> /\ menu'[s] = 0 /\ toSensor'[s] = <<>>
    BY <1>0, <1>6 DEF FindsClosed, Quits, EndsSensor
  <2>2. QED BY <1>a, <1>b, <1>e, <1>k, <1>l, <2>1 DEF Link, Turns
<1>7. CASE Chooses(s)
  <2>1. /\ Connected(s) /\ sensor[s].moving
        /\ UNCHANGED <<backlog, sensor, toSensor, toEngine>>
    BY <1>7 DEF Chooses
  <2>2. QED BY <1>a, <1>b, <1>e, <1>k, <1>l, <2>1 DEF Link, Turns, Connected
<1>8. CASE SetsCounter(s)
  <2>1. /\ menu[s] # 0 /\ menu'[s] = 0 /\ sensor'[s].at = sensor[s].at
        /\ sensor'[s].moving = sensor[s].moving
        /\ UNCHANGED <<backlog, toSensor, toEngine>>
    BY <1>0, <1>8 DEF SetsCounter, SensorState
  <2>2. QED BY <1>a, <1>b, <1>e, <1>k, <1>l, <2>1 DEF Link, Turns, Connected
<1>9. QED
  BY <1>1, <1>2, <1>3, <1>4, <1>5, <1>6, <1>7, <1>8 DEF Acts, Communicates

-----------------------------------------------------------------------------
(* What is owed                                                            *)

LEMMA EngineOwes ==
    ASSUME TypeOK, Attending, Links, Owing,
           Attends \/ Redirects \/ HearsOrder \/ Stops \/ Exits
    PROVE  Owing'
<1>0. /\ engine \in EngineState /\ attended \in Sensors \cup {None}
      /\ toEngine \in [Sensors -> Seq(Nat)]
      /\ InAttend => attended \in Sensors
      /\ ~InAttend => attended = None
  BY DEF TypeOK, Attending
<1>1. sensor' = sensor
  BY DEF Attends, Accepts, Waits, GoesOn, Drives, Answers, HearsFrame, LeavesSensor,
     ListensAgain, Redirects, HearsOrder, Stops, Exits
<1>2. \A u \in Sensors : Turns(u)
  BY DEF Links, Link
\* While attend() works on a frame, none is under way.
<1>3. engine.at \in {"deciding", "driving", "answering"} => toEngine[attended] = <<>>
  BY <1>0, <1>2 DEF InAttend, Turns, EngineActs
<1>4. CASE Accepts
  <2>1. /\ attended = None /\ attended' \in Sensors
        /\ UNCHANGED <<toEngine, told, overrun>> /\ overrun = NoChoice /\ told = 0
        /\ engine'.at = "deciding" /\ ~engine'.heard
    <3>1. engine.at = "absent" /\ engine'.at = "deciding" /\ ~engine'.heard
          /\ UNCHANGED <<toEngine, told, overrun>>
      BY <1>0, <1>4 DEF Accepts, EngineState
    <3>2. attended = None
      BY <1>0, <3>1 DEF InAttend
    <3>3. attended' \in Sensors
      BY <1>4, Dequeues DEF Accepts, Links
    <3>4. QED BY <3>1, <3>2, <3>3 DEF Owing
  <2>2. toEngine[attended'] = <<>>
    <3>1. PICK h \in Sensors : h = attended'
      BY <2>1
    <3>2. InBacklog(h)
      BY <1>4, <3>1, Dequeues DEF Accepts, Links
    <3>3. toEngine[h] = <<>>
      BY <1>2, <3>2 DEF Turns, EngineActs
    <3>4. QED BY <3>1, <3>3
  <2>3. QED BY <2>1, <2>2, SensorsAssumption DEF Owing, SentAtLeast, NoChoice
<1>5. CASE Waits
  <2>1. /\ UNCHANGED <<attended, toEngine>> /\ attended \in Sensors
        /\ engine.at = "deciding" /\ engine.wait > 0 /\ engine'.at = "answering"
        /\ told' = IF engine.heard THEN engine.wait - 1 ELSE told
        /\ overrun' = IF engine.heard THEN NoChoice ELSE overrun
        /\ toEngine[attended] = <<>>
    BY <1>0, <1>3, <1>5 DEF Waits, EngineState, InAttend
  <2>2. CASE engine.heard
    <3>1. told' > 0 => SentAtLeast(attended, 2)
      BY <1>0, <2>1, <2>2 DEF SentAtLeast, EngineState
    <3>2. told' > 0 => Fresh(attended)
      BY <1>0, <2>1, <3>1, SensorsAssumption DEF Owing
    <3>3. told' > 0 => Owed(attended)'
      BY <1>1, <2>1, <3>2 DEF Owed, Fresh, Connected
    <3>4. ~SentAtLeast(attended, 2)'
      BY <2>1 DEF SentAtLeast
    <3>5. QED BY <2>1, <2>2, <3>3, <3>4, SensorsAssumption DEF Owing, NoChoice
  <2>3. CASE ~engine.heard
    <3>1. ~SentAtLeast(attended, 1) /\ ~Owed(attended)
      BY <2>1, <2>3 DEF SentAtLeast, Owed
    <3>2. told' = 0 /\ overrun' # 1 /\ (overrun' = 0 => Fresh(attended))
      BY <2>1, <2>3, <3>1, SensorsAssumption DEF Owing, TypeOK
    <3>3. ~SentAtLeast(attended, 2)' /\ (Fresh(attended)' <=> Fresh(attended))
      BY <1>1, <2>1 DEF SentAtLeast, Fresh, Connected
    <3>4. overrun' = overrun
      BY <2>1, <2>3
    <3>5. QED BY <2>1, <3>2, <3>3, <3>4, SensorsAssumption DEF Owing
  <2>4. QED BY <2>2, <2>3
<1>6. CASE GoesOn
  <2>1. /\ UNCHANGED <<attended, toEngine, told, overrun>> /\ attended \in Sensors
        /\ engine.at = "deciding" /\ engine.wait <= 0 /\ engine'.at \in {"driving", "answering"}
        /\ toEngine[attended] = <<>>
    BY <1>0, <1>3, <1>6 DEF GoesOn, EngineState, InAttend
  <2>2. ~SentAtLeast(attended, 1) /\ ~Owed(attended)
    BY <1>0, <2>1 DEF SentAtLeast, Owed, EngineState
  <2>3. told = 0 /\ overrun # 1 /\ (overrun = 0 => Fresh(attended))
    BY <2>1, <2>2, SensorsAssumption DEF Owing, TypeOK
  <2>4. ~SentAtLeast(attended, 2)' /\ (Fresh(attended)' <=> Fresh(attended))
    BY <1>1, <2>1 DEF SentAtLeast, Fresh, Connected
  <2>5. QED BY <2>1, <2>3, <2>4, SensorsAssumption DEF Owing
<1>7. CASE Drives
  <2>1. /\ UNCHANGED <<attended, toEngine, told>> /\ attended \in Sensors
        /\ engine.at = "driving" /\ engine'.at = "answering"
        /\ overrun' = IF overrun = NoChoice THEN NoChoice ELSE overrun + 1
        /\ toEngine[attended] = <<>>
    BY <1>0, <1>3, <1>7 DEF Drives, EngineState, InAttend
  <2>2. ~SentAtLeast(attended, 1) /\ ~Owed(attended)
    BY <2>1 DEF SentAtLeast, Owed
  <2>3. told = 0 /\ overrun # 1 /\ (overrun = 0 => Fresh(attended))
    BY <2>1, <2>2, SensorsAssumption DEF Owing, TypeOK
  <2>4. overrun \in {NoChoice, 0} /\ overrun' \in {NoChoice, 1} /\ (overrun' = 1 => overrun = 0)
    BY <2>1, <2>3 DEF Owing, NoChoice
  <2>5. Fresh(attended) => Owed(attended)'
    BY <1>1, <2>1 DEF Owed, Fresh, Connected
  <2>6. ~SentAtLeast(attended, 2)'
    BY <2>1 DEF SentAtLeast
  <2>7. QED BY <2>1, <2>3, <2>4, <2>5, <2>6, SensorsAssumption DEF Owing, NoChoice
<1>8. CASE Answers
  <2>1. /\ UNCHANGED <<attended, toEngine, told, overrun>> /\ attended \in Sensors
        /\ engine.at = "answering" /\ engine'.at = "reading" /\ toEngine[attended] = <<>>
    BY <1>0, <1>3, <1>8 DEF Answers, EngineState, InAttend
  <2>2. /\ ~SentAtLeast(attended, 2)' /\ ~SentAtLeast(attended, 1)
        /\ Fresh(attended)' <=> Fresh(attended)
        /\ Owed(attended) => Fresh(attended)
    BY <1>1, <2>1 DEF SentAtLeast, Fresh, Connected, Owed
  <2>3. Fresh(attended) => Owed(attended)'
    BY <2>1, <2>2 DEF Owed
  <2>4. QED BY <2>1, <2>2, <2>3, SensorsAssumption DEF Owing
<1>9. CASE HearsFrame
  <2> DEFINE w == Head(toEngine[attended])
  <2>1. /\ UNCHANGED <<attended, told, overrun>> /\ attended \in Sensors
        /\ engine.at = "reading" /\ toEngine[attended] # <<>>
        /\ engine' = [engine EXCEPT !.at = "deciding", !.wait = w, !.heard = TRUE]
        /\ toEngine' = [toEngine EXCEPT ![attended] = Tail(@)]
    BY <1>0, <1>9 DEF HearsFrame, InAttend
  <2>2. Len(toEngine[attended]) = 1 /\ toEngine[attended] \in Seq(Nat)
    BY <1>0, <1>2, <2>1 DEF Turns
  <2>3. toEngine'[attended] = <<>> /\ w \in Nat
    <3>1. Tail(toEngine[attended]) = <<>> /\ w \in Nat
      BY <2>1, <2>2, LastFrame, Frames
    <3>2. QED BY <1>0, <2>1, <3>1
  <2> HIDE DEF w
  <2>4. engine'.at = "deciding" /\ engine'.heard /\ engine'.wait = w
    BY <1>0, <2>1 DEF EngineState
  <2>5. /\ SentAtLeast(attended, 1)' <=> SentAtLeast(attended, 1)
        /\ SentAtLeast(attended, 2)' <=> SentAtLeast(attended, 2)
    BY <2>1, <2>3, <2>4 DEF SentAtLeast, w
  <2>6. /\ Fresh(attended)' <=> Fresh(attended)
        /\ Owed(attended) => SentAtLeast(attended, 1)
    BY <1>1, <2>1 DEF Fresh, Connected, Owed
  <2>7. Owed(attended) => Owed(attended)'
    BY <2>5, <2>6 DEF Owed
  <2>8. QED BY <2>1, <2>5, <2>6, <2>7, SensorsAssumption DEF Owing
<1>10. CASE LeavesSensor \/ Exits
  BY <1>10 DEF LeavesSensor, Exits, Owing, NoChoice
<1>11. CASE ListensAgain \/ Redirects \/ HearsOrder \/ Stops
  <2>1. UNCHANGED <<attended, toEngine, told, overrun>>
    BY <1>11 DEF ListensAgain, Redirects, HearsOrder, Stops
  <2>2. attended # None => engine'.at = engine.at /\ engine'.heard = engine.heard
                           /\ engine'.wait = engine.wait
    BY <1>0, <1>11 DEF ListensAgain, Redirects, HearsOrder, Stops, EngineState, InAttend
  <2>3. attended # None =>
            /\ SentAtLeast(attended, 1)' <=> SentAtLeast(attended, 1)
            /\ SentAtLeast(attended, 2)' <=> SentAtLeast(attended, 2)
            /\ Fresh(attended)' <=> Fresh(attended)
            /\ Owed(attended)' <=> Owed(attended)
    BY <1>1, <2>1, <2>2 DEF SentAtLeast, Fresh, Connected, Owed
  <2>4. QED BY <2>1, <2>3 DEF Owing
<1>12. QED
  BY <1>4, <1>5, <1>6, <1>7, <1>8, <1>9, <1>10, <1>11 DEF Attends

LEMMA SensorOwes ==
    ASSUME TypeOK, Tested, Attending, Links, Owing, NEW s \in Sensors, Acts(s)
    PROVE  Owing'
<1>0. /\ sensor \in [Sensors -> SensorState] /\ sensor[s] \in SensorState
      /\ menu \in [Sensors -> Choices \cup {0}]
      /\ toEngine \in [Sensors -> Seq(Nat)] /\ attended \in Sensors \cup {None}
  BY DEF TypeOK
<1>e. /\ UNCHANGED <<engine, attended, told>>
      /\ \A u \in Sensors : u # s =>
            UNCHANGED <<sensor[u], menu[u], toSensor[u], toEngine[u]>>
  BY OthersKeepLinks
<1>l. Link(s) /\ Turns(s)
  BY DEF Links, Link
<1>1. CASE attended # s
  <2>1. overrun' = overrun
    BY <1>1 DEF Acts, Communicates, StartsSensor, FindsNobody, HearsEngine, Replies, Wakes,
       CountsDown, FindsClosed, Quits, EndsSensor, Chooses, SetsCounter
  <2>2. attended # None =>
            /\ SentAtLeast(attended, 1)' <=> SentAtLeast(attended, 1)
            /\ SentAtLeast(attended, 2)' <=> SentAtLeast(attended, 2)
            /\ Fresh(attended)' <=> Fresh(attended)
            /\ Owed(attended)' <=> Owed(attended)
    <3> SUFFICES ASSUME attended # None
                 PROVE  /\ SentAtLeast(attended, 1)' <=> SentAtLeast(attended, 1)
                        /\ SentAtLeast(attended, 2)' <=> SentAtLeast(attended, 2)
                        /\ Fresh(attended)' <=> Fresh(attended)
                        /\ Owed(attended)' <=> Owed(attended)
      OBVIOUS
    <3>1. attended' = attended /\ engine' = engine /\ sensor'[attended] = sensor[attended]
          /\ toEngine'[attended] = toEngine[attended]
      BY <1>0, <1>1, <1>e
    <3>2. /\ SentAtLeast(attended, 1)' <=> SentAtLeast(attended, 1)
          /\ SentAtLeast(attended, 2)' <=> SentAtLeast(attended, 2)
          /\ Fresh(attended)' <=> Fresh(attended)
      BY <3>1 DEF SentAtLeast, Fresh, Connected
    <3>3. QED BY <3>1, <3>2 DEF Owed
  <2>3. QED BY <1>e, <2>1, <2>2 DEF Owing
<1>2. CASE attended = s
  <2>0. s # None /\ sensor[s].at \notin {"off", "idle"} /\ Linked(s)
    BY <1>2, <1>l, SensorsAssumption DEF Link, Linked
  <2>o. /\ overrun \in {NoChoice, 0, 1} /\ (SentAtLeast(s, 2) => Fresh(s))
        /\ overrun = 0 => SentAtLeast(s, 1) \/ Fresh(s)
        /\ overrun = 1 \/ told > 0 => Owed(s)
    BY <1>2, <2>0 DEF Owing
  \* No frame comes or goes, and what the next one says remains.
  <2>a. ASSUME toEngine'[s] = toEngine[s], Fresh(s) => Fresh(s)',
               overrun' \in {overrun, NoChoice} \/ (overrun' = 0 /\ Fresh(s)')
        PROVE  Owing'
    <3>1. /\ SentAtLeast(s, 1)' <=> SentAtLeast(s, 1)
          /\ SentAtLeast(s, 2)' <=> SentAtLeast(s, 2)
          /\ Owed(s) => Owed(s)'
      BY <1>e, <2>a DEF SentAtLeast, Owed
    <3>2. QED BY <1>2, <1>e, <2>0, <2>a, <2>o, <3>1 DEF Owing, NoChoice
  <2>1. CASE StartsSensor(s) \/ FindsNobody(s)
    BY <2>0, <2>1 DEF StartsSensor, FindsNobody
  <2>2. CASE HearsEngine(s)
    <3>1. toEngine'[s] = toEngine[s] /\ overrun' = overrun /\ Connected(s)
          /\ sensor'[s].at = "replying" /\ sensor'[s].counter = sensor[s].counter
      BY <1>0, <2>2 DEF HearsEngine, SensorState, Connected
    <3>2. Fresh(s) => Fresh(s)'
      BY <3>1 DEF Fresh, Connected
    <3>3. QED BY <2>a, <3>1, <3>2
  <2>3. CASE Replies(s)
    <3> DEFINE n == sensor[s].counter
    <3>1. /\ sensor[s].at = "replying" /\ sensor'[s].at = "sleeping" /\ sensor'[s].counter = n
          /\ toEngine'[s] = Append(toEngine[s], n) /\ overrun' = overrun
          /\ n \in Nat /\ Connected(s)
      BY <1>0, <2>0, <2>3 DEF Replies, SensorState, Connected
    <3>2. ~EngineActs(s) /\ toEngine[s] = <<>>
      BY <1>l, <3>1 DEF Turns
    <3>3. engine.at # "deciding" /\ ~SentAtLeast(s, 1)
      BY <1>2, <3>2 DEF EngineActs, SentAtLeast
    <3> HIDE DEF n
    <3>4. toEngine'[s] # <<>> /\ Head(toEngine'[s]) = n
      BY <3>1, <3>2
    <3>5. Fresh(s) => n >= 1
      BY <3>1 DEF Fresh, n
    <3>6. n >= 1 => SentAtLeast(s, 1)' /\ Owed(s)'
      BY <3>4 DEF SentAtLeast, Owed
    <3>7. SentAtLeast(s, 2)' => Fresh(s)'
      BY <1>e, <3>1, <3>3, <3>4 DEF SentAtLeast, Fresh, Connected
    <3>8. Owed(s) => Fresh(s)
      BY <3>3 DEF Owed
    <3>9. QED BY <1>2, <1>e, <2>0, <2>o, <3>1, <3>3, <3>5, <3>6, <3>7, <3>8 DEF Owing
  <2>4. CASE Wakes(s)
    <3> DEFINE p == IF sensor[s].counter # 0 THEN "tested" ELSE "reading"
    <3>0. sensor' = [sensor EXCEPT ![s].at = p] /\ p \in {"tested", "reading"}
      BY <2>4 DEF Wakes
    <3> HIDE DEF p
    <3>1. toEngine'[s] = toEngine[s] /\ overrun' = overrun /\ sensor[s].at = "sleeping"
          /\ sensor'[s].at \in {"tested", "reading"}
          /\ sensor'[s].counter = sensor[s].counter
      BY <1>0, <2>4, <3>0 DEF Wakes, SensorState
    <3>2. Fresh(s) => Fresh(s)'
      BY <1>0, <3>1 DEF Fresh, Connected, SensorState
    <3>3. QED BY <2>a, <3>1, <3>2
  <2>5. CASE CountsDown(s)
    <3>1. toEngine'[s] = toEngine[s] /\ overrun' = overrun /\ sensor[s].at = "tested"
          /\ sensor'[s].at = "reading" /\ sensor'[s].counter = sensor[s].counter - 1
      BY <1>0, <2>5 DEF CountsDown, SensorState
    <3>2. Fresh(s) => Fresh(s)'
      BY <1>0, <3>1 DEF Fresh, Connected, SensorState
    <3>3. QED BY <2>a, <3>1, <3>2
  <2>6. CASE FindsClosed(s) \/ Quits(s)
    <3>1. toEngine'[s] = toEngine[s] /\ sensor'[s].at = "ended" /\ overrun' = NoChoice
      BY <1>0, <1>2, <2>6 DEF FindsClosed, Quits, EndsSensor
    <3>2. Fresh(s) => Fresh(s)'
      BY <3>1 DEF Fresh, Connected
    <3>3. QED BY <2>a, <3>1, <3>2
  <2>7. CASE Chooses(s)
    <3>1. toEngine'[s] = toEngine[s] /\ sensor'[s] = sensor[s] /\ overrun' = overrun
      BY <2>7 DEF Chooses
    <3>2. Fresh(s) => Fresh(s)'
      BY <3>1 DEF Fresh, Connected
    <3>3. QED BY <2>a, <3>1, <3>2
  <2>8. CASE SetsCounter(s)
    <3>1. menu[s] \in Nat \ {0, 1}
      BY <1>0, <2>8, ChoicesAssumption DEF SetsCounter
    <3>2. toEngine'[s] = toEngine[s] /\ sensor'[s].counter = menu[s]
          /\ (overrun' = overrun \/ overrun' = 0)
      BY <1>0, <2>8 DEF SetsCounter, SensorState
    <3>3. Fresh(s)'
      BY <3>1, <3>2 DEF Fresh
    <3>4. QED BY <2>a, <3>2, <3>3
  <2>9. QED
    BY <2>1, <2>2, <2>3, <2>4, <2>5, <2>6, <2>7, <2>8 DEF Acts, Communicates
<1>3. QED BY <1>1, <1>2

LEMMA LinkInvariant == Spec => [](TypeOK /\ Links /\ Owing)
<1>1. Init => Links /\ Owing
  <2> SUFFICES ASSUME Init PROVE Links /\ Owing
    OBVIOUS
  <2>1. Distinct /\ attended = None /\ \A u : ~InBacklog(u)
    BY DEF Init, Distinct, InBacklog
  <2>2. ASSUME NEW u \in Sensors PROVE Link(u)
    <3>1. attended # u /\ ~Linked(u) /\ ~EngineActs(u)
      BY <2>1, SensorsAssumption DEF Linked, EngineActs
    <3>2. sensor[u].at = "off" /\ ~sensor[u].moving /\ menu[u] = 0
          /\ toSensor[u] = <<>> /\ toEngine[u] = <<>>
      BY DEF Init
    <3>3. QED BY <3>1, <3>2 DEF Link, Turns
  <2>3. Owing
    BY <2>1 DEF Init, Owing
  <2>4. QED BY <2>1, <2>2, <2>3 DEF Links
<1>2. /\ TypeOK /\ Tested /\ Attending /\ Links /\ Owing
      /\ [Next]_vars
      => (Links /\ Owing)'
  <2> SUFFICES ASSUME TypeOK, Tested, Attending, Links, Owing, [Next]_vars
               PROVE  Links' /\ Owing'
    OBVIOUS
  <2>1. CASE Attends \/ Redirects \/ HearsOrder \/ Stops \/ Exits
    BY <2>1, EngineLinks, EngineOwes
  <2>2. ASSUME NEW s \in Sensors, Acts(s) PROVE Links' /\ Owing'
    BY <2>2, SensorLinks, SensorOwes
  <2>3. CASE UNCHANGED vars
    <3>1. \A u : (InBacklog(u)' <=> InBacklog(u)) /\ (EngineActs(u)' <=> EngineActs(u))
      BY <2>3 DEF vars, InBacklog, EngineActs
    <3>2. Links'
      BY <2>3, <3>1 DEF vars, Links, Distinct, Link, Turns, Linked, Connected
    <3>3. Owing'
      BY <2>3 DEF vars, Owing, Owed, SentAtLeast, Fresh, Connected
    <3>4. QED BY <3>2, <3>3
  <2>4. QED BY <2>1, <2>2, <2>3 DEF Next, Acts
<1>3. QED BY <1>1, <1>2, TypeInvariant, PTL DEF Spec

\* Engine and sensor take turns, whatever is given up, restarted or waits in the backlog: at most
\* one frame is under way between them.
THEOREM EndsTakeTurns == Spec => []TakeTurns
BY LinkInvariant, TurnsCount, PTL

\* A taxi makes one more step at most for a wait chosen at the sensor attended, whatever other
\* sensors say and whenever the choice is stored.
THEOREM TaxiStopsInTime == Spec => []StopsInTime
<1>1. Owing => StopsInTime
  BY DEF Owing, StopsInTime, NoChoice
<1>2. QED BY <1>1, LinkInvariant, PTL

\* The taxi drives on only when the central has heard of the end of the wait it was told of: with
\* two or more seconds told, the sensor is sure to send another frame of at least one.
THEOREM WaitIsTold == Spec => []WaitIsToldToTheEnd
<1>1. TypeOK /\ Attending /\ Links /\ Owing => WaitIsToldToTheEnd
  <2> SUFFICES ASSUME TypeOK, Attending, Links, Owing, engine.at = "driving" PROVE told = 0
    BY DEF WaitIsToldToTheEnd
  <2>1. attended \in Sensors /\ attended # None /\ toEngine[attended] = <<>>
    BY SensorsAssumption DEF TypeOK, Attending, InAttend, Links, Link, Turns, EngineActs
  <2>2. ~Owed(attended)
    BY <2>1 DEF Owed, SentAtLeast
  <2>3. QED BY <2>1, <2>2 DEF Owing, TypeOK
<1>2. QED BY <1>1, LinkInvariant, TypeInvariant, PTL
=============================================================================

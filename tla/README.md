# EasyCab in TLA+

EasyCab is a taxi dispatcher: a central process answers the requests of taxis
(digital engines with a sensor each) and customers over Kafka, keeps its state in
MySQL and publishes a map for a front end. This directory models it, checks the
models with TLC on small instances and proves the core's invariants with TLAPS for
every instance. Source paths below are relative to the repository, whose code lies
in `src/`.

## 1. The system

| part | code | state | operations | talks to |
|---|---|---|---|---|
| central's message loop | `EC_Central/KafkaServer.cpp` | MySQL tables, one `response` object used for every answer | one handler per subject of a request; `assign`, `setOnboard`, `refreshMap` | reads topic `requests`, writes `responses`, `map`, `logs` |
| checkStrays | same file, a process of its own | none | every second, orders the disconnection of what has not pinged for 3 s | reads MySQL, writes `requests` |
| authentication server | `EC_Central/AuthServer.cpp` | one database connection, one producer, a mutex each; a thread per petition | ENQ/ACK, `checkId`, `addTaxi` | TCP to engines, MySQL, `requests` |
| central's main | `EC_Central/EC_Central.cpp` | session id, two pids | open or resume a session, load locations, fork, wait, forward signals | MySQL |
| digital engine | `EC_DE/EC_DE.cpp` | `pos`, `dest`, `orderedToStop`, `stop` under a mutex | `authenticate`; threads `listenKafka`, `listenSensor`/`attend`, `ping`, `handleGUI`; `step` on a 20 x 20 torus | TCP to central and sensor, both topics |
| sensor | `EC_SE/EC_SE.cpp` | a countdown, whether the taxi moves, under a mutex | the menu; one frame a second: the seconds left to wait | TCP to its engine |
| customer | `EC_Customer/EC_Customer.cpp` | list of services, session | `handshake`, `askService`, a countdown between services, `ping` | both topics |
| central's GUI | `EC_Central_GUI/EC_Central_GUI.cpp`, `Common/Ncurses/Window` | three menus, two arguments, two lists of logs, `frozen` | one log, one key and one print per turn of the loop | reads `logs`; sends nothing |
| services | `EC_CTC`, `EC_Registry` | | weather; a key/value service | REST |
| plumbing | `Common/` | | frames over sockets, serialisation, logs, windows, MySQL client | |

What makes it hard: four kinds of processes and their threads write to two topics in
any order; two tables say who rides in which taxi; the central reuses one answer
object; the engine's two threads share four variables and lock each read and write
but nothing longer; programs leave and come back while messages to and from them
are still in the topics. What has to hold, per part:

* **central**: what customers are told is what the database says of them; a taxi
  carries one customer at a time; an assigned taxi is really on its way; the map
  catches up; no message ends the process.
* **engine**: it follows the last order, reports where it is, arrives, and stays on
  the map; STOP and CONTINUE end in the state ordered last.
* **customer**: each request comes to an end, and is true when it does.
* **sensor and engine**: an inconvenience that is reported stops the taxi in time, and every wait ends,
  announced to the central to its end.
* **authentication**: who is let in was stored and announced first, once each; who is
  refused has left nothing behind; a taxi is new once; every attempt and every thread ends.
* **presence**: a client that pings is not taken for a stray, one that is gone is disconnected in
  a few seconds.
* **processes**: the central ends as a whole, leaves no server of its own behind, signals nobody
  else, and a restart skips no request.
* **GUI**: what is typed is for the action it is shown under; the windows show the newest logs.
* **all together**: the central's idea of a taxi and the taxi's own agree once the
  messages between them have been read.

## 2. The modules

```
Protocol        names, messages, topics
  CentralDb     the schema, one operator per SQL statement
    KafkaServer     the message loop, open environment        --implements--> Carriage
      MCKafkaServer, KafkaServerProofs
  DigitalEngine   the two threads that drive a taxi  (INSTANCE Torus)
  Customer        the customer program
    EasyCab         KafkaServer + DigitalEngine + Customer + operator + strays
                                                        --implements--> KafkaServer
      MCEasyCab, EasyCabProofs
Torus           step, calculateDistance, mirror
  Trip            a taxi left to drive
    MCTrip, TripProofs
Carriage        abstract specification of rides
AuthServer      an engine's authenticate() and its petition --implements--> Registry
  MCAuthServer, AuthServerProofs
Registry        abstract specification of registration
SensorLink      a sensor and the engine's sensor thread
  MCSensorLink, SensorLinkProofs
Presence        pings, last_update and checkStrays
  MCPresence, PresenceProofs
CentralProcess  main, its servers, signals, and reading on after a restart
  MCCentralProcess, CentralProcessProofs
CentralGUI      the loop of the GUI
  MCCentralGUI, CentralGUIProofs
```

**Protocol.** `prot::Message` is one class whose meaningful members depend on the
subject. A message is a record with the members its reader looks at. Topic
`requests` is a sequence (one partition: messages stay in order); `responses` is, for
each taxi and customer, the sequence of what it has still to read, since readers
skip what does not name them. Seconds of a countdown are cut to 0 and 1 (`Countdown`):
the code only tells zero from more.

**CentralDb.** A database is a record of three functions from ids to rows (`None` for
no row, SQL's NULL, or an empty `optional`). Foreign keys are kept, because the code
depends on them: `taxis.service` holds a customer's id and *references locations*, so
`assign` fails for a customer whose letter (case ignored) is no location
(`LetterOf`); a customer some taxi carries cannot be deleted; `query()` reports a
failed first statement only (`SetOnboard`). `checkAvailableTaxis` compares `wait_time`, a
number of seconds, with a date read as a number, which is always true: every connected
taxi is available. Column `last_update`, which only `checkStrays` reads, is in Presence.

**KafkaServer.** One action per subject, the whole handler each: guard, queries,
answers in order, then `refreshMap` (in `Done`). A handler is one step because nobody
else writes the columns it reads, but for `taxis.connected`, which it reads once.
A handler that throws (`value()` of an empty optional or of a failed query, `stoi("")`)
ends the process: `Abort`; what it had produced may or may not have left. `row[0]` of an
empty row is undefined; the outcome modelled is the same abort. Without a database
connection (`LoseDb`) every query fails and nothing opens it again. It may also break between two
queries of one handler, which then goes on with some of its statements stored (`HandleBroken`, one
action per handler of several queries; `Done` where only `refreshMap` is left): a customer may hear
COMPLETED or PICKED_UP of what was not recorded, and `assign`, which uses the result of a query
that failed, ends the process. A query at the break has run or has not; `query()`'s statements are
sent together. The session may be resumed (`RESET_DB` false): the database is then any
of `Resumed` that keeps the foreign keys, with rides under way, queues and services of before, and
any customers may know the session. What topic `requests` still holds then is, for KafkaServer,
what its clients send. `Register` and
`Announce` are `addTaxi`'s two effects; a registration in `announcing` is still to be produced, or
queued by the producer and not yet in the topic. Clients are free: any message they can build, in
any order (`Submit`), under `CanSend`: who checks in first knows the session; messages of
another session come at any time and are skipped.

**Carriage.** What the central promises about rides, over `aboard` and `notices` only.
KafkaServer implements it under `aboard <- CarriedBy(db, _)` and the customers' part
of `responses`, and `recording <- dbUp`: with the connection goes the means to record a ride, and
the handler in which it breaks may say one thing that is not so (`Misreport`); none after it speaks
of rides. Operator orders empty a taxi without a word (`SendTaxi`), which the
abstract specification has to allow as the code does it.

**DigitalEngine.** `kafka` and `sensor` are the program counters of the two threads.
`TAXI_GO_TO` is read and compared with `pos` in one step, `dest` stored (or `pos` read
again, and the answer sent) in later ones; a frame is accepted, the step driven, and
the report built from `pos` and `dest` read anew. `main` exits while the detached
sensor thread may be anywhere. The 20 of the map is `2 * Half`.

**Customer.** Its program counter (`stage`), the service it is at, the countdown.

**EasyCab.** The composition, plus the operator (the front end is not in the
repository: it sends orders about rows it sees) and `checkStrays`, restricted to taxis
and customers whose program has ended. The central is the one of KafkaServer with its open
environment replaced by these programs, and `CentralServes` says that they never do what that
environment may not: EasyCab is a refinement of KafkaServer. Of an inbox that nobody reads any
longer messages go one at a time (`Unheard`), as KafkaServer's subscribers read theirs. An engine may
start before its own registration is in the topic (`TaxiStarts`), since it is answered as soon as
that is queued; two registrations of one taxi that wait at the same time and say the same count as
one. The central's connection does not break here and its session is fresh.
`MapAssumption` ties the points of the database to the cells of the torus.

**AuthServer.** `EC_DE`'s `authenticate()` and a thread of `attendPetition()`, frame by frame
(control characters, `ID` and `GRANT`/`DENY` for data frames), joined by two queues per
connection. A frame arrives whole and in order; a read times out whenever there is nothing to
read, so nothing bounds how late either end is, and a reply to the first ENQ may be taken for
the reply to the second. `late` is what `errno` may still hold: `read()` returns 0 at the end of a
connection and leaves `errno` alone, so an end is taken for a time-out if one came before
(`WaitsInVain`), for an error if not (`FindsClosed`). A process of `EC_DE` may be killed at any
moment. What is sent to an end that is gone is lost; nobody ignores SIGPIPE, so the *second*
such answer ends the AuthServer (`up` in `Reply`, which leaves open which one it is). The
database connection is closed, open, or lost: once lost, `isConnected()` still says yes and every
query fails. `produce()` only queues (`queued`): the producer's own thread brings registrations to
the topic in their order (`Delivers`), which may be after the engine was answered and has begun to
send, and what is queued when the server ends is lost (`Ends`). The table may hold rows when the
server starts (a resumed session), and the rest of the central disconnects taxis at any time. In KafkaServer and EasyCab the same code is the two
steps `Register` and `Announce`, with one petition per id at a time; what two of them do to each
other is the subject of this module.

**Registry.** What registering promises: `Store`, `Announce`, `LetIn`, in this order and once per
engine; who finds no row announces a new taxi; announcements arrive in their order (`Deliver`), or
are lost together (`Lose`). It does not promise that an id belongs to one
engine: `addTaxi`'s UPDATE does not look at `connected` again, so two engines that found the
row disconnected are both let in. Nor does it promise that an announcement arrives before its
engine is let in, or at all: that is `AnnouncementArrives`, unless the server ends first.

**SensorLink.** `communicateWithDE()` and the menu of `EC_SE`, `listenSensor()` and `attend()` of
`EC_DE`: the same loop as in DigitalEngine, seen from the connections. `engine` is the sensor thread
with the last wait time it read, `attended` the sensor it has, `backlog` those that have connected
and are not yet accepted; `sensor` has each process with its counter, and there is a queue in each
direction for each. Any number of sensors may live at a time. One in the backlog reads in vain until
it is accepted, and its menu stays shut: `moving` is false until the engine's first frame. One that
the engine has given up goes on with its menu usable until it finds its connection closed, at its
next read; what was chosen there and never told is lost with the connection, so `told` and `overrun`
are about the sensor attended. They are history variables: what the central was last told of the
wait, and the steps driven since a choice was stored. `engine.wait` starts as anything in `Garbage`:
a socket that has read nothing returns the buffer of a dead object, and `attend()` looks at it before
its first read. The map and the orders are two flags, `going` and `ordered`, that other threads
change at any moment. A read is silent for two seconds whenever the queue is empty, so nothing bounds
how late the sensor is. A choice of the menu is two steps (`Chooses`, `SetsCounter`), as `moving` is
read under one lock and `counter` stored under another; so is a second of the countdown (`Wakes`
tests, `CountsDown` decrements). A sensor that finds no engine stays idle for ever (`FindsNobody`),
since `communicateWithDE()` returns and nobody calls it again.

**Presence.** The clock is the database's `NOW()`. `last` is `last_update`, which the handler of a
ping sets and *ON UPDATE CURRENT_TIMESTAMP* sets with every other change of the row (`ChangeRow`,
`PickUp`, `LetGo`). A row counts as present if it is a taxi's with `connected`, or any customer's.
`Query` is the SELECT of `checkStrays`, `Order` one of the orders it then sends. The two processes
and the clients have nothing in common but the topic, so what holds depends on delays: `Pause`
between pings, `Lag` in the topic, `CheckPause` between queries, `Delay` to send the orders. The
code bounds none of them (it sleeps a second where `Pause` and `CheckPause` are 1), so they are
constants, `Tick` keeps them, and `TimingAssumption` states the one relation that matters:
`Pause + Lag <= 3`. A central that is down, or busy, for longer breaks it: after a restart that took more than
three seconds `checkStrays` may disconnect everybody before the pings that waited are handled.

**CentralProcess.** `main` of the last start and the servers of all starts. `at` says where `main` is
in `cleanUp` or in the handler of a signal, which never returns: it calls `cleanUp`, which exits, so
a signal stays masked once it is handled, and the other one may interrupt anything, also the second
call of `cleanUp`. `kill(-1)` and `waitpid(-1)` are modelled as what they do. `Abandons` is `main`
going without a word: killed, or before the handlers are installed, or a `fork` that fails
(`createProcess` exits and leaves the first server alone). `checkStrays` is a child of the KafkaServer:
nobody waits for it or signals it but the terminal, and it outlives a central that is ended by
SIGTERM. The topic is its offsets: the group's name is fixed, so a KafkaServer starts after the last
commit, commits come in the background (`Commits`), whatever has been handled, and a server that
dies loses the request it was handling (`lost`). Pids that are used again, a server that cannot bind
its port because the last one is still there, and `init` inheriting orphans are left out.

**CentralGUI.** `turn` is where the loop is: `listenKafka`, the key, the print. The options of an action
are settled by the print (`options`), after the key that selects it, and the cursor (`option`) and
both arguments outlive the action, so the three are variables of their own. Texts are sequences of
digits and blanks. A fifth digit of a coordinate is written over the terminator of the string, which
is undefined, but nothing reads it: the text is unchanged. Logs are their numbers in the topic;
`seen` is the history of what a window should have shown.

**Torus, Trip.** `step` as in the code, first best direction of eight.

Decisions worth knowing: `Abort` and a connection that breaks leave each query done or not done,
never a part of it. In KafkaServer and EasyCab messages are delivered once and in order; a request that is
delivered again after a restart is covered by KafkaServer's `Submit`, which sends any request at any
time, and which requests those may be is the subject of CentralProcess. Every counter is bounded by a constant named `Max...` in a guard.

## 3. The runs

| run | instance | what it shows |
|---|---|---|
| `central_rides` | 1 taxi, 2 customers (one with a location of its letter), 2 cells; a fresh session, or one resumed with a ride under way, or with a queue and an old service; a connection that breaks anywhere, also inside a handler | `AssignmentAnnounced`, `MapFresh`, `CarriageImplemented`, `TypeOK` under every order of moves, arrivals, requests, departures and operator orders: one untrue word at most, and nobody is promised a taxi by a query that failed |
| `central_flags` | 1 taxi, 1 customer, 1 s of clock, stale sessions, a connection that breaks | `MapLagsForRegistrations`: the inductive reason for `MapFresh`, for the subjects the other run leaves out |
| `trips` | the code's 20 x 20 map, every start, 4 destinations on it and 2 off it | a step stays on the map, even towards a destination that is not on it (`EC_Customer` does not check its coordinates); towards one that is, each step is one king's move nearer although `step` minimises another distance, so taxis arrive |
| `ride` | 4 x 4 map, 1 taxi, 1 customer with two wishes, 2 orders of STOP/CONTINUE | agreement of central and engine on position and stop flag, taxis bound for what was asked, outcomes that are true, no abort, `EveryAskAnswered` under fairness |
| `leave` | 4 x 4 map, 1 taxi, 1 customer, everybody may leave, taxis come back, no clock | `ConnectedAgreement`, `CarriedTogether`, `OnboardAgreement`: strays, goodbyes and registrations overlap; `CentralServes`: through all of it the central is used as KafkaServer says |
| `authentication` | 2 engines with one id, 2 tries, a row from an earlier session or none, a connection that breaks, processes that end, registrations the producer has still to send | `RegistryImplemented`, `NewTaxiOnce`, `RefusalLeavesNoTrace`, and under fairness `AnnouncementArrives`, `AttemptEnds`, `ThreadEnds` |
| `sensor` | 2 sensors at a time or one after the other, 2 choices of 2 s, a first frame of -1, 0 or 2, fairness | `TakeTurns`, `StopsInTime`, `WaitIsToldToTheEnd` through silences, closed connections, a backlog, shutdown and choices at any moment and at either sensor; `WaitEnds` of a count that is begun anew between any two steps of the other thread, and of one at a sensor that the engine has given up |
| `presence` | 1 taxi, 1 customer, pings 2 s apart, handled 1 s late, 6 s | `NobodyLingers`, `OnlyNewcomersDisconnected` when the three seconds are used up to the last |
| `process` | 2 starts, 1 request | `NoServerLeft`, `SignalsStayInside`, `NothingSkipped`, and under fairness `EndsTogether`, with servers that end and signals that come at any step |
| `gui` | 4 logs, 1 error, windows of 2 lines, 1 digit | `ArgumentsOfTheAction`, `NewestLogs` under every sequence of keys |

Runs that end in a violation, each a disagreement between the code and what it says
of itself:

| run | what happens |
|---|---|
| `shared_taxi` | a busy taxi is available, so a second request replaces the first as its service; somebody hears "We've arrived to" elsewhere |
| `idle_taxi_sent` | a taxi with no service is sent somewhere and arrives: `customer.value()` throws before the test for that very case |

What else the models show of the code, without a run of its own: `enqueue` does not store what a
queued customer asked for, so the taxi that comes later has nowhere to go and the customer hears
"The location asked for doesn't exist"; nothing clears `in_queue` when a queued customer is
assigned and picked up, so it heads the queue while it rides; priority sets `in_queue` to NULL,
which takes the customer out of the queue. The GUI says "Message sent to central" of actions that
send nothing (a TODO), executes an action with its arguments blank, and lets the list of the upper
window grow by one with each error of its consumer. `EasyCab` keeps the first out of `ride` with
`TaxisFirst`.

**Bounds.** `MaxRequests` bounds the requests that wait, `MaxUnread` how far a reader may
be behind when a message is added, `MaxNow` the clock of the queue, `MaxOrders` the
operator. In `central_rides` the clock stands still: of two customers queued in the same second
either may be first. In KafkaServer the order of requests is free, so one waiting request is
as good as many: queues only matter to clients that look at what they receive, which
KafkaServer's do not. In EasyCab three waiting requests let a report, a report of the
other thread and an order overlap. `Patient` chooses what the bounds hold back:
with it a message is only sent when the server may handle it (`NotAhead`), which keeps KafkaServer's
own runs small; without it the topic fills and the server waits for room, as in EasyCab. The
proofs hold for both. In `leave` the clock stands still, as it only orders a queue of one, and an inbox may hold one
notice when the central handles a request.
`MaxUnread` is needed because an engine may be answered for ever: with a queue entry that is never
cleared the central goes on assigning. On a 4 x 4 torus every direction and the wrap occur; `trips` has the
full size. `RestFrom = 1` keeps one of the four seconds between services. `TaxisFirst`
keeps customers out until the taxi runs and its registration is in the topic, so that `ride` shows
what holds when no taxi is given a customer from the queue (in `leave` they come at any time); one customer keeps out that of `shared_taxi`, and
orders other than STOP and CONTINUE that of `idle_taxi_sent`.

The code sends ENQ three times; two already let answers be one behind, and what is proved of
`AuthServer` holds for any number. Two engines are what it takes to interleave `checkId`
and `addTaxi` of one id.

The sensor's menu offers 5, 15 and 30 seconds; a choice of 2 is the shortest that can still be
counting when the engine hears of it, and what is proved holds for longer ones. A
second choice meets a count that is running, or is made at the other sensor; a second sensor meets a
backlog, or a connection that is closing.
`StopsInTime` and `WaitIsToldToTheEnd` would fail for a menu entry of one second, which
`ChoicesAssumption` leaves out as the code does.

In `presence` six seconds hold a life that is lost, found and ended by an order, and another begun
before the order arrives. In `process` the second start is what an orphan, a stale offset or a
masked signal of the first could disturb; a third repeats it. Both are proved for any number. In `gui` four logs
and an error fill a window of two lines, run over and fill again after Clear; nine more digits would
be handled as the first.

**Fairness** (`ride`, `authentication`, `sensor` and `process`). In `process` it is weak fairness of
`main`'s own steps and of dying from SIGINT, which nobody handles but `main`: `waitpid` returns when
a child has ended. Servers need not end by themselves. In `sensor` it
is weak fairness of the engine's loop and of each sensor's: a read of the engine returns within two seconds, and the sensor sleeps for one; users
and orders are free, so `WaitEnds` holds also of a taxi that is stopped, and of a sensor whose
engine goes away.  In `authentication` it is weak fairness of each end:
a blocked read returns after two seconds (`setTimeout(2)` at both ends), and a query or a write
returns; and of the producer's thread, which a broker that is there does not keep waiting. In `ride` each process goes on by itself: the central's loop, the
engine's threads and the customer's loop never block on each other but through the
topics. Kafka accepts any number of messages; the model's topic is bounded, and an
action that has to wait for room gets strong fairness so that the bound is not what
starves it. The sensor sends a frame a second; that one of them meets a taxi that is
not at rest again and again is strong fairness of `DriveFrame`. `EveryAskAnswered` assumes the
operator does not leave the taxi stopped.

**Deadlock** is not checked: the system may stop (everybody has left, the central is
down, or a bound of the model is reached).

## 4. What is proved

`KafkaServerProofs.tla`, for any taxis, customers, services, cells, sessions, inputs and
bounds, under the assumptions named in Protocol, CentralDb and KafkaServer (None is no
id, cell or row; the base is a cell; no id is both a taxi's and a customer's, as ids of taxis
are numbers and ids of customers letters; every input is a request; a resumed session keeps the
foreign keys), with the connection breaking at any point unless `DbMayFail` is false:

* `TypeCorrect`: `Spec => []TypeOK`. TypeOK is inductive. First come the types of each
  database operator (a row updated is a row, a row that is missing is not touched), then
  one step per handler in `EveryMessageHandled`, and in `EveryBreakHandled` one per handler in which
  the connection may break: each either skips a message or moves
  from a database to a database with well-typed answers (`Handled`), or aborts. What is not
  evident is that no destination that is missing is ever sent: `AssignType` needs the three
  cases of `AssignThrows`.
* `MapLags`: `Spec => []MapLagsForRegistrations`, and `MapIsFresh`: `Spec => []MapFresh`.
  MapFresh is not inductive: it speaks of empty topics. The strengthening says at every
  moment why the map may differ: a registration that is stored is still to be announced, or
  waits in the topic with the session that makes sure it is not skipped.
* `CentralCarries`: `Spec => CarriageImplemented`. Every handler is a step of Carriage or a stutter.
  One lemma per kind of handler: those that pick a customer up or let it go do with the seat what they
  tell the customer (`PickUpRides`, `CompleteRides`), an order empties it without a word
  (`OrderGoToRides`), the others leave the seats alone (`QuietRides`, `SpokenRides`). Aborts are steps
  of their own, as what such a handler had produced may have left or not, and so are breaks
  (`BrokenRides`): the one untrue word is a `Misreport`.
* `PromisesAreKept`: `Spec => AssignmentAnnounced`, for the handler of a request and for those that
  end by assigning a taxi to the head of the queue. `Says` is what a handler adds to an inbox;
  `SaysMore` follows it through the several answers of one handler.
* `CarriedCustomersRide`: with one taxi, whoever has its seat has a row and rides, if that is so of
  every session that may be resumed. Two UPDATEs of
  one `query()` write the two tables. `StepSeats` says which requests change a seat and
  `StepKeepsCarried` that nothing else changes who rides. With a second taxi it is false: nothing
  clears `in_queue`, so a second taxi may be sent to a customer that rides, and when one of the two
  lets it go the table of customers says that it rides no more.

`AuthServerProofs.tla`, for any engines, ids (shared or not) and number of tries:

* `AuthTypes`: `Spec => []TypeOK`.
* `AuthRefinesRegistry`: `Spec => RegistryImplemented`. `StepMaps` takes every step to a step of
  Registry or to a stutter. Two invariants carry it. `Conversations`: the id is sent once, nothing is
  stored before it is read, and a grant is under way only when the petition has stored and
  queued the announcement. `RowsStay`: a row
  that `checkId` found is still there, so a petition that reconnects never announces a new taxi.
* `TaxiIsNewOnce`: `Spec => []NewTaxiOnce`, from steps of Registry alone. The strengthening
  `NewIsStored`, of the topic followed by what is queued, says that whoever is about to announce a new taxi has its row, is the only one,
  and nobody has announced it before.
* `RefusalIsClean`: `Spec => []RefusalLeavesNoTrace`. The strengthening `Punctual` describes both
  queues for as long as the engine has not timed out: at most one frame is under way.

`SensorLinkProofs.tla`, for any number of sensors at a time, any menu without entries of one second and
any first frame:

* `LinkTypes`: `Spec => []TypeOK`; in particular the counter never goes below zero, though it is
  tested and decremented under two locks. The strengthening is `Tested`: between the two the counter
  is positive, as the main thread only stores what the menu offers.
* `EndsTakeTurns`, `TaxiStopsInTime`, `WaitIsTold`: `[]TakeTurns`, `[]StopsInTime`,
  `[]WaitIsToldToTheEnd`, all from one inductive invariant. `Links` is about every sensor: who has
  something to do for whom (`Turns`), that nobody is twice in the backlog, and that a menu is usable
  only at a sensor that was accepted once. `Owing` is about the sensor attended: that the taxi has
  stopped says nothing of the frames under way, and `Owed` says what keeps it stopped: the engine
  holds or will read next a frame that asks for a wait (`SentAtLeast`), or has nothing to read and the
  sensor's next frame will ask for one (`Fresh`, which knows of the counter that is tested and about
  to go down). A frame that asks for two seconds or more is followed by another that asks for a wait,
  as a sensor counts down by one per frame. Both need `Links`: with two frames under way the one read
  next would be out of date. Of a sensor given up nothing is owed.

`PresenceProofs.tla`, for any clients and any delays that keep `TimingAssumption`:

* `TypeCorrect`, `NobodyLingersTheorem`, `OnlyNewcomersTheorem`: `Spec => []TypeOK`,
  `Spec => []NobodyLingers`, `Spec => OnlyNewcomersDisconnected`. Neither property is inductive. The
  invariant has four parts besides types. `Deadlines`: nobody is later than the delays say. `Heard`:
  the last ping of a living client is in its row, or one is on its way that will be in time; this is
  where `Pause + Lag <= 3` is used, and why a query finds no living client. `OldOrders`: what is under
  way against a living client was decided before its life began. `Chased`: of everybody who is
  present and not carried, either `checkStrays` has not queried since its patience ran out, or it has
  found it, or the order is in the topic, each within its delay.

`CentralProcessProofs.tla`, for any number of starts and requests:

* `NoServerLeftTheorem`, `SignalsStayInsideTheorem`, `NothingSkippedTheorem`, `TypeCorrect`. `TwoWorlds`
  separates the processes from the topic, so each invariant looks at one of them. `Halved` says what
  `cleanUp` knows after its first `waitpid`: at most one server is left, and it is the one in `other`.
  It rests on `PidsTogether` (one test of a pid tells which server has ended only while both pids are
  known) and `Newborn` (nothing of a start runs before it is forked). `Masked` says that whoever has
  set the pids to -1 has a signal masked, so only the other one leads back to the kills. `TopicKept`
  accounts for every request up to the offset *and* up to the reader's position, which is what the
  next commit makes the offset.

`TripProofs.tla`, for a map of any size and any destinations, on it or off it:

* `OnMapTheorem`: `TripSpec => []OnMap`. The invariant is nearly inductive as it stands; what has to
  be shown is that `step` always finds a direction, whatever its eight distances are, negative ones
  included: one of eight numbers is the first of the smallest (`FirstMinOfEight`).
* `ShortestPathTheorem`: `TripSpec => ShortestPath`. `step` minimises the sum of what is left on both
  axes, and what counts is the larger of the two. `AlongAxis` says for one axis, the remainder of `%`
  and the mirrored distance included, how much each of the three shifts leaves; `StepBest` that the
  direction taken is no worse than any other; `StepNearer` puts them together: an axis that is longer,
  or as long, is never left alone.

`CentralGUIProofs.tla`, for any digits, heights of the windows and numbers of logs and errors:

* `TypeCorrect`, `ArgumentsFit`: `[]TypeOK`, `[]ArgumentsOfTheAction`. Neither is inductive: which
  argument a key edits depends on `option`, and options are settled a turn later than the action.
  `MenuInv` says what is left from one to the other. `CursorsInv`: the cursor of a selected action
  is on one of its options, printed or about to be. `TextsInv`: nothing is left of an argument that
  the action under the cursor does not have, and digits stand before blanks. Each kind of
  key is a lemma, each turn of the loop a step.
* `WindowsAreFresh`: `[]NewestLogs`, which is inductive once the types of both lists are known
  (`LogsInv`). The work is in what `Shows` says of suffixes: `WindowSteps` takes it through a log that
  is appended to a window with room, to one that is full and loses its oldest, and through an error
  after which nothing is removed.

`EasyCabProofs.tla`, for any number of taxis and customers, any wishes, orders, frames and map, and
whoever leaves or comes back, under the assumptions of EasyCab:

* `TypeCorrect`, and with it the inductive invariant `IInv`. Besides types it says who is entitled to
  what it sends: an engine that has begun to authenticate has a row (`Registered`), a customer that
  asks has been accepted, or has the answer that will tell it so in its inbox (`Welcomed`), and
  asks for a service of its list (`Listed`).
* `CentralIsServed`: `Spec => CentralServes`. Each action of each program is a step of KafkaServer or
  a stutter, which needs `IInv` because KafkaServer lets only registered taxis and
  accepted customers send (`CanSend`). So what is proved of the central alone holds in the system
  without another look at it: `SystemCarries`, `SystemKeepsPromises`, `SystemShowsTheMap`.
* `TaxisAreConnected`: `[]ConnectedAgreement`. `ToldToGo` strengthens it from engines that run to
  those that have begun to authenticate: a disconnection meant for an earlier engine of the taxi may
  be in the inbox of the next one.
* `StopsAreAgreed`: `[]StopAgreement` while nobody leaves (`~Leaving`). StopAgreement speaks of empty
  topics; `Stops` replays what is under way: what the engine will have come to when it has read its
  inbox is what the row says (`Agrees`). An engine that is started again begins with STOP forgotten while
  the row still has it, so without the hypothesis it is false.
* `RidersKeepTheirSeats`, `TablesAgreeOnRiders`: unless the operator sends taxis away, whoever rides
  for the table of customers has a seat in some taxi; with one taxi the two tables agree
  (`[]OnboardAgreement`). `Undiverted` says that only the operator asks for a diversion. Both
  hypotheses are exact: `SendTaxi` empties a seat without a word to the other table, and for
  two taxis see `CarriedCustomersRide`.
* `CentralSurvivesAll`: `[]NeverAborts` if the operator neither sends taxis away nor dismisses customers
  and every customer's letter is a location. A handler throws when a row, a service or a location
  it takes for granted is missing, so the invariant `Safe` says why it is there. `OnErrands`: from the
  order to go somewhere until the report of its arrival has been handled, the central knows for whom
  a taxi is under way. `Enlisted`: a taxi that is announced has a row. `Lodged`: a customer keeps its
  row until its program has ended, and beyond what it asked before. Each hypothesis is needed,
  which TLC shows at once: an idle taxi that is sent is the run `idle_taxi_sent`; a customer that is
  dismissed with its question under way has no row to answer from; a letter that is no location breaks
  the foreign key of `taxis.service`.

* `PositionsAreAgreed`, `CustomersRideAlong`, `PassengersAreBoundForDestination`,
  `CustomersArriveWhereAsked`: `[]PositionAgreement`, `[]CarriedTogether`, `[]BoundForDestination`,
  `[]ArrivedWhereAsked`, under `OneRideAtATime`: one customer, any number of taxis, on a map of any
  size, with any wishes, and with an operator who stops, continues and disconnects taxis and gives
  priority.  The run `ride` has the hypotheses of these theorems. The invariant, `Journey`, is the
  protocol of a ride. `Phase` says that there is one token of it: the question in the topic
  (`Asked`), the order in the taxi's inbox (`Ordered`), the engine that has heard it, wherever its two
  threads are (`OnWay`, `Heading`), the report of an arrival in the topic (`Arrives`), or the outcome in
  the customer's inbox (`Over`). Of each it says what message it is and that no other is of its
  kind (`Only`), and `Goal` where the taxi has to go: to the customer until it boards, then where
  it asked to be. `Whereabouts` says of the reports on their way that the last one of each taxi
  is where it is, so handling them in order makes the database right (`Located`). `Early` keeps
  the registrations before the question (`Due`): the customer leaves the house when all are in the
  topic; `Current` and `Mapped` keep trouble out of the topics.
  The steps divide by what they do to the token: those of the taxi that has it (`TurnsKeepPhase`),
  the question, the answer heard, the three requests that the central acts on (`AskedKeepsPhase`,
  `ArrivingKeepsPhase`, `MovingKeepsPhase`), and all others, which leave it alone
  (`QuietKeepsPhase`). What the central does in each case is proved in KafkaServerProofs:
  `HandlersAreCalm` for the requests that move nobody, `TaxiMoveLands`, `RideAsked`, `RideBegins`
  and `RideEnds` for the others.

  The hypotheses are needed. With a second customer each of the four is false already with one
  taxi (`shared_taxi` shows one): the taxi that is on its way is sent to the other one, and when it is
  sent to where it stands it answers with a position it has left by the time the answer is read.
  Without `TaxisFirst` the customer may be queued, and a second taxi that registers is sent to it as
  well, as nothing clears `in_queue`; each of the four is false with two taxis. A taxi that is sent
  elsewhere with its customer on board, or a location that moves during a ride, makes
  `BoundForDestination` and `ArrivedWhereAsked` false, and the former also the other two. A customer that is
  dismissed has no row for `ArrivedWhereAsked` to be about. `PositionAgreement` and `CarriedTogether`
  may hold with locations that move and with dismissals; no theorem says so.

Model-checked only:

* `CarriedTogether` of taxis and customers that leave (`leave`, one of each): its theorem needs
  `~Leaving`, as `Phase` has no place for a customer whose program has ended on board, nor for
  a taxi that comes back to a service it has forgotten.
* Liveness: `EveryAskAnswered`, `Arrives`, `AttemptEnds`, `ThreadEnds`, `WaitEnds`, `EndsTogether`. The
  provers do not reason about fairness.

## 5. Mutants

A definition whose comment starts with "Mutant:" is a bug the code could have had (a
reset left out, a query copied, a test dropped). None is used in the specifications. Put
in the place of the definition that follows it, it makes the property named in
`PROJECT.json` fail.

## 6. What is not modelled

Drawing (windows, tables, colours; the menus are modelled), the wording of logs, environment
variables, the weather and registry services (nothing calls them), and build files. The byte layout
of messages is abstracted to their members, and a frame on a socket is read whole or not at all:
reads that return a part of one, and the checksum, are not modelled; subjects are strings. In EasyCab
a customer's coordinates are a cell of the map; `trips` has others, which no taxi reaches.

## 7. Plan

Done: Protocol, CentralDb, KafkaServer, Carriage, Torus, Trip, DigitalEngine, Customer,
EasyCab, AuthServer, Registry, SensorLink, Presence, CentralProcess, CentralGUI, and of each the proofs
above: every safety property that a passing run checks is also a theorem, if `CarriedTogether` only
for clients that stay. Next, in this order:

1. `CarriedTogether` with clients that leave: phases of a ride for customers whose program has ended
   and for engines that come back.
2. `SocketFrame`: frames, checksums and partial reads of `SocketHandler`, with the layout of
   `Message` (a session that is not 36 characters long shifts what follows it).

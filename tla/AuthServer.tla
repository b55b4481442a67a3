----------------------------- MODULE AuthServer -----------------------------
(***************************************************************************)
(* How a digital engine authenticates: authenticate() of EC_DE.cpp at one  *)
(* end of a TCP connection, a thread in attendPetition() of AuthServer.cpp *)
(* at the other.  The engine sends ENQ until it is acknowledged, three     *)
(* times at most, then its id, and waits two seconds for each reply; the   *)
(* petition looks the id up, stores it, tells the central and replies.     *)
(*                                                                         *)
(* A connection delivers whole frames in order (SocketHandler writes and   *)
(* reads them in one piece), and what is sent to an end that has closed is *)
(* lost.  Nothing bounds how late either end is: a read times out whenever *)
(* there is nothing to read.  The petitions share one process and one      *)
(* database connection, a mutex held for one query at a time, and one      *)
(* producer: produce() only queues, librdkafka's own thread sends in the   *)
(* order of the queue, and what is queued when the process ends is lost.   *)
(***************************************************************************)
EXTENDS Integers, Sequences

CONSTANTS
    Engines,    \* processes of EC_DE, each started once
    Taxis,      \* taxi ids
    IdOf,       \* DE_ID of each process: nothing keeps two from having the same
    Tries       \* how often ENQ is sent

ASSUME IdAssumption == IdOf \in [Engines -> Taxis]

ASSUME TriesAssumption == Tries \in Nat \ {0}

VARIABLES
    engine,     \* authenticate() of each process
    petition,   \* the thread that attends each process
    toCentral,  \* frames the petition has still to read
    toEngine,   \* frames the engine has still to read
    row,        \* the taxis table: "none", or what connected says
    link,       \* the server's database connection
    queued,     \* registrations the server's producer has still to send
    log,        \* topic "requests": the registrations that are there
    up          \* the process of the AuthServer runs

vars == <<engine, petition, toCentral, toEngine, row, link, queued, log, up>>

\* "ID" and "GRANT"/"DENY" are data frames, the others carry a control character.
EngineFrames == {"ENQ", "ID", "EOT"}
CentralFrames == {"ACK", "NACK", "GRANT", "DENY"}

Rows == {"none", "connected", "disconnected"}

Announcements == [subject : {"NEW_TAXI", "TAXI_RECONNECTED"}, taxiId : Taxis]

\* late: one of its reads has timed out.
EngineState ==
    [at : {"off", "asking", "proposing", "running", "failed", "killed"},
     try : 0..Tries, late : BOOLEAN]

\* stored: addTaxi's query has succeeded.
PetitionState ==
    [at : {"none", "reading", "checked", "stored", "announced", "ended"},
     reconnect : BOOLEAN, stored : BOOLEAN]

TypeOK ==
    /\ engine \in [Engines -> EngineState]
    /\ petition \in [Engines -> PetitionState]
    /\ toCentral \in [Engines -> Seq(EngineFrames)]
    /\ toEngine \in [Engines -> Seq(CentralFrames)]
    /\ row \in [Taxis -> Rows]
    /\ link \in {"closed", "open", "lost"}
    /\ queued \in Seq(Announcements)
    /\ log \in Seq(Announcements)
    /\ up \in BOOLEAN

\* The central may have resumed a session, with rows in the table.
Init ==
    /\ engine = [e \in Engines |-> [at |-> "off", try |-> 0, late |-> FALSE]]
    /\ petition = [e \in Engines |-> [at |-> "none", reconnect |-> FALSE, stored |-> FALSE]]
    /\ toCentral = [e \in Engines |-> <<>>]
    /\ toEngine = [e \in Engines |-> <<>>]
    /\ row \in [Taxis -> Rows]
    /\ link = "closed"
    /\ queued = <<>>
    /\ log = <<>>
    /\ up = TRUE

-----------------------------------------------------------------------------
(* The connection                                                          *)

\* The engine's process, or the function, has ended, and with it its socket.
HungUp(e) == engine[e].at \in {"running", "failed", "killed"}

Attended(e) == up /\ petition[e].at # "ended"

Says(e, frame) ==
    toCentral' = IF Attended(e) THEN [toCentral EXCEPT ![e] = Append(@, frame)] ELSE toCentral

\* The server's process ends, and nothing flushes the producer.
Ends == up' = FALSE /\ queued' = <<>>

\* Nobody ignores SIGPIPE: an answer to an engine that is gone may end the server.
Reply(e, frame) ==
    \/ /\ ~HungUp(e)
       /\ toEngine' = [toEngine EXCEPT ![e] = Append(@, frame)]
       /\ UNCHANGED <<queued, up>>
    \/ HungUp(e) /\ UNCHANGED <<toEngine, queued, up>>
    \/ HungUp(e) /\ UNCHANGED toEngine /\ Ends

-----------------------------------------------------------------------------
(* The engine                                                              *)

\* Connects, and asks for the first time.
Connects(e) ==
    /\ engine[e].at = "off"
    /\ up
    /\ engine' = [engine EXCEPT ![e].at = "asking", ![e].try = 1]
    /\ petition' = [petition EXCEPT ![e].at = "reading"]
    /\ Says(e, "ENQ")
    /\ UNCHANGED <<toEngine, row, link, queued, log, up>>

\* There is nobody to connect to: the process exits.
FindsNobody(e) ==
    /\ engine[e].at = "off"
    /\ ~up
    /\ engine' = [engine EXCEPT ![e].at = "failed"]
    /\ UNCHANGED <<petition, toCentral, toEngine, row, link, queued, log, up>>

\* An error: EOT, and the process exits.
Fails(e, late) ==
    /\ engine' = [engine EXCEPT ![e].at = "failed", ![e].late = late]
    /\ Says(e, "EOT")
    /\ toEngine' = [toEngine EXCEPT ![e] = <<>>]

\* Mutant: one try too many.
AsksOnceMore(e, late) ==
    \/ /\ engine[e].try > Tries
       /\ Fails(e, late)
    \/ /\ engine[e].try <= Tries
       /\ engine' = [engine EXCEPT ![e].try = @ + 1, ![e].late = late]
       /\ Says(e, "ENQ")
       /\ toEngine' = [toEngine EXCEPT ![e] = IF @ = <<>> THEN @ ELSE Tail(@)]

\* No ACK this time: the next try, or the end of it.
AsksAgain(e, late) ==
    \/ /\ engine[e].try = Tries
       /\ Fails(e, late)
    \/ /\ engine[e].try < Tries
       /\ engine' = [engine EXCEPT ![e].try = @ + 1, ![e].late = late]
       /\ Says(e, "ENQ")
       /\ toEngine' = [toEngine EXCEPT ![e] = IF @ = <<>> THEN @ ELSE Tail(@)]

\* The read of a reply to ENQ fails for want of data.  The end of a connection is taken for a
\* time-out too when errno still holds that of an earlier read: read() returns 0 and leaves it.
WaitsInVain(e) ==
    /\ engine[e].at = "asking"
    /\ toEngine[e] = <<>>
    /\ Attended(e) \/ engine[e].late
    /\ AsksAgain(e, TRUE)
    /\ UNCHANGED <<petition, row, link, queued, log, up>>

\* Mutant: a refusal does not count as a try.
NackCostsNothing(e) ==
    /\ engine[e].at = "asking"
    /\ toEngine[e] # <<>>
    /\ Head(toEngine[e]) # "ACK"
    /\ Says(e, "ENQ")
    /\ toEngine' = [toEngine EXCEPT ![e] = Tail(@)]
    /\ UNCHANGED <<engine, petition, row, link, queued, log, up>>

HearsNack(e) ==
    /\ engine[e].at = "asking"
    /\ toEngine[e] # <<>>
    /\ Head(toEngine[e]) # "ACK"
    /\ AsksAgain(e, engine[e].late)
    /\ UNCHANGED <<petition, row, link, queued, log, up>>

HearsAck(e) ==
    /\ engine[e].at = "asking"
    /\ toEngine[e] # <<>>
    /\ Head(toEngine[e]) = "ACK"
    /\ engine' = [engine EXCEPT ![e].at = "proposing"]
    /\ Says(e, "ID")
    /\ toEngine' = [toEngine EXCEPT ![e] = Tail(@)]
    /\ UNCHANGED <<petition, row, link, queued, log, up>>

\* The session: main starts the engine's threads.
HearsGrant(e) ==
    /\ engine[e].at = "proposing"
    /\ toEngine[e] # <<>>
    /\ Head(toEngine[e]) = "GRANT"
    /\ engine' = [engine EXCEPT ![e].at = "running"]
    /\ Says(e, "EOT")
    /\ toEngine' = [toEngine EXCEPT ![e] = <<>>]
    /\ UNCHANGED <<petition, row, link, queued, log, up>>

\* Anything else, late acknowledgements of ENQ included, is taken for a refusal.
HearsRefusal(e) ==
    /\ engine[e].at = "proposing"
    /\ toEngine[e] # <<>>
    /\ Head(toEngine[e]) # "GRANT"
    /\ Fails(e, engine[e].late)
    /\ UNCHANGED <<petition, row, link, queued, log, up>>

\* A time-out does not excuse the missing data.
ProposesInVain(e) ==
    /\ engine[e].at = "proposing"
    /\ toEngine[e] = <<>>
    /\ Fails(e, engine[e].late \/ Attended(e))
    /\ UNCHANGED <<petition, row, link, queued, log, up>>

\* The petition is over, and errno tells the truth.
FindsClosed(e) ==
    /\ engine[e].at = "asking"
    /\ toEngine[e] = <<>>
    /\ ~Attended(e)
    /\ Fails(e, engine[e].late)
    /\ UNCHANGED <<petition, row, link, queued, log, up>>

\* The process is killed at any moment, by its own SIGPIPE too, and says nothing.
Killed(e) ==
    /\ engine[e].at \in {"asking", "proposing"}
    /\ engine' = [engine EXCEPT ![e].at = "killed"]
    /\ toEngine' = [toEngine EXCEPT ![e] = <<>>]
    /\ UNCHANGED <<petition, toCentral, row, link, queued, log, up>>

-----------------------------------------------------------------------------
(* The petition                                                            *)

\* The next frame is read.
Receives(e, frame) ==
    /\ petition[e].at = "reading"
    /\ toCentral[e] # <<>>
    /\ Head(toCentral[e]) = frame
    /\ toCentral' = [toCentral EXCEPT ![e] = Tail(@)]

\* Mutant: ENQ is acknowledged by connect() and once more after it.
AcknowledgesTwice(e) ==
    /\ Receives(e, "ENQ")
    /\ link' = IF link = "closed" THEN "open" ELSE link
    /\ IF link = "closed"
       THEN toEngine' = [toEngine EXCEPT ![e] = @ \o <<"ACK", "ACK">>] /\ UNCHANGED <<queued, up>>
       ELSE Reply(e, "ACK")
    /\ UNCHANGED <<engine, petition, row, log>>

\* ENQ opens the database connection, or finds it open.  One that is lost is still there.
AttendsEnq(e) ==
    /\ Receives(e, "ENQ")
    /\ \/ /\ link' = IF link = "closed" THEN "open" ELSE link
          /\ Reply(e, "ACK")
       \/ /\ link = "closed"
          /\ UNCHANGED link
          /\ Reply(e, "NACK")
    /\ UNCHANGED <<engine, petition, row, log>>

\* checkId: a taxi nobody has heard of, or one that is disconnected.
ChecksId(e) ==
    /\ Receives(e, "ID")
    /\ LET r == row[IdOf[e]]
       IN  IF link = "open" /\ r # "connected"
           THEN /\ petition' = [petition EXCEPT ![e].at = "checked",
                                                ![e].reconnect = (r = "disconnected")]
                /\ UNCHANGED <<toEngine, queued, up>>
           ELSE Reply(e, "DENY") /\ UNCHANGED petition
    /\ UNCHANGED <<engine, row, link, log>>

\* Mutant: an INSERT that replaces the row it meets.
ReplacesRow(e) ==
    /\ petition[e].at = "checked"
    /\ IF link = "open"
       THEN /\ row' = [row EXCEPT ![IdOf[e]] = "connected"]
            /\ petition' = [petition EXCEPT ![e].at = "stored", ![e].stored = TRUE]
            /\ UNCHANGED <<toEngine, queued, up>>
       ELSE /\ petition' = [petition EXCEPT ![e].at = "reading"]
            /\ Reply(e, "DENY")
            /\ UNCHANGED row
    /\ UNCHANGED <<engine, toCentral, link, log>>

\* addTaxi's query.  The UPDATE does not look at connected again; the INSERT is refused when
\* another petition has inserted the id since it was looked up.
StoresTaxi(e) ==
    /\ petition[e].at = "checked"
    /\ IF link = "open" /\ (petition[e].reconnect \/ row[IdOf[e]] = "none")
       THEN /\ row' = [row EXCEPT ![IdOf[e]] = "connected"]
            /\ petition' = [petition EXCEPT ![e].at = "stored", ![e].stored = TRUE]
            /\ UNCHANGED <<toEngine, queued, up>>
       ELSE /\ petition' = [petition EXCEPT ![e].at = "reading"]
            /\ Reply(e, "DENY")
            /\ UNCHANGED row
    /\ UNCHANGED <<engine, toCentral, link, log>>

\* Mutant: a taxi that comes back is not told of.
AnnouncesNewOnly(e) ==
    /\ petition[e].at = "stored"
    /\ queued' = IF petition[e].reconnect THEN queued
                 ELSE Append(queued, [subject |-> "NEW_TAXI", taxiId |-> IdOf[e]])
    /\ petition' = [petition EXCEPT ![e].at = "announced"]
    /\ UNCHANGED <<engine, toCentral, toEngine, row, link, log, up>>

\* addTaxi's request to the central, which is only queued when the engine is answered.
AnnouncesTaxi(e) ==
    /\ petition[e].at = "stored"
    /\ queued' = Append(queued,
            [subject |-> IF petition[e].reconnect THEN "TAXI_RECONNECTED" ELSE "NEW_TAXI",
             taxiId |-> IdOf[e]])
    /\ petition' = [petition EXCEPT ![e].at = "announced"]
    /\ UNCHANGED <<engine, toCentral, toEngine, row, link, log, up>>

\* Mutant: the engine is answered before the central knows.
GrantsAtOnce(e) ==
    /\ petition[e].at \in {"stored", "announced"}
    /\ petition' = [petition EXCEPT ![e].at = "reading"]
    /\ Reply(e, "GRANT")
    /\ UNCHANGED <<engine, toCentral, row, link, log>>

\* ACK and the session, in one data frame.
Grants(e) ==
    /\ petition[e].at = "announced"
    /\ petition' = [petition EXCEPT ![e].at = "reading"]
    /\ Reply(e, "GRANT")
    /\ UNCHANGED <<engine, toCentral, row, link, log>>

\* Mutant: neither silence nor the end of the connection ends a petition.
OnlyEotEnds(e) ==
    /\ Receives(e, "EOT")
    /\ petition' = [petition EXCEPT ![e].at = "ended"]
    /\ UNCHANGED <<engine, toEngine, row, link, queued, log, up>>

\* EOT; or two seconds of silence, or the end of the connection.
PetitionEnds(e) ==
    /\ petition[e].at = "reading"
    /\ toCentral[e] # <<>> => Head(toCentral[e]) = "EOT"
    /\ petition' = [petition EXCEPT ![e].at = "ended"]
    /\ toCentral' = [toCentral EXCEPT ![e] = <<>>]
    /\ UNCHANGED <<engine, toEngine, row, link, queued, log, up>>

-----------------------------------------------------------------------------
(* The rest of the central                                                 *)

\* KafkaServer disconnects a taxi: a goodbye, an order, a stray.
Disconnects(t) ==
    /\ row[t] = "connected"
    /\ row' = [row EXCEPT ![t] = "disconnected"]
    /\ UNCHANGED <<engine, petition, toCentral, toEngine, link, queued, log, up>>

\* The producer's thread sends the oldest registration it has.
Delivers ==
    /\ up
    /\ queued # <<>>
    /\ log' = Append(log, Head(queued))
    /\ queued' = Tail(queued)
    /\ UNCHANGED <<engine, petition, toCentral, toEngine, row, link, up>>

LinkBreaks ==
    /\ link = "open"
    /\ link' = "lost"
    /\ UNCHANGED <<engine, petition, toCentral, toEngine, row, queued, log, up>>

Authenticates(e) ==
    \/ WaitsInVain(e) \/ HearsNack(e) \/ HearsAck(e)
    \/ HearsGrant(e) \/ HearsRefusal(e) \/ ProposesInVain(e) \/ FindsClosed(e)

Attends(e) ==
    /\ up
    /\ \/ AttendsEnq(e) \/ ChecksId(e) \/ StoresTaxi(e) \/ AnnouncesTaxi(e) \/ Grants(e)
       \/ PetitionEnds(e)

Next ==
    \/ \E e \in Engines :
        Connects(e) \/ FindsNobody(e) \/ Authenticates(e) \/ Attends(e) \/ Killed(e)
    \/ \E t \in Taxis : Disconnects(t)
    \/ Delivers \/ LinkBreaks

Spec == Init /\ [][Next]_vars

\* Both ends run: a read returns a frame, an error, or after two seconds a time-out.  The broker
\* is there, so the producer's thread does not stop at what is queued.
FairSpec ==
    /\ Spec
    /\ \A e \in Engines : WF_vars(Authenticates(e)) /\ WF_vars(Attends(e))
    /\ WF_vars(Delivers)

-----------------------------------------------------------------------------
(* Properties                                                              *)

\* How far an engine has come, for Registry.
Stage(e) ==
    IF engine[e].at = "running" THEN "in"
    ELSE IF ~petition[e].stored THEN "out"
    ELSE IF petition[e].at # "stored" THEN "announced"
    ELSE IF petition[e].reconnect THEN "again" ELSE "new"

\* The registry this conversation builds: an engine is let in after its taxi was stored and the
\* announcement of it queued, in this order and once each, however late the two ends are.
Registered == INSTANCE Registry WITH stage <- [e \in Engines |-> Stage(e)]

RegistryImplemented == Registered!Spec

\* A taxi is new once: however many engines start with its id, and wherever the petitions of two
\* are between checkId and addTaxi, the central hears NEW_TAXI of it from one of them.
NewTaxiOnce ==
    \A i, j \in DOMAIN log :
        log[i].subject = "NEW_TAXI" /\ log[i] = log[j] => i = j

\* An engine that is refused has left nothing behind in the database, but for one that gave up on
\* an answer which was late: its petition may still let it in when it is gone.  (A server that
\* ends takes its answers with it.)
RefusalLeavesNoTrace ==
    up => \A e \in Engines : engine[e].at = "failed" /\ petition[e].stored => engine[e].late

\* The central hears of every taxi that drives: the announcement of an engine that was let in
\* reaches the topic, be it after the engine's own messages, unless the server ends first.
AnnouncementArrives ==
    \A e \in Engines :
        engine[e].at = "running" ~> ~up \/ \E i \in DOMAIN log : log[i].taxiId = IdOf[e]

\* An attempt to authenticate comes to an end.
AttemptEnds ==
    \A e \in Engines : engine[e].at = "asking" ~> engine[e].at \in {"running", "failed", "killed"}

\* A petition does not keep its thread for ever, whatever becomes of the engine.
ThreadEnds ==
    \A e \in Engines : petition[e].at = "reading" ~> petition[e].at = "ended" \/ ~up
=============================================================================

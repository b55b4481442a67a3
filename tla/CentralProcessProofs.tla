------------------------ MODULE CentralProcessProofs ------------------------
(***************************************************************************)
(* For any number of starts and requests.  That main leaves no server      *)
(* behind when it exits is not inductive: it rests on what cleanUp knows   *)
(* after its first waitpid (Halved), on the two pids being forgotten       *)
(* together, and, for a central that starts, on what cannot be running     *)
(* yet (Newborn).  That signals stay inside rests on Masked: by the time   *)
(* the pids are -1 one signal is masked for good, so it takes the other    *)
(* kind to get back to the kills.                                          *)
(***************************************************************************)
EXTENDS CentralProcess, TLAPS

\* Nothing of a later start runs, and nothing of this one that main has not forked.
Newborn ==
    /\ \A p \in running : p[2] <= start
    /\ ended \subseteq Servers \X {start}
    /\ main = "off" => ended = {}
    /\ main # "off" => start \in Starts
    /\ main = "forking" =>
        /\ at = "first wait"
        /\ authServerPid = Nobody
        /\ <<"auth", start>> \notin running \cup ended
        /\ kafkaServerPid = Nobody => <<"kafka", start>> \notin running \cup ended

\* The handler forgets both pids at once.
PidsTogether == main = "serving" => kafkaServerPid = authServerPid

\* After the first wait at most one server is left, and cleanUp knows which if it knows any.
Halved ==
    main = "serving" /\ at \in {"kills other", "second wait"} =>
        /\ other = "kafka" => <<"auth", start>> \notin Children
        /\ other = "auth" => <<"kafka", start>> \notin Children
        /\ other = "nobody" => <<"auth", start>> \notin Children \/ <<"kafka", start>> \notin Children

\* Whoever is at the kills handles a signal, and has the pids unless it handles both.
Masked ==
    main = "serving" =>
        /\ at \in {"kills kafka", "kills auth", "forgets"} =>
            handling # {} /\ (kafkaServerPid = Nobody => handling = Signals)
        /\ kafkaServerPid = Nobody => handling # {}

\* Requests up to n were handled, are being handled, or were lost with a process.
Accounted(n) == \A r \in 1..n : r \in handled \cup lost \/ \E s \in Starts : busy[s] = r

TopicKept ==
    /\ Accounted(committed)
    /\ reader # Nobody => Accounted(position)

IInv ==
    /\ TypeOK /\ Newborn /\ PidsTogether /\ Halved /\ Masked /\ TopicKept
    /\ NoServerLeft /\ SignalsStayInside

-----------------------------------------------------------------------------
(* What changes with what                                                  *)

\* What TypeOK says of the processes, and of the topic.
ProcessType ==
    /\ start \in 0..MaxStarts
    /\ main \in {"off", "forking", "serving"}
    /\ at \in Steps
    /\ kafkaServerPid \in {Nobody, start} /\ authServerPid \in {Nobody, start}
    /\ other \in Servers \cup {"nobody"}
    /\ handling \subseteq Signals
    /\ running \subseteq Process
    /\ ended \subseteq Process \ running
    /\ struck \subseteq Process
    /\ strangers \in BOOLEAN
    /\ abandoned \subseteq Starts

TopicType ==
    /\ produced \in 0..MaxRequests /\ committed \in 0..produced /\ position \in 0..produced
    /\ reader \in 0..MaxStarts
    /\ busy \in [Starts -> 0..produced]
    /\ handled \subseteq 1..produced /\ lost \subseteq 1..produced

LEMMA TypeParts == TypeOK <=> ProcessType /\ TopicType
BY DEF TypeOK, ProcessType, TopicType

Processes == <<start, mainVars, pidVars, processVars, abandoned>>

\* What the topic does is nothing to the processes; of what they do only an end matters to it.
LEMMA TwoWorlds ==
    ASSUME [Next]_vars
    PROVE  /\ \/ UNCHANGED topicVars
              \/ \E p \in Process : Ends(p)
              \/ \E s \in Starts : Subscribes(s) \/ Consumes(s) \/ Handles(s)
              \/ Produces \/ Commits
           /\ \/ UNCHANGED Processes
              \/ StartsCentral \/ ForksKafka \/ ForksAuth \/ Abandons
              \/ \E s \in Signals : Interrupted(s) /\ struck' \in {struck, struck \cup running}
                                                   /\ UNCHANGED strangers
              \/ Cleans
              \/ \E p \in Process : Ends(p)
<1>1. CASE StartsCentral
    BY <1>1 DEF StartsCentral
<1>2. CASE ForksKafka
    BY <1>2 DEF ForksKafka
<1>3. CASE ForksAuth
    BY <1>3 DEF ForksAuth
<1>4. CASE Abandons
    BY <1>4 DEF Abandons, Leaves
<1>5. CASE \E s \in Signals : Signalled(s)
    BY <1>5 DEF Signalled, Interrupted
<1>6. CASE ControlC
    BY <1>6 DEF ControlC, Interrupted, Signals
<1>7. CASE Cleans
    BY <1>7 DEF Cleans, KillsKafka, KillsAuth, Forgets, FirstWait, KillsOther, SecondWait, GoesTo, Leaves
<1>8. CASE \E p \in Process : Ends(p)
    BY <1>8
<1>9. ASSUME NEW s \in Starts, Subscribes(s) \/ Consumes(s) \/ Handles(s)
      PROVE  UNCHANGED Processes
    BY <1>9 DEF Subscribes, Consumes, Handles, Processes
<1>10. CASE Produces \/ Commits
    BY <1>10 DEF Produces, Commits, Processes
<1>11. CASE UNCHANGED vars
    BY <1>11 DEF vars, Processes
<1> QED
    BY <1>1, <1>2, <1>3, <1>4, <1>5, <1>6, <1>7, <1>8, <1>9, <1>10, <1>11 DEF Next

-----------------------------------------------------------------------------
(* The topic                                                               *)

\* Requests keep being numbers up to produced.
LEMMA TopicTypeInductive == TopicType /\ [Next]_vars => TopicType'
<1> SUFFICES ASSUME TopicType, [Next]_vars PROVE TopicType'
    OBVIOUS
<1>1. CASE UNCHANGED topicVars
    BY <1>1 DEF topicVars, TopicType
<1>2. ASSUME NEW p \in Process, Ends(p) PROVE TopicType'
    <2>1. p[2] \in Starts
        BY DEF Process
    <2>2. busy[p[2]] \in 0..produced
        BY <2>1 DEF TopicType
    <2>3. UNCHANGED <<produced, committed, position, handled>>
        BY <1>2 DEF Ends
    <2>4. CASE Role(p) = "kafka"
        <3>1. lost' = lost \cup ({busy[p[2]]} \ {0}) /\ busy' = [busy EXCEPT ![p[2]] = 0]
              /\ (reader' = reader \/ reader' = Nobody)
            BY <1>2, <2>4 DEF Ends
        <3>2. ASSUME NEW n \in lost' PROVE n \in 1..produced
            <4>1. n \in lost \/ (n = busy[p[2]] /\ n # 0)
                BY <3>1
            <4>2. lost \subseteq 1..produced /\ produced \in 0..MaxRequests
                BY DEF TopicType
            <4>3. produced \in Nat
                BY <4>2, BoundsAssumption
            <4>4. CASE n \in lost
                BY <4>2, <4>4
            <4>5. CASE n = busy[p[2]] /\ n # 0
                <5>1. n \in 0..produced /\ n # 0
                    BY <2>2, <4>5
                <5> QED BY <4>3, <5>1
            <4> QED BY <4>1, <4>4, <4>5
        <3>3. busy' \in [Starts -> 0..produced]
            BY <2>1, <3>1 DEF TopicType
        <3>4. reader' \in 0..MaxStarts
            BY <3>1, BoundsAssumption DEF TopicType, Nobody
        <3> QED BY <2>3, <3>2, <3>3, <3>4 DEF TopicType
    <2>5. CASE Role(p) # "kafka"
        BY <1>2, <2>3, <2>5 DEF Ends, TopicType
    <2> QED BY <2>4, <2>5
<1>3. ASSUME NEW s \in Starts, Subscribes(s) PROVE TopicType'
    BY <1>3, BoundsAssumption DEF Subscribes, TopicType, Starts
<1>4. ASSUME NEW s \in Starts, Consumes(s) PROVE TopicType'
    BY <1>4 DEF Consumes, TopicType
<1>5. ASSUME NEW s \in Starts, Handles(s) PROVE TopicType'
    <2>1. busy[s] \in 1..produced
        BY <1>5 DEF Handles, TopicType
    <2>2. handled' \subseteq 1..produced /\ UNCHANGED <<produced, committed, position, reader, lost>>
        BY <1>5, <2>1 DEF Handles, TopicType
    <2>3. busy' \in [Starts -> 0..produced]
        BY <1>5 DEF Handles, TopicType
    <2> QED BY <2>2, <2>3 DEF TopicType
<1>6. CASE Produces
    BY <1>6, BoundsAssumption DEF Produces, TopicType
<1>7. CASE Commits
    BY <1>7 DEF Commits, TopicType
<1> QED
    BY <1>1, <1>2, <1>3, <1>4, <1>5, <1>6, <1>7, TwoWorlds

\* No step loses sight of a request.
LEMMA TopicKeptInductive == TopicType /\ TopicKept /\ [Next]_vars => TopicKept'
<1> SUFFICES ASSUME TopicType, TopicKept, [Next]_vars PROVE TopicKept'
    OBVIOUS
<1>1. CASE UNCHANGED topicVars
    BY <1>1 DEF topicVars, TopicKept, Accounted
<1>2. ASSUME NEW n, Accounted(n), n' = n,
             \A s \in Starts : busy'[s] = busy[s] \/ busy[s] \in {0} \cup handled' \cup lost',
             handled \subseteq handled', lost \subseteq lost'
      PROVE  Accounted(n)'
    BY <1>2 DEF Accounted
<1>3. ASSUME NEW p \in Process, Ends(p) PROVE TopicKept'
    <2>1. p[2] \in Starts
        BY DEF Process
    <2>2. /\ handled \subseteq handled' /\ lost \subseteq lost'
          /\ \A s \in Starts : busy'[s] = busy[s] \/ busy[s] \in {0} \cup handled' \cup lost'
        BY <1>3, <2>1 DEF Ends, TopicType
    <2>3. UNCHANGED <<committed, position>> /\ (reader' = reader \/ reader' = Nobody)
        BY <1>3 DEF Ends
    <2> QED BY <1>2, <2>2, <2>3 DEF TopicKept
<1>4. ASSUME NEW s \in Starts, Subscribes(s) PROVE TopicKept'
    BY <1>4 DEF Subscribes, TopicKept, Accounted
<1>5. ASSUME NEW s \in Starts, Consumes(s) PROVE TopicKept'
    <2>1. /\ handled' = handled /\ lost' = lost
          /\ \A t \in Starts : busy'[t] = busy[t] \/ busy[t] = 0
          /\ busy'[s] = position + 1
        BY <1>5 DEF Consumes, TopicType
    <2>2. committed' = committed /\ position' = position + 1 /\ reader' = reader /\ reader = s
        BY <1>5 DEF Consumes
    <2>3. s # Nobody
        BY DEF Starts, Nobody
    <2>4. Accounted(committed)' /\ \A r \in 1..position : r \in handled' \cup lost' \/ \E t \in Starts : busy'[t] = r
        BY <2>1, <2>2, <2>3 DEF TopicKept, Accounted
    <2>5. Accounted(position)'
        BY <2>1, <2>2, <2>4 DEF Accounted, TopicType
    <2> QED BY <2>4, <2>5 DEF TopicKept
<1>6. ASSUME NEW s \in Starts, Handles(s) PROVE TopicKept'
    <2>1. /\ handled \subseteq handled' /\ lost \subseteq lost'
          /\ \A t \in Starts : busy'[t] = busy[t] \/ busy[t] \in {0} \cup handled' \cup lost'
        BY <1>6 DEF Handles, TopicType
    <2>2. UNCHANGED <<committed, position, reader>>
        BY <1>6 DEF Handles
    <2> QED BY <1>2, <2>1, <2>2 DEF TopicKept
<1>7. CASE Produces
    BY <1>7 DEF Produces, TopicKept, Accounted
<1>8. CASE Commits
    BY <1>8 DEF Commits, TopicKept, Accounted
<1> QED
    BY <1>1, <1>3, <1>4, <1>5, <1>6, <1>7, <1>8, TwoWorlds

-----------------------------------------------------------------------------
(* The processes                                                           *)

LEMMA Pairs ==
    ASSUME NEW p \in Process
    PROVE  p[1] \in Servers \cup {"strays"} /\ p[2] \in Starts /\ p = <<p[1], p[2]>>
BY DEF Process

\* A process is one of the three of a central that was started.
LEMMA ProcessTypeInductive == ProcessType /\ Newborn /\ [Next]_vars => ProcessType'
<1> SUFFICES ASSUME ProcessType, Newborn, [Next]_vars PROVE ProcessType'
    OBVIOUS
<1>1. CASE UNCHANGED Processes
    BY <1>1 DEF Processes, mainVars, pidVars, processVars, ProcessType
<1>2. CASE StartsCentral
    <2>1. start' \in 0..MaxStarts /\ kafkaServerPid' = Nobody /\ authServerPid' = Nobody
        <3>1. start \in 0..MaxStarts /\ start < MaxStarts
            BY <1>2 DEF StartsCentral, ProcessType
        <3>2. start + 1 \in 0..MaxStarts
            BY <3>1, BoundsAssumption
        <3> QED BY <1>2, <3>2 DEF StartsCentral
    <2>2. /\ main' = "forking" /\ at' = "first wait" /\ other' = "nobody"
          /\ handling' = {} /\ strangers' = FALSE
          /\ UNCHANGED <<running, ended, struck, abandoned>>
        BY <1>2 DEF StartsCentral
    <2> QED BY <2>1, <2>2 DEF ProcessType, Steps
<1>3. CASE ForksKafka
    <2>1. start \in Starts
        BY <1>3 DEF ForksKafka, Newborn
    <2>2. <<"kafka", start>> \in Process /\ <<"strays", start>> \in Process
        BY <2>1 DEF Process, Servers
    <2>3. <<"kafka", start>> \notin ended
        BY <1>3 DEF ForksKafka, Newborn
    <2>4. <<"strays", start>> \notin ended
        BY DEF Newborn, Servers
    <2>5. running' \subseteq Process /\ ended \subseteq Process \ running'
        BY <1>3, <2>2, <2>3, <2>4 DEF ForksKafka, ProcessType
    <2> QED BY <1>3, <2>5 DEF ForksKafka, mainVars, ProcessType
<1>4. CASE ForksAuth
    <2>1. <<"auth", start>> \in Process \ ended
        BY <1>4 DEF ForksAuth, Newborn, Process, Servers
    <2> QED BY <1>4, <2>1 DEF ForksAuth, ProcessType
<1>5. CASE Abandons
    BY <1>5 DEF Abandons, Leaves, pidVars, ProcessType, Newborn
<1>6. ASSUME NEW s \in Signals, Interrupted(s), struck' \in {struck, struck \cup running}, UNCHANGED strangers
      PROVE  ProcessType'
    BY <1>6 DEF Interrupted, pidVars, ProcessType, Steps
<1>7. ASSUME NEW role, NEW pid, Strikes(role, pid) PROVE struck' \subseteq Process /\ strangers' \in BOOLEAN
    BY <1>7 DEF Strikes, ProcessType
<1>8. CASE KillsKafka
    BY <1>7, <1>8 DEF KillsKafka, GoesTo, pidVars, ProcessType, Steps
<1>9. CASE KillsAuth
    BY <1>7, <1>9 DEF KillsAuth, GoesTo, pidVars, ProcessType, Steps
<1>10. CASE Forgets
    BY <1>10 DEF Forgets, GoesTo, ProcessType, Steps
<1>11. CASE FirstWait
    <2>1. other' \in Servers \cup {"nobody"}
        BY <1>11 DEF FirstWait, OtherOf, Servers
    <2> QED BY <1>11, <2>1 DEF FirstWait, GoesTo, pidVars, ProcessType, Steps
<1>12. CASE KillsOther
    <2>1. struck' \subseteq Process /\ strangers' \in BOOLEAN
        BY <1>7, <1>12 DEF KillsOther, ProcessType
    <2> QED BY <1>12, <2>1 DEF KillsOther, GoesTo, pidVars, ProcessType, Steps
<1>13. CASE SecondWait
    BY <1>13 DEF SecondWait, Leaves, pidVars, ProcessType
<1>14. ASSUME NEW p \in Process, Ends(p) PROVE ProcessType'
    BY <1>14 DEF Ends, mainVars, pidVars, ProcessType
<1> QED
    BY <1>1, <1>2, <1>3, <1>4, <1>5, <1>6, <1>8, <1>9, <1>10, <1>11, <1>12, <1>13, <1>14, TwoWorlds
    DEF Cleans

\* A central that starts finds nothing of itself.
LEMMA NewbornInductive == ProcessType /\ Newborn /\ [Next]_vars => Newborn'
<1> SUFFICES ASSUME ProcessType, Newborn, [Next]_vars PROVE Newborn'
    OBVIOUS
<1>1. CASE UNCHANGED Processes
    BY <1>1 DEF Processes, mainVars, pidVars, processVars, Newborn
<1>2. CASE StartsCentral
    <2>1. \A p \in running : p \in Process /\ p[2] <= start
        BY DEF ProcessType, Newborn
    <2>2. \A p \in running : p[2] \in Nat /\ p[2] <= start
        BY <2>1, Pairs, BoundsAssumption DEF Starts
    <2>3. start \in Nat /\ start + 1 \in Starts
        <3>1. start \in 0..MaxStarts /\ start < MaxStarts
            BY <1>2 DEF StartsCentral, ProcessType
        <3> QED BY <3>1, BoundsAssumption DEF Starts
    <2>4. ASSUME NEW role PROVE <<role, start + 1>> \notin running
        <3> SUFFICES ASSUME <<role, start + 1>> \in running PROVE FALSE
            OBVIOUS
        <3>1. <<role, start + 1>>[2] <= start
            BY <2>2
        <3> QED BY <2>3, <3>1
    <2>5. ended = {} /\ ended' = {} /\ running' = running
        BY <1>2 DEF StartsCentral, Newborn
    <2>6. start' = start + 1 /\ main' = "forking" /\ at' = "first wait" /\ authServerPid' = Nobody
        BY <1>2 DEF StartsCentral
    <2>7. \A p \in running : p[2] <= start + 1
        BY <2>2, <2>3
    <2> QED
        BY <2>3, <2>4, <2>5, <2>6, <2>7 DEF Newborn
<1>3. CASE ForksKafka
    <2>1. start \in Starts /\ start \in Nat
        <3>1. start \in Starts
            BY <1>3 DEF ForksKafka, Newborn
        <3> QED BY <3>1, BoundsAssumption DEF Starts
    <2>2. \A p \in running' : p[2] <= start
        <3>1. running' = running \cup {<<"kafka", start>>, <<"strays", start>>}
            BY <1>3 DEF ForksKafka
        <3>2. <<"kafka", start>>[2] <= start /\ <<"strays", start>>[2] <= start
            BY <2>1
        <3> QED BY <3>1, <3>2 DEF Newborn
    <2>3. <<"auth", start>> \notin running' \cup ended
        BY <1>3 DEF ForksKafka, Newborn
    <2>4. kafkaServerPid' # Nobody /\ UNCHANGED <<start, main, at, authServerPid, ended>>
        BY <1>3, <2>1 DEF ForksKafka, mainVars, Starts, Nobody
    <2> QED BY <1>3, <2>1, <2>2, <2>3, <2>4 DEF ForksKafka, Newborn
<1>4. CASE ForksAuth
    <2>1. start \in Starts /\ start \in Nat
        <3>1. start \in Starts
            BY <1>4 DEF ForksAuth, Newborn
        <3> QED BY <3>1, BoundsAssumption DEF Starts
    <2>2. \A p \in running' : p[2] <= start
        <3>1. running' = running \cup {<<"auth", start>>}
            BY <1>4 DEF ForksAuth
        <3>2. <<"auth", start>>[2] <= start
            BY <2>1
        <3> QED BY <3>1, <3>2 DEF Newborn
    <2> QED BY <1>4, <2>1, <2>2 DEF ForksAuth, Newborn
<1>5. CASE Abandons
    BY <1>5 DEF Abandons, Leaves, pidVars, Newborn
<1>6. ASSUME NEW s \in Signals, Interrupted(s) PROVE Newborn'
    BY <1>6 DEF Interrupted, pidVars, Newborn
<1>7. CASE Cleans
    BY <1>7 DEF Cleans, KillsKafka, KillsAuth, Forgets, FirstWait, KillsOther, SecondWait, GoesTo,
                Leaves, pidVars, Newborn
<1>8. ASSUME NEW p \in Process, Ends(p) PROVE Newborn'
    BY <1>8 DEF Ends, mainVars, pidVars, Newborn
<1> QED
    BY <1>1, <1>2, <1>3, <1>4, <1>5, <1>6, <1>7, <1>8, TwoWorlds

\* Only Forgets touches a pid while main serves, and it touches both.
LEMMA PidsInductive == ProcessType /\ PidsTogether /\ [Next]_vars => PidsTogether'
<1> SUFFICES ASSUME ProcessType, PidsTogether, [Next]_vars PROVE PidsTogether'
    OBVIOUS
<1>1. CASE UNCHANGED Processes
    BY <1>1 DEF Processes, mainVars, pidVars, PidsTogether
<1>2. CASE StartsCentral \/ ForksKafka \/ Abandons
    BY <1>2 DEF StartsCentral, ForksKafka, Abandons, Leaves, mainVars, PidsTogether
<1>3. CASE ForksAuth
    BY <1>3 DEF ForksAuth, ProcessType, PidsTogether
<1>4. ASSUME NEW s \in Signals, Interrupted(s) PROVE PidsTogether'
    BY <1>4 DEF Interrupted, pidVars, PidsTogether
<1>5. CASE KillsKafka \/ KillsAuth \/ FirstWait \/ KillsOther
    BY <1>5 DEF KillsKafka, KillsAuth, FirstWait, KillsOther, GoesTo, pidVars, PidsTogether
<1>7. CASE Forgets \/ SecondWait
    BY <1>7 DEF Forgets, SecondWait, Leaves, PidsTogether
<1>6. ASSUME NEW p \in Process, Ends(p) PROVE PidsTogether'
    BY <1>6 DEF Ends, mainVars, pidVars, PidsTogether
<1> QED
    BY <1>1, <1>2, <1>3, <1>4, <1>5, <1>6, <1>7, TwoWorlds DEF Cleans

\* One signal is masked before the pids go, so only the other one can come after.
LEMMA MaskedInductive ==
    ProcessType /\ Newborn /\ PidsTogether /\ Masked /\ SignalsStayInside /\ [Next]_vars
        => Masked' /\ SignalsStayInside'
<1> SUFFICES ASSUME ProcessType, Newborn, PidsTogether, Masked, SignalsStayInside, [Next]_vars
             PROVE  Masked' /\ SignalsStayInside'
    OBVIOUS
<1>1. CASE UNCHANGED Processes
    BY <1>1 DEF Processes, mainVars, pidVars, processVars, Masked, SignalsStayInside
<1>2. CASE StartsCentral
    BY <1>2 DEF StartsCentral, Masked, SignalsStayInside
<1>3. CASE ForksKafka
    BY <1>3 DEF ForksKafka, mainVars, Masked, SignalsStayInside
<1>4. CASE ForksAuth
    BY <1>4 DEF ForksAuth, Newborn, Masked, SignalsStayInside
<1>5. CASE Abandons
    BY <1>5 DEF Abandons, Leaves, Masked, SignalsStayInside
<1>6. ASSUME NEW s \in Signals, Interrupted(s), UNCHANGED strangers
      PROVE  Masked' /\ SignalsStayInside'
    <2>1. handling' # {} /\ (handling # {} => handling' = Signals)
        BY <1>6 DEF Interrupted, ProcessType, Signals
    <2>2. ~strangers
        BY <1>6 DEF Interrupted, SignalsStayInside
    <2> QED BY <1>6, <2>1, <2>2 DEF Interrupted, pidVars, Masked, SignalsStayInside
<1>7. CASE KillsKafka
    BY <1>7 DEF KillsKafka, Strikes, GoesTo, pidVars, Masked, SignalsStayInside
<1>8. CASE KillsAuth
    BY <1>8 DEF KillsAuth, Strikes, GoesTo, pidVars, PidsTogether, Masked, SignalsStayInside
<1>9. CASE Forgets
    BY <1>9 DEF Forgets, GoesTo, Masked, SignalsStayInside
<1>10. CASE FirstWait
    BY <1>10 DEF FirstWait, GoesTo, pidVars, Masked, SignalsStayInside
<1>11. CASE KillsOther
    <2>1. strangers' = strangers
        <3>1. start \in Starts
            BY <1>11 DEF KillsOther, Newborn
        <3>2. start # Nobody
            BY <3>1, BoundsAssumption DEF Starts, Nobody
        <3> QED BY <1>11, <3>2 DEF KillsOther, Strikes, ProcessType
    <2> QED BY <1>11, <2>1 DEF KillsOther, GoesTo, pidVars, Masked, SignalsStayInside
<1>12. CASE SecondWait
    BY <1>12 DEF SecondWait, Leaves, Masked, SignalsStayInside
<1>13. ASSUME NEW p \in Process, Ends(p) PROVE Masked' /\ SignalsStayInside'
    BY <1>13 DEF Ends, mainVars, pidVars, Masked, SignalsStayInside
<1> QED
    BY <1>1, <1>2, <1>3, <1>4, <1>5, <1>6, <1>7, <1>8, <1>9, <1>10, <1>11, <1>12, <1>13, TwoWorlds
    DEF Cleans

\* The server that was waited for is gone, and the test of the pid says which one it was.
LEMMA HalvedInductive ==
    ProcessType /\ Newborn /\ PidsTogether /\ Halved /\ [Next]_vars => Halved'
<1> SUFFICES ASSUME ProcessType, Newborn, PidsTogether, Halved, [Next]_vars PROVE Halved'
    OBVIOUS
<1>1. CASE UNCHANGED Processes
    BY <1>1 DEF Processes, mainVars, processVars, Halved, Children
<1>2. CASE StartsCentral \/ ForksKafka \/ Abandons \/ SecondWait
    BY <1>2 DEF StartsCentral, ForksKafka, Abandons, SecondWait, Leaves, mainVars, Halved
<1>3. CASE ForksAuth
    BY <1>3 DEF ForksAuth, Newborn, Halved
<1>4. ASSUME NEW s \in Signals, Interrupted(s) PROVE Halved'
    BY <1>4 DEF Interrupted, Halved
<1>5. CASE KillsKafka \/ KillsAuth \/ Forgets
    BY <1>5 DEF KillsKafka, KillsAuth, Forgets, GoesTo, Halved
<1>6. CASE FirstWait
    <2>1. main = "serving" /\ kafkaServerPid = authServerPid
        BY <1>6 DEF FirstWait, PidsTogether
    <2>2. UNCHANGED <<start, running>>
        BY <1>6 DEF FirstWait, GoesTo
    <2>3. ASSUME NEW p \in ended, ended' = ended \ {p}, other' = OtherOf(p = <<"auth", authServerPid>>)
          PROVE  Halved'
        <3>1. p \notin Children'
            BY <2>2, <2>3 DEF Children, ProcessType
        <3>2. p \in {<<"kafka", start>>, <<"auth", start>>}
            <4>1. p \in Servers \X {start}
                BY <2>3 DEF Newborn
            <4> QED BY <4>1 DEF Servers
        <3>3. CASE kafkaServerPid = Nobody
            BY <2>2, <2>3, <3>1, <3>2, <3>3 DEF Halved, OtherOf
        <3>4. CASE kafkaServerPid # Nobody
            <4>1. authServerPid = start
                BY <2>1, <3>4 DEF ProcessType
            <4> QED BY <2>2, <2>3, <3>1, <3>2, <3>4, <4>1 DEF Halved, OtherOf
        <3> QED BY <3>3, <3>4
    <2>4. CASE Children = {} /\ ended' = ended
        BY <2>2, <2>4 DEF Halved, Children
    <2> QED BY <1>6, <2>3, <2>4 DEF FirstWait
<1>7. CASE KillsOther
    BY <1>7 DEF KillsOther, GoesTo, Halved, Children
<1>8. ASSUME NEW p \in Process, Ends(p) PROVE Halved'
    <2>1. Children' \subseteq Children
        BY <1>8 DEF Ends, Children
    <2>2. UNCHANGED <<start, main, at, other>>
        BY <1>8 DEF Ends, mainVars
    <2> QED BY <2>1, <2>2 DEF Halved
<1> QED
    BY <1>1, <1>2, <1>3, <1>4, <1>5, <1>6, <1>7, <1>8, TwoWorlds DEF Cleans

\* Main exits with nobody left to wait for.
LEMMA NoServerLeftInductive ==
    ProcessType /\ Newborn /\ Halved /\ NoServerLeft /\ [Next]_vars => NoServerLeft'
<1> SUFFICES ASSUME ProcessType, Newborn, Halved, NoServerLeft, [Next]_vars PROVE NoServerLeft'
    OBVIOUS
<1>1. CASE UNCHANGED Processes
    BY <1>1 DEF Processes, mainVars, processVars, NoServerLeft
<1>2. CASE StartsCentral
    BY <1>2 DEF StartsCentral, NoServerLeft
<1>3. CASE ForksKafka
    BY <1>3 DEF ForksKafka, mainVars, NoServerLeft
<1>4. CASE ForksAuth
    BY <1>4 DEF ForksAuth, NoServerLeft
<1>5. CASE Abandons
    BY <1>5 DEF Abandons, Leaves, NoServerLeft
<1>6. ASSUME NEW s \in Signals, Interrupted(s) PROVE NoServerLeft'
    BY <1>6 DEF Interrupted, NoServerLeft
<1>7. CASE KillsKafka \/ KillsAuth \/ Forgets \/ FirstWait \/ KillsOther
    BY <1>7 DEF KillsKafka, KillsAuth, Forgets, FirstWait, KillsOther, GoesTo, NoServerLeft
<1>8. CASE SecondWait
    <2> SUFFICES ASSUME NEW p \in running, Role(p) \in Servers, p[2] = start PROVE FALSE
        BY <1>8 DEF SecondWait, Leaves, NoServerLeft
    <2>1. p \in {<<"kafka", start>>, <<"auth", start>>} /\ p \in Servers \X {start}
        BY Pairs DEF ProcessType, Role, Servers
    <2>2. p \in Children /\ p \notin ended
        BY <2>1 DEF Children, ProcessType
    <2>3. main = "serving" /\ at = "second wait"
        BY <1>8 DEF SecondWait
    <2>4. CASE other = "nobody"
        <3>1. PICK q \in Children : q \in ended
            BY <1>8, <2>2, <2>4 DEF SecondWait
        <3>2. q \in {<<"kafka", start>>, <<"auth", start>>}
            <4>1. q \in Servers \X {start}
                BY <3>1 DEF Newborn
            <4> QED BY <4>1 DEF Servers
        <3> QED BY <2>1, <2>2, <2>3, <2>4, <3>1, <3>2 DEF Halved
    <2>5. CASE other # "nobody"
        <3>1. p = <<other, start>>
            BY <2>1, <2>2, <2>3, <2>5 DEF Halved, ProcessType, Servers
        <3> QED BY <1>8, <2>2, <2>5, <3>1 DEF SecondWait
    <2> QED BY <2>4, <2>5
<1>9. ASSUME NEW p \in Process, Ends(p) PROVE NoServerLeft'
    BY <1>9 DEF Ends, mainVars, NoServerLeft
<1> QED
    BY <1>1, <1>2, <1>3, <1>4, <1>5, <1>6, <1>7, <1>8, <1>9, TwoWorlds DEF Cleans

-----------------------------------------------------------------------------
(* The theorems                                                            *)

LEMMA InitIInv == Init => IInv
<1> SUFFICES ASSUME Init PROVE IInv
    OBVIOUS
<1>1. TypeOK
    <2>1. start \in 0..MaxStarts /\ reader \in 0..MaxStarts
        <3>1. start = 0 /\ reader = 0
            BY DEF Init, Nobody
        <3> QED BY <3>1, BoundsAssumption
    <2>2. /\ produced \in 0..MaxRequests /\ committed \in 0..produced /\ position \in 0..produced
          /\ busy \in [Starts -> 0..produced]
        <3>1. produced = 0 /\ committed = 0 /\ position = 0 /\ busy = [s \in Starts |-> 0]
            BY DEF Init
        <3> QED BY <3>1, BoundsAssumption
    <2> QED BY <2>1, <2>2 DEF Init, TypeOK, Steps
<1>2. Newborn /\ PidsTogether /\ Halved /\ Masked
    BY DEF Init, Newborn, PidsTogether, Halved, Masked
<1>3. TopicKept
    <2>1. committed = 0 /\ reader = Nobody
        BY DEF Init
    <2>2. 1..committed = {}
        BY <2>1
    <2> QED BY <2>1, <2>2 DEF TopicKept, Accounted
<1>4. NoServerLeft /\ SignalsStayInside
    BY DEF Init, NoServerLeft, SignalsStayInside
<1> QED BY <1>1, <1>2, <1>3, <1>4 DEF IInv

LEMMA Inductive == IInv /\ [Next]_vars => IInv'
<1> SUFFICES ASSUME IInv, [Next]_vars PROVE IInv'
    OBVIOUS
<1>1. ProcessType /\ TopicType
    BY TypeParts DEF IInv
<1>2. TypeOK'
    <2>1. ProcessType' /\ TopicType'
        BY <1>1, ProcessTypeInductive, TopicTypeInductive DEF IInv
    <2> QED BY <2>1 DEF TypeOK, ProcessType, TopicType
<1>3. Newborn' /\ PidsTogether' /\ Halved'
    BY <1>1, NewbornInductive, PidsInductive, HalvedInductive DEF IInv
<1>4. Masked' /\ SignalsStayInside'
    BY <1>1, MaskedInductive DEF IInv
<1>5. TopicKept' /\ NoServerLeft'
    BY <1>1, TopicKeptInductive, NoServerLeftInductive DEF IInv
<1> QED BY <1>2, <1>3, <1>4, <1>5 DEF IInv

LEMMA Invariance == Spec => []IInv
BY InitIInv, Inductive, PTL DEF Spec

\* The variables keep the types the model gives them, whatever ends and whatever is signalled.
THEOREM TypeCorrect == Spec => []TypeOK
<1>1. IInv => TypeOK
    BY DEF IInv
<1> QED BY <1>1, Invariance, PTL

\* cleanUp (EC_Central.cpp) waits for both servers: main does not exit before them.
THEOREM NoServerLeftTheorem == Spec => []NoServerLeft
<1>1. IInv => NoServerLeft
    BY DEF IInv
<1> QED BY <1>1, Invariance, PTL

\* signalHandler's kill(-1) needs a second signal, of the other kind.
THEOREM SignalsStayInsideTheorem == Spec => []SignalsStayInside
<1>1. IInv => SignalsStayInside
    BY DEF IInv
<1> QED BY <1>1, Invariance, PTL

\* Whatever the group counts as read of "requests" was handled, is being, or died with its reader.
THEOREM NothingSkippedTheorem == Spec => []NothingSkipped
<1>1. IInv => NothingSkipped
    BY DEF IInv, TopicKept, Accounted, NothingSkipped
<1> QED BY <1>1, Invariance, PTL
=============================================================================

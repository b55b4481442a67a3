--------------------------- MODULE CentralProcess ---------------------------
(***************************************************************************)
(* The processes of the central and what is left of them when one ends.    *)
(* main forks the KafkaServer and the AuthServer, the KafkaServer forks    *)
(* checkStrays, and main waits.  When a server ends by itself, main ends   *)
(* the other one; a signal makes it end both.  Then the operator may start *)
(* the central again, and the new KafkaServer goes on reading "requests"   *)
(* where the old one had committed to be.                                  *)
(*                                                                         *)
(* The handler of a signal never returns to what it interrupted (it calls  *)
(* cleanUp, which exits), so one program counter is enough for main, and   *)
(* the signals that are being handled are masked for good.  What main and  *)
(* its processes do before it waits is one step each: a signal that comes  *)
(* earlier has no handler and kills it (Abandons).                         *)
(***************************************************************************)
EXTENDS Naturals

CONSTANTS
    MaxStarts,    \* bound: times the operator starts the central
    MaxRequests   \* bound: requests ever sent

ASSUME BoundsAssumption == MaxStarts \in Nat /\ MaxRequests \in Nat

\* What a pid is after the handler has set it to -1.
Nobody == 0

Servers == {"kafka", "auth"}

Starts == 1..MaxStarts

\* The processes of each start, besides main.
Process == (Servers \cup {"strays"}) \X Starts

Role(p) == p[1]

Signals == {"SIGINT", "SIGTERM"}

VARIABLES
    start,      \* how often the central was started
    main,       \* main of the last start
    at,         \* where main is between its first waitpid and its exit
    kafkaServerPid, authServerPid,   \* the start the process belongs to, or Nobody
    other,      \* cleanUp's variable of that name: a server of this start, or "nobody"
    handling,   \* signals main is handling, which are masked
    running,    \* processes that run
    ended,      \* servers that have ended and have not been waited for
    struck,     \* processes that have been sent SIGINT
    strangers,  \* whether processes outside of the central have been
    abandoned,  \* starts whose main has gone without waiting for its servers
    produced,   \* requests sent to the topic, numbered from 1
    committed,  \* the group's offset: the last request it counts as read
    reader,     \* the start whose KafkaServer has the partition, or Nobody
    position,   \* the last request it was given
    busy,       \* the request each KafkaServer is handling, 0 for none
    handled,    \* requests that have been handled
    lost        \* requests whose handler was under way when its process ended

mainVars == <<main, at, other, handling>>
pidVars == <<kafkaServerPid, authServerPid>>
processVars == <<running, ended, struck, strangers>>
topicVars == <<produced, committed, reader, position, busy, handled, lost>>
vars == <<start, mainVars, pidVars, processVars, abandoned, topicVars>>

Requests == 1..MaxRequests

Steps == {"kills kafka", "kills auth", "forgets", "first wait", "kills other", "second wait"}

TypeOK ==
    /\ start \in 0..MaxStarts
    /\ main \in {"off", "forking", "serving"}
    /\ at \in Steps
    /\ kafkaServerPid \in {Nobody, start} /\ authServerPid \in {Nobody, start}
    /\ other \in Servers \cup {"nobody"}
    /\ handling \subseteq Signals
    /\ running \subseteq Process
    /\ ended \subseteq Process \ running
    /\ struck \subseteq Process
    /\ strangers \in BOOLEAN
    /\ abandoned \subseteq Starts
    /\ produced \in 0..MaxRequests /\ committed \in 0..produced /\ position \in 0..produced
    /\ reader \in 0..MaxStarts
    /\ busy \in [Starts -> 0..produced]
    /\ handled \subseteq 1..produced /\ lost \subseteq 1..produced

Init ==
    /\ start = 0
    /\ main = "off"
    /\ at = "first wait"
    /\ kafkaServerPid = Nobody /\ authServerPid = Nobody
    /\ other = "nobody"
    /\ handling = {}
    /\ running = {} /\ ended = {} /\ struck = {}
    /\ strangers = FALSE
    /\ abandoned = {}
    /\ produced = 0 /\ committed = 0 /\ position = 0
    /\ reader = Nobody
    /\ busy = [s \in Starts |-> 0]
    /\ handled = {} /\ lost = {}

-----------------------------------------------------------------------------
(* main, until it waits                                                    *)

\* The operator starts the central; the session is kept or made, the locations are read.
StartsCentral ==
    /\ main = "off"
    /\ start < MaxStarts
    /\ start' = start + 1
    /\ main' = "forking"
    /\ at' = "first wait"
    /\ other' = "nobody" /\ handling' = {}
    /\ kafkaServerPid' = Nobody /\ authServerPid' = Nobody
    /\ strangers' = FALSE
    /\ UNCHANGED <<running, ended, struck, abandoned, topicVars>>

\* The first thing the KafkaServer does is to fork checkStrays.
ForksKafka ==
    /\ main = "forking"
    /\ kafkaServerPid = Nobody
    /\ kafkaServerPid' = start
    /\ running' = running \cup {<<"kafka", start>>, <<"strays", start>>}
    /\ UNCHANGED <<start, mainVars, authServerPid, ended, struck, strangers, abandoned, topicVars>>

\* Both servers are there, and so are the handlers.
ForksAuth ==
    /\ main = "forking"
    /\ kafkaServerPid # Nobody
    /\ authServerPid' = start
    /\ running' = running \cup {<<"auth", start>>}
    /\ main' = "serving"
    /\ UNCHANGED <<start, at, other, handling, kafkaServerPid, ended, struck, strangers, abandoned,
                   topicVars>>

\* main goes without a word to its servers: it is killed, by whatever signal has no handler, or
\* createProcess exits because there is no process to be had.
Leaves ==
    /\ main' = "off"
    /\ ended' = {}
    /\ UNCHANGED <<start, at, other, handling, pidVars, running, struck, strangers, topicVars>>

Abandons ==
    /\ main # "off"
    /\ Leaves
    /\ abandoned' = abandoned \cup {start}

-----------------------------------------------------------------------------
(* main, from the first waitpid on                                         *)

\* kill(pid, SIGINT) for the process of a role.  Pid -1 is everybody the user may signal, but the
\* caller.
Strikes(role, pid) ==
    /\ struck' = struck \cup IF pid = Nobody THEN running ELSE running \cap {<<role, pid>>}
    /\ strangers' = (strangers \/ pid = Nobody)

GoesTo(step) == at' = step /\ UNCHANGED <<start, main, handling, running, abandoned, topicVars>>

\* A signal that has a handler and is not being handled already.
Interrupted(s) ==
    /\ main = "serving"
    /\ s \notin handling
    /\ handling' = handling \cup {s}
    /\ at' = "kills kafka"
    /\ UNCHANGED <<start, main, other, pidVars, running, ended, abandoned, topicVars>>

Signalled(s) == Interrupted(s) /\ UNCHANGED <<struck, strangers>>

\* Control-C at the terminal is for all processes of the foreground group.
ControlC ==
    /\ Interrupted("SIGINT")
    /\ struck' = struck \cup running
    /\ UNCHANGED strangers

\* Mutant: the pids are set to -1 first.
ForgetsFirst ==
    /\ main = "serving" /\ at = "kills kafka"
    /\ kafkaServerPid' = Nobody /\ authServerPid' = Nobody
    /\ Strikes("kafka", Nobody)
    /\ GoesTo("kills auth")
    /\ UNCHANGED <<other, ended>>

KillsKafka ==
    /\ main = "serving" /\ at = "kills kafka"
    /\ Strikes("kafka", kafkaServerPid)
    /\ GoesTo("kills auth")
    /\ UNCHANGED <<other, pidVars, ended>>

KillsAuth ==
    /\ main = "serving" /\ at = "kills auth"
    /\ Strikes("auth", authServerPid)
    /\ GoesTo("forgets")
    /\ UNCHANGED <<other, pidVars, ended>>

Forgets ==
    /\ main = "serving" /\ at = "forgets"
    /\ kafkaServerPid' = Nobody /\ authServerPid' = Nobody
    /\ GoesTo("first wait")
    /\ UNCHANGED <<other, ended, struck, strangers>>

\* main's children: the servers of this start that have not been waited for.
Children == (running \cup ended) \cap (Servers \X {start})

\* "pid == authServerPid ? kafkaServerPid : authServerPid".  The two are forgotten together.
OtherOf(isAuth) ==
    IF kafkaServerPid = Nobody THEN "nobody" ELSE IF isAuth THEN "kafka" ELSE "auth"

\* waitpid(-1): a child that has ended, or an error, -1, when there is none at all.
FirstWait ==
    /\ main = "serving" /\ at = "first wait"
    /\ \/ \E p \in ended :
            /\ ended' = ended \ {p}
            /\ other' = OtherOf(p = <<"auth", authServerPid>>)
       \/ /\ Children = {}
          /\ other' = OtherOf(authServerPid = Nobody)
          /\ UNCHANGED ended
    /\ GoesTo("kills other")
    /\ UNCHANGED <<pidVars, struck, strangers>>

\* Mutant: the test of other is the wrong way round.
KillsOtherUnlessKnown ==
    /\ main = "serving" /\ at = "kills other"
    /\ \/ other = "nobody" /\ Strikes(other, Nobody)
       \/ other # "nobody" /\ UNCHANGED <<struck, strangers>>
    /\ GoesTo("second wait")
    /\ UNCHANGED <<other, pidVars, ended>>

KillsOther ==
    /\ main = "serving" /\ at = "kills other"
    /\ \/ other # "nobody" /\ Strikes(other, start)
       \/ other = "nobody" /\ UNCHANGED <<struck, strangers>>
    /\ GoesTo("second wait")
    /\ UNCHANGED <<other, pidVars, ended>>

\* Mutant: main exits once it has sent the signal.
ExitsAtOnce ==
    /\ main = "serving" /\ at = "second wait"
    /\ Leaves
    /\ UNCHANGED abandoned

\* waitpid(other), of any child when that is -1, and exit.
SecondWait ==
    /\ main = "serving" /\ at = "second wait"
    /\ LET awaited == IF other = "nobody" THEN Children ELSE Children \cap {<<other, start>>}
       IN  awaited = {} \/ awaited \cap ended # {}
    /\ Leaves
    /\ UNCHANGED abandoned

-----------------------------------------------------------------------------
(* The other processes                                                     *)

\* A process ends: SIGINT ends those that have been sent it, and a server may end by itself.
\* checkStrays does not: its loop is for ever.  Nothing is committed on the way.
Ends(p) ==
    /\ p \in running
    /\ Role(p) = "strays" => p \in struck
    /\ running' = running \ {p}
    /\ struck' = struck \ {p}
    /\ ended' = IF main # "off" /\ p \in Servers \X {start} THEN ended \cup {p} ELSE ended
    /\ LET s == p[2]
       IN  IF Role(p) = "kafka"
           THEN /\ lost' = lost \cup ({busy[s]} \ {0})
                /\ busy' = [busy EXCEPT ![s] = 0]
                /\ reader' = IF reader = s THEN Nobody ELSE reader
           ELSE UNCHANGED <<lost, busy, reader>>
    /\ UNCHANGED <<start, mainVars, pidVars, strangers, abandoned, produced, committed, position,
                   handled>>

Dies(p) == p \in struck /\ Ends(p)

-----------------------------------------------------------------------------
(* The topic "requests"                                                    *)

Produces ==
    /\ produced < MaxRequests
    /\ produced' = produced + 1
    /\ UNCHANGED <<start, mainVars, pidVars, processVars, abandoned, committed, reader, position,
                   busy, handled, lost>>

\* Mutant: auto.offset.reset is "latest", for a group that has a name of its own at every start.
SubscribesAnew(s) ==
    /\ <<"kafka", s>> \in running
    /\ reader # s
    /\ reader' = s
    /\ position' = produced
    /\ UNCHANGED <<start, mainVars, pidVars, processVars, abandoned, produced, committed, busy,
                   handled, lost>>

\* The group "central-kafka-consumer" gives the partition to one of its members, which starts
\* after the offset that was committed.
Subscribes(s) ==
    /\ <<"kafka", s>> \in running
    /\ reader # s
    /\ reader' = s
    /\ position' = committed
    /\ UNCHANGED <<start, mainVars, pidVars, processVars, abandoned, produced, committed, busy,
                   handled, lost>>

Consumes(s) ==
    /\ reader = s
    /\ busy[s] = 0
    /\ position < produced
    /\ position' = position + 1
    /\ busy' = [busy EXCEPT ![s] = position + 1]
    /\ UNCHANGED <<start, mainVars, pidVars, processVars, abandoned, produced, committed, reader,
                   handled, lost>>

Handles(s) ==
    /\ busy[s] # 0
    /\ handled' = handled \cup {busy[s]}
    /\ busy' = [busy EXCEPT ![s] = 0]
    /\ UNCHANGED <<start, mainVars, pidVars, processVars, abandoned, produced, committed, reader,
                   position, lost>>

\* enable.auto.commit is left as it is: from time to time, whatever the reader was given.
Commits ==
    /\ reader # Nobody
    /\ committed # position
    /\ committed' = position
    /\ UNCHANGED <<start, mainVars, pidVars, processVars, abandoned, produced, reader, position,
                   busy, handled, lost>>

-----------------------------------------------------------------------------
Cleans == KillsKafka \/ KillsAuth \/ Forgets \/ FirstWait \/ KillsOther \/ SecondWait

Next ==
    \/ StartsCentral \/ ForksKafka \/ ForksAuth \/ Abandons
    \/ \E s \in Signals : Signalled(s)
    \/ ControlC
    \/ Cleans
    \/ \E s \in Starts : Subscribes(s) \/ Consumes(s) \/ Handles(s)
    \/ \E p \in Process : Ends(p)
    \/ Produces \/ Commits

Spec == Init /\ [][Next]_vars

\* main goes on when nothing blocks it, and a SIGINT ends the process it was sent to.
FairSpec ==
    /\ Spec
    /\ WF_vars(Cleans)
    /\ \A p \in Process : WF_vars(Dies(p))

-----------------------------------------------------------------------------
(* Properties                                                              *)

\* "Exiting central": when main exits no server of its own is left that would go on with a session
\* a new central may have thrown away, whenever servers end and signals come.
NoServerLeft ==
    \A p \in running : Role(p) \in Servers =>
        \/ main # "off" /\ p[2] = start
        \/ p[2] \in abandoned

\* "Sending SIGINT to child processes": the handler sets the pids to -1 and kill(-1) is for
\* everybody, so a signal that comes again must be masked.  Only one after the other kind is not.
SignalsStayInside == strangers => handling = Signals

\* A request the group counts as read was handled, is being handled, or was lost with the process
\* that was handling it: restarts and rebalances skip nothing else.
NothingSkipped ==
    \A n \in 1..committed :
        n \in handled \cup lost \/ \E s \in Starts : busy[s] = n

\* When a server ends, or a signal comes, the whole central ends.
EndsTogether ==
    \A s \in Starts :
        (start = s /\ main = "serving" /\ (handling # {} \/ ~(Servers \X {s} \subseteq running)))
            ~> (start = s => main = "off")
=============================================================================

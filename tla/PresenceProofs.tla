--------------------------- MODULE PresenceProofs ---------------------------
(***************************************************************************)
(* For any number of clients and any delays that keep TimingAssumption: a  *)
(* client that pings is disconnected only as a newcomer, and a client that *)
(* is gone is disconnected in time.                                        *)
(*                                                                         *)
(* The first needs three facts that hold each other up: everybody is in    *)
(* time (Deadlines); whoever lives was heard of at its last ping, or has a *)
(* ping in the topic that will be in time (Heard), so that no query finds  *)
(* it; and what is under way against it dates from before its birth        *)
(* (OldOrders).  The second follows a silent client from the query that    *)
(* has not seen it yet to the one that finds it and to its order (Chased). *)
(***************************************************************************)
EXTENDS Presence, TLAPS

\* Everybody is in time.
Deadlines ==
    /\ \A e \in alive : born[e] <= now /\ pinged[e] <= now /\ now <= pinged[e] + Pause
    /\ \A m \in Waiting : m.sent <= now /\ now <= m.sent + Lag
    /\ checked <= now /\ now <= checked + CheckPause
    /\ found # {} => now <= checked + Delay
    /\ \A e \in present : last[e] <= now

\* The last ping of a living client is in its row, or one is on its way that will be in time.
Heard ==
    \A e \in alive \cap present :
        \/ pinged[e] <= last[e]
        \/ \E m \in Waiting : m.subject = "PING" /\ m.client = e /\ m.sent <= last[e] + Pause

\* What is under way against a living client was decided before its life began.
OldOrders ==
    \A e \in alive :
        /\ e \in found => checked <= born[e]
        /\ \A m \in Waiting :
            m.subject = "ORDER_DISCONNECT" /\ m.client = e => m.sent <= born[e] + Delay

\* The times a client's patience may be counted from.
Reprieves(e) == {last[e]} \cup {freed[c] : c \in Customers \cap {e}}

\* A client is still within its patience as far as checkStrays knows, or was found soon after,
\* or has an order on its way that was sent soon after.
Chased ==
    \A e \in present \ carried : \E r \in Reprieves(e) :
        \/ checked <= r + Patience
        \/ e \in found /\ checked <= r + Patience + CheckPause
        \/ \E m \in Waiting :
            /\ m.subject = "ORDER_DISCONNECT" /\ m.client = e
            /\ m.sent <= r + Patience + CheckPause + Delay

IInv == TypeOK /\ Deadlines /\ Heard /\ OldOrders /\ Chased

-----------------------------------------------------------------------------
(* The topic as a set                                                      *)

LEMMA WaitingType == TypeOK => Waiting \subseteq Request
BY DEF TypeOK, Waiting

\* What sending adds.
LEMMA Sending ==
    ASSUME TypeOK, NEW m \in Request, requests' = Append(requests, m)
    PROVE  Waiting' = Waiting \cup {m}
<1>1. requests \in Seq(Request)
    BY DEF TypeOK
<1>2. /\ DOMAIN requests' = 1..Len(requests) + 1
      /\ \A i \in 1..Len(requests) : requests'[i] = requests[i]
      /\ requests'[Len(requests) + 1] = m
    BY <1>1
<1>3. DOMAIN requests = 1..Len(requests) /\ Len(requests) \in Nat
    BY <1>1
<1> QED
    BY <1>2, <1>3 DEF Waiting

\* What handling takes away.
LEMMA Taking ==
    ASSUME TypeOK, requests # <<>>, requests' = Tail(requests)
    PROVE  /\ Waiting' \subseteq Waiting
           /\ Waiting \subseteq Waiting' \cup {Head(requests)}
           /\ Head(requests) \in Request
<1>1. requests \in Seq(Request)
    BY DEF TypeOK
<1>2. /\ Len(requests) \in Nat \ {0}
      /\ DOMAIN requests = 1..Len(requests)
      /\ Head(requests) = requests[1]
      /\ requests[1] \in Request
    BY <1>1
<1>3. /\ DOMAIN requests' = 1..Len(requests) - 1
      /\ \A i \in 1..Len(requests) - 1 : requests'[i] = requests[i + 1]
    BY <1>1
<1>4. Waiting' \subseteq Waiting
    BY <1>2, <1>3 DEF Waiting
<1>5. ASSUME NEW i \in 1..Len(requests), i # 1
      PROVE  requests[i] \in Waiting'
    <2>1. i - 1 \in 1..Len(requests) - 1 /\ requests'[i - 1] = requests[i]
        BY <1>2, <1>3, <1>5
    <2> QED
        BY <2>1, <1>3 DEF Waiting
<1>6. Waiting \subseteq Waiting' \cup {Head(requests)}
    BY <1>2, <1>5 DEF Waiting
<1> QED
    BY <1>2, <1>4, <1>6

\* A step either leaves the topic alone, takes its head or sends one message stamped now.
LEMMA Sends ==
    ASSUME TypeOK, NEW e \in Clients, NEW s \in Subjects
    PROVE  Message(s, e) \in Request /\ Message(s, e).sent = now
BY DEF TypeOK, Message, Request

\* A column keeps its type when one row of it may be written.
LEMMA WrittenOrNot ==
    ASSUME NEW f \in [Clients -> Nat], NEW g, NEW e \in Clients, NEW n \in Nat,
           g = f \/ g = [f EXCEPT ![e] = n]
    PROVE  g \in [Clients -> Nat]
<1>1. CASE g = f
    BY <1>1
<1>2. CASE g = [f EXCEPT ![e] = n]
    BY <1>2
<1> QED
    BY <1>1, <1>2

-----------------------------------------------------------------------------
(* The invariant                                                           *)

LEMMA InitIInv == Init => IInv
<1> SUFFICES ASSUME Init PROVE IInv
    OBVIOUS
<1>1. TypeOK
    BY TimingAssumption DEF Init, TypeOK, Request
<1>2. Waiting = {}
    BY DEF Init, Waiting
<1> QED
    BY <1>1, <1>2, TimingAssumption DEF Init, IInv, Deadlines, Heard, OldOrders, Chased

\* Type correctness.
LEMMA TypeInductive == TypeOK /\ [Next]_vars => TypeOK'
<1> SUFFICES ASSUME TypeOK, [Next]_vars PROVE TypeOK'
    OBVIOUS
<1> USE TimingAssumption, ClientsAssumption DEF TypeOK
<1>1. CASE Tick
    BY <1>1 DEF Tick, rowVars, holdVars, clientVars, checkVars
<1>2. ASSUME NEW t \in Taxis, Register(t) PROVE TypeOK'
    BY <1>2 DEF Register, Begin, Appear, Stamp, Clients, holdVars, checkVars
<1>3. ASSUME NEW c \in Customers, AskIn(c) PROVE TypeOK'
    <2>1. c \in Clients /\ Message("NEW_CUSTOMER", c) \in Request
        BY Sends DEF Clients, Subjects
    <2> QED
        BY <1>3, <2>1 DEF AskIn, rowVars, holdVars, clientVars, checkVars
<1>4. ASSUME NEW e \in Clients, Ping(e) PROVE TypeOK'
    <2>1. Message("PING", e) \in Request
        BY Sends DEF Subjects
    <2> QED
        BY <1>4, <2>1 DEF Ping, rowVars, holdVars, checkVars
<1>5. ASSUME NEW e \in Clients, End(e) PROVE TypeOK'
    <2>1. Message("ORDER_DISCONNECT", e) \in Request
        BY Sends DEF Subjects
    <2>2. requests \in Seq(Request) /\ Append(requests, Message("ORDER_DISCONNECT", e)) \in Seq(Request)
        BY <2>1
    <2>3. requests' \in Seq(Request)
        BY <1>5, <2>2 DEF End
    <2> QED
        BY <1>5, <2>3 DEF End, rowVars, holdVars, checkVars
<1>6. CASE HandlePing
    <2>1. Head(requests) \in Request /\ requests' \in Seq(Request)
        BY <1>6, Taking DEF HandlePing, Receives
    <2>3. PICK e \in Clients : last' = [last EXCEPT ![e] = now] \/ last' = last
        BY <1>6, <2>1 DEF HandlePing, Stamp, Request
    <2>2. last' \in [Clients -> Nat]
      <3>1. last \in [Clients -> Nat] /\ now \in Nat
          OBVIOUS
      <3>2. CASE last' = [last EXCEPT ![e] = now]
          BY <3>1, <3>2
      <3>3. CASE last' = last
          BY <3>1, <3>3
      <3> QED
          BY <2>3, <3>2, <3>3
    <2>4. present' = present
        BY <1>6 DEF HandlePing
    <2> QED
        BY <1>6, <2>1, <2>2, <2>4 DEF HandlePing, holdVars, clientVars, checkVars
<1>7. CASE HandleNewCustomer
    <2>1. Head(requests) \in Request /\ requests' \in Seq(Request)
        BY <1>7, Taking DEF HandleNewCustomer, Receives
    <2>2. PICK c \in Clients :
            /\ \/ present' = present /\ last' = last
               \/ present' = present \cup {c} /\ last' = [last EXCEPT ![c] = now]
            /\ \/ alive' = alive /\ born' = born /\ pinged' = pinged
               \/ Begin(c)
        BY <1>7, <2>1 DEF HandleNewCustomer, Appear, Stamp, Request, rowVars, clientVars
    <2>3. last' \in [Clients -> Nat] /\ present' \subseteq Clients /\ present \subseteq present'
      <3>1. last' \in [Clients -> Nat]
          BY <2>2, WrittenOrNot
      <3> QED
          BY <2>2, <3>1
    <2>4. alive' \subseteq Clients /\ born' \in [Clients -> Nat] /\ pinged' \in [Clients -> Nat]
      <3>1. born' \in [Clients -> Nat] /\ pinged' \in [Clients -> Nat]
        <4>1. born' = born \/ born' = [born EXCEPT ![c] = now]
            BY <2>2 DEF Begin
        <4>2. pinged' = pinged \/ pinged' = [pinged EXCEPT ![c] = now]
            BY <2>2 DEF Begin
        <4>3. born' \in [Clients -> Nat]
            BY <4>1, WrittenOrNot
        <4>4. pinged' \in [Clients -> Nat]
            BY <4>2, WrittenOrNot
        <4> QED
            BY <4>3, <4>4
      <3> QED
          BY <2>2, <3>1 DEF Begin
    <2> QED
        BY <1>7, <2>1, <2>3, <2>4 DEF HandleNewCustomer, holdVars, checkVars
<1>8. CASE HandleDisconnect
    <2>1. Head(requests) \in Request /\ requests' \in Seq(Request)
        BY <1>8, Taking DEF HandleDisconnect, Receives
    <2>3. PICK e \in Clients :
            \/ present' = present /\ last' = last
            \/ e \notin carried /\ present' = present \ {e} /\ last' = [last EXCEPT ![e] = 0]
        BY <1>8, <2>1 DEF HandleDisconnect, Disappear, Request, rowVars
    <2>2. last' \in [Clients -> Nat] /\ present' \subseteq Clients /\ carried \subseteq present'
        BY <2>3, WrittenOrNot
    <2> QED
        BY <1>8, <2>1, <2>2 DEF HandleDisconnect, holdVars, clientVars, checkVars
<1>9. ASSUME NEW e \in Clients, ChangeRow(e) PROVE TypeOK'
    BY <1>9 DEF ChangeRow, Stamp, holdVars, clientVars, checkVars
<1>10. ASSUME NEW c \in Customers, PickUp(c) PROVE TypeOK'
    BY <1>10 DEF PickUp, Stamp, Clients, clientVars, checkVars
<1>14. ASSUME NEW c \in Customers, LetGo(c) PROVE TypeOK'
    <2>1. last' \in [Clients -> Nat] /\ freed' \in [Customers -> Nat]
        BY <1>14, WrittenOrNot DEF LetGo, Stamp, Clients
    <2> QED
        BY <1>14, <2>1 DEF LetGo, Clients, clientVars, checkVars
<1>11. CASE Query
    BY <1>11 DEF Query, Strays, rowVars, holdVars, clientVars
<1>12. ASSUME NEW e \in Clients, Order(e) PROVE TypeOK'
    <2>1. Message("ORDER_DISCONNECT", e) \in Request
        BY Sends DEF Subjects
    <2> QED
        BY <1>12, <2>1 DEF Order, rowVars, holdVars, clientVars
<1>13. CASE UNCHANGED vars
    BY <1>13 DEF vars, rowVars, holdVars, clientVars, checkVars
<1> QED
    BY <1>1, <1>2, <1>3, <1>4, <1>5, <1>6, <1>7, <1>8, <1>9, <1>10, <1>11, <1>12, <1>13, <1>14
    DEF Next, Handle

\* A step leaves the topic alone, takes its head, or sends one message stamped now.
LEMMA TopicSteps ==
    ASSUME TypeOK, [Next]_vars
    PROVE  \A m \in Waiting' : m \in Waiting \/ m.sent = now
<1>1. ASSUME NEW e \in Clients, NEW s \in Subjects, requests' = Append(requests, Message(s, e))
      PROVE  \A m \in Waiting' : m \in Waiting \/ m.sent = now
    BY <1>1, Sending, Sends
<1>2. ASSUME requests' = requests PROVE Waiting' = Waiting
    BY <1>2 DEF Waiting
<1>3. ASSUME Handle PROVE Waiting' \subseteq Waiting
    BY <1>3, Taking DEF Handle, HandlePing, HandleNewCustomer, HandleDisconnect, Receives
<1>4. ASSUME NEW c \in Customers, AskIn(c)
      PROVE  \A m \in Waiting' : m \in Waiting \/ m.sent = now
    BY <1>1, <1>4 DEF AskIn, Clients, Subjects
<1>5. ASSUME NEW e \in Clients, Ping(e) \/ End(e) \/ Order(e)
      PROVE  \A m \in Waiting' : m \in Waiting \/ m.sent = now
    BY <1>1, <1>2, <1>5 DEF Ping, End, Order, Subjects
<1>6. ASSUME NEW t \in Taxis, Register(t) PROVE Waiting' = Waiting
    BY <1>2, <1>6 DEF Register
<1>7. ASSUME NEW c \in Customers, PickUp(c) \/ LetGo(c) PROVE Waiting' = Waiting
    BY <1>2, <1>7 DEF PickUp, LetGo
<1>8. ASSUME NEW e \in Clients, ChangeRow(e) PROVE Waiting' = Waiting
    BY <1>2, <1>8 DEF ChangeRow
<1>9. ASSUME Tick \/ Query \/ UNCHANGED vars PROVE Waiting' = Waiting
    BY <1>2, <1>9 DEF Tick, Query, vars
<1> QED
    BY <1>3, <1>4, <1>5, <1>6, <1>7, <1>8, <1>9 DEF Next

\* Only Tick moves the clock.
LEMMA ClockStands ==
    ASSUME [Next]_vars, ~Tick
    PROVE  now' = now
BY DEF Next, Handle, Register, AskIn, PickUp, LetGo, Ping, End, ChangeRow, Order, HandlePing,
       HandleNewCustomer, HandleDisconnect, Query, vars

\* What a step does to a client that lives after it: it lived before and has sent a ping or not, or
\* it is born.
LEMMA LifeSteps ==
    ASSUME TypeOK, [Next]_vars, NEW e \in alive'
    PROVE  \/ e \in alive /\ born'[e] = born[e] /\ pinged'[e] = pinged[e]
           \/ /\ e \in alive /\ born'[e] = born[e] /\ pinged'[e] = now
              /\ Ping(e)
           \/ /\ born'[e] = now /\ pinged'[e] = now
              /\ e \in present' /\ last'[e] = now
<1> USE DEF TypeOK
<1>1. ASSUME UNCHANGED clientVars
      PROVE  e \in alive /\ born'[e] = born[e] /\ pinged'[e] = pinged[e]
    BY <1>1 DEF clientVars
<1>2. ASSUME NEW c \in Clients, Begin(c), Appear(c)
      PROVE  \/ e \in alive /\ born'[e] = born[e] /\ pinged'[e] = pinged[e]
             \/ /\ born'[e] = now /\ pinged'[e] = now
                /\ e \in present' /\ last'[e] = now
    BY <1>2 DEF Begin, Appear, Stamp
<1>3. CASE HandleNewCustomer
    <2>1. Head(requests).client \in Clients
        BY <1>3, Taking DEF HandleNewCustomer, Receives, Request
    <2> QED
        BY <1>1, <1>2, <1>3, <2>1 DEF HandleNewCustomer
<1>4. ASSUME NEW t \in Taxis, Register(t)
      PROVE  \/ e \in alive /\ born'[e] = born[e] /\ pinged'[e] = pinged[e]
             \/ /\ born'[e] = now /\ pinged'[e] = now
                /\ e \in present' /\ last'[e] = now
    BY <1>2, <1>4 DEF Register, Clients
<1>5. ASSUME NEW x \in Clients, Ping(x)
      PROVE  \/ e \in alive /\ born'[e] = born[e] /\ pinged'[e] = pinged[e]
             \/ e \in alive /\ born'[e] = born[e] /\ pinged'[e] = now /\ Ping(e)
    BY <1>5 DEF Ping
<1>6. ASSUME NEW x \in Clients, End(x)
      PROVE  e \in alive /\ born'[e] = born[e] /\ pinged'[e] = pinged[e]
    BY <1>6 DEF End
<1>7. ASSUME Tick \/ Query \/ HandlePing \/ HandleDisconnect PROVE UNCHANGED clientVars
    BY <1>7 DEF Tick, Query, HandlePing, HandleDisconnect
<1>8. ASSUME NEW c \in Customers, AskIn(c) \/ PickUp(c) \/ LetGo(c) PROVE UNCHANGED clientVars
    BY <1>8 DEF AskIn, PickUp, LetGo
<1>9. ASSUME NEW x \in Clients, ChangeRow(x) \/ Order(x) PROVE UNCHANGED clientVars
    BY <1>9 DEF ChangeRow, Order
<1>10. ASSUME UNCHANGED vars PROVE UNCHANGED clientVars
    BY <1>10 DEF vars
<1> QED
    BY <1>1, <1>3, <1>4, <1>5, <1>6, <1>7, <1>8, <1>9, <1>10 DEF Next, Handle

\* What a step does to a row that is there after it: nothing, or it is written now.
LEMMA RowSteps ==
    ASSUME TypeOK, [Next]_vars, NEW e \in present'
    PROVE  last'[e] = now \/ (e \in present /\ last'[e] = last[e])
<1> USE DEF TypeOK
<1>1. ASSUME UNCHANGED rowVars PROVE e \in present /\ last'[e] = last[e]
    BY <1>1 DEF rowVars
<1>2. ASSUME NEW x \in Clients, Stamp(x), present' = present
      PROVE  last'[e] = now \/ (e \in present /\ last'[e] = last[e])
    BY <1>2 DEF Stamp
<1>3. ASSUME NEW x \in Clients, Appear(x)
      PROVE  last'[e] = now \/ (e \in present /\ last'[e] = last[e])
    BY <1>3 DEF Appear, Stamp
<1>4. CASE Handle
    <2>1. Head(requests).client \in Clients
        BY <1>4, Taking DEF Handle, HandlePing, HandleNewCustomer, HandleDisconnect, Receives,
                            Request
    <2>2. CASE HandlePing
        BY <1>1, <1>2, <2>1, <2>2 DEF HandlePing, rowVars
    <2>3. CASE HandleNewCustomer
        BY <1>1, <1>3, <2>1, <2>3 DEF HandleNewCustomer
    <2>4. CASE HandleDisconnect
        BY <1>1, <2>1, <2>4 DEF HandleDisconnect, Disappear
    <2> QED
        BY <1>4, <2>2, <2>3, <2>4 DEF Handle
<1>5. ASSUME NEW t \in Taxis, Register(t) PROVE \E x \in Clients : Appear(x)
    BY <1>5 DEF Register, Clients
<1>6. ASSUME NEW c \in Customers, PickUp(c) \/ LetGo(c)
      PROVE  UNCHANGED rowVars \/ (present' = present /\ \E x \in Clients : Stamp(x))
    BY <1>6 DEF PickUp, LetGo, Clients, rowVars
<1>7. ASSUME NEW x \in Clients, ChangeRow(x) PROVE present' = present /\ Stamp(x)
    BY <1>7 DEF ChangeRow
<1>8. ASSUME NEW x \in Clients, Ping(x) \/ End(x) \/ Order(x) PROVE UNCHANGED rowVars
    BY <1>8 DEF Ping, End, Order
<1>9. ASSUME NEW c \in Customers, AskIn(c) PROVE UNCHANGED rowVars
    BY <1>9 DEF AskIn
<1>10. ASSUME Tick \/ Query \/ UNCHANGED vars PROVE UNCHANGED rowVars
    BY <1>10 DEF Tick, Query, vars
<1> QED
    BY <1>1, <1>2, <1>3, <1>4, <1>5, <1>6, <1>7, <1>8, <1>9, <1>10 DEF Next

LEMMA DeadlinesInductive ==
    ASSUME IInv, TypeOK', [Next]_vars
    PROVE  Deadlines'
<1> USE TimingAssumption
<1>0. TypeOK /\ Deadlines
    BY DEF IInv
<1>1. ASSUME NEW e \in alive'
      PROVE  born'[e] <= now' /\ pinged'[e] <= now' /\ now' <= pinged'[e] + Pause
    <2>1. CASE Tick
        BY <1>0, <2>1 DEF TypeOK, Tick, InTime, Deadlines, clientVars
    <2>2. CASE ~Tick
      <3>1. now' = now
          BY <2>2, ClockStands
      <3>2. \/ e \in alive /\ born'[e] = born[e] /\ pinged'[e] = pinged[e]
            \/ e \in alive /\ born'[e] = born[e] /\ pinged'[e] = now
            \/ born'[e] = now /\ pinged'[e] = now
          BY <1>0, LifeSteps
      <3> QED
          BY <1>0, <3>1, <3>2 DEF Deadlines, TypeOK
    <2> QED
        BY <2>1, <2>2
<1>2. ASSUME NEW m \in Waiting' PROVE m.sent <= now' /\ now' <= m.sent + Lag
    <2>2. CASE Tick
      <3>1. m \in Waiting
          BY <2>2 DEF Tick, Waiting
      <3>2. m.sent \in Nat
          BY <1>0, <3>1, WaitingType DEF Request
      <3> QED
          BY <1>0, <2>2, <3>1, <3>2 DEF TypeOK, Tick, InTime, Deadlines
    <2>3. CASE ~Tick
      <3>1. now' = now
          BY <2>3, ClockStands
      <3>2. m \in Waiting \/ m.sent = now
          BY <1>0, TopicSteps
      <3> QED
          BY <1>0, <3>1, <3>2 DEF Deadlines, TypeOK
    <2> QED
        BY <2>2, <2>3
<1>3. /\ checked' <= now' /\ now' <= checked' + CheckPause
      /\ found' # {} => now' <= checked' + Delay
    <2>1. CASE Tick
        BY <1>0, <2>1 DEF TypeOK, Tick, InTime, Deadlines, checkVars
    <2>2. CASE Query
        BY <1>0, <2>2 DEF TypeOK, Query
    <2>3. ASSUME NEW e \in Clients, Order(e)
          PROVE  checked' = checked /\ now' = now /\ (found' # {} => found # {})
        BY <2>3 DEF Order
    <2>4. CASE UNCHANGED checkVars /\ ~Tick
        BY <1>0, <2>4, ClockStands DEF Deadlines, checkVars
    <2>5. \/ Tick \/ Query \/ UNCHANGED checkVars
          \/ \E e \in Clients : Order(e)
        BY DEF Next, Handle, Register, AskIn, PickUp, LetGo, Ping, End, ChangeRow, HandlePing,
               HandleNewCustomer, HandleDisconnect, vars
    <2> QED
        BY <1>0, <2>1, <2>2, <2>3, <2>4, <2>5 DEF Deadlines
<1>4. ASSUME NEW e \in present' PROVE last'[e] <= now'
    <2>1. CASE Tick
        BY <1>0, <2>1 DEF TypeOK, Tick, Deadlines, rowVars
    <2>2. CASE ~Tick
      <3>1. now' = now
          BY <2>2, ClockStands
      <3>2. last'[e] = now \/ (e \in present /\ last'[e] = last[e])
          BY <1>0, RowSteps
      <3> QED
          BY <1>0, <3>1, <3>2 DEF Deadlines, TypeOK
    <2> QED
        BY <2>1, <2>2
<1> QED
    BY <1>1, <1>2, <1>3, <1>4 DEF Deadlines

\* A message leaves the topic only when it is handled.
LEMMA NothingLost ==
    ASSUME TypeOK, [Next]_vars, NEW m \in Waiting, m \notin Waiting'
    PROVE  Handle /\ m = Head(requests)
<1>1. ASSUME NEW e \in Clients, NEW s \in Subjects, requests' = Append(requests, Message(s, e))
      PROVE  FALSE
    BY <1>1, Sending, Sends
<1>2. ASSUME requests' = requests PROVE FALSE
    BY <1>2 DEF Waiting
<1>3. ASSUME Handle PROVE m = Head(requests)
    BY <1>3, Taking DEF Handle, HandlePing, HandleNewCustomer, HandleDisconnect, Receives
<1>4. ASSUME NEW c \in Customers, AskIn(c) PROVE FALSE
    BY <1>1, <1>4 DEF AskIn, Clients, Subjects
<1>5. ASSUME NEW e \in Clients, Ping(e) \/ End(e) \/ Order(e) PROVE FALSE
    BY <1>1, <1>2, <1>5 DEF Ping, End, Order, Subjects
<1>6. ASSUME NEW t \in Taxis, Register(t) PROVE FALSE
    BY <1>2, <1>6 DEF Register
<1>7. ASSUME NEW c \in Customers, PickUp(c) \/ LetGo(c) PROVE FALSE
    BY <1>2, <1>7 DEF PickUp, LetGo
<1>8. ASSUME NEW e \in Clients, ChangeRow(e) PROVE FALSE
    BY <1>2, <1>8 DEF ChangeRow
<1>9. ASSUME Tick \/ Query \/ UNCHANGED vars PROVE FALSE
    BY <1>2, <1>9 DEF Tick, Query, vars
<1> QED
    BY <1>3, <1>4, <1>5, <1>6, <1>7, <1>8, <1>9 DEF Next

LEMMA HeardInductive ==
    ASSUME IInv, TypeOK', [Next]_vars
    PROVE  Heard'
<1> SUFFICES ASSUME NEW e \in alive' \cap present'
    PROVE  \/ pinged'[e] <= last'[e]
           \/ \E m \in Waiting' : m.subject = "PING" /\ m.client = e /\ m.sent <= last'[e] + Pause
    BY DEF Heard
<1> USE TimingAssumption
<1>0. TypeOK /\ Deadlines /\ Heard
    BY DEF IInv
<1>4. \/ e \in alive /\ pinged'[e] = pinged[e]
      \/ e \in alive /\ pinged'[e] = now /\ Ping(e)
      \/ pinged'[e] = now /\ last'[e] = now
    BY <1>0, LifeSteps
<1>5. last'[e] = now \/ (e \in present /\ last'[e] = last[e])
    BY <1>0, RowSteps
<1>1. CASE last'[e] = now
    <2>1. pinged'[e] <= now
        BY <1>0, <1>4 DEF Deadlines, TypeOK
    <2> QED
        BY <1>1, <2>1
<1>2. CASE e \in present /\ last'[e] = last[e] /\ Ping(e)
    <2>1. pinged[e] <= last[e] => now <= last[e] + Pause
        BY <1>0, <1>2 DEF Ping, Deadlines, TypeOK
    <2>2. e \in alive /\ e \in Clients /\ requests' = Append(requests, Message("PING", e))
        BY <1>0, <1>2 DEF Ping, TypeOK
    <2>3. "PING" \in Subjects
        BY DEF Subjects
    <2>4. Waiting' = Waiting \cup {Message("PING", e)}
        BY <1>0, <2>2, <2>3, Sending, Sends
    <2> QED
        BY <1>0, <1>2, <2>1, <2>2, <2>4 DEF Heard, Message
<1>3. CASE /\ e \in present /\ last'[e] = last[e]
           /\ e \in alive /\ pinged'[e] = pinged[e]
    <2>1. CASE pinged[e] <= last[e]
        BY <1>3, <2>1
    <2>2. CASE ~(pinged[e] <= last[e])
        <3>1. PICK m \in Waiting :
                m.subject = "PING" /\ m.client = e /\ m.sent <= last[e] + Pause
            BY <1>0, <1>3, <2>2 DEF Heard
        <3>2. CASE m \in Waiting'
            BY <1>3, <3>1, <3>2
        <3>3. CASE m \notin Waiting'
            <4>1. HandlePing
                BY <1>0, <3>1, <3>3, NothingLost DEF Handle, HandleNewCustomer, HandleDisconnect, Receives
            <4>2. last'[e] = now
                BY <1>0, <1>3, <3>1, <3>3, <4>1, NothingLost DEF HandlePing, Stamp, TypeOK
            <4> QED
                BY <1>1, <4>2
        <3> QED
            BY <3>2, <3>3
    <2> QED
        BY <2>1, <2>2
<1> QED
    BY <1>1, <1>2, <1>3, <1>4, <1>5

\* No query finds a client that lives.
LEMMA LivingNotStray ==
    ASSUME IInv, NEW e \in alive
    PROVE  e \notin Strays
<1> USE TimingAssumption
<1>0. TypeOK /\ Deadlines /\ Heard
    BY DEF IInv
<1> SUFFICES ASSUME e \in present, last[e] < now - Patience PROVE FALSE
    BY DEF Strays
<1>1. CASE pinged[e] <= last[e]
    BY <1>0, <1>1 DEF Deadlines, TypeOK, Patience
<1>2. ASSUME NEW m \in Waiting, m.sent <= last[e] + Pause PROVE FALSE
    <2>1. m.sent \in Nat
        BY <1>0, WaitingType DEF Request
    <2> QED
        BY <1>0, <1>2, <2>1 DEF Deadlines, TypeOK, Patience
<1> QED
    BY <1>0, <1>1, <1>2 DEF Heard

\* Where an order to disconnect comes from: from checkStrays, or from an engine that has stopped.
LEMMA OrderSteps ==
    ASSUME TypeOK, [Next]_vars, NEW m \in Waiting', m \notin Waiting,
           m.subject = "ORDER_DISCONNECT"
    PROVE  m.client \notin alive' \/ (m.client \in found /\ Order(m.client))
<1>1. ASSUME NEW e \in Clients, NEW s \in Subjects, requests' = Append(requests, Message(s, e))
      PROVE  s = "ORDER_DISCONNECT" /\ m.client = e
    BY <1>1, Sending, Sends DEF Message
<1>2. ASSUME requests' = requests PROVE FALSE
    BY <1>2 DEF Waiting
<1>3. ASSUME Handle PROVE FALSE
    BY <1>3, Taking DEF Handle, HandlePing, HandleNewCustomer, HandleDisconnect, Receives
<1>4. ASSUME NEW c \in Customers, AskIn(c) PROVE FALSE
    BY <1>1, <1>4 DEF AskIn, Clients, Subjects
<1>5. ASSUME NEW e \in Clients, Ping(e) PROVE FALSE
    BY <1>1, <1>5 DEF Ping, Subjects
<1>6. ASSUME NEW e \in Clients, End(e) PROVE m.client \notin alive'
    BY <1>1, <1>2, <1>6 DEF End, Subjects
<1>7. ASSUME NEW e \in Clients, Order(e) PROVE m.client = e /\ e \in found
    BY <1>1, <1>7 DEF Order, Subjects
<1>8. ASSUME NEW t \in Taxis, Register(t) PROVE FALSE
    BY <1>2, <1>8 DEF Register
<1>9. ASSUME NEW c \in Customers, PickUp(c) \/ LetGo(c) PROVE FALSE
    BY <1>2, <1>9 DEF PickUp, LetGo
<1>10. ASSUME NEW e \in Clients, ChangeRow(e) PROVE FALSE
    BY <1>2, <1>10 DEF ChangeRow
<1>11. ASSUME Tick \/ Query \/ UNCHANGED vars PROVE FALSE
    BY <1>2, <1>11 DEF Tick, Query, vars
<1> QED
    BY <1>3, <1>4, <1>5, <1>6, <1>7, <1>8, <1>9, <1>10, <1>11 DEF Next

\* checkStrays queries, sends an order, or does nothing.
LEMMA CheckSteps ==
    ASSUME [Next]_vars
    PROVE  \/ Query
           \/ found' \subseteq found /\ checked' = checked
BY DEF Next, Handle, Register, AskIn, PickUp, LetGo, Ping, End, ChangeRow, Order, Tick, HandlePing,
       HandleNewCustomer, HandleDisconnect, vars, checkVars

LEMMA OldOrdersInductive ==
    ASSUME IInv, TypeOK', [Next]_vars
    PROVE  OldOrders'
<1> SUFFICES ASSUME NEW e \in alive'
    PROVE  /\ e \in found' => checked' <= born'[e]
           /\ \A m \in Waiting' :
                m.subject = "ORDER_DISCONNECT" /\ m.client = e => m.sent <= born'[e] + Delay
    BY DEF OldOrders
<1> USE TimingAssumption
<1>0. TypeOK /\ Deadlines /\ OldOrders
    BY DEF IInv
<1>1. (e \in alive /\ born'[e] = born[e]) \/ born'[e] = now
    BY <1>0, LifeSteps
<1>2. e \in found' => checked' <= born'[e]
    <2>1. CASE Query
      <3>1. e \in alive
          BY <2>1 DEF Query, clientVars
      <3> QED
          BY <2>1, <3>1, LivingNotStray DEF Query
    <2>2. CASE found' \subseteq found /\ checked' = checked
        BY <1>0, <1>1, <2>2 DEF OldOrders, Deadlines
    <2> QED
        BY <2>1, <2>2, CheckSteps
<1>3. ASSUME NEW m \in Waiting', m.subject = "ORDER_DISCONNECT", m.client = e
      PROVE  m.sent <= born'[e] + Delay
    <2>1. CASE m \in Waiting
      <3>1. m.sent \in Nat /\ m.sent <= now
          BY <1>0, <2>1, WaitingType DEF Request, Deadlines
      <3>2. CASE born'[e] = now
          BY <1>0, <3>1, <3>2 DEF TypeOK
      <3>3. CASE e \in alive /\ born'[e] = born[e]
          BY <1>0, <1>3, <2>1, <3>3 DEF OldOrders
      <3> QED
          BY <1>1, <3>2, <3>3
    <2>2. CASE m \notin Waiting
      <3>1. m.sent = now
          BY <1>0, <2>2, TopicSteps
      <3>2. e \in found /\ Order(e)
          BY <1>0, <1>3, <2>2, OrderSteps
      <3>3. now <= checked + Delay
          BY <1>0, <3>2 DEF Deadlines
      <3>4. born'[e] = now \/ checked <= born[e]
          BY <1>0, <1>1, <3>2 DEF OldOrders
      <3> QED
          BY <1>0, <1>1, <3>1, <3>3, <3>4 DEF TypeOK
    <2> QED
        BY <2>1, <2>2
<1> QED
    BY <1>2, <1>3

\* A client's reprieves only grow later, and letting a customer go is one.
LEMMA ReprieveSteps ==
    ASSUME TypeOK, TypeOK', [Next]_vars, NEW e \in present' \ carried'
    PROVE  \/ now \in Reprieves(e)'
           \/ /\ e \in present \ carried
              /\ Reprieves(e)' = Reprieves(e)
<1>1. last'[e] = now \/ (e \in present /\ last'[e] = last[e])
    BY RowSteps
<1>2. CASE last'[e] = now
    BY <1>2 DEF Reprieves
<1>3. ASSUME NEW c \in Customers, LetGo(c)
      PROVE  \/ now \in Reprieves(e)'
             \/ e \notin carried /\ \A d \in Customers \cap {e} : freed'[d] = freed[d]
    BY <1>3 DEF LetGo, Reprieves, TypeOK
<1>4. ASSUME NEW c \in Customers, PickUp(c)
      PROVE  e \notin carried /\ \A d \in Customers \cap {e} : freed'[d] = freed[d]
    BY <1>4 DEF PickUp
<1>5. ASSUME UNCHANGED holdVars
      PROVE  e \notin carried /\ \A d \in Customers \cap {e} : freed'[d] = freed[d]
    BY <1>5 DEF holdVars
<1>6. \/ UNCHANGED holdVars
      \/ \E c \in Customers : PickUp(c) \/ LetGo(c)
    BY DEF Next, Handle, Register, AskIn, Ping, End, ChangeRow, Order, Tick, HandlePing,
           HandleNewCustomer, HandleDisconnect, Query, vars
<1>7. \/ now \in Reprieves(e)'
      \/ e \notin carried /\ \A d \in Customers \cap {e} : freed'[d] = freed[d]
    BY <1>3, <1>4, <1>5, <1>6
<1>8. CASE /\ e \in present /\ last'[e] = last[e]
           /\ e \notin carried /\ \A d \in Customers \cap {e} : freed'[d] = freed[d]
    BY <1>8 DEF Reprieves
<1> QED
    BY <1>1, <1>2, <1>7, <1>8

\* Only checkStrays forgets whom it has found, by sending the order.
LEMMA FoundSteps ==
    ASSUME TypeOK, [Next]_vars, NEW e \in found, e \notin found'
    PROVE  Order(e)
BY DEF TypeOK, Next, Handle, Register, AskIn, PickUp, LetGo, Ping, End, ChangeRow, Order, Tick,
       HandlePing, HandleNewCustomer, HandleDisconnect, Query, vars, checkVars

\* Only an order to disconnect takes a client off the map, unless a taxi refers to it.
LEMMA LeavingSteps ==
    ASSUME TypeOK, [Next]_vars, NEW e \in present, e \notin present'
    PROVE  /\ HandleDisconnect /\ Head(requests).client = e
           /\ Head(requests) \in Waiting /\ Head(requests).subject = "ORDER_DISCONNECT"
<1>1. HandleDisconnect
    BY DEF Next, Handle, Register, Appear, AskIn, PickUp, LetGo, Ping, End, ChangeRow, Order, Tick,
           HandlePing, HandleNewCustomer, Query, vars, rowVars
<1>2. Head(requests).client = e
    BY <1>1 DEF HandleDisconnect, Disappear, rowVars
<1>3. requests # <<>> /\ requests \in Seq(Request)
    BY <1>1 DEF HandleDisconnect, Receives, TypeOK
<1>4. Head(requests) = requests[1] /\ 1 \in DOMAIN requests
    BY <1>3
<1> QED
    BY <1>1, <1>2, <1>4 DEF HandleDisconnect, Receives, Waiting

LEMMA ReprievesType ==
    ASSUME TypeOK, NEW e \in Clients
    PROVE  Reprieves(e) \subseteq Nat
BY DEF TypeOK, Reprieves

LEMMA ChasedInductive ==
    ASSUME IInv, TypeOK', [Next]_vars
    PROVE  Chased'
<1> SUFFICES ASSUME NEW e \in present' \ carried'
    PROVE  \E r \in Reprieves(e)' :
        \/ checked' <= r + Patience
        \/ e \in found' /\ checked' <= r + Patience + CheckPause
        \/ \E m \in Waiting' :
            /\ m.subject = "ORDER_DISCONNECT" /\ m.client = e
            /\ m.sent <= r + Patience + CheckPause + Delay
    BY DEF Chased
<1> USE TimingAssumption DEF Patience
<1>0. TypeOK /\ Deadlines /\ Chased
    BY DEF IInv
<1>1. now \in Nat /\ checked \in Nat /\ checked' \in Nat
    BY <1>0 DEF TypeOK
<1>2. checked' <= now
    <2>1. checked <= now
        BY <1>0 DEF Deadlines
    <2> QED
        BY <1>1, <2>1, CheckSteps DEF Query
<1>3. CASE now \in Reprieves(e)'
    BY <1>1, <1>2, <1>3
<1>4. CASE e \in present \ carried /\ Reprieves(e)' = Reprieves(e)
    <2>0. e \in Clients /\ last[e] \in Reprieves(e) /\ last[e] \in Nat
        BY <1>0, <1>4 DEF TypeOK, Reprieves
    <2>1. PICK r \in Reprieves(e) :
            \/ checked <= r + Patience
            \/ e \in found /\ checked <= r + Patience + CheckPause
            \/ \E m \in Waiting :
                /\ m.subject = "ORDER_DISCONNECT" /\ m.client = e
                /\ m.sent <= r + Patience + CheckPause + Delay
        BY <1>0, <1>4 DEF Chased
    <2>2. r \in Nat /\ r \in Reprieves(e)'
        BY <1>0, <1>4, <2>0, <2>1, ReprievesType
    <2>3. CASE checked <= r + Patience
      <3>1. CASE checked' = checked
          BY <2>2, <2>3, <3>1
      <3>2. CASE Query /\ e \in Strays
        <4>1. checked' = now /\ now <= checked + CheckPause /\ e \in found'
            BY <1>0, <3>2 DEF Query, Deadlines
        <4>2. checked' <= r + Patience + CheckPause
            BY <1>1, <2>2, <2>3, <4>1
        <4> QED
            BY <2>2, <4>1, <4>2
      <3>3. CASE Query /\ e \notin Strays
        <4>1. checked' = now /\ ~(last[e] < now - Patience)
            BY <1>4, <3>3 DEF Query, Strays
        <4>2. checked' <= last[e] + Patience
            BY <1>1, <2>0, <4>1
        <4> QED
            BY <1>4, <2>0, <4>2
      <3> QED
          BY <3>1, <3>2, <3>3, CheckSteps
    <2>4. CASE e \in found /\ checked <= r + Patience + CheckPause
      <3>1. checked' = checked
          BY <2>4, CheckSteps DEF Query
      <3>2. CASE e \in found'
          BY <2>2, <2>4, <3>1, <3>2
      <3>3. CASE e \notin found'
        <4>1. Order(e)
            BY <1>0, <2>4, <3>3, FoundSteps
        <4>2. "ORDER_DISCONNECT" \in Subjects
            BY DEF Subjects
        <4>3. Message("ORDER_DISCONNECT", e) \in Request
            BY <1>0, <2>0, <4>2, Sends
        <4>4. Message("ORDER_DISCONNECT", e) \in Waiting'
            BY <1>0, <4>1, <4>3, Sending DEF Order
        <4>5. now <= checked + Delay
            BY <1>0, <2>4 DEF Deadlines
        <4>6. now <= r + Patience + CheckPause + Delay
            BY <1>1, <2>2, <2>4, <4>5
        <4> QED
            BY <2>2, <4>4, <4>6 DEF Message
      <3> QED
          BY <3>2, <3>3
    <2>5. ASSUME NEW m \in Waiting,
                 m.subject = "ORDER_DISCONNECT", m.client = e,
                 m.sent <= r + Patience + CheckPause + Delay
          PROVE  m \in Waiting'
      <3> SUFFICES ASSUME m \notin Waiting' PROVE FALSE
          OBVIOUS
      <3>1. Handle /\ m = Head(requests)
          BY <1>0, NothingLost
      <3>2. HandleDisconnect
          BY <2>5, <3>1 DEF Handle, HandlePing, HandleNewCustomer, Receives
      <3> QED
          BY <1>4, <2>5, <3>1, <3>2 DEF HandleDisconnect, Disappear
    <2> QED
        BY <2>1, <2>2, <2>3, <2>4, <2>5
<1> QED
    BY <1>0, <1>3, <1>4, ReprieveSteps

LEMMA IInvInductive == IInv /\ [Next]_vars => IInv'
<1> SUFFICES ASSUME IInv, [Next]_vars PROVE IInv'
    OBVIOUS
<1>1. TypeOK'
    BY TypeInductive DEF IInv
<1> QED
    BY <1>1, DeadlinesInductive, HeardInductive, OldOrdersInductive, ChasedInductive DEF IInv

LEMMA SpecIInv == Spec => []IInv
BY InitIInv, IInvInductive, PTL DEF Spec

-----------------------------------------------------------------------------
(* Theorems                                                                *)

\* Every reachable state of clients, rows and topic is one TypeOK describes; carried customers in
\* particular keep their rows (the foreign key taxis.customer_id of initialize.sql).
THEOREM TypeCorrect == Spec => []TypeOK
<1>1. IInv => TypeOK
    BY DEF IInv
<1> QED
    BY <1>1, SpecIInv, PTL

\* Whoever counts as present and is not being carried was heard of, or let go of, in the last
\* Patience + CheckPause + Delay + Lag seconds: checkStrays and the central's two handlers get rid
\* of everybody else in time.
THEOREM NobodyLingersTheorem == Spec => []NobodyLingers
<1>1. ASSUME IInv PROVE NobodyLingers
    <2> SUFFICES ASSUME NEW e \in present \ carried
        PROVE  \/ now <= last[e] + (Patience + CheckPause + Delay + Lag)
               \/ e \in Customers /\ now <= freed[e] + (Patience + CheckPause + Delay + Lag)
        BY DEF NobodyLingers
    <2> USE TimingAssumption DEF Patience
    <2>0. TypeOK /\ Deadlines /\ Chased
        BY <1>1 DEF IInv
    <2>1. PICK r \in Reprieves(e) :
            \/ checked <= r + Patience
            \/ e \in found /\ checked <= r + Patience + CheckPause
            \/ \E m \in Waiting :
                /\ m.subject = "ORDER_DISCONNECT" /\ m.client = e
                /\ m.sent <= r + Patience + CheckPause + Delay
        BY <2>0 DEF Chased
    <2>2. now \in Nat /\ checked \in Nat /\ r \in Nat
        BY <2>0, ReprievesType DEF TypeOK
    <2>3. now <= r + (Patience + CheckPause + Delay + Lag)
      <3>1. CASE checked <= r + Patience
          BY <2>0, <2>2, <3>1 DEF Deadlines
      <3>2. CASE e \in found /\ checked <= r + Patience + CheckPause
        <4>1. now <= checked + Delay
            BY <2>0, <3>2 DEF Deadlines
        <4> QED
            BY <2>2, <3>2, <4>1
      <3>3. ASSUME NEW m \in Waiting, m.sent <= r + Patience + CheckPause + Delay
            PROVE  now <= r + (Patience + CheckPause + Delay + Lag)
        <4>1. m.sent \in Nat /\ now <= m.sent + Lag
            BY <2>0, WaitingType DEF Request, Deadlines
        <4> QED
            BY <2>2, <3>3, <4>1
      <3> QED
          BY <2>1, <3>1, <3>2, <3>3
    <2>4. r = last[e] \/ (e \in Customers /\ r = freed[e])
        BY DEF Reprieves
    <2> QED
        BY <2>3, <2>4
<1> QED
    BY <1>1, SpecIInv, PTL

\* Provided that Pause + Lag <= 3, the central never disconnects a client that keeps sending pings,
\* except by an order that was decided before its present life began.
THEOREM OnlyNewcomersTheorem == Spec => OnlyNewcomersDisconnected
<1>1. IInv /\ [Next]_vars =>
        [\A e \in alive : e \in present \ present' => now <= born[e] + Delay + Lag]_vars
    <2> SUFFICES ASSUME IInv, [Next]_vars, NEW e \in alive, e \in present, e \notin present'
        PROVE  now <= born[e] + Delay + Lag
        OBVIOUS
    <2> USE TimingAssumption
    <2>0. TypeOK /\ Deadlines /\ OldOrders
        BY DEF IInv
    <2>1. PICK m \in Waiting : m.subject = "ORDER_DISCONNECT" /\ m.client = e
        BY <2>0, LeavingSteps
    <2>2. m.sent \in Nat /\ now <= m.sent + Lag
        BY <2>0, WaitingType DEF Request, Deadlines
    <2>3. m.sent <= born[e] + Delay
        BY <2>0, <2>1 DEF OldOrders
    <2> QED
        BY <2>0, <2>2, <2>3 DEF TypeOK
<1> QED
    BY <1>1, SpecIInv, PTL DEF Spec, OnlyNewcomersDisconnected
=============================================================================

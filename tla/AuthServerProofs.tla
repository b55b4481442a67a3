-------------------------- MODULE AuthServerProofs --------------------------
(***************************************************************************)
(* What holds of the authentication for any number of engines, ids shared  *)
(* or not, and tries.                                                      *)
(***************************************************************************)
EXTENDS AuthServer, TLAPS

-----------------------------------------------------------------------------
(* Frames in a sequence                                                    *)

Has(s, f) == \E i \in DOMAIN s : s[i] = f

AtMostOnce(s, f) == \A i, j \in DOMAIN s : s[i] = f /\ s[j] = f => i = j

LEMMA AppendHas ==
    ASSUME NEW S, NEW s \in Seq(S), NEW x \in S, NEW f
    PROVE  /\ Has(Append(s, x), f) <=> Has(s, f) \/ x = f
           /\ AtMostOnce(s, f) /\ (x = f => ~Has(s, f)) => AtMostOnce(Append(s, x), f)
<1>1. /\ Append(s, x) \in Seq(S) /\ Len(Append(s, x)) = Len(s) + 1
      /\ \A i \in DOMAIN s : Append(s, x)[i] = s[i]
      /\ Append(s, x)[Len(s) + 1] = x
  OBVIOUS
<1>2. DOMAIN s = 1..Len(s) /\ DOMAIN Append(s, x) = 1..(Len(s) + 1) /\ Len(s) \in Nat
  BY <1>1
<1>3. \A i \in DOMAIN Append(s, x) : i \in DOMAIN s \/ i = Len(s) + 1
  BY <1>2
<1>4. DOMAIN s \subseteq DOMAIN Append(s, x) /\ Len(s) + 1 \in DOMAIN Append(s, x)
  BY <1>2
<1>5. QED BY ONLY <1>1, <1>3, <1>4 DEF Has, AtMostOnce

LEMMA AppendAt ==
    ASSUME NEW S, NEW s \in Seq(S), NEW x \in S
    PROVE  /\ DOMAIN Append(s, x) = DOMAIN s \cup {Len(s) + 1} /\ Append(s, x)[Len(s) + 1] = x
           /\ \A i \in DOMAIN s : Append(s, x)[i] = s[i]
           /\ Len(s) + 1 \notin DOMAIN s
<1>1. /\ Append(s, x) \in Seq(S) /\ Len(Append(s, x)) = Len(s) + 1
      /\ \A i \in DOMAIN s : Append(s, x)[i] = s[i]
      /\ Append(s, x)[Len(s) + 1] = x
  OBVIOUS
<1>2. DOMAIN s = 1..Len(s) /\ DOMAIN Append(s, x) = 1..(Len(s) + 1) /\ Len(s) \in Nat
  BY <1>1
<1>3. QED BY <1>1, <1>2

LEMMA TailHas ==
    ASSUME NEW S, NEW s \in Seq(S), s # <<>>, NEW f
    PROVE  /\ Has(Tail(s), f) => Has(s, f)
           /\ Head(s) = f => Has(s, f)
           /\ AtMostOnce(s, f) => AtMostOnce(Tail(s), f)
           /\ AtMostOnce(s, f) /\ Head(s) = f => ~Has(Tail(s), f)
<1>1. /\ Tail(s) \in Seq(S) /\ Len(Tail(s)) = Len(s) - 1 /\ Head(s) = s[1] /\ Len(s) \in Nat \ {0}
      /\ \A i \in 1..(Len(s) - 1) : Tail(s)[i] = s[i + 1]
  OBVIOUS
<1>2. DOMAIN s = 1..Len(s) /\ DOMAIN Tail(s) = 1..(Len(s) - 1)
  BY <1>1
<1>3. QED BY <1>1, <1>2 DEF Has, AtMostOnce

LEMMA EmptyHas == \A f : ~Has(<<>>, f) /\ AtMostOnce(<<>>, f)
BY DEF Has, AtMostOnce

-----------------------------------------------------------------------------
(* Types                                                                   *)

LEMMA SaysType ==
    ASSUME TypeOK, NEW e \in Engines, NEW frame \in EngineFrames, Says(e, frame)
    PROVE  toCentral' \in [Engines -> Seq(EngineFrames)]
BY DEF TypeOK, Says

LEMMA ReplyType ==
    ASSUME TypeOK, NEW e \in Engines, NEW frame \in CentralFrames, Reply(e, frame)
    PROVE  /\ toEngine' \in [Engines -> Seq(CentralFrames)] /\ up' \in BOOLEAN
           /\ queued' \in Seq(Announcements)
<1>1. CASE HungUp(e) /\ UNCHANGED <<toEngine, queued, up>>
  BY <1>1 DEF TypeOK
<1>2. CASE HungUp(e) /\ UNCHANGED toEngine /\ Ends
  <2>1. toEngine' = toEngine /\ up' = FALSE /\ queued' = <<>>
    BY <1>2 DEF Ends
  <2>2. queued' \in Seq(Announcements)
    BY <2>1
  <2>3. up' \in BOOLEAN
    BY <2>1
  <2>4. QED BY <2>1, <2>2, <2>3 DEF TypeOK
<1>3. CASE ~HungUp(e)
  <2>1. /\ toEngine' = [toEngine EXCEPT ![e] = Append(toEngine[e], frame)]
        /\ up' = up /\ queued' = queued
    BY <1>3 DEF Reply
  <2>2. toEngine[e] \in Seq(CentralFrames) /\ up \in BOOLEAN
    BY DEF TypeOK
  <2>3. Append(toEngine[e], frame) \in Seq(CentralFrames)
    BY <2>2
  <2>4. QED BY <2>1, <2>2, <2>3 DEF TypeOK
<1>4. QED BY <1>1, <1>2, <1>3 DEF Reply

LEMMA FailsType ==
    ASSUME TypeOK, NEW e \in Engines, NEW late \in BOOLEAN, Fails(e, late),
           UNCHANGED <<petition, row, link, queued, log, up>>
    PROVE  TypeOK'
<1>1. engine' \in [Engines -> EngineState]
  BY DEF Fails, TypeOK, EngineState
<1>2. toCentral' \in [Engines -> Seq(EngineFrames)]
  BY SaysType DEF Fails, EngineFrames
<1>3. toEngine' \in [Engines -> Seq(CentralFrames)]
  BY DEF Fails, TypeOK
<1>4. QED BY <1>1, <1>2, <1>3 DEF TypeOK

LEMMA AsksAgainType ==
    ASSUME TypeOK, NEW e \in Engines, NEW late \in BOOLEAN, AsksAgain(e, late),
           UNCHANGED <<petition, row, link, queued, log, up>>
    PROVE  TypeOK'
<1>1. CASE Fails(e, late)
  BY <1>1, FailsType
<1>2. CASE engine[e].try < Tries /\ ~Fails(e, late)
  <2>1. engine[e] \in EngineState /\ engine[e].try + 1 \in 0..Tries
    BY <1>2, TriesAssumption DEF TypeOK, EngineState
  <2>2. engine' \in [Engines -> EngineState]
    <3> DEFINE n == engine[e].try + 1
    <3>1. engine' = [engine EXCEPT ![e].try = n, ![e].late = late]
      BY <1>2 DEF AsksAgain
    <3>2. n \in 0..Tries /\ engine \in [Engines -> EngineState]
      BY <2>1 DEF TypeOK
    <3> HIDE DEF n
    <3> QED BY <3>1, <3>2 DEF EngineState
  <2>3. toCentral' \in [Engines -> Seq(EngineFrames)]
    BY <1>2, SaysType DEF AsksAgain, EngineFrames
  <2>4. toEngine' \in [Engines -> Seq(CentralFrames)]
    <3>1. toEngine[e] \in Seq(CentralFrames)
      BY DEF TypeOK
    <3>2. (IF toEngine[e] = <<>> THEN toEngine[e] ELSE Tail(toEngine[e])) \in Seq(CentralFrames)
      BY <3>1
    <3>3. toEngine' = [toEngine EXCEPT ![e] =
              IF toEngine[e] = <<>> THEN toEngine[e] ELSE Tail(toEngine[e])]
      BY <1>2 DEF AsksAgain
    <3> QED BY <3>2, <3>3 DEF TypeOK
  <2>5. QED BY <2>2, <2>3, <2>4 DEF TypeOK
<1>3. QED BY <1>1, <1>2 DEF AsksAgain

\* What an engine or a petition records, and every frame and announcement, keeps its type however
\* the two ends interleave: in particular no more than Tries attempts are counted.
THEOREM AuthTypes == Spec => []TypeOK
<1>1. Init => TypeOK
  <2> SUFFICES ASSUME Init PROVE TypeOK
    OBVIOUS
  <2>1. engine \in [Engines -> EngineState] /\ petition \in [Engines -> PetitionState]
    BY TriesAssumption DEF Init, EngineState, PetitionState
  <2> QED BY <2>1 DEF Init, TypeOK
<1>2. TypeOK /\ [Next]_vars => TypeOK'
  <2> SUFFICES ASSUME TypeOK, [Next]_vars PROVE TypeOK'
    OBVIOUS
  <2>0. \A e \in Engines : engine[e] \in EngineState /\ petition[e] \in PetitionState
    BY DEF TypeOK
  <2>1. CASE UNCHANGED vars
    BY <2>1 DEF vars, TypeOK
  <2>2. ASSUME NEW e \in Engines, Connects(e) PROVE TypeOK'
    <3>1. engine' \in [Engines -> EngineState]
      <4>1. 1 \in 0..Tries
        BY TriesAssumption
      <4> QED BY <2>2, <4>1 DEF Connects, TypeOK, EngineState
    <3>2. petition' \in [Engines -> PetitionState]
      BY <2>2 DEF Connects, TypeOK, PetitionState
    <3>3. toCentral' \in [Engines -> Seq(EngineFrames)]
      BY <2>2, SaysType DEF Connects, EngineFrames
    <3> QED BY <2>2, <3>1, <3>2, <3>3 DEF TypeOK, Connects
  <2>16. ASSUME NEW e \in Engines, FindsNobody(e) PROVE TypeOK'
    <3>1. engine' \in [Engines -> EngineState]
      BY <2>16 DEF FindsNobody, TypeOK, EngineState
    <3> QED BY <2>16, <3>1 DEF TypeOK, FindsNobody
  <2>3. ASSUME NEW e \in Engines, WaitsInVain(e) \/ HearsNack(e) PROVE TypeOK'
    BY <2>0, <2>3, AsksAgainType DEF WaitsInVain, HearsNack, EngineState
  <2>4. ASSUME NEW e \in Engines, HearsAck(e) PROVE TypeOK'
    <3>1. engine' \in [Engines -> EngineState]
      BY <2>4 DEF HearsAck, TypeOK, EngineState
    <3>2. toCentral' \in [Engines -> Seq(EngineFrames)]
      BY <2>4, SaysType DEF HearsAck, EngineFrames
    <3>3. toEngine' \in [Engines -> Seq(CentralFrames)]
      BY <2>4 DEF HearsAck, TypeOK
    <3> QED BY <2>4, <3>1, <3>2, <3>3 DEF TypeOK, HearsAck
  <2>5. ASSUME NEW e \in Engines, HearsGrant(e) PROVE TypeOK'
    <3>1. engine' \in [Engines -> EngineState]
      BY <2>5 DEF HearsGrant, TypeOK, EngineState
    <3>2. toCentral' \in [Engines -> Seq(EngineFrames)]
      BY <2>5, SaysType DEF HearsGrant, EngineFrames
    <3>3. toEngine' \in [Engines -> Seq(CentralFrames)]
      BY <2>5 DEF HearsGrant, TypeOK
    <3> QED BY <2>5, <3>1, <3>2, <3>3 DEF TypeOK, HearsGrant
  <2>6. ASSUME NEW e \in Engines, HearsRefusal(e) \/ ProposesInVain(e) \/ FindsClosed(e)
        PROVE  TypeOK'
    BY <2>0, <2>6, FailsType DEF HearsRefusal, ProposesInVain, FindsClosed, EngineState, Attended
  <2>7. ASSUME NEW e \in Engines, Killed(e) PROVE TypeOK'
    <3>1. engine' \in [Engines -> EngineState]
      BY <2>7 DEF Killed, TypeOK, EngineState
    <3>2. toEngine' \in [Engines -> Seq(CentralFrames)]
      BY <2>7 DEF Killed, TypeOK
    <3> QED BY <2>7, <3>1, <3>2 DEF TypeOK, Killed
  <2>8. ASSUME NEW e \in Engines, AttendsEnq(e) PROVE TypeOK'
    <3>1. toCentral' \in [Engines -> Seq(EngineFrames)]
      BY <2>8 DEF AttendsEnq, Receives, TypeOK
    <3>2. /\ toEngine' \in [Engines -> Seq(CentralFrames)] /\ up' \in BOOLEAN
          /\ queued' \in Seq(Announcements)
      BY <2>8, ReplyType DEF AttendsEnq, CentralFrames
    <3>3. link' \in {"closed", "open", "lost"}
      BY <2>8 DEF AttendsEnq, TypeOK
    <3> QED BY <2>8, <3>1, <3>2, <3>3 DEF TypeOK, AttendsEnq
  <2>9. ASSUME NEW e \in Engines, ChecksId(e) PROVE TypeOK'
    <3>1. petition' \in [Engines -> PetitionState]
      <4> DEFINE again == row[IdOf[e]] = "disconnected"
      <4>1. \/ UNCHANGED petition
            \/ petition' = [petition EXCEPT ![e].at = "checked", ![e].reconnect = again]
        BY <2>9 DEF ChecksId
      <4>2. again \in BOOLEAN
        OBVIOUS
      <4> HIDE DEF again
      <4>3. ASSUME petition' = [petition EXCEPT ![e].at = "checked", ![e].reconnect = again]
            PROVE  petition' \in [Engines -> PetitionState]
        BY <4>2, <4>3 DEF TypeOK, PetitionState
      <4> QED BY <4>1, <4>3 DEF TypeOK
    <3>2. toCentral' \in [Engines -> Seq(EngineFrames)]
      BY <2>9 DEF ChecksId, Receives, TypeOK
    <3>3. /\ toEngine' \in [Engines -> Seq(CentralFrames)] /\ up' \in BOOLEAN
          /\ queued' \in Seq(Announcements)
      BY <2>9, ReplyType DEF ChecksId, CentralFrames, TypeOK
    <3> QED BY <2>9, <3>1, <3>2, <3>3 DEF TypeOK, ChecksId
  <2>10. ASSUME NEW e \in Engines, StoresTaxi(e) PROVE TypeOK'
    <3>1. petition' \in [Engines -> PetitionState]
      <4>1. \/ petition' = [petition EXCEPT ![e].at = "reading"]
            \/ petition' = [petition EXCEPT ![e].at = "stored", ![e].stored = TRUE]
        BY <2>10, Zenon DEF StoresTaxi
      <4>2. ASSUME petition' = [petition EXCEPT ![e].at = "reading"]
            PROVE  petition' \in [Engines -> PetitionState]
        BY <4>2 DEF TypeOK, PetitionState
      <4>3. ASSUME petition' = [petition EXCEPT ![e].at = "stored", ![e].stored = TRUE]
            PROVE  petition' \in [Engines -> PetitionState]
        BY <4>3 DEF TypeOK, PetitionState
      <4> QED BY <4>1, <4>2, <4>3
    <3>2. /\ toEngine' \in [Engines -> Seq(CentralFrames)] /\ up' \in BOOLEAN
          /\ queued' \in Seq(Announcements)
      BY <2>10, ReplyType DEF StoresTaxi, CentralFrames, TypeOK
    <3>3. row' \in [Taxis -> Rows]
      BY <2>10 DEF StoresTaxi, TypeOK, Rows
    <3> QED BY <2>10, <3>1, <3>2, <3>3 DEF TypeOK, StoresTaxi
  <2>11. ASSUME NEW e \in Engines, AnnouncesTaxi(e) PROVE TypeOK'
    <3>1. petition' \in [Engines -> PetitionState]
      BY <2>11 DEF AnnouncesTaxi, TypeOK, PetitionState
    <3>2. queued' \in Seq(Announcements)
      <4> DEFINE m == [subject |-> IF petition[e].reconnect THEN "TAXI_RECONNECTED" ELSE "NEW_TAXI",
                       taxiId |-> IdOf[e]]
      <4>1. m \in Announcements
        BY IdAssumption DEF Announcements
      <4>2. queued' = Append(queued, m)
        BY <2>11 DEF AnnouncesTaxi
      <4> HIDE DEF m
      <4> QED BY <4>1, <4>2 DEF TypeOK
    <3> QED BY <2>11, <3>1, <3>2 DEF TypeOK, AnnouncesTaxi
  <2>12. ASSUME NEW e \in Engines, Grants(e) PROVE TypeOK'
    <3>1. petition' \in [Engines -> PetitionState]
      BY <2>12 DEF Grants, TypeOK, PetitionState
    <3>2. /\ toEngine' \in [Engines -> Seq(CentralFrames)] /\ up' \in BOOLEAN
          /\ queued' \in Seq(Announcements)
      BY <2>12, ReplyType DEF Grants, CentralFrames
    <3> QED BY <2>12, <3>1, <3>2 DEF TypeOK, Grants
  <2>13. ASSUME NEW e \in Engines, PetitionEnds(e) PROVE TypeOK'
    <3>1. petition' \in [Engines -> PetitionState]
      BY <2>13 DEF PetitionEnds, TypeOK, PetitionState
    <3>2. toCentral' \in [Engines -> Seq(EngineFrames)]
      BY <2>13 DEF PetitionEnds, TypeOK
    <3> QED BY <2>13, <3>1, <3>2 DEF TypeOK, PetitionEnds
  <2>14. ASSUME NEW t \in Taxis, Disconnects(t) PROVE TypeOK'
    BY <2>14 DEF Disconnects, TypeOK, Rows
  <2>15. CASE LinkBreaks
    BY <2>15 DEF LinkBreaks, TypeOK
  <2>17. CASE Delivers
    <3>1. log' \in Seq(Announcements) /\ queued' \in Seq(Announcements)
      BY <2>17 DEF Delivers, TypeOK
    <3> QED BY <2>17, <3>1 DEF TypeOK, Delivers
  <2> QED
    BY <2>1, <2>2, <2>3, <2>4, <2>5, <2>6, <2>7, <2>8, <2>9, <2>10, <2>11, <2>12, <2>13, <2>14, <2>15, <2>16, <2>17
    DEF Next, Authenticates, Attends
<1> QED BY <1>1, <1>2, PTL DEF Spec

-----------------------------------------------------------------------------
(* The conversation                                                        *)

\* The id is sent once, nothing is stored before it is read, and the grant is the last word.
Conversation(e) ==
    /\ engine[e].at \in {"off", "asking"} =>
            ~Has(toCentral[e], "ID") /\ ~petition[e].stored
    /\ engine[e].at = "off" => petition[e].at = "none"
    /\ engine[e].at = "asking" => petition[e].at \in {"reading", "ended"}
    /\ AtMostOnce(toCentral[e], "ID")
    /\ Has(toCentral[e], "ID") =>
            petition[e].at \in {"reading", "ended"} /\ ~petition[e].stored
    /\ petition[e].at = "checked" => ~petition[e].stored
    /\ petition[e].at \in {"stored", "announced"} => petition[e].stored
    /\ Has(toEngine[e], "GRANT") \/ engine[e].at = "running" =>
            petition[e].at \in {"reading", "ended"} /\ petition[e].stored

Conversations == \A e \in Engines : Conversation(e)

LEMMA SaysOther ==
    ASSUME TypeOK, NEW e \in Engines, NEW frame \in EngineFrames, frame # "ID", Says(e, frame)
    PROVE  /\ Has(toCentral'[e], "ID") <=> Has(toCentral[e], "ID")
           /\ AtMostOnce(toCentral[e], "ID") => AtMostOnce(toCentral'[e], "ID")
<1>1. toCentral[e] \in Seq(EngineFrames)
  BY DEF TypeOK
<1>2. toCentral'[e] \in {toCentral[e], Append(toCentral[e], frame)}
  BY DEF Says, TypeOK
<1>3. /\ Has(Append(toCentral[e], frame), "ID") <=> Has(toCentral[e], "ID")
      /\ AtMostOnce(toCentral[e], "ID") => AtMostOnce(Append(toCentral[e], frame), "ID")
  BY <1>1, AppendHas
<1>4. QED BY <1>2, <1>3

LEMMA SaysId ==
    ASSUME TypeOK, NEW e \in Engines, ~Has(toCentral[e], "ID"), Says(e, "ID")
    PROVE  /\ AtMostOnce(toCentral'[e], "ID")
           /\ ~Attended(e) => ~Has(toCentral'[e], "ID")
<1>1. toCentral[e] \in Seq(EngineFrames) /\ "ID" \in EngineFrames
  BY DEF TypeOK, EngineFrames
<1>2. toCentral'[e] = IF Attended(e) THEN Append(toCentral[e], "ID") ELSE toCentral[e]
  BY DEF Says, TypeOK
<1>3. AtMostOnce(toCentral[e], "ID")
  BY DEF AtMostOnce, Has
<1>4. QED BY <1>1, <1>2, <1>3, AppendHas

LEMMA ReceivesHas ==
    ASSUME TypeOK, NEW e \in Engines, NEW frame, Receives(e, frame)
    PROVE  /\ Has(toCentral'[e], "ID") => Has(toCentral[e], "ID")
           /\ AtMostOnce(toCentral[e], "ID") => AtMostOnce(toCentral'[e], "ID")
           /\ frame = "ID" => Has(toCentral[e], "ID")
           /\ frame = "ID" /\ AtMostOnce(toCentral[e], "ID") => ~Has(toCentral'[e], "ID")
<1>1. toCentral[e] \in Seq(EngineFrames)
  BY DEF TypeOK
<1>2. /\ toCentral[e] # <<>> /\ Head(toCentral[e]) = frame
      /\ toCentral'[e] = Tail(toCentral[e])
  BY DEF Receives, TypeOK
<1>3. QED BY <1>1, <1>2, TailHas

LEMMA ReplyHas ==
    ASSUME TypeOK, NEW e \in Engines, NEW frame \in CentralFrames, frame # "GRANT",
           Reply(e, frame)
    PROVE  Has(toEngine'[e], "GRANT") => Has(toEngine[e], "GRANT")
<1>1. toEngine[e] \in Seq(CentralFrames)
  BY DEF TypeOK
<1>2. toEngine'[e] \in {toEngine[e], Append(toEngine[e], frame)}
  BY DEF Reply, TypeOK
<1>3. Has(Append(toEngine[e], frame), "GRANT") <=> Has(toEngine[e], "GRANT")
  BY <1>1, AppendHas
<1>4. QED BY <1>2, <1>3

LEMMA HearsHas ==
    ASSUME TypeOK, NEW e \in Engines, NEW s, s \in {<<>>, Tail(toEngine[e])}, toEngine[e] # <<>>
    PROVE  Has(s, "GRANT") => Has(toEngine[e], "GRANT")
<1>1. toEngine[e] \in Seq(CentralFrames)
  BY DEF TypeOK
<1>2. QED BY <1>1, TailHas, EmptyHas

LEMMA HeadGrant ==
    ASSUME TypeOK, NEW e \in Engines, toEngine[e] # <<>>, Head(toEngine[e]) = "GRANT"
    PROVE  Has(toEngine[e], "GRANT")
<1>1. toEngine[e] \in Seq(CentralFrames)
  BY DEF TypeOK
<1>2. QED BY <1>1, TailHas

LEMMA AsksKeepsConversation ==
    ASSUME TypeOK, NEW e \in Engines, NEW late \in BOOLEAN, Conversation(e),
           engine[e].at \in {"asking", "proposing"},
           AsksAgain(e, late) \/ Fails(e, late), petition' = petition,
           engine[e].at = "asking" \/ Fails(e, late)
    PROVE  Conversation(e)'
<1>1. /\ Has(toCentral'[e], "ID") <=> Has(toCentral[e], "ID")
      /\ AtMostOnce(toCentral[e], "ID") => AtMostOnce(toCentral'[e], "ID")
  BY SaysOther DEF AsksAgain, Fails, EngineFrames
<1>2. Has(toEngine'[e], "GRANT") => Has(toEngine[e], "GRANT")
  <2>1. \/ toEngine' = [toEngine EXCEPT ![e] = <<>>]
        \/ toEngine' = [toEngine EXCEPT ![e] = IF toEngine[e] = <<>> THEN toEngine[e]
                                                                    ELSE Tail(toEngine[e])]
    BY DEF AsksAgain, Fails
  <2>2. toEngine'[e] = <<>> \/ (toEngine[e] # <<>> /\ toEngine'[e] = Tail(toEngine[e]))
    BY <2>1 DEF TypeOK
  <2>3. QED BY <2>2, HearsHas, EmptyHas
<1>3. engine'[e].at \in {engine[e].at, "failed"} /\ petition'[e] = petition[e]
  BY DEF AsksAgain, Fails, TypeOK, EngineState
<1>4. engine'[e].at = "asking" => engine[e].at = "asking"
  BY <1>3
<1>5. engine'[e].at # "off" /\ engine'[e].at # "running"
  BY <1>3
<1>6. QED BY <1>1, <1>2, <1>3, <1>4, <1>5 DEF Conversation

\* A step of the engine e, of its petition, or the kill.
Own(e) == Connects(e) \/ FindsNobody(e) \/ Authenticates(e) \/ Attends(e) \/ Killed(e)

LEMMA OthersStay ==
    ASSUME TypeOK, NEW e \in Engines, NEW f \in Engines, f # e, Own(e)
    PROVE  /\ engine'[f] = engine[f] /\ petition'[f] = petition[f]
           /\ toCentral'[f] = toCentral[f] /\ toEngine'[f] = toEngine[f]
<1>1. CASE Connects(e) \/ FindsNobody(e)
  BY <1>1 DEF Connects, FindsNobody, Says, TypeOK
<1>2. CASE WaitsInVain(e) \/ HearsNack(e)
  BY <1>2 DEF WaitsInVain, HearsNack, AsksAgain, Fails, Says, TypeOK
<1>3. CASE HearsAck(e) \/ HearsGrant(e) \/ HearsRefusal(e) \/ ProposesInVain(e) \/ FindsClosed(e)
  BY <1>3 DEF HearsAck, HearsGrant, HearsRefusal, ProposesInVain, FindsClosed, Fails, Says, TypeOK
<1>4. CASE AttendsEnq(e) \/ ChecksId(e)
  BY <1>4 DEF AttendsEnq, ChecksId, Receives, Reply, TypeOK
<1>5. CASE StoresTaxi(e) \/ AnnouncesTaxi(e) \/ Grants(e)
  BY <1>5 DEF StoresTaxi, AnnouncesTaxi, Grants, Reply, TypeOK
<1>6. CASE PetitionEnds(e) \/ Killed(e)
  BY <1>6 DEF PetitionEnds, Killed, TypeOK
<1>7. QED BY <1>1, <1>2, <1>3, <1>4, <1>5, <1>6 DEF Own, Authenticates, Attends

LEMMA OwnConversation ==
    ASSUME TypeOK, NEW e \in Engines, Conversation(e), Own(e)
    PROVE  Conversation(e)'
<1>0. engine[e] \in EngineState /\ petition[e] \in PetitionState
  BY DEF TypeOK
<1>1. CASE Connects(e)
  <2>1. /\ Has(toCentral'[e], "ID") <=> Has(toCentral[e], "ID")
        /\ AtMostOnce(toCentral[e], "ID") => AtMostOnce(toCentral'[e], "ID")
    BY <1>1, SaysOther DEF Connects, EngineFrames
  <2>2. /\ engine[e].at = "off" /\ engine'[e].at = "asking" /\ petition'[e].at = "reading"
        /\ petition'[e].stored = petition[e].stored /\ toEngine' = toEngine
    BY <1>1 DEF Connects, TypeOK, EngineState, PetitionState
  <2>3. QED BY <2>1, <2>2 DEF Conversation
<1>2. CASE WaitsInVain(e) \/ HearsNack(e)
  BY <1>0, <1>2, AsksKeepsConversation DEF WaitsInVain, HearsNack, EngineState
<1>3. CASE HearsRefusal(e) \/ ProposesInVain(e) \/ FindsClosed(e)
  BY <1>0, <1>3, AsksKeepsConversation
  DEF HearsRefusal, ProposesInVain, FindsClosed, EngineState, Attended
<1>4. CASE HearsAck(e)
  <2>1. engine[e].at = "asking" /\ toEngine[e] # <<>> /\ toEngine'[e] = Tail(toEngine[e])
    BY <1>4 DEF HearsAck, TypeOK
  <2>2. AtMostOnce(toCentral'[e], "ID")
    BY <1>4, <2>1, SaysId DEF HearsAck, Conversation
  <2>3. Has(toEngine'[e], "GRANT") => Has(toEngine[e], "GRANT")
    BY <2>1, HearsHas
  <2>4. engine'[e].at = "proposing" /\ petition' = petition
    BY <1>4 DEF HearsAck, TypeOK, EngineState
  <2>5. QED BY <2>1, <2>2, <2>3, <2>4 DEF Conversation
<1>5. CASE HearsGrant(e)
  <2>1. Has(toEngine[e], "GRANT")
    BY <1>5, HeadGrant DEF HearsGrant
  <2>2. /\ Has(toCentral'[e], "ID") <=> Has(toCentral[e], "ID")
        /\ AtMostOnce(toCentral[e], "ID") => AtMostOnce(toCentral'[e], "ID")
    BY <1>5, SaysOther DEF HearsGrant, EngineFrames
  <2>3. engine'[e].at = "running" /\ petition' = petition
    BY <1>5 DEF HearsGrant, TypeOK, EngineState
  <2>4. QED BY <2>1, <2>2, <2>3 DEF Conversation
<1>6. CASE Killed(e) \/ FindsNobody(e)
  <2>1. /\ engine'[e].at \in {"killed", "failed"} /\ UNCHANGED <<petition, toCentral>>
        /\ toEngine'[e] \in {<<>>, toEngine[e]}
    BY <1>6 DEF Killed, FindsNobody, TypeOK, EngineState
  <2>2. QED BY <2>1, EmptyHas DEF Conversation
<1>7. CASE AttendsEnq(e)
  <2>1. /\ Has(toCentral'[e], "ID") => Has(toCentral[e], "ID")
        /\ AtMostOnce(toCentral[e], "ID") => AtMostOnce(toCentral'[e], "ID")
    BY <1>7, ReceivesHas DEF AttendsEnq
  <2>2. Has(toEngine'[e], "GRANT") => Has(toEngine[e], "GRANT")
    BY <1>7, ReplyHas DEF AttendsEnq, CentralFrames
  <2>3. UNCHANGED <<engine, petition>>
    BY <1>7 DEF AttendsEnq
  <2>4. QED BY <2>1, <2>2, <2>3 DEF Conversation
<1>8. CASE ChecksId(e)
  <2>1. /\ Has(toCentral[e], "ID")
        /\ AtMostOnce(toCentral[e], "ID") => AtMostOnce(toCentral'[e], "ID")
        /\ AtMostOnce(toCentral[e], "ID") => ~Has(toCentral'[e], "ID")
    BY <1>8, ReceivesHas DEF ChecksId
  <2>2. Has(toEngine'[e], "GRANT") => Has(toEngine[e], "GRANT")
    BY <1>8, ReplyHas DEF ChecksId, CentralFrames
  <2>3. /\ engine' = engine /\ petition'[e].stored = petition[e].stored
        /\ petition'[e].at \in {petition[e].at, "checked"}
    BY <1>8 DEF ChecksId, TypeOK, PetitionState
  <2>4. QED BY <2>1, <2>2, <2>3 DEF Conversation
<1>9. CASE StoresTaxi(e)
  <2>1. petition[e].at = "checked" /\ UNCHANGED <<engine, toCentral>>
    BY <1>9 DEF StoresTaxi
  <2>2. \/ /\ petition'[e].at = "stored" /\ petition'[e].stored = TRUE /\ toEngine' = toEngine
        \/ /\ petition'[e].at = "reading" /\ petition'[e].stored = petition[e].stored
           /\ Reply(e, "DENY")
    BY <1>9 DEF StoresTaxi, TypeOK, PetitionState
  <2>3. Has(toEngine'[e], "GRANT") => Has(toEngine[e], "GRANT")
    BY <2>2, ReplyHas DEF CentralFrames
  <2>4. QED BY <2>1, <2>2, <2>3 DEF Conversation
<1>10. CASE AnnouncesTaxi(e)
  <2>1. /\ petition[e].at = "stored" /\ petition'[e].at = "announced"
        /\ petition'[e].stored = petition[e].stored /\ UNCHANGED <<engine, toCentral, toEngine>>
    BY <1>10 DEF AnnouncesTaxi, TypeOK, PetitionState
  <2>2. QED BY <2>1 DEF Conversation
<1>11. CASE Grants(e)
  <2>1. /\ petition[e].at = "announced" /\ petition'[e].at = "reading"
        /\ petition'[e].stored = petition[e].stored /\ UNCHANGED <<engine, toCentral>>
    BY <1>11 DEF Grants, TypeOK, PetitionState
  <2>2. QED BY <2>1 DEF Conversation
<1>12. CASE PetitionEnds(e)
  <2>1. /\ petition[e].at = "reading" /\ petition'[e].at = "ended"
        /\ petition'[e].stored = petition[e].stored /\ UNCHANGED <<engine, toEngine>>
        /\ toCentral'[e] = <<>>
    BY <1>12 DEF PetitionEnds, TypeOK, PetitionState
  <2>2. QED BY <1>0, <2>1, EmptyHas DEF Conversation
<1>13. QED
  BY <1>1, <1>2, <1>3, <1>4, <1>5, <1>6, <1>7, <1>8, <1>9, <1>10, <1>11, <1>12
  DEF Own, Authenticates, Attends

\* The steps of nobody's engine touch no conversation.
LEMMA CentralStays ==
    ASSUME UNCHANGED vars \/ Delivers \/ LinkBreaks \/ \E t \in Taxis : Disconnects(t)
    PROVE  UNCHANGED <<engine, petition, toCentral, toEngine>>
BY DEF vars, Delivers, LinkBreaks, Disconnects

LEMMA ConversationHolds == Spec => []Conversations
<1>1. Init => Conversations
  <2> SUFFICES ASSUME Init, NEW e \in Engines PROVE Conversation(e)
    BY DEF Conversations
  <2>1. /\ engine[e].at = "off" /\ petition[e].at = "none" /\ petition[e].stored = FALSE
        /\ toCentral[e] = <<>> /\ toEngine[e] = <<>>
    BY DEF Init
  <2>2. QED BY <2>1, EmptyHas DEF Conversation
<1>2. TypeOK /\ Conversations /\ [Next]_vars => Conversations'
  <2> SUFFICES ASSUME TypeOK, Conversations, [Next]_vars, NEW f \in Engines
               PROVE  Conversation(f)'
    BY DEF Conversations
  <2>0. Conversation(f)
    BY DEF Conversations
  <2>1. ASSUME NEW e \in Engines, Own(e) PROVE Conversation(f)'
    <3>1. CASE f = e
      BY <2>0, <2>1, <3>1, OwnConversation
    <3>2. CASE f # e
      BY <2>0, <2>1, <3>2, OthersStay DEF Conversation
    <3>3. QED BY <3>1, <3>2
  <2>2. CASE UNCHANGED vars \/ Delivers \/ LinkBreaks \/ \E t \in Taxis : Disconnects(t)
    BY <2>0, <2>2, CentralStays DEF Conversation
  <2>3. QED BY <2>1, <2>2 DEF Next, Own
<1>3. QED BY <1>1, <1>2, AuthTypes, PTL DEF Spec

\* A row that was found is still there: rows are never deleted.
RowsStay ==
    \A e \in Engines :
        petition[e].at = "checked" /\ petition[e].reconnect => row[IdOf[e]] # "none"

LEMMA RowsNeverVanish ==
    ASSUME TypeOK, [Next]_vars, NEW t \in Taxis, row[t] # "none"
    PROVE  row'[t] # "none"
<1>1. CASE UNCHANGED row
  BY <1>1
<1>2. ASSUME NEW e \in Engines, StoresTaxi(e) PROVE row'[t] # "none"
  BY <1>2 DEF StoresTaxi, TypeOK
<1>3. ASSUME NEW u \in Taxis, Disconnects(u) PROVE row'[t] # "none"
  BY <1>3 DEF Disconnects, TypeOK
<1>4. ASSUME NEW e \in Engines, Own(e), ~StoresTaxi(e) PROVE UNCHANGED row
  BY <1>4 DEF Own, Connects, FindsNobody, Authenticates, WaitsInVain, HearsNack, HearsAck, HearsGrant,
     HearsRefusal, ProposesInVain, FindsClosed, Killed, Attends, AttendsEnq, ChecksId,
     AnnouncesTaxi, Grants, PetitionEnds
<1>5. UNCHANGED vars \/ Delivers \/ LinkBreaks => UNCHANGED row
  BY DEF vars, Delivers, LinkBreaks
<1>6. QED BY <1>1, <1>2, <1>3, <1>4, <1>5 DEF Next, Own

\* Who is found by checkId, and what becomes of it.
LEMMA CheckedWhen ==
    ASSUME TypeOK, NEW e \in Engines, Own(e), petition'[e].at = "checked"
    PROVE  \/ petition'[e] = petition[e]
           \/ UNCHANGED row /\ (petition'[e].reconnect => row[IdOf[e]] = "disconnected")
<1>1. CASE Connects(e) \/ Grants(e) \/ PetitionEnds(e) \/ AnnouncesTaxi(e)
  BY <1>1 DEF Connects, Grants, PetitionEnds, AnnouncesTaxi, TypeOK, PetitionState
<1>2. CASE StoresTaxi(e)
  <2>1. petition'[e].at \in {"stored", "reading"}
    BY <1>2 DEF StoresTaxi, TypeOK, PetitionState
  <2>2. QED BY <2>1
<1>3. CASE ChecksId(e)
  <2>1. \/ petition' = petition
        \/ petition' = [petition EXCEPT ![e].at = "checked",
                                        ![e].reconnect = (row[IdOf[e]] = "disconnected")]
    BY <1>3 DEF ChecksId
  <2>2. UNCHANGED row
    BY <1>3 DEF ChecksId
  <2> DEFINE again == row[IdOf[e]] = "disconnected"
  <2>3. petition' = petition \/ petition' = [petition EXCEPT ![e].at = "checked", ![e].reconnect = again]
    BY <2>1
  <2> HIDE DEF again
  <2>4. petition'[e] = petition[e] \/ petition'[e].reconnect = again
    BY <2>3 DEF TypeOK, PetitionState
  <2>5. QED BY <2>2, <2>4 DEF again
<1>4. CASE Killed(e) \/ FindsNobody(e) \/ AttendsEnq(e) \/ Authenticates(e)
  BY <1>4 DEF Killed, FindsNobody, AttendsEnq, Authenticates, WaitsInVain, HearsNack, HearsAck, HearsGrant,
     HearsRefusal, ProposesInVain, FindsClosed
<1>5. QED BY <1>1, <1>2, <1>3, <1>4 DEF Own, Attends

LEMMA RowsStayHolds == Spec => []RowsStay
<1>1. Init => RowsStay
  BY DEF Init, RowsStay
<1>2. TypeOK /\ RowsStay /\ [Next]_vars => RowsStay'
  <2> SUFFICES ASSUME TypeOK, RowsStay, [Next]_vars, NEW f \in Engines,
                      petition'[f].at = "checked", petition'[f].reconnect
               PROVE  row'[IdOf[f]] # "none"
    BY DEF RowsStay
  <2>1. IdOf[f] \in Taxis
    BY IdAssumption
  <2>2. petition'[f] = petition[f] => row'[IdOf[f]] # "none"
    BY <2>1, RowsNeverVanish DEF RowsStay
  <2>3. ASSUME NEW e \in Engines, Own(e) PROVE row'[IdOf[f]] # "none"
    <3>1. CASE f = e
      BY <2>2, <2>3, <3>1, CheckedWhen
    <3>2. CASE f # e
      BY <2>2, <2>3, <3>2, OthersStay
    <3>3. QED BY <3>1, <3>2
  <2>4. CASE UNCHANGED vars \/ Delivers \/ LinkBreaks \/ \E t \in Taxis : Disconnects(t)
    BY <2>2, <2>4, CentralStays
  <2>5. QED BY <2>3, <2>4 DEF Next, Own
<1>3. QED BY <1>1, <1>2, AuthTypes, PTL DEF Spec

-----------------------------------------------------------------------------
(* AuthServer implements Registry                                          *)

\* An answer leaves the producer's queue, or loses it with the server.
LEMMA ReplyQueue ==
    ASSUME NEW e \in Engines, NEW frame, Reply(e, frame)
    PROVE  queued' \in {queued, <<>>}
BY DEF Reply, Ends

\* Steps that are no news for the registry, or lose what is queued.
LEMMA StageStays ==
    ASSUME TypeOK, NEW e \in Engines, Conversation(e), Own(e),
           ~HearsGrant(e), ~AnnouncesTaxi(e), StoresTaxi(e) => UNCHANGED row /\ ~petition'[e].stored
    PROVE  Stage(e)' = Stage(e) /\ UNCHANGED <<row, log>> /\ queued' \in {queued, <<>>}
<1>1. CASE Connects(e) \/ FindsNobody(e) \/ Killed(e) \/ HearsAck(e)
  <2>1. /\ engine[e].at # "running" /\ engine'[e].at # "running"
        /\ petition'[e].stored = petition[e].stored
        /\ petition'[e].reconnect = petition[e].reconnect
        /\ petition'[e].at = petition[e].at \/ ~petition[e].stored
        /\ UNCHANGED <<row, queued, log>>
    BY <1>1 DEF Connects, FindsNobody, Killed, HearsAck, TypeOK, EngineState, PetitionState, Conversation
  <2>2. QED BY <2>1 DEF Stage
<1>2. CASE WaitsInVain(e) \/ HearsNack(e)
  <2>1. /\ engine[e].at # "running" /\ engine'[e].at # "running"
        /\ UNCHANGED <<petition, row, queued, log>>
    BY <1>2 DEF WaitsInVain, HearsNack, AsksAgain, Fails, TypeOK, EngineState
  <2>2. QED BY <2>1 DEF Stage
<1>3. CASE HearsRefusal(e) \/ ProposesInVain(e) \/ FindsClosed(e)
  <2>1. /\ engine[e].at # "running" /\ engine'[e].at # "running"
        /\ UNCHANGED <<petition, row, queued, log>>
    BY <1>3 DEF HearsRefusal, ProposesInVain, FindsClosed, Fails, TypeOK, EngineState
  <2>2. QED BY <2>1 DEF Stage
<1>4. CASE AttendsEnq(e)
  BY <1>4, ReplyQueue DEF AttendsEnq, Stage
<1>5. CASE ChecksId(e)
  <2>1. Has(toCentral[e], "ID")
    BY <1>5, ReceivesHas DEF ChecksId
  <2>2. /\ UNCHANGED <<engine, row, log>> /\ petition'[e].stored = petition[e].stored
    BY <1>5 DEF ChecksId, TypeOK, PetitionState
  <2>3. queued' \in {queued, <<>>}
    BY <1>5, ReplyQueue, Zenon DEF ChecksId
  <2>4. QED BY <2>1, <2>2, <2>3 DEF Stage, Conversation
<1>6. CASE StoresTaxi(e)
  <2>1. petition[e].at = "checked" /\ UNCHANGED <<engine, log>>
    BY <1>6 DEF StoresTaxi
  <2>2. queued' \in {queued, <<>>}
    BY <1>6, ReplyQueue, Zenon DEF StoresTaxi
  <2>3. QED BY <1>6, <2>1, <2>2 DEF Stage, Conversation
<1>7. CASE Grants(e) \/ PetitionEnds(e)
  <2>1. /\ UNCHANGED <<engine, row, log>> /\ petition'[e].stored = petition[e].stored
        /\ petition[e].at # "stored" /\ petition'[e].at # "stored"
    BY <1>7 DEF Grants, PetitionEnds, TypeOK, PetitionState
  <2>2. queued' \in {queued, <<>>}
    BY <1>7, ReplyQueue DEF Grants, PetitionEnds
  <2>3. QED BY <2>1, <2>2 DEF Stage
<1>8. QED BY <1>1, <1>2, <1>3, <1>4, <1>5, <1>6, <1>7 DEF Own, Authenticates, Attends

\* A query of addTaxi that succeeds is the registry's: the row it finds is what makes a taxi new.
LEMMA StoreMaps ==
    ASSUME TypeOK, NEW e \in Engines, Conversation(e), RowsStay, StoresTaxi(e),
           petition'[e].stored \/ row' # row
    PROVE  /\ Stage(e) = "out"
           /\ row' = [row EXCEPT ![IdOf[e]] = "connected"]
           /\ Stage(e)' = IF row[IdOf[e]] = "none" THEN "new" ELSE "again"
           /\ UNCHANGED <<queued, log>>
<1>0. petition[e].at = "checked" /\ ~petition[e].stored /\ UNCHANGED <<engine, log>>
  BY DEF StoresTaxi, Conversation
<1>1. engine[e].at # "running"
  BY <1>0 DEF Conversation
<1>2. /\ petition[e].reconnect \/ row[IdOf[e]] = "none"
      /\ row' = [row EXCEPT ![IdOf[e]] = "connected"]
      /\ petition' = [petition EXCEPT ![e].at = "stored", ![e].stored = TRUE]
  <2>1. petition' # [petition EXCEPT ![e].at = "reading"] \/ row' # row
    BY <1>0 DEF TypeOK, PetitionState
  <2>2. QED BY <2>1, Zenon DEF StoresTaxi
<1>3. /\ petition'[e].at = "stored" /\ petition'[e].stored
      /\ petition'[e].reconnect = petition[e].reconnect
  BY <1>2 DEF TypeOK, PetitionState
<1>4. petition[e].reconnect <=> row[IdOf[e]] # "none"
  BY <1>0, <1>2 DEF RowsStay
<1>5. Stage(e) = "out"
  BY <1>0, <1>1 DEF Stage
<1>6. Stage(e)' = IF row[IdOf[e]] = "none" THEN "new" ELSE "again"
  BY <1>0, <1>1, <1>3, <1>4 DEF Stage
<1>7. queued' = queued
  <2>1. petition' # [petition EXCEPT ![e].at = "reading"]
    BY <1>0, <1>3 DEF TypeOK, PetitionState
  <2>2. QED BY <2>1, Zenon DEF StoresTaxi
<1>8. QED BY <1>0, <1>2, <1>5, <1>6, <1>7

LEMMA AnnounceMaps ==
    ASSUME TypeOK, NEW e \in Engines, Conversation(e), AnnouncesTaxi(e)
    PROVE  /\ Stage(e) \in {"new", "again"}
           /\ queued' = Append(queued, [subject |-> IF Stage(e) = "new" THEN "NEW_TAXI"
                                                                       ELSE "TAXI_RECONNECTED",
                                        taxiId |-> IdOf[e]])
           /\ Stage(e)' = "announced"
           /\ UNCHANGED <<row, log>>
<1>1. /\ petition[e].at = "stored" /\ petition[e].stored /\ engine[e].at # "running"
      /\ UNCHANGED <<engine, row, log>>
  BY DEF AnnouncesTaxi, Conversation
<1>2. petition'[e].at = "announced" /\ petition'[e].stored = petition[e].stored
  BY DEF AnnouncesTaxi, TypeOK, PetitionState
<1>3. Stage(e) = IF petition[e].reconnect THEN "again" ELSE "new"
  BY <1>1 DEF Stage
<1>4. Stage(e)' = "announced"
  BY <1>1, <1>2 DEF Stage
<1>5. QED BY <1>1, <1>3, <1>4 DEF AnnouncesTaxi

LEMMA LetInMaps ==
    ASSUME TypeOK, NEW e \in Engines, Conversation(e), HearsGrant(e)
    PROVE  Stage(e) = "announced" /\ Stage(e)' = "in" /\ UNCHANGED <<row, queued, log>>
<1>1. Has(toEngine[e], "GRANT") /\ engine[e].at = "proposing"
  BY HeadGrant DEF HearsGrant
<1>2. petition[e].stored /\ petition[e].at \in {"reading", "ended"}
  BY <1>1 DEF Conversation
<1>3. engine'[e].at = "running" /\ UNCHANGED <<row, queued, log>>
  BY DEF HearsGrant, TypeOK, EngineState
<1>4. QED BY <1>1, <1>2, <1>3 DEF Stage

stages == [e \in Engines |-> Stage(e)]

LEMMA StepMaps ==
    TypeOK /\ Conversations /\ RowsStay /\ [Next]_vars
        => [Registered!Next]_<<row, stages, queued, log>>
<1> SUFFICES ASSUME TypeOK, Conversations, RowsStay, [Next]_vars
             PROVE  Registered!Next \/ UNCHANGED <<row, stages, queued, log>>
  OBVIOUS
<1>1. ASSUME NEW e \in Engines, Own(e)
      PROVE  Registered!Next \/ UNCHANGED <<row, stages, queued, log>>
  <2>0. Conversation(e)
    BY DEF Conversations
  <2>1. \A f \in Engines : f # e => Stage(f)' = Stage(f)
    BY <1>1, OthersStay DEF Stage
  <2>2. stages' = [stages EXCEPT ![e] = Stage(e)']
    BY <2>1 DEF stages
  <2>3. stages[e] = Stage(e)
    BY DEF stages
  <2>4. CASE StoresTaxi(e) /\ (petition'[e].stored \/ row' # row)
    <3>1. Registered!Store(e)
      BY <2>0, <2>2, <2>3, <2>4, StoreMaps DEF Registered!Store, stages
    <3>2. QED BY <3>1 DEF Registered!Next
  <2>5. CASE AnnouncesTaxi(e)
    <3>1. Registered!Announce(e)
      BY <2>0, <2>2, <2>3, <2>5, AnnounceMaps
      DEF Registered!Announce, Registered!Announcement, stages
    <3>2. QED BY <3>1 DEF Registered!Next
  <2>6. CASE HearsGrant(e)
    <3>1. Registered!LetIn(e)
      BY <2>0, <2>2, <2>3, <2>6, LetInMaps DEF Registered!LetIn, stages
    <3>2. QED BY <3>1 DEF Registered!Next
  <2>7. CASE /\ ~HearsGrant(e) /\ ~AnnouncesTaxi(e)
             /\ StoresTaxi(e) => UNCHANGED row /\ ~petition'[e].stored
    <3>1. Stage(e)' = Stage(e) /\ UNCHANGED <<row, log>> /\ queued' \in {queued, <<>>}
      BY <1>1, <2>0, <2>7, StageStays
    <3>2. stages' = stages
      BY <2>2, <3>1 DEF stages
    <3>3. CASE queued' = <<>>
      BY <3>1, <3>2, <3>3 DEF Registered!Next, Registered!Lose, stages
    <3>4. QED BY <3>1, <3>2, <3>3
  <2>8. QED BY <2>4, <2>5, <2>6, <2>7
<1>2. ASSUME NEW t \in Taxis, Disconnects(t)
      PROVE  Registered!Next
  <2>1. UNCHANGED stages
    BY <1>2 DEF Disconnects, Stage, stages
  <2>2. Registered!Disconnect(t)
    BY <1>2, <2>1 DEF Disconnects, Registered!Disconnect, stages
  <2>3. QED BY <2>2 DEF Registered!Next
<1>3. CASE UNCHANGED vars \/ LinkBreaks
  BY <1>3 DEF vars, LinkBreaks, Stage, stages
<1>4. CASE Delivers
  <2>1. UNCHANGED stages
    BY <1>4 DEF Delivers, Stage, stages
  <2>2. Registered!Deliver
    BY <1>4, <2>1 DEF Delivers, Registered!Deliver, stages
  <2>3. QED BY <2>2 DEF Registered!Next
<1>5. QED BY <1>1, <1>2, <1>3, <1>4 DEF Next, Own

\* Every engine that is let in has been stored first and its announcement queued, once, as new if
\* it found no row, and what is queued arrives in order or is lost with the server:
\* the conversation of authenticate() and attendPetition() implements the registry.
THEOREM AuthRefinesRegistry == Spec => RegistryImplemented
<1>1. Init => Registered!Init
  BY DEF Init, Registered!Init, Stage, Rows, Registered!Rows
<1>2. TypeOK /\ Conversations /\ RowsStay /\ [Next]_vars
        => [Registered!Next]_<<row, [e \in Engines |-> Stage(e)], queued, log>>
  BY StepMaps DEF stages
<1>3. QED
  BY <1>1, <1>2, AuthTypes, ConversationHolds, RowsStayHolds, PTL
  DEF Spec, RegistryImplemented, Registered!Spec

-----------------------------------------------------------------------------
(* A taxi is new once                                                      *)

\* What is in the topic, and then what the producer has still to send.
Told == log \o queued

IsNew(m) == m.subject = "NEW_TAXI"

ToldNew(t) == \E i \in DOMAIN Told : IsNew(Told[i]) /\ Told[i].taxiId = t

ToldOnce == \A i, j \in DOMAIN Told : IsNew(Told[i]) /\ Told[i] = Told[j] => i = j

\* NEW_TAXI is in the topic, or about to be, for taxis that have a row, and for one engine.
NewIsStored ==
    /\ \A t \in Taxis : ToldNew(t) => row[t] # "none"
    /\ \A e \in Engines : stages[e] = "new" =>
            /\ row[IdOf[e]] # "none" /\ ~ToldNew(IdOf[e])
            /\ \A f \in Engines : stages[f] = "new" /\ IdOf[f] = IdOf[e] => f = e

NewOnce == ToldOnce /\ NewIsStored

LEMMA ToldAt ==
    ASSUME TypeOK
    PROVE  /\ Told \in Seq(Announcements)
           /\ DOMAIN log \subseteq DOMAIN Told /\ \A i \in DOMAIN log : Told[i] = log[i]
<1>1. log \in Seq(Announcements) /\ queued \in Seq(Announcements)
  BY DEF TypeOK
<1>2. /\ Told \in Seq(Announcements) /\ Len(Told) = Len(log) + Len(queued)
      /\ \A i \in 1..Len(log) : Told[i] = log[i]
  BY <1>1 DEF Told
<1>3. /\ DOMAIN log = 1..Len(log) /\ DOMAIN Told = 1..Len(Told)
      /\ Len(log) \in Nat /\ Len(queued) \in Nat
  BY <1>1, <1>2
<1>4. QED BY <1>2, <1>3

\* What is sent is still told, in its place; what is lost was told last.
LEMMA DeliverTold ==
    ASSUME TypeOK, Registered!Deliver
    PROVE  Told' = Told
<1>1. log \in Seq(Announcements) /\ queued \in Seq(Announcements) /\ queued # <<>>
  BY DEF TypeOK, Registered!Deliver
<1>2. Append(log, Head(queued)) \o Tail(queued) = log \o queued
  BY <1>1
<1>3. QED BY <1>2 DEF Told, Registered!Deliver

\* The central hears NEW_TAXI of a taxi once, however many engines start with its id and however
\* their petitions interleave between checkId and addTaxi: only one INSERT finds no row.
THEOREM TaxiIsNewOnce == Spec => []NewTaxiOnce
<1>1. Init => NewOnce
  <2> SUFFICES ASSUME Init PROVE NewOnce
    OBVIOUS
  <2>1. Told = <<>>
    BY DEF Init, Told
  <2>2. \A e \in Engines : stages[e] = "out"
    BY DEF Init, stages, Stage
  <2>3. QED BY <2>1, <2>2 DEF NewOnce, ToldOnce, NewIsStored, ToldNew
<1>2. TypeOK /\ Conversations /\ RowsStay /\ NewOnce /\ [Next]_vars => NewOnce'
  <2> SUFFICES ASSUME TypeOK, NewOnce, [Registered!Next]_<<row, stages, queued, log>>
               PROVE  NewOnce'
    BY StepMaps
  <2>1. /\ Told \in Seq(Announcements) /\ IdOf \in [Engines -> Taxis]
        /\ row \in [Taxis -> Rows] /\ DOMAIN stages = Engines
    BY IdAssumption, ToldAt DEF TypeOK, stages
  <2>2. CASE UNCHANGED <<row, stages, queued, log>>
    <3>1. UNCHANGED <<row, stages, Told>>
      BY <2>2 DEF Told
    <3>2. QED BY <3>1 DEF NewOnce, ToldOnce, NewIsStored, ToldNew
  <2>3. ASSUME NEW e \in Engines, Registered!Store(e) PROVE NewOnce'
    <3>1. /\ row' = [row EXCEPT ![IdOf[e]] = "connected"] /\ Told' = Told
          /\ stages' = [stages EXCEPT ![e] = IF row[IdOf[e]] = "none" THEN "new" ELSE "again"]
      BY <2>3 DEF Registered!Store, stages, Told
    <3>2. \A t \in Taxis : row[t] # "none" => row'[t] # "none"
      BY <2>1, <3>1
    <3>3. \A t : ToldNew(t)' <=> ToldNew(t)
      BY <3>1 DEF ToldNew
    <3>4. \A f \in Engines : f # e => stages'[f] = stages[f]
      BY <2>1, <3>1
    <3>5. stages'[e] = "new" => row[IdOf[e]] = "none"
      BY <2>1, <3>1
    <3>6. row'[IdOf[e]] # "none"
      BY <2>1, <3>1
    <3>7. ToldOnce'
      BY <3>1 DEF NewOnce, ToldOnce
    <3>8. NewIsStored'
      BY <2>1, <3>2, <3>3, <3>4, <3>5, <3>6 DEF NewOnce, NewIsStored
    <3>9. QED BY <3>7, <3>8 DEF NewOnce
  <2>4. ASSUME NEW e \in Engines, Registered!Announce(e) PROVE NewOnce'
    <3> DEFINE m == Registered!Announcement(
                        IF stages[e] = "new" THEN "NEW_TAXI" ELSE "TAXI_RECONNECTED", IdOf[e])
    <3>1. /\ row' = row /\ queued' = Append(queued, m) /\ log' = log
          /\ stages' = [stages EXCEPT ![e] = "announced"]
      BY <2>4 DEF Registered!Announce, stages
    <3>2. m.subject = (IF stages[e] = "new" THEN "NEW_TAXI" ELSE "TAXI_RECONNECTED")
          /\ m.taxiId = IdOf[e]
      BY DEF Registered!Announcement
    <3>3. IsNew(m) => stages[e] = "new"
      BY <3>2 DEF IsNew
    <3>4. m \in Announcements
      BY <2>1 DEF Registered!Announcement, Announcements
    <3> HIDE DEF m
    <3>0. Told' = Append(Told, m)
      <4>1. log \in Seq(Announcements) /\ queued \in Seq(Announcements)
        BY DEF TypeOK
      <4>2. log \o Append(queued, m) = Append(log \o queued, m)
        BY <3>4, <4>1
      <4>3. QED BY <3>1, <4>2 DEF Told
    <3>5. /\ DOMAIN Told' = DOMAIN Told \cup {Len(Told) + 1} /\ Told'[Len(Told) + 1] = m
          /\ \A i \in DOMAIN Told : Told'[i] = Told[i]
          /\ Len(Told) + 1 \notin DOMAIN Told
      BY <2>1, <3>0, <3>4, AppendAt
    <3>6. \A t : ToldNew(t)' => ToldNew(t) \/ (IsNew(m) /\ t = IdOf[e])
      BY <3>2, <3>5 DEF ToldNew, IsNew
    <3>7. \A f \in Engines : stages'[f] = "new" => f # e /\ stages[f] = "new"
      BY <2>1, <3>1
    <3>8. ToldOnce'
      <4>1. \A i \in DOMAIN Told : IsNew(m) => Told[i] # m
        BY <3>2, <3>3 DEF NewOnce, NewIsStored, ToldNew
      <4>2. QED BY <3>5, <4>1 DEF NewOnce, ToldOnce, IsNew
    <3>9. NewIsStored'
      BY <2>1, <3>1, <3>3, <3>6, <3>7 DEF NewOnce, NewIsStored
    <3>10. QED BY <3>8, <3>9 DEF NewOnce
  <2>5. ASSUME NEW e \in Engines, Registered!LetIn(e) PROVE NewOnce'
    <3>1. UNCHANGED <<row, Told>> /\ stages' = [stages EXCEPT ![e] = "in"]
      BY <2>5 DEF Registered!LetIn, stages, Told
    <3>2. \A f \in Engines : stages'[f] = "new" => stages[f] = "new"
      BY <2>1, <3>1
    <3>3. QED BY <3>1, <3>2 DEF NewOnce, ToldOnce, NewIsStored, ToldNew
  <2>6. ASSUME NEW t \in Taxis, Registered!Disconnect(t) PROVE NewOnce'
    <3>1. UNCHANGED <<stages, Told>> /\ row' = [row EXCEPT ![t] = "disconnected"]
      BY <2>6 DEF Registered!Disconnect, stages, Told
    <3>2. \A u \in Taxis : row[u] # "none" => row'[u] # "none"
      BY <2>1, <3>1
    <3>3. QED BY <2>1, <3>1, <3>2 DEF NewOnce, ToldOnce, NewIsStored, ToldNew
  <2>7. CASE Registered!Deliver
    <3>1. UNCHANGED <<row, stages, Told>>
      BY <2>7, DeliverTold DEF Registered!Deliver, stages
    <3>2. QED BY <3>1 DEF NewOnce, ToldOnce, NewIsStored, ToldNew
  <2>8. CASE Registered!Lose
    <3>1. UNCHANGED <<row, stages, log>> /\ queued' = <<>>
      BY <2>8 DEF Registered!Lose, stages
    <3>2. Told' = log
      BY <3>1 DEF TypeOK, Told
    <3>3. DOMAIN Told' \subseteq DOMAIN Told /\ \A i \in DOMAIN Told' : Told'[i] = Told[i]
      BY <3>2, ToldAt
    <3>4. \A t : ToldNew(t)' => ToldNew(t)
      BY <3>3 DEF ToldNew
    <3>5. ToldOnce'
      BY <3>3 DEF NewOnce, ToldOnce
    <3>6. NewIsStored'
      BY <3>1, <3>4 DEF NewOnce, NewIsStored
    <3>7. QED BY <3>5, <3>6 DEF NewOnce
  <2>9. QED BY <2>2, <2>3, <2>4, <2>5, <2>6, <2>7, <2>8 DEF Registered!Next
<1>3. TypeOK /\ NewOnce => NewTaxiOnce
  BY ToldAt DEF NewOnce, ToldOnce, NewTaxiOnce, IsNew
<1>4. QED BY <1>1, <1>2, <1>3, AuthTypes, ConversationHolds, RowsStayHolds, PTL DEF Spec

-----------------------------------------------------------------------------
(* What a refusal leaves                                                   *)

\* While no read of the engine has timed out, each frame is answered before the next is sent.
Punctual(e) ==
    up /\ ~engine[e].late =>
        /\ engine[e].at = "off" => toCentral[e] = <<>> /\ toEngine[e] = <<>>
        /\ engine[e].at = "asking" =>
            \/ toCentral[e] = <<"ENQ">> /\ toEngine[e] = <<>>
            \/ toCentral[e] = <<>> /\ toEngine[e] \in {<<>>, <<"ACK">>, <<"NACK">>}
        /\ engine[e].at = "proposing" =>
            \/ toCentral[e] = <<"ID">> /\ toEngine[e] = <<>> /\ petition[e].at = "reading"
            \/ /\ toCentral[e] = <<>>
               /\ \/ toEngine[e] = <<>> /\ petition[e].at \in {"checked", "stored", "announced"}
                  \/ toEngine[e] = <<>> /\ petition[e].at = "ended" /\ ~petition[e].stored
                  \/ /\ toEngine[e] = <<"DENY">>
                     /\ petition[e].at \in {"reading", "ended"} /\ ~petition[e].stored
                  \/ toEngine[e] = <<"GRANT">> /\ petition[e].at \in {"reading", "ended"}
        /\ engine[e].at = "failed" =>
            /\ petition[e].at \in {"reading", "ended"} /\ ~petition[e].stored
            /\ ~Has(toCentral[e], "ID")

\* Nothing starts the server again.
LEMMA StaysDown ==
    ASSUME [Next]_vars, up'
    PROVE  up
<1>1. ASSUME NEW e \in Engines, Own(e) PROVE up
  BY <1>1 DEF Own, Attends, Connects, FindsNobody, Authenticates, WaitsInVain, HearsNack, HearsAck,
     HearsGrant, HearsRefusal, ProposesInVain, FindsClosed, Killed
<1>2. CASE UNCHANGED vars \/ Delivers \/ LinkBreaks \/ \E t \in Taxis : Disconnects(t)
  BY <1>2 DEF vars, Delivers, LinkBreaks, Disconnects
<1>3. QED BY <1>1, <1>2 DEF Next, Own

LEMMA OneFrame ==
    \A f : Append(<<>>, f) = <<f>> /\ <<f>> # <<>> /\ Head(<<f>>) = f /\ Tail(<<f>>) = <<>>
OBVIOUS

\* An engine that fails has said nothing its petition could still act on.
LEMMA FailsPunctual ==
    ASSUME TypeOK, NEW e \in Engines, NEW late \in BOOLEAN, Fails(e, late), petition' = petition,
           petition[e].at \in {"reading", "ended"}, ~petition[e].stored,
           ~Has(toCentral[e], "ID")
    PROVE  Punctual(e)'
<1>1. ~Has(toCentral'[e], "ID")
  BY SaysOther DEF Fails, EngineFrames
<1>2. engine'[e].at = "failed"
  BY DEF Fails, TypeOK, EngineState
<1>3. QED BY <1>1, <1>2 DEF Punctual

LEMMA OwnPunctual ==
    ASSUME TypeOK, NEW e \in Engines, Conversation(e), Punctual(e), Own(e)
    PROVE  Punctual(e)'
<1> SUFFICES ASSUME up' PROVE Punctual(e)'
  BY DEF Punctual
<1>a. up
  BY DEF Own, Attends, Connects, FindsNobody, Authenticates, WaitsInVain, HearsNack, HearsAck,
     HearsGrant, HearsRefusal, ProposesInVain, FindsClosed, Killed
<1>b. ~FindsNobody(e)
  BY <1>a DEF FindsNobody
<1>0. engine[e] \in EngineState /\ petition[e] \in PetitionState
  BY DEF TypeOK
<1>1. CASE Connects(e)
  <2>1. /\ engine[e].at = "off" /\ petition[e].at = "none" /\ toEngine' = toEngine
        /\ engine'[e].at = "asking" /\ engine'[e].late = engine[e].late
    BY <1>1 DEF Connects, Conversation, TypeOK, EngineState
  <2>2. toCentral'[e] = Append(toCentral[e], "ENQ")
    BY <1>1, <2>1 DEF Connects, Says, Attended, TypeOK
  <2>3. QED BY <1>a, <2>1, <2>2, OneFrame DEF Punctual
<1>2. CASE WaitsInVain(e)
  <2>1. engine'[e].late
    BY <1>2 DEF WaitsInVain, AsksAgain, Fails, TypeOK, EngineState
  <2>2. QED BY <1>a, <2>1 DEF Punctual
<1>3. CASE HearsNack(e)
  <2>1. /\ engine[e].at = "asking" /\ toEngine[e] # <<>> /\ Head(toEngine[e]) # "ACK"
        /\ petition' = petition /\ engine[e].late \in BOOLEAN
    BY <1>0, <1>3 DEF HearsNack, EngineState
  <2>2. CASE Fails(e, engine[e].late)
    BY <2>1, <2>2, FailsPunctual DEF Conversation
  <2>3. CASE ~Fails(e, engine[e].late)
    <3>1. /\ engine'[e].at = "asking" /\ engine'[e].late = engine[e].late
          /\ toCentral'[e] \in {toCentral[e], Append(toCentral[e], "ENQ")}
          /\ toEngine'[e] = Tail(toEngine[e])
      BY <1>3, <2>1, <2>3 DEF HearsNack, AsksAgain, Says, TypeOK, EngineState
    <3>2. ~engine[e].late => toCentral[e] = <<>> /\ toEngine[e] = <<"NACK">>
      BY <1>a, <2>1, OneFrame DEF Punctual
    <3>3. QED BY <1>a, <3>1, <3>2, OneFrame DEF Punctual
  <2>4. QED BY <2>2, <2>3
<1>4. CASE HearsAck(e)
  <2>1. /\ engine[e].at = "asking" /\ toEngine[e] # <<>> /\ Head(toEngine[e]) = "ACK"
        /\ engine'[e].at = "proposing" /\ engine'[e].late = engine[e].late
        /\ petition' = petition /\ toEngine'[e] = Tail(toEngine[e])
        /\ toCentral'[e] = IF Attended(e) THEN Append(toCentral[e], "ID") ELSE toCentral[e]
    BY <1>4 DEF HearsAck, Says, TypeOK, EngineState
  <2>2. ~engine[e].late => toCentral[e] = <<>> /\ toEngine[e] = <<"ACK">>
    BY <1>a, <2>1, OneFrame DEF Punctual
  <2>3. /\ petition[e].at = IF Attended(e) THEN "reading" ELSE "ended"
        /\ ~petition[e].stored
    BY <1>a, <2>1 DEF Attended, Conversation
  <2>4. QED BY <1>a, <2>1, <2>2, <2>3, OneFrame DEF Punctual
<1>5. CASE HearsGrant(e)
  <2>1. engine'[e].at = "running"
    BY <1>5 DEF HearsGrant, TypeOK, EngineState
  <2>2. QED BY <1>a, <2>1 DEF Punctual
<1>6. CASE HearsRefusal(e)
  <2>1. /\ engine[e].at = "proposing" /\ toEngine[e] # <<>> /\ Head(toEngine[e]) # "GRANT"
        /\ Fails(e, engine[e].late) /\ petition' = petition /\ engine[e].late \in BOOLEAN
    BY <1>0, <1>6 DEF HearsRefusal, EngineState
  <2>2. ~engine[e].late => toCentral[e] = <<>> /\ toEngine[e] = <<"DENY">>
    BY <1>a, <2>1, OneFrame DEF Punctual
  <2>3. CASE engine[e].late
    <3>1. engine'[e].late
      BY <2>1, <2>3 DEF Fails, TypeOK, EngineState
    <3>2. QED BY <1>a, <3>1 DEF Punctual
  <2>4. CASE ~engine[e].late
    BY <1>a, <2>1, <2>2, <2>4, FailsPunctual, EmptyHas, OneFrame DEF Punctual
  <2>5. QED BY <2>3, <2>4
<1>7. CASE ProposesInVain(e)
  <2>1. /\ engine[e].at = "proposing" /\ toEngine[e] = <<>> /\ petition' = petition
        /\ Fails(e, engine[e].late \/ Attended(e)) /\ (engine[e].late \/ Attended(e)) \in BOOLEAN
    BY <1>0, <1>7 DEF ProposesInVain, EngineState, Attended
  <2>2. CASE engine[e].late \/ Attended(e)
    <3>1. engine'[e].late
      BY <2>1, <2>2 DEF Fails, TypeOK, EngineState
    <3>2. QED BY <1>a, <3>1 DEF Punctual
  <2>3. CASE ~engine[e].late /\ ~Attended(e)
    <3>1. petition[e].at = "ended" /\ ~petition[e].stored /\ toCentral[e] = <<>>
      BY <1>a, <2>1, <2>3, OneFrame DEF Punctual, Attended
    <3>2. QED BY <2>1, <3>1, FailsPunctual, EmptyHas
  <2>4. QED BY <2>2, <2>3
<1>8. CASE FindsClosed(e)
  <2>1. /\ engine[e].at = "asking" /\ petition' = petition
        /\ Fails(e, engine[e].late) /\ engine[e].late \in BOOLEAN
    BY <1>0, <1>8 DEF FindsClosed, EngineState
  <2>2. QED BY <2>1, FailsPunctual DEF Conversation
<1>9. CASE Killed(e)
  <2>1. engine'[e].at = "killed"
    BY <1>9 DEF Killed, TypeOK, EngineState
  <2>2. QED BY <1>a, <2>1 DEF Punctual
<1>10. CASE AttendsEnq(e)
  <2>1. /\ petition[e].at = "reading" /\ toCentral[e] # <<>> /\ Head(toCentral[e]) = "ENQ"
        /\ toCentral'[e] = Tail(toCentral[e]) /\ UNCHANGED <<engine, petition>>
    BY <1>10 DEF AttendsEnq, Receives, TypeOK
  <2>2. Has(toCentral'[e], "ID") => Has(toCentral[e], "ID")
    BY <1>10, ReceivesHas DEF AttendsEnq
  <2>3. engine[e].at = "asking" =>
            toEngine'[e] \in {Append(toEngine[e], "ACK"), Append(toEngine[e], "NACK")}
    BY <1>10 DEF AttendsEnq, Reply, HungUp, TypeOK
  <2>4. engine[e].at # "off" /\ (~engine[e].late => engine[e].at # "proposing")
    BY <1>a, <2>1, OneFrame DEF Conversation, Punctual
  <2>5. engine[e].at = "asking" /\ ~engine[e].late => toCentral[e] = <<"ENQ">> /\ toEngine[e] = <<>>
    BY <1>a, <2>1, OneFrame DEF Punctual
  <2>6. QED BY <1>a, <2>1, <2>2, <2>3, <2>4, <2>5, OneFrame DEF Punctual
<1>11. CASE ChecksId(e)
  <2>1. /\ petition[e].at = "reading" /\ toCentral[e] # <<>> /\ Head(toCentral[e]) = "ID"
        /\ toCentral'[e] = Tail(toCentral[e]) /\ Has(toCentral[e], "ID") /\ engine' = engine
    BY <1>11, ReceivesHas DEF ChecksId, Receives, TypeOK
  <2>2. ~petition[e].stored /\ engine[e].at \notin {"off", "asking"}
    BY <2>1 DEF Conversation
  <2>3. ~engine[e].late => engine[e].at # "failed"
    BY <1>a, <2>1 DEF Punctual
  <2>4. CASE engine[e].at = "proposing" /\ ~engine[e].late
    <3>1. toCentral[e] = <<"ID">> /\ toEngine[e] = <<>>
      BY <1>a, <2>1, <2>4 DEF Punctual
    <3>2. \/ petition'[e].at = "checked" /\ toEngine' = toEngine
          \/ petition' = petition /\ toEngine'[e] = Append(toEngine[e], "DENY")
      <4>1. \/ petition'[e].at = "checked" /\ toEngine' = toEngine
            \/ petition' = petition /\ Reply(e, "DENY")
        <5> DEFINE again == row[IdOf[e]] = "disconnected"
        <5>1. \/ /\ petition' = [petition EXCEPT ![e].at = "checked", ![e].reconnect = again]
                 /\ toEngine' = toEngine
              \/ petition' = petition /\ Reply(e, "DENY")
          BY <1>11 DEF ChecksId
        <5> HIDE DEF again
        <5>2. QED BY <5>1 DEF TypeOK, PetitionState
      <4>2. Reply(e, "DENY") => toEngine'[e] = Append(toEngine[e], "DENY")
        BY <2>4 DEF Reply, HungUp, TypeOK
      <4>3. QED BY <4>1, <4>2
    <3>3. QED BY <1>a, <2>1, <2>2, <2>4, <3>1, <3>2, OneFrame DEF Punctual
  <2>5. CASE engine[e].at # "proposing" \/ engine[e].late
    BY <1>a, <2>1, <2>2, <2>3, <2>5 DEF Punctual
  <2>6. QED BY <2>4, <2>5
<1>12. CASE StoresTaxi(e) \/ AnnouncesTaxi(e) \/ Grants(e)
  <2>1. /\ petition[e].at \in {"checked", "stored", "announced"}
        /\ UNCHANGED <<engine, toCentral>>
    BY <1>12 DEF StoresTaxi, AnnouncesTaxi, Grants
  <2>2. engine[e].at \notin {"off", "asking"} /\ (~engine[e].late => engine[e].at # "failed")
    BY <1>a, <2>1 DEF Conversation, Punctual
  <2>3. CASE engine[e].at = "proposing" /\ ~engine[e].late
    <3>1. toCentral[e] = <<>> /\ toEngine[e] = <<>>
      BY <1>a, <2>1, <2>3, OneFrame DEF Punctual
    <3>2. \/ petition'[e].at \in {"stored", "announced"} /\ toEngine' = toEngine
          \/ /\ petition'[e].at = "reading" /\ petition'[e].stored = petition[e].stored
             /\ petition[e].at = "checked" /\ toEngine'[e] = Append(toEngine[e], "DENY")
          \/ petition'[e].at = "reading" /\ toEngine'[e] = Append(toEngine[e], "GRANT")
      <4>1. CASE StoresTaxi(e)
        BY <2>3, <4>1 DEF StoresTaxi, Reply, HungUp, TypeOK, PetitionState
      <4>2. CASE AnnouncesTaxi(e)
        BY <4>2 DEF AnnouncesTaxi, TypeOK, PetitionState
      <4>3. CASE Grants(e)
        BY <2>3, <4>3 DEF Grants, Reply, HungUp, TypeOK, PetitionState
      <4>4. QED BY <1>12, <4>1, <4>2, <4>3
    <3>3. petition[e].at = "checked" => ~petition[e].stored
      BY DEF Conversation
    <3>4. QED BY <1>a, <2>1, <2>3, <3>1, <3>2, <3>3, OneFrame DEF Punctual
  <2>4. CASE engine[e].at # "proposing" \/ engine[e].late
    BY <1>a, <2>1, <2>2, <2>4 DEF Punctual
  <2>5. QED BY <2>3, <2>4
<1>13. CASE PetitionEnds(e)
  <2>1. /\ petition[e].at = "reading" /\ petition'[e].at = "ended"
        /\ petition'[e].stored = petition[e].stored /\ UNCHANGED <<engine, toEngine>>
        /\ toCentral'[e] = <<>> /\ (toCentral[e] # <<>> => Head(toCentral[e]) = "EOT")
    BY <1>13 DEF PetitionEnds, TypeOK, PetitionState
  <2>2. engine[e].at # "off"
    BY <2>1 DEF Conversation
  <2>3. ~engine[e].late /\ engine[e].at \in {"asking", "proposing"} => toCentral[e] = <<>>
    BY <1>a, <2>1, OneFrame DEF Punctual
  <2>4. QED BY <1>a, <2>1, <2>2, <2>3, EmptyHas, OneFrame DEF Punctual
<1>14. QED
  BY <1>b, <1>1, <1>2, <1>3, <1>4, <1>5, <1>6, <1>7, <1>8, <1>9, <1>10, <1>11, <1>12, <1>13
  DEF Own, Authenticates, Attends

\* An engine that is refused, and never waited in vain, has left no row behind: nothing was
\* stored for it, and nothing it has sent can still be.
THEOREM RefusalIsClean == Spec => []RefusalLeavesNoTrace
<1> DEFINE AllPunctual == \A e \in Engines : Punctual(e)
<1>1. Init => AllPunctual
  BY DEF Init, Punctual
<1>2. TypeOK /\ Conversations /\ AllPunctual /\ [Next]_vars => AllPunctual'
  <2> SUFFICES ASSUME TypeOK, Conversations, AllPunctual, [Next]_vars, NEW f \in Engines
               PROVE  Punctual(f)'
    OBVIOUS
  <2>0. Punctual(f)
    OBVIOUS
  <2>1. ASSUME NEW e \in Engines, Own(e) PROVE Punctual(f)'
    <3>1. CASE f = e
      BY <2>0, <2>1, <3>1, OwnPunctual DEF Conversations
    <3>2. CASE f # e
      BY <2>0, <2>1, <3>2, OthersStay, StaysDown DEF Punctual
    <3>3. QED BY <3>1, <3>2
  <2>2. CASE UNCHANGED vars \/ Delivers \/ LinkBreaks \/ \E t \in Taxis : Disconnects(t)
    BY <2>0, <2>2, CentralStays, StaysDown DEF Punctual
  <2>3. QED BY <2>1, <2>2 DEF Next, Own
<1>3. TypeOK /\ AllPunctual => RefusalLeavesNoTrace
  BY DEF RefusalLeavesNoTrace, Punctual, TypeOK, EngineState, PetitionState
<1>4. QED BY <1>1, <1>2, <1>3, AuthTypes, ConversationHolds, PTL DEF Spec
=============================================================================

---------------------------- MODULE FloodProofs ----------------------------
(***************************************************************************)
(* Proofs about Flood for any users, chats, minute and threshold.          *)
(***************************************************************************)
EXTENDS Flood, TLAPS

(* How Older moves an age. *)
LEMMA OlderFacts ==
  ASSUME NEW a \in Age
  PROVE  /\ Older(a) \in Age
         /\ a <= Minute => Older(a) = a + 1
         /\ a > Minute => Older(a) = LongAgo /\ a = LongAgo
         /\ Older(a) = IF a < LongAgo THEN a + 1 ELSE LongAgo
BY FloodAssumption, SMT DEF Older, Age, LongAgo

(* An absent time stays absent, and an age never becomes absent. *)
LEMMA OlderAbsent ==
  ASSUME NEW a \in Age \cup {Absent}
  PROVE  Older(a) \in Age \cup {Absent} /\ (Older(a) = Absent <=> a = Absent)
BY FloodAssumption, SMT DEF Older, Age, LongAgo, Absent

LEMMA AgeFacts ==
  /\ 0 \in Age /\ LongAgo \in Age /\ Age \subseteq Nat /\ Older(LongAgo) = LongAgo
  /\ LongAgo > Minute /\ LongAgo # Absent /\ 0 # Absent /\ Absent \notin Age
BY FloodAssumption, SMT DEF Older, Age, LongAgo, Absent
-----------------------------------------------------------------------------
LEMMA InitTypes == Init => TypeOK
BY AgeFacts DEF Init, TypeOK, Types, SameKeys, Never

LEMMA TypeStep == TypeOK /\ [Next]_vars => TypeOK'
<1> SUFFICES ASSUME TypeOK, [Next]_vars PROVE TypeOK'
  OBVIOUS
<1> USE AgeFacts DEF TypeOK, Types, SameKeys, memory
<1>1. CASE Tick
  <2>1. /\ \A ch \in Chats, u \in Users : Older(joins[ch][u]) \in Age
        /\ \A ch \in Chats, u \in Users : Older(since[ch][u]) \in Age
    BY OlderFacts
  <2>2. ASSUME NEW ch \in Chats
        PROVE  /\ Older(lastJoin[ch]) \in Age \cup {Absent}
               /\ (Older(lastJoin[ch]) = Absent <=> lastJoin[ch] = Absent)
    <3>1. lastJoin[ch] \in Age \cup {Absent}
      OBVIOUS
    <3> HIDE DEF TypeOK
    <3> QED BY <3>1, OlderAbsent
  <2>3. Types'
    BY <1>1, <2>1, <2>2 DEF Tick
  <2>4. ASSUME NEW ch \in Chats, lastJoin'[ch] = Absent
        PROVE  ~active'[ch] /\ joins'[ch] = Never[ch]
    <3>1. lastJoin[ch] = Absent
      BY <1>1, <2>2, <2>4 DEF Tick
    <3>2. ~active[ch] /\ joins[ch] = [u \in Users |-> LongAgo]
      BY <3>1 DEF Never
    <3>3. joins'[ch] = [u \in Users |-> Older(joins[ch][u])]
      BY <1>1 DEF Tick
    <3>4. joins'[ch] = [u \in Users |-> LongAgo]
      BY <3>2, <3>3
    <3> QED BY <1>1, <3>2, <3>4 DEF Tick, Never
  <2> QED BY <2>3, <2>4 DEF Never
<1>2. CASE Cleanup
  <2>1. Types'
    BY <1>2 DEF Cleanup
  <2>2. SameKeys'
    BY <1>2 DEF Cleanup, Never
  <2> QED BY <2>1, <2>2
<1>3. CASE Restart
  BY <1>3 DEF Restart, Never
<1>4. ASSUME NEW u \in Users, NEW ch \in Chats, Arrive(u, ch) PROVE TypeOK'
  BY <1>4 DEF Arrive
<1>5. ASSUME NEW u \in Users, RecordJoin(u) PROVE TypeOK'
  <2>1. Types'
    BY <1>5 DEF RecordJoin
  <2>2. SameKeys'
    BY <1>5 DEF RecordJoin, Never
  <2> QED BY <2>1, <2>2
<1>6. ASSUME NEW u \in Users, CheckFlood(u) PROVE TypeOK'
  BY <1>6 DEF CheckFlood
<1>7. ASSUME NEW u \in Users, Forget(u) PROVE TypeOK'
  BY <1>7 DEF Forget
<1>8. CASE UNCHANGED vars
  BY <1>8 DEF vars
<1> QED BY <1>1, <1>2, <1>3, <1>4, <1>5, <1>6, <1>7, <1>8 DEF Next

(***************************************************************************)
(* Every variable keeps its type, and floodJoins, floodActive and          *)
(* floodLastJoin have the same keys.                                       *)
(***************************************************************************)
THEOREM TypeCorrect == Spec => []TypeOK
BY InitTypes, TypeStep, PTL DEF Spec
-----------------------------------------------------------------------------
(***************************************************************************)
(* The relation between what floodMu protects and the true history: a join *)
(* of the last minute is in floodJoins with its true age, and no join is   *)
(* younger than floodLastJoin says.                                        *)
(***************************************************************************)
JoinsInv ==
  \A ch \in Chats, u \in Users :
    joins[ch][u] = since[ch][u] \/ (joins[ch][u] >= Minute /\ since[ch][u] >= Minute)

LastInv ==
  \A ch \in Chats, u \in Users :
    IF lastJoin[ch] = Absent THEN since[ch][u] > Minute ELSE lastJoin[ch] <= since[ch][u]

HistoryInv == JoinsInv /\ LastInv

LEMMA InitHistory == Init => HistoryInv
BY AgeFacts DEF Init, HistoryInv, JoinsInv, LastInv, Never

LEMMA OlderKeepsOrder ==
  ASSUME NEW a \in Age, NEW b \in Age
  PROVE  /\ a <= b => Older(a) <= Older(b)
         /\ a = b \/ (a >= Minute /\ b >= Minute)
              => Older(a) = Older(b) \/ (Older(a) >= Minute /\ Older(b) >= Minute)
         /\ a > Minute => Older(a) > Minute
         /\ a > Minute /\ a <= b => b > Minute
BY FloodAssumption, SMT DEF Older, Age, LongAgo

LEMMA HistoryStep == TypeOK /\ HistoryInv /\ [Next]_vars => HistoryInv'
<1> SUFFICES ASSUME TypeOK, HistoryInv, [Next]_vars PROVE HistoryInv'
  OBVIOUS
<1>1. \A ch \in Chats, u \in Users : joins[ch][u] \in Age /\ since[ch][u] \in Age
  BY DEF TypeOK, Types
<1>2. \A ch \in Chats : lastJoin[ch] \in Age \cup {Absent}
  BY DEF TypeOK, Types
<1>3. CASE UNCHANGED <<memory, since>>
  BY <1>3 DEF HistoryInv, JoinsInv, LastInv, memory
<1>4. CASE Tick
  <2> SUFFICES ASSUME NEW ch \in Chats, NEW u \in Users
               PROVE  /\ joins'[ch][u] = since'[ch][u] \/ (joins'[ch][u] >= Minute /\ since'[ch][u] >= Minute)
                      /\ IF lastJoin'[ch] = Absent THEN since'[ch][u] > Minute
                                                   ELSE lastJoin'[ch] <= since'[ch][u]
    BY DEF HistoryInv, JoinsInv, LastInv
  <2>1. /\ joins'[ch][u] = Older(joins[ch][u])
        /\ since'[ch][u] = Older(since[ch][u])
        /\ lastJoin'[ch] = Older(lastJoin[ch])
    BY <1>4 DEF Tick
  <2>2. joins'[ch][u] = since'[ch][u] \/ (joins'[ch][u] >= Minute /\ since'[ch][u] >= Minute)
    BY <1>1, <2>1, OlderKeepsOrder DEF HistoryInv, JoinsInv
  <2>3. CASE lastJoin[ch] = Absent
    <3>1. lastJoin'[ch] = Absent
      BY <2>1, <2>3, OlderAbsent
    <3>2. since[ch][u] > Minute
      BY <2>3 DEF HistoryInv, LastInv
    <3> QED BY <1>1, <2>1, <2>2, <3>1, <3>2, OlderKeepsOrder
  <2>4. CASE lastJoin[ch] \in Age
    <3>1. lastJoin'[ch] # Absent
      BY <2>1, <2>4, OlderAbsent, AgeFacts
    <3>2. lastJoin[ch] <= since[ch][u]
      BY <2>4, AgeFacts DEF HistoryInv, LastInv
    <3> QED BY <1>1, <2>1, <2>2, <2>4, <3>1, <3>2, OlderKeepsOrder
  <2> QED BY <1>2, <2>3, <2>4
<1>5. CASE Cleanup
  <2> SUFFICES ASSUME NEW ch \in Chats, NEW u \in Users
               PROVE  /\ joins'[ch][u] = since'[ch][u] \/ (joins'[ch][u] >= Minute /\ since'[ch][u] >= Minute)
                      /\ IF lastJoin'[ch] = Absent THEN since'[ch][u] > Minute
                                                   ELSE lastJoin'[ch] <= since'[ch][u]
    BY DEF HistoryInv, JoinsInv, LastInv
  <2>1. since'[ch][u] = since[ch][u]
    BY <1>5 DEF Cleanup
  <2>2. CASE ch \in Over
    <3>1. lastJoin'[ch] = Absent /\ joins'[ch][u] = LongAgo
      BY <1>5, <2>2 DEF Cleanup
    <3>2. lastJoin[ch] > Minute
      BY <2>2 DEF Over
    <3>3. lastJoin[ch] # Absent
      BY <3>2, FloodAssumption DEF Absent
    <3>4. lastJoin[ch] <= since[ch][u]
      BY <3>3 DEF HistoryInv, LastInv
    <3>5. since[ch][u] > Minute
      BY <1>1, <1>2, <3>2, <3>3, <3>4, OlderKeepsOrder
    <3> QED BY <1>1, <2>1, <3>1, <3>5, FloodAssumption, AgeFacts DEF LongAgo, Age
  <2>3. CASE ch \notin Over
    BY <1>5, <2>1, <2>3 DEF Cleanup, HistoryInv, JoinsInv, LastInv
  <2> QED BY <2>2, <2>3
<1>6. CASE Restart
  BY <1>6, AgeFacts DEF Restart, HistoryInv, JoinsInv, LastInv, Never
<1>7. ASSUME NEW v \in Users, RecordJoin(v) PROVE HistoryInv'
  <2> SUFFICES ASSUME NEW ch \in Chats, NEW u \in Users
               PROVE  /\ joins'[ch][u] = since'[ch][u] \/ (joins'[ch][u] >= Minute /\ since'[ch][u] >= Minute)
                      /\ IF lastJoin'[ch] = Absent THEN since'[ch][u] > Minute
                                                   ELSE lastJoin'[ch] <= since'[ch][u]
    BY DEF HistoryInv, JoinsInv, LastInv
  <2>1. CASE ch = chat[v]
    <3>1. lastJoin'[ch] = 0 /\ lastJoin'[ch] # Absent
      BY <1>7, <2>1, AgeFacts DEF RecordJoin, TypeOK, Types
    <3>2. since'[ch][u] = IF u = v THEN 0 ELSE since[ch][u]
      BY <1>7, <2>1 DEF RecordJoin, TypeOK, Types
    <3>3. joins'[ch][u] = IF u = v THEN 0 ELSE IF joins[ch][u] < Minute THEN joins[ch][u] ELSE LongAgo
      BY <1>7, <2>1 DEF RecordJoin, TypeOK, Types, InWindow
    <3>4. since'[ch][u] \in Age
      BY <1>1, <3>2, AgeFacts
    <3>5. lastJoin'[ch] <= since'[ch][u]
      BY <3>1, <3>4 DEF Age
    <3>6. joins[ch][u] = since[ch][u] \/ (joins[ch][u] >= Minute /\ since[ch][u] >= Minute)
      BY DEF HistoryInv, JoinsInv
    <3>7. joins'[ch][u] = since'[ch][u] \/ (joins'[ch][u] >= Minute /\ since'[ch][u] >= Minute)
      BY <1>1, <3>2, <3>3, <3>6, FloodAssumption DEF Age, LongAgo
    <3> QED BY <3>1, <3>5, <3>7
  <2>2. CASE ch # chat[v]
    <3>1. joins'[ch] = joins[ch] /\ since'[ch] = since[ch] /\ lastJoin'[ch] = lastJoin[ch]
      BY <1>7, <2>2 DEF RecordJoin, TypeOK, Types
    <3> QED BY <3>1 DEF HistoryInv, JoinsInv, LastInv
  <2> QED BY <2>1, <2>2
<1> QED BY <1>3, <1>4, <1>5, <1>6, <1>7
        DEF Next, vars, memory, Arrive, CheckFlood, Forget
-----------------------------------------------------------------------------
(***************************************************************************)
(* A newcomer who was recorded in a flood and has not been checked within  *)
(* the minute still finds flood mode on.                                   *)
(***************************************************************************)
StillOn ==
  \A u \in Users :
    (pc[u] = "recorded" /\ inFlood[u] /\ since[chat[u]][u] <= Minute) => active[chat[u]]

LEMMA StillOnStep == TypeOK /\ HistoryInv /\ StillOn /\ [Next]_vars => StillOn'
<1> SUFFICES ASSUME TypeOK, HistoryInv, StillOn, [Next]_vars,
                    NEW u \in Users,
                    pc'[u] = "recorded", inFlood'[u], since'[chat'[u]][u] <= Minute
             PROVE  active'[chat'[u]]
  BY DEF StillOn
<1>1. chat[u] \in Chats
  BY DEF TypeOK, Types
<1>2. CASE UNCHANGED vars
  BY <1>2 DEF StillOn, vars, memory
<1>3. CASE Tick
  <2>1. since'[chat[u]][u] = Older(since[chat[u]][u]) /\ since[chat[u]][u] \in Age
    BY <1>1, <1>3 DEF Tick, TypeOK, Types
  <2>2. since[chat[u]][u] <= Minute
    <3>1. \A a \in Age : Older(a) <= Minute => a <= Minute
      BY FloodAssumption, SMT DEF Older, Age, LongAgo
    <3> QED BY <1>3, <2>1, <3>1 DEF Tick
  <2> QED BY <1>3, <2>2 DEF Tick, StillOn
<1>4. CASE Cleanup
  <2>1. pc[u] = "recorded" /\ inFlood[u] /\ since[chat[u]][u] <= Minute
    BY <1>4 DEF Cleanup
  <2>2. active[chat[u]]
    BY <2>1 DEF StillOn
  <2>3. chat[u] \notin Over
    <3> SUFFICES ASSUME lastJoin[chat[u]] > Minute PROVE FALSE
      BY DEF Over
    <3>1. lastJoin[chat[u]] # Absent
      BY FloodAssumption DEF Absent
    <3>2. lastJoin[chat[u]] <= since[chat[u]][u]
      BY <1>1, <3>1 DEF HistoryInv, LastInv
    <3>3. lastJoin[chat[u]] \in Age /\ since[chat[u]][u] \in Age
      BY <1>1, <3>1 DEF TypeOK, Types
    <3> QED BY <2>1, <3>2, <3>3, FloodAssumption DEF Age
  <2>4. active'[chat[u]] = (active[chat[u]] /\ chat[u] \notin Over)
    BY <1>1, <1>4 DEF Cleanup
  <2> QED BY <1>4, <2>2, <2>3, <2>4 DEF Cleanup
<1>5. CASE Restart
  BY <1>5 DEF Restart
<1>6. ASSUME NEW v \in Users, RecordJoin(v) PROVE active'[chat'[u]]
  <2>1. CASE u = v
    <3>1. inFlood'[u] = active'[chat[u]]
      BY <1>1, <1>6, <2>1 DEF RecordJoin, TypeOK, Types
    <3> QED BY <1>6, <3>1 DEF RecordJoin
  <2>2. CASE u # v
    <3>1. /\ pc[u] = "recorded" /\ inFlood[u] /\ chat'[u] = chat[u]
          /\ since'[chat[u]][u] = since[chat[u]][u]
      BY <1>1, <1>6, <2>2 DEF RecordJoin, TypeOK, Types
    <3>2. active[chat[u]]
      BY <3>1 DEF StillOn
    <3>3. active[chat[u]] => active'[chat[u]]
      BY <1>1, <1>6 DEF RecordJoin, TypeOK, Types
    <3> QED BY <3>1, <3>2, <3>3
  <2> QED BY <2>1, <2>2
<1>7. ASSUME NEW v \in Users, NEW ch \in Chats, Arrive(v, ch) PROVE active'[chat'[u]]
  <2>1. u # v /\ pc[u] = "recorded" /\ chat'[u] = chat[u]
    BY <1>7 DEF Arrive, TypeOK, Types
  <2> QED BY <1>7, <2>1 DEF Arrive, StillOn, memory
<1>8. ASSUME NEW v \in Users, CheckFlood(v) \/ Forget(v) PROVE active'[chat'[u]]
  <2>1. pc[u] = "recorded"
    BY <1>8 DEF CheckFlood, Forget, TypeOK, Types
  <2> QED BY <1>8, <2>1 DEF CheckFlood, Forget, StillOn, memory
<1> QED BY <1>2, <1>3, <1>4, <1>5, <1>6, <1>7, <1>8 DEF Next

(* The inductive invariant of the rest of this module. *)
FloodInv == TypeOK /\ HistoryInv /\ StillOn

LEMMA FloodInvariant == Spec => []FloodInv
<1>1. Init => FloodInv
  BY InitTypes, InitHistory DEF FloodInv, StillOn, Init
<1>2. FloodInv /\ [Next]_vars => FloodInv'
  BY TypeStep, HistoryStep, StillOnStep DEF FloodInv
<1> QED BY <1>1, <1>2, PTL DEF Spec

(***************************************************************************)
(* No newcomer of a flood is sent to the AI between recordJoin and         *)
(* isFloodActive, unless that took more than a minute.                     *)
(***************************************************************************)
THEOREM FloodSkipsAI == Spec => NoneAssessedInFlood
<1>1. FloodInv /\ [Next]_vars =>
        [\A u \in Users : (verdict[u] = "none" /\ verdict'[u] = "assess")
            => ~(inFlood[u] /\ since[chat[u]][u] <= Minute)]_vars
  <2> SUFFICES ASSUME FloodInv, Next, NEW u \in Users,
                      verdict[u] = "none", verdict'[u] = "assess"
               PROVE  ~(inFlood[u] /\ since[chat[u]][u] <= Minute)
    OBVIOUS
  <2>1. CheckFlood(u)
    <3>1. verdict' # verdict
      OBVIOUS
    <3>2. ASSUME NEW v \in Users, CheckFlood(v), v # u PROVE FALSE
      BY <3>2 DEF CheckFlood, FloodInv, TypeOK, Types
    <3>3. ASSUME NEW v \in Users, Forget(v) PROVE FALSE
      BY <3>3 DEF Forget, FloodInv, TypeOK, Types
    <3> QED BY <3>1, <3>2, <3>3
            DEF Next, Tick, Cleanup, Restart, Arrive, RecordJoin
  <2>2. pc[u] = "recorded" /\ ~active[chat[u]]
    BY <2>1 DEF CheckFlood, FloodInv, TypeOK, Types
  <2> QED BY <2>2 DEF FloodInv, StillOn
<1> QED BY <1>1, FloodInvariant, PTL DEF Spec, NoneAssessedInFlood
-----------------------------------------------------------------------------
(***************************************************************************)
(* Flood implements FloodAlarm.  A step of the one is a step of the other: *)
(* the newcomers counted are the same because of JoinsInv, and a chat the  *)
(* cleanup finds is quiet because of LastInv.                              *)
(***************************************************************************)
modeBar == [ch \in Chats |-> IF active[ch] THEN "flood" ELSE "calm"]

LEMMA AlarmNewcomer ==
  ASSUME FloodInv, NEW u \in Users, RecordJoin(u)
  PROVE  Alarm!Newcomer(chat[u], u)
<1> DEFINE ch == chat[u]
           recent == {v \in Users : v = u \/ InWindow(joins[ch][v])}
           known == {v \in Users : v = u \/ since[ch][v] < Minute}
           flood == active[ch] \/ Cardinality(recent) >= Threshold
<1>1. ch \in Chats
  BY DEF FloodInv, TypeOK, Types
<1>2. recent = known
  <2> SUFFICES ASSUME NEW v \in Users PROVE joins[ch][v] < Minute <=> since[ch][v] < Minute
    BY DEF InWindow
  <2>1. joins[ch][v] = since[ch][v] \/ (joins[ch][v] >= Minute /\ since[ch][v] >= Minute)
    BY <1>1 DEF FloodInv, HistoryInv, JoinsInv
  <2>2. joins[ch][v] \in Age /\ since[ch][v] \in Age
    BY <1>1 DEF FloodInv, TypeOK, Types
  <2> QED BY <2>1, <2>2, FloodAssumption DEF Age
<1>3. since' = [since EXCEPT ![ch][u] = 0]
  BY DEF RecordJoin
<1>4. active' = [active EXCEPT ![ch] = flood]
  BY DEF RecordJoin
<1>5. flood = (active[ch] \/ Cardinality(known) >= Threshold)
  BY <1>2
<1> HIDE DEF flood, known
<1>6. ASSUME NEW c \in Chats
      PROVE  modeBar'[c] = [modeBar EXCEPT ![ch] =
               IF Cardinality(known) >= Threshold THEN "flood" ELSE @][c]
  <2>1. CASE c = ch
    <3>1. active'[c] = flood
      BY <1>4, <2>1 DEF FloodInv, TypeOK, Types
    <3> QED BY <1>1, <1>5, <2>1, <3>1 DEF modeBar
  <2>2. CASE c # ch
    <3>1. active'[c] = active[c]
      BY <1>4, <2>2 DEF FloodInv, TypeOK, Types
    <3> QED BY <2>2, <3>1 DEF modeBar
  <2> QED BY <2>1, <2>2
<1>7. modeBar' = [modeBar EXCEPT ![ch] = IF Cardinality(known) >= Threshold THEN "flood" ELSE @]
  BY <1>6 DEF modeBar
<1>8. /\ since' = [since EXCEPT ![chat[u]][u] = 0]
      /\ modeBar' = [modeBar EXCEPT ![chat[u]] =
           IF Cardinality({v \in Users : v = u \/ since[chat[u]][v] < Minute}) >= Threshold
           THEN "flood" ELSE @]
  BY <1>3, <1>7 DEF known
<1> QED BY <1>8, Zenon DEF Alarm!Newcomer, modeBar, Cardinality, Alarm!Cardinality

LEMMA AlarmEnd ==
  ASSUME FloodInv, Cleanup
  PROVE  Alarm!End({ch \in Chats : ch \in Over /\ active[ch]})
<1> DEFINE S == {ch \in Chats : ch \in Over /\ active[ch]}
<1>1. ASSUME NEW ch \in S PROVE modeBar[ch] = "flood" /\ Alarm!Quiet(ch)
  <2>1. ch \in Chats /\ active[ch] /\ lastJoin[ch] > Minute
    BY <1>1 DEF Over
  <2>2. lastJoin[ch] # Absent
    BY <2>1, FloodAssumption DEF Absent
  <2>3. ASSUME NEW u \in Users PROVE since[ch][u] > Minute
    <3>1. lastJoin[ch] <= since[ch][u] /\ lastJoin[ch] \in Age /\ since[ch][u] \in Age
      BY <2>1, <2>2 DEF FloodInv, HistoryInv, LastInv, TypeOK, Types
    <3> QED BY <2>1, <3>1, OlderKeepsOrder
  <2> QED BY <2>1, <2>3 DEF modeBar, Alarm!Quiet
<1>2. modeBar' = [ch \in Chats |-> IF ch \in S THEN "calm" ELSE modeBar[ch]]
  <2> SUFFICES ASSUME NEW ch \in Chats
               PROVE  modeBar'[ch] = IF ch \in S THEN "calm" ELSE modeBar[ch]
    BY DEF modeBar
  <2>1. active'[ch] = (active[ch] /\ ch \notin Over)
    BY DEF Cleanup
  <2> QED BY <2>1 DEF modeBar
<1>3. UNCHANGED since
  BY DEF Cleanup
<1> QED BY <1>1, <1>2, <1>3 DEF Alarm!End, modeBar

LEMMA AlarmStep == FloodInv /\ [Next]_vars => [Alarm!Next]_(Alarm!vars)
<1> SUFFICES ASSUME FloodInv, [Next]_vars PROVE Alarm!Next \/ UNCHANGED Alarm!vars
  OBVIOUS
<1>1. CASE UNCHANGED <<active, since>>
  BY <1>1 DEF Alarm!vars
<1>2. CASE Tick
  <2>1. UNCHANGED modeBar
    BY <1>2 DEF Tick, modeBar
  <2>2. ASSUME NEW ch \in Chats, NEW u \in Users
        PROVE  Older(since[ch][u]) = IF since[ch][u] < LongAgo THEN since[ch][u] + 1 ELSE LongAgo
    BY OlderFacts DEF FloodInv, TypeOK, Types
  <2>3. Alarm!Tick
    BY <1>2, <2>1, <2>2 DEF Tick, Alarm!Tick, Alarm!LongAgo, LongAgo, modeBar
  <2> QED BY <2>3 DEF Alarm!Next
<1>3. CASE Cleanup
  <2>1. {ch \in Chats : ch \in Over /\ active[ch]} \in SUBSET Chats
    OBVIOUS
  <2>2. Alarm!End({ch \in Chats : ch \in Over /\ active[ch]})
    BY <1>3, AlarmEnd
  <2>3. \E S \in SUBSET Chats : Alarm!End(S)
    BY <2>1, <2>2, Zenon DEF Alarm!End
  <2> QED BY <2>3 DEF Alarm!Next
<1>4. CASE Restart
  <2>1. Alarm!Reset
    BY <1>4 DEF Restart, Alarm!Reset, Alarm!LongAgo, LongAgo, Never
  <2> QED BY <2>1 DEF Alarm!Next
<1>5. ASSUME NEW u \in Users, RecordJoin(u) PROVE Alarm!Next
  <2>1. chat[u] \in Chats /\ Alarm!Newcomer(chat[u], u)
    BY <1>5, AlarmNewcomer DEF FloodInv, TypeOK, Types
  <2> QED BY <2>1 DEF Alarm!Next
<1> QED BY <1>1, <1>2, <1>3, <1>4, <1>5
        DEF Next, vars, memory, Arrive, CheckFlood, Forget

(***************************************************************************)
(* For any users and chats, flood mode begins with the newcomer who makes  *)
(* Threshold of them within a minute, and never ends before a minute has   *)
(* gone without one.                                                       *)
(***************************************************************************)
THEOREM FloodImplementsAlarm == Spec => ImplementsAlarm
<1>1. Init => Alarm!Init
  BY DEF Init, Alarm!Init, Alarm!LongAgo, LongAgo, Never
<1> QED BY <1>1, AlarmStep, FloodInvariant, PTL DEF Spec, ImplementsAlarm, Alarm!Spec
=============================================================================

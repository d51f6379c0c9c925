--------------------------- MODULE TrackerProofs ---------------------------
(***************************************************************************)
(* Proofs about Tracker for any users, calls and times.                    *)
(***************************************************************************)
EXTENDS Tracker, TLAPS

LEMMA Numbers ==
  /\ Second \in Int /\ Second >= 1 /\ Day \in Int /\ Day >= 0 /\ MaxTime \in Int /\ MaxTime >= 0
  /\ Never \notin Time
BY TrackerAssumption DEF Never, Time

(* Whole rounds down by less than a second... *)
LEMMA WholeBounds ==
  ASSUME NEW a \in Int
  PROVE  Whole(a) \in Int /\ Whole(a) <= a /\ a < Whole(a) + Second
BY Numbers, SMT DEF Whole

(* ...and keeps the order of times. *)
LEMMA WholeMonotone ==
  ASSUME NEW a \in Int, NEW b \in Int, a <= b
  PROVE  Whole(a) <= Whole(b)
<1> DEFINE p == a \div Second
           q == b \div Second
<1>1. p \in Int /\ q \in Int
  BY Numbers, SMT
<1>2. p <= q
  BY Numbers, SMT
<1> HIDE DEF p, q
<1>3. p * Second <= q * Second
  BY <1>1, <1>2, Numbers, SMT
<1> QED BY <1>3 DEF Whole, p, q
-----------------------------------------------------------------------------
(* What TypeOK says of one call. *)
LEMMA CallType ==
  ASSUME TypeOK, NEW c \in Calls
  PROVE  /\ call[c] = Idle \/ call[c] \in Busy
         /\ call[c].pc \in {"waiting", "persisting"} => call[c] \in Busy
         /\ Idle.pc \notin {"waiting", "persisting"}
BY DEF TypeOK, Idle

LEMMA InitTypes == Init => TypeOK
<1> SUFFICES ASSUME Init PROVE TypeOK
  OBVIOUS
<1>1. 0 \in Time
  BY Numbers, SMT DEF Time
<1>2. DOMAIN users = {}
  BY DEF Init, NoUsers
<1> QED BY <1>1, <1>2 DEF Init, TypeOK

(* The time a row is stamped with is one of the model's times. *)
LEMMA WholeTime ==
  ASSUME NEW t \in Time
  PROVE  Whole(t) \in Time
<1>1. Whole(0) = 0
  BY Numbers, SMT DEF Whole
<1>2. Whole(0) <= Whole(t)
  BY Numbers, WholeMonotone DEF Time
<1> QED BY <1>1, <1>2, WholeBounds, Numbers DEF Time

LEMMA TypeStep == TypeOK /\ [Next]_vars => TypeOK'
<1> SUFFICES ASSUME TypeOK, [Next]_vars PROVE TypeOK'
  OBVIOUS
<1> USE DEF memory
<1>1. CASE Tick
  <2>1. now' \in Time
    BY <1>1, Numbers, SMT DEF Tick, TypeOK, Time
  <2> QED BY <1>1, <2>1 DEF Tick, TypeOK
<1>2. CASE Start
  <2>1. CASE users' = NoUsers
    <3>1. DOMAIN users' = {}
      BY <2>1 DEF NoUsers
    <3> QED BY <1>2, <2>1, <3>1 DEF Start, TypeOK
  <2>2. ASSUME NEW row \in [{r.user : r \in Recent} -> Recent],
               users' = [u \in DOMAIN row |->
                           [chat |-> row[u].chat, joined |-> row[u].joined]]
        PROVE  DOMAIN users' \subseteq Users /\ \A u \in DOMAIN users' : users'[u] \in UserInfo
    <3>1. Recent \subseteq Row
      BY DEF Recent, TypeOK
    <3>2. DOMAIN users' = {r.user : r \in Recent}
      BY <2>2
    <3>3. DOMAIN users' \subseteq Users
      BY <3>1, <3>2 DEF Row
    <3>4. ASSUME NEW u \in DOMAIN users' PROVE users'[u] \in UserInfo
      <4>1. row[u] \in Row
        BY <3>1, <3>2
      <4> QED BY <2>2, <3>2, <4>1 DEF Row, UserInfo
    <3> QED BY <3>3, <3>4
  <2>3. UNCHANGED <<now, rows, call, purging, kept>> /\ up' = TRUE
    BY <1>2 DEF Start
  <2>4. CASE \E row \in [{r.user : r \in Recent} -> Recent] :
               /\ users' = [u \in DOMAIN row |->
                              [chat |-> row[u].chat, joined |-> row[u].joined]]
               /\ UNCHANGED told
    <3>1. DOMAIN users' \subseteq Users /\ \A u \in DOMAIN users' : users'[u] \in UserInfo
      BY <2>2, <2>4
    <3> QED BY <2>3, <2>4, <3>1 DEF TypeOK
  <2> QED BY <1>2, <2>1, <2>4 DEF Start
<1>3. CASE Die
  <2>1. DOMAIN users' = {}
    BY <1>3 DEF Die, NoUsers
  <2> QED BY <1>3, <2>1 DEF Die, TypeOK
<1>4. ASSUME NEW c \in Calls, NEW u \in Users, NEW ch \in Chats, Enter(c, u, ch)
      PROVE  TypeOK'
  <2>1. [at |-> now, pc |-> "waiting", user |-> u, chat |-> ch] \in Busy
    BY DEF TypeOK, Busy
  <2> QED BY <1>4, <2>1 DEF Enter, TypeOK
<1>5. ASSUME NEW c \in Calls, Remember(c) PROVE TypeOK'
  BY <1>5 DEF Remember, TypeOK
<1>6. ASSUME NEW c \in Calls, Mark(c) PROVE TypeOK'
  <2>1. call[c] \in Busy
    BY <1>6, CallType DEF Mark
  <2>2. [chat |-> call[c].chat, joined |-> call[c].at] \in UserInfo
    BY <2>1 DEF Busy, UserInfo
  <2>3. call[c].user \in Users /\ call[c].at \in Time
    BY <2>1 DEF Busy
  <2>4. DOMAIN users' \subseteq Users /\ \A u \in DOMAIN users' : users'[u] \in UserInfo
    BY <1>6, <2>2, <2>3 DEF Mark, TypeOK
  <2>5. call' = [call EXCEPT ![c].pc = "persisting"]
    BY <1>6 DEF Mark
  <2>6. [call[c] EXCEPT !.pc = "persisting"] \in Busy
    BY <2>1 DEF Busy
  <2>7. call' \in [Calls -> Busy \cup {Idle}]
    BY <2>5, <2>6 DEF TypeOK
  <2> QED BY <1>6, <2>3, <2>4, <2>7 DEF Mark, TypeOK
<1>7. ASSUME NEW c \in Calls, AddNewUser(c) PROVE TypeOK'
  <2>1. call[c] \in Busy
    BY <1>7, CallType DEF AddNewUser
  <2>2. Whole(now) \in Time
    BY WholeTime DEF TypeOK
  <2>3. [user |-> call[c].user, chat |-> call[c].chat, joined |-> Whole(now)] \in Row
    BY <2>1, <2>2 DEF Busy, Row
  <2> HIDE DEF Row
  <2>4. rows' \subseteq Row
    BY <1>7, <2>3 DEF AddNewUser, Insert, TypeOK
  <2> QED BY <1>7, <2>4 DEF AddNewUser, TypeOK
<1>8. CASE PurgeRows
  BY <1>8 DEF PurgeRows, Recent, TypeOK
<1>9. CASE PurgeUsers
  BY <1>9 DEF PurgeUsers, TypeOK
<1>10. CASE UNCHANGED vars
  BY <1>10 DEF vars, TypeOK
<1> QED
  BY <1>1, <1>2, <1>3, <1>4, <1>5, <1>6, <1>7, <1>8, <1>9, <1>10 DEF Next

(* Every variable keeps its type, whatever fails and whenever it restarts. *)
THEOREM TypeCorrect == Spec => []TypeOK
BY InitTypes, TypeStep, PTL DEF Spec
-----------------------------------------------------------------------------
(***************************************************************************)
(* The strengthening.  It holds as long as no user has two rows, and when  *)
(* there is one monitored group nobody has; of two rows loadFromDB may     *)
(* take the older, and part of this fails (run TrackerOldest).             *)
(***************************************************************************)
OneChat == \A a, b \in Chats : a = b

(* Nothing is dated after now. *)
PastInv ==
  /\ \A u \in Users : told[u] <= now
  /\ \A u \in DOMAIN users : users[u].joined <= now
  /\ \A r \in rows : r.joined <= now
  /\ \A c \in Calls : call[c].at <= now

(* Between two processes nothing is under way and what is told is written. *)
DownInv ==
  ~up => /\ purging = Never
         /\ \A c \in Calls : call[c] = Idle
         /\ \A u \in Users : told[u] # Never => kept[u]

OneRow == \A r, q \in rows : r.user = q.user => r = q

(* An announcement that was written is in the table until it is a day old... *)
WrittenInv ==
  \A u \in Users : (kept[u] /\ told[u] # Never /\ now <= Whole(told[u]) + Day) =>
    \E r \in rows : r.user = u /\ r.joined >= Whole(told[u])

(* ...and in the map, with a time at most the fraction of a second earlier. *)
AnnouncedInv ==
  \A u \in Users : (up /\ told[u] # Never /\ now <= Whole(told[u]) + Day) =>
    u \in DOMAIN users /\ users[u].joined >= Whole(told[u])

(* A user of the map whose announcement was written has a row as recent. *)
BackedInv ==
  \A u \in DOMAIN users : (kept[u] /\ told[u] # Never /\ now <= users[u].joined + Day) =>
    \E r \in rows : r.user = u /\ r.joined >= Whole(users[u].joined)

TrackerInv ==
  TypeOK /\ PastInv /\ DownInv /\ OneRow /\ WrittenInv /\ AnnouncedInv /\ BackedInv

(* The numbers in TypeOK. *)
LEMMA Times ==
  ASSUME TypeOK
  PROVE  /\ now \in Int /\ now >= 0
         /\ \A u \in Users : told[u] \in Int /\ Whole(told[u]) \in Int
         /\ \A u \in DOMAIN users : users[u].joined \in Int
         /\ \A r \in rows : r.joined \in Int
         /\ \A c \in Calls : call[c].at \in Int
<1>1. Time \subseteq Int /\ Never \in Int /\ \A t \in Time : t >= 0
  BY Numbers DEF Time, Never
<1>2. ASSUME NEW c \in Calls PROVE call[c].at \in Int
  <2>1. call[c] = Idle \/ call[c] \in Busy
    BY CallType
  <2>2. CASE call[c] = Idle
    BY <1>1, <2>2 DEF Idle
  <2>3. CASE call[c] \in Busy
    BY <1>1, <2>3 DEF Busy
  <2> QED BY <2>1, <2>2, <2>3
<1>3. \A u \in Users : told[u] \in Int /\ Whole(told[u]) \in Int
  BY <1>1, WholeBounds DEF TypeOK
<1> QED BY <1>1, <1>2, <1>3 DEF TypeOK, UserInfo, Row

(* A row that is young enough survives a purge and is loaded. *)
LEMMA Survives ==
  ASSUME TypeOK, NEW r \in rows, NEW a \in Int, r.joined >= Whole(a), now <= a + Day
  PROVE  r \in Recent
<1>1. Whole(now - Day) <= Whole(a)
  BY Times, Numbers, WholeMonotone
<1>2. Whole(now - Day) \in Int /\ Whole(a) \in Int
  BY Times, Numbers, WholeBounds
<1> QED BY <1>1, <1>2, Times DEF Recent

(* The same for a row that is as young as an announcement. *)
LEMMA AnnouncedSurvives ==
  ASSUME TypeOK, NEW r \in rows, NEW a \in Int, r.joined >= Whole(a), now <= Whole(a) + Day
  PROVE  r \in Recent
<1>1. Whole(a) \in Int /\ Whole(Whole(a)) \in Int /\ Whole(Whole(a)) <= Whole(a)
  BY WholeBounds
<1>2. r.joined >= Whole(Whole(a))
  BY <1>1, Times
<1> QED BY <1>1, <1>2, Survives

LEMMA InitInv == Init => TrackerInv
<1> SUFFICES ASSUME Init PROVE TrackerInv
  OBVIOUS
<1>1. TypeOK
  BY InitTypes
<1>2. DOMAIN users = {}
  BY DEF Init, NoUsers
<1>3. PastInv
  BY <1>2 DEF Init, PastInv, Idle, Never
<1> QED BY <1>1, <1>2, <1>3 DEF Init, TrackerInv, DownInv, OneRow, WrittenInv, AnnouncedInv, BackedInv

LEMMA PastStep == TypeOK /\ PastInv /\ [Next]_vars => PastInv'
<1> SUFFICES ASSUME TypeOK, PastInv, [Next]_vars PROVE PastInv'
  OBVIOUS
<1> USE DEF memory
<1>0. TypeOK /\ PastInv /\ Idle.at = Never /\ Never \in Int /\ now \in Int /\ Never <= now
  BY Times DEF Idle, Never
<1>1. CASE Tick
  <2>1. now' \in Int /\ now' = now + 1
    BY <1>0, <1>1 DEF Tick
  <2> QED BY <1>0, <1>1, <2>1, Times DEF Tick, PastInv
<1>2. CASE Start
  <2>1. CASE users' = NoUsers /\ told' = [u \in Users |-> Never]
    <3>1. DOMAIN users' = {}
      BY <2>1 DEF NoUsers
    <3> QED BY <1>0, <1>2, <2>1, <3>1 DEF Start, PastInv
  <2>2. ASSUME NEW row \in [{r.user : r \in Recent} -> Recent],
               users' = [u \in DOMAIN row |->
                           [chat |-> row[u].chat, joined |-> row[u].joined]]
        PROVE  \A u \in DOMAIN users' : users'[u].joined <= now
    BY <1>0, <2>2 DEF Recent, PastInv
  <2> QED BY <1>0, <1>2, <2>1, <2>2 DEF Start, PastInv
<1>3. CASE Die
  <2>1. DOMAIN users' = {}
    BY <1>3 DEF Die, NoUsers
  <2> QED BY <1>0, <1>3, <2>1 DEF Die, PastInv
<1>4. ASSUME NEW c \in Calls, NEW u \in Users, NEW ch \in Chats, Enter(c, u, ch)
      PROVE  PastInv'
  BY <1>0, <1>4 DEF Enter, PastInv, TypeOK
<1>5. ASSUME NEW c \in Calls, Remember(c) PROVE PastInv'
  BY <1>0, <1>5 DEF Remember, PastInv, TypeOK
<1>6. ASSUME NEW c \in Calls, Mark(c) PROVE PastInv'
  <2>1. call[c] \in Busy
    BY <1>0, <1>6, CallType DEF Mark
  <2>2. \A d \in Calls : call'[d].at = call[d].at
    BY <1>0, <1>6, <2>1 DEF Mark, TypeOK, Busy
  <2>3. call[c].at <= now
    BY <1>0 DEF PastInv
  <2> QED BY <1>0, <1>6, <2>2, <2>3 DEF Mark, PastInv, TypeOK
<1>7. ASSUME NEW c \in Calls, AddNewUser(c) PROVE PastInv'
  <2>1. Whole(now) <= now
    BY <1>0, WholeBounds
  <2>2. \A r \in rows' : r.joined <= now
    BY <1>0, <1>7, <2>1 DEF AddNewUser, Insert, PastInv
  <2> QED BY <1>0, <1>7, <2>2 DEF AddNewUser, PastInv, TypeOK
<1>8. CASE PurgeRows
  BY <1>0, <1>8 DEF PurgeRows, Recent, PastInv
<1>9. CASE PurgeUsers
  BY <1>0, <1>9 DEF PurgeUsers, PastInv
<1>10. CASE UNCHANGED vars
  BY <1>0, <1>10 DEF vars, PastInv
<1> QED
  BY <1>1, <1>2, <1>3, <1>4, <1>5, <1>6, <1>7, <1>8, <1>9, <1>10 DEF Next

LEMMA DownStep == TrackerInv /\ [Next]_vars => DownInv'
<1> SUFFICES ASSUME TrackerInv, [Next]_vars PROVE DownInv'
  OBVIOUS
<1> USE DEF memory
<1>0. TypeOK /\ DownInv /\ Idle.pc = "idle"
  BY DEF TrackerInv, Idle
<1>1. CASE Tick \/ Start
  BY <1>0, <1>1 DEF Tick, Start, DownInv
<1>2. CASE Die
  BY <1>0, <1>2 DEF Die, DownInv, TypeOK
<1>3. ASSUME NEW c \in Calls, NEW u \in Users, NEW ch \in Chats, Enter(c, u, ch)
      PROVE  DownInv'
  BY <1>0, <1>3 DEF Enter, DownInv
<1>4. ASSUME NEW c \in Calls, Remember(c) \/ Mark(c) \/ AddNewUser(c) PROVE DownInv'
  BY <1>0, <1>4 DEF Remember, Mark, AddNewUser, DownInv
<1>5. CASE PurgeRows \/ PurgeUsers
  BY <1>0, <1>5 DEF PurgeRows, PurgeUsers, DownInv
<1>6. CASE UNCHANGED vars
  BY <1>0, <1>6 DEF vars, DownInv
<1> QED BY <1>1, <1>2, <1>3, <1>4, <1>5, <1>6 DEF Next

LEMMA OneRowStep == OneChat /\ TypeOK /\ OneRow /\ [Next]_vars => OneRow'
<1> SUFFICES ASSUME OneChat, TypeOK, OneRow, [Next]_vars PROVE OneRow'
  OBVIOUS
<1>1. ASSUME NEW c \in Calls, AddNewUser(c) PROVE OneRow'
  <2>1. call[c] \in Busy
    BY <1>1, CallType DEF AddNewUser
  <2>2. \A r \in rows : r.chat = call[c].chat
    BY <2>1 DEF OneChat, TypeOK, Row, Busy
  <2> QED BY <1>1, <2>2 DEF AddNewUser, Insert, SameKey, OneRow
<1>2. CASE rows' \subseteq rows
  BY <1>2 DEF OneRow
<1>3. CASE ~\E c \in Calls : AddNewUser(c)
  <2>1. rows' \subseteq rows
    BY <1>3 DEF Next, vars, memory, Tick, Start, Die, Enter, Remember, Mark, PurgeRows, Recent, PurgeUsers
  <2> QED BY <1>2, <2>1
<1> QED BY <1>1, <1>3

LEMMA WrittenStep == TrackerInv /\ [Next]_vars => WrittenInv'
<1> SUFFICES ASSUME TrackerInv, [Next]_vars PROVE WrittenInv'
  OBVIOUS
<1> USE DEF memory
<1>0. TypeOK /\ WrittenInv /\ PastInv
  BY DEF TrackerInv
<1>1. CASE Tick
  <2>1. now' = now + 1 /\ UNCHANGED <<told, kept, rows>>
    BY <1>1 DEF Tick
  <2>2. ASSUME NEW u \in Users, now' <= Whole(told'[u]) + Day
        PROVE  now <= Whole(told[u]) + Day
    BY <1>0, <2>1, <2>2, Times, Numbers
  <2> QED BY <1>0, <2>1, <2>2 DEF WrittenInv
<1>2. CASE Start
  <2>1. UNCHANGED <<now, rows, kept>>
    BY <1>2 DEF Start
  <2>2. UNCHANGED told \/ told' = [u \in Users |-> Never]
    BY <1>2 DEF Start
  <2> QED BY <1>0, <2>1, <2>2 DEF WrittenInv
<1>3. CASE Die
  <2>1. UNCHANGED <<now, rows, kept>> /\ \A u \in Users : kept[u] => told'[u] = told[u]
    BY <1>3 DEF Die
  <2> QED BY <1>0, <2>1 DEF WrittenInv
<1>4. ASSUME NEW c \in Calls, NEW u \in Users, NEW ch \in Chats, Enter(c, u, ch)
      PROVE  WrittenInv'
  BY <1>0, <1>4 DEF Enter, WrittenInv
<1>5. ASSUME NEW c \in Calls, Remember(c) PROVE WrittenInv'
  BY <1>0, <1>5 DEF Remember, WrittenInv
<1>6. ASSUME NEW c \in Calls, Mark(c) PROVE WrittenInv'
  <2>1. UNCHANGED <<now, rows>>
    BY <1>6 DEF Mark
  <2>2. ASSUME NEW u \in Users, kept'[u]
        PROVE  kept[u] /\ told'[u] = told[u]
    BY <1>0, <1>6, <2>2 DEF Mark, TypeOK
  <2> QED BY <1>0, <2>1, <2>2 DEF WrittenInv
<1>7. ASSUME NEW c \in Calls, AddNewUser(c) PROVE WrittenInv'
  <2> DEFINE v == call[c].user
             new == [user |-> v, chat |-> call[c].chat, joined |-> Whole(now)]
  <2>1. UNCHANGED <<now, told>>
    BY <1>7 DEF AddNewUser
  <2>2. CASE UNCHANGED <<rows, kept>>
    BY <1>0, <2>1, <2>2 DEF WrittenInv
  <2>3. CASE Insert(new) /\ kept' = [kept EXCEPT ![v] = TRUE]
    <3>1. new \in rows' /\ new.user = v /\ new.joined = Whole(now)
      BY <2>3 DEF Insert
    <3>2. \A r \in rows : r.user # v => r \in rows'
      BY <2>3 DEF Insert, SameKey
    <3>3. \A u \in Users : u # v => kept'[u] = kept[u]
      BY <1>0, <2>3 DEF TypeOK
    <3>4. ASSUME NEW u \in Users, kept'[u], told'[u] # Never, now' <= Whole(told'[u]) + Day
          PROVE  \E r \in rows' : r.user = u /\ r.joined >= Whole(told'[u])
      <4>1. CASE u = v
        <5>1. told[v] \in Int /\ now \in Int /\ told[v] <= now
          BY <1>0, <4>1, Times DEF PastInv
        <5>2. Whole(told[v]) <= Whole(now) /\ Whole(told[v]) \in Int /\ Whole(now) \in Int
          BY <5>1, WholeMonotone, WholeBounds
        <5> QED BY <2>1, <3>1, <4>1, <5>2
      <4>2. CASE u # v
        <5>1. PICK r \in rows : r.user = u /\ r.joined >= Whole(told[u])
          BY <1>0, <2>1, <3>3, <3>4, <4>2 DEF WrittenInv
        <5> QED BY <2>1, <3>2, <4>2, <5>1
      <4> QED BY <4>1, <4>2
    <3> QED BY <3>4 DEF WrittenInv
  <2> QED BY <1>7, <2>2, <2>3 DEF AddNewUser
<1>8. CASE PurgeRows
  <2>1. rows' = Recent /\ UNCHANGED <<now, told, kept>>
    BY <1>8 DEF PurgeRows
  <2>2. ASSUME NEW u \in Users, kept'[u], told'[u] # Never, now' <= Whole(told'[u]) + Day
        PROVE  \E r \in rows' : r.user = u /\ r.joined >= Whole(told'[u])
    <3>1. PICK r \in rows : r.user = u /\ r.joined >= Whole(told[u])
      BY <1>0, <2>1, <2>2 DEF WrittenInv
    <3>2. told[u] \in Int
      BY <1>0, Times
    <3>3. r \in Recent
      BY <1>0, <2>1, <2>2, <3>1, <3>2, AnnouncedSurvives
    <3> QED BY <2>1, <3>1, <3>3
  <2> QED BY <2>2 DEF WrittenInv
<1>9. CASE PurgeUsers
  BY <1>0, <1>9 DEF PurgeUsers, WrittenInv
<1>10. CASE UNCHANGED vars
  BY <1>0, <1>10 DEF vars, WrittenInv
<1> QED
  BY <1>1, <1>2, <1>3, <1>4, <1>5, <1>6, <1>7, <1>8, <1>9, <1>10 DEF Next

(***************************************************************************)
(* What Start puts into the map comes from a row of the table, and every   *)
(* user who has a recent row is in it.                                     *)
(***************************************************************************)
LEMMA StartLoads ==
  ASSUME TypeOK, Start, NEW u \in Users, told'[u] # Never
  PROVE  /\ told'[u] = told[u]
         /\ (\E r \in Recent : r.user = u) => u \in DOMAIN users'
         /\ u \in DOMAIN users' => \E r \in rows : r.user = u /\ users'[u].joined = r.joined
<1>1. told' # [v \in Users |-> Never]
  OBVIOUS
<1>2. PICK row \in [{r.user : r \in Recent} -> Recent] :
        /\ \A v \in DOMAIN row : row[v] \in Loaded(v)
        /\ users' = [v \in DOMAIN row |->
                       [chat |-> row[v].chat, joined |-> row[v].joined]]
        /\ UNCHANGED told
  BY <1>1 DEF Start
<1>3. DOMAIN users' = {r.user : r \in Recent}
  BY <1>2
<1>4. (\E r \in Recent : r.user = u) => u \in DOMAIN users'
  BY <1>3
<1>5. ASSUME u \in DOMAIN users'
      PROVE  \E r \in rows : r.user = u /\ users'[u].joined = r.joined
  <2>1. row[u] \in Loaded(u) /\ users'[u].joined = row[u].joined
    BY <1>2, <1>3, <1>5
  <2>2. row[u] \in rows /\ row[u].user = u
    BY <2>1 DEF Loaded, Recent
  <2> QED BY <2>1, <2>2
<1> QED BY <1>2, <1>4, <1>5

LEMMA AnnouncedStep == TrackerInv /\ [Next]_vars => AnnouncedInv'
<1> SUFFICES ASSUME TrackerInv, [Next]_vars PROVE AnnouncedInv'
  OBVIOUS
<1> USE DEF memory
<1>0. TypeOK /\ AnnouncedInv /\ PastInv /\ DownInv /\ WrittenInv /\ OneRow
  BY DEF TrackerInv
<1>1. CASE Tick
  <2>1. now' = now + 1 /\ UNCHANGED <<told, up, users>>
    BY <1>1 DEF Tick
  <2>2. ASSUME NEW u \in Users, now' <= Whole(told'[u]) + Day
        PROVE  now <= Whole(told[u]) + Day
    BY <1>0, <2>1, <2>2, Times, Numbers
  <2> QED BY <1>0, <2>1, <2>2 DEF AnnouncedInv
<1>2. CASE Start
  <2>1. ASSUME NEW u \in Users, told'[u] # Never, now' <= Whole(told'[u]) + Day
        PROVE  u \in DOMAIN users' /\ users'[u].joined >= Whole(told'[u])
    <3>1. now' = now /\ ~up /\ told'[u] = told[u]
      BY <1>0, <1>2, <2>1, StartLoads DEF Start
    <3>2. kept[u] /\ told[u] \in Int
      BY <1>0, <2>1, <3>1, Times DEF DownInv
    <3>3. PICK r \in rows : r.user = u /\ r.joined >= Whole(told[u])
      BY <1>0, <2>1, <3>1, <3>2 DEF WrittenInv
    <3>4. r \in Recent
      BY <1>0, <2>1, <3>1, <3>2, <3>3, AnnouncedSurvives
    <3>5. u \in DOMAIN users'
      BY <1>0, <1>2, <2>1, <3>3, <3>4, StartLoads
    <3>6. PICK q \in rows : q.user = u /\ users'[u].joined = q.joined
      BY <1>0, <1>2, <2>1, <3>5, StartLoads
    <3>7. q = r
      BY <1>0, <3>3, <3>6 DEF OneRow
    <3>8. Whole(told[u]) > told[u] - Second /\ Whole(told[u]) \in Int /\ r.joined \in Int
      BY <1>0, <3>2, Numbers, WholeBounds, Times
    <3> QED BY <3>1, <3>2, <3>3, <3>5, <3>6, <3>7, <3>8, Numbers
  <2> QED BY <2>1 DEF AnnouncedInv
<1>3. CASE Die
  BY <1>3 DEF Die, AnnouncedInv
<1>4. ASSUME NEW c \in Calls, NEW u \in Users, NEW ch \in Chats, Enter(c, u, ch)
      PROVE  AnnouncedInv'
  BY <1>0, <1>4 DEF Enter, AnnouncedInv
<1>5. ASSUME NEW c \in Calls, Remember(c) PROVE AnnouncedInv'
  BY <1>0, <1>5 DEF Remember, AnnouncedInv
<1>6. ASSUME NEW c \in Calls, Mark(c) PROVE AnnouncedInv'
  <2> DEFINE v == call[c].user
  <2>1. call[c] \in Busy
    BY <1>0, <1>6, CallType DEF Mark
  <2>2. v \in Users /\ call[c].at \in Int
    BY <1>0, <2>1, Times DEF Busy
  <2>3. told'[v] = call[c].at /\ v \in DOMAIN users' /\ users'[v].joined = call[c].at
    BY <1>0, <1>6, <2>2 DEF Mark, TypeOK
  <2>4. UNCHANGED <<now, up>>
    BY <1>6 DEF Mark
  <2>5. ASSUME NEW u \in Users, u # v
        PROVE  /\ told'[u] = told[u]
               /\ u \in DOMAIN users => u \in DOMAIN users' /\ users'[u] = users[u]
    BY <1>0, <1>6, <2>5 DEF Mark, TypeOK
  <2>6. users'[v].joined >= Whole(told'[v])
    BY <2>2, <2>3, WholeBounds
  <2> HIDE DEF v
  <2> QED BY <1>0, <2>3, <2>4, <2>5, <2>6 DEF AnnouncedInv
<1>7. ASSUME NEW c \in Calls, AddNewUser(c) PROVE AnnouncedInv'
  BY <1>0, <1>7 DEF AddNewUser, AnnouncedInv
<1>8. CASE PurgeRows
  BY <1>0, <1>8 DEF PurgeRows, AnnouncedInv
<1>9. CASE PurgeUsers
  <2>1. UNCHANGED <<now, up, told>>
    BY <1>9 DEF PurgeUsers
  <2>2. PICK t \in purging..now :
          users' = [u \in {v \in DOMAIN users : Stays(v, t - Day)} |-> users[u]]
    BY <1>9 DEF PurgeUsers
  <2>3. t \in Int /\ t <= now /\ now \in Int
    <3>1. purging \in Int
      BY <1>0, Numbers DEF TypeOK, Time, Never
    <3> QED BY <1>0, <3>1, Times
  <2>4. ASSUME NEW u \in Users, u \in DOMAIN users, now <= Whole(told[u]) + Day,
               users[u].joined >= Whole(told[u])
        PROVE  users[u].joined >= t - Day
    BY <1>0, <2>3, <2>4, Times, Numbers
  <2>5. ASSUME NEW u \in DOMAIN users, users[u].joined >= t - Day
        PROVE  u \in DOMAIN users' /\ users'[u] = users[u]
    BY <2>2, <2>5 DEF Stays
  <2> QED BY <1>0, <2>1, <2>4, <2>5 DEF AnnouncedInv
<1>10. CASE UNCHANGED vars
  BY <1>0, <1>10 DEF vars, AnnouncedInv
<1> QED
  BY <1>1, <1>2, <1>3, <1>4, <1>5, <1>6, <1>7, <1>8, <1>9, <1>10 DEF Next

LEMMA BackedStep == TrackerInv /\ [Next]_vars => BackedInv'
<1> SUFFICES ASSUME TrackerInv, [Next]_vars PROVE BackedInv'
  OBVIOUS
<1> USE DEF memory
<1>0. TypeOK /\ BackedInv /\ PastInv /\ DOMAIN users \subseteq Users
  BY DEF TrackerInv, TypeOK
<1>1. CASE Tick
  <2>1. now' = now + 1 /\ UNCHANGED <<told, kept, users, rows>>
    BY <1>1 DEF Tick
  <2>2. ASSUME NEW u \in DOMAIN users, now' <= users[u].joined + Day
        PROVE  now <= users[u].joined + Day
    BY <1>0, <2>1, <2>2, Times, Numbers
  <2> QED BY <1>0, <2>1, <2>2 DEF BackedInv
<1>2. CASE Start
  <2>1. rows' = rows
    BY <1>2 DEF Start
  <2>2. DOMAIN users' \subseteq Users /\ TypeOK'
    <3>1. TypeOK'
      BY <1>0, TypeStep
    <3> QED BY <3>1 DEF TypeOK
  <2>3. ASSUME NEW u \in DOMAIN users', told'[u] # Never
        PROVE  \E r \in rows' : r.user = u /\ r.joined >= Whole(users'[u].joined)
    <3>1. u \in Users
      BY <2>2
    <3>2. PICK r \in rows : r.user = u /\ users'[u].joined = r.joined
      BY <1>0, <1>2, <2>3, <3>1, StartLoads
    <3>3. r.joined >= Whole(r.joined)
      BY <1>0, Times, WholeBounds
    <3> QED BY <2>1, <3>2, <3>3
  <2> QED BY <2>3 DEF BackedInv
<1>3. CASE Die
  <2>1. DOMAIN users' = {}
    BY <1>3 DEF Die, NoUsers
  <2> QED BY <2>1 DEF BackedInv
<1>4. ASSUME NEW c \in Calls, NEW u \in Users, NEW ch \in Chats, Enter(c, u, ch)
      PROVE  BackedInv'
  BY <1>0, <1>4 DEF Enter, BackedInv
<1>5. ASSUME NEW c \in Calls, Remember(c) PROVE BackedInv'
  BY <1>0, <1>5 DEF Remember, BackedInv
<1>6. ASSUME NEW c \in Calls, Mark(c) PROVE BackedInv'
  <2> DEFINE v == call[c].user
  <2>1. UNCHANGED <<now, rows>>
    BY <1>6 DEF Mark
  <2>2. DOMAIN users' = DOMAIN users \cup {v}
    BY <1>6 DEF Mark
  <2>3. v \in Users
    <3>1. call[c] \in Busy
      BY <1>0, <1>6, CallType DEF Mark
    <3> QED BY <3>1 DEF Busy
  <2>4. ~kept'[v]
    BY <1>0, <1>6, <2>3 DEF Mark, TypeOK
  <2>5. ASSUME NEW u \in DOMAIN users, u # v
        PROVE  users'[u] = users[u] /\ told'[u] = told[u] /\ kept'[u] = kept[u]
    BY <1>0, <1>6, <2>5 DEF Mark, TypeOK
  <2> HIDE DEF v
  <2> QED BY <1>0, <2>1, <2>2, <2>4, <2>5 DEF BackedInv
<1>7. ASSUME NEW c \in Calls, AddNewUser(c) PROVE BackedInv'
  <2> DEFINE v == call[c].user
             new == [user |-> v, chat |-> call[c].chat, joined |-> Whole(now)]
  <2>1. UNCHANGED <<now, told, users>>
    BY <1>7 DEF AddNewUser
  <2>2. CASE UNCHANGED <<rows, kept>>
    BY <1>0, <2>1, <2>2 DEF BackedInv
  <2>3. CASE Insert(new) /\ kept' = [kept EXCEPT ![v] = TRUE]
    <3>1. new \in rows' /\ new.user = v /\ new.joined = Whole(now)
      BY <2>3 DEF Insert
    <3>2. \A r \in rows : r.user # v => r \in rows'
      BY <2>3 DEF Insert, SameKey
    <3>3. \A u \in Users : u # v => kept'[u] = kept[u]
      BY <1>0, <2>3 DEF TypeOK
    <3>4. ASSUME NEW u \in DOMAIN users, kept'[u], told[u] # Never, now <= users[u].joined + Day
          PROVE  \E r \in rows' : r.user = u /\ r.joined >= Whole(users[u].joined)
      <4>1. CASE u = v
        <5>1. users[u].joined \in Int /\ now \in Int /\ users[u].joined <= now
          BY <1>0, Times DEF PastInv
        <5>2. Whole(users[u].joined) <= Whole(now)
          BY <5>1, WholeMonotone
        <5>3. Whole(users[u].joined) \in Int /\ Whole(now) \in Int
          BY <5>1, WholeBounds
        <5> QED BY <3>1, <4>1, <5>2, <5>3
      <4>2. CASE u # v
        <5>1. PICK r \in rows : r.user = u /\ r.joined >= Whole(users[u].joined)
          BY <1>0, <3>3, <3>4, <4>2 DEF BackedInv
        <5> QED BY <3>2, <4>2, <5>1
      <4> QED BY <4>1, <4>2
    <3> QED BY <2>1, <3>4 DEF BackedInv
  <2> QED BY <1>7, <2>2, <2>3 DEF AddNewUser
<1>8. CASE PurgeRows
  <2>1. rows' = Recent /\ UNCHANGED <<now, told, kept, users>>
    BY <1>8 DEF PurgeRows
  <2>2. ASSUME NEW u \in DOMAIN users, kept[u], told[u] # Never, now <= users[u].joined + Day
        PROVE  \E r \in rows' : r.user = u /\ r.joined >= Whole(users[u].joined)
    <3>1. PICK r \in rows : r.user = u /\ r.joined >= Whole(users[u].joined)
      BY <1>0, <2>2 DEF BackedInv
    <3>2. users[u].joined \in Int
      BY <1>0, Times
    <3>3. r \in Recent
      BY <1>0, <2>2, <3>1, <3>2, Survives
    <3> QED BY <2>1, <3>1, <3>3
  <2> QED BY <2>1, <2>2 DEF BackedInv
<1>9. CASE PurgeUsers
  <2>1. UNCHANGED <<now, rows, told, kept>>
    BY <1>9 DEF PurgeUsers
  <2>2. DOMAIN users' \subseteq DOMAIN users /\ \A u \in DOMAIN users' : users'[u] = users[u]
    BY <1>9 DEF PurgeUsers
  <2> QED BY <1>0, <2>1, <2>2 DEF BackedInv
<1>10. CASE UNCHANGED vars
  BY <1>0, <1>10 DEF vars, BackedInv
<1> QED
  BY <1>1, <1>2, <1>3, <1>4, <1>5, <1>6, <1>7, <1>8, <1>9, <1>10 DEF Next

LEMMA InvStep == TrackerInv /\ OneRow' /\ [Next]_vars => TrackerInv'
<1> SUFFICES ASSUME TrackerInv, OneRow', [Next]_vars PROVE TrackerInv'
  OBVIOUS
<1>1. TypeOK /\ PastInv
  BY DEF TrackerInv
<1> QED
  BY <1>1, TypeStep, PastStep, DownStep, WrittenStep, AnnouncedStep, BackedStep DEF TrackerInv

LEMMA Invariant == Spec /\ []OneRow => []TrackerInv
BY InitInv, InvStep, PTL DEF Spec

(***************************************************************************)
(* With one monitored group a user has one row: what the theorems below    *)
(* assume.  With several they hold as long as nobody has two rows, and     *)
(* TrackerOldest shows that they may fail when somebody has.               *)
(***************************************************************************)
THEOREM OneGroupOneRow == OneChat /\ Spec => []OneRow
<1> SUFFICES ASSUME OneChat PROVE Spec => []OneRow
  OBVIOUS
<1>1. Init => OneRow
  BY DEF Init, OneRow
<1>2. TypeOK /\ OneRow /\ [Next]_vars => OneRow'
  BY OneRowStep
<1> QED BY <1>1, <1>2, TypeCorrect, PTL DEF Spec
-----------------------------------------------------------------------------
(* A goroutine that gets as far as writing its user has gone through Mark. *)
LEMMA OnlyMark ==
  ASSUME TypeOK, [Next]_vars, NEW c \in Calls, call[c].pc = "waiting", call'[c].pc = "persisting"
  PROVE  Mark(c)
<1> USE DEF memory
<1>1. Idle.pc # "persisting"
  BY DEF Idle
<1>2. ASSUME NEW d \in Calls, Mark(d) PROVE d = c
  BY <1>2 DEF Mark, TypeOK
<1>3. ASSUME NEW d \in Calls, Remember(d) \/ AddNewUser(d) PROVE FALSE
  BY <1>1, <1>3 DEF Remember, AddNewUser, TypeOK
<1>4. ASSUME NEW d \in Calls, NEW u \in Users, NEW ch \in Chats, Enter(d, u, ch)
      PROVE  FALSE
  BY <1>1, <1>4 DEF Enter, TypeOK
<1>5. CASE Tick \/ Start \/ Die \/ PurgeRows \/ PurgeUsers \/ UNCHANGED vars
  BY <1>1, <1>5 DEF Tick, Start, Die, PurgeRows, PurgeUsers, vars, TypeOK
<1> QED BY <1>2, <1>3, <1>4, <1>5 DEF Next

(***************************************************************************)
(* Where nobody has two rows, no interleaving of goroutines, purges and    *)
(* restarts announces a user twice in a day (less the dropped fraction).   *)
(***************************************************************************)
THEOREM AnnouncedOnce == Spec /\ []OneRow => OnceADay
<1>1. TrackerInv /\ [Next]_vars =>
        [\A c \in Calls :
           (call[c].pc = "waiting" /\ call'[c].pc = "persisting" /\ told[call[c].user] # Never)
             => now > Whole(told[call[c].user]) + Day]_vars
  <2> SUFFICES ASSUME TrackerInv, [Next]_vars, NEW c \in Calls, call[c].pc = "waiting",
                      call'[c].pc = "persisting", told[call[c].user] # Never
               PROVE  now > Whole(told[call[c].user]) + Day
    OBVIOUS
  <2> DEFINE u == call[c].user
             at == call[c].at
  <2>1. TypeOK /\ AnnouncedInv /\ PastInv /\ DownInv
    BY DEF TrackerInv
  <2>2. Mark(c)
    BY <2>1, OnlyMark
  <2>3. call[c] \in Busy /\ u \in Users
    <3>1. call[c] \in Busy
      BY <2>1, CallType
    <3> QED BY <3>1 DEF Busy
  <2>4. up
    BY <2>1 DEF DownInv, Idle
  <2>5. told[u] \in Int /\ Whole(told[u]) \in Int /\ at \in Int /\ at <= now /\ now \in Int
    BY <2>1, <2>3, Times DEF PastInv
  <2>6. ASSUME now <= Whole(told[u]) + Day PROVE FALSE
    <3>1. u \in DOMAIN users /\ users[u].joined >= Whole(told[u])
      BY <2>1, <2>3, <2>4, <2>6 DEF AnnouncedInv
    <3>2. users[u].joined \in Int
      BY <2>1, <3>1, Times
    <3>3. at - users[u].joined <= Day
      BY <2>5, <2>6, <3>1, <3>2, Numbers
    <3> QED BY <2>2, <3>1, <3>3 DEF Mark, Known
  <2> QED BY <2>5, <2>6, Numbers
<1> QED BY <1>1, Invariant, PTL DEF Spec, OnceADay

(* Where nobody has two rows, who is announced stays new for his 24 hours. *)
THEOREM TrackedForADay == Spec /\ []OneRow => []TrackedADay
<1>1. TrackerInv => TrackedADay
  <2> SUFFICES ASSUME TrackerInv, NEW u \in Users, up, told[u] # Never,
                      now <= Whole(told[u]) + Day
               PROVE  IsNew(u)
    BY DEF TrackedADay
  <2>1. TypeOK /\ AnnouncedInv
    BY DEF TrackerInv
  <2>2. u \in DOMAIN users /\ users[u].joined >= Whole(told[u])
    BY <2>1 DEF AnnouncedInv
  <2>3. now \in Int /\ Whole(told[u]) \in Int /\ users[u].joined \in Int
    BY <2>1, <2>2, Times
  <2>4. now - users[u].joined <= Day
    BY <2>2, <2>3, Numbers
  <2> QED BY <2>2, <2>4 DEF IsNew, Known
<1> QED BY <1>1, Invariant, PTL

(* With one monitored group, a restart finds every new user who was written. *)
THEOREM RestartFindsNew == OneChat /\ Spec => []NewHasRow
<1> SUFFICES ASSUME OneChat PROVE Spec => []NewHasRow
  OBVIOUS
<1>1. TrackerInv => NewHasRow
  <2> SUFFICES ASSUME TrackerInv, NEW u \in Users, IsNew(u), told[u] # Never, kept[u]
               PROVE  \E r \in Recent : /\ r.user = u /\ r.chat = users[u].chat
                                        /\ r.joined + Second > users[u].joined
    BY DEF NewHasRow
  <2>1. TypeOK /\ BackedInv
    BY DEF TrackerInv
  <2>2. u \in DOMAIN users /\ now - users[u].joined <= Day
    BY DEF IsNew, Known
  <2>3. now \in Int /\ users[u].joined \in Int
    BY <2>1, <2>2, Times
  <2>4. now <= users[u].joined + Day
    BY <2>2, <2>3, Numbers
  <2>5. PICK r \in rows : r.user = u /\ r.joined >= Whole(users[u].joined)
    BY <2>1, <2>2, <2>4 DEF BackedInv
  <2>6. r \in Recent
    BY <2>1, <2>3, <2>4, <2>5, Survives
  <2>7. r.joined + Second > users[u].joined
    <3>1. Whole(users[u].joined) + Second > users[u].joined /\ Whole(users[u].joined) \in Int
      BY <2>3, WholeBounds, Numbers
    <3>2. r.joined \in Int
      BY <2>1, Times
    <3> QED BY <2>3, <2>5, <3>1, <3>2, Numbers
  <2>8. r.chat \in Chats /\ users[u].chat \in Chats
    BY <2>1, <2>2 DEF TypeOK, Row, UserInfo
  <2> QED BY <2>5, <2>6, <2>7, <2>8 DEF OneChat
<1>2. Spec => []OneRow
  BY OneGroupOneRow
<1> QED BY <1>1, <1>2, Invariant, PTL
-----------------------------------------------------------------------------
(***************************************************************************)
(* Whatever the number of groups and whether or not the table fails, a     *)
(* process does not drop a user of its map, nor change when and where he   *)
(* joined, before his 24 hours are over: not by a call that took its time  *)
(* before, nor by a purge that took its cutoff before it waited for the    *)
(* lock (TryMarkNew, purgeExpired).  Flood and Monitor build on it: what   *)
(* they know of the tracker only grows.                                    *)
(***************************************************************************)
MemoryHolds ==
  [][up /\ up' => \A u \in DOMAIN users :
       now' <= users[u].joined + Day => u \in DOMAIN users' /\ users'[u] = users[u]]_vars

THEOREM ProcessRemembers == Spec => MemoryHolds
<1>1. ASSUME TypeOK, PastInv, [Next]_vars, up, up', NEW u \in DOMAIN users,
             now' <= users[u].joined + Day
      PROVE  u \in DOMAIN users' /\ users'[u] = users[u]
  <2> USE DEF memory
  <2>1. u \in Users /\ users[u].joined \in Int /\ now \in Int
    BY <1>1, Times DEF TypeOK
  <2>2. CASE \E c \in Calls : Mark(c)
    <3>1. PICK c \in Calls : Mark(c)
      BY <2>2
    <3>2. call[c].at \in Int /\ call[c].at <= now /\ now' = now
      BY <1>1, <3>1, Times DEF PastInv, Mark
    <3>3. Known(u, call[c].at)
      BY <1>1, <2>1, <3>2, Numbers DEF Known
    <3>4. call[c].user # u
      BY <3>1, <3>3 DEF Mark
    <3> QED BY <3>1, <3>4 DEF Mark
  <2>3. CASE PurgeUsers
    <3>1. PICK t \in purging..now :
            users' = [v \in {w \in DOMAIN users : Stays(w, t - Day)} |-> users[v]]
      BY <2>3 DEF PurgeUsers
    <3>2. t \in Int /\ t <= now /\ now' = now
      <4>1. purging \in Int
        BY <1>1, Numbers DEF TypeOK, Time, Never
      <4> QED BY <2>1, <2>3, <4>1 DEF PurgeUsers
    <3>3. Stays(u, t - Day)
      BY <1>1, <2>1, <3>2, Numbers DEF Stays
    <3> QED BY <3>1, <3>3
  <2>4. CASE Start \/ Die
    BY <1>1, <2>4 DEF Start, Die
  <2>5. ASSUME NEW c \in Calls,
               \/ \E v \in Users, ch \in Chats : Enter(c, v, ch)
               \/ Remember(c) \/ AddNewUser(c)
        PROVE  users' = users
    BY <2>5 DEF Enter, Remember, AddNewUser
  <2>6. CASE Tick \/ PurgeRows \/ UNCHANGED vars
    BY <2>6 DEF Tick, PurgeRows, vars
  <2> QED BY <1>1, <2>2, <2>3, <2>4, <2>5, <2>6 DEF Next
<1>2. TypeOK /\ PastInv /\ [Next]_vars =>
        [up /\ up' => \A u \in DOMAIN users :
           now' <= users[u].joined + Day => u \in DOMAIN users' /\ users'[u] = users[u]]_vars
  BY <1>1
<1>3. Init => PastInv
  BY InitInv DEF TrackerInv
<1> QED BY <1>2, <1>3, PastStep, TypeCorrect, PTL DEF Spec, MemoryHolds
=============================================================================

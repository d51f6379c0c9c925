---------------------------- MODULE AdminProofs ----------------------------
(***************************************************************************)
(* Proofs about Settings, for any number of requests at once; about        *)
(* Sessions, for any number of tabs, names and passwords; and about the    *)
(* run that has both.                                                      *)
(***************************************************************************)
EXTENDS MCAdmin, TLAPS

(* A part whose copy may not differ has one request on its way at most, *)
(* which holds what the row says; a dead process has none.              *)
PendingInv ==
  /\ ~up => \A r \in Requests : req[r].pc = "idle"
  /\ \A p \in Parts \ loose : \A r \in Requests :
       Pending(r, p) => req[r].value = row[p] /\ \A q \in Requests : Pending(q, p) => q = r

(* What a request read of the key and nobody changed since is the key; *)
(* only the key is ever read.                                          *)
CleanInv ==
  \A r \in Requests :
    /\ req[r].pc = "read" => req[r].col = "key" /\ ~req[r].given /\ ~req[r].clean
    /\ req[r].pc = "store" /\ req[r].col = "key" /\ ~req[r].given /\ req[r].clean
         => req[r].value = row["key"]

SettingsInv == TypeOK /\ PendingInv /\ CleanInv /\ CopiesAgree
-----------------------------------------------------------------------------
(* The invariant holds at the start. *)
LEMMA InitInv == Init => SettingsInv
<1> USE SettingsAssumption DEF Switches, Parts, Columns, Settable, Stored, Value
<1> SUFFICES ASSUME Init PROVE SettingsInv
  OBVIOUS
<1>1. row \in [Columns -> Value] /\ \A col \in Columns : row[col] \in Stored(col)
  BY DEF Init
<1>2. mem \in [Parts -> Value] /\ \A p \in Parts : mem[p] \in Stored(p)
  BY <1>1 DEF Init, Loaded, Works
<1>3. TypeOK
  BY <1>1, <1>2 DEF Init, TypeOK, Idle
<1>4. CopiesAgree
  BY <1>1 DEF Init, Loaded, CopiesAgree
<1>. QED BY <1>3, <1>4 DEF Init, SettingsInv, PendingInv, CleanInv, Pending, Idle

(* Every step preserves the invariant. *)
LEMMA NextInv == SettingsInv /\ [Next]_vars => SettingsInv'
<1> USE SettingsAssumption DEF SettingsInv, Switches, Parts, Columns
<1> SUFFICES ASSUME SettingsInv, [Next]_vars
             PROVE  SettingsInv'
  OBVIOUS
<1>1. ASSUME NEW r \in Requests, Begin(r)
      PROVE  SettingsInv'
  <2>1. TypeOK'
    BY <1>1 DEF Begin, TypeOK, Idle, Settable, Stored, Value
  <2>2. PendingInv'
    BY <1>1 DEF Begin, TypeOK, Idle, PendingInv, Pending
  <2>3. CleanInv'
    <3>1. PICK col \in Columns : \E v \in Settable(col) :
            req' = [req EXCEPT ![r] =
              [pc |-> IF v = Blank THEN "read" ELSE "store", col |-> col, value |-> v,
               given |-> v # Blank, clean |-> FALSE]]
      BY <1>1 DEF Begin
    <3>2. PICK v \in Settable(col) :
            req' = [req EXCEPT ![r] =
              [pc |-> IF v = Blank THEN "read" ELSE "store", col |-> col, value |-> v,
               given |-> v # Blank, clean |-> FALSE]]
      BY <3>1
    <3>3. v = Blank => col = "key"
      BY DEF Settable
    <3>4. req'[r] = [pc |-> IF v = Blank THEN "read" ELSE "store", col |-> col, value |-> v,
                     given |-> v # Blank, clean |-> FALSE]
      BY <3>2 DEF TypeOK
    <3>5. \A q \in Requests \ {r} : req'[q] = req[q]
      BY <3>2 DEF TypeOK
    <3>6. row' = row
      BY <1>1 DEF Begin
    <3>7. req'[r].pc = "read" => req'[r].col = "key" /\ ~req'[r].given
      <4>1. req'[r].pc = (IF v = Blank THEN "read" ELSE "store") /\ req'[r].col = col
        BY <3>4
      <4>2. req'[r].given = (v # Blank)
        BY <3>4
      <4>. QED BY <3>3, <4>1, <4>2
    <3>8. ~req'[r].clean
      BY <3>4
    <3>9. ASSUME NEW q \in Requests \ {r}
          PROVE  /\ req'[q].pc = "read" => req'[q].col = "key" /\ ~req'[q].given /\ ~req'[q].clean
                 /\ req'[q].pc = "store" /\ req'[q].col = "key" /\ ~req'[q].given /\ req'[q].clean
                      => req'[q].value = row'["key"]
      BY <3>5, <3>6 DEF CleanInv
    <3>. QED BY <3>7, <3>8, <3>9 DEF CleanInv
  <2>4. CopiesAgree'
    BY <1>1 DEF Begin, TypeOK, Idle, CopiesAgree, PendingInv, Pending
  <2>. QED BY <2>1, <2>2, <2>3, <2>4
<1>2. ASSUME NEW r \in Requests, ReadKey(r)
      PROVE  SettingsInv'
  <2>1. TypeOK'
    <3>1. req[r].col = "key" /\ row["key"] \in Settable("key") /\ row["key"] \in Value
      BY <1>2 DEF ReadKey, CleanInv, TypeOK, Stored
    <3>2. req' = [req EXCEPT ![r] = [req[r] EXCEPT !.pc = "store", !.value = row["key"], !.clean = TRUE]]
      BY <1>2 DEF ReadKey
    <3> DEFINE Request == [pc : {"idle", "read", "store", "apply"}, col : Columns, value : Value,
                           given : BOOLEAN, clean : BOOLEAN]
    <3>3. req' \in [Requests -> Request]
      <4>1. req \in [Requests -> Request]
        BY DEF TypeOK
      <4>2. [req[r] EXCEPT !.pc = "store", !.value = row["key"], !.clean = TRUE] \in Request
        BY <3>1, <4>1
      <4> HIDE DEF Request
      <4>. QED BY <3>2, <4>1, <4>2
    <3>4. req'[r].col = "key" /\ req'[r].value = row["key"] /\ req'[r].pc = "store"
      BY <3>1, <3>2 DEF TypeOK
    <3>5. \A q \in Requests \ {r} : req'[q] = req[q]
      BY <3>2 DEF TypeOK
    <3>6. \A q \in Requests :
            /\ req'[q].pc # "idle" => req'[q].value \in Settable(req'[q].col)
            /\ req'[q].pc = "apply" => req'[q].col \in Parts
      BY <3>1, <3>4, <3>5 DEF TypeOK
    <3>7. UNCHANGED <<row, mem, up, loose>>
      BY <1>2 DEF ReadKey
    <3>. QED BY <3>3, <3>6, <3>7 DEF TypeOK
  <2>2. PendingInv'
    BY <1>2 DEF ReadKey, TypeOK, Idle, PendingInv, Pending
  <2>3. CleanInv'
    BY <1>2 DEF ReadKey, TypeOK, Idle, CleanInv
  <2>4. CopiesAgree'
    BY <1>2 DEF ReadKey, TypeOK, Idle, CopiesAgree, PendingInv, Pending
  <2>. QED BY <2>1, <2>2, <2>3, <2>4
<1>3. ASSUME NEW r \in Requests, ReadKeyFails(r)
      PROVE  SettingsInv'
  <2>1. TypeOK'
    BY <1>3 DEF ReadKeyFails, TypeOK, Idle, Settable, Stored, Value
  <2>2. PendingInv'
    BY <1>3 DEF ReadKeyFails, TypeOK, Idle, PendingInv, Pending
  <2>3. CleanInv'
    BY <1>3 DEF ReadKeyFails, TypeOK, Idle, CleanInv
  <2>4. CopiesAgree'
    BY <1>3 DEF ReadKeyFails, TypeOK, Idle, CopiesAgree, PendingInv, Pending
  <2>. QED BY <2>1, <2>2, <2>3, <2>4
<1>4. ASSUME NEW r \in Requests, Store(r)
      PROVE  SettingsInv'
  <2>1. TypeOK'
    <3>1. row' = [row EXCEPT ![req[r].col] = req[r].value] /\ req[r].pc = "store"
      BY <1>4 DEF Store
    <3>2. req[r].value \in Value /\ req[r].value \in Stored(req[r].col)
      BY <3>1 DEF TypeOK, Settable, Stored
    <3>3. row' \in [Columns -> Value] /\ \A col \in Columns : row'[col] \in Stored(col)
      BY <3>1, <3>2 DEF TypeOK
    <3>4. Idle \in [pc : {"idle", "read", "store", "apply"}, col : Columns, value : Value,
                    given : BOOLEAN, clean : BOOLEAN]
      BY DEF Idle, Value
    <3>5. \A q \in Requests :
            \/ req'[q] = Idle
            \/ q = r /\ req[q].col # "key" /\ req'[q] = [req[q] EXCEPT !.pc = "apply"]
            \/ req'[q] = [req[q] EXCEPT !.clean = FALSE]
            \/ req'[q] = req[q]
      BY <1>4 DEF Store
    <3>6. req' \in [Requests -> [pc : {"idle", "read", "store", "apply"}, col : Columns, value : Value,
                                 given : BOOLEAN, clean : BOOLEAN]]
      <4> DEFINE Request == [pc : {"idle", "read", "store", "apply"}, col : Columns, value : Value,
                             given : BOOLEAN, clean : BOOLEAN]
      <4>1. \A q \in Requests : req[q] \in Request
        BY DEF TypeOK
      <4>2. \A x \in Request : [x EXCEPT !.pc = "apply"] \in Request /\ [x EXCEPT !.clean = FALSE] \in Request
        OBVIOUS
      <4>3. \A q \in Requests : req'[q] \in Request
        <5> HIDE DEF Request
        <5>1. Idle \in Request
          BY <3>4 DEF Request
        <5>. QED BY <3>5, <4>1, <4>2, <5>1
      <4>4. req' = [q \in Requests |-> req'[q]]
        BY <1>4 DEF Store
      <4> HIDE DEF Request
      <4>5. req' \in [Requests -> Request]
        BY <4>3, <4>4
      <4>. QED BY <4>5 DEF Request
    <3>7. \A q \in Requests :
            /\ req'[q].pc # "idle" => req'[q].value \in Settable(req'[q].col)
            /\ req'[q].pc = "apply" => req'[q].col \in Parts
      <4> SUFFICES ASSUME NEW q \in Requests
                   PROVE  /\ req'[q].pc # "idle" => req'[q].value \in Settable(req'[q].col)
                          /\ req'[q].pc = "apply" => req'[q].col \in Parts
        OBVIOUS
      <4>1. /\ req[q].pc # "idle" => req[q].value \in Settable(req[q].col)
            /\ req[q].pc = "apply" => req[q].col \in Parts
            /\ req[q] \in [pc : {"idle", "read", "store", "apply"}, col : Columns, value : Value,
                           given : BOOLEAN, clean : BOOLEAN]
        BY DEF TypeOK
      <4>2. CASE req'[q] = Idle
        BY <4>2 DEF Idle
      <4>3. CASE q = r /\ req[q].col # "key" /\ req'[q] = [req[q] EXCEPT !.pc = "apply"]
        BY <3>1, <4>1, <4>3
      <4>4. CASE req'[q] = [req[q] EXCEPT !.clean = FALSE]
        BY <4>1, <4>4
      <4>5. CASE req'[q] = req[q]
        BY <4>1, <4>5
      <4>. QED BY <3>5, <4>2, <4>3, <4>4, <4>5
    <3>8. loose' \subseteq Parts
      BY <1>4, <3>1 DEF Store, TypeOK
    <3>. QED BY <1>4, <3>3, <3>6, <3>7, <3>8 DEF Store, TypeOK
  <2>2. PendingInv'
    BY <1>4 DEF Store, TypeOK, Idle, PendingInv, Pending
  <2>3. CleanInv'
    BY <1>4 DEF Store, TypeOK, Idle, CleanInv
  <2>4. CopiesAgree'
    BY <1>4 DEF Store, TypeOK, Idle, CopiesAgree, PendingInv, Pending
  <2>. QED BY <2>1, <2>2, <2>3, <2>4
<1>5. ASSUME NEW r \in Requests, StoreFails(r)
      PROVE  SettingsInv'
  <2>1. TypeOK'
    BY <1>5 DEF StoreFails, TypeOK, Idle, Settable, Stored, Value
  <2>2. PendingInv'
    BY <1>5 DEF StoreFails, TypeOK, Idle, PendingInv, Pending
  <2>3. CleanInv'
    BY <1>5 DEF StoreFails, TypeOK, Idle, CleanInv
  <2>4. CopiesAgree'
    BY <1>5 DEF StoreFails, TypeOK, Idle, CopiesAgree, PendingInv, Pending
  <2>. QED BY <2>1, <2>2, <2>3, <2>4
<1>6. ASSUME NEW r \in Requests, Apply(r)
      PROVE  SettingsInv'
  <2>1. TypeOK'
    BY <1>6 DEF Apply, TypeOK, Idle, Settable, Stored, Value, Works
  <2>2. PendingInv'
    BY <1>6 DEF Apply, TypeOK, Idle, PendingInv, Pending
  <2>3. CleanInv'
    BY <1>6 DEF Apply, TypeOK, Idle, CleanInv
  <2>4. CopiesAgree'
    BY <1>6 DEF Apply, TypeOK, Idle, CopiesAgree, PendingInv, Pending, Works
  <2>. QED BY <2>1, <2>2, <2>3, <2>4
<1>7. ASSUME Die
      PROVE  SettingsInv'
  <2>1. TypeOK'
    BY <1>7 DEF Die, TypeOK, Idle, Settable, Stored, Value
  <2>2. PendingInv'
    BY <1>7 DEF Die, TypeOK, Idle, PendingInv, Pending
  <2>3. CleanInv'
    BY <1>7 DEF Die, TypeOK, Idle, CleanInv
  <2>4. CopiesAgree'
    BY <1>7 DEF Die, TypeOK, Idle, CopiesAgree, PendingInv, Pending
  <2>. QED BY <2>1, <2>2, <2>3, <2>4
<1>8. ASSUME Restart
      PROVE  SettingsInv'
  <2>1. TypeOK'
    <3>1. PICK readable \in SUBSET Parts : Start(readable)
      BY <1>8 DEF Restart
    <3>2. \A p \in Parts : Loaded(readable)[p] \in Stored(p) /\ Loaded(readable)[p] \in Value
      BY DEF Loaded, Works, TypeOK, Stored, Settable, Value
    <3>3. mem' \in [Parts -> Value] /\ \A p \in Parts : mem'[p] \in Stored(p)
      <4>1. mem' = Loaded(readable)
        BY <3>1 DEF Start
      <4>2. Loaded(readable) = [p \in Parts |-> Loaded(readable)[p]]
        BY DEF Loaded
      <4>. QED BY <3>2, <4>1, <4>2
    <3>4. loose' \subseteq Parts
      BY <3>1 DEF Start
    <3>5. row' = row /\ req' = req /\ up' \in BOOLEAN
      BY <1>8 DEF Restart
    <3>6. /\ row' \in [Columns -> Value] /\ \A col \in Columns : row'[col] \in Stored(col)
          /\ req' \in [Requests -> [pc : {"idle", "read", "store", "apply"}, col : Columns, value : Value,
                                    given : BOOLEAN, clean : BOOLEAN]]
          /\ \A q \in Requests :
               /\ req'[q].pc # "idle" => req'[q].value \in Settable(req'[q].col)
               /\ req'[q].pc = "apply" => req'[q].col \in Parts
      BY <3>5 DEF TypeOK
    <3>. QED BY <3>3, <3>4, <3>5, <3>6 DEF TypeOK
  <2>2. PendingInv'
    BY <1>8 DEF Restart, TypeOK, Idle, PendingInv, Pending, Start
  <2>3. CleanInv'
    BY <1>8 DEF Restart, TypeOK, Idle, CleanInv
  <2>4. CopiesAgree'
    BY <1>8 DEF Restart, TypeOK, Idle, CopiesAgree, PendingInv, Pending, Start, Loaded, Works
  <2>. QED BY <2>1, <2>2, <2>3, <2>4
<1>9. CASE UNCHANGED vars
  BY <1>9 DEF vars, TypeOK, PendingInv, CleanInv, CopiesAgree, Pending
<1>. QED BY <1>1, <1>2, <1>3, <1>4, <1>5, <1>6, <1>7, <1>8, <1>9 DEF Next, Handles

(* The invariant holds in every behaviour. *)
LEMMA SpecInv == Spec => []SettingsInv
BY InitInv, NextInv, PTL DEF Spec
-----------------------------------------------------------------------------
(* Type correctness: no token is ever stored that is blank, nor applied. *)
THEOREM TypeCorrect == Spec => []TypeOK
BY SpecInv, PTL DEF SettingsInv

(***************************************************************************)
(* What the process works with is what the row says, but after overlapping *)
(* requests, a refused token or a start that could not read the row.       *)
(***************************************************************************)
THEOREM CopiesStayEqual == Spec => []CopiesAgree
BY SpecInv, PTL DEF SettingsInv

(***************************************************************************)
(* The key changes only by a request that brings one, undoes another or    *)
(* could not read the old one.                                             *)
(***************************************************************************)
THEOREM BlankKeepsKey == Spec => KeyKept
<1>1. ASSUME SettingsInv, [Next]_vars, row'["key"] # row["key"]
      PROVE  \E r \in Requests :
               /\ req[r].pc = "store" /\ req[r].col = "key" /\ req'[r] = Idle
               /\ row'["key"] = req[r].value /\ (req[r].given \/ ~req[r].clean)
  <2>1. PICK r \in Requests : Store(r)
    BY <1>1
       DEF Next, Handles, vars, Begin, ReadKey, ReadKeyFails, StoreFails, Apply, Die, Restart
  <2>2. req[r].pc = "store" /\ row' = [row EXCEPT ![req[r].col] = req[r].value]
    BY <2>1 DEF Store
  <2>3. req[r].col = "key" /\ req[r].value # row["key"]
    BY <1>1, <2>2 DEF SettingsInv, TypeOK, Columns
  <2>4. row'["key"] = req[r].value
    <3>1. "key" \in DOMAIN row
      BY <1>1 DEF SettingsInv, TypeOK, Columns
    <3>. QED BY <2>2, <2>3, <3>1
  <2>5. req'[r] = Idle
    BY <2>1, <2>3 DEF Store
  <2>. QED BY <1>1, <2>2, <2>3, <2>4, <2>5 DEF SettingsInv, CleanInv
<1>. QED BY <1>1, SpecInv, PTL DEF Spec, KeyKept
-----------------------------------------------------------------------------
(* What the handler of a tab holds: a request in one of its places. *)
Request ==
  Admin!Logins \cup Admin!Renamings \cup Admin!PasswordChanges \cup Admin!Refusals \cup {Admin!Idle}

(* What a request may rely on: that it was refused for want of a session *)
(* that still is wanting, unless somebody logged in since; and what it   *)
(* saw of the account, if nobody changed it since.                       *)
Sound(v) ==
  /\ v.pc = "refused" /\ ~v.stale => promised = -1
  /\ v.pc = "password" /\ v.clean => v.name = account.name
  /\ v.pc = "update" /\ v.clean => v.given = account.password

TabInv == \A t \in Tabs : Sound(tab[t])

(* While a login is to hold, the browser has a token that is good for at *)
(* least as long.                                                        *)
PromiseInv ==
  promised >= 0 =>
    /\ cookie # NoCookie /\ cookie.signed /\ cookie.user \notin BarNames
    /\ promised <= cookie.left

SessionInv == Admin!TypeOK /\ TabInv /\ PromiseInv

(* The place of a request tells which of them it is. *)
LEMMA Kinds ==
  ASSUME NEW v \in Request
  PROVE  /\ v.pc \in {"name", "password"} => v \in Admin!Logins
         /\ v.pc = "rename" => v \in Admin!Renamings
         /\ v.pc \in {"verify", "update"} => v \in Admin!PasswordChanges
         /\ v.pc = "refused" => v \in Admin!Refusals
BY DEF Request, Admin!Logins, Admin!Renamings, Admin!PasswordChanges, Admin!Refusals, Admin!Idle

(* A step that only moves one tab, to a request that is sound, is harmless. *)
LEMMA OneTab ==
  ASSUME SessionInv, NEW t \in Tabs, NEW v \in Request, Sound(v),
         tab' = [tab EXCEPT ![t] = v], UNCHANGED <<account, cookie, promised>>
  PROVE  SessionInv'
<1>1. tab \in [Tabs -> Request]
  BY DEF SessionInv, Admin!TypeOK, Request
<1>2. tab' \in [Tabs -> Request]
  BY <1>1
<1>3. Admin!TypeOK'
  BY <1>2 DEF SessionInv, Admin!TypeOK, Request
<1>4. \A q \in Tabs : tab'[q] = v \/ tab'[q] = tab[q]
  BY <1>1
<1>5. TabInv'
  BY <1>4 DEF SessionInv, TabInv, Sound
<1>. QED BY <1>3, <1>5 DEF SessionInv, PromiseInv

(* An idle tab is sound. *)
LEMMA IdleSound == Admin!Idle \in Request /\ Sound(Admin!Idle)
BY DEF Request, Sound, Admin!Idle

(* Every account starts with a name that tokens survive, and nobody in. *)
LEMMA SessionInit == Admin!Init => SessionInv
<1> SUFFICES ASSUME Admin!Init PROVE SessionInv
  OBVIOUS
<1>1. tab \in [Tabs -> Request] /\ \A t \in Tabs : Sound(tab[t])
  BY IdleSound DEF Admin!Init
<1>2. Admin!TypeOK
  BY <1>1, AdminAssumption DEF Admin!Init, Admin!TypeOK, Request
<1>. QED BY <1>1, <1>2 DEF Admin!Init, SessionInv, TabInv, PromiseInv

(* The steps that only move a tab. *)
LEMMA TabSteps ==
  ASSUME SessionInv, NEW t \in Tabs,
         \/ Admin!Login(t) \/ Admin!CheckName(t) \/ Admin!Send(t)
         \/ Admin!Verify(t) \/ Admin!Fails(t)
  PROVE  SessionInv'
<1>1. tab[t] \in Request /\ Sound(tab[t])
  BY DEF SessionInv, Admin!TypeOK, TabInv, Request
<1>2. CASE Admin!Login(t)
  <2>1. PICK n \in Names, p \in Passwords :
          tab' = [tab EXCEPT ![t] = [pc |-> "name", name |-> n, password |-> p, clean |-> FALSE]]
    BY <1>2 DEF Admin!Login
  <2> DEFINE v == [pc |-> "name", name |-> n, password |-> p, clean |-> FALSE]
  <2>2. v \in Request /\ Sound(v)
    BY DEF Request, Admin!Logins, Sound
  <2>. QED BY <1>2, <2>1, <2>2, OneTab DEF Admin!Login
<1>3. CASE Admin!CheckName(t)
  <2> DEFINE v == [tab[t] EXCEPT !.pc = "password", !.clean = TRUE]
  <2>1. tab[t] \in Admin!Logins /\ UNCHANGED <<account, cookie, promised>>
    BY <1>1, <1>3, Kinds DEF Admin!CheckName
  <2>2. CASE tab[t].name = account.name
    <3>1. v \in Request /\ v.pc = "password" /\ v.name = tab[t].name
      BY <2>1 DEF Request, Admin!Logins
    <3>2. Sound(v)
      BY <2>2, <3>1 DEF Sound
    <3>3. tab' = [tab EXCEPT ![t] = v]
      BY <1>3, <2>2 DEF Admin!CheckName
    <3>. QED BY <2>1, <3>1, <3>2, <3>3, OneTab
  <2>3. CASE tab[t].name # account.name
    <3>1. tab' = [tab EXCEPT ![t] = Admin!Idle]
      BY <1>3, <2>3 DEF Admin!CheckName
    <3>. QED BY <2>1, <3>1, IdleSound, OneTab
  <2>. QED BY <2>2, <2>3
<1>4. CASE Admin!Send(t)
  <2>1. UNCHANGED <<account, cookie, promised>>
    BY <1>4 DEF Admin!Send
  <2>2. CASE \E n \in Names : tab' = [tab EXCEPT ![t] = [pc |-> "rename", new |-> n]]
    <3>1. PICK n \in Names : tab' = [tab EXCEPT ![t] = [pc |-> "rename", new |-> n]]
      BY <2>2
    <3>2. [pc |-> "rename", new |-> n] \in Request /\ Sound([pc |-> "rename", new |-> n])
      BY DEF Request, Admin!Renamings, Sound
    <3>. QED BY <2>1, <3>1, <3>2, OneTab
  <2>3. CASE \E p, new \in Passwords :
               tab' = [tab EXCEPT ![t] = [pc |-> "verify", given |-> p, new |-> new, clean |-> FALSE]]
    <3>1. PICK p \in Passwords, new \in Passwords :
            tab' = [tab EXCEPT ![t] = [pc |-> "verify", given |-> p, new |-> new, clean |-> FALSE]]
      BY <2>3
    <3> DEFINE v == [pc |-> "verify", given |-> p, new |-> new, clean |-> FALSE]
    <3>2. v \in Request /\ Sound(v)
      BY DEF Request, Admin!PasswordChanges, Sound
    <3>. QED BY <2>1, <3>1, <3>2, OneTab
  <2>4. CASE ~Admin!Validate(cookie) /\ tab' = [tab EXCEPT ![t] = [pc |-> "refused", stale |-> FALSE]]
    <3>1. cookie \in [user : Names, left : -1..TokenExpiry, signed : BOOLEAN] /\ promised \in Int
      BY <1>4, AdminAssumption DEF Admin!Send, SessionInv, Admin!TypeOK
    <3>2. promised = -1
      BY <2>4, <3>1, AdminAssumption DEF SessionInv, Admin!TypeOK, PromiseInv, Admin!Validate
    <3>3. [pc |-> "refused", stale |-> FALSE] \in Request /\ Sound([pc |-> "refused", stale |-> FALSE])
      BY <3>2 DEF Request, Admin!Refusals, Sound
    <3>. QED BY <2>1, <2>4, <3>3, OneTab
  <2>. QED BY <1>4, <2>2, <2>3, <2>4 DEF Admin!Send
<1>5. CASE Admin!Verify(t)
  <2> DEFINE v == [tab[t] EXCEPT !.pc = "update", !.clean = TRUE]
  <2>1. tab[t] \in Admin!PasswordChanges /\ UNCHANGED <<account, cookie, promised>>
    BY <1>1, <1>5, Kinds DEF Admin!Verify
  <2>2. CASE tab[t].given = account.password
    <3>1. v \in Request /\ v.pc = "update" /\ v.given = tab[t].given
      BY <2>1 DEF Request, Admin!PasswordChanges
    <3>2. Sound(v)
      BY <2>2, <3>1 DEF Sound
    <3>3. tab' = [tab EXCEPT ![t] = v]
      BY <1>5, <2>2 DEF Admin!Verify
    <3>. QED BY <2>1, <3>1, <3>2, <3>3, OneTab
  <2>3. CASE tab[t].given # account.password
    <3>1. tab' = [tab EXCEPT ![t] = Admin!Idle]
      BY <1>5, <2>3 DEF Admin!Verify
    <3>. QED BY <2>1, <3>1, IdleSound, OneTab
  <2>. QED BY <2>2, <2>3
<1>6. CASE Admin!Fails(t)
  BY <1>6, IdleSound, OneTab DEF Admin!Fails
<1>. QED BY <1>2, <1>3, <1>4, <1>5, <1>6

(* The login that succeeds. *)
LEMMA LoginStep ==
  ASSUME SessionInv, NEW t \in Tabs, Admin!CheckPassword(t)
  PROVE  SessionInv'
<1>1. tab[t] \in Request /\ tab[t].pc = "password" /\ tab[t] \in Admin!Logins
  BY Kinds DEF SessionInv, Admin!TypeOK, Request, Admin!CheckPassword
<1>2. CASE tab[t].password # account.password
  BY <1>2, IdleSound, OneTab DEF Admin!CheckPassword
<1>3. CASE tab[t].password = account.password
  <2>1. /\ cookie' = Admin!Generate(tab[t].name) /\ account' = account
        /\ promised' = IF tab[t].name \in BarNames THEN -1 ELSE TokenExpiry
        /\ tab' = [q \in Tabs |->
             IF q = t THEN Admin!Idle
             ELSE IF tab[q].pc = "refused" THEN [tab[q] EXCEPT !.stale = TRUE] ELSE tab[q]]
    BY <1>3 DEF Admin!CheckPassword
  <2>2. ASSUME NEW q \in Tabs
        PROVE  tab'[q] \in Request /\ Sound(tab[q])'
    <3>1. tab[q] \in Request /\ Sound(tab[q])
      BY DEF SessionInv, Admin!TypeOK, TabInv, Request
    <3>2. CASE q = t
      <4>1. tab'[q] = Admin!Idle
        BY <2>1, <3>2
      <4>. QED BY <4>1, IdleSound DEF Sound, Admin!Idle
    <3>3. CASE q # t /\ tab[q].pc = "refused"
      <4>1. tab'[q] = [tab[q] EXCEPT !.stale = TRUE] /\ tab[q] \in Admin!Refusals
        BY <2>1, <3>1, <3>3, Kinds
      <4>2. tab'[q] \in Admin!Refusals /\ tab'[q].pc = "refused" /\ tab'[q].stale
        BY <4>1 DEF Admin!Refusals
      <4>. QED BY <4>2 DEF Sound, Request
    <3>4. CASE q # t /\ tab[q].pc # "refused"
      <4>1. tab'[q] = tab[q]
        BY <2>1, <3>4
      <4>. QED BY <2>1, <3>1, <3>4, <4>1 DEF Sound
    <3>. QED BY <3>2, <3>3, <3>4
  <2>3. tab' = [q \in Tabs |-> tab'[q]]
    BY <2>1
  <2>4. tab' \in [Tabs -> Request]
    BY <2>2, <2>3
  <2>5. /\ cookie' = [user |-> tab[t].name, left |-> TokenExpiry, signed |-> TRUE]
        /\ cookie' \in [user : Names, left : -1..TokenExpiry, signed : BOOLEAN]
        /\ promised' \in -1..TokenExpiry
    BY <1>1, <2>1, AdminAssumption DEF Admin!Generate, Admin!Logins
  <2>6. PromiseInv'
    <3>1. cookie' # NoCookie /\ cookie'.signed /\ cookie'.left = TokenExpiry /\ cookie'.user = tab[t].name
      BY <2>5, AdminAssumption
    <3>2. promised' >= 0 => tab[t].name \notin BarNames /\ promised' = TokenExpiry
      BY <2>1
    <3>. QED BY <3>1, <3>2, AdminAssumption DEF PromiseInv
  <2>7. Admin!TypeOK'
    BY <2>1, <2>4, <2>5 DEF SessionInv, Admin!TypeOK, Request
  <2>. QED BY <2>2, <2>6, <2>7 DEF SessionInv, TabInv
<1>. QED BY <1>2, <1>3

(* A change of the account: what the others saw of it is void. *)
LEMMA AccountStep ==
  ASSUME SessionInv, NEW t \in Tabs, Admin!Rename(t) \/ Admin!Update(t)
  PROVE  SessionInv'
<1>1. tab[t] \in Request
  BY DEF SessionInv, Admin!TypeOK, Request
<1>2. account' \in [name : Names, password : Passwords] /\ UNCHANGED <<cookie, promised>> /\ Admin!Changed(t)
  <2>1. CASE Admin!Rename(t)
    <3>1. tab[t].new \in Names
      BY <1>1, <2>1, Kinds DEF Admin!Rename, Admin!Renamings
    <3>. QED BY <2>1, <3>1 DEF Admin!Rename, SessionInv, Admin!TypeOK
  <2>2. CASE Admin!Update(t)
    <3>1. tab[t].new \in Passwords
      BY <1>1, <2>2, Kinds DEF Admin!Update, Admin!PasswordChanges
    <3>. QED BY <2>2, <3>1 DEF Admin!Update, SessionInv, Admin!TypeOK
  <2>. QED BY <2>1, <2>2
<1>3. ASSUME NEW q \in Tabs
      PROVE  tab'[q] \in Request /\ Sound(tab[q])'
  <2>1. tab[q] \in Request /\ Sound(tab[q])
    BY DEF SessionInv, Admin!TypeOK, TabInv, Request
  <2>2. CASE q = t
    <3>1. tab'[q] = Admin!Idle
      BY <1>2, <2>2 DEF Admin!Changed
    <3>. QED BY <3>1, IdleSound DEF Sound, Admin!Idle
  <2>3. CASE q # t /\ tab[q] \in Admin!Logins \cup Admin!PasswordChanges
    <3>1. "clean" \in DOMAIN tab[q]
      BY <2>3 DEF Admin!Logins, Admin!PasswordChanges
    <3>2. tab'[q] = [tab[q] EXCEPT !.clean = FALSE]
      BY <1>2, <2>3, <3>1 DEF Admin!Changed
    <3>3. /\ tab'[q] \in Admin!Logins \cup Admin!PasswordChanges
          /\ tab'[q].pc # "refused" /\ ~tab'[q].clean
      BY <2>3, <3>2 DEF Admin!Logins, Admin!PasswordChanges
    <3>. QED BY <3>3 DEF Sound, Request
  <2>4. CASE q # t /\ tab[q] \in Admin!Renamings \cup Admin!Refusals \cup {Admin!Idle}
    <3>1. "clean" \notin DOMAIN tab[q] /\ tab[q].pc \notin {"password", "update"}
      BY <2>4 DEF Admin!Renamings, Admin!Refusals, Admin!Idle
    <3>2. tab'[q] = tab[q]
      BY <1>2, <2>4, <3>1 DEF Admin!Changed
    <3>. QED BY <1>2, <2>1, <3>1, <3>2 DEF Sound
  <2>. QED BY <2>1, <2>2, <2>3, <2>4 DEF Request
<1>4. tab' = [q \in Tabs |-> tab'[q]]
  BY <1>2 DEF Admin!Changed
<1>5. tab' \in [Tabs -> Request]
  BY <1>3, <1>4
<1>6. Admin!TypeOK'
  BY <1>2, <1>5 DEF SessionInv, Admin!TypeOK, Request
<1>. QED BY <1>2, <1>3, <1>6 DEF SessionInv, TabInv, PromiseInv

(* The steps that no tab takes. *)
LEMMA OtherSteps ==
  ASSUME SessionInv, Admin!Logout \/ Admin!Tick \/ Admin!NewProcess
  PROVE  SessionInv'
<1> DEFINE Token == [user : Names, left : -1..TokenExpiry, signed : BOOLEAN]
<1>1. /\ cookie \in Token \cup {NoCookie} /\ NoCookie \notin Token
      /\ promised \in -1..TokenExpiry /\ TokenExpiry \in Nat
  BY AdminAssumption DEF SessionInv, Admin!TypeOK
<1>2. CASE Admin!Logout
  BY <1>2, AdminAssumption DEF Admin!Logout, SessionInv, Admin!TypeOK, TabInv, Sound, PromiseInv
<1>3. CASE Admin!Tick
  <2>1. UNCHANGED <<account, tab>> /\ promised' = Admin!Older(promised)
    BY <1>3 DEF Admin!Tick
  <2>2. promised' \in -1..TokenExpiry /\ (promised = -1 => promised' = -1)
    BY <1>1, <2>1 DEF Admin!Older
  <2>3. cookie' \in Token \cup {NoCookie} /\ PromiseInv'
    <3>1. CASE cookie # NoCookie /\ cookie' = [cookie EXCEPT !.left = Admin!Older(@)]
      <4>1. /\ cookie \in Token /\ cookie.left \in -1..TokenExpiry
            /\ Admin!Older(cookie.left) \in -1..TokenExpiry
        BY <1>1, <3>1 DEF Admin!Older
      <4>2. /\ cookie' \in Token /\ cookie'.left = Admin!Older(cookie.left)
            /\ cookie'.user = cookie.user /\ cookie'.signed = cookie.signed
        BY <3>1, <4>1
      <4>. QED BY <1>1, <2>1, <4>1, <4>2 DEF SessionInv, PromiseInv, Admin!Older
    <3>2. CASE cookie # NoCookie /\ cookie.left <= 0 /\ cookie' = NoCookie
      <4>1. cookie \in Token /\ cookie.left \in Int
        BY <1>1, <3>2
      <4>2. promised' = -1
        BY <1>1, <2>1, <3>2, <4>1 DEF SessionInv, PromiseInv, Admin!Older
      <4>. QED BY <3>2, <4>2 DEF PromiseInv
    <3>. QED BY <1>3, <3>1, <3>2 DEF Admin!Tick
  <2>4. Admin!TypeOK'
    BY <2>1, <2>2, <2>3 DEF SessionInv, Admin!TypeOK
  <2>5. TabInv'
    <3>1. ASSUME NEW t \in Tabs PROVE Sound(tab[t])'
      BY <2>1, <2>2 DEF SessionInv, TabInv, Sound
    <3>. QED BY <3>1 DEF TabInv
  <2>. QED BY <2>3, <2>4, <2>5 DEF SessionInv
<1>4. CASE Admin!NewProcess
  <2>1. tab' = [t \in Tabs |-> Admin!Idle] /\ account' = account
    BY <1>4 DEF Admin!NewProcess
  <2>2. tab' \in [Tabs -> Request]
    BY <2>1, IdleSound
  <2>3. TabInv'
    BY <2>1 DEF TabInv, Sound, Admin!Idle
  <2>4. cookie' \in Token \cup {NoCookie} /\ promised' \in -1..TokenExpiry /\ PromiseInv'
    <3>1. CASE UNCHANGED <<cookie, promised>>
      BY <1>1, <3>1 DEF SessionInv, PromiseInv
    <3>2. CASE promised' = -1 /\ cookie' = NoCookie
      BY <1>1, <3>2 DEF PromiseInv
    <3>3. CASE promised' = -1 /\ cookie # NoCookie /\ cookie' = [cookie EXCEPT !.signed = FALSE]
      <4>1. cookie \in Token
        BY <1>1, <3>3
      <4>2. cookie' \in Token
        BY <3>3, <4>1
      <4>. QED BY <1>1, <3>3, <4>2 DEF PromiseInv
    <3>. QED BY <1>4, <3>1, <3>2, <3>3 DEF Admin!NewProcess
  <2>5. Admin!TypeOK'
    BY <2>1, <2>2, <2>4 DEF SessionInv, Admin!TypeOK, Request
  <2>. QED BY <2>3, <2>4, <2>5 DEF SessionInv
<1>. QED BY <1>2, <1>3, <1>4

(* The answer that refuses a request, and takes the cookie with it. *)
LEMMA RefusalStep ==
  ASSUME SessionInv, NEW t \in Tabs, Admin!ClearCookie(t)
  PROVE  SessionInv'
<1>1. tab[t].pc = "refused" /\ tab[t] \in Admin!Refusals /\ Sound(tab[t])
  BY Kinds DEF SessionInv, Admin!TypeOK, TabInv, Request, Admin!ClearCookie
<1>2. /\ tab' = [tab EXCEPT ![t] = Admin!Idle] /\ cookie' = NoCookie /\ account' = account
      /\ promised' = IF tab[t].stale THEN -1 ELSE promised
  BY DEF Admin!ClearCookie
<1>3. promised' = -1
  BY <1>1, <1>2 DEF Sound
<1>4. tab \in [Tabs -> Request]
  BY DEF SessionInv, Admin!TypeOK, Request
<1>5. tab' \in [Tabs -> Request] /\ \A q \in Tabs : tab'[q] = Admin!Idle \/ tab'[q] = tab[q]
  BY <1>2, <1>4, IdleSound
<1>6. Admin!TypeOK'
  BY <1>2, <1>3, <1>5, AdminAssumption DEF SessionInv, Admin!TypeOK, Request
<1>7. TabInv'
  <2>1. ASSUME NEW q \in Tabs PROVE Sound(tab[q])'
    BY <1>2, <1>3, <1>5 DEF SessionInv, TabInv, Sound, Admin!Idle
  <2>. QED BY <2>1 DEF TabInv
<1>. QED BY <1>3, <1>6, <1>7 DEF SessionInv, PromiseInv

(* Every step of Sessions preserves the invariant. *)
LEMMA SessionNext == SessionInv /\ [Admin!Next]_accounts => SessionInv'
<1>1. ASSUME SessionInv, UNCHANGED accounts
      PROVE  SessionInv'
  BY <1>1 DEF accounts, SessionInv, Admin!TypeOK, TabInv, Sound, PromiseInv
<1>. QED BY <1>1, TabSteps, LoginStep, AccountStep, RefusalStep, OtherSteps DEF Admin!Next, Admin!Handles

(* The invariant holds in every behaviour of Sessions. *)
LEMMA SessionSpec == Admin!Spec => []SessionInv
BY SessionInit, SessionNext, PTL DEF Admin!Spec, accounts, Admin!sessionVars
-----------------------------------------------------------------------------
(***************************************************************************)
(* Who logged in is let in for 24 hours, whatever tabs he has, however     *)
(* their answers overtake each other and whatever becomes of the account,  *)
(* but for a logout, another secret, a late refusal or a name with '|'.    *)
(***************************************************************************)
THEOREM SessionsLast == Admin!Spec => []SessionLasts
<1>1. SessionInv => SessionLasts
  <2> SUFFICES ASSUME SessionInv, promised >= 0
               PROVE  cookie # NoCookie /\ Admin!Validate(cookie)
    BY DEF SessionLasts, Admin!SessionLasts
  <2>1. cookie # NoCookie /\ cookie.signed /\ cookie.user \notin BarNames /\ promised <= cookie.left
    BY DEF SessionInv, PromiseInv
  <2>2. promised \in Int /\ cookie.left \in Int
    BY <2>1, AdminAssumption DEF SessionInv, Admin!TypeOK
  <2>. QED BY <2>1, <2>2 DEF Admin!Validate
<1>. QED BY <1>1, SessionSpec, PTL

(***************************************************************************)
(* A password is changed, and a session begins, only for who gave what the *)
(* account was when it was compared, however many requests are under way.  *)
(***************************************************************************)
THEOREM CredentialsAreProved == Admin!Spec => CredentialsProved
<1> DEFINE Proved ==
      /\ account'.password # account.password =>
           \E t \in Tabs : tab[t].pc = "update" /\ (tab[t].clean => tab[t].given = account.password)
      /\ cookie' \notin {cookie, NoCookie} /\ cookie'.left = TokenExpiry /\ cookie'.signed =>
           \E t \in Tabs :
             /\ tab[t].pc = "password" /\ tab[t].password = account.password
             /\ tab[t].clean => tab[t].name = account.name
<1>1. ASSUME SessionInv, Admin!Next PROVE Proved
  <2>1. ASSUME account'.password # account.password
        PROVE  \E t \in Tabs :
                 tab[t].pc = "update" /\ (tab[t].clean => tab[t].given = account.password)
    <3> DEFINE Account == [name : Names, password : Passwords]
    <3>1. account \in Account
      BY <1>1 DEF SessionInv, Admin!TypeOK
    <3>2. ASSUME NEW t \in Tabs PROVE ~Admin!Rename(t)
      BY <2>1, <3>1 DEF Admin!Rename
    <3>3. \E t \in Tabs : Admin!Update(t)
      BY <1>1, <2>1, <3>2
         DEF Admin!Next, Admin!Handles, Admin!Logout, Admin!Tick, Admin!NewProcess, Admin!Login, Admin!CheckName,
             Admin!CheckPassword, Admin!Send, Admin!ClearCookie, Admin!Verify, Admin!Fails
    <3>. QED BY <1>1, <3>3 DEF Admin!Update, SessionInv, TabInv, Sound
  <2>2. ASSUME cookie' \notin {cookie, NoCookie}, cookie'.left = TokenExpiry, cookie'.signed
        PROVE  \E t \in Tabs :
                 /\ tab[t].pc = "password" /\ tab[t].password = account.password
                 /\ tab[t].clean => tab[t].name = account.name
    <3>1. ~Admin!Tick
      <4> SUFFICES ASSUME Admin!Tick PROVE FALSE
        OBVIOUS
      <4>1. cookie # NoCookie /\ cookie' = [cookie EXCEPT !.left = Admin!Older(@)]
        BY <2>2 DEF Admin!Tick
      <4>2. cookie \in [user : Names, left : -1..TokenExpiry, signed : BOOLEAN]
        BY <1>1, <4>1 DEF SessionInv, Admin!TypeOK
      <4>3. cookie'.left = Admin!Older(cookie.left) /\ cookie.left \in -1..TokenExpiry
        BY <4>1, <4>2
      <4>. QED BY <2>2, <4>3, AdminAssumption DEF Admin!Older
    <3>2. ~Admin!NewProcess
      <4> SUFFICES ASSUME Admin!NewProcess PROVE FALSE
        OBVIOUS
      <4>1. cookie # NoCookie /\ cookie' = [cookie EXCEPT !.signed = FALSE]
        BY <2>2 DEF Admin!NewProcess
      <4>2. cookie \in [user : Names, left : -1..TokenExpiry, signed : BOOLEAN]
        BY <1>1, <4>1 DEF SessionInv, Admin!TypeOK
      <4>. QED BY <2>2, <4>1, <4>2
    <3>3. \E t \in Tabs : Admin!CheckPassword(t) /\ tab[t].password = account.password
      BY <1>1, <2>2, <3>1, <3>2
         DEF Admin!Next, Admin!Handles, Admin!Logout, Admin!Login, Admin!CheckName, Admin!CheckPassword,
             Admin!Send, Admin!ClearCookie, Admin!Rename, Admin!Verify, Admin!Update, Admin!Fails
    <3>. QED BY <1>1, <3>3 DEF Admin!CheckPassword, SessionInv, TabInv, Sound
  <2>. QED BY <2>1, <2>2
<1>2. ASSUME SessionInv, [Admin!Next]_accounts PROVE [Proved]_accounts
  BY <1>1, <1>2
<1>. QED BY <1>2, SessionSpec, PTL
          DEF Admin!Spec, CredentialsProved, Admin!CredentialsProved, accounts, Admin!sessionVars
-----------------------------------------------------------------------------
(* A behaviour of the run is one of Settings and one of Sessions: what is *)
(* proved of either holds in it.                                          *)
LEMMA RunIsBoth == AdminSpec => Spec /\ Admin!Spec
<1>1. AdminInit => Init /\ Admin!Init
  BY DEF AdminInit
<1>2. [AdminNext]_<<vars, accounts, area>> => [Next]_vars /\ [Admin!Next]_accounts
  BY DEF AdminNext
<1>. QED BY <1>1, <1>2, PTL DEF AdminSpec, Spec, Admin!Spec, accounts, Admin!sessionVars

(* Type correctness of both. *)
THEOREM AdminTypeCorrect == AdminSpec => []AdminTypeOK
BY RunIsBoth, SpecInv, SessionSpec, PTL DEF SettingsInv, SessionInv, AdminTypeOK
=============================================================================

--------------------------- MODULE WarningsProofs ---------------------------
(***************************************************************************)
(* Proofs about Warnings, for any number of newcomers, floods, bots,       *)
(* attempts, overlapping requests and dropped entries.                     *)
(***************************************************************************)
EXTENDS Warnings, TLAPS

(* With the row off and no requests overlapping, none is about to turn the *)
(* atomic on; and once none is about to turn it off, nobody may warn but   *)
(* those who were allowed to before it was.                                *)
SwitchInv ==
  ~stored /\ ~loose =>
    /\ unset[TRUE] = 0
    /\ unset[FALSE] = 0 => ~warnInGroup /\ \A t \in Tasks : pc[t] = "load" => t \in cleared

WarningsInv == TypeOK /\ SwitchInv

(* The invariant holds at the start. *)
LEMMA InitInv == Init => WarningsInv
<1> SUFFICES ASSUME Init
             PROVE  WarningsInv
  OBVIOUS
<1>1. unset \in [BOOLEAN -> Nat] /\ unset[TRUE] = 0
  BY DEF Init
<1>2. drops \in 0..MaxDrops /\ attempt \in [Assessments -> 0 .. MaxRetries - 1]
  BY WarningsAssumption DEF Init
<1>3. TypeOK
  BY <1>1, <1>2 DEF Init, TypeOK, pcs
<1>4. SwitchInv
  BY <1>1 DEF Init, SwitchInv
<1>. QED BY <1>3, <1>4 DEF WarningsInv

(* An entry handed to the broker *)
LEMMA PublishTypes ==
  ASSUME TypeOK, NEW t \in Tasks, NEW c \in categories, Publish(t, c)
  PROVE  /\ log' \subseteq [of : Tasks, category : categories]
         /\ drops' \in 0..MaxDrops
         /\ log \subseteq log' /\ Published(t, c)'
<1>1. Entry(t, c) \in [of : Tasks, category : categories]
  BY DEF Entry
<1>2. log' = log \cup {Entry(t, c)}
  BY DEF Publish
<1>3. drops' \in 0..MaxDrops
  <2>1. drops \in 0..MaxDrops /\ MaxDrops \in Nat
    BY WarningsAssumption DEF TypeOK
  <2>2. drops' = drops \/ (drops < MaxDrops /\ drops' = drops + 1)
    BY DEF Publish
  <2>. QED BY <2>1, <2>2
<1>4. log' \subseteq [of : Tasks, category : categories]
  BY <1>1, <1>2 DEF TypeOK
<1>5. Published(t, c)'
  BY <1>2 DEF Published, Entry
<1>. QED BY <1>2, <1>3, <1>4, <1>5

(* The goroutines of assessments and floods up to the call of Telegram *)
LEMMA BeginInv ==
  ASSUME WarningsInv,
         \/ \E a \in Assessments :
              \/ Assess(a) \/ TryAgain(a) \/ AssessFails(a)
              \/ \E risk \in RiskLevels : Verdict(a, risk)
         \/ \E f \in Floods : FloodBegins(f)
         \/ \E t \in Tasks : Allow(t) \/ Load(t)
  PROVE  WarningsInv'
<1> USE WarningsAssumption DEF WarningsInv, Goto, Tasks, settings, switch, telegram, entries
<1>1. ASSUME NEW a \in Assessments, Assess(a)
      PROVE  WarningsInv'
  BY <1>1 DEF Assess, TypeOK, SwitchInv, pcs
<1>2. ASSUME NEW a \in Assessments, TryAgain(a)
      PROVE  WarningsInv'
  <2>1. PICK n \in 0 .. MaxRetries - 1 : n = attempt[a]
    BY DEF TypeOK
  <2>2. attempt[a] < MaxRetries - 1 /\ attempt' = [attempt EXCEPT ![a] = n + 1]
    BY <1>2, <2>1 DEF TryAgain
  <2>3. n + 1 \in 0 .. MaxRetries - 1
    BY <2>1, <2>2
  <2>4. attempt' \in [Assessments -> 0 .. MaxRetries - 1]
    BY <2>2, <2>3 DEF TypeOK
  <2>. QED BY <1>2, <2>4 DEF TryAgain, TypeOK, SwitchInv
<1>3. ASSUME NEW a \in Assessments, NEW c \in categories, NEW next \in {"allow", "done"},
             Publish(a, c), pc[a] = "ask", Assessed(a, next),
             UNCHANGED <<settings, by, telegram, lost>>
      PROVE  WarningsInv'
  <2>1. a \in Tasks /\ TypeOK
    OBVIOUS
  <2>2. /\ log' \subseteq [of : Tasks, category : categories]
        /\ drops' \in 0..MaxDrops
    BY <1>3, <2>1, PublishTypes
  <2>3. pc' = [pc EXCEPT ![a] = next] /\ attempt' = [attempt EXCEPT ![a] = 0]
    BY <1>3 DEF Assessed
  <2>4. TypeOK'
    BY <1>3, <2>2, <2>3 DEF TypeOK, pcs
  <2>5. SwitchInv'
    BY <1>3, <2>3 DEF TypeOK, SwitchInv
  <2>. QED BY <2>4, <2>5
<1>4. ASSUME NEW a \in Assessments,
             AssessFails(a) \/ \E risk \in RiskLevels : Verdict(a, risk)
      PROVE  WarningsInv'
  <2>1. \A risk \in RiskLevels : Category(risk) \in categories
    BY DEF Category, categories
  <2>2. "AI_ASSESS" \in categories
    BY DEF categories
  <2>. QED BY <1>3, <1>4, <2>1, <2>2 DEF AssessFails, Verdict
<1>5. ASSUME NEW f \in Floods, FloodBegins(f)
      PROVE  WarningsInv'
  BY <1>5 DEF FloodBegins, TypeOK, SwitchInv, pcs
<1>6. ASSUME NEW t \in Tasks, Allow(t)
      PROVE  WarningsInv'
  BY <1>6 DEF Allow, TypeOK, SwitchInv, pcs
<1>7. ASSUME NEW t \in Tasks, Load(t)
      PROVE  WarningsInv'
  <2>1. pc[t] = "load" /\ by' = [by EXCEPT ![t] = bot]
    BY <1>7 DEF Load
  <2>2. /\ UNCHANGED <<stored, unset, warnInGroup, loose, cleared, bot, attempt, group, log, drops, lost>>
        /\ \/ bot = NoBot /\ pc' = [pc EXCEPT ![t] = "done"] /\ flying' = flying
           \/ /\ bot # NoBot /\ pc' = [pc EXCEPT ![t] = "send"]
              /\ flying' = flying \cup {[of |-> t, author |-> bot]}
    BY <1>7 DEF Load
  <2>3. flying' \subseteq [of : Tasks, author : Bots]
    BY <2>2 DEF TypeOK
  <2>4. pc' \in [Tasks -> pcs] /\ by' \in [Tasks -> Bots \cup {NoBot}]
    BY <2>1, <2>2 DEF TypeOK, pcs
  <2>5. \A u \in Tasks : pc'[u] \in {"send", "wait", "delete"} => by'[u] # NoBot
    BY <2>1, <2>2 DEF TypeOK
  <2>6. TypeOK'
    BY <2>2, <2>3, <2>4, <2>5 DEF TypeOK
  <2>7. SwitchInv'
    BY <2>1, <2>2 DEF TypeOK, SwitchInv
  <2>. QED BY <2>6, <2>7
<1>. QED BY <1>1, <1>2, <1>4, <1>5, <1>6, <1>7

(* SendMessage and DeleteMessage *)
LEMMA CallInv ==
  ASSUME WarningsInv,
         \/ \E t \in Tasks : Sent(t) \/ SendFails(t) \/ Wake(t) \/ Delete(t)
         \/ \E msg \in flying : Post(msg)
  PROVE  WarningsInv'
<1> USE WarningsAssumption DEF WarningsInv, Goto, Return, Message,
        settings, switch, telegram, entries
<1>1. ASSUME NEW msg \in flying, Post(msg)
      PROVE  WarningsInv'
  BY <1>1 DEF Post, TypeOK, SwitchInv
<1>2. ASSUME NEW t \in Tasks, Sent(t)
      PROVE  WarningsInv'
  <2>1. "WARNING_SENT" \in categories
    BY DEF categories
  <2>2. /\ log' \subseteq [of : Tasks, category : categories]
        /\ drops' \in 0..MaxDrops
    BY <1>2, <2>1, PublishTypes DEF Sent
  <2>. QED BY <1>2, <2>2 DEF Sent, TypeOK, SwitchInv, pcs
<1>3. ASSUME NEW t \in Tasks, SendFails(t)
      PROVE  WarningsInv'
  <2>1. "WARNING_FAILED" \in categories
    BY DEF categories
  <2>2. /\ log' \subseteq [of : Tasks, category : categories]
        /\ drops' \in 0..MaxDrops
    BY <1>3, <2>1, PublishTypes DEF SendFails
  <2>. QED BY <1>3, <2>2 DEF SendFails, TypeOK, SwitchInv, pcs
<1>4. ASSUME NEW t \in Tasks, Wake(t)
      PROVE  WarningsInv'
  BY <1>4 DEF Wake, TypeOK, SwitchInv, pcs
<1>5. ASSUME NEW t \in Tasks, Delete(t)
      PROVE  WarningsInv'
  BY <1>5 DEF Delete, TypeOK, SwitchInv, pcs
<1>. QED BY <1>1, <1>2, <1>3, <1>4, <1>5

(* Counting the requests at work *)
LEMMA OneMore ==
  ASSUME NEW f \in [BOOLEAN -> Nat], NEW on \in BOOLEAN
  PROVE  LET g == [f EXCEPT ![on] = @ + 1]
         IN g \in [BOOLEAN -> Nat] /\ g[on] # 0 /\ g[~on] = f[~on]
<1>1. f[on] \in Nat
  OBVIOUS
<1>2. PICK n \in Nat : n = f[on] + 1 /\ n # 0
  BY <1>1
<1>3. [f EXCEPT ![on] = @ + 1] = [f EXCEPT ![on] = n]
  BY <1>2
<1>4. on # (~on) /\ (~on) \in BOOLEAN
  OBVIOUS
<1>. QED BY <1>2, <1>3, <1>4

LEMMA OneLess ==
  ASSUME NEW f \in [BOOLEAN -> Nat], NEW on \in BOOLEAN, f[on] > 0
  PROVE  LET g == [f EXCEPT ![on] = @ - 1]
         IN g \in [BOOLEAN -> Nat] /\ g[~on] = f[~on] /\ f[on] # 0
<1>1. f[on] \in Nat
  OBVIOUS
<1>0. PICK m \in Nat : m = f[on] /\ m # 0
  BY <1>1
<1>2. PICK n \in Nat : n = f[on] - 1
  BY <1>0
<1>3. [f EXCEPT ![on] = @ - 1] = [f EXCEPT ![on] = n]
  BY <1>2
<1>4. on # (~on) /\ (~on) \in BOOLEAN
  OBVIOUS
<1>. QED BY <1>0, <1>2, <1>3, <1>4

LEMMA NonePending ==
  ASSUME unset \in [BOOLEAN -> Nat], Pending = 0
  PROVE  unset[TRUE] = 0 /\ unset[FALSE] = 0
<1>1. unset[TRUE] \in Nat /\ unset[FALSE] \in Nat
  OBVIOUS
<1>2. PICK m \in Nat, n \in Nat : m = unset[TRUE] /\ n = unset[FALSE]
  BY <1>1
<1>3. m + n = 0
  BY <1>2 DEF Pending
<1>4. m = 0 /\ n = 0
  BY <1>3
<1>. QED BY <1>2, <1>4

(* The administrator, and the life of the process *)
LEMMA AroundInv ==
  ASSUME WarningsInv,
         \/ \E on \in BOOLEAN : StoreWarnInGroup(on) \/ SetWarnInGroup(on)
         \/ \E b \in Bots : SetBotToken(b)
         \/ Restart
  PROVE  WarningsInv'
<1> USE DEF WarningsInv, settings, switch, telegram, entries
<1>0. unset \in [BOOLEAN -> Nat] /\ TRUE \in BOOLEAN /\ FALSE \in BOOLEAN
  BY DEF TypeOK
<1>1. ASSUME StoreWarnInGroup(TRUE)
      PROVE  WarningsInv'
  <2>0. unset' = [unset EXCEPT ![TRUE] = @ + 1]
    BY <1>1 DEF StoreWarnInGroup
  <2>1. unset' \in [BOOLEAN -> Nat]
    BY <1>0, <2>0, OneMore
  <2>. QED BY <1>1, <2>1 DEF StoreWarnInGroup, TypeOK, SwitchInv
<1>2. ASSUME StoreWarnInGroup(FALSE)
      PROVE  WarningsInv'
  <2>1. unset' = [unset EXCEPT ![FALSE] = @ + 1]
    BY <1>2 DEF StoreWarnInGroup
  <2>2. unset' \in [BOOLEAN -> Nat] /\ unset'[FALSE] # 0 /\ unset'[TRUE] = unset[TRUE]
    BY <1>0, <2>1, OneMore
  <2>3. ~loose' => unset'[TRUE] = 0
    BY <1>0, <1>2, <2>2, NonePending DEF StoreWarnInGroup
  <2>. QED BY <1>2, <2>2, <2>3 DEF StoreWarnInGroup, TypeOK, SwitchInv
<1>3. ASSUME SetWarnInGroup(TRUE)
      PROVE  WarningsInv'
  <2>0. unset' = [unset EXCEPT ![TRUE] = @ - 1] /\ unset[TRUE] > 0
    BY <1>3 DEF SetWarnInGroup
  <2>1. unset' \in [BOOLEAN -> Nat] /\ unset[TRUE] # 0
    BY <1>0, <2>0, OneLess
  <2>. QED BY <1>3, <2>1 DEF SetWarnInGroup, TypeOK, SwitchInv
<1>4. ASSUME SetWarnInGroup(FALSE)
      PROVE  WarningsInv'
  <2>0. unset' = [unset EXCEPT ![FALSE] = @ - 1] /\ unset[FALSE] > 0
    BY <1>4 DEF SetWarnInGroup
  <2>1. unset' \in [BOOLEAN -> Nat] /\ unset'[TRUE] = unset[TRUE]
    BY <1>0, <2>0, OneLess
  <2>2. cleared' = {t \in Tasks : pc[t] = "load"}
    BY <1>4 DEF SetWarnInGroup
  <2>. QED BY <1>4, <2>1, <2>2 DEF SetWarnInGroup, TypeOK, SwitchInv
<1>5. ASSUME NEW b \in Bots, SetBotToken(b)
      PROVE  WarningsInv'
  BY <1>5 DEF SetBotToken, TypeOK, SwitchInv
<1>6. CASE Restart
  <2>1. \A t \in Tasks : pc'[t] \in {"idle", "done", "killed"}
    BY <1>6 DEF Restart, Active
  <2>2. pc' \in [Tasks -> pcs] /\ by' \in [Tasks -> Bots \cup {NoBot}]
    BY <1>6 DEF Restart, TypeOK, pcs
  <2>3. /\ attempt' \in [Assessments -> 0 .. MaxRetries - 1]
        /\ unset' \in [BOOLEAN -> Nat]
    BY <1>6, WarningsAssumption DEF Restart
  <2>4. warnInGroup' \in BOOLEAN /\ (~stored => ~warnInGroup')
    BY <1>6 DEF Restart
  <2>5. /\ stored' = stored /\ loose' = FALSE /\ bot' \in Bots \cup {NoBot}
        /\ unset'[TRUE] = 0 /\ lost' \subseteq Tasks
        /\ UNCHANGED <<flying, group, log, drops, cleared>>
    BY <1>6 DEF Restart, TypeOK
  <2>6. TypeOK'
    BY <2>1, <2>2, <2>3, <2>4, <2>5 DEF TypeOK
  <2>7. SwitchInv'
    BY <2>1, <2>4, <2>5 DEF SwitchInv
  <2>. QED BY <2>6, <2>7
<1>. QED BY <1>1, <1>2, <1>3, <1>4, <1>5, <1>6

(* Every step preserves the invariant. *)
LEMMA NextInv == WarningsInv /\ [Next]_vars => WarningsInv'
<1> SUFFICES ASSUME WarningsInv, [Next]_vars
             PROVE  WarningsInv'
  OBVIOUS
<1>1. CASE UNCHANGED vars
  BY <1>1 DEF vars, settings, switch, telegram, entries, WarningsInv, TypeOK, SwitchInv
<1>2. CASE Next
  BY <1>2, BeginInv, CallInv, AroundInv DEF Next, Goes
<1>. QED BY <1>1, <1>2

LEMMA AlwaysInv == Spec => []WarningsInv
  BY InitInv, NextInv, PTL DEF Spec

(* Types, and a goroutine that calls Telegram has a bot. *)
THEOREM TypeCorrect == Spec => []TypeOK
  BY AlwaysInv, PTL DEF WarningsInv

(***************************************************************************)
(* Once a request has turned warnings off and none overlaps it, Telegram   *)
(* is asked to post one only by a goroutine that had been allowed to       *)
(* before the request set the atomic, with any number of requests and      *)
(* restarts in between.                                                    *)
(***************************************************************************)
THEOREM OffStaysOff == Spec => OffIsOff
<1>1. ASSUME WarningsInv, NEW t \in Tasks, pc[t] = "load", Off
      PROVE  t \in cleared
  <2>1. unset[FALSE] = 0
    BY <1>1, NonePending DEF WarningsInv, TypeOK, Off
  <2>. QED BY <1>1, <2>1 DEF WarningsInv, SwitchInv, Off
<1>2. WarningsInv /\ [Next]_vars =>
        [\A t \in Tasks : pc[t] = "load" /\ pc'[t] = "send" /\ Off => t \in cleared]_vars
  BY <1>1
<1>. QED BY <1>2, AlwaysInv, PTL DEF Spec, OffIsOff
-----------------------------------------------------------------------------
Asked == flying \cup group

(* What the group can read, now or later: at most one warning of each      *)
(* goroutine, none before it called Telegram, and none that nobody will    *)
(* delete but those whose deletion was kept from happening.                *)
GroupInv ==
  /\ \A msg \in Asked : pc[msg.of] \notin {"idle", "ask", "allow", "load"}
  /\ \A m, n \in Asked : m.of = n.of => m = n
  /\ \A msg \in group : pc[msg.of] \in {"send", "wait", "delete"} \/ msg.of \in lost

Condemned(a) == Published(a, "SPAM_CONFIRMED") \/ Published(a, "SPAM_HIGH_RISK")
Told(t) == Published(t, "WARNING_SENT") \/ Published(t, "WARNING_FAILED")

(* What has been published of a goroutine that has come that far *)
LogInv ==
  /\ \A a \in Assessments :
       pc[a] \in {"allow", "load", "send"} \/ (\E msg \in Asked : msg.of = a) => Condemned(a)
  /\ \A msg \in Asked : pc[msg.of] \in {"send", "killed"} \/ Told(msg.of)

LeftInv == GroupInv /\ LogInv

(* Once there is a bot there is one until the process ends, so that a  *)
(* goroutine that wakes finds one.                                     *)
BotInv == bot # NoBot \/ \A t \in Tasks : pc[t] \notin {"send", "wait", "delete"}

(* Every step preserves it. *)
LEMMA BotNext == TypeOK /\ BotInv /\ [Next]_vars => BotInv'
<1> SUFFICES ASSUME TypeOK, BotInv, [Next]_vars
             PROVE  BotInv'
  OBVIOUS
<1> USE DEF settings, switch
<1>1. pc \in [Tasks -> pcs]
  BY DEF TypeOK
<1>2. ASSUME NEW t \in Tasks, Load(t)
      PROVE  BotInv'
  BY <1>1, <1>2 DEF BotInv, Load, Goto
<1>3. ASSUME NEW t \in Tasks, Sent(t) \/ Wake(t)
      PROVE  BotInv'
  BY <1>1, <1>3 DEF BotInv, Sent, Wake, Goto
<1>4. ASSUME NEW t \in Tasks, NEW next \in {"ask", "done", "allow", "load"}, Goto(t, next),
             bot' = bot
      PROVE  BotInv'
  BY <1>1, <1>4 DEF BotInv, Goto
<1>5. CASE Restart
  BY <1>5 DEF BotInv, Restart, Active
<1>6. ASSUME NEW b \in Bots, SetBotToken(b)
      PROVE  BotInv'
  BY <1>6, WarningsAssumption DEF BotInv, SetBotToken
<1>7. CASE UNCHANGED <<bot, pc>>
  BY <1>7 DEF BotInv
<1>8. ASSUME NEW a \in Assessments,
             \/ Assess(a) \/ TryAgain(a) \/ AssessFails(a)
             \/ \E risk \in RiskLevels : Verdict(a, risk)
      PROVE  BotInv'
  BY <1>4, <1>7, <1>8 DEF Assess, TryAgain, AssessFails, Verdict, Assessed, Tasks
<1>9. ASSUME NEW t \in Tasks, Allow(t) \/ SendFails(t) \/ Delete(t)
      PROVE  BotInv'
  BY <1>4, <1>9 DEF Allow, SendFails, Delete, Return
<1>10. ASSUME NEW f \in Floods, FloodBegins(f)
       PROVE  BotInv'
  BY <1>4, <1>10 DEF FloodBegins, Tasks
<1>11. ASSUME \/ \E msg \in flying : Post(msg)
              \/ \E on \in BOOLEAN : StoreWarnInGroup(on) \/ SetWarnInGroup(on)
              \/ UNCHANGED vars
       PROVE  BotInv'
  BY <1>7, <1>11 DEF Post, StoreWarnInGroup, SetWarnInGroup, vars
<1>. QED BY <1>2, <1>3, <1>5, <1>6, <1>8, <1>9, <1>10, <1>11 DEF Next, Goes

(* What does not disturb LeftInv: a step that asks Telegram for nothing,   *)
(* forgets nothing and takes no goroutine away from a warning of its own.  *)
LEMMA LeftStutters ==
  ASSUME LeftInv, TypeOK,
         UNCHANGED telegram,
         lost \subseteq lost', log \subseteq log',
         \A t \in Tasks : pc'[t] # pc[t] =>
           /\ pc[t] \in {"idle", "ask", "allow", "load"}
           /\ pc'[t] \in {"allow", "load", "send"} =>
                \/ t \in Floods \/ pc[t] \in {"allow", "load"} \/ Condemned(t)'
  PROVE  LeftInv'
<1>1. \A msg \in Asked : msg.of \in Tasks
  BY DEF TypeOK, Asked
<1>2. Asked' = Asked /\ group' = group
  BY DEF telegram, Asked
<1>3. \A msg \in Asked : pc'[msg.of] = pc[msg.of]
  BY <1>1 DEF LeftInv, GroupInv
<1>4. \A t : (Condemned(t) => Condemned(t)') /\ (Told(t) => Told(t)')
  BY DEF Condemned, Told, Published, Entry
<1>5. GroupInv'
  BY <1>2, <1>3 DEF LeftInv, GroupInv, Asked
<1>6. ASSUME NEW a \in Assessments,
             pc'[a] \in {"allow", "load", "send"} \/ (\E msg \in Asked : msg.of = a)
      PROVE  Condemned(a)'
  <2>1. a \in Tasks /\ a \notin Floods
    BY WarningsAssumption DEF Tasks
  <2>. QED BY <1>4, <1>6, <2>1 DEF LeftInv, LogInv
<1>7. \A msg \in Asked : pc'[msg.of] \in {"send", "killed"} \/ Told(msg.of)'
  BY <1>3, <1>4 DEF LeftInv, LogInv
<1>8. LogInv'
  BY <1>2, <1>6, <1>7 DEF LogInv
<1>. QED BY <1>5, <1>8 DEF LeftInv

(* The goroutines up to the call of Telegram *)
LEMMA LeftBegin ==
  ASSUME TypeOK, LeftInv,
         \/ \E a \in Assessments :
              \/ Assess(a) \/ TryAgain(a) \/ AssessFails(a)
              \/ \E risk \in RiskLevels : Verdict(a, risk)
         \/ \E f \in Floods : FloodBegins(f)
         \/ \E t \in Tasks : Allow(t)
  PROVE  LeftInv'
<1>0. pc \in [Tasks -> pcs]
  BY DEF TypeOK
<1>1. ASSUME NEW a \in Assessments, Assess(a) \/ TryAgain(a) \/ AssessFails(a)
      PROVE  LeftInv'
  <2>1. a \in Tasks
    BY DEF Tasks
  <2>2. /\ \A t \in Tasks : t # a => pc'[t] = pc[t]
        /\ pc[a] \in {"idle", "ask"} /\ pc'[a] \in {"ask", "done"}
    BY <1>0, <1>1, <2>1 DEF Goto, Assess, TryAgain, AssessFails, Assessed
  <2>3. UNCHANGED telegram /\ lost' = lost /\ log \subseteq log'
    BY <1>1 DEF Assess, TryAgain, AssessFails, Publish, entries
  <2>. QED BY <2>2, <2>3, LeftStutters
<1>2. ASSUME NEW a \in Assessments, NEW risk \in RiskLevels, Verdict(a, risk)
      PROVE  LeftInv'
  <2>1. a \in Tasks /\ pc[a] = "ask"
    BY <1>2 DEF Tasks, Verdict
  <2>2. /\ \A t \in Tasks : t # a => pc'[t] = pc[t]
        /\ pc'[a] = "done" \/ risk \in {"confirmed", "high risk"}
    BY <1>0, <1>2, <2>1 DEF Goto, Verdict, Assessed
  <2>3. UNCHANGED telegram /\ lost' = lost /\ log' = log \cup {Entry(a, Category(risk))}
    BY <1>2 DEF Verdict, Publish
  <2>4. risk \in {"confirmed", "high risk"} => Category(risk) \in {"SPAM_CONFIRMED", "SPAM_HIGH_RISK"}
    BY DEF Category
  <2>5. pc'[a] # "done" => Condemned(a)'
    BY <2>2, <2>3, <2>4 DEF Condemned, Published, Entry
  <2>6. \A t \in Tasks : pc'[t] # pc[t] =>
           /\ pc[t] \in {"idle", "ask", "allow", "load"}
           /\ pc'[t] \in {"allow", "load", "send"} =>
                \/ t \in Floods \/ pc[t] \in {"allow", "load"} \/ Condemned(t)'
    <3> SUFFICES ASSUME NEW t \in Tasks, pc'[t] # pc[t]
                 PROVE  /\ pc[t] \in {"idle", "ask", "allow", "load"}
                        /\ pc'[t] \in {"allow", "load", "send"} => Condemned(t)'
      OBVIOUS
    <3>1. t = a
      BY <2>2
    <3>. QED BY <2>1, <2>5, <3>1
  <2>. QED BY <2>3, <2>6, LeftStutters
<1>3. ASSUME NEW f \in Floods, FloodBegins(f)
      PROVE  LeftInv'
  <2>1. f \in Tasks /\ pc[f] = "idle"
    BY <1>3 DEF Tasks, FloodBegins
  <2>2. \A t \in Tasks : t # f => pc'[t] = pc[t]
    BY <1>0, <1>3 DEF Goto, FloodBegins
  <2>3. UNCHANGED telegram /\ lost' = lost /\ log' = log
    BY <1>3 DEF FloodBegins, entries
  <2>. QED BY <2>1, <2>2, <2>3, LeftStutters
<1>4. ASSUME NEW t \in Tasks, Allow(t)
      PROVE  LeftInv'
  <2>1. /\ pc[t] = "allow"
        /\ \A u \in Tasks : u # t => pc'[u] = pc[u]
    BY <1>0, <1>4 DEF Goto, Allow
  <2>2. UNCHANGED telegram /\ lost' = lost /\ log' = log
    BY <1>4 DEF Allow, entries
  <2>. QED BY <2>1, <2>2, LeftStutters
<1>. QED BY <1>1, <1>2, <1>3, <1>4

(* The call of Telegram, its answer, and what Telegram does on its own *)
LEMMA LeftSend ==
  ASSUME TypeOK, LeftInv,
         \/ \E t \in Tasks : Load(t) \/ Sent(t) \/ SendFails(t)
         \/ \E msg \in flying : Post(msg)
  PROVE  LeftInv'
<1>0. /\ pc \in [Tasks -> pcs]
      /\ \A msg \in Asked : msg.of \in Tasks
  BY DEF TypeOK, Asked
<1>1. ASSUME NEW t \in Tasks, Load(t), bot = NoBot
      PROVE  LeftInv'
  <2>1. /\ pc[t] = "load"
        /\ \A u \in Tasks : u # t => pc'[u] = pc[u]
    BY <1>0, <1>1 DEF Goto, Load
  <2>2. UNCHANGED telegram /\ lost' = lost /\ log' = log
    BY <1>1 DEF Load, entries, telegram
  <2>. QED BY <2>1, <2>2, LeftStutters
<1>2. ASSUME NEW t \in Tasks, Load(t), bot # NoBot
      PROVE  LeftInv'
  <2>. DEFINE msg == [of |-> t, author |-> bot]
  <2>1. /\ pc[t] = "load" /\ pc' = [pc EXCEPT ![t] = "send"]
        /\ Asked' = Asked \cup {msg} /\ UNCHANGED <<group, log, lost>>
    BY <1>2 DEF Goto, Load, Asked, entries
  <2>2. msg.of = t /\ \A m \in Asked : m.of # t
    BY <2>1 DEF LeftInv, GroupInv
  <2>. HIDE DEF msg
  <2>3. pc'[t] = "send" /\ \A u \in Tasks : u # t => pc'[u] = pc[u]
    BY <1>0, <2>1
  <2>4. group \subseteq Asked
    BY DEF Asked
  <2>5. GroupInv'
    BY <1>0, <2>1, <2>2, <2>3, <2>4 DEF LeftInv, GroupInv
  <2>6. \A u : Condemned(u)' = Condemned(u) /\ Told(u)' = Told(u)
    BY <2>1 DEF Condemned, Told, Published, Entry
  <2>7. LogInv'
    BY <1>0, <2>1, <2>2, <2>3, <2>6 DEF LeftInv, LogInv, Tasks
  <2>. QED BY <2>5, <2>7 DEF LeftInv
<1>3. ASSUME NEW t \in Tasks, Sent(t) \/ SendFails(t)
      PROVE  LeftInv'
  <2>1. /\ Asked' \subseteq Asked /\ group' = group /\ lost \subseteq lost' /\ log \subseteq log'
        /\ pc[t] = "send" /\ Told(t)'
        /\ \/ pc' = [pc EXCEPT ![t] = "wait"]
           \/ pc' = [pc EXCEPT ![t] = "done"] /\ (HasWarning(t) => t \in lost')
    BY <1>3 DEF Sent, SendFails, Goto, Return, Publish, Asked, telegram, Told, Published, Entry
  <2>2. pc'[t] \in {"wait", "done"} /\ \A u \in Tasks : u # t => pc'[u] = pc[u]
    BY <1>0, <2>1
  <2>3. pc'[t] = "wait" \/ t \in lost' \/ \A msg \in group : msg.of # t
    BY <1>0, <2>1 DEF HasWarning
  <2>4. group \subseteq Asked
    BY DEF Asked
  <2>5. GroupInv'
    BY <1>0, <2>1, <2>2, <2>3, <2>4 DEF LeftInv, GroupInv
  <2>6. \A u : (Condemned(u) => Condemned(u)') /\ (Told(u) => Told(u)')
    BY <2>1 DEF Condemned, Told, Published, Entry
  <2>7. LogInv'
    BY <1>0, <2>1, <2>2, <2>6 DEF LeftInv, LogInv, Tasks
  <2>. QED BY <2>5, <2>7 DEF LeftInv
<1>4. ASSUME NEW msg \in flying, Post(msg)
      PROVE  LeftInv'
  <2>1. /\ Asked' = Asked /\ group' = group \cup {msg} /\ lost \subseteq lost'
        /\ UNCHANGED <<pc, log>>
        /\ pc[msg.of] = "send" \/ msg.of \in lost'
    BY <1>4 DEF Post, Asked, entries
  <2>2. GroupInv'
    BY <2>1 DEF LeftInv, GroupInv
  <2>3. \A u : Condemned(u)' = Condemned(u) /\ Told(u)' = Told(u)
    BY <2>1 DEF Condemned, Told, Published, Entry
  <2>4. LogInv'
    BY <2>1, <2>3 DEF LeftInv, LogInv
  <2>. QED BY <2>2, <2>4 DEF LeftInv
<1>. QED BY <1>1, <1>2, <1>3, <1>4

(* The deletion, and the end of the process *)
LEMMA LeftEnd ==
  ASSUME TypeOK, BotInv, LeftInv,
         Restart \/ \E t \in Tasks : Wake(t) \/ Delete(t)
  PROVE  LeftInv'
<1>0. /\ pc \in [Tasks -> pcs] /\ group \subseteq Asked
      /\ \A msg \in Asked : msg.of \in Tasks
  BY DEF TypeOK, Asked
<1>1. ASSUME NEW t \in Tasks, Wake(t)
      PROVE  LeftInv'
  <2>1. /\ UNCHANGED <<Asked, group, log, lost>>
        /\ pc[t] = "wait" /\ pc' = [pc EXCEPT ![t] = "delete"]
    BY <1>1 DEF Wake, Goto, BotInv, Asked, telegram, entries
  <2>2. pc'[t] = "delete" /\ \A u \in Tasks : u # t => pc'[u] = pc[u]
    BY <1>0, <2>1
  <2>3. GroupInv'
    BY <1>0, <2>1, <2>2 DEF LeftInv, GroupInv
  <2>4. \A u : Condemned(u)' = Condemned(u) /\ Told(u)' = Told(u)
    BY <2>1 DEF Condemned, Told, Published, Entry
  <2>5. LogInv'
    BY <1>0, <2>1, <2>2, <2>4 DEF LeftInv, LogInv, Tasks
  <2>. QED BY <2>3, <2>5 DEF LeftInv
<1>2. ASSUME NEW t \in Tasks, Delete(t)
      PROVE  LeftInv'
  <2>1. /\ Asked' \subseteq Asked /\ group' \subseteq group /\ lost \subseteq lost' /\ log' = log
        /\ pc[t] = "delete" /\ pc' = [pc EXCEPT ![t] = "done"]
        /\ t \in lost' \/ (Message(t) \in group /\ group' = group \ {Message(t)})
    BY <1>2 DEF Delete, Goto, Return, Asked, entries
  <2>2. pc'[t] = "done" /\ \A u \in Tasks : u # t => pc'[u] = pc[u]
    BY <1>0, <2>1
  <2>3. t \in lost' \/ \A msg \in group' : msg.of # t
    BY <1>0, <2>1 DEF LeftInv, GroupInv, Message
  <2>4. GroupInv'
    BY <1>0, <2>1, <2>2, <2>3 DEF LeftInv, GroupInv
  <2>5. \A u : Condemned(u)' = Condemned(u) /\ Told(u)' = Told(u)
    BY <2>1 DEF Condemned, Told, Published, Entry
  <2>6. LogInv'
    BY <1>0, <2>1, <2>2, <2>5 DEF LeftInv, LogInv, Tasks
  <2>. QED BY <2>4, <2>6 DEF LeftInv
<1>3. CASE Restart
  <2>1. /\ UNCHANGED <<Asked, group, log>>
        /\ pc' = [t \in Tasks |-> IF Active(t) THEN "killed" ELSE pc[t]]
        /\ lost' = lost \cup {t \in Tasks : Active(t) /\ HasWarning(t)}
    BY <1>3 DEF Restart, Asked, telegram, entries
  <2>2. \A t \in Tasks : pc'[t] = "killed" \/ (pc'[t] = pc[t] /\ pc[t] \in {"idle", "done"})
    BY <2>1 DEF Active
  <2>3. \A msg \in group : msg.of \in lost'
    BY <1>0, <2>1 DEF LeftInv, GroupInv, Active, HasWarning
  <2>4. GroupInv'
    BY <1>0, <2>1, <2>2, <2>3 DEF LeftInv, GroupInv
  <2>5. \A u : Condemned(u)' = Condemned(u) /\ Told(u)' = Told(u)
    BY <2>1 DEF Condemned, Told, Published, Entry
  <2>6. LogInv'
    BY <1>0, <2>1, <2>2, <2>5 DEF LeftInv, LogInv, Tasks
  <2>. QED BY <2>4, <2>6 DEF LeftInv
<1>. QED BY <1>1, <1>2, <1>3

(* Every step preserves it. *)
LEMMA LeftNext == WarningsInv /\ BotInv /\ LeftInv /\ [Next]_vars => LeftInv'
<1> SUFFICES ASSUME WarningsInv, BotInv, LeftInv, [Next]_vars
             PROVE  LeftInv'
  OBVIOUS
<1>0. TypeOK
  BY DEF WarningsInv
<1>1. CASE UNCHANGED <<telegram, pc, log, lost>>
  BY <1>0, <1>1, LeftStutters
<1>2. ASSUME \/ \E on \in BOOLEAN : StoreWarnInGroup(on) \/ SetWarnInGroup(on)
             \/ \E b \in Bots : SetBotToken(b)
             \/ UNCHANGED vars
      PROVE  LeftInv'
  BY <1>1, <1>2 DEF StoreWarnInGroup, SetWarnInGroup, SetBotToken, vars, entries
<1>. QED BY <1>0, <1>2, LeftBegin, LeftSend, LeftEnd DEF Next, Goes

(* It holds in every behaviour. *)
LEMMA SpecLeft == Spec => []LeftInv
<1>1. Init => LeftInv /\ BotInv
  BY WarningsAssumption DEF Init, LeftInv, GroupInv, LogInv, BotInv, Asked, Tasks
<1>2. WarningsInv => TypeOK
  BY DEF WarningsInv
<1>. QED BY <1>1, <1>2, LeftNext, BotNext, AlwaysInv, PTL DEF Spec

(***************************************************************************)
(* No warning is forgotten in the group: as long as one can be read there, *)
(* the goroutine that sent it has its deletion before it, unless a call of *)
(* Telegram failed, another bot was to delete it or the process ended      *)
(* (scheduleDeleteMessage): what WarningsEnd comes to if goroutines go on. *)
(***************************************************************************)
Forgotten(t) == HasWarning(t) /\ pc[t] \notin {"send", "wait", "delete"} /\ t \notin lost

THEOREM NoneForgotten == Spec => [](\A t \in Tasks : ~Forgotten(t))
<1>1. LeftInv => \A t \in Tasks : ~Forgotten(t)
  BY DEF LeftInv, GroupInv, Forgotten, HasWarning
<1>. QED BY <1>1, SpecLeft, PTL

(***************************************************************************)
(* Whoever is warned of as a spammer has been published as one, and every  *)
(* warning one can read has been too, as sent or as failed, as soon as the *)
(* call is over and whenever Telegram posted it, unless the process ended  *)
(* during the call (assessUserSpam, sendSpamWarning, sendFloodWarning).    *)
(***************************************************************************)
THEOREM WarningsAccounted == Spec => []Accounted
<1>1. LeftInv => Accounted
  BY DEF LeftInv, LogInv, Accounted, HasWarning, Asked, Condemned, Told
<1>. QED BY <1>1, SpecLeft, PTL
=============================================================================

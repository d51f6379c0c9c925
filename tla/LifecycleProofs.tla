-------------------------- MODULE LifecycleProofs --------------------------
(***************************************************************************)
(* Proofs about Lifecycle, for any number of calls of startBot, updates    *)
(* and places in the queue.                                                *)
(***************************************************************************)
EXTENDS Lifecycle, TLAPS

Active(b) == handler[b] \in {"running", "stopping"}

(* Whoever is inside the section holds botMu. *)
LockInv ==
  \A a \in Callers : pc[a] \in {"locked", "waiting", "ready"} => botMu = a

(* A bot has a handler only once its startBot is done. *)
MadeInv ==
  /\ \A b \in Starts : pc[b] # "done" => handler[b] = "none"
  /\ current # None => pc[current] \in {"done", "failed"}
  /\ \A g \in Starts :
       /\ starter[g] = "ready" => current # None
       /\ starter[g] = "calling" => target[g] # None

(* Stop was called for every bot but the newest, and for the newest as well *)
(* when its successor is about to be made.                                  *)
ReplacedInv ==
  /\ \A b \in Starts : handler[b] # "none" /\ b # current => b \in replaced
  /\ \A a \in Callers : pc[a] = "waiting" => current # None /\ handler[current] # "none"
  /\ \A a \in Callers :
       pc[a] \in {"waiting", "ready"} /\ current # None => current \in replaced

(* Only a waiting Stop has a handler that is stopping. *)
StoppingInv ==
  \A b \in Starts :
    handler[b] = "stopping" => b = current /\ \E a \in Callers : pc[a] = "waiting"

(* What runs is the newest handler or a stray one. *)
RunInv ==
  /\ \A b \in Starts : Active(b) => b = current \/ b \in stray
  /\ \A a \in Callers :
       pc[a] = "ready" /\ current # None /\ Active(current) => current \in stray

(* A handler that does not run processes nothing. *)
BusyInv == \A b \in Starts : busy[b] # {} => Active(b)

LifecycleInv ==
  TypeOK /\ LockInv /\ MadeInv /\ ReplacedInv /\ StoppingInv /\ RunInv /\ BusyInv
-----------------------------------------------------------------------------
(* The invariant holds at the start. *)
LEMMA InitInv == Init => LifecycleInv
BY LifecycleAssumption
   DEF Init, LifecycleInv, TypeOK, LockInv, MadeInv, ReplacedInv, StoppingInv, RunInv,
       BusyInv, Active, Starts, Callers, Signal, Nobody, None, Update
-----------------------------------------------------------------------------
(* The callers of the section under botMu *)
LEMMA CallersInv ==
  ASSUME LifecycleInv,
         \/ SignalComes \/ Listen \/ Shutdown
         \/ \E a \in Callers : InLock(a)
         \/ \E a \in Starts : StartBot(a) \/ Creates(a)
  PROVE  LifecycleInv'
<1> USE LifecycleAssumption
    DEF LifecycleInv, Active, Starts, Callers, Signal, Nobody, None, Unlock, queue,
        goroutines, locked
<1>1. ASSUME SignalComes
      PROVE  LifecycleInv'
  <2>1. TypeOK'
    BY <1>1 DEF SignalComes, TypeOK, MadeInv, ReplacedInv
  <2>2. LockInv'
    BY <1>1 DEF SignalComes, TypeOK, LockInv
  <2>3. MadeInv'
    BY <1>1 DEF SignalComes, TypeOK, MadeInv
  <2>4. ReplacedInv'
    BY <1>1 DEF SignalComes, TypeOK, ReplacedInv, MadeInv, LockInv
  <2>5. StoppingInv'
    BY <1>1 DEF SignalComes, TypeOK, StoppingInv, LockInv, MadeInv
  <2>6. RunInv'
    BY <1>1 DEF SignalComes, TypeOK, RunInv, ReplacedInv, StoppingInv, LockInv, MadeInv
  <2>7. BusyInv'
    BY <1>1 DEF SignalComes, TypeOK, BusyInv, MadeInv, StoppingInv
  <2>. QED BY <2>1, <2>2, <2>3, <2>4, <2>5, <2>6, <2>7
<1>2. ASSUME Listen
      PROVE  LifecycleInv'
  <2>1. TypeOK'
    BY <1>2 DEF Listen, TypeOK, MadeInv, ReplacedInv
  <2>2. LockInv'
    BY <1>2 DEF Listen, TypeOK, LockInv
  <2>3. MadeInv'
    BY <1>2 DEF Listen, TypeOK, MadeInv
  <2>4. ReplacedInv'
    BY <1>2 DEF Listen, TypeOK, ReplacedInv, MadeInv, LockInv
  <2>5. StoppingInv'
    BY <1>2 DEF Listen, TypeOK, StoppingInv, LockInv, MadeInv
  <2>6. RunInv'
    BY <1>2 DEF Listen, TypeOK, RunInv, ReplacedInv, StoppingInv, LockInv, MadeInv
  <2>7. BusyInv'
    BY <1>2 DEF Listen, TypeOK, BusyInv, MadeInv, StoppingInv
  <2>. QED BY <2>1, <2>2, <2>3, <2>4, <2>5, <2>6, <2>7
<1>3. ASSUME Shutdown
      PROVE  LifecycleInv'
  <2>1. TypeOK'
    BY <1>3 DEF Shutdown, TypeOK, MadeInv, ReplacedInv
  <2>2. LockInv'
    BY <1>3 DEF Shutdown, TypeOK, LockInv
  <2>3. MadeInv'
    BY <1>3 DEF Shutdown, TypeOK, MadeInv
  <2>4. ReplacedInv'
    BY <1>3 DEF Shutdown, TypeOK, ReplacedInv, MadeInv, LockInv
  <2>5. StoppingInv'
    BY <1>3 DEF Shutdown, TypeOK, StoppingInv, LockInv, MadeInv
  <2>6. RunInv'
    BY <1>3 DEF Shutdown, TypeOK, RunInv, ReplacedInv, StoppingInv, LockInv, MadeInv
  <2>7. BusyInv'
    BY <1>3 DEF Shutdown, TypeOK, BusyInv, MadeInv, StoppingInv
  <2>. QED BY <2>1, <2>2, <2>3, <2>4, <2>5, <2>6, <2>7
<1>4. ASSUME NEW a \in Callers, Lock(a)
      PROVE  LifecycleInv'
  <2>1. TypeOK'
    BY <1>4 DEF Lock, TypeOK, MadeInv, ReplacedInv
  <2>2. LockInv'
    BY <1>4 DEF Lock, TypeOK, LockInv
  <2>3. MadeInv'
    BY <1>4 DEF Lock, TypeOK, MadeInv
  <2>4. ReplacedInv'
    BY <1>4 DEF Lock, TypeOK, ReplacedInv, MadeInv, LockInv
  <2>5. StoppingInv'
    BY <1>4 DEF Lock, TypeOK, StoppingInv, LockInv, MadeInv
  <2>6. RunInv'
    BY <1>4 DEF Lock, TypeOK, RunInv, ReplacedInv, StoppingInv, LockInv, MadeInv
  <2>7. BusyInv'
    BY <1>4 DEF Lock, TypeOK, BusyInv, MadeInv, StoppingInv
  <2>. QED BY <2>1, <2>2, <2>3, <2>4, <2>5, <2>6, <2>7
<1>5. ASSUME NEW a \in Callers, Stop(a)
      PROVE  LifecycleInv'
  <2>1. TypeOK'
    BY <1>5 DEF Stop, TypeOK, MadeInv, ReplacedInv
  <2>2. LockInv'
    BY <1>5 DEF Stop, TypeOK, LockInv
  <2>3. MadeInv'
    BY <1>5 DEF Stop, TypeOK, MadeInv
  <2>4. ReplacedInv'
    BY <1>5 DEF Stop, TypeOK, ReplacedInv, MadeInv, LockInv
  <2>5. StoppingInv'
    BY <1>5 DEF Stop, TypeOK, StoppingInv, LockInv, MadeInv
  <2>6. RunInv'
    BY <1>5 DEF Stop, TypeOK, RunInv, ReplacedInv, StoppingInv, LockInv, MadeInv
  <2>7. BusyInv'
    BY <1>5 DEF Stop, TypeOK, BusyInv, MadeInv, StoppingInv
  <2>. QED BY <2>1, <2>2, <2>3, <2>4, <2>5, <2>6, <2>7
<1>6. ASSUME NEW a \in Callers, StopReturns(a)
      PROVE  LifecycleInv'
  <2>1. TypeOK'
    BY <1>6 DEF StopReturns, TypeOK, MadeInv, ReplacedInv
  <2>2. LockInv'
    BY <1>6 DEF StopReturns, TypeOK, LockInv
  <2>3. MadeInv'
    BY <1>6 DEF StopReturns, TypeOK, MadeInv, ReplacedInv
  <2>4. ReplacedInv'
    BY <1>6 DEF StopReturns, TypeOK, ReplacedInv, MadeInv, LockInv
  <2>5. StoppingInv'
    BY <1>6 DEF StopReturns, TypeOK, StoppingInv, LockInv, MadeInv
  <2>6. RunInv'
    BY <1>6 DEF StopReturns, TypeOK, RunInv, ReplacedInv, StoppingInv, LockInv, MadeInv
  <2>7. BusyInv'
    BY <1>6 DEF StopReturns, TypeOK, BusyInv, MadeInv, StoppingInv
  <2>. QED BY <2>1, <2>2, <2>3, <2>4, <2>5, <2>6, <2>7
<1>7. ASSUME NEW a \in Starts, StartBot(a)
      PROVE  LifecycleInv'
  <2>1. TypeOK'
    BY <1>7 DEF StartBot, TypeOK, MadeInv, ReplacedInv
  <2>2. LockInv'
    BY <1>7 DEF StartBot, TypeOK, LockInv
  <2>3. MadeInv'
    BY <1>7 DEF StartBot, TypeOK, MadeInv
  <2>4. ReplacedInv'
    BY <1>7 DEF StartBot, TypeOK, ReplacedInv, MadeInv, LockInv
  <2>5. StoppingInv'
    BY <1>7 DEF StartBot, TypeOK, StoppingInv, LockInv, MadeInv
  <2>6. RunInv'
    BY <1>7 DEF StartBot, TypeOK, RunInv, ReplacedInv, StoppingInv, LockInv, MadeInv
  <2>7. BusyInv'
    BY <1>7 DEF StartBot, TypeOK, BusyInv, MadeInv, StoppingInv
  <2>. QED BY <2>1, <2>2, <2>3, <2>4, <2>5, <2>6, <2>7
<1>8. ASSUME NEW a \in Starts, NewBot(a)
      PROVE  LifecycleInv'
  <2>1. TypeOK'
    BY <1>8 DEF NewBot, TypeOK, MadeInv, ReplacedInv
  <2>2. LockInv'
    BY <1>8 DEF NewBot, TypeOK, LockInv
  <2>3. MadeInv'
    BY <1>8 DEF NewBot, TypeOK, MadeInv
  <2>4. ReplacedInv'
    BY <1>8 DEF NewBot, TypeOK, ReplacedInv, MadeInv, LockInv
  <2>5. StoppingInv'
    BY <1>8 DEF NewBot, TypeOK, StoppingInv, LockInv, MadeInv
  <2>6. RunInv'
    BY <1>8 DEF NewBot, TypeOK, RunInv, ReplacedInv, StoppingInv, LockInv, MadeInv
  <2>7. BusyInv'
    <3>1. handler[a] = "none" /\ busy' = busy
      BY <1>8 DEF NewBot, MadeInv
    <3>2. \A b \in Starts : b # a => handler'[b] = handler[b]
      BY <1>8 DEF NewBot, TypeOK
    <3>. QED BY <3>1, <3>2 DEF BusyInv
  <2>. QED BY <2>1, <2>2, <2>3, <2>4, <2>5, <2>6, <2>7
<1>9. ASSUME NEW a \in Starts, NewBotFails(a)
      PROVE  LifecycleInv'
  <2>1. TypeOK'
    BY <1>9 DEF NewBotFails, TypeOK, MadeInv, ReplacedInv
  <2>2. LockInv'
    BY <1>9 DEF NewBotFails, TypeOK, LockInv
  <2>3. MadeInv'
    BY <1>9 DEF NewBotFails, TypeOK, MadeInv
  <2>4. ReplacedInv'
    BY <1>9 DEF NewBotFails, TypeOK, ReplacedInv, MadeInv, LockInv
  <2>5. StoppingInv'
    BY <1>9 DEF NewBotFails, TypeOK, StoppingInv, LockInv, MadeInv
  <2>6. RunInv'
    BY <1>9 DEF NewBotFails, TypeOK, RunInv, ReplacedInv, StoppingInv, LockInv, MadeInv
  <2>7. BusyInv'
    BY <1>9 DEF NewBotFails, TypeOK, BusyInv, MadeInv, StoppingInv
  <2>. QED BY <2>1, <2>2, <2>3, <2>4, <2>5, <2>6, <2>7
<1>10. ASSUME NEW a \in Starts, NewHandlerFails(a)
      PROVE  LifecycleInv'
  <2>1. TypeOK'
    BY <1>10 DEF NewHandlerFails, TypeOK, MadeInv, ReplacedInv
  <2>2. LockInv'
    BY <1>10 DEF NewHandlerFails, TypeOK, LockInv
  <2>3. MadeInv'
    BY <1>10 DEF NewHandlerFails, TypeOK, MadeInv
  <2>4. ReplacedInv'
    BY <1>10 DEF NewHandlerFails, TypeOK, ReplacedInv, MadeInv, LockInv
  <2>5. StoppingInv'
    BY <1>10 DEF NewHandlerFails, TypeOK, StoppingInv, LockInv, MadeInv
  <2>6. RunInv'
    BY <1>10 DEF NewHandlerFails, TypeOK, RunInv, ReplacedInv, StoppingInv, LockInv, MadeInv
  <2>7. BusyInv'
    BY <1>10 DEF NewHandlerFails, TypeOK, BusyInv, MadeInv, StoppingInv
  <2>. QED BY <2>1, <2>2, <2>3, <2>4, <2>5, <2>6, <2>7
<1>. QED BY <1>1, <1>2, <1>3, <1>4, <1>5, <1>6, <1>7, <1>8, <1>9, <1>10 DEF InLock, Creates

(* The goroutines startBot leaves behind *)
LEMMA GoroutinesInv ==
  ASSUME LifecycleInv, NEW g \in Starts, Goroutine(g)
  PROVE  LifecycleInv'
<1> USE LifecycleAssumption
    DEF LifecycleInv, Active, Starts, Callers, Signal, Nobody, None, queue, locked
<1>1. ASSUME ReadHandler(g)
      PROVE  LifecycleInv'
  <2>1. TypeOK'
    BY <1>1 DEF ReadHandler, TypeOK, MadeInv, ReplacedInv
  <2>2. LockInv'
    BY <1>1 DEF ReadHandler, TypeOK, LockInv
  <2>3. MadeInv'
    BY <1>1 DEF ReadHandler, TypeOK, MadeInv
  <2>4. ReplacedInv'
    BY <1>1 DEF ReadHandler, TypeOK, ReplacedInv, MadeInv, LockInv
  <2>5. StoppingInv'
    BY <1>1 DEF ReadHandler, TypeOK, StoppingInv, LockInv, MadeInv
  <2>6. RunInv'
    BY <1>1 DEF ReadHandler, TypeOK, RunInv, ReplacedInv, StoppingInv, LockInv, MadeInv
  <2>7. BusyInv'
    BY <1>1 DEF ReadHandler, TypeOK, BusyInv, MadeInv, StoppingInv
  <2>. QED BY <2>1, <2>2, <2>3, <2>4, <2>5, <2>6, <2>7
<1>2. ASSUME StartHandler(g)
      PROVE  LifecycleInv'
  <2>1. TypeOK'
    <3>1. target[g] \in Starts
      BY <1>2 DEF StartHandler, TypeOK, MadeInv
    <3>2. handler' \in [Starts -> {"none", "created", "running", "stopping", "stopped"}]
      BY <1>2, <3>1 DEF StartHandler, TypeOK
    <3>3. starter' \in [Starts -> {"none", "ready", "calling", "done", "refused"}]
      BY <1>2 DEF StartHandler, TypeOK
    <3>4. target' \in [Starts -> Starts \cup {None}] /\ stray' \subseteq Starts
      BY <1>2, <3>1 DEF StartHandler, TypeOK
    <3>. QED BY <1>2, <3>2, <3>3, <3>4 DEF StartHandler, TypeOK
  <2>2. LockInv'
    BY <1>2 DEF StartHandler, TypeOK, LockInv
  <2>3. MadeInv'
    BY <1>2 DEF StartHandler, TypeOK, MadeInv
  <2>4. ReplacedInv'
    BY <1>2 DEF StartHandler, TypeOK, ReplacedInv, MadeInv, LockInv
  <2>5. StoppingInv'
    BY <1>2 DEF StartHandler, TypeOK, StoppingInv, LockInv, MadeInv
  <2>6. RunInv'
    BY <1>2 DEF StartHandler, TypeOK, RunInv, ReplacedInv, StoppingInv, LockInv, MadeInv
  <2>7. BusyInv'
    BY <1>2 DEF StartHandler, TypeOK, BusyInv, MadeInv, StoppingInv
  <2>. QED BY <2>1, <2>2, <2>3, <2>4, <2>5, <2>6, <2>7
<1>3. ASSUME Wake(g)
      PROVE  LifecycleInv'
  <2>1. TypeOK'
    BY <1>3 DEF Wake, TypeOK, MadeInv, ReplacedInv
  <2>2. LockInv'
    BY <1>3 DEF Wake, TypeOK, LockInv
  <2>3. MadeInv'
    BY <1>3 DEF Wake, TypeOK, MadeInv
  <2>4. ReplacedInv'
    BY <1>3 DEF Wake, TypeOK, ReplacedInv, MadeInv, LockInv
  <2>5. StoppingInv'
    BY <1>3 DEF Wake, TypeOK, StoppingInv, LockInv, MadeInv
  <2>6. RunInv'
    BY <1>3 DEF Wake, TypeOK, RunInv, ReplacedInv, StoppingInv, LockInv, MadeInv
  <2>7. BusyInv'
    BY <1>3 DEF Wake, TypeOK, BusyInv, MadeInv, StoppingInv
  <2>. QED BY <2>1, <2>2, <2>3, <2>4, <2>5, <2>6, <2>7
<1>4. ASSUME SetWebhook(g)
      PROVE  LifecycleInv'
  <2>1. TypeOK'
    BY <1>4 DEF SetWebhook, TypeOK, MadeInv, ReplacedInv
  <2>2. LockInv'
    BY <1>4 DEF SetWebhook, TypeOK, LockInv
  <2>3. MadeInv'
    BY <1>4 DEF SetWebhook, TypeOK, MadeInv
  <2>4. ReplacedInv'
    BY <1>4 DEF SetWebhook, TypeOK, ReplacedInv, MadeInv, LockInv
  <2>5. StoppingInv'
    BY <1>4 DEF SetWebhook, TypeOK, StoppingInv, LockInv, MadeInv
  <2>6. RunInv'
    BY <1>4 DEF SetWebhook, TypeOK, RunInv, ReplacedInv, StoppingInv, LockInv, MadeInv
  <2>7. BusyInv'
    BY <1>4 DEF SetWebhook, TypeOK, BusyInv, MadeInv, StoppingInv
  <2>. QED BY <2>1, <2>2, <2>3, <2>4, <2>5, <2>6, <2>7
<1>5. ASSUME SetWebhookFails(g)
      PROVE  LifecycleInv'
  <2>1. TypeOK'
    BY <1>5 DEF SetWebhookFails, TypeOK, MadeInv, ReplacedInv
  <2>2. LockInv'
    BY <1>5 DEF SetWebhookFails, TypeOK, LockInv
  <2>3. MadeInv'
    BY <1>5 DEF SetWebhookFails, TypeOK, MadeInv
  <2>4. ReplacedInv'
    BY <1>5 DEF SetWebhookFails, TypeOK, ReplacedInv, MadeInv, LockInv
  <2>5. StoppingInv'
    BY <1>5 DEF SetWebhookFails, TypeOK, StoppingInv, LockInv, MadeInv
  <2>6. RunInv'
    BY <1>5 DEF SetWebhookFails, TypeOK, RunInv, ReplacedInv, StoppingInv, LockInv, MadeInv
  <2>7. BusyInv'
    BY <1>5 DEF SetWebhookFails, TypeOK, BusyInv, MadeInv, StoppingInv
  <2>. QED BY <2>1, <2>2, <2>3, <2>4, <2>5, <2>6, <2>7
<1>. QED BY <1>1, <1>2, <1>3, <1>4, <1>5 DEF Goroutine

(* The queue and the updates in processing *)
LEMMA UpdatesInv ==
  ASSUME LifecycleInv,
         \/ Webhook
         \/ \E b \in Starts : Take(b) \/ \E u \in Update : Finish(b, u)
  PROVE  LifecycleInv'
<1> USE LifecycleAssumption
    DEF LifecycleInv, Active, Starts, Callers, Signal, Nobody, None, Update,
        goroutines, locked
<1>1. ASSUME Webhook
      PROVE  LifecycleInv'
  <2>1. TypeOK'
    <3>1. arrived' \in Update /\ arrived' \in 0..MaxUpdates
      BY <1>1 DEF Webhook, TypeOK
    <3>2. updatesChan' \in Seq(Update) /\ Len(updatesChan') <= Capacity
      <4>1. CASE Len(updatesChan) < Capacity
        <5>1. updatesChan' = Append(updatesChan, arrived')
          BY <1>1, <4>1 DEF Webhook
        <5>2. updatesChan \in Seq(Update)
          BY DEF TypeOK
        <5>. HIDE DEF Update
        <5>. QED BY <3>1, <4>1, <5>1, <5>2
      <4>2. CASE ~(Len(updatesChan) < Capacity)
        BY <1>1, <4>2 DEF Webhook, TypeOK
      <4>. QED BY <4>1, <4>2
    <3>. QED BY <1>1, <3>1, <3>2 DEF Webhook, TypeOK
  <2>2. LockInv'
    BY <1>1 DEF Webhook, TypeOK, LockInv
  <2>3. MadeInv'
    BY <1>1 DEF Webhook, TypeOK, MadeInv
  <2>4. ReplacedInv'
    BY <1>1 DEF Webhook, TypeOK, ReplacedInv, MadeInv, LockInv
  <2>5. StoppingInv'
    BY <1>1 DEF Webhook, TypeOK, StoppingInv, LockInv, MadeInv
  <2>6. RunInv'
    BY <1>1 DEF Webhook, TypeOK, RunInv, ReplacedInv, StoppingInv, LockInv, MadeInv
  <2>7. BusyInv'
    BY <1>1 DEF Webhook, TypeOK, BusyInv, MadeInv, StoppingInv
  <2>. QED BY <2>1, <2>2, <2>3, <2>4, <2>5, <2>6, <2>7
<1>2. ASSUME NEW b \in Starts, Take(b)
      PROVE  LifecycleInv'
  <2>1. TypeOK'
    BY <1>2 DEF Take, TypeOK, MadeInv, ReplacedInv
  <2>2. LockInv'
    BY <1>2 DEF Take, TypeOK, LockInv
  <2>3. MadeInv'
    BY <1>2 DEF Take, TypeOK, MadeInv
  <2>4. ReplacedInv'
    BY <1>2 DEF Take, TypeOK, ReplacedInv, MadeInv, LockInv
  <2>5. StoppingInv'
    BY <1>2 DEF Take, TypeOK, StoppingInv, LockInv, MadeInv
  <2>6. RunInv'
    BY <1>2 DEF Take, TypeOK, RunInv, ReplacedInv, StoppingInv, LockInv, MadeInv
  <2>7. BusyInv'
    BY <1>2 DEF Take, TypeOK, BusyInv, MadeInv, StoppingInv
  <2>. QED BY <2>1, <2>2, <2>3, <2>4, <2>5, <2>6, <2>7
<1>3. ASSUME NEW b \in Starts, NEW u \in Update, Finish(b, u)
      PROVE  LifecycleInv'
  <2>1. TypeOK'
    BY <1>3 DEF Finish, TypeOK, MadeInv, ReplacedInv
  <2>2. LockInv'
    BY <1>3 DEF Finish, TypeOK, LockInv
  <2>3. MadeInv'
    BY <1>3 DEF Finish, TypeOK, MadeInv
  <2>4. ReplacedInv'
    BY <1>3 DEF Finish, TypeOK, ReplacedInv, MadeInv, LockInv
  <2>5. StoppingInv'
    BY <1>3 DEF Finish, TypeOK, StoppingInv, LockInv, MadeInv
  <2>6. RunInv'
    BY <1>3 DEF Finish, TypeOK, RunInv, ReplacedInv, StoppingInv, LockInv, MadeInv
  <2>7. BusyInv'
    BY <1>3 DEF Finish, TypeOK, BusyInv, MadeInv, StoppingInv
  <2>. QED BY <2>1, <2>2, <2>3, <2>4, <2>5, <2>6, <2>7
<1>. QED BY <1>1, <1>2, <1>3

(* Every step preserves the invariant. *)
LEMMA NextInv == LifecycleInv /\ [Next]_vars => LifecycleInv'
<1> SUFFICES ASSUME LifecycleInv, [Next]_vars
             PROVE  LifecycleInv'
  OBVIOUS
<1>1. CASE Ends
  BY <1>1, LifecycleAssumption
     DEF Ends, LifecycleInv, TypeOK, LockInv, MadeInv, ReplacedInv, StoppingInv,
         RunInv, BusyInv, Active, Starts, Callers, Signal, Nobody, None, Update
<1>2. CASE UNCHANGED vars
  BY <1>2
     DEF vars, locked, goroutines, queue, LifecycleInv, TypeOK, LockInv, MadeInv,
         ReplacedInv, StoppingInv, RunInv, BusyInv, Active
<1>3. CASE Next /\ ~Ends
  BY <1>3, CallersInv, GoroutinesInv, UpdatesInv DEF Next, On, Runs, Exit, Panics
<1>. QED BY <1>1, <1>2, <1>3

(* The invariant holds in every behaviour. *)
LEMMA SpecInv == Spec => []LifecycleInv
BY InitInv, NextInv, PTL DEF Spec
-----------------------------------------------------------------------------
(***************************************************************************)
(* Type correctness, with the capacity of the queue.                       *)
(***************************************************************************)
THEOREM TypeCorrect == Spec => []TypeOK
BY SpecInv, PTL DEF LifecycleInv

(***************************************************************************)
(* startBot replaces the bot only when no update is in processing, but by  *)
(* handlers that began to run after Stop had been called for them.         *)
(***************************************************************************)
THEOREM SwapIsQuiet == Spec => QuietSwap
<1>1. ASSUME LifecycleInv, [Next]_vars, current' \notin {current, None}
      PROVE  \A b \in Starts : busy[b] # {} => b \in stray
  <2>1. PICK a \in Starts : NewBot(a) \/ NewHandlerFails(a)
    BY <1>1
       DEF Next, On, Runs, vars, Listen, SignalComes, Shutdown, Exit, Panics, Ends, Webhook,
           InLock, Lock, Stop, StopReturns, StartBot, Creates, NewBotFails, Goroutine,
           ReadHandler, StartHandler, Wake, SetWebhook, SetWebhookFails, Take, Finish,
           locked
  <2>2. pc[a] = "ready" /\ a \in Callers
    BY <2>1 DEF NewBot, NewHandlerFails, Starts, Callers
  <2>3. ASSUME NEW b \in Starts, busy[b] # {}
        PROVE  b \in stray
    <3>1. Active(b)
      BY <1>1, <2>3 DEF LifecycleInv, BusyInv
    <3>2. b = current \/ b \in stray
      BY <1>1, <3>1 DEF LifecycleInv, RunInv
    <3>3. b # None
      BY DEF Starts, None
    <3>. QED BY <1>1, <2>2, <3>1, <3>2, <3>3 DEF LifecycleInv, RunInv
  <2>. QED BY <2>3
<1>. QED BY <1>1, SpecInv, PTL DEF Spec, QuietSwap
-----------------------------------------------------------------------------
(* The steps that leave the queue alone *)
LEMMA QueueStutters ==
  ASSUME \/ SignalComes \/ Listen \/ Shutdown
         \/ \E a \in Callers : InLock(a)
         \/ \E b \in Starts : StartBot(b) \/ Creates(b) \/ Goroutine(b),
         phase # "exited"
  PROVE  UNCHANGED <<arrived, updatesChan, busy>> /\ phase' # "exited"
BY DEF SignalComes, Listen, Shutdown, InLock, Lock, Stop, StopReturns, StartBot, Creates,
       NewBot, NewBotFails, NewHandlerFails, Goroutine, ReadHandler, StartHandler, Wake, SetWebhook,
       SetWebhookFails, queue

(***************************************************************************)
(* Bots may come and go in any order, fail, run astray or be stopped: what *)
(* the webhook accepts is handed on in its order and once.                 *)
(***************************************************************************)
THEOREM ImplementsUpdateQueue == Spec => ImplementsQueue
<1> DEFINE Work == UNION {busy[b] : b \in Starts}
<1>1. Init => Queue!Init
  BY DEF Init, Queue!Init
<1>2. ASSUME LifecycleInv, [Next]_vars
      PROVE  [Queue!Next]_(Queue!vars)
  <2> USE <1>2 DEF LifecycleInv, TypeOK
  <2>1. CASE UNCHANGED vars
    BY <2>1 DEF vars, queue, Queue!vars
  <2>2. ASSUME Ends, phase # "exited"
        PROVE  Queue!End
    BY <2>2 DEF Ends, Queue!End
  <2>3. ASSUME Webhook, phase # "exited"
        PROVE  Queue!Accept \/ Queue!Refuse
    BY <2>3, LifecycleAssumption DEF Webhook, Queue!Accept, Queue!Refuse
  <2>4. ASSUME NEW b \in Starts, Take(b), phase # "exited"
        PROVE  Queue!Take
    <3>1. Work' = Work \cup {Head(updatesChan)}
      BY <2>4 DEF Take
    <3>. QED BY <2>4, <3>1 DEF Take, Queue!Take
  <2>5. ASSUME NEW b \in Starts, NEW u \in Update, Finish(b, u), phase # "exited"
        PROVE  Queue!Finish \/ UNCHANGED Queue!vars
    <3>1. Work' = Work \/ Work' = Work \ {u}
      BY <2>5 DEF Finish
    <3>2. u \in Work
      BY <2>5 DEF Finish
    <3>. QED BY <2>5, <3>1, <3>2 DEF Finish, Queue!Finish, Queue!vars
  <2>6. ASSUME UNCHANGED <<arrived, updatesChan, busy>>, phase # "exited", phase' # "exited"
        PROVE  UNCHANGED Queue!vars
    BY <2>6 DEF Queue!vars
  <2>. QED BY <2>1, <2>2, <2>3, <2>4, <2>5, <2>6, QueueStutters
           DEF Next, On, Runs, Exit, Panics, Queue!Next
<1>. QED BY <1>1, <1>2, SpecInv, PTL DEF Spec, ImplementsQueue, Queue!Spec
-----------------------------------------------------------------------------
(* What keeps the system going: unless Stop was called for the newest bot, *)
(* or it got no handler, its context is not cancelled and its handler runs *)
(* or will be started by the goroutine that was made for it.               *)
ServedInv ==
  current # None /\ current \notin replaced /\ handler[current] # "none" =>
    /\ current \in live
    /\ \/ handler[current] = "running"
       \/ starter[current] = "ready"
       \/ starter[current] = "calling" /\ target[current] = current

(* Who holds botMu is inside the section: nobody returns with it. *)
HeldInv ==
  \A a \in Callers : botMu = a => pc[a] \in {"locked", "waiting", "ready"}

(* The context a webhook is registered with is the bot's own or that of a *)
(* later one, when the bot was replaced; only then the call is cancelled. *)
HookInv ==
  \A b \in Starts :
    /\ hook[b] # "none" => handler[b] # "none"
    /\ hook[b] = "calling" => hookCtx[b] = b \/ b \in replaced
    /\ hook[b] = "cancelled" => b \in replaced

(* Stop waits for a handler that is stopping. *)
WaitInv ==
  \A a \in Callers : pc[a] = "waiting" => handler[current] = "stopping"

GoingInv == ServedInv /\ HeldInv /\ HookInv /\ WaitInv

(* The steps inside the section *)
LEMMA GoingInside ==
  ASSUME LifecycleInv, GoingInv,
         \/ SignalComes \/ Listen \/ Shutdown
         \/ \E a \in Callers : InLock(a)
         \/ \E a \in Starts : StartBot(a) \/ Creates(a)
  PROVE  GoingInv'
<1> USE LifecycleAssumption
    DEF LifecycleInv, GoingInv, TypeOK, Starts, Callers, Signal, Nobody, None, Unlock,
        queue, goroutines, locked
<1>1. CASE SignalComes \/ Listen
  BY <1>1 DEF SignalComes, Listen, ServedInv, HeldInv, HookInv, WaitInv
<1>2. CASE Shutdown
  BY <1>2 DEF Shutdown, ServedInv, HeldInv, HookInv, WaitInv
<1>3. ASSUME NEW a \in Callers, Lock(a) PROVE GoingInv'
  BY <1>3 DEF Lock, ServedInv, HeldInv, HookInv, WaitInv
<1>4. ASSUME NEW a \in Callers, Stop(a) PROVE GoingInv'
  <2>1. ServedInv'
    BY <1>4 DEF Stop, ServedInv
  <2>2. HeldInv'
    BY <1>4 DEF Stop, HeldInv, LockInv
  <2>3. HookInv'
    BY <1>4 DEF Stop, HookInv
  <2>4. WaitInv'
    BY <1>4 DEF Stop, WaitInv, LockInv
  <2>. QED BY <2>1, <2>2, <2>3, <2>4
<1>5. ASSUME NEW a \in Callers, StopReturns(a) PROVE GoingInv'
  <2>1. ServedInv'
    BY <1>5 DEF StopReturns, ServedInv, ReplacedInv
  <2>2. HeldInv'
    BY <1>5 DEF StopReturns, HeldInv, LockInv
  <2>3. HookInv'
    BY <1>5 DEF StopReturns, HookInv
  <2>4. WaitInv'
    BY <1>5 DEF StopReturns, WaitInv, LockInv
  <2>. QED BY <2>1, <2>2, <2>3, <2>4
<1>6. ASSUME NEW a \in Starts, StartBot(a) PROVE GoingInv'
  BY <1>6 DEF StartBot, ServedInv, HeldInv, HookInv, WaitInv
<1>7. ASSUME NEW a \in Starts, NewBot(a) PROVE GoingInv'
  <2>1. ServedInv'
    BY <1>7 DEF NewBot, ServedInv
  <2>2. HeldInv'
    BY <1>7 DEF NewBot, HeldInv
  <2>3. HookInv'
    BY <1>7 DEF NewBot, HookInv, MadeInv
  <2>4. WaitInv'
    BY <1>7 DEF NewBot, WaitInv, LockInv
  <2>. QED BY <2>1, <2>2, <2>3, <2>4
<1>8. ASSUME NEW a \in Starts, NewBotFails(a) PROVE GoingInv'
  BY <1>8 DEF NewBotFails, ServedInv, HeldInv, HookInv, WaitInv
<1>9. ASSUME NEW a \in Starts, NewHandlerFails(a) PROVE GoingInv'
  <2>1. ServedInv'
    BY <1>9 DEF NewHandlerFails, ServedInv, MadeInv
  <2>2. HeldInv'
    BY <1>9 DEF NewHandlerFails, HeldInv
  <2>3. HookInv'
    BY <1>9 DEF NewHandlerFails, HookInv
  <2>4. WaitInv'
    BY <1>9 DEF NewHandlerFails, WaitInv, LockInv
  <2>. QED BY <2>1, <2>2, <2>3, <2>4
<1>. QED BY <1>1, <1>2, <1>3, <1>4, <1>5, <1>6, <1>7, <1>8, <1>9 DEF InLock, Creates

(* The goroutines, which run outside *)
LEMMA GoingOutside ==
  ASSUME LifecycleInv, GoingInv, NEW g \in Starts, Goroutine(g)
  PROVE  GoingInv'
<1> USE LifecycleAssumption
    DEF LifecycleInv, GoingInv, TypeOK, Starts, Callers, Nobody, None, queue, locked
<1>1. CASE ReadHandler(g)
  BY <1>1 DEF ReadHandler, ServedInv, HeldInv, HookInv, WaitInv
<1>2. CASE StartHandler(g)
  <2>1. target[g] \in Starts
    BY <1>2 DEF StartHandler, MadeInv
  <2>2. ServedInv'
    BY <1>2, <2>1 DEF StartHandler, ServedInv
  <2>3. HeldInv' /\ HookInv'
    BY <1>2, <2>1 DEF StartHandler, HeldInv, HookInv
  <2>4. WaitInv'
    BY <1>2, <2>1 DEF StartHandler, WaitInv, ReplacedInv
  <2>. QED BY <2>2, <2>3, <2>4
<1>3. CASE Wake(g)
  <2>1. g # current => g \in replaced
    BY <1>3 DEF Wake, HookInv, ReplacedInv
  <2>. QED BY <1>3, <2>1 DEF Wake, ServedInv, HeldInv, HookInv, WaitInv
<1>4. CASE SetWebhook(g)
  <2>1. hookCtx[g] \notin live => g \in replaced
    <3>1. handler[g] # "none" /\ (hookCtx[g] = g \/ g \in replaced)
      BY <1>4 DEF SetWebhook, HookInv
    <3>2. g = current \/ g \in replaced
      BY <3>1 DEF ReplacedInv
    <3>. QED BY <3>1, <3>2 DEF ServedInv
  <2>. QED BY <1>4, <2>1 DEF SetWebhook, ServedInv, HeldInv, HookInv, WaitInv
<1>5. CASE SetWebhookFails(g)
  BY <1>5 DEF SetWebhookFails, ServedInv, HeldInv, HookInv, WaitInv
<1>. QED BY <1>1, <1>2, <1>3, <1>4, <1>5 DEF Goroutine

(* Every step preserves what keeps the system going. *)
LEMMA GoingNext == LifecycleInv /\ GoingInv /\ [Next]_vars => GoingInv'
<1> SUFFICES ASSUME LifecycleInv, GoingInv, [Next]_vars
             PROVE  GoingInv'
  OBVIOUS
<1>1. CASE Ends
  BY <1>1, LifecycleAssumption
     DEF Ends, GoingInv, ServedInv, HeldInv, HookInv, WaitInv, Starts, Callers, Signal, Nobody, None
<1>2. CASE UNCHANGED <<locked, handler, goroutines>>
  BY <1>2 DEF locked, goroutines, GoingInv, ServedInv, HeldInv, HookInv, WaitInv
<1>3. ASSUME \/ Webhook \/ UNCHANGED vars
             \/ \E b \in Starts : Take(b) \/ \E u \in Update : Finish(b, u)
      PROVE  UNCHANGED <<locked, handler, goroutines>>
  BY <1>3 DEF Webhook, Take, Finish, vars, locked, goroutines
<1>. QED BY <1>1, <1>2, <1>3, GoingInside, GoingOutside DEF Next, On, Runs, Exit, Panics

(* It holds in every behaviour. *)
LEMMA SpecGoing == Spec => [](LifecycleInv /\ GoingInv)
<1>1. Init => GoingInv
  BY LifecycleAssumption
     DEF Init, GoingInv, ServedInv, HeldInv, HookInv, WaitInv, Starts, Callers, Signal, Nobody, None
<1>. QED BY <1>1, InitInv, NextInv, GoingNext, PTL DEF Spec

(***************************************************************************)
(* Updates do not wait for nobody, which is what AcceptedTaken comes to if *)
(* goroutines go on: whatever goroutine reads bh late and whichever of two *)
(* starts a handler, the newest one runs or is about to be started, unless *)
(* it was stopped.                                                         *)
(***************************************************************************)
SomebodyTakes ==
  \/ BotStopped
  \/ handler[current] = "running"
  \/ starter[current] = "ready"
  \/ starter[current] = "calling" /\ target[current] = current

THEOREM QueueIsServed == Spec => []SomebodyTakes
<1>1. LifecycleInv /\ GoingInv => SomebodyTakes
  BY DEF GoingInv, ServedInv, SomebodyTakes, BotStopped
<1>. QED BY <1>1, SpecGoing, PTL

(***************************************************************************)
(* botMu is held by whoever is inside the section and by nobody else, on   *)
(* every way out of it, and Stop waits for a handler that is stopping:     *)
(* what CallsReturn needs besides goroutines that go on.                   *)
(***************************************************************************)
LockIsGivenBack ==
  \A a \in Callers :
    /\ botMu = a <=> pc[a] \in {"locked", "waiting", "ready"}
    /\ pc[a] = "waiting" => current # None /\ handler[current] = "stopping"

THEOREM LockHeldInside == Spec => []LockIsGivenBack
<1>1. LifecycleInv /\ GoingInv => LockIsGivenBack
  BY DEF LifecycleInv, LockInv, ReplacedInv, GoingInv, HeldInv, WaitInv, LockIsGivenBack
<1>. QED BY <1>1, SpecGoing, PTL

(***************************************************************************)
(* The call that registers the webhook of a bot is cancelled only if Stop  *)
(* was called for that bot, though the goroutine reads botCtx two seconds  *)
(* after its bot was made: what HookSettles comes to.                      *)
(***************************************************************************)
CancelledIfReplaced == \A b \in Starts : hook[b] = "cancelled" => b \in replaced

THEOREM HooksOfReplaced == Spec => []CancelledIfReplaced
<1>1. GoingInv => CancelledIfReplaced
  BY DEF GoingInv, HookInv, CancelledIfReplaced
<1>. QED BY <1>1, SpecGoing, PTL
-----------------------------------------------------------------------------
(* Updates wait in the order of their arrival, those in processing came *)
(* before them, and no two handlers process the same.                   *)
OrderInv ==
  /\ \A i, j \in DOMAIN updatesChan : i < j => updatesChan[i] < updatesChan[j]
  /\ \A i \in DOMAIN updatesChan : updatesChan[i] <= arrived
  /\ \A b \in Starts : \A u \in busy[b] :
       u <= arrived /\ \A i \in DOMAIN updatesChan : u < updatesChan[i]
  /\ \A b, c \in Starts : b # c => busy[b] \cap busy[c] = {}

(* Every step preserves the order. *)
LEMMA OrderNext == LifecycleInv /\ OrderInv /\ [Next]_vars => OrderInv'
<1> SUFFICES ASSUME LifecycleInv, OrderInv, [Next]_vars
             PROVE  OrderInv'
  OBVIOUS
<1>1. /\ updatesChan \in Seq(Update) /\ arrived \in Nat /\ arrived <= MaxUpdates
      /\ busy \in [Starts -> SUBSET Update] /\ MaxUpdates \in Nat
  BY LifecycleAssumption DEF LifecycleInv, TypeOK
<1>2. CASE Webhook
  <2>1. /\ arrived' = arrived + 1 /\ busy' = busy
        /\ updatesChan' = updatesChan \/ updatesChan' = Append(updatesChan, arrived + 1)
    BY <1>2 DEF Webhook
  <2>2. CASE updatesChan' = updatesChan
    BY <1>1, <2>1, <2>2 DEF OrderInv, Update
  <2>3. CASE updatesChan' = Append(updatesChan, arrived + 1)
    <3>1. /\ DOMAIN updatesChan = 1..Len(updatesChan) /\ Len(updatesChan) \in Nat
          /\ DOMAIN updatesChan' = 1..(Len(updatesChan) + 1)
          /\ \A i \in DOMAIN updatesChan : updatesChan'[i] = updatesChan[i] /\ updatesChan[i] \in Update
          /\ updatesChan'[Len(updatesChan) + 1] = arrived + 1
      BY <1>1, <2>3
    <3>2. \A i \in DOMAIN updatesChan' : i \in DOMAIN updatesChan \/ i = Len(updatesChan) + 1
      BY <3>1
    <3>3. \A b \in Starts : \A u \in busy[b] : u \in Nat
      BY <1>1 DEF Update
    <3>4. \A i, j \in DOMAIN updatesChan' : i < j => updatesChan'[i] < updatesChan'[j]
      <4> SUFFICES ASSUME NEW i \in DOMAIN updatesChan', NEW j \in DOMAIN updatesChan', i < j
                   PROVE  updatesChan'[i] < updatesChan'[j]
        OBVIOUS
      <4>1. i \in DOMAIN updatesChan /\ updatesChan[i] \in Nat /\ updatesChan[i] <= arrived
        BY <3>1, <3>2 DEF OrderInv, Update
      <4>2. CASE j \in DOMAIN updatesChan
        BY <3>1, <4>1, <4>2 DEF OrderInv
      <4>3. CASE j = Len(updatesChan) + 1
        BY <1>1, <3>1, <4>1, <4>3
      <4>. QED BY <3>2, <4>2, <4>3
    <3>5. \A i \in DOMAIN updatesChan' : updatesChan'[i] <= arrived'
      <4> SUFFICES ASSUME NEW i \in DOMAIN updatesChan'
                   PROVE  updatesChan'[i] <= arrived'
        OBVIOUS
      <4>1. CASE i \in DOMAIN updatesChan
        BY <1>1, <2>1, <3>1, <4>1 DEF OrderInv, Update
      <4>. QED BY <1>1, <2>1, <3>1, <3>2, <4>1
    <3>6. \A b \in Starts : \A u \in busy'[b] :
            u <= arrived' /\ \A i \in DOMAIN updatesChan' : u < updatesChan'[i]
      <4> SUFFICES ASSUME NEW b \in Starts, NEW u \in busy[b], NEW i \in DOMAIN updatesChan'
                   PROVE  u <= arrived' /\ u < updatesChan'[i]
        BY <1>1, <2>1, <3>1
      <4>1. u \in Nat /\ u <= arrived
        BY <3>3 DEF OrderInv
      <4>2. CASE i \in DOMAIN updatesChan
        BY <1>1, <2>1, <3>1, <4>1, <4>2 DEF OrderInv
      <4>. QED BY <1>1, <2>1, <3>1, <3>2, <4>1, <4>2
    <3>. QED BY <2>1, <3>4, <3>5, <3>6 DEF OrderInv
  <2>. QED BY <2>1, <2>2, <2>3
<1>3. ASSUME NEW b \in Starts, Take(b)
      PROVE  OrderInv'
  <2>1. /\ updatesChan # <<>> /\ updatesChan' = Tail(updatesChan) /\ arrived' = arrived
        /\ busy' = [busy EXCEPT ![b] = @ \cup {Head(updatesChan)}]
    BY <1>3 DEF Take
  <2>2. /\ DOMAIN updatesChan = 1..Len(updatesChan) /\ Len(updatesChan) \in Nat \ {0}
        /\ DOMAIN updatesChan' = 1..(Len(updatesChan) - 1)
        /\ \A i \in DOMAIN updatesChan' : updatesChan'[i] = updatesChan[i + 1]
        /\ Head(updatesChan) = updatesChan[1]
    BY <1>1, <2>1
  <2>3. \A i \in DOMAIN updatesChan' : i + 1 \in DOMAIN updatesChan /\ 1 < i + 1 /\ 1 \in DOMAIN updatesChan
    BY <2>2
  <2>4. \A i, j \in DOMAIN updatesChan' : i < j => i + 1 < j + 1
    BY <2>2
  <2>5. /\ \A i, j \in DOMAIN updatesChan' : i < j => updatesChan'[i] < updatesChan'[j]
        /\ \A i \in DOMAIN updatesChan' : updatesChan'[i] <= arrived'
        /\ \A i \in DOMAIN updatesChan' : Head(updatesChan) < updatesChan'[i]
        /\ Head(updatesChan) <= arrived'
    BY <2>1, <2>2, <2>3, <2>4 DEF OrderInv
  <2>6. \A c \in Starts : \A u \in busy[c] : u # Head(updatesChan) /\ u \in Nat
    BY <1>1, <2>2 DEF OrderInv, Update
  <2>7. \A c \in Starts : \A u \in busy'[c] : u \in busy[c] \/ (c = b /\ u = Head(updatesChan))
    BY <1>1, <2>1
  <2>8. \A c \in Starts : \A u \in busy'[c] :
          u <= arrived' /\ \A i \in DOMAIN updatesChan' : u < updatesChan'[i]
    BY <2>1, <2>2, <2>3, <2>5, <2>7 DEF OrderInv
  <2>9. \A c, d \in Starts : c # d => busy'[c] \cap busy'[d] = {}
    BY <2>6, <2>7 DEF OrderInv
  <2>. QED BY <2>5, <2>8, <2>9 DEF OrderInv
<1>4. ASSUME NEW b \in Starts, NEW u \in Update, Finish(b, u)
      PROVE  OrderInv'
  BY <1>1, <1>4 DEF Finish, OrderInv
<1>5. CASE Ends
  BY <1>5, <1>1 DEF Ends, OrderInv
<1>6. CASE UNCHANGED <<arrived, updatesChan, busy>>
  BY <1>6 DEF OrderInv
<1>. QED BY <1>2, <1>3, <1>4, <1>5, <1>6, QueueStutters
     DEF Next, On, Runs, Exit, Panics, vars, queue

(* It holds in every behaviour. *)
LEMMA SpecOrder == Spec => [](LifecycleInv /\ OrderInv)
<1>1. Init => OrderInv
  BY DEF Init, OrderInv
<1>. QED BY <1>1, InitInv, NextInv, OrderNext, PTL DEF Spec

(***************************************************************************)
(* However many handlers take from the queue, stray ones among them, an    *)
(* update is in one place at most: it waits once, or one handler processes *)
(* it; the updates that wait came later than those in processing; and one  *)
(* that has left the queue does not come back.                             *)
(***************************************************************************)
OnePlace ==
  /\ \A i, j \in DOMAIN updatesChan : updatesChan[i] = updatesChan[j] => i = j
  /\ \A b \in Starts : \A u \in busy[b], i \in DOMAIN updatesChan : u < updatesChan[i]
  /\ \A b, c \in Starts : b # c => busy[b] \cap busy[c] = {}

NeverBack == [][\A u \in 1..arrived : IsWaiting(u)' => IsWaiting(u)]_vars

THEOREM NothingTwice == Spec => []OnePlace /\ NeverBack
<1>1. LifecycleInv /\ OrderInv => OnePlace
  <2> SUFFICES ASSUME LifecycleInv, OrderInv PROVE OnePlace
    OBVIOUS
  <2>1. updatesChan \in Seq(Update)
    BY DEF LifecycleInv, TypeOK
  <2>2. /\ DOMAIN updatesChan = 1..Len(updatesChan) /\ Len(updatesChan) \in Nat
        /\ \A i \in DOMAIN updatesChan : updatesChan[i] \in Update
    BY <2>1
  <2>3. \A i \in DOMAIN updatesChan : updatesChan[i] \in Nat
    BY <2>2 DEF Update
  <2>4. ASSUME NEW i \in DOMAIN updatesChan, NEW j \in DOMAIN updatesChan,
               updatesChan[i] = updatesChan[j]
        PROVE  i = j
    <3>1. ~(i < j) /\ ~(j < i)
      BY <2>3, <2>4 DEF OrderInv
    <3>. QED BY <2>2, <3>1
  <2>. QED BY <2>4 DEF OrderInv, OnePlace
<1>2. ASSUME LifecycleInv, [Next]_vars, NEW u \in 1..arrived, IsWaiting(u)'
      PROVE  IsWaiting(u)
  <2>1. updatesChan \in Seq(Update) /\ arrived \in Nat
    BY <1>2 DEF LifecycleInv, TypeOK
  <2>2. PICK i \in DOMAIN updatesChan' : updatesChan'[i] = u
    BY <1>2 DEF IsWaiting
  <2>3. CASE updatesChan' = updatesChan
    BY <2>2, <2>3 DEF IsWaiting
  <2>4. CASE updatesChan' = Append(updatesChan, arrived + 1)
    BY <2>1, <2>2, <2>4 DEF IsWaiting
  <2>5. CASE updatesChan # <<>> /\ updatesChan' = Tail(updatesChan)
    <3>1. updatesChan'[i] = updatesChan[i + 1] /\ i + 1 \in DOMAIN updatesChan
      BY <2>1, <2>2, <2>5
    <3>. QED BY <2>2, <3>1 DEF IsWaiting
  <2>6. CASE updatesChan' = <<>>
    BY <2>2, <2>6
  <2>7. \/ updatesChan' = updatesChan \/ updatesChan' = Append(updatesChan, arrived + 1)
        \/ updatesChan # <<>> /\ updatesChan' = Tail(updatesChan)
        \/ updatesChan' = <<>>
    <3>1. CASE Webhook
      BY <2>1, <3>1 DEF Webhook
    <3>2. CASE \E b \in Starts : Take(b)
      BY <3>2 DEF Take
    <3>3. CASE \E b \in Starts, v \in Update : Finish(b, v)
      BY <3>3 DEF Finish
    <3>4. CASE Ends
      BY <3>4 DEF Ends
    <3>5. ASSUME \/ SignalComes \/ Listen \/ Shutdown
                 \/ \E a \in Callers : InLock(a)
                 \/ \E b \in Starts : StartBot(b) \/ Creates(b) \/ Goroutine(b),
                 phase # "exited"
          PROVE  UNCHANGED updatesChan
      BY <3>5, QueueStutters
    <3>6. CASE UNCHANGED vars
      BY <3>6 DEF vars, queue
    <3>7. CASE Next
      BY <3>1, <3>2, <3>3, <3>4, <3>5, <3>7 DEF Next, On, Runs, Exit, Panics
    <3>. QED BY <1>2, <3>6, <3>7
  <2>. QED BY <2>3, <2>4, <2>5, <2>6, <2>7
<1>3. LifecycleInv /\ [Next]_vars => [\A u \in 1..arrived : IsWaiting(u)' => IsWaiting(u)]_vars
  BY <1>2
<1>. QED BY <1>1, <1>3, SpecOrder, PTL DEF Spec, NeverBack
=============================================================================

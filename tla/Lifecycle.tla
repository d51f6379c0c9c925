----------------------------- MODULE Lifecycle -----------------------------
(***************************************************************************)
(* main: the bots that startBot makes one after the other, the queue of    *)
(* updates between the webhook and their handlers, and the shutdown.       *)
(*                                                                         *)
(* startBot runs under botMu, at boot and for each request that sets a     *)
(* token.  The two goroutines it starts do not hold botMu: one starts the  *)
(* handler and one registers the webhook two seconds later, and both read  *)
(* a variable (bh, botCtx) that a later startBot may have assigned.        *)
(*                                                                         *)
(* A bot is named by the call that made it.  Of telego the module assumes: *)
(* Start runs a loop with a goroutine per update and fails if the loop     *)
(* runs; Stop does nothing if the loop does not run, and otherwise waits   *)
(* for it and for the updates it took; a call under a cancelled context    *)
(* fails.  What an update does is in Monitor.                              *)
(***************************************************************************)
EXTENDS Integers, Sequences, FiniteSets

CONSTANTS
  PublicURL,    \* is PUBLIC_URL set?
  Capacity,     \* of updatesChan: 256
  MaxStarts,    \* bound of the model on the calls of startBot
  MaxUpdates    \* bound of the model on the calls of the webhook

ASSUME LifecycleAssumption ==
  /\ PublicURL \in BOOLEAN
  /\ Capacity \in Nat \ {0} /\ MaxStarts \in Nat \ {0} /\ MaxUpdates \in Nat

Starts == 1..MaxStarts      \* the calls of startBot
Signal == 0                 \* the goroutine that waits for a signal
Callers == 0..MaxStarts
Nobody == -1                \* botMu is free
None == 0                   \* bh is nil, nothing read
Update == 1..MaxUpdates

VARIABLES
  phase,       \* "boot", "serving", "closing" (app.Shutdown) or "exited"
  pc,          \* pc[a]: where the caller a of the locked section is
  botMu,       \* its holder
  current,     \* the newest bot: bh, botCtx and the monitor's bot
  live,        \* the bots whose context is not cancelled
  handler,     \* handler[b]: the state of b's handler
  starter,     \* starter[b]: the goroutine that calls bh.Start
  target,      \* target[b]: the handler it read from bh
  hook,        \* hook[b]: the goroutine that calls SetWebhook
  hookCtx,     \* hookCtx[b]: whose context it read from botCtx
  arrived,     \* the number of calls of the webhook
  updatesChan,
  busy,        \* busy[b]: the updates in processing by goroutines of b's handler
  replaced,    \* history variable: the bots that Stop was called for
  stray        \* history variable: those that began to run only then

locked == <<pc, botMu, current, live, replaced>>
goroutines == <<starter, target, hook, hookCtx>>
queue == <<arrived, updatesChan, busy>>
vars == <<phase, locked, handler, stray, goroutines, queue>>

TypeOK ==
  /\ phase \in {"boot", "serving", "closing", "exited"}
  /\ pc \in [Callers -> {"idle", "locking", "locked", "waiting", "ready", "done", "failed"}]
  /\ botMu \in Callers \cup {Nobody}
  /\ current \in Starts \cup {None}
  /\ live \subseteq Starts /\ replaced \subseteq Starts /\ stray \subseteq Starts
  /\ handler \in [Starts -> {"none", "created", "running", "stopping", "stopped"}]
  /\ starter \in [Starts -> {"none", "ready", "calling", "done", "refused"}]
  /\ target \in [Starts -> Starts \cup {None}] /\ hookCtx \in [Starts -> Starts \cup {None}]
  /\ hook \in [Starts -> {"none", "sleeping", "calling", "registered", "refused", "cancelled"}]
  /\ arrived \in 0..MaxUpdates
  /\ updatesChan \in Seq(Update) /\ Len(updatesChan) <= Capacity
  /\ busy \in [Starts -> SUBSET Update]

(* Without a token in the database or the environment main makes no bot at *)
(* boot and listens at once.                                               *)
Init ==
  /\ phase \in {"boot", "serving"}
  /\ pc = [a \in Callers |-> "idle"] /\ botMu = Nobody
  /\ current = None
  /\ live = {} /\ replaced = {} /\ stray = {}
  /\ handler = [b \in Starts |-> "none"]
  /\ starter = [b \in Starts |-> "none"] /\ target = [b \in Starts |-> None]
  /\ hook = [b \in Starts |-> "none"] /\ hookCtx = [b \in Starts |-> None]
  /\ arrived = 0 /\ updatesChan = <<>>
  /\ busy = [b \in Starts |-> {}]
-----------------------------------------------------------------------------
(* The section under botMu: startBot and, as the caller Signal, the end of *)
(* the goroutine that waits for a signal.                                  *)

Returned(a) == pc[a] \in {"done", "failed"}

(* At boot with the token that is configured, later for handleSetBotToken. *)
StartBot(a) ==
  /\ pc[a] = "idle" /\ \A b \in Starts : b < a => pc[b] # "idle"
  /\ phase = "serving" \/ (phase = "boot" /\ a = 1)
  /\ pc' = [pc EXCEPT ![a] = "locking"]
  /\ UNCHANGED <<phase, botMu, current, live, replaced, handler, stray, goroutines, queue>>

Listen ==
  /\ phase = "boot" /\ Returned(1)
  /\ phase' = "serving"
  /\ UNCHANGED <<locked, handler, stray, goroutines, queue>>

SignalComes ==
  /\ phase = "serving" /\ pc[Signal] = "idle"
  /\ pc' = [pc EXCEPT ![Signal] = "locking"]
  /\ UNCHANGED <<phase, botMu, current, live, replaced, handler, stray, goroutines, queue>>

Lock(a) ==
  /\ pc[a] = "locking" /\ botMu = Nobody
  /\ botMu' = a
  /\ pc' = [pc EXCEPT ![a] = "locked"]
  /\ UNCHANGED <<phase, current, live, replaced, handler, stray, goroutines, queue>>

(* bh.Stop() begins; it returns at once if the loop does not run. *)
Stop(a) ==
  LET runs == current # None /\ handler[current] = "running" IN
  /\ pc[a] = "locked"
  /\ pc' = [pc EXCEPT ![a] = IF runs THEN "waiting" ELSE "ready"]
  /\ handler' = IF runs THEN [handler EXCEPT ![current] = "stopping"] ELSE handler
  /\ replaced' = (replaced \cup {current}) \cap Starts
  /\ live' = IF runs THEN live ELSE live \ {current}
  /\ UNCHANGED <<phase, botMu, current, stray, goroutines, queue>>

(* Mutated form: Stop does not wait for the updates in processing. *)
StopAtOnce(a) ==
  /\ pc[a] = "waiting"
  /\ pc' = [pc EXCEPT ![a] = "ready"]
  /\ handler' = [handler EXCEPT ![current] = "stopped"]
  /\ live' = live \ {current}
  /\ UNCHANGED <<phase, botMu, current, replaced, stray, goroutines, queue>>

(* bh.Stop() returns, and botCancel(). *)
StopReturns(a) ==
  /\ pc[a] = "waiting" /\ busy[current] = {}
  /\ pc' = [pc EXCEPT ![a] = "ready"]
  /\ handler' = [handler EXCEPT ![current] = "stopped"]
  /\ live' = live \ {current}
  /\ UNCHANGED <<phase, botMu, current, replaced, stray, goroutines, queue>>

Unlock == botMu' = Nobody

(* Mutated form: the way out with an error keeps botMu. *)
NewBotFailsLocked(a) ==
  /\ pc[a] = "ready"
  /\ pc' = [pc EXCEPT ![a] = "failed"]
  /\ UNCHANGED <<phase, botMu, current, live, replaced, handler, stray, goroutines, queue>>

(* telego.NewBot refuses the token: the old bot stays, stopped. *)
NewBotFails(a) ==
  /\ pc[a] = "ready"
  /\ pc' = [pc EXCEPT ![a] = "failed"] /\ Unlock
  /\ UNCHANGED <<phase, current, live, replaced, handler, stray, goroutines, queue>>

(* Mutated form: the queue belongs to the bot. *)
NewBotNewQueue(a) ==
  /\ pc[a] = "ready"
  /\ pc' = [pc EXCEPT ![a] = "done"] /\ Unlock
  /\ current' = a /\ live' = live \cup {a}
  /\ handler' = [handler EXCEPT ![a] = "created"]
  /\ starter' = [starter EXCEPT ![a] = "ready"]
  /\ hook' = [hook EXCEPT ![a] = IF PublicURL THEN "sleeping" ELSE "none"]
  /\ updatesChan' = <<>>
  /\ UNCHANGED <<phase, replaced, stray, target, hookCtx, arrived, busy>>

(* Mutated form: where a webhook is registered no handler is started. *)
NewBotDeaf(a) ==
  /\ pc[a] = "ready"
  /\ pc' = [pc EXCEPT ![a] = "done"] /\ Unlock
  /\ current' = a /\ live' = live \cup {a}
  /\ handler' = [handler EXCEPT ![a] = "created"]
  /\ starter' = [starter EXCEPT ![a] = IF PublicURL THEN "none" ELSE "ready"]
  /\ hook' = [hook EXCEPT ![a] = IF PublicURL THEN "sleeping" ELSE "none"]
  /\ UNCHANGED <<phase, replaced, stray, target, hookCtx, queue>>

(* Mutated form: the new context is the one that is cancelled. *)
NewBotCancelled(a) ==
  /\ pc[a] = "ready"
  /\ pc' = [pc EXCEPT ![a] = "done"] /\ Unlock
  /\ current' = a /\ UNCHANGED live
  /\ handler' = [handler EXCEPT ![a] = "created"]
  /\ starter' = [starter EXCEPT ![a] = "ready"]
  /\ hook' = [hook EXCEPT ![a] = IF PublicURL THEN "sleeping" ELSE "none"]
  /\ UNCHANGED <<phase, replaced, stray, target, hookCtx, queue>>

(* SetBot, the new context and the new handler on the same queue, and the *)
(* two goroutines.                                                        *)
NewBot(a) ==
  /\ pc[a] = "ready"
  /\ pc' = [pc EXCEPT ![a] = "done"] /\ Unlock
  /\ current' = a /\ live' = live \cup {a}
  /\ handler' = [handler EXCEPT ![a] = "created"]
  /\ starter' = [starter EXCEPT ![a] = "ready"]
  /\ hook' = [hook EXCEPT ![a] = IF PublicURL THEN "sleeping" ELSE "none"]
  /\ UNCHANGED <<phase, replaced, stray, target, hookCtx, queue>>

(* NewBotHandler fails: the bot is the new one, its context is cancelled *)
(* and bh is nil.  (It only does so for an option; none is given.)       *)
NewHandlerFails(a) ==
  /\ pc[a] = "ready"
  /\ pc' = [pc EXCEPT ![a] = "failed"] /\ Unlock
  /\ current' = a
  /\ UNCHANGED <<phase, live, replaced, handler, stray, goroutines, queue>>

(* Listen returns, and with it main. *)
Shutdown ==
  /\ pc[Signal] = "ready"
  /\ pc' = [pc EXCEPT ![Signal] = "done"] /\ Unlock
  /\ phase' = "closing"
  /\ UNCHANGED <<current, live, replaced, handler, stray, goroutines, queue>>

(* The memory of the process is gone, with what was accepted. *)
Ends ==
  /\ phase' = "exited"
  /\ pc' = [a \in Callers |-> "idle"] /\ botMu' = Nobody
  /\ current' = None /\ live' = {} /\ replaced' = {} /\ stray' = {}
  /\ handler' = [b \in Starts |-> "none"]
  /\ starter' = [b \in Starts |-> "none"] /\ target' = [b \in Starts |-> None]
  /\ hook' = [b \in Starts |-> "none"] /\ hookCtx' = [b \in Starts |-> None]
  /\ updatesChan' = <<>> /\ busy' = [b \in Starts |-> {}]
  /\ UNCHANGED arrived

(* main does not wait for requests, handlers or goroutines. *)
Exit == phase = "closing" /\ Ends
-----------------------------------------------------------------------------
(* go func() { bh.Start() }: bh is read when the goroutine runs... *)
ReadHandler(g) ==
  /\ starter[g] = "ready"
  /\ target' = [target EXCEPT ![g] = current]
  /\ starter' = [starter EXCEPT ![g] = "calling"]
  /\ UNCHANGED <<phase, locked, handler, stray, hook, hookCtx, queue>>

(* ...and by then another goroutine may run it, or Stop was called. *)
StartHandler(g) ==
  LET b == target[g] IN
  /\ starter[g] = "calling" /\ handler[b] \notin {"none", "stopping"}
  /\ target' = [target EXCEPT ![g] = None]
  /\ IF handler[b] = "running"
     THEN starter' = [starter EXCEPT ![g] = "refused"] /\ UNCHANGED <<handler, stray>>
     ELSE /\ starter' = [starter EXCEPT ![g] = "done"]
          /\ handler' = [handler EXCEPT ![b] = "running"]
          /\ stray' = stray \cup ({b} \cap replaced)
  /\ UNCHANGED <<phase, locked, hook, hookCtx, queue>>

(* bh was nil by then: nobody recovers from the panic. *)
Panics(g) ==
  /\ starter[g] = "calling" /\ handler[target[g]] = "none"
  /\ Ends

(* After two seconds: the context is that of the newest bot. *)
Wake(b) ==
  /\ hook[b] = "sleeping"
  /\ hookCtx' = [hookCtx EXCEPT ![b] = current]
  /\ hook' = [hook EXCEPT ![b] = "calling"]
  /\ UNCHANGED <<phase, locked, handler, stray, starter, target, queue>>

(* SetWebhook ends, with an entry in each case. *)
SetWebhook(b) ==
  /\ hook[b] = "calling"
  /\ hook' = [hook EXCEPT ![b] = IF hookCtx[b] \in live THEN "registered" ELSE "cancelled"]
  /\ hookCtx' = [hookCtx EXCEPT ![b] = None]
  /\ UNCHANGED <<phase, locked, handler, stray, starter, target, queue>>

SetWebhookFails(b) ==
  /\ hook[b] = "calling"
  /\ hook' = [hook EXCEPT ![b] = "refused"]
  /\ hookCtx' = [hookCtx EXCEPT ![b] = None]
  /\ UNCHANGED <<phase, locked, handler, stray, starter, target, queue>>
-----------------------------------------------------------------------------
(* Mutated form: the queue takes what it has no room for. *)
WebhookAppends ==
  /\ phase \in {"serving", "closing"} /\ arrived < MaxUpdates
  /\ arrived' = arrived + 1
  /\ updatesChan' = Append(updatesChan, arrived')
  /\ UNCHANGED <<phase, locked, handler, stray, goroutines, busy>>

(* The select of the webhook's handler; Telegram is answered 200 in both *)
(* cases and sends the update no more.                                   *)
Webhook ==
  /\ phase \in {"serving", "closing"} /\ arrived < MaxUpdates
  /\ arrived' = arrived + 1
  /\ updatesChan' = IF Len(updatesChan) < Capacity THEN Append(updatesChan, arrived') ELSE updatesChan
  /\ UNCHANGED <<phase, locked, handler, stray, goroutines, busy>>

(* The loop of a handler; told to stop it may still take an update. *)
Take(b) ==
  /\ handler[b] \in {"running", "stopping"} /\ updatesChan # <<>>
  /\ updatesChan' = Tail(updatesChan)
  /\ busy' = [busy EXCEPT ![b] = @ \cup {Head(updatesChan)}]
  /\ UNCHANGED <<phase, locked, handler, stray, goroutines, arrived>>

(* monitor.ProcessUpdate returns. *)
Finish(b, u) ==
  /\ u \in busy[b]
  /\ busy' = [busy EXCEPT ![b] = @ \ {u}]
  /\ UNCHANGED <<phase, locked, handler, stray, goroutines, arrived, updatesChan>>
-----------------------------------------------------------------------------
InLock(a) == Lock(a) \/ Stop(a) \/ StopReturns(a)

Creates(a) == NewBot(a) \/ NewBotFails(a) \/ NewHandlerFails(a)

Goroutine(b) ==
  \/ ReadHandler(b) \/ StartHandler(b) \/ Wake(b) \/ SetWebhook(b) \/ SetWebhookFails(b)

On(A) == phase # "exited" /\ A

Runs ==
  \/ Listen \/ SignalComes \/ Shutdown \/ Exit \/ Webhook
  \/ \E a \in Callers : InLock(a)
  \/ \E b \in Starts :
       \/ StartBot(b) \/ Creates(b) \/ Goroutine(b) \/ Panics(b) \/ Take(b)
       \/ \E u \in Update : Finish(b, u)

Next == On(Runs)

Spec == Init /\ [][Next]_vars

(* What the holder of botMu does next; who has created a bot is done. *)
Holder(a) == Stop(a) \/ StopReturns(a) \/ (a # Signal /\ Creates(a)) \/ (a = Signal /\ Shutdown)

(***************************************************************************)
(* Goroutines go on, updates are processed in bounded time (Monitor) and   *)
(* the calls of Telegram's API end.  No signal, request or update need     *)
(* ever come; whoever waits for botMu gets it when nobody else wants it.   *)
(***************************************************************************)
FairSpec ==
  /\ Spec
  /\ WF_vars(On(Listen)) /\ WF_vars(On(Exit))
  /\ \A a \in Callers : WF_vars(On(Lock(a))) /\ WF_vars(On(Holder(a)))
  /\ \A b \in Starts :
       /\ WF_vars(On(ReadHandler(b) \/ StartHandler(b) \/ Panics(b)))
       /\ WF_vars(On(Wake(b) \/ SetWebhook(b) \/ SetWebhookFails(b)))
  /\ WF_vars(On(\E b \in Starts : Take(b)))
  /\ \A u \in Update : WF_vars(On(\E b \in Starts : Finish(b, u)))
-----------------------------------------------------------------------------
(***************************************************************************)
(* Whatever bots come and go, the queue between the webhook and their      *)
(* handlers is an UpdateQueue: nothing that was accepted is lost, taken    *)
(* twice or taken out of order.                                            *)
(***************************************************************************)
Queue == INSTANCE UpdateQueue WITH
  waiting <- updatesChan,
  work <- UNION {busy[b] : b \in Starts},
  up <- phase # "exited"

ImplementsQueue == Queue!Spec

(***************************************************************************)
(* startBot replaces the monitor's bot only when no update is in           *)
(* processing, so that the calls to Telegram which the goroutine of an     *)
(* update makes are made by one bot; those it leaves to goroutines of      *)
(* their own (bot.go:153, 221, 270) are made by whichever bot is there     *)
(* then.  The exception are the handlers that began to run after Stop had  *)
(* been called for them, which nobody stops any more.                      *)
(***************************************************************************)
QuietSwap == [][current' \notin {current, None} => \A b \in Starts : busy[b] # {} => b \in stray]_vars

(* Stop was called for the newest bot, it got no handler, or there is no *)
(* bot: before the first token, during a startBot, and after one that    *)
(* failed.                                                               *)
BotStopped == current = None \/ current \in replaced \/ handler[current] = "none"

IsWaiting(u) == \E i \in DOMAIN updatesChan : updatesChan[i] = u

(***************************************************************************)
(* An accepted update is taken, though handlers replace each other and two *)
(* goroutines may start the same one, unless the newest bot was stopped    *)
(* with no other in its place, or the process ends.                        *)
(***************************************************************************)
AcceptedTaken ==
  \A u \in Update : IsWaiting(u) ~> (~IsWaiting(u) \/ BotStopped \/ phase = "exited")

(***************************************************************************)
(* startBot returns though it holds botMu while Stop waits for updates,    *)
(* and a signal ends the process, whatever token was refused before.       *)
(***************************************************************************)
CallsReturn ==
  /\ \A a \in Starts : pc[a] = "locking" ~> (Returned(a) \/ phase = "exited")
  /\ pc[Signal] = "locking" ~> phase = "exited"

(***************************************************************************)
(* The newest bot registers its webhook or Telegram refuses it: its call   *)
(* is not cancelled unless a later startBot, or the shutdown, has come.    *)
(***************************************************************************)
HookSettles ==
  \A b \in Starts :
    (hook[b] = "sleeping")
      ~> (hook[b] \in {"registered", "refused"} \/ b \in replaced \/ phase = "exited")
=============================================================================

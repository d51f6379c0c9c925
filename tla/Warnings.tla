------------------------------ MODULE Warnings ------------------------------
(***************************************************************************)
(* internal/bot and internal/ai: the goroutines that assess newcomers and  *)
(* those that warn a group of spammers and floods, and what is left in the *)
(* group by calls that fail, by changes of the settings and of the bot and *)
(* by restarts.  A call that has failed for its timeout may yet be obeyed. *)
(*                                                                         *)
(* Which newcomers are assessed and when a flood begins is the matter of   *)
(* Flood; here a goroutine may start at any time, and only once: what is   *)
(* announced or noticed again after a restart has a goroutine of its own.  *)
(***************************************************************************)
EXTENDS Naturals, FiniteSets

CONSTANTS
  Assessments,   \* goroutines of assessUserSpam, one for each newcomer
  Floods,        \* goroutines of sendFloodWarning, one for each flood
  Bots,          \* the Telegram bots the administrator has tokens of
  NoBot,         \* m.bot is nil
  MaxRetries,    \* maxRetries
  MaxRequests,   \* bounds of the model: requests of handleSetWarnInGroup at once
  MaxDrops       \* and entries the broker drops

ASSUME WarningsAssumption ==
  /\ Assessments \cap Floods = {}
  /\ NoBot \notin Bots
  /\ MaxRetries \in Nat \ {0} /\ MaxRequests \in Nat /\ MaxDrops \in Nat

VARIABLES
  stored,       \* column warn_in_group
  unset,        \* unset[on]: the requests that have stored on and not set the atomic yet
  warnInGroup,  \* the atomic of that name
  bot,          \* m.bot
  pc,           \* pc[t]: where goroutine t is
  attempt,      \* attempt[a]: the attempt of AssessUser
  by,           \* by[t]: the bot goroutine t has loaded
  flying,       \* the messages Telegram has been asked to post and may post yet
  group,        \* the warnings that can be read in the group, Telegram's view
  log,          \* the entries handed to the broker: which goroutine, which category
  drops,        \* how many of them the broker dropped
  loose,        \* history variable: have requests overlapped since the row was
                \* stored by one alone?
  cleared,      \* history variable: goroutines that had been allowed to warn
                \* when the atomic was last turned off
  lost          \* history variable: goroutines kept from deleting their warning

switch == <<stored, unset, warnInGroup, loose, cleared>>
settings == <<switch, bot>>
telegram == <<flying, group>>
entries == <<log, drops>>
vars == <<settings, pc, attempt, by, telegram, entries, lost>>

Tasks == Assessments \cup Floods

Message(t) == [of |-> t, author |-> by[t]]
Entry(t, category) == [of |-> t, category |-> category]

HasWarning(t) == \E msg \in group : msg.of = t

(* Kept by the broker or dropped *)
Published(t, category) == Entry(t, category) \in log
Reported(a) ==
  \E c \in {"AI_ASSESS", "SPAM_CONFIRMED", "SPAM_HIGH_RISK"} : Published(a, c)

categories == {"AI_ASSESS", "SPAM_CONFIRMED", "SPAM_HIGH_RISK",
               "WARNING_SENT", "WARNING_FAILED"}
pcs == {"idle", "ask", "allow", "load", "send", "wait", "delete", "done", "killed"}

TypeOK ==
  /\ stored \in BOOLEAN /\ warnInGroup \in BOOLEAN /\ loose \in BOOLEAN
  /\ unset \in [BOOLEAN -> Nat]
  /\ bot \in Bots \cup {NoBot}
  /\ pc \in [Tasks -> pcs]
  /\ attempt \in [Assessments -> 0 .. MaxRetries - 1]
  /\ by \in [Tasks -> Bots \cup {NoBot}]
  /\ flying \subseteq [of : Tasks, author : Bots]
  /\ group \subseteq [of : Tasks, author : Bots]
  /\ log \subseteq [of : Tasks, category : categories]
  /\ drops \in 0..MaxDrops
  /\ cleared \subseteq Tasks /\ lost \subseteq Tasks
  /\ \A t \in Tasks : pc[t] \in {"send", "wait", "delete"} => by[t] # NoBot

Init ==
  /\ stored \in BOOLEAN /\ warnInGroup = stored
  /\ unset = [on \in BOOLEAN |-> 0] /\ loose = FALSE
  /\ bot \in Bots \cup {NoBot}
  /\ pc = [t \in Tasks |-> "idle"]
  /\ attempt = [a \in Assessments |-> 0]
  /\ by = [t \in Tasks |-> NoBot]
  /\ flying = {} /\ group = {}
  /\ log = {} /\ drops = 0 /\ cleared = {} /\ lost = {}

Goto(t, next) == pc' = [pc EXCEPT ![t] = next]

(* The local variables go with the call. *)
Assessed(a, next) == Goto(a, next) /\ attempt' = [attempt EXCEPT ![a] = 0]
Return(t) == Goto(t, "done") /\ by' = [by EXCEPT ![t] = NoBot]

(* Broker.Publish drops the entry when the channel is full (see LogStream). *)
Publish(t, category) ==
  /\ log' = log \cup {Entry(t, category)}
  /\ \/ UNCHANGED drops
     \/ drops < MaxDrops /\ drops' = drops + 1
-----------------------------------------------------------------------------
(* assessUserSpam and AssessUser *)

(* go assessUserSpam; at that time the configuration of the AI may be *)
(* complete or not, and cannot be read if the database fails.         *)
Assess(a) ==
  /\ pc[a] = "idle"
  /\ \E configured \in BOOLEAN : Goto(a, IF configured THEN "ask" ELSE "done")
  /\ UNCHANGED <<settings, attempt, by, telegram, entries, lost>>

(* Status 429, and the second until the next attempt *)
TryAgain(a) ==
  /\ pc[a] = "ask" /\ attempt[a] < MaxRetries - 1
  /\ attempt' = [attempt EXCEPT ![a] = @ + 1]
  /\ UNCHANGED <<settings, pc, by, telegram, entries, lost>>

(* Mutated form of AssessFails: the error is returned without an entry. *)
AssessFailsSilently(a) ==
  /\ pc[a] = "ask"
  /\ Assessed(a, "done")
  /\ UNCHANGED <<settings, by, telegram, entries, lost>>

(* A timeout, another status than 200, a 429 to the last attempt, or an *)
(* answer without a choice                                              *)
AssessFails(a) ==
  /\ pc[a] = "ask"
  /\ Assessed(a, "done")
  /\ Publish(a, "AI_ASSESS")
  /\ UNCHANGED <<settings, by, telegram, lost>>

(* RiskLevel: the format the prompt asks for has the levels "low", "medium", *)
(* "high" and "confirmed" (ai.go:126), its criteria call the third one "high *)
(* risk", and an answer that is no JSON becomes "unknown".                   *)
RiskLevels == {"low", "medium", "high", "high risk", "confirmed", "unknown"}

Category(risk) ==
  CASE risk = "confirmed" -> "SPAM_CONFIRMED"
    [] risk = "high risk" -> "SPAM_HIGH_RISK"
    [] OTHER -> "AI_ASSESS"

Verdict(a, risk) ==
  /\ pc[a] = "ask"
  /\ Publish(a, Category(risk))
  /\ Assessed(a, IF risk \in {"confirmed", "high risk"} THEN "allow" ELSE "done")
  /\ UNCHANGED <<settings, by, telegram, lost>>
-----------------------------------------------------------------------------
(* sendSpamWarning and sendFloodWarning *)

(* go sendFloodWarning, at the end of recordJoin *)
FloodBegins(f) ==
  /\ pc[f] = "idle"
  /\ Goto(f, "allow")
  /\ UNCHANGED <<settings, attempt, by, telegram, entries, lost>>

Allow(t) ==
  /\ pc[t] = "allow"
  /\ Goto(t, IF warnInGroup THEN "load" ELSE "done")
  /\ UNCHANGED <<settings, attempt, by, telegram, entries, lost>>

(* b.SendMessage leaves for Telegram... *)
Load(t) ==
  /\ pc[t] = "load"
  /\ by' = [by EXCEPT ![t] = bot]
  /\ Goto(t, IF bot = NoBot THEN "done" ELSE "send")
  /\ flying' = IF bot = NoBot THEN flying ELSE flying \cup {[of |-> t, author |-> bot]}
  /\ UNCHANGED <<settings, attempt, group, entries, lost>>

(* ...which may post it at any time, though nobody waits for the answer. *)
Post(msg) ==
  /\ flying' = flying \ {msg}
  /\ group' = group \cup {msg}
  /\ lost' = IF pc[msg.of] = "send" THEN lost ELSE lost \cup {msg.of}
  /\ UNCHANGED <<settings, pc, attempt, by, entries>>

(* SendMessage has returned, and scheduleDeleteMessage goes to sleep. *)
Sent(t) ==
  /\ pc[t] = "send" /\ Message(t) \in group
  /\ Goto(t, "wait")
  /\ Publish(t, "WARNING_SENT")
  /\ UNCHANGED <<settings, attempt, by, telegram, lost>>

(* Mutated form of SendFails: the error is returned without an entry. *)
SendFailsSilently(t) ==
  /\ pc[t] = "send"
  /\ Return(t)
  /\ flying' \in {flying, flying \ {Message(t)}}
  /\ lost' = IF HasWarning(t) THEN lost \cup {t} ELSE lost
  /\ UNCHANGED <<settings, attempt, group, entries>>

(* SendMessage returns an error: Telegram refused, or the ten seconds were *)
(* over before its answer came, and the message may be posted yet.         *)
SendFails(t) ==
  /\ pc[t] = "send"
  /\ Return(t)
  /\ Publish(t, "WARNING_FAILED")
  /\ flying' \in {flying, flying \ {Message(t)}}
  /\ lost' = IF HasWarning(t) THEN lost \cup {t} ELSE lost
  /\ UNCHANGED <<settings, attempt, group>>
-----------------------------------------------------------------------------
(* scheduleDeleteMessage *)

(* Mutated form of Wake: no deletion when warnings have been turned off. *)
WakeIfOn(t) ==
  /\ pc[t] = "wait"
  /\ by' = [by EXCEPT ![t] = bot]
  /\ Goto(t, IF bot = NoBot \/ ~warnInGroup THEN "done" ELSE "delete")
  /\ UNCHANGED <<settings, attempt, telegram, entries, lost>>

(* The 120 seconds are over. *)
Wake(t) ==
  /\ pc[t] = "wait"
  /\ by' = [by EXCEPT ![t] = bot]
  /\ Goto(t, IF bot = NoBot THEN "done" ELSE "delete")
  /\ UNCHANGED <<settings, attempt, telegram, entries, lost>>

(* A bot that is an ordinary member of the group may delete messages of *)
(* its own.  An error is ignored.                                       *)
Delete(t) ==
  /\ pc[t] = "delete"
  /\ Return(t)
  /\ \/ /\ group' = group \ {Message(t)}
        /\ lost' = IF Message(t) \in group THEN lost ELSE lost \cup {t}
     \/ /\ lost' = lost \cup {t}
        /\ UNCHANGED group
  /\ UNCHANGED <<settings, attempt, flying, entries>>
-----------------------------------------------------------------------------
(* The administrator, and the life of the process *)

Pending == unset[TRUE] + unset[FALSE]

(* handleSetWarnInGroup stores the row (or fails, and nothing happens)... *)
StoreWarnInGroup(on) ==
  /\ Pending < MaxRequests
  /\ stored' = on /\ unset' = [unset EXCEPT ![on] = @ + 1]
  /\ loose' = (Pending # 0)
  /\ UNCHANGED <<warnInGroup, cleared, bot, pc, attempt, by, telegram, entries, lost>>

(* Mutated form of SetWarnInGroup: the atomic is only ever turned on. *)
SetWarnInGroupOn(on) ==
  /\ unset[on] > 0
  /\ warnInGroup' = (warnInGroup \/ on) /\ unset' = [unset EXCEPT ![on] = @ - 1]
  /\ cleared' = IF on THEN {} ELSE {t \in Tasks : pc[t] = "load"}
  /\ UNCHANGED <<stored, loose, bot, pc, attempt, by, telegram, entries, lost>>

(* ...and sets the atomic; of two requests either may do so first. *)
SetWarnInGroup(on) ==
  /\ unset[on] > 0
  /\ warnInGroup' = on /\ unset' = [unset EXCEPT ![on] = @ - 1]
  /\ cleared' = IF on THEN {} ELSE {t \in Tasks : pc[t] = "load"}
  /\ UNCHANGED <<stored, loose, bot, pc, attempt, by, telegram, entries, lost>>

(* startBot: with a malformed token the bot before stays (see Settings). *)
SetBotToken(b) ==
  /\ bot' = b
  /\ UNCHANGED <<switch, pc, attempt, by, telegram, entries, lost>>

Active(t) == pc[t] \notin {"idle", "done"}

(* The process ends, and main starts it again with a bot if the token is *)
(* there, can be read and is good; GetWarnInGroup may fail, which counts  *)
(* as off.                                                                *)
Restart ==
  /\ pc' = [t \in Tasks |-> IF Active(t) THEN "killed" ELSE pc[t]]
  /\ lost' = lost \cup {t \in Tasks : Active(t) /\ HasWarning(t)}
  /\ attempt' = [a \in Assessments |-> 0] /\ by' = [t \in Tasks |-> NoBot]
  /\ unset' = [on \in BOOLEAN |-> 0] /\ loose' = FALSE
  /\ \E readable \in BOOLEAN : warnInGroup' = (stored /\ readable)
  /\ bot' \in Bots \cup {NoBot}
  /\ UNCHANGED <<stored, cleared, telegram, entries>>
-----------------------------------------------------------------------------
(* What goroutine t does without waiting for anybody but those that have *)
(* a time limit                                                          *)
Goes(t) ==
  \/ Allow(t) \/ Load(t) \/ Sent(t) \/ SendFails(t) \/ Wake(t) \/ Delete(t)
  \/ /\ t \in Assessments
     /\ TryAgain(t) \/ AssessFails(t) \/ \E risk \in RiskLevels : Verdict(t, risk)

Next ==
  \/ \E a \in Assessments : Assess(a)
  \/ \E f \in Floods : FloodBegins(f)
  \/ \E t \in Tasks : Goes(t)
  \/ \E msg \in flying : Post(msg)
  \/ \E on \in BOOLEAN : StoreWarnInGroup(on) \/ SetWarnInGroup(on)
  \/ \E b \in Bots : SetBotToken(b)
  \/ Restart

Spec == Init /\ [][Next]_vars

(* The goroutines go on: every call has a timeout, and AssessUser one for *)
(* all attempts together.                                                 *)
FairSpec == Spec /\ \A t \in Tasks : WF_vars(Goes(t))
-----------------------------------------------------------------------------
(***************************************************************************)
(* Whoever is warned of as a spammer has been published as one, and every  *)
(* warning one can read in the group has been, as sent or as failed, as    *)
(* soon as the call is over, though Telegram may post it after the call    *)
(* failed; unless the process ended during the call (assessUserSpam,       *)
(* sendSpamWarning, sendFloodWarning).  What is published the broker keeps *)
(* or drops.                                                               *)
(***************************************************************************)
Accounted ==
  /\ \A a \in Assessments :
       HasWarning(a) => Published(a, "SPAM_CONFIRMED") \/ Published(a, "SPAM_HIGH_RISK")
  /\ \A t \in Tasks :
       HasWarning(t) => \/ pc[t] \in {"send", "killed"}
                        \/ Published(t, "WARNING_SENT") \/ Published(t, "WARNING_FAILED")

(* Warnings are off, and no request is at work or has crossed another's way. *)
Off == ~stored /\ Pending = 0 /\ ~loose

(***************************************************************************)
(* Once a request of the administrator has turned warnings off, Telegram   *)
(* is asked to post one only by a goroutine that had been allowed to       *)
(* before the request set the atomic, however long the AI takes and also   *)
(* after a restart (handleSetWarnInGroup, assessUserSpam, main).  Requests *)
(* that overlapped may leave row and atomic different (see Settings) until *)
(* the next one.                                                           *)
(***************************************************************************)
OffIsOff ==
  [][\A t \in Tasks : pc[t] = "load" /\ pc'[t] = "send" /\ Off => t \in cleared]_vars

(* A newcomer whose assessment has begun is reported, whatever the AI       *)
(* answers and whichever settings change, unless the process ends before    *)
(* (assessUserSpam publishes on every way out).  The broker may drop it.    *)
AssessmentReported ==
  \A a \in Assessments : pc[a] = "ask" ~> (Reported(a) \/ pc[a] = "killed")

(* A warning leaves the group again, even if warnings have been turned off *)
(* meanwhile, except when SendMessage or DeleteMessage failed, another bot *)
(* was to delete it or the process ended before (scheduleDeleteMessage).   *)
WarningsEnd ==
  \A t \in Tasks : HasWarning(t) ~> (~HasWarning(t) \/ t \in lost)
=============================================================================

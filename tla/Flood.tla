------------------------------- MODULE Flood -------------------------------
(***************************************************************************)
(* Flood detection in internal/bot: what markNewUser does about a flood    *)
(* with a user TryMarkNew has found to be new, and the goroutine           *)
(* startFloodCleanup.  Several updates are processed at once; floodMu      *)
(* protects each of recordJoin, isFloodActive and a round of the cleanup,  *)
(* and nothing protects the gaps between them.                             *)
(*                                                                         *)
(* A time is modelled by how long ago it was, up to LongAgo.  Of the       *)
(* tracker the module keeps which users it knows: a user is forgotten long *)
(* after the minutes that matter here (24 hours, see Tracker).             *)
(***************************************************************************)
EXTENDS Integers, FiniteSets

CONSTANTS
  Users,
  Chats,
  Minute,      \* the window and the quiet that ends a flood
  Threshold    \* newcomers that make a flood (3 in the code)

ASSUME FloodAssumption ==
  /\ Minute \in Nat \ {0}
  /\ Threshold \in Nat \ {0}

VARIABLES
  joins,      \* joins[ch][u]: age of the time floodJoins[ch] holds for u, or LongAgo
  active,     \* floodActive
  lastJoin,   \* lastJoin[ch]: age of floodLastJoin[ch], or Absent
  pc,         \* pc[u]: where markNewUser is with u
  chat,       \* chat[u]: the group in which u became known
  verdict,    \* verdict[u]: what markNewUser did with u
  since,      \* history variable: since[ch][u], time since recordJoin of u in ch
  inFlood     \* history variable: flood mode was on when u was recorded

memory == <<joins, active, lastJoin>>
vars == <<memory, pc, chat, verdict, since, inFlood>>

LongAgo == Minute + 1
Age == 0..LongAgo
Absent == -1

Never == [ch \in Chats |-> [u \in Users |-> LongAgo]]

(* The three maps have the same keys: they are deleted together. *)
SameKeys ==
  \A ch \in Chats : lastJoin[ch] = Absent => ~active[ch] /\ joins[ch] = Never[ch]

Types ==
  /\ joins \in [Chats -> [Users -> Age]]
  /\ active \in [Chats -> BOOLEAN]
  /\ lastJoin \in [Chats -> Age \cup {Absent}]
  /\ pc \in [Users -> {"unknown", "marked", "recorded", "known"}]
  /\ chat \in [Users -> Chats]
  /\ verdict \in [Users -> {"none", "spam", "assess"}]
  /\ since \in [Chats -> [Users -> Age]]
  /\ inFlood \in [Users -> BOOLEAN]

TypeOK == Types /\ SameKeys

Init ==
  /\ joins = Never
  /\ active = [ch \in Chats |-> FALSE]
  /\ lastJoin = [ch \in Chats |-> Absent]
  /\ pc = [u \in Users |-> "unknown"]
  /\ chat \in [Users -> Chats]
  /\ verdict = [u \in Users |-> "none"]
  /\ since = Never
  /\ inFlood = [u \in Users |-> FALSE]

Older(age) == IF age \in 0..Minute THEN age + 1 ELSE age

Tick ==
  /\ joins' = [ch \in Chats |-> [u \in Users |-> Older(joins[ch][u])]]
  /\ lastJoin' = [ch \in Chats |-> Older(lastJoin[ch])]
  /\ since' = [ch \in Chats |-> [u \in Users |-> Older(since[ch][u])]]
  /\ UNCHANGED <<active, pc, chat, verdict, inFlood>>
-----------------------------------------------------------------------------
(* u joins ch and TryMarkNew, which does not know him, returns true. *)
Arrive(u, ch) ==
  /\ pc[u] = "unknown"
  /\ pc' = [pc EXCEPT ![u] = "marked"]
  /\ chat' = [chat EXCEPT ![u] = ch]
  /\ UNCHANGED <<memory, verdict, since, inFlood>>

(* t.After(now.Add(-1 * time.Minute)); the mutated form includes the end. *)
InClosedWindow(age) == age <= Minute

InWindow(age) == age < Minute

(* Mutated form of RecordJoin: the last join is that of the alert. *)
RecordJoinOnce(u) ==
  LET ch == chat[u]
      recent == {v \in Users : v = u \/ InWindow(joins[ch][v])}
      flood == active[ch] \/ Cardinality(recent) >= Threshold
  IN
  /\ pc[u] = "marked"
  /\ joins' = [joins EXCEPT ![ch][u] = 0]
  /\ lastJoin' = [lastJoin EXCEPT ![ch] = IF active[ch] THEN @ ELSE 0]
  /\ active' = [active EXCEPT ![ch] = flood]
  /\ pc' = [pc EXCEPT ![u] = "recorded"]
  /\ since' = [since EXCEPT ![ch][u] = 0]
  /\ inFlood' = [inFlood EXCEPT ![u] = flood]
  /\ UNCHANGED <<chat, verdict>>

(* recordJoin(chat[u]) under floodMu. *)
RecordJoin(u) ==
  LET ch == chat[u]
      recent == {v \in Users : v = u \/ InWindow(joins[ch][v])}
      flood == active[ch] \/ Cardinality(recent) >= Threshold
  IN
  /\ pc[u] = "marked"
  /\ joins' = [joins EXCEPT ![ch] = [v \in Users |->
                 IF v = u THEN 0 ELSE IF v \in recent THEN joins[ch][v] ELSE LongAgo]]
  /\ lastJoin' = [lastJoin EXCEPT ![ch] = 0]
  /\ active' = [active EXCEPT ![ch] = flood]
  /\ pc' = [pc EXCEPT ![u] = "recorded"]
  /\ since' = [since EXCEPT ![ch][u] = 0]
  /\ inFlood' = [inFlood EXCEPT ![u] = flood]
  /\ UNCHANGED <<chat, verdict>>

(* NEW_USER is published, then isFloodActive decides: SPAM_CONFIRMED or the AI. *)
CheckFlood(u) ==
  /\ pc[u] = "recorded"
  /\ verdict' = [verdict EXCEPT ![u] = IF active[chat[u]] THEN "spam" ELSE "assess"]
  /\ pc' = [pc EXCEPT ![u] = "known"]
  /\ UNCHANGED <<memory, chat, since, inFlood>>

(* now.Sub(lastJoin) > 1*time.Minute; in the mutated form only the chats   *)
(* without a flood are looked at.                                          *)
OverIfCalm == {ch \in Chats : ~active[ch] /\ lastJoin[ch] > Minute}

Over == {ch \in Chats : lastJoin[ch] > Minute}

(* Mutated form of Cleanup: floodActive keeps its entries. *)
CleanupForgets ==
  /\ Over # {}
  /\ joins' = [ch \in Chats |-> IF ch \in Over THEN [u \in Users |-> LongAgo] ELSE joins[ch]]
  /\ lastJoin' = [ch \in Chats |-> IF ch \in Over THEN Absent ELSE lastJoin[ch]]
  /\ UNCHANGED <<active, pc, chat, verdict, since, inFlood>>

(* A round of startFloodCleanup that finds something to do. *)
Cleanup ==
  /\ Over # {}
  /\ joins' = [ch \in Chats |-> IF ch \in Over THEN [u \in Users |-> LongAgo] ELSE joins[ch]]
  /\ active' = [ch \in Chats |-> active[ch] /\ ch \notin Over]
  /\ lastJoin' = [ch \in Chats |-> IF ch \in Over THEN Absent ELSE lastJoin[ch]]
  /\ UNCHANGED <<pc, chat, verdict, since, inFlood>>

(* The day of u is over and the tracker forgets him. *)
Forget(u) ==
  /\ pc[u] = "known"
  /\ \A ch \in Chats : since[ch][u] > Minute
  /\ pc' = [pc EXCEPT ![u] = "unknown"]
  /\ verdict' = [verdict EXCEPT ![u] = "none"]
  /\ UNCHANGED <<memory, chat, since, inFlood>>

(* The process restarts: the tracker knows those it could write. *)
Restart ==
  /\ joins' = Never
  /\ active' = [ch \in Chats |-> FALSE]
  /\ lastJoin' = [ch \in Chats |-> Absent]
  /\ \E lost \in SUBSET Users :
       pc' = [u \in Users |-> IF pc[u] = "unknown" \/ u \in lost THEN "unknown" ELSE "known"]
  /\ verdict' = [u \in Users |-> "none"]
  /\ since' = Never
  /\ inFlood' = [u \in Users |-> FALSE]
  /\ UNCHANGED chat
-----------------------------------------------------------------------------
Next ==
  \/ Tick \/ Cleanup \/ Restart
  \/ \E u \in Users :
       \/ \E ch \in Chats : Arrive(u, ch)
       \/ RecordJoin(u) \/ CheckFlood(u) \/ Forget(u)

Spec == Init /\ [][Next]_vars

(* The ticker of the cleanup goes on. *)
FairSpec == Spec /\ WF_vars(Cleanup)
-----------------------------------------------------------------------------
(* Flood mode begins and ends when FloodAlarm says. *)
Alarm == INSTANCE FloodAlarm WITH
  mode <- [ch \in Chats |-> IF active[ch] THEN "flood" ELSE "calm"]

ImplementsAlarm == Alarm!Spec

(* Flood mode never stays on in a chat that is quiet for ever. *)
ImplementsFairAlarm == Alarm!FairSpec

(***************************************************************************)
(* Although the lock is released between recordJoin and isFloodActive, a   *)
(* newcomer who was part of a flood when he was recorded is not sent to    *)
(* the AI, unless his goroutine took more than a minute in between.        *)
(***************************************************************************)
NoneAssessedInFlood ==
  [][\A u \in Users :
       (verdict[u] = "none" /\ verdict'[u] = "assess")
         => ~(inFlood[u] /\ since[chat[u]][u] <= Minute)]_vars

=============================================================================

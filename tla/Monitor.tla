------------------------------- MODULE Monitor -------------------------------
(***************************************************************************)
(* internal/bot: what becomes of the updates Telegram sends.  Every update *)
(* is processed by a goroutine of its own (telegohandler), so that updates *)
(* overtake each other wherever one waits for Telegram or the database:    *)
(* fetchUserBio before a user is marked, countMutualGroups before a        *)
(* message is classified.                                                  *)
(*                                                                         *)
(* The module is about less than 24 hours of one process: the tracker (see *)
(* Tracker) forgets nobody.  Whether a flood is on (see Flood) is a choice *)
(* here, and the assessment by the AI (see Warnings) is left out, and so   *)
(* is a failing read of the verification bots, which decide only a tag.    *)
(***************************************************************************)
EXTENDS Integers, Sequences, FiniteSets

CONSTANTS
  People,
  Bots,
  VerifyBots,     \* the verification bots among them
  NoOne,          \* the author of a message that has none
  Chats,
  MaxUpdates,     \* bounds of the model on the number of updates
  MaxDrops        \* and of entries the broker drops

ASSUME MonitorAssumption ==
  /\ VerifyBots \subseteq Bots /\ People \cap Bots = {} /\ NoOne \notin People \cup Bots
  /\ MaxUpdates \in Nat /\ MaxDrops \in Nat

VARIABLES
  members,     \* members[ch]: the people who are in group ch, Telegram's view
  monitored,   \* table monitored_groups
  enabled,     \* botEnabled
  known,       \* the users t.users of the tracker holds
  updates,     \* updates[n]: the n-th update delivered and how far it is processed
  log,         \* the entries handed to the broker, in the order of the calls
  drops,       \* how many of them the broker dropped
  loaded,      \* history variable: the users loaded when the process started
  late         \* history variable: updates a change of the settings came too late for

settings == <<monitored, enabled, loaded, late>>
vars == <<members, known, updates, log, drops, settings>>

Arrived == Len(updates)

(***************************************************************************)
(* telego.Message: joined is NewChatMembers, left LeftChatMember.  What a  *)
(* message says and quotes is left out.  History: byMember says whether    *)
(* its author was in the group with what it tells of done, and sent how    *)
(* many updates had been delivered by then.                                *)
(***************************************************************************)
Message(ch, from, joined, left) ==
  [kind |-> "message", chat |-> ch, from |-> from, joined |-> joined, left |-> left,
   byMember |-> from \in members'[ch], sent |-> Arrived]

(* telego.ChatMemberUpdated *)
MemberUpdate(ch, actor, target, status) ==
  [kind |-> "member", chat |-> ch, from |-> actor, target |-> target, status |-> status]

(* telego.CallbackQuery for a button below a message of bot *)
Button(ch, from, bot) == [kind |-> "button", chat |-> ch, from |-> from, bot |-> bot]

Entry(n, category, user, new, tags) ==
  [update |-> n, category |-> category, user |-> user, new |-> new, tags |-> tags]

(* Kept by the broker or dropped *)
Published == {log[i] : i \in DOMAIN log}

pcs == {"start", "route", "members", "announce", "flood", "joined", "author", "count", "classify",
        "mark", "report", "button", "done"}

TypeOK ==
  /\ members \in [Chats -> SUBSET People]
  /\ monitored \subseteq Chats /\ enabled \in BOOLEAN
  /\ known \subseteq People
  /\ Arrived <= MaxUpdates
  /\ \A n \in 1..Arrived :
       /\ updates[n].pc \in pcs
       /\ updates[n].who \in People \cup {NoOne}
       /\ updates[n].new \in BOOLEAN /\ updates[n].failed \in BOOLEAN
       /\ updates[n].ask \subseteq Chats /\ updates[n].mutual \in Nat
       /\ updates[n].due => updates[n].upd.from \in known
       /\ updates[n].pc \in {"announce", "flood", "joined"} => updates[n].who \in known
  /\ \A e \in Published : e.update \in 1..Arrived /\ (e.new => e.user \in known)
  /\ drops \in 0..MaxDrops
  /\ loaded \subseteq known
  /\ late \subseteq 1..Arrived

(* tracker.New has loaded those who joined within 24 hours. *)
Init ==
  /\ members \in [Chats -> SUBSET People]
  /\ monitored \in SUBSET Chats /\ enabled \in BOOLEAN
  /\ known \in SUBSET People
  /\ updates = <<>> /\ log = <<>> /\ drops = 0
  /\ loaded = known /\ late = {}
-----------------------------------------------------------------------------
(* What happens in the groups, and the updates Telegram sends about it. *)

Announced(u) == \E e \in Published : e.category = "NEW_USER" /\ e.user = u

(* who, new, todo, ask and mutual are the local variables of its goroutine, *)
(* ask and mutual those of countMutualGroups.  History, as it was when the  *)
(* goroutine asked for the groups: followed says whether its group was      *)
(* monitored, due whether its author was tracked or announced as well,      *)
(* unread whether the group was missed for a failed read; gone whether its  *)
(* group was monitored no longer when those in common were counted, failed  *)
(* whether a read or a call failed there.                                   *)
Waiting(upd) ==
  [upd |-> upd, pc |-> "start", who |-> NoOne, new |-> FALSE,
   todo |-> IF upd.kind = "message" THEN upd.joined ELSE {},
   ask |-> {}, mutual |-> 0,
   followed |-> FALSE, due |-> FALSE, unread |-> FALSE, gone |-> FALSE, failed |-> FALSE]

Deliver(upds) ==
  /\ Arrived + Len(upds) <= MaxUpdates
  /\ updates' = updates \o [i \in DOMAIN upds |-> Waiting(upds[i])]
  /\ UNCHANGED <<known, log, drops, settings>>

(* A service message, a chat_member update or both: it depends on the *)
(* size of the group and on the rights of the bot.                    *)
DeliverEither(msg, upd) == Deliver(<<msg>>) \/ Deliver(<<upd>>) \/ Deliver(<<msg, upd>>)

(* u joins ch by himself (by = u) or is added; he leaves or is banned. *)
Join(u, by, ch) ==
  /\ u \notin members[ch] /\ by \in members[ch] \cup {u}
  /\ members' = [members EXCEPT ![ch] = @ \cup {u}]
  /\ DeliverEither(Message(ch, by, {u}, {}), MemberUpdate(ch, by, u, "member"))

AddBot(b, by, ch) ==
  /\ UNCHANGED members
  /\ Deliver(<<Message(ch, by, {b}, {})>>)

Leave(u, by, ch) ==
  /\ u \in members[ch] /\ by \in members[ch] \cup Bots
  /\ members' = [members EXCEPT ![ch] = @ \ {u}]
  /\ DeliverEither(Message(ch, by, {}, {u}),
                   MemberUpdate(ch, by, u, IF by = u THEN "left" ELSE "banned"))

Moderate(u, by, ch, status) ==
  /\ u \in members[ch] /\ u # by
  /\ UNCHANGED members
  /\ Deliver(<<MemberUpdate(ch, by, u, status)>>)

Post(from, ch) ==
  /\ UNCHANGED members
  /\ Deliver(<<Message(ch, from, {}, {})>>)

Click(u, ch, b) ==
  /\ UNCHANGED members
  /\ Deliver(<<Button(ch, u, b)>>)

(* Telegram did not see the answer of the webhook. *)
Redeliver(n) ==
  /\ UNCHANGED members
  /\ Deliver(<<updates[n].upd>>)

World ==
  \E ch \in Chats :
    \/ \E u \in People, by \in People : Join(u, by, ch)
    \/ \E u \in People, by \in People \cup Bots : Leave(u, by, ch)
    \/ \E u \in People, by \in People \cup Bots, s \in {"restricted", "muted", "admin"} :
         Moderate(u, by, ch, s)
    \/ \E b \in Bots, by \in People : AddBot(b, by, ch)
    \/ \E from \in People \cup Bots \cup {NoOne} : Post(from, ch)
    \/ \E u \in People, b \in Bots : Click(u, ch, b)

AddGroup(ch) ==
  /\ monitored' = monitored \cup {ch}
  /\ UNCHANGED <<members, known, updates, log, drops, enabled, loaded, late>>

RemoveGroup(ch) ==
  /\ ch \in monitored
  /\ monitored' = monitored \ {ch}
  /\ late' = late \cup {n \in 1..Arrived : updates[n].upd.chat = ch /\ updates[n].pc \notin {"start", "route"}}
  /\ UNCHANGED <<members, known, updates, log, drops, enabled, loaded>>

Toggle ==
  /\ enabled' = ~enabled
  /\ late' = IF enabled THEN late \cup {n \in 1..Arrived : updates[n].pc # "start"} ELSE late
  /\ UNCHANGED <<members, known, updates, log, drops, monitored, loaded>>
-----------------------------------------------------------------------------
IsBot(x) == x \in Bots

Goto(n, pc) == updates' = [updates EXCEPT ![n].pc = pc]

(* Broker.Publish drops the entry when the channel is full (see LogStream). *)
Publish(n, category, user, new, tags) ==
  /\ log' = Append(log, Entry(n, category, user, new, tags))
  /\ \/ UNCHANGED drops
     \/ drops < MaxDrops /\ drops' = drops + 1

(* GetMonitoredIDs: none when the query fails, fewer when its rows do *)
GetMonitoredIDs == SUBSET monitored

(* ProcessUpdate *)
Begin(n) ==
  /\ updates[n].pc = "start"
  /\ Goto(n, IF enabled THEN "route" ELSE "done")
  /\ UNCHANGED <<members, known, log, drops, settings>>

(* processChatMemberUpdate marks who joins by himself or is muted by a bot. *)
Marks(upd) ==
  \/ upd.status = "member" /\ upd.from = upd.target
  \/ upd.status = "muted" /\ IsBot(upd.from)

(* Mutated form: processChatMemberUpdate does not ask isMonitored. *)
FollowsMessages(upd, ids) == upd.kind = "message" => upd.chat \in ids

(* isMonitored *)
Follows(upd, ids) == upd.chat \in ids

(* Each of the handlers asks isMonitored first. *)
Route(n) ==
  LET upd == updates[n].upd IN
  /\ updates[n].pc = "route"
  /\ \E ids \in GetMonitoredIDs :
       updates' = [updates EXCEPT
         ![n].pc = IF ~Follows(upd, ids) THEN "done"
                   ELSE IF upd.kind = "message" THEN "members"
                   ELSE IF upd.kind = "button" THEN "button"
                   ELSE IF Marks(upd) THEN "mark"
                   ELSE "report",
         ![n].followed = upd.chat \in monitored,
         ![n].due = upd.chat \in monitored /\ (upd.from \in known \/ Announced(upd.from)),
         ![n].unread = upd.chat \in monitored \ ids]
  /\ UNCHANGED <<members, known, log, drops, settings>>

(* Mutated form of Mark: new is who has not been announced. *)
MarkUnannounced(n, u, otherwise) ==
  LET isNew == ~Announced(u) IN
  /\ known' = known \cup {u}
  /\ updates' = [updates EXCEPT ![n].who = u, ![n].pc = IF isNew THEN "announce" ELSE otherwise]
  /\ UNCHANGED <<members, log, drops, settings>>

(* Mutated form of Mark: TryMarkNew answers without recording the user. *)
MarkUnrecorded(n, u, otherwise) ==
  LET isNew == u \notin known IN
  /\ updates' = [updates EXCEPT ![n].who = u, ![n].pc = IF isNew THEN "announce" ELSE otherwise]
  /\ UNCHANGED <<members, known, log, drops, settings>>

(* Mutated form of Mark: the update of a user who is known ends there. *)
MarkOrStop(n, u, otherwise) ==
  LET isNew == u \notin known IN
  /\ known' = known \cup {u}
  /\ updates' = [updates EXCEPT ![n].who = u, ![n].pc = IF isNew THEN "announce" ELSE "done"]
  /\ UNCHANGED <<members, log, drops, settings>>

(* markNewUser after the bio has been fetched: TryMarkNew and recordJoin. *)
Mark(n, u, otherwise) ==
  LET isNew == u \notin known IN
  /\ known' = known \cup {u}
  /\ updates' = [updates EXCEPT ![n].who = u, ![n].pc = IF isNew THEN "announce" ELSE otherwise]
  /\ UNCHANGED <<members, log, drops, settings>>

AfterMark(n) == IF updates[n].upd.kind = "message" THEN "joined" ELSE "report"

Announce(n) ==
  /\ updates[n].pc = "announce"
  /\ Publish(n, "NEW_USER", updates[n].who, TRUE, {})
  /\ Goto(n, "flood")
  /\ UNCHANGED <<members, known, settings>>

(* In a flood he is condemned at once, otherwise the AI is asked. *)
CheckFlood(n) ==
  /\ updates[n].pc = "flood"
  /\ \/ Publish(n, "SPAM_CONFIRMED", updates[n].who, TRUE, {"FLOOD"})
     \/ UNCHANGED <<log, drops>>
  /\ Goto(n, AfterMark(n))
  /\ UNCHANGED <<members, known, settings>>
-----------------------------------------------------------------------------
(* processMessage, one member of NewChatMembers after the other... *)
MarkMember(n) ==
  /\ updates[n].pc = "members"
  /\ \E u \in updates[n].todo \cap People : Mark(n, u, "joined")

Joined(n) ==
  /\ updates[n].pc = "joined"
  /\ Publish(n, "JOIN", updates[n].who, TRUE, {})
  /\ updates' = [updates EXCEPT ![n].pc = "members", ![n].todo = @ \ {updates[n].who}]
  /\ UNCHANGED <<members, known, settings>>

BotJoined(n) ==
  /\ updates[n].pc = "members"
  /\ \E b \in updates[n].todo \cap Bots :
       /\ Publish(n, "BOT_JOIN", b, FALSE, {})
       /\ updates' = [updates EXCEPT ![n].todo = @ \ {b}]
  /\ UNCHANGED <<members, known, settings>>

(* ...then LeftChatMember... *)
Left(n) ==
  LET upd == updates[n].upd IN
  /\ updates[n].pc = "members" /\ updates[n].todo = {}
  /\ \/ \E u \in upd.left : Publish(n, "LEAVE", u, FALSE, {})
     \/ upd.left = {} /\ UNCHANGED <<log, drops>>
  /\ Goto(n, IF upd.from = NoOne THEN "done" ELSE "author")
  /\ UNCHANGED <<members, known, settings>>

(* ...then its author, of service messages too... *)
Author(n) ==
  /\ updates[n].pc = "author"
  /\ updates' = [updates EXCEPT ![n].pc = "count", ![n].new = updates[n].upd.from \in known]
  /\ UNCHANGED <<members, known, log, drops, settings>>

(* countMutualGroups: it reads the groups... *)
Count(n) ==
  /\ updates[n].pc = "count"
  /\ \/ /\ IsBot(updates[n].upd.from)
        /\ Goto(n, "classify")
     \/ /\ ~IsBot(updates[n].upd.from)
        /\ \E ids \in GetMonitoredIDs :
             updates' = [updates EXCEPT ![n].pc = "classify", ![n].ask = ids,
               ![n].gone = updates[n].upd.chat \notin monitored, ![n].failed = ids # monitored]
  /\ UNCHANGED <<members, known, log, drops, settings>>

(* Mutated form: the group u writes in is not one of them. *)
SharesAnother(u, g, ch) == g # ch /\ u \in members[g]

(* GetChatMember of g for the author of a message in ch *)
Shares(u, g, ch) == u \in members[g]

(* ...and asks about one after the other; where the call fails the group *)
(* does not count...                                                     *)
Ask(n) ==
  LET upd == updates[n].upd IN
  /\ updates[n].pc = "classify"
  /\ \E g \in updates[n].ask :
       \/ updates' = [updates EXCEPT
            ![n].ask = @ \ {g}, ![n].mutual = IF Shares(upd.from, g, upd.chat) THEN @ + 1 ELSE @]
       \/ updates' = [updates EXCEPT ![n].ask = @ \ {g}, ![n].failed = TRUE]
  /\ UNCHANGED <<members, known, log, drops, settings>>

(* Entities and replies make no difference: those of whoever is neither a *)
(* bot nor new are dropped, and the last case is not reached.             *)
Category(upd, isNew, isZeroMutual) ==
  CASE IsBot(upd.from) -> "BOT_MSG"
    [] ~IsBot(upd.from) /\ isZeroMutual -> "SPAM_CONFIRMED"
    [] ~IsBot(upd.from) /\ ~isZeroMutual /\ isNew -> "NEW_MSG"
    [] OTHER -> "QUOTE"

Tags(upd, isZeroMutual) ==
  IF upd.from \in VerifyBots THEN {"BOT_OP"} ELSE IF isZeroMutual THEN {"ZERO_MG"} ELSE {}

(* ...and judges the author by how many there are. *)
Classify(n) ==
  LET upd == updates[n].upd
      isNew == updates[n].new
      isZeroMutual == ~IsBot(upd.from) /\ updates[n].mutual = 0
      silent == ~IsBot(upd.from) /\ ~isNew /\ ~isZeroMutual
  IN
  /\ updates[n].pc = "classify" /\ updates[n].ask = {}
  /\ \/ silent /\ UNCHANGED <<log, drops>>
     \/ ~silent /\ Publish(n, Category(upd, isNew, isZeroMutual), upd.from, isNew, Tags(upd, isZeroMutual))
  /\ Goto(n, "done")
  /\ UNCHANGED <<members, known, settings>>
-----------------------------------------------------------------------------
(* processChatMemberUpdate *)
MarkTarget(n) ==
  /\ updates[n].pc = "mark"
  /\ Mark(n, updates[n].upd.target, "report")

StatusCategory(status) ==
  CASE status \in {"restricted", "muted"} -> "RESTRICT"
    [] status = "banned" -> "BAN"
    [] status = "left" -> "REMOVE"
    [] status = "member" -> "PROMOTE"
    [] status = "admin" -> "ADMIN"

Report(n) ==
  LET upd == updates[n].upd
      isNew == upd.target \in known
  IN
  /\ updates[n].pc = "report"
  /\ Publish(n, StatusCategory(upd.status), upd.target, isNew,
             IF upd.from \in VerifyBots /\ isNew THEN {"BOT_OP"} ELSE {})
  /\ Goto(n, "done")
  /\ UNCHANGED <<members, known, settings>>

(* processCallbackQuery *)
Press(n) ==
  LET upd == updates[n].upd
      isNew == upd.from \in known
  IN
  /\ updates[n].pc = "button"
  /\ Publish(n, "BUTTON", upd.from, isNew, IF isNew /\ upd.bot \in VerifyBots THEN {"BOT_OP"} ELSE {})
  /\ Goto(n, "done")
  /\ UNCHANGED <<members, known, settings>>
-----------------------------------------------------------------------------
Process(n) ==
  \/ Begin(n) \/ Route(n) \/ MarkMember(n) \/ Announce(n) \/ CheckFlood(n) \/ Joined(n) \/ BotJoined(n)
  \/ Left(n) \/ Author(n) \/ Count(n) \/ Ask(n) \/ Classify(n) \/ MarkTarget(n) \/ Report(n) \/ Press(n)

Next ==
  \/ World \/ Toggle
  \/ \E n \in 1..Arrived : Redeliver(n) \/ Process(n)
  \/ \E ch \in Chats : AddGroup(ch) \/ RemoveGroup(ch)

Spec == Init /\ [][Next]_vars

(* Goroutines go on, for their calls to Telegram have timeouts: one of    *)
(* them at a time is enough, as each of them ends after so many steps.    *)
FairSpec == Spec /\ WF_vars(\E n \in 1..Arrived : Process(n))
-----------------------------------------------------------------------------
Followed(n) == updates[n].upd.chat \in monitored

IsPost(upd) == upd.kind = "message" /\ upd.joined = {} /\ upd.left = {} /\ upd.from \in People

(***************************************************************************)
(* README.md:11, "adding/removing monitored groups takes effect            *)
(* immediately": an entry about a group that is not monitored, or any      *)
(* entry while monitoring is disabled, is due to an update whose goroutine *)
(* had asked isMonitored, or enabled, before the change.                   *)
(***************************************************************************)
InstantEffect ==
  \A e \in Published : (Followed(e.update) /\ enabled) \/ e.update \in late

(***************************************************************************)
(* A user who joins is announced once, though Telegram reports his joining *)
(* as a message and as a member update, adds a mute by a verification bot  *)
(* and may deliver each of them again; who was in the tracker when the     *)
(* process started is not announced again.                                 *)
(***************************************************************************)
NewUserOnce ==
  \A u \in People :
    Cardinality({i \in DOMAIN log : log[i].category = "NEW_USER" /\ log[i].user = u})
      <= IF u \in loaded THEN 0 ELSE 1

JoinPublished(n, u) == \E e \in Published : e.update = n /\ e.category = "JOIN" /\ e.user = u

(***************************************************************************)
(* However the goroutines overtake each other, it comes again and again    *)
(* that nothing is outstanding: for each user this process came to track a *)
(* NEW_USER is published, and a JOIN for each joining that a message       *)
(* reports whose group was monitored when its goroutine asked, unless the  *)
(* read of the groups failed.  What is published is in the log or was      *)
(* dropped by the broker.                                                  *)
(***************************************************************************)
JoinsReported ==
  []<>(/\ \A u \in known \ loaded : Announced(u)
       /\ \A n \in 1..Arrived :
            LET t == updates[n] IN
            t.upd.kind = "message" /\ t.followed /\ ~t.unread
              => \A u \in t.upd.joined \cap People : JoinPublished(n, u))

(***************************************************************************)
(* README.md:43, "Message from a user who joined < 24h ago": what somebody *)
(* posts is published as the message of a new user if the tracker held him *)
(* when its goroutine asked for the groups, though his NEW_USER may not be *)
(* out yet and though the settings may change from then on, unless the     *)
(* read of the groups failed.  A post that overtakes his joining may go    *)
(* unlogged.                                                               *)
(***************************************************************************)
NewcomerFlagged ==
  \A n \in 1..Arrived :
    LET upd == updates[n].upd IN
    updates[n].pc = "done" /\ updates[n].due /\ IsPost(upd) /\ ~updates[n].unread
    => \E e \in Published : e.update = n /\ e.user = upd.from /\ e.new

LeavesBy(upd, u) ==
  \/ upd.kind = "message" /\ u \in upd.left
  \/ upd.kind = "member" /\ upd.target = u /\ upd.status \in {"left", "banned"}

(***************************************************************************)
(* README.md:46, "AI-confirmed spam account".  A member of a monitored     *)
(* group, who wrote in it or just joined it, is called that for having no  *)
(* group in common with the bot only if the read of the groups or a call   *)
(* to Telegram failed, the group was removed before the groups were read,  *)
(* or he left since.                                                       *)
(***************************************************************************)
MembersSpared ==
  \A e \in Published :
    LET upd == updates[e.update].upd IN
    (e.category = "SPAM_CONFIRMED" /\ "ZERO_MG" \in e.tags)
    => \/ ~upd.byMember \/ updates[e.update].failed \/ updates[e.update].gone
       \/ \E k \in upd.sent + 1..Arrived : updates[k].upd.chat = upd.chat /\ LeavesBy(updates[k].upd, e.user)
=============================================================================

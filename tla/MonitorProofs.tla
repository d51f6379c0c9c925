--------------------------- MODULE MonitorProofs ---------------------------
(***************************************************************************)
(* Proofs about Monitor, for any number of people, groups and updates.     *)
(***************************************************************************)
EXTENDS Monitor, SequenceTheorems, FiniteSetTheorems, TLAPS

Authors == People \cup Bots \cup {NoOne}
Statuses == {"member", "left", "banned", "restricted", "muted", "admin"}
Categories == {"NEW_USER", "SPAM_CONFIRMED", "JOIN", "BOT_JOIN", "LEAVE", "BOT_MSG", "NEW_MSG", "QUOTE",
               "RESTRICT", "BAN", "REMOVE", "PROMOTE", "ADMIN", "BUTTON"}

Messages ==
  [kind : {"message"}, chat : Chats, from : Authors, joined : SUBSET (People \cup Bots),
   left : SUBSET People, byMember : BOOLEAN, sent : Nat]
MemberUpdates ==
  [kind : {"member"}, chat : Chats, from : People \cup Bots, target : People, status : Statuses]
Buttons == [kind : {"button"}, chat : Chats, from : People, bot : Bots]

Upd == Messages \cup MemberUpdates \cup Buttons

Task ==
  [upd : Upd, pc : pcs, who : People \cup {NoOne}, new : BOOLEAN, todo : SUBSET (People \cup Bots),
   ask : SUBSET Chats, mutual : Nat,
   followed : BOOLEAN, due : BOOLEAN, unread : BOOLEAN, gone : BOOLEAN, failed : BOOLEAN]

Line ==
  [update : Nat, category : Categories, user : Authors, new : BOOLEAN,
   tags : SUBSET {"FLOOD", "BOT_OP", "ZERO_MG"}]

TypeInv ==
  /\ members \in [Chats -> SUBSET People]
  /\ monitored \subseteq Chats /\ enabled \in BOOLEAN
  /\ known \subseteq People
  /\ updates \in Seq(Task) /\ Arrived <= MaxUpdates
  /\ log \in Seq(Line)
  /\ loaded \subseteq known /\ late \subseteq 1..Arrived

(* The settings as the update needs them, or they changed too late for it *)
Allowed(n) == (Followed(n) /\ enabled) \/ n \in late

(* Which updates come to which place, and what their goroutine knows there *)
InPlace(t, tracked) ==
  /\ t.pc \in {"start", "route"} => ~t.due
  /\ t.pc = "mark" => t.upd.kind = "member"
  /\ t.pc \in {"members", "joined", "author", "count", "classify"} => t.upd.kind = "message"
  /\ t.pc \in {"author", "count", "classify"} => t.upd.from # NoOne
  /\ t.pc \in {"count", "classify"} /\ t.new => t.upd.from \in tracked
  /\ t.pc = "button" => t.upd.kind = "button"
  /\ t.pc \in {"announce", "flood"} => t.upd.kind \in {"message", "member"}
  /\ t.pc = "report" => t.upd.kind = "member"
  /\ t.pc \in {"announce", "flood", "joined"} => t.who \in tracked
  /\ t.pc \notin {"classify", "done"} => ~t.failed /\ ~t.gone

PlaceInv == \A n \in 1..Arrived : InPlace(updates[n], known)

(* What an update that is being processed has asked for *)
SettingsInv ==
  \A n \in 1..Arrived :
    /\ updates[n].pc = "route" => enabled \/ n \in late
    /\ updates[n].pc \notin {"start", "route", "done"} => Allowed(n)

(* What becomes of a post whose author is tracked *)
postPcs == {"start", "route", "members", "author", "count", "classify", "done"}

PostInv ==
  \A n \in 1..Arrived :
    LET t == updates[n] IN
    /\ t.due => t.upd.from \in known
    /\ IsPost(t.upd) => t.todo = {} /\ t.pc \in postPcs
    /\ t.due /\ t.pc \in {"count", "classify"} => t.new

(* Who wrote as a member is still one, or left since. *)
LeftSince(upd, u) ==
  \E k \in upd.sent + 1..Arrived : updates[k].upd.chat = upd.chat /\ LeavesBy(updates[k].upd, u)

MemberOrLeft(upd) ==
  upd.kind = "message" =>
    /\ upd.sent <= Arrived
    /\ upd.byMember => upd.from \in members[upd.chat] \/ LeftSince(upd, upd.from)

MemberInv == \A n \in 1..Arrived : MemberOrLeft(updates[n].upd)

(* The group a member wrote in has been counted, or will be. *)
Counted(t) ==
  (/\ t.pc = "classify" /\ t.upd.byMember /\ t.upd.from \in People
   /\ ~t.failed /\ ~t.gone)
  => LeftSince(t.upd, t.upd.from) \/ t.upd.chat \in t.ask \/ t.mutual > 0

CountInv == \A n \in 1..Arrived : Counted(updates[n])

Announcing(n, u) == updates[n].pc = "announce" /\ updates[n].who = u
Announcement(i, u) == log[i].category = "NEW_USER" /\ log[i].user = u

(* Nobody is announced, or about to be, but for the one time he was marked. *)
AnnounceInv ==
  \A u \in People :
    /\ \A m, n \in 1..Arrived : Announcing(m, u) /\ Announcing(n, u) => m = n
    /\ \A i, j \in DOMAIN log : Announcement(i, u) /\ Announcement(j, u) => i = j
    /\ \A n \in 1..Arrived, i \in DOMAIN log : ~(Announcing(n, u) /\ Announcement(i, u))
    /\ u \in loaded => /\ \A n \in 1..Arrived : ~Announcing(n, u)
                      /\ \A i \in DOMAIN log : ~Announcement(i, u)

Spared(e) ==
  LET upd == updates[e.update].upd IN
  /\ upd.kind = "message"
  /\ \/ ~upd.byMember \/ updates[e.update].failed \/ updates[e.update].gone
     \/ LeftSince(upd, e.user)

LogInv ==
  \A i \in DOMAIN log :
    LET e == log[i] IN
    /\ e.update \in 1..Arrived /\ updates[e.update].pc \notin {"start", "route"}
    /\ e.new \/ e.category = "NEW_USER" => e.user \in known
    /\ Allowed(e.update)
    /\ e.category = "SPAM_CONFIRMED" /\ "ZERO_MG" \in e.tags => Spared(e)

MonitorInv ==
  /\ TypeInv /\ PlaceInv /\ SettingsInv /\ PostInv /\ MemberInv /\ CountInv /\ AnnounceInv
  /\ LogInv /\ NewcomerFlagged
-----------------------------------------------------------------------------
(* The fields of an update, by its kind *)
LEMMA UpdFields ==
  ASSUME NEW upd \in Upd
  PROVE  /\ upd.kind \in {"message", "member", "button"} /\ upd.chat \in Chats /\ upd.from \in Authors
         /\ upd.kind = "message" =>
              /\ upd.joined \subseteq People \cup Bots /\ upd.left \subseteq People
              /\ upd.byMember \in BOOLEAN /\ upd.sent \in Nat
         /\ upd.kind = "member" => upd.target \in People /\ upd.status \in Statuses /\ upd.from # NoOne
         /\ upd.kind = "button" => upd.from \in People /\ upd.bot \in Bots
<1>1. CASE upd \in Messages
  BY <1>1 DEF Messages
<1>2. CASE upd \in MemberUpdates
  BY <1>2, MonitorAssumption DEF MemberUpdates, Authors
<1>3. CASE upd \in Buttons
  BY <1>3 DEF Buttons, Authors
<1>. QED BY <1>1, <1>2, <1>3 DEF Upd

(* The fields of a goroutine *)
LEMMA TaskFields ==
  ASSUME NEW t \in Task
  PROVE  /\ t.upd \in Upd /\ t.pc \in pcs /\ t.who \in People \cup {NoOne} /\ t.new \in BOOLEAN
         /\ t.todo \subseteq People \cup Bots /\ t.ask \subseteq Chats /\ t.mutual \in Nat
         /\ t.due \in BOOLEAN /\ t.unread \in BOOLEAN /\ t.gone \in BOOLEAN /\ t.failed \in BOOLEAN
BY DEF Task

(* The fields of an entry of the log *)
LEMMA LineFields ==
  ASSUME NEW e \in Line
  PROVE  /\ e.update \in Nat /\ e.category \in Categories /\ e.user \in Authors /\ e.new \in BOOLEAN
         /\ e.tags \subseteq {"FLOOD", "BOT_OP", "ZERO_MG"}
BY DEF Line

(* When the process starts nothing has been delivered or logged. *)
LEMMA InitInv == Init => MonitorInv
<1> SUFFICES ASSUME Init PROVE MonitorInv
  OBVIOUS
<1>1. updates = <<>> /\ log = <<>> /\ Arrived = 0
  BY DEF Init, Arrived
<1>2. TypeInv
  BY <1>1, MonitorAssumption DEF Init, TypeInv
<1>. QED BY <1>1, <1>2 DEF MonitorInv, PlaceInv, SettingsInv, PostInv, MemberInv, CountInv,
            AnnounceInv, LogInv, NewcomerFlagged
-----------------------------------------------------------------------------
(* The world: what is delivered is at its start, and everything else stays. *)

LEMMA WaitingTask ==
  ASSUME NEW upd \in Upd
  PROVE  /\ Waiting(upd) \in Task
         /\ Waiting(upd).upd = upd /\ Waiting(upd).pc = "start"
         /\ Waiting(upd).todo = IF upd.kind = "message" THEN upd.joined ELSE {}
         /\ ~Waiting(upd).due /\ ~Waiting(upd).failed /\ ~Waiting(upd).gone
<1>1. /\ Waiting(upd).upd = upd /\ Waiting(upd).pc = "start"
      /\ Waiting(upd).todo = IF upd.kind = "message" THEN upd.joined ELSE {}
      /\ ~Waiting(upd).due /\ ~Waiting(upd).failed /\ ~Waiting(upd).gone
  BY DEF Waiting
<1>2. (IF upd.kind = "message" THEN upd.joined ELSE {}) \subseteq People \cup Bots
  BY UpdFields
<1>3. Waiting(upd) \in Task
  BY <1>2 DEF Waiting, Task, pcs
<1>. QED BY <1>1, <1>3

(* Who has been announced is in the tracker. *)
LEMMA AnnouncedKnown ==
  ASSUME MonitorInv, NEW u, Announced(u)
  PROVE  u \in known
BY DEF MonitorInv, LogInv, Announced, Published

(* What tells of its author that he is a member when it is delivered *)
Sent(upd) ==
  upd.kind = "message" => upd.sent <= Arrived /\ (upd.byMember => upd.from \in members'[upd.chat])

(* Updates arrive, and every leaving among them is reported in its group. *)
LEMMA DeliverInv ==
  ASSUME MonitorInv, NEW upds \in Seq(Upd), Deliver(upds), members' \in [Chats -> SUBSET People],
         \A i \in DOMAIN upds : MemberOrLeft(upds[i]) \/ Sent(upds[i]),
         \A ch \in Chats : \A u \in members[ch] \ members'[ch] :
           \E i \in DOMAIN upds : upds[i].chat = ch /\ LeavesBy(upds[i], u)
  PROVE  MonitorInv'
<1> DEFINE fresh == [i \in DOMAIN upds |-> Waiting(upds[i])]
<1>1. /\ updates' = updates \o fresh /\ Arrived + Len(upds) <= MaxUpdates
      /\ UNCHANGED <<known, log, monitored, enabled, loaded, late>>
  BY DEF Deliver, settings
<1>2. updates \in Seq(Task) /\ Arrived \in Nat /\ Len(upds) \in Nat /\ DOMAIN upds = 1..Len(upds)
  BY LenProperties DEF MonitorInv, TypeInv, Arrived
<1>3. \A i \in 1..Len(upds) : upds[i] \in Upd
  BY <1>2, ElementOfSeq
<1>4. fresh \in Seq(Task) /\ Len(fresh) = Len(upds)
  <2>1. \A i \in 1..Len(upds) : fresh[i] \in Task
    BY <1>2, <1>3, WaitingTask DEF MonitorInv
  <2>. QED BY <1>2, <2>1
<1>5. /\ updates' \in Seq(Task) /\ Arrived' = Arrived + Len(upds)
      /\ \A n \in 1..Arrived : updates'[n] = updates[n]
      /\ \A n \in Arrived + 1..Arrived' :
           n - Arrived \in DOMAIN upds /\ updates'[n] = Waiting(upds[n - Arrived])
  <2>1. /\ updates \o fresh \in Seq(Task) /\ Len(updates \o fresh) = Len(updates) + Len(fresh)
        /\ \A n \in 1..Len(updates) + Len(fresh) :
             (updates \o fresh)[n] = IF n <= Len(updates) THEN updates[n] ELSE fresh[n - Len(updates)]
    BY <1>2, <1>4, ConcatProperties
  <2>2. Arrived = Len(updates) /\ Arrived' = Len(updates')
    BY DEF Arrived
  <2>3. \A i \in 1..Len(upds) : fresh[i] = Waiting(upds[i])
    BY <1>2
  <2> HIDE DEF fresh
  <2>4. \A n \in Arrived + 1..Arrived' : n - Arrived \in 1..Len(upds)
    BY <1>1, <1>2, <1>4, <2>1, <2>2
  <2>. QED BY <1>1, <1>2, <1>4, <2>1, <2>2, <2>3, <2>4
<1>6. \A n \in 1..Arrived' : n \in 1..Arrived \/ n \in Arrived + 1..Arrived'
  BY <1>2, <1>5
<1> HIDE DEF fresh
<1>7. ASSUME NEW n \in Arrived + 1..Arrived'
      PROVE  /\ updates'[n].upd = upds[n - Arrived] /\ upds[n - Arrived] \in Upd
             /\ updates'[n].pc = "start"
             /\ ~updates'[n].due /\ ~updates'[n].failed /\ ~updates'[n].gone
             /\ updates'[n].todo =
                  IF upds[n - Arrived].kind = "message" THEN upds[n - Arrived].joined ELSE {}
  <2>1. upds[n - Arrived] \in Upd /\ updates'[n] = Waiting(upds[n - Arrived])
    BY <1>2, <1>3, <1>5
  <2>. QED BY <2>1, WaitingTask
<1>8. TypeInv'
  <2>1. Arrived' <= MaxUpdates /\ 1..Arrived \subseteq 1..Arrived'
    BY <1>1, <1>2, <1>5
  <2>. QED BY <1>1, <1>5, <2>1 DEF MonitorInv, TypeInv
<1>9. PlaceInv'
  <2>1. ASSUME NEW n \in 1..Arrived PROVE InPlace(updates[n], known)'
    BY <1>1, <1>5 DEF MonitorInv, PlaceInv
  <2>2. ASSUME NEW n \in Arrived + 1..Arrived' PROVE InPlace(updates[n], known)'
    BY <1>7 DEF InPlace
  <2>. QED BY <1>6, <2>1, <2>2 DEF PlaceInv
<1>10. SettingsInv'
  <2>1. ASSUME NEW n \in 1..Arrived PROVE updates'[n] = updates[n]
    BY <1>5
  <2>2. ASSUME NEW n \in Arrived + 1..Arrived'
        PROVE  updates'[n].pc = "start"
    BY <1>7
  <2>. QED BY <1>1, <1>6, <2>1, <2>2 DEF MonitorInv, SettingsInv, Followed, Allowed
<1>11. PostInv'
  <2>1. ASSUME NEW n \in 1..Arrived PROVE updates'[n] = updates[n]
    BY <1>5
  <2>2. ASSUME NEW n \in Arrived + 1..Arrived'
        PROVE  /\ updates'[n].pc = "start"
               /\ ~updates'[n].due
               /\ IsPost(updates'[n].upd) => updates'[n].todo = {}
    BY <1>7 DEF IsPost
  <2>. QED BY <1>1, <1>6, <2>1, <2>2 DEF MonitorInv, PostInv, postPcs
<1>12. ASSUME NEW upd \in Upd, upd.kind = "message"
       PROVE  /\ MemberOrLeft(upd) \/ Sent(upd) => MemberOrLeft(upd)'
              /\ \A u : LeftSince(upd, u) => LeftSince(upd, u)'
  <2>1. upd.sent \in Nat /\ upd.chat \in Chats
    BY <1>12, UpdFields
  <2>2. \A k \in upd.sent + 1..Arrived :
          k \in upd.sent + 1..Arrived' /\ updates'[k] = updates[k]
    BY <1>2, <1>5, <2>1
  <2>3. \A u : LeftSince(upd, u) => LeftSince(upd, u)'
    BY <2>2 DEF LeftSince
  <2>4. ASSUME upd.sent <= Arrived, NEW u \in members[upd.chat] \ members'[upd.chat]
        PROVE  LeftSince(upd, u)'
    <3>1. PICK i \in DOMAIN upds : upds[i].chat = upd.chat /\ LeavesBy(upds[i], u)
      BY <2>1, <2>4
    <3>2. Arrived + i \in Arrived + 1..Arrived' /\ Arrived + i \in upd.sent + 1..Arrived'
      BY <1>2, <1>5, <2>1, <2>4
    <3>3. (Arrived + i) - Arrived = i
      BY <1>2
    <3>4. updates'[Arrived + i].upd = upds[i]
      BY <1>7, <3>2, <3>3
    <3>. QED BY <3>1, <3>2, <3>4 DEF LeftSince
  <2>5. upd.sent <= Arrived => upd.sent <= Arrived'
    BY <1>2, <1>5, <2>1
  <2>. QED BY <2>3, <2>4, <2>5 DEF MemberOrLeft, Sent
<1>13. MemberInv'
  <2>1. ASSUME NEW n \in 1..Arrived PROVE MemberOrLeft(updates[n].upd)'
    <3>1. updates[n].upd \in Upd /\ MemberOrLeft(updates[n].upd) /\ updates'[n] = updates[n]
      BY <1>2, <1>5, ElementOfSeq, TaskFields DEF MonitorInv, MemberInv, Arrived
    <3>2. PICK upd \in Upd : upd = updates[n].upd /\ upd = updates'[n].upd
      BY <3>1
    <3>3. MemberOrLeft(upd)'
      BY <1>12, <3>1, <3>2 DEF MemberOrLeft
    <3>. QED BY <3>2, <3>3 DEF MemberOrLeft, LeftSince
  <2>2. ASSUME NEW n \in Arrived + 1..Arrived' PROVE MemberOrLeft(updates[n].upd)'
    <3>1. /\ upds[n - Arrived] \in Upd /\ updates'[n].upd = upds[n - Arrived]
          /\ MemberOrLeft(upds[n - Arrived]) \/ Sent(upds[n - Arrived])
      BY <1>5, <1>7
    <3>2. PICK upd \in Upd : upd = upds[n - Arrived] /\ upd = updates'[n].upd
      BY <3>1
    <3>3. MemberOrLeft(upd)'
      BY <1>12, <3>1, <3>2 DEF MemberOrLeft
    <3>. QED BY <3>2, <3>3 DEF MemberOrLeft, LeftSince
  <2>. QED BY <1>6, <2>1, <2>2 DEF MemberInv
<1>17. CountInv'
  <2>1. ASSUME NEW n \in 1..Arrived PROVE Counted(updates[n])'
    <3>1. /\ updates[n].upd \in Upd /\ updates'[n] = updates[n] /\ InPlace(updates[n], known)
          /\ Counted(updates[n])
      BY <1>2, <1>5, ElementOfSeq, TaskFields DEF MonitorInv, CountInv, PlaceInv, Arrived
    <3>2. PICK t : t = updates[n] /\ t = updates'[n]
      BY <3>1
    <3>3. t.pc = "classify" => t.upd \in Upd /\ t.upd.kind = "message"
      BY <3>1, <3>2 DEF InPlace
    <3>4. t.pc = "classify" => \A u : LeftSince(t.upd, u) => LeftSince(t.upd, u)'
      BY <1>12, <3>3
    <3>5. Counted(t)'
      BY <3>1, <3>2, <3>4 DEF Counted
    <3>. QED BY <3>2, <3>5 DEF Counted, LeftSince
  <2>2. ASSUME NEW n \in Arrived + 1..Arrived' PROVE Counted(updates[n])'
    BY <1>7 DEF Counted
  <2>. QED BY <1>6, <2>1, <2>2 DEF CountInv
<1>14. AnnounceInv'
  <2>1. ASSUME NEW n \in 1..Arrived PROVE updates'[n] = updates[n]
    BY <1>5
  <2>2. ASSUME NEW n \in Arrived + 1..Arrived' PROVE updates'[n].pc = "start"
    BY <1>7
  <2>3. \A u, n : n \in 1..Arrived' /\ Announcing(n, u)' => n \in 1..Arrived /\ Announcing(n, u)
    BY <1>6, <2>1, <2>2 DEF Announcing
  <2>4. \A u, i : Announcement(i, u)' <=> Announcement(i, u)
    BY <1>1 DEF Announcement
  <2>. QED BY <1>1, <2>3, <2>4 DEF MonitorInv, AnnounceInv
<1>15. LogInv'
  <2>1. ASSUME NEW n \in 1..Arrived, Allowed(n)
        PROVE  Allowed(n)'
    BY <1>1, <1>5, <2>1 DEF Allowed, Followed
  <2>2. ASSUME NEW x \in Line, x.update \in 1..Arrived, Spared(x)
        PROVE  Spared(x)'
    <3>1. updates'[x.update] = updates[x.update] /\ updates[x.update].upd \in Upd
      BY <1>2, <1>5, <2>2, ElementOfSeq, TaskFields DEF Arrived
    <3>2. PICK upd \in Upd : upd = updates[x.update].upd /\ upd = updates'[x.update].upd
      BY <3>1
    <3>3. /\ upd.kind = "message"
          /\ \/ ~upd.byMember \/ updates[x.update].failed \/ updates[x.update].gone
             \/ LeftSince(upd, x.user)
      BY <2>2, <3>2 DEF Spared
    <3>4. \/ ~upd.byMember \/ updates'[x.update].failed \/ updates'[x.update].gone
          \/ LeftSince(upd, x.user)'
      BY <1>1, <1>12, <3>1, <3>3
    <3>. QED BY <3>2, <3>3, <3>4 DEF Spared, LeftSince
  <2>3. \A i \in DOMAIN log : log[i] \in Line
    BY ElementOfSeq, LenProperties DEF MonitorInv, TypeInv
  <2>4. \A n \in 1..Arrived : n \in 1..Arrived'
    BY <1>2, <1>5
  <2>5. \A n \in 1..Arrived : updates'[n] = updates[n]
    BY <1>5
  <2>. QED BY <1>1, <2>1, <2>2, <2>3, <2>4, <2>5 DEF MonitorInv, LogInv
<1>16. NewcomerFlagged'
  <2> SUFFICES ASSUME NEW n \in 1..Arrived',
                      LET upd == updates'[n].upd IN
                      updates'[n].pc = "done" /\ updates'[n].due /\ IsPost(upd) /\ ~updates'[n].unread
               PROVE  \E e \in Published' : e.update = n /\ e.user = updates'[n].upd.from /\ e.new
    BY DEF NewcomerFlagged
  <2>1. n \in 1..Arrived
    BY <1>6, <1>7
  <2>2. updates'[n] = updates[n]
    BY <1>5, <2>1
  <2>3. PICK e \in Published : e.update = n /\ e.user = updates[n].upd.from /\ e.new
    BY <1>1, <2>1, <2>2 DEF MonitorInv, NewcomerFlagged
  <2>. QED BY <1>1, <2>2, <2>3 DEF Published
<1>. QED BY <1>8, <1>9, <1>10, <1>11, <1>13, <1>14, <1>15, <1>16, <1>17 DEF MonitorInv

(* A new message is of somebody who is a member, if he is said to be. *)
LEMMA NewMessage ==
  ASSUME MonitorInv, NEW ch \in Chats, NEW from \in Authors, NEW joined \in SUBSET (People \cup Bots),
         NEW left \in SUBSET People, NEW msg, msg = Message(ch, from, joined, left)
  PROVE  msg \in Upd /\ Sent(msg) /\ msg.kind = "message" /\ msg.chat = ch /\ msg.left = left
<1>1. Arrived \in Nat
  BY LenProperties DEF MonitorInv, TypeInv, Arrived
<1>2. (from \in members'[ch]) \in BOOLEAN
  OBVIOUS
<1>3. msg \in Messages
  BY <1>1, <1>2 DEF Message, Messages
<1>4. /\ msg.kind = "message" /\ msg.chat = ch /\ msg.left = left /\ msg.sent = Arrived /\ msg.from = from
      /\ msg.byMember => from \in members'[ch]
  BY DEF Message
<1>5. Sent(msg)
  BY <1>1, <1>4 DEF Sent
<1>. QED BY <1>3, <1>4, <1>5 DEF Upd

(* The update about a member is one. *)
LEMMA NewMemberUpdate ==
  ASSUME NEW ch \in Chats, NEW actor \in People \cup Bots, NEW target \in People, NEW status \in Statuses
  PROVE  LET upd == MemberUpdate(ch, actor, target, status) IN
         /\ upd \in Upd /\ Sent(upd)
         /\ upd.kind = "member" /\ upd.chat = ch /\ upd.target = target /\ upd.status = status
BY DEF MemberUpdate, MemberUpdates, Upd, Sent

(* The click is an update. *)
LEMMA NewButton ==
  ASSUME NEW ch \in Chats, NEW from \in People, NEW b \in Bots
  PROVE  Button(ch, from, b) \in Upd /\ Sent(Button(ch, from, b))
BY DEF Button, Buttons, Upd, Sent

(* What happens in the groups, and a redelivery *)
LEMMA WorldInv ==
  ASSUME MonitorInv, World \/ \E n \in 1..Arrived : Redeliver(n)
  PROVE  MonitorInv'
<1>1. members \in [Chats -> SUBSET People]
  BY DEF MonitorInv, TypeInv
<1>2. ASSUME NEW upd \in Upd, MemberOrLeft(upd) \/ Sent(upd), Deliver(<<upd>>), members' \in [Chats -> SUBSET People],
             \A ch \in Chats : \A u \in members[ch] \ members'[ch] : upd.chat = ch /\ LeavesBy(upd, u)
      PROVE  MonitorInv'
  <2>1. <<upd>> \in Seq(Upd) /\ DOMAIN <<upd>> = {1} /\ <<upd>>[1] = upd
    OBVIOUS
  <2>. QED BY <1>2, <2>1, DeliverInv
<1>3. ASSUME NEW x \in Upd, NEW y \in Upd, Sent(x), Sent(y), Deliver(<<x, y>>),
             members' \in [Chats -> SUBSET People],
             \A ch \in Chats : \A u \in members[ch] \ members'[ch] : x.chat = ch /\ LeavesBy(x, u)
      PROVE  MonitorInv'
  <2>1. <<x, y>> \in Seq(Upd) /\ DOMAIN <<x, y>> = {1, 2} /\ <<x, y>>[1] = x /\ <<x, y>>[2] = y
    OBVIOUS
  <2>. QED BY <1>3, <2>1, DeliverInv
<1>4. ASSUME NEW x \in Upd, NEW y \in Upd, Sent(x), Sent(y), DeliverEither(x, y),
             members' \in [Chats -> SUBSET People],
             \A ch \in Chats : \A u \in members[ch] \ members'[ch] :
               /\ x.chat = ch /\ LeavesBy(x, u)
               /\ y.chat = ch /\ LeavesBy(y, u)
      PROVE  MonitorInv'
  BY <1>2, <1>3, <1>4 DEF DeliverEither
<1>5. ASSUME NEW ch \in Chats, NEW u \in People, NEW by \in People, Join(u, by, ch)
      PROVE  MonitorInv'
  <2>1. members' = [members EXCEPT ![ch] = @ \cup {u}]
    BY <1>5 DEF Join
  <2>2. members' \in [Chats -> SUBSET People] /\ \A g \in Chats : members[g] \ members'[g] = {}
    BY <1>1, <2>1
  <2>3. by \in Authors /\ {u} \in SUBSET (People \cup Bots) /\ {} \in SUBSET People /\ "member" \in Statuses
    BY DEF Authors, Statuses
  <2>4. DeliverEither(Message(ch, by, {u}, {}), MemberUpdate(ch, by, u, "member"))
    BY <1>5 DEF Join
  <2>. QED BY <1>4, <2>2, <2>3, <2>4, NewMessage, NewMemberUpdate
<1>6. ASSUME NEW ch \in Chats, NEW u \in People, NEW by \in People \cup Bots, Leave(u, by, ch)
      PROVE  MonitorInv'
  <2> DEFINE status == IF by = u THEN "left" ELSE "banned"
             msg == Message(ch, by, {}, {u})
             upd == MemberUpdate(ch, by, u, status)
  <2>1. members' = [members EXCEPT ![ch] = @ \ {u}] /\ DeliverEither(msg, upd)
    BY <1>6 DEF Leave
  <2>2. members' \in [Chats -> SUBSET People]
    BY <1>1, <2>1
  <2>3. \A g \in Chats : \A v \in members[g] \ members'[g] : g = ch /\ v = u
    BY <1>1, <2>1
  <2>4. by \in Authors /\ {u} \in SUBSET People /\ {} \in SUBSET (People \cup Bots) /\ status \in Statuses
    BY DEF Authors, Statuses
  <2>5. msg \in Upd /\ Sent(msg) /\ msg.chat = ch /\ LeavesBy(msg, u)
    BY <2>4, NewMessage DEF LeavesBy
  <2>6. upd \in Upd /\ Sent(upd) /\ upd.chat = ch /\ LeavesBy(upd, u)
    BY <2>4, NewMemberUpdate DEF LeavesBy
  <2> HIDE DEF msg, upd
  <2>. QED BY <1>4, <2>1, <2>2, <2>3, <2>5, <2>6
<1>7. ASSUME NEW ch \in Chats, NEW u \in People, NEW by \in People \cup Bots,
             NEW s \in {"restricted", "muted", "admin"}, Moderate(u, by, ch, s)
      PROVE  MonitorInv'
  BY <1>1, <1>2, <1>7, NewMemberUpdate DEF Moderate, Statuses
<1>8. ASSUME NEW ch \in Chats, NEW b \in Bots, NEW by \in People, AddBot(b, by, ch)
      PROVE  MonitorInv'
  BY <1>1, <1>2, <1>8, NewMessage DEF AddBot, Authors
<1>9. ASSUME NEW ch \in Chats, NEW from \in People \cup Bots \cup {NoOne}, Post(from, ch)
      PROVE  MonitorInv'
  BY <1>1, <1>2, <1>9, NewMessage DEF Post, Authors
<1>10. ASSUME NEW ch \in Chats, NEW u \in People, NEW b \in Bots, Click(u, ch, b)
       PROVE  MonitorInv'
  BY <1>1, <1>2, <1>10, NewButton DEF Click
<1>11. ASSUME NEW n \in 1..Arrived, Redeliver(n)
       PROVE  MonitorInv'
  <2>1. updates[n].upd \in Upd /\ MemberOrLeft(updates[n].upd)
    BY ElementOfSeq, TaskFields DEF MonitorInv, TypeInv, MemberInv, Arrived
  <2>. QED BY <1>1, <1>2, <1>11, <2>1 DEF Redeliver
<1>. QED BY <1>5, <1>6, <1>7, <1>8, <1>9, <1>10, <1>11 DEF World
-----------------------------------------------------------------------------
(* The administrator *)
LEMMA SettingsStepInv ==
  ASSUME MonitorInv, Toggle \/ \E ch \in Chats : AddGroup(ch) \/ RemoveGroup(ch)
  PROVE  MonitorInv'
<1>1. /\ UNCHANGED <<members, known, updates, log, loaded>>
      /\ enabled' \in BOOLEAN /\ monitored' \subseteq Chats
      /\ late \subseteq late' /\ late' \subseteq 1..Arrived
  BY DEF MonitorInv, TypeInv, Toggle, AddGroup, RemoveGroup
<1>2. Arrived' = Arrived /\ Published' = Published
  BY <1>1 DEF Arrived, Published
<1>3. ASSUME NEW n \in 1..Arrived, updates[n].pc \notin {"start", "route"}, Followed(n)
      PROVE  Followed(n)' \/ n \in late'
  BY <1>1, <1>3 DEF Followed, Toggle, AddGroup, RemoveGroup
<1>4. ASSUME NEW n \in 1..Arrived, updates[n].pc # "start", enabled
      PROVE  enabled' \/ n \in late'
  BY <1>4 DEF Toggle, AddGroup, RemoveGroup
<1>5. ASSUME NEW n \in 1..Arrived, updates[n].pc \notin {"start", "route"}, Allowed(n)
      PROVE  Allowed(n)'
  BY <1>1, <1>3, <1>4, <1>5 DEF Allowed
<1>6. TypeInv'
  BY <1>1, <1>2 DEF MonitorInv, TypeInv
<1>7. PlaceInv' /\ PostInv'
  BY <1>1, <1>2 DEF MonitorInv, PlaceInv, PostInv
<1>8. SettingsInv'
  BY <1>1, <1>2, <1>4, <1>5 DEF MonitorInv, SettingsInv
<1>9. MemberInv' /\ AnnounceInv'
  BY <1>1, <1>2
     DEF MonitorInv, MemberInv, MemberOrLeft, LeftSince, AnnounceInv, Announcing, Announcement
<1>10. CountInv'
  BY <1>1, <1>2 DEF MonitorInv, CountInv, Counted, LeftSince
<1>11. LogInv'
  <2>1. \A e : Spared(e)' <=> Spared(e)
    BY <1>1, <1>2 DEF Spared, LeftSince
  <2>. QED BY <1>1, <1>2, <1>5, <2>1 DEF MonitorInv, LogInv
<1>12. NewcomerFlagged'
  BY <1>1, <1>2 DEF MonitorInv, NewcomerFlagged
<1>. QED BY <1>6, <1>7, <1>8, <1>9, <1>10, <1>11, <1>12 DEF MonitorInv
-----------------------------------------------------------------------------
(* One step of the goroutine of update n: its task becomes t, and there is *)
(* at most one new line.                                                   *)

Steps(n, t) ==
  /\ n \in 1..Arrived /\ updates[n].pc # "done"
  /\ t \in Task /\ t.upd = updates[n].upd /\ (t.due => updates[n].due \/ t.upd.from \in known)
  /\ updates[n].failed => t.failed
  /\ updates[n].gone => t.gone
  /\ t.pc # "start" /\ (t.pc = "route" => updates[n].pc = "start")
  /\ updates' = [updates EXCEPT ![n] = t]
  /\ members' = members /\ settings' = settings
  /\ known \subseteq known' /\ known' \subseteq People

(* What such a step leaves alone *)
LEMMA StepsFacts ==
  ASSUME MonitorInv, NEW n, NEW t, Steps(n, t)
  PROVE  /\ updates' \in Seq(Task) /\ Arrived' = Arrived /\ updates'[n] = t
         /\ \A m \in 1..Arrived : m # n => updates'[m] = updates[m]
         /\ \A m \in 1..Arrived : updates'[m].upd = updates[m].upd
         /\ \A m \in 1..Arrived : updates[m] \in Task /\ updates[m].upd \in Upd
         /\ UNCHANGED <<members, monitored, enabled, loaded, late>>
<1>1. updates \in Seq(Task)
  BY DEF MonitorInv, TypeInv
<1>2. /\ updates' \in Seq(Task) /\ Len(updates') = Len(updates)
      /\ \A m \in 1..Len(updates) : updates'[m] = IF m = n THEN t ELSE updates[m]
  BY <1>1, ExceptSeq DEF Steps, Arrived
<1>3. \A m \in 1..Arrived : updates[m] \in Task /\ updates[m].upd \in Upd
  BY <1>1, ElementOfSeq, TaskFields DEF Arrived
<1>. QED BY <1>2, <1>3 DEF Steps, Arrived, settings

(* That somebody left since he wrote stays true. *)
LEMMA LeftSinceKept ==
  ASSUME MonitorInv, NEW n, NEW t, Steps(n, t), NEW upd \in Upd, upd.kind = "message", NEW u,
         LeftSince(upd, u)
  PROVE  LeftSince(upd, u)'
<1>1. \A k \in upd.sent + 1..Arrived : k \in 1..Arrived
  BY UpdFields, LenProperties DEF MonitorInv, TypeInv, Arrived
<1>. QED BY <1>1, StepsFacts DEF LeftSince

Adds(e) == log' = Append(log, e)

(* The log with one more line *)
LEMMA AddsFacts ==
  ASSUME MonitorInv, NEW e \in Line, Adds(e)
  PROVE  /\ log' \in Seq(Line) /\ Len(log') = Len(log) + 1 /\ Len(log) \in Nat
         /\ DOMAIN log = 1..Len(log) /\ DOMAIN log' = 1..Len(log) + 1
         /\ \A i \in 1..Len(log) : log'[i] = log[i]
         /\ log'[Len(log) + 1] = e
         /\ e \in Published' /\ Published \subseteq Published'
<1>1. log \in Seq(Line)
  BY DEF MonitorInv, TypeInv
<1>2. /\ log' \in Seq(Line) /\ Len(log') = Len(log) + 1 /\ Len(log) \in Nat
      /\ DOMAIN log = 1..Len(log) /\ DOMAIN log' = 1..Len(log) + 1
      /\ \A i \in 1..Len(log) : log'[i] = log[i]
      /\ log'[Len(log) + 1] = e
  BY <1>1, AppendProperties, LenProperties DEF Adds
<1>3. Len(log) + 1 \in DOMAIN log' /\ \A i \in DOMAIN log : i \in DOMAIN log' /\ log'[i] = log[i]
  BY <1>2
<1>. QED BY <1>2, <1>3 DEF Published

(* A step keeps the invariant if its task and its line fit. *)
LEMMA StepInv ==
  ASSUME MonitorInv, NEW n, NEW t, Steps(n, t), AnnounceInv', InPlace(t, known'),
         t.pc \in {"route", "done"} \/ Allowed(n),
         t.pc = "route" => enabled \/ n \in late,
         IsPost(t.upd) => t.todo = {} /\ t.pc \in postPcs,
         t.due /\ t.pc \in {"count", "classify"} => t.new,
         Counted(t),
         t.pc = "done" /\ t.due /\ IsPost(t.upd) /\ ~t.unread
           => \E e \in Published' : e.update = n /\ e.user = t.upd.from /\ e.new,
         \/ log' = log
         \/ \E e \in Line :
              /\ Adds(e) /\ e.update = n /\ Allowed(n) /\ t.pc # "route"
              /\ e.new \/ e.category = "NEW_USER" => e.user \in known'
              /\ e.category = "SPAM_CONFIRMED" /\ "ZERO_MG" \in e.tags => Spared(e)'
  PROVE  MonitorInv'
<1>1. /\ updates' \in Seq(Task) /\ Arrived' = Arrived /\ updates'[n] = t
      /\ \A m \in 1..Arrived : m # n => updates'[m] = updates[m]
      /\ \A m \in 1..Arrived : updates'[m].upd = updates[m].upd
      /\ \A m \in 1..Arrived : updates[m] \in Task /\ updates[m].upd \in Upd
      /\ UNCHANGED <<members, monitored, enabled, loaded, late>>
  BY StepsFacts
<1>2. /\ n \in 1..Arrived /\ updates[n].pc # "done"
      /\ t \in Task /\ t.upd = updates[n].upd /\ (t.due => updates[n].due \/ t.upd.from \in known)
      /\ known \subseteq known' /\ known' \subseteq People
      /\ t.pc # "start" /\ (t.pc = "route" => updates[n].pc = "start")
  BY DEF Steps
<1>3. (updates[n].failed => t.failed) /\ (updates[n].gone => t.gone)
  BY DEF Steps
<1>4. \/ log' = log
      \/ \E e \in Line :
           /\ log' \in Seq(Line) /\ DOMAIN log' = 1..Len(log) + 1 /\ Len(log) \in Nat
           /\ DOMAIN log = 1..Len(log)
           /\ \A i \in 1..Len(log) : log'[i] = log[i]
           /\ log'[Len(log) + 1] = e
           /\ e.update = n /\ Allowed(n) /\ t.pc # "route"
           /\ e.new \/ e.category = "NEW_USER" => e.user \in known'
           /\ e.category = "SPAM_CONFIRMED" /\ "ZERO_MG" \in e.tags => Spared(e)'
  BY AddsFacts
<1>5. log' \in Seq(Line) /\ Published \subseteq Published'
  BY <1>4, AddsFacts DEF MonitorInv, TypeInv, Published
<1>6. TypeInv'
  BY <1>1, <1>2, <1>5 DEF MonitorInv, TypeInv
<1>7. \A m \in 1..Arrived : Allowed(m) => Allowed(m)'
  BY <1>1 DEF Allowed, Followed
<1>8. PlaceInv'
  <2>1. ASSUME NEW m \in 1..Arrived, m # n
        PROVE  InPlace(updates[m], known)'
    BY <1>1, <1>2, <2>1 DEF MonitorInv, PlaceInv, InPlace
  <2>. QED BY <1>1, <2>1 DEF PlaceInv
<1>9. SettingsInv'
  <2>1. ASSUME NEW m \in 1..Arrived
        PROVE  /\ updates'[m].pc = "route" => enabled' \/ m \in late'
               /\ updates'[m].pc \notin {"start", "route", "done"} => Allowed(m)'
    BY <1>1, <1>2, <1>7 DEF MonitorInv, SettingsInv
  <2>. QED BY <1>1, <2>1 DEF SettingsInv
<1>10. PostInv'
  <2>1. ASSUME NEW m \in 1..Arrived, m # n
        PROVE  LET s == updates'[m] IN
               /\ s.due => s.upd.from \in known'
               /\ IsPost(s.upd) => s.todo = {} /\ s.pc \in postPcs
               /\ s.due /\ s.pc \in {"count", "classify"} => s.new
    BY <1>1, <1>2, <2>1 DEF MonitorInv, PostInv
  <2>2. t.due => t.upd.from \in known'
    BY <1>2 DEF MonitorInv, PostInv
  <2>. QED BY <1>1, <2>1, <2>2 DEF PostInv
<1>11. ASSUME NEW upd \in Upd, upd.kind = "message"
       PROVE  /\ \A u : LeftSince(upd, u) => LeftSince(upd, u)'
              /\ MemberOrLeft(upd) => MemberOrLeft(upd)'
  <2>1. \A u : LeftSince(upd, u) => LeftSince(upd, u)'
    BY <1>11, LeftSinceKept
  <2>. QED BY <1>1, <2>1 DEF MemberOrLeft
<1>12. MemberInv'
  <2>1. ASSUME NEW m \in 1..Arrived
        PROVE  MemberOrLeft(updates[m].upd)'
    <3>1. PICK upd \in Upd : upd = updates[m].upd /\ upd = updates'[m].upd
      BY <1>1
    <3>2. MemberOrLeft(upd)'
      BY <1>11, <3>1 DEF MonitorInv, MemberInv, MemberOrLeft
    <3>. QED BY <3>1, <3>2 DEF MemberOrLeft, LeftSince
  <2>. QED BY <1>1, <2>1 DEF MemberInv
<1>13. LogInv'
  <2>1. ASSUME NEW x \in Line, x.update \in 1..Arrived, Spared(x)
        PROVE  Spared(x)'
    <3>1. PICK upd \in Upd : upd = updates[x.update].upd /\ upd = updates'[x.update].upd
      BY <1>1, <2>1
    <3>2. /\ upd.kind = "message"
          /\ \/ ~upd.byMember \/ updates[x.update].failed \/ updates[x.update].gone
             \/ LeftSince(upd, x.user)
      BY <2>1, <3>1 DEF Spared
    <3>3. /\ updates[x.update].failed => updates'[x.update].failed
          /\ updates[x.update].gone => updates'[x.update].gone
      BY <1>1, <1>3, <2>1
    <3>4. \/ ~upd.byMember \/ updates'[x.update].failed \/ updates'[x.update].gone
          \/ LeftSince(upd, x.user)'
      BY <1>1, <1>11, <3>2, <3>3
    <3>. QED BY <3>1, <3>2, <3>4 DEF Spared, LeftSince
  <2>2. \A i \in DOMAIN log : log[i] \in Line
    BY ElementOfSeq, LenProperties DEF MonitorInv, TypeInv
  <2>3. ASSUME NEW x \in Line, NEW i \in DOMAIN log, x = log[i]
        PROVE  /\ x.update \in 1..Arrived' /\ updates'[x.update].pc \notin {"start", "route"}
               /\ x.new \/ x.category = "NEW_USER" => x.user \in known'
               /\ Allowed(x.update)'
               /\ x.category = "SPAM_CONFIRMED" /\ "ZERO_MG" \in x.tags => Spared(x)'
    BY <1>1, <1>2, <1>7, <2>1, <2>3 DEF MonitorInv, LogInv
  <2>4. CASE log' = log
    BY <2>2, <2>3, <2>4 DEF LogInv
  <2>5. ASSUME NEW e \in Line,
               DOMAIN log' = 1..Len(log) + 1, Len(log) \in Nat, DOMAIN log = 1..Len(log),
               \A i \in 1..Len(log) : log'[i] = log[i], log'[Len(log) + 1] = e,
               e.update = n, Allowed(n), t.pc # "route",
               e.new \/ e.category = "NEW_USER" => e.user \in known',
               e.category = "SPAM_CONFIRMED" /\ "ZERO_MG" \in e.tags => Spared(e)'
        PROVE  LogInv'
    <3>1. ASSUME NEW i \in DOMAIN log'
          PROVE  i \in DOMAIN log \/ i = Len(log) + 1
      BY <2>5
    <3>2. ASSUME NEW i \in DOMAIN log'
          PROVE  \E x \in Line :
                   /\ x = log'[i]
                   /\ x.update \in 1..Arrived' /\ updates'[x.update].pc \notin {"start", "route"}
                   /\ x.new \/ x.category = "NEW_USER" => x.user \in known'
                   /\ Allowed(x.update)'
                   /\ x.category = "SPAM_CONFIRMED" /\ "ZERO_MG" \in x.tags => Spared(x)'
      <4>1. CASE i \in DOMAIN log
        BY <2>2, <2>3, <2>5, <4>1
      <4>2. CASE i = Len(log) + 1
        BY <1>1, <1>2, <1>7, <2>5, <4>2
      <4>. QED BY <3>1, <4>1, <4>2
    <3>. QED BY <3>2 DEF LogInv
  <2>. QED BY <1>4, <2>4, <2>5
<1>14. NewcomerFlagged'
  <2>1. ASSUME NEW m \in 1..Arrived, m # n,
               updates'[m].pc = "done", updates'[m].due, IsPost(updates'[m].upd), ~updates'[m].unread
        PROVE  \E e \in Published' : e.update = m /\ e.user = updates'[m].upd.from /\ e.new
    <3>1. \E e \in Published : e.update = m /\ e.user = updates[m].upd.from /\ e.new
      BY <1>1, <2>1 DEF MonitorInv, NewcomerFlagged
    <3>. QED BY <1>1, <1>5, <2>1, <3>1
  <2>. QED BY <1>1, <2>1 DEF NewcomerFlagged
<1>15. CountInv'
  <2>1. ASSUME NEW m \in 1..Arrived, m # n
        PROVE  Counted(updates[m])'
    <3>1. /\ updates'[m] = updates[m] /\ updates[m].upd \in Upd
          /\ Counted(updates[m]) /\ InPlace(updates[m], known)
      BY <1>1, <2>1 DEF MonitorInv, CountInv, PlaceInv
    <3>2. PICK s : s = updates[m] /\ s = updates'[m]
      BY <3>1
    <3>3. s.pc = "classify" => s.upd \in Upd /\ s.upd.kind = "message"
      BY <3>1, <3>2 DEF InPlace
    <3>4. s.pc = "classify" => \A u : LeftSince(s.upd, u) => LeftSince(s.upd, u)'
      BY <1>11, <3>3
    <3>5. Counted(s)'
      BY <3>1, <3>2, <3>4 DEF Counted
    <3>. QED BY <3>2, <3>5 DEF Counted, LeftSince
  <2>2. Counted(updates[n])'
    <3>1. Counted(t) /\ InPlace(t, known') /\ t.upd \in Upd /\ updates'[n] = t
      BY <1>1, <1>2
    <3>2. PICK s : s = t /\ s = updates'[n]
      BY <3>1
    <3>3. s.pc = "classify" => s.upd \in Upd /\ s.upd.kind = "message"
      BY <3>1, <3>2 DEF InPlace
    <3>4. s.pc = "classify" => \A u : LeftSince(s.upd, u) => LeftSince(s.upd, u)'
      BY <1>11, <3>3
    <3>5. Counted(s)'
      BY <3>1, <3>2, <3>4 DEF Counted
    <3>. QED BY <3>2, <3>5 DEF Counted, LeftSince
  <2>. QED BY <1>1, <2>1, <2>2 DEF CountInv
<1>. QED BY <1>6, <1>8, <1>9, <1>10, <1>12, <1>13, <1>14, <1>15 DEF MonitorInv

(* Announcements: what no step but Mark and Announce disturbs. *)
LEMMA AnnounceKept ==
  ASSUME MonitorInv, NEW n, NEW t, Steps(n, t), t.pc # "announce",
         log' = log \/ \E e \in Line : Adds(e) /\ e.category # "NEW_USER"
  PROVE  AnnounceInv'
<1>1. ASSUME NEW u, NEW m \in 1..Arrived', Announcing(m, u)'
      PROVE  m \in 1..Arrived /\ Announcing(m, u)
  BY <1>1, StepsFacts DEF Announcing
<1>2. ASSUME NEW u, NEW i \in DOMAIN log', Announcement(i, u)'
      PROVE  i \in DOMAIN log /\ Announcement(i, u)
  BY <1>2, AddsFacts DEF Announcement
<1>. QED BY <1>1, <1>2, StepsFacts DEF MonitorInv, AnnounceInv
-----------------------------------------------------------------------------
(* A goroutine that goes on to another place *)
LEMMA TaskPc ==
  ASSUME NEW s \in Task, NEW pc \in pcs
  PROVE  LET t == [s EXCEPT !.pc = pc] IN
         /\ t \in Task /\ t.pc = pc
         /\ t.upd = s.upd /\ t.due = s.due /\ t.who = s.who /\ t.new = s.new /\ t.todo = s.todo
         /\ t.failed = s.failed /\ t.gone = s.gone /\ t.unread = s.unread /\ t.followed = s.followed
         /\ t.ask = s.ask /\ t.mutual = s.mutual
BY DEF Task

(* What is known of the goroutine that makes a step *)
LEMMA TaskFacts ==
  ASSUME MonitorInv, NEW n \in 1..Arrived
  PROVE  /\ n \in Nat /\ updates \in Seq(Task) /\ updates[n] \in Task /\ updates[n].upd \in Upd
         /\ InPlace(updates[n], known)
         /\ updates[n].pc \notin {"start", "route", "done"} => Allowed(n)
         /\ known \subseteq People
<1>1. updates \in Seq(Task) /\ Arrived \in Nat
  BY LenProperties DEF MonitorInv, TypeInv, Arrived
<1>2. updates[n] \in Task
  BY <1>1, ElementOfSeq DEF Arrived
<1>. QED BY <1>1, <1>2, TaskFields DEF MonitorInv, PlaceInv, SettingsInv, TypeInv

(* A step of the goroutine to another place, with or without a line in the log *)
LEMMA GotoSteps ==
  ASSUME MonitorInv, NEW n \in 1..Arrived, NEW pc \in pcs \ {"start"}, Goto(n, pc), updates[n].pc # "done",
         pc = "route" => updates[n].pc = "start", UNCHANGED <<members, known, settings>>
  PROVE  LET t == [updates[n] EXCEPT !.pc = pc] IN
         /\ Steps(n, t) /\ t.pc = pc /\ t.upd = updates[n].upd /\ t.due = updates[n].due
         /\ t.gone = updates[n].gone
         /\ t.who = updates[n].who /\ t.new = updates[n].new /\ t.todo = updates[n].todo
         /\ t.failed = updates[n].failed /\ t.unread = updates[n].unread /\ t.followed = updates[n].followed
<1> DEFINE t == [updates[n] EXCEPT !.pc = pc]
<1>1. updates' = [updates EXCEPT ![n] = t]
  BY DEF Goto
<1>2. updates[n] \in Task /\ known \subseteq People
  BY TaskFacts
<1>3. /\ t \in Task /\ t.pc = pc
      /\ t.upd = updates[n].upd /\ t.due = updates[n].due /\ t.who = updates[n].who
      /\ t.gone = updates[n].gone /\ t.unread = updates[n].unread /\ t.followed = updates[n].followed
      /\ t.new = updates[n].new /\ t.todo = updates[n].todo /\ t.failed = updates[n].failed
  BY <1>2, TaskPc
<1>4. Steps(n, t)
  BY <1>1, <1>2, <1>3 DEF Steps
<1>. QED BY <1>3, <1>4

(* Begin: it goes on only if monitoring is enabled. *)
LEMMA BeginInv ==
  ASSUME MonitorInv, NEW n \in 1..Arrived, Begin(n)
  PROVE  MonitorInv'
<1> DEFINE pc == IF enabled THEN "route" ELSE "done"
           t == [updates[n] EXCEPT !.pc = pc]
<1>1. updates[n].pc = "start" /\ Goto(n, pc) /\ UNCHANGED <<members, known, log, settings>>
  BY DEF Begin
<1>2. pc \in pcs \ {"start"} /\ pc \in {"route", "done"} /\ (pc = "route" => enabled)
  BY DEF pcs
<1>3. /\ Steps(n, t) /\ t.pc = pc /\ t.upd = updates[n].upd /\ t.due = updates[n].due
      /\ t.gone = updates[n].gone
      /\ t.todo = updates[n].todo /\ t.failed = updates[n].failed
  BY <1>1, <1>2, GotoSteps
<1>4. InPlace(updates[n], known)
  BY TaskFacts
<1>5. ~updates[n].due /\ ~updates[n].failed /\ ~updates[n].gone
  BY <1>1, <1>4 DEF InPlace
<1>6. IsPost(updates[n].upd) => updates[n].todo = {}
  BY DEF MonitorInv, PostInv
<1> HIDE DEF pc, t
<1>7. AnnounceInv'
  BY <1>1, <1>2, <1>3, AnnounceKept
<1>8. InPlace(t, known')
  BY <1>2, <1>3, <1>5 DEF InPlace
<1>9. Counted(t)
  BY <1>2, <1>3 DEF Counted
<1>10. t.pc \in postPcs
  BY <1>2, <1>3 DEF postPcs
<1>. QED BY <1>1, <1>2, <1>3, <1>5, <1>6, <1>7, <1>8, <1>9, <1>10, StepInv

(* Route: only what is followed goes on. *)
LEMMA RouteInv ==
  ASSUME MonitorInv, NEW n \in 1..Arrived, Route(n)
  PROVE  MonitorInv'
<1> DEFINE upd == updates[n].upd
<1>1. PICK ids \in GetMonitoredIDs :
        updates' = [updates EXCEPT
          ![n].pc = IF ~Follows(upd, ids) THEN "done"
                    ELSE IF upd.kind = "message" THEN "members"
                    ELSE IF upd.kind = "button" THEN "button"
                    ELSE IF Marks(upd) THEN "mark"
                    ELSE "report",
          ![n].followed = upd.chat \in monitored,
          ![n].due = upd.chat \in monitored /\ (upd.from \in known \/ Announced(upd.from)),
          ![n].unread = upd.chat \in monitored \ ids]
  BY DEF Route
<1> DEFINE pc == IF ~Follows(upd, ids) THEN "done"
                 ELSE IF upd.kind = "message" THEN "members"
                 ELSE IF upd.kind = "button" THEN "button"
                 ELSE IF Marks(upd) THEN "mark"
                 ELSE "report"
           followed == upd.chat \in monitored
           due == upd.chat \in monitored /\ (upd.from \in known \/ Announced(upd.from))
           unread == upd.chat \in monitored \ ids
           t == [updates[n] EXCEPT !.pc = pc, !.followed = followed, !.due = due, !.unread = unread]
<1>0. updates' = [updates EXCEPT ![n].pc = pc, ![n].followed = followed, ![n].due = due, ![n].unread = unread]
  BY <1>1
<1>2. /\ updates[n].pc = "route" /\ updates' = [updates EXCEPT ![n] = t]
      /\ UNCHANGED <<members, known, log, settings>>
  <2>1. updates[n].pc = "route" /\ UNCHANGED <<members, known, log, settings>>
    BY DEF Route
  <2> HIDE DEF pc, due, unread, followed, upd
  <2>2. updates' = [updates EXCEPT ![n] = t]
    BY <1>0
  <2>. QED BY <2>1, <2>2
<1>3. /\ updates[n] \in Task /\ upd \in Upd /\ InPlace(updates[n], known) /\ known \subseteq People
      /\ upd.kind \in {"message", "member", "button"}
  BY TaskFacts, UpdFields
<1>4. followed \in BOOLEAN /\ due \in BOOLEAN /\ unread \in BOOLEAN
  OBVIOUS
<1>5. /\ pc \in {"done", "members", "button", "mark", "report"}
      /\ pc = "members" => upd.kind = "message"
      /\ pc = "button" => upd.kind = "button"
      /\ pc \in {"mark", "report"} => upd.kind = "member"
      /\ upd.kind = "message" => pc \in {"done", "members"}
      /\ pc # "done" => Follows(upd, ids)
      /\ pc = "done" => ~Follows(upd, ids)
  BY <1>3
<1>6. pc # "done" => Allowed(n)
  <2>1. Follows(upd, ids) => Followed(n)
    BY DEF Follows, Followed, GetMonitoredIDs
  <2>2. enabled \/ n \in late
    BY <1>2 DEF MonitorInv, SettingsInv
  <2>. QED BY <1>5, <2>1, <2>2 DEF Allowed
<1>7. due => upd.from \in known
  BY AnnouncedKnown
<1>8. due /\ ~unread => pc # "done"
  BY <1>5 DEF Follows
<1>9. ~updates[n].failed /\ ~updates[n].gone
  BY <1>2, <1>3 DEF InPlace
<1>10. IsPost(upd) => updates[n].todo = {} /\ upd.kind = "message"
  BY DEF MonitorInv, PostInv, IsPost
<1>11. pc \in pcs
  BY <1>5 DEF pcs
<1> HIDE DEF pc, due, unread, followed, upd
<1>12. /\ t \in Task /\ t.pc = pc /\ t.upd = upd
       /\ t.gone = updates[n].gone /\ t.todo = updates[n].todo /\ t.failed = updates[n].failed
  BY <1>3, <1>4, <1>11 DEF Task, upd
<1>13. (t.due <=> due) /\ (t.unread <=> unread)
  BY <1>3 DEF Task
<1> HIDE DEF t
<1>14. Steps(n, t)
  BY <1>2, <1>3, <1>5, <1>7, <1>9, <1>12, <1>13 DEF Steps, upd
<1>15. AnnounceInv'
  BY <1>2, <1>5, <1>12, <1>14, AnnounceKept
<1>16. InPlace(t, known')
  BY <1>5, <1>9, <1>12 DEF InPlace
<1>17. Counted(t)
  BY <1>5, <1>12 DEF Counted
<1>18. IsPost(t.upd) => t.todo = {} /\ t.pc \in postPcs
  BY <1>5, <1>10, <1>12 DEF postPcs
<1>. QED BY <1>2, <1>5, <1>6, <1>8, <1>12, <1>13, <1>14, <1>15, <1>16, <1>17, <1>18, StepInv

(* Mark: who was not known is announced neither in the log nor elsewhere. *)
LEMMA MarkInv ==
  ASSUME MonitorInv, NEW n \in 1..Arrived, NEW u \in People, NEW otherwise \in {"joined", "report"},
         Mark(n, u, otherwise), updates[n].pc \in {"members", "mark"},
         updates[n].upd.kind = IF otherwise = "joined" THEN "message" ELSE "member",
         ~IsPost(updates[n].upd)
  PROVE  MonitorInv'
<1> DEFINE pc == IF u \notin known THEN "announce" ELSE otherwise
           t == [updates[n] EXCEPT !.who = u, !.pc = pc]
<1>1. /\ updates' = [updates EXCEPT ![n] = t] /\ known' = known \cup {u}
      /\ UNCHANGED <<members, log, settings>>
  BY DEF Mark
<1>2. updates[n] \in Task /\ known \subseteq People /\ InPlace(updates[n], known) /\ Allowed(n)
  BY TaskFacts
<1>3. pc \in pcs
  BY DEF pcs
<1>4. /\ t \in Task /\ t.pc = pc /\ t.who = u /\ t.upd = updates[n].upd /\ t.due = updates[n].due
      /\ t.gone = updates[n].gone
      /\ t.todo = updates[n].todo /\ t.failed = updates[n].failed
  BY <1>2, <1>3 DEF Task
<1>5. pc \in {"announce", "joined", "report"} /\ (pc = "announce" => u \notin known)
      /\ (pc = "joined" => otherwise = "joined") /\ (pc = "report" => otherwise = "report")
  OBVIOUS
<1> HIDE DEF pc, t
<1>6. Steps(n, t)
  BY <1>1, <1>2, <1>4, <1>5 DEF Steps
<1>7. InPlace(t, known')
  BY <1>1, <1>2, <1>4, <1>5 DEF InPlace
<1>8. AnnounceInv'
  <2>1. CASE pc # "announce"
    BY <1>1, <1>4, <1>6, <2>1, AnnounceKept
  <2>2. CASE pc = "announce"
    <3>1. \A m \in 1..Arrived : ~Announcing(m, u)
      BY <1>5, <2>2 DEF MonitorInv, PlaceInv, InPlace, Announcing
    <3>2. \A i \in DOMAIN log : ~Announcement(i, u)
      BY <1>5, <2>2 DEF MonitorInv, LogInv, Announcement
    <3>3. \A v, i : Announcement(i, v)' <=> Announcement(i, v)
      BY <1>1 DEF Announcement
    <3>4. ASSUME NEW v, NEW m \in 1..Arrived', Announcing(m, v)'
          PROVE  m \in 1..Arrived /\ (Announcing(m, v) \/ (m = n /\ v = u))
      BY <1>4, <1>6, <3>4, StepsFacts DEF Announcing
    <3>5. loaded' = loaded /\ u \notin loaded
      BY <1>5, <1>6, <2>2, StepsFacts DEF MonitorInv, TypeInv
    <3>. QED BY <1>1, <3>1, <3>2, <3>3, <3>4, <3>5 DEF MonitorInv, AnnounceInv
  <2>. QED BY <2>1, <2>2
<1>9. Allowed(n) /\ ~IsPost(t.upd) /\ t.pc \notin {"route", "done", "count", "classify"}
  BY <1>2, <1>4, <1>5
<1>10. Counted(t)
  BY <1>9 DEF Counted
<1>. QED BY <1>1, <1>6, <1>7, <1>8, <1>9, <1>10, StepInv

(* MarkMember and MarkTarget are steps of Mark. *)
LEMMA MarksInv ==
  ASSUME MonitorInv, NEW n \in 1..Arrived, MarkMember(n) \/ MarkTarget(n)
  PROVE  MonitorInv'
<1>1. updates[n].upd \in Upd /\ InPlace(updates[n], known)
  BY TaskFacts
<1>2. CASE MarkMember(n)
  <2>1. PICK u \in updates[n].todo \cap People : Mark(n, u, "joined")
    BY <1>2 DEF MarkMember
  <2>2. updates[n].pc = "members" /\ updates[n].upd.kind = "message"
    BY <1>1, <1>2 DEF MarkMember, InPlace
  <2>3. ~IsPost(updates[n].upd)
    BY <2>1 DEF MonitorInv, PostInv
  <2>. QED BY <2>1, <2>2, <2>3, MarkInv
<1>3. CASE MarkTarget(n)
  <2>1. updates[n].pc = "mark" /\ updates[n].upd.kind = "member"
    BY <1>1, <1>3 DEF MarkTarget, InPlace
  <2>2. updates[n].upd.target \in People /\ ~IsPost(updates[n].upd)
    BY <1>1, <2>1, UpdFields DEF IsPost
  <2>. QED BY <1>3, <2>1, <2>2, MarkInv DEF MarkTarget
<1>. QED BY <1>2, <1>3

(* Announce: the one goroutine that marked him *)
LEMMA AnnounceStepInv ==
  ASSUME MonitorInv, NEW n \in 1..Arrived, Announce(n)
  PROVE  MonitorInv'
<1> DEFINE t == [updates[n] EXCEPT !.pc = "flood"]
           u == updates[n].who
           e == Entry(n, "NEW_USER", u, TRUE, {})
<1>1. updates[n].pc = "announce" /\ Adds(e) /\ Goto(n, "flood") /\ UNCHANGED <<members, known, settings>>
  BY DEF Announce, Publish, Adds
<1>2. "flood" \in pcs /\ "NEW_USER" \in Categories /\ TRUE \in BOOLEAN
      /\ {} \in SUBSET {"FLOOD", "BOT_OP", "ZERO_MG"}
  BY DEF pcs, Categories
<1>3. /\ Steps(n, t) /\ t.pc = "flood" /\ t.upd = updates[n].upd /\ t.due = updates[n].due
      /\ t.gone = updates[n].gone
      /\ t.who = u /\ t.failed = updates[n].failed
  BY <1>1, <1>2, GotoSteps
<1>4. InPlace(updates[n], known) /\ Allowed(n) /\ known \subseteq People /\ n \in Nat
  BY <1>1, TaskFacts
<1>5. u \in known /\ u \in Authors
  BY <1>1, <1>4 DEF InPlace, Authors
<1>6. e \in Line /\ e.update = n /\ e.category = "NEW_USER" /\ e.user = u
  BY <1>2, <1>4, <1>5 DEF Entry, Line
<1>7. e.tags = {}
  BY DEF Entry
<1>8. ~IsPost(updates[n].upd)
  BY <1>1 DEF MonitorInv, PostInv, postPcs
<1>9. /\ updates[n].upd.kind \in {"message", "member"} /\ ~updates[n].failed /\ ~updates[n].gone
      /\ u \in known' /\ known' = known
  BY <1>1, <1>4, <1>5 DEF InPlace
<1> HIDE DEF t, u, e
<1>10. InPlace(t, known')
  BY <1>3, <1>9 DEF InPlace
<1>11. AnnounceInv'
  <2>1. Announcing(n, u)
    BY <1>1 DEF Announcing, u
  <2>2. ASSUME NEW v, NEW m \in 1..Arrived', Announcing(m, v)'
        PROVE  m \in 1..Arrived /\ m # n /\ Announcing(m, v)
    BY <1>3, <2>2, StepsFacts DEF Announcing
  <2>3. ASSUME NEW v, NEW i \in DOMAIN log', Announcement(i, v)'
        PROVE  \/ i \in DOMAIN log /\ Announcement(i, v)
               \/ i = Len(log) + 1 /\ v = u
    BY <1>1, <1>6, <2>3, AddsFacts DEF Announcement
  <2>4. u \in People
    BY <1>4, <1>5
  <2>5. \A m \in 1..Arrived : Announcing(m, u) => m = n
    BY <2>1, <2>4 DEF MonitorInv, AnnounceInv
  <2>6. \A i \in DOMAIN log : ~Announcement(i, u)
    BY <2>1, <2>4 DEF MonitorInv, AnnounceInv
  <2>7. u \notin loaded /\ loaded' = loaded
    BY <1>1, <2>1, <2>4 DEF MonitorInv, AnnounceInv, settings
  <2>. QED BY <2>2, <2>3, <2>5, <2>6, <2>7 DEF MonitorInv, AnnounceInv
<1>12. /\ e.new \/ e.category = "NEW_USER" => e.user \in known'
       /\ "ZERO_MG" \notin e.tags
  BY <1>6, <1>7, <1>9
<1>13. Counted(t)
  BY <1>3 DEF Counted
<1>. QED BY <1>1, <1>3, <1>4, <1>6, <1>8, <1>10, <1>11, <1>12, <1>13, StepInv

(* The steps that log nothing but what has been known *)
LEMMA LoggedInv ==
  ASSUME MonitorInv, NEW n \in 1..Arrived, NEW t, Steps(n, t), updates[n].pc \notin {"start", "route", "done"},
         known' = known, InPlace(t, known), t.pc \notin {"route", "announce", "classify"},
         IsPost(t.upd) => t.todo = {} /\ t.pc \in {"members", "author", "count"},
         t.due /\ t.pc = "count" => t.new,
         \/ log' = log
         \/ \E e \in Line : /\ Adds(e) /\ e.update = n /\ e.category # "NEW_USER" /\ "ZERO_MG" \notin e.tags
                            /\ e.new => e.user \in known
  PROVE  MonitorInv'
<1>1. Allowed(n)
  BY TaskFacts
<1>2. AnnounceInv'
  BY AnnounceKept
<1>3. IsPost(t.upd) => t.pc # "done" /\ t.pc \in postPcs
  BY DEF postPcs
<1>4. Counted(t)
  BY DEF Counted
<1>. QED BY <1>1, <1>2, <1>3, <1>4, StepInv

(* CheckFlood: who is condemned in a flood is no ZERO_MG case. *)
LEMMA CheckFloodInv ==
  ASSUME MonitorInv, NEW n \in 1..Arrived, CheckFlood(n)
  PROVE  MonitorInv'
<1> DEFINE pc == IF updates[n].upd.kind = "message" THEN "joined" ELSE "report"
           t == [updates[n] EXCEPT !.pc = pc]
           u == updates[n].who
           e == Entry(n, "SPAM_CONFIRMED", u, TRUE, {"FLOOD"})
<1>1. /\ updates[n].pc = "flood" /\ (log' = log \/ Adds(e))
      /\ Goto(n, pc) /\ UNCHANGED <<members, known, settings>>
  BY DEF CheckFlood, AfterMark, Publish, Adds
<1>2. /\ pc \in pcs /\ "SPAM_CONFIRMED" \in Categories /\ TRUE \in BOOLEAN
      /\ {"FLOOD"} \in SUBSET {"FLOOD", "BOT_OP", "ZERO_MG"}
  BY DEF pcs, Categories
<1>3. /\ Steps(n, t) /\ t.pc = pc /\ t.upd = updates[n].upd /\ t.due = updates[n].due
      /\ t.gone = updates[n].gone
      /\ t.who = u /\ t.failed = updates[n].failed
  BY <1>1, <1>2, GotoSteps
<1>4. InPlace(updates[n], known) /\ known \subseteq People /\ n \in Nat
  BY <1>1, TaskFacts
<1>5. u \in known /\ u \in Authors
  BY <1>1, <1>4 DEF InPlace, Authors
<1>6. e \in Line /\ e.update = n /\ e.category = "SPAM_CONFIRMED" /\ e.user = u
  BY <1>2, <1>4, <1>5 DEF Entry, Line
<1>7. "ZERO_MG" \notin e.tags
  BY DEF Entry
<1>8. ~IsPost(updates[n].upd)
  BY <1>1 DEF MonitorInv, PostInv, postPcs
<1>9. /\ updates[n].upd.kind \in {"message", "member"} /\ ~updates[n].failed /\ ~updates[n].gone
      /\ pc = IF updates[n].upd.kind = "message" THEN "joined" ELSE "report"
  BY <1>1, <1>4 DEF InPlace
<1> HIDE DEF t, u, e, pc
<1>10. InPlace(t, known)
  BY <1>3, <1>5, <1>9 DEF InPlace
<1>. QED BY <1>1, <1>3, <1>5, <1>6, <1>7, <1>8, <1>9, <1>10, LoggedInv

(* Joined: of a member who has been marked *)
LEMMA JoinedInv ==
  ASSUME MonitorInv, NEW n \in 1..Arrived, Joined(n)
  PROVE  MonitorInv'
<1> DEFINE u == updates[n].who
           t == [updates[n] EXCEPT !.pc = "members", !.todo = @ \ {u}]
           e == Entry(n, "JOIN", u, TRUE, {})
<1>1. /\ updates[n].pc = "joined" /\ Adds(e) /\ updates' = [updates EXCEPT ![n] = t]
      /\ UNCHANGED <<members, known, settings>>
  BY DEF Joined, Publish, Adds
<1>2. "JOIN" \in Categories /\ TRUE \in BOOLEAN /\ {} \in SUBSET {"FLOOD", "BOT_OP", "ZERO_MG"}
  BY DEF Categories
<1>3. /\ InPlace(updates[n], known) /\ known \subseteq People /\ n \in Nat /\ updates[n] \in Task
  BY TaskFacts
<1>4. /\ t \in Task /\ t.pc = "members" /\ t.upd = updates[n].upd /\ t.due = updates[n].due
      /\ t.gone = updates[n].gone
      /\ t.failed = updates[n].failed
  BY <1>3 DEF Task, pcs
<1>5. u \in known /\ u \in Authors /\ updates[n].upd.kind = "message" /\ ~updates[n].failed /\ ~updates[n].gone
  BY <1>1, <1>3 DEF InPlace, Authors
<1>6. e \in Line /\ e.update = n /\ e.category = "JOIN" /\ e.user = u
  BY <1>2, <1>3, <1>5 DEF Entry, Line
<1>7. "ZERO_MG" \notin e.tags
  BY DEF Entry
<1>8. ~IsPost(updates[n].upd)
  BY <1>1 DEF MonitorInv, PostInv, postPcs
<1> HIDE DEF t, u, e
<1>9. Steps(n, t)
  BY <1>1, <1>3, <1>4 DEF Steps
<1>10. InPlace(t, known)
  BY <1>4, <1>5 DEF InPlace
<1>. QED BY <1>1, <1>4, <1>5, <1>6, <1>7, <1>8, <1>9, <1>10, LoggedInv

(* BotJoined: bots are not marked. *)
LEMMA BotJoinedInv ==
  ASSUME MonitorInv, NEW n \in 1..Arrived, BotJoined(n)
  PROVE  MonitorInv'
<1>1. PICK b \in updates[n].todo \cap Bots :
        /\ Publish(n, "BOT_JOIN", b, FALSE, {})
        /\ updates' = [updates EXCEPT ![n].todo = @ \ {b}]
  BY DEF BotJoined
<1> DEFINE t == [updates[n] EXCEPT !.todo = @ \ {b}]
           e == Entry(n, "BOT_JOIN", b, FALSE, {})
<1>2. /\ updates[n].pc = "members" /\ Adds(e) /\ updates' = [updates EXCEPT ![n] = t]
      /\ UNCHANGED <<members, known, settings>>
  BY <1>1 DEF BotJoined, Publish, Adds
<1>3. /\ "BOT_JOIN" \in Categories /\ FALSE \in BOOLEAN /\ {} \in SUBSET {"FLOOD", "BOT_OP", "ZERO_MG"}
      /\ b \in Authors
  BY DEF Categories, Authors
<1>4. /\ InPlace(updates[n], known) /\ known \subseteq People /\ n \in Nat /\ updates[n] \in Task
  BY TaskFacts
<1>5. /\ t \in Task /\ t.pc = updates[n].pc /\ t.upd = updates[n].upd /\ t.due = updates[n].due
      /\ t.gone = updates[n].gone
      /\ t.failed = updates[n].failed
  BY <1>4 DEF Task
<1>6. updates[n].upd.kind = "message" /\ ~updates[n].failed /\ ~updates[n].gone
  BY <1>2, <1>4 DEF InPlace
<1>7. e \in Line /\ e.update = n /\ e.category = "BOT_JOIN"
  BY <1>3, <1>4 DEF Entry, Line
<1>8. "ZERO_MG" \notin e.tags /\ ~e.new
  BY DEF Entry
<1>9. ~IsPost(updates[n].upd)
  BY DEF MonitorInv, PostInv
<1> HIDE DEF t, e
<1>10. Steps(n, t)
  BY <1>2, <1>4, <1>5 DEF Steps
<1>11. InPlace(t, known)
  BY <1>2, <1>5, <1>6 DEF InPlace
<1>. QED BY <1>2, <1>5, <1>7, <1>8, <1>9, <1>10, <1>11, LoggedInv

(* Left: whether somebody left or not, the author is next. *)
LEMMA LeftInv ==
  ASSUME MonitorInv, NEW n \in 1..Arrived, Left(n)
  PROVE  MonitorInv'
<1> DEFINE upd == updates[n].upd
           pc == IF upd.from = NoOne THEN "done" ELSE "author"
           t == [updates[n] EXCEPT !.pc = pc]
<1>1. /\ updates[n].pc = "members" /\ updates[n].todo = {}
      /\ Goto(n, pc) /\ UNCHANGED <<members, known, settings>>
      /\ log' = log \/ \E u \in upd.left : Adds(Entry(n, "LEAVE", u, FALSE, {}))
  BY DEF Left, Publish, Adds
<1>2. InPlace(updates[n], known) /\ upd \in Upd /\ n \in Nat
  BY TaskFacts
<1>3. upd.kind = "message" /\ ~updates[n].failed /\ ~updates[n].gone /\ upd.left \subseteq People
  BY <1>1, <1>2, UpdFields DEF InPlace
<1>4. pc \in pcs
  BY DEF pcs
<1>5. /\ Steps(n, t) /\ t.pc = pc /\ t.upd = upd /\ t.due = updates[n].due
      /\ t.gone = updates[n].gone
      /\ t.todo = updates[n].todo /\ t.failed = updates[n].failed
  BY <1>1, <1>4, GotoSteps
<1>6. ASSUME NEW u \in upd.left, NEW e, e = Entry(n, "LEAVE", u, FALSE, {})
      PROVE  e \in Line /\ e.update = n /\ e.category = "LEAVE" /\ "ZERO_MG" \notin e.tags /\ ~e.new
  <2>1. /\ "LEAVE" \in Categories /\ FALSE \in BOOLEAN /\ {} \in SUBSET {"FLOOD", "BOT_OP", "ZERO_MG"}
        /\ u \in Authors
    BY <1>3 DEF Categories, Authors
  <2>2. e \in Line /\ e.update = n /\ e.category = "LEAVE"
    BY <1>2, <1>6, <2>1 DEF Entry, Line
  <2>3. "ZERO_MG" \notin e.tags /\ ~e.new
    BY <1>6 DEF Entry
  <2>. QED BY <2>2, <2>3
<1>7. \/ log' = log
      \/ \E e \in Line : /\ Adds(e) /\ e.update = n /\ e.category # "NEW_USER" /\ "ZERO_MG" \notin e.tags
                         /\ e.new => e.user \in known
  BY <1>1, <1>6
<1>8. pc \in {"done", "author"} /\ (upd.from = NoOne => pc = "done") /\ (upd.from # NoOne => pc = "author")
  OBVIOUS
<1>9. IsPost(upd) => pc = "author"
  BY MonitorAssumption DEF IsPost
<1> HIDE DEF t, pc, upd
<1>10. InPlace(t, known)
  BY <1>3, <1>5, <1>8 DEF InPlace
<1>. QED BY <1>1, <1>5, <1>7, <1>8, <1>9, <1>10, LoggedInv

(* Author: who has been announced is found in the tracker. *)
LEMMA AuthorInv ==
  ASSUME MonitorInv, NEW n \in 1..Arrived, Author(n)
  PROVE  MonitorInv'
<1> DEFINE new == updates[n].upd.from \in known
           t == [updates[n] EXCEPT !.pc = "count", !.new = new]
<1>1. /\ updates[n].pc = "author" /\ updates' = [updates EXCEPT ![n] = t]
      /\ UNCHANGED <<members, known, log, settings>>
  BY DEF Author
<1>2. InPlace(updates[n], known) /\ updates[n] \in Task /\ known \subseteq People
  BY TaskFacts
<1>3. new \in BOOLEAN
  OBVIOUS
<1>4. /\ t \in Task /\ t.pc = "count" /\ t.upd = updates[n].upd /\ t.due = updates[n].due
      /\ t.gone = updates[n].gone
      /\ t.todo = updates[n].todo /\ t.failed = updates[n].failed
  BY <1>2, <1>3 DEF Task, pcs
<1>5. t.new <=> new
  BY <1>2 DEF Task
<1>6. /\ updates[n].upd.kind = "message" /\ updates[n].upd.from # NoOne /\ ~updates[n].failed /\ ~updates[n].gone
  BY <1>1, <1>2 DEF InPlace
<1>7. /\ updates[n].due => new
      /\ IsPost(updates[n].upd) => updates[n].todo = {}
  BY DEF MonitorInv, PostInv
<1> HIDE DEF t, new
<1>8. Steps(n, t)
  BY <1>1, <1>2, <1>4 DEF Steps
<1>9. InPlace(t, known)
  BY <1>4, <1>5, <1>6 DEF InPlace, new
<1>. QED BY <1>1, <1>4, <1>5, <1>7, <1>8, <1>9, LoggedInv

(* Count: whatever group a member wrote in is asked about. *)
LEMMA CountStepInv ==
  ASSUME MonitorInv, NEW n \in 1..Arrived, Count(n)
  PROVE  MonitorInv'
<1> DEFINE upd == updates[n].upd
<1>1. updates[n].pc = "count" /\ UNCHANGED <<members, known, log, settings>>
  BY DEF Count
<1>2. /\ InPlace(updates[n], known) /\ updates[n] \in Task /\ upd \in Upd /\ known \subseteq People
      /\ Allowed(n) /\ monitored \subseteq Chats
  BY <1>1, TaskFacts DEF MonitorInv, TypeInv
<1>3. /\ upd.kind = "message" /\ upd.from # NoOne /\ ~updates[n].failed /\ ~updates[n].gone
      /\ updates[n].new => upd.from \in known
  BY <1>1, <1>2 DEF InPlace
<1>4. (IsPost(upd) => updates[n].todo = {}) /\ (updates[n].due => updates[n].new)
  BY <1>1 DEF MonitorInv, PostInv
<1>5. ASSUME NEW t \in Task, updates' = [updates EXCEPT ![n] = t],
             t.pc = "classify", t.upd = upd, t.due = updates[n].due, t.new = updates[n].new,
             t.todo = updates[n].todo, Counted(t)
      PROVE  MonitorInv'
  <2>1. Steps(n, t)
    BY <1>1, <1>2, <1>3, <1>5 DEF Steps
  <2>2. AnnounceInv'
    BY <1>1, <1>5, <2>1, AnnounceKept
  <2>3. InPlace(t, known')
    BY <1>1, <1>3, <1>5 DEF InPlace
  <2>4. t.pc \in postPcs
    BY <1>5 DEF postPcs
  <2> HIDE DEF upd
  <2>. QED BY <1>1, <1>2, <1>4, <1>5, <2>1, <2>2, <2>3, <2>4, StepInv
<1>6. CASE IsBot(upd.from) /\ Goto(n, "classify")
  <2> DEFINE t == [updates[n] EXCEPT !.pc = "classify"]
  <2>1. updates' = [updates EXCEPT ![n] = t]
    BY <1>6 DEF Goto
  <2>2. /\ t \in Task /\ t.pc = "classify" /\ t.upd = upd /\ t.due = updates[n].due
        /\ t.new = updates[n].new /\ t.todo = updates[n].todo
    BY <1>2, TaskPc DEF pcs
  <2> HIDE DEF t
  <2>3. Counted(t)
    BY <1>6, <2>2, MonitorAssumption DEF Counted, IsBot
  <2>. QED BY <1>5, <2>1, <2>2, <2>3
<1>7. ASSUME NEW ids \in GetMonitoredIDs,
             updates' = [updates EXCEPT ![n].pc = "classify", ![n].ask = ids,
               ![n].gone = upd.chat \notin monitored, ![n].failed = ids # monitored]
      PROVE  MonitorInv'
  <2> DEFINE gone == upd.chat \notin monitored
             failed == ids # monitored
             t == [updates[n] EXCEPT !.pc = "classify", !.ask = ids, !.gone = gone, !.failed = failed]
  <2>1. updates' = [updates EXCEPT ![n] = t]
    BY <1>7
  <2>2. ids \subseteq Chats /\ gone \in BOOLEAN /\ failed \in BOOLEAN
    BY <1>2 DEF GetMonitoredIDs
  <2>3. ~gone /\ ~failed => upd.chat \in ids
    OBVIOUS
  <2> HIDE DEF gone, failed, upd
  <2>4. /\ t \in Task /\ t.pc = "classify" /\ t.upd = upd /\ t.due = updates[n].due
        /\ t.new = updates[n].new /\ t.todo = updates[n].todo /\ t.ask = ids
    BY <1>2, <2>2 DEF Task, pcs, upd
  <2>5. (t.gone <=> gone) /\ (t.failed <=> failed)
    BY <1>2 DEF Task
  <2> HIDE DEF t
  <2>6. Counted(t)
    BY <2>3, <2>4, <2>5 DEF Counted
  <2>. QED BY <1>5, <2>1, <2>4, <2>6
<1>. QED BY <1>6, <1>7 DEF Count

(* Ask: his group counts, unless the call fails or he left. *)
LEMMA AskInv ==
  ASSUME MonitorInv, NEW n \in 1..Arrived, Ask(n)
  PROVE  MonitorInv'
<1> DEFINE upd == updates[n].upd
<1>1. updates[n].pc = "classify" /\ UNCHANGED <<members, known, log, settings>>
  BY DEF Ask
<1>2. /\ InPlace(updates[n], known) /\ updates[n] \in Task /\ upd \in Upd /\ known \subseteq People
      /\ Allowed(n) /\ updates[n].ask \subseteq Chats /\ updates[n].mutual \in Nat
      /\ updates[n].failed \in BOOLEAN /\ updates[n].gone \in BOOLEAN
  BY <1>1, TaskFacts, TaskFields
<1>3. /\ upd.kind = "message" /\ upd.from # NoOne
      /\ updates[n].new => upd.from \in known
  BY <1>1, <1>2 DEF InPlace
<1>4. (IsPost(upd) => updates[n].todo = {}) /\ (updates[n].due => updates[n].new)
  BY <1>1 DEF MonitorInv, PostInv
<1>5. ASSUME NEW t \in Task, updates' = [updates EXCEPT ![n] = t],
             t.pc = "classify", t.upd = upd, t.due = updates[n].due, t.new = updates[n].new,
             t.todo = updates[n].todo, t.gone = updates[n].gone, updates[n].failed => t.failed,
             upd.byMember /\ upd.from \in People /\ ~t.failed /\ ~t.gone
               => LeftSince(upd, upd.from) \/ upd.chat \in t.ask \/ t.mutual > 0
      PROVE  MonitorInv'
  <2>1. Steps(n, t)
    BY <1>1, <1>2, <1>5 DEF Steps
  <2>2. AnnounceInv'
    BY <1>1, <1>5, <2>1, AnnounceKept
  <2>3. InPlace(t, known')
    BY <1>1, <1>3, <1>5 DEF InPlace
  <2>4. t.pc \in postPcs
    BY <1>5 DEF postPcs
  <2>5. Counted(t)
    BY <1>5 DEF Counted
  <2> HIDE DEF upd
  <2>. QED BY <1>1, <1>2, <1>4, <1>5, <2>1, <2>2, <2>3, <2>4, <2>5, StepInv
<1>6. upd.byMember /\ upd.from \in People /\ ~updates[n].failed /\ ~updates[n].gone
        => LeftSince(upd, upd.from) \/ upd.chat \in updates[n].ask \/ updates[n].mutual > 0
  BY <1>1 DEF MonitorInv, CountInv, Counted
<1>7. upd.byMember => upd.from \in members[upd.chat] \/ LeftSince(upd, upd.from)
  BY <1>3 DEF MonitorInv, MemberInv, MemberOrLeft
<1>8. PICK g \in updates[n].ask :
        \/ updates' = [updates EXCEPT
             ![n].ask = @ \ {g}, ![n].mutual = IF Shares(upd.from, g, upd.chat) THEN @ + 1 ELSE @]
        \/ updates' = [updates EXCEPT ![n].ask = @ \ {g}, ![n].failed = TRUE]
  BY DEF Ask
<1>9. CASE updates' = [updates EXCEPT
             ![n].ask = @ \ {g}, ![n].mutual = IF Shares(upd.from, g, upd.chat) THEN @ + 1 ELSE @]
  <2> DEFINE ask == updates[n].ask \ {g}
             mutual == IF Shares(upd.from, g, upd.chat) THEN updates[n].mutual + 1 ELSE updates[n].mutual
             t == [updates[n] EXCEPT !.ask = ask, !.mutual = mutual]
  <2>1. updates' = [updates EXCEPT ![n] = t]
    BY <1>9
  <2>2. /\ mutual \in Nat /\ (updates[n].mutual > 0 => mutual > 0)
        /\ upd.from \in members[g] => mutual > 0
    <3>1. PICK m \in Nat : m = updates[n].mutual
      BY <1>2
    <3>2. m + 1 \in Nat /\ m + 1 > 0
      BY <3>1
    <3>. QED BY <3>1, <3>2 DEF Shares
  <2>3. /\ ask \subseteq Chats
        /\ upd.chat \in updates[n].ask => upd.chat \in ask \/ upd.chat = g
    BY <1>2
  <2> HIDE DEF ask, mutual, upd
  <2>4. /\ t \in Task /\ t.pc = updates[n].pc /\ t.upd = upd /\ t.due = updates[n].due
        /\ t.new = updates[n].new /\ t.todo = updates[n].todo /\ t.gone = updates[n].gone
        /\ t.failed = updates[n].failed /\ t.ask = ask /\ t.mutual = mutual
    BY <1>2, <2>2, <2>3 DEF Task, upd
  <2> HIDE DEF t
  <2>. QED BY <1>1, <1>5, <1>6, <1>7, <2>1, <2>2, <2>3, <2>4
<1>10. CASE updates' = [updates EXCEPT ![n].ask = @ \ {g}, ![n].failed = TRUE]
  <2> DEFINE ask == updates[n].ask \ {g}
             t == [updates[n] EXCEPT !.ask = ask, !.failed = TRUE]
  <2>1. updates' = [updates EXCEPT ![n] = t]
    BY <1>10
  <2>2. ask \subseteq Chats
    BY <1>2
  <2> HIDE DEF ask, upd
  <2>3. /\ t \in Task /\ t.pc = updates[n].pc /\ t.upd = upd /\ t.due = updates[n].due
        /\ t.new = updates[n].new /\ t.todo = updates[n].todo /\ t.gone = updates[n].gone
    BY <1>2, <2>2 DEF Task, upd
  <2>4. t.failed
    BY <1>2 DEF Task
  <2> HIDE DEF t
  <2>. QED BY <1>1, <1>5, <2>1, <2>3, <2>4
<1>. QED BY <1>8, <1>9, <1>10

(* What Classify logs is never NEW_USER, and ZERO_MG only as it says. *)
LEMMA CategoryFacts ==
  ASSUME NEW upd, NEW isNew, NEW zero, IsBot(upd.from) \/ isNew \/ zero
  PROVE  /\ Category(upd, isNew, zero) \in Categories \ {"NEW_USER"}
         /\ Tags(upd, zero) \in SUBSET {"FLOOD", "BOT_OP", "ZERO_MG"}
         /\ "ZERO_MG" \in Tags(upd, zero) => zero
<1>1. Category(upd, isNew, zero) \in {"BOT_MSG", "SPAM_CONFIRMED", "NEW_MSG"}
  <2>1. CASE IsBot(upd.from)
    BY <2>1 DEF Category
  <2>2. CASE ~IsBot(upd.from) /\ zero
    BY <2>2 DEF Category
  <2>3. CASE ~IsBot(upd.from) /\ ~zero
    BY <2>3 DEF Category
  <2>. QED BY <2>1, <2>2, <2>3
<1>. QED BY <1>1 DEF Categories, Tags

(* A member is condemned for want of a group only where something failed, *)
(* his own was removed or he left.                                        *)
LEMMA MemberFound ==
  ASSUME MonitorInv, NEW n \in 1..Arrived, updates[n].pc = "classify", updates[n].ask = {},
         updates[n].mutual = 0, ~IsBot(updates[n].upd.from), updates[n].upd.byMember
  PROVE  \/ updates[n].failed \/ updates[n].gone
         \/ LeftSince(updates[n].upd, updates[n].upd.from)
<1>1. updates[n].upd \in Upd /\ InPlace(updates[n], known)
  BY TaskFacts
<1>2. updates[n].upd.from \in People
  BY <1>1, UpdFields DEF InPlace, IsBot, Authors
<1>3. ~(updates[n].mutual > 0)
  OBVIOUS
<1>. QED BY <1>2, <1>3 DEF MonitorInv, CountInv, Counted

(* Classify: a post that is due is logged, a member is spared. *)
LEMMA ClassifyInv ==
  ASSUME MonitorInv, NEW n \in 1..Arrived, Classify(n)
  PROVE  MonitorInv'
<1> DEFINE upd == updates[n].upd
           isNew == updates[n].new
           zero == ~IsBot(upd.from) /\ updates[n].mutual = 0
           silent == ~IsBot(upd.from) /\ ~isNew /\ ~zero
           e == Entry(n, Category(upd, isNew, zero), upd.from, isNew, Tags(upd, zero))
           t == [updates[n] EXCEPT !.pc = "done"]
<1>1. /\ updates[n].pc = "classify" /\ updates[n].ask = {}
      /\ (silent /\ log' = log) \/ (~silent /\ Adds(e))
      /\ Goto(n, "done") /\ UNCHANGED <<members, known, settings>>
  BY DEF Classify, Publish, Adds
<1>2. /\ n \in Nat /\ updates[n] \in Task /\ upd \in Upd /\ InPlace(updates[n], known) /\ Allowed(n)
      /\ known \subseteq People
  BY <1>1, TaskFacts
<1>3. upd.kind = "message" /\ upd.from \in Authors /\ isNew \in BOOLEAN /\ (isNew => upd.from \in known)
  BY <1>1, <1>2, UpdFields, TaskFields DEF InPlace
<1>4. "done" \in pcs \ {"start"}
  BY DEF pcs
<1>5. /\ Steps(n, t) /\ t.pc = "done" /\ t.upd = upd /\ t.due = updates[n].due
      /\ t.gone = updates[n].gone /\ t.failed = updates[n].failed /\ t.todo = updates[n].todo
  BY <1>1, <1>4, GotoSteps
<1> HIDE DEF t
<1>6. InPlace(t, known')
  BY <1>5 DEF InPlace
<1>7. ASSUME NEW x, x = e, ~silent
      PROVE  /\ x \in Line /\ x.update = n /\ x.category # "NEW_USER" /\ x.user = upd.from
             /\ x.new <=> isNew
             /\ "ZERO_MG" \in x.tags => zero
  <2> DEFINE category == Category(upd, isNew, zero)
             tags == Tags(upd, zero)
  <2>1. /\ category \in Categories \ {"NEW_USER"} /\ tags \in SUBSET {"FLOOD", "BOT_OP", "ZERO_MG"}
        /\ "ZERO_MG" \in tags => zero
    BY <1>7, CategoryFacts
  <2>2. x = Entry(n, category, upd.from, isNew, tags)
    BY <1>7
  <2> HIDE DEF category, tags, zero, isNew, upd
  <2>3. x \in Line /\ x.update = n /\ x.category = category /\ x.user = upd.from /\ x.tags = tags
    BY <1>2, <1>3, <2>1, <2>2 DEF Entry, Line
  <2>4. x.new <=> isNew
    BY <2>2 DEF Entry
  <2>. QED BY <2>1, <2>3, <2>4
<1>8. ASSUME NEW x \in Line, x.update = n, x.user = upd.from, zero
      PROVE  Spared(x)'
  <2>1. ~upd.byMember \/ updates[n].failed \/ updates[n].gone \/ LeftSince(upd, upd.from)
    BY <1>1, <1>8, MemberFound
  <2>2. updates'[n] = t
    BY <1>5, StepsFacts
  <2>3. PICK v, u : v \in Upd /\ v = upd /\ u = upd.from /\ v = t.upd
    BY <1>2, <1>5
  <2>4. LeftSince(v, u) => LeftSince(v, u)'
    BY <1>3, <1>5, <2>3, LeftSinceKept
  <2> HIDE DEF upd
  <2>. QED BY <1>3, <1>5, <1>8, <2>1, <2>2, <2>3, <2>4 DEF Spared, LeftSince
<1>9. \/ log' = log
      \/ \E x \in Line :
           /\ Adds(x) /\ x.update = n /\ x.category # "NEW_USER"
           /\ x.new => x.user \in known'
           /\ x.category = "SPAM_CONFIRMED" /\ "ZERO_MG" \in x.tags => Spared(x)'
  <2>1. CASE silent
    BY <1>1, <2>1
  <2>2. CASE ~silent
    <3>1. PICK x : x = e /\ Adds(x)
      BY <1>1, <2>2
    <3>2. /\ x \in Line /\ x.update = n /\ x.category # "NEW_USER" /\ x.user = upd.from
          /\ x.new <=> isNew
          /\ "ZERO_MG" \in x.tags => zero
      BY <1>7, <2>2, <3>1
    <3> HIDE DEF zero, upd, isNew, e
    <3>. QED BY <1>1, <1>3, <1>8, <3>1, <3>2
  <2>. QED BY <2>1, <2>2
<1>10. AnnounceInv'
  BY <1>5, <1>9, AnnounceKept
<1>11. ASSUME updates[n].due, IsPost(upd)
       PROVE  \E x \in Published' : x.update = n /\ x.user = upd.from /\ x.new
  <2>1. isNew /\ ~silent
    BY <1>1, <1>11 DEF MonitorInv, PostInv
  <2>2. PICK x : x = e /\ Adds(x)
    BY <1>1, <2>1
  <2>3. x \in Line /\ x.update = n /\ x.user = upd.from /\ x.new
    BY <1>7, <2>1, <2>2
  <2>. QED BY <2>2, <2>3, AddsFacts
<1>12. IsPost(upd) => updates[n].todo = {}
  BY DEF MonitorInv, PostInv
<1>13. t.pc \in postPcs
  BY <1>5 DEF postPcs
<1>14. Counted(t)
  BY <1>5 DEF Counted
<1> HIDE DEF upd, isNew, zero, silent, e
<1>. QED BY <1>1, <1>2, <1>5, <1>6, <1>9, <1>10, <1>11, <1>12, <1>13, <1>14, StepInv

(* Report and Press end with a line about somebody who may be known. *)
LEMMA ReportedInv ==
  ASSUME MonitorInv, NEW n \in 1..Arrived, updates[n].pc \in {"report", "button"},
         updates[n].upd.kind # "message",
         NEW category \in {"RESTRICT", "BAN", "REMOVE", "PROMOTE", "ADMIN", "BUTTON"},
         NEW user \in Authors, NEW new \in BOOLEAN, new => user \in known,
         NEW tags \in SUBSET {"BOT_OP"},
         Publish(n, category, user, new, tags), Goto(n, "done"), UNCHANGED <<members, known, settings>>
  PROVE  MonitorInv'
<1> DEFINE t == [updates[n] EXCEPT !.pc = "done"]
<1>1. "done" \in pcs /\ n \in Nat /\ InPlace(updates[n], known)
  BY TaskFacts DEF pcs
<1>2. Steps(n, t) /\ t.pc = "done" /\ t.upd = updates[n].upd
  BY <1>1, GotoSteps
<1>3. PICK e : e = Entry(n, category, user, new, tags)
  OBVIOUS
<1>4. e \in Line /\ e.update = n /\ e.category = category /\ e.user = user /\ e.tags = tags
  BY <1>1, <1>3 DEF Entry, Line, Categories
<1>5. e.new <=> new
  BY <1>3 DEF Entry
<1>6. ~IsPost(t.upd)
  BY <1>2 DEF IsPost
<1>7. InPlace(t, known)
  <2> HIDE DEF t
  <2>. QED BY <1>2 DEF InPlace
<1>8. /\ Adds(e) /\ e.update = n /\ e.category # "NEW_USER" /\ "ZERO_MG" \notin e.tags
      /\ e.new => e.user \in known
  BY <1>3, <1>4, <1>5 DEF Publish, Adds
<1> HIDE DEF t
<1>. QED BY <1>2, <1>4, <1>6, <1>7, <1>8, LoggedInv

(* Report and Press *)
LEMMA ReportsInv ==
  ASSUME MonitorInv, NEW n \in 1..Arrived, Report(n) \/ Press(n)
  PROVE  MonitorInv'
<1> DEFINE upd == updates[n].upd
<1>1. upd \in Upd /\ InPlace(updates[n], known)
  BY TaskFacts
<1>2. Goto(n, "done") /\ UNCHANGED <<members, known, settings>>
  BY DEF Report, Press
<1>3. CASE Report(n)
  <2> DEFINE category == StatusCategory(upd.status)
             new == upd.target \in known
             tags == IF upd.from \in VerifyBots /\ new THEN {"BOT_OP"} ELSE {}
  <2>1. updates[n].pc = "report" /\ Publish(n, category, upd.target, new, tags)
    BY <1>3 DEF Report
  <2>2. upd.kind = "member" /\ upd.target \in Authors /\ upd.status \in Statuses
    BY <1>1, <2>1, UpdFields DEF InPlace, Authors
  <2>3. category \in {"RESTRICT", "BAN", "REMOVE", "PROMOTE", "ADMIN", "BUTTON"}
    BY <2>2 DEF StatusCategory, Statuses
  <2>4. new \in BOOLEAN /\ (new => upd.target \in known) /\ tags \in SUBSET {"BOT_OP"}
    OBVIOUS
  <2> HIDE DEF category, new, tags
  <2>. QED BY <1>2, <2>1, <2>2, <2>3, <2>4, ReportedInv
<1>4. CASE Press(n)
  <2> DEFINE new == upd.from \in known
             tags == IF new /\ upd.bot \in VerifyBots THEN {"BOT_OP"} ELSE {}
  <2>1. updates[n].pc = "button" /\ Publish(n, "BUTTON", upd.from, new, tags)
    BY <1>4 DEF Press
  <2>2. upd.kind = "button" /\ upd.from \in Authors
    BY <1>1, <2>1, UpdFields DEF InPlace
  <2>3. new \in BOOLEAN /\ (new => upd.from \in known) /\ tags \in SUBSET {"BOT_OP"}
    OBVIOUS
  <2> HIDE DEF new, tags
  <2>. QED BY <1>2, <2>1, <2>2, <2>3, ReportedInv
<1>. QED BY <1>3, <1>4
-----------------------------------------------------------------------------
(* Every step keeps the invariant. *)
LEMMA NextInv == MonitorInv /\ [Next]_vars => MonitorInv'
<1> SUFFICES ASSUME MonitorInv, [Next]_vars PROVE MonitorInv'
  OBVIOUS
<1>1. CASE World \/ \E n \in 1..Arrived : Redeliver(n)
  BY <1>1, WorldInv
<1>2. CASE Toggle \/ \E ch \in Chats : AddGroup(ch) \/ RemoveGroup(ch)
  BY <1>2, SettingsStepInv
<1>3. ASSUME NEW n \in 1..Arrived, Process(n)
      PROVE  MonitorInv'
  BY <1>3, BeginInv, RouteInv, MarksInv, AnnounceStepInv, CheckFloodInv, JoinedInv, BotJoinedInv,
     LeftInv, AuthorInv, CountStepInv, AskInv, ClassifyInv, ReportsInv DEF Process
<1>4. CASE UNCHANGED vars
  <2>1. UNCHANGED <<members, known, updates, log, monitored, enabled, loaded, late>>
    BY <1>4 DEF vars, settings
  <2>2. Arrived' = Arrived /\ Published' = Published /\ \A n : Allowed(n)' <=> Allowed(n)
    BY <2>1 DEF Arrived, Published, Allowed, Followed
  <2>3. (TypeInv' <=> TypeInv) /\ (PlaceInv' <=> PlaceInv) /\ (PostInv' <=> PostInv)
    BY <2>1, <2>2 DEF TypeInv, PlaceInv, PostInv
  <2>4. SettingsInv' <=> SettingsInv
    BY <2>1, <2>2 DEF SettingsInv
  <2>5. /\ MemberInv' <=> MemberInv
        /\ AnnounceInv' <=> AnnounceInv
    BY <2>1, <2>2 DEF MemberInv, MemberOrLeft, LeftSince, AnnounceInv, Announcing, Announcement
  <2>6. LogInv' <=> LogInv
    BY <2>1, <2>2 DEF LogInv, Spared, LeftSince
  <2>7. NewcomerFlagged' <=> NewcomerFlagged
    BY <2>1, <2>2 DEF NewcomerFlagged
  <2>8. CountInv' <=> CountInv
    BY <2>1, <2>2 DEF CountInv, Counted, LeftSince
  <2>. QED BY <2>3, <2>4, <2>5, <2>6, <2>7, <2>8 DEF MonitorInv
<1>. QED BY <1>1, <1>2, <1>3, <1>4 DEF Next
-----------------------------------------------------------------------------
(* The invariant holds in every behaviour. *)
LEMMA SpecInv == Spec => []MonitorInv
BY InitInv, NextInv, PTL DEF Spec

(* The broker drops no more than the bound. *)
LEMMA DropsInv == Spec => [](drops \in 0..MaxDrops)
<1>1. Init => drops \in 0..MaxDrops
  BY MonitorAssumption DEF Init
<1>2. drops \in 0..MaxDrops /\ [Next]_vars => (drops \in 0..MaxDrops)'
  <2> SUFFICES ASSUME drops \in 0..MaxDrops, [Next]_vars PROVE drops' \in 0..MaxDrops
    OBVIOUS
  <2>1. drops' = drops \/ (drops < MaxDrops /\ drops' = drops + 1)
    <3>1. CASE World \/ \E n \in 1..Arrived : Redeliver(n)
      <4>1. ASSUME NEW upds, Deliver(upds) PROVE drops' = drops
        BY <4>1 DEF Deliver
      <4>. QED BY <3>1, <4>1
               DEF World, Join, Leave, Moderate, AddBot, Post, Click, Redeliver, DeliverEither
    <3>4. CASE Toggle \/ UNCHANGED vars
      BY <3>4 DEF Toggle, vars
    <3>2. CASE \E ch \in Chats : AddGroup(ch) \/ RemoveGroup(ch)
      BY <3>2 DEF AddGroup, RemoveGroup
    <3>3. ASSUME NEW n \in 1..Arrived, Process(n)
          PROVE  drops' = drops \/ (drops < MaxDrops /\ drops' = drops + 1)
      BY <3>3 DEF Process, Begin, Route, MarkMember, MarkTarget, Mark, Announce, CheckFlood, Joined,
                  BotJoined, Left, Author, Count, Ask, Classify, Report, Press, Publish
    <3>. QED BY <3>1, <3>2, <3>3, <3>4 DEF Next
  <2>. QED BY <2>1, MonitorAssumption
<1>. QED BY <1>1, <1>2, PTL DEF Spec

(* What the model says of its variables: no update is lost or in two places, *)
(* and whoever is announced, marked or called new is one the tracker holds.  *)
THEOREM TypeCorrect == Spec => []TypeOK
<1>1. MonitorInv /\ drops \in 0..MaxDrops => TypeOK
  <2> SUFFICES ASSUME MonitorInv, drops \in 0..MaxDrops PROVE TypeOK
    OBVIOUS
  <2>1. ASSUME NEW n \in 1..Arrived
        PROVE  /\ updates[n].pc \in pcs
               /\ updates[n].who \in People \cup {NoOne}
               /\ updates[n].new \in BOOLEAN /\ updates[n].failed \in BOOLEAN
               /\ updates[n].ask \subseteq Chats /\ updates[n].mutual \in Nat
               /\ updates[n].due => updates[n].upd.from \in known
               /\ updates[n].pc \in {"announce", "flood", "joined"} => updates[n].who \in known
    BY TaskFacts, TaskFields DEF MonitorInv, PostInv, InPlace
  <2>2. \A e \in Published : e.update \in 1..Arrived /\ (e.new => e.user \in known)
    BY DEF MonitorInv, LogInv, Published
  <2>. QED BY <2>1, <2>2 DEF MonitorInv, TypeInv, TypeOK
<1>. QED BY <1>1, SpecInv, DropsInv, PTL

(* README.md:11: what is published about a group that is not monitored, or *)
(* while monitoring is disabled, is due to a goroutine that had asked.     *)
THEOREM SettingsAtOnce == Spec => []InstantEffect
<1>1. MonitorInv => InstantEffect
  BY DEF MonitorInv, LogInv, Allowed, InstantEffect, Published
<1>. QED BY <1>1, SpecInv, PTL

(* However often and in whatever ways Telegram reports that somebody joined, *)
(* he is announced once, and not at all if he was in the tracker already.    *)
THEOREM AnnouncedOnce == Spec => []NewUserOnce
<1>1. MonitorInv => NewUserOnce
  <2> SUFFICES ASSUME MonitorInv, NEW u \in People
               PROVE  Cardinality({i \in DOMAIN log : log[i].category = "NEW_USER" /\ log[i].user = u})
                        <= IF u \in loaded THEN 0 ELSE 1
    BY DEF NewUserOnce
  <2> DEFINE once == {i \in DOMAIN log : Announcement(i, u)}
  <2>1. \A i, j \in once : i = j
    BY DEF MonitorInv, AnnounceInv
  <2>2. CASE once = {}
    BY <2>2, FS_EmptySet DEF Announcement
  <2>3. ASSUME NEW i \in once
        PROVE  Cardinality(once) = 1
    <3>1. once = {i}
      BY <2>1
    <3>. QED BY <3>1, FS_Singleton
  <2>4. u \in loaded => once = {}
    BY DEF MonitorInv, AnnounceInv
  <2>. QED BY <2>2, <2>3, <2>4 DEF Announcement
<1>. QED BY <1>1, SpecInv, PTL

(* README.md:43: a post of somebody the tracker held when its goroutine asked *)
(* for the groups is handed to the broker as that of a newcomer, whatever     *)
(* overtakes it, unless the read of the groups failed.                        *)
THEOREM NewcomersAreFlagged == Spec => []NewcomerFlagged
<1>1. MonitorInv => NewcomerFlagged
  BY DEF MonitorInv
<1>. QED BY <1>1, SpecInv, PTL

(* README.md:46: no member is condemned for having no group in common with *)
(* the bot unless a read or a call failed, his group was removed or he left. *)
THEOREM MembersAreSpared == Spec => []MembersSpared
<1>1. MonitorInv => MembersSpared
  BY DEF MonitorInv, LogInv, MembersSpared, Spared, LeftSince, Published
<1>. QED BY <1>1, SpecInv, PTL
-----------------------------------------------------------------------------
(* What JoinsReported comes to: nobody whom the tracker holds is passed over... *)
KnownInv == \A u \in known \ loaded : Announced(u) \/ \E n \in 1..Arrived : Announcing(n, u)

(* ...and a goroutine has logged whom it no longer has on its list. *)
Joins == {"JOIN", "BOT_JOIN"}
JoinCategory(u) == IF u \in Bots THEN "BOT_JOIN" ELSE "JOIN"
JoinLine(i, n, u) == log[i].category = JoinCategory(u) /\ log[i].update = n /\ log[i].user = u

(* What is on the list of a goroutine at which place *)
OnList(t) ==
  t.upd.kind = "message" =>
    /\ t.todo \subseteq t.upd.joined
    /\ t.pc \in {"start", "route"} => t.todo = t.upd.joined /\ ~t.followed
    /\ t.pc \in {"announce", "flood", "joined"} => t.who \in t.todo \cap People
    /\ t.pc \in {"author", "count", "classify"} => t.todo = {}
    /\ t.pc = "done" => t.todo = {} \/ ~t.followed \/ t.unread

JoinInv ==
  /\ \A n \in 1..Arrived : OnList(updates[n])
  /\ \A n \in 1..Arrived :
       updates[n].upd.kind = "message" =>
         \A u \in updates[n].upd.joined \ updates[n].todo : \E i \in DOMAIN log : JoinLine(i, n, u)
  /\ \A i \in DOMAIN log :
       log[i].category \in Joins =>
         /\ updates[log[i].update].upd.kind = "message"
         /\ log[i].user \in updates[log[i].update].upd.joined \ updates[log[i].update].todo
         /\ log[i].category = JoinCategory(log[i].user)
  /\ \A i, j \in DOMAIN log :
       /\ log[i].category \in Joins /\ log[j].category \in Joins
       /\ log[i].update = log[j].update /\ log[i].user = log[j].user
       => i = j

ReportInv == KnownInv /\ JoinInv

(* The log with one more line or none *)
LEMMA LogGrows ==
  ASSUME MonitorInv, log' = log \/ \E e \in Line : Adds(e)
  PROVE  /\ \A i \in DOMAIN log : i \in DOMAIN log' /\ log'[i] = log[i]
         /\ Published \subseteq Published'
<1>1. CASE log' = log
  BY <1>1 DEF Published
<1>2. ASSUME NEW e \in Line, Adds(e)
      PROVE  /\ \A i \in DOMAIN log : i \in DOMAIN log' /\ log'[i] = log[i]
             /\ Published \subseteq Published'
  BY <1>2, AddsFacts
<1>. QED BY <1>1, <1>2

(* A step marks nobody without announcing him. *)
LEMMA KnownStep ==
  ASSUME MonitorInv, KnownInv, NEW n, NEW t, Steps(n, t),
         log' = log \/ \E e \in Line : Adds(e),
         \A u \in known' \ known : t.pc = "announce" /\ t.who = u,
         updates[n].pc = "announce" =>
           \E e \in Line : Adds(e) /\ e.category = "NEW_USER" /\ e.user = updates[n].who
  PROVE  KnownInv'
<1>1. \A u : Announced(u) => Announced(u)'
  BY LogGrows DEF Announced
<1>0. /\ Arrived' = Arrived /\ updates'[n] = t /\ n \in 1..Arrived
      /\ \A m \in 1..Arrived : m # n => updates'[m] = updates[m]
  <2>1. n \in 1..Arrived
    BY DEF Steps
  <2>. QED BY <2>1, StepsFacts
<1>2. ASSUME NEW u, updates[n].pc = "announce", u = updates[n].who
      PROVE  Announced(u)'
  <2>1. PICK e \in Line : Adds(e) /\ e.category = "NEW_USER" /\ e.user = u
    BY <1>2
  <2>2. e \in Published'
    BY <2>1, AddsFacts
  <2>. QED BY <2>1, <2>2 DEF Announced
<1>3. ASSUME NEW u \in known \ loaded
      PROVE  Announced(u)' \/ \E m \in 1..Arrived' : Announcing(m, u)'
  <2>1. CASE Announced(u)
    BY <1>1, <2>1
  <2>2. ASSUME NEW m \in 1..Arrived, Announcing(m, u), m # n
        PROVE  m \in 1..Arrived' /\ Announcing(m, u)'
    BY <1>0, <2>2 DEF Announcing
  <2>3. CASE Announcing(n, u)
    BY <1>2, <2>3 DEF Announcing
  <2>. QED BY <2>1, <2>2, <2>3 DEF KnownInv
<1>4. ASSUME NEW u \in known' \ known
      PROVE  n \in 1..Arrived' /\ Announcing(n, u)'
  BY <1>0, <1>4 DEF Announcing
<1>. QED BY <1>3, <1>4, StepsFacts DEF KnownInv

(* A step that logs no joining and leaves the list alone *)
LEMMA JoinKept ==
  ASSUME MonitorInv, JoinInv, NEW n, NEW t, Steps(n, t), OnList(t), t.todo = updates[n].todo,
         log' = log \/ \E e \in Line : Adds(e) /\ e.category \notin Joins
  PROVE  JoinInv'
<1>1. /\ Arrived' = Arrived /\ updates'[n] = t
      /\ \A m \in 1..Arrived : m # n => updates'[m] = updates[m]
      /\ \A m \in 1..Arrived : updates'[m].upd = updates[m].upd
  BY StepsFacts
<1>2. \A m \in 1..Arrived : updates'[m].todo = updates[m].todo
  BY <1>1
<1>3. \A i \in DOMAIN log : i \in DOMAIN log' /\ log'[i] = log[i]
  BY LogGrows
<1>4. \A i \in DOMAIN log' : log'[i].category \in Joins => i \in DOMAIN log /\ log'[i] = log[i]
  BY AddsFacts
<1>5. \A i \in DOMAIN log : log[i].update \in 1..Arrived
  BY DEF MonitorInv, LogInv
<1>6. \A m \in 1..Arrived' : OnList(updates'[m])
  BY <1>1 DEF JoinInv
<1>7. ASSUME NEW m \in 1..Arrived', updates'[m].upd.kind = "message",
             NEW u \in updates'[m].upd.joined \ updates'[m].todo
      PROVE  \E i \in DOMAIN log' : JoinLine(i, m, u)'
  <2>1. PICK i \in DOMAIN log : JoinLine(i, m, u)
    BY <1>1, <1>2, <1>7 DEF JoinInv
  <2>. QED BY <1>3, <2>1 DEF JoinLine
<1>8. ASSUME NEW i \in DOMAIN log', log'[i].category \in Joins
      PROVE  /\ updates'[log'[i].update].upd.kind = "message"
             /\ log'[i].user \in updates'[log'[i].update].upd.joined \ updates'[log'[i].update].todo
             /\ log'[i].category = JoinCategory(log'[i].user)
  <2>1. i \in DOMAIN log /\ log'[i] = log[i] /\ log[i].update \in 1..Arrived
    BY <1>4, <1>5, <1>8
  <2>. QED BY <1>1, <1>2, <1>8, <2>1 DEF JoinInv
<1>9. \A i, j \in DOMAIN log' :
        /\ log'[i].category \in Joins /\ log'[j].category \in Joins
        /\ log'[i].update = log'[j].update /\ log'[i].user = log'[j].user
        => i = j
  BY <1>4 DEF JoinInv
<1>. QED BY <1>6, <1>7, <1>8, <1>9 DEF JoinInv

(* A step that logs who joins takes him off the list. *)
LEMMA JoinLogged ==
  ASSUME MonitorInv, JoinInv, NEW n, NEW t, Steps(n, t), OnList(t), t.upd.kind = "message",
         NEW e \in Line, Adds(e), e.category = JoinCategory(e.user), e.update = n,
         e.user \in updates[n].todo, t.todo = updates[n].todo \ {e.user}
  PROVE  JoinInv'
<1>1. /\ Arrived' = Arrived /\ updates'[n] = t /\ n \in 1..Arrived
      /\ \A m \in 1..Arrived : m # n => updates'[m] = updates[m]
      /\ \A m \in 1..Arrived : updates'[m].upd = updates[m].upd
  <2>1. n \in 1..Arrived
    BY DEF Steps
  <2>. QED BY <2>1, StepsFacts
<1>2. /\ DOMAIN log = 1..Len(log) /\ DOMAIN log' = 1..Len(log) + 1 /\ Len(log) \in Nat
      /\ \A i \in 1..Len(log) : log'[i] = log[i]
      /\ log'[Len(log) + 1] = e
  BY AddsFacts
<1>3. \A i \in DOMAIN log' : i = Len(log) + 1 \/ (i \in DOMAIN log /\ log'[i] = log[i])
  BY <1>2
<1>4. \A i \in DOMAIN log : log[i].update \in 1..Arrived
  BY DEF MonitorInv, LogInv
<1>5. \A m \in 1..Arrived' : OnList(updates'[m])
  BY <1>1 DEF JoinInv
<1>6. updates[n].upd.kind = "message" /\ e.user \in updates[n].upd.joined
  BY <1>1 DEF JoinInv, OnList, Steps
<1>7. ASSUME NEW m \in 1..Arrived', updates'[m].upd.kind = "message",
             NEW u \in updates'[m].upd.joined \ updates'[m].todo
      PROVE  \E i \in DOMAIN log' : JoinLine(i, m, u)'
  <2>1. CASE m = n /\ u = e.user
    <3>1. \E i \in DOMAIN log' : log'[i] = e
      BY <1>2
    <3>2. PICK i \in DOMAIN log' : log'[i] = e
      BY <3>1
    <3>3. JoinLine(i, m, u)'
      BY <2>1, <3>2 DEF JoinLine, JoinCategory
    <3>. QED BY <3>3
  <2>2. CASE ~(m = n /\ u = e.user)
    <3>1. u \in updates[m].upd.joined \ updates[m].todo
      BY <1>1, <1>7, <2>2
    <3>2. PICK i \in DOMAIN log : JoinLine(i, m, u)
      BY <1>1, <1>7, <3>1 DEF JoinInv
    <3>. QED BY <1>2, <3>2 DEF JoinLine
  <2>. QED BY <2>1, <2>2
<1>8. ASSUME NEW i \in DOMAIN log', log'[i].category \in Joins
      PROVE  /\ updates'[log'[i].update].upd.kind = "message"
             /\ log'[i].user \in updates'[log'[i].update].upd.joined \ updates'[log'[i].update].todo
             /\ log'[i].category = JoinCategory(log'[i].user)
  <2>1. CASE i = Len(log) + 1
    BY <1>1, <1>2, <1>6, <2>1
  <2>2. CASE i \in DOMAIN log /\ log'[i] = log[i]
    <3>1. /\ updates[log[i].update].upd.kind = "message" /\ log[i].update \in 1..Arrived
          /\ log[i].user \in updates[log[i].update].upd.joined \ updates[log[i].update].todo
          /\ log[i].category = JoinCategory(log[i].user)
      BY <1>4, <1>8, <2>2 DEF JoinInv
    <3>. QED BY <1>1, <2>2, <3>1
  <2>. QED BY <1>3, <2>1, <2>2
<1>9. \A i \in DOMAIN log : log[i].category \in Joins => ~(log[i].update = n /\ log[i].user = e.user)
  BY DEF JoinInv
<1>10. \A i, j \in DOMAIN log' :
         /\ log'[i].category \in Joins /\ log'[j].category \in Joins
         /\ log'[i].update = log'[j].update /\ log'[i].user = log'[j].user
         => i = j
  BY <1>2, <1>3, <1>9 DEF JoinInv
<1>. QED BY <1>5, <1>7, <1>8, <1>10 DEF JoinInv
-----------------------------------------------------------------------------
(* The goroutine of update n: what marks, announces and logs who joins *)
LEMMA ReportJoins ==
  ASSUME MonitorInv, ReportInv, NEW n \in 1..Arrived,
         \/ MarkMember(n) \/ MarkTarget(n) \/ Announce(n) \/ Joined(n) \/ BotJoined(n)
  PROVE  ReportInv'
<1>0. /\ updates[n] \in Task /\ InPlace(updates[n], known) /\ known \subseteq People
      /\ updates[n].upd \in Upd /\ OnList(updates[n]) /\ n \in Nat
  BY TaskFacts DEF ReportInv, JoinInv
<1>1. ASSUME NEW u \in People, NEW otherwise \in {"joined", "report"}, Mark(n, u, otherwise),
             updates[n].pc \in {"members", "mark"},
             updates[n].upd.kind = "message" => u \in updates[n].todo /\ otherwise = "joined"
      PROVE  ReportInv'
  <2> DEFINE pc == IF u \notin known THEN "announce" ELSE otherwise
             t == [updates[n] EXCEPT !.who = u, !.pc = pc]
  <2>1. /\ updates' = [updates EXCEPT ![n] = t] /\ known' = known \cup {u} /\ log' = log
        /\ UNCHANGED <<members, settings>>
    BY <1>1 DEF Mark
  <2>2. pc \in pcs /\ pc \in {"announce", "joined", "report"} /\ (u \notin known => pc = "announce")
        /\ (updates[n].upd.kind = "message" => pc # "report")
    BY <1>1 DEF pcs
  <2>3. /\ t \in Task /\ t.pc = pc /\ t.who = u /\ t.upd = updates[n].upd /\ t.due = updates[n].due
        /\ t.gone = updates[n].gone /\ t.failed = updates[n].failed
        /\ t.todo = updates[n].todo
    BY <1>0, <2>2 DEF Task
  <2> HIDE DEF pc, t
  <2>4. Steps(n, t)
    BY <1>0, <1>1, <2>1, <2>2, <2>3 DEF Steps
  <2>5. OnList(t)
    BY <1>0, <1>1, <2>2, <2>3 DEF OnList
  <2>6. KnownInv'
    BY <1>1, <2>1, <2>2, <2>3, <2>4, KnownStep DEF ReportInv
  <2>7. JoinInv'
    BY <2>1, <2>3, <2>4, <2>5, JoinKept DEF ReportInv
  <2>. QED BY <2>6, <2>7 DEF ReportInv
<1>2. CASE MarkMember(n)
  <2>1. PICK u \in updates[n].todo \cap People : Mark(n, u, "joined")
    BY <1>2 DEF MarkMember
  <2>. QED BY <1>1, <1>2, <2>1 DEF MarkMember
<1>3. CASE MarkTarget(n)
  <2>1. updates[n].pc = "mark" /\ updates[n].upd.kind = "member"
    BY <1>0, <1>3 DEF MarkTarget, InPlace
  <2>2. updates[n].upd.target \in People
    BY <1>0, <2>1, UpdFields
  <2>. QED BY <1>1, <1>3, <2>1, <2>2 DEF MarkTarget
<1>4. CASE Announce(n)
  <2> DEFINE t == [updates[n] EXCEPT !.pc = "flood"]
             e == Entry(n, "NEW_USER", updates[n].who, TRUE, {})
  <2>1. /\ updates[n].pc = "announce" /\ Adds(e) /\ Goto(n, "flood")
        /\ UNCHANGED <<members, known, settings>>
    BY <1>4 DEF Announce, Publish, Adds
  <2>2. "flood" \in pcs /\ "NEW_USER" \in Categories /\ TRUE \in BOOLEAN
        /\ {} \in SUBSET {"FLOOD", "BOT_OP", "ZERO_MG"} /\ "NEW_USER" \notin Joins
    BY DEF pcs, Categories, Joins
  <2>3. /\ Steps(n, t) /\ t.pc = "flood" /\ t.upd = updates[n].upd
        /\ t.who = updates[n].who /\ t.todo = updates[n].todo
    BY <2>1, <2>2, GotoSteps
  <2>4. updates[n].who \in Authors
    BY <1>0, <2>1 DEF InPlace, Authors
  <2>5. e \in Line /\ e.category = "NEW_USER" /\ e.user = updates[n].who
    BY <1>0, <2>2, <2>4 DEF Entry, Line
  <2> HIDE DEF t, e
  <2>6. OnList(t)
    BY <1>0, <2>1, <2>3 DEF OnList
  <2>7. KnownInv'
    BY <2>1, <2>3, <2>5, KnownStep DEF ReportInv
  <2>8. JoinInv'
    BY <2>1, <2>2, <2>3, <2>5, <2>6, JoinKept DEF ReportInv
  <2>. QED BY <2>7, <2>8 DEF ReportInv
<1>5. CASE Joined(n)
  <2> DEFINE u == updates[n].who
             t == [updates[n] EXCEPT !.pc = "members", !.todo = @ \ {u}]
             e == Entry(n, "JOIN", u, TRUE, {})
  <2>1. /\ updates[n].pc = "joined" /\ Adds(e) /\ updates' = [updates EXCEPT ![n] = t]
        /\ UNCHANGED <<members, known, settings>>
    BY <1>5 DEF Joined, Publish, Adds
  <2>2. /\ "JOIN" \in Categories /\ TRUE \in BOOLEAN /\ {} \in SUBSET {"FLOOD", "BOT_OP", "ZERO_MG"}
    BY DEF Categories
  <2>3. /\ t \in Task /\ t.pc = "members" /\ t.upd = updates[n].upd /\ t.due = updates[n].due
        /\ t.gone = updates[n].gone /\ t.failed = updates[n].failed
        /\ t.todo = updates[n].todo \ {u}
    BY <1>0 DEF Task, pcs
  <2>4. u \in People /\ u \in updates[n].todo /\ updates[n].upd.kind = "message"
    BY <1>0, <2>1 DEF OnList, InPlace
  <2>5. u \in Authors /\ JoinCategory(u) = "JOIN"
    BY <2>4, MonitorAssumption DEF Authors, JoinCategory
  <2>6. e \in Line /\ e.update = n /\ e.category = "JOIN" /\ e.user = u
    BY <1>0, <2>2, <2>5 DEF Entry, Line
  <2> HIDE DEF t, e, u
  <2>7. Steps(n, t)
    BY <1>0, <2>1, <2>3 DEF Steps
  <2>8. OnList(t)
    BY <1>0, <2>3 DEF OnList
  <2>9. KnownInv'
    BY <2>1, <2>6, <2>7, KnownStep DEF ReportInv
  <2>10. JoinInv'
    BY <2>1, <2>3, <2>4, <2>5, <2>6, <2>7, <2>8, JoinLogged DEF ReportInv
  <2>. QED BY <2>9, <2>10 DEF ReportInv
<1>6. CASE BotJoined(n)
  <2>1. PICK b \in updates[n].todo \cap Bots :
          /\ Publish(n, "BOT_JOIN", b, FALSE, {})
          /\ updates' = [updates EXCEPT ![n].todo = @ \ {b}]
    BY <1>6 DEF BotJoined
  <2> DEFINE t == [updates[n] EXCEPT !.todo = @ \ {b}]
             e == Entry(n, "BOT_JOIN", b, FALSE, {})
  <2>2. /\ updates[n].pc = "members" /\ Adds(e) /\ updates' = [updates EXCEPT ![n] = t]
        /\ UNCHANGED <<members, known, settings>>
    BY <1>6, <2>1 DEF BotJoined, Publish, Adds
  <2>3. /\ "BOT_JOIN" \in Categories /\ FALSE \in BOOLEAN /\ {} \in SUBSET {"FLOOD", "BOT_OP", "ZERO_MG"}
        /\ b \in Authors /\ JoinCategory(b) = "BOT_JOIN"
    BY DEF Categories, Authors, JoinCategory
  <2>4. /\ t \in Task /\ t.pc = updates[n].pc /\ t.upd = updates[n].upd /\ t.due = updates[n].due
        /\ t.gone = updates[n].gone /\ t.failed = updates[n].failed
        /\ t.todo = updates[n].todo \ {b}
    BY <1>0 DEF Task
  <2>5. e \in Line /\ e.update = n /\ e.category = "BOT_JOIN" /\ e.user = b
    BY <1>0, <2>3 DEF Entry, Line
  <2>6. updates[n].upd.kind = "message"
    BY <1>0, <2>2 DEF InPlace
  <2> HIDE DEF t, e
  <2>7. Steps(n, t)
    BY <1>0, <2>2, <2>4 DEF Steps
  <2>8. OnList(t)
    BY <1>0, <2>2, <2>4 DEF OnList
  <2>9. KnownInv'
    BY <2>2, <2>5, <2>7, KnownStep DEF ReportInv
  <2>10. JoinInv'
    BY <2>1, <2>2, <2>3, <2>4, <2>5, <2>6, <2>7, <2>8, JoinLogged DEF ReportInv
  <2>. QED BY <2>9, <2>10 DEF ReportInv
<1>. QED BY <1>2, <1>3, <1>4, <1>5, <1>6

(* What only goes on, and may log anything but who joins *)
LEMMA ReportGoesOn ==
  ASSUME MonitorInv, ReportInv, NEW n \in 1..Arrived, NEW pc \in pcs \ {"start"}, Goto(n, pc),
         updates[n].pc \notin {"done", "announce"}, pc = "route" => updates[n].pc = "start", UNCHANGED <<members, known, settings>>,
         log' = log \/ \E e \in Line : Adds(e) /\ e.category \notin Joins,
         OnList([updates[n] EXCEPT !.pc = pc])
  PROVE  ReportInv'
<1> DEFINE t == [updates[n] EXCEPT !.pc = pc]
<1>1. Steps(n, t) /\ t.todo = updates[n].todo
  BY GotoSteps
<1> HIDE DEF t
<1>2. KnownInv'
  BY <1>1, KnownStep DEF ReportInv
<1>3. JoinInv'
  BY <1>1, JoinKept DEF ReportInv, t
<1>. QED BY <1>2, <1>3 DEF ReportInv

(* The other steps of a goroutine *)
LEMMA ReportProcess ==
  ASSUME MonitorInv, ReportInv, NEW n \in 1..Arrived,
         \/ Begin(n) \/ Route(n) \/ CheckFlood(n) \/ Left(n) \/ Author(n) \/ Count(n) \/ Ask(n)
         \/ Classify(n) \/ Report(n) \/ Press(n)
  PROVE  ReportInv'
<1>0. /\ updates[n] \in Task /\ InPlace(updates[n], known) /\ known \subseteq People
      /\ updates[n].upd \in Upd /\ OnList(updates[n]) /\ n \in Nat
      /\ updates[n].upd.kind \in {"message", "member", "button"}
  BY TaskFacts, UpdFields DEF ReportInv, JoinInv
<1>1. ASSUME NEW category, NEW user, NEW new, NEW tags, Publish(n, category, user, new, tags),
             category \in Categories \ Joins, user \in Authors, new \in BOOLEAN,
             tags \in SUBSET {"FLOOD", "BOT_OP", "ZERO_MG"}
      PROVE  \E e \in Line : Adds(e) /\ e.category \notin Joins
  <2> DEFINE e == Entry(n, category, user, new, tags)
  <2>1. Adds(e)
    BY <1>1 DEF Publish, Adds
  <2>2. e \in Line /\ e.category = category
    BY <1>0, <1>1 DEF Entry, Line
  <2> HIDE DEF e
  <2>. QED BY <1>1, <2>1, <2>2
<1>2. ASSUME NEW pc \in pcs,
             updates[n].pc \in {"start", "members", "flood", "count", "classify", "report", "button"},
             updates[n].upd.kind = "message" =>
               \/ pc \in {"route", "done"} /\ updates[n].pc = "start"
               \/ pc \in {"done", "author", "classify"} /\ updates[n].todo = {}
               \/ pc = "joined" /\ updates[n].pc = "flood"
      PROVE  OnList([updates[n] EXCEPT !.pc = pc])
  <2> DEFINE t == [updates[n] EXCEPT !.pc = pc]
  <2>1. /\ t.pc = pc /\ t.upd = updates[n].upd /\ t.who = updates[n].who /\ t.todo = updates[n].todo
        /\ t.followed = updates[n].followed
    BY <1>0, TaskPc
  <2> HIDE DEF t
  <2>2. OnList(t)
    BY <1>0, <1>2, <2>1 DEF OnList
  <2>. QED BY <2>2 DEF t
<1>11. ASSUME NEW t \in Task, updates' = [updates EXCEPT ![n] = t], OnList(t),
              updates[n].pc \notin {"start", "announce", "done"}, t.pc \notin {"start", "route"},
              t.upd = updates[n].upd, t.todo = updates[n].todo, t.due => updates[n].due \/ t.upd.from \in known,
              updates[n].failed => t.failed, updates[n].gone => t.gone,
              UNCHANGED <<members, known, log, settings>>
       PROVE  ReportInv'
  <2>1. Steps(n, t)
    BY <1>0, <1>11 DEF Steps
  <2>2. KnownInv'
    BY <1>11, <2>1, KnownStep DEF ReportInv
  <2>3. JoinInv'
    BY <1>11, <2>1, JoinKept DEF ReportInv
  <2>. QED BY <2>2, <2>3 DEF ReportInv
<1>3. CASE Begin(n)
  <2> DEFINE pc == IF enabled THEN "route" ELSE "done"
  <2>1. updates[n].pc = "start" /\ Goto(n, pc) /\ UNCHANGED <<members, known, log, settings>>
    BY <1>3 DEF Begin
  <2>2. pc \in pcs \ {"start"} /\ pc \in {"route", "done"}
    BY DEF pcs
  <2> HIDE DEF pc
  <2>3. OnList([updates[n] EXCEPT !.pc = pc])
    BY <1>2, <2>1, <2>2
  <2>. QED BY <2>1, <2>2, <2>3, ReportGoesOn
<1>12. CASE Route(n)
  <2> DEFINE upd == updates[n].upd
  <2>1. PICK ids \in GetMonitoredIDs :
          updates' = [updates EXCEPT
            ![n].pc = IF ~Follows(upd, ids) THEN "done"
                      ELSE IF upd.kind = "message" THEN "members"
                      ELSE IF upd.kind = "button" THEN "button"
                      ELSE IF Marks(upd) THEN "mark"
                      ELSE "report",
            ![n].followed = upd.chat \in monitored,
            ![n].due = upd.chat \in monitored /\ (upd.from \in known \/ Announced(upd.from)),
            ![n].unread = upd.chat \in monitored \ ids]
    BY <1>12 DEF Route
  <2> DEFINE pc == IF ~Follows(upd, ids) THEN "done"
                   ELSE IF upd.kind = "message" THEN "members"
                   ELSE IF upd.kind = "button" THEN "button"
                   ELSE IF Marks(upd) THEN "mark"
                   ELSE "report"
             followed == upd.chat \in monitored
             due == upd.chat \in monitored /\ (upd.from \in known \/ Announced(upd.from))
             unread == upd.chat \in monitored \ ids
             t == [updates[n] EXCEPT !.pc = pc, !.followed = followed, !.due = due, !.unread = unread]
  <2>0. updates' = [updates EXCEPT ![n].pc = pc, ![n].followed = followed, ![n].due = due, ![n].unread = unread]
    BY <2>1
  <2>2. /\ updates[n].pc = "route" /\ updates' = [updates EXCEPT ![n] = t]
        /\ UNCHANGED <<members, known, log, settings>>
    <3>1. updates[n].pc = "route" /\ UNCHANGED <<members, known, log, settings>>
      BY <1>12 DEF Route
    <3> HIDE DEF pc, due, unread, followed, upd
    <3>2. updates' = [updates EXCEPT ![n] = t]
      BY <2>0
    <3>. QED BY <3>1, <3>2
  <2>3. /\ pc \in pcs /\ pc \notin {"start", "route"}
        /\ upd.kind = "message" => pc \in {"done", "members"}
        /\ pc = "done" => ~followed \/ unread
        /\ followed \in BOOLEAN /\ due \in BOOLEAN /\ unread \in BOOLEAN
    BY <1>0 DEF pcs, Follows
  <2>4. due => upd.from \in known
    BY AnnouncedKnown
  <2> HIDE DEF pc, due, unread, followed, upd
  <2>5. /\ t \in Task /\ t.pc = pc /\ t.upd = upd /\ t.todo = updates[n].todo
        /\ t.gone = updates[n].gone /\ t.failed = updates[n].failed
    BY <1>0, <2>3 DEF Task, upd
  <2>6. (t.due <=> due) /\ (t.unread <=> unread) /\ (t.followed <=> followed)
    BY <1>0 DEF Task
  <2> HIDE DEF t
  <2>7. OnList(t)
    BY <1>0, <2>2, <2>3, <2>5, <2>6 DEF OnList, upd
  <2>. QED BY <1>11, <2>2, <2>3, <2>4, <2>5, <2>6, <2>7 DEF upd
<1>4. CASE CheckFlood(n)
  <2> DEFINE pc == IF updates[n].upd.kind = "message" THEN "joined" ELSE "report"
  <2>1. /\ updates[n].pc = "flood" /\ Goto(n, pc) /\ UNCHANGED <<members, known, settings>>
        /\ log' = log \/ Publish(n, "SPAM_CONFIRMED", updates[n].who, TRUE, {"FLOOD"})
    BY <1>4 DEF CheckFlood, AfterMark
  <2>2. /\ pc \in pcs \ {"start"} /\ pc # "route"
        /\ updates[n].upd.kind = "message" => pc = "joined"
    BY DEF pcs
  <2>3. updates[n].who \in Authors /\ "SPAM_CONFIRMED" \in Categories \ Joins /\ TRUE \in BOOLEAN
        /\ {"FLOOD"} \in SUBSET {"FLOOD", "BOT_OP", "ZERO_MG"}
    BY <1>0, <2>1 DEF InPlace, Authors, Categories, Joins
  <2> HIDE DEF pc
  <2>4. OnList([updates[n] EXCEPT !.pc = pc])
    BY <1>2, <2>1, <2>2
  <2>5. log' = log \/ \E e \in Line : Adds(e) /\ e.category \notin Joins
    BY <1>1, <2>1, <2>3
  <2>. QED BY <2>1, <2>2, <2>4, <2>5, ReportGoesOn
<1>5. CASE Left(n)
  <2> DEFINE pc == IF updates[n].upd.from = NoOne THEN "done" ELSE "author"
  <2>1. /\ updates[n].pc = "members" /\ updates[n].todo = {}
        /\ Goto(n, pc) /\ UNCHANGED <<members, known, settings>>
        /\ log' = log \/ \E u \in updates[n].upd.left : Publish(n, "LEAVE", u, FALSE, {})
    BY <1>5 DEF Left
  <2>2. pc \in pcs \ {"start"} /\ pc \in {"done", "author"}
    BY DEF pcs
  <2>3. updates[n].upd.left \subseteq Authors /\ "LEAVE" \in Categories \ Joins /\ FALSE \in BOOLEAN
        /\ {} \in SUBSET {"FLOOD", "BOT_OP", "ZERO_MG"}
    BY <1>0, <2>1, UpdFields DEF InPlace, Authors, Categories, Joins
  <2> HIDE DEF pc
  <2>4. OnList([updates[n] EXCEPT !.pc = pc])
    BY <1>2, <2>1, <2>2
  <2>5. log' = log \/ \E e \in Line : Adds(e) /\ e.category \notin Joins
    BY <1>1, <2>1, <2>3
  <2>. QED BY <2>1, <2>2, <2>4, <2>5, ReportGoesOn
<1>6. CASE Author(n)
  <2> DEFINE new == updates[n].upd.from \in known
             t == [updates[n] EXCEPT !.pc = "count", !.new = new]
  <2>1. /\ updates[n].pc = "author" /\ updates' = [updates EXCEPT ![n] = t]
        /\ UNCHANGED <<members, known, log, settings>>
    BY <1>6 DEF Author
  <2>2. new \in BOOLEAN
    OBVIOUS
  <2>3. /\ t \in Task /\ t.pc = "count" /\ t.upd = updates[n].upd /\ t.due = updates[n].due
        /\ t.gone = updates[n].gone /\ t.failed = updates[n].failed
        /\ t.todo = updates[n].todo
    BY <1>0, <2>2 DEF Task, pcs
  <2> HIDE DEF t, new
  <2>4. OnList(t)
    BY <1>0, <2>1, <2>3 DEF OnList
  <2>. QED BY <1>11, <2>1, <2>3, <2>4
<1>13. CASE Count(n)
  <2>1. updates[n].pc = "count" /\ UNCHANGED <<members, known, log, settings>>
    BY <1>13 DEF Count
  <2>2. updates[n].upd.kind = "message" /\ updates[n].todo = {} /\ ~updates[n].failed /\ ~updates[n].gone
    BY <1>0, <2>1 DEF InPlace, OnList
  <2>3. "classify" \in pcs \ {"start"}
    BY DEF pcs
  <2>4. CASE Goto(n, "classify")
    <3>1. OnList([updates[n] EXCEPT !.pc = "classify"])
      BY <1>2, <2>1, <2>2, <2>3
    <3>. QED BY <2>1, <2>3, <2>4, <3>1, ReportGoesOn
  <2>5. ASSUME NEW ids \in GetMonitoredIDs,
               updates' = [updates EXCEPT ![n].pc = "classify", ![n].ask = ids,
                 ![n].gone = updates[n].upd.chat \notin monitored, ![n].failed = ids # monitored]
        PROVE  ReportInv'
    <3> DEFINE gone == updates[n].upd.chat \notin monitored
               failed == ids # monitored
               t == [updates[n] EXCEPT !.pc = "classify", !.ask = ids, !.gone = gone, !.failed = failed]
    <3>1. updates' = [updates EXCEPT ![n] = t]
      BY <2>5
    <3>2. ids \subseteq Chats /\ gone \in BOOLEAN /\ failed \in BOOLEAN
      BY DEF GetMonitoredIDs, MonitorInv, TypeInv
    <3> HIDE DEF gone, failed
    <3>3. /\ t \in Task /\ t.pc = "classify" /\ t.upd = updates[n].upd /\ t.due = updates[n].due
          /\ t.todo = updates[n].todo
      BY <1>0, <2>3, <3>2 DEF Task
    <3> HIDE DEF t
    <3>4. OnList(t)
      BY <1>0, <2>2, <3>3 DEF OnList
    <3>. QED BY <1>11, <2>1, <2>2, <3>1, <3>3, <3>4
  <2>. QED BY <1>13, <2>4, <2>5 DEF Count
<1>14. CASE Ask(n)
  <2>1. updates[n].pc = "classify" /\ UNCHANGED <<members, known, log, settings>>
    BY <1>14 DEF Ask
  <2>2. updates[n].upd.kind = "message" /\ updates[n].todo = {} /\ updates[n].ask \subseteq Chats
        /\ updates[n].mutual \in Nat
    BY <1>0, <2>1, TaskFields DEF InPlace, OnList
  <2>3. ASSUME NEW ask \in SUBSET Chats, NEW mutual \in Nat, NEW failed \in BOOLEAN,
               updates[n].failed => failed,
               updates' = [updates EXCEPT ![n] =
                 [updates[n] EXCEPT !.ask = ask, !.mutual = mutual, !.failed = failed]]
        PROVE  ReportInv'
    <3> DEFINE t == [updates[n] EXCEPT !.ask = ask, !.mutual = mutual, !.failed = failed]
    <3>1. /\ t \in Task /\ t.pc = "classify" /\ t.upd = updates[n].upd /\ t.due = updates[n].due
          /\ t.todo = updates[n].todo /\ t.gone = updates[n].gone
      BY <1>0, <2>1 DEF Task
    <3>2. t.failed <=> failed
      BY <1>0 DEF Task
    <3>3. updates' = [updates EXCEPT ![n] = t]
      BY <2>3
    <3> HIDE DEF t
    <3>4. OnList(t)
      BY <1>0, <2>2, <3>1 DEF OnList
    <3>. QED BY <1>11, <2>1, <2>3, <3>1, <3>2, <3>3, <3>4
  <2>4. PICK g \in updates[n].ask :
          \/ updates' = [updates EXCEPT ![n].ask = @ \ {g},
                ![n].mutual = IF Shares(updates[n].upd.from, g, updates[n].upd.chat) THEN @ + 1 ELSE @]
          \/ updates' = [updates EXCEPT ![n].ask = @ \ {g}, ![n].failed = TRUE]
    BY <1>14 DEF Ask
  <2> DEFINE ask == updates[n].ask \ {g}
             mutual == IF Shares(updates[n].upd.from, g, updates[n].upd.chat)
                         THEN updates[n].mutual + 1 ELSE updates[n].mutual
  <2>5. ask \in SUBSET Chats /\ mutual \in Nat /\ updates[n].failed \in BOOLEAN
    BY <1>0, <2>2, TaskFields
  <2>6. \/ updates' = [updates EXCEPT ![n] =
              [updates[n] EXCEPT !.ask = ask, !.mutual = mutual, !.failed = updates[n].failed]]
        \/ updates' = [updates EXCEPT ![n] =
              [updates[n] EXCEPT !.ask = ask, !.mutual = updates[n].mutual, !.failed = TRUE]]
    <3>1. /\ [updates[n] EXCEPT !.ask = ask, !.mutual = mutual]
               = [updates[n] EXCEPT !.ask = ask, !.mutual = mutual, !.failed = updates[n].failed]
          /\ [updates[n] EXCEPT !.ask = ask, !.failed = TRUE]
               = [updates[n] EXCEPT !.ask = ask, !.mutual = updates[n].mutual, !.failed = TRUE]
      BY <1>0 DEF Task
    <3>2. \/ updates' = [updates EXCEPT ![n] = [updates[n] EXCEPT !.ask = ask, !.mutual = mutual]]
          \/ updates' = [updates EXCEPT ![n] = [updates[n] EXCEPT !.ask = ask, !.failed = TRUE]]
      BY <2>4
    <3>. QED BY <3>1, <3>2
  <2> HIDE DEF ask, mutual
  <2>. QED BY <2>2, <2>3, <2>5, <2>6
<1>7. CASE Classify(n)
  <2> DEFINE upd == updates[n].upd
             isNew == updates[n].new
             z == ~IsBot(upd.from) /\ updates[n].mutual = 0
             silent == ~IsBot(upd.from) /\ ~isNew /\ ~z
  <2>1. /\ updates[n].pc = "classify" /\ Goto(n, "done") /\ UNCHANGED <<members, known, settings>>
        /\ log' = log \/ (~silent /\ Publish(n, Category(upd, isNew, z), upd.from, isNew, Tags(upd, z)))
    BY <1>7 DEF Classify
  <2>2. ~silent => IsBot(upd.from) \/ isNew \/ z
    OBVIOUS
  <2>3. ~silent =>
          /\ Category(upd, isNew, z) \in {"BOT_MSG", "SPAM_CONFIRMED", "NEW_MSG"}
          /\ Tags(upd, z) \in SUBSET {"FLOOD", "BOT_OP", "ZERO_MG"}
    <3> HIDE DEF upd, isNew, z
    <3>1. ASSUME IsBot(upd.from) \/ isNew \/ z
          PROVE  Category(upd, isNew, z) \in {"BOT_MSG", "SPAM_CONFIRMED", "NEW_MSG"}
      <4>1. CASE IsBot(upd.from)
        BY <4>1 DEF Category
      <4>2. CASE ~IsBot(upd.from) /\ z
        BY <4>2 DEF Category
      <4>3. CASE ~IsBot(upd.from) /\ ~z /\ isNew
        BY <4>3 DEF Category
      <4>. QED BY <3>1, <4>1, <4>2, <4>3
    <3>2. Tags(upd, z) \in SUBSET {"FLOOD", "BOT_OP", "ZERO_MG"}
      BY DEF Tags
    <3>. QED BY <2>2, <3>1, <3>2
  <2>4. upd.from \in Authors /\ isNew \in BOOLEAN
        /\ {"BOT_MSG", "SPAM_CONFIRMED", "NEW_MSG"} \subseteq Categories \ Joins
    BY <1>0, UpdFields, TaskFields DEF Categories, Joins
  <2>5. log' = log \/ \E e \in Line : Adds(e) /\ e.category \notin Joins
    <3> HIDE DEF upd, isNew, z, silent
    <3>. QED BY <1>1, <2>1, <2>3, <2>4
  <2>6. "done" \in pcs \ {"start"} /\ (upd.kind = "message" => updates[n].todo = {})
    BY <1>0, <2>1 DEF pcs, OnList
  <2>7. OnList([updates[n] EXCEPT !.pc = "done"])
    BY <1>2, <2>1, <2>6
  <2> HIDE DEF upd, isNew, z, silent
  <2>. QED BY <2>1, <2>5, <2>6, <2>7, ReportGoesOn
<1>8. ASSUME NEW category \in Categories \ Joins, NEW user \in Authors, NEW new \in BOOLEAN,
             NEW tags \in SUBSET {"BOT_OP"}, Publish(n, category, user, new, tags), Goto(n, "done"),
             updates[n].pc \in {"report", "button"}, updates[n].upd.kind # "message",
             UNCHANGED <<members, known, settings>>
      PROVE  ReportInv'
  <2>1. "done" \in pcs \ {"start"} /\ tags \in SUBSET {"FLOOD", "BOT_OP", "ZERO_MG"}
    BY DEF pcs
  <2>2. OnList([updates[n] EXCEPT !.pc = "done"])
    BY <1>2, <1>8, <2>1
  <2>3. \E e \in Line : Adds(e) /\ e.category \notin Joins
    BY <1>1, <1>8, <2>1
  <2>. QED BY <1>8, <2>1, <2>2, <2>3, ReportGoesOn
<1>9. CASE Report(n)
  <2> DEFINE upd == updates[n].upd
             new == upd.target \in known
             tags == IF upd.from \in VerifyBots /\ new THEN {"BOT_OP"} ELSE {}
  <2>1. /\ updates[n].pc = "report" /\ Publish(n, StatusCategory(upd.status), upd.target, new, tags)
        /\ Goto(n, "done") /\ UNCHANGED <<members, known, settings>>
    BY <1>9 DEF Report
  <2>2. upd.kind = "member" /\ upd.target \in Authors /\ upd.status \in Statuses
    BY <1>0, <2>1, UpdFields DEF InPlace, Authors
  <2>3. StatusCategory(upd.status) \in Categories \ Joins
    BY <2>2 DEF StatusCategory, Statuses, Categories, Joins
  <2>4. new \in BOOLEAN /\ tags \in SUBSET {"BOT_OP"}
    OBVIOUS
  <2>5. updates[n].upd.kind # "message"
    BY <2>2
  <2> HIDE DEF upd, new, tags
  <2>. QED BY <1>8, <2>1, <2>2, <2>3, <2>4, <2>5
<1>10. CASE Press(n)
  <2> DEFINE upd == updates[n].upd
             new == upd.from \in known
             tags == IF new /\ upd.bot \in VerifyBots THEN {"BOT_OP"} ELSE {}
  <2>1. /\ updates[n].pc = "button" /\ Publish(n, "BUTTON", upd.from, new, tags)
        /\ Goto(n, "done") /\ UNCHANGED <<members, known, settings>>
    BY <1>10 DEF Press
  <2>2. upd.kind = "button" /\ upd.from \in Authors /\ "BUTTON" \in Categories \ Joins
    BY <1>0, <2>1, UpdFields DEF InPlace, Authors, Categories, Joins
  <2>3. new \in BOOLEAN /\ tags \in SUBSET {"BOT_OP"}
    OBVIOUS
  <2>4. updates[n].upd.kind # "message"
    BY <2>2
  <2> HIDE DEF upd, new, tags
  <2>. QED BY <1>8, <2>1, <2>2, <2>3, <2>4
<1>. QED BY <1>3, <1>4, <1>5, <1>6, <1>7, <1>9, <1>10, <1>12, <1>13, <1>14

(* What is delivered has everybody on its list. *)
LEMMA ReportDelivered ==
  ASSUME MonitorInv, ReportInv, NEW S, NEW upds \in Seq(S), Deliver(upds)
  PROVE  ReportInv'
<1> DEFINE fresh == [i \in DOMAIN upds |-> Waiting(upds[i])]
           W == {Waiting(upds[i]) : i \in DOMAIN upds}
<1>1. updates' = updates \o fresh /\ known' = known /\ log' = log /\ loaded' = loaded
  BY DEF Deliver, settings
<1>2. updates \in Seq(Task \cup W) /\ Arrived \in Nat /\ DOMAIN upds = 1..Len(upds) /\ Len(upds) \in Nat
  <2>1. updates \in Seq(Task)
    BY DEF MonitorInv, TypeInv
  <2>. QED BY <2>1, LenProperties DEF Arrived
<1>3. fresh \in Seq(Task \cup W) /\ Len(fresh) = Len(upds)
  BY <1>2
<1>4. \A i \in 1..Len(upds) : fresh[i] = Waiting(upds[i])
  BY <1>2
<1> HIDE DEF fresh, W
<1>5. /\ Len(updates \o fresh) = Len(updates) + Len(fresh)
      /\ \A n \in 1..Len(updates) + Len(fresh) :
           (updates \o fresh)[n] = IF n <= Len(updates) THEN updates[n] ELSE fresh[n - Len(updates)]
  BY <1>2, <1>3, ConcatProperties
<1>6. Arrived = Len(updates) /\ Arrived' = Len(updates')
  BY DEF Arrived
<1>7. /\ Arrived' = Arrived + Len(upds)
      /\ \A n \in 1..Arrived : n \in 1..Arrived' /\ updates'[n] = updates[n]
  BY <1>1, <1>2, <1>3, <1>5, <1>6
<1>8. ASSUME NEW n \in 1..Arrived', n \notin 1..Arrived
      PROVE  \E upd : updates'[n] = Waiting(upd)
  <2>1. n - Arrived \in 1..Len(upds) /\ updates'[n] = fresh[n - Arrived]
    BY <1>1, <1>2, <1>3, <1>5, <1>6, <1>7, <1>8
  <2>. QED BY <1>4, <2>1
<1>9. \A upd : /\ Waiting(upd).upd = upd /\ Waiting(upd).pc = "start" /\ ~Waiting(upd).followed
               /\ upd.kind = "message" => Waiting(upd).todo = upd.joined
  BY DEF Waiting
<1>10. \A n \in 1..Arrived' : n \in 1..Arrived \/
         /\ updates'[n].pc = "start" /\ ~updates'[n].followed
         /\ updates'[n].upd.kind = "message" => updates'[n].todo = updates'[n].upd.joined
  BY <1>8, <1>9
<1>11. KnownInv'
  <2>1. \A u : Announced(u)' <=> Announced(u)
    BY <1>1 DEF Announced, Published
  <2>2. \A u : \A n \in 1..Arrived : Announcing(n, u) => n \in 1..Arrived' /\ Announcing(n, u)'
    BY <1>7 DEF Announcing
  <2>. QED BY <1>1, <2>1, <2>2 DEF ReportInv, KnownInv
<1>12. JoinInv'
  <2>1. \A i \in DOMAIN log : log[i].update \in 1..Arrived
    BY DEF MonitorInv, LogInv
  <2>2. \A n \in 1..Arrived' : OnList(updates'[n])
    BY <1>7, <1>10 DEF ReportInv, JoinInv, OnList
  <2>3. ASSUME NEW n \in 1..Arrived', updates'[n].upd.kind = "message",
               NEW u \in updates'[n].upd.joined \ updates'[n].todo
        PROVE  \E i \in DOMAIN log' : JoinLine(i, n, u)'
    <3>1. n \in 1..Arrived /\ updates'[n] = updates[n]
      BY <1>7, <1>10, <2>3
    <3>2. PICK i \in DOMAIN log : JoinLine(i, n, u)
      BY <2>3, <3>1 DEF ReportInv, JoinInv
    <3>. QED BY <1>1, <3>2 DEF JoinLine
  <2>4. \A i \in DOMAIN log' :
          log'[i].category \in Joins =>
            /\ updates'[log'[i].update].upd.kind = "message"
            /\ log'[i].user \in updates'[log'[i].update].upd.joined \ updates'[log'[i].update].todo
            /\ log'[i].category = JoinCategory(log'[i].user)
    BY <1>1, <1>7, <2>1 DEF ReportInv, JoinInv
  <2>5. \A i, j \in DOMAIN log' :
          /\ log'[i].category \in Joins /\ log'[j].category \in Joins
          /\ log'[i].update = log'[j].update /\ log'[i].user = log'[j].user
          => i = j
    BY <1>1 DEF ReportInv, JoinInv
  <2>. QED BY <2>2, <2>3, <2>4, <2>5 DEF JoinInv
<1>. QED BY <1>11, <1>12 DEF ReportInv

(* Every step keeps it. *)
LEMMA ReportNext == MonitorInv /\ ReportInv /\ [Next]_vars => ReportInv'
<1> SUFFICES ASSUME MonitorInv, ReportInv, [Next]_vars PROVE ReportInv'
  OBVIOUS
<1>1. CASE World \/ \E n \in 1..Arrived : Redeliver(n)
  <2>1. ASSUME NEW x, Deliver(<<x>>) PROVE ReportInv'
    <3>1. <<x>> \in Seq({x})
      OBVIOUS
    <3>. QED BY <2>1, <3>1, ReportDelivered
  <2>2. ASSUME NEW x, NEW y, Deliver(<<x, y>>) PROVE ReportInv'
    <3>1. <<x, y>> \in Seq({x, y})
      OBVIOUS
    <3>. QED BY <2>2, <3>1, ReportDelivered
  <2>. QED BY <1>1, <2>1, <2>2
           DEF World, Join, Leave, Moderate, AddBot, Post, Click, Redeliver, DeliverEither
<1>2. CASE UNCHANGED <<known, updates, log, loaded>>
  BY <1>2 DEF ReportInv, KnownInv, JoinInv, OnList, Announced, Published, Announcing, Arrived, JoinLine
<1>3. CASE Toggle \/ UNCHANGED vars \/ \E ch \in Chats : AddGroup(ch) \/ RemoveGroup(ch)
  BY <1>2, <1>3 DEF Toggle, AddGroup, RemoveGroup, vars, settings
<1>4. ASSUME NEW n \in 1..Arrived, Process(n)
      PROVE  ReportInv'
  BY <1>4, ReportJoins, ReportProcess DEF Process
<1>. QED BY <1>1, <1>3, <1>4 DEF Next

(* It holds in every behaviour. *)
LEMMA SpecReport == Spec => [](MonitorInv /\ ReportInv)
<1>1. Init => ReportInv
  <2>1. ASSUME Init PROVE known = loaded /\ Arrived = 0 /\ DOMAIN log = {}
    BY <2>1 DEF Init, Arrived
  <2>. QED BY <2>1 DEF ReportInv, KnownInv, JoinInv
<1>. QED BY <1>1, SpecInv, ReportNext, PTL DEF Spec

(***************************************************************************)
(* Nobody slips through: for whomever this process came to track NEW_USER  *)
(* has been handed to the broker, which may drop it, or the goroutine that *)
(* marked him is about to hand it over (processMessage,                    *)
(* processChatMemberUpdate): what the first half of JoinsReported comes to *)
(* if goroutines go on.                                                    *)
(***************************************************************************)
NoneUnannounced ==
  \A u \in known \ loaded :
    Announced(u) \/ \E n \in 1..Arrived : updates[n].pc = "announce" /\ updates[n].who = u

THEOREM NobodySlipsThrough == Spec => []NoneUnannounced
<1>1. ReportInv => NoneUnannounced
  BY DEF ReportInv, KnownInv, Announcing, NoneUnannounced
<1>. QED BY <1>1, SpecReport, PTL

(***************************************************************************)
(* For everybody in a message that reports joinings an entry is handed to  *)
(* the broker once the loop over NewChatMembers is past him, and only one, *)
(* whether the broker keeps it or not; the goroutine leaves the loop when  *)
(* it is past all of them, and if the group was monitored when it asked    *)
(* and the read of the groups succeeded, it has entered it                 *)
(* (processMessage).  What the second half of JoinsReported comes to.      *)
(***************************************************************************)
EachJoinOnce ==
  \A n \in 1..Arrived :
    LET t == updates[n] IN
    t.upd.kind = "message" =>
      /\ \A u \in t.upd.joined :
           Cardinality({i \in DOMAIN log : JoinLine(i, n, u)}) = IF u \in t.todo THEN 0 ELSE 1
      /\ t.pc \in {"author", "count", "classify"} => t.todo = {}
      /\ t.pc = "done" /\ t.followed /\ ~t.unread => t.todo = {}

THEOREM JoinsLoggedOnce == Spec => []EachJoinOnce
<1>1. MonitorInv /\ ReportInv => EachJoinOnce
  <2> SUFFICES ASSUME MonitorInv, ReportInv, NEW n \in 1..Arrived, updates[n].upd.kind = "message"
               PROVE  /\ \A u \in updates[n].upd.joined :
                           Cardinality({i \in DOMAIN log : JoinLine(i, n, u)})
                             = IF u \in updates[n].todo THEN 0 ELSE 1
                      /\ updates[n].pc \in {"author", "count", "classify"} => updates[n].todo = {}
                      /\ updates[n].pc = "done" /\ updates[n].followed /\ ~updates[n].unread
                           => updates[n].todo = {}
    BY DEF EachJoinOnce
  <2>1. ASSUME NEW u \in updates[n].upd.joined
        PROVE  Cardinality({i \in DOMAIN log : JoinLine(i, n, u)}) = IF u \in updates[n].todo THEN 0 ELSE 1
    <3> DEFINE lines == {i \in DOMAIN log : JoinLine(i, n, u)}
    <3>1. \A i \in lines : log[i].category \in Joins /\ log[i].update = n /\ log[i].user = u
      BY DEF JoinLine, JoinCategory, Joins
    <3>2. CASE u \in updates[n].todo
      <4>1. lines = {}
        BY <3>1, <3>2 DEF ReportInv, JoinInv
      <4>. QED BY <3>2, <4>1, FS_EmptySet
    <3>3. CASE u \notin updates[n].todo
      <4>1. PICK i \in DOMAIN log : JoinLine(i, n, u)
        BY <3>3 DEF ReportInv, JoinInv
      <4>2. lines = {i}
        BY <3>1, <4>1 DEF ReportInv, JoinInv
      <4>. QED BY <3>3, <4>2, FS_Singleton
    <3>. QED BY <3>2, <3>3
  <2>2. OnList(updates[n])
    BY DEF ReportInv, JoinInv
  <2>. QED BY <2>1, <2>2 DEF OnList
<1>. QED BY <1>1, SpecReport, PTL
=============================================================================

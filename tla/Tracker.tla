------------------------------ MODULE Tracker ------------------------------
(***************************************************************************)
(* internal/tracker: who has joined in the last 24 hours.  The tracker     *)
(* keeps a map in memory and writes every newcomer to table new_users      *)
(* (internal/db), from which a new process loads its map.  TryMarkNew is   *)
(* called by as many goroutines as there are updates in progress           *)
(* (bot.markNewUser), cleanupLoop runs beside them.                        *)
(*                                                                         *)
(* Time is counted in fractions of a second: the map holds exact times,    *)
(* the table whole seconds.                                                *)
(***************************************************************************)
EXTENDS Integers

CONSTANTS
  Users,          \* Telegram users
  Chats,          \* monitored groups
  Calls,          \* goroutines that may be in TryMarkNew at once
  Day,            \* 24 hours
  Second,         \* the resolution of joined_at in the table
  MaxTime,        \* bound of the model on the time
  StoreMayFail    \* may a database call return an error?

ASSUME TrackerAssumption ==
  /\ Second \in Nat \ {0}
  /\ Day \in Nat
  /\ MaxTime \in Nat
  /\ StoreMayFail \in BOOLEAN

VARIABLES
  now,       \* the time
  up,        \* is there a process?
  users,     \* t.users, a map from some of the users to their UserInfo
  rows,      \* table new_users
  call,      \* call[c]: the arguments of goroutine c and where it is
  purging,   \* when purgeExpired began, while it is between table and map
  told,      \* history variable: when u was last announced as new
  kept       \* history variable: that announcement of u is in the table

memory == <<users, call, purging>>
vars == <<now, up, memory, rows, told, kept>>

Never == -1

Time == 0..MaxTime

(* What is known of a user besides, his names and his bio, is left out. *)
UserInfo == [chat : Chats, joined : Time]
Row == [user : Users, chat : Chats, joined : Time]

Idle == [at |-> Never, pc |-> "idle"]
Busy == [at : Time, pc : {"waiting", "persisting"}, user : Users, chat : Chats]

TypeOK ==
  /\ now \in Time
  /\ up \in BOOLEAN
  /\ DOMAIN users \subseteq Users
  /\ \A u \in DOMAIN users : users[u] \in UserInfo
  /\ rows \subseteq Row
  /\ call \in [Calls -> Busy \cup {Idle}]
  /\ purging \in Time \cup {Never}
  /\ told \in [Users -> Time \cup {Never}]
  /\ kept \in [Users -> BOOLEAN]

NoUsers == [u \in {} |-> {}]

Init ==
  /\ now = 0 /\ up = FALSE
  /\ users = NoUsers /\ rows = {}
  /\ call = [c \in Calls |-> Idle] /\ purging = Never
  /\ told = [u \in Users |-> Never] /\ kept = [u \in Users |-> FALSE]

Tick ==
  /\ now < MaxTime
  /\ now' = now + 1
  /\ UNCHANGED <<up, memory, rows, told, kept>>
-----------------------------------------------------------------------------
(* strftime('%Y-%m-%dT%H:%M:%SZ', ...) drops the fraction of the second. *)
Whole(t) == (t \div Second) * Second

(* SELECT ... WHERE joined_at >= now - 24 hours *)
Recent == {r \in rows : r.joined >= Whole(now - Day)}

(***************************************************************************)
(* GetNewUsers returns the rows ORDER BY joined_at DESC, and loadFromDB    *)
(* puts them into the map one after the other: of the rows of a user the   *)
(* oldest stays.  Rows of the same second come in any order.               *)
(***************************************************************************)
Loaded(u) == {r \in Recent : r.user = u /\ \A q \in Recent : q.user = u => r.joined <= q.joined}

(* New: the map is filled from the table and cleanupLoop started. *)
Start ==
  /\ ~up
  /\ up' = TRUE
  /\ \/ \E row \in [{r.user : r \in Recent} -> Recent] :
          /\ \A u \in DOMAIN row : row[u] \in Loaded(u)
          /\ users' = [u \in DOMAIN row |->
                         [chat |-> row[u].chat, joined |-> row[u].joined]]
          /\ UNCHANGED told
     \/ /\ StoreMayFail
        /\ users' = NoUsers
        /\ told' = [u \in Users |-> Never]
  /\ UNCHANGED <<now, rows, call, purging, kept>>

(* The process ends; a newcomer who was not written is forgotten. *)
Die ==
  /\ up
  /\ up' = FALSE
  /\ users' = NoUsers
  /\ call' = [c \in Calls |-> Idle]
  /\ purging' = Never
  /\ told' = [u \in Users |-> IF kept[u] THEN told[u] ELSE Never]
  /\ UNCHANGED <<now, rows, kept>>
-----------------------------------------------------------------------------
(* TryMarkNew takes the time before it waits for the lock. *)
Enter(c, u, ch) ==
  /\ up /\ call[c] = Idle
  /\ call' = [call EXCEPT ![c] = [at |-> now, pc |-> "waiting", user |-> u, chat |-> ch]]
  /\ UNCHANGED <<now, up, users, purging, rows, told, kept>>

(* Is u new at time t?  The mutated form asks the table. *)
KnownToTable(u, t) == u \in DOMAIN users /\ \E r \in rows : r.user = u /\ t - r.joined <= Day

Known(u, t) == u \in DOMAIN users /\ t - users[u].joined <= Day

IsNew(u) == Known(u, now)

(* A user who is known gets new names and the bio he did not have. *)
Remember(c) ==
  /\ call[c].pc = "waiting" /\ Known(call[c].user, call[c].at)
  /\ call' = [call EXCEPT ![c] = Idle]
  /\ UNCHANGED <<now, up, users, purging, rows, told, kept>>

(* A user who is not is entered; the call will return true. *)
Mark(c) ==
  LET this == call[c]
      info == [chat |-> this.chat, joined |-> this.at]
  IN
  /\ this.pc = "waiting" /\ ~Known(this.user, this.at)
  /\ users' = [u \in DOMAIN users \cup {this.user} |-> IF u = this.user THEN info ELSE users[u]]
  /\ call' = [call EXCEPT ![c].pc = "persisting"]
  /\ told' = [told EXCEPT ![this.user] = this.at]
  /\ kept' = [kept EXCEPT ![this.user] = FALSE]
  /\ UNCHANGED <<now, up, purging, rows>>

(* INSERT OR REPLACE; the mutated form leaves a row that is already there. *)
SameKey(r, u, ch) == r.user = u /\ r.chat = ch

InsertOrIgnore(r) == rows' = IF \E q \in rows : SameKey(q, r.user, r.chat) THEN rows ELSE rows \cup {r}

Insert(r) == rows' = {q \in rows : ~SameKey(q, r.user, r.chat)} \cup {r}

(* AddNewUser, with t.mu released; an error is only logged. *)
AddNewUser(c) ==
  LET this == call[c] IN
  /\ this.pc = "persisting"
  /\ \/ /\ Insert([user |-> this.user, chat |-> this.chat, joined |-> Whole(now)])
        /\ kept' = [kept EXCEPT ![this.user] = TRUE]
     \/ /\ StoreMayFail
        /\ UNCHANGED <<rows, kept>>
  /\ call' = [call EXCEPT ![c] = Idle]
  /\ UNCHANGED <<now, up, users, purging, told>>
-----------------------------------------------------------------------------
(* Mutated form: a purge that deletes no row leaves the map alone. *)
PurgeRowsIfAny ==
  /\ up /\ purging = Never
  /\ rows' = Recent /\ rows' # rows
  /\ purging' = now
  /\ UNCHANGED <<now, up, users, call, told, kept>>

(***************************************************************************)
(* purgeExpired: first the table, then the map, with a cutoff it takes     *)
(* before it waits for the lock.  When the table fails it returns: no step *)
(* of the model.                                                           *)
(***************************************************************************)
PurgeRows ==
  /\ up /\ purging = Never
  /\ rows' = Recent
  /\ purging' = now
  /\ UNCHANGED <<now, up, users, call, told, kept>>

(* Mutated form: who joined exactly at the cutoff goes too. *)
StaysAfter(u, cutoff) == users[u].joined > cutoff

Stays(u, cutoff) == users[u].joined >= cutoff

PurgeUsers ==
  /\ purging # Never
  /\ \E t \in purging..now :
       LET staying == {u \in DOMAIN users : Stays(u, t - Day)}
       IN users' = [u \in staying |-> users[u]]
  /\ purging' = Never
  /\ UNCHANGED <<now, up, call, rows, told, kept>>
-----------------------------------------------------------------------------
Next ==
  \/ Tick \/ Start \/ Die
  \/ \E c \in Calls :
       \/ \E u \in Users, ch \in Chats : Enter(c, u, ch)
       \/ Remember(c) \/ Mark(c) \/ AddNewUser(c)
  \/ PurgeRows \/ PurgeUsers

Spec == Init /\ [][Next]_vars

(* The ticker of cleanupLoop goes on, and the table does not fail for ever. *)
FairSpec == Spec /\ WF_vars(PurgeRows) /\ WF_vars(PurgeUsers)
-----------------------------------------------------------------------------
(***************************************************************************)
(* However many goroutines see a user join, and whatever is purged or      *)
(* restarted meanwhile, he is announced once a day: again only when 24     *)
(* hours have gone since the second of the announcement began (the table   *)
(* drops the fraction), unless the table has failed.                       *)
(***************************************************************************)
OnceADay ==
  [][\A c \in Calls :
       (call[c].pc = "waiting" /\ call'[c].pc = "persisting" /\ told[call[c].user] # Never)
         => now > Whole(told[call[c].user]) + Day]_vars

(***************************************************************************)
(* README.md:42, "New user joined (tracked for 24h)": as long as there is  *)
(* a process, a user it has announced, or an earlier one has announced and *)
(* written, stays new for 24 hours, from the beginning of that second.     *)
(***************************************************************************)
TrackedADay ==
  \A u \in Users : (up /\ told[u] # Never /\ now <= Whole(told[u]) + Day) => IsNew(u)

(***************************************************************************)
(* What a restart will find: the row of a user who is new in memory has    *)
(* not been purged or overwritten with an older one, provided it was       *)
(* written.                                                                *)
(***************************************************************************)
NewHasRow ==
  \A u \in Users : (up /\ IsNew(u) /\ told[u] # Never /\ kept[u]) =>
    \E r \in Recent : r.user = u /\ r.chat = users[u].chat /\ r.joined + Second > users[u].joined

(* A user who is no longer new leaves the map, unless he joins again. *)
ExpiredLeave ==
  \A u \in Users : (u \in DOMAIN users /\ ~IsNew(u)) ~> (u \in DOMAIN users => IsNew(u))
=============================================================================

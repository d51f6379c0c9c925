# SpamObserver: specifications, model checking and proofs

This directory holds TLA+ specifications of SpamObserver, the TLC
configurations that check them on small instances and the theorems about them
that the TLA+ proof system has checked. Paths are relative to the repository;
`db.go`, `bot.go`, `handler.go`, `logstream.go`, `tracker.go`, `auth.go` and
`ai.go` are the files of that name under `internal/`.

## The system

SpamObserver is one Go process beside one SQLite file. Telegram posts updates
to its webhook; it watches who joins, leaves and writes in the monitored groups
and turns what it sees into log entries, which a broker keeps in a ring, writes
to a table and streams to the browsers that look at the dashboard.

| Component | State it keeps | Operations | Interacts with |
|---|---|---|---|
| Log stream, the broker (`logstream.go`) | ring buffer, client channels, queues `publish`, `register`, `unregister` | `Publish`, `Subscribe`, `Unsubscribe`, `Recent`, `Close`, the goroutine `run` | every other component publishes; `OnPublish` calls the store; SSE handlers subscribe |
| SSE handler (`handler.go`, `handleSSEStream`) | one channel and one connection per browser | read the history, subscribe, copy entries to the browser, unsubscribe | broker, store |
| Event log (`db.go`, table `event_logs`) | rows | `InsertLog`, `GetRecentLogs`, `GetRecentLogsByDuration`, `PurgeOldLogs`, `GetBannedCount24h` | `OnPublish`, the hourly purge of `main.go`, SSE handler |
| New-user tracker (`tracker.go`; `db.go`, table `new_users`) | map from user to when and where he joined; a row per user and chat | `New` with `loadFromDB`, `TryMarkNew`, `IsNew`, `GetAllNew`, the ten-minute purge, `Stop` | monitor, dashboard, store |
| Flood detection (`bot.go`) | joins of the last minute, flood flag, last join per chat | `recordJoin`, `isFloodActive`, the ten-second cleanup | monitor, broker, in-group warnings |
| Monitor (`bot.go`) | none of its own | `ProcessUpdate`: messages, member updates, button clicks; classification | tracker, flood detection, store (groups, verification bots), Telegram, broker |
| Spam assessment (`bot.go`, `ai.go`) | none of its own | `assessUserSpam`, `AssessUser` with its retries | AI service, broker, in-group warnings |
| In-group warnings (`bot.go`) | messages waiting to be deleted | `sendSpamWarning`, `sendFloodWarning`, `scheduleDeleteMessage` | Telegram, broker |
| Bot lifecycle and webhook (`main.go`) | current bot, its handler and context, queue of 256 updates | `startBot`, webhook handler, delayed `SetWebhook`, shutdown | Telegram, monitor, settings |
| Settings (`handler.go`, `db.go`) | row of `admin_settings`, the two atomics, tables of groups and verification bots | toggle, warn-in-group, token, AI configuration, groups, verification bots | store, bot lifecycle, monitor |
| Sessions and account (`auth.go`, `handler.go`) | signed tokens, user name and password hash | login, validate, middleware, change name or password | store |
| Schema (`db.go`, `migrate`) | tables and columns | `migrate` at each start | every user of the store |
| AI client utilities (`ai.go`) | none | `BuildAPIURL`, `TestConnection` | settings |
| Dashboard page (`webui/`) | browser side | - | SSE handler, settings |
| Deployment (`Dockerfile`, `docker-compose.yml`, `scripts/`) | - | restart of the process | all |

What makes it hard. Everything meets in a few shared places: the goroutine of
the broker with its select, the lock of the tracker, the lock of the flood
detection, one SQLite connection, and the pointer to the current bot. Each
update of Telegram is processed by a goroutine of its own, which waits for
Telegram or the database halfway, so updates overtake each other and the
administrator. Locks are released between steps that belong together. The
process may die anywhere, and only the tables survive. Errors of the database
and of Telegram are logged or ignored, and the code goes on.

What would make each component correct:

| Component | Properties | Where |
|---|---|---|
| Broker, SSE handler | a session is sent a contiguous part of the one log, nothing twice, and is cut rather than given a stream with holes; no channel is closed twice or sent on when closed; `Recent` returns the newest entries; no viewer delays the others | `LogStream` |
| Event log | entries can be stored and read; purged by time, not by text | `Schema`; the purge is left to do |
| Tracker | a user is announced once a day and new for his day; map and table do not drift apart, across crashes | `Tracker` |
| Flood detection | flood mode is on exactly from the newcomer who makes it a flood to a minute of quiet; a user recorded in a flood does not reach the AI | `Flood` |
| Monitor | changes of the settings take effect at once; one announcement per joining, and none is lost but what the broker drops; who was announced is taken for a newcomer; no member is condemned by mistake | `Monitor` |
| Schema, first part of the account | whatever version and however many crashes, the columns the queries need; credentials are not reset by a start | `Schema` |
| Assessment, warnings | each assessment is reported and every warning in the group accounted for, but for what the broker drops; turned off, warnings stay off; a warning leaves the group again | `Warnings` |
| Bot lifecycle and webhook | what the queue accepted is taken in order and once, whatever bots come and go; one bot's updates end before the next bot takes over; `startBot` and the shutdown return; the newest bot gets its webhook | `Lifecycle` |
| Settings | the copy in memory follows the row; a blank key keeps the stored one | `Settings` |
| Sessions and account | a login holds for its day; nobody gets in, or changes the password, without the account's own | `Sessions` |

## Modules

| Module | What it is |
|---|---|
| `LogStream` | broker, SSE handlers, table `event_logs` and the life of the process |
| `EventFeed` | what a stream promises its sessions; `LogStream` implements it |
| `MCLogStream` | constants and symmetry for the runs on `LogStream` |
| `LogStreamProofs` | proofs about `LogStream`, the refinement of `EventFeed` among them |
| `Tracker` | map, table, `TryMarkNew`, the two purges, crashes |
| `TrackerProofs` | proofs about `Tracker` |
| `Flood` | `recordJoin`, `isFloodActive` and the cleanup around the goroutines of `markNewUser` |
| `FloodAlarm` | when flood mode is to be on; `Flood` implements it |
| `FloodProofs` | proofs about `Flood`, the refinement of `FloodAlarm` among them |
| `Monitor` | updates of Telegram and what the log says about them |
| `MonitorProofs` | proofs about `Monitor` |
| `Schema` | `migrate` and `InitAdmin` |
| `SchemaProofs` | proofs about `Schema` |
| `Warnings` | `AssessUser`, `assessUserSpam`, the two warnings and their deletion |
| `WarningsProofs` | proofs about `Warnings` |
| `Lifecycle` | `startBot`, its goroutines, the webhook and its queue, the shutdown |
| `UpdateQueue` | what becomes of an update the webhook accepts; `Lifecycle` implements it |
| `LifecycleProofs` | proofs about `Lifecycle`, the refinement of `UpdateQueue` among them |
| `Settings` | the requests that change settings, in the row and in memory |
| `Sessions` | login, tokens, middleware, changes of name and password |
| `MCAdmin` | `Settings` and `Sessions` for one run |
| `AdminProofs` | proofs about `Settings`, about `Sessions` and about the run of both |

The modules do not share state, because the code's parts talk through narrow
calls, and each is closed by what the others may do to it. `Flood` keeps of the
tracker which users are known; `Monitor` keeps the same and chooses freely
whether a flood is on; in `Warnings` an assessment or the warning of a flood may
start at any time; the entries of `LogStream` are numbers, whoever publishes
them; an update of `Lifecycle` is one of those that `Monitor` processes, and a
`SetBotToken` of `Warnings` a `NewBot` of `Lifecycle`. `Settings` takes for granted
that `Sessions` let its requests in.

### LogStream and the code

One action is one case of `run`'s select, or one step of a handler up to the next
channel operation.

| Action | Code |
|---|---|
| `Publish` | `Publish` from any goroutine, with its `default` when the channel is full |
| `HandlePublish`, `OnPublish` | the case of `publish`: ring and broadcast; then `OnPublish`, which inserts the row, or fails |
| `HandleRegister`, `HandleUnregister`, `HandleStop` | the other cases, with the closing of channels; a second `close` of a channel is the panic that ends the process |
| `ReadHistory`, `Subscribe`, `Receive`, `StreamEnds`, `Unsubscribe` | `handleSSEStream` |
| `PurgeOldLogs` | the hourly purge, as deletion of any prefix of the table |
| `Close`, `Exit`, `Kill`, `Restart` | shutdown, crash, and the restart by docker |

An entry is the number of its `Publish` call. Callers take the timestamp before the
call, so entries of one moment may have theirs in another order; the queries sort by
id, and only the purge, modelled as deleting the oldest ids, compares timestamps.
History variables (`processed`, `since`) record what happened and
guard nothing.

### Tracker and the code

`Enter` is `time.Now()` at the head of `TryMarkNew`; `Remember` and `Mark` are the
two ways through its locked part; `AddNewUser` is the insertion after the lock is
released. `PurgeRows` and `PurgeUsers` are `purgeExpired`, which deletes from the
table, then from the map with a cutoff of its own. `Start` is `New` with
`loadFromDB`, `Die` the end of the process. Time counts fractions of a second;
the table truncates to `Second` as `strftime` does. `AddNewUser`, `Start` and the
purge may fail. Names and bios are left out.

### Flood and the code

`Arrive` is `TryMarkNew` answering true, `RecordJoin` is `recordJoin` under
`floodMu`, `CheckFlood` is `isFloodActive` later on, with the verdict; `Cleanup` is
one round of `startFloodCleanup`. Times are ages, which makes the model finite
without a bound on its length: `Older` counts up to a minute and a bit. The
window is strict in `recordJoin` (`< Minute`) and strict the other way in the
cleanup (`> Minute`), as in the code.

### Monitor and the code

`updates[n]` is the goroutine of the n-th update: the update and where it is
(`pc`). `World` is Telegram: people join, leave, are muted, post and click, and
each event is delivered as a service message, as a `chat_member` update or as
both; `Redeliver` is a retry of the webhook. `Begin` asks `enabled`; `Route` asks
`isMonitored`, in a step of its own, and `GetMonitoredIDs` may return any part of
the table, since its errors yield no groups or fewer (`db.go:365-376`). `Mark` is
`markNewUser` once the bio has been fetched (between `Route` and it anything may
happen), `Announce` and `CheckFlood` are its two entries. `Joined`, `BotJoined`,
`Left` and `Author` go through `processMessage` from top to bottom; `Count` and
`Ask` are `countMutualGroups`, which reads the groups and then asks about one after
the other, where a group whose call fails does not count, and `Classify` is the
verdict. `Report` is `processChatMemberUpdate` and `Press` is
`processCallbackQuery`.

`Publish` hands an entry to the broker, which keeps or drops it
(`logstream.go:105-108`): `log` is what was handed over, in the order of the calls,
and `drops` how often the broker dropped. So what the properties say of `log` is
what the monitor does, and an entry may still be missing on the dashboard, most
likely in a join flood. An update that the full queue of the webhook drops is one
that never begins (see `Lifecycle`). The module covers less than a day of one
process, so that the tracker forgets nobody; it starts with any users loaded, any
groups and monitoring on or off.

Some fields are history and guard nothing: `sent` and `byMember` of a message (how
many updates had been delivered when it was sent, and whether its author was in
the group with what it tells of done, as who just joined is); of a goroutine
`followed`, `due` and `unread` (when it asked for the groups: was its group
monitored, and its author tracked or announced, and was the group missed for a
failed read?), `gone` and `failed` (when the groups were counted: was its group
removed, did a read or a call fail?); and the variables `loaded` and `late` (users
the process started with, updates a change of the settings came too late for).

### Schema and the code

`Migration` lists the statements of `migrate` in their order; `step` says which
comes next. A `CREATE` that fails ends the process, the failure of an `ALTER` or
an `UPDATE` is ignored, and `Die` may come between any two. `Init` is a fresh
database or that of an older version: some prefix of the columns that were
added later, perhaps without the tables that were added later, and of the tables
it has, some with a `DEFAULT` that lacks the Z (`oldDefault`). No statement of
`migrate` alters a `DEFAULT`, so `Insert`, which is `AddGroup` and
`AddVerificationBot` of the running process, brings times without a Z back.

### Warnings and the code

Each goroutine is a `t`: an assessment or the warning of a flood, and `pc[t]` is
where it is. `Assess` reads the AI configuration; `TryAgain`, `AssessFails` and
`Verdict` are the ways an attempt of `AssessUser` may end, each with the entry
`assessUserSpam` publishes. `Allow` reads `warnInGroup`, `Load` the pointer to the
bot; the two warnings differ in their text only. `Post` is Telegram posting the
message, `Sent` and `SendFails` the return of `SendMessage`, which may fail with the
message posted. `Wake` and `Delete` are `scheduleDeleteMessage`; a bot deletes its
own messages only, since `README.md:125` asks for no more than membership. The
administrator changes the token at any time. `StoreWarnInGroup` writes the row and
`SetWarnInGroup` the atomic: two steps of a request, so that a goroutine may be
allowed between them, and two requests may cross (`unset` holds what is still to be
set). `flying` are messages Telegram has been asked for and may post yet, also
after `SendMessage` timed out or the process ended. `Restart` is the end of the
process and the next start. `Publish` may be dropped, as in `Monitor`. A goroutine
starts once only: what is announced or noticed again after a restart has a
goroutine of its own, so warning twice in that way is no double of one goroutine,
and no property excludes it. `lost`, `cleared` and `loose` are history variables.

### Lifecycle and the code

A bot is named by the call of `startBot` that made it. `Lock`, `Stop`,
`StopReturns`, `NewBot`, `NewBotFails`, `NewHandlerFails` and `Shutdown` are what
happens under `botMu`, in `startBot` or in the goroutine that waits for a signal
(`Signal`). `Stop` is divided, because it waits for the updates in processing while
the world goes on. `ReadHandler`, `StartHandler` and `Panics` are the goroutine that
calls `bh.Start()`, `Wake`, `SetWebhook` and `SetWebhookFails` the one that
registers the webhook; neither holds `botMu`, and each reads its shared variable
(`bh`, `botCtx`) in a step of its own. `Webhook` is the select with its `default`,
`Take` the loop of a handler and `Finish` the return of `ProcessUpdate`. `Exit` is
the end of `main`, with everything in memory. `Take`, `StartHandler` and the waiting
of `Stop` are telego's and modelled as the code uses it. `replaced` and `stray` are
history variables.

### Settings and the code

A request is `Begin` with any value, `Store` or `StoreFails` for the statement, and
`Apply` for the atomic or `restartBot`; `handleSetAIConfig` has `ReadKey` or
`ReadKeyFails` before the statement when the key came blank. `mem` holds the two
atomics and the token the current bot works with. `Loaded` is what `main` makes of
the row at a start, column by column, with its defaults for what it cannot read.
`loose` is history: the parts for which row and copy may differ.

### Sessions and the code

`Login`, `CheckName` and `CheckPassword` are `handleLogin`, which reads the account
twice; `Send` is `AuthMiddleware` and `ClearCookie` the answer with which it refuses a
request, which may come after a later login of another tab. `Rename`, `Verify` and
`Update` are the changes of the account. A token has its name, what is left of its
time and whether the secret of the process signed it; `Validate` fails for a name
with `|`, which splits the token in four. `Tick` is time, `NewProcess` a restart,
with a new secret if none is configured. `promised`, `clean` and `stale` are history.

## Model checking

`tlc -config <cfg> <module>` in this directory.

| Run | Expected | States | What it shows |
|---|---|---|---|
| `LogStream` (`MCLogStream`) | passes | 113,595 | types and capacities (`TypeOK`), `RingHoldsLatest`, `StreamContiguous`, `HistoryBeforeStream`, `NoSendOnClosed`, and that every run is one of `EventFeed` (`ImplementsFeed`) |
| `LogStreamLive` (`MCLogStream`) | passes | 5,441 | `QueueDrains`, `SubscribeCompletes` whatever viewers do; `ImplementsFairFeed` if they read |
| `Tracker` | passes | 288,988 | `OnceADay`, `TrackedADay`, `NewHasRow`, `ExpiredLeave` for one group |
| `Flood` | passes | 241,294 | `TypeOK`, `ImplementsAlarm`, `ImplementsFairAlarm`, `NoneAssessedInFlood` |
| `Schema` | passes | 3,320,653 | `TypeOK`, `MigratedInFull`, `CredentialsKept` |
| `Monitor` | passes | 817,863 | `NewUserOnce`, `InstantEffect`, `NewcomerFlagged`, `MembersSpared`, `JoinsReported` |
| `Warnings` | passes | 504,499 | `Accounted`, `OffIsOff`, `AssessmentReported`, `WarningsEnd` |
| `Lifecycle` | passes | 72,738 | `TypeOK`, `QuietSwap`, that every run is one of `UpdateQueue` (`ImplementsQueue`), `AcceptedTaken`, `CallsReturn`, `HookSettles` |
| `Admin` (`MCAdmin`) | passes | 508,520 | `AdminTypeOK`, `CopiesAgree`, `KeyKept` of `Settings`; `SessionLasts`, `CredentialsProved` of `Sessions` |
| `LogStreamSlow` (`MCLogStream`) | violated | - | `NoDoubleClose` |
| `TrackerOldest` (`Tracker`) | violated | - | `TrackedADay` with two groups |
| `SchemaFirst` (`Schema`) | violated | - | `EntriesStored` |

The type invariants of `Tracker`, `Monitor` and `Warnings` are proved and not part of
their runs.

### Bounds, and why they are enough

- `LogStream`: two sessions, because one session's overflow, closing or
  reading can only disturb another's through the broker; capacities of 1 so that
  every channel is full after one send; a ring of 2 and 3 entries, so that it
  wraps; a history limit of 2 so that it cuts. The proofs remove all of these.
  The liveness run has a smaller ring and two entries: no liveness property
  depends on the ring.
- `Tracker`: two goroutines about one user in one group, a second of 2 ticks
  (every fraction of a second matters when a row is truncated), a day of 2 seconds,
  longer than the second truncation may cost, so that `Day - Second` is a time in
  which purges, restarts and other goroutines come, and 9 ticks: enough to join,
  expire and rejoin. Users do not interfere, for map and table are keyed by user.
  With two groups `TrackedADay` is false (`TrackerOldest`).
- `Flood`: three users with a threshold of 2, so that one may be beyond the
  threshold; two groups, as one user's join counts in one group only; a minute
  of 2 ticks, so that there are times inside, at the end and beyond the window.
- `Monitor`: one person, one verification bot, one group and two updates at once
  (`MaxUpdates`), each with every interleaving of its steps, of settings and of
  Telegram's answers, and one dropped entry (`MaxDrops`). A race needs two
  goroutines. Users meet only as authors of each other's joining, where the bot
  takes the part of the second.
- `Lifecycle`: two calls of `startBot`, one for the bot that is replaced and one for
  the bot that replaces it, beside the signal; a queue of one place and two
  updates, so that it is empty, full and refuses; a public URL, for without one
  there is no webhook to register. The proofs remove the bounds.
- `Admin`: two requests, for one can be overtaken by one other; two keys and two
  tokens, of which one is bad and the other that of the environment; two tabs,
  two names, of which one has a `|`, two passwords; a day of 2 ticks. The two
  parts of the run share no variable, and each behaviour moves one of them.
- `Schema`: no bound; two credentials tell old and new apart.
- `Warnings`: one assessment and one flood, which meet only in the settings and the
  bot; two bots, for the one that posted and another; two attempts, so that one
  is tried again and one is the last; two requests for the option at once
  (`MaxRequests`), for one can cross one other; one dropped entry (`MaxDrops`).

`CHECK_DEADLOCK FALSE` is in the run of `Lifecycle`, where a process that was told to
end has ended. In the others something may always go on.

### Fairness, and what justifies it

- `LogStream!Fairness`: the Go scheduler runs what can run (weak fairness of
  `OnPublish`, `Exit`, `Restart`); select picks at random among the ready cases and
  blocked senders are served in order (strong fairness of the cases of `run` and
  of `Subscribe` and `Unsubscribe`). Nothing is assumed of publishers, of crashes
  or of viewers: the HTTP server has no write timeout. `Reading` assumes of
  viewers that they read, and only `ImplementsFairFeed` uses it.
- `Tracker!FairSpec`: the ticker of `cleanupLoop` goes on (`PurgeUsers`), and the
  deletion does not fail for ever (`PurgeRows`; a failing one is no step).
- `Flood!FairSpec`: the ticker of `startFloodCleanup` goes on.
- `Monitor!FairSpec`: some goroutine goes on whenever one can, since their calls to
  Telegram have timeouts of 5 and 15 seconds. One at a time is enough, and less than
  the scheduler gives: each of them ends after so many steps.
- `Warnings!FairSpec`: each goroutine goes on (`Goes`), since `SendMessage` and
  `DeleteMessage` have a timeout of 10 seconds and an assessment one of 60; nothing
  is assumed of Telegram (`Post`), of the administrator or of restarts.
- `Lifecycle!FairSpec`: goroutines go on, `ProcessUpdate` returns (see `Monitor`),
  and a call to Telegram ends, in whatever way. Go's mutex serves who has waited
  longest; here a waiting caller gets `botMu` when nobody else holds it for good
  (weak fairness of `Lock`), which is less. No request, signal or update need come.

## Divergences the runs found

1. `LogStreamSlow` (bug). The broadcast closes the channel of a client that is
   full (`logstream.go:81`); its handler then unsubscribes, and `run` closes
   the channel again (`logstream.go:67`). The panic ends the process.
2. `TrackerOldest` (bug). A user with rows in two groups is loaded with the older
   one, since `GetNewUsers` sorts newest first and the last assignment wins
   (`tracker.go:46`): after a restart he is dropped too early.
3. `SchemaFirst` (bug). On a fresh database, and on an older one without the table,
   the columns `source`, `tags` and `telegram_date` are added to `event_logs` before
   the table is created (`db.go:100-103`, `db.go:130`): the first process stores no
   entry at all.

Seen while modelling and not the subject of a run; each is a case a property
names as its exception, or a step of a model:

- The broker drops an entry without a trace when 64 wait (`logstream.go:105-108`), so
  the entry of a joining, an assessment or a warning may be missing, in a join flood
  above all. `Accounted`, `AssessmentReported` and the properties of `Monitor` speak of
  what is handed to the broker.
- When the groups cannot be read (`db.go:365-368`), updates are ignored without a
  trace (`bot.go:91`), and a member who writes then is condemned for having no group
  in common (`bot.go:638-641`). `JoinsReported`, `NewcomerFlagged` and `MembersSpared`
  except it.
- Rows added to a table of an older version lack the Z of their time until the next
  start (`db.go:308`, `db.go:447`), since its `DEFAULT` stays. `MigratedInFull` promises
  the Z for the end of `migrate`.
- Telegram may post a warning whose call timed out, or whose process has ended;
  nobody deletes it (`lost`).
- After a failed `NewBotHandler`, `bh` is nil (`main.go:150-154`), and a late goroutine
  that starts a handler panics (`Panics`). With no option given the call does not
  fail.
- Goroutines an update leaves behind (`bot.go:153`, `bot.go:221`, `bot.go:270`) load
  the bot later, so a call may go out by the next bot; `QuietSwap` is about the
  updates in processing only.
- An entry published between the reading of the history and the subscription
  reaches a viewer in neither way (`handler.go:204-218`).
- A newcomer's first message may be classified before the goroutine of his joining
  has his bio and marks him (`bot.go:406`, `bot.go:469`): no `NEW_MSG`, though
  `README.md:43` says "Message from a user who joined < 24h ago". `NewcomerFlagged`
  promises it from the announcement on.
- Who leaves is the author of the service message about it, shares no group with
  the bot any more, and is logged as `SPAM_CONFIRMED` (`bot.go:444-504`), which
  `README.md:46` calls "AI-confirmed"; so is a member when `GetChatMember` fails
  (`bot.go:652`). `MembersSpared` excepts both.
- The prompt asks for the risk levels 低/中/高/确认spam (`ai.go:126`) while
  `bot.go:193-201` looks for 高风险, so an answer 高 is neither `SPAM_HIGH_RISK` nor
  warned of.
- A warning stays in the group for ever after a restart, a change to another bot,
  or a failing or lost call, where `README.md:16` says "auto-deletes" (the set `lost`
  of `Warnings`).
- A bio learnt on a second join is not written to the table (`tracker.go:110-112`);
  joins of users who are known from another group do not count for a flood
  (`bot.go:116-121`); a member of long standing who is muted by a bot is announced
  as `NEW_USER` (`bot.go:751-754`); `QUOTE` and the entity categories are never
  logged (`bot.go:477-485` drops the entities and returns before the cases at
  `bot.go:500-503`).
- `startBot` stops the old handler before it tries the new token (`main.go:135-145`):
  after a refused one nobody takes updates from the queue, which fills up, while
  the row holds the bad token. `AcceptedTaken` and `CopiesAgree` except it.
- The goroutine that starts a handler reads `bh` without `botMu` (`main.go:161-162`):
  a handler may be started twice, or after `Stop` was called for it, and then
  nobody stops it (`stray`).
- Updates that were answered 200 and still wait when the process ends are gone
  (`main.go:198-246`); the webhook of a bot that was replaced is never deleted.
- Two requests for one setting may leave row and atomic different until the next
  one or the next start (`handler.go:266`); a blank key whose reading fails erases
  the stored one (`handler.go:485-490`). `CopiesAgree` and `KeyKept` except them.
- With a `|` in the user name no token validates, so that the login after such a
  change of name is of no use (`auth.go:77`); the answer to a refused request may
  clear the cookie of a later login (`auth.go:142`). `SessionLasts` excepts both.

## Proofs

`tlapm <module>` in this directory. All proofs hold for every value of the constants
that satisfies the named assumptions (`LogStreamAssumption`, `TrackerAssumption`,
`FloodAssumption`, `MonitorAssumption`, `SchemaAssumption`, `WarningsAssumption`,
`LifecycleAssumption`, `SettingsAssumption`, `AdminAssumption`): sizes are positive
numbers, bounds are natural numbers, sets that must differ are disjoint, in
`Monitor` there are finitely many groups, and nothing else. `MaxEntries`, `MaxTime`,
`MaxUpdates`, `MaxDrops`, `MaxRequests` and `MaxStarts` may be as large as one
likes.

| Theorem | Statement |
|---|---|
| `LogStreamProofs!TypeCorrect` | `Spec => []TypeOK` |
| `LogStreamProofs!NeverSendsOnClosed` | `Spec => []NoSendOnClosed` |
| `LogStreamProofs!RecentIsLatest` | `Spec => []RingHoldsLatest` |
| `LogStreamProofs!StreamsHaveNoHoles` | `Spec => []StreamContiguous` |
| `LogStreamProofs!BrokerImplementsFeed` | `Spec => ImplementsFeed` |
| `LogStreamProofs!NothingShownTwice` | `Spec => []HistoryBeforeStream` |
| `LogStreamProofs!NoViewerStranded` | `Spec => []NobodyStranded` |
| `LogStreamProofs!UnregisterEndsProcess` | `Spec => [][HandleUnregister => Die]_vars` |
| `TrackerProofs!TypeCorrect` | `Spec => []TypeOK` |
| `TrackerProofs!OneGroupOneRow` | `OneChat /\ Spec => []OneRow` |
| `TrackerProofs!AnnouncedOnce` | `Spec /\ []OneRow => OnceADay` |
| `TrackerProofs!TrackedForADay` | `Spec /\ []OneRow => []TrackedADay` |
| `TrackerProofs!RestartFindsNew` | `OneChat /\ Spec => []NewHasRow` |
| `TrackerProofs!ProcessRemembers` | `Spec => MemoryHolds` |
| `FloodProofs!TypeCorrect` | `Spec => []TypeOK` |
| `FloodProofs!FloodSkipsAI` | `Spec => NoneAssessedInFlood` |
| `FloodProofs!FloodImplementsAlarm` | `Spec => ImplementsAlarm` |
| `MonitorProofs!TypeCorrect` | `Spec => []TypeOK` |
| `MonitorProofs!SettingsAtOnce` | `Spec => []InstantEffect` |
| `MonitorProofs!AnnouncedOnce` | `Spec => []NewUserOnce` |
| `MonitorProofs!NewcomersAreFlagged` | `Spec => []NewcomerFlagged` |
| `MonitorProofs!MembersAreSpared` | `Spec => []MembersSpared` |
| `MonitorProofs!NobodySlipsThrough` | `Spec => []NoneUnannounced` |
| `MonitorProofs!JoinsLoggedOnce` | `Spec => []EachJoinOnce` |
| `SchemaProofs!TypeCorrect` | `Spec => []TypeOK` |
| `SchemaProofs!MigrationCompletes` | `Spec => []MigratedInFull` |
| `SchemaProofs!CredentialsStay` | `Spec => CredentialsKept` |
| `WarningsProofs!TypeCorrect` | `Spec => []TypeOK` |
| `WarningsProofs!OffStaysOff` | `Spec => OffIsOff` |
| `WarningsProofs!NoneForgotten` | `Spec => [](\A t \in Tasks : ~Forgotten(t))` |
| `WarningsProofs!WarningsAccounted` | `Spec => []Accounted` |
| `LifecycleProofs!TypeCorrect` | `Spec => []TypeOK` |
| `LifecycleProofs!SwapIsQuiet` | `Spec => QuietSwap` |
| `LifecycleProofs!ImplementsUpdateQueue` | `Spec => ImplementsQueue` |
| `LifecycleProofs!QueueIsServed` | `Spec => []SomebodyTakes` |
| `LifecycleProofs!LockHeldInside` | `Spec => []LockIsGivenBack` |
| `LifecycleProofs!HooksOfReplaced` | `Spec => []CancelledIfReplaced` |
| `LifecycleProofs!NothingTwice` | `Spec => []OnePlace /\ NeverBack` |
| `AdminProofs!TypeCorrect` | `Spec => []TypeOK` (of `Settings`) |
| `AdminProofs!CopiesStayEqual` | `Spec => []CopiesAgree` |
| `AdminProofs!BlankKeepsKey` | `Spec => KeyKept` |
| `AdminProofs!SessionsLast` | `Admin!Spec => []SessionLasts` (of `Sessions`) |
| `AdminProofs!CredentialsAreProved` | `Admin!Spec => CredentialsProved` |
| `AdminProofs!AdminTypeCorrect` | `AdminSpec => []AdminTypeOK` |

How they go, and which inductive invariants they need:

- `NeverSendsOnClosed`. That no member of `clients` is closed is not inductive: a
  closed channel could be registered. `SessionInv`, `RegisterInv` and
  `UnregisterInv` say where the handler of a channel is that waits in `register` or
  `unregister`, so that a registration comes before any closing. The same invariant
  gives `UnregisterEndsProcess`: a handler leaves its loop only when its channel is
  closed, so no call of `Unsubscribe` ever does what it is for (divergence 1 in
  general). `NoViewerStranded` adds that a handler in its loop is still in
  `register`, in `clients` or closed.
- `RecentIsLatest`. `RingInv` gives for each of the `count` newest entries its place,
  behind `head` and modulo the size; `Recent` is then compared index by index.
- `StreamsHaveNoHoles`. `StreamInv`: what a session was sent and what its channel
  holds is a window of `processed` that starts at `since`, and for a client that is
  still registered it reaches to the end. Lemmas on windows of sequences
  (`WindowGrows`, `WindowStays`, `ConcatShift`) carry it through the steps.
- `BrokerImplementsFeed`. From the same invariant each step maps to a step of
  `EventFeed` or to none: one lemma per abstract action (`FeedLog`, `FeedOpen`,
  `FeedDeliver`, `FeedCutAll`, `FeedEnd`, `FeedDie`).
- `NothingShownTwice`. `OrderInv`: entries, rows, queue and streams are all in the
  order of `Publish`; `HistoryInv` puts the history before what is yet to come.
- `Tracker`. `TrackerInv` is the conjunction of `TypeOK`, `PastInv` (no time lies in
  the future), `DownInv` (a process that is down has no memory), `OneRow` (no user
  has two rows), `WrittenInv` (an announcement that was written keeps its row for
  the day), `AnnouncedInv` (who was announced today is in the map of the process,
  with a time at most the dropped fraction of a second earlier) and `BackedInv` (a
  user of the map who was written has a row as recent). The three properties follow
  each other around the cycle join, row, purge, crash, load, so none is inductive
  alone. `AnnouncedOnce` and `TrackedForADay` hold for any number of groups as long
  as nobody has two rows (`[]OneRow`). `OneGroupOneRow` proves that of `OneChat`, one
  monitored group; with two it fails, and the theorems with it, as `TrackerOldest`
  shows. `RestartFindsNew` names the group in the row and keeps `OneChat`.
  `ProcessRemembers` needs neither: inside one process the map alone decides, and
  by `PastInv` no call and no purge works with a time that lies in the future. It is
  what `Flood` and `Monitor` rest on when their `known` only grows.
- `Flood`. `FloodInv` is `TypeOK` with `SameKeys` (the three maps have the same keys),
  `HistoryInv` (`JoinsInv`: a join of the last minute is in `floodJoins` with its
  age; `LastInv`: no join is younger than `floodLastJoin`) and `StillOn` (a group in
  which a newcomer was recorded in flood mode is still in it for a minute).
  `FloodSkipsAI` reads `StillOn` at `CheckFlood`; `FloodImplementsAlarm` uses
  `HistoryInv` to replace the maps by the true history.
- `Warnings`. `WarningsInv` is `TypeOK` with `SwitchInv`: with the row off and no
  requests overlapping, none is about to turn the atomic on, and once none is about
  to turn it off it is off, and who is past `Allow` had been allowed before. From it
  `OffIsOff` follows. `NoneForgotten` and `WarningsAccounted` need more, about the
  messages Telegram was asked for, posted or not (`Asked`): `GroupInv` (there is one
  of each goroutine at most, and each in the group has its goroutine on its way to
  delete it, or is `lost`), `LogInv` (what was published of a goroutine that has come
  so far) and `BotInv` (once there is a bot there is one until the process ends, so
  that the branch of `Wake` for want of a bot is never taken).
- `Monitor`. `MonitorInv` says of every goroutine what it may rely on where it is:
  `PlaceInv` (which updates come to which place, and that who is about to be
  announced is in the tracker), `SettingsInv` (what is past `Route` is followed, or a
  change came too `late` for it: `Allowed`), `PostInv` (a post of somebody tracked
  finds him new), `MemberInv` (who wrote as a member is one or left since),
  `CountInv` (if no read or call failed, the group a member wrote in has been
  counted or will be) and `AnnounceInv` (announcements and goroutines about to
  announce are at most one for each user, and none for who was `loaded`), and of every
  entry `LogInv`. A step of one goroutine is treated once, in `StepInv`: it changes
  its own task and adds at most one line, so each action has only to show what its
  task and its line are. `MembersSpared` rests on `CountInv` and on `MemberFound`: a
  member's group counts if it is asked about. `ReportInv` goes on from there:
  `KnownInv` (whom this process came to track is announced, or about to be) and
  `JoinInv` (for what a goroutine has struck off its list of joiners, and only for
  that, there is one line of its update). With both, `NobodySlipsThrough` and
  `JoinsLoggedOnce` hold for any number of goroutines. All of it is about what is
  handed to the broker, which keeps or drops it; `DropsInv` bounds how often.
- `Schema`. `SchemaInv` is `TypeOK` with `BaseInv`, `CreatedInv` (a `CREATE` that is
  behind was done, since its failure ends the process), `DoneInv` (if nothing
  failed, every statement behind has had its effect) and `FoundInv`. What it says of
  the zones holds until the process runs, since `Insert` may undo it. That `DoneInv`
  survives needs `MadeBefore`: a column is added to a table that an earlier
  statement made, `event_logs` excepted. `Complete` then says that the 18 statements
  together make what the queries name.
- `Lifecycle`. `LifecycleInv` adds to `TypeOK`: `LockInv` (who is inside the section
  holds `botMu`), `MadeInv` (a bot has a handler only once its `startBot` is done),
  `ReplacedInv` (`Stop` was called for every bot but the newest), `StoppingInv`,
  `RunInv` (what runs is the newest handler or a stray one) and `BusyInv` (a handler
  that does not run processes nothing). `QuietSwap` is `RunInv` and `BusyInv` at
  `NewBot` and `NewHandlerFails`. For `ImplementsQueue` each step maps to a step of
  `UpdateQueue` or to none. `GoingInv` says what keeps it going: `ServedInv` (the
  handler of the newest bot, unless it was stopped or never made, runs, or somebody
  will start it, whichever handler a late reader of `bh` picked), `HeldInv` (nobody
  returns holding `botMu`), `HookInv` (the context a webhook was registered with is
  its bot's or a later one) and `WaitInv` (`Stop` waits for a handler that is
  stopping). `OrderInv` orders waiting updates and those in processing, from which
  `NothingTwice` follows.
- `Sessions`. `SessionInv` is its `TypeOK` with `TabInv` (what each request relies on:
  who was refused had no session that was to hold, unless a login came since; what
  was compared is what the account still holds, unless somebody changed it since)
  and `PromiseInv` (while a login is to hold, the browser has a signed token, of a
  name without `|`, that is good for at least as long). `SessionLasts` follows from
  `PromiseInv`, which needs `TabInv` at `ClearCookie`, and `CredentialsProved` from
  `TabInv` at `CheckPassword` and `Update`. In `MCAdmin` both modules run side by side:
  `RunIsBoth` shows that a behaviour of the run is one of either.
- `Settings`. `PendingInv` (a part that is not `loose` has one request on its way at
  most, which holds what the row says) and `CleanInv` (what a request read of the
  key, if nobody stored another since, is the key).

Each invariant was checked by TLC as an invariant before it was proved. Only
model-checked, not proved, are the liveness properties, since fairness and
`ENABLED` are beyond the prover. For most of them the safety core is proved: what
must hold in every state, so that with the fairness assumed nothing is left but
that enabled steps are taken.

| Liveness property | What is proved of it |
|---|---|
| `SubscribeCompletes` | `NoViewerStranded` |
| `AcceptedTaken` | `QueueIsServed`, `NothingTwice` |
| `CallsReturn` | `LockHeldInside` |
| `HookSettles` | `HooksOfReplaced` |
| `WarningsEnd` | `NoneForgotten` |
| `JoinsReported`, which has the form `[]<>` | `NobodySlipsThrough`, `JoinsLoggedOnce` |
| `ImplementsFairFeed`, `ImplementsFairAlarm` | the refinement without fairness: `BrokerImplementsFeed`, `FloodImplementsAlarm` |
| `QueueDrains`, `ExpiredLeave`, `AssessmentReported` | nothing: each is about progress alone |

## What is not modelled

| Part | Why |
|---|---|
| Texts of entries, titles of groups, media, entities | no property tells them apart |
| `PurgeOldLogs` and `GetBannedCount24h` in detail | `LogStream` purges any prefix of the table by ids; how two times compare as text (`db.go:618`) is left to do |
| A failing read of the verification bots | it decides a tag and nothing else |
| Changes of the list of verification bots | it is a constant of `Monitor`; a change takes effect with the next query |
| Waiting times of 2 and 120 seconds, timeouts | steps that come at some time |
| Keepalive and parsing of the stream by the page | no state of the server |
| The making of signatures and password hashes | no token is made without the secret, and a password matches its own hash only |
| `BuildAPIURL`, `TestConnection`, masking of keys | stateless string handling and one request |
| Page, Dockerfile, scripts | no logic of the program; the restarts they cause are actions |

## Plan

What would come next:

1. The purge of the event log and the window of a day, with times compared as
   text, in a module beside `LogStream`.
2. `Monitor` beyond a day of one process, composed with `Tracker`: a user who expires
   between his joining and his message.
3. `Tracker` with more than one group, beyond what holds while nobody has two rows:
   what a restart makes of the two.

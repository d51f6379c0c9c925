------------------------------ MODULE LogStream ------------------------------
(***************************************************************************)
(* internal/logstream: the broker goroutine, its ring buffer and its       *)
(* client channels; the SSE handler that subscribes to it                  *)
(* (handler.handleSSEStream); the event_logs table its OnPublish callback  *)
(* fills (main.go); and the life of the process they all live in.          *)
(*                                                                         *)
(* An entry is the number of the Publish call that brought it.  (Callers   *)
(* take its timestamp before the call, so that entries of one moment may   *)
(* have theirs in another order; the queries sort by id, and only the      *)
(* purge, which is taken to delete the oldest ids, compares timestamps.)   *)
(* A session is one request to the stream and stands for the channel that  *)
(* request subscribes.                                                     *)
(***************************************************************************)
EXTENDS Integers, Sequences, FiniteSets

CONSTANTS
  Sessions,       \* concurrent requests to /api/logs/stream
  MaxRingSize,    \* entries in the ring (200 in the code)
  MaxBroadcast,   \* capacity of publish and of a client channel (64)
  ChanCap,        \* capacity of register and unregister (4)
  HistoryLimit,   \* rows an anonymous viewer is sent first (200)
  MaxEntries,     \* bound of the model on the number of Publish calls
  Viewers,        \* which viewers connect: TRUE is one who has logged in
  StoreMayFail    \* may a database call return an error?

ASSUME LogStreamAssumption ==
  /\ MaxRingSize \in Nat \ {0}
  /\ MaxBroadcast \in Nat \ {0}
  /\ ChanCap \in Nat \ {0}
  /\ HistoryLimit \in Nat
  /\ MaxEntries \in Nat
  /\ Viewers \subseteq BOOLEAN
  /\ StoreMayFail \in BOOLEAN

VARIABLES
  run,         \* where the goroutine run is; "down": no process
  stop,        \* b.stop is closed
  publish,     \* b.publish, a buffered channel of entries
  register,    \* b.register, a buffered channel of client channels
  unregister,  \* b.unregister
  clients,     \* b.clients
  ring,        \* b.ring
  head,        \* b.head
  count,       \* b.count
  entry,       \* the entry run is persisting
  buf,         \* buf[s]: entries waiting in the channel of session s
  closed,      \* closed[s]: the channel of session s is closed
  pc,          \* where the SSE handler of session s is
  history,     \* history[s]: entries sent in the history event
  sent,        \* sent[s]: entries sent in log events
  eventLogs,   \* rows of table event_logs in the order of their ids
  published,   \* number of Publish calls so far
  processed,   \* history variable: entries run has taken from publish
  since        \* history variable: Len(processed) when s was registered

broker == <<run, stop, publish, register, unregister, clients, ring, head, count, entry>>
channels == <<buf, closed>>
handlers == <<pc, history, sent>>
vars == <<broker, channels, handlers, eventLogs, published, processed, since>>

Entry == 1..MaxEntries

FlagsOK == stop \in BOOLEAN /\ closed \in [Sessions -> BOOLEAN]

DataOK ==
  /\ run \in {"select", "onPublish", "stopped", "down"}
  /\ publish \in Seq(Entry) /\ Len(publish) <= MaxBroadcast
  /\ register \in Seq(Sessions) /\ Len(register) <= ChanCap
  /\ unregister \in Seq(Sessions) /\ Len(unregister) <= ChanCap
  /\ clients \subseteq Sessions
  /\ ring \in [0..(MaxRingSize - 1) -> Entry \cup {0}]
  /\ head \in 0..(MaxRingSize - 1)
  /\ count \in 0..MaxRingSize
  /\ entry \in Entry \cup {0} /\ (run = "onPublish" => entry \in Entry)
  /\ buf \in [Sessions -> Seq(Entry)]
  /\ \A s \in Sessions : Len(buf[s]) <= MaxBroadcast
  /\ pc \in [Sessions -> {"off", "subscribing", "streaming", "unsubscribing", "done"}]
  /\ history \in [Sessions -> Seq(Entry)]
  /\ sent \in [Sessions -> Seq(Entry)]
  /\ eventLogs \in Seq(Entry)
  /\ published \in 0..MaxEntries
  /\ processed \in Seq(Entry)
  /\ since \in [Sessions -> Nat]

(* Every variable has its type and no channel holds more than its capacity. *)
TypeOK == FlagsOK /\ DataOK

(* What a new process starts from: NewBroker and no request yet. *)
EmptyRing == [i \in 0..(MaxRingSize - 1) |-> 0]
NoEntries == [s \in Sessions |-> <<>>]

Init ==
  /\ run = "select" /\ stop = FALSE
  /\ publish = <<>> /\ register = <<>> /\ unregister = <<>>
  /\ clients = {}
  /\ ring = EmptyRing /\ head = 0 /\ count = 0 /\ entry = 0
  /\ buf = NoEntries /\ closed = [s \in Sessions |-> FALSE]
  /\ pc = [s \in Sessions |-> "off"]
  /\ history = NoEntries /\ sent = NoEntries
  /\ eventLogs = <<>> /\ published = 0
  /\ processed = <<>> /\ since = [s \in Sessions |-> 0]

(***************************************************************************)
(* The process ends: everything but the database is gone, every connection *)
(* is cut.  docker-compose starts it again ("restart: unless-stopped").    *)
(***************************************************************************)
Die ==
  /\ run' = "down" /\ stop' = FALSE
  /\ publish' = <<>> /\ register' = <<>> /\ unregister' = <<>>
  /\ clients' = {}
  /\ ring' = EmptyRing /\ head' = 0 /\ count' = 0 /\ entry' = 0
  /\ buf' = NoEntries /\ closed' = [s \in Sessions |-> FALSE]
  /\ pc' = [s \in Sessions |-> "off"]
  /\ history' = NoEntries /\ sent' = NoEntries
  /\ processed' = <<>> /\ since' = [s \in Sessions |-> 0]
  /\ UNCHANGED <<eventLogs, published>>

Kill == run # "down" /\ Die

Restart ==
  /\ run = "down"
  /\ run' = "select"
  /\ UNCHANGED <<stop, publish, register, unregister, clients, ring, head, count, entry,
                 channels, handlers, eventLogs, published, processed, since>>

(* main's deferred calls once the HTTP server is shut down: Close, then exit. *)
Close ==
  /\ run # "down" /\ ~stop
  /\ stop' = TRUE
  /\ UNCHANGED <<run, publish, register, unregister, clients, ring, head, count, entry,
                 channels, handlers, eventLogs, published, processed, since>>

Exit == run # "down" /\ stop /\ Die
-----------------------------------------------------------------------------
(***************************************************************************)
(* Publish, called by every other component, never blocks: when publish is *)
(* full the entry is dropped.                                              *)
(***************************************************************************)
Full(q, cap) == Len(q) >= cap

PublishUnchecked(e) == publish' = Append(publish, e)

Send(e) == publish' = IF Full(publish, MaxBroadcast) THEN publish ELSE Append(publish, e)

Publish ==
  /\ run # "down"
  /\ published < MaxEntries
  /\ published' = published + 1
  /\ Send(published + 1)
  /\ UNCHANGED <<run, stop, register, unregister, clients, ring, head, count, entry,
                 channels, handlers, eventLogs, processed, since>>
-----------------------------------------------------------------------------
(***************************************************************************)
(* The cases of run's select.  Each holds b.mu from its first assignment   *)
(* to its last, and what it does to one client does not depend on another, *)
(* so each is one step.                                                    *)
(***************************************************************************)
Slow == {s \in clients : Full(buf[s], MaxBroadcast)}

Deliver(S, e) == buf' = [s \in Sessions |-> IF s \in S THEN Append(buf[s], e) ELSE buf[s]]

CloseAll(S) == closed' = [s \in Sessions |-> closed[s] \/ s \in S]

(* Mutated forms of Broadcast: a slow client is passed over but kept; it is *)
(* closed but kept; it is forgotten but not closed; run waits for it.      *)
BroadcastSkips(e) == Deliver(clients \ Slow, e) /\ UNCHANGED <<clients, closed>>
BroadcastKeeps(e) == Deliver(clients \ Slow, e) /\ CloseAll(Slow) /\ UNCHANGED clients
BroadcastForgets(e) == Deliver(clients \ Slow, e) /\ clients' = clients \ Slow /\ UNCHANGED closed
BroadcastWaits(e) == Slow = {} /\ Deliver(clients, e) /\ UNCHANGED <<clients, closed>>

(* for ch := range b.clients { select { case ch <- entry: default: ... } } *)
Broadcast(e) ==
  /\ Deliver(clients \ Slow, e)
  /\ clients' = clients \ Slow
  /\ CloseAll(Slow)

HandlePublish ==
  /\ run = "select" /\ publish # <<>>
  /\ LET e == Head(publish) IN
       /\ publish' = Tail(publish)
       /\ ring' = [ring EXCEPT ![head] = e]
       /\ head' = (head + 1) % MaxRingSize
       /\ count' = IF count < MaxRingSize THEN count + 1 ELSE count
       /\ Broadcast(e)
       /\ processed' = Append(processed, e)
       /\ entry' = e
  /\ run' = "onPublish"
  /\ UNCHANGED <<stop, register, unregister, handlers, eventLogs, published, since>>

(* OnPublish, called with b.mu released: store.InsertLog, whose error is   *)
(* only logged.                                                            *)
InsertLog(e) ==
  \/ eventLogs' = Append(eventLogs, e)
  \/ StoreMayFail /\ UNCHANGED eventLogs

OnPublishGivesUp ==
  /\ run = "onPublish"
  /\ \/ eventLogs' = Append(eventLogs, entry) /\ run' = "select"
     \/ StoreMayFail /\ UNCHANGED eventLogs /\ run' = "stopped"
  /\ entry' = 0
  /\ UNCHANGED <<stop, publish, register, unregister, clients, ring, head, count,
                 channels, handlers, published, processed, since>>

OnPublish ==
  /\ run = "onPublish"
  /\ InsertLog(entry)
  /\ run' = "select" /\ entry' = 0
  /\ UNCHANGED <<stop, publish, register, unregister, clients, ring, head, count,
                 channels, handlers, published, processed, since>>

(* Mutated form: a new client is first sent the newest entry of the ring. *)
GreetReplay(s) == buf' = [buf EXCEPT ![s] = IF processed = <<>> THEN @
                                            ELSE <<processed[Len(processed)]>>]
Greet(s) == UNCHANGED buf

HandleRegister ==
  /\ run = "select" /\ register # <<>>
  /\ LET s == Head(register) IN
       /\ clients' = clients \cup {s}
       /\ since' = [since EXCEPT ![s] = Len(processed)]
       /\ Greet(s)
  /\ register' = Tail(register)
  /\ UNCHANGED <<run, stop, publish, unregister, ring, head, count, entry,
                 closed, handlers, eventLogs, published, processed>>

(* close(ch) of a closed channel panics, and the panic ends the process. *)
HandleUnregister ==
  /\ run = "select" /\ unregister # <<>>
  /\ LET s == Head(unregister) IN
       IF closed[s]
       THEN Die
       ELSE /\ clients' = clients \ {s}
            /\ CloseAll({s})
            /\ unregister' = Tail(unregister)
            /\ UNCHANGED <<run, stop, publish, register, ring, head, count, entry, buf,
                           handlers, eventLogs, published, processed, since>>

HandleStop ==
  /\ run = "select" /\ stop
  /\ run' = "stopped"
  /\ CloseAll(clients)
  /\ clients' = {}
  /\ UNCHANGED <<stop, publish, register, unregister, ring, head, count, entry, buf,
                 handlers, eventLogs, published, processed, since>>

(* Recent, oldest entry first, under the read lock. *)
RecentFromZero ==
  [i \in 1..count |-> ring[i - 1]]

Recent ==
  IF count < MaxRingSize
  THEN [i \in 1..count |-> ring[i - 1]]
  ELSE [i \in 1..MaxRingSize |-> ring[(head + i - 1) % MaxRingSize]]
-----------------------------------------------------------------------------
(***************************************************************************)
(* handleSSEStream.  A viewer who has logged in is sent the rows of the    *)
(* last 24 hours, an anonymous one the last HistoryLimit rows; on an error *)
(* there is no history event.                                              *)
(***************************************************************************)
LastRows(n) == SubSeq(eventLogs, Len(eventLogs) - n + 1, Len(eventLogs))

RecentLogs(authenticated) ==
  IF authenticated
  THEN {LastRows(n) : n \in 0..Len(eventLogs)}
  ELSE {LastRows(IF Len(eventLogs) < HistoryLimit THEN Len(eventLogs) ELSE HistoryLimit)}

ReadHistory(s) ==
  /\ run # "down" /\ pc[s] = "off"
  /\ \/ \E authenticated \in Viewers : \E rows \in RecentLogs(authenticated) :
          history' = [history EXCEPT ![s] = rows]
     \/ StoreMayFail /\ UNCHANGED history
  /\ pc' = [pc EXCEPT ![s] = "subscribing"]
  /\ UNCHANGED <<broker, channels, sent, eventLogs, published, processed, since>>

Subscribe(s) ==
  /\ pc[s] = "subscribing" /\ ~Full(register, ChanCap)
  /\ register' = Append(register, s)
  /\ pc' = [pc EXCEPT ![s] = "streaming"]
  /\ UNCHANGED <<run, stop, publish, unregister, clients, ring, head, count, entry,
                 channels, history, sent, eventLogs, published, processed, since>>

Receive(s) ==
  /\ pc[s] = "streaming" /\ buf[s] # <<>>
  /\ sent' = [sent EXCEPT ![s] = Append(@, Head(buf[s]))]
  /\ buf' = [buf EXCEPT ![s] = Tail(@)]
  /\ UNCHANGED <<broker, closed, pc, history, eventLogs, published, processed, since>>

(* Mutated form: the handler does not look at ok and loops on the closed channel. *)
StreamNeverEnds(s) ==
  /\ pc[s] = "streaming" /\ buf[s] = <<>> /\ closed[s]
  /\ UNCHANGED vars

(* The only way out of the handler's loop: the channel is closed and empty. *)
StreamEnds(s) ==
  /\ pc[s] = "streaming" /\ buf[s] = <<>> /\ closed[s]
  /\ pc' = [pc EXCEPT ![s] = "unsubscribing"]
  /\ UNCHANGED <<broker, channels, history, sent, eventLogs, published, processed, since>>

Unsubscribe(s) ==
  /\ pc[s] = "unsubscribing" /\ ~Full(unregister, ChanCap)
  /\ unregister' = Append(unregister, s)
  /\ pc' = [pc EXCEPT ![s] = "done"]
  /\ UNCHANGED <<run, stop, publish, register, clients, ring, head, count, entry,
                 channels, history, sent, eventLogs, published, processed, since>>

(* main's hourly store.PurgeOldLogs: the oldest rows go. *)
PurgeOldLogs ==
  /\ run # "down"
  /\ \E n \in 1..Len(eventLogs) : eventLogs' = SubSeq(eventLogs, n + 1, Len(eventLogs))
  /\ UNCHANGED <<broker, channels, handlers, published, processed, since>>
-----------------------------------------------------------------------------
Next ==
  \/ Publish \/ HandlePublish \/ OnPublish
  \/ HandleRegister \/ HandleUnregister \/ HandleStop
  \/ \E s \in Sessions :
       \/ ReadHistory(s) \/ Subscribe(s) \/ Receive(s) \/ StreamEnds(s) \/ Unsubscribe(s)
  \/ PurgeOldLogs
  \/ Close \/ Exit \/ Kill \/ Restart

Spec == Init /\ [][Next]_vars

(***************************************************************************)
(* The Go scheduler runs every goroutine that can run; select picks at     *)
(* random among the cases that are ready, and senders blocked on a channel *)
(* are served in order, hence the strong fairness.  Nothing is assumed of  *)
(* Publish, Kill, Close or of new requests, nor of a viewer: with no write *)
(* timeout, a viewer who does not read blocks its handler in Flush.        *)
(***************************************************************************)
Fairness ==
  /\ WF_vars(OnPublish) /\ WF_vars(Restart) /\ WF_vars(Exit)
  /\ SF_vars(HandlePublish) /\ SF_vars(HandleRegister)
  /\ SF_vars(HandleUnregister) /\ SF_vars(HandleStop)
  /\ \A s \in Sessions : SF_vars(Subscribe(s)) /\ SF_vars(Unsubscribe(s))

(* The handler of a viewer who reads is never blocked for ever. *)
Reading == \A s \in Sessions : WF_vars(Receive(s)) /\ WF_vars(StreamEnds(s))

FairSpec == Spec /\ Fairness
-----------------------------------------------------------------------------
(* Everything the broker has put into the channel of s so far. *)
Stream(s) == sent[s] \o buf[s]

(***************************************************************************)
(* The wrapping ring and Recent return the newest entries, all of them up  *)
(* to the size of the ring, in the order they were processed.              *)
(***************************************************************************)
RingHoldsLatest ==
  LET n == Len(processed) IN
    Recent = SubSeq(processed, n - (IF n < MaxRingSize THEN n ELSE MaxRingSize) + 1, n)

(***************************************************************************)
(* A stream has no hole and no repetition: what a session has been sent    *)
(* and what waits for it is exactly what was processed since it was        *)
(* registered, up to now while it is registered and up to the entry that   *)
(* did not fit when it was dropped.                                        *)
(***************************************************************************)
StreamContiguous ==
  \A s \in Sessions :
    LET last == since[s] + Len(Stream(s)) IN
      /\ last <= Len(processed)
      /\ Stream(s) = SubSeq(processed, since[s] + 1, last)
      /\ s \in clients => last = Len(processed)

(***************************************************************************)
(* No entry is shown twice and none out of order: all that the history     *)
(* event holds is older than all that the stream carries, although the row *)
(* of an entry is written after the entry was broadcast.                   *)
(***************************************************************************)
HistoryBeforeStream ==
  \A s \in Sessions :
    \A i \in 1..Len(history[s]), j \in 1..Len(Stream(s)) : history[s][i] < Stream(s)[j]

(* run never sends on a closed channel, which would panic. *)
NoSendOnClosed == \A s \in clients : ~closed[s]

(***************************************************************************)
(* An accepted entry does not wait for ever, however slow the clients are: *)
(* it is broadcast and persisted, unless the process ends first.           *)
(***************************************************************************)
QueueDrains ==
  \A e \in Entry : (\E i \in 1..Len(publish) : publish[i] = e)
                     ~> (~(\E i \in 1..Len(publish) : publish[i] = e) /\ entry # e)

(* Subscribe returns and the session is registered, unless the process ends. *)
SubscribeCompletes ==
  \A s \in Sessions : (pc[s] = "subscribing") ~> (s \in clients \/ stop \/ pc[s] = "off")

(***************************************************************************)
(* The broker and its handlers implement EventFeed: the log is what run    *)
(* has processed, a session is live while it is in clients, and it is cut  *)
(* once run has closed its channel.                                        *)
(***************************************************************************)
FeedState(s) ==
  IF s \in clients THEN "live"
  ELSE IF pc[s] \in {"unsubscribing", "done"} THEN "over"
  ELSE IF closed[s] THEN "cut" ELSE "idle"

Feed == INSTANCE EventFeed WITH
  log <- processed,
  state <- [s \in Sessions |-> FeedState(s)],
  start <- since,
  limit <- [s \in Sessions |-> since[s] + Len(sent[s]) + Len(buf[s])],
  out <- sent

(* A run of the system, whatever its schedule, is a run of EventFeed. *)
ImplementsFeed == Feed!Spec

(* What is due to viewers who read reaches them, and then a cut session ends. *)
ImplementsFairFeed == Reading => Feed!Fairness

(* run never closes a channel that is closed. *)
NoDoubleClose ==
  (run = "select" /\ unregister # <<>>) => ~closed[Head(unregister)]
=============================================================================

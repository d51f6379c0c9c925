-------------------------- MODULE LogStreamProofs --------------------------
(***************************************************************************)
(* What is proved of LogStream for every number of sessions, every size of *)
(* the ring and of the channels, and every number of entries.              *)
(***************************************************************************)
EXTENDS LogStream, TLAPS

(* The numbers of the assumption, in the form the provers use. *)
LEMMA Sizes ==
  /\ MaxRingSize \in Int /\ MaxRingSize >= 1
  /\ MaxBroadcast \in Int /\ MaxBroadcast >= 1
  /\ ChanCap \in Int /\ ChanCap >= 1
  /\ HistoryLimit \in Int /\ HistoryLimit >= 0
  /\ MaxEntries \in Int /\ MaxEntries >= 0
BY LogStreamAssumption

(***************************************************************************)
(* Type correctness, the Boolean flags apart from the data.                *)
(***************************************************************************)
LEMMA FlagsStep == FlagsOK /\ [Next]_vars => FlagsOK'
<1> SUFFICES ASSUME FlagsOK, [Next]_vars PROVE FlagsOK'
    OBVIOUS
<1> USE DEF FlagsOK
<1>1. CASE UNCHANGED <<stop, closed>>
      BY <1>1
<1>2. CASE Die
      BY <1>2 DEF Die
<1>3. ASSUME NEW S, CloseAll(S), UNCHANGED stop PROVE FlagsOK'
      BY <1>3 DEF CloseAll
<1>4. CASE Close
      BY <1>4 DEF Close, channels
<1>5. CASE HandlePublish
      BY <1>5, <1>3 DEF HandlePublish, Broadcast
<1>6. CASE HandleUnregister
  <2>1. CASE UNCHANGED stop /\ CloseAll({Head(unregister)})
        BY <2>1, <1>3
  <2> QED BY <1>6, <1>2, <2>1 DEF HandleUnregister
<1>7. CASE HandleStop
      BY <1>7, <1>3 DEF HandleStop
<1>8. CASE Exit \/ Kill
      BY <1>8, <1>2 DEF Exit, Kill
<1>9. CASE Publish \/ OnPublish \/ HandleRegister \/ PurgeOldLogs \/ Restart
      BY <1>9, <1>1 DEF Publish, OnPublish, HandleRegister, PurgeOldLogs, Restart,
                        broker, channels
<1>10. CASE \E s \in Sessions :
              ReadHistory(s) \/ Subscribe(s) \/ Receive(s) \/ StreamEnds(s) \/ Unsubscribe(s)
      BY <1>10, <1>1 DEF ReadHistory, Subscribe, Receive, StreamEnds, Unsubscribe,
                         broker, channels
<1> QED BY <1>1, <1>4, <1>5, <1>6, <1>7, <1>8, <1>9, <1>10 DEF Next, vars, broker, channels

LEMMA InitDataOK == Init => DataOK
BY Sizes DEF Init, DataOK, EmptyRing, NoEntries, Entry

LEMMA DieDataOK == DataOK /\ Die => DataOK'
BY Sizes DEF DataOK, Die, EmptyRing, NoEntries, Entry

LEMMA DataStep == DataOK /\ [Next]_vars => DataOK'
<1> SUFFICES ASSUME DataOK, [Next]_vars PROVE DataOK'
    OBVIOUS
<1> USE Sizes DEF DataOK, broker, channels, handlers
<1>1. CASE Publish
  <2>1. published + 1 \in Entry /\ published' \in 0..MaxEntries
        BY <1>1 DEF Publish, Entry
  <2>2. publish' \in Seq(Entry) /\ Len(publish') <= MaxBroadcast
        BY <1>1, <2>1 DEF Publish, Send, Full
  <2> QED BY <1>1, <2>1, <2>2 DEF Publish
<1>2. CASE HandlePublish
  <2>1. /\ Head(publish) \in Entry
        /\ publish' \in Seq(Entry) /\ Len(publish') <= MaxBroadcast
        /\ processed' \in Seq(Entry)
        /\ entry' \in Entry
        BY <1>2 DEF HandlePublish
  <2>2. ring' \in [0..(MaxRingSize - 1) -> Entry \cup {0}]
        BY <1>2, <2>1 DEF HandlePublish
  <2>3. head' \in 0..(MaxRingSize - 1) /\ count' \in 0..MaxRingSize
        BY <1>2 DEF HandlePublish
  <2>4. buf' \in [Sessions -> Seq(Entry)]
        BY <1>2, <2>1 DEF HandlePublish, Broadcast, Deliver
  <2>5. ASSUME NEW s \in Sessions PROVE Len(buf'[s]) <= MaxBroadcast
        BY <1>2, <2>1 DEF HandlePublish, Broadcast, Deliver, Slow, Full
  <2>6. clients' \subseteq Sessions
        BY <1>2 DEF HandlePublish, Broadcast
  <2> QED BY <1>2, <2>1, <2>2, <2>3, <2>4, <2>5, <2>6 DEF HandlePublish
<1>3. CASE OnPublish
  <2>1. eventLogs' \in Seq(Entry)
    <3>1. CASE UNCHANGED eventLogs
          BY <3>1
    <3>2. CASE eventLogs' = Append(eventLogs, entry) /\ entry \in Entry
          BY <3>2
    <3> QED BY <1>3, <3>1, <3>2 DEF OnPublish, InsertLog
  <2> QED BY <1>3, <2>1 DEF OnPublish
<1>4. CASE HandleRegister
  <2>1. /\ Head(register) \in Sessions
        /\ register' \in Seq(Sessions) /\ Len(register') <= ChanCap
    <3>1. /\ register \in Seq(Sessions) /\ register # <<>> /\ Len(register) <= ChanCap
          /\ register' = Tail(register)
          BY <1>4 DEF HandleRegister
    <3>2. /\ Head(register) \in Sessions /\ Tail(register) \in Seq(Sessions)
          /\ Len(Tail(register)) = Len(register) - 1
      <4> HIDE DEF DataOK
      <4> QED BY <3>1
    <3> QED BY <3>1, <3>2
  <2>2. clients' \subseteq Sessions
        BY <1>4, <2>1 DEF HandleRegister
  <2>3. Len(processed) \in Nat
        OBVIOUS
  <2>4. since' \in [Sessions -> Nat]
        BY <1>4, <2>1, <2>3 DEF HandleRegister
  <2> QED BY <1>4, <2>1, <2>2, <2>4 DEF HandleRegister, Greet
<1>5. CASE HandleUnregister
  <2>1. CASE Die
        BY <2>1, DieDataOK
  <2>2. CASE /\ clients' = clients \ {Head(unregister)}
             /\ unregister' = Tail(unregister)
             /\ unregister # <<>>
             /\ UNCHANGED <<run, stop, publish, register, ring, head, count, entry, buf,
                            handlers, eventLogs, published, processed, since>>
    <3>1. unregister' \in Seq(Sessions) /\ Len(unregister') <= ChanCap
          BY <2>2
    <3> QED BY <2>2, <3>1
  <2> QED BY <1>5, <2>1, <2>2 DEF HandleUnregister
<1>6. CASE HandleStop
      BY <1>6 DEF HandleStop
<1>7. ASSUME NEW s \in Sessions, ReadHistory(s) PROVE DataOK'
  <2>1. \A n \in Int : n >= 0 /\ n <= Len(eventLogs) => LastRows(n) \in Seq(Entry)
        BY DEF LastRows
  <2>2. ASSUME NEW a, NEW rows \in RecentLogs(a) PROVE rows \in Seq(Entry)
    <3>1. PICK n \in Nat : n <= Len(eventLogs) /\ rows = LastRows(n)
      <4>1. Len(eventLogs) \in Nat /\ HistoryLimit \in Nat
            BY LogStreamAssumption
      <4>2. CASE a
            BY <4>1, <4>2 DEF RecentLogs
      <4>3. CASE ~a
        <5>1. rows = LastRows(IF Len(eventLogs) < HistoryLimit
                              THEN Len(eventLogs) ELSE HistoryLimit)
              BY <4>3 DEF RecentLogs
        <5>2. CASE Len(eventLogs) < HistoryLimit
              BY <4>1, <5>1, <5>2
        <5>3. CASE ~(Len(eventLogs) < HistoryLimit)
              BY <4>1, <5>1, <5>3
        <5> QED BY <5>2, <5>3
      <4> QED BY <4>2, <4>3
    <3> QED BY <3>1, <2>1
  <2>3. ASSUME NEW a \in Viewers, NEW rows \in RecentLogs(a),
               history' = [history EXCEPT ![s] = rows]
        PROVE  history' \in [Sessions -> Seq(Entry)]
        BY <2>2, <2>3
  <2>4. history' \in [Sessions -> Seq(Entry)]
        BY <1>7, <2>3 DEF ReadHistory
  <2> QED BY <1>7, <2>4 DEF ReadHistory
<1>8. ASSUME NEW s \in Sessions, Subscribe(s) PROVE DataOK'
  <2>1. register' \in Seq(Sessions) /\ Len(register') <= ChanCap
        BY <1>8 DEF Subscribe, Full
  <2> QED BY <1>8, <2>1 DEF Subscribe
<1>9. ASSUME NEW s \in Sessions, Receive(s) PROVE DataOK'
  <2>1. /\ Head(buf[s]) \in Entry
        /\ Tail(buf[s]) \in Seq(Entry) /\ Len(Tail(buf[s])) <= MaxBroadcast
        BY <1>9 DEF Receive
  <2>2. /\ buf' \in [Sessions -> Seq(Entry)]
        /\ sent' \in [Sessions -> Seq(Entry)]
        /\ \A t \in Sessions : Len(buf'[t]) <= MaxBroadcast
        BY <1>9, <2>1 DEF Receive
  <2> QED BY <1>9, <2>2 DEF Receive
<1>10. ASSUME NEW s \in Sessions, StreamEnds(s) PROVE DataOK'
      BY <1>10 DEF StreamEnds
<1>11. ASSUME NEW s \in Sessions, Unsubscribe(s) PROVE DataOK'
  <2>1. unregister' \in Seq(Sessions) /\ Len(unregister') <= ChanCap
        BY <1>11 DEF Unsubscribe, Full
  <2> QED BY <1>11, <2>1 DEF Unsubscribe
<1>12. CASE PurgeOldLogs
  <2>1. eventLogs' \in Seq(Entry)
        BY <1>12 DEF PurgeOldLogs
  <2> QED BY <1>12, <2>1 DEF PurgeOldLogs
<1>13. CASE Close \/ Restart
      BY <1>13 DEF Close, Restart
<1>14. CASE Exit \/ Kill
      BY <1>14, DieDataOK DEF Exit, Kill
<1>15. CASE UNCHANGED vars
      BY <1>15 DEF vars
<1> QED BY <1>1, <1>2, <1>3, <1>4, <1>5, <1>6, <1>7, <1>8, <1>9, <1>10, <1>11,
           <1>12, <1>13, <1>14, <1>15 DEF Next

(* Every reachable state is well typed and no channel exceeds its capacity. *)
THEOREM TypeCorrect == Spec => []TypeOK
<1>1. Init => FlagsOK
      BY DEF Init, FlagsOK
<1> QED BY <1>1, InitDataOK, FlagsStep, DataStep, PTL DEF Spec, TypeOK

(***************************************************************************)
(* Sessions and channels.  A session that run has not registered yet is    *)
(* fresh; register holds no session twice; clients holds open channels of  *)
(* handlers that are in their loop; and every channel that a handler gives *)
(* back has been closed already.                                           *)
(***************************************************************************)
Fresh(s) == s \notin clients /\ ~closed[s] /\ buf[s] = <<>> /\ sent[s] = <<>>

RegisterInv ==
  /\ \A i, j \in 1..Len(register) : register[i] = register[j] => i = j
  /\ \A i \in 1..Len(register) : pc[register[i]] = "streaming" /\ Fresh(register[i])

SessionInv ==
  \A s \in Sessions :
    /\ pc[s] \in {"off", "subscribing"} => Fresh(s)
    /\ s \in clients => pc[s] = "streaming" /\ ~closed[s]
    /\ pc[s] \in {"unsubscribing", "done"} => closed[s] /\ buf[s] = <<>>
    /\ buf[s] # <<>> => s \in clients \/ closed[s]

UnregisterInv == \A i \in 1..Len(unregister) : pc[unregister[i]] = "done"

LEMMA DieSessions == Die => (RegisterInv /\ SessionInv /\ UnregisterInv)'
BY DEF Die, NoEntries, RegisterInv, SessionInv, UnregisterInv, Fresh

(* run never has an open channel to unregister: it panics. *)
LEMMA UnregisterDies ==
  ASSUME DataOK, SessionInv, UnregisterInv, HandleUnregister
  PROVE  Die
<1>1. Head(unregister) \in Sessions /\ pc[Head(unregister)] = "done"
      BY DEF DataOK, UnregisterInv, HandleUnregister
<1>2. closed[Head(unregister)]
      BY <1>1 DEF SessionInv
<1> QED BY <1>2 DEF HandleUnregister

LEMMA SessionStep ==
  ASSUME DataOK, RegisterInv, SessionInv, UnregisterInv, [Next]_vars
  PROVE  (RegisterInv /\ SessionInv /\ UnregisterInv)'
<1> USE DEF broker, channels, handlers
<1>0. /\ register \in Seq(Sessions) /\ unregister \in Seq(Sessions)
      /\ clients \subseteq Sessions
      /\ pc \in [Sessions -> {"off", "subscribing", "streaming", "unsubscribing", "done"}]
      BY DEF DataOK
<1>00. buf \in [Sessions -> Seq(Entry)] /\ sent \in [Sessions -> Seq(Entry)]
      BY DEF DataOK
<1> USE <1>0
<1>1. CASE UNCHANGED <<register, unregister, clients, buf, closed, pc, sent>>
      BY <1>1 DEF RegisterInv, SessionInv, UnregisterInv, Fresh
<1>2. CASE Die
      BY <1>2, DieSessions
<1>3. CASE HandlePublish
  <2>1. ASSUME NEW s \in Sessions, s \notin clients
        PROVE  s \notin clients' /\ buf'[s] = buf[s] /\ (closed'[s] <=> closed[s])
        BY <1>3, <2>1 DEF HandlePublish, Broadcast, Deliver, CloseAll, Slow
  <2>2. ASSUME NEW s \in clients'
        PROVE  s \in clients /\ (closed'[s] <=> closed[s])
        BY <1>3, <2>2 DEF HandlePublish, Broadcast, CloseAll
  <2>3. UNCHANGED <<register, unregister, pc, sent>>
        BY <1>3 DEF HandlePublish
  <2>4. RegisterInv'
        BY <2>1, <2>3 DEF RegisterInv, Fresh
  <2>5. SessionInv'
    <3>1. ASSUME NEW s \in Sessions, s \in clients, s \notin clients' PROVE closed'[s]
          BY <1>3, <3>1 DEF HandlePublish, Broadcast, CloseAll
    <3> QED BY <2>1, <2>2, <2>3, <3>1 DEF SessionInv, Fresh
  <2>6. UnregisterInv'
        BY <2>3 DEF UnregisterInv
  <2> QED BY <2>4, <2>5, <2>6
<1>4. CASE HandleRegister
  <2> DEFINE s == Head(register)
  <2>1. /\ s \in Sessions /\ s = register[1] /\ 1 \in 1..Len(register)
        /\ \A i \in 1..Len(register') : i + 1 \in 1..Len(register) /\ register'[i] = register[i + 1]
        BY <1>4 DEF HandleRegister
  <2>2. /\ clients' = clients \cup {s}
        /\ UNCHANGED <<unregister, buf, closed, pc, sent>>
        BY <1>4 DEF HandleRegister, Greet
  <2>3. pc[s] = "streaming" /\ Fresh(s)
        BY <2>1 DEF RegisterInv
  <2>4. \A i \in 1..Len(register') : register'[i] # s
        BY <2>1 DEF RegisterInv
  <2>5. RegisterInv'
        BY <2>1, <2>2, <2>4 DEF RegisterInv, Fresh
  <2>6. SessionInv'
        BY <2>1, <2>2, <2>3 DEF SessionInv, Fresh
  <2>7. UnregisterInv'
        BY <2>2 DEF UnregisterInv
  <2> QED BY <2>5, <2>6, <2>7
<1>5. CASE HandleStop
  <2>1. /\ clients' = {}
        /\ UNCHANGED <<register, unregister, buf, pc, sent>>
        /\ \A s \in Sessions : closed'[s] <=> (closed[s] \/ s \in clients)
        BY <1>5 DEF HandleStop, CloseAll
  <2>2. RegisterInv'
        BY <2>1 DEF RegisterInv, Fresh
  <2>3. SessionInv'
        BY <2>1 DEF SessionInv, Fresh
  <2>4. UnregisterInv'
        BY <2>1 DEF UnregisterInv
  <2> QED BY <2>2, <2>3, <2>4
<1>6. ASSUME NEW s \in Sessions, ReadHistory(s)
      PROVE  (RegisterInv /\ SessionInv /\ UnregisterInv)'
      BY <1>6 DEF ReadHistory, RegisterInv, SessionInv, UnregisterInv, Fresh
<1>7. ASSUME NEW s \in Sessions, Subscribe(s)
      PROVE  (RegisterInv /\ SessionInv /\ UnregisterInv)'
  <2>1. /\ pc[s] = "subscribing"
        /\ pc' = [pc EXCEPT ![s] = "streaming"]
        /\ UNCHANGED <<unregister, clients, buf, closed, sent>>
        /\ Len(register') = Len(register) + 1
        /\ register'[Len(register) + 1] = s
        /\ \A i \in 1..Len(register) : register'[i] = register[i]
        BY <1>7 DEF Subscribe
  <2>2. \A i \in 1..Len(register) : register[i] # s
        BY <2>1 DEF RegisterInv
  <2>3. Fresh(s)
        BY <2>1 DEF SessionInv
  <2>4. ASSUME NEW i \in 1..Len(register')
        PROVE  \/ i \in 1..Len(register) /\ register'[i] = register[i]
               \/ i = Len(register) + 1 /\ register'[i] = s
        BY <2>1
  <2>5. \A i, j \in 1..Len(register') : register'[i] = register'[j] => i = j
        BY <2>2, <2>4 DEF RegisterInv
  <2>6. (\A i \in 1..Len(register) : pc[register[i]] = "streaming" /\ Fresh(register[i]))'
        BY <2>1, <2>2, <2>3, <2>4 DEF RegisterInv, Fresh
  <2>7. SessionInv'
        BY <2>1 DEF SessionInv, Fresh
  <2>8. UnregisterInv'
        BY <2>1 DEF UnregisterInv
  <2> QED BY <2>5, <2>6, <2>7, <2>8 DEF RegisterInv
<1>8. ASSUME NEW s \in Sessions, Receive(s)
      PROVE  (RegisterInv /\ SessionInv /\ UnregisterInv)'
  <2>1. /\ pc[s] = "streaming" /\ buf[s] # <<>>
        /\ UNCHANGED <<register, unregister, clients, closed, pc>>
        /\ \A t \in Sessions : t # s => buf'[t] = buf[t] /\ sent'[t] = sent[t]
        BY <1>8, <1>00 DEF Receive
  <2>2. \A i \in 1..Len(register) : register[i] # s
        BY <2>1 DEF RegisterInv, Fresh
  <2>3. RegisterInv'
        BY <2>1, <2>2 DEF RegisterInv, Fresh
  <2>4. SessionInv'
        BY <2>1 DEF SessionInv, Fresh
  <2>5. UnregisterInv'
        BY <2>1 DEF UnregisterInv
  <2> QED BY <2>3, <2>4, <2>5
<1>9. ASSUME NEW s \in Sessions, StreamEnds(s)
      PROVE  (RegisterInv /\ SessionInv /\ UnregisterInv)'
  <2>1. /\ pc[s] = "streaming" /\ closed[s] /\ buf[s] = <<>>
        /\ pc' = [pc EXCEPT ![s] = "unsubscribing"]
        /\ UNCHANGED <<register, unregister, clients, closed, buf, sent>>
        BY <1>9 DEF StreamEnds
  <2>2. \A i \in 1..Len(register) : register[i] # s
        BY <2>1 DEF RegisterInv, Fresh
  <2>3. RegisterInv'
        BY <2>1, <2>2 DEF RegisterInv, Fresh
  <2>4. SessionInv'
        BY <2>1 DEF SessionInv, Fresh
  <2>5. UnregisterInv'
        BY <2>1 DEF UnregisterInv
  <2> QED BY <2>3, <2>4, <2>5
<1>10. ASSUME NEW s \in Sessions, Unsubscribe(s)
      PROVE  (RegisterInv /\ SessionInv /\ UnregisterInv)'
  <2>1. /\ pc[s] = "unsubscribing"
        /\ pc' = [pc EXCEPT ![s] = "done"]
        /\ UNCHANGED <<register, clients, closed, buf, sent>>
        /\ Len(unregister') = Len(unregister) + 1
        /\ unregister'[Len(unregister) + 1] = s
        /\ \A i \in 1..Len(unregister) : unregister'[i] = unregister[i]
        BY <1>10 DEF Unsubscribe
  <2>2. RegisterInv'
        BY <2>1 DEF RegisterInv, Fresh
  <2>3. SessionInv'
        BY <2>1 DEF SessionInv, Fresh
  <2>4. UnregisterInv'
        BY <2>1 DEF UnregisterInv
  <2> QED BY <2>2, <2>3, <2>4
<1>11. CASE Publish \/ OnPublish \/ PurgeOldLogs \/ Close \/ Restart \/ UNCHANGED vars
      BY <1>1, <1>11 DEF Publish, OnPublish, PurgeOldLogs, Close, Restart, vars
<1>12. CASE Exit \/ Kill \/ HandleUnregister
      BY <1>2, <1>12, UnregisterDies DEF Exit, Kill
<1> QED BY <1>3, <1>4, <1>5, <1>6, <1>7, <1>8, <1>9, <1>10, <1>11, <1>12 DEF Next

LEMMA InitSessions == Init => RegisterInv /\ SessionInv /\ UnregisterInv
BY DEF Init, NoEntries, RegisterInv, SessionInv, UnregisterInv, Fresh

(* run never sends on a closed channel, which would panic. *)
THEOREM NeverSendsOnClosed == Spec => []NoSendOnClosed
<1>1. Init => DataOK /\ RegisterInv /\ SessionInv /\ UnregisterInv
      BY InitDataOK, InitSessions
<1>2. DataOK /\ SessionInv => NoSendOnClosed
      BY DEF DataOK, SessionInv, NoSendOnClosed
<1> QED BY <1>1, <1>2, DataStep, SessionStep, PTL DEF Spec

(***************************************************************************)
(* No viewer hangs: the handler that has subscribed waits in register, is  *)
(* among the clients, or has had its channel closed, also when a broadcast *)
(* drops it or run stops in between.                                       *)
(***************************************************************************)
InRegister(s) == \E i \in 1..Len(register) : register[i] = s

NobodyStranded ==
  \A s \in Sessions : pc[s] = "streaming" => InRegister(s) \/ s \in clients \/ closed[s]

(* A step that takes nobody out of register, clients and closed strands nobody. *)
LEMMA StillHeld ==
  ASSUME NobodyStranded,
         \A s \in Sessions : pc'[s] = "streaming" => pc[s] = "streaming",
         \A s \in Sessions : InRegister(s) \/ s \in clients \/ closed[s]
                               => InRegister(s)' \/ s \in clients' \/ closed'[s]
  PROVE  NobodyStranded'
BY DEF NobodyStranded

LEMMA StrandedStep ==
  ASSUME DataOK, NobodyStranded, [Next]_vars, ~Die, ~HandleUnregister
  PROVE  NobodyStranded'
<1> USE DEF broker, channels, handlers
<1>0. /\ register \in Seq(Sessions) /\ clients \subseteq Sessions
      /\ pc \in [Sessions -> {"off", "subscribing", "streaming", "unsubscribing", "done"}]
      BY DEF DataOK
<1>1. CASE UNCHANGED <<register, clients, closed, pc>>
      BY <1>1, StillHeld DEF InRegister
<1>2. CASE HandlePublish
  <2>1. /\ UNCHANGED <<register, pc>>
        /\ \A s \in Sessions : closed[s] \/ s \in clients => closed'[s] \/ s \in clients'
        BY <1>2 DEF HandlePublish, Broadcast, CloseAll
  <2> QED BY <2>1, StillHeld DEF InRegister
<1>3. CASE HandleRegister
  <2>1. /\ UNCHANGED <<closed, pc>>
        /\ clients' = clients \cup {register[1]}
        /\ Len(register') = Len(register) - 1
        /\ \A i \in 1..Len(register') : register'[i] = register[i + 1]
        BY <1>0, <1>3 DEF HandleRegister
  <2>2. ASSUME NEW s \in Sessions, InRegister(s), s \notin clients' PROVE InRegister(s)'
    <3>1. PICK i \in 1..Len(register) : register[i] = s
          BY <2>2 DEF InRegister
    <3>2. i # 1
          BY <2>1, <2>2, <3>1
    <3>3. i - 1 \in 1..Len(register') /\ register'[i - 1] = s
          BY <1>0, <2>1, <3>1, <3>2
    <3> QED BY <3>3 DEF InRegister
  <2> QED BY <2>1, <2>2, StillHeld
<1>4. CASE HandleStop
  <2>1. /\ UNCHANGED <<register, pc>>
        /\ \A s \in Sessions : closed[s] \/ s \in clients => closed'[s]
        BY <1>4 DEF HandleStop, CloseAll
  <2> QED BY <2>1, StillHeld DEF InRegister
<1>5. ASSUME NEW s \in Sessions, ReadHistory(s) \/ StreamEnds(s) \/ Unsubscribe(s)
      PROVE  NobodyStranded'
  <2>1. /\ UNCHANGED <<register, clients, closed>>
        /\ \A t \in Sessions : pc'[t] = "streaming" => pc[t] = "streaming"
        BY <1>0, <1>5 DEF ReadHistory, StreamEnds, Unsubscribe
  <2> QED BY <2>1, StillHeld DEF InRegister
<1>6. ASSUME NEW s \in Sessions, Subscribe(s) PROVE NobodyStranded'
  <2>1. /\ UNCHANGED <<clients, closed>>
        /\ \A t \in Sessions : t # s => pc'[t] = pc[t]
        /\ Len(register') = Len(register) + 1
        /\ register'[Len(register) + 1] = s
        /\ \A i \in 1..Len(register) : register'[i] = register[i]
        BY <1>0, <1>6 DEF Subscribe
  <2>2. InRegister(s)'
        BY <1>0, <2>1 DEF InRegister
  <2>3. \A t \in Sessions : InRegister(t) => InRegister(t)'
        BY <1>0, <2>1 DEF InRegister
  <2> QED BY <2>1, <2>2, <2>3 DEF NobodyStranded
<1>7. ASSUME NEW s \in Sessions, Receive(s) PROVE NobodyStranded'
      BY <1>1, <1>7 DEF Receive
<1>8. CASE Publish \/ OnPublish \/ PurgeOldLogs \/ Close \/ Restart \/ UNCHANGED vars
      BY <1>1, <1>8 DEF Publish, OnPublish, PurgeOldLogs, Close, Restart, vars
<1> QED BY <1>2, <1>3, <1>4, <1>5, <1>6, <1>7, <1>8 DEF Next, Exit, Kill

(***************************************************************************)
(* No viewer hangs after Subscribe, for any number of viewers and whatever *)
(* order the cases of run's select are taken in: what SubscribeCompletes   *)
(* comes to if run goes on.                                                *)
(***************************************************************************)
THEOREM NoViewerStranded == Spec => []NobodyStranded
<1> DEFINE Inv == DataOK /\ RegisterInv /\ SessionInv /\ UnregisterInv /\ NobodyStranded
<1>1. Init => Inv
      BY InitDataOK, InitSessions DEF Init, NobodyStranded
<1>2. Die => NobodyStranded'
      BY DEF Die, NobodyStranded
<1>3. Inv /\ [Next]_vars => Inv'
      BY <1>2, DataStep, SessionStep, StrandedStep, UnregisterDies
<1> QED BY <1>1, <1>3, PTL DEF Spec

(***************************************************************************)
(* Unsubscribe never merely unsubscribes.  A handler leaves its loop only  *)
(* once its channel has been closed (logstream.go:81 or :88), so whenever  *)
(* run takes a channel from unregister, its close(ch) panics and the whole *)
(* process ends: the general form of what LogStreamSlow shows once.        *)
(***************************************************************************)
THEOREM UnregisterEndsProcess == Spec => [][HandleUnregister => Die]_vars
<1> DEFINE Inv == DataOK /\ RegisterInv /\ SessionInv /\ UnregisterInv
<1>1. Init => Inv
      BY InitDataOK, InitSessions
<1>2. Inv /\ [Next]_vars => Inv'
      BY DataStep, SessionStep
<1>3. Inv /\ [Next]_vars => [HandleUnregister => Die]_vars
      BY UnregisterDies
<1> QED BY <1>1, <1>2, <1>3, PTL DEF Spec

(***************************************************************************)
(* The ring.  The j-th newest entry is j slots back from head.             *)
(***************************************************************************)
Back(j) == IF head - j >= 0 THEN head - j ELSE head - j + MaxRingSize

RingInv ==
  /\ Len(processed) < MaxRingSize => count = Len(processed) /\ head = Len(processed)
  /\ Len(processed) >= MaxRingSize => count = MaxRingSize
  /\ \A j \in 1..count : ring[Back(j)] = processed[Len(processed) + 1 - j]

(* The slot i - 1 places ahead of h: one turn of the ring at most. *)
LEMMA Wrap ==
  ASSUME NEW h \in 0..(MaxRingSize - 1), NEW i \in 1..MaxRingSize
  PROVE  /\ (h + 1) % MaxRingSize = IF h + 1 < MaxRingSize THEN h + 1 ELSE 0
         /\ (h + i - 1) % MaxRingSize
              = IF h + i - 1 < MaxRingSize THEN h + i - 1 ELSE h + i - 1 - MaxRingSize
BY Sizes

LEMMA RingStep == DataOK /\ RingInv /\ [Next]_vars => RingInv'
<1> SUFFICES ASSUME DataOK, RingInv, [Next]_vars PROVE RingInv'
    OBVIOUS
<1>1. CASE UNCHANGED <<ring, head, count, processed>>
      BY <1>1 DEF RingInv, Back
<1>2. CASE Die
      BY <1>2, Sizes DEF Die, RingInv
<1>3. CASE HandlePublish
  <2> DEFINE e == Head(publish)
  <2>1. /\ processed \in Seq(Entry) /\ head \in 0..(MaxRingSize - 1) /\ count \in 0..MaxRingSize
        /\ ring \in [0..(MaxRingSize - 1) -> Entry \cup {0}]
        BY DEF DataOK
  <2>2. /\ processed' = Append(processed, e)
        /\ ring' = [ring EXCEPT ![head] = e]
        /\ head' = (head + 1) % MaxRingSize
        /\ count' = IF count < MaxRingSize THEN count + 1 ELSE count
        BY <1>3 DEF HandlePublish
  <2>3. head' = IF head + 1 < MaxRingSize THEN head + 1 ELSE 0
    <3>1. (head + 1) % MaxRingSize = IF head + 1 < MaxRingSize THEN head + 1 ELSE 0
          BY <2>1, Wrap, Sizes
    <3> QED BY <2>2, <3>1
  <2>4. Len(processed') = Len(processed) + 1 /\ Len(processed) \in Nat
        BY <2>1, <2>2
  <2>5. Len(processed') < MaxRingSize => count' = Len(processed') /\ head' = Len(processed')
        BY <2>1, <2>2, <2>3, <2>4, Sizes DEF RingInv
  <2>6. Len(processed') >= MaxRingSize => count' = MaxRingSize
        BY <2>1, <2>2, <2>4, Sizes DEF RingInv
  <2>7. ASSUME NEW j \in 1..count'
        PROVE  ring'[Back(j)'] = processed'[Len(processed') + 1 - j]
    <3>1. CASE j = 1
      <4>1. Back(j)' = head
            BY <2>1, <2>3, <3>1, Sizes DEF Back
      <4> QED BY <2>1, <2>2, <2>4, <3>1, <4>1
    <3>2. CASE j # 1
      <4>1. j - 1 \in 1..count /\ j - 1 < MaxRingSize /\ count <= Len(processed)
            BY <2>1, <2>2, <2>7, <3>2, Sizes DEF RingInv
      <4>2. Back(j)' = Back(j - 1) /\ Back(j - 1) # head /\ Back(j - 1) \in 0..(MaxRingSize - 1)
            BY <2>1, <2>3, <4>1, Sizes DEF Back
      <4>3. ring'[Back(j)'] = processed[Len(processed) + 1 - (j - 1)]
            BY <2>1, <2>2, <4>1, <4>2 DEF RingInv
      <4>4. Len(processed) + 1 - (j - 1) = Len(processed') + 1 - j
            BY <2>4
      <4>5. Len(processed) + 1 - (j - 1) \in 1..Len(processed)
            BY <2>1, <2>4, <4>1
      <4> QED BY <2>1, <2>2, <4>3, <4>4, <4>5
    <3> QED BY <3>1, <3>2
  <2> QED BY <2>5, <2>6, <2>7 DEF RingInv
<1>4. CASE \/ Publish \/ OnPublish \/ HandleRegister \/ HandleStop
           \/ PurgeOldLogs \/ Close \/ Restart \/ UNCHANGED vars
      BY <1>1, <1>4 DEF Publish, OnPublish, HandleRegister, HandleStop, PurgeOldLogs, Close,
                        Restart, vars, broker
<1>5. CASE \E s \in Sessions :
             ReadHistory(s) \/ Subscribe(s) \/ Receive(s) \/ StreamEnds(s) \/ Unsubscribe(s)
      BY <1>1, <1>5 DEF ReadHistory, Subscribe, Receive, StreamEnds, Unsubscribe, broker
<1>6. CASE Exit \/ Kill \/ HandleUnregister
      BY <1>1, <1>2, <1>6 DEF Exit, Kill, HandleUnregister
<1> QED BY <1>3, <1>4, <1>5, <1>6 DEF Next

LEMMA RingLatest == DataOK /\ RingInv => RingHoldsLatest
<1> SUFFICES ASSUME DataOK, RingInv PROVE RingHoldsLatest
    OBVIOUS
<1> DEFINE n == Len(processed)
           m == IF n < MaxRingSize THEN n ELSE MaxRingSize
<1>1. /\ processed \in Seq(Entry) /\ head \in 0..(MaxRingSize - 1) /\ count \in 0..MaxRingSize
      /\ n \in Nat
      BY DEF DataOK
<1>2. count = m
      BY <1>1, Sizes DEF RingInv
<1>3. SubSeq(processed, n - m + 1, n) = [i \in 1..m |-> processed[n - m + i]]
  <2>1. m \in Nat /\ m <= n
        BY <1>1, Sizes
  <2>2. SubSeq(processed, n - m + 1, n)
          = [i \in 1..(n - (n - m + 1) + 1) |-> processed[(n - m + 1) + i - 1]]
        BY <1>1, <2>1
  <2>3. n - (n - m + 1) + 1 = m /\ \A i \in 1..m : (n - m + 1) + i - 1 = n - m + i
        BY <1>1, <2>1
  <2> HIDE DEF m, n
  <2> QED BY <2>2, <2>3
<1>4. ASSUME NEW i \in 1..m
      PROVE  ring[Back(m + 1 - i)] = processed[n - m + i]
  <2>1. m + 1 - i \in 1..count /\ n + 1 - (m + 1 - i) = n - m + i
        BY <1>1, <1>2, Sizes
  <2> QED BY <2>1 DEF RingInv
<1>5. CASE n < MaxRingSize
  <2>1. ASSUME NEW i \in 1..m PROVE Back(m + 1 - i) = i - 1
    <3>1. head = n /\ m = n
          BY <1>5 DEF RingInv
    <3>2. head - (m + 1 - i) = i - 1 /\ i - 1 >= 0
          BY <1>1, <3>1
    <3> QED BY <3>2 DEF Back
  <2>2. Recent = [i \in 1..m |-> ring[i - 1]]
        BY <1>2, <1>5 DEF Recent
  <2>3. \A i \in 1..m : ring[i - 1] = processed[n - m + i]
        BY <1>4, <2>1
  <2> QED BY <1>3, <2>2, <2>3 DEF RingHoldsLatest
<1>6. CASE n >= MaxRingSize
  <2>1. ASSUME NEW i \in 1..m PROVE Back(m + 1 - i) = (head + i - 1) % MaxRingSize
    <3>1. m = MaxRingSize /\ i \in 1..m
          BY <1>1, <1>6, Sizes
    <3> HIDE DEF m
    <3>2. /\ i \in 1..MaxRingSize /\ head + i - 1 \in Int
          /\ head - (m + 1 - i) = head + i - 1 - MaxRingSize
          BY <1>1, <3>1, Sizes
    <3>3. (head + i - 1) % MaxRingSize
            = IF head + i - 1 < MaxRingSize THEN head + i - 1 ELSE head + i - 1 - MaxRingSize
          BY <1>1, <3>2, Wrap
    <3> QED BY <1>1, <3>2, <3>3, Sizes DEF Back
  <2>2. Recent = [i \in 1..m |-> ring[(head + i - 1) % MaxRingSize]]
    <3>1. m = MaxRingSize /\ ~(count < MaxRingSize)
          BY <1>1, <1>2, <1>6, Sizes
    <3> QED BY <3>1 DEF Recent
  <2>3. \A i \in 1..m : ring[(head + i - 1) % MaxRingSize] = processed[n - m + i]
        BY <1>4, <2>1
  <2> QED BY <1>3, <2>2, <2>3 DEF RingHoldsLatest
<1> QED BY <1>1, <1>5, <1>6, Sizes

(***************************************************************************)
(* Recent returns the newest entries, oldest first, however often the ring *)
(* has wrapped.                                                            *)
(***************************************************************************)
THEOREM RecentIsLatest == Spec => []RingHoldsLatest
<1>1. Init => DataOK /\ RingInv
      BY Sizes DEF Init, DataOK, EmptyRing, NoEntries, Entry, RingInv
<1> QED BY <1>1, DataStep, RingStep, RingLatest, PTL DEF Spec

(***************************************************************************)
(* Streams.  T is a window of P from a on: the part of P after its first a *)
(* elements.  The stream of a session is a window of processed.            *)
(***************************************************************************)
Window(T, P, a) == a + Len(T) <= Len(P) /\ \A i \in 1..Len(T) : T[i] = P[a + i]

LEMMA WindowIsSubSeq ==
  ASSUME NEW S, NEW T \in Seq(S), NEW P \in Seq(S), NEW a \in Nat, Window(T, P, a)
  PROVE  T = SubSeq(P, a + 1, a + Len(T))
<1>1. PICK n \in Nat : n = Len(T)
      OBVIOUS
<1>2. SubSeq(P, a + 1, a + n) = [i \in 1..(a + n - (a + 1) + 1) |-> P[(a + 1) + i - 1]]
      BY <1>1 DEF Window
<1>3. a + n - (a + 1) + 1 = n /\ \A i \in 1..n : (a + 1) + i - 1 = a + i
      OBVIOUS
<1>4. SubSeq(P, a + 1, a + n) = [i \in 1..n |-> P[a + i]]
      BY <1>2, <1>3
<1>5. T = [i \in 1..n |-> T[i]]
      BY <1>1
<1>6. \A i \in 1..n : T[i] = P[a + i]
      BY <1>1 DEF Window
<1> QED BY <1>1, <1>4, <1>5, <1>6

LEMMA WindowGrows ==
  ASSUME NEW S, NEW T \in Seq(S), NEW P \in Seq(S), NEW a \in Nat, NEW e \in S,
         Window(T, P, a), a + Len(T) = Len(P)
  PROVE  Window(Append(T, e), Append(P, e), a) /\ a + Len(Append(T, e)) = Len(Append(P, e))
<1>1. PICK n \in Nat : n = Len(T)
      OBVIOUS
<1>2. PICK m \in Nat : m = Len(P)
      OBVIOUS
<1>3. a + n = m /\ a + (n + 1) = m + 1 /\ (\A i \in 1..n : a + i \in 1..m)
      BY <1>1, <1>2
<1>4. Len(Append(T, e)) = n + 1 /\ Len(Append(P, e)) = m + 1
      BY <1>1, <1>2
<1>5. ASSUME NEW i \in 1..(n + 1) PROVE Append(T, e)[i] = Append(P, e)[a + i]
  <2>1. CASE i = n + 1
        BY <1>1, <1>2, <1>3, <2>1
  <2>2. CASE i \in 1..n
    <3>1. Append(T, e)[i] = T[i]
          BY <1>1, <2>2
    <3>2. Append(P, e)[a + i] = P[a + i]
          BY <1>2, <1>3, <2>2
    <3>3. T[i] = P[a + i]
          BY <1>1, <2>2 DEF Window
    <3> QED BY <3>1, <3>2, <3>3
  <2>3. i = n + 1 \/ i \in 1..n
        OBVIOUS
  <2> QED BY <2>1, <2>2, <2>3
<1>6. /\ a + Len(Append(T, e)) = Len(Append(P, e))
      /\ a + Len(Append(T, e)) <= Len(Append(P, e))
      BY <1>3, <1>4
<1>7. \A i \in 1..Len(Append(T, e)) : Append(T, e)[i] = Append(P, e)[a + i]
      BY <1>4, <1>5
<1> QED BY <1>6, <1>7 DEF Window

LEMMA WindowStays ==
  ASSUME NEW S, NEW T \in Seq(S), NEW P \in Seq(S), NEW a \in Nat, NEW e \in S, Window(T, P, a)
  PROVE  Window(T, Append(P, e), a)
<1>1. PICK n \in Nat : n = Len(T)
      OBVIOUS
<1>2. PICK m \in Nat : m = Len(P)
      OBVIOUS
<1>3. \A i \in 1..n : a + i \in 1..m
      BY <1>1, <1>2 DEF Window
<1> QED BY <1>1, <1>2, <1>3 DEF Window

LEMMA ConcatAppend ==
  ASSUME NEW S, NEW T \in Seq(S), NEW B \in Seq(S), NEW e \in S
  PROVE  T \o Append(B, e) = Append(T \o B, e)
OBVIOUS

LEMMA ConcatShift ==
  ASSUME NEW S, NEW T \in Seq(S), NEW B \in Seq(S), B # <<>>
  PROVE  Append(T, Head(B)) \o Tail(B) = T \o B
OBVIOUS

Covers(s) ==
  /\ Window(Stream(s), processed, since[s])
  /\ s \in clients => since[s] + Len(Stream(s)) = Len(processed)

StreamInv == \A s \in Sessions : Covers(s)

LEMMA StreamType ==
  ASSUME DataOK, NEW s \in Sessions
  PROVE  /\ Stream(s) \in Seq(Entry) /\ processed \in Seq(Entry) /\ since[s] \in Nat
         /\ sent[s] \in Seq(Entry) /\ buf[s] \in Seq(Entry)
BY DEF DataOK, Stream

LEMMA StreamStep ==
  ASSUME DataOK, RegisterInv, StreamInv, [Next]_vars
  PROVE  StreamInv'
<1> USE DEF broker, channels, handlers
<1>0. /\ processed \in Seq(Entry) /\ since \in [Sessions -> Nat] /\ clients \subseteq Sessions
      /\ buf \in [Sessions -> Seq(Entry)] /\ sent \in [Sessions -> Seq(Entry)]
      /\ register \in Seq(Sessions) /\ publish \in Seq(Entry)
      BY DEF DataOK
<1>1. CASE UNCHANGED <<clients, buf, sent, processed, since>>
      BY <1>1 DEF StreamInv, Covers, Stream
<1>2. CASE Die
  <2>1. ASSUME NEW s \in Sessions
        PROVE  /\ Stream(s)' = <<>> /\ processed' = <<>> /\ since'[s] = 0 /\ s \notin clients'
        BY <1>2 DEF Die, NoEntries, Stream
  <2> QED BY <2>1 DEF StreamInv, Covers, Window
<1>3. CASE HandlePublish
  <2> DEFINE e == Head(publish)
  <2>1. e \in Entry /\ processed' = Append(processed, e) /\ UNCHANGED <<sent, since>>
        BY <1>0, <1>3 DEF HandlePublish
  <2>2. ASSUME NEW s \in Sessions PROVE Covers(s)'
    <3>1. Covers(s)
          BY DEF StreamInv
    <3>2. CASE s \in clients \ Slow
      <4>1. buf'[s] = Append(buf[s], e)
            BY <1>3, <3>2 DEF HandlePublish, Broadcast, Deliver
      <4>2. Stream(s)' = Append(Stream(s), e)
        <5>1. sent[s] \o Append(buf[s], e) = Append(sent[s] \o buf[s], e)
          <6>1. sent[s] \in Seq(Entry) /\ buf[s] \in Seq(Entry) /\ e \in Entry
                BY <1>0, <2>1
          <6>2. \A T, B \in Seq(Entry) : \A x \in Entry : T \o Append(B, x) = Append(T \o B, x)
                BY ConcatAppend
          <6> HIDE DEF e
          <6> QED BY <6>1, <6>2
        <5>2. Stream(s)' = sent[s] \o Append(buf[s], e)
              BY <2>1, <4>1 DEF Stream
        <5> QED BY <5>1, <5>2 DEF Stream
      <4> QED BY <2>1, <3>1, <3>2, <4>2, StreamType, WindowGrows DEF Covers
    <3>3. CASE s \notin clients \ Slow
      <4>1. buf'[s] = buf[s] /\ s \notin clients'
            BY <1>3, <3>3 DEF HandlePublish, Broadcast, Deliver
      <4>2. Stream(s)' = Stream(s)
            BY <2>1, <4>1 DEF Stream
      <4> QED BY <2>1, <3>1, <4>1, <4>2, StreamType, WindowStays DEF Covers
    <3> QED BY <3>2, <3>3
  <2> QED BY <2>2 DEF StreamInv
<1>4. CASE HandleRegister
  <2>0. PICK s \in Sessions : s = Head(register)
        BY <1>0, <1>4 DEF HandleRegister
  <2>1. s \in Sessions /\ s = register[1] /\ 1 \in 1..Len(register)
        BY <1>0, <1>4, <2>0 DEF HandleRegister
  <2>2. /\ clients' = clients \cup {s}
        /\ since' = [since EXCEPT ![s] = Len(processed)]
        /\ UNCHANGED <<buf, sent, processed>>
        BY <1>4, <2>0 DEF HandleRegister, Greet
  <2>3. Stream(s)' = <<>> /\ since'[s] = Len(processed) /\ Len(processed) \in Nat
    <3>1. sent'[s] = <<>> /\ buf'[s] = <<>>
          BY <2>1, <2>2 DEF RegisterInv, Fresh
    <3>2. Stream(s)' = <<>>
          BY <3>1 DEF Stream
    <3> QED BY <1>0, <2>1, <2>2, <3>2
  <2>4. Covers(s)'
    <3>1. Len(Stream(s)') = 0 /\ 1..Len(Stream(s)') = {}
          BY <2>3
    <3>2. since'[s] + Len(Stream(s)') = Len(processed')
          BY <2>2, <2>3, <3>1
    <3>3. Len(processed') <= Len(processed')
          BY <2>2, <2>3
    <3> QED BY <3>1, <3>2, <3>3 DEF Covers, Window
  <2>5. ASSUME NEW t \in Sessions, t # s PROVE Covers(t)'
    <3>1. /\ Stream(t)' = Stream(t) /\ since'[t] = since[t]
          /\ t \in clients' => t \in clients
          BY <1>0, <2>2, <2>5 DEF Stream
    <3>2. Covers(t)
          BY DEF StreamInv
    <3> QED BY <2>2, <3>1, <3>2 DEF Covers, Window
  <2> QED BY <2>4, <2>5 DEF StreamInv
<1>5. CASE /\ clients' \subseteq clients
           /\ UNCHANGED <<buf, sent, processed, since>>
      BY <1>5 DEF StreamInv, Covers, Stream
<1>6. ASSUME NEW s \in Sessions, Receive(s) PROVE StreamInv'
  <2>1. /\ sent' = [sent EXCEPT ![s] = Append(@, Head(buf[s]))]
        /\ buf' = [buf EXCEPT ![s] = Tail(@)]
        /\ buf[s] # <<>>
        /\ UNCHANGED <<clients, since, processed>>
        BY <1>6 DEF Receive
  <2>2. ASSUME NEW t \in Sessions PROVE Stream(t)' = Stream(t)
    <3>1. CASE t = s
      <4>1. Append(sent[s], Head(buf[s])) \o Tail(buf[s]) = sent[s] \o buf[s]
            BY <2>1, StreamType, ConcatShift
      <4>2. sent'[s] = Append(sent[s], Head(buf[s])) /\ buf'[s] = Tail(buf[s])
            BY <1>0, <2>1
      <4> QED BY <3>1, <4>1, <4>2 DEF Stream
    <3>2. CASE t # s
          BY <1>0, <2>1, <3>2 DEF Stream
    <3> QED BY <3>1, <3>2
  <2> QED BY <2>1, <2>2 DEF StreamInv, Covers
<1>7. CASE \/ Publish \/ OnPublish \/ PurgeOldLogs \/ Close \/ Restart \/ UNCHANGED vars
           \/ \E s \in Sessions :
                ReadHistory(s) \/ Subscribe(s) \/ StreamEnds(s) \/ Unsubscribe(s)
      BY <1>1, <1>7 DEF Publish, OnPublish, PurgeOldLogs, Close, Restart, vars, ReadHistory,
                        Subscribe, StreamEnds, Unsubscribe
<1>8. CASE Exit \/ Kill
      BY <1>2, <1>8 DEF Exit, Kill
<1>9. CASE HandleUnregister
      BY <1>2, <1>5, <1>9 DEF HandleUnregister
<1>10. CASE HandleStop
      BY <1>5, <1>10 DEF HandleStop
<1> QED BY <1>3, <1>4, <1>6, <1>7, <1>8, <1>9, <1>10 DEF Next

LEMMA StreamsContiguous == DataOK /\ StreamInv => StreamContiguous
<1> SUFFICES ASSUME DataOK, StreamInv, NEW s \in Sessions
             PROVE  LET last == since[s] + Len(Stream(s)) IN
                      /\ last <= Len(processed)
                      /\ Stream(s) = SubSeq(processed, since[s] + 1, last)
                      /\ s \in clients => last = Len(processed)
    BY DEF StreamContiguous
<1>1. Covers(s)
      BY DEF StreamInv
<1>2. Stream(s) = SubSeq(processed, since[s] + 1, since[s] + Len(Stream(s)))
      BY <1>1, StreamType, WindowIsSubSeq DEF Covers
<1> QED BY <1>1, <1>2 DEF Covers, Window

(* No stream has a hole or a repetition, for any schedule and any slow viewer. *)
THEOREM StreamsHaveNoHoles == Spec => []StreamContiguous
<1>1. Init => StreamInv
      BY DEF Init, NoEntries, StreamInv, Covers, Stream, Window
<1> QED BY <1>1, InitDataOK, InitSessions, DataStep, SessionStep, StreamStep,
           StreamsContiguous, PTL DEF Spec

(***************************************************************************)
(* The broker implements EventFeed: each step of LogStream is one of       *)
(* EventFeed or leaves its variables alone.                                *)
(***************************************************************************)
Limit(s) == since[s] + Len(sent[s]) + Len(buf[s])

LEMMA FeedStutter ==
  ASSUME UNCHANGED <<processed, since, sent, buf>>,
         \A s \in Sessions : FeedState(s)' = FeedState(s)
  PROVE  UNCHANGED Feed!vars
BY DEF Feed!vars

LEMMA FeedDie == Die => Feed!Reset
BY DEF Die, NoEntries, Feed!Reset, FeedState

LEMMA FeedLog ==
  ASSUME DataOK, SessionInv, HandlePublish
  PROVE  \E e \in Entry, S \in SUBSET Sessions : Feed!Log(e, S)
<1>0. /\ publish \in Seq(Entry) /\ publish # <<>> /\ clients \subseteq Sessions
      /\ buf \in [Sessions -> Seq(Entry)] /\ sent \in [Sessions -> Seq(Entry)]
      /\ since \in [Sessions -> Nat]
      BY DEF DataOK, HandlePublish
<1>1. PICK e \in Entry : e = Head(publish)
      BY <1>0
<1>2. /\ processed' = Append(processed, e)
      /\ clients' = clients \ Slow
      /\ UNCHANGED <<since, sent, pc>>
      BY <1>1 DEF HandlePublish, Broadcast, handlers
<1>3. ASSUME NEW s \in Sessions PROVE closed'[s] <=> (closed[s] \/ s \in Slow)
      BY <1>3 DEF HandlePublish, Broadcast, CloseAll
<1>4. ASSUME NEW s \in Sessions
      PROVE  buf'[s] = IF s \in clients \ Slow THEN Append(buf[s], e) ELSE buf[s]
      BY <1>1 DEF HandlePublish, Broadcast, Deliver
<1>5. Slow \subseteq clients
      BY DEF Slow
<1>6. ASSUME NEW s \in Sessions
      PROVE  FeedState(s)' = IF s \in Slow /\ FeedState(s) = "live" THEN "cut" ELSE FeedState(s)
      BY <1>0, <1>2, <1>3, <1>5 DEF FeedState, SessionInv
<1>7. ASSUME NEW s \in Sessions
      PROVE  Limit(s)' = IF FeedState(s) = "live" /\ s \notin Slow THEN Limit(s) + 1 ELSE Limit(s)
  <2>1. FeedState(s) = "live" <=> s \in clients
        BY DEF FeedState
  <2>2. since'[s] = since[s] /\ sent'[s] = sent[s]
        BY <1>2
  <2>3. CASE s \in clients \ Slow
    <3>1. buf'[s] = Append(buf[s], e)
          BY <1>4, <2>3
    <3>2. Len(buf'[s]) = Len(buf[s]) + 1
          BY <1>0, <3>1
    <3>3. Limit(s)' = Limit(s) + 1
      <4>1. since[s] \in Nat /\ Len(sent[s]) \in Nat /\ Len(buf[s]) \in Nat
            BY <1>0
      <4>2. Limit(s)' = since'[s] + Len(sent'[s]) + Len(buf'[s])
            BY DEF Limit
      <4>3. Limit(s)' = since[s] + Len(sent[s]) + (Len(buf[s]) + 1)
            BY <2>2, <3>2, <4>2
      <4>4. Limit(s) = since[s] + Len(sent[s]) + Len(buf[s])
            BY DEF Limit
      <4>5. PICK a, m, n \in Nat : a = since[s] /\ m = Len(sent[s]) /\ n = Len(buf[s])
            BY <4>1
      <4>6. a + m + (n + 1) = (a + m + n) + 1
            OBVIOUS
      <4>7. Limit(s)' = a + m + (n + 1) /\ Limit(s) = a + m + n
            BY <4>3, <4>4, <4>5
      <4> QED BY <4>6, <4>7
    <3> QED BY <2>1, <2>3, <3>3
  <2>4. CASE s \notin clients \ Slow
    <3>1. buf'[s] = buf[s]
          BY <1>4, <2>4
    <3>2. Limit(s)' = Limit(s)
          BY <2>2, <3>1 DEF Limit
    <3> QED BY <2>1, <2>4, <3>2
  <2> QED BY <2>3, <2>4
<1>8. Feed!Cut(Slow)
      BY <1>6 DEF Feed!Cut
<1>9. Feed!Log(e, Slow)
      BY <1>2, <1>7, <1>8 DEF Feed!Log, Limit
<1>10. Slow \in SUBSET Sessions
      BY <1>0, <1>5
<1> QED BY <1>9, <1>10, Zenon DEF Feed!Log, Feed!Cut

LEMMA FeedOpen ==
  ASSUME DataOK, RegisterInv, HandleRegister
  PROVE  \E s \in Sessions : Feed!Open(s)
<1>0. /\ register \in Seq(Sessions) /\ register # <<>> /\ clients \subseteq Sessions
      /\ buf \in [Sessions -> Seq(Entry)] /\ sent \in [Sessions -> Seq(Entry)]
      /\ since \in [Sessions -> Nat] /\ processed \in Seq(Entry)
      BY DEF DataOK, HandleRegister
<1>1. PICK s \in Sessions : s = Head(register) /\ s = register[1]
      BY <1>0
<1>2. /\ clients' = clients \cup {s}
      /\ since' = [since EXCEPT ![s] = Len(processed)]
      /\ UNCHANGED <<buf, closed, pc, sent, processed>>
      BY <1>1 DEF HandleRegister, Greet, handlers
<1>3. pc[s] = "streaming" /\ Fresh(s)
      BY <1>0, <1>1 DEF RegisterInv
<1>4. FeedState(s) = "idle"
      BY <1>3 DEF FeedState, Fresh
<1>5. ASSUME NEW t \in Sessions
      PROVE  FeedState(t)' = IF t = s THEN "live" ELSE FeedState(t)
  <2>1. clients' = clients \cup {s} /\ closed' = closed /\ pc' = pc
        BY <1>2
  <2> QED BY <2>1 DEF FeedState
<1>6. ASSUME NEW t \in Sessions
      PROVE  Limit(t)' = IF t = s THEN Len(processed) ELSE Limit(t)
  <2>1. CASE t = s
    <3>1. Len(buf'[s]) = 0 /\ Len(sent'[s]) = 0 /\ since'[s] = Len(processed) /\ Len(processed) \in Nat
          BY <1>0, <1>2, <1>3 DEF Fresh
    <3> QED BY <2>1, <3>1 DEF Limit
  <2>2. CASE t # s
    <3>1. buf'[t] = buf[t] /\ sent'[t] = sent[t] /\ since'[t] = since[t]
          BY <1>0, <1>2, <2>2
    <3> QED BY <2>2, <3>1 DEF Limit
  <2> QED BY <2>1, <2>2
<1>7. Feed!Open(s)
      BY <1>2, <1>4, <1>5, <1>6 DEF Feed!Open, Limit
<1> QED BY <1>7

LEMMA FeedDeliver ==
  ASSUME DataOK, SessionInv, StreamInv, NEW s \in Sessions, Receive(s)
  PROVE  Feed!Deliver(s)
<1>0. /\ clients \subseteq Sessions /\ since \in [Sessions -> Nat] /\ processed \in Seq(Entry)
      /\ buf \in [Sessions -> Seq(Entry)] /\ sent \in [Sessions -> Seq(Entry)]
      BY DEF DataOK
<1>1. /\ pc[s] = "streaming" /\ buf[s] # <<>>
      /\ sent' = [sent EXCEPT ![s] = Append(@, Head(buf[s]))]
      /\ buf' = [buf EXCEPT ![s] = Tail(@)]
      /\ UNCHANGED <<clients, closed, pc, since, processed>>
      BY DEF Receive, broker
<1>2. FeedState(s) \in {"live", "cut"}
      BY <1>1 DEF FeedState, SessionInv
<1>3. \A t \in Sessions : FeedState(t)' = FeedState(t)
      BY <1>1 DEF FeedState
<1>4. /\ since[s] \in Nat /\ Len(sent[s]) \in Nat /\ Len(buf[s]) \in Nat /\ Len(buf[s]) >= 1
      /\ Head(buf[s]) = buf[s][1] /\ Len(Tail(buf[s])) = Len(buf[s]) - 1
      /\ Len(Append(sent[s], Head(buf[s]))) = Len(sent[s]) + 1
      BY <1>0, <1>1
<1>5. \A a, m, n \in Nat : n >= 1 => a + m < a + m + n /\ a + (m + 1) + (n - 1) = a + m + n
      OBVIOUS
<1>6. since[s] + Len(sent[s]) < Limit(s)
      BY <1>4, <1>5 DEF Limit
<1>7. ASSUME NEW t \in Sessions PROVE Limit(t)' = Limit(t)
  <2>1. CASE t = s
    <3>1. /\ Len(sent'[s]) = Len(sent[s]) + 1 /\ Len(buf'[s]) = Len(buf[s]) - 1
          /\ since'[s] = since[s]
          BY <1>0, <1>1, <1>4
    <3> QED BY <1>4, <1>5, <2>1, <3>1 DEF Limit
  <2>2. CASE t # s
        BY <1>0, <1>1, <2>2 DEF Limit
  <2> QED BY <2>1, <2>2
<1>8. Head(buf[s]) = processed[since[s] + Len(sent[s]) + 1]
  <2>1. /\ Stream(s)[Len(sent[s]) + 1] = buf[s][1]
        /\ Len(sent[s]) + 1 \in 1..Len(Stream(s))
        BY <1>0, <1>4 DEF Stream
  <2>2. Stream(s)[Len(sent[s]) + 1] = processed[since[s] + (Len(sent[s]) + 1)]
        BY <2>1 DEF StreamInv, Covers, Window
  <2>3. \A a, m \in Nat : a + (m + 1) = a + m + 1
        OBVIOUS
  <2> QED BY <1>4, <2>1, <2>2, <2>3
<1> QED BY <1>1, <1>2, <1>3, <1>6, <1>7, <1>8 DEF Feed!Deliver, Limit

LEMMA FeedCutAll ==
  ASSUME DataOK, SessionInv, HandleStop
  PROVE  Feed!CutAll
<1>1. /\ clients \subseteq Sessions
      /\ clients' = {}
      /\ UNCHANGED <<buf, pc, sent, processed, since>>
      /\ \A s \in Sessions : closed'[s] <=> (closed[s] \/ s \in clients)
      BY DEF DataOK, HandleStop, CloseAll, handlers
<1>2. ASSUME NEW s \in Sessions
      PROVE  FeedState(s)' = IF FeedState(s) = "live" THEN "cut" ELSE FeedState(s)
      BY <1>1 DEF FeedState, SessionInv
<1> QED BY <1>1, <1>2 DEF Feed!CutAll, Feed!Cut

LEMMA FeedEnd ==
  ASSUME DataOK, SessionInv, NEW s \in Sessions, StreamEnds(s)
  PROVE  Feed!End(s)
<1>1. /\ pc[s] = "streaming" /\ buf[s] = <<>> /\ closed[s]
      /\ pc' = [pc EXCEPT ![s] = "unsubscribing"]
      /\ UNCHANGED <<clients, closed, buf, sent, processed, since>>
      BY DEF StreamEnds, broker, channels
<1>2. s \notin clients /\ pc \in [Sessions -> {"off", "subscribing", "streaming", "unsubscribing", "done"}]
      BY <1>1 DEF SessionInv, DataOK
<1>3. FeedState(s) = "cut"
      BY <1>1, <1>2 DEF FeedState
<1>4. ASSUME NEW t \in Sessions
      PROVE  FeedState(t)' = IF t = s THEN "over" ELSE FeedState(t)
      BY <1>1, <1>2 DEF FeedState
<1>5. since[s] + Len(sent[s]) = Limit(s)
  <2>1. since[s] \in Nat /\ Len(sent[s]) \in Nat /\ Len(buf[s]) = 0
        BY <1>1 DEF DataOK
  <2>2. \A a, m \in Nat : a + m + 0 = a + m
        OBVIOUS
  <2> QED BY <2>1, <2>2 DEF Limit
<1> QED BY <1>1, <1>3, <1>4, <1>5 DEF Feed!End, Limit

LEMMA FeedStep ==
  ASSUME DataOK, RegisterInv, SessionInv, UnregisterInv, StreamInv, [Next]_vars
  PROVE  [Feed!Next]_(Feed!vars)
<1> USE DEF broker, channels, handlers
<1>1. CASE HandlePublish
      BY <1>1, FeedLog DEF Feed!Next
<1>2. CASE HandleRegister
      BY <1>2, FeedOpen DEF Feed!Next
<1>3. CASE HandleStop
      BY <1>3, FeedCutAll DEF Feed!Next
<1>4. CASE HandleUnregister \/ Exit \/ Kill
      BY <1>4, UnregisterDies, FeedDie DEF Exit, Kill, Feed!Next
<1>5. ASSUME NEW s \in Sessions, Receive(s) PROVE Feed!Next
      BY <1>5, FeedDeliver DEF Feed!Next
<1>6. ASSUME NEW s \in Sessions, StreamEnds(s) PROVE Feed!Next
      BY <1>6, FeedEnd DEF Feed!Next
<1>7. ASSUME NEW s \in Sessions, ReadHistory(s) \/ Subscribe(s) \/ Unsubscribe(s)
      PROVE  UNCHANGED Feed!vars
  <2>1. /\ UNCHANGED <<processed, since, sent, buf, clients, closed>>
        /\ \A t \in Sessions : t # s => pc'[t] = pc[t]
        /\ pc'[s] \in {"unsubscribing", "done"} <=> pc[s] \in {"unsubscribing", "done"}
        BY <1>7 DEF ReadHistory, Subscribe, Unsubscribe, DataOK
  <2>2. ASSUME NEW t \in Sessions PROVE FeedState(t)' = FeedState(t)
        BY <2>1 DEF FeedState
  <2> QED BY <2>1, <2>2, FeedStutter
<1>8. CASE Publish \/ OnPublish \/ PurgeOldLogs \/ Close \/ Restart \/ UNCHANGED vars
  <2>1. UNCHANGED <<processed, since, sent, buf, clients, closed, pc>>
        BY <1>8 DEF Publish, OnPublish, PurgeOldLogs, Close, Restart, vars
  <2>2. ASSUME NEW t \in Sessions PROVE FeedState(t)' = FeedState(t)
        BY <2>1 DEF FeedState
  <2> QED BY <2>1, <2>2, FeedStutter
<1> QED BY <1>1, <1>2, <1>3, <1>4, <1>5, <1>6, <1>7, <1>8 DEF Next

(* Every run of the broker and its handlers is a run of EventFeed. *)
THEOREM BrokerImplementsFeed == Spec => ImplementsFeed
<1>1. Init => Feed!Init
      BY DEF Init, NoEntries, Feed!Init, FeedState
<1>2. Init => StreamInv
      BY DEF Init, NoEntries, StreamInv, Covers, Stream, Window
<1> QED BY <1>1, <1>2, InitDataOK, InitSessions, DataStep, SessionStep, StreamStep, FeedStep,
           PTL DEF Spec, ImplementsFeed, Feed!Spec

(***************************************************************************)
(* The order of entries.  An entry that waits in publish is newer than the *)
(* one run is persisting, than every row of event_logs and than all that   *)
(* any session has been sent as history.                                   *)
(***************************************************************************)
Below(q, r) == \A i \in 1..Len(q), j \in 1..Len(r) : q[i] < r[j]

AtMost(q, n) == \A i \in 1..Len(q) : q[i] <= n

OrderInv ==
  /\ \A i, j \in 1..Len(publish) : i < j => publish[i] < publish[j]
  /\ AtMost(publish, published) /\ entry <= published
  /\ Below(<<entry>>, publish)
  /\ AtMost(eventLogs, published) /\ Below(eventLogs, publish)

HistoryInv ==
  \A s \in Sessions :
    /\ AtMost(history[s], published) /\ Below(history[s], publish)
    /\ Below(history[s], sent[s]) /\ Below(history[s], buf[s])

LEMMA OrderStep == DataOK /\ OrderInv /\ [Next]_vars => OrderInv'
<1> SUFFICES ASSUME DataOK, OrderInv, [Next]_vars PROVE OrderInv'
    OBVIOUS
<1> USE DEF broker, channels, handlers
<1>0. /\ publish \in Seq(Int) /\ eventLogs \in Seq(Int) /\ entry \in Int /\ published \in Int
      /\ published >= 0
      BY Sizes DEF DataOK, Entry
<1>1. CASE UNCHANGED <<publish, published, entry, eventLogs>>
      BY <1>1 DEF OrderInv, AtMost, Below
<1>2. CASE Die
  <2>1. publish' = <<>> /\ entry' = 0 /\ UNCHANGED <<eventLogs, published>>
        BY <1>2 DEF Die
  <2> QED BY <1>0, <2>1 DEF OrderInv, AtMost, Below
<1>3. CASE Publish
  <2>1. /\ published' = published + 1 /\ UNCHANGED <<entry, eventLogs>>
        /\ publish' = publish \/ publish' = Append(publish, published + 1)
        BY <1>3 DEF Publish, Send
  <2>2. CASE publish' = publish
        BY <1>0, <2>1, <2>2 DEF OrderInv, AtMost, Below
  <2>3. CASE publish' = Append(publish, published + 1)
    <3>1. /\ \A i \in 1..Len(publish) : publish'[i] = publish[i]
          /\ \A i \in 1..Len(publish') :
               i \in 1..Len(publish) \/ (i = Len(publish) + 1 /\ publish'[i] = published + 1)
      <4>1. /\ Len(publish') = Len(publish) + 1 /\ Len(publish) \in Nat
            /\ publish'[Len(publish) + 1] = published + 1
            /\ \A i \in 1..Len(publish) : publish'[i] = publish[i]
            BY <1>0, <2>3
      <4>2. PICK n \in Nat : n = Len(publish)
            BY <4>1
      <4>3. \A i \in 1..(n + 1) : i \in 1..n \/ i = n + 1
            OBVIOUS
      <4>4. 1..Len(publish') = 1..(n + 1) /\ 1..Len(publish) = 1..n
            BY <4>1, <4>2
      <4>5. ASSUME NEW i \in 1..Len(publish')
            PROVE  i \in 1..Len(publish) \/ (i = Len(publish) + 1 /\ publish'[i] = published + 1)
        <5>1. CASE i \in 1..n
              BY <4>4, <5>1
        <5>2. CASE i = n + 1
              BY <4>1, <4>2, <5>2
        <5>3. i \in 1..n \/ i = n + 1
              BY <4>3, <4>4
        <5> QED BY <5>1, <5>2, <5>3
      <4> QED BY <4>1, <4>5
    <3>2. \A i \in 1..Len(publish) :
            publish[i] \in Int /\ publish[i] <= published /\ i < Len(publish) + 1
          BY <1>0 DEF OrderInv, AtMost
    <3>3. \A i \in 1..Len(eventLogs) : eventLogs[i] \in Int /\ eventLogs[i] <= published
          BY <1>0 DEF OrderInv, AtMost
    <3>4. \A x \in Int : x <= published => x < published + 1 /\ x <= published + 1
          BY <1>0
    <3>5. (\A i, j \in 1..Len(publish) : i < j => publish[i] < publish[j])'
      <4>1. ASSUME NEW i \in 1..Len(publish'), NEW j \in 1..Len(publish'), i < j
            PROVE  publish'[i] < publish'[j]
        <5>1. i \in 1..Len(publish)
              BY <1>0, <3>1, <4>1
        <5>2. CASE j \in 1..Len(publish)
              BY <3>1, <4>1, <5>1, <5>2 DEF OrderInv
        <5>3. CASE j = Len(publish) + 1 /\ publish'[j] = published + 1
          <6>1. publish'[i] = publish[i] /\ publish[i] \in Int /\ publish[i] <= published
                BY <3>1, <3>2, <5>1
          <6> QED BY <3>4, <5>3, <6>1
        <5> QED BY <3>1, <5>2, <5>3
      <4> QED BY <4>1
    <3>6. AtMost(publish', published') /\ entry' <= published' /\ AtMost(eventLogs', published')
      <4>1. ASSUME NEW i \in 1..Len(publish') PROVE publish'[i] <= published + 1
            BY <1>0, <3>1, <3>2, <3>4
      <4>2. entry <= published + 1
            BY <1>0, <3>4 DEF OrderInv
      <4> QED BY <2>1, <3>3, <3>4, <4>1, <4>2 DEF AtMost
    <3>7. Below(<<entry>>, publish)' /\ Below(eventLogs, publish)'
      <4>1. ASSUME NEW i \in 1..Len(publish') PROVE entry < publish'[i]
        <5>1. entry < published + 1
              BY <1>0, <3>4 DEF OrderInv
        <5> QED BY <3>1, <5>1 DEF OrderInv, Below
      <4>2. ASSUME NEW k \in 1..Len(eventLogs), NEW i \in 1..Len(publish')
            PROVE  eventLogs[k] < publish'[i]
            BY <3>1, <3>3, <3>4 DEF OrderInv, Below
      <4> QED BY <2>1, <4>1, <4>2 DEF Below
    <3> QED BY <3>5, <3>6, <3>7 DEF OrderInv
  <2> QED BY <2>1, <2>2, <2>3
<1>4. CASE HandlePublish
  <2>1. /\ publish # <<>> /\ publish' = Tail(publish) /\ entry' = publish[1]
        /\ UNCHANGED <<eventLogs, published>>
        BY <1>0, <1>4 DEF HandlePublish
  <2>2. PICK n \in Nat : n = Len(publish) /\ n >= 1
        BY <1>0, <2>1
  <2>3. /\ Len(publish') = n - 1
        /\ \A i \in 1..(n - 1) : publish'[i] = publish[i + 1] /\ i + 1 \in 1..n /\ 1 \in 1..n
        BY <1>0, <2>1, <2>2
  <2>4. \A i \in 1..n : publish[i] \in Int /\ publish[i] <= published
        BY <1>0, <2>2 DEF OrderInv, AtMost
  <2>5. (\A i, j \in 1..Len(publish) : i < j => publish[i] < publish[j])'
        BY <2>2, <2>3, <2>4 DEF OrderInv
  <2>6. AtMost(publish', published') /\ entry' <= published'
        BY <2>1, <2>2, <2>3, <2>4 DEF OrderInv, AtMost
  <2>7. Below(<<entry>>, publish)'
        BY <2>1, <2>2, <2>3, <2>4 DEF OrderInv, Below
  <2>8. AtMost(eventLogs', published') /\ Below(eventLogs, publish)'
        BY <2>1, <2>2, <2>3 DEF OrderInv, AtMost, Below
  <2> QED BY <2>5, <2>6, <2>7, <2>8 DEF OrderInv
<1>5. CASE OnPublish
  <2>1. /\ entry' = 0 /\ UNCHANGED <<publish, published>>
        /\ eventLogs' = eventLogs \/ eventLogs' = Append(eventLogs, entry)
        /\ run = "onPublish"
        BY <1>5 DEF OnPublish, InsertLog
  <2>2. \A i \in 1..Len(publish) : publish[i] \in Int /\ publish[i] >= 1
        BY Sizes DEF DataOK, Entry
  <2>3. Below(<<entry>>, publish)' /\ entry' <= published'
        BY <1>0, <2>1, <2>2 DEF Below
  <2>4. AtMost(eventLogs', published') /\ Below(eventLogs, publish)'
    <3>1. CASE eventLogs' = eventLogs
          BY <2>1, <3>1 DEF OrderInv, AtMost, Below
    <3>2. CASE eventLogs' = Append(eventLogs, entry)
      <4>1. \A i \in 1..Len(eventLogs') :
              (i \in 1..Len(eventLogs) /\ eventLogs'[i] = eventLogs[i]) \/ eventLogs'[i] = entry
            BY <1>0, <3>2
      <4>2. \A j \in 1..Len(publish) : entry < publish[j]
            BY DEF OrderInv, Below
      <4> QED BY <2>1, <4>1, <4>2 DEF OrderInv, AtMost, Below
    <3> QED BY <2>1, <3>1, <3>2
  <2> QED BY <2>1, <2>3, <2>4 DEF OrderInv, AtMost
<1>6. CASE PurgeOldLogs
  <2>1. PICK n \in 1..Len(eventLogs) : eventLogs' = SubSeq(eventLogs, n + 1, Len(eventLogs))
        BY <1>6 DEF PurgeOldLogs
  <2>2. \A i \in 1..Len(eventLogs') : n + i \in 1..Len(eventLogs) /\ eventLogs'[i] = eventLogs[n + i]
        BY <1>0, <2>1
  <2>3. UNCHANGED <<publish, published, entry>>
        BY <1>6 DEF PurgeOldLogs
  <2> QED BY <2>2, <2>3 DEF OrderInv, AtMost, Below
<1>7. CASE \/ HandleRegister \/ HandleStop \/ Close \/ Restart \/ UNCHANGED vars
           \/ \E s \in Sessions :
                ReadHistory(s) \/ Subscribe(s) \/ Receive(s) \/ StreamEnds(s) \/ Unsubscribe(s)
      BY <1>1, <1>7 DEF HandleRegister, HandleStop, Close, Restart, vars, ReadHistory,
                        Subscribe, Receive, StreamEnds, Unsubscribe
<1>8. CASE Exit \/ Kill \/ HandleUnregister
      BY <1>1, <1>2, <1>8 DEF Exit, Kill, HandleUnregister
<1> QED BY <1>3, <1>4, <1>5, <1>6, <1>7, <1>8 DEF Next

LEMMA HistoryStep ==
  ASSUME DataOK, RegisterInv, SessionInv, OrderInv, HistoryInv, [Next]_vars
  PROVE  HistoryInv'
<1> USE DEF broker, channels, handlers
<1>0. /\ publish \in Seq(Int) /\ eventLogs \in Seq(Int) /\ published \in Int
      /\ history \in [Sessions -> Seq(Int)] /\ sent \in [Sessions -> Seq(Int)]
      /\ buf \in [Sessions -> Seq(Int)] /\ HistoryLimit \in Nat
  <2>1. Entry \subseteq Int /\ \A q \in Seq(Entry) : q \in Seq(Int)
        BY Sizes DEF Entry
  <2>2. /\ publish \in Seq(Entry) /\ eventLogs \in Seq(Entry) /\ published \in Int
        /\ history \in [Sessions -> Seq(Entry)] /\ sent \in [Sessions -> Seq(Entry)]
        /\ buf \in [Sessions -> Seq(Entry)]
        BY Sizes DEF DataOK
  <2>3. \A f \in [Sessions -> Seq(Entry)] : f \in [Sessions -> Seq(Int)]
        BY <2>1
  <2>4. HistoryLimit \in Nat
        BY LogStreamAssumption
  <2> QED BY <2>1, <2>2, <2>3, <2>4
<1>1. CASE UNCHANGED <<publish, published, history, sent, buf>>
      BY <1>1 DEF HistoryInv, AtMost, Below
<1>2. CASE Die
  <2>1. \A s \in Sessions : history'[s] = <<>>
        BY <1>2 DEF Die, NoEntries
  <2>2. Len(<<>>) = 0
        OBVIOUS
  <2> QED BY <2>1, <2>2 DEF HistoryInv, AtMost, Below
<1>3. CASE Publish
  <2>1. /\ published' = published + 1 /\ UNCHANGED <<history, sent, buf>>
        /\ publish' = publish \/ publish' = Append(publish, published + 1)
        BY <1>3 DEF Publish, Send
  <2>2. \A i \in 1..Len(publish') :
          (i \in 1..Len(publish) /\ publish'[i] = publish[i]) \/ publish'[i] = published + 1
    <3>1. CASE publish' = publish
          BY <3>1
    <3>2. CASE publish' = Append(publish, published + 1)
          BY <1>0, <3>2
    <3> QED BY <2>1, <3>1, <3>2
  <2>3. ASSUME NEW s \in Sessions
        PROVE  AtMost(history[s], published') /\ Below(history[s], publish')
    <3>1. \A k \in 1..Len(history[s]) : history[s][k] \in Int /\ history[s][k] <= published
          BY <1>0 DEF HistoryInv, AtMost
    <3>2. \A x \in Int : x <= published => x < published + 1 /\ x <= published + 1
          BY <1>0
    <3>3. AtMost(history[s], published')
          BY <2>1, <3>1, <3>2 DEF AtMost
    <3>4. Below(history[s], publish)
          BY DEF HistoryInv
    <3>5. Below(history[s], publish')
          BY <2>2, <3>1, <3>2, <3>4 DEF Below
    <3> QED BY <3>3, <3>5
  <2> QED BY <2>1, <2>3 DEF HistoryInv, Below
<1>4. CASE HandlePublish
  <2>1. PICK e \in Int : e = publish[1] /\ e = Head(publish)
        BY <1>0, <1>4 DEF HandlePublish
  <2>2. /\ 1 \in 1..Len(publish) /\ publish' = Tail(publish)
        /\ UNCHANGED <<published, history, sent>>
        BY <1>0, <1>4 DEF HandlePublish
  <2>3. \A i \in 1..Len(publish') : i + 1 \in 1..Len(publish) /\ publish'[i] = publish[i + 1]
        BY <1>0, <1>4, <2>2 DEF HandlePublish
  <2>4. ASSUME NEW s \in Sessions
        PROVE  \A i \in 1..Len(buf'[s]) :
                 (i \in 1..Len(buf[s]) /\ buf'[s][i] = buf[s][i]) \/ buf'[s][i] = e
    <3>1. CASE buf'[s] = Append(buf[s], e)
          BY <1>0, <3>1
    <3>2. CASE buf'[s] = buf[s]
          BY <3>2
    <3> QED BY <1>4, <2>1, <3>1, <3>2 DEF HandlePublish, Broadcast, Deliver
  <2>5. ASSUME NEW s \in Sessions
        PROVE  /\ AtMost(history[s], published) /\ Below(history[s], publish')
               /\ Below(history[s], sent[s]) /\ Below(history[s], buf'[s])
    <3>1. /\ AtMost(history[s], published) /\ Below(history[s], publish)
          /\ Below(history[s], sent[s]) /\ Below(history[s], buf[s])
          BY DEF HistoryInv
    <3>2. Below(history[s], publish')
          BY <2>3, <3>1 DEF Below
    <3>3. ASSUME NEW i \in 1..Len(history[s]), NEW j \in 1..Len(buf'[s])
          PROVE  history[s][i] < buf'[s][j]
      <4>1. CASE j \in 1..Len(buf[s]) /\ buf'[s][j] = buf[s][j]
            BY <3>1, <4>1 DEF Below
      <4>2. CASE buf'[s][j] = e
        <5>1. history[s][i] < publish[1]
              BY <2>2, <3>1 DEF Below
        <5> QED BY <2>1, <4>2, <5>1
      <4> QED BY <2>4, <4>1, <4>2
    <3>4. Below(history[s], buf'[s])
          BY <3>3 DEF Below
    <3> QED BY <3>1, <3>2, <3>4
  <2> QED BY <2>2, <2>5 DEF HistoryInv
<1>5. ASSUME NEW s \in Sessions, ReadHistory(s) PROVE HistoryInv'
  <2>1. /\ pc[s] = "off" /\ UNCHANGED <<publish, published, buf, sent>>
        /\ \A t \in Sessions : t # s => history'[t] = history[t]
        BY <1>0, <1>5 DEF ReadHistory
  <2>2. buf[s] = <<>> /\ sent[s] = <<>>
        BY <2>1 DEF SessionInv, Fresh
  <2>3. ASSUME NEW n \in Nat, n <= Len(eventLogs)
        PROVE  AtMost(LastRows(n), published) /\ Below(LastRows(n), publish)
    <3>1. \A i \in 1..Len(LastRows(n)) :
            /\ Len(eventLogs) - n + i \in 1..Len(eventLogs)
            /\ LastRows(n)[i] = eventLogs[Len(eventLogs) - n + i]
          BY <1>0, <2>3 DEF LastRows
    <3> QED BY <3>1 DEF OrderInv, AtMost, Below
  <2>4. ASSUME NEW a, NEW rows \in RecentLogs(a)
        PROVE  AtMost(rows, published) /\ Below(rows, publish)
    <3>1. CASE a
          BY <1>0, <2>3, <3>1 DEF RecentLogs
    <3>2. CASE ~a
      <4>1. rows = LastRows(IF Len(eventLogs) < HistoryLimit
                            THEN Len(eventLogs) ELSE HistoryLimit)
            BY <3>2 DEF RecentLogs
      <4>2. CASE Len(eventLogs) < HistoryLimit
            BY <1>0, <2>3, <4>1, <4>2
      <4>3. CASE ~(Len(eventLogs) < HistoryLimit)
            BY <1>0, <2>3, <4>1, <4>3
      <4> QED BY <4>2, <4>3
    <3> QED BY <3>1, <3>2
  <2>5. ASSUME NEW a \in Viewers, NEW rows \in RecentLogs(a),
               history' = [history EXCEPT ![s] = rows]
        PROVE  AtMost(history'[s], published) /\ Below(history'[s], publish)
        BY <1>0, <2>4, <2>5
  <2>6. CASE history' = history
        BY <2>1, <2>6 DEF HistoryInv, AtMost, Below
  <2>7. CASE AtMost(history'[s], published) /\ Below(history'[s], publish)
    <3>1. Below(history'[s], sent[s]) /\ Below(history'[s], buf[s])
          BY <2>2 DEF Below
    <3> QED BY <2>1, <2>7, <3>1 DEF HistoryInv
  <2> QED BY <1>5, <2>5, <2>6, <2>7 DEF ReadHistory
<1>6. ASSUME NEW s \in Sessions, Receive(s) PROVE HistoryInv'
  <2>1. /\ sent' = [sent EXCEPT ![s] = Append(@, Head(buf[s]))]
        /\ buf' = [buf EXCEPT ![s] = Tail(@)]
        /\ buf[s] # <<>>
        /\ UNCHANGED <<publish, published, history>>
        BY <1>6 DEF Receive
  <2>2. /\ 1 \in 1..Len(buf[s])
        /\ \A i \in 1..Len(buf'[s]) : i + 1 \in 1..Len(buf[s]) /\ buf'[s][i] = buf[s][i + 1]
        /\ \A i \in 1..Len(sent'[s]) :
             (i \in 1..Len(sent[s]) /\ sent'[s][i] = sent[s][i]) \/ sent'[s][i] = buf[s][1]
        BY <1>0, <2>1
  <2>3. Below(history[s], sent'[s]) /\ Below(history[s], buf'[s])
        BY <2>2 DEF HistoryInv, Below
  <2>4. \A t \in Sessions : t # s => sent'[t] = sent[t] /\ buf'[t] = buf[t]
        BY <1>0, <2>1
  <2> QED BY <2>1, <2>3, <2>4 DEF HistoryInv
<1>7. CASE \/ OnPublish \/ PurgeOldLogs \/ HandleRegister \/ HandleStop
           \/ Close \/ Restart \/ UNCHANGED vars
           \/ \E s \in Sessions : Subscribe(s) \/ StreamEnds(s) \/ Unsubscribe(s)
      BY <1>1, <1>7 DEF OnPublish, PurgeOldLogs, HandleRegister, Greet, HandleStop, Close, Restart,
                        vars, Subscribe, StreamEnds, Unsubscribe
<1>8. CASE Exit \/ Kill \/ HandleUnregister
      BY <1>1, <1>2, <1>8 DEF Exit, Kill, HandleUnregister
<1> QED BY <1>3, <1>4, <1>5, <1>6, <1>7, <1>8 DEF Next

(***************************************************************************)
(* Nothing a session is shown as history comes again in its stream, nor is *)
(* it newer than what the stream brings.                                   *)
(***************************************************************************)
THEOREM NothingShownTwice == Spec => []HistoryBeforeStream
<1>1. Init => OrderInv /\ HistoryInv
      BY DEF Init, NoEntries, OrderInv, HistoryInv, AtMost, Below
<1>2. DataOK /\ HistoryInv => HistoryBeforeStream
  <2> SUFFICES ASSUME DataOK, HistoryInv, NEW s \in Sessions,
                      NEW i \in 1..Len(history[s]), NEW j \in 1..Len(Stream(s))
               PROVE  history[s][i] < Stream(s)[j]
      BY DEF HistoryBeforeStream
  <2>1. \/ \E k \in 1..Len(sent[s]) : Stream(s)[j] = sent[s][k]
        \/ \E k \in 1..Len(buf[s]) : Stream(s)[j] = buf[s][k]
    <3>1. PICK q \in Seq(Entry) : q = sent[s]
          BY DEF DataOK
    <3>2. PICK r \in Seq(Entry) : r = buf[s]
          BY DEF DataOK
    <3>3. Stream(s) = q \o r
          BY <3>1, <3>2 DEF Stream
    <3>4. ASSUME NEW k \in 1..Len(q \o r)
          PROVE  \/ k \in 1..Len(q) /\ (q \o r)[k] = q[k]
                 \/ k - Len(q) \in 1..Len(r) /\ (q \o r)[k] = r[k - Len(q)]
          OBVIOUS
    <3> QED BY <3>1, <3>2, <3>3, <3>4
  <2> QED BY <2>1 DEF HistoryInv, Below
<1> QED BY <1>1, <1>2, InitDataOK, InitSessions, DataStep, SessionStep, OrderStep,
           HistoryStep, PTL DEF Spec
=============================================================================

----------------------------- MODULE EventFeed -----------------------------
(***************************************************************************)
(* What the event stream promises a session, whatever rings, channels and  *)
(* goroutines it is made of: from the moment it is opened, the session is  *)
(* sent a contiguous part of the one log, in order, from the entry after   *)
(* the last of that moment.  It may be cut off, when it is then still sent *)
(* all that was logged up to the cut and is over only after that.          *)
(***************************************************************************)
EXTENDS Integers, Sequences

CONSTANTS
  Sessions,
  Entry

VARIABLES
  log,     \* the entries so far
  state,   \* state[s] \in {"idle", "live", "cut", "over"}
  start,   \* Len(log) when s was opened
  limit,   \* the last entry of log that s is to be sent
  out      \* what s has been sent

vars == <<log, state, start, limit, out>>

TypeOK ==
  /\ log \in Seq(Entry)
  /\ state \in [Sessions -> {"idle", "live", "cut", "over"}]
  /\ start \in [Sessions -> Nat]
  /\ limit \in [Sessions -> Nat]
  /\ out \in [Sessions -> Seq(Entry)]

Init ==
  /\ log = <<>>
  /\ state = [s \in Sessions |-> "idle"]
  /\ start = [s \in Sessions |-> 0]
  /\ limit = [s \in Sessions |-> 0]
  /\ out = [s \in Sessions |-> <<>>]

Cut(S) == state' = [s \in Sessions |-> IF s \in S /\ state[s] = "live" THEN "cut" ELSE state[s]]

(* An entry is logged, for all the sessions that are live but those of S, which are cut. *)
Log(e, S) ==
  /\ log' = Append(log, e)
  /\ Cut(S)
  /\ limit' = [s \in Sessions |-> IF state[s] = "live" /\ s \notin S THEN limit[s] + 1 ELSE limit[s]]
  /\ UNCHANGED <<start, out>>

Open(s) ==
  /\ state[s] = "idle"
  /\ state' = [state EXCEPT ![s] = "live"]
  /\ start' = [start EXCEPT ![s] = Len(log)]
  /\ limit' = [limit EXCEPT ![s] = Len(log)]
  /\ UNCHANGED <<log, out>>

Deliver(s) ==
  /\ state[s] \in {"live", "cut"}
  /\ start[s] + Len(out[s]) < limit[s]
  /\ out' = [out EXCEPT ![s] = Append(@, log[start[s] + Len(@) + 1])]
  /\ UNCHANGED <<log, state, start, limit>>

CutAll ==
  /\ Cut(Sessions)
  /\ UNCHANGED <<log, start, limit, out>>

End(s) ==
  /\ state[s] = "cut"
  /\ start[s] + Len(out[s]) = limit[s]
  /\ state' = [state EXCEPT ![s] = "over"]
  /\ UNCHANGED <<log, start, limit, out>>

(* The process ends and with it every session; its log starts afresh. *)
Reset ==
  /\ log' = <<>>
  /\ state' = [s \in Sessions |-> "idle"]
  /\ start' = [s \in Sessions |-> 0]
  /\ limit' = [s \in Sessions |-> 0]
  /\ out' = [s \in Sessions |-> <<>>]

Next ==
  \/ \E e \in Entry, S \in SUBSET Sessions : Log(e, S)
  \/ \E s \in Sessions : Open(s) \/ Deliver(s) \/ End(s)
  \/ CutAll
  \/ Reset

Spec == Init /\ [][Next]_vars

(* What is due to a session is sent to it, and a session that is cut ends. *)
Fairness == \A s \in Sessions : WF_vars(Deliver(s)) /\ WF_vars(End(s))

FairSpec == Spec /\ Fairness
=============================================================================

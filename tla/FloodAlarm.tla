----------------------------- MODULE FloodAlarm -----------------------------
(***************************************************************************)
(* What flood detection promises: flood mode begins with the newcomer who  *)
(* makes it Threshold of them in less than a minute and lasts until more   *)
(* than a minute has gone without one.                                     *)
(***************************************************************************)
EXTENDS Integers, FiniteSets

CONSTANTS
  Users,
  Chats,
  Minute,
  Threshold

VARIABLES
  mode,    \* mode[ch] \in {"calm", "flood"}
  since    \* since[ch][u]: the time since u was last a newcomer in ch

vars == <<mode, since>>

LongAgo == Minute + 1

Age == 0..LongAgo

Quiet(ch) == \A u \in Users : since[ch][u] > Minute

Init ==
  /\ mode = [ch \in Chats |-> "calm"]
  /\ since = [ch \in Chats |-> [u \in Users |-> LongAgo]]

Newcomer(ch, u) ==
  LET recent == {v \in Users : v = u \/ since[ch][v] < Minute} IN
  /\ since' = [since EXCEPT ![ch][u] = 0]
  /\ mode' = [mode EXCEPT ![ch] = IF Cardinality(recent) >= Threshold THEN "flood" ELSE @]

(* Flood mode is over in the chats of S. *)
End(S) ==
  /\ \A ch \in S : mode[ch] = "flood" /\ Quiet(ch)
  /\ mode' = [ch \in Chats |-> IF ch \in S THEN "calm" ELSE mode[ch]]
  /\ UNCHANGED since

Tick ==
  /\ since' = [ch \in Chats |-> [u \in Users |->
                 IF since[ch][u] < LongAgo THEN since[ch][u] + 1 ELSE LongAgo]]
  /\ UNCHANGED mode

(* A restart: nothing is remembered. *)
Reset ==
  /\ mode' = [ch \in Chats |-> "calm"]
  /\ since' = [ch \in Chats |-> [u \in Users |-> LongAgo]]

Next ==
  \/ \E ch \in Chats, u \in Users : Newcomer(ch, u)
  \/ \E S \in SUBSET Chats : End(S)
  \/ Tick
  \/ Reset

Spec == Init /\ [][Next]_vars

Ends(ch) == \E S \in SUBSET Chats : ch \in S /\ End(S)

(* Flood mode does not outlast the quiet. *)
FairSpec == Spec /\ \A ch \in Chats : WF_vars(Ends(ch))
=============================================================================

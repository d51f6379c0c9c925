---------------------------- MODULE UpdateQueue ----------------------------
(***************************************************************************)
(* What main promises about the updates Telegram sends: an update is       *)
(* refused only when Capacity others wait; an accepted one waits in the    *)
(* order of arrival, whatever becomes of bots and handlers meanwhile, and  *)
(* is processed once, unless the process ends before.                      *)
(***************************************************************************)
EXTENDS Naturals, Sequences

CONSTANTS Capacity, MaxUpdates

VARIABLES
  arrived,   \* the number of calls of the webhook
  waiting,   \* accepted updates, in their order
  work,      \* updates in processing
  up         \* is the process there?

vars == <<arrived, waiting, work, up>>

Init == arrived = 0 /\ waiting = <<>> /\ work = {} /\ up = TRUE

Accept ==
  /\ up /\ arrived < MaxUpdates /\ Len(waiting) < Capacity
  /\ arrived' = arrived + 1
  /\ waiting' = Append(waiting, arrived')
  /\ UNCHANGED <<work, up>>

Refuse ==
  /\ up /\ arrived < MaxUpdates /\ Len(waiting) = Capacity
  /\ arrived' = arrived + 1
  /\ UNCHANGED <<waiting, work, up>>

Take ==
  /\ up /\ waiting # <<>>
  /\ waiting' = Tail(waiting)
  /\ work' = work \cup {Head(waiting)}
  /\ UNCHANGED <<arrived, up>>

Finish ==
  /\ up
  /\ \E u \in work : work' = work \ {u}
  /\ UNCHANGED <<arrived, waiting, up>>

End ==
  /\ up /\ up' = FALSE
  /\ waiting' = <<>> /\ work' = {}
  /\ UNCHANGED arrived

Next == Accept \/ Refuse \/ Take \/ Finish \/ End

Spec == Init /\ [][Next]_vars
=============================================================================

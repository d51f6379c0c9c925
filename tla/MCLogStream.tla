---------------------------- MODULE MCLogStream ----------------------------
(* Constants of the runs on LogStream that a .cfg cannot write. *)
EXTENDS LogStream, TLC

BothViewers == {TRUE, FALSE}
Anonymous == {FALSE}
Symmetry == Permutations(Sessions)
=============================================================================

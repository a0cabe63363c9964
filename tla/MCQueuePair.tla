---------------------------- MODULE MCQueuePair ----------------------------
(* Rings of three entries (two usable) and three commands: the submission  *)
(* ring fills while the completion ring still holds entries, both wrap at  *)
(* different times, and slots are reused while older ones are outstanding. *)
(* The liveness of one command stands for that of all, the specification   *)
(* is the same in each.                                                    *)
EXTENDS QueuePair

CONSTANTS c1, c2, c3
ThreeCmds == {c1, c2, c3}
WatchedCmd == {c1}
=============================================================================

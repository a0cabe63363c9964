--------------------------- MODULE MCCmdInfoList ---------------------------
(* Three threads and three slots: two pushes and a flush of the pending    *)
(* list can overlap while the third slot moves.                            *)
EXTENDS CmdInfoList, TLC

CONSTANTS t1, t2, t3
MCThreads == {t1, t2, t3}
=============================================================================

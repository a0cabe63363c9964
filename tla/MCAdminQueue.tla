---------------------------- MODULE MCAdminQueue ----------------------------
EXTENDS AdminQueue, TLC

CONSTANTS c1, c2, c3
ThreeCmds == {c1, c2, c3}
TwoCmds == {c1, c2}
Symmetry == Permutations(Cmds)
=============================================================================

--------------------------- MODULE MCNoteFolders ----------------------------
EXTENDS NoteFolders, TLC

CONSTANTS f1, f2, f3, c1

OneCase == [x \in Item |-> c1]
=============================================================================

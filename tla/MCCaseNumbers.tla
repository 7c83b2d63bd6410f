--------------------------- MODULE MCCaseNumbers ----------------------------
EXTENDS CaseNumbers, TLC
=============================================================================

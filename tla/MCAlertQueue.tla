---------------------------- MODULE MCAlertQueue ----------------------------
EXTENDS AlertQueue, TLC

\* OpenCases breaks the symmetry of Case; the rest is interchangeable.
Symmetry == Permutations(Alert) \cup Permutations(Worker)
              \cup Permutations(Reason) \cup Permutations(Case \ OpenCases)
=============================================================================

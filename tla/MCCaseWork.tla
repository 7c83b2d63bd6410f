---------------------------- MODULE MCCaseWork ------------------------------
EXTENDS CaseWork, TLC

CONSTANTS t1, t2, a1, a2, hostA

\* Two assets of one name, of which the case has one at a time.
Names == a1 :> hostA @@ a2 :> hostA

Symmetry == Permutations(Worker) \cup Permutations(Task) \cup Permutations(Asset)
=============================================================================

-------------------------- MODULE MCCaseLifecycle ---------------------------
EXTENDS CaseLifecycle, TLC

CONSTANTS c1, c2, c3

TwoCases == {c1, c2}
ThreeCases == {c1, c2, c3}
Ranks == [c \in Case |-> CASE c = c1 -> 1 [] c = c2 -> 2 [] c = c3 -> 3]

\* Resolve and close only, where the locks and not the statuses matter.
FewPayloads == {[status |-> "resolved"], [status |-> "closed", outcome |-> TRUE]}
=============================================================================

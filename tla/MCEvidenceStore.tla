-------------------------- MODULE MCEvidenceStore ---------------------------
EXTENDS EvidenceStore, TLC

\* The declared file as it is, and another one with a password.
TwoFiles == {[encrypted |-> FALSE, matches |-> TRUE], [encrypted |-> TRUE, matches |-> FALSE]}
=============================================================================

---------------------------- MODULE MCCaseViews -----------------------------
EXTENDS CaseViews, TLC

CONSTANTS ip, host, task

Kinds == ip :> "observable" @@ host :> "asset" @@ task :> "task"

\* Gaps below, at and above the threshold of 2.
Came == ip :> 0 @@ host :> 2 @@ task :> 3
Times == [t \in Item \X {"there", "gone"} |-> IF t[2] = "gone" THEN 6 ELSE Came[t[1]]]
=============================================================================

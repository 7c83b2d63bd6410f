------------------------------ MODULE CaseViews -----------------------------
(***************************************************************************)
(* What readers of a case are shown while it changes: reports              *)
(* (backend/src/services/reports.py) and the clusters of the timeline      *)
(* (clustering.py).                                                        *)
(*                                                                         *)
(* A report selects one table after the other in a READ COMMITTED          *)
(* transaction, so each section shows what was committed at its own        *)
(* moment.  The rendered file goes to the object store before the row of   *)
(* the report, which no rollback undoes.                                   *)
(*                                                                         *)
(* Merges (cases.py) move observables and timeline entries between this    *)
(* case and the others, "away", and leave all other rows where they are.   *)
(***************************************************************************)
EXTENDS Integers, FiniteSets, SequencesExt

CONSTANTS Item,       \* rows, and changes of a case's status; the bound
          KindOf,     \* the section each belongs to
          TimeOf,     \* the event_timestamp of each entry
          Threshold,  \* cluster_threshold_seconds
          Merge,      \* merges asked for; the model's bound
          Report      \* reports and previews asked for; the model's bound

Kind == {"case", "observable", "asset", "task", "note", "evidence", "mapping"}
Silent == {"note", "mapping"}      \* their creation writes no timeline entry
Template == {"investigation", "activity"}
Place == {"here", "away"}

\* The entries about rows: that one has come, that one has been deleted.
Telling == Item \X {"there", "gone"}

ASSUME ItemAssumption == IsFiniteSet(Item)
ASSUME KindAssumption == KindOf \in [Item -> Kind]
ASSUME TimeAssumption == TimeOf \in [Telling -> Int] /\ Threshold \in Nat

VARIABLES items,    \* where each row is: "unborn", "gone" or the case it is of
          entry,    \* where each entry is: "none" or the case it is of
          taken,    \* entries that a merge has taken off this case
          merge,    \* what each merge is doing and has selected
          rep,      \* what each report's request is doing and has read
          objects,  \* reports whose file is in the object store
          reports   \* reports rows

caseVars == <<items, entry, taken, merge>>
reportVars == <<rep, objects, reports>>
viewsVars == <<items, entry, taken, merge, rep, objects, reports>>

Section == Kind \cup {"timeline", "audit"}
Unread == [k \in Section |-> {}]

ViewsInit ==
  /\ items = [x \in Item |-> "unborn"]
  /\ entry = [t \in Telling |-> "none"]
  /\ taken = {}
  /\ merge = [m \in Merge |-> [step |-> "unsent", from |-> "here", rows |-> {}, entries |-> {}]]
  /\ rep = [r \in Report |-> [step |-> "unsent", template |-> "activity",
                              read |-> 0, shown |-> Unread]]
  /\ objects = {}
  /\ reports = {}
-----------------------------------------------------------------------------
(* The cases change.  A row and the entry about it are one transaction.     *)

\* The tasks of a case template come without an entry.
Add(x, place, telling) ==
  /\ items[x] = "unborn"
  /\ IF telling THEN KindOf[x] \notin Silent ELSE KindOf[x] \in Silent \cup {"task"}
  /\ items' = [items EXCEPT ![x] = place]
  /\ entry' = IF telling THEN [entry EXCEPT ![<<x, "there">>] = place] ELSE entry
  /\ UNCHANGED <<taken, merge, reportVars>>

\* Of the deletions only that of a task writes an entry.
Delete(x) ==
  /\ items[x] \in Place /\ KindOf[x] # "case"
  /\ items' = [items EXCEPT ![x] = "gone"]
  /\ entry' = IF KindOf[x] = "task" THEN [entry EXCEPT ![<<x, "gone">>] = items[x]] ELSE entry
  /\ UNCHANGED <<taken, merge, reportVars>>

\* merge_cases, with this case as a source or as the target: SELECT the source's
\* observables, ...
SelectObservables(m, from) ==
  /\ merge[m].step = "unsent"
  /\ LET found == {x \in Item : items[x] = from /\ KindOf[x] = "observable"}
     IN  merge' = [merge EXCEPT ![m] = [step |-> "rows", from |-> from,
                                        rows |-> found, entries |-> {}]]
  /\ UNCHANGED <<items, entry, taken, reportVars>>

\* ... then its entries, automatic ones included, ...
SelectEntries(m) ==
  /\ merge[m].step = "rows"
  /\ LET found == {t \in Telling : entry[t] = merge[m].from}
     IN  merge' = [merge EXCEPT ![m].step = "entries", ![m].entries = found]
  /\ UNCHANGED <<items, entry, taken, reportVars>>

Other(place) == IF place = "here" THEN "away" ELSE "here"

\* ... and give all of them to the target.  Its tasks, assets, notes, evidence
\* and mappings stay with the source, and what came after its SELECT stays too.
\* A row deleted meanwhile fails the UPDATE: the merge can only abort.
CommitMerge(m) ==
  /\ merge[m].step = "entries"
  /\ \A x \in merge[m].rows : items[x] # "gone"
  /\ LET to == Other(merge[m].from)
     IN  /\ items' = [x \in Item |-> IF x \in merge[m].rows THEN to ELSE items[x]]
         /\ entry' = [t \in Telling |-> IF t \in merge[m].entries THEN to ELSE entry[t]]
         /\ taken' = IF to = "away" THEN taken \cup merge[m].entries ELSE taken
  /\ merge' = [merge EXCEPT ![m].step = "merged"]
  /\ UNCHANGED reportVars

AbortMerge(m) ==
  /\ merge[m].step \in {"rows", "entries"}
  /\ merge' = [merge EXCEPT ![m].step = "failed"]
  /\ UNCHANGED <<items, entry, taken, reportVars>>

\* list_entries.
Timeline == {t \in Telling : entry[t] = "here"}
-----------------------------------------------------------------------------
(* generate_report and preview_report                                      *)

Sections_TimelineLast(template) ==   \* mutant: the timeline is selected last
  IF template = "investigation"
  THEN <<"case", "observable", "asset", "task", "note", "evidence", "mapping", "timeline">>
  ELSE <<"case", "audit", "timeline">>

\* _build_context and _build_activity_context, in the order of their SELECTs.
Sections(template) ==
  IF template = "investigation"
  THEN <<"case", "observable", "asset", "timeline", "task", "note", "evidence", "mapping">>
  ELSE <<"case", "audit", "timeline">>

\* Nothing writes audit_logs.
Rows(section) == IF section = "timeline" THEN Timeline
                 ELSE {x \in Item : items[x] = "here" /\ KindOf[x] = section}

Start(r, template) ==
  /\ rep[r].step = "unsent"
  /\ rep' = [rep EXCEPT ![r].step = "reading", ![r].template = template]
  /\ UNCHANGED <<caseVars, objects, reports>>

Select_Endless(r) ==   \* mutant: the last section does not end the reading
  /\ rep[r].step = "reading" /\ rep[r].read < Len(Sections(rep[r].template))
  /\ LET section == Sections(rep[r].template)[rep[r].read + 1]
     IN  rep' = [rep EXCEPT ![r].read = @ + 1, ![r].shown[section] = Rows(section)]
  /\ UNCHANGED <<caseVars, objects, reports>>

\* The next SELECT; after the last one the template is rendered.
Select(r) ==
  /\ rep[r].step = "reading"
  /\ LET order == Sections(rep[r].template)
         n == rep[r].read + 1
     IN  rep' = [rep EXCEPT ![r].read = n,
                            ![r].shown[order[n]] = Rows(order[n]),
                            ![r].step = IF n = Len(order) THEN "rendered" ELSE "reading"]
  /\ UNCHANGED <<caseVars, objects, reports>>

\* preview_report ends here.
Show(r) ==
  /\ rep[r].step = "rendered"
  /\ rep' = [rep EXCEPT ![r].step = "shown"]
  /\ UNCHANGED <<caseVars, objects, reports>>

\* storage.upload_bytes, under a key drawn for this report.
Upload(r) ==
  /\ rep[r].step = "rendered"
  /\ rep' = [rep EXCEPT ![r].step = "stored"]
  /\ objects' = objects \cup {r}
  /\ UNCHANGED <<caseVars, reports>>

\* The row and its report_generated entry.
Commit(r) ==
  /\ rep[r].step = "stored"
  /\ rep' = [rep EXCEPT ![r].step = "shown"]
  /\ reports' = reports \cup {r}
  /\ UNCHANGED <<caseVars, objects>>

\* A template that does not fit (StrictUndefined), an unknown format, a failing
\* upload, a lost client, a crash: the file, if there, stays.
AbortReport(r) ==
  /\ rep[r].step \in {"reading", "rendered", "stored"}
  /\ rep' = [rep EXCEPT ![r] = [step |-> "failed", template |-> @.template,
                                read |-> 0, shown |-> Unread]]
  /\ UNCHANGED <<caseVars, objects, reports>>
-----------------------------------------------------------------------------
(* The clusters of the swimlane                                            *)

Earliest(S) == CHOOSE x \in S : \A y \in S : TimeOf[x] <= TimeOf[y]

\* The entries are taken in the order of their times; the first begins a cluster.
Starts(S) == LET x == Earliest(S)
             IN  [left |-> S \ {x}, done |-> {}, current |-> <<x>>]

\* A cluster of one entry is left out.
Flushed(acc) == IF Len(acc.current) >= 2 THEN acc.done \cup {ToSet(acc.current)} ELSE acc.done

Take_FromFirst(acc) ==   \* mutant: the gap to the first entry of the cluster
  LET x == Earliest(acc.left)
  IN  IF TimeOf[x] - TimeOf[Head(acc.current)] <= Threshold
      THEN [acc EXCEPT !.left = @ \ {x}, !.current = Append(@, x)]
      ELSE [left |-> acc.left \ {x}, done |-> Flushed(acc), current |-> <<x>>]

\* An entry goes on with the cluster when the gap is at most the threshold.
Take(acc) ==
  LET x == Earliest(acc.left)
  IN  IF TimeOf[x] - TimeOf[Last(acc.current)] <= Threshold
      THEN [acc EXCEPT !.left = @ \ {x}, !.current = Append(@, x)]
      ELSE [left |-> acc.left \ {x}, done |-> Flushed(acc), current |-> <<x>>]

FindClusters(S) ==
  LET further == Cardinality(S) - 1
      loop[n \in 0..further] == IF n = 0 THEN Starts(S) ELSE Take(loop[n - 1])
  IN  IF S = {} THEN {} ELSE Flushed(loop[further])

\* build_swimlane clusters the entries of the case.
Swimlane == FindClusters(Timeline)
-----------------------------------------------------------------------------
ViewsNext ==
  \/ \E x \in Item :
       \/ \E place \in Place, telling \in BOOLEAN : Add(x, place, telling)
       \/ Delete(x)
  \/ \E m \in Merge :
       \/ \E from \in Place : SelectObservables(m, from)
       \/ SelectEntries(m)
       \/ CommitMerge(m)
       \/ AbortMerge(m)
  \/ \E r \in Report :
       \/ \E template \in Template : Start(r, template)
       \/ Select(r)
       \/ Show(r)
       \/ Upload(r)
       \/ Commit(r)
       \/ AbortReport(r)

ViewsSpec == ViewsInit /\ [][ViewsNext]_viewsVars
-----------------------------------------------------------------------------
ViewsTypeOK ==
  /\ items \in [Item -> {"unborn", "gone"} \cup Place]
  /\ entry \in [Telling -> {"none"} \cup Place]
  /\ taken \subseteq Telling
  /\ merge \in [Merge -> [step : {"unsent", "rows", "entries", "merged", "failed"},
                          from : Place, rows : SUBSET Item, entries : SUBSET Telling]]
  /\ rep \in [Report -> [step : {"unsent", "reading", "rendered", "stored", "shown", "failed"},
                         template : Template, read : Nat,
                         shown : [Section -> SUBSET (Item \cup Telling)]]]
  /\ \A r \in Report :
       LET n == Len(Sections(rep[r].template))
       IN  /\ rep[r].step \in {"unsent", "failed"} => rep[r].read = 0
           /\ rep[r].step = "reading" => rep[r].read < n
           /\ rep[r].step \in {"rendered", "stored", "shown"} => rep[r].read = n
           /\ \A k \in Kind : rep[r].shown[k] \subseteq Item
           /\ rep[r].shown["timeline"] \subseteq Telling
           /\ rep[r].shown["audit"] = {}
  /\ objects \subseteq Report
  /\ reports \subseteq Report

\* A report does not contradict itself, although rows come and go and cases are
\* merged between its SELECTs.  What the sections before the timeline show, the
\* timeline tells, unless a merge has taken the entry off this case.  Of what the
\* timeline tells the sections after it show every row that is still on this case,
\* and no task that it says is deleted.  (A timeline that merges have added to
\* also tells of tasks, assets and evidence of other cases, which no section of
\* this case lists.)
ReportCoherent ==
  \A r \in Report : rep[r].template = "investigation" /\ rep[r].step \in {"shown", "stored"} =>
    LET shown == rep[r].shown
    IN  /\ \A k \in {"case", "observable", "asset"} : \A x \in shown[k] :
             <<x, "there">> \in shown["timeline"] \cup taken
        /\ \A x \in Item : <<x, "there">> \in shown["timeline"]
                           /\ KindOf[x] \in {"task", "evidence"} /\ items[x] = "here"
             => x \in shown[KindOf[x]]
        /\ \A x \in shown["task"] : <<x, "gone">> \notin shown["timeline"]

\* Two entries are in one cluster exactly if no gap between them is longer than
\* the threshold: nothing depends on where the cluster began, and no entry is in
\* two.  A gap of exactly the threshold goes on with the cluster, as in the comparison
\* of clustering.py:54; the docstrings say that it does not, see ClustersBelow.
Together(S, x, y) ==
  \A z \in S : TimeOf[z] < TimeOf[x] \/ TimeOf[z] >= TimeOf[y]
               \/ \E u \in S : TimeOf[u] > TimeOf[z] /\ TimeOf[u] - TimeOf[z] <= Threshold

ClustersAreRuns ==
  LET clusters == Swimlane
  IN  /\ \A x, y \in Timeline : x # y /\ TimeOf[x] <= TimeOf[y] =>
           (Together(Timeline, x, y) <=> \E C \in clusters : {x, y} \subseteq C)
      /\ \A C, D \in clusters : C = D \/ C \cap D = {}
      /\ \A C \in clusters : Cardinality(C) >= 2

\* "Return clusters of events separated by less than the threshold"
\* (clustering.py:29, and line 4; "below the clustering threshold" in
\* test_clustering.py:3): from an entry of a cluster to the next is less than it.
\* The code does not keep this: entries exactly the threshold apart are one cluster.
ClustersBelow ==
  \A C \in Swimlane : \A x, y \in C :
    TimeOf[x] < TimeOf[y] /\ (\A z \in C : TimeOf[z] <= TimeOf[x] \/ TimeOf[z] >= TimeOf[y])
      => TimeOf[y] - TimeOf[x] < Threshold
=============================================================================

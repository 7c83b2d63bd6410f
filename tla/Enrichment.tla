----------------------------- MODULE Enrichment -----------------------------
(***************************************************************************)
(* Observables, enrichment sources and the jobs that query the sources     *)
(* (backend/src/services/observables.py, enrichment.py, worker/tasks.py).  *)
(*                                                                         *)
(* A request hands one job for each matching pair of an observable and a   *)
(* source to the broker before it commits; a worker acknowledges a job     *)
(* when it takes it, and works in a transaction of its own.                *)
(***************************************************************************)
EXTENDS FiniteSets

CONSTANTS Trigger,     \* enrichment requests; the model's bound
          Deleter,     \* deletions in progress at one time
          Observable,  \* observable ids; the model's bound
          Source,      \* source ids; the model's bound
          TypeOf       \* the type of each observable, which never changes

ASSUME TypeAssumption == DOMAIN TypeOf = Observable
ASSUME IdAssumption == Observable \cap Source = {}

Type == {TypeOf[o] : o \in Observable}
Row == Observable \cup Source
Pair == Observable \X Source
Job == Trigger \X Observable \X Source

VARIABLES there,    \* observables and sources that exist
          gone,     \* observables and sources that have been deleted
          serves,   \* the types a source is asked about: none when disabled
          trig,     \* what each enrichment request is doing or has done
          jobs,     \* where each job is
          results,  \* enrichment_results: the job each was written for
          del       \* what each deletion is doing

enrichmentVars == <<there, gone, serves, trig, jobs, results, del>>

NoDeletion == [step |-> "idle"]
Asked(step, pairs) == [step |-> step, listed |-> pairs, todo |-> pairs, stubs |-> {}]

EnrichmentInit ==
  /\ there = {} /\ gone = {}
  /\ serves = [s \in Source |-> {}]
  /\ trig = [t \in Trigger |-> Asked("unsent", {})]
  /\ jobs = [j \in Job |-> "none"]
  /\ results = {}
  /\ del = [d \in Deleter |-> NoDeletion]
-----------------------------------------------------------------------------
Of(x) == {j \in results : x \in {j[2], j[3]}}
Deleting(x) == \E d \in Deleter : del[d] = [step |-> "deleted", row |-> x]

\* An uncommitted result holds its observable and its source: whoever would
\* delete one of them waits.
Holding(x) == \E t \in Trigger : \E p \in trig[t].stubs :
                trig[t].step = "queueing" /\ x \in {p[1], p[2]}

\* create_observable, create_observables_bulk: all of the batch or none of it.
CreateObservables(S) ==
  /\ S # {} /\ S \cap (there \cup gone) = {}
  /\ there' = there \cup S
  /\ UNCHANGED <<gone, serves, trig, jobs, results, del>>

CreateSource(s, types) ==
  /\ s \notin there \cup gone
  /\ there' = there \cup {s}
  /\ serves' = [serves EXCEPT ![s] = types]
  /\ UNCHANGED <<gone, trig, jobs, results, del>>

\* is_enabled and supported_observable_types.
UpdateSource(s, types) ==
  /\ s \in there /\ ~ Deleting(s)
  /\ serves' = [serves EXCEPT ![s] = types]
  /\ UNCHANGED <<there, gone, trig, jobs, results, del>>
-----------------------------------------------------------------------------
(* delete_observable and delete_source.  The ORM first selects the results  *)
(* of the row and takes the row out of them, which NOT NULL forbids: with   *)
(* any result there the request is refused.                                 *)

LoadDelete(d, x) ==
  /\ del[d] = NoDeletion
  /\ x \in there
  /\ Of(x) = {}
  /\ del' = [del EXCEPT ![d] = [step |-> "delete", row |-> x]]
  /\ UNCHANGED <<there, gone, serves, trig, jobs, results>>

FlushDelete_Cascades(d) ==   \* mutant: ON DELETE CASCADE from the source too
  /\ del[d].step = "delete"
  /\ LET x == del[d].row
     IN  x \in there /\ ~ Deleting(x) /\ ~ Holding(x)
  /\ del' = [del EXCEPT ![d].step = "deleted"]
  /\ UNCHANGED <<there, gone, serves, trig, jobs, results>>

\* The DELETE waits for whoever refers to the row or deletes it.  A source must
\* not have got a result meanwhile; an observable's would go with it.
FlushDelete(d) ==
  /\ del[d].step = "delete"
  /\ LET x == del[d].row
     IN  /\ x \in there /\ ~ Deleting(x) /\ ~ Holding(x)
         /\ x \in Source => Of(x) = {}
  /\ del' = [del EXCEPT ![d].step = "deleted"]
  /\ UNCHANGED <<there, gone, serves, trig, jobs, results>>

CommitDelete_Keeps(d) ==   \* mutant: the results of an observable outlive it
  /\ del[d].step = "deleted"
  /\ there' = there \ {del[d].row}
  /\ gone' = gone \cup {del[d].row}
  /\ del' = [del EXCEPT ![d] = NoDeletion]
  /\ UNCHANGED <<serves, trig, jobs, results>>

CommitDelete(d) ==
  /\ del[d].step = "deleted"
  /\ there' = there \ {del[d].row}
  /\ gone' = gone \cup {del[d].row}
  /\ results' = results \ Of(del[d].row)
  /\ del' = [del EXCEPT ![d] = NoDeletion]
  /\ UNCHANGED <<serves, trig, jobs>>

AbortDelete(d) ==
  /\ del[d] # NoDeletion
  /\ del' = [del EXCEPT ![d] = NoDeletion]
  /\ UNCHANGED <<there, gone, serves, trig, jobs, results>>
-----------------------------------------------------------------------------
(* trigger_enrichment                                                      *)

Matching(O, S) == {p \in (O \cap there) \X (S \cap there) : TypeOf[p[1]] \in serves[p[2]]}

\* The observables named by the client (404 when there is none), and the enabled
\* sources of the tenant, or those of them the client names.
StartTrigger(t, O, S) ==
  /\ trig[t].step = "unsent"
  /\ O \cap there # {}
  /\ trig' = [trig EXCEPT ![t] = Asked("queueing", Matching(O, S))]
  /\ UNCHANGED <<there, gone, serves, jobs, results, del>>

Queue(t, p) ==
  /\ trig[t].step = "queueing" /\ p \in trig[t].todo
  /\ jobs' = [jobs EXCEPT ![<<t, p[1], p[2]>>] = "queued"]
  /\ trig' = [trig EXCEPT ![t].todo = @ \ {p}]
  /\ UNCHANGED <<there, gone, serves, results, del>>

FallBack_Skips(t, p) ==   \* mutant: a broker that is down is passed over
  /\ trig[t].step = "queueing" /\ p \in trig[t].todo
  /\ trig' = [trig EXCEPT ![t].todo = @ \ {p}]
  /\ UNCHANGED <<there, gone, serves, jobs, results, del>>

\* The broker raises: a stub result in the request's transaction, which waits
\* for whoever deletes its observable or source, and fails if one has gone.
FallBack(t, p) ==
  /\ trig[t].step = "queueing" /\ p \in trig[t].todo
  /\ \A x \in {p[1], p[2]} : x \in there /\ ~ Deleting(x)
  /\ trig' = [trig EXCEPT ![t].todo = @ \ {p}, ![t].stubs = @ \cup {p}]
  /\ UNCHANGED <<there, gone, serves, jobs, results, del>>

\* With one enrichment_triggered entry for each observable in "listed".
CommitTrigger(t) ==
  /\ trig[t].step = "queueing" /\ trig[t].todo = {}
  /\ trig' = [trig EXCEPT ![t].step = "committed"]
  /\ results' = results \cup {<<t, p[1], p[2]>> : p \in trig[t].stubs}
  /\ UNCHANGED <<there, gone, serves, jobs, del>>

\* What has been queued by then stays queued.
AbortTrigger(t) ==
  /\ trig[t].step = "queueing"
  /\ trig' = [trig EXCEPT ![t] = Asked("aborted", {})]
  /\ UNCHANGED <<there, gone, serves, jobs, results, del>>
-----------------------------------------------------------------------------
(* execute_enrichment.  It asks neither whether the source is still enabled *)
(* nor whether the request has committed.                                   *)

TakeJob(j) ==
  /\ jobs[j] = "queued"
  /\ jobs' = [jobs EXCEPT ![j] = IF {j[2], j[3]} \subseteq there THEN "running" ELSE "done"]
  /\ UNCHANGED <<there, gone, serves, trig, results, del>>

Record_Uncommitted(j) ==   \* mutant: the session closes without a commit
  /\ jobs[j] = "running"
  /\ \A x \in {j[2], j[3]} : x \in there /\ ~ Deleting(x)
  /\ jobs' = [jobs EXCEPT ![j] = "done"]
  /\ UNCHANGED <<there, gone, serves, trig, results, del>>

\* INSERT and commit.
Record(j) ==
  /\ jobs[j] = "running"
  /\ \A x \in {j[2], j[3]} : x \in there /\ ~ Deleting(x)
  /\ jobs' = [jobs EXCEPT ![j] = "done"]
  /\ results' = results \cup {j}
  /\ UNCHANGED <<there, gone, serves, trig, del>>

\* The foreign key fails.
Fail(j) ==
  /\ jobs[j] = "running"
  /\ ~ {j[2], j[3]} \subseteq there
  /\ jobs' = [jobs EXCEPT ![j] = "done"]
  /\ UNCHANGED <<there, gone, serves, trig, results, del>>

\* The worker dies with a job it has acknowledged: nobody runs it again.
Crash(j) ==
  /\ jobs[j] = "running"
  /\ jobs' = [jobs EXCEPT ![j] = "lost"]
  /\ UNCHANGED <<there, gone, serves, trig, results, del>>
-----------------------------------------------------------------------------
EnrichmentNext ==
  \/ \E S \in SUBSET Observable : CreateObservables(S)
  \/ \E s \in Source, types \in SUBSET Type : CreateSource(s, types)
  \/ \E s \in Source, types \in SUBSET Type : UpdateSource(s, types)
  \/ \E d \in Deleter : \/ \E x \in Row : LoadDelete(d, x)
                        \/ FlushDelete(d)
                        \/ CommitDelete(d)
                        \/ AbortDelete(d)
  \/ \E t \in Trigger :
       \/ \E O \in SUBSET Observable, S \in SUBSET Source : StartTrigger(t, O, S)
       \/ \E p \in Pair : Queue(t, p) \/ FallBack(t, p)
       \/ CommitTrigger(t)
       \/ AbortTrigger(t)
  \/ \E j \in Job : TakeJob(j) \/ Record(j) \/ Fail(j) \/ Crash(j)

EnrichmentSpec == EnrichmentInit /\ [][EnrichmentNext]_enrichmentVars

\* Workers take jobs and finish them; a deletion holds its row for a while only.
FairEnrichmentSpec ==
  /\ EnrichmentSpec
  /\ \A j \in Job : /\ WF_enrichmentVars(TakeJob(j))
                    /\ SF_enrichmentVars(Record(j))
                    /\ WF_enrichmentVars(Fail(j))
  /\ \A d \in Deleter : WF_enrichmentVars(CommitDelete(d))
-----------------------------------------------------------------------------
\* No result refers to an observable or source that is not there.
EnrichmentTypeOK ==
  /\ there \subseteq Row /\ gone \subseteq Row \ there
  /\ serves \in [Source -> SUBSET Type]
  /\ trig \in [Trigger -> [step : {"unsent", "queueing", "committed", "aborted"},
                           listed : SUBSET Pair, todo : SUBSET Pair, stubs : SUBSET Pair]]
  /\ \A t \in Trigger : /\ trig[t].todo \subseteq trig[t].listed
                        /\ trig[t].stubs \subseteq trig[t].listed \ trig[t].todo
  /\ jobs \in [Job -> {"none", "queued", "running", "done", "lost"}]
  /\ results \subseteq {j \in Job : {j[2], j[3]} \subseteq there}
  /\ del \in [Deleter -> {NoDeletion} \cup [step : {"delete", "deleted"}, row : Row]]

\* An enrichment_triggered entry is true: each source it lists for an observable
\* that is still there got a job, or has left a result.
EntryBacked ==
  \A t \in Trigger : trig[t].step = "committed" =>
    \A p \in trig[t].listed :
      LET j == <<t, p[1], p[2]>>
      IN  p[1] \in there => jobs[j] # "none" \/ j \in results

\* What a source has found lasts as long as the observable: no deletion of the
\* source, however it overlaps with the jobs, takes a result away.
ResultsKept == [][\A j \in results \ results' : j[2] \in gone']_enrichmentVars

\* A job in the queue, of a request that failed afterwards too, leaves a result,
\* unless its observable or source goes or the worker dies with it.
JobsAnswered ==
  \A j \in Job : jobs[j] = "queued" ~>
    j \in results \/ {j[2], j[3]} \cap gone # {} \/ jobs[j] = "lost"
=============================================================================

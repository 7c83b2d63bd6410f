--------------------------- MODULE ModuleDispatch ---------------------------
(***************************************************************************)
(* Platform events and the modules they trigger                            *)
(* (backend/src/services/modules.py, events.py; worker/tasks.py).          *)
(*                                                                         *)
(* A request that fires an event sends a Celery task for each subscribed   *)
(* module while its own transaction is open, and notes it in a row that    *)
(* becomes visible at the commit.  The broker hands the task on at once:   *)
(* a runner may be done with it before the request commits, or the request *)
(* may never commit.  If the broker refuses the task, the module is run    *)
(* within the request's transaction.                                       *)
(***************************************************************************)
EXTENDS Naturals, FiniteSets

CONSTANTS Worker,      \* requests in progress at one time
          Runner,      \* processes of the Celery worker
          Module,      \* registered processor modules
          Event,       \* events; the model's bound on requests that fire one
          NewCase,     \* those that name a case the same request creates
          Hook,        \* pairs <<event, module>>: the module subscribes to the event
          None

ASSUME EventAssumption == NewCase \subseteq Event
ASSUME HookAssumption == Hook \subseteq Event \X Module
ASSUME NoneAssumption == None \notin Hook

VARIABLES modules,     \* table modules: whether each is enabled, or deleted
          noted,       \* hooks with a committed row "queued" in module_executions
          runs,        \* committed rows "completed" or "failed" of each hook
          wrote,       \* how many of these have left writes in the case data
          done,        \* events whose request has committed
          fired,       \* events that some request has fired
          queue,       \* tasks the broker holds
          req,         \* what each worker's request is doing
          job,         \* the hook each runner is executing
          unsure,      \* hooks whose task the broker took though it reported an error
          lost         \* hooks a runner gave up on: killed, or a database error

vars == <<modules, noted, runs, wrote, done, fired, queue, req, job, unsure, lost>>

Idle == [step |-> "idle"]

Init == /\ modules = [m \in Module |-> "enabled"]
        /\ noted = {}
        /\ runs = [h \in Hook |-> 0]
        /\ wrote = [h \in Hook |-> 0]
        /\ done = {}
        /\ fired = {}
        /\ queue = {}
        /\ req = [w \in Worker |-> Idle]
        /\ job = [r \in Runner |-> None]
        /\ unsure = {}
        /\ lost = {}
-----------------------------------------------------------------------------
Fire_Unmatched(w, e) ==   \* mutant: every enabled processor, subscribed or not
  /\ req[w] = Idle
  /\ e \notin fired
  /\ fired' = fired \cup {e}
  /\ req' = [req EXCEPT ![w] =
               [step |-> "dispatch", event |-> e, noted |-> {}, ran |-> {}, wrote |-> {},
                left |-> {m \in Module : modules[m] = "enabled"}]]
  /\ UNCHANGED <<modules, noted, runs, wrote, done, queue, job, unsure, lost>>

\* The request has done its work up to the event and selected the modules.
Fire(w, e) ==
  /\ req[w] = Idle
  /\ e \notin fired
  /\ fired' = fired \cup {e}
  /\ req' = [req EXCEPT ![w] =
               [step |-> "dispatch", event |-> e, noted |-> {}, ran |-> {}, wrote |-> {},
                left |-> {m \in Module : modules[m] = "enabled" /\ <<e, m>> \in Hook}]]
  /\ UNCHANGED <<modules, noted, runs, wrote, done, queue, job, unsure, lost>>

\* The task is sent and its row flushed.  If the module has been deleted, the
\* foreign key fails the flush; the fallback fails on the session too, and the
\* exception is suppressed.
Enqueue(w, m) ==
  /\ req[w].step = "dispatch"
  /\ m \in req[w].left
  /\ queue' = queue \cup {<<req[w].event, m>>}
  /\ req' = IF modules[m] = "deleted"
            THEN [req EXCEPT ![w].step = "broken"]
            ELSE [req EXCEPT ![w].left = @ \ {m}, ![w].noted = @ \cup {m}]
  /\ UNCHANGED <<modules, noted, runs, wrote, done, fired, job, unsure, lost>>

\* The broker reports an error, having taken the task or not.
Refuse(w, m) ==
  /\ req[w].step = "dispatch"
  /\ m \in req[w].left
  /\ \/ UNCHANGED <<queue, unsure>>
     \/ /\ queue' = queue \cup {<<req[w].event, m>>}
        /\ unsure' = unsure \cup {<<req[w].event, m>>}
  /\ UNCHANGED <<modules, noted, runs, wrote, done, fired, job, lost>>

\* The fallback runs the module; failed or not, it may have written something.
\* There is no savepoint: a database error, of a statement of the module or of
\* its result, leaves the session unusable.  A deleted module is a 404, which
\* ends the dispatch and is suppressed.
RunHere(w, m) ==
  /\ Refuse(w, m)
  /\ IF modules[m] = "deleted"
     THEN req' = [req EXCEPT ![w].left = {}]
     ELSE \/ \E writes \in {{}, {m}} :
               req' = [req EXCEPT ![w].left = @ \ {m}, ![w].ran = @ \cup {m},
                                  ![w].wrote = @ \cup writes]
          \/ req' = [req EXCEPT ![w].step = "broken"]

Added(count, e, M) ==
  [h \in Hook |-> count[h] + IF h \in {e} \X M THEN 1 ELSE 0]

Commit(w) ==
  /\ req[w].step = "dispatch"
  /\ req[w].left = {}
  /\ LET e == req[w].event
     IN  /\ done' = done \cup {e}
         /\ noted' = noted \cup ({e} \X req[w].noted)
         /\ runs' = Added(runs, e, req[w].ran)
         /\ wrote' = Added(wrote, e, req[w].wrote)
  /\ req' = [req EXCEPT ![w] = Idle]
  /\ UNCHANGED <<modules, fired, queue, job, unsure, lost>>

\* Any failure of the request rolls back its rows, not its tasks.
Abort(w) ==
  /\ req[w] # Idle
  /\ req' = [req EXCEPT ![w] = Idle]
  /\ UNCHANGED <<modules, noted, runs, wrote, done, fired, queue, job, unsure, lost>>

\* The next statement on a broken session raises, and so would the commit.
Break(w) == req[w].step = "broken" /\ Abort(w)
-----------------------------------------------------------------------------
\* The row of an execution: its module must be there, and its case.
Insertable(h) == modules[h[2]] # "deleted" /\ h[1] \notin NewCase \ done

Take_CommittedOnly(r, h) ==   \* mutant: the runner drops what has not committed
  /\ job[r] = None
  /\ h \in queue
  /\ queue' = queue \ {h}
  /\ job' = IF Insertable(h) /\ h[1] \in done THEN [job EXCEPT ![r] = h] ELSE job
  /\ UNCHANGED <<modules, noted, runs, wrote, done, fired, req, unsure, lost>>

Take_AcksLate(r, h) ==   \* mutant: the task stays with the broker
  /\ job[r] = None
  /\ h \in queue
  /\ job' = IF Insertable(h) THEN [job EXCEPT ![r] = h] ELSE job
  /\ UNCHANGED <<modules, noted, runs, wrote, done, fired, queue, req, unsure, lost>>

\* The runner acknowledges the task as it takes it, and inserts a row "running".
\* If it cannot, the task fails without one and is not tried again.
Take(r, h) ==
  /\ job[r] = None
  /\ h \in queue
  /\ queue' = queue \ {h}
  /\ job' = IF Insertable(h) THEN [job EXCEPT ![r] = h] ELSE job
  /\ UNCHANGED <<modules, noted, runs, wrote, done, fired, req, unsure, lost>>

\* The module has returned or raised, and the transaction commits: the row with
\* its outcome, and what the module had written until then.
CommitRun(r) ==
  /\ job[r] # None
  /\ runs' = [runs EXCEPT ![job[r]] = @ + 1]
  /\ \E n \in {0, 1} : wrote' = [wrote EXCEPT ![job[r]] = @ + n]
  /\ job' = [job EXCEPT ![r] = None]
  /\ UNCHANGED <<modules, noted, done, fired, queue, req, unsure, lost>>

\* The process is killed, or the database refuses something: all is rolled
\* back, the row "running" too.
Lose(r) ==
  /\ job[r] # None
  /\ lost' = lost \cup {job[r]}
  /\ job' = [job EXCEPT ![r] = None]
  /\ UNCHANGED <<modules, noted, runs, wrote, done, fired, queue, req, unsure>>
-----------------------------------------------------------------------------
\* PATCH /admin/modules/{id}
Toggle(m) ==
  /\ modules[m] # "deleted"
  /\ modules' = [modules EXCEPT ![m] = IF @ = "enabled" THEN "disabled" ELSE "enabled"]
  /\ UNCHANGED <<noted, runs, wrote, done, fired, queue, req, job, unsure, lost>>

\* Rows of m that have been inserted hold its key: the committed ones fail the
\* deletion, it waits for the others.
Referenced(m) ==
  \/ \E h \in Hook : h[2] = m /\ (h \in noted \/ runs[h] > 0)
  \/ \E w \in Worker : req[w] # Idle /\ m \in req[w].noted \cup req[w].ran
  \/ \E r \in Runner, h \in Hook : h[2] = m /\ job[r] = h

DeleteModule_NoForeignKey(m) ==   \* mutant
  /\ modules[m] # "deleted"
  /\ modules' = [modules EXCEPT ![m] = "deleted"]
  /\ UNCHANGED <<noted, runs, wrote, done, fired, queue, req, job, unsure, lost>>

\* DELETE /admin/modules/{id}
DeleteModule(m) ==
  /\ modules[m] # "deleted"
  /\ ~Referenced(m)
  /\ modules' = [modules EXCEPT ![m] = "deleted"]
  /\ UNCHANGED <<noted, runs, wrote, done, fired, queue, req, job, unsure, lost>>
-----------------------------------------------------------------------------
Request(w) == \/ \E e \in Event : Fire(w, e)
              \/ \E m \in Module : Enqueue(w, m) \/ RunHere(w, m)
              \/ Commit(w)
              \/ Break(w)
              \/ Abort(w)

Run(r) == (\E h \in Hook : Take(r, h)) \/ CommitRun(r) \/ Lose(r)

Next == \/ \E w \in Worker : Request(w)
        \/ \E r \in Runner : Run(r)
        \/ \E m \in Module : Toggle(m) \/ DeleteModule(m)

Spec == Init /\ [][Next]_vars

\* Runners keep taking tasks, in the order of the queue: none is passed over for
\* ever.  A run ends one way or the other.
FairSpec == /\ Spec
            /\ \A h \in Hook : SF_vars(\E r \in Runner : Take(r, h))
            /\ \A r \in Runner : WF_vars(CommitRun(r) \/ Lose(r))
-----------------------------------------------------------------------------
RequestRecord == [step : {"dispatch", "broken"}, event : Event, left : SUBSET Module,
                  noted : SUBSET Module, ran : SUBSET Module, wrote : SUBSET Module]

TypeOK ==
  /\ modules \in [Module -> {"enabled", "disabled", "deleted"}]
  /\ noted \subseteq Hook
  /\ runs \in [Hook -> Nat] /\ wrote \in [Hook -> Nat]
  /\ done \subseteq fired /\ fired \subseteq Event
  /\ queue \subseteq Hook
  /\ req \in [Worker -> {Idle} \cup RequestRecord]
  /\ job \in [Runner -> Hook \cup {None}]
  /\ unsure \subseteq Hook /\ lost \subseteq Hook

Running(h) == \E r \in Runner : job[r] = h

Answered(h) == h \in queue \/ Running(h) \/ runs[h] > 0 \/ h \in lost

\* A hook that is recorded as queued is with the broker, being run, or has run,
\* unless a runner was lost over it: its module cannot be deleted any more, and
\* that the request was still uncommitted does not matter, since the case was
\* there.  (Events of a case created by the same request: see HooksTriggered.)
QueuedIsAnswered == \A h \in noted : h[1] \notin NewCase => Answered(h)

\* tests, Property 24: when an event occurs, each subscribed module is triggered.
\* The code does not keep this for a case that is committed after the task is taken.
HooksTriggered == \A h \in noted : Answered(h)

\* ... exactly once: one execution, unless the broker took a task that it
\* reported refused, which the fallback has run too.
RunsOnce == \A h \in Hook : runs[h] <= IF h \in unsure THEN 2 ELSE 1

\* Nothing that a module has written is there without an execution that ended.
WritesAccounted == \A h \in Hook : wrote[h] <= runs[h]

\* Executions of an event about a new case stand for a case that exists, though
\* the task was sent before: a request that aborts leaves no trace of them.
NoRunWithoutCase == \A h \in Hook : h[1] \in NewCase /\ runs[h] > 0 => h[1] \in done

\* A recorded hook is run in the end, or a runner was lost over it.
QueuedRuns ==
  \A h \in Hook : h[1] \notin NewCase => (h \in noted ~> runs[h] > 0 \/ h \in lost)
=============================================================================

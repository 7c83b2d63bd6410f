# Watari in TLA+

Watari is a multi-tenant incident-response platform: alerts come in, analysts
promote them to cases, and a case collects observables, timeline entries, tasks,
notes, assets and evidence until it is closed, merged away or deleted.  This
directory specifies the backend (`backend/src`) in TLA+, checks it with TLC on
small instances and proves theorems about it with TLAPS for instances of any
size.

To check a run, `tlc -config <cfg> <MC module>` (`PROJECT.json` lists them); to
check proofs, `tlapm <module>Proofs.tla`.

## 1. The system

One FastAPI process (several in production), PostgreSQL, Redis, an S3 or MinIO
bucket, a Celery worker and a React client.  What all of the backend shares:

* **One request, one transaction.**  `get_db` (`db/session.py:79-103`) opens a
  session, sets the tenant for row-level security, runs the handler, commits if it
  returns and rolls back if it raises.  Handlers are coroutines and yield at every
  `await`, several processes run, so requests interleave at every statement.
* **READ COMMITTED.**  No isolation level is set.  A statement sees what was
  committed when it began; two selects of one handler may see different rows.
* **Loaded rows and column diffs.**  SQLAlchemy remembers a row as the session
  loaded it.  A flush sends an UPDATE of the columns whose value changed *with
  respect to the loaded row*, and waits for the row lock.  Two handlers on one row
  therefore do not simply overwrite each other: the committed row can be a mixture
  of columns of both.  `Rows.tla` holds these two operators (`Changed`, `Overlay`);
  most of what is hard below comes from them.
* **No version columns, no `SELECT ... FOR UPDATE`.**  What protects an invariant
  is a unique index (case numbers, assets), a row lock taken by an UPDATE, or
  nothing.
* **Side effects inside the transaction.**  Objects are stored, Celery tasks are
  sent and realtime messages are published before the commit, and are not undone by
  a rollback.

### Components

State is what the component keeps; the last column says where it is specified.

| Component | State | Operations | Interacts with | Hard behaviour | Module |
|---|---|---|---|---|---|
| Case numbering (`cases.py:31-142`, `next_case_number` in migration 0001) | `cases.case_number`, unique index | create, promote into a new case, delete | alerts, templates, timeline | two creations read one MAX; aborts; reuse after deletion | `CaseNumbers`, `CaseRegistry` |
| Alert queue (`alerts.py`) | `alerts`: status, dedup key, OCSF document, reason, case | ingest, promote, dismiss | cases, observables, timeline, modules | lookup-then-insert without index; overlapping triage mixes columns | `AlertQueue` |
| Case lifecycle and merge (`cases.py:185-356`) | `cases`: status, outcome, stamps, `merged_from` | update, close, merge | observables, timeline | rows taken one after the other, deadlock, items added meanwhile, status entries that change their case | `CaseLifecycle` |
| Tasks, assets (`tasks.py`, `assets.py`) | `tasks`, `assets`, unique name of an asset | create, update, delete | timeline | last two tasks completed at once; entries of changes that overlap; savepoint against the unique index | `CaseWork` |
| Timeline (`timeline.py`, `timeline_recorder.py`) | `timeline_entries`, `timeline_asset_links` | record_event, manual entries, asset links, swimlane | everything that records | stamped before the lock, published before the commit, links replaced by two | `CaseLifecycle`, `CaseWork`, `CaseViews` |
| Notes and folders (`notes.py`) | folder tree, notes | create, move, delete | - | two moves close a cycle; a walk in a tree that changes | `NoteFolders` |
| Evidence (`evidence.py`, `storage.py`) | `evidence` rows, objects in the bucket | register, upload, download, update, delete | object store, timeline, modules | two stores, one rollback; overlapping uploads | `EvidenceStore` |
| Modules, events, worker (`modules.py`, `events.py`, `worker/tasks.py`, `modules/runtime_api.py`) | `module_executions`, Celery queue | register, enable, delete, dispatch, run | every service that fires events | task sent before its row commits; synchronous fallback | `ModuleDispatch` |
| Observables, enrichment (`observables.py`, `enrichment.py`, `worker/tasks.py`) | `observables`, `enrichment_sources`, `enrichment_results`, jobs | create, bulk, delete; sources; trigger | Celery, timeline | jobs sent before the commit, rows deleted under a running job | `Enrichment` |
| Reports, clustering (`reports.py`, `clustering.py`) | `reports`, files in the bucket | preview, generate, swimlane | every table of a case | one SELECT for each section while the case changes and is merged; gaps at the threshold | `CaseViews` |
| Realtime hub (`realtime/`, `api/routers/realtime.py`) | sockets by tenant and case, presence in Redis, listener tasks | start, connect, ping, publish, disconnect | timeline recorder, sessions | presence by user, listener that is not there yet or ends, sockets that come and go under a delivery | `RealtimeHub` |
| Sessions, API keys, roles (`auth/`) | Redis sessions, tokens, permission matrix | login, refresh, logout, expire, check | every request, sockets | a checked session that is gone when it is renewed; a role that has changed; streams, checked once and not for a session | `Access` |
| Tenant isolation (migrations 0002, 0003, `db/session.py`) | transaction-local settings on pooled connections | set, query, reuse | every request | a setting that outlives its transaction | `Access` |
| Users, tenants (`users.py`, `tenants.py`) | `users`, `tenants` | create, update, deactivate, delete | sessions | changed while their requests run | `Access` |
| Audit log, search, dashboard, templates, ATT&CK, SSO bridges, API plumbing, frontend | rows, a cache | see "Not modelled" | - | - | - |

What makes each correct, in short.  *Numbering*: numbers are 1..n and unique.
*Alerts*: one pending alert for each key, a status that comes with what explains
it, the stored document in step with it, promotion all or nothing.  *Cases*: the
last status entry and the stamps agree with the status, a merge leaves nothing
behind, no request hangs.  *Tasks and assets*: the last entry about a row tells its
state, `all_tasks_complete` when it becomes true.  *Folders*: a forest.  *Evidence*: a
row that says uploaded has its file and describes it, a deletion removes both.
*Dispatch*: a hook that is recorded as queued is run, once, and no side effect stays
without its row.  *Enrichment*: an entry stands for jobs or results, results last as
long as what they are about.  *Reports*: sections that do not contradict each other.
*Hub*: a connected socket misses nothing, presence is who was there within a TTL.
*Sessions*: no HTTP request runs after logout or in a role that was revoked before; a
stream is different, see `Access` below.
*Isolation*: a query sees its tenant.  `PROJECT.json` lists the hazards behind these
at their lines, with the properties that cover each one.  Some of these statements the
code does not keep when requests overlap; section 5 says which.

## 2. Modules

Requests are workers: `Worker` is the set of requests in progress at one time,
`req[w]` a record with the step the handler of `w` has reached and what it has read
so far, and committed tables are the other variables.  A step runs from one await
that matters to the next; a request becomes visible to others only at its commit,
at the locks its flushes take and at what it does outside the database.  `Abort`
is enabled at every step of every request and stands for a validation error, a
database error, a lost client and a killed process alike: all of them roll back.
`alone` is a history variable: the workers whose request in progress has not been
overtaken by another commit.  It lets a property speak of a request that ran
undisturbed *in a state that overlapping requests have prepared*, which is what a
sequential test cannot set up.

* **`CaseRegistry`** - abstract: a tenant's book of cases, to which opening a case
  appends.  **`CaseNumbers`** - `create_case` as select of MAX + 1
  (`NextCaseNumber`), insert under the unique index (`InsertCase`, `Conflict`: 409)
  and `Commit`.  `Book` maps committed rows to the registry.  `SpecWithDelete` adds
  `merge_cases` (a source loses its children) and `delete_case`, which only a case
  without children passes, since the ORM would null a NOT NULL column.
* **`Rows`** - column diffs, used by `AlertQueue`, `CaseLifecycle` and `EvidenceStore`.
* **`AlertQueue`** - ingest as lookup (`IngestMiss`, `IngestAmbiguous`: two pending rows,
  500) and insert of the document as it came, with any `status_id` and detail of its
  producer's, the one that a triage would write included; `Promote` and `Dismiss` load the
  row and work out the columns to write, `Flush` takes the row lock, `Commit` lays the
  columns over the row.  Promotion into a new case carries the case and its timeline entry
  to the same commit.
* **`CaseLifecycle`** - `LoadUpdate`/`FlushUpdate`/`CommitUpdate` for PATCH and
  close; `LoadMerge`, `CollectItems` for each source, `FlushMerge`, `FlushSource` for each
  source, `CommitMerge`; `AddItem` for observables and entries that arrive
  meanwhile; `BreakDeadlock` for PostgreSQL's detector.  A status entry (`Change`) hangs
  off a case in `home` like any other row, and a merge moves it.  `told` is the one
  recorded last for each case: on a case that was merged away it may have gone to the
  target, and on a target it may stand among those of other cases, so that the timeline
  of a closed target may end with "resolved".
* **`EvidenceStore`** - rows and the bucket as two stores.  `PutObject` and
  `RemoveObject` take effect at once and survive `Abort`; `RemoveRefused` is the
  `ClientError` that `delete_object` passes over; `Stale` is the UPDATE that finds
  its row deleted.
* **`ModuleDispatch`** - `events.fire` and `dispatch_event` in a request: for each
  subscribed module either `Enqueue` (task to the broker at once, row to be committed)
  or `RunHere` (the broker reports an error, having taken the task or not: `Refuse`).
  `broken` is a session that a database error has made unusable while `events.fire`
  suppressed the exception: only `Break` leads on from it.  Runners `Take` a task -
  the acknowledgement and the insertion of the row "running", which needs its module
  and its case (`Insertable`) - and `CommitRun` or `Lose` it.  `Toggle` and `DeleteModule` are
  the administrator's; a deletion fails or waits while a row refers to the module.
  Events in `NewCase` carry the id of a case that the same request creates.
* **`CaseWork`** - requests on tasks, assets and manual entries of a case.
  `LoadUpdate`/`FlushUpdate`/`CommitUpdate` keep of each row the one column whose
  changes are recorded; `CountRemaining` is the SELECT that decides on
  `all_tasks_complete`, which sees the request's own flush and only what others have
  committed.  `told` is what a row was created with and what the last entry about a change
  says; the entry of a creation says neither (`assets.py:73-82` has no `is_compromised`,
  a task is always created "todo").  `LoadLinks`,
  `FlushLinks`, `CommitLinks` replace the asset links of an entry: the links that were
  loaded are deleted, those of the request inserted.
* **`NoteFolders`** - `LoadMove`, one `Hop` of `_would_create_cycle` at a time,
  `FlushMove`, `CommitMove`; deletions, in which the ORM takes the content out of the
  folder first.  `Doomed` says when a request can only be refused or fail.
* **`Enrichment`** - `StartTrigger` matches observables and sources, then for each pair
  `Queue` (a job for the broker at once) or `FallBack` (a stub result in the request's
  transaction); `CommitTrigger`.  Workers `Take` a job and `Record`, `Fail` or
  `Crash`.  `LoadDelete`, `FlushDelete`, `CommitDelete` delete observables and sources: the
  ORM would null a NOT NULL column, so a deletion that sees results is refused, and
  the foreign key (cascading from observables only) decides about those it has not seen.
* **`CaseViews`** - a report reads one section for each `Select`; `Upload` puts the file
  before `Commit` writes the row.  `SelectObservables`, `SelectEntries` and `CommitMerge`
  are a merge with this case as source or target: observables and entries change their
  case, and tasks, assets, notes, evidence and mappings stay.  `taken` is what merges have
  taken off this case.  `FindClusters` is the loop of `find_clusters`: it
  `Starts` with the earliest entry and `Take`s the earliest of those that are left, as
  often as there are further entries.
* **`RealtimeHub`** - the handler of a socket from `Accept` through `Register` and
  `Enter` to `Leave`, `Unregister` and `Forget`; `PublishToCase`, `PublishToTenant`;
  per process a listener that takes a message and a copy of its connections (`Deliver`)
  and then sends to one after the other (`Send`); `ListenerFails`, `Restart`.  A process
  starts with its listener in `starting`: the task is created, `Subscribe` comes later or
  fails (`SubscribeFails`), and sockets are accepted and registered meanwhile.  `score` is
  the presence set in Redis as ages, `away` a history variable for how long a user has
  really had no socket.
* **`Access`** - a request authenticates (`Load` by token or `LoadKey` by API key,
  `CheckSession`, `Touch`), takes a connection and sets its tenant (`Scope`), is
  checked (`May`) and runs (`Query`, `Logout`, `ManageUsers`, `ManageTenants`); any step
  may be followed by another request's.  The permission matrix is that of `rbac.py`.
  `CaseStream` and `TenantStream` are the handshakes of the two sockets: a token and an
  active user are enough, no session is looked for, and the stream stays open whatever
  becomes of its user; a case's may be of any tenant, a tenant's only of the user's own.
  `held` and `late` in a request are history: whether its user was active in the role it
  runs with at some moment since it began, and whether its session had ended before.
* **`MC*`** give definitions for model checking (payload sets, symmetry);
  **`*Proofs`** hold the theorems.

`map` in `PROJECT.json` ties each definition to its lines.  Operators with an
underscore (`InsertCase_NoIndex`) are mutants: the code with a plausible bug.
`mutants` says which property each one breaks, so that no property holds for
lack of anything to catch.

### Abstractions to know about

* The answer to the client is taken to be the commit.  FastAPI is not pinned
  (`fastapi>=0.115`); releases differ in whether the exit code of `get_db` runs
  before or after the response is sent.
* The locks of one flush are taken together; sources of a merge are locked one by
  one in id order.  The two selects for each source of a merge (observables, entries)
  are one step in `CaseLifecycle`, where rows do not differ, and two in `CaseViews`.
* An insert nobody can observe before its commit is one step with it
  (`IngestInsert`, `AddItem`, `Register`).
* Columns that no property tells apart are left out: severity, tags, assignee of
  a case (and the `assignee_changed` entry), description and tags of evidence, titles
  and contents of notes, all of a task but its status and all of an asset but its name
  and `is_compromised`, the OCSF document but for the part triage writes.  Statuses
  `in_progress` and `pending` of a case are treated exactly as `new`.
* A row's type never changes where a model takes it as a constant (`TypeOf`, `KindOf`,
  `NameOf`, `TenantOf`, `CaseOf`): no route of the backend changes it, but for
  the name of an asset, whose changes are left out.
* Passwords, hashes of API keys and the encoding of tokens are left out: a token is its
  session and its claims, a key its service account.  The expiry of tokens, which only
  narrows what may be presented, is left out too.
* An event is fired once and by one request; a hook is a pair of event and module.
  The case of an event outside `NewCase` is there: it was committed before, and the
  rows "queued" keep it as they keep the module.  A module's own events (a module may
  add an observable, which fires `observable_created`) and what it writes, beyond that
  it wrote something, are left out.  A runner that dies between taking a task and
  acknowledging it, for which Redis would deliver the task again after its visibility
  timeout, is left out too.
* uuid4 ids and storage keys are fresh by definition.  SHA-256 and AES-GCM are
  flags on a file: whether it matches the declared hash, whether it is encrypted.

## 3. Runs

| Run | Spec | What it asks | Instance | Distinct states |
|---|---|---|---|---|
| `case_numbers` | `FairSpec` | Is the registry implemented (numbers dense, unique, appended) whatever aborts, and does every creation get an answer? | 3 workers, 2 tenants, 3 ids | 1,933 |
| `alert_queue` | `Spec` | Is a status explained by its row; does an undisturbed ingest collapse? | 2 workers, 2 alerts of one key with documents of any status, 2 cases of which one open | 741,102 (symmetry) |
| `alert_wedge` (violation) | `Spec` | Does ingest always succeed? | 2 workers, 2 alerts | 286 until found |
| `case_lifecycle` | `FairSpec` | Does the last entry tell the status; does an undisturbed merge take everything and remember its sources; do deadlocked merges and all requests end? | 2 workers, 2 cases, 1 item, 1 merge commit, 2 status changes | 439,381 |
| `case_work` | `Spec` | Do the entries account for the state of tasks and assets; is completion announced exactly when a change completes; do replaced links hold? | 2 workers, 2 tasks, 2 assets of one name, 1 entry | 2,035,206 (symmetry) |
| `note_folders` | `FairSpec` | Does an undisturbed move keep the forest; does every walk end? | 2 workers, 3 folders | 366,389 |
| `evidence_store` | `FairSpec` | Do files of uploaded rows exist; do undisturbed uploads describe their file; do waiters of a deleted row end? | 2 workers, 1 evidence item, 3 keys, a matching and a mismatching file | 80,491 |
| `module_dispatch` | `FairSpec` | Are queued hooks answered, run in the end, and once? | 2 requests, 1 runner, 2 modules, 2 events of which one about a new case, 3 subscriptions | 138,386 |
| `enrichment` | `FairEnrichmentSpec` | Does an entry stand for jobs or results; do results last; do jobs end? | 1 trigger, 1 deletion at a time, 1 observable, 2 sources | 13,141 |
| `case_views` | `ViewsSpec` | Do the sections of a report agree, merges included; are clusters the runs of entries? | 1 report, 1 merge, 3 rows of 3 kinds | 517,003 |
| `realtime_hub` | `FairHubSpec` | Does a connected socket miss nothing; is presence right within a TTL; is a watcher shown again? | 1 process, 3 sockets of 2 users, 1 case event, 1 tenant event | 435,558 |
| `access` | `Spec` | Does a query see its tenant; do revoked roles and ended sessions stay out? | 2 workers, 1 connection, 2 tenants, 3 users, 2 sessions | 710,927 (symmetry) |

Deadlock checking is off where requests use up a bound (ids, keys, merges, events) and the
model then has nothing left to do; the system itself does not stop, and
`RequestsFinish` and `EveryCreateSettles` say that no request is left waiting.

### Bounds, and why they are enough

* **Two workers** (three for numbers).  The races are of two requests that both
  read before either commits; a third matters for numbers, where a loser of the
  index may lose again.  Other interleavings of more requests are sequences of these,
  and the safety properties are proved for any number.
* **`Alert`** (2): two rows of one key that two ingests insert; one row handled by
  two requests again and again, since triage has no guard on the status.  Its document
  comes with a status of either kind that triage writes, or another one.  **`Key`**
  (1): keys share nothing.  **`Case`** (2) of promotion: an open case that alerts are
  added to, and a new one that two promotions compete for.
* **`MaxChanges`** bounds status changes (event timestamps) and **`MaxMerges`**
  committed merges.  One merge in each direction deadlocks before either commits.
  Merges of several sources are in the proof of `MergeUndisturbed`, not in the run.
* **`Task`** (2): each of two requests completes one, or one is created or deleted while
  the other is completed.  **`Asset`** (2) of one name: one replaces a deleted one, and
  two replacements of links differ.  Rows are created once each.
* **`Folder`** (3): the shortest cycle that two moves close together has two folders,
  and with the third a walk can meet a cycle that does not contain the item it is about.
  Notes are no folders' parents: they are empty in the run, and the same actions take
  them in the module.
* **`Key`** (3) of evidence bounds stored objects: one for an earlier upload and two
  for uploads that overlap.
* **`Event`** (2) of dispatch bounds the requests; three subscriptions give a
  request with two modules, one of which can break the session for the other, and a
  module with hooks of two events, so that a row of one protects the tasks of the other.
* **`Trigger`** (1), **`Source`** (2): one pair is queued and the other falls back, one
  of the sources goes while the other answers.  Jobs of different triggers share nothing.
* **`Item`** of a report (3): an observable, which moves with a merge, an asset, which is
  read before the timeline and stays, and a task, which is read after it and has an entry
  of its deletion.  **`Merge`** (1) takes this case as source or as target, and finds what
  was there at each of its SELECTs.  Times of entries have gaps below, at and above the
  threshold, and ties; what is there when the swimlane is read is any subset.
* **`Process`** (1), **`Socket`** (3), **`Event`** (2), **`TTL`** (1) of the hub: two tabs of
  one user on a case, a second user on the tenant's channel, on which both events
  arrive.  Processes share Redis only: a second one adds publications, which are there
  without it, and a second score for the same set.  A TTL of one tick tells "within" from
  "beyond".
* **`Conn`** (1) of `access`: the connection every request gets from the one before it,
  the worst case for settings that outlive a transaction, and which requests wait
  for while sessions end.  **`Session`** (2), **`Timeout`** (1): one expires or is logged out
  while the other lives.  `Granted` leaves out the roles that differ from `analyst` in
  permissions only; the service account has its own from its creation.
* **`Payload`** has one body for each branch of `update_case`.
* Symmetry (`alert_queue`, `case_work`, `access`) is used without fairness only.

### Fairness

`Advance(w)` collects the steps that a request takes once it is admitted.  Nothing
makes a client send one, and nothing makes one fail.  Where a step is an UPDATE or
an INSERT that waits for a row lock or index entry, fairness is strong: the lock is
free again and again but another request may take it in between, and PostgreSQL
queues waiters, so one is not passed over for ever.  For the other steps strong and
weak fairness are the same.  `BreakDeadlock` is weakly fair: the detector runs after
`deadlock_timeout`.  `Stale` is among the fair steps of `EvidenceStore`, and `Refuse` among
those of `NoteFolders`: an UPDATE that gets its turn and matches no row raises at once,
and so does a walk that has found a cycle.  In `ModuleDispatch` and `Enrichment` the steps
of workers are fair: they poll a first-in-first-out queue, so each queued task is taken
in the end (strong fairness for each hook, because a runner is free only now and then; a job
of `Enrichment` has no runner to wait for, so weak fairness does), and
a run ends one way or the other.  `Record` is strongly fair because it may wait for a
deletion, and `CommitDelete` is fair because the deletion holds its row no longer than
its transaction.  Requests that dispatch or trigger are not fair: one may stay in the middle
for ever.  In `RealtimeHub` only `Ping` is fair: the client sends one every 15
seconds while its tab is open (`useWebSocket.ts:75`), and the presence lasts 30; a
listener, which may be slow, is not.

## 4. Proofs

Each `*Proofs` module proves its theorems for any constants that meet the named
assumptions (`None` and `Nil`, and the marks "unborn" and "gone", are not elements of the
other sets; `Worker`, and the `Item`s of a case where entries are counted, are finite;
payloads, files and times have their types, a TTL is positive; case ids are naturals, for
their order in a flush; sets of ids of different tables are disjoint).

Every safety property that a passing run checks is a theorem, and so is the refinement.  Most
modules have proofs of their own.  Two of them hold the proofs of a second and third
component, in sections headed by its name: `ModuleDispatchProofs` those of `Enrichment` (the
other component that hands jobs to the broker before its commit), `CaseWorkProofs` those of
`CaseViews` and `RealtimeHub` (what those who look at a case are shown of the work on it).

| Theorems | Inductive invariant and why it is needed |
|---|---|
| `CaseNumbersProofs`: `TypeCorrect`, `NumbersUnique` (with merges and deletions), `NumbersDense`, `CreationImplementsRegistry` | *Unique*: rows in flight after their insert count as much as committed ones, because a conflict is decided at the insert.  *Dense*: a number in flight is at most one past the committed maximum, and an inserted one is exactly that; a second inserted row of the tenant would share it.  The refinement uses both: a commit appends to the book. |
| `AlertQueueProofs`: `TypeCorrect`, `StatusAlwaysExplained`, `NoCaseOrphaned`, `PendingIsBounded`, `UndisturbedCollapse`, `UndisturbedMirror` | *Status*: what a request will write must be sound over whatever row it lands on, not only over the one it loaded - no write clears a case or a reason.  *Bound*: pending alerts and requests that found none are counted together.  *Undisturbed*: what a request in `alone` has loaded is what is committed. |
| `CaseLifecycleProofs`: `TypeCorrect`, `StatusIsTold`, `StatusIsStamped`, `UndisturbedMerge` | *Stamped*: a flush leaves out a stamp that was there when the row was loaded, so stamps must never be cleared while it waits: no write holds a cleared one.  *At home*, *gathered*: a status entry leaves the case it was recorded for only with a merge that takes that case away, and what a merge in progress has selected is of its sources or of cases merged away before; without the second, a commit could take the last entry of another case.  *Merge*: an undisturbed merge has collected every item of the sources read so far. |
| `EvidenceStoreProofs`: `TypeCorrect`, `FilesAreKept`, `UndisturbedUpload`, `UndisturbedDelete` | *Keys apart*: a drawn key is held by its request and then by one row, hence no deletion hits another row's object.  *Store follows*: what a request has put is there and what it has removed is gone, until it ends.  *Deleters know*: the object being removed belongs to a row that is doomed.  *Alone knows*: as above. |
| `ModuleDispatchProofs`: `TypeCorrect`, `QueuedAnswered`, `RunAtMostOnce`, `WritesBelong`, `RunsHaveCase` | *Requests apart*: an event belongs to one request and a module to one of its lists.  *Fresh hooks*: what is yet to be dispatched has no task and no run.  *Runs counted*: each way to run a hook that is still open - a task, a runner, a request that ran it and has not committed - has room left in the bound.  *Noted answered*: rows of requests in progress keep their module too, which is what lets the runner insert its own. |
| `CaseWorkProofs`: `TypeCorrect`, `EntriesTellStates`, `UndisturbedCompletion`, `UndisturbedLinks` | *Rows owned*: a request goes on with a row that has been there, and from its flush on holds its lock, so the entry it writes lands on a row that is still there.  *Links held*: a flushed replacement of links and a flushed deletion exclude each other, in whichever order they come, so that no link is left without its entry or asset; this is all of what makes `links` well-typed.  *Count holds*, *links loaded*: what a request in `alone` has counted or loaded is still what is committed. |
| `ModuleDispatchProofs`, of `Enrichment`: `EnrichmentTyped`, `EntriesBacked`, `SourcesKeepResults` | *Pairs backed*: a pair that a request has listed and dealt with has a job, a stub of that request or a committed result, or its observable is gone; only with this said of the requests in progress does a commit make the entry true.  *Deleted sources empty*: a source under a flushed deletion has no results and gets none, because the deletion and the insert wait for each other.  *Stubs hold*, *deletions apart*: stubs of a request in progress have their rows, and a row has one deletion. |
| `CaseWorkProofs`, of `CaseViews`: `ViewsTyped`, `ReportsCoherent`, `ClustersRight` | *Rows told*, *merges bring*: an observable or asset of this case has its entry here, or a merge has taken that off; and an observable that a merge is about to bring comes with its entry, because the entries are selected after the observables.  *Shown happened*: what a section shows was there, and may have gone since, but nothing comes back.  *Earlier told*, *later shown*: what holds between the timeline and a section from the moment the later of the two is read, one conjunct for each section, because each step reads one.  *Runs*, for the clusters: after any number of entries, the current run is exactly what hangs together with the latest entry, and the groups already closed hold together exactly what hangs together among the rest. |
| `CaseWorkProofs`, of `RealtimeHub`: `HubTyped`, `ViewersThere`, `NothingLost`, `NothingElse` | *Presence holds*: a member's score is no younger than the last time its user had a socket on the case.  *Placed*: a registered socket is among the connections of its own process and of no other, nobody is handed a message by another process, and a socket that is not yet registered has been sent nothing.  *Same*: no step but a publication changes the stream of a socket that stays; a delivery moves a message from the buffer to the hand, a send from the hand to the socket.  Given this both properties are inductive: a publication lengthens what is due, what waits and what the channel has carried by the same message.  *Buffered*, for the converse: what waits in a process is an end of what the channel has carried, also for a socket that registers in the middle of it.  *Starts fresh*: a process whose listener has yet to subscribe has nothing waiting and has sent nothing, which is where both begin for the sockets that it has then. |
| `NoteFoldersProofs`: `TypeCorrect`, `UndisturbedMove` | *Homes*, *Apart*: a flushed move has its folder, which nobody is deleting.  *Emptied*: a flushed deletion has taken out all that is in its folder.  *Walked*: what an undisturbed walk has visited is closed under "parent" up to where it stands and leaves the moved folder aside.  If the move closed a cycle, the cycle's part on that path would be a cycle of the old tree. |
| `AccessProofs`: `TypeCorrect`, `TenantsAreIsolated`, `RolesAreCurrent`, `EndedSessionsStayOut` | *Connections*: a connection that no request has is unset, and one that a request has was told that request's tenant and nobody else's; the query then reads the settings of its own user.  *Stays ended*: no renewal brings an ended session back, for a renewal finds nothing to renew.  *Checks held*: whoever is past the session check had not come with an ended session; a stream has no such check and never gets to a step of a request that runs. |

Some properties are proved and no run checks them, because the theorem says more
than a run could: `NoGaps` and `NoDuplicates` (the latter with merges and
deletions, `SpecWithDelete`), `NoOrphanCase`, `PendingBounded`, `MirrorRestored`,
`StatusStamped`, `DeleteComplete`, `WritesAccounted`, `NoRunWithoutCase`, `NothingElseSent`.

The statements about sequences of any length (`NoMessageLost`) and about the loop of
`find_clusters` (`ClustersAreRuns`) need induction.  The induction rules of the library take
an operator as a parameter, which tlapm cannot instantiate, so `InductionOverNat` states
induction over a *set* of numbers, and `LeastNatural` below it finds the least number outside
that set: of the intervals `0..m` up to a given number, finite subsets of one interval, there
is a minimal one, since strict inclusion is well-founded on them.  The recursive functions of
the models (`OnChannel`, the loop in `FindClusters`) are definitions by CHOOSE for the prover;
`KeepsExists` and `RoundsExist` show by the same induction that there is such a function, after
which they are what they say.  `ClustersRight` needs no invariant: it is a fact about the
function, so it holds whatever entries a case has come to.

Only model-checked: liveness (`EveryCreateSettles`, the three `RequestsFinish`,
`QueuedRuns`, `JobsAnswered`, `WatcherReturns`), since the prover has no rules for
fairness and ENABLED.

## 5. What was found

`alert_wedge` ends in a violation of a sentence of the repository (quoted in
`PROJECT.json`): two overlapping ingests of one key both insert, and from then
on `scalar_one_or_none` raises: every further finding of that key is answered 500
until one of the two is triaged.  A partial unique index on pending rows, with the
insert retried as a lookup, closes it.

Ten more properties are stated in the modules with a comment that the code does not
keep them.  Those with a configuration are refuted by `tlc -config <cfg> <MC module>` in
seconds, the other three when they are added to one of their module's.  None of them is
used by a proof.

| Property | Sentence of the repository | What the code does | Configuration |
|---|---|---|---|
| `MergeLeavesNothing` (`CaseLifecycle`) | "ALL observables and ALL timeline entries from every source case SHALL appear in the merged target case" (`test_case_merge.py:3`) | one added between the SELECT of its source and the commit stays on the closed source (`cases.py:309`) | `CaseLifecycle_items.cfg` |
| `MergesRemembered` (`CaseLifecycle`) | "records merged_from on the target" (`cases.py:290`) | of two overlapping merges into one target the later commit writes the list without the sources of the earlier (`cases.py:334`) | `CaseLifecycle_memory.cfg` |
| `TransitionsLand` (`CaseLifecycle`) | "status transitions ... every one lands automatically" (`README.md:153`); "All mutations record corresponding timeline entries" (`cases.py:4`) | a merge closes its sources without an entry of theirs (`cases.py:350`) | `CaseLifecycle_untold.cfg` |
| `CompletionNotMissed` (`CaseWork`) | "If all tasks complete, fire case-level notification event" (`tasks.py:115`) | the count sees what others have committed: of two requests that finish, or finish and delete, the last two open tasks none announces it | `CaseWork_missed.cfg` |
| `Forest` (`NoteFolders`) | "Enforces a valid folder tree (no cycles)" (`notes.py:1`) | two moves each pass the check (`notes.py:43`) and close a cycle, after which every walk into it is refused | `NoteFolders_cycle.cfg` |
| `MismatchFlagged` (`EvidenceStore`) | "flags integrity mismatches" (`docs/integration.md:569`) | after a mismatch two overlapping uploads can leave a mismatching file marked as verified (`evidence.py:119`) | `EvidenceStore_mixed.cfg` |
| `ClustersBelow` (`CaseViews`) | "separated by less than the threshold" (`clustering.py:29`, and line 4); "below the clustering threshold" (`test_clustering.py:3`) | `<=` in `clustering.py:54`, and in the body of the test (line 43): entries exactly the threshold apart are one cluster, which is what `ClustersAreRuns` checks and `ClustersRight` proves | `CaseViews_threshold.cfg` |
| `TimelineReconstructs` (`CaseLifecycle`) | "Reconstruct what happened" (`README.md:151`) | status entries are stamped before the row lock (`timeline_recorder.py:38`), and merges bring those of other cases: the timeline may end with a status the case does not have | - |
| `NeverReissued` (`CaseNumbers`, `SpecWithDelete`) | - | the number of a merged and deleted newest case is used again (migration 0001, line 1051) | - |
| `HooksTriggered` (`ModuleDispatch`) | - | a worker that is faster than the commit of a new case cannot insert the execution's row: the module is never triggered, and the row "queued" that the request then commits stays (`modules.py:218`); sending tasks after the commit closes it | - |

The properties that speak of a request nothing overtakes mark these limits from the other
side: `MergeUndisturbed`, `CompletionAnnounced`, `ForestKept` and `UploadDescribes` say what
the same requests do when they do not overlap.  So does `LinksReplaced`: two overlapping
replacements of an entry's links leave their union, of which no document says anything.

Seen while modelling:

* *Cases.*  A merge, and PATCH with `outcome: null`, leave closed cases without an
  outcome; the pending and closed cases of the seed have no status entry.  The "from" of
  a status entry is the status its request loaded.  A merge moves all timeline entries of
  its sources, status entries included, and their observables, but no tasks, assets,
  notes, evidence or mappings (`cases.py:309-331`): the target's timeline may end with the
  status of another case, and tells of rows that its own sections and reports never list,
  while the sources keep rows without entries.
* *Alerts.*  The OCSF status can disagree with the row after a promotion and a dismissal
  overlap (`MirrorRestored` says the next undisturbed request repairs it); a dismissed
  alert keeps the case it was promoted to.
* *Evidence and reports.*  An object replaced by a later upload, or stored by a request
  that fails after it, is never collected; nor is the file of a report whose row
  does not commit.
* *Modules.*  The row "queued" of a dispatch is never updated, so a run shows twice, once as
  queued for ever; a database error during a dispatch makes the caller's request
  fail, although `events.fire` promises that it does not; a request that is rolled
  back does not take back the tasks it has sent; a module that subscribes to
  `observable_created` and adds observables triggers itself.
* *Tasks and assets.*  A change between two finished statuses announces the completion
  again.  Deleting the last open task announces nothing.  That an asset was compromised
  from the start is in no entry (`assets.py:73-82`), only that it changed later.
* *Enrichment.*  A job of a request that is rolled back runs all the same; a source
  with results cannot be deleted, since the ORM would null a NOT NULL column.
* *Hub.*  A socket is told it is connected before it is registered, and messages in between
  are not sent to it; nor are those of the time between the start of the process and the
  subscription of its listener, of which `start_listener` only creates the task
  (`hub.py:187`), nor any if the subscription fails (`hub.py:199` is outside the `try`);
  when Redis fails in `connect_case` the dead socket stays registered; closing one of two
  tabs hides the user until the other pings; after an error of Redis nothing listens in that
  process until it is restarted; subscribers hear of events before their commit.
* *Accounts.*  `tenants.py:86` says that deleting a tenant cascades: the foreign
  keys have no such action, and a tenant with users is refused.  `templates.py:116`
  describes a dangling `template_id`, which the foreign key (migration 0001, line 234) does
  not allow.  Login looks users up by name alone, so that two tenants with a user of one
  name cannot log either in; the seed of the platform administrator does the same.  The
  role in the body of a new service account is validated and not used.
* *Streams.*  `_authenticate_ws` (`realtime.py:26-40`) asks for a token and an active user
  and not for the session, so that a stream is opened with the token of a session that was
  logged out, and an open one is not checked again; `LoggedOutStaysOut` is about HTTP requests.
  `case_stream` (`realtime.py:43-55`) compares no tenants, `tenant_stream` does;
  `TenantIsolation` is about what requests query.
* *Dead code.*  `AuditMiddleware` (`services/audit.py:97`) is not added to the application and
  nothing else writes `audit_logs`; `generate_report_task` is never enqueued.

## 6. Not modelled

* **Audit log** - nothing writes it (above); `CaseViews` takes it as empty.
* **Search, dashboard, correlation** - read-only statements.  The dashboard is kept in
  Redis for up to 60 seconds after it was computed; nothing reads that entry but the
  dashboard, nothing acts on it.
* **Templates, tenant settings, key rotation, ATT&CK mappings** - plain rows,
  each written by one statement of one request; two overlapping writes leave the
  later one.
* **Normalisation of observables, OCSF conversion, rendering of reports, geospatial
  helpers** - conversions without state.  The property tests of the repository cover them.
* **SSO bridges** - wrappers around libraries; what they end in, a session for a user, is
  `Login`.
* **API plumbing and the frontend** - routing, envelopes, rendering.  That a failure rolls
  back and answers is in the actions `Abort`, `Refuse`, `Conflict`; the client's pings and
  reconnects are in `RealtimeHub`.
* **Seed and maintenance scripts** - run alone on an idle system.

## 7. Plan

1. The safety of the requests that `alone` leaves out: what does hold of overlapping
   completions, moves and replacements of links, stated and proved (so far the README
   describes what does not).
2. `ModuleDispatch` with registration and the events of a module's own calls.
3. Composition of `AlertQueue` with `CaseNumbers` and `CaseLifecycle`, in place of its
   bare set of cases.

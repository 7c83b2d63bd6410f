----------------------------- MODULE AlertQueue -----------------------------
(***************************************************************************)
(* Ingestion, deduplication and triage of alerts                           *)
(* (backend/src/services/alerts.py).                                       *)
(*                                                                         *)
(* Each request is one READ COMMITTED transaction.  A statement sees the   *)
(* rows committed when it runs; an UPDATE takes the row lock, waiting for  *)
(* a transaction that holds it, and writes - SQLAlchemy flushes the        *)
(* difference from the row as the session loaded it - only the columns     *)
(* whose value the handler changed.  Columns another transaction wrote     *)
(* meanwhile keep that transaction's value.                                *)
(***************************************************************************)
EXTENDS Naturals, FiniteSets, Rows

CONSTANTS Worker,        \* requests in progress at one time
          Alert,         \* alert ids; the model's bound on ingested rows
          Key,           \* effective dedup keys
          Reason,        \* dismiss reasons
          Case,          \* case ids; the model's bound on promotions
          OpenCases,     \* the cases there are at the start
          None

ASSUME WorkerAssumption == IsFiniteSet(Worker)
ASSUME OpenCasesAssumption == OpenCases \subseteq Case
ASSUME NoneAssumption == None \notin Case \cup Reason \cup Worker

VARIABLES alerts,        \* committed rows of table alerts, by id (DOMAIN: the ids)
          cases,         \* committed case ids
          entries,       \* committed alert_promoted timeline entries
          lock,          \* the transaction that has updated a row and not ended
                         \* (None: nobody)
          req,           \* what each worker's request is doing
          failed,        \* keys some ingest answered 500 for
          alone          \* workers none of whose requests in progress has been
                         \* overtaken: nobody else committed since it began

vars == <<alerts, cases, entries, lock, req, failed, alone>>

Status == {"pending", "promoted", "dismissed"}

\* The part of the stored OCSF document that triage writes: status_id with its
\* caption, "other" standing for every pair triage does not write, and
\* status_detail, None standing for every text that is no reason to dismiss.
Ocsf == [status_id : {"in_progress", "suppressed", "other"},
         detail : Reason \cup {None}]

Row == [key : Key, status : Status, ocsf : Ocsf,
        reason : Reason \cup {None}, case : Case \cup {None}]

Idle == [step |-> "idle"]
-----------------------------------------------------------------------------
Ids == DOMAIN alerts

Pending(k) == {a \in Ids : alerts[a].key = k /\ alerts[a].status = "pending"}

Absent(k) == {w \in Worker : req[w].step = "absent" /\ req[w].key = k}

\* What the handlers assign, given the row they have loaded.
Promotion(row, c) ==
  [status |-> "promoted", case |-> c,
   ocsf |-> [row.ocsf EXCEPT !.status_id = "in_progress"]]

Dismissal_ClearsCase(row, r) ==   \* mutant
  [status |-> "dismissed", reason |-> r, case |-> None,
   ocsf |-> [status_id |-> "suppressed", detail |-> r]]

Dismissal(row, r) ==
  [status |-> "dismissed", reason |-> r,
   ocsf |-> [status_id |-> "suppressed", detail |-> r]]

NewAlert_OcsfStatus(k, doc) == [key |-> k, status |-> "new",   \* mutant
                                ocsf |-> doc, reason |-> None, case |-> None]

\* The document is stored as the producer sent it, its status included.
NewAlert(k, doc) == [key |-> k, status |-> "pending",
                     ocsf |-> doc, reason |-> None, case |-> None]

\* uuid4 ids of cases that promotions in progress are about to insert.
Drafted == {req[w].case : w \in {v \in Worker : req[v].step \in {"loaded", "flushed"}}}

\* The model's bound: an ingest starts only while an id is left for its row.
Room == Cardinality({w \in Worker : req[w].step = "absent"})
          < Cardinality(Alert \ Ids)

Begin(w, request) == /\ req' = [req EXCEPT ![w] = request]
                     /\ alone' = alone \cup {w}

\* A commit ends the request of w and overtakes all the others.
End(w) == /\ req' = [req EXCEPT ![w] = Idle]
          /\ alone' = {}

Init == /\ alerts = << >>
        /\ cases = OpenCases
        /\ entries = {}
        /\ lock = [a \in Alert |-> None]
        /\ req = [w \in Worker |-> Idle]
        /\ failed = {}
        /\ alone = {}
-----------------------------------------------------------------------------
(* POST /alerts                                                            *)

IngestMiss_NoLookup(w, k) ==   \* mutant
  /\ req[w] = Idle
  /\ Room
  /\ Begin(w, [step |-> "absent", key |-> k])
  /\ UNCHANGED <<alerts, cases, entries, lock, failed>>

\* The lookup finds no pending row of the key: the handler goes on to insert.
IngestMiss(w, k) ==
  /\ req[w] = Idle
  /\ Pending(k) = {}
  /\ Room
  /\ Begin(w, [step |-> "absent", key |-> k])
  /\ UNCHANGED <<alerts, cases, entries, lock, failed>>

\* scalar_one_or_none over two rows raises MultipleResultsFound: 500.
IngestAmbiguous(w, k) ==
  /\ req[w] = Idle
  /\ Cardinality(Pending(k)) > 1
  /\ failed' = failed \cup {k}
  /\ UNCHANGED <<alerts, cases, entries, lock, req, alone>>

\* The insert and the commit: nobody can tell them apart, since an uncommitted
\* row is invisible and no unique index covers the key.  (The event fired for
\* the modules is best effort and touches none of these tables.)
IngestInsert(w) ==
  /\ req[w].step = "absent"
  /\ \E a \in Alert \ Ids, doc \in Ocsf :
       alerts' = [b \in Ids \cup {a} |->
                    IF b = a THEN NewAlert(req[w].key, doc) ELSE alerts[b]]
  /\ End(w)
  /\ UNCHANGED <<cases, entries, lock, failed>>
-----------------------------------------------------------------------------
(* POST /alerts/{id}/promote and /dismiss                                  *)

\* The handler loads the alert.  No guard on its status: any alert can be
\* promoted or dismissed, again too.
Load(w, a, wanted, c) ==
  /\ req[w] = Idle
  /\ Begin(w, [step |-> "loaded", alert |-> a, case |-> c,
               write |-> Changed(alerts[a], wanted)])
  /\ UNCHANGED <<alerts, cases, entries, lock, failed>>

\* Into an existing case, or into a new one whose row create_case adds.
Promote(w, a) ==
  \E c \in cases \cup (Case \ Drafted) :
    Load(w, a, Promotion(alerts[a], c), c)

Dismiss(w, a, r) == Load(w, a, Dismissal(alerts[a], r), None)

\* db.flush(): the UPDATE, if any column changed, takes the row lock.
Flush(w) ==
  /\ req[w].step = "loaded"
  /\ LET a == req[w].alert
     IN  IF DOMAIN req[w].write = {}
         THEN UNCHANGED lock
         ELSE lock[a] = None /\ lock' = [lock EXCEPT ![a] = w]
  /\ req' = [req EXCEPT ![w].step = "flushed"]
  /\ UNCHANGED <<alerts, cases, entries, failed, alone>>

Release(w) ==
  lock' = [a \in Alert |-> IF lock[a] = w THEN None ELSE lock[a]]

\* The changed columns land on the row as it is now; the new case and the
\* timeline entry (with the copies of the observables) become visible with it.
Commit(w) ==
  /\ req[w].step = "flushed"
  /\ LET a == req[w].alert
         c == req[w].case
     IN  /\ alerts' = [alerts EXCEPT ![a] = Overlay(@, req[w].write)]
         /\ cases' = cases \cup ({c} \ {None})
         /\ entries' = entries \cup ({<<a, c>>} \ {<<a, None>>})
  /\ Release(w)
  /\ End(w)
  /\ UNCHANGED failed

\* A validation error, a 409 on the case number, a lost client, a crash.
Abort(w) ==
  /\ req[w] # Idle
  /\ Release(w)
  /\ req' = [req EXCEPT ![w] = Idle]
  /\ alone' = alone \ {w}
  /\ UNCHANGED <<alerts, cases, entries, failed>>
-----------------------------------------------------------------------------
Next == \E w \in Worker :
          \/ \E k \in Key : IngestMiss(w, k) \/ IngestAmbiguous(w, k)
          \/ IngestInsert(w)
          \/ \E a \in Ids : Promote(w, a) \/ \E r \in Reason : Dismiss(w, a, r)
          \/ Flush(w)
          \/ Commit(w)
          \/ Abort(w)

Spec == Init /\ [][Next]_vars
-----------------------------------------------------------------------------
Column == [status |-> Status, ocsf |-> Ocsf,
           reason |-> Reason \cup {None}, case |-> Case \cup {None}]

TypeOK ==
  /\ Ids \subseteq Alert /\ alerts \in [Ids -> Row]
  /\ cases \subseteq Case
  /\ entries \subseteq Alert \X Case
  /\ lock \in [Alert -> Worker \cup {None}]
  /\ failed \subseteq Key
  /\ alone \subseteq Worker
  /\ DOMAIN req = Worker
  /\ \A w \in Worker :
       \/ req[w] = Idle
       \/ req[w] \in [step : {"absent"}, key : Key]
       \/ /\ DOMAIN req[w] = {"step", "alert", "case", "write"}
          /\ req[w].step \in {"loaded", "flushed"}
          /\ req[w].alert \in Ids
          /\ req[w].case \in Case \cup {None}
          /\ \A c \in DOMAIN req[w].write :
               c \in DOMAIN Column /\ req[w].write[c] \in Column[c]

\* What the lookup of ingest_alert does ensure, with nothing but READ COMMITTED
\* under it: surplus pending alerts of a key come only from requests that
\* overlapped, at most one for each.
PendingBounded ==
  \A k \in Key : Cardinality(Pending(k)) <= Cardinality(Worker)

\* docs/integration.md section 5, findings of one key collapse into one pending
\* alert: true of an ingest that no other request overtakes.
CollapsesUndisturbed ==
  [][\A w \in alone, k \in Key :
        IngestInsert(w) /\ req[w].key = k => Cardinality(Pending(k)') = 1]_vars

\* A valid finding is always taken in: ingest_alert never answers 500.
NoIngestFails == failed = {}

\* The status always comes with what explains it, though two requests may have
\* written the columns: a promoted alert points at a case that exists and whose
\* timeline says so, a dismissed one has its reason.
StatusExplained ==
  \A a \in Ids :
    /\ alerts[a].status = "promoted" => /\ alerts[a].case \in cases
                                       /\ <<a, alerts[a].case>> \in entries
    /\ alerts[a].status = "dismissed" => alerts[a].reason # None

\* Promotion is all or nothing: a case it opened has the alert_promoted entry
\* (and the observables copied beside it) of the alert it was opened for.
NoOrphanCase == \A c \in cases \ OpenCases : \E a \in Ids : <<a, c>> \in entries

\* A pending alert has the producer's document.
Mirrored(row) ==
  /\ row.status = "promoted" => row.ocsf.status_id = "in_progress"
  /\ row.status = "dismissed" => /\ row.ocsf.status_id = "suppressed"
                                 /\ row.ocsf.detail = row.reason

\* _apply_status_to_payload, "reads of ocsf_payload reflect the current state":
\* so it is after every triage request that no other overtakes, whatever
\* overlapping requests have made of the row before.
MirrorRestored ==
  [][\A w \in alone : Commit(w) => Mirrored(alerts'[req[w].alert])]_vars
=============================================================================

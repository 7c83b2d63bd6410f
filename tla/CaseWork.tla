------------------------------ MODULE CaseWork ------------------------------
(***************************************************************************)
(* The tasks, assets and manual timeline entries of one case               *)
(* (backend/src/services/tasks.py, assets.py, timeline.py).  Of a task and *)
(* of an asset the model keeps the one column whose changes the services   *)
(* write timeline entries about: the status and is_compromised.            *)
(*                                                                         *)
(* As in CaseLifecycle a request is a READ COMMITTED transaction that      *)
(* works on the row it loaded; its flush takes the row lock, keeps it to   *)
(* the end, and every later SELECT sees what is committed by then together *)
(* with what the transaction has written itself.                           *)
(***************************************************************************)
EXTENDS Naturals, FiniteSets

CONSTANTS Worker,   \* requests in progress at one time
          Task,     \* task ids; the model's bound
          Asset,    \* asset ids; the model's bound
          Entry,    \* manual timeline entries; the model's bound
          NameOf,   \* the name of each asset, unique within the case
          None

Status == {"todo", "in_progress", "done", "cancelled"}
Finished == {"done", "cancelled"}
Mark == {"clean", "compromised"}    \* is_compromised
Row == Task \cup Asset

ASSUME RowAssumption == Task \cap Asset = {} /\ Entry \cap Row = {}
ASSUME NameAssumption == DOMAIN NameOf = Asset
ASSUME NoneAssumption == None \notin Worker

VARIABLES rows,     \* committed status or is_compromised, "unborn" or "gone"
          told,     \* of each row there is: what it was created with, which no
                    \* entry says, and what the last entry about a change says
          entries,  \* manual entries that exist
          links,    \* committed timeline_asset_links
          lock,     \* the transaction that has written a row and not ended
          req,      \* what each worker's request is doing
          alone     \* workers whose request in progress has not been overtaken

vars == <<rows, told, entries, links, lock, req, alone>>

Value(x) == IF x \in Task THEN Status ELSE Mark
Alive(x) == rows[x] \notin {"unborn", "gone"}
Idle == [step |-> "idle"]
Untold == [first |-> "unborn", last |-> "nothing"]

Init == /\ rows = [x \in Row |-> "unborn"]
        /\ told = [x \in Row |-> Untold]
        /\ entries = {}
        /\ links = {}
        /\ lock = [x \in Row \cup Entry |-> None]
        /\ req = [w \in Worker |-> Idle]
        /\ alone = {}
-----------------------------------------------------------------------------
Free(w, x) == lock[x] \in {None, w}

\* Uncommitted deletions, and uncommitted references, which make each other wait.
Deleting(x) == \E v \in Worker : req[v].step = "deleted" /\ req[v].row = x
Linking(x) == \E v \in Worker : req[v].step = "linked" /\ x \in req[v].want \cup {req[v].row}

Begin(w, request) == /\ req[w] = Idle
                     /\ req' = [req EXCEPT ![w] = request]
                     /\ alone' = alone \cup {w}
End(w) == /\ lock' = [x \in DOMAIN lock |-> IF lock[x] = w THEN None ELSE lock[x]]
          /\ req' = [req EXCEPT ![w] = Idle]
          /\ alone' = {}

\* A failure (409, 500), a lost client, a crash: rolled back.
Abort(w) == /\ req[w] # Idle
            /\ lock' = [x \in DOMAIN lock |-> IF lock[x] = w THEN None ELSE lock[x]]
            /\ req' = [req EXCEPT ![w] = Idle]
            /\ alone' = alone \ {w}
            /\ UNCHANGED <<rows, told, entries, links>>
-----------------------------------------------------------------------------
(* create_task, create_asset, create_manual_entry: the new row is nobody    *)
(* else's before the commit, so each is one step.                          *)

\* A row.  The entry about it (task_created, asset_added) has its id and its
\* name, not the column.
Create(x, v) ==
  /\ rows[x] = "unborn"
  /\ rows' = [rows EXCEPT ![x] = v]
  /\ told' = [told EXCEPT ![x] = [first |-> v, last |-> "nothing"]]
  /\ alone' = {}
  /\ UNCHANGED <<entries, links, lock, req>>

CreateTask(t) == Create(t, "todo")

\* Compromised from the start or not.  Its name must be free in the case, else 409.
CreateAsset(a, v) ==
  /\ \A y \in Asset : NameOf[y] = NameOf[a] => ~ Alive(y)
  /\ Create(a, v)

\* The asset ids come from the client: each must refer to an asset, which
\* nobody is deleting.
CreateEntry(e, S) ==
  /\ e \notin entries
  /\ \A x \in S : Alive(x) /\ ~ Deleting(x)
  /\ entries' = entries \cup {e}
  /\ links' = links \cup ({e} \X S)
  /\ alone' = {}
  /\ UNCHANGED <<rows, told, lock, req>>
-----------------------------------------------------------------------------
(* update_task and update_asset                                            *)

\* A body that changes the column; the others change nothing the model keeps.
LoadUpdate(w, x, v) ==
  /\ Alive(x)
  /\ v # rows[x]
  /\ Begin(w, [step |-> "update", row |-> x, value |-> v, complete |-> FALSE])
  /\ UNCHANGED <<rows, told, entries, links, lock>>

\* The flush of row and entry.  If the row has gone meanwhile the UPDATE matches
\* nothing, which the ORM reports as an error: the request can only Abort.
FlushUpdate(w) ==
  /\ req[w].step = "update"
  /\ Free(w, req[w].row)
  /\ rows[req[w].row] # "gone"
  /\ lock' = [lock EXCEPT ![req[w].row] = w]
  /\ req' = [req EXCEPT ![w].step = IF req[w].row \in Task THEN "count" ELSE "updated"]
  /\ UNCHANGED <<rows, told, entries, links, alone>>

Unfinished(f) == {t \in Task : f[t] \in Status \ Finished}

CountRemaining_Committed(w) ==   \* mutant: counts before its own flush
  /\ req[w].step = "count"
  /\ req' = [req EXCEPT ![w].step = "updated", ![w].complete = Unfinished(rows) = {}]
  /\ UNCHANGED <<rows, told, entries, links, lock, alone>>

\* SELECT count of the unfinished tasks; with none left all_tasks_complete is
\* recorded too.  Moving a finished task, to cancelled say, announces it again.
CountRemaining(w) ==
  /\ req[w].step = "count"
  /\ LET seen == [rows EXCEPT ![req[w].row] = req[w].value]
     IN  req' = [req EXCEPT ![w].step = "updated", ![w].complete = Unfinished(seen) = {}]
  /\ UNCHANGED <<rows, told, entries, links, lock, alone>>

CommitUpdate_TellsEnds(w) ==   \* mutant: an entry only for what ends a task
  /\ req[w].step = "updated"
  /\ rows' = [rows EXCEPT ![req[w].row] = req[w].value]
  /\ told' = IF req[w].value \in Finished
             THEN [told EXCEPT ![req[w].row].last = req[w].value] ELSE told
  /\ End(w)
  /\ UNCHANGED <<entries, links>>

CommitUpdate(w) ==
  /\ req[w].step = "updated"
  /\ rows' = [rows EXCEPT ![req[w].row] = req[w].value]
  /\ told' = [told EXCEPT ![req[w].row].last = req[w].value]
  /\ End(w)
  /\ UNCHANGED <<entries, links>>
-----------------------------------------------------------------------------
(* delete_task, delete_asset, delete_entry (automatic entries: 403)        *)

Exists(x) == IF x \in Entry THEN x \in entries ELSE Alive(x)

LoadDelete(w, x) ==
  /\ Exists(x)
  /\ Begin(w, [step |-> "delete", row |-> x])
  /\ UNCHANGED <<rows, told, entries, links, lock>>

\* A row that has gone meanwhile is only a warning.
FlushDelete(w) ==
  /\ req[w].step = "delete"
  /\ Free(w, req[w].row)
  /\ ~ Linking(req[w].row)
  /\ lock' = [lock EXCEPT ![req[w].row] = w]
  /\ req' = [req EXCEPT ![w].step = "deleted"]
  /\ UNCHANGED <<rows, told, entries, links, alone>>

CommitDelete_NoCascade(w) ==   \* mutant: links outlive their entry or asset
  /\ req[w].step = "deleted"
  /\ LET x == req[w].row
     IN  /\ rows' = IF x \in Row THEN [rows EXCEPT ![x] = "gone"] ELSE rows
         /\ told' = IF x \in Row THEN [told EXCEPT ![x] = Untold] ELSE told
         /\ entries' = entries \ {x}
  /\ End(w)
  /\ UNCHANGED links

\* Links go with their entry or asset (ON DELETE CASCADE).
CommitDelete(w) ==
  /\ req[w].step = "deleted"
  /\ LET x == req[w].row
     IN  /\ rows' = IF x \in Row THEN [rows EXCEPT ![x] = "gone"] ELSE rows
         /\ entries' = entries \ {x}
         /\ told' = IF x \in Row THEN [told EXCEPT ![x] = Untold] ELSE told
         /\ links' = {l \in links : x \notin {l[1], l[2]}}
  /\ End(w)
-----------------------------------------------------------------------------
(* update_entry with linked_asset_ids: _replace_asset_links                *)

\* SELECT the links there are.
LoadLinks(w, e, S) ==
  /\ e \in entries
  /\ Begin(w, [step |-> "links", row |-> e, want |-> S,
               had |-> {l[2] : l \in {m \in links : m[1] = e}}])
  /\ UNCHANGED <<rows, told, entries, links, lock>>

Added(w) == {req[w].row} \X (req[w].want \ req[w].had)
Dropped(w) == {req[w].row} \X (req[w].had \ req[w].want)

\* The flush: a link that is dropped and added is left alone, one that somebody
\* else has dropped is only a warning.  A new link needs its asset (a foreign
\* key, which waits for whoever deletes it), and must not have been added by
\* somebody else (the primary key); the entry must still be there for the
\* refresh.  Otherwise the request can only Abort.
FlushLinks(w) ==
  /\ req[w].step = "links"
  /\ req[w].row \in entries /\ ~ Deleting(req[w].row)
  /\ \A x \in req[w].want \ req[w].had : Alive(x) /\ ~ Deleting(x)
  /\ Added(w) \cap links = {}
  /\ \A v \in Worker \ {w} : req[v].step = "linked" => Added(v) \cap Added(w) = {}
  /\ req' = [req EXCEPT ![w].step = "linked"]
  /\ UNCHANGED <<rows, told, entries, links, lock, alone>>

CommitLinks_KeepsOld(w) ==   \* mutant: the existing links are not deleted
  /\ req[w].step = "linked"
  /\ links' = links \cup Added(w)
  /\ End(w)
  /\ UNCHANGED <<rows, told, entries>>

CommitLinks(w) ==
  /\ req[w].step = "linked"
  /\ links' = (links \ Dropped(w)) \cup Added(w)
  /\ End(w)
  /\ UNCHANGED <<rows, told, entries>>
-----------------------------------------------------------------------------
TaskRequest(w) ==
  \E t \in Task : (\E v \in Status : LoadUpdate(w, t, v)) \/ LoadDelete(w, t)
AssetRequest(w) ==
  \E a \in Asset : (\E v \in Mark : LoadUpdate(w, a, v)) \/ LoadDelete(w, a)
EntryRequest(w) ==
  \E e \in Entry : (\E S \in SUBSET Asset : LoadLinks(w, e, S)) \/ LoadDelete(w, e)

Next == \/ \E t \in Task : CreateTask(t)
        \/ \E a \in Asset, v \in Mark : CreateAsset(a, v)
        \/ \E e \in Entry, S \in SUBSET Asset : CreateEntry(e, S)
        \/ \E w \in Worker :
             \/ TaskRequest(w) \/ AssetRequest(w) \/ EntryRequest(w)
             \/ FlushUpdate(w)
             \/ CountRemaining(w)
             \/ CommitUpdate(w)
             \/ FlushDelete(w)
             \/ CommitDelete(w)
             \/ FlushLinks(w)
             \/ CommitLinks(w)
             \/ Abort(w)

Spec == Init /\ [][Next]_vars
-----------------------------------------------------------------------------
RequestOK(r) ==
  \/ r = Idle
  \/ /\ r \in [step : {"update", "count", "updated"}, row : Row,
               value : Status \cup Mark, complete : BOOLEAN]
     /\ r.value \in Value(r.row)
  \/ r \in [step : {"delete", "deleted"}, row : Row \cup Entry]
  \/ r \in [step : {"links", "linked"}, row : Entry, want : SUBSET Asset,
            had : SUBSET Asset]

TypeOK ==
  /\ DOMAIN rows = Row
  /\ \A x \in Row : rows[x] \in Value(x) \cup {"unborn", "gone"}
  /\ DOMAIN told = Row
  /\ \A x \in Row : told[x] \in [first : Value(x) \cup {"unborn"},
                                 last : Value(x) \cup {"nothing"}]
  /\ entries \subseteq Entry
  /\ links \subseteq entries \X {x \in Asset : Alive(x)}
  /\ lock \in [Row \cup Entry -> Worker \cup {None}]
  /\ DOMAIN req = Worker
  /\ \A w \in Worker : RequestOK(req[w])
  /\ alone \subseteq Worker

\* The entries account for the state of every task and asset, although requests
\* that loaded the same row overlap: it is what the last entry about a change
\* says, and with no such entry what the row was created with.  Of a task that is
\* "todo"; of an asset no entry tells it, so one that was compromised from the
\* start is nowhere on the timeline until its mark changes.
Accounted(x) == IF told[x].last = "nothing" THEN told[x].first ELSE told[x].last
EntriesTell ==
  \A x \in Row : Alive(x) =>
    /\ rows[x] = Accounted(x)
    /\ x \in Task => told[x].first = "todo"

\* "If all tasks complete": a change of a task that nothing overtakes records
\* all_tasks_complete if and only if it leaves no task unfinished.  (Two that
\* overlap may both find the other's task unfinished, or miss a new one.)
CompletionAnnounced ==
  [][\A w \in alone : CommitUpdate(w) /\ req[w].row \in Task =>
        (req[w].complete <=> Unfinished(rows') = {})]_vars

\* "If all tasks complete, fire case-level notification event" (tasks.py:115):
\* whichever change completes them records it, overtaken or not.  Not so: of two
\* that overlap, the one that commits last may have counted before the other did.
CompletionNotMissed ==
  [][\A w \in Worker : CommitUpdate(w) /\ req[w].row \in Task
                          /\ Unfinished(rows') = {} => req[w].complete]_vars

\* Replacing the links of an entry undisturbed leaves exactly the assets of the
\* request.  (Two replacements that overlap may leave a mixture of both.)
LinksReplaced ==
  [][\A w \in alone : CommitLinks(w) =>
        {l[2] : l \in {m \in links' : m[1] = req[w].row}} = req[w].want]_vars
=============================================================================

--------------------------- MODULE EvidenceStore ----------------------------
(***************************************************************************)
(* Evidence: a row in PostgreSQL, its file in the object store             *)
(* (backend/src/services/evidence.py, storage.py).                         *)
(*                                                                         *)
(* The row is written in a READ COMMITTED transaction, as in AlertQueue;   *)
(* the object is put or deleted while that transaction is open, takes      *)
(* effect at once and is not undone when the transaction is rolled back.   *)
(***************************************************************************)
EXTENDS Naturals, FiniteSets, Rows

CONSTANTS Worker,      \* requests in progress at one time
          Evidence,    \* evidence ids; the model's bound on registrations
          Key,         \* storage keys; the model's bound on stored objects
          File,        \* kinds of uploaded files in play
          None

\* A file: stored encrypted with a password or as it came, and whether its
\* SHA-256 before that is the declared one.
Object == [encrypted : BOOLEAN, matches : BOOLEAN]

ASSUME FileAssumption == File \subseteq Object
ASSUME NoneAssumption == None \notin Key \cup Worker \cup BOOLEAN

VARIABLES rows,        \* committed rows of table evidence, by id
          objects,     \* what the bucket holds, by storage key
          lock,        \* the transaction that has updated a row and not ended
          req,         \* what each worker's request is doing
          doomed,      \* ids some request has started to delete
          alone        \* workers whose request in progress has not been overtaken:
                       \* nobody else committed since it began

vars == <<rows, objects, lock, req, doomed, alone>>

\* is_uploaded is path # None: both are written by each upload and by nothing
\* else.  The declared hash never changes.
Row == [path : Key \cup {None}, encrypted : BOOLEAN,
        verified : BOOLEAN \cup {None}, mismatch : BOOLEAN]

Idle == [step |-> "idle"]

Init == /\ rows = << >>
        /\ objects = << >>
        /\ lock = [e \in Evidence |-> None]
        /\ req = [w \in Worker |-> Idle]
        /\ doomed = {}
        /\ alone = {}
-----------------------------------------------------------------------------
Ids == DOMAIN rows

Uploading(w) == req[w].step \in {"read", "stored", "flushed"}

Paths(w) == IF Uploading(w) THEN {req[w].path, req[w].row.path}
            ELSE IF req[w] = Idle THEN {} ELSE {req[w].path}

\* uuid4: a key nobody holds.
Fresh == Key \ (DOMAIN objects \cup {rows[e].path : e \in Ids}
                  \cup UNION {Paths(w) : w \in Worker})

Release(w) == lock' = [e \in Evidence |-> IF lock[e] = w THEN None ELSE lock[e]]

\* A request begins; its commit ends it and overtakes all the others.
Begin(w, request) == /\ req' = [req EXCEPT ![w] = request]
                     /\ alone' = alone \cup {w}

End(w) == /\ Release(w)
          /\ req' = [req EXCEPT ![w] = Idle]
          /\ alone' = {}

\* POST /evidence: an insert nobody sees before it is committed.
Register(w, e) ==
  /\ req[w] = Idle
  /\ e \notin Ids \cup doomed
  /\ rows' = [i \in Ids \cup {e} |->
                IF i = e THEN [path |-> None, encrypted |-> FALSE,
                               verified |-> None, mismatch |-> FALSE]
                ELSE rows[i]]
  /\ alone' = {}
  /\ UNCHANGED <<objects, lock, req, doomed>>
-----------------------------------------------------------------------------
(* POST /evidence/{id}/upload                                              *)

\* The handler has loaded the row, read and hashed the file, encrypted it if
\* the form had a password, and drawn a storage key.
LoadUpload(w, e, file) ==
  /\ req[w] = Idle
  /\ \E k \in Fresh :
       Begin(w, [step |-> "read", evidence |-> e, row |-> rows[e],
                 path |-> k, file |-> file])
  /\ UNCHANGED <<rows, objects, lock, doomed>>

PutObject_AfterCommit(w) ==   \* mutant: the upload is left to a background task
  /\ req[w].step = "read"
  /\ req' = [req EXCEPT ![w].step = "stored"]
  /\ UNCHANGED <<rows, objects, lock, doomed, alone>>

\* upload_bytes: at once, whatever becomes of the transaction.
PutObject(w) ==
  /\ req[w].step = "read"
  /\ objects' = [k \in DOMAIN objects \cup {req[w].path} |->
                   IF k = req[w].path THEN req[w].file ELSE objects[k]]
  /\ req' = [req EXCEPT ![w].step = "stored"]
  /\ UNCHANGED <<rows, lock, doomed, alone>>

Described_NeverCleared(path, file) ==   \* mutant: a mismatch is only ever set
  [c \in {"path", "encrypted", "verified"} \cup IF file.matches THEN {} ELSE {"mismatch"} |->
     CASE c = "path" -> path
       [] c = "encrypted" -> file.encrypted
       [] c = "verified" -> file.matches
       [] c = "mismatch" -> TRUE]

Described_PasswordAsFlag(path, file) ==   \* mutant: the password or nothing
  [path |-> path, encrypted |-> IF file.encrypted THEN TRUE ELSE None,
   verified |-> file.matches, mismatch |-> ~file.matches]

\* What the handler assigns: the columns that describe the file.
Described(path, file) ==
  [path |-> path, encrypted |-> file.encrypted,
   verified |-> file.matches, mismatch |-> ~file.matches]

\* The UPDATE waits for the row lock.
FlushUpload(w) ==
  /\ req[w].step = "stored"
  /\ lock[req[w].evidence] = None
  /\ req[w].evidence \in Ids
  /\ lock' = [lock EXCEPT ![req[w].evidence] = w]
  /\ req' = [req EXCEPT ![w].step = "flushed"]
  /\ UNCHANGED <<rows, objects, doomed, alone>>

CommitUpload(w) ==
  /\ req[w].step = "flushed"
  /\ LET e == req[w].evidence
         wanted == Described(req[w].path, req[w].file)
     IN  rows' = [rows EXCEPT ![e] = Overlay(@, Changed(req[w].row, wanted))]
  /\ End(w)
  /\ UNCHANGED <<objects, doomed>>
-----------------------------------------------------------------------------
(* DELETE /evidence/{id}                                                   *)

LoadDelete(w, e) ==
  /\ req[w] = Idle
  /\ doomed' = doomed \cup {e}
  /\ Begin(w, [step |-> "condemned", evidence |-> e, path |-> rows[e].path])
  /\ UNCHANGED <<rows, objects, lock>>

\* delete_object, if the row that was loaded has a path.
RemoveObject(w) ==
  /\ req[w].step = "condemned"
  /\ objects' = [k \in DOMAIN objects \ {req[w].path} |-> objects[k]]
  /\ req' = [req EXCEPT ![w].step = "removed"]
  /\ UNCHANGED <<rows, lock, doomed, alone>>

\* A ClientError of the store, whichever it is, is passed over.
RemoveRefused(w) ==
  /\ req[w].step = "condemned"
  /\ req[w].path # None
  /\ req' = [req EXCEPT ![w].step = "refused"]
  /\ UNCHANGED <<rows, objects, lock, doomed, alone>>

\* The DELETE waits for the row lock; a row that is gone by then is no error.
FlushDelete(w) ==
  /\ req[w].step \in {"removed", "refused"}
  /\ lock[req[w].evidence] = None
  /\ lock' = [lock EXCEPT ![req[w].evidence] = w]
  /\ req' = [req EXCEPT ![w].step = IF @ = "removed" THEN "deleted" ELSE "left"]
  /\ UNCHANGED <<rows, objects, doomed, alone>>

CommitDelete(w) ==
  /\ req[w].step \in {"deleted", "left"}
  /\ rows' = [e \in Ids \ {req[w].evidence} |-> rows[e]]
  /\ End(w)
  /\ UNCHANGED <<objects, doomed>>
-----------------------------------------------------------------------------
\* The store or the database fails, the client or the process is gone: the
\* transaction is rolled back, the object store stays as it is.
Abort(w) ==
  /\ req[w] # Idle
  /\ Release(w)
  /\ req' = [req EXCEPT ![w] = Idle]
  /\ alone' = alone \ {w}
  /\ UNCHANGED <<rows, objects, doomed>>

\* The row is gone when the UPDATE gets its turn: no row matches, StaleDataError.
Stale_Waits(w) == FALSE /\ Abort(w)   \* mutant

Stale(w) ==
  /\ req[w].step = "stored"
  /\ lock[req[w].evidence] = None
  /\ req[w].evidence \notin Ids
  /\ Abort(w)

Upload(w) == \/ \E e \in Ids, file \in File : LoadUpload(w, e, file)
             \/ PutObject(w)
             \/ FlushUpload(w)
             \/ Stale(w)
             \/ CommitUpload(w)

Delete(w) == \/ \E e \in Ids : LoadDelete(w, e)
             \/ RemoveObject(w)
             \/ RemoveRefused(w)
             \/ FlushDelete(w)
             \/ CommitDelete(w)

Next == \E w \in Worker : \/ \E e \in Evidence : Register(w, e)
                          \/ Upload(w)
                          \/ Delete(w)
                          \/ Abort(w)

Spec == Init /\ [][Next]_vars

\* Requests run on, and waiters get the row lock in turn.
Advance(w) == \/ PutObject(w) \/ FlushUpload(w) \/ Stale(w) \/ CommitUpload(w)
              \/ RemoveObject(w) \/ FlushDelete(w) \/ CommitDelete(w)

FairSpec == Spec /\ \A w \in Worker : SF_vars(Advance(w))
-----------------------------------------------------------------------------
UploadRequest == [step : {"read", "stored", "flushed"}, evidence : Evidence,
                  row : Row, path : Key, file : Object]

DeleteRequest == [step : {"condemned", "removed", "refused", "deleted", "left"},
                  evidence : Evidence, path : Key \cup {None}]

TypeOK ==
  /\ Ids \subseteq Evidence /\ rows \in [Ids -> Row]
  /\ DOMAIN objects \subseteq Key /\ objects \in [DOMAIN objects -> Object]
  /\ lock \in [Evidence -> Worker \cup {None}]
  /\ doomed \subseteq Evidence
  /\ alone \subseteq Worker
  /\ DOMAIN req = Worker
  /\ \A w \in Worker : req[w] \in {Idle} \cup UploadRequest \cup DeleteRequest

\* A row that says its file is uploaded points at a stored object, unless some
\* request has started to delete that evidence: upload_evidence_file puts the
\* object first, and nothing else removes it.
FileKept == \A e \in Ids \ doomed : rows[e].path # None => rows[e].path \in DOMAIN objects

\* An upload that no other request overtakes leaves a row that describes the
\* object it points at, whatever overlapping uploads had made of it before.
UploadDescribes ==
  [][\A w \in alone : CommitUpload(w) =>
       LET row == rows'[req[w].evidence]
       IN  /\ row.path \in DOMAIN objects
           /\ objects[row.path].encrypted = row.encrypted
           /\ objects[row.path].matches = row.verified
           /\ objects[row.path].matches = ~row.mismatch]_vars

\* A deletion that no other request overtakes leaves neither the row nor the
\* object it pointed at, unless the store refused to delete it.
DeleteComplete ==
  [][\A w \in alone : CommitDelete(w) =>
       LET e == req[w].evidence
       IN  /\ e \in Ids /\ e \notin Ids'
           /\ req[w].step = "deleted" => rows[e].path \notin DOMAIN objects]_vars

\* docs/integration.md, Uploading evidence: content whose SHA-256 is not the declared one
\* is flagged.  The code does not keep this when two uploads overlap.
MismatchFlagged ==
  \A e \in Ids : rows[e].path \in DOMAIN objects =>
    (~objects[rows[e].path].matches => rows[e].mismatch)

\* Requests that wait for a row lock get it, or find the row gone: none hangs.
RequestsFinish == \A w \in Worker : req[w] # Idle ~> req[w] = Idle
=============================================================================

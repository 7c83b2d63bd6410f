------------------------ MODULE EvidenceStoreProofs -------------------------
(***************************************************************************)
(* Proofs about EvidenceStore, for any number of overlapping requests, any *)
(* evidence and any storage keys.                                          *)
(***************************************************************************)
EXTENDS EvidenceStore, TLAPS

-----------------------------------------------------------------------------
(* Requests, and what an upload makes of a row                             *)

LEMMA RequestShape ==
  ASSUME TypeOK, NEW w \in Worker
  PROVE  /\ req[w].step \in {"idle", "read", "stored", "flushed",
                             "condemned", "removed", "refused", "deleted", "left"}
         /\ Uploading(w) <=> req[w] \in UploadRequest
         /\ req[w] \in DeleteRequest <=>
              req[w].step \in {"condemned", "removed", "refused", "deleted", "left"}
         /\ req[w].step = "idle" <=> req[w] = Idle
         /\ req[w] \in DeleteRequest => Paths(w) = {req[w].path}
         /\ req[w] \in UploadRequest => Paths(w) = {req[w].path, req[w].row.path}
BY DEF TypeOK, UploadRequest, DeleteRequest, Uploading, Idle, Paths

\* The UPDATE of an upload: each column as wanted or as it was, and the path as
\* wanted.
LEMMA UploadedRow ==
  ASSUME NEW row \in Row, NEW loaded \in Row, NEW k \in Key, NEW file \in Object,
         loaded.path # k
  PROVE  LET later == Overlay(row, Changed(loaded, Described(k, file)))
         IN  later \in Row /\ later.path = k
<1> DEFINE wanted == Described(k, file)
           wr == Changed(loaded, wanted)
           later == Overlay(row, wr)
<1>1. DOMAIN row = {"path", "encrypted", "verified", "mismatch"}
  BY DEF Row
<1>2. /\ DOMAIN wanted = {"path", "encrypted", "verified", "mismatch"}
      /\ wanted["path"] = k /\ wanted["encrypted"] \in BOOLEAN
      /\ wanted["verified"] \in BOOLEAN /\ wanted["mismatch"] \in BOOLEAN
  BY DEF Described, Object
<1>3. /\ \A c \in DOMAIN wr : wr[c] = wanted[c]
      /\ "path" \in DOMAIN wr
  BY <1>2 DEF Changed
<1>4. \A c \in DOMAIN row : later[c] = IF c \in DOMAIN wr THEN wr[c] ELSE row[c]
  BY DEF Overlay
<1>5. DOMAIN later = DOMAIN row /\ later = [c \in DOMAIN row |-> later[c]]
  BY DEF Overlay
<1> HIDE DEF wanted, wr, later
<1>6. /\ row["path"] \in Key \cup {None} /\ row["encrypted"] \in BOOLEAN
      /\ row["verified"] \in BOOLEAN \cup {None} /\ row["mismatch"] \in BOOLEAN
  BY DEF Row
<1>7. later["path"] = k
  BY <1>1, <1>2, <1>3, <1>4
<1>8. later["encrypted"] \in BOOLEAN
  <2>1. CASE "encrypted" \in DOMAIN wr
    BY <1>1, <1>2, <1>3, <1>4, <2>1
  <2>2. CASE "encrypted" \notin DOMAIN wr
    BY <1>1, <1>4, <1>6, <2>2
  <2> QED
    BY <2>1, <2>2
<1>9. later["verified"] \in BOOLEAN \cup {None}
  <2>1. CASE "verified" \in DOMAIN wr
    BY <1>1, <1>2, <1>3, <1>4, <2>1
  <2>2. CASE "verified" \notin DOMAIN wr
    BY <1>1, <1>4, <1>6, <2>2
  <2> QED
    BY <2>1, <2>2
<1>10. later["mismatch"] \in BOOLEAN
  <2>1. CASE "mismatch" \in DOMAIN wr
    BY <1>1, <1>2, <1>3, <1>4, <2>1
  <2>2. CASE "mismatch" \notin DOMAIN wr
    BY <1>1, <1>4, <1>6, <2>2
  <2> QED
    BY <2>1, <2>2
<1>11. later = [path |-> later["path"], encrypted |-> later["encrypted"],
                verified |-> later["verified"], mismatch |-> later["mismatch"]]
  BY <1>1, <1>5
<1>12. later \in Row /\ later["path"] = k
  BY <1>7, <1>8, <1>9, <1>10, <1>11 DEF Row
<1> QED
  BY <1>12 DEF later, wr, wanted

\* An upload onto the row it has loaded leaves just what it wanted.
LEMMA UploadedAlone ==
  ASSUME NEW row \in Row, NEW k \in Key, NEW file \in Object
  PROVE  Overlay(row, Changed(row, Described(k, file))) = Described(k, file)
<1> DEFINE wanted == Described(k, file)
           later == Overlay(row, Changed(row, wanted))
<1>1. DOMAIN row = {"path", "encrypted", "verified", "mismatch"}
  BY DEF Row
<1>2. DOMAIN wanted = DOMAIN row
  BY <1>1 DEF Described
<1>3. \A c \in DOMAIN row : later[c] = wanted[c]
  BY <1>2 DEF Overlay, Changed
<1>4. later = [c \in DOMAIN row |-> later[c]]
  BY DEF Overlay
<1>5. wanted = [c \in DOMAIN row |-> wanted[c]]
  BY <1>1 DEF Described
<1> HIDE DEF wanted, later
<1>6. later = wanted
  BY <1>3, <1>4, <1>5
<1> QED
  BY <1>6 DEF later, wanted
-----------------------------------------------------------------------------
(* The invariant                                                           *)

Deleting(w) == req[w].step \in {"condemned", "removed", "refused", "deleted", "left"}

\* A drawn key stays with its request, then with one row.
KeysApart ==
  /\ \A w \in Worker : Uploading(w) =>
       /\ req[w].path # req[w].row.path
       /\ \A e \in Ids : rows[e].path # req[w].path
       /\ \A x \in Worker \ {w} : req[w].path \notin Paths(x)
  /\ \A d, e \in Ids : d # e /\ rows[d].path = rows[e].path => rows[d].path = None

\* What a request has done to the store is still so.
StoreFollows ==
  \A w \in Worker :
    /\ req[w].step \in {"stored", "flushed"} =>
         req[w].path \in DOMAIN objects /\ objects[req[w].path] = req[w].file
    /\ req[w].step \in {"removed", "deleted"} => req[w].path \notin DOMAIN objects

\* A request that deletes can only hit the row it condemned.
DeletersKnow ==
  \A w \in Worker : Deleting(w) =>
    /\ req[w].evidence \in doomed
    /\ \A e \in Ids : req[w].path # None /\ rows[e].path = req[w].path
                        => e = req[w].evidence

\* A request that has not been overtaken has loaded what is there.
AloneKnows ==
  \A w \in alone :
    /\ req[w] # Idle => req[w].evidence \in Ids
    /\ Uploading(w) => rows[req[w].evidence] = req[w].row
    /\ Deleting(w) => rows[req[w].evidence].path = req[w].path

IInv == TypeOK /\ KeysApart /\ StoreFollows /\ DeletersKnow /\ AloneKnows /\ FileKept

LEMMA InitIInv == ASSUME Init PROVE IInv
BY DEF Init, IInv, TypeOK, KeysApart, StoreFollows, DeletersKnow, AloneKnows, FileKept,
       Uploading, Deleting, Idle, Ids, Row

\* The rows after a commit of an upload.
LEMMA CommittedRows ==
  ASSUME IInv, NEW w \in Worker, CommitUpload(w)
  PROVE  /\ DOMAIN rows' = Ids /\ rows' \in [Ids -> Row]
         /\ \A e \in Ids : e # req[w].evidence => rows'[e] = rows[e]
         /\ \A e \in Ids : e = req[w].evidence => rows'[e].path = req[w].path
<1>1. req[w] \in UploadRequest /\ Uploading(w) /\ rows \in [Ids -> Row]
  BY RequestShape DEF IInv, TypeOK, CommitUpload, Uploading
<1>2. req[w].path # req[w].row.path
  BY <1>1 DEF IInv, KeysApart
<1> DEFINE e == req[w].evidence
           later == Overlay(rows[e], Changed(req[w].row, Described(req[w].path, req[w].file)))
<1>3. /\ DOMAIN rows' = Ids
      /\ \A i \in Ids : rows'[i] = IF i = e THEN later ELSE rows[i]
      /\ rows' = [i \in Ids |-> rows'[i]]
  BY <1>1 DEF CommitUpload, Ids
<1>4. e \in Ids => later \in Row /\ later.path = req[w].path
  BY <1>1, <1>2, UploadedRow DEF UploadRequest
<1> HIDE DEF later
<1>5. \A i \in Ids : rows'[i] \in Row
  BY <1>1, <1>3, <1>4
<1>6. rows' \in [Ids -> Row]
  BY <1>3, <1>5
<1> QED
  BY <1>3, <1>4, <1>6
-----------------------------------------------------------------------------
(* Each step keeps it                                                      *)

Step(w) == \/ \E e \in Evidence : Register(w, e)
           \/ Upload(w)
           \/ Delete(w)
           \/ Abort(w)

\* The other requests go on as they were.
LEMMA OthersUntouched ==
  ASSUME TypeOK, NEW w \in Worker, Step(w), NEW x \in Worker \ {w}
  PROVE  req'[x] = req[x]
BY DEF TypeOK, Step, Register, Upload, LoadUpload, PutObject, FlushUpload, Stale,
       CommitUpload, Delete, LoadDelete, RemoveObject, RemoveRefused, FlushDelete,
       CommitDelete, Abort, Begin, End

LEMMA ReleaseType ==
  ASSUME TypeOK, NEW w \in Worker, Release(w)
  PROVE  lock' \in [Evidence -> Worker \cup {None}]
BY DEF TypeOK, Release

\* A request in progress has only its step changed, by the step it takes.
LEMMA RequestType ==
  ASSUME TypeOK, NEW w \in Worker, Step(w)
  PROVE  /\ DOMAIN req' = Worker
         /\ \A x \in Worker : req'[x] \in {Idle} \cup UploadRequest \cup DeleteRequest
<1>1. DOMAIN req' = Worker
  BY DEF TypeOK, Step, Register, Upload, LoadUpload, PutObject, FlushUpload, Stale,
         CommitUpload, Delete, LoadDelete, RemoveObject, RemoveRefused, FlushDelete,
         CommitDelete, Abort, Begin, End
<1>2. req'[w] \in {Idle} \cup UploadRequest \cup DeleteRequest
  <2>1. CASE \E e \in Evidence : Register(w, e)
    BY <2>1 DEF Register, TypeOK
  <2>2. CASE \E e \in Ids, file \in File : LoadUpload(w, e, file)
    BY <2>2, FileAssumption DEF LoadUpload, Begin, TypeOK, UploadRequest, Fresh
  <2>3. CASE PutObject(w)
    BY <2>3, RequestShape DEF PutObject, TypeOK, UploadRequest, Uploading
  <2>4. CASE FlushUpload(w)
    BY <2>4, RequestShape DEF FlushUpload, TypeOK, UploadRequest, Uploading
  <2>5. CASE CommitUpload(w) \/ CommitDelete(w) \/ Abort(w) \/ Stale(w)
    BY <2>5 DEF CommitUpload, CommitDelete, Abort, Stale, End, TypeOK
  <2>6. CASE \E e \in Ids : LoadDelete(w, e)
    BY <2>6 DEF LoadDelete, Begin, TypeOK, DeleteRequest, Row
  <2>7. CASE RemoveObject(w) \/ RemoveRefused(w)
    BY <2>7, RequestShape DEF RemoveObject, RemoveRefused, TypeOK, DeleteRequest
  <2>8. CASE FlushDelete(w)
    BY <2>8, RequestShape DEF FlushDelete, TypeOK, DeleteRequest
  <2> QED
    BY <2>1, <2>2, <2>3, <2>4, <2>5, <2>6, <2>7, <2>8 DEF Step, Upload, Delete
<1> QED
  BY <1>1, <1>2, OthersUntouched DEF TypeOK

LEMMA StepType ==
  ASSUME IInv, NEW w \in Worker, Step(w)
  PROVE  TypeOK'
<1> USE DEF IInv
<1>1. /\ DOMAIN req' = Worker
      /\ \A x \in Worker : req'[x] \in {Idle} \cup UploadRequest \cup DeleteRequest
  BY RequestType
<1>2. CASE \E e \in Evidence : Register(w, e)
  BY <1>1, <1>2 DEF Register, TypeOK, Row, Ids
<1>3. CASE \E e \in Ids, file \in File : LoadUpload(w, e, file)
  BY <1>1, <1>3 DEF LoadUpload, Begin, TypeOK, Ids
<1>4. CASE PutObject(w)
  <2>1. req[w].path \in Key /\ req[w].file \in Object
    BY <1>4, RequestShape DEF PutObject, UploadRequest, Uploading
  <2> QED
    BY <1>1, <1>4, <2>1 DEF PutObject, TypeOK, Ids
<1>5. CASE FlushUpload(w)
  BY <1>1, <1>5 DEF FlushUpload, TypeOK, Ids
<1>6. CASE CommitUpload(w)
  BY <1>1, <1>6, CommittedRows, ReleaseType DEF CommitUpload, End, TypeOK, Ids
<1>7. CASE Abort(w) \/ Stale(w)
  BY <1>1, <1>7, ReleaseType DEF Abort, Stale, TypeOK, Ids
<1>8. CASE \E e \in Ids : LoadDelete(w, e)
  BY <1>1, <1>8 DEF LoadDelete, Begin, TypeOK, Ids
<1>9. CASE RemoveObject(w)
  BY <1>1, <1>9 DEF RemoveObject, TypeOK, Ids
<1>10. CASE RemoveRefused(w) \/ FlushDelete(w)
  BY <1>1, <1>10 DEF RemoveRefused, FlushDelete, TypeOK, Ids
<1>11. CASE CommitDelete(w)
  BY <1>1, <1>11, ReleaseType DEF CommitDelete, End, TypeOK, Ids
<1> QED
  BY <1>2, <1>3, <1>4, <1>5, <1>6, <1>7, <1>8, <1>9, <1>10, <1>11
     DEF Step, Upload, Delete
\* What a request holds of the store: it draws a key as an upload begins, loads
\* a row's path as it begins, and after that only lets go of them.
LEMMA PathsStep ==
  ASSUME TypeOK, NEW w \in Worker, Step(w)
  PROVE  \/ /\ \E e \in Ids, file \in File : LoadUpload(w, e, file)
            /\ Uploading(w)' /\ req'[w].path \in Fresh
            /\ \E e \in Ids : Paths(w)' = {req'[w].path, rows[e].path}
                              /\ req'[w].row = rows[e]
         \/ \E e \in Ids : LoadDelete(w, e) /\ ~Uploading(w)' /\ Paths(w)' = {rows[e].path}
         \/ /\ \A x \in Worker : Paths(x)' \subseteq Paths(x)
            /\ Uploading(w)' => /\ Uploading(w) /\ req'[w].path = req[w].path
                                /\ req'[w].row = req[w].row
            /\ ~(\E e \in Ids, file \in File : LoadUpload(w, e, file))
            /\ ~(\E e \in Ids : LoadDelete(w, e))
<1>1. \A x \in Worker \ {w} : req'[x] = req[x]
  BY OthersUntouched
<1>2. \A x \in Worker \ {w} : Paths(x)' = Paths(x)
  BY <1>1 DEF Paths, Uploading
<1>3. CASE \E e \in Ids, file \in File : LoadUpload(w, e, file)
  <2>1. PICK e \in Ids, file \in File : LoadUpload(w, e, file)
    BY <1>3
  <2>2. PICK k \in Fresh : req'[w] = [step |-> "read", evidence |-> e, row |-> rows[e],
                                      path |-> k, file |-> file]
    BY <2>1 DEF LoadUpload, Begin, TypeOK
  <2> QED
    BY <1>3, <2>2 DEF Uploading, Paths
<1>4. ASSUME NEW e \in Ids, LoadDelete(w, e)
      PROVE  ~Uploading(w)' /\ Paths(w)' = {rows[e].path}
  <2>1. req'[w] = [step |-> "condemned", evidence |-> e, path |-> rows[e].path]
    BY <1>4 DEF LoadDelete, Begin, TypeOK
  <2> QED
    BY <2>1 DEF Uploading, Paths, Idle
<1>5. CASE /\ ~(\E e \in Ids, file \in File : LoadUpload(w, e, file))
           /\ ~(\E e \in Ids : LoadDelete(w, e))
  <2> DEFINE After == /\ Paths(w)' \subseteq Paths(w)
                      /\ Uploading(w)' => /\ Uploading(w) /\ req'[w].path = req[w].path
                                          /\ req'[w].row = req[w].row
  <2> SUFFICES After
    BY <1>2, <1>5
  <2>1. CASE \E e \in Evidence : Register(w, e)
    BY <2>1 DEF Register, Paths, Uploading
  <2>2. CASE PutObject(w)
    BY <2>2, RequestShape DEF PutObject, Paths, Uploading, TypeOK, Idle
  <2>3. CASE FlushUpload(w)
    BY <2>3, RequestShape DEF FlushUpload, Paths, Uploading, TypeOK, Idle
  <2>4. CASE CommitUpload(w) \/ CommitDelete(w) \/ Abort(w) \/ Stale(w)
    <3>1. req'[w] = Idle
      BY <2>4 DEF CommitUpload, CommitDelete, Abort, Stale, End, TypeOK
    <3> QED
      BY <3>1 DEF Paths, Uploading, Idle
  <2>5. CASE RemoveObject(w) \/ RemoveRefused(w)
    <3>1. req[w] \in DeleteRequest /\ Paths(w) = {req[w].path}
      BY <2>5, RequestShape DEF RemoveObject, RemoveRefused
    <3>2. /\ req'[w].path = req[w].path
          /\ req'[w].step \in {"removed", "refused"}
      BY <2>5, <3>1 DEF RemoveObject, RemoveRefused, TypeOK, DeleteRequest
    <3> QED
      BY <3>1, <3>2 DEF Paths, Uploading, Idle
  <2>6. CASE FlushDelete(w)
    <3>1. req[w] \in DeleteRequest /\ Paths(w) = {req[w].path}
      BY <2>6, RequestShape DEF FlushDelete
    <3>2. /\ req'[w].path = req[w].path
          /\ req'[w].step \in {"deleted", "left"}
      BY <2>6, <3>1 DEF FlushDelete, TypeOK, DeleteRequest
    <3> QED
      BY <3>1, <3>2 DEF Paths, Uploading, Idle
  <2> QED
    BY <1>5, <2>1, <2>2, <2>3, <2>4, <2>5, <2>6 DEF Step, Upload, Delete
<1> QED
  BY <1>3, <1>4, <1>5
\* The rows before and after a step: as they were, a new one without a file, one
\* that an upload's own key has gone to, or one less.
LEMMA RowsStep ==
  ASSUME IInv, NEW w \in Worker, Step(w)
  PROVE  \/ rows' = rows
         \/ /\ alone' = {} /\ doomed' = doomed
            /\ \A e \in Ids' : \/ rows'[e].path = None
                               \/ e \in Ids /\ rows'[e] = rows[e]
                               \/ /\ e \in Ids /\ e = req[w].evidence
                                  /\ CommitUpload(w) /\ rows'[e].path = req[w].path
<1>1. CASE \E e \in Evidence : Register(w, e)
  BY <1>1 DEF Register, Ids
<1>2. CASE CommitUpload(w)
  BY <1>2, CommittedRows DEF CommitUpload, End, Ids
<1>3. CASE CommitDelete(w)
  BY <1>3 DEF CommitDelete, End, Ids
<1>4. CASE \/ \E e \in Ids, file \in File : LoadUpload(w, e, file)
           \/ PutObject(w) \/ FlushUpload(w) \/ Stale(w) \/ Abort(w)
           \/ \E e \in Ids : LoadDelete(w, e)
           \/ RemoveObject(w) \/ RemoveRefused(w) \/ FlushDelete(w)
  BY <1>4 DEF LoadUpload, PutObject, FlushUpload, Stale, Abort, LoadDelete,
              RemoveObject, RemoveRefused, FlushDelete
<1> QED
  BY <1>1, <1>2, <1>3, <1>4 DEF Step, Upload, Delete
\* What a fresh key is not.
LEMMA FreshKeys ==
  ASSUME TypeOK, NEW k \in Fresh
  PROVE  /\ k \in Key /\ k # None /\ k \notin DOMAIN objects
         /\ \A e \in Ids : rows[e].path # k
         /\ \A x \in Worker : k \notin Paths(x)
BY NoneAssumption DEF Fresh

LEMMA KeysStayApart ==
  ASSUME IInv, NEW w \in Worker, Step(w)
  PROVE  KeysApart'
<1>1. TypeOK /\ KeysApart /\ TypeOK'
  BY StepType DEF IInv
<1>2. \A x \in Worker \ {w} : req'[x] = req[x]
  BY <1>1, OthersUntouched
<1>3. \A x \in Worker \ {w} : Paths(x)' = Paths(x) /\ (Uploading(x)' <=> Uploading(x))
  BY <1>2 DEF Paths, Uploading
<1>4. \A x \in Worker : Uploading(x)' => req'[x].path \in Paths(x)'
  BY DEF Paths
<1>5. \A x \in Worker : Uploading(x) => req[x].path \in Paths(x)
  BY DEF Paths
<1>6. CASE \E e \in Ids, file \in File : LoadUpload(w, e, file)
  <2>1. rows' = rows /\ Ids' = Ids
    BY <1>6 DEF LoadUpload, Ids
  <2>2. /\ Uploading(w)' /\ req'[w].path \in Fresh
        /\ \E e \in Ids : Paths(w)' = {req'[w].path, rows[e].path} /\ req'[w].row = rows[e]
    <3>1. ~(\E e \in Ids : LoadDelete(w, e) /\ ~Uploading(w)')
      <4>1. PICK e \in Ids, file \in File : LoadUpload(w, e, file)
        BY <1>6
      <4>2. req'[w].step = "read"
        BY <4>1, <1>1 DEF LoadUpload, Begin, TypeOK
      <4> QED
        BY <4>2 DEF Uploading
    <3> QED
      BY <1>1, <1>6, <3>1, PathsStep
  <2>3. PICK e \in Ids : Paths(w)' = {req'[w].path, rows[e].path} /\ req'[w].row = rows[e]
    BY <2>2
  <2>4. /\ req'[w].path # req'[w].row.path
        /\ \A i \in Ids : rows[i].path # req'[w].path
        /\ \A x \in Worker : req'[w].path \notin Paths(x)
    BY <1>1, <2>2, <2>3, FreshKeys
  <2>5. \A x \in Worker : Uploading(x)' =>
          /\ req'[x].path # req'[x].row.path
          /\ \A i \in Ids : rows[i].path # req'[x].path
    BY <1>1, <1>2, <1>3, <2>4 DEF KeysApart
  <2>6. ASSUME NEW x \in Worker, Uploading(x)', NEW y \in Worker \ {x}
        PROVE  req'[x].path \notin Paths(y)'
    <3>1. CASE x = w
      BY <1>3, <2>4, <3>1
    <3>2. CASE x # w /\ y = w
      <4>1. Uploading(x) /\ req'[x].path = req[x].path
        BY <1>2, <1>3, <2>6, <3>2
      <4>2. req[x].path # rows[e].path
        BY <1>1, <4>1 DEF KeysApart
      <4>3. req[x].path # req'[w].path
        BY <1>5, <2>4, <4>1
      <4> QED
        BY <2>3, <3>2, <4>1, <4>2, <4>3
    <3>3. CASE x # w /\ y # w
      BY <1>1, <1>2, <1>3, <2>6, <3>3 DEF KeysApart
    <3> QED
      BY <3>1, <3>2, <3>3
  <2>7. \A d, i \in Ids : d # i /\ rows[d].path = rows[i].path => rows[d].path = None
    BY <1>1 DEF KeysApart
  <2> QED
    BY <2>1, <2>5, <2>6, <2>7 DEF KeysApart
<1>7. CASE \E e \in Ids : LoadDelete(w, e)
  <2>1. rows' = rows /\ Ids' = Ids
    BY <1>7 DEF LoadDelete, Ids
  <2>2. PICK e \in Ids : LoadDelete(w, e)
    BY <1>7
  <2>3. req'[w] = [step |-> "condemned", evidence |-> e, path |-> rows[e].path]
    BY <2>2, <1>1 DEF LoadDelete, Begin, TypeOK
  <2>4. ~Uploading(w)' /\ Paths(w)' = {rows[e].path}
    BY <2>3 DEF Uploading, Paths, Idle
  <2>5. ASSUME NEW x \in Worker, Uploading(x)'
        PROVE  /\ req'[x].path # req'[x].row.path
               /\ \A i \in Ids : rows[i].path # req'[x].path
               /\ \A y \in Worker \ {x} : req'[x].path \notin Paths(y)'
    <3>1. x # w /\ Uploading(x) /\ req'[x] = req[x]
      BY <1>2, <1>3, <2>4, <2>5
    <3> QED
      BY <1>1, <1>3, <2>4, <3>1 DEF KeysApart
  <2> QED
    BY <1>1, <2>1, <2>5 DEF KeysApart
<1>8. CASE /\ ~(\E e \in Ids, file \in File : LoadUpload(w, e, file))
           /\ ~(\E e \in Ids : LoadDelete(w, e))
  <2>1. /\ \A x \in Worker : Paths(x)' \subseteq Paths(x)
        /\ Uploading(w)' => /\ Uploading(w) /\ req'[w].path = req[w].path
                            /\ req'[w].row = req[w].row
    BY <1>1, <1>8, PathsStep
  <2>2. \A x \in Worker : Uploading(x)' => /\ Uploading(x) /\ req'[x].path = req[x].path
                                           /\ req'[x].row = req[x].row
    BY <1>2, <1>3, <2>1
  <2>3. \A x \in Worker : Uploading(x)' =>
          /\ req'[x].path # req'[x].row.path
          /\ \A y \in Worker \ {x} : req'[x].path \notin Paths(y)'
    BY <1>1, <2>1, <2>2 DEF KeysApart
  <2>4. CommitUpload(w) => Uploading(w) /\ ~Uploading(w)'
    BY <1>1 DEF CommitUpload, End, Uploading, TypeOK, Idle
  <2>5. \A x \in Worker : Uploading(x)' => req'[x].path # None
    BY <1>1, RequestShape, <2>2, NoneAssumption DEF UploadRequest
  <2>6. ASSUME NEW x \in Worker, Uploading(x)', NEW i \in Ids'
        PROVE  rows'[i].path # req'[x].path
    <3>1. CASE rows' = rows
      BY <1>1, <2>2, <2>6, <3>1 DEF KeysApart, Ids
    <3>2. CASE rows'[i].path = None
      BY <2>5, <2>6, <3>2
    <3>3. CASE i \in Ids /\ rows'[i] = rows[i]
      BY <1>1, <2>2, <2>6, <3>3 DEF KeysApart
    <3>4. CASE CommitUpload(w) /\ rows'[i].path = req[w].path
      <4>1. x # w /\ req[w].path \in Paths(w)
        BY <1>5, <2>4, <2>6, <3>4
      <4> QED
        BY <1>1, <2>2, <2>6, <3>4, <4>1 DEF KeysApart
    <3> QED
      BY <3>1, <3>2, <3>3, <3>4, RowsStep
  <2>7. ASSUME NEW d \in Ids', NEW i \in Ids', d # i, rows'[d].path = rows'[i].path
        PROVE  rows'[d].path = None
    <3>1. CASE rows' = rows
      BY <1>1, <2>7, <3>1 DEF KeysApart, Ids
    <3>2. CASE d \in Ids /\ rows'[d] = rows[d] /\ i \in Ids /\ rows'[i] = rows[i]
      BY <1>1, <2>7, <3>2 DEF KeysApart
    <3>3. CASE d \in Ids /\ rows'[d] = rows[d] /\ CommitUpload(w) /\ rows'[i].path = req[w].path
      BY <1>1, <2>4, <2>7, <3>3 DEF KeysApart
    <3>4. CASE i \in Ids /\ rows'[i] = rows[i] /\ CommitUpload(w) /\ rows'[d].path = req[w].path
      BY <1>1, <2>4, <2>7, <3>4 DEF KeysApart
    <3> QED
      BY <2>7, <3>1, <3>2, <3>3, <3>4, RowsStep
  <2> QED
    BY <2>3, <2>6, <2>7 DEF KeysApart
<1> QED
  BY <1>6, <1>7, <1>8
LEMMA ObjectsStep ==
  ASSUME NEW w \in Worker, Step(w)
  PROVE  objects' = objects \/ PutObject(w) \/ RemoveObject(w)
BY DEF Step, Register, Upload, LoadUpload, FlushUpload, Stale, CommitUpload, Delete,
       LoadDelete, RemoveRefused, FlushDelete, CommitDelete, Abort

LEMMA StoreStillFollows ==
  ASSUME IInv, NEW w \in Worker, Step(w)
  PROVE  StoreFollows'
<1>1. TypeOK /\ KeysApart /\ StoreFollows
  BY DEF IInv
<1>2. \A x \in Worker \ {w} : req'[x] = req[x]
  BY <1>1, OthersUntouched
<1>3. CASE PutObject(w)
  <2>1. /\ req[w] \in UploadRequest /\ Uploading(w)
        /\ req'[w].path = req[w].path /\ req'[w].file = req[w].file
        /\ req'[w].step = "stored"
    BY <1>1, <1>3, RequestShape DEF PutObject, Uploading, TypeOK, UploadRequest
  <2>2. /\ DOMAIN objects' = DOMAIN objects \cup {req[w].path}
        /\ objects'[req[w].path] = req[w].file
        /\ \A k \in DOMAIN objects : k # req[w].path => objects'[k] = objects[k]
    BY <1>3 DEF PutObject
  <2>3. \A x \in Worker \ {w} : req[x].step \in {"stored", "flushed", "removed", "deleted"}
                                  => req[x].path # req[w].path
    <3>1. \A x \in Worker : req[x].step \in {"stored", "flushed", "removed", "deleted"}
                              => req[x].path \in Paths(x)
      BY DEF Paths, Idle
    <3> QED
      BY <1>1, <2>1, <3>1 DEF KeysApart
  <2> QED
    BY <1>1, <1>2, <2>1, <2>2, <2>3 DEF StoreFollows
<1>4. CASE RemoveObject(w)
  <2>1. /\ req[w] \in DeleteRequest
        /\ req'[w].path = req[w].path /\ req'[w].step = "removed"
    BY <1>1, <1>4, RequestShape DEF RemoveObject, TypeOK, DeleteRequest
  <2>2. /\ DOMAIN objects' = DOMAIN objects \ {req[w].path}
        /\ \A k \in DOMAIN objects' : objects'[k] = objects[k]
    BY <1>4 DEF RemoveObject
  <2>3. \A x \in Worker \ {w} : req[x].step \in {"stored", "flushed"}
                                  => req[x].path # req[w].path
    <3>1. req[w].path \in Paths(w)
      BY <1>1, <2>1, RequestShape
    <3> QED
      BY <1>1, <3>1 DEF KeysApart, Uploading
  <2> QED
    BY <1>1, <1>2, <2>1, <2>2, <2>3 DEF StoreFollows
<1>5. CASE objects' = objects /\ ~PutObject(w) /\ ~RemoveObject(w)
  <2> DEFINE Held == /\ req'[w].step \in {"stored", "flushed"} =>
                          /\ req[w].step \in {"stored", "flushed"}
                          /\ req'[w].path = req[w].path /\ req'[w].file = req[w].file
                     /\ req'[w].step \in {"removed", "deleted"} =>
                          /\ req[w].step \in {"removed", "deleted"}
                          /\ req'[w].path = req[w].path
  <2>1. Held
    <3>1. CASE \E e \in Evidence : Register(w, e)
      BY <3>1 DEF Register
    <3>2. CASE \E e \in Ids, file \in File : LoadUpload(w, e, file)
      BY <1>1, <3>2 DEF LoadUpload, Begin, TypeOK
    <3>3. CASE FlushUpload(w)
      BY <1>1, <3>3, RequestShape DEF FlushUpload, Uploading, TypeOK, UploadRequest
    <3>4. CASE CommitUpload(w) \/ CommitDelete(w) \/ Abort(w) \/ Stale(w)
      BY <1>1, <3>4 DEF CommitUpload, CommitDelete, Abort, Stale, End, TypeOK, Idle
    <3>5. CASE \E e \in Ids : LoadDelete(w, e)
      BY <1>1, <3>5 DEF LoadDelete, Begin, TypeOK
    <3>6. CASE RemoveRefused(w)
      BY <1>1, <3>6, RequestShape DEF RemoveRefused, TypeOK, DeleteRequest
    <3>7. CASE FlushDelete(w)
      BY <1>1, <3>7, RequestShape DEF FlushDelete, TypeOK, DeleteRequest
    <3> QED
      BY <1>5, <3>1, <3>2, <3>3, <3>4, <3>5, <3>6, <3>7 DEF Step, Upload, Delete
  <2> QED
    BY <1>1, <1>2, <1>5, <2>1 DEF StoreFollows
<1> QED
  BY <1>3, <1>4, <1>5, ObjectsStep

LEMMA DeletersStillKnow ==
  ASSUME IInv, NEW w \in Worker, Step(w)
  PROVE  DeletersKnow'
<1>1. TypeOK /\ KeysApart /\ DeletersKnow
  BY DEF IInv
<1>2. \A x \in Worker \ {w} : req'[x] = req[x]
  BY <1>1, OthersUntouched
<1>3. doomed \subseteq doomed'
  BY DEF Step, Register, Upload, LoadUpload, PutObject, FlushUpload, Stale, CommitUpload,
         Delete, LoadDelete, RemoveObject, RemoveRefused, FlushDelete, CommitDelete, Abort
<1>4. CASE \E e \in Ids : LoadDelete(w, e)
  <2>1. PICK e \in Ids : LoadDelete(w, e)
    BY <1>4
  <2>2. /\ req'[w] = [step |-> "condemned", evidence |-> e, path |-> rows[e].path]
        /\ rows' = rows /\ Ids' = Ids /\ e \in doomed'
    BY <1>1, <2>1 DEF LoadDelete, Begin, TypeOK, Ids
  <2>3. \A i \in Ids : rows[e].path # None /\ rows[i].path = rows[e].path => i = e
    BY <1>1 DEF KeysApart
  <2> QED
    BY <1>1, <1>2, <1>3, <2>2, <2>3 DEF DeletersKnow, Deleting
<1>5. CASE ~(\E e \in Ids : LoadDelete(w, e))
  <2>1. \A x \in Worker : Deleting(x)' =>
          Deleting(x) /\ req'[x].evidence = req[x].evidence /\ req'[x].path = req[x].path
    <3>1. Deleting(w)' =>
            Deleting(w) /\ req'[w].evidence = req[w].evidence /\ req'[w].path = req[w].path
      <4>1. CASE \E e \in Evidence : Register(w, e)
        BY <4>1 DEF Register, Deleting
      <4>2. CASE \E e \in Ids, file \in File : LoadUpload(w, e, file)
        BY <1>1, <4>2 DEF LoadUpload, Begin, TypeOK, Deleting
      <4>3. CASE PutObject(w) \/ FlushUpload(w)
        BY <1>1, <4>3, RequestShape DEF PutObject, FlushUpload, Uploading, TypeOK,
           UploadRequest, Deleting
      <4>4. CASE CommitUpload(w) \/ CommitDelete(w) \/ Abort(w) \/ Stale(w)
        BY <1>1, <4>4 DEF CommitUpload, CommitDelete, Abort, Stale, End, TypeOK, Idle, Deleting
      <4>5. CASE RemoveObject(w) \/ RemoveRefused(w)
        BY <1>1, <4>5, RequestShape DEF RemoveObject, RemoveRefused, TypeOK, DeleteRequest,
           Deleting
      <4>6. CASE FlushDelete(w)
        BY <1>1, <4>6, RequestShape DEF FlushDelete, TypeOK, DeleteRequest, Deleting
      <4> QED
        BY <1>5, <4>1, <4>2, <4>3, <4>4, <4>5, <4>6 DEF Step, Upload, Delete
    <3> QED
      BY <1>2, <3>1 DEF Deleting
  <2>2. ASSUME NEW x \in Worker, Deleting(x)', NEW i \in Ids',
               req'[x].path # None, rows'[i].path = req'[x].path
        PROVE  i = req'[x].evidence
    <3>1. CASE i \in Ids /\ rows'[i] = rows[i]
      BY <1>1, <2>1, <2>2, <3>1 DEF DeletersKnow
    <3>2. CASE CommitUpload(w) /\ rows'[i].path = req[w].path
      <4>1. Uploading(w) /\ x # w
        BY <2>1, <2>2, <3>2 DEF CommitUpload, Uploading, Deleting
      <4>2. req[x].path \in Paths(x)
        BY <2>1, <2>2 DEF Paths, Deleting, Idle
      <4> QED
        BY <1>1, <2>1, <2>2, <3>2, <4>1, <4>2 DEF KeysApart
    <3>3. CASE rows' = rows
      BY <1>1, <2>1, <2>2, <3>3 DEF DeletersKnow, Ids
    <3> QED
      BY <2>2, <3>1, <3>2, <3>3, RowsStep
  <2> QED
    BY <1>1, <1>3, <2>1, <2>2 DEF DeletersKnow
<1> QED
  BY <1>4, <1>5
LEMMA AloneStillKnows ==
  ASSUME IInv, NEW w \in Worker, Step(w)
  PROVE  AloneKnows'
<1>1. TypeOK /\ AloneKnows
  BY DEF IInv
<1>2. \A x \in Worker \ {w} : req'[x] = req[x]
  BY <1>1, OthersUntouched
<1>3. CASE \/ \E e \in Evidence : Register(w, e)
           \/ CommitUpload(w) \/ CommitDelete(w)
  BY <1>3 DEF Register, CommitUpload, CommitDelete, End, AloneKnows
<1>4. CASE Abort(w) \/ Stale(w)
  <2>1. rows' = rows /\ Ids' = Ids /\ alone' = alone \ {w}
    BY <1>4 DEF Abort, Stale, Ids
  <2> QED
    BY <1>1, <1>2, <2>1 DEF AloneKnows, Uploading, Deleting, TypeOK
<1>5. CASE \E e \in Ids, file \in File : LoadUpload(w, e, file)
  <2>1. PICK e \in Ids, file \in File : LoadUpload(w, e, file)
    BY <1>5
  <2>2. /\ req'[w].step = "read" /\ req'[w].evidence = e /\ req'[w].row = rows[e]
        /\ rows' = rows /\ Ids' = Ids /\ alone' = alone \cup {w}
    BY <1>1, <2>1 DEF LoadUpload, Begin, TypeOK, Ids
  <2> QED
    BY <1>1, <1>2, <2>2 DEF AloneKnows, Uploading, Deleting, TypeOK
<1>6. CASE \E e \in Ids : LoadDelete(w, e)
  <2>1. PICK e \in Ids : LoadDelete(w, e)
    BY <1>6
  <2>2. /\ req'[w] = [step |-> "condemned", evidence |-> e, path |-> rows[e].path]
        /\ rows' = rows /\ Ids' = Ids /\ alone' = alone \cup {w}
    BY <1>1, <2>1 DEF LoadDelete, Begin, TypeOK, Ids
  <2> QED
    BY <1>1, <1>2, <2>2 DEF AloneKnows, Uploading, Deleting, TypeOK
<1>7. CASE PutObject(w) \/ FlushUpload(w)
  <2>1. /\ rows' = rows /\ Ids' = Ids /\ alone' = alone
        /\ Uploading(w) /\ ~Deleting(w)' /\ req[w] # Idle
        /\ req'[w].evidence = req[w].evidence /\ req'[w].row = req[w].row
    BY <1>1, <1>7, RequestShape DEF PutObject, FlushUpload, Uploading, Deleting, TypeOK,
       UploadRequest, Ids
  <2> QED
    BY <1>1, <1>2, <2>1 DEF AloneKnows, Uploading, Deleting, TypeOK
<1>8. CASE RemoveObject(w) \/ RemoveRefused(w) \/ FlushDelete(w)
  <2>1. /\ rows' = rows /\ Ids' = Ids /\ alone' = alone
    BY <1>8 DEF RemoveObject, RemoveRefused, FlushDelete, Ids
  <2>2. /\ req[w] \in DeleteRequest /\ req[w].step # "idle"
    BY <1>1, <1>8, RequestShape DEF RemoveObject, RemoveRefused, FlushDelete
  <2>3. /\ req'[w].evidence = req[w].evidence /\ req'[w].path = req[w].path
        /\ req'[w].step \in {"removed", "refused", "deleted", "left"}
    BY <1>1, <1>8, <2>2 DEF RemoveObject, RemoveRefused, FlushDelete, TypeOK, DeleteRequest
  <2>4. Deleting(w) /\ ~Uploading(w)' /\ req[w] # Idle
    BY <2>2, <2>3 DEF Deleting, Uploading, DeleteRequest, Idle
  <2> QED
    BY <1>1, <1>2, <2>1, <2>3, <2>4 DEF AloneKnows, Uploading, Deleting, TypeOK
<1> QED
  BY <1>3, <1>4, <1>5, <1>6, <1>7, <1>8 DEF Step, Upload, Delete

LEMMA FileStillKept ==
  ASSUME IInv, NEW w \in Worker, Step(w)
  PROVE  FileKept'
<1>1. TypeOK /\ KeysApart /\ StoreFollows /\ DeletersKnow /\ FileKept
  BY DEF IInv
<1>2. doomed \subseteq doomed'
  BY DEF Step, Register, Upload, LoadUpload, PutObject, FlushUpload, Stale, CommitUpload,
         Delete, LoadDelete, RemoveObject, RemoveRefused, FlushDelete, CommitDelete, Abort
<1> SUFFICES ASSUME NEW e \in Ids' \ doomed', rows'[e].path # None
             PROVE  rows'[e].path \in DOMAIN objects'
  BY DEF FileKept
<1>3. CASE PutObject(w)
  BY <1>1, <1>2, <1>3 DEF PutObject, FileKept, Ids
<1>4. CASE RemoveObject(w)
  <2>1. /\ rows' = rows /\ Ids' = Ids
        /\ DOMAIN objects' = DOMAIN objects \ {req[w].path}
    BY <1>4 DEF RemoveObject, Ids
  <2>2. Deleting(w)
    BY <1>4 DEF RemoveObject, Deleting
  <2>3. rows[e].path # req[w].path
    BY <1>1, <1>2, <2>1, <2>2 DEF DeletersKnow
  <2> QED
    BY <1>1, <1>2, <2>1, <2>3 DEF FileKept
<1>5. CASE objects' = objects
  <2>1. CASE rows' = rows
    BY <1>1, <1>2, <1>5, <2>1 DEF FileKept, Ids
  <2>2. CASE e \in Ids /\ rows'[e] = rows[e]
    BY <1>1, <1>2, <1>5, <2>2 DEF FileKept
  <2>3. CASE CommitUpload(w) /\ rows'[e].path = req[w].path
    BY <1>1, <1>5, <2>3 DEF CommitUpload, StoreFollows
  <2> QED
    BY <2>1, <2>2, <2>3, RowsStep
<1> QED
  BY <1>3, <1>4, <1>5, ObjectsStep

LEMMA StutterIInv == ASSUME IInv, UNCHANGED vars PROVE IInv'
<1> USE DEF IInv, Uploading, Deleting, Ids, vars
<1>1. TypeOK'
  BY DEF TypeOK
<1>2. KeysApart'
  BY DEF KeysApart, Paths
<1>3. StoreFollows' /\ DeletersKnow'
  BY DEF StoreFollows, DeletersKnow
<1>4. AloneKnows' /\ FileKept'
  BY DEF AloneKnows, FileKept
<1> QED
  BY <1>1, <1>2, <1>3, <1>4

LEMMA StepIInv == ASSUME IInv, [Next]_vars PROVE IInv'
<1>1. CASE UNCHANGED vars
  BY <1>1, StutterIInv
<1>2. CASE Next
  <2>1. PICK w \in Worker : Step(w)
    BY <1>2 DEF Next, Step
  <2> QED
    BY <2>1, StepType, KeysStayApart, StoreStillFollows, DeletersStillKnow,
       AloneStillKnows, FileStillKept DEF IInv
<1> QED
  BY <1>1, <1>2

THEOREM Invariance == Spec => []IInv
<1>1. Init => IInv
  BY InitIInv
<1>2. IInv /\ [Next]_vars => IInv'
  BY StepIInv
<1> QED
  BY <1>1, <1>2, PTL DEF Spec
-----------------------------------------------------------------------------
(* What follows                                                            *)

\* Rows, objects and requests keep their shapes, whichever columns an upload's
\* UPDATE leaves out (evidence.py, upload_evidence_file).
THEOREM TypeCorrect == Spec => []TypeOK
<1>1. IInv => TypeOK
  BY DEF IInv
<1> QED
  BY <1>1, Invariance, PTL

\* The file of a row that says it is uploaded is in the store, unless some request
\* has started to delete that evidence (evidence.py, upload_evidence_file and
\* delete_evidence).
THEOREM FilesAreKept == Spec => []FileKept
<1>1. IInv => FileKept
  BY DEF IInv
<1> QED
  BY <1>1, Invariance, PTL

\* An upload that nobody overtakes leaves a row that describes its file, whatever
\* overlapping uploads had made of the row (evidence.py, upload_evidence_file).
THEOREM UndisturbedUpload == Spec => UploadDescribes
<1>1. ASSUME IInv, NEW w \in alone, CommitUpload(w)
      PROVE  LET row == rows'[req[w].evidence]
             IN  /\ row.path \in DOMAIN objects
                 /\ objects[row.path].encrypted = row.encrypted
                 /\ objects[row.path].matches = row.verified
                 /\ objects[row.path].matches = ~row.mismatch
  <2>1. /\ w \in Worker /\ req[w] \in UploadRequest /\ Uploading(w) /\ req[w] # Idle
        /\ rows \in [Ids -> Row]
    BY <1>1, RequestShape DEF IInv, TypeOK, CommitUpload, Uploading
  <2>2. req[w].evidence \in Ids /\ rows[req[w].evidence] = req[w].row
    BY <1>1, <2>1 DEF IInv, AloneKnows
  <2>3. req[w].path \in DOMAIN objects /\ objects[req[w].path] = req[w].file
    BY <1>1, <2>1 DEF IInv, StoreFollows, CommitUpload
  <2>4. rows'[req[w].evidence] =
          Overlay(rows[req[w].evidence],
                  Changed(req[w].row, Described(req[w].path, req[w].file)))
    BY <1>1, <2>1, <2>2 DEF CommitUpload
  <2>5. rows'[req[w].evidence] = Described(req[w].path, req[w].file)
    BY <2>1, <2>2, <2>4, UploadedAlone DEF UploadRequest
  <2>6. req[w].file.matches \in BOOLEAN
    BY <2>1 DEF UploadRequest, Object
  <2> DEFINE row == rows'[req[w].evidence]
             matches == req[w].file.matches
  <2>7. /\ row.path = req[w].path /\ row.encrypted = req[w].file.encrypted
        /\ row.verified = matches /\ row.mismatch = ~matches
    BY <2>5 DEF Described
  <2> HIDE DEF row, matches
  <2>8. matches \in BOOLEAN => matches = ~row.mismatch
    BY <2>7
  <2>9. objects[row.path].matches = matches
    BY <2>3, <2>7 DEF matches
  <2> QED
    BY <2>3, <2>6, <2>7, <2>8, <2>9 DEF row, matches
<1>2. IInv /\ [Next]_vars =>
        [\A w \in alone : CommitUpload(w) =>
           LET row == rows'[req[w].evidence]
           IN  /\ row.path \in DOMAIN objects
               /\ objects[row.path].encrypted = row.encrypted
               /\ objects[row.path].matches = row.verified
               /\ objects[row.path].matches = ~row.mismatch]_vars
  BY <1>1
<1> QED
  BY <1>2, Invariance, PTL DEF Spec, UploadDescribes

\* A deletion that nobody overtakes leaves neither the row nor its object, unless
\* the store refused (evidence.py, delete_evidence; storage.py, delete_object).
THEOREM UndisturbedDelete == Spec => DeleteComplete
<1>1. ASSUME IInv, NEW w \in alone, CommitDelete(w)
      PROVE  LET e == req[w].evidence
             IN  /\ e \in Ids /\ e \notin Ids'
                 /\ req[w].step = "deleted" => rows[e].path \notin DOMAIN objects
  <2>1. w \in Worker /\ Deleting(w) /\ req[w] # Idle
    BY <1>1, RequestShape DEF IInv, TypeOK, CommitDelete, Deleting
  <2>2. req[w].evidence \in Ids /\ rows[req[w].evidence].path = req[w].path
    BY <1>1, <2>1 DEF IInv, AloneKnows
  <2>3. Ids' = Ids \ {req[w].evidence}
    BY <1>1 DEF CommitDelete, Ids
  <2>4. req[w].step = "deleted" => req[w].path \notin DOMAIN objects
    BY <1>1, <2>1 DEF IInv, StoreFollows
  <2> QED
    BY <2>2, <2>3, <2>4
<1>2. IInv /\ [Next]_vars =>
        [\A w \in alone : CommitDelete(w) =>
           LET e == req[w].evidence
           IN  /\ e \in Ids /\ e \notin Ids'
               /\ req[w].step = "deleted" => rows[e].path \notin DOMAIN objects]_vars
  BY <1>1
<1> QED
  BY <1>2, Invariance, PTL DEF Spec, DeleteComplete
=============================================================================

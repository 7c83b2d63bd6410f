-------------------------- MODULE AlertQueueProofs ---------------------------
(***************************************************************************)
(* Proofs about AlertQueue, for any number of overlapping requests, any    *)
(* keys, reasons, cases and alerts.                                        *)
(***************************************************************************)
EXTENDS AlertQueue, FiniteSetTheorems, TLAPS

-----------------------------------------------------------------------------
(* Shapes of requests and of the steps that touch the table alerts         *)

Triaging(w) == req[w].step \in {"loaded", "flushed"}

LEMMA RequestShape ==
  ASSUME TypeOK, NEW w \in Worker
  PROVE  /\ req[w].step = "absent" => /\ req[w] \in [step : {"absent"}, key : Key]
                                      /\ req[w].key \in Key
         /\ Triaging(w) =>
              /\ DOMAIN req[w] = {"step", "alert", "case", "write"}
              /\ req[w].alert \in Ids
              /\ req[w].case \in Case \cup {None}
              /\ \A c \in DOMAIN req[w].write :
                   c \in DOMAIN Column /\ req[w].write[c] \in Column[c]
         /\ req[w].step \in {"idle", "absent", "loaded", "flushed"}
         /\ req[w].step = "idle" <=> req[w] = Idle
BY DEF TypeOK, Triaging, Idle

\* A row keeps its shape under an UPDATE of some of its columns.
LEMMA OverlayRow ==
  ASSUME NEW row \in Row, NEW write,
         \A c \in DOMAIN write : c \in DOMAIN Column /\ write[c] \in Column[c]
  PROVE  /\ Overlay(row, write) \in Row
         /\ Overlay(row, write).key = row.key
         /\ \A c \in {"status", "ocsf", "reason", "case"} :
              Overlay(row, write)[c] = IF c \in DOMAIN write THEN write[c] ELSE row[c]
<1>1. DOMAIN row = {"key", "status", "ocsf", "reason", "case"}
  BY DEF Row
<1>2. DOMAIN Column = {"status", "ocsf", "reason", "case"}
  BY DEF Column
<1>3. \A c \in DOMAIN row :
        Overlay(row, write)[c] = IF c \in DOMAIN write THEN write[c] ELSE row[c]
  BY DEF Overlay
<1>4. /\ Overlay(row, write).key \in Key
      /\ Overlay(row, write).status \in Status
      /\ Overlay(row, write).ocsf \in Ocsf
      /\ Overlay(row, write).reason \in Reason \cup {None}
      /\ Overlay(row, write).case \in Case \cup {None}
  BY <1>1, <1>2, <1>3 DEF Row, Column
<1>5. Overlay(row, write) =
        [key |-> Overlay(row, write).key, status |-> Overlay(row, write).status,
         ocsf |-> Overlay(row, write).ocsf, reason |-> Overlay(row, write).reason,
         case |-> Overlay(row, write).case]
  BY <1>1 DEF Overlay
<1>6. Overlay(row, write) \in Row
  BY <1>4, <1>5 DEF Row
<1> QED
  BY <1>1, <1>2, <1>3, <1>6

LEMMA CommitShape ==
  ASSUME TypeOK, NEW w \in Worker, Commit(w)
  PROVE  LET a == req[w].alert
             wr == req[w].write
         IN  /\ Triaging(w)
             /\ a \in Ids /\ Ids' = Ids
             /\ \A b \in Ids \ {a} : alerts'[b] = alerts[b]
             /\ alerts'[a] = Overlay(alerts[a], wr)
             /\ alerts' \in [Ids -> Row]
             /\ alerts'[a].key = alerts[a].key
             /\ \A c \in {"status", "ocsf", "reason", "case"} :
                  alerts'[a][c] = IF c \in DOMAIN wr THEN wr[c] ELSE alerts[a][c]
<1> DEFINE a == req[w].alert
           wr == req[w].write
<1>1. Triaging(w)
  BY DEF Commit, Triaging
<1>2. /\ a \in Ids
      /\ \A c \in DOMAIN wr : c \in DOMAIN Column /\ wr[c] \in Column[c]
  BY <1>1, RequestShape
<1>3. alerts \in [Ids -> Row] /\ alerts[a] \in Row
  BY <1>2 DEF TypeOK
<1>4. alerts' = [alerts EXCEPT ![a] = Overlay(alerts[a], wr)]
  BY DEF Commit
<1>5. alerts'[a] = Overlay(alerts[a], wr) /\ \A b \in Ids \ {a} : alerts'[b] = alerts[b]
  BY <1>2, <1>3, <1>4 DEF Ids
<1>6. alerts' \in [Ids -> Row]
  BY <1>2, <1>3, <1>4, OverlayRow
<1>7. Ids' = Ids
  BY <1>6 DEF Ids
<1> HIDE DEF a, wr
<1>8. /\ Overlay(alerts[a], wr).key = alerts[a].key
      /\ \A c \in {"status", "ocsf", "reason", "case"} :
           Overlay(alerts[a], wr)[c] = IF c \in DOMAIN wr THEN wr[c] ELSE alerts[a][c]
  BY <1>2, <1>3, OverlayRow
<1>9. /\ Triaging(w)
      /\ a \in Ids /\ Ids' = Ids
      /\ \A b \in Ids \ {a} : alerts'[b] = alerts[b]
      /\ alerts'[a] = Overlay(alerts[a], wr)
      /\ alerts' \in [Ids -> Row]
      /\ alerts'[a].key = alerts[a].key
      /\ \A c \in {"status", "ocsf", "reason", "case"} :
           alerts'[a][c] = IF c \in DOMAIN wr THEN wr[c] ELSE alerts[a][c]
  BY <1>1, <1>2, <1>5, <1>6, <1>7, <1>8
<1> QED
  BY <1>9 DEF a, wr

LEMMA InsertShape ==
  ASSUME TypeOK, NEW w \in Worker, IngestInsert(w)
  PROVE  /\ req[w].key \in Key
         /\ \E a \in Alert \ Ids, doc \in Ocsf :
              /\ Ids' = Ids \cup {a}
              /\ alerts'[a] = NewAlert(req[w].key, doc)
              /\ \A b \in Ids : alerts'[b] = alerts[b]
              /\ alerts' \in [Ids' -> Row]
<1>1. req[w].key \in Key
  BY RequestShape DEF IngestInsert
<1>2. PICK a \in Alert \ Ids, doc \in Ocsf :
        alerts' = [b \in Ids \cup {a} |->
                     IF b = a THEN NewAlert(req[w].key, doc) ELSE alerts[b]]
  BY DEF IngestInsert
<1>3. Ids' = Ids \cup {a}
  BY <1>2 DEF Ids
<1>4. NewAlert(req[w].key, doc) \in Row
  BY <1>1 DEF NewAlert, Row, Status
<1>5. alerts' \in [Ids' -> Row]
  BY <1>2, <1>3, <1>4 DEF TypeOK
<1> QED
  BY <1>1, <1>2, <1>3, <1>5

\* What triage assigns is of the columns' types.
LEMMA AssignedTypes ==
  ASSUME NEW row \in Row
  PROVE  /\ \A c \in Case :
              /\ DOMAIN Promotion(row, c) = {"status", "case", "ocsf"}
              /\ \A d \in DOMAIN Promotion(row, c) :
                   d \in DOMAIN Column /\ Promotion(row, c)[d] \in Column[d]
         /\ \A r \in Reason :
              /\ DOMAIN Dismissal(row, r) = {"status", "reason", "ocsf"}
              /\ \A d \in DOMAIN Dismissal(row, r) :
                   d \in DOMAIN Column /\ Dismissal(row, r)[d] \in Column[d]
<1>1. /\ DOMAIN Column = {"status", "ocsf", "reason", "case"}
      /\ Column["status"] = Status /\ Column["ocsf"] = Ocsf
      /\ Column["reason"] = Reason \cup {None} /\ Column["case"] = Case \cup {None}
  BY DEF Column
<1>2. ASSUME NEW c \in Case
      PROVE  /\ DOMAIN Promotion(row, c) = {"status", "case", "ocsf"}
             /\ Promotion(row, c)["status"] \in Status
             /\ Promotion(row, c)["case"] \in Case
             /\ Promotion(row, c)["ocsf"] \in Ocsf
  <2>1. row.ocsf \in Ocsf
    BY DEF Row
  <2> QED
    BY <2>1 DEF Promotion, Status, Ocsf
<1>3. ASSUME NEW r \in Reason
      PROVE  /\ DOMAIN Dismissal(row, r) = {"status", "reason", "ocsf"}
             /\ Dismissal(row, r)["status"] \in Status
             /\ Dismissal(row, r)["reason"] \in Reason
             /\ Dismissal(row, r)["ocsf"] \in Ocsf
  BY DEF Dismissal, Status, Ocsf
<1> QED
  BY <1>1, <1>2, <1>3

\* A handler that has just loaded its alert.
Loaded(row, a, c, wanted) == [step |-> "loaded", alert |-> a, case |-> c,
                              write |-> Changed(row, wanted)]

LEMMA PromoteShape ==
  ASSUME TypeOK, NEW w \in Worker, NEW a \in Ids, Promote(w, a)
  PROVE  \E c \in Case :
           /\ req' = [req EXCEPT ![w] = Loaded(alerts[a], a, c, Promotion(alerts[a], c))]
           /\ alone' = alone \cup {w}
           /\ UNCHANGED <<alerts, cases, entries, lock, failed>>
           /\ req[w] = Idle
BY DEF Promote, Load, Begin, Loaded, TypeOK

LEMMA DismissShape ==
  ASSUME TypeOK, NEW w \in Worker, NEW a \in Ids, NEW r \in Reason, Dismiss(w, a, r)
  PROVE  /\ req' = [req EXCEPT ![w] = Loaded(alerts[a], a, None, Dismissal(alerts[a], r))]
         /\ alone' = alone \cup {w}
         /\ UNCHANGED <<alerts, cases, entries, lock, failed>>
         /\ req[w] = Idle
BY DEF Dismiss, Load, Begin, Loaded
-----------------------------------------------------------------------------
(* Type correctness                                                        *)

LEMMA TypeInit == Init => TypeOK
BY OpenCasesAssumption DEF Init, TypeOK, Ids, Row

\* A request that has loaded its alert is of the right type.
LEMMA LoadedType ==
  ASSUME NEW row \in Row, NEW a, NEW c \in Case \cup {None}, NEW wanted,
         \A d \in DOMAIN wanted : d \in DOMAIN Column /\ wanted[d] \in Column[d]
  PROVE  LET r == Loaded(row, a, c, wanted)
         IN  /\ DOMAIN r = {"step", "alert", "case", "write"}
             /\ r.step = "loaded"
             /\ r.alert = a
             /\ r.case = c
             /\ r.write = Changed(row, wanted)
             /\ \A d \in DOMAIN r.write : d \in DOMAIN Column /\ r.write[d] \in Column[d]
<1>1. \A d \in DOMAIN Changed(row, wanted) :
        d \in DOMAIN Column /\ Changed(row, wanted)[d] \in Column[d]
  BY DEF Changed
<1> QED
  BY <1>1 DEF Loaded

LEMMA TypeStep == TypeOK /\ [Next]_vars => TypeOK'
<1> SUFFICES ASSUME TypeOK, [Next]_vars PROVE TypeOK'
  OBVIOUS
<1> DEFINE ReqOK(r, ids) ==
             \/ r = Idle
             \/ r \in [step : {"absent"}, key : Key]
             \/ /\ DOMAIN r = {"step", "alert", "case", "write"}
                /\ r.step \in {"loaded", "flushed"}
                /\ r.alert \in ids
                /\ r.case \in Case \cup {None}
                /\ \A c \in DOMAIN r.write :
                     c \in DOMAIN Column /\ r.write[c] \in Column[c]
<1>b. \A w \in Worker : ReqOK(req[w], Ids)
  BY DEF TypeOK
<1>1. ASSUME NEW w \in Worker, NEW k \in Key, IngestMiss(w, k) PROVE TypeOK'
  <2>1. \A v \in Worker : req'[v] \in {req[v], [step |-> "absent", key |-> k]}
    BY <1>1 DEF IngestMiss, Begin, TypeOK
  <2>2. \A v \in Worker : ReqOK(req'[v], Ids)
    BY <1>b, <2>1
  <2> QED
    BY <1>1, <2>2 DEF IngestMiss, Begin, TypeOK, Ids
<1>2. ASSUME NEW w \in Worker, NEW k \in Key, IngestAmbiguous(w, k) PROVE TypeOK'
  BY <1>2 DEF IngestAmbiguous, TypeOK, Ids
<1>3. ASSUME NEW w \in Worker, IngestInsert(w) PROVE TypeOK'
  <2>1. Ids \subseteq Ids' /\ Ids' \subseteq Alert /\ alerts' \in [Ids' -> Row]
    BY <1>3, InsertShape DEF TypeOK
  <2>2. \A v \in Worker : req'[v] \in {req[v], Idle}
    BY <1>3 DEF IngestInsert, End, TypeOK
  <2>3. \A v \in Worker : ReqOK(req'[v], Ids')
    BY <1>b, <2>1, <2>2
  <2> QED
    BY <1>3, <2>1, <2>3 DEF IngestInsert, End, TypeOK
<1>4. ASSUME NEW w \in Worker, NEW a \in Ids, Promote(w, a) PROVE TypeOK'
  <2>1. PICK c \in Case :
          /\ req' = [req EXCEPT ![w] = Loaded(alerts[a], a, c, Promotion(alerts[a], c))]
          /\ alone' = alone \cup {w}
          /\ UNCHANGED <<alerts, cases, entries, lock, failed>>
    BY <1>4, PromoteShape
  <2>2. alerts[a] \in Row
    BY DEF TypeOK
  <2> DEFINE r == Loaded(alerts[a], a, c, Promotion(alerts[a], c))
  <2>3. ReqOK(r, Ids)
    BY <2>2, AssignedTypes, LoadedType
  <2> HIDE DEF r
  <2>4. \A v \in Worker : req'[v] \in {req[v], r}
    BY <2>1 DEF r, TypeOK
  <2>5. \A v \in Worker : ReqOK(req'[v], Ids)
    BY <1>b, <2>3, <2>4
  <2> QED
    BY <2>1, <2>5 DEF TypeOK, Ids
<1>5. ASSUME NEW w \in Worker, NEW a \in Ids, NEW q \in Reason, Dismiss(w, a, q)
      PROVE  TypeOK'
  <2>2. alerts[a] \in Row
    BY DEF TypeOK
  <2> DEFINE r == Loaded(alerts[a], a, None, Dismissal(alerts[a], q))
  <2>1. /\ req' = [req EXCEPT ![w] = r]
        /\ alone' = alone \cup {w}
        /\ UNCHANGED <<alerts, cases, entries, lock, failed>>
    BY <1>5, DismissShape
  <2>3. ReqOK(r, Ids)
    BY <2>2, AssignedTypes, LoadedType
  <2> HIDE DEF r
  <2>4. \A v \in Worker : req'[v] \in {req[v], r}
    BY <2>1 DEF TypeOK
  <2>5. \A v \in Worker : ReqOK(req'[v], Ids)
    BY <1>b, <2>3, <2>4
  <2> QED
    BY <2>1, <2>5 DEF TypeOK, Ids
<1>6. ASSUME NEW w \in Worker, Flush(w) PROVE TypeOK'
  <2>1. \A v \in Worker : v # w => req'[v] = req[v]
    BY <1>6 DEF Flush, TypeOK
  <2>2. ReqOK(req'[w], Ids)
    BY <1>6, <1>b DEF Flush, Idle, TypeOK
  <2>3. \A v \in Worker : ReqOK(req'[v], Ids)
    BY <1>b, <2>1, <2>2
  <2>4. lock' \in [Alert -> Worker \cup {None}]
    BY <1>6 DEF Flush, TypeOK
  <2> QED
    BY <1>6, <2>3, <2>4 DEF Flush, TypeOK, Ids
<1>7. ASSUME NEW w \in Worker, Commit(w) PROVE TypeOK'
  <2>1. Ids' = Ids /\ alerts' \in [Ids -> Row] /\ Triaging(w)
    BY <1>7, CommitShape
  <2>2. \A v \in Worker : req'[v] \in {req[v], Idle}
    BY <1>7 DEF Commit, End, TypeOK
  <2>3. \A v \in Worker : ReqOK(req'[v], Ids)
    BY <1>b, <2>2
  <2>4. req[w].alert \in Alert /\ req[w].case \in Case \cup {None}
    BY <2>1, RequestShape DEF TypeOK
  <2>5. cases' \subseteq Case /\ entries' \subseteq Alert \X Case
    BY <1>7, <2>4 DEF Commit, TypeOK
  <2> QED
    BY <1>7, <2>1, <2>3, <2>5 DEF Commit, Release, End, TypeOK
<1>8. ASSUME NEW w \in Worker, Abort(w) PROVE TypeOK'
  <2>1. \A v \in Worker : req'[v] \in {req[v], Idle}
    BY <1>8 DEF Abort, TypeOK
  <2>2. \A v \in Worker : ReqOK(req'[v], Ids)
    BY <1>b, <2>1
  <2> QED
    BY <1>8, <2>2 DEF Abort, Release, TypeOK, Ids
<1>9. CASE UNCHANGED vars
  BY <1>9 DEF vars, TypeOK, Ids
<1> QED
  BY <1>1, <1>2, <1>3, <1>4, <1>5, <1>6, <1>7, <1>8, <1>9 DEF Next

\* Type correctness of ingestion and triage.
THEOREM TypeCorrect == Spec => []TypeOK
<1>1. Init => TypeOK
  BY TypeInit
<1>2. TypeOK /\ [Next]_vars => TypeOK'
  BY TypeStep
<1> QED
  BY <1>1, <1>2, PTL DEF Spec
-----------------------------------------------------------------------------
(* The status of an alert is explained.                                    *)
(*                                                                         *)
(* StatusExplained is not inductive: two requests may have written the     *)
(* columns of one row.  What holds at every step is that the columns a     *)
(* request is about to send, laid over ANY row that has kept its case and  *)
(* its reason, give a row that is explained (Sound), and that a row, once  *)
(* it has a case or a reason, keeps having one (RowsGrow).                 *)

Sound(r, row) ==
  /\ "status" \in DOMAIN r.write =>
       \/ r.write["status"] = "promoted" /\ r.case # None
       \/ /\ r.write["status"] = "dismissed"
          /\ "reason" \in DOMAIN r.write \/ row.reason # None
  /\ r.case # None => "case" \in DOMAIN r.write \/ row.case # None
  /\ "case" \in DOMAIN r.write => r.case # None /\ r.write["case"] = r.case
  /\ "reason" \in DOMAIN r.write => r.write["reason"] # None

WritesSound == \A w \in Worker : Triaging(w) => Sound(req[w], alerts[req[w].alert])

RowsExplained ==
  \A a \in Ids :
    /\ alerts[a].case # None => /\ alerts[a].case \in cases
                                /\ <<a, alerts[a].case>> \in entries
    /\ alerts[a].status = "promoted" => alerts[a].case # None
    /\ alerts[a].status = "dismissed" => alerts[a].reason # None

LEMMA SoundKept ==
  ASSUME NEW r, NEW row, NEW later, Sound(r, row),
         row.case # None => later.case # None,
         row.reason # None => later.reason # None
  PROVE  Sound(r, later)
BY DEF Sound

\* A request that has just loaded its alert is sound for it.
LEMMA SoundLoaded ==
  ASSUME NEW row \in Row, NEW a
  PROVE  /\ \A c \in Case : Sound(Loaded(row, a, c, Promotion(row, c)), row)
         /\ \A r \in Reason : Sound(Loaded(row, a, None, Dismissal(row, r)), row)
<1>1. ASSUME NEW c \in Case PROVE Sound(Loaded(row, a, c, Promotion(row, c)), row)
  BY NoneAssumption DEF Sound, Loaded, Changed, Promotion, Row
<1>2. ASSUME NEW r \in Reason
      PROVE  Sound(Loaded(row, a, None, Dismissal(row, r)), row)
  BY NoneAssumption DEF Sound, Loaded, Changed, Dismissal, Row
<1> QED
  BY <1>1, <1>2

\* Whoever commits, a row that had a case or a reason still has one.
LEMMA RowsGrow ==
  ASSUME TypeOK, WritesSound, NEW w \in Worker, Commit(w), NEW b \in Ids
  PROVE  /\ alerts[b].case # None => alerts'[b].case # None
         /\ alerts[b].reason # None => alerts'[b].reason # None
<1> DEFINE a == req[w].alert
           wr == req[w].write
<1>1. /\ Triaging(w)
      /\ \A d \in Ids \ {a} : alerts'[d] = alerts[d]
      /\ \A c \in {"status", "ocsf", "reason", "case"} :
           alerts'[a][c] = IF c \in DOMAIN wr THEN wr[c] ELSE alerts[a][c]
  BY CommitShape
<1>2. /\ "case" \in DOMAIN wr => wr["case"] # None
      /\ "reason" \in DOMAIN wr => wr["reason"] # None
  BY <1>1 DEF WritesSound, Sound
<1> HIDE DEF a, wr
<1>3. CASE b = a
  BY <1>1, <1>2, <1>3
<1>4. CASE b # a
  BY <1>1, <1>4
<1> QED
  BY <1>3, <1>4

LEMMA SoundStep ==
  ASSUME TypeOK, WritesSound, [Next]_vars
  PROVE  WritesSound'
<1>t. \A w \in Worker : Triaging(w) => req[w].alert \in Ids
  BY RequestShape
<1>1. ASSUME NEW w \in Worker, NEW k \in Key, IngestMiss(w, k) PROVE WritesSound'
  <2>1. \A v \in Worker : req'[v] = req[v] \/ req'[v].step = "absent"
    BY <1>1 DEF IngestMiss, Begin, TypeOK
  <2> QED
    BY <1>1, <2>1 DEF IngestMiss, WritesSound, Triaging
<1>2. ASSUME NEW w \in Worker, NEW k \in Key, IngestAmbiguous(w, k)
      PROVE  WritesSound'
  BY <1>2 DEF IngestAmbiguous, WritesSound, Triaging
<1>3. ASSUME NEW w \in Worker, IngestInsert(w) PROVE WritesSound'
  <2>1. \A v \in Worker : req'[v] = req[v] \/ req'[v] = Idle
    BY <1>3 DEF IngestInsert, End, TypeOK
  <2>2. \A b \in Ids : alerts'[b] = alerts[b]
    BY <1>3, InsertShape
  <2> QED
    BY <1>t, <2>1, <2>2 DEF WritesSound, Triaging, Idle
<1>4. ASSUME NEW w \in Worker, NEW a \in Ids, Promote(w, a) PROVE WritesSound'
  <2>1. PICK c \in Case :
          /\ req' = [req EXCEPT ![w] = Loaded(alerts[a], a, c, Promotion(alerts[a], c))]
          /\ UNCHANGED alerts
    BY <1>4, PromoteShape
  <2> DEFINE r == Loaded(alerts[a], a, c, Promotion(alerts[a], c))
  <2>2. Sound(r, alerts[a]) /\ r.alert = a
    BY SoundLoaded DEF TypeOK, Loaded
  <2> HIDE DEF r
  <2>3. \A v \in Worker : req'[v] \in {req[v], r}
    BY <2>1 DEF r, TypeOK
  <2> QED
    BY <2>1, <2>2, <2>3 DEF WritesSound, Triaging
<1>5. ASSUME NEW w \in Worker, NEW a \in Ids, NEW q \in Reason, Dismiss(w, a, q)
      PROVE  WritesSound'
  <2> DEFINE r == Loaded(alerts[a], a, None, Dismissal(alerts[a], q))
  <2>1. req' = [req EXCEPT ![w] = r] /\ UNCHANGED alerts
    BY <1>5, DismissShape
  <2>2. Sound(r, alerts[a]) /\ r.alert = a
    BY SoundLoaded DEF TypeOK, Loaded
  <2> HIDE DEF r
  <2>3. \A v \in Worker : req'[v] \in {req[v], r}
    BY <2>1 DEF TypeOK
  <2> QED
    BY <2>1, <2>2, <2>3 DEF WritesSound, Triaging
<1>6. ASSUME NEW w \in Worker, Flush(w) PROVE WritesSound'
  <2>1. UNCHANGED alerts /\ \A v \in Worker : v # w => req'[v] = req[v]
    BY <1>6 DEF Flush, TypeOK
  <2>2. /\ Triaging(w)
        /\ req'[w].alert = req[w].alert /\ req'[w].case = req[w].case
        /\ req'[w].write = req[w].write
    BY <1>6, RequestShape DEF Flush, TypeOK, Triaging
  <2>3. Sound(req[w], alerts[req[w].alert])
    BY <2>2 DEF WritesSound
  <2>4. Sound(req'[w], alerts'[req'[w].alert])
    BY <2>1, <2>2, <2>3 DEF Sound
  <2> QED
    BY <2>1, <2>4 DEF WritesSound, Triaging
<1>7. ASSUME NEW w \in Worker, Commit(w) PROVE WritesSound'
  <2>1. \A v \in Worker : req'[v] = req[v] \/ req'[v] = Idle
    BY <1>7 DEF Commit, End, TypeOK
  <2>2. \A v \in Worker :
          Triaging(v) => Sound(req[v], alerts'[req[v].alert])
    BY <1>7, <1>t, RowsGrow, SoundKept DEF WritesSound
  <2> QED
    BY <2>1, <2>2 DEF WritesSound, Triaging, Idle
<1>8. ASSUME NEW w \in Worker, Abort(w) PROVE WritesSound'
  <2>1. \A v \in Worker : req'[v] = req[v] \/ req'[v] = Idle
    BY <1>8 DEF Abort, TypeOK
  <2> QED
    BY <1>8, <2>1 DEF Abort, WritesSound, Triaging, Idle
<1>9. CASE UNCHANGED vars
  BY <1>9 DEF vars, WritesSound, Triaging
<1> QED
  BY <1>1, <1>2, <1>3, <1>4, <1>5, <1>6, <1>7, <1>8, <1>9 DEF Next

LEMMA ExplainedStep ==
  ASSUME TypeOK, WritesSound, RowsExplained, [Next]_vars
  PROVE  RowsExplained'
<1>1. ASSUME NEW w \in Worker, IngestInsert(w) PROVE RowsExplained'
  <2>1. PICK a \in Alert \ Ids, doc \in Ocsf :
          /\ Ids' = Ids \cup {a}
          /\ alerts'[a] = NewAlert(req[w].key, doc)
          /\ \A b \in Ids : alerts'[b] = alerts[b]
    BY <1>1, InsertShape
  <2> QED
    BY <1>1, <2>1 DEF IngestInsert, RowsExplained, NewAlert
<1>2. ASSUME NEW w \in Worker, Commit(w) PROVE RowsExplained'
  <2> DEFINE a == req[w].alert
             wr == req[w].write
             c == req[w].case
  <2>1. /\ Triaging(w) /\ a \in Ids /\ Ids' = Ids
        /\ \A b \in Ids \ {a} : alerts'[b] = alerts[b]
        /\ \A d \in {"status", "ocsf", "reason", "case"} :
             alerts'[a][d] = IF d \in DOMAIN wr THEN wr[d] ELSE alerts[a][d]
    BY <1>2, CommitShape
  <2>2. Sound(req[w], alerts[a])
    BY <2>1 DEF WritesSound
  <2>3. /\ cases' = cases \cup ({c} \ {None})
        /\ entries' = entries \cup ({<<a, c>>} \ {<<a, None>>})
    BY <1>2 DEF Commit
  <2>4. c # None => c \in cases' /\ <<a, c>> \in entries'
    BY <2>3
  <2>5. alerts'[a]["case"] # None => /\ alerts'[a]["case"] \in cases'
                                     /\ <<a, alerts'[a]["case"]>> \in entries'
    <3>1. CASE "case" \in DOMAIN wr
      BY <3>1, <2>1, <2>2, <2>4 DEF Sound
    <3>2. CASE "case" \notin DOMAIN wr
      BY <3>2, <2>1, <2>3 DEF RowsExplained
    <3> QED
      BY <3>1, <3>2
  <2>6. alerts'[a]["status"] = "promoted" => alerts'[a]["case"] # None
    <3>1. CASE "status" \in DOMAIN wr
      BY <3>1, <2>1, <2>2 DEF Sound
    <3>2. CASE "status" \notin DOMAIN wr
      BY <3>2, <2>1, <2>2 DEF Sound, RowsExplained
    <3> QED
      BY <3>1, <3>2
  <2>7. alerts'[a]["status"] = "dismissed" => alerts'[a]["reason"] # None
    <3>1. CASE "status" \in DOMAIN wr
      BY <3>1, <2>1, <2>2 DEF Sound
    <3>2. CASE "status" \notin DOMAIN wr
      BY <3>2, <2>1, <2>2 DEF Sound, RowsExplained
    <3> QED
      BY <3>1, <3>2
  <2> HIDE DEF a, wr, c
  <2>8. ASSUME NEW b \in Ids \ {a}
        PROVE  /\ alerts'[b].case # None => /\ alerts'[b].case \in cases'
                                            /\ <<b, alerts'[b].case>> \in entries'
               /\ alerts'[b].status = "promoted" => alerts'[b].case # None
               /\ alerts'[b].status = "dismissed" => alerts'[b].reason # None
    BY <2>1, <2>3 DEF RowsExplained
  <2> QED
    BY <2>1, <2>5, <2>6, <2>7, <2>8 DEF RowsExplained
<1>3. CASE UNCHANGED <<alerts, cases, entries>>
  BY <1>3 DEF RowsExplained, Ids
<1>4. ASSUME NEW w \in Worker, NEW a \in Ids,
             Promote(w, a) \/ \E r \in Reason : Dismiss(w, a, r)
      PROVE  UNCHANGED <<alerts, cases, entries>>
  BY <1>4 DEF Promote, Dismiss, Load
<1> QED
  BY <1>1, <1>2, <1>3, <1>4
     DEF Next, vars, IngestMiss, IngestAmbiguous, Flush, Abort

\* The status of an alert always comes with what explains it, however many
\* promotions and dismissals of it overlap (alerts.py, promote and dismiss).
THEOREM StatusAlwaysExplained == Spec => []StatusExplained
<1> DEFINE Inv == TypeOK /\ WritesSound /\ RowsExplained
<1>1. Init => Inv
  BY TypeInit DEF Init, Inv, WritesSound, Triaging, RowsExplained, Ids, Idle
<1>2. Inv /\ [Next]_vars => Inv'
  BY TypeStep, SoundStep, ExplainedStep
<1>3. Inv => StatusExplained
  BY DEF RowsExplained, StatusExplained
<1> QED
  BY <1>1, <1>2, <1>3, PTL DEF Spec
-----------------------------------------------------------------------------
(* Promotion is all or nothing.                                            *)

LEMMA OrphanStep ==
  ASSUME TypeOK, NoOrphanCase, [Next]_vars
  PROVE  NoOrphanCase'
<1>1. ASSUME NEW w \in Worker, IngestInsert(w) PROVE NoOrphanCase'
  <2>1. Ids \subseteq Ids'
    BY <1>1, InsertShape
  <2> QED
    BY <1>1, <2>1 DEF IngestInsert, NoOrphanCase
<1>2. ASSUME NEW w \in Worker, Commit(w) PROVE NoOrphanCase'
  <2>1. req[w].alert \in Ids /\ Ids' = Ids
    BY <1>2, CommitShape
  <2> QED
    BY <1>2, <2>1 DEF Commit, NoOrphanCase
<1>3. CASE UNCHANGED <<alerts, cases, entries>>
  BY <1>3 DEF NoOrphanCase, Ids
<1>4. ASSUME NEW w \in Worker, NEW a \in Ids,
             Promote(w, a) \/ \E r \in Reason : Dismiss(w, a, r)
      PROVE  UNCHANGED <<alerts, cases, entries>>
  BY <1>4 DEF Promote, Dismiss, Load
<1> QED
  BY <1>1, <1>2, <1>3, <1>4
     DEF Next, vars, IngestMiss, IngestAmbiguous, Flush, Abort

\* A case that a promotion opened has that promotion's timeline entry: the case,
\* the entry and the alert's columns are committed together (alerts.py, promote).
THEOREM NoCaseOrphaned == Spec => []NoOrphanCase
<1>1. Init => NoOrphanCase
  BY DEF Init, NoOrphanCase
<1>2. TypeOK /\ NoOrphanCase /\ [Next]_vars => NoOrphanCase'
  BY OrphanStep
<1> QED
  BY <1>1, <1>2, TypeCorrect, PTL DEF Spec
-----------------------------------------------------------------------------
(* What a request that nobody overtakes does: the row it will leave is      *)
(* mirrored in the OCSF document, and the key it found free is still free. *)

Undisturbed ==
  \A w \in alone :
    /\ Triaging(w) => Mirrored(Overlay(alerts[req[w].alert], req[w].write))
    /\ req[w].step = "absent" => Pending(req[w].key) = {}

\* What is left of the row by the columns that differ is what was wanted.
LEMMA OverlayChanged ==
  ASSUME NEW row \in Row, NEW wanted, NEW c \in DOMAIN row \cap DOMAIN wanted
  PROVE  Overlay(row, Changed(row, wanted))[c] = wanted[c]
  BY DEF Overlay, Changed

LEMMA MirroredLoaded ==
  ASSUME NEW row \in Row, NEW a
  PROVE  /\ \A c \in Case :
              Mirrored(Overlay(row, Loaded(row, a, c, Promotion(row, c)).write))
         /\ \A r \in Reason :
              Mirrored(Overlay(row, Loaded(row, a, None, Dismissal(row, r)).write))
<1>1. ASSUME NEW c \in Case
      PROVE  Mirrored(Overlay(row, Changed(row, Promotion(row, c))))
  <2> DEFINE later == Overlay(row, Changed(row, Promotion(row, c)))
  <2>1. row.ocsf \in Ocsf /\ {"status", "ocsf"} \subseteq DOMAIN row
    BY DEF Row
  <2>2. {"status", "ocsf"} \subseteq DOMAIN Promotion(row, c)
    BY DEF Promotion
  <2>3. later["status"] = "promoted" /\ later["ocsf"] = Promotion(row, c)["ocsf"]
    BY <2>1, <2>2, OverlayChanged DEF Promotion
  <2>4. Promotion(row, c)["ocsf"].status_id = "in_progress"
    BY <2>1 DEF Promotion, Ocsf
  <2> QED
    BY <2>3, <2>4 DEF Mirrored
<1>2. ASSUME NEW r \in Reason
      PROVE  Mirrored(Overlay(row, Changed(row, Dismissal(row, r))))
  <2> DEFINE later == Overlay(row, Changed(row, Dismissal(row, r)))
  <2> DEFINE wanted == Dismissal(row, r)
  <2>1. {"status", "ocsf", "reason"} \subseteq DOMAIN row \cap DOMAIN wanted
    BY DEF Row, Dismissal
  <2>2. /\ wanted["status"] = "dismissed" /\ wanted["reason"] = r
        /\ wanted["ocsf"].status_id = "suppressed" /\ wanted["ocsf"].detail = r
    BY DEF Dismissal
  <2> HIDE DEF wanted
  <2>3. \A c \in {"status", "ocsf", "reason"} :
          Overlay(row, Changed(row, wanted))[c] = wanted[c]
    BY <2>1, OverlayChanged
  <2>4. /\ later.status = "dismissed" /\ later.reason = r
        /\ later.ocsf.status_id = "suppressed" /\ later.ocsf.detail = r
    BY <2>2, <2>3 DEF wanted
  <2> QED
    BY <2>4 DEF Mirrored
<1> QED
  BY <1>1, <1>2 DEF Loaded

LEMMA UndisturbedStep ==
  ASSUME TypeOK, Undisturbed, [Next]_vars
  PROVE  Undisturbed'
<1>t. alone \subseteq Worker
  BY DEF TypeOK
<1>1. ASSUME NEW w \in Worker, NEW k \in Key, IngestMiss(w, k) PROVE Undisturbed'
  <2>1. /\ UNCHANGED alerts /\ alone' = alone \cup {w}
        /\ req'[w].step = "absent" /\ req'[w].key = k
        /\ \A v \in Worker \ {w} : req'[v] = req[v]
        /\ Pending(k) = {}
    BY <1>1 DEF IngestMiss, Begin, TypeOK
  <2> QED
    BY <1>t, <2>1 DEF Undisturbed, Triaging, Pending, Ids
<1>2. ASSUME NEW w \in Worker, NEW k \in Key, IngestAmbiguous(w, k)
      PROVE  Undisturbed'
  BY <1>2 DEF IngestAmbiguous, Undisturbed, Triaging, Pending, Ids
<1>3. ASSUME NEW w \in Worker, IngestInsert(w) \/ Commit(w) PROVE Undisturbed'
  BY <1>3 DEF IngestInsert, Commit, End, Undisturbed
<1>4. ASSUME NEW w \in Worker, NEW a \in Ids, Promote(w, a) PROVE Undisturbed'
  <2>1. PICK c \in Case :
          /\ req' = [req EXCEPT ![w] = Loaded(alerts[a], a, c, Promotion(alerts[a], c))]
          /\ alone' = alone \cup {w}
          /\ UNCHANGED alerts
    BY <1>4, PromoteShape
  <2> DEFINE r == Loaded(alerts[a], a, c, Promotion(alerts[a], c))
  <2>2. Mirrored(Overlay(alerts[a], r.write)) /\ r.alert = a /\ r.step = "loaded"
    BY MirroredLoaded DEF TypeOK, Loaded
  <2> HIDE DEF r
  <2>3. req'[w] = r /\ \A v \in Worker \ {w} : req'[v] = req[v]
    BY <2>1 DEF r, TypeOK
  <2> QED
    BY <1>t, <2>1, <2>2, <2>3 DEF Undisturbed, Triaging, Pending, Ids
<1>5. ASSUME NEW w \in Worker, NEW a \in Ids, NEW q \in Reason, Dismiss(w, a, q)
      PROVE  Undisturbed'
  <2> DEFINE r == Loaded(alerts[a], a, None, Dismissal(alerts[a], q))
  <2>1. req' = [req EXCEPT ![w] = r] /\ UNCHANGED alerts /\ alone' = alone \cup {w}
    BY <1>5, DismissShape
  <2>2. Mirrored(Overlay(alerts[a], r.write)) /\ r.alert = a /\ r.step = "loaded"
    BY MirroredLoaded DEF TypeOK, Loaded
  <2> HIDE DEF r
  <2>3. req'[w] = r /\ \A v \in Worker \ {w} : req'[v] = req[v]
    BY <2>1 DEF TypeOK
  <2> QED
    BY <1>t, <2>1, <2>2, <2>3 DEF Undisturbed, Triaging, Pending, Ids
<1>6. ASSUME NEW w \in Worker, Flush(w) PROVE Undisturbed'
  <2>1. /\ UNCHANGED <<alerts, alone>>
        /\ \A v \in Worker : v # w => req'[v] = req[v]
    BY <1>6 DEF Flush, TypeOK
  <2>2. /\ Triaging(w) /\ req'[w].step = "flushed"
        /\ req'[w].alert = req[w].alert /\ req'[w].write = req[w].write
    BY <1>6, RequestShape DEF Flush, TypeOK, Triaging
  <2> QED
    BY <1>t, <2>1, <2>2 DEF Undisturbed, Triaging, Pending, Ids
<1>7. ASSUME NEW w \in Worker, Abort(w) PROVE Undisturbed'
  <2>1. \A v \in Worker : req'[v] = req[v] \/ req'[v] = Idle
    BY <1>7 DEF Abort, TypeOK
  <2>2. UNCHANGED alerts /\ alone' \subseteq alone
    BY <1>7 DEF Abort
  <2> QED
    BY <1>t, <2>1, <2>2 DEF Undisturbed, Triaging, Pending, Ids, Idle
<1>8. CASE UNCHANGED vars
  BY <1>8 DEF vars, Undisturbed, Triaging, Pending, Ids
<1> QED
  BY <1>1, <1>2, <1>3, <1>4, <1>5, <1>6, <1>7, <1>8 DEF Next

LEMMA UndisturbedInvariant == Spec => [](TypeOK /\ Undisturbed)
<1>1. Init => TypeOK /\ Undisturbed
  BY TypeInit DEF Init, Undisturbed
<1>2. TypeOK /\ Undisturbed /\ [Next]_vars => (TypeOK /\ Undisturbed)'
  BY TypeStep, UndisturbedStep
<1> QED
  BY <1>1, <1>2, PTL DEF Spec

\* An ingest nobody overtakes leaves exactly one pending alert of its key
\* (alerts.py, ingest_alert).
THEOREM UndisturbedCollapse == Spec => CollapsesUndisturbed
<1>1. ASSUME TypeOK, Undisturbed, NEW w \in alone, NEW k \in Key,
             IngestInsert(w), req[w].key = k
      PROVE  Cardinality(Pending(k)') = 1
  <2>1. w \in Worker /\ Pending(k) = {}
    BY <1>1 DEF TypeOK, Undisturbed, IngestInsert
  <2>2. PICK a \in Alert \ Ids, doc \in Ocsf :
          /\ Ids' = Ids \cup {a}
          /\ alerts'[a] = NewAlert(k, doc)
          /\ \A b \in Ids : alerts'[b] = alerts[b]
    BY <1>1, <2>1, InsertShape
  <2>3. Pending(k)' = {a}
    BY <2>1, <2>2 DEF Pending, NewAlert
  <2> QED
    BY <2>3, FS_Singleton
<1>2. TypeOK /\ Undisturbed =>
        [\A w \in alone, k \in Key :
           IngestInsert(w) /\ req[w].key = k => Cardinality(Pending(k)') = 1]_vars
  BY <1>1
<1> QED
  BY <1>2, UndisturbedInvariant, PTL DEF CollapsesUndisturbed

\* The OCSF document of an alert agrees with its status after every triage
\* request that no other overtakes (alerts.py, _apply_status_to_payload).
THEOREM UndisturbedMirror == Spec => MirrorRestored
<1>1. ASSUME TypeOK, Undisturbed, NEW w \in alone, Commit(w)
      PROVE  Mirrored(alerts'[req[w].alert])
  <2>1. w \in Worker
    BY <1>1 DEF TypeOK
  <2>2. /\ Triaging(w)
        /\ alerts'[req[w].alert] = Overlay(alerts[req[w].alert], req[w].write)
    BY <1>1, <2>1, CommitShape
  <2> QED
    BY <1>1, <2>2 DEF Undisturbed
<1>2. TypeOK /\ Undisturbed =>
        [\A w \in alone : Commit(w) => Mirrored(alerts'[req[w].alert])]_vars
  BY <1>1
<1> QED
  BY <1>2, UndisturbedInvariant, PTL DEF MirrorRestored
-----------------------------------------------------------------------------
(* How many pending alerts a key can have.                                 *)
(*                                                                         *)
(* A request can add one only after it saw none, so the pending alerts of  *)
(* a key and the requests that may still add one are at most as many as    *)
(* the requests there are.                                                 *)

QueueBound ==
  \A k \in Key : /\ IsFiniteSet(Pending(k))
                 /\ Cardinality(Pending(k)) + Cardinality(Absent(k))
                      <= Cardinality(Worker)

LEMMA AbsentFinite ==
  /\ Cardinality(Worker) \in Nat
  /\ \A k \in Key : /\ IsFiniteSet(Absent(k))
                    /\ Cardinality(Absent(k)) \in Nat
                    /\ Cardinality(Absent(k)) <= Cardinality(Worker)
<1>1. \A k \in Key : Absent(k) \in SUBSET Worker
  BY DEF Absent
<1> QED
  BY <1>1, WorkerAssumption, FS_Subset, FS_CardinalityType

\* The count does not grow where neither set does.
LEMMA QueueShrinks ==
  ASSUME QueueBound, NEW k \in Key,
         Pending(k)' \subseteq Pending(k), Absent(k)' \subseteq Absent(k)
  PROVE  /\ IsFiniteSet(Pending(k)')
         /\ Cardinality(Pending(k)') + Cardinality(Absent(k)') <= Cardinality(Worker)
<1>1. /\ IsFiniteSet(Pending(k)) /\ Cardinality(Pending(k)) \in Nat
      /\ Cardinality(Pending(k)) + Cardinality(Absent(k)) <= Cardinality(Worker)
  BY FS_CardinalityType DEF QueueBound
<1>2. /\ IsFiniteSet(Absent(k)) /\ Cardinality(Absent(k)) \in Nat
      /\ Cardinality(Worker) \in Nat
  BY AbsentFinite
<1>3. /\ IsFiniteSet(Pending(k)') /\ Cardinality(Pending(k)') \in Nat
      /\ Cardinality(Pending(k)') <= Cardinality(Pending(k))
  BY <1>1, FS_Subset, FS_CardinalityType
<1>4. /\ Cardinality(Absent(k)') \in Nat
      /\ Cardinality(Absent(k)') <= Cardinality(Absent(k))
  BY <1>2, FS_Subset, FS_CardinalityType
<1> QED
  BY <1>1, <1>2, <1>3, <1>4

LEMMA QueueStep ==
  ASSUME TypeOK, WritesSound, QueueBound, [Next]_vars
  PROVE  QueueBound'
<1>1. ASSUME NEW w \in Worker, NEW j \in Key, IngestMiss(w, j) PROVE QueueBound'
  <2>1. UNCHANGED alerts /\ Pending(j) = {}
    BY <1>1 DEF IngestMiss
  <2>2. \A k \in Key : Pending(k)' = Pending(k)
    BY <2>1 DEF Pending, Ids
  <2>3. \A v \in Worker : req'[v] = IF v = w THEN [step |-> "absent", key |-> j]
                                            ELSE req[v]
    BY <1>1 DEF IngestMiss, Begin, TypeOK
  <2>4. \A k \in Key \ {j} : Absent(k)' = Absent(k)
    BY <1>1, <2>3 DEF IngestMiss, Absent, Idle
  <2>5. Absent(j)' \in SUBSET Worker
    BY DEF Absent
  <2>6. Cardinality(Absent(j)') \in Nat /\ Cardinality(Absent(j)') <= Cardinality(Worker)
    BY <2>5, WorkerAssumption, FS_Subset, FS_CardinalityType
  <2>7. IsFiniteSet({}) /\ Cardinality({}) = 0
    BY FS_EmptySet
  <2>8. /\ IsFiniteSet(Pending(j)')
        /\ Cardinality(Pending(j)') + Cardinality(Absent(j)') <= Cardinality(Worker)
    BY <2>1, <2>2, <2>6, <2>7
  <2>9. ASSUME NEW k \in Key \ {j}
        PROVE  /\ IsFiniteSet(Pending(k)')
               /\ Cardinality(Pending(k)') + Cardinality(Absent(k)') <= Cardinality(Worker)
    BY <2>2, <2>4 DEF QueueBound
  <2> QED
    BY <2>8, <2>9 DEF QueueBound
<1>2. ASSUME NEW w \in Worker, IngestInsert(w) PROVE QueueBound'
  <2>1. PICK j \in Key : j = req[w].key
    BY <1>2, InsertShape
  <2>2. PICK a \in Alert \ Ids, doc \in Ocsf :
          /\ Ids' = Ids \cup {a}
          /\ alerts'[a] = NewAlert(j, doc)
          /\ \A b \in Ids : alerts'[b] = alerts[b]
    BY <1>2, <2>1, InsertShape
  <2>3. Pending(j)' = Pending(j) \cup {a} /\ a \notin Pending(j)
    BY <2>2 DEF Pending, NewAlert
  <2>4. \A k \in Key \ {j} : Pending(k)' = Pending(k)
    BY <2>2 DEF Pending, NewAlert
  <2>5. \A v \in Worker : req'[v] = IF v = w THEN Idle ELSE req[v]
    BY <1>2 DEF IngestInsert, End, TypeOK
  <2>6. Absent(j)' = Absent(j) \ {w} /\ w \in Absent(j)
    BY <1>2, <2>1, <2>5 DEF IngestInsert, Absent, Idle
  <2>7. \A k \in Key \ {j} : Absent(k)' \subseteq Absent(k)
    BY <2>5 DEF Absent, Idle
  <2>8. /\ IsFiniteSet(Pending(j)) /\ Cardinality(Pending(j)) \in Nat
        /\ Cardinality(Pending(j)) + Cardinality(Absent(j)) <= Cardinality(Worker)
    BY <2>1, FS_CardinalityType DEF QueueBound
  <2>9. /\ IsFiniteSet(Absent(j)) /\ Cardinality(Absent(j)) \in Nat
        /\ Cardinality(Worker) \in Nat
    BY <2>1, AbsentFinite
  <2>10. /\ IsFiniteSet(Pending(j)')
         /\ Cardinality(Pending(j)') = Cardinality(Pending(j)) + 1
    BY <2>3, <2>8, FS_AddElement
  <2>11. Cardinality(Absent(j)') = Cardinality(Absent(j)) - 1
    BY <2>6, <2>9, FS_RemoveElement
  <2>12. /\ IsFiniteSet(Pending(j)')
         /\ Cardinality(Pending(j)') + Cardinality(Absent(j)') <= Cardinality(Worker)
    BY <2>8, <2>9, <2>10, <2>11
  <2>13. ASSUME NEW k \in Key \ {j}
         PROVE  /\ IsFiniteSet(Pending(k)')
                /\ Cardinality(Pending(k)') + Cardinality(Absent(k)') <= Cardinality(Worker)
    BY <2>4, <2>7, QueueShrinks
  <2> QED
    BY <2>12, <2>13 DEF QueueBound
<1>3. ASSUME NEW w \in Worker, Commit(w) PROVE QueueBound'
  <2> DEFINE a == req[w].alert
             wr == req[w].write
  <2>1. /\ Triaging(w) /\ a \in Ids /\ Ids' = Ids
        /\ \A b \in Ids \ {a} : alerts'[b] = alerts[b]
        /\ alerts'[a].key = alerts[a].key
        /\ alerts'[a]["status"] = IF "status" \in DOMAIN wr THEN wr["status"]
                                                            ELSE alerts[a]["status"]
    BY <1>3, CommitShape
  <2>2. "status" \in DOMAIN wr => wr["status"] # "pending"
    BY <2>1 DEF WritesSound, Sound
  <2>3. \A v \in Worker : req'[v] = req[v] \/ req'[v] = Idle
    BY <1>3 DEF Commit, End, TypeOK
  <2> HIDE DEF a, wr
  <2>4. \A k \in Key : Pending(k)' \subseteq Pending(k)
    BY <2>1, <2>2 DEF Pending
  <2>5. \A k \in Key : Absent(k)' \subseteq Absent(k)
    BY <2>3 DEF Absent, Idle
  <2> QED
    BY <2>4, <2>5, QueueShrinks DEF QueueBound
<1>4. ASSUME UNCHANGED alerts,
             \A v \in Worker : req'[v] = req[v] \/ req'[v].step # "absent"
      PROVE  QueueBound'
  <2>1. \A k \in Key : Pending(k)' \subseteq Pending(k)
    BY <1>4 DEF Pending, Ids
  <2>2. \A k \in Key : Absent(k)' \subseteq Absent(k)
    BY <1>4 DEF Absent
  <2> QED
    BY <2>1, <2>2, QueueShrinks DEF QueueBound
<1>5. ASSUME NEW w \in Worker, NEW k \in Key, IngestAmbiguous(w, k) PROVE QueueBound'
  BY <1>4, <1>5 DEF IngestAmbiguous
<1>6. ASSUME NEW w \in Worker, NEW a \in Ids, Promote(w, a) PROVE QueueBound'
  <2>1. UNCHANGED alerts /\ \A v \in Worker : req'[v] = req[v] \/ req'[v].step = "loaded"
    BY <1>6 DEF Promote, Load, Begin, TypeOK
  <2> QED
    BY <1>4, <2>1
<1>7. ASSUME NEW w \in Worker, NEW a \in Ids, NEW r \in Reason, Dismiss(w, a, r)
      PROVE  QueueBound'
  <2>1. UNCHANGED alerts /\ \A v \in Worker : req'[v] = req[v] \/ req'[v].step = "loaded"
    BY <1>7 DEF Dismiss, Load, Begin, TypeOK
  <2> QED
    BY <1>4, <2>1
<1>8. ASSUME NEW w \in Worker, Flush(w) PROVE QueueBound'
  <2>1. UNCHANGED alerts /\ \A v \in Worker : v # w => req'[v] = req[v]
    BY <1>8 DEF Flush, TypeOK
  <2>2. req'[w].step = "flushed"
    BY <1>8, RequestShape DEF Flush, TypeOK, Triaging
  <2> QED
    BY <1>4, <2>1, <2>2
<1>9. ASSUME NEW w \in Worker, Abort(w) PROVE QueueBound'
  <2>1. UNCHANGED alerts /\ \A v \in Worker : req'[v] = req[v] \/ req'[v].step = "idle"
    BY <1>9 DEF Abort, Idle, TypeOK
  <2> QED
    BY <1>4, <2>1
<1>10. CASE UNCHANGED vars
  BY <1>4, <1>10 DEF vars
<1> QED
  BY <1>1, <1>2, <1>3, <1>5, <1>6, <1>7, <1>8, <1>9, <1>10 DEF Next

\* The pending alerts of a key never outnumber the requests that can overlap
\* (alerts.py, ingest_alert), whatever READ COMMITTED lets them miss.
THEOREM PendingIsBounded == Spec => []PendingBounded
<1> DEFINE Inv == TypeOK /\ WritesSound /\ QueueBound
<1>1. Init => Inv
  <2> SUFFICES ASSUME Init PROVE Inv
    OBVIOUS
  <2>1. \A k \in Key : Pending(k) = {} /\ Absent(k) = {}
    BY DEF Init, Pending, Absent, Ids, Idle
  <2>2. QueueBound
    BY <2>1, FS_EmptySet, AbsentFinite DEF QueueBound
  <2> QED
    BY <2>2, TypeInit DEF Init, WritesSound, Triaging, Idle
<1>2. Inv /\ [Next]_vars => Inv'
  BY TypeStep, SoundStep, QueueStep
<1>3. Inv => PendingBounded
  <2> SUFFICES ASSUME Inv, NEW k \in Key
               PROVE  Cardinality(Pending(k)) <= Cardinality(Worker)
    BY DEF PendingBounded
  <2>1. /\ Cardinality(Pending(k)) \in Nat
        /\ Cardinality(Pending(k)) + Cardinality(Absent(k)) <= Cardinality(Worker)
    BY FS_CardinalityType DEF QueueBound
  <2>2. Cardinality(Absent(k)) \in Nat /\ Cardinality(Worker) \in Nat
    BY AbsentFinite
  <2> QED
    BY <2>1, <2>2
<1> QED
  BY <1>1, <1>2, <1>3, PTL DEF Spec
=============================================================================

------------------------ MODULE CaseLifecycleProofs -------------------------
(***************************************************************************)
(* Proofs about CaseLifecycle, for any number of overlapping requests, any *)
(* cases, items and request bodies.                                        *)
(***************************************************************************)
EXTENDS CaseLifecycle, TLAPS

-----------------------------------------------------------------------------
(* Shapes of requests and of what a commit does to a row                   *)

Updating(r) == r.step \in {"update", "updated"}

Merging(r) == r.step \in {"collect", "close"}

LEMMA RequestShape ==
  ASSUME TypeOK, NEW w \in Worker
  PROVE  /\ req[w].step \in {"idle", "update", "updated", "collect", "close"}
         /\ Updating(req[w]) => UpdateOK(req[w], clock)
         /\ Merging(req[w]) => MergeOK(req[w])
         /\ req[w].step = "idle" => req[w] = Idle
BY DEF TypeOK, RequestOK, Idle, UpdateOK, MergeOK, Updating, Merging

RowColumns == {"status", "outcome", "resolved_at", "closed_at", "merged_from"}

LEMMA ColumnDomain == DOMAIN Column = {"status", "outcome", "resolved_at", "closed_at"}
BY DEF Column

\* An UPDATE leaves each column it does not name as it was.
LEMMA OverlayColumns ==
  ASSUME NEW row \in Row, NEW write
  PROVE  /\ DOMAIN Overlay(row, write) = RowColumns
         /\ \A d \in RowColumns :
              Overlay(row, write)[d] = IF d \in DOMAIN write THEN write[d] ELSE row[d]
<1>1. DOMAIN row = RowColumns
  BY DEF Row, RowColumns
<1> QED
  BY <1>1 DEF Overlay

\* An UPDATE of columns with values of their types keeps a row a row.
LEMMA OverlayRow ==
  ASSUME NEW row \in Row, NEW write,
         \A d \in DOMAIN write : \/ d \in DOMAIN Column /\ write[d] \in Column[d]
                                 \/ d = "merged_from" /\ write[d] \in SUBSET Case
  PROVE  Overlay(row, write) \in Row
<1> DEFINE later == Overlay(row, write)
<1>1. /\ DOMAIN later = RowColumns
      /\ \A d \in RowColumns : later[d] = IF d \in DOMAIN write THEN write[d] ELSE row[d]
  BY OverlayColumns
<1>2. /\ row.status \in Status /\ row.outcome \in BOOLEAN
      /\ row.resolved_at \in BOOLEAN /\ row.closed_at \in BOOLEAN
      /\ row.merged_from \in SUBSET Case
  BY DEF Row
<1>3. /\ Column["status"] = Status /\ Column["outcome"] = BOOLEAN
      /\ Column["resolved_at"] = BOOLEAN /\ Column["closed_at"] = BOOLEAN
  BY DEF Column
<1>4. "merged_from" \notin DOMAIN Column
  BY ColumnDomain
<1>5. /\ later["status"] \in Status /\ later["outcome"] \in BOOLEAN
      /\ later["resolved_at"] \in BOOLEAN /\ later["closed_at"] \in BOOLEAN
      /\ later["merged_from"] \in SUBSET Case
  BY <1>1, <1>2, <1>3, <1>4 DEF RowColumns
<1>6. later = [status |-> later["status"], outcome |-> later["outcome"],
               resolved_at |-> later["resolved_at"], closed_at |-> later["closed_at"],
               merged_from |-> later["merged_from"]]
  BY <1>1 DEF Overlay, RowColumns
<1> HIDE DEF later
<1>7. later \in Row
  BY <1>5, <1>6 DEF Row
<1> QED
  BY <1>7 DEF later

\* What update_case assigns: the columns of the body, and the stamp of the
\* status it moves to.
LEMMA AssignedColumns ==
  ASSUME NEW row \in Row, NEW payload \in Payload
  PROVE  LET want == Assigned(row, payload)
         IN  /\ \A d \in DOMAIN want : d \in DOMAIN Column /\ want[d] \in Column[d]
             /\ "closed_at" \in DOMAIN want => want["closed_at"] = TRUE
             /\ "resolved_at" \in DOMAIN want => want["resolved_at"] = TRUE
             /\ "status" \in DOMAIN want /\ want["status"] # row.status =>
                  /\ want["status"] = "closed" => "closed_at" \in DOMAIN want
                  /\ want["status"] = "resolved" => "resolved_at" \in DOMAIN want
<1> DEFINE want == Assigned(row, payload)
           becomes(s) == "status" \in DOMAIN payload /\ payload.status = s /\ row.status # s
<1>1. /\ DOMAIN payload \subseteq {"status", "outcome"}
      /\ "status" \in DOMAIN payload => payload["status"] \in Status
      /\ "outcome" \in DOMAIN payload => payload["outcome"] \in BOOLEAN
  <2>1. \/ payload \in [status : Status]
        \/ payload \in [outcome : BOOLEAN]
        \/ payload \in [status : Status, outcome : BOOLEAN]
    BY PayloadAssumption
  <2>2. CASE payload \in [status : Status]
    BY <2>2
  <2>3. CASE payload \in [outcome : BOOLEAN]
    BY <2>3
  <2>4. CASE payload \in [status : Status, outcome : BOOLEAN]
    BY <2>4
  <2> QED
    BY <2>1, <2>2, <2>3, <2>4
<1>2. /\ DOMAIN want = DOMAIN payload
                         \cup (IF becomes("resolved") THEN {"resolved_at"} ELSE {})
                         \cup (IF becomes("closed") THEN {"closed_at"} ELSE {})
      /\ \A d \in DOMAIN want : want[d] = IF d \in DOMAIN payload THEN payload[d] ELSE TRUE
  BY DEF Assigned
<1>3. /\ Column["status"] = Status /\ Column["outcome"] = BOOLEAN
      /\ Column["resolved_at"] = BOOLEAN /\ Column["closed_at"] = BOOLEAN
  BY DEF Column
<1>4. \A d \in DOMAIN want : d \in {"status", "outcome", "resolved_at", "closed_at"}
  BY <1>1, <1>2
<1>5. \A d \in DOMAIN want : want[d] \in Column[d]
  BY <1>1, <1>2, <1>3
<1>6. /\ "closed_at" \in DOMAIN want => want["closed_at"] = TRUE
      /\ "resolved_at" \in DOMAIN want => want["resolved_at"] = TRUE
  BY <1>1, <1>2
<1>7. "status" \in DOMAIN want /\ want["status"] # row.status =>
        /\ want["status"] = "closed" => "closed_at" \in DOMAIN want
        /\ want["status"] = "resolved" => "resolved_at" \in DOMAIN want
  BY <1>1, <1>2
<1> HIDE DEF want
<1>8. /\ \A d \in DOMAIN want : d \in DOMAIN Column /\ want[d] \in Column[d]
      /\ "closed_at" \in DOMAIN want => want["closed_at"] = TRUE
      /\ "resolved_at" \in DOMAIN want => want["resolved_at"] = TRUE
      /\ "status" \in DOMAIN want /\ want["status"] # row.status =>
           /\ want["status"] = "closed" => "closed_at" \in DOMAIN want
           /\ want["status"] = "resolved" => "resolved_at" \in DOMAIN want
  BY <1>4, <1>5, <1>6, <1>7, ColumnDomain
<1> QED
  BY <1>8 DEF want

\* What a merge writes on a case.
LEMMA MergeWriteColumns ==
  ASSUME NEW r, MergeOK(r), NEW c \in Case
  PROVE  LET wr == MergeWrite(r, c)
         IN  /\ c = r.target => wr = [merged_from |-> r.merged_from]
             /\ c \notin r.sources /\ c # r.target => DOMAIN wr = {}
             /\ "status" \in DOMAIN wr =>
                  /\ c \in r.sources /\ wr["status"] = "closed"
                  /\ "closed_at" \in DOMAIN wr
             /\ "closed_at" \in DOMAIN wr => wr["closed_at"] = TRUE
             /\ "resolved_at" \notin DOMAIN wr
             /\ \A d \in DOMAIN wr : \/ d \in DOMAIN Column /\ wr[d] \in Column[d]
                                     \/ d = "merged_from" /\ wr[d] \in SUBSET Case
<1> DEFINE wr == MergeWrite(r, c)
<1>1. /\ r.merged_from \in SUBSET Case /\ r.target \notin r.sources
      /\ r.open \subseteq r.sources
  BY DEF MergeOK
<1>2. /\ DOMAIN Column = {"status", "outcome", "resolved_at", "closed_at"}
      /\ Column["status"] = Status /\ Column["closed_at"] = BOOLEAN
  BY DEF Column
<1>3. CASE c = r.target
  <2>1. wr = [merged_from |-> r.merged_from]
    BY <1>1, <1>3 DEF MergeWrite
  <2> QED
    BY <1>1, <1>3, <2>1
<1>4. CASE c # r.target /\ c \in r.open
  <2>1. wr = [status |-> "closed", closed_at |-> TRUE]
    BY <1>4 DEF MergeWrite
  <2>2. DOMAIN wr = {"status", "closed_at"} /\ wr["status"] = "closed" /\ wr["closed_at"] = TRUE
    BY <2>1
  <2> HIDE DEF wr
  <2>3. "closed" \in Column["status"] /\ TRUE \in Column["closed_at"]
    BY <1>2 DEF Status
  <2>4. \A d \in DOMAIN wr : d \in DOMAIN Column /\ wr[d] \in Column[d]
    BY <1>2, <2>2, <2>3
  <2> QED
    BY <1>1, <1>4, <2>2, <2>4 DEF wr
<1>5. CASE c # r.target /\ c \in r.sources \ r.open
  <2>1. wr = [closed_at |-> TRUE]
    BY <1>5 DEF MergeWrite
  <2>2. DOMAIN wr = {"closed_at"} /\ wr["closed_at"] = TRUE
    BY <2>1
  <2> HIDE DEF wr
  <2>3. TRUE \in Column["closed_at"]
    BY <1>2
  <2>4. \A d \in DOMAIN wr : d \in DOMAIN Column /\ wr[d] \in Column[d]
    BY <1>2, <2>2, <2>3
  <2> QED
    BY <1>1, <1>5, <2>2, <2>4 DEF wr
<1>6. CASE c # r.target /\ c \notin r.sources
  <2>1. wr = << >>
    BY <1>1, <1>6 DEF MergeWrite
  <2> QED
    BY <1>1, <1>6, <2>1
<1> QED
  BY <1>3, <1>4, <1>5, <1>6
-----------------------------------------------------------------------------
(* Type correctness                                                        *)

\* A request keeps its type as the clock goes on.
LEMMA ClockMoves ==
  ASSUME NEW now \in Nat, NEW later \in Nat, now <= later, NEW r, RequestOK(r, now)
  PROVE  RequestOK(r, later)
BY DEF RequestOK, UpdateOK

LEMMA TypeInit == Init => TypeOK
BY BoundAssumption DEF Init, TypeOK, Row, Status, RequestOK

\* The request w moves on to r, the others stay where they are.
LEMMA RequestsType ==
  ASSUME TypeOK, UNCHANGED clock, NEW w \in Worker, NEW r, RequestOK(r, clock),
         req' = [req EXCEPT ![w] = r]
  PROVE  DOMAIN req' = Worker /\ \A v \in Worker : RequestOK(req'[v], clock')
<1>1. \A v \in Worker : req'[v] = req[v] \/ req'[v] = r
  BY DEF TypeOK
<1> QED
  BY <1>1 DEF TypeOK

LEMMA LocksType ==
  ASSUME TypeOK, NEW w \in Worker
  PROVE  /\ Release(w) => lock' \subseteq (Case \cup Entries) \X Worker
         /\ \A rows \in SUBSET (Case \cup Entries) :
              Take(w, rows) => lock' \subseteq (Case \cup Entries) \X Worker
BY DEF TypeOK, Take, Release

LEMMA LoadUpdateType ==
  ASSUME TypeOK, NEW w \in Worker, NEW c \in Case, NEW p \in Payload,
         LoadUpdate(w, c, p)
  PROVE  TypeOK'
<1> DEFINE row == cases[c]
           want == Assigned(row, p)
           r == [step |-> "update", case |-> c, at |-> clock', write |-> Changed(row, want)]
<1>1. row \in Row /\ clock \in Nat
  BY BoundAssumption DEF TypeOK
<1>2. clock' \in Nat /\ clock' \in 0..MaxChanges /\ clock <= clock'
  BY <1>1, BoundAssumption DEF LoadUpdate, TypeOK
<1>3. /\ UNCHANGED <<cases, home, told, lock, merged>>
      /\ req' = [req EXCEPT ![w] = r]
      /\ alone' = alone \cup {w}
  BY DEF LoadUpdate, Begin
<1>4. \A d \in DOMAIN Changed(row, want) :
        d \in DOMAIN Column /\ Changed(row, want)[d] \in Column[d]
  <2>1. \A d \in DOMAIN want : d \in DOMAIN Column /\ want[d] \in Column[d]
    BY <1>1, AssignedColumns
  <2> QED
    BY <2>1 DEF Changed
<1>5. RequestOK(r, clock')
  <2>1. /\ r.write = Changed(row, want) /\ r.at = clock' /\ r.case = c
        /\ r.step = "update" /\ DOMAIN r = {"step", "case", "at", "write"}
    OBVIOUS
  <2>2. "status" \in DOMAIN Changed(row, want) => clock' = clock + 1
    <3>1. "status" \in RowColumns /\ row["status"] = row.status
      BY DEF RowColumns
    <3>2. Overlay(row, want)["status"] =
            IF "status" \in DOMAIN want THEN want["status"] ELSE row["status"]
      BY <1>1, <3>1, OverlayColumns
    <3>3. clock' = IF Overlay(row, want).status # row.status THEN clock + 1 ELSE clock
      BY DEF LoadUpdate
    <3> HIDE DEF want
    <3> QED
      BY <3>1, <3>2, <3>3 DEF Changed
  <2> HIDE DEF r, want
  <2>3. clock' \in (IF "status" \in DOMAIN r.write THEN 1 ELSE 0)..clock'
    BY <1>1, <1>2, <2>1, <2>2
  <2> QED
    BY <1>2, <1>4, <2>1, <2>3 DEF RequestOK, UpdateOK
<1> HIDE DEF r
<1>6. \A v \in Worker : req'[v] = req[v] \/ req'[v] = r
  BY <1>3 DEF TypeOK
<1>7. \A v \in Worker : RequestOK(req'[v], clock')
  BY <1>1, <1>2, <1>5, <1>6, ClockMoves DEF TypeOK
<1>9. DOMAIN req' = Worker
  BY <1>3 DEF TypeOK
<1> QED
  BY <1>2, <1>3, <1>7, <1>9 DEF TypeOK

\* A row that is new or was there is on a case: home keeps its type.
LEMMA PlaceType ==
  ASSUME TypeOK, NEW e \in Entries, NEW c \in Case, Place(e, c)
  PROVE  /\ DOMAIN home' = DOMAIN home \cup {e}
         /\ home'[e] = c /\ \A d \in DOMAIN home \ {e} : home'[d] = home[d]
         /\ DOMAIN home' \subseteq Entries /\ home' \in [DOMAIN home' -> Case]
BY DEF TypeOK, Place

\* The entry of an update that moves the status.
LEMMA EntryType ==
  ASSUME NEW r, UpdateOK(r, clock), "status" \in DOMAIN r.write, clock \in 0..MaxChanges
  PROVE  /\ Entry(r) \in Change /\ Entry(r) # None
         /\ Entry(r).case = r.case /\ Entry(r).status = r.write["status"]
<1>1. r.case \in Case /\ r.at \in 1..MaxChanges
  BY BoundAssumption DEF UpdateOK
<1>2. r.write["status"] \in Status
  BY DEF UpdateOK, Column
<1>3. Entry(r) \in Change
  BY <1>1, <1>2 DEF Entry, Change
<1> QED
  BY <1>3, NoneAssumption DEF Entry

LEMMA CommitUpdateType ==
  ASSUME TypeOK, NEW w \in Worker, CommitUpdate(w)
  PROVE  TypeOK'
<1> DEFINE c == req[w].case
           wr == req[w].write
<1>1. UpdateOK(req[w], clock)
  BY RequestShape DEF CommitUpdate, Updating
<1>2. /\ c \in Case
      /\ \A d \in DOMAIN wr : d \in DOMAIN Column /\ wr[d] \in Column[d]
  BY <1>1 DEF UpdateOK
<1>3. Overlay(cases[c], wr) \in Row
  BY <1>2, OverlayRow DEF TypeOK
<1>5. /\ cases' = [cases EXCEPT ![c] = Overlay(@, wr)]
      /\ UNCHANGED <<clock, merged>>
      /\ Release(w) /\ req' = [req EXCEPT ![w] = Idle] /\ alone' = {}
  BY DEF CommitUpdate, End
<1>6. /\ told' \in [Case -> Change \cup {None}]
      /\ DOMAIN home' \subseteq Entries /\ home' \in [DOMAIN home' -> Case]
  <2>1. CASE "status" \in DOMAIN wr
    <3>1. told' = [told EXCEPT ![c] = Entry(req[w])] /\ Place(Entry(req[w]), c)
      BY <2>1 DEF CommitUpdate
    <3>2. Entry(req[w]) \in Change
      BY <1>1, <2>1, EntryType DEF TypeOK
    <3>3. DOMAIN home' \subseteq Entries /\ home' \in [DOMAIN home' -> Case]
      BY <1>2, <3>1, <3>2, PlaceType DEF Entries
    <3> QED
      BY <1>2, <3>1, <3>2, <3>3 DEF TypeOK
  <2>2. CASE "status" \notin DOMAIN wr
    BY <2>2 DEF CommitUpdate, TypeOK
  <2> QED
    BY <2>1, <2>2
<1>7. cases' \in [Case -> Row]
  BY <1>2, <1>3, <1>5 DEF TypeOK
<1>8. RequestOK(Idle, clock)
  BY DEF RequestOK
<1>9. DOMAIN req' = Worker /\ \A v \in Worker : RequestOK(req'[v], clock')
  BY <1>5, <1>8, RequestsType
<1> QED
  BY <1>5, <1>6, <1>7, <1>9, LocksType DEF TypeOK

LEMMA CommitMergeType ==
  ASSUME TypeOK, NEW w \in Worker, CommitMerge(w)
  PROVE  TypeOK'
<1>1. MergeOK(req[w])
  BY RequestShape DEF CommitMerge, Merging
<1>2. req[w].target \in Case /\ req[w].sources \subseteq Case
  BY <1>1 DEF MergeOK
<1>3. /\ cases' = [c \in Case |-> Overlay(cases[c], MergeWrite(req[w], c))]
      /\ home' = [e \in DOMAIN home |-> IF e \in req[w].moved THEN req[w].target ELSE home[e]]
      /\ merged' = merged \cup (req[w].sources \X {req[w].target})
      /\ UNCHANGED <<clock, told>>
      /\ Release(w) /\ req' = [req EXCEPT ![w] = Idle] /\ alone' = {}
  BY DEF CommitMerge, End
<1>4. \A c \in Case : Overlay(cases[c], MergeWrite(req[w], c)) \in Row
  <2> TAKE c \in Case
  <2>1. cases[c] \in Row
    BY DEF TypeOK
  <2>2. \A d \in DOMAIN MergeWrite(req[w], c) :
          \/ d \in DOMAIN Column /\ MergeWrite(req[w], c)[d] \in Column[d]
          \/ d = "merged_from" /\ MergeWrite(req[w], c)[d] \in SUBSET Case
    BY <1>1, MergeWriteColumns
  <2> QED
    BY <2>1, <2>2, OverlayRow
<1>5. RequestOK(Idle, clock)
  BY DEF RequestOK
<1>6. DOMAIN req' = Worker /\ \A v \in Worker : RequestOK(req'[v], clock')
  BY <1>3, <1>5, RequestsType
<1>7. /\ cases' \in [Case -> Row] /\ DOMAIN home' = DOMAIN home
      /\ home' \in [DOMAIN home -> Case]
  BY <1>2, <1>3, <1>4 DEF TypeOK
<1> QED
  BY <1>2, <1>3, <1>6, <1>7, LocksType DEF TypeOK

\* What the steps of a merge before its commit do to its request.
Collected(r, s) == [r EXCEPT !.moved = @ \cup {e \in DOMAIN home : home[e] = s},
                             !.left = @ \ {s}]

Locking(w) == \E rows \in SUBSET (Case \cup Entries) : Take(w, rows)

LEMMA CollectShape ==
  ASSUME TypeOK, NEW w \in Worker, CollectItems(w)
  PROVE  \E s \in req[w].left :
           LET r == Collected(req[w], s)
           IN  /\ Merging(req[w]) /\ req[w].step = "collect" /\ MergeOK(req[w])
               /\ req' = [req EXCEPT ![w] = r]
               /\ MergeOK(r)
               /\ Locking(w)
               /\ UNCHANGED <<cases, home, clock, told, merged, alone>>
<1>1. Merging(req[w]) /\ req[w].step = "collect"
  BY DEF CollectItems, Merging
<1>2. MergeOK(req[w])
  BY <1>1, RequestShape
<1>3. PICK s \in First(req[w].left) :
        req' = [req EXCEPT ![w].moved = @ \cup {e \in DOMAIN home : home[e] = s},
                           ![w].left = @ \ {s}]
  BY DEF CollectItems
<1>4. /\ Take(w, req[w].moved)
      /\ UNCHANGED <<cases, home, clock, told, merged, alone>>
  BY DEF CollectItems
<1>5. s \in req[w].left
  BY DEF First
<1>6. req' = [req EXCEPT ![w] = Collected(req[w], s)]
  BY <1>3 DEF Collected, TypeOK
<1>7. MergeOK(Collected(req[w], s))
  <2>1. DOMAIN home \subseteq Entries
    BY DEF TypeOK
  <2> QED
    BY <1>2, <2>1 DEF MergeOK, Collected
<1>8. Locking(w)
  BY <1>2, <1>4 DEF Locking, MergeOK
<1> QED
  BY <1>1, <1>2, <1>4, <1>5, <1>6, <1>7, <1>8

LEMMA FlushMergeShape ==
  ASSUME TypeOK, NEW w \in Worker, FlushMerge(w)
  PROVE  LET r == [req[w] EXCEPT !.step = "close", !.left = req[w].sources]
         IN  /\ Merging(req[w]) /\ req[w].step = "collect" /\ req[w].left = {}
             /\ req' = [req EXCEPT ![w] = r]
             /\ MergeOK(r)
             /\ Locking(w)
             /\ UNCHANGED <<cases, home, clock, told, merged, alone>>
<1> DEFINE r == [req[w] EXCEPT !.step = "close", !.left = req[w].sources]
<1>1. Merging(req[w]) /\ req[w].step = "collect" /\ req[w].left = {}
  BY DEF FlushMerge, Merging
<1>2. MergeOK(req[w])
  BY <1>1, RequestShape
<1>3. /\ req' = [req EXCEPT ![w] = r]
      /\ Take(w, req[w].moved \cup {req[w].target})
      /\ UNCHANGED <<cases, home, clock, told, merged, alone>>
  BY DEF FlushMerge, TypeOK
<1>4. MergeOK(r)
  BY <1>2 DEF MergeOK
<1>5. Locking(w)
  BY <1>2, <1>3 DEF Locking, MergeOK
<1> QED
  BY <1>1, <1>3, <1>4, <1>5

LEMMA FlushSourceShape ==
  ASSUME TypeOK, NEW w \in Worker, FlushSource(w)
  PROVE  \E s : LET r == [req[w] EXCEPT !.left = @ \ {s}]
                IN  /\ Merging(req[w]) /\ req[w].step = "close"
                    /\ req' = [req EXCEPT ![w] = r]
                    /\ MergeOK(r)
                    /\ Locking(w)
                    /\ UNCHANGED <<cases, home, clock, told, merged, alone>>
<1>1. Merging(req[w]) /\ req[w].step = "close"
  BY DEF FlushSource, Merging
<1>2. MergeOK(req[w])
  BY <1>1, RequestShape
<1>3. PICK s \in First(req[w].left) :
        Take(w, {s}) /\ req' = [req EXCEPT ![w].left = @ \ {s}]
  BY DEF FlushSource
<1> DEFINE r == [req[w] EXCEPT !.left = @ \ {s}]
<1>4. /\ req' = [req EXCEPT ![w] = r]
      /\ UNCHANGED <<cases, home, clock, told, merged, alone>>
  BY <1>3 DEF FlushSource, TypeOK
<1>5. MergeOK(r)
  BY <1>2 DEF MergeOK
<1>6. Locking(w)
  BY <1>2, <1>3 DEF Locking, MergeOK, First
<1> QED
  BY <1>1, <1>4, <1>5, <1>6

LEMMA LoadMergeShape ==
  ASSUME TypeOK, NEW w \in Worker, NEW t \in Case,
         NEW S \in (SUBSET (Case \ {t})) \ {{}}, LoadMerge(w, t, S)
  PROVE  LET r == [step |-> "collect", target |-> t, sources |-> S, left |-> S,
                   moved |-> {}, open |-> {s \in S : cases[s].status # "closed"},
                   merged_from |-> cases[t].merged_from \cup S]
         IN  /\ req' = [req EXCEPT ![w] = r]
             /\ MergeOK(r)
             /\ alone' = alone \cup {w}
             /\ UNCHANGED <<cases, home, clock, told, lock, merged>>
<1> DEFINE r == [step |-> "collect", target |-> t, sources |-> S, left |-> S,
                 moved |-> {}, open |-> {s \in S : cases[s].status # "closed"},
                 merged_from |-> cases[t].merged_from \cup S]
<1>1. cases[t].merged_from \subseteq Case
  BY DEF TypeOK, Row
<1>2. MergeOK(r)
  BY <1>1 DEF MergeOK
<1> QED
  BY <1>2 DEF LoadMerge, Begin

LEMMA TypeStep == TypeOK /\ [Next]_vars => TypeOK'
<1> SUFFICES ASSUME TypeOK, [Next]_vars PROVE TypeOK'
  OBVIOUS
<1>1. ASSUME NEW w \in Worker, NEW c \in Case, NEW p \in Payload, LoadUpdate(w, c, p)
      PROVE  TypeOK'
  BY <1>1, LoadUpdateType
<1>2. ASSUME NEW w \in Worker, FlushUpdate(w) PROVE TypeOK'
  <2>1. UpdateOK(req[w], clock)
    BY <1>2, RequestShape DEF FlushUpdate, Updating
  <2> DEFINE r == [req[w] EXCEPT !.step = "updated"]
  <2>2. /\ req' = [req EXCEPT ![w] = r] /\ Locking(w)
        /\ UNCHANGED <<cases, home, clock, told, merged, alone>>
    BY <1>2, <2>1 DEF FlushUpdate, TypeOK, Locking, UpdateOK
  <2>3. RequestOK(r, clock)
    BY <2>1 DEF RequestOK, UpdateOK
  <2> HIDE DEF r
  <2>4. DOMAIN req' = Worker /\ \A v \in Worker : RequestOK(req'[v], clock')
    BY <2>2, <2>3, RequestsType
  <2> QED
    BY <2>2, <2>4, LocksType DEF TypeOK, Locking
<1>3. ASSUME NEW w \in Worker, CommitUpdate(w) PROVE TypeOK'
  BY <1>3, CommitUpdateType
<1>4. ASSUME NEW w \in Worker, NEW t \in Case, NEW S \in (SUBSET (Case \ {t})) \ {{}},
             LoadMerge(w, t, S)
      PROVE  TypeOK'
  <2>1. PICK r : /\ req' = [req EXCEPT ![w] = r] /\ MergeOK(r)
                 /\ alone' = alone \cup {w}
                 /\ UNCHANGED <<cases, home, clock, told, lock, merged>>
    BY <1>4, LoadMergeShape
  <2>2. DOMAIN req' = Worker /\ \A v \in Worker : RequestOK(req'[v], clock')
    BY <2>1, RequestsType DEF RequestOK
  <2> QED
    BY <2>1, <2>2 DEF TypeOK
<1>5. ASSUME NEW w \in Worker, CollectItems(w) \/ FlushMerge(w) \/ FlushSource(w)
      PROVE  TypeOK'
  <2>1. PICK r : /\ req' = [req EXCEPT ![w] = r] /\ MergeOK(r)
                 /\ Locking(w)
                 /\ UNCHANGED <<cases, home, clock, told, merged, alone>>
    BY <1>5, CollectShape, FlushMergeShape, FlushSourceShape
  <2>2. DOMAIN req' = Worker /\ \A v \in Worker : RequestOK(req'[v], clock')
    BY <2>1, RequestsType DEF RequestOK
  <2> QED
    BY <2>1, <2>2, LocksType DEF TypeOK, Locking
<1>6. ASSUME NEW w \in Worker, CommitMerge(w) PROVE TypeOK'
  BY <1>6, CommitMergeType
<1>7. ASSUME NEW w \in Worker, NEW i \in Item, NEW c \in Case, AddItem(w, i, c)
      PROVE  TypeOK'
  <2>1. DOMAIN home' \subseteq Entries /\ home' \in [DOMAIN home' -> Case]
    BY <1>7, PlaceType DEF AddItem, Entries
  <2> QED
    BY <1>7, <2>1 DEF AddItem, TypeOK
<1>8. ASSUME NEW w \in Worker, Abort(w) PROVE TypeOK'
  <2>1. RequestOK(Idle, clock)
    BY DEF RequestOK
  <2>2. DOMAIN req' = Worker /\ \A v \in Worker : RequestOK(req'[v], clock')
    BY <1>8, <2>1, RequestsType DEF Abort
  <2> QED
    BY <1>8, <2>2, LocksType DEF Abort, TypeOK
<1>9. CASE UNCHANGED vars
  BY <1>9 DEF vars, TypeOK
<1> QED
  BY <1>1, <1>2, <1>3, <1>4, <1>5, <1>6, <1>7, <1>8, <1>9
     DEF Next, Update, Merge, BreakDeadlock

\* Type correctness of status changes and merges.
THEOREM TypeCorrect == Spec => []TypeOK
<1>1. Init => TypeOK
  BY TypeInit
<1>2. TypeOK /\ [Next]_vars => TypeOK'
  BY TypeStep
<1> QED
  BY <1>1, <1>2, PTL DEF Spec
-----------------------------------------------------------------------------
(* What the commits do to the cases                                        *)

\* Only the two commits change a case, what its timeline tells, or the merges.
LEMMA OnlyCommits ==
  ASSUME [Next]_vars
  PROVE  \/ UNCHANGED <<cases, told, merged>>
         \/ \E w \in Worker : CommitUpdate(w) \/ CommitMerge(w)
<1>1. CASE UNCHANGED vars
  BY <1>1 DEF vars
<1>2. ASSUME NEW w \in Worker, Update(w)
      PROVE  UNCHANGED <<cases, told, merged>> \/ CommitUpdate(w)
  BY <1>2 DEF Update, LoadUpdate, FlushUpdate
<1>3. ASSUME NEW w \in Worker, Merge(w)
      PROVE  UNCHANGED <<cases, told, merged>> \/ CommitMerge(w)
  BY <1>3 DEF Merge, LoadMerge, CollectItems, FlushMerge, FlushSource
<1>4. ASSUME NEW w \in Worker,
             (\E i \in Item, c \in Case : AddItem(w, i, c)) \/ Abort(w) \/ BreakDeadlock(w)
      PROVE  UNCHANGED <<cases, told, merged>>
  BY <1>4 DEF AddItem, Abort, BreakDeadlock
<1> QED
  BY <1>1, <1>2, <1>3, <1>4 DEF Next

LEMMA CommitUpdateShape ==
  ASSUME TypeOK, NEW w \in Worker, CommitUpdate(w)
  PROVE  LET c == req[w].case
             wr == req[w].write
         IN  /\ Updating(req[w]) /\ c \in Case
             /\ "merged_from" \notin DOMAIN wr
             /\ \A d \in RowColumns :
                  cases'[c][d] = IF d \in DOMAIN wr THEN wr[d] ELSE cases[c][d]
             /\ \A b \in Case \ {c} : cases'[b] = cases[b]
<1> DEFINE c == req[w].case
           wr == req[w].write
<1>1. Updating(req[w]) /\ UpdateOK(req[w], clock)
  BY RequestShape DEF CommitUpdate, Updating
<1>2. c \in Case /\ "merged_from" \notin DOMAIN wr
  BY <1>1, ColumnDomain DEF UpdateOK
<1>3. cases' = [cases EXCEPT ![c] = Overlay(cases[c], wr)]
  BY DEF CommitUpdate
<1>4. cases'[c] = Overlay(cases[c], wr) /\ \A b \in Case \ {c} : cases'[b] = cases[b]
  BY <1>2, <1>3 DEF TypeOK
<1>5. \A d \in RowColumns :
        Overlay(cases[c], wr)[d] = IF d \in DOMAIN wr THEN wr[d] ELSE cases[c][d]
  BY <1>2, OverlayColumns DEF TypeOK
<1> QED
  BY <1>1, <1>2, <1>4, <1>5

LEMMA CommitMergeShape ==
  ASSUME TypeOK, NEW w \in Worker, CommitMerge(w)
  PROVE  /\ Merging(req[w]) /\ MergeOK(req[w])
         /\ \A c \in Case : \A d \in RowColumns :
              cases'[c][d] = LET wr == MergeWrite(req[w], c)
                             IN  IF d \in DOMAIN wr THEN wr[d] ELSE cases[c][d]
<1>1. Merging(req[w]) /\ MergeOK(req[w])
  BY RequestShape DEF CommitMerge, Merging
<1>2. \A c \in Case : cases'[c] = Overlay(cases[c], MergeWrite(req[w], c))
  BY DEF CommitMerge
<1>3. \A c \in Case : cases[c] \in Row
  BY DEF TypeOK
<1> QED
  BY <1>1, <1>2, <1>3, OverlayColumns

\* A merge that commits takes its sources away, into its target.
LEMMA MergeMoves ==
  ASSUME TypeOK, NEW w \in Worker, CommitMerge(w)
  PROVE  /\ MergedAway \cup req[w].sources \subseteq MergedAway'
         /\ MergedInto \cup {req[w].target} \subseteq MergedInto'
<1>1. merged' = merged \cup (req[w].sources \X {req[w].target})
  BY DEF CommitMerge
<1>2. MergeOK(req[w])
  BY CommitMergeShape
<1>3. ASSUME NEW s \in req[w].sources
      PROVE  s \in MergedAway' /\ req[w].target \in MergedInto'
  <2> DEFINE p == <<s, req[w].target>>
  <2>1. p \in merged' /\ p[1] = s /\ p[2] = req[w].target
    BY <1>1
  <2> HIDE DEF p
  <2> QED
    BY <2>1 DEF MergedAway, MergedInto
<1>4. req[w].sources # {}
  BY <1>2 DEF MergeOK
<1>5. MergedAway \subseteq MergedAway' /\ MergedInto \subseteq MergedInto'
  BY <1>1 DEF MergedAway, MergedInto
<1> QED
  BY <1>3, <1>4, <1>5
-----------------------------------------------------------------------------
(* The status entry written last tells the status.                         *)
(*                                                                         *)
(* An entry leaves the case it was recorded for only with a merge that     *)
(* takes that case away, and so does one that a merge in progress has      *)
(* selected.                                                               *)

\* The status of a case and the entry written last for it agree.
Agree(c) == cases[c].status = IF told[c] = None THEN "new" ELSE told[c].status

Agreed == \A c \in Case \ MergedAway : Agree(c)

Written == \A c \in Case : told[c] # None =>
             told[c].case = c /\ told[c] \in DOMAIN home \cap Change

AtHome == \A e \in DOMAIN home \cap Change : home[e] # e.case =>
            e.case \in MergedAway /\ home[e] \in MergedInto

\* What a merge has selected, given the cases merged away by then.
Selected(r, away) == \A e \in r.moved \cap Change : e.case \in r.sources \cup away

Gathered == \A w \in Worker : Merging(req[w]) => Selected(req[w], MergedAway)

LEMMA AgreedStep ==
  ASSUME TypeOK, Agreed, [Next]_vars
  PROVE  Agreed'
<1>1. CASE UNCHANGED <<cases, told, merged>>
  BY <1>1 DEF Agreed, Agree, MergedAway
<1>2. ASSUME NEW w \in Worker, CommitUpdate(w) PROVE Agreed'
  <2> DEFINE r == req[w]
  <2>0. PICK c \in Case : c = r.case
    BY <1>2, CommitUpdateShape
  <2>1. /\ c \in Case
        /\ cases'[c]["status"] = IF "status" \in DOMAIN r.write THEN r.write["status"]
                                                                ELSE cases[c]["status"]
        /\ \A b \in Case \ {c} : cases'[b] = cases[b]
    BY <1>2, <2>0, CommitUpdateShape DEF RowColumns
  <2>2. /\ told' = IF "status" \in DOMAIN r.write THEN [told EXCEPT ![c] = Entry(r)]
                                                  ELSE told
        /\ merged' = merged
    BY <1>2, <2>0 DEF CommitUpdate
  <2>3. MergedAway' = MergedAway
    BY <2>2 DEF MergedAway
  <2>4. "status" \in DOMAIN r.write =>
          Entry(r) # None /\ Entry(r).status = r.write["status"]
    BY <1>2, RequestShape, EntryType DEF CommitUpdate, Updating, TypeOK
  <2> HIDE DEF r
  <2>5. told \in [Case -> Change \cup {None}]
    BY DEF TypeOK
  <2>6. ASSUME NEW b \in Case \ {c}, Agree(b) PROVE Agree(b)'
    BY <2>1, <2>2, <2>5, <2>6 DEF Agree
  <2>7. ASSUME Agree(c) PROVE Agree(c)'
    <3>1. CASE "status" \in DOMAIN r.write
      <4>1. told'[c] = Entry(r)
        BY <2>1, <2>2, <2>5, <3>1
      <4>2. cases'[c].status = r.write["status"]
        BY <2>1, <3>1
      <4> QED
        BY <2>4, <3>1, <4>1, <4>2 DEF Agree
    <3>2. CASE "status" \notin DOMAIN r.write
      BY <2>1, <2>2, <2>7, <3>2 DEF Agree
    <3> QED
      BY <3>1, <3>2
  <2> QED
    BY <2>1, <2>3, <2>6, <2>7 DEF Agreed
<1>3. ASSUME NEW w \in Worker, CommitMerge(w) PROVE Agreed'
  <2>1. MergedAway \cup req[w].sources \subseteq MergedAway' /\ told' = told
    BY <1>3, MergeMoves DEF CommitMerge
  <2>2. \A c \in Case \ req[w].sources : cases'[c].status = cases[c].status
    <3> TAKE c \in Case \ req[w].sources
    <3>1. MergeOK(req[w]) /\ "status" \notin DOMAIN MergeWrite(req[w], c)
      BY <1>3, CommitMergeShape, MergeWriteColumns
    <3> QED
      BY <1>3, <3>1, CommitMergeShape DEF RowColumns
  <2> QED
    BY <2>1, <2>2 DEF Agreed, Agree
<1> QED
  BY <1>1, <1>2, <1>3, OnlyCommits

\* Only three steps put entries on cases: the commits, and an item's request.
LEMMA OnlyPlaced ==
  ASSUME [Next]_vars
  PROVE  \/ UNCHANGED <<home, told, merged>>
         \/ \E w \in Worker : \/ CommitUpdate(w) \/ CommitMerge(w)
                             \/ \E i \in Item, c \in Case : AddItem(w, i, c)
<1>1. CASE UNCHANGED vars
  BY <1>1 DEF vars
<1>2. ASSUME NEW w \in Worker, Update(w)
      PROVE  UNCHANGED <<home, told, merged>> \/ CommitUpdate(w)
  BY <1>2 DEF Update, LoadUpdate, FlushUpdate
<1>3. ASSUME NEW w \in Worker, Merge(w)
      PROVE  UNCHANGED <<home, told, merged>> \/ CommitMerge(w)
  BY <1>3 DEF Merge, LoadMerge, CollectItems, FlushMerge, FlushSource
<1>4. ASSUME NEW w \in Worker, Abort(w) \/ BreakDeadlock(w)
      PROVE  UNCHANGED <<home, told, merged>>
  BY <1>4 DEF Abort, BreakDeadlock
<1> QED
  BY <1>1, <1>2, <1>3, <1>4 DEF Next

LEMMA PlacedStep ==
  ASSUME TypeOK, Written, AtHome, Gathered, [Next]_vars
  PROVE  Written' /\ AtHome'
<1>1. CASE UNCHANGED <<home, told, merged>>
  BY <1>1 DEF Written, AtHome, MergedAway, MergedInto
<1>2. ASSUME NEW w \in Worker, CommitUpdate(w) PROVE Written' /\ AtHome'
  <2> DEFINE r == req[w]
  <2>1. r.case \in Case /\ UpdateOK(r, clock) /\ merged' = merged
    BY <1>2, RequestShape, CommitUpdateShape DEF CommitUpdate, Updating
  <2>2. CASE "status" \notin DOMAIN r.write
    BY <1>2, <2>2 DEF CommitUpdate, Written, AtHome, MergedAway, MergedInto
  <2>3. CASE "status" \in DOMAIN r.write
    <3>1. /\ Entry(r) \in Change /\ Entry(r).case = r.case
          /\ told' = [told EXCEPT ![r.case] = Entry(r)]
          /\ Place(Entry(r), r.case)
      BY <1>2, <2>1, <2>3, EntryType DEF CommitUpdate, TypeOK
    <3>2. /\ DOMAIN home' = DOMAIN home \cup {Entry(r)}
          /\ home'[Entry(r)] = r.case
          /\ \A d \in DOMAIN home \ {Entry(r)} : home'[d] = home[d]
      BY <2>1, <3>1, PlaceType DEF Entries
    <3>3. \A c \in Case : told'[c] = IF c = r.case THEN Entry(r) ELSE told[c]
      BY <3>1 DEF TypeOK
    <3>4. MergedAway' = MergedAway /\ MergedInto' = MergedInto
      BY <2>1 DEF MergedAway, MergedInto
    <3> HIDE DEF r
    <3>5. Written'
      BY <3>1, <3>2, <3>3 DEF Written
    <3>6. AtHome'
      BY <3>1, <3>2, <3>4 DEF AtHome
    <3> QED
      BY <3>5, <3>6
  <2> QED
    BY <2>2, <2>3
<1>3. ASSUME NEW w \in Worker, CommitMerge(w) PROVE Written' /\ AtHome'
  <2> DEFINE r == req[w]
  <2>1. /\ told' = told /\ DOMAIN home' = DOMAIN home
        /\ \A e \in DOMAIN home : home'[e] = IF e \in r.moved THEN r.target ELSE home[e]
    BY <1>3 DEF CommitMerge
  <2>2. /\ MergedAway \cup r.sources \subseteq MergedAway'
        /\ MergedInto \cup {r.target} \subseteq MergedInto'
    BY <1>3, MergeMoves
  <2>3. Selected(r, MergedAway)
    BY <1>3, CommitMergeShape DEF Gathered
  <2> HIDE DEF r
  <2>4. Written'
    BY <2>1 DEF Written
  <2>5. AtHome'
    BY <2>1, <2>2, <2>3 DEF AtHome, Selected
  <2> QED
    BY <2>4, <2>5
<1>4. ASSUME NEW w \in Worker, NEW i \in Item, NEW c \in Case, AddItem(w, i, c)
      PROVE  Written' /\ AtHome'
  <2>1. /\ DOMAIN home' = DOMAIN home \cup {i} /\ i \notin DOMAIN home
        /\ \A d \in DOMAIN home \ {i} : home'[d] = home[d]
        /\ UNCHANGED <<told, merged>>
    BY <1>4, PlaceType DEF AddItem, Entries
  <2>2. i \notin Change
    BY ItemAssumption
  <2> QED
    BY <2>1, <2>2 DEF Written, AtHome, MergedAway, MergedInto
<1> QED
  BY <1>1, <1>2, <1>3, <1>4, OnlyPlaced

LEMMA GatheredStep ==
  ASSUME TypeOK, AtHome, Gathered, [Next]_vars
  PROVE  Gathered'
<1>0. MergedAway \subseteq MergedAway'
  <2>1. merged \subseteq merged'
    BY OnlyPlaced DEF CommitUpdate, CommitMerge, AddItem
  <2> QED
    BY <2>1 DEF MergedAway
<1>1. ASSUME NEW w \in Worker, NEW r, req' = [req EXCEPT ![w] = r],
             Merging(r) => Selected(r, MergedAway)
      PROVE  Gathered'
  <2>1. \A v \in Worker : req'[v] = IF v = w THEN r ELSE req[v]
    BY <1>1 DEF TypeOK
  <2> QED
    BY <1>0, <1>1, <2>1 DEF Gathered, Selected
<1>2. ASSUME NEW w \in Worker, NEW r, req' = [req EXCEPT ![w] = r], ~Merging(r)
      PROVE  Gathered'
  BY <1>1, <1>2
<1>3. ASSUME NEW w \in Worker, Update(w) PROVE Gathered'
  <2>1. ASSUME NEW c \in Case, NEW p \in Payload, LoadUpdate(w, c, p) PROVE Gathered'
    <3> DEFINE r == [step |-> "update", case |-> c, at |-> clock',
                     write |-> Changed(cases[c], Assigned(cases[c], p))]
    <3>1. req' = [req EXCEPT ![w] = r] /\ r.step = "update"
      BY <2>1 DEF LoadUpdate, Begin
    <3> HIDE DEF r
    <3> QED
      BY <1>2, <3>1 DEF Merging
  <2>2. CASE FlushUpdate(w)
    <3> DEFINE r == [req[w] EXCEPT !.step = "updated"]
    <3>1. req' = [req EXCEPT ![w] = r] /\ UpdateOK(req[w], clock)
      BY <2>2, RequestShape DEF FlushUpdate, Updating, TypeOK
    <3>2. r.step = "updated"
      BY <3>1 DEF UpdateOK
    <3> HIDE DEF r
    <3> QED
      BY <1>2, <3>1, <3>2 DEF Merging
  <2>3. CASE CommitUpdate(w)
    BY <1>2, <2>3 DEF CommitUpdate, End, Merging, Idle
  <2> QED
    BY <1>3, <2>1, <2>2, <2>3 DEF Update
<1>4. ASSUME NEW w \in Worker, Merge(w) PROVE Gathered'
  <2>1. ASSUME NEW t \in Case, NEW S \in (SUBSET (Case \ {t})) \ {{}}, LoadMerge(w, t, S)
        PROVE  Gathered'
    <3> DEFINE r == [step |-> "collect", target |-> t, sources |-> S, left |-> S,
                     moved |-> {}, open |-> {s \in S : cases[s].status # "closed"},
                     merged_from |-> cases[t].merged_from \cup S]
    <3>1. req' = [req EXCEPT ![w] = r] /\ r.moved = {}
      BY <2>1, LoadMergeShape
    <3> HIDE DEF r
    <3> QED
      BY <1>1, <3>1 DEF Selected
  <2>2. CASE CollectItems(w)
    <3>1. PICK s \in req[w].left :
            /\ Merging(req[w]) /\ MergeOK(req[w])
            /\ req' = [req EXCEPT ![w] = Collected(req[w], s)]
      BY <2>2, CollectShape
    <3> DEFINE r == Collected(req[w], s)
    <3>2. /\ r.moved = req[w].moved \cup {e \in DOMAIN home : home[e] = s}
          /\ r.sources = req[w].sources /\ s \in r.sources
      BY <3>1 DEF Collected, MergeOK
    <3>3. Selected(req[w], MergedAway)
      BY <3>1 DEF Gathered
    <3> HIDE DEF r
    <3>4. Selected(r, MergedAway)
      BY <3>2, <3>3 DEF Selected, AtHome
    <3>5. req' = [req EXCEPT ![w] = r]
      BY <3>1 DEF r
    <3> QED
      BY <1>1, <3>4, <3>5
  <2>3. CASE FlushMerge(w) \/ FlushSource(w)
    <3>0. MergeOK(req[w]) /\ Merging(req[w])
      BY <2>3, RequestShape DEF FlushMerge, FlushSource, Merging
    <3>1. PICK r : /\ Merging(req[w]) /\ req' = [req EXCEPT ![w] = r]
                   /\ r.moved = req[w].moved /\ r.sources = req[w].sources
      <4>1. CASE FlushMerge(w)
        <5> DEFINE r == [req[w] EXCEPT !.step = "close", !.left = req[w].sources]
        <5>1. req' = [req EXCEPT ![w] = r]
          BY <4>1, FlushMergeShape
        <5>2. r.moved = req[w].moved /\ r.sources = req[w].sources
          BY <3>0 DEF MergeOK
        <5> HIDE DEF r
        <5> QED
          BY <3>0, <5>1, <5>2
      <4>2. CASE FlushSource(w)
        <5>1. PICK s : req' = [req EXCEPT ![w] = [req[w] EXCEPT !.left = @ \ {s}]]
          BY <4>2, FlushSourceShape
        <5> DEFINE r == [req[w] EXCEPT !.left = @ \ {s}]
        <5>2. r.moved = req[w].moved /\ r.sources = req[w].sources
          BY <3>0 DEF MergeOK
        <5>3. req' = [req EXCEPT ![w] = r]
          BY <5>1
        <5> HIDE DEF r
        <5> QED
          BY <3>0, <5>2, <5>3
      <4> QED
        BY <2>3, <4>1, <4>2
    <3>2. Selected(r, MergedAway)
      BY <3>1 DEF Gathered, Selected
    <3> QED
      BY <1>1, <3>1, <3>2
  <2>4. CASE CommitMerge(w)
    BY <1>2, <2>4 DEF CommitMerge, End, Merging, Idle
  <2> QED
    BY <1>4, <2>1, <2>2, <2>3, <2>4 DEF Merge
<1>5. ASSUME NEW w \in Worker, NEW i \in Item, NEW c \in Case, AddItem(w, i, c)
      PROVE  Gathered'
  BY <1>0, <1>5 DEF AddItem, Gathered, Selected
<1>6. ASSUME NEW w \in Worker, Abort(w) PROVE Gathered'
  BY <1>2, <1>6 DEF Abort, Merging, Idle
<1>7. CASE UNCHANGED vars
  BY <1>0, <1>7 DEF vars, Gathered, Selected
<1> QED
  BY <1>3, <1>4, <1>5, <1>6, <1>7 DEF Next, BreakDeadlock

\* Of the status_changed entries recorded for a case that has not been merged
\* away, the one written last is on its timeline and tells its status; there are
\* no other cases' entries unless one was merged into it (cases.py, update_case).
THEOREM StatusIsTold == Spec => []StatusTold
<1> DEFINE Inv == TypeOK /\ Agreed /\ Written /\ AtHome /\ Gathered
<1>1. Init => Inv
  BY TypeInit DEF Init, Agreed, Agree, Written, AtHome, Gathered, Merging, Idle
<1>2. Inv /\ [Next]_vars => Inv'
  BY TypeStep, AgreedStep, PlacedStep, GatheredStep
<1>3. Inv => StatusTold
  BY DEF Agreed, Agree, Written, AtHome, StatusTold, On
<1> QED
  BY <1>1, <1>2, <1>3, PTL DEF Spec
-----------------------------------------------------------------------------
(* Closed and resolved cases are stamped.                                  *)
(*                                                                         *)
(* A flush leaves out a stamp that the loaded row had already, so the row  *)
(* must still have it when the status lands: no request clears a stamp.    *)

Stamped(wr, row) ==
  /\ "status" \in DOMAIN wr =>
       /\ wr["status"] = "closed" => "closed_at" \in DOMAIN wr \/ row.closed_at
       /\ wr["status"] = "resolved" => "resolved_at" \in DOMAIN wr \/ row.resolved_at
  /\ "closed_at" \in DOMAIN wr => wr["closed_at"] = TRUE
  /\ "resolved_at" \in DOMAIN wr => wr["resolved_at"] = TRUE

WritesStamped ==
  \A w \in Worker : Updating(req[w]) => Stamped(req[w].write, cases[req[w].case])

LEMMA StampsStay ==
  ASSUME TypeOK, WritesStamped, [Next]_vars, NEW c \in Case
  PROVE  /\ cases[c].closed_at = TRUE => cases'[c].closed_at = TRUE
         /\ cases[c].resolved_at = TRUE => cases'[c].resolved_at = TRUE
<1>1. CASE UNCHANGED <<cases, told, merged>>
  BY <1>1
<1>2. ASSUME NEW w \in Worker, CommitUpdate(w)
      PROVE  /\ cases[c].closed_at = TRUE => cases'[c].closed_at = TRUE
             /\ cases[c].resolved_at = TRUE => cases'[c].resolved_at = TRUE
  <2> DEFINE a == req[w].case
             wr == req[w].write
  <2>1. /\ Updating(req[w])
        /\ \A d \in RowColumns :
             cases'[a][d] = IF d \in DOMAIN wr THEN wr[d] ELSE cases[a][d]
        /\ \A b \in Case \ {a} : cases'[b] = cases[b]
    BY <1>2, CommitUpdateShape
  <2>2. Stamped(wr, cases[a])
    BY <2>1 DEF WritesStamped
  <2> HIDE DEF a, wr
  <2>3. CASE c = a
    BY <2>1, <2>2, <2>3 DEF Stamped, RowColumns
  <2>4. CASE c # a
    BY <2>1, <2>4
  <2> QED
    BY <2>3, <2>4
<1>3. ASSUME NEW w \in Worker, CommitMerge(w)
      PROVE  /\ cases[c].closed_at = TRUE => cases'[c].closed_at = TRUE
             /\ cases[c].resolved_at = TRUE => cases'[c].resolved_at = TRUE
  <2> DEFINE wr == MergeWrite(req[w], c)
  <2>1. \A d \in RowColumns : cases'[c][d] = IF d \in DOMAIN wr THEN wr[d] ELSE cases[c][d]
    BY <1>3, CommitMergeShape
  <2>2. /\ "closed_at" \in DOMAIN wr => wr["closed_at"] = TRUE
        /\ "resolved_at" \notin DOMAIN wr
    BY <1>3, CommitMergeShape, MergeWriteColumns
  <2> QED
    BY <2>1, <2>2 DEF RowColumns
<1> QED
  BY <1>1, <1>2, <1>3, OnlyCommits

\* Every request in progress after a step was in progress before it with the
\* same write, or has just loaded its case.
LEMMA WritesFrom ==
  ASSUME TypeOK, [Next]_vars, NEW v \in Worker, Updating(req'[v])
  PROVE  \/ /\ Updating(req[v])
            /\ req'[v].write = req[v].write /\ req'[v].case = req[v].case
         \/ \E c \in Case, p \in Payload : LoadUpdate(v, c, p)
<1>1. CASE UNCHANGED vars
  BY <1>1 DEF vars
<1>2. ASSUME NEW w \in Worker, NEW c \in Case, NEW p \in Payload, LoadUpdate(w, c, p), v # w
      PROVE  req'[v] = req[v]
  BY <1>2 DEF LoadUpdate, Begin, TypeOK
<1>3. ASSUME NEW w \in Worker, FlushUpdate(w)
      PROVE  \/ req'[v] = req[v]
             \/ /\ Updating(req[v])
                /\ req'[v].write = req[v].write /\ req'[v].case = req[v].case
  <2>1. Updating(req[w]) /\ UpdateOK(req[w], clock)
    BY <1>3, RequestShape DEF FlushUpdate, Updating
  <2>2. req' = [req EXCEPT ![w].step = "updated"]
    BY <1>3 DEF FlushUpdate
  <2> QED
    BY <2>1, <2>2 DEF TypeOK, UpdateOK
<1>4. ASSUME NEW w \in Worker, CommitUpdate(w) \/ CommitMerge(w) \/ Abort(w)
      PROVE  req'[v] = req[v]
  <2>1. req' = [req EXCEPT ![w] = Idle]
    BY <1>4 DEF CommitUpdate, CommitMerge, Abort, End
  <2> QED
    BY <2>1 DEF TypeOK, Idle, Updating
<1>5. ASSUME NEW w \in Worker, NEW r, MergeOK(r), req' = [req EXCEPT ![w] = r]
      PROVE  req'[v] = req[v]
  BY <1>5 DEF TypeOK, MergeOK, Updating
<1>6. ASSUME NEW w \in Worker, NEW t \in Case, NEW S \in (SUBSET (Case \ {t})) \ {{}},
             LoadMerge(w, t, S)
      PROVE  req'[v] = req[v]
  BY <1>5, <1>6, LoadMergeShape
<1>7. ASSUME NEW w \in Worker, CollectItems(w) \/ FlushMerge(w) \/ FlushSource(w)
      PROVE  req'[v] = req[v]
  BY <1>5, <1>7, CollectShape, FlushMergeShape, FlushSourceShape
<1>8. ASSUME NEW w \in Worker, NEW i \in Item, NEW c \in Case, AddItem(w, i, c)
      PROVE  req'[v] = req[v]
  BY <1>8 DEF AddItem
<1> QED
  BY <1>1, <1>2, <1>3, <1>4, <1>6, <1>7, <1>8 DEF Next, Update, Merge, BreakDeadlock

LEMMA WritesStep ==
  ASSUME TypeOK, WritesStamped, [Next]_vars
  PROVE  WritesStamped'
<1> SUFFICES ASSUME NEW v \in Worker, Updating(req'[v])
             PROVE  Stamped(req'[v].write, cases'[req'[v].case])
  BY DEF WritesStamped
<1>1. CASE /\ Updating(req[v])
           /\ req'[v].write = req[v].write /\ req'[v].case = req[v].case
  <2> DEFINE c == req[v].case
             wr == req[v].write
  <2>1. c \in Case
    BY <1>1, RequestShape DEF UpdateOK
  <2>2. Stamped(wr, cases[c])
    BY <1>1 DEF WritesStamped
  <2>3. cases[c].closed_at \in BOOLEAN /\ cases[c].resolved_at \in BOOLEAN
    BY <2>1 DEF TypeOK, Row
  <2>4. /\ cases[c].closed_at = TRUE => cases'[c].closed_at = TRUE
        /\ cases[c].resolved_at = TRUE => cases'[c].resolved_at = TRUE
    BY <2>1, StampsStay
  <2> HIDE DEF c, wr
  <2>5. Stamped(wr, cases'[c])
    BY <2>2, <2>3, <2>4 DEF Stamped
  <2> QED
    BY <1>1, <2>5 DEF c, wr
<1>2. ASSUME NEW c \in Case, NEW p \in Payload, LoadUpdate(v, c, p)
      PROVE  Stamped(req'[v].write, cases'[req'[v].case])
  <2> DEFINE row == cases[c]
             want == Assigned(row, p)
  <2>1. /\ req'[v].write = Changed(row, want) /\ req'[v].case = c
        /\ cases' = cases
    BY <1>2 DEF LoadUpdate, Begin, TypeOK
  <2>2. row \in Row
    BY DEF TypeOK
  <2>3. /\ "closed_at" \in DOMAIN want => want["closed_at"] = TRUE
        /\ "resolved_at" \in DOMAIN want => want["resolved_at"] = TRUE
        /\ "status" \in DOMAIN want /\ want["status"] # row.status =>
             /\ want["status"] = "closed" => "closed_at" \in DOMAIN want
             /\ want["status"] = "resolved" => "resolved_at" \in DOMAIN want
    BY <2>2, AssignedColumns
  <2> HIDE DEF want
  <2>4. Stamped(Changed(row, want), row)
    BY <2>3 DEF Stamped, Changed
  <2> QED
    BY <2>1, <2>4
<1> QED
  BY <1>1, <1>2, WritesFrom

LEMMA StampedStep ==
  ASSUME TypeOK, WritesStamped, StatusStamped, [Next]_vars
  PROVE  StatusStamped'
<1>b. \A c \in Case : cases[c].closed_at \in BOOLEAN /\ cases[c].resolved_at \in BOOLEAN
  BY DEF TypeOK, Row
<1>1. CASE UNCHANGED <<cases, told, merged>>
  BY <1>1 DEF StatusStamped
<1>2. ASSUME NEW w \in Worker, CommitUpdate(w) PROVE StatusStamped'
  <2> DEFINE a == req[w].case
             wr == req[w].write
  <2>1. /\ Updating(req[w]) /\ a \in Case
        /\ \A d \in RowColumns :
             cases'[a][d] = IF d \in DOMAIN wr THEN wr[d] ELSE cases[a][d]
        /\ \A b \in Case \ {a} : cases'[b] = cases[b]
    BY <1>2, CommitUpdateShape
  <2>2. Stamped(wr, cases[a])
    BY <2>1 DEF WritesStamped
  <2> HIDE DEF a, wr
  <2>3. /\ cases[a]["status"] = "closed" => cases[a]["closed_at"] = TRUE
        /\ cases[a]["status"] = "resolved" => cases[a]["resolved_at"] = TRUE
        /\ cases[a]["closed_at"] \in BOOLEAN /\ cases[a]["resolved_at"] \in BOOLEAN
    BY <1>b, <2>1 DEF StatusStamped
  <2>4. /\ cases'[a]["status"] = "closed" => cases'[a]["closed_at"] = TRUE
        /\ cases'[a]["status"] = "resolved" => cases'[a]["resolved_at"] = TRUE
    BY <2>1, <2>2, <2>3 DEF Stamped, RowColumns
  <2> QED
    BY <2>1, <2>4 DEF StatusStamped
<1>3. ASSUME NEW w \in Worker, CommitMerge(w) PROVE StatusStamped'
  <2> SUFFICES ASSUME NEW c \in Case
               PROVE  /\ cases'[c].status = "closed" => cases'[c].closed_at
                      /\ cases'[c].status = "resolved" => cases'[c].resolved_at
    BY DEF StatusStamped
  <2> DEFINE wr == MergeWrite(req[w], c)
  <2>1. \A d \in RowColumns : cases'[c][d] = IF d \in DOMAIN wr THEN wr[d] ELSE cases[c][d]
    BY <1>3, CommitMergeShape
  <2>2. /\ "status" \in DOMAIN wr => wr["status"] = "closed" /\ "closed_at" \in DOMAIN wr
        /\ "closed_at" \in DOMAIN wr => wr["closed_at"] = TRUE
        /\ "resolved_at" \notin DOMAIN wr
    BY <1>3, CommitMergeShape, MergeWriteColumns
  <2> HIDE DEF wr
  <2>3. /\ cases[c]["status"] = "closed" => cases[c]["closed_at"] = TRUE
        /\ cases[c]["status"] = "resolved" => cases[c]["resolved_at"] = TRUE
    BY <1>b DEF StatusStamped
  <2> QED
    BY <2>1, <2>2, <2>3 DEF RowColumns
<1> QED
  BY <1>1, <1>2, <1>3, OnlyCommits

\* A closed case has closed_at and a resolved one resolved_at, whichever request
\* wrote the status and whichever the stamp (cases.py, update_case, merge_cases).
THEOREM StatusIsStamped == Spec => []StatusStamped
<1> DEFINE Inv == TypeOK /\ WritesStamped /\ StatusStamped
<1>1. Init => Inv
  BY TypeInit DEF Init, WritesStamped, StatusStamped, Updating, Idle
<1>2. Inv /\ [Next]_vars => Inv'
  BY TypeStep, WritesStep, StampedStep
<1> QED
  BY <1>1, <1>2, PTL DEF Spec
-----------------------------------------------------------------------------
(* A merge that nobody overtakes                                           *)
(*                                                                         *)
(* It has moved the items of every source it has read so far, and what it  *)
(* will write to merged_from still starts from what is there.              *)

Unread(r) == IF r.step = "collect" THEN r.left ELSE {}

Caught(r) ==
  /\ \A e \in DOMAIN home : home[e] \in r.sources \ Unread(r) => e \in r.moved
  /\ r.merged_from = cases[r.target].merged_from \cup r.sources

MergeKnows == \A w \in alone : Merging(req[w]) => Caught(req[w])

\* A step that leaves the rows alone and moves w on to a request that has all.
LEMMA KnowsMore ==
  ASSUME TypeOK, MergeKnows, NEW w \in Worker, NEW r,
         UNCHANGED <<cases, home>>, alone' \subseteq alone \cup {w},
         req' = [req EXCEPT ![w] = r],
         Merging(r) /\ w \in alone' => Caught(r)
  PROVE  MergeKnows'
<1>1. \A v \in Worker : req'[v] = IF v = w THEN r ELSE req[v]
  BY DEF TypeOK
<1>2. \A v \in alone' : v \in Worker
  BY DEF TypeOK
<1>3. Merging(r) /\ w \in alone' => Caught(r)'
  BY DEF Caught
<1>4. ASSUME NEW v \in alone', v # w, Merging(req'[v])
      PROVE  Caught(req[v])'
  BY <1>1, <1>2, <1>4 DEF MergeKnows, Caught
<1> QED
  BY <1>1, <1>2, <1>3, <1>4 DEF MergeKnows, Caught

LEMMA KnowsStep ==
  ASSUME TypeOK, MergeKnows, [Next]_vars
  PROVE  MergeKnows'
<1>1. ASSUME NEW w \in Worker, NEW c \in Case, NEW p \in Payload, LoadUpdate(w, c, p)
      PROVE  MergeKnows'
  <2> DEFINE r == [step |-> "update", case |-> c, at |-> clock',
                   write |-> Changed(cases[c], Assigned(cases[c], p))]
  <2>1. /\ UNCHANGED <<cases, home>> /\ alone' = alone \cup {w}
        /\ req' = [req EXCEPT ![w] = r]
    BY <1>1 DEF LoadUpdate, Begin
  <2>2. r.step = "update"
    OBVIOUS
  <2> HIDE DEF r
  <2> QED
    BY <2>1, <2>2, KnowsMore DEF Merging
<1>2. ASSUME NEW w \in Worker, FlushUpdate(w) PROVE MergeKnows'
  <2>1. UpdateOK(req[w], clock)
    BY <1>2, RequestShape DEF FlushUpdate, Updating
  <2>2. PICK r : /\ UNCHANGED <<cases, home>> /\ alone' = alone
                 /\ req' = [req EXCEPT ![w] = r] /\ r = [req[w] EXCEPT !.step = "updated"]
    BY <1>2 DEF FlushUpdate, TypeOK
  <2>3. r.step = "updated"
    BY <2>1, <2>2 DEF UpdateOK
  <2> QED
    BY <2>2, <2>3, KnowsMore DEF Merging
<1>3. ASSUME NEW w \in Worker, CommitUpdate(w) \/ CommitMerge(w) PROVE MergeKnows'
  BY <1>3 DEF CommitUpdate, CommitMerge, End, MergeKnows
<1>4. ASSUME NEW w \in Worker, NEW t \in Case, NEW S \in (SUBSET (Case \ {t})) \ {{}},
             LoadMerge(w, t, S)
      PROVE  MergeKnows'
  <2> DEFINE r == [step |-> "collect", target |-> t, sources |-> S, left |-> S,
                   moved |-> {}, open |-> {s \in S : cases[s].status # "closed"},
                   merged_from |-> cases[t].merged_from \cup S]
  <2>1. /\ req' = [req EXCEPT ![w] = r] /\ alone' = alone \cup {w}
        /\ UNCHANGED <<cases, home>>
    BY <1>4, LoadMergeShape
  <2>2. Caught(r)
    BY DEF Caught, Unread
  <2> QED
    BY <2>1, <2>2, KnowsMore
<1>5. ASSUME NEW w \in Worker, CollectItems(w) PROVE MergeKnows'
  <2>1. PICK s \in req[w].left :
          /\ Merging(req[w]) /\ req[w].step = "collect" /\ MergeOK(req[w])
          /\ req' = [req EXCEPT ![w] = Collected(req[w], s)]
          /\ UNCHANGED <<cases, home, alone>>
    BY <1>5, CollectShape
  <2> DEFINE r == Collected(req[w], s)
  <2>3. /\ r.step = "collect" /\ r.sources = req[w].sources /\ r.target = req[w].target
        /\ r.merged_from = req[w].merged_from
        /\ r.moved = req[w].moved \cup {e \in DOMAIN home : home[e] = s}
        /\ r.left = req[w].left \ {s}
    BY <2>1 DEF MergeOK, Collected
  <2> HIDE DEF r
  <2>4. w \in alone => Caught(req[w])
    BY <2>1 DEF MergeKnows
  <2>5. w \in alone => Caught(r)
    BY <2>1, <2>3, <2>4 DEF Caught, Unread
  <2>6. UNCHANGED <<cases, home, alone>> /\ req' = [req EXCEPT ![w] = r]
    BY <2>1 DEF r
  <2> QED
    BY <2>5, <2>6, KnowsMore
<1>6. ASSUME NEW w \in Worker, FlushMerge(w) PROVE MergeKnows'
  <2> DEFINE r == [req[w] EXCEPT !.step = "close", !.left = req[w].sources]
  <2>1. /\ Merging(req[w]) /\ req[w].step = "collect" /\ req[w].left = {}
        /\ req' = [req EXCEPT ![w] = r]
        /\ UNCHANGED <<cases, home, alone>>
    BY <1>6, FlushMergeShape
  <2>2. MergeOK(req[w])
    BY <2>1, RequestShape
  <2>3. /\ r.step = "close" /\ r.sources = req[w].sources /\ r.target = req[w].target
        /\ r.merged_from = req[w].merged_from /\ r.moved = req[w].moved
    BY <2>2 DEF MergeOK
  <2> HIDE DEF r
  <2>4. w \in alone => Caught(req[w])
    BY <2>1 DEF MergeKnows
  <2>5. w \in alone => Caught(r)
    BY <2>1, <2>3, <2>4 DEF Caught, Unread
  <2> QED
    BY <2>1, <2>5, KnowsMore
<1>7. ASSUME NEW w \in Worker, FlushSource(w) PROVE MergeKnows'
  <2>1. PICK s : LET r == [req[w] EXCEPT !.left = @ \ {s}]
                 IN  /\ Merging(req[w]) /\ req[w].step = "close"
                     /\ req' = [req EXCEPT ![w] = r]
                     /\ UNCHANGED <<cases, home, alone>>
    BY <1>7, FlushSourceShape
  <2> DEFINE r == [req[w] EXCEPT !.left = @ \ {s}]
  <2>2. MergeOK(req[w])
    BY <2>1, RequestShape
  <2>3. /\ r.step = "close" /\ r.sources = req[w].sources /\ r.target = req[w].target
        /\ r.merged_from = req[w].merged_from /\ r.moved = req[w].moved
    BY <2>1, <2>2 DEF MergeOK
  <2> HIDE DEF r
  <2>4. w \in alone => Caught(req[w])
    BY <2>1 DEF MergeKnows
  <2>5. w \in alone => Caught(r)
    BY <2>1, <2>3, <2>4 DEF Caught, Unread
  <2>6. UNCHANGED <<cases, home, alone>> /\ req' = [req EXCEPT ![w] = r]
    BY <2>1 DEF r
  <2> QED
    BY <2>5, <2>6, KnowsMore
<1>8. ASSUME NEW w \in Worker, NEW i \in Item, NEW c \in Case, AddItem(w, i, c)
      PROVE  MergeKnows'
  BY <1>8 DEF AddItem, MergeKnows
<1>9. ASSUME NEW w \in Worker, Abort(w) PROVE MergeKnows'
  <2>1. /\ UNCHANGED <<cases, home>> /\ alone' \subseteq alone
        /\ req' = [req EXCEPT ![w] = Idle]
    BY <1>9 DEF Abort
  <2> QED
    BY <2>1, KnowsMore DEF Merging, Idle
<1>10. CASE UNCHANGED vars
  BY <1>10 DEF vars, MergeKnows, Caught
<1> QED
  BY <1>1, <1>2, <1>3, <1>4, <1>5, <1>6, <1>7, <1>8, <1>9, <1>10
     DEF Next, Update, Merge, BreakDeadlock

\* A merge that nobody overtakes leaves nothing on its sources and adds them to
\* those the target remembers (cases.py, merge_cases), for any number of sources.
THEOREM UndisturbedMerge == Spec => MergeUndisturbed
<1>1. Init => TypeOK /\ MergeKnows
  BY TypeInit DEF Init, MergeKnows
<1>2. TypeOK /\ MergeKnows /\ [Next]_vars => (TypeOK /\ MergeKnows)'
  BY TypeStep, KnowsStep
<1>3. ASSUME TypeOK, MergeKnows, NEW w \in alone, CommitMerge(w)
      PROVE  LET t == req[w].target
             IN  /\ \A e \in DOMAIN home' : home'[e] \notin req[w].sources
                 /\ cases'[t].merged_from = cases[t].merged_from \cup req[w].sources
  <2> DEFINE t == req[w].target
  <2>1. w \in Worker /\ Merging(req[w])
    BY <1>3 DEF TypeOK, CommitMerge, Merging
  <2>2. MergeOK(req[w]) /\ req[w].step = "close"
    BY <1>3, <2>1, RequestShape DEF CommitMerge
  <2>3. Caught(req[w])
    BY <1>3, <2>1 DEF MergeKnows
  <2>4. t \in Case /\ t \notin req[w].sources
    BY <2>2 DEF MergeOK
  <2>5. /\ DOMAIN home' = DOMAIN home
        /\ \A e \in DOMAIN home : home'[e] = IF e \in req[w].moved THEN t ELSE home[e]
    BY <1>3 DEF CommitMerge
  <2>6. \A e \in DOMAIN home' : home'[e] \notin req[w].sources
    BY <2>2, <2>3, <2>4, <2>5 DEF Caught, Unread
  <2>7. MergeWrite(req[w], t) = [merged_from |-> req[w].merged_from]
    BY <2>2, <2>4, MergeWriteColumns
  <2>8. cases'[t]["merged_from"] = req[w].merged_from
    <3>1. cases'[t]["merged_from"] =
            IF "merged_from" \in DOMAIN MergeWrite(req[w], t)
            THEN MergeWrite(req[w], t)["merged_from"] ELSE cases[t]["merged_from"]
      BY <1>3, <2>1, <2>4, CommitMergeShape DEF RowColumns
    <3> QED
      BY <2>7, <3>1
  <2> QED
    BY <2>3, <2>6, <2>8 DEF Caught
<1>4. TypeOK /\ MergeKnows =>
        [\A w \in alone : CommitMerge(w) =>
           LET t == req[w].target
           IN  /\ \A e \in DOMAIN home' : home'[e] \notin req[w].sources
               /\ cases'[t].merged_from = cases[t].merged_from \cup req[w].sources]_vars
  BY <1>3
<1> QED
  BY <1>1, <1>2, <1>4, PTL DEF Spec, MergeUndisturbed
=============================================================================

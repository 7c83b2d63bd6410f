--------------------------- MODULE CaseWorkProofs ---------------------------
(***************************************************************************)
(* Proofs about what a case holds and what those who look at it are shown. *)
(*                                                                         *)
(* CaseWork: any number of overlapping requests, tasks, assets and manual  *)
(* entries.                                                                *)
(*                                                                         *)
(* CaseViews: any number of rows, merges and reports, for reports made     *)
(* while cases change; any finite set of rows, any times and threshold, for*)
(* the clusters.                                                           *)
(*                                                                         *)
(* RealtimeHub: any number of processes, sockets, events and cases, and    *)
(* any TTL.                                                                *)
(*                                                                         *)
(* The clusters come out of a loop and the safety of the hub is about      *)
(* sequences of every length, so the lemmas of those two begin with        *)
(* induction over the natural numbers.                                     *)
(***************************************************************************)
EXTENDS CaseWork, CaseViews, RealtimeHub, FiniteSetTheorems, SequenceTheorems, TLAPS

-----------------------------------------------------------------------------
(* Requests                                                                *)

UpdateRequest == [step : {"update", "count", "updated"}, row : Row,
                  value : Status \cup Mark, complete : BOOLEAN]
DeleteRequest == [step : {"delete", "deleted"}, row : Row \cup Entry]
LinkRequest == [step : {"links", "linked"}, row : Entry, want : SUBSET Asset,
                had : SUBSET Asset]
Updating(r) == r.step \in {"update", "count", "updated"}
Relinking(r) == r.step \in {"links", "linked"}

LEMMA RequestShape ==
  ASSUME NEW r, RequestOK(r)
  PROVE  /\ r.step \in {"idle", "update", "count", "updated", "delete", "deleted",
                        "links", "linked"}
         /\ Updating(r) => r \in UpdateRequest /\ r.value \in Value(r.row)
         /\ r.step \in {"delete", "deleted"} => r \in DeleteRequest
         /\ Relinking(r) => r \in LinkRequest
         /\ r.step = "idle" <=> r = Idle
BY DEF RequestOK, UpdateRequest, DeleteRequest, LinkRequest, Updating, Relinking, Idle
-----------------------------------------------------------------------------
(* The invariant                                                           *)

\* A change goes on with a row that has been there; from its flush on the row is
\* locked, and so still there: who deletes it locks it too.
Owns(w) == LET r == req[w]
           IN  /\ r.step = "update" => rows[r.row] # "unborn"
               /\ r.step \in {"count", "updated"} => Alive(r.row) /\ lock[r.row] = w
               /\ r.step = "deleted" => lock[r.row] = w
RowsOwned == \A w \in Worker : Owns(w)

\* A flushed replacement of links has its entry and its new assets, and nobody
\* is deleting one of them: the deletion and the foreign key wait for each other.
Held(w) == /\ req[w].row \in entries /\ ~ Deleting(req[w].row)
           /\ \A x \in req[w].want \ req[w].had : Alive(x) /\ ~ Deleting(x)
LinksHeld == \A w \in Worker : req[w].step = "linked" => Held(w)

\* A task's update that nobody overtakes has counted the committed tasks.
CountHolds ==
  \A w \in alone : req[w].step = "updated" /\ req[w].row \in Task =>
    (req[w].complete <=>
       Unfinished([rows EXCEPT ![req[w].row] = req[w].value]) = {})

\* A replacement of links that nobody overtakes has loaded the committed ones.
LinksLoaded ==
  \A w \in alone : req[w].step \in {"links", "linked"} =>
    req[w].had = {l[2] : l \in {m \in links : m[1] = req[w].row}}

IInv == TypeOK /\ RowsOwned /\ EntriesTell /\ LinksHeld /\ CountHolds /\ LinksLoaded

LEMMA InitInv == Init => IInv
<1> SUFFICES ASSUME Init PROVE IInv
  OBVIOUS
<1>1. \A w \in Worker : req[w] = Idle /\ req[w].step = "idle"
  BY DEF Init, Idle
<1>2. TypeOK
  BY <1>1 DEF Init, TypeOK, RequestOK, Untold
<1> QED
  BY <1>1, <1>2 DEF IInv, RowsOwned, Owns, EntriesTell, Alive, LinksHeld, Held, CountHolds,
                    LinksLoaded, Init
-----------------------------------------------------------------------------
(* What the actions have in common                                         *)

\* Only the request of w changes, and it changes to r.
Turns(w, r) == /\ DOMAIN req' = Worker
               /\ req'[w] = r
               /\ \A v \in Worker \ {w} : req'[v] = req[v]

\* A request begins, and no table changes.
LEMMA Begun ==
  ASSUME TypeOK, NEW w \in Worker, NEW r, Begin(w, r)
  PROVE  Turns(w, r) /\ alone' = alone \cup {w} /\ req[w] = Idle
  BY DEF TypeOK, Begin, Turns

\* A commit or abort ends the request and no other, and releases its locks.
LEMMA Ended ==
  ASSUME TypeOK, NEW w \in Worker, End(w) \/ Abort(w)
  PROVE  /\ Turns(w, Idle)
         /\ \A v \in Worker : RequestOK(req'[v])
         /\ lock' \in [Row \cup Entry -> Worker \cup {None}]
         /\ alone' \subseteq alone /\ w \notin alone'
  BY DEF TypeOK, End, Abort, Turns, RequestOK

\* What a request that goes on has in each of its steps.
LEMMA Progress ==
  ASSUME TypeOK, NEW w \in Worker,
         FlushUpdate(w) \/ CountRemaining(w) \/ FlushDelete(w) \/ FlushLinks(w)
  PROVE  /\ \E s \in {"count", "updated", "deleted", "linked"}, c \in BOOLEAN :
              \/ Updating(req[w]) /\ Turns(w, [req[w] EXCEPT !.step = s, !.complete = c])
                 /\ s \in {"count", "updated"}
              \/ req[w].step = "delete" /\ s = "deleted"
                 /\ Turns(w, [req[w] EXCEPT !.step = s])
              \/ req[w].step = "links" /\ s = "linked"
                 /\ Turns(w, [req[w] EXCEPT !.step = s])
         /\ lock' \in [Row \cup Entry -> Worker \cup {None}]
         /\ UNCHANGED <<rows, told, entries, links, alone>>
<1>1. CASE FlushUpdate(w)
  <2> DEFINE s == IF req[w].row \in Task THEN "count" ELSE "updated"
  <2>1. req[w] \in UpdateRequest /\ Updating(req[w])
    BY <1>1, RequestShape DEF FlushUpdate, TypeOK, Updating
  <2>2. [req[w] EXCEPT !.step = s] = [req[w] EXCEPT !.step = s, !.complete = req[w].complete]
    BY <2>1 DEF UpdateRequest
  <2>3. Turns(w, [req[w] EXCEPT !.step = s])
    BY <1>1 DEF FlushUpdate, TypeOK, Turns
  <2>4. s \in {"count", "updated"} /\ req[w].complete \in BOOLEAN
    BY <2>1 DEF UpdateRequest
  <2>5. lock' \in [Row \cup Entry -> Worker \cup {None}]
    BY <1>1 DEF FlushUpdate, TypeOK
  <2> HIDE DEF s
  <2> QED
    BY <1>1, <2>1, <2>2, <2>3, <2>4, <2>5 DEF FlushUpdate
<1>2. CASE CountRemaining(w)
  <2>1. Updating(req[w])
    BY <1>2 DEF CountRemaining, Updating
  <2>2. PICK c \in BOOLEAN : Turns(w, [req[w] EXCEPT !.step = "updated", !.complete = c])
    BY <1>2 DEF CountRemaining, TypeOK, Turns
  <2> QED
    BY <1>2, <2>1, <2>2 DEF CountRemaining, TypeOK
<1>3. CASE FlushDelete(w)
  BY <1>3 DEF FlushDelete, TypeOK, Turns
<1>4. CASE FlushLinks(w)
  BY <1>4 DEF FlushLinks, TypeOK, Turns
<1> QED
  BY <1>1, <1>2, <1>3, <1>4

\* Where each step of a request leaves it.
LEMMA Steps ==
  ASSUME TypeOK, NEW w \in Worker
  PROVE  /\ TaskRequest(w) \/ AssetRequest(w) => req'[w].step \in {"update", "delete"}
         /\ EntryRequest(w) => req'[w].step \in {"links", "delete"}
         /\ FlushUpdate(w) => /\ req'[w].step = "count" \/ req'[w].row \notin Task
                              /\ req'[w].step \in {"count", "updated"}
         /\ CountRemaining(w) => /\ req'[w].step = "updated"
                                 /\ req'[w].row = req[w].row /\ req'[w].value = req[w].value
         /\ FlushDelete(w) => req'[w].step = "deleted" /\ req'[w].row = req[w].row
         /\ FlushLinks(w) => /\ req[w] \in LinkRequest /\ req'[w] \in LinkRequest
                             /\ req'[w] = [req[w] EXCEPT !.step = "linked"]
<1>1. TaskRequest(w) \/ AssetRequest(w) => req'[w].step \in {"update", "delete"}
  BY DEF TaskRequest, AssetRequest, LoadUpdate, LoadDelete, Begin, TypeOK
<1>2. EntryRequest(w) => req'[w].step \in {"links", "delete"}
  BY DEF EntryRequest, LoadLinks, LoadDelete, Begin, TypeOK
<1>3. ASSUME FlushUpdate(w)
      PROVE  /\ req'[w].step = "count" \/ req'[w].row \notin Task
             /\ req'[w].step \in {"count", "updated"}
  <2>1. req[w] \in UpdateRequest
    BY <1>3, RequestShape DEF FlushUpdate, TypeOK, Updating
  <2>2. req'[w] = [req[w] EXCEPT !.step = IF req[w].row \in Task THEN "count" ELSE "updated"]
    BY <1>3 DEF FlushUpdate, TypeOK
  <2> QED
    BY <2>1, <2>2 DEF UpdateRequest
<1>4. ASSUME CountRemaining(w)
      PROVE  /\ req'[w].step = "updated"
             /\ req'[w].row = req[w].row /\ req'[w].value = req[w].value
  <2>1. req[w] \in UpdateRequest
    BY <1>4, RequestShape DEF CountRemaining, TypeOK, Updating
  <2>2. PICK c \in BOOLEAN : req'[w] = [req[w] EXCEPT !.step = "updated", !.complete = c]
    BY <1>4 DEF CountRemaining, TypeOK
  <2> QED
    BY <2>1, <2>2 DEF UpdateRequest
<1>5. ASSUME FlushDelete(w) PROVE req'[w].step = "deleted" /\ req'[w].row = req[w].row
  <2>1. req[w] \in DeleteRequest
    BY <1>5, RequestShape DEF FlushDelete, TypeOK
  <2> QED
    BY <1>5, <2>1 DEF FlushDelete, TypeOK, DeleteRequest
<1>6. ASSUME FlushLinks(w)
      PROVE  /\ req[w] \in LinkRequest /\ req'[w] \in LinkRequest
             /\ req'[w] = [req[w] EXCEPT !.step = "linked"]
  <2>1. req[w] \in LinkRequest
    BY <1>6, RequestShape DEF FlushLinks, TypeOK, Relinking
  <2> QED
    BY <1>6, <2>1 DEF FlushLinks, TypeOK, LinkRequest
<1> QED
  BY <1>1, <1>2, <1>3, <1>4, <1>5, <1>6

\* A commit of a row's new value, and what it leaves.
LEMMA RowWritten ==
  ASSUME TypeOK, NEW x \in Row, NEW v \in Value(x), rows' = [rows EXCEPT ![x] = v]
  PROVE  /\ DOMAIN rows' = Row
         /\ rows'[x] = v /\ v \notin {"unborn", "gone"}
         /\ \A y \in Row \ {x} : rows'[y] = rows[y]
         /\ \A y \in Row : rows'[y] \in Value(y) \cup {"unborn", "gone"}
         /\ \A y \in Row : Alive(y) => Alive(y)'
<1>1. v \notin {"unborn", "gone"}
  BY DEF Value, Status, Mark
<1> QED
  BY <1>1 DEF TypeOK, Alive

\* What is told of a row.
Account(x) == [first : Value(x) \cup {"unborn"}, last : Value(x) \cup {"nothing"}]

LEMMA AccountType ==
  ASSUME TypeOK
  PROVE  DOMAIN told = Row /\ \A x \in Row : told[x] \in Account(x)
  BY DEF TypeOK, Account

\* A change tells its value of its row, and of the others what was told.
LEMMA Changed ==
  ASSUME DOMAIN told = Row, NEW x \in Row, told[x] \in Account(x), NEW v \in Value(x),
         told' = [told EXCEPT ![x].last = v]
  PROVE  /\ DOMAIN told' = Row
         /\ told'[x] \in Account(x) /\ told'[x].last = v /\ told'[x].first = told[x].first
         /\ \A y \in Row \ {x} : told'[y] = told[y]
<1>1. /\ DOMAIN told' = Row
      /\ told'[x] = [told[x] EXCEPT !.last = v]
      /\ \A y \in Row \ {x} : told'[y] = told[y]
  OBVIOUS
<1> QED
  BY <1>1 DEF Account
-----------------------------------------------------------------------------
(* Type correctness                                                        *)

LEMMA TypeStep == IInv /\ [Next]_vars => TypeOK'
<1> SUFFICES ASSUME IInv, [Next]_vars PROVE TypeOK'
  OBVIOUS
<1> USE DEF IInv
<1>1. ASSUME NEW x \in Row, NEW v \in Value(x), Create(x, v) PROVE TypeOK'
  <2>1. rows' = [rows EXCEPT ![x] = v]
    BY <1>1 DEF Create
  <2>2. \A y \in Asset : Alive(y) => Alive(y)'
    BY <2>1, RowWritten DEF Row
  <2>3. links' \subseteq entries' \X {y \in Asset : Alive(y)'}
    BY <1>1, <2>2 DEF Create, TypeOK
  <2>4. DOMAIN rows' = Row /\ \A y \in Row : rows'[y] \in Value(y) \cup {"unborn", "gone"}
    BY <2>1, RowWritten
  <2>5. DOMAIN told' = Row /\ \A y \in Row : told'[y] \in Account(y)
    BY <1>1, AccountType DEF Create, Account
  <2> QED
    BY <1>1, <2>3, <2>4, <2>5 DEF Create, TypeOK, Account
<1>2. ASSUME NEW e \in Entry, NEW S \in SUBSET Asset, CreateEntry(e, S) PROVE TypeOK'
  BY <1>2 DEF CreateEntry, TypeOK, Alive
<1>3. ASSUME NEW w \in Worker, NEW r, RequestOK(r), Begin(w, r),
             UNCHANGED <<rows, told, entries, links, lock>>
      PROVE  TypeOK'
  <2>1. \A v \in Worker : RequestOK(req'[v])
    BY <1>3, Begun DEF Turns, TypeOK
  <2> QED
    BY <1>3, <2>1, Begun DEF Turns, TypeOK, Alive
<1>4. ASSUME NEW w \in Worker, TaskRequest(w) \/ AssetRequest(w) PROVE TypeOK'
  <2>1. ASSUME NEW x \in Row, NEW v \in Value(x), LoadUpdate(w, x, v) PROVE TypeOK'
    <3>1. RequestOK([step |-> "update", row |-> x, value |-> v, complete |-> FALSE])
      BY DEF RequestOK, Value
    <3> QED
      BY <1>3, <2>1, <3>1 DEF LoadUpdate
  <2>2. ASSUME NEW x \in Row, LoadDelete(w, x) PROVE TypeOK'
    BY <1>3, <2>2 DEF LoadDelete, RequestOK
  <2> QED
    BY <1>4, <2>1, <2>2, RowAssumption DEF TaskRequest, AssetRequest, Value, Row
<1>5. ASSUME NEW w \in Worker, EntryRequest(w) PROVE TypeOK'
  <2>1. ASSUME NEW e \in Entry, NEW S \in SUBSET Asset, LoadLinks(w, e, S) PROVE TypeOK'
    <3> DEFINE had == {l[2] : l \in {m \in links : m[1] = e}}
    <3>1. had \in SUBSET Asset
      BY DEF TypeOK
    <3>2. RequestOK([step |-> "links", row |-> e, want |-> S, had |-> had])
      BY <3>1 DEF RequestOK
    <3> QED
      BY <1>3, <2>1, <3>2 DEF LoadLinks
  <2>2. ASSUME NEW e \in Entry, LoadDelete(w, e) PROVE TypeOK'
    BY <1>3, <2>2 DEF LoadDelete, RequestOK
  <2> QED
    BY <1>5, <2>1, <2>2 DEF EntryRequest
<1>6. ASSUME NEW w \in Worker,
             FlushUpdate(w) \/ CountRemaining(w) \/ FlushDelete(w) \/ FlushLinks(w)
      PROVE  TypeOK'
  <2>1. RequestOK(req'[w])
    <3>1. PICK s \in {"count", "updated", "deleted", "linked"}, c \in BOOLEAN :
            \/ Updating(req[w]) /\ req'[w] = [req[w] EXCEPT !.step = s, !.complete = c]
               /\ s \in {"count", "updated"}
            \/ req[w].step = "delete" /\ s = "deleted"
               /\ req'[w] = [req[w] EXCEPT !.step = s]
            \/ req[w].step = "links" /\ s = "linked"
               /\ req'[w] = [req[w] EXCEPT !.step = s]
      BY <1>6, Progress DEF Turns
    <3>2. CASE Updating(req[w])
      <4>1. req[w] \in UpdateRequest /\ req[w].value \in Value(req[w].row)
        BY <3>2, RequestShape DEF TypeOK
      <4>2. /\ req'[w] = [req[w] EXCEPT !.step = s, !.complete = c]
            /\ s \in {"update", "count", "updated"}
        BY <3>1, <3>2 DEF Updating
      <4>3. /\ req'[w] \in UpdateRequest
            /\ req'[w].value = req[w].value /\ req'[w].row = req[w].row
        BY <4>1, <4>2 DEF UpdateRequest
      <4> QED
        BY <4>1, <4>3 DEF RequestOK, UpdateRequest
    <3>3. CASE req[w].step = "delete"
      <4>1. req[w] \in DeleteRequest /\ req'[w] = [req[w] EXCEPT !.step = "deleted"]
        BY <3>1, <3>3, RequestShape DEF TypeOK, Updating
      <4> QED
        BY <4>1 DEF RequestOK, DeleteRequest
    <3>4. CASE req[w].step = "links"
      <4>1. req[w] \in LinkRequest /\ req'[w] = [req[w] EXCEPT !.step = "linked"]
        BY <3>1, <3>4, RequestShape DEF TypeOK, Updating, Relinking
      <4> QED
        BY <4>1 DEF RequestOK, LinkRequest
    <3> QED
      BY <3>1, <3>2, <3>3, <3>4
  <2>2. \A v \in Worker : RequestOK(req'[v])
    BY <1>6, <2>1, Progress DEF Turns, TypeOK
  <2>3. DOMAIN req' = Worker
    BY <1>6, Progress DEF Turns
  <2> QED
    BY <1>6, <2>2, <2>3, Progress DEF TypeOK, Alive
<1>7. ASSUME NEW w \in Worker, CommitUpdate(w) PROVE TypeOK'
  <2>1. req[w].row \in Row /\ req[w].value \in Value(req[w].row)
    BY <1>7, RequestShape DEF CommitUpdate, TypeOK, Updating, UpdateRequest
  <2>2. rows' = [rows EXCEPT ![req[w].row] = req[w].value]
    BY <1>7 DEF CommitUpdate
  <2>3. links' \subseteq entries' \X {y \in Asset : Alive(y)'}
    <3>1. \A y \in Asset : Alive(y) => Alive(y)'
      BY <2>1, <2>2, RowWritten DEF Row
    <3> QED
      BY <1>7, <3>1 DEF CommitUpdate, TypeOK
  <2>4. /\ DOMAIN req' = Worker
        /\ \A v \in Worker : RequestOK(req'[v])
        /\ lock' \in [Row \cup Entry -> Worker \cup {None}]
        /\ alone' \subseteq Worker
    BY <1>7, Ended DEF CommitUpdate, Turns, TypeOK
  <2>5. DOMAIN told' = Row /\ \A y \in Row : told'[y] \in Account(y)
    BY <1>7, <2>1, AccountType, Changed DEF CommitUpdate
  <2>6. DOMAIN rows' = Row /\ \A y \in Row : rows'[y] \in Value(y) \cup {"unborn", "gone"}
    BY <2>1, <2>2, RowWritten
  <2> QED
    BY <1>7, <2>3, <2>4, <2>5, <2>6 DEF CommitUpdate, TypeOK, Account
<1>8. ASSUME NEW w \in Worker, CommitDelete(w) PROVE TypeOK'
  <2>1. req[w].row \in Row \cup Entry
    BY <1>8, RequestShape DEF CommitDelete, TypeOK, DeleteRequest
  <2>2. /\ DOMAIN rows' = Row
        /\ \A y \in Row : rows'[y] \in {rows[y], "gone"}
        /\ \A y \in Row \ {req[w].row} : rows'[y] = rows[y]
    BY <1>8, <2>1 DEF CommitDelete, TypeOK
  <2>3. links' \subseteq entries' \X {y \in Asset : Alive(y)'}
    BY <1>8, <2>2 DEF CommitDelete, TypeOK, Alive, Row
  <2>4. /\ DOMAIN req' = Worker
        /\ \A v \in Worker : RequestOK(req'[v])
        /\ lock' \in [Row \cup Entry -> Worker \cup {None}]
        /\ alone' \subseteq Worker
    BY <1>8, Ended DEF CommitDelete, Turns, TypeOK
  <2>5. DOMAIN told' = Row /\ \A y \in Row : told'[y] \in Account(y)
    BY <1>8, AccountType DEF CommitDelete, Account, Untold
  <2> QED
    BY <1>8, <2>2, <2>3, <2>4, <2>5 DEF CommitDelete, TypeOK, Account
<1>9. ASSUME NEW w \in Worker, CommitLinks(w) PROVE TypeOK'
  <2>1. req[w] \in LinkRequest
    BY <1>9, RequestShape DEF CommitLinks, TypeOK, Relinking
  <2>2. Added(w) \subseteq entries \X {y \in Asset : Alive(y)}
    BY <1>9, <2>1 DEF CommitLinks, LinksHeld, Held, Added, LinkRequest
  <2>3. links' \subseteq entries' \X {y \in Asset : Alive(y)'}
    BY <1>9, <2>2 DEF CommitLinks, TypeOK, Alive
  <2>4. /\ DOMAIN req' = Worker
        /\ \A v \in Worker : RequestOK(req'[v])
        /\ lock' \in [Row \cup Entry -> Worker \cup {None}]
        /\ alone' \subseteq Worker
    BY <1>9, Ended DEF CommitLinks, Turns, TypeOK
  <2> QED
    BY <1>9, <2>3, <2>4 DEF CommitLinks, TypeOK
<1>10. ASSUME NEW w \in Worker, Abort(w) PROVE TypeOK'
  <2>1. /\ DOMAIN req' = Worker
        /\ \A v \in Worker : RequestOK(req'[v])
        /\ lock' \in [Row \cup Entry -> Worker \cup {None}]
        /\ alone' \subseteq Worker
    BY <1>10, Ended DEF Turns, TypeOK
  <2> QED
    BY <1>10, <2>1 DEF Abort, TypeOK, Alive
<1>11. CASE UNCHANGED vars
  BY <1>11 DEF vars, TypeOK, Alive
<1>12. ASSUME NEW t \in Task, CreateTask(t) PROVE TypeOK'
  BY <1>1, <1>12 DEF CreateTask, Value, Status, Row
<1>13. ASSUME NEW a \in Asset, NEW v \in Mark, CreateAsset(a, v) PROVE TypeOK'
  BY <1>1, <1>13, RowAssumption DEF CreateAsset, Value, Row
<1> QED
  BY <1>2, <1>4, <1>5, <1>6, <1>7, <1>8, <1>9, <1>10, <1>11, <1>12, <1>13 DEF Next
-----------------------------------------------------------------------------
(* Rows that are being changed                                             *)

LEMMA RowsOwnedStep == IInv /\ [Next]_vars => RowsOwned'
<1> SUFFICES ASSUME IInv, [Next]_vars, NEW w \in Worker PROVE Owns(w)'
  BY DEF RowsOwned
<1> USE DEF IInv
<1>1. /\ req[w].step \in {"update", "count", "updated"} => req[w].row \in Row
      /\ req[w].step \in {"delete", "deleted"} => req[w].row \in Row \cup Entry
  BY RequestShape DEF TypeOK, Updating, UpdateRequest, DeleteRequest
\* A step of others, and one that only begins or ends a request.
<1>2. ASSUME req'[w] = req[w] \/ req'[w].step \in {"idle", "delete", "links", "linked"},
             \A x \in Row : rows[x] # "unborn" => rows'[x] # "unborn",
             \A x \in Row : Alive(x) /\ lock[x] = w => Alive(x)',
             \A x \in Row \cup Entry : lock[x] = w => lock'[x] = w \/ req'[w].step = "idle"
      PROVE  Owns(w)'
  BY <1>1, <1>2 DEF RowsOwned, Owns, Idle
<1>3. ASSUME NEW x \in Row, NEW v \in Value(x), Create(x, v) PROVE Owns(w)'
  BY <1>2, <1>3, RowWritten DEF Create
<1>4. ASSUME NEW e \in Entry, NEW S, CreateEntry(e, S) PROVE Owns(w)'
  BY <1>2, <1>4 DEF CreateEntry, Alive
<1>5. ASSUME NEW v \in Worker, NEW r, Begin(v, r), UNCHANGED <<rows, lock>>,
             r.step \in {"update", "delete", "links"},
             r.step = "update" => rows[r.row] # "unborn"
      PROVE  Owns(w)'
  BY <1>2, <1>5, Begun DEF Turns, Alive, Owns
<1>6. ASSUME NEW v \in Worker, TaskRequest(v) \/ AssetRequest(v) \/ EntryRequest(v)
      PROVE  Owns(w)'
  <2>1. ASSUME NEW x \in Row, NEW u, LoadUpdate(v, x, u) PROVE Owns(w)'
    BY <1>5, <2>1 DEF LoadUpdate, Alive
  <2>2. ASSUME NEW x, LoadDelete(v, x) PROVE Owns(w)'
    BY <1>5, <2>2 DEF LoadDelete
  <2>3. ASSUME NEW e, NEW S, LoadLinks(v, e, S) PROVE Owns(w)'
    BY <1>5, <2>3 DEF LoadLinks
  <2> QED
    BY <1>6, <2>1, <2>2, <2>3 DEF TaskRequest, AssetRequest, EntryRequest, Row
<1>7. ASSUME NEW v \in Worker, FlushUpdate(v) PROVE Owns(w)'
  <2>1. /\ req[v] \in UpdateRequest /\ req[v].row \in Row
        /\ lock' = [lock EXCEPT ![req[v].row] = v] /\ lock[req[v].row] \in {None, v}
    BY <1>7, RequestShape DEF FlushUpdate, TypeOK, Updating, UpdateRequest, Free
  <2>2. CASE v = w
    <3>1. req'[w].step \in {"count", "updated"} /\ req'[w].row = req[w].row
      BY <1>7, <2>1, <2>2 DEF FlushUpdate, TypeOK, UpdateRequest
    <3>2. Alive(req[w].row)' /\ lock'[req[w].row] = w
      BY <1>7, <2>1, <2>2 DEF FlushUpdate, TypeOK, RowsOwned, Owns, Alive
    <3> QED
      BY <3>1, <3>2 DEF Owns, Alive
  <2>3. CASE v # w
    <3>1. \A x \in Row \cup Entry : lock[x] = w => lock'[x] = w
      BY <2>1, <2>3, NoneAssumption DEF TypeOK
    <3> QED
      BY <1>2, <1>7, <2>3, <3>1, Progress DEF Turns, Alive
  <2> QED
    BY <2>2, <2>3
<1>8. ASSUME NEW v \in Worker, CountRemaining(v) PROVE Owns(w)'
  <2>1. CASE v = w
    <3>1. req[w].step = "count" /\ req'[w].step = "updated" /\ req'[w].row = req[w].row
      BY <1>8, <2>1, Steps DEF CountRemaining
    <3> QED
      BY <1>8, <3>1 DEF CountRemaining, RowsOwned, Owns, Alive
  <2>2. CASE v # w
    BY <1>2, <1>8, <2>2, Progress DEF CountRemaining, Turns, Alive
  <2> QED
    BY <2>1, <2>2
<1>9. ASSUME NEW v \in Worker, FlushDelete(v) PROVE Owns(w)'
  <2>1. /\ req[v].row \in Row \cup Entry
        /\ lock' = [lock EXCEPT ![req[v].row] = v] /\ lock[req[v].row] \in {None, v}
        /\ req'[v].step = "deleted" /\ req'[v].row = req[v].row
    BY <1>9, RequestShape, Steps DEF FlushDelete, TypeOK, DeleteRequest, Free
  <2>2. CASE v = w
    BY <2>1, <2>2 DEF Owns, TypeOK
  <2>3. CASE v # w
    <3>1. \A x \in Row \cup Entry : lock[x] = w => lock'[x] = w
      BY <2>1, <2>3, NoneAssumption DEF TypeOK
    <3> QED
      BY <1>2, <1>9, <2>3, <3>1, Progress DEF Turns, Alive
  <2> QED
    BY <2>2, <2>3
<1>10. ASSUME NEW v \in Worker, FlushLinks(v) PROVE Owns(w)'
  <2>1. req'[v].step = "linked" /\ \A u \in Worker \ {v} : req'[u] = req[u]
    BY <1>10, Progress, Steps DEF Turns, LinkRequest
  <2> QED
    BY <1>2, <1>10, <2>1 DEF FlushLinks, Alive
<1>11. ASSUME NEW v \in Worker, End(v) \/ Abort(v),
              \A x \in Row : rows[x] # "unborn" => rows'[x] # "unborn",
              v = w \/ \A x \in Row : Alive(x) /\ lock[x] = w => Alive(x)'
       PROVE  Owns(w)'
  <2>1. Turns(v, Idle)
    BY <1>11, Ended
  <2>2. CASE v = w
    BY <2>1, <2>2 DEF Turns, Owns, Idle
  <2>3. CASE v # w
    <3>1. \A x \in Row \cup Entry : lock[x] = w => lock'[x] = w
      BY <1>11, <2>3 DEF End, Abort, TypeOK
    <3> QED
      BY <1>2, <1>11, <2>1, <2>3, <3>1 DEF Turns
  <2> QED
    BY <2>2, <2>3
<1>12. ASSUME NEW v \in Worker, CommitUpdate(v) PROVE Owns(w)'
  <2>1. req[v].row \in Row /\ req[v].value \in Value(req[v].row)
    BY <1>12, RequestShape DEF CommitUpdate, TypeOK, Updating, UpdateRequest
  <2>2. /\ \A x \in Row : Alive(x) => Alive(x)'
        /\ \A x \in Row : rows[x] # "unborn" => rows'[x] # "unborn"
    BY <1>12, <2>1, RowWritten DEF CommitUpdate
  <2> QED
    BY <1>11, <1>12, <2>2 DEF CommitUpdate
<1>13. ASSUME NEW v \in Worker, CommitDelete(v) PROVE Owns(w)'
  <2>1. \A x \in Row : \/ rows'[x] = rows[x]
                       \/ x = req[v].row /\ rows'[x] = "gone"
    BY <1>13 DEF CommitDelete, TypeOK
  <2>2. lock[req[v].row] = v
    BY <1>13 DEF CommitDelete, RowsOwned, Owns
  <2> QED
    BY <1>11, <1>13, <2>1, <2>2 DEF CommitDelete, Alive
<1>14. ASSUME NEW v \in Worker, CommitLinks(v) \/ Abort(v) PROVE Owns(w)'
  BY <1>11, <1>14 DEF CommitLinks, Abort, Alive
<1>15. CASE UNCHANGED vars
  BY <1>2, <1>15 DEF vars, Alive
<1>16. ASSUME NEW t \in Task, CreateTask(t) PROVE Owns(w)'
  BY <1>3, <1>16 DEF CreateTask, Value, Status, Row
<1>17. ASSUME NEW a \in Asset, NEW v \in Mark, CreateAsset(a, v) PROVE Owns(w)'
  BY <1>3, <1>17, RowAssumption DEF CreateAsset, Value, Row
<1> QED
  BY <1>4, <1>6, <1>7, <1>8, <1>9, <1>10, <1>12, <1>13, <1>14, <1>15, <1>16, <1>17 DEF Next
-----------------------------------------------------------------------------
(* Entries about tasks and assets                                          *)

LEMMA EntriesStep == IInv /\ [Next]_vars => EntriesTell'
<1> SUFFICES ASSUME IInv, [Next]_vars PROVE EntriesTell'
  OBVIOUS
<1> USE DEF IInv
<1>1. ASSUME NEW x \in Row, NEW v, Create(x, v), x \in Task => v = "todo"
      PROVE  EntriesTell'
  <2>1. /\ rows'[x] = v /\ told'[x] = [first |-> v, last |-> "nothing"]
        /\ \A y \in Row \ {x} : rows'[y] = rows[y] /\ told'[y] = told[y]
    BY <1>1 DEF Create, TypeOK
  <2> QED
    BY <1>1, <2>1 DEF EntriesTell, Accounted, Alive
<1>2. ASSUME NEW w \in Worker, CommitUpdate(w) PROVE EntriesTell'
  <2> DEFINE x == req[w].row
             v == req[w].value
  <2>1. x \in Row /\ v \in Value(x)
    BY <1>2, RequestShape DEF CommitUpdate, TypeOK, Updating, UpdateRequest
  <2>2. /\ told' = [told EXCEPT ![x].last = v]
        /\ rows' = [rows EXCEPT ![x] = v]
    BY <1>2 DEF CommitUpdate
  <2>3. \A y \in Row \ {x} : rows'[y] = rows[y] /\ told'[y] = told[y]
    BY <2>1, <2>2, AccountType, Changed DEF TypeOK
  <2>4. /\ rows'[x] = v /\ v # "nothing"
        /\ told'[x].last = v /\ told'[x].first = told[x].first
    BY <2>1, <2>2, AccountType, Changed DEF TypeOK, Value, Status, Mark
  <2>5. x \in Task => told[x].first = "todo"
    BY <1>2, <2>1 DEF CommitUpdate, RowsOwned, Owns, EntriesTell
  <2> HIDE DEF x, v
  <2> QED
    BY <2>1, <2>3, <2>4, <2>5 DEF EntriesTell, Accounted, Alive
<1>3. ASSUME NEW w \in Worker, CommitDelete(w) PROVE EntriesTell'
  <2> DEFINE x == req[w].row
  <2>1. \A y \in Row : \/ rows'[y] = "gone"
                       \/ rows'[y] = rows[y] /\ told'[y] = told[y]
    BY <1>3, AccountType DEF CommitDelete, TypeOK
  <2> HIDE DEF x
  <2> QED
    BY <2>1 DEF EntriesTell, Accounted, Alive
<1>4. CASE UNCHANGED <<rows, told>>
  BY <1>4 DEF EntriesTell, Accounted, Alive
<1>5. ASSUME NEW a \in Asset, NEW v, CreateAsset(a, v) PROVE EntriesTell'
  BY <1>1, <1>5, RowAssumption DEF CreateAsset, Row
<1> QED
  BY <1>1, <1>2, <1>3, <1>4, <1>5
  DEF Next, CreateTask, CreateEntry, TaskRequest, AssetRequest, EntryRequest,
      LoadUpdate, LoadDelete, LoadLinks, FlushUpdate, CountRemaining, FlushDelete,
      FlushLinks, CommitLinks, Abort, vars, Row
-----------------------------------------------------------------------------
(* Links and deletions wait for each other                                 *)

LEMMA LinksHeldStep == IInv /\ [Next]_vars => LinksHeld'
<1> SUFFICES ASSUME IInv, [Next]_vars, NEW w \in Worker, req'[w].step = "linked"
             PROVE  Held(w)'
  BY DEF LinksHeld
<1> USE DEF IInv
<1> DEFINE Needs(x) == x \in {req[w].row} \cup (req[w].want \ req[w].had)
<1>1. req[w].step \in {"links", "linked"} => req[w] \in LinkRequest
  BY RequestShape DEF TypeOK, Relinking
\* A step that leaves alone the request and what it needs.
<1>2. ASSUME req'[w] = req[w], entries \cap {req[w].row} \subseteq entries',
             \A x \in Asset : Alive(x) /\ Needs(x) => Alive(x)',
             \A v \in Worker : req'[v].step = "deleted" =>
               \/ req[v].step = "deleted" /\ req'[v].row = req[v].row
               \/ ~ Needs(req'[v].row)
      PROVE  Held(w)'
  <2>1. req[w].step = "linked" /\ req[w] \in LinkRequest
    BY <1>1, <1>2
  <2> QED
    BY <1>2, <2>1 DEF LinksHeld, Held, Deleting, LinkRequest
<1>3. ASSUME NEW x \in Row, NEW v \in Value(x), Create(x, v) PROVE Held(w)'
  BY <1>2, <1>3, RowWritten DEF Create, Row
<1>4. ASSUME NEW e \in Entry, NEW S, CreateEntry(e, S) PROVE Held(w)'
  BY <1>2, <1>4 DEF CreateEntry, Alive
<1>5. ASSUME NEW v \in Worker, NEW r, Begin(v, r), UNCHANGED <<rows, entries>>,
             r.step \notin {"linked", "deleted"}
      PROVE  Held(w)'
  <2>1. w # v /\ req'[w] = req[w]
    BY <1>5, Begun DEF Turns
  <2> QED
    BY <1>2, <1>5, <2>1, Begun DEF Turns, Alive
<1>6. ASSUME NEW v \in Worker, FlushUpdate(v) \/ CountRemaining(v) PROVE Held(w)'
  <2>1. req'[v].step \in {"count", "updated"}
    BY <1>6, Steps
  <2>2. w # v /\ req'[w] = req[w]
    BY <1>6, <2>1, Progress DEF Turns
  <2> QED
    BY <1>2, <1>6, <2>1, <2>2, Progress DEF Turns, Alive
<1>7. ASSUME NEW v \in Worker, FlushDelete(v) PROVE Held(w)'
  <2>1. req'[v].step = "deleted" /\ req'[v].row = req[v].row
    BY <1>7, Steps
  <2>2. w # v /\ req'[w] = req[w]
    BY <1>7, <2>1, Progress DEF Turns
  <2>3. ~ Needs(req'[v].row)
    BY <1>7, <2>1, <2>2 DEF FlushDelete, Linking
  <2>4. UNCHANGED <<rows, entries>>
    BY <1>7 DEF FlushDelete
  <2>5. /\ \A u \in Worker \ {v} : req'[u] = req[u]
        /\ \A x \in Asset : Alive(x) => Alive(x)'
    BY <1>7, <2>4, Progress DEF Turns, Alive
  <2> QED
    BY <1>2, <2>2, <2>3, <2>4, <2>5
<1>8. ASSUME NEW v \in Worker, FlushLinks(v) PROVE Held(w)'
  <2>1. CASE v = w
    <3>1. req[w] \in LinkRequest /\ req'[w] = [req[w] EXCEPT !.step = "linked"]
      BY <1>8, <2>1, Steps
    <3>2. \A u \in Worker : req'[u].step = "deleted" => req'[u] = req[u]
      BY <1>8, <2>1, <3>1, Progress DEF Turns
    <3> QED
      BY <1>8, <2>1, <3>1, <3>2 DEF Held, FlushLinks, LinkRequest, Deleting, Alive
  <2>2. CASE v # w
    BY <1>2, <1>8, <2>2 DEF FlushLinks, TypeOK, Alive
  <2> QED
    BY <2>1, <2>2
<1>9. ASSUME NEW v \in Worker, End(v) \/ Abort(v),
             entries \cap {req[w].row} \subseteq entries',
             \A x \in Asset : Alive(x) /\ Needs(x) => Alive(x)'
      PROVE  Held(w)'
  <2>1. Turns(v, Idle)
    BY <1>9, Ended
  <2>2. w # v
    BY <2>1 DEF Turns, Idle
  <2> QED
    BY <1>2, <1>9, <2>1, <2>2 DEF Turns, Idle
<1>10. ASSUME NEW v \in Worker, CommitUpdate(v) PROVE Held(w)'
  <2>1. req[v].row \in Row /\ req[v].value \in Value(req[v].row)
    BY <1>10, RequestShape DEF CommitUpdate, TypeOK, Updating, UpdateRequest
  <2> QED
    BY <1>9, <1>10, <2>1, RowWritten DEF CommitUpdate, Row
<1>11. ASSUME NEW v \in Worker, CommitDelete(v) PROVE Held(w)'
  <2>1. \A y \in Row \ {req[v].row} : rows'[y] = rows[y]
    BY <1>11 DEF CommitDelete, TypeOK
  <2>2. w # v /\ req'[w] = req[w]
    BY <1>11, Ended DEF CommitDelete, Turns, Idle
  <2>3. req[w].step = "linked"
    BY <2>2
  <2>4. ~ Needs(req[v].row)
    BY <1>11, <2>3 DEF CommitDelete, LinksHeld, Held, Deleting
  <2> QED
    BY <1>9, <1>11, <2>1, <2>4 DEF CommitDelete, Alive, Row
<1>12. ASSUME NEW v \in Worker, CommitLinks(v) \/ Abort(v) PROVE Held(w)'
  BY <1>9, <1>12 DEF CommitLinks, Abort, Alive
<1>13. CASE UNCHANGED vars
  BY <1>2, <1>13 DEF vars, Alive
<1>14. ASSUME NEW v \in Worker, TaskRequest(v) \/ AssetRequest(v) \/ EntryRequest(v)
       PROVE  Held(w)'
  BY <1>5, <1>14 DEF TaskRequest, AssetRequest, EntryRequest, LoadUpdate, LoadDelete, LoadLinks
<1>15. ASSUME NEW t \in Task, CreateTask(t) PROVE Held(w)'
  BY <1>3, <1>15 DEF CreateTask, Value, Status, Row
<1>16. ASSUME NEW a \in Asset, NEW v \in Mark, CreateAsset(a, v) PROVE Held(w)'
  BY <1>3, <1>16, RowAssumption DEF CreateAsset, Value, Row
<1> QED
  BY <1>4, <1>6, <1>7, <1>8, <1>10, <1>11, <1>12, <1>13, <1>14, <1>15, <1>16 DEF Next
-----------------------------------------------------------------------------
(* Requests that nobody overtakes                                          *)

\* Once a table has changed, every request in progress has been overtaken.
LEMMA AloneStays ==
  ASSUME TypeOK, Next
  PROVE  UNCHANGED <<rows, links>> \/ alone' = {}
<1>1. ASSUME NEW w \in Worker, TaskRequest(w) \/ AssetRequest(w) \/ EntryRequest(w)
      PROVE  UNCHANGED <<rows, links>>
  BY <1>1 DEF TaskRequest, AssetRequest, EntryRequest, LoadUpdate, LoadDelete, LoadLinks
<1>2. ASSUME NEW w \in Worker, FlushUpdate(w) \/ CountRemaining(w) \/ FlushDelete(w)
                                 \/ FlushLinks(w) \/ Abort(w)
      PROVE  UNCHANGED <<rows, links>>
  BY <1>2 DEF FlushUpdate, CountRemaining, FlushDelete, FlushLinks, Abort
<1>3. ASSUME NEW w \in Worker, CommitUpdate(w) \/ CommitDelete(w) \/ CommitLinks(w)
      PROVE  alone' = {}
  BY <1>3 DEF CommitUpdate, CommitDelete, CommitLinks, End
<1> QED
  BY <1>1, <1>2, <1>3 DEF Next, Create, CreateTask, CreateAsset, CreateEntry

\* A request in "alone" goes on from where it stands or has just begun.
LEMMA AloneGoesOn ==
  ASSUME TypeOK, Next, NEW w \in alone', ~ FlushUpdate(w), ~ CountRemaining(w),
         ~ FlushDelete(w), ~ FlushLinks(w)
  PROVE  \/ w \in alone /\ req'[w] = req[w]
         \/ TaskRequest(w) \/ AssetRequest(w) \/ EntryRequest(w)
<1>1. CASE alone' = {}
  BY <1>1
<1>2. ASSUME NEW v \in Worker, v # w, TaskRequest(v) \/ AssetRequest(v) \/ EntryRequest(v)
      PROVE  w \in alone /\ req'[w] = req[w]
  BY <1>2 DEF TaskRequest, AssetRequest, EntryRequest, LoadUpdate, LoadDelete, LoadLinks,
              Begin, TypeOK
<1>3. ASSUME NEW v \in Worker, v # w,
             FlushUpdate(v) \/ CountRemaining(v) \/ FlushDelete(v) \/ FlushLinks(v)
      PROVE  w \in alone /\ req'[w] = req[w]
  BY <1>3 DEF FlushUpdate, CountRemaining, FlushDelete, FlushLinks, TypeOK
<1>4. ASSUME NEW v \in Worker, Abort(v)
      PROVE  w \in alone /\ req'[w] = req[w]
  BY <1>4 DEF Abort, TypeOK
<1> QED
  BY <1>1, <1>2, <1>3, <1>4 DEF Next, CreateTask, CreateAsset, Create, CreateEntry,
     CommitUpdate, CommitDelete, CommitLinks, End

LEMMA CountStep == IInv /\ [Next]_vars => CountHolds'
<1> SUFFICES ASSUME IInv, [Next]_vars, NEW w \in alone', req'[w].step = "updated",
                    req'[w].row \in Task
             PROVE  req'[w].complete <=>
                      Unfinished([rows' EXCEPT ![req'[w].row] = req'[w].value]) = {}
  BY DEF CountHolds, Unfinished
<1> USE DEF IInv
<1> DEFINE Goal == req'[w].complete <=>
                     Unfinished([rows' EXCEPT ![req'[w].row] = req'[w].value]) = {}
<1> w \in Worker
  BY TypeStep DEF TypeOK
<1>1. CASE UNCHANGED vars
  BY <1>1 DEF vars, CountHolds
<1>2. ASSUME Next PROVE Goal
  <2>1. UNCHANGED <<rows, links>>
    BY <1>2, AloneStays
  <2>2. CASE CountRemaining(w)
    <3>1. w \in Worker /\ req[w] \in UpdateRequest
      BY <2>2, RequestShape DEF CountRemaining, TypeOK, Updating
    <3> QED
      BY <2>1, <2>2, <3>1 DEF CountRemaining, TypeOK, UpdateRequest
  <2>3. CASE FlushUpdate(w)
    BY <2>3, Steps
  <2>4. CASE FlushDelete(w) \/ FlushLinks(w)
    BY <2>4, Steps DEF LinkRequest
  <2>5. CASE TaskRequest(w) \/ AssetRequest(w) \/ EntryRequest(w)
    BY <2>5, Steps
  <2>6. CASE w \in alone /\ req'[w] = req[w]
    BY <2>1, <2>6 DEF CountHolds
  <2> QED
    BY <1>2, <2>2, <2>3, <2>4, <2>5, <2>6, AloneGoesOn
<1> QED
  BY <1>1, <1>2

LEMMA LinksLoadedStep == IInv /\ [Next]_vars => LinksLoaded'
<1> SUFFICES ASSUME IInv, [Next]_vars, NEW w \in alone', req'[w].step \in {"links", "linked"}
             PROVE  req'[w].had = {l[2] : l \in {m \in links' : m[1] = req'[w].row}}
  BY DEF LinksLoaded
<1> USE DEF IInv
<1> DEFINE Goal == req'[w].had = {l[2] : l \in {m \in links' : m[1] = req'[w].row}}
<1> w \in Worker
  BY TypeStep DEF TypeOK
<1>1. CASE UNCHANGED vars
  BY <1>1 DEF vars, LinksLoaded
<1>2. ASSUME Next PROVE Goal
  <2>1. UNCHANGED <<rows, links>>
    BY <1>2, AloneStays
  <2>2. CASE FlushLinks(w)
    <3>1. req[w] \in LinkRequest
      BY <2>2, Steps
    <3>2. req'[w] = [req[w] EXCEPT !.step = "linked"] /\ w \in alone
      BY <2>2, Steps DEF FlushLinks
    <3> QED
      BY <2>1, <2>2, <3>1, <3>2 DEF FlushLinks, LinkRequest, LinksLoaded
  <2>3. CASE FlushUpdate(w) \/ CountRemaining(w) \/ FlushDelete(w)
    BY <2>3, Steps
  <2>4. CASE TaskRequest(w) \/ AssetRequest(w)
    BY <2>4, Steps
  <2>5. CASE EntryRequest(w)
    <3>1. PICK e \in Entry, S \in SUBSET Asset : LoadLinks(w, e, S)
      BY <2>5 DEF EntryRequest, LoadDelete, Begin, TypeOK
    <3> QED
      BY <2>1, <3>1 DEF LoadLinks, Begin, TypeOK
  <2>6. CASE w \in alone /\ req'[w] = req[w]
    BY <2>1, <2>6 DEF LinksLoaded
  <2> QED
    BY <1>2, <2>2, <2>3, <2>4, <2>5, <2>6, AloneGoesOn
<1> QED
  BY <1>1, <1>2

LEMMA Invariance == Spec => []IInv
<1>1. IInv /\ [Next]_vars => IInv'
  BY TypeStep, RowsOwnedStep, EntriesStep, LinksHeldStep, CountStep, LinksLoadedStep DEF IInv
<1> QED
  BY <1>1, InitInv, PTL DEF Spec
-----------------------------------------------------------------------------
(* Theorems                                                                *)

\* Type correctness, and no dangling link: whatever requests overlap, a link
\* between an entry and an asset has both (timeline.py, _replace_asset_links).
THEOREM TypeCorrect == Spec => []TypeOK
  BY Invariance, PTL DEF IInv

\* The last entry about a task or asset tells its state, although requests that
\* loaded the same row overlap (tasks.py and assets.py).
THEOREM EntriesTellStates == Spec => []EntriesTell
  BY Invariance, PTL DEF IInv

\* A task's update that nothing overtakes announces the completion exactly when
\* it completes the case's tasks (tasks.py, update_task).
THEOREM UndisturbedCompletion == Spec => CompletionAnnounced
<1>1. ASSUME IInv, NEW w \in alone, CommitUpdate(w), req[w].row \in Task
      PROVE  req[w].complete <=> Unfinished(rows') = {}
  BY <1>1 DEF IInv, CountHolds, CommitUpdate
<1>2. IInv /\ [Next]_vars =>
        [\A w \in alone : CommitUpdate(w) /\ req[w].row \in Task =>
           (req[w].complete <=> Unfinished(rows') = {})]_vars
  BY <1>1
<1> QED
  BY <1>2, Invariance, PTL DEF Spec, CompletionAnnounced

\* A replacement of links that nothing overtakes leaves the assets of its body
\* (timeline.py, _replace_asset_links).
THEOREM UndisturbedLinks == Spec => LinksReplaced
<1>1. ASSUME IInv, NEW w \in alone, CommitLinks(w)
      PROVE  {l[2] : l \in {m \in links' : m[1] = req[w].row}} = req[w].want
  <2> DEFINE e == req[w].row
             Of(S) == {l[2] : l \in {m \in S : m[1] = e}}
  <2>1. req[w] \in LinkRequest
    BY <1>1, RequestShape DEF CommitLinks, IInv, TypeOK, Relinking
  <2>2. req[w].had = Of(links)
    BY <1>1 DEF IInv, LinksLoaded, CommitLinks
  <2>3. links' = (links \ ({e} \X (req[w].had \ req[w].want)))
                   \cup ({e} \X (req[w].want \ req[w].had))
    BY <1>1 DEF CommitLinks, Added, Dropped
  <2>4. \A m \in links : m = <<m[1], m[2]>>
    BY <1>1 DEF IInv, TypeOK
  <2>5. ASSUME NEW a \in req[w].want PROVE a \in Of(links')
    <3>1. CASE a \in req[w].had
      <4>1. <<e, a>> \in links
        BY <2>2, <2>4, <3>1
      <4> QED
        BY <2>3, <2>5, <4>1
    <3>2. CASE a \notin req[w].had
      <4>1. <<e, a>> \in links' /\ <<e, a>>[1] = e /\ <<e, a>>[2] = a
        BY <2>3, <2>5, <3>2
      <4> QED
        BY <4>1
    <3> QED
      BY <3>1, <3>2
  <2>6. ASSUME NEW m \in links', m[1] = e PROVE m[2] \in req[w].want
    <3>1. CASE m \in links
      <4>1. m[2] \in req[w].had /\ m = <<e, m[2]>>
        BY <2>2, <2>4, <2>6, <3>1
      <4> QED
        BY <2>3, <2>6, <4>1
    <3>2. CASE m \notin links
      BY <2>3, <2>6, <3>2
    <3> QED
      BY <3>1, <3>2
  <2> QED
    BY <2>5, <2>6
<1>2. IInv /\ [Next]_vars =>
        [\A w \in alone : CommitLinks(w) =>
           {l[2] : l \in {m \in links' : m[1] = req[w].row}} = req[w].want]_vars
  BY <1>1
<1> QED
  BY <1>2, Invariance, PTL DEF Spec, LinksReplaced
-----------------------------------------------------------------------------
(* Reports: the invariant                                                  *)

ReportRecord ==
  [step : {"unsent", "reading", "rendered", "stored", "shown", "failed"},
   template : Template, read : Nat, shown : [Section -> SUBSET (Item \cup Telling)]]

\* A report on an investigation that has read so many of its sections.
HasRead(r, n) == rep[r].template = "investigation" /\ rep[r].read >= n

\* What the timeline of this case has of x, or a merge has taken off it.
Kept(t) == entry[t] = "here" \/ t \in taken

\* An entry is written with the change it tells, and tells what has happened.
EntriesHappened ==
  \A x \in Item : /\ entry[<<x, "there">>] # "none" => items[x] # "unborn"
                  /\ entry[<<x, "gone">>] # "none" => items[x] = "gone"

\* A merge has selected observables, and entries that were written.
MergesSelect ==
  \A m \in Merge : /\ \A x \in merge[m].rows : KindOf[x] = "observable" /\ items[x] # "unborn"
                   /\ \A t \in merge[m].entries : entry[t] # "none"

\* The rows that the sections before the timeline show have entries, and those of
\* this case the entries they had here.  An observable that is about to come with
\* a merge brings its entry, for the entries are selected after it.
Early == {"case", "observable", "asset"}
RowsTold ==
  \A x \in Item : KindOf[x] \in Early =>
    /\ items[x] # "unborn" => entry[<<x, "there">>] # "none"
    /\ items[x] = "here" => Kept(<<x, "there">>)
MergesBring ==
  \A m \in Merge : merge[m].step = "entries" /\ merge[m].from = "away" =>
    \A x \in merge[m].rows : <<x, "there">> \in merge[m].entries \/ Kept(<<x, "there">>)

CaseInv == EntriesHappened /\ MergesSelect /\ RowsTold /\ MergesBring

\* Rows come and go, but what is gone never comes back: each section shows rows
\* that had come, and the timeline only tells what has happened.
ShownHappened ==
  \A r \in Report :
    /\ \A k \in Kind : \A x \in rep[r].shown[k] : items[x] # "unborn" /\ KindOf[x] = k
    /\ \A x \in Item : /\ <<x, "there">> \in rep[r].shown["timeline"] => items[x] # "unborn"
                       /\ <<x, "gone">> \in rep[r].shown["timeline"] => items[x] = "gone"

\* A report that has not been asked for shows nothing.
UnsentBlank == \A r \in Report : rep[r].step = "unsent" => rep[r].shown = Unread

\* No task is shown before the sections reach the tasks.
TasksLater == \A r \in Report :
  rep[r].template = "investigation" /\ rep[r].read < 5 => rep[r].shown["task"] = {}

\* The sections before the timeline: their entries are there to be read, unless
\* taken, ...
EarlierKept ==
  \A r \in Report : rep[r].template = "investigation" /\ rep[r].read < 4 =>
    \A k \in Early : \A x \in rep[r].shown[k] : Kept(<<x, "there">>)

\* ... and once the timeline is read, it tells them.
EarlierTold ==
  \A r \in Report : HasRead(r, 4) =>
    \A k \in Early : \A x \in rep[r].shown[k] :
      <<x, "there">> \in rep[r].shown["timeline"] \cup taken

\* The sections after it, once they are read.
LaterShown(r, k) ==
  \A x \in Item : <<x, "there">> \in rep[r].shown["timeline"]
                  /\ KindOf[x] = k /\ items[x] = "here"
    => x \in rep[r].shown[k]

TasksShown == \A r \in Report : HasRead(r, 5) => LaterShown(r, "task")
EvidenceShown == \A r \in Report : HasRead(r, 7) => LaterShown(r, "evidence")

\* A task that is shown was there when the timeline had been read.
ShownNotDeleted ==
  \A r \in Report : rep[r].template = "investigation" =>
    \A x \in rep[r].shown["task"] : <<x, "gone">> \notin rep[r].shown["timeline"]

ViewsInv == /\ ViewsTypeOK /\ CaseInv /\ UnsentBlank /\ ShownHappened /\ TasksLater
            /\ EarlierKept /\ EarlierTold /\ TasksShown /\ EvidenceShown /\ ShownNotDeleted

LEMMA SectionsOf ==
  /\ Len(Sections("investigation")) = 8
  /\ Sections("investigation")[1] = "case"
  /\ Sections("investigation")[2] = "observable"
  /\ Sections("investigation")[3] = "asset"
  /\ Sections("investigation")[4] = "timeline"
  /\ Sections("investigation")[5] = "task"
  /\ Sections("investigation")[6] = "note"
  /\ Sections("investigation")[7] = "evidence"
  /\ Sections("investigation")[8] = "mapping"
  /\ Len(Sections("activity")) = 3
  /\ Sections("activity")[1] = "case"
  /\ Sections("activity")[2] = "audit"
  /\ Sections("activity")[3] = "timeline"
  BY DEF Sections

LEMMA SectionOf ==
  ASSUME NEW t \in Template, NEW n \in 1..Len(Sections(t))
  PROVE  Sections(t)[n] \in Section
<1>1. CASE t = "investigation"
  <2>1. Len(Sections(t)) = 8
    BY <1>1, SectionsOf
  <2>2. n \in 1..8
    BY <2>1
  <2>3. n \in {1, 2, 3, 4, 5, 6, 7, 8}
    BY <2>2
  <2> QED
    BY <1>1, <2>3, SectionsOf DEF Section, Kind
<1>2. CASE t = "activity"
  <2>1. Len(Sections(t)) = 3
    BY <1>2, SectionsOf
  <2>2. n \in 1..3
    BY <2>1
  <2>3. n \in {1, 2, 3}
    BY <2>2
  <2> QED
    BY <1>2, <2>3, SectionsOf DEF Section, Kind
<1> QED
  BY <1>1, <1>2 DEF Template

\* The invariant says what the finished reports promise.
LEMMA InvCoherent == ASSUME ViewsInv PROVE ReportCoherent
<1> SUFFICES ASSUME NEW r \in Report, rep[r].template = "investigation",
                    rep[r].step \in {"shown", "stored"}
             PROVE  /\ \A k \in {"case", "observable", "asset"} : \A x \in rep[r].shown[k] :
                         <<x, "there">> \in rep[r].shown["timeline"] \cup taken
                    /\ \A x \in Item : <<x, "there">> \in rep[r].shown["timeline"]
                           /\ KindOf[x] \in {"task", "evidence"} /\ items[x] = "here"
                         => x \in rep[r].shown[KindOf[x]]
                    /\ \A x \in rep[r].shown["task"] :
                         <<x, "gone">> \notin rep[r].shown["timeline"]
  BY DEF ReportCoherent
<1>1. HasRead(r, 4) /\ HasRead(r, 5) /\ HasRead(r, 7)
  BY SectionsOf DEF ViewsInv, ViewsTypeOK, HasRead
<1> QED
  BY <1>1 DEF ViewsInv, EarlierTold, Early, TasksShown, EvidenceShown, LaterShown,
              ShownNotDeleted

LEMMA InitViewsInv == ASSUME ViewsInit PROVE ViewsInv
<1>1. \A r \in Report : /\ rep[r] = [step |-> "unsent", template |-> "activity",
                                    read |-> 0, shown |-> Unread]
                        /\ \A k \in Section : rep[r].shown[k] = {}
  BY DEF ViewsInit, Unread
<1>2. Unread \in [Section -> SUBSET (Item \cup Telling)]
  BY DEF Unread
<1>3. ViewsTypeOK
  BY <1>1, <1>2 DEF ViewsInit, ViewsTypeOK, Template, Section, Place
<1>4. ShownHappened
  BY <1>1 DEF ShownHappened, Section
<1>5. TasksLater /\ EarlierTold /\ TasksShown /\ EvidenceShown /\ ShownNotDeleted
  BY <1>1 DEF TasksLater, EarlierTold, TasksShown, EvidenceShown, ShownNotDeleted, HasRead
<1>6. UnsentBlank /\ EarlierKept
  BY <1>1 DEF UnsentBlank, EarlierKept, Early, Section, Kind
<1>7. CaseInv
  <2>1. /\ \A x \in Item : items[x] = "unborn"
        /\ \A t \in Telling : entry[t] = "none"
        /\ \A m \in Merge : /\ merge[m].step = "unsent"
                           /\ merge[m].rows = {} /\ merge[m].entries = {}
    BY DEF ViewsInit
  <2> QED
    BY <2>1 DEF CaseInv, EntriesHappened, MergesSelect, RowsTold, MergesBring, Telling
<1> QED
  BY <1>3, <1>4, <1>5, <1>6, <1>7 DEF ViewsInv
-----------------------------------------------------------------------------
(* Reports: the steps                                                      *)

\* The record of one report changes, and leaves this there.
TurnsTo(r, step, template, read, shown) ==
  /\ rep' \in [Report -> ReportRecord]
  /\ \A q \in Report : q # r => rep'[q] = rep[q]
  /\ rep'[r].step = step /\ rep'[r].template = template
  /\ rep'[r].read = read /\ rep'[r].shown = shown

Reading(r) == rep[r].read + 1
NextSection(r) == Sections(rep[r].template)[Reading(r)]
NowShown(r) == [rep[r].shown EXCEPT ![NextSection(r)] = Rows(NextSection(r))]

LEMMA RepType == ASSUME ViewsTypeOK PROVE rep \in [Report -> ReportRecord]
  BY DEF ViewsTypeOK, ReportRecord

\* What a SELECT can find.
LEMMA RowsType ==
  ASSUME ViewsTypeOK, NEW k \in Section
  PROVE  /\ Rows(k) \subseteq Item \cup Telling
         /\ k \in Kind => Rows(k) \subseteq Item
         /\ k = "timeline" => Rows(k) \subseteq Telling
         /\ k = "audit" => Rows(k) = {}
<1>1. "audit" \notin Kind /\ "timeline" \notin Kind
  BY DEF Kind
<1>2. Timeline \subseteq Telling
  BY DEF Timeline
<1> QED
  BY <1>1, <1>2, KindAssumption DEF Rows, Section

LEMMA StartTurns ==
  ASSUME ViewsTypeOK, NEW r \in Report, NEW template \in Template, Start(r, template)
  PROVE  TurnsTo(r, "reading", template, rep[r].read, rep[r].shown)
<1>1. rep' = [rep EXCEPT ![r] = [rep[r] EXCEPT !.step = "reading", !.template = template]]
  BY RepType DEF Start, ReportRecord
<1> QED
  BY <1>1, RepType DEF TurnsTo, ReportRecord

LEMMA SelectTurns ==
  ASSUME ViewsTypeOK, NEW r \in Report, Select(r)
  PROVE  /\ Reading(r) \in 1..Len(Sections(rep[r].template))
         /\ NextSection(r) \in Section
         /\ NowShown(r) \in [Section -> SUBSET (Item \cup Telling)]
         /\ TurnsTo(r,
                  IF Reading(r) = Len(Sections(rep[r].template)) THEN "rendered" ELSE "reading",
                  rep[r].template, Reading(r), NowShown(r))
<1>1. rep[r] \in ReportRecord
  BY RepType
<1>2. Reading(r) \in 1..Len(Sections(rep[r].template))
  <2>1. /\ rep[r].read \in Nat /\ rep[r].template \in {"investigation", "activity"}
        /\ rep[r].read < Len(Sections(rep[r].template))
    BY <1>1 DEF Select, ViewsTypeOK, ReportRecord, Template
  <2>2. Len(Sections(rep[r].template)) \in Nat
    BY <2>1, SectionsOf
  <2> QED
    BY <2>1, <2>2 DEF Reading
<1>3. NextSection(r) \in Section
  <2>1. rep[r].template \in Template
    BY <1>1 DEF ReportRecord
  <2> QED
    BY <1>2, <2>1, SectionOf DEF NextSection
<1>4. NowShown(r) \in [Section -> SUBSET (Item \cup Telling)]
  BY <1>1, <1>3, RowsType DEF NowShown, ReportRecord
<1>5. rep' = [rep EXCEPT ![r] = [rep[r] EXCEPT
                 !.read = Reading(r), !.shown = NowShown(r),
                 !.step = IF Reading(r) = Len(Sections(rep[r].template))
                          THEN "rendered" ELSE "reading"]]
  BY <1>1, RepType DEF Select, Reading, NextSection, NowShown, ReportRecord
<1>6. Reading(r) \in Nat
  BY <1>1 DEF Reading, ReportRecord
<1> QED
  BY <1>1, <1>2, <1>3, <1>4, <1>5, <1>6, RepType DEF TurnsTo, ReportRecord

LEMMA ShowTurns ==
  ASSUME ViewsTypeOK, NEW r \in Report, Show(r) \/ Commit(r)
  PROVE  TurnsTo(r, "shown", rep[r].template, rep[r].read, rep[r].shown)
<1>1. rep' = [rep EXCEPT ![r].step = "shown"]
  BY DEF Show, Commit
<1> QED
  BY <1>1, RepType DEF TurnsTo, ReportRecord

LEMMA UploadTurns ==
  ASSUME ViewsTypeOK, NEW r \in Report, Upload(r)
  PROVE  TurnsTo(r, "stored", rep[r].template, rep[r].read, rep[r].shown)
<1>1. rep' = [rep EXCEPT ![r].step = "stored"]
  BY DEF Upload
<1> QED
  BY <1>1, RepType DEF TurnsTo, ReportRecord

LEMMA AbortTurns ==
  ASSUME ViewsTypeOK, NEW r \in Report, AbortReport(r)
  PROVE  TurnsTo(r, "failed", rep[r].template, 0, Unread)
<1>1. rep[r] \in ReportRecord /\ Unread \in [Section -> SUBSET (Item \cup Telling)]
  BY RepType DEF Unread
<1> QED
  BY <1>1, RepType DEF AbortReport, TurnsTo, ReportRecord
-----------------------------------------------------------------------------
(* Reports: preservation                                                   *)

\* What changes the cases.
CaseStep ==
  \/ \E x \in Item, place \in Place, telling \in BOOLEAN : Add(x, place, telling)
  \/ \E x \in Item : Delete(x)
  \/ \E m \in Merge, from \in Place : SelectObservables(m, from)
  \/ \E m \in Merge : SelectEntries(m) \/ CommitMerge(m) \/ AbortMerge(m)

\* The disjuncts of ViewsNext, for the report that is read.
LEMMA ViewsSteps ==
  ASSUME [ViewsNext]_viewsVars, ViewsTypeOK
  PROVE  \/ /\ CaseStep
            /\ UNCHANGED reportVars
         \/ \E r \in Report, t \in Template : Start(r, t)
         \/ \E r \in Report : Select(r)
         \/ \E r \in Report : Show(r) \/ Commit(r)
         \/ \E r \in Report : Upload(r)
         \/ \E r \in Report : AbortReport(r)
         \/ UNCHANGED viewsVars
<1>1. CASE CaseStep
  BY <1>1 DEF CaseStep, Add, Delete, SelectObservables, SelectEntries, CommitMerge, AbortMerge
<1> QED
  BY <1>1 DEF ViewsNext, CaseStep

\* No row comes twice, no row comes back, and only observables change their case.
Onward(x) == /\ items[x] # "unborn" => items'[x] # "unborn"
             /\ items[x] = "gone" => items'[x] = "gone"
             /\ KindOf[x] # "observable" /\ items'[x] = "here" => items[x] \in {"unborn", "here"}

LEMMA ItemsGoOn ==
  ASSUME ViewsTypeOK, CaseInv, [ViewsNext]_viewsVars, NEW x \in Item
  PROVE  Onward(x)
<1>1. CASE UNCHANGED items
  BY <1>1 DEF ViewsTypeOK, Onward, Place
<1>2. ASSUME NEW y \in Item, Delete(y) \/ \E p \in Place, b \in BOOLEAN : Add(y, p, b)
      PROVE  Onward(x)
  BY <1>2 DEF ViewsTypeOK, Add, Delete, Onward, Place
<1>3. ASSUME NEW m \in Merge, CommitMerge(m) PROVE Onward(x)
  <2>1. /\ x \in merge[m].rows => items[x] # "gone" /\ KindOf[x] = "observable"
        /\ items'[x] = IF x \in merge[m].rows THEN Other(merge[m].from) ELSE items[x]
    BY <1>3 DEF CommitMerge, CaseInv, MergesSelect
  <2>2. Other(merge[m].from) # "unborn"
    BY DEF Other
  <2>3. items[x] \in {"unborn", "gone"} \cup Place
    BY DEF ViewsTypeOK
  <2> QED
    BY <2>1, <2>2, <2>3 DEF Onward, Place
<1> QED
  BY <1>1, <1>2, <1>3, ViewsSteps
     DEF CaseStep, SelectObservables, SelectEntries, AbortMerge,
         Start, Select, Show, Commit, Upload, AbortReport, caseVars, viewsVars

\* What becomes of the entry about the coming of a row: once written it stays
\* written, and it stays on this case or is taken.
Lasting(x) == /\ entry[<<x, "there">>] # "none" => entry'[<<x, "there">>] # "none"
              /\ Kept(<<x, "there">>) => Kept(<<x, "there">>)'

LEMMA EntriesLast ==
  ASSUME ViewsTypeOK, CaseInv, [ViewsNext]_viewsVars, NEW x \in Item
  PROVE  Lasting(x) /\ taken \subseteq taken'
<1> DEFINE t == <<x, "there">>
<1>1. CASE UNCHANGED <<entry, taken>>
  BY <1>1 DEF Lasting, Kept
<1>2. t \in Telling /\ entry \in [Telling -> {"none"} \cup Place]
  BY DEF Telling, ViewsTypeOK
<1>3. ASSUME NEW y \in Item, NEW p \in Place, NEW b \in BOOLEAN, Add(y, p, b)
      PROVE  Lasting(x) /\ taken' = taken
  <2>1. taken' = taken /\ items[y] = "unborn"
    BY <1>3 DEF Add
  <2>2. CASE y = x /\ b
    <3>1. entry[t] = "none" /\ entry'[t] = p
      BY <1>2, <1>3, <2>1, <2>2 DEF Add, CaseInv, EntriesHappened
    <3> QED
      BY <2>1, <3>1 DEF Lasting, Kept, Place
  <2>3. CASE y # x \/ ~ b
    <3>1. entry'[t] = entry[t]
      BY <1>2, <1>3, <2>3 DEF Add
    <3> QED
      BY <2>1, <3>1 DEF Lasting, Kept
  <2> QED
    BY <2>1, <2>2, <2>3
<1>4. ASSUME NEW y \in Item, Delete(y) PROVE Lasting(x) /\ taken' = taken
  <2>1. taken' = taken /\ entry'[t] = entry[t]
    BY <1>2, <1>4 DEF Delete
  <2> QED
    BY <2>1 DEF Lasting, Kept
<1>5. ASSUME NEW m \in Merge, CommitMerge(m) PROVE Lasting(x) /\ taken \subseteq taken'
  <2> DEFINE to == Other(merge[m].from)
  <2>1. /\ entry'[t] = IF t \in merge[m].entries THEN to ELSE entry[t]
        /\ taken' = IF to = "away" THEN taken \cup merge[m].entries ELSE taken
        /\ to \in {"here", "away"}
    BY <1>2, <1>5 DEF CommitMerge, Other
  <2> HIDE DEF to, t
  <2> QED
    BY <2>1 DEF Lasting, Kept, t
<1> QED
  BY <1>1, <1>3, <1>4, <1>5, ViewsSteps
     DEF CaseStep, SelectObservables, SelectEntries, AbortMerge,
         Start, Select, Show, Commit, Upload, AbortReport, caseVars, viewsVars

\* What becomes of a report: it goes on with what it has, or with the next section
\* while the case does not change, or it is begun or given up.
Goes(r) ==
  \/ /\ rep'[r].template = rep[r].template /\ rep'[r].read = rep[r].read
     /\ rep'[r].shown = rep[r].shown
  \/ rep'[r].read = 0 /\ rep'[r].shown = Unread
  \/ /\ UNCHANGED caseVars
     /\ rep'[r].template = rep[r].template /\ rep'[r].read = Reading(r)
     /\ Reading(r) \in 1..Len(Sections(rep[r].template))
     /\ rep'[r].shown = NowShown(r)

LEMMA ReportGoes ==
  ASSUME ViewsTypeOK, UnsentBlank, [ViewsNext]_viewsVars, NEW r \in Report PROVE Goes(r)
<1>1. CASE UNCHANGED rep
  BY <1>1 DEF Goes
<1>2. ASSUME NEW q \in Report, NEW t \in Template, Start(q, t) PROVE Goes(r)
  <2>1. rep[q].read = 0 /\ rep[q].shown = Unread
    BY <1>2 DEF Start, ViewsTypeOK, UnsentBlank
  <2> QED
    BY <1>2, <2>1, StartTurns DEF TurnsTo, Goes
<1>3. ASSUME NEW q \in Report, Select(q) PROVE Goes(r)
  <2>1. UNCHANGED caseVars
    BY <1>3 DEF Select
  <2> QED
    BY <1>3, <2>1, SelectTurns DEF TurnsTo, Goes
<1>4. ASSUME NEW q \in Report, Show(q) \/ Commit(q) PROVE Goes(r)
  BY <1>4, ShowTurns DEF TurnsTo, Goes
<1>5. ASSUME NEW q \in Report, Upload(q) PROVE Goes(r)
  BY <1>5, UploadTurns DEF TurnsTo, Goes
<1>6. ASSUME NEW q \in Report, AbortReport(q) PROVE Goes(r)
  BY <1>6, AbortTurns DEF TurnsTo, Goes
<1> QED
  BY <1>1, <1>2, <1>3, <1>4, <1>5, <1>6, ViewsSteps DEF reportVars, viewsVars

\* Only the next section is shown anew.
LEMMA NowShownAt ==
  ASSUME ViewsTypeOK, NEW r \in Report, NEW k \in Section
  PROVE  NowShown(r)[k] = IF k = NextSection(r) THEN Rows(k) ELSE rep[r].shown[k]
<1>1. rep[r].shown \in [Section -> SUBSET (Item \cup Telling)]
  BY RepType DEF ReportRecord
<1> QED
  BY <1>1 DEF NowShown

\* What a SELECT finds.
LEMMA RowsFound ==
  /\ \A k \in Kind : Rows(k) = {x \in Item : items[x] = "here" /\ KindOf[x] = k}
  /\ Rows("timeline") = Timeline
  /\ \A t : t \in Timeline <=> t \in Telling /\ entry[t] = "here"
<1>1. "timeline" \notin Kind
  BY DEF Kind
<1> QED
  BY <1>1 DEF Rows, Timeline

LEMMA NamesOfSections ==
  /\ Kind \subseteq Section
  /\ "timeline" \in Section /\ "timeline" \notin Kind
  /\ {"case", "observable", "asset", "task", "evidence"} \subseteq Kind \ Silent
  BY DEF Section, Kind, Silent

LEMMA HappenedStep ==
  ASSUME ViewsInv, [ViewsNext]_viewsVars PROVE ShownHappened'
<1> SUFFICES ASSUME NEW r \in Report
             PROVE  /\ \A k \in Kind : \A x \in rep'[r].shown[k] :
                         items'[x] # "unborn" /\ KindOf[x] = k
                    /\ \A x \in Item :
                         /\ <<x, "there">> \in rep'[r].shown["timeline"] => items'[x] # "unborn"
                         /\ <<x, "gone">> \in rep'[r].shown["timeline"] => items'[x] = "gone"
  BY DEF ShownHappened
<1>1. ViewsTypeOK /\ CaseInv /\ UnsentBlank /\ ShownHappened
  BY DEF ViewsInv
<1>2. CASE rep'[r].shown = rep[r].shown
  <2>1. \A k \in Kind : rep[r].shown[k] \subseteq Item
    BY <1>1 DEF ViewsTypeOK
  <2> QED
    BY <1>1, <1>2, <2>1, ItemsGoOn DEF ShownHappened, Onward
<1>3. CASE rep'[r].shown = Unread
  BY <1>3, NamesOfSections DEF Unread
<1>4. CASE UNCHANGED caseVars /\ rep'[r].shown = NowShown(r)
  <2>1. ASSUME NEW k \in Kind, NEW x \in NowShown(r)[k]
        PROVE  items[x] # "unborn" /\ KindOf[x] = k
    BY <1>1, <2>1, NowShownAt, NamesOfSections, RowsFound DEF ShownHappened
  <2>2. ASSUME NEW x \in Item
        PROVE  /\ <<x, "there">> \in NowShown(r)["timeline"] => items[x] # "unborn"
               /\ <<x, "gone">> \in NowShown(r)["timeline"] => items[x] = "gone"
    <3>1. /\ entry[<<x, "there">>] = "here" => items[x] # "unborn"
          /\ entry[<<x, "gone">>] = "here" => items[x] = "gone"
      BY <1>1 DEF CaseInv, EntriesHappened
    <3> QED
      BY <1>1, <3>1, NowShownAt, NamesOfSections, RowsFound DEF ShownHappened
  <2> QED
    BY <1>4, <2>1, <2>2 DEF caseVars
<1> QED
  BY <1>1, <1>2, <1>3, <1>4, ReportGoes DEF Goes

\* The section that an investigation reads next.
LEMMA NextOf ==
  ASSUME ViewsTypeOK, NEW r \in Report, rep[r].template = "investigation",
         Reading(r) \in 1..Len(Sections(rep[r].template))
  PROVE  /\ rep[r].read \in Nat /\ Reading(r) = rep[r].read + 1 /\ Reading(r) \in 1..8
         /\ Reading(r) < 4 => NextSection(r) \in {"case", "observable", "asset"}
         /\ Reading(r) = 4 => NextSection(r) = "timeline"
         /\ Reading(r) = 5 => NextSection(r) = "task"
         /\ Reading(r) = 7 => NextSection(r) = "evidence"
         /\ Reading(r) \in {6, 8} => NextSection(r) \in {"note", "mapping"}
<1>1. rep[r].read \in Nat
  BY RepType DEF ReportRecord
<1>2. Reading(r) \in 1..8
  BY SectionsOf
<1>3. Reading(r) \in {1, 2, 3, 4, 5, 6, 7, 8}
  BY <1>2
<1>4. NextSection(r) = Sections("investigation")[Reading(r)]
  BY DEF NextSection
<1>5. Reading(r) = rep[r].read + 1
  BY DEF Reading
<1>6. /\ Reading(r) < 4 => NextSection(r) \in {"case", "observable", "asset"}
      /\ Reading(r) = 4 => NextSection(r) = "timeline"
      /\ Reading(r) = 5 => NextSection(r) = "task"
      /\ Reading(r) = 7 => NextSection(r) = "evidence"
      /\ Reading(r) \in {6, 8} => NextSection(r) \in {"note", "mapping"}
  <2>1. CASE Reading(r) \in {1, 2, 3}
    BY <1>4, <2>1, SectionsOf
  <2>2. CASE Reading(r) \in {4, 5, 6, 7, 8}
    BY <1>4, <2>2, SectionsOf
  <2> QED
    BY <1>3, <2>1, <2>2
<1> QED
  BY <1>1, <1>2, <1>5, <1>6

LEMMA TasksLaterStep ==
  ASSUME ViewsInv, [ViewsNext]_viewsVars PROVE TasksLater'
<1> SUFFICES ASSUME NEW r \in Report, rep'[r].template = "investigation", rep'[r].read < 5
             PROVE  rep'[r].shown["task"] = {}
  BY DEF TasksLater
<1>1. ViewsTypeOK /\ UnsentBlank /\ TasksLater
  BY DEF ViewsInv
<1>2. CASE rep'[r].shown = Unread
  BY <1>2, NamesOfSections DEF Unread
<1>3. CASE /\ rep'[r].template = rep[r].template /\ rep'[r].read = Reading(r)
           /\ Reading(r) \in 1..Len(Sections(rep[r].template))
           /\ rep'[r].shown = NowShown(r)
  <2>1. rep[r].read < 5 /\ NextSection(r) # "task"
    BY <1>1, <1>3, NextOf
  <2> QED
    BY <1>1, <1>3, <2>1, NowShownAt, NamesOfSections DEF TasksLater
<1> QED
  BY <1>1, <1>2, <1>3, ReportGoes DEF Goes, TasksLater

LEMMA EarlierKeptStep ==
  ASSUME ViewsInv, [ViewsNext]_viewsVars PROVE EarlierKept'
<1> SUFFICES ASSUME NEW r \in Report, rep'[r].template = "investigation", rep'[r].read < 4,
                    NEW k \in Early, NEW x \in rep'[r].shown[k]
             PROVE  Kept(<<x, "there">>)'
  BY DEF EarlierKept
<1>1. ViewsTypeOK /\ CaseInv /\ UnsentBlank /\ ShownHappened /\ EarlierKept /\ k \in Section
  BY NamesOfSections DEF ViewsInv, Early
<1>2. ASSUME x \in rep[r].shown[k], rep[r].template = "investigation", rep[r].read < 4
      PROVE  Kept(<<x, "there">>)'
  <2>1. Kept(<<x, "there">>)
    BY <1>1, <1>2 DEF EarlierKept
  <2>2. x \in Item
    BY <1>1, <1>2, NamesOfSections DEF ViewsTypeOK, Early
  <2> QED
    BY <1>1, <2>1, <2>2, EntriesLast DEF Lasting
<1>3. CASE rep'[r].shown = Unread
  BY <1>1, <1>3 DEF Unread
<1>4. CASE /\ UNCHANGED caseVars
           /\ rep'[r].template = rep[r].template /\ rep'[r].read = Reading(r)
           /\ Reading(r) \in 1..Len(Sections(rep[r].template))
           /\ rep'[r].shown = NowShown(r)
  <2>1. rep[r].read < 4
    BY <1>1, <1>4, NextOf
  <2>2. CASE k = NextSection(r)
    <3>1. x \in Item /\ items[x] = "here" /\ KindOf[x] = k
      BY <1>1, <1>4, <2>2, NowShownAt, NamesOfSections, RowsFound DEF Early
    <3>2. Kept(<<x, "there">>)
      BY <1>1, <3>1 DEF CaseInv, RowsTold
    <3> QED
      BY <1>1, <3>1, <3>2, EntriesLast DEF Lasting
  <2>3. CASE k # NextSection(r)
    BY <1>1, <1>2, <1>4, <2>1, <2>3, NowShownAt
  <2> QED
    BY <2>2, <2>3
<1> QED
  BY <1>1, <1>2, <1>3, <1>4, ReportGoes DEF Goes

LEMMA EarlierToldStep ==
  ASSUME ViewsInv, [ViewsNext]_viewsVars PROVE EarlierTold'
<1> SUFFICES ASSUME NEW r \in Report, rep'[r].template = "investigation", rep'[r].read >= 4,
                    NEW k \in Early, NEW x \in rep'[r].shown[k]
             PROVE  <<x, "there">> \in rep'[r].shown["timeline"] \cup taken'
  BY DEF EarlierTold, HasRead
<1>1. ViewsTypeOK /\ CaseInv /\ UnsentBlank /\ ShownHappened /\ EarlierKept /\ EarlierTold
  BY DEF ViewsInv
<1>2. CASE /\ UNCHANGED caseVars
           /\ rep'[r].template = rep[r].template /\ rep'[r].read = Reading(r)
           /\ Reading(r) \in 1..Len(Sections(rep[r].template))
           /\ rep'[r].shown = NowShown(r)
  <2>1. NextSection(r) \notin Early /\ x \in rep[r].shown[k]
    BY <1>1, <1>2, NextOf, NowShownAt, NamesOfSections DEF Early
  <2>2. CASE Reading(r) = 4
    <3>1. x \in Item
      BY <1>1, <2>1, NamesOfSections DEF ViewsTypeOK, Early
    <3>2. rep[r].read < 4 /\ NowShown(r)["timeline"] = Timeline
      BY <1>1, <1>2, <2>2, NextOf, NowShownAt, NamesOfSections, RowsFound
    <3>3. Kept(<<x, "there">>) /\ <<x, "there">> \in Telling
      BY <1>1, <1>2, <2>1, <3>1, <3>2 DEF EarlierKept, Telling
    <3> QED
      BY <1>2, <3>2, <3>3, RowsFound DEF Kept, caseVars
  <2>3. CASE Reading(r) > 4
    <3>1. rep[r].read >= 4 /\ NextSection(r) # "timeline"
      BY <1>1, <1>2, <2>3, NextOf
    <3> QED
      BY <1>1, <1>2, <2>1, <3>1, NowShownAt, NamesOfSections DEF EarlierTold, HasRead, caseVars
  <2> QED
    BY <1>1, <1>2, <2>2, <2>3, NextOf
<1>3. CASE /\ rep'[r].template = rep[r].template /\ rep'[r].read = rep[r].read
           /\ rep'[r].shown = rep[r].shown
  <2>1. <<x, "there">> \in rep[r].shown["timeline"] \cup taken
    BY <1>1, <1>3 DEF EarlierTold, HasRead
  <2>2. x \in Item
    BY <1>1, <1>3, NamesOfSections DEF ViewsTypeOK, Early
  <2> QED
    BY <1>1, <1>3, <2>1, <2>2, EntriesLast
<1> QED
  BY <1>1, <1>2, <1>3, ReportGoes DEF Goes

\* A section after the timeline: it is read as the n-th, and stays.
LEMMA LaterShownStep ==
  ASSUME ViewsInv, [ViewsNext]_viewsVars, NEW r \in Report,
         NEW k \in {"task", "evidence"}, NEW n \in {5, 7},
         k = "task" => n = 5, k = "evidence" => n = 7,
         HasRead(r, n) => LaterShown(r, k), HasRead(r, n)'
  PROVE  LaterShown(r, k)'
<1> SUFFICES ASSUME NEW x \in Item, <<x, "there">> \in rep'[r].shown["timeline"],
                    KindOf[x] = k, items'[x] = "here"
             PROVE  x \in rep'[r].shown[k]
  BY DEF LaterShown
<1>1. ViewsTypeOK /\ CaseInv /\ UnsentBlank /\ ShownHappened
  BY DEF ViewsInv
<1>2. CASE /\ UNCHANGED caseVars
           /\ rep'[r].template = rep[r].template /\ rep'[r].read = Reading(r)
           /\ Reading(r) \in 1..Len(Sections(rep[r].template))
           /\ rep'[r].shown = NowShown(r)
  <2>1. rep[r].template = "investigation" /\ Reading(r) >= n
    BY <1>2 DEF HasRead
  <2>2. CASE Reading(r) = n
    <3>1. NextSection(r) = k
      BY <1>1, <1>2, <2>1, <2>2, NextOf
    <3> QED
      BY <1>1, <1>2, <3>1, NowShownAt, NamesOfSections, RowsFound DEF caseVars
  <2>3. CASE Reading(r) # n
    <3>1. rep[r].read >= n /\ NextSection(r) # k /\ NextSection(r) # "timeline"
      BY <1>1, <1>2, <2>1, <2>3, NextOf
    <3> QED
      BY <1>1, <1>2, <2>1, <3>1, NowShownAt, NamesOfSections DEF LaterShown, HasRead, caseVars
  <2> QED
    BY <2>2, <2>3
<1>3. CASE /\ rep'[r].template = rep[r].template /\ rep'[r].read = rep[r].read
           /\ rep'[r].shown = rep[r].shown
  <2>1. items[x] = "here"
    BY <1>1, <1>3, ItemsGoOn DEF ShownHappened, Onward
  <2> QED
    BY <1>3, <2>1 DEF LaterShown, HasRead
<1> QED
  BY <1>1, <1>2, <1>3, ReportGoes DEF Goes, HasRead

LEMMA NotDeletedStep ==
  ASSUME ViewsInv, [ViewsNext]_viewsVars PROVE ShownNotDeleted'
<1> SUFFICES ASSUME NEW r \in Report, rep'[r].template = "investigation",
                    NEW x \in rep'[r].shown["task"], <<x, "gone">> \in rep'[r].shown["timeline"]
             PROVE  FALSE
  BY DEF ShownNotDeleted
<1>1. ViewsTypeOK /\ UnsentBlank /\ ShownHappened /\ TasksLater /\ ShownNotDeleted
  BY DEF ViewsInv
<1>2. CASE /\ rep'[r].template = rep[r].template /\ rep'[r].read = Reading(r)
           /\ Reading(r) \in 1..Len(Sections(rep[r].template))
           /\ rep'[r].shown = NowShown(r)
  <2>1. CASE Reading(r) = 4
    <3>1. rep[r].read < 5 /\ NextSection(r) = "timeline"
      BY <1>1, <1>2, <2>1, NextOf
    <3> QED
      BY <1>1, <1>2, <3>1, NowShownAt, NamesOfSections DEF TasksLater
  <2>2. CASE Reading(r) = 5
    <3>1. NextSection(r) = "task"
      BY <1>1, <1>2, <2>2, NextOf
    <3>2. x \in Item /\ items[x] = "here" /\ <<x, "gone">> \in rep[r].shown["timeline"]
      BY <1>1, <1>2, <3>1, NowShownAt, NamesOfSections, RowsFound
    <3> QED
      BY <1>1, <3>2 DEF ShownHappened
  <2>3. CASE Reading(r) \notin {4, 5}
    <3>1. NextSection(r) \notin {"timeline", "task"}
      BY <1>1, <1>2, <2>3, NextOf
    <3> QED
      BY <1>1, <1>2, <3>1, NowShownAt, NamesOfSections DEF ShownNotDeleted
  <2> QED
    BY <2>1, <2>2, <2>3
<1>3. CASE rep'[r].shown = Unread
  BY <1>3, NamesOfSections DEF Unread
<1> QED
  BY <1>1, <1>2, <1>3, ReportGoes DEF Goes, ShownNotDeleted

LEMMA BlankStep ==
  ASSUME ViewsInv, [ViewsNext]_viewsVars PROVE UnsentBlank'
<1> SUFFICES ASSUME NEW r \in Report, rep'[r].step = "unsent" PROVE rep'[r].shown = Unread
  BY DEF UnsentBlank
<1>1. ViewsTypeOK /\ UnsentBlank
  BY DEF ViewsInv
<1>2. ASSUME NEW q \in Report, NEW t \in Template, Start(q, t) PROVE rep'[r] = rep[r]
  BY <1>1, <1>2, StartTurns DEF TurnsTo
<1>3. ASSUME NEW q \in Report, Select(q) PROVE rep'[r] = rep[r]
  BY <1>1, <1>3, SelectTurns DEF TurnsTo
<1>4. ASSUME NEW q \in Report, Show(q) \/ Commit(q) PROVE rep'[r] = rep[r]
  BY <1>1, <1>4, ShowTurns DEF TurnsTo
<1>5. ASSUME NEW q \in Report, Upload(q) PROVE rep'[r] = rep[r]
  BY <1>1, <1>5, UploadTurns DEF TurnsTo
<1>6. ASSUME NEW q \in Report, AbortReport(q) PROVE rep'[r] = rep[r]
  BY <1>1, <1>6, AbortTurns DEF TurnsTo
<1>7. rep'[r] = rep[r]
  BY <1>1, <1>2, <1>3, <1>4, <1>5, <1>6, ViewsSteps DEF reportVars, viewsVars
<1> QED
  BY <1>1, <1>7 DEF UnsentBlank

\* What ViewsTypeOK says of one report beyond the type of its record.
ReportSteps(r) ==
  LET n == Len(Sections(rep[r].template))
  IN  /\ rep[r].step \in {"unsent", "failed"} => rep[r].read = 0
      /\ rep[r].step = "reading" => rep[r].read < n
      /\ rep[r].step \in {"rendered", "stored", "shown"} => rep[r].read = n
      /\ \A k \in Kind : rep[r].shown[k] \subseteq Item
      /\ rep[r].shown["timeline"] \subseteq Telling
      /\ rep[r].shown["audit"] = {}

LEMMA ReportStepsKept ==
  ASSUME ViewsTypeOK, UnsentBlank, [ViewsNext]_viewsVars, NEW r \in Report
  PROVE  rep' \in [Report -> ReportRecord] /\ ReportSteps(r)'
<1>1. rep \in [Report -> ReportRecord] /\ ReportSteps(r)
  BY RepType DEF ViewsTypeOK, ReportSteps
<1>2. CASE UNCHANGED rep
  BY <1>1, <1>2 DEF ReportSteps
<1>3. ASSUME NEW q \in Report, NEW t \in Template, Start(q, t)
      PROVE  rep' \in [Report -> ReportRecord] /\ ReportSteps(r)'
  <2>1. TurnsTo(q, "reading", t, rep[q].read, rep[q].shown)
    BY <1>3, StartTurns
  <2>2. rep[q].read = 0 /\ Len(Sections(t)) > 0
    BY <1>3, SectionsOf DEF Start, ViewsTypeOK, Template
  <2> QED
    BY <1>1, <2>1, <2>2 DEF TurnsTo, ReportSteps
<1>4. ASSUME NEW q \in Report, Select(q)
      PROVE  rep' \in [Report -> ReportRecord] /\ ReportSteps(r)'
  <2> DEFINE n == Len(Sections(rep[q].template))
  <2>1. /\ Reading(q) \in 1..n
        /\ NextSection(q) \in Section
        /\ TurnsTo(q, IF Reading(q) = n THEN "rendered" ELSE "reading",
                 rep[q].template, Reading(q), NowShown(q))
    BY <1>4, SelectTurns
  <2>2. /\ \A k \in Kind : NowShown(q)[k] \subseteq Item
        /\ NowShown(q)["timeline"] \subseteq Telling
        /\ NowShown(q)["audit"] = {}
    <3>1. ReportSteps(q)
      BY DEF ViewsTypeOK, ReportSteps
    <3>2. \A k \in Section : \/ NowShown(q)[k] = rep[q].shown[k]
                             \/ NowShown(q)[k] = Rows(k)
      BY NowShownAt
    <3>3. \A k \in Section : /\ k \in Kind => Rows(k) \subseteq Item
                             /\ k = "timeline" => Rows(k) \subseteq Telling
                             /\ k = "audit" => Rows(k) = {}
      BY RowsType
    <3>4. Kind \subseteq Section /\ "timeline" \in Section /\ "audit" \in Section
      BY DEF Section
    <3> QED
      BY <3>1, <3>2, <3>3, <3>4 DEF ReportSteps
  <2>3. CASE q = r
    <3>1. rep'[r].step = (IF Reading(r) = n THEN "rendered" ELSE "reading")
          /\ rep'[r].template = rep[r].template
          /\ rep'[r].read = Reading(r) /\ rep'[r].shown = NowShown(r)
      BY <2>1, <2>3 DEF TurnsTo
    <3>2. n \in Nat
      BY <1>1, <2>3, SectionsOf DEF ReportRecord, Template
    <3>3. Reading(r) # n => Reading(r) < n
      BY <2>1, <2>3, <3>2
    <3>4. ReportSteps(r)'
      BY <2>2, <2>3, <3>1, <3>3 DEF ReportSteps
    <3> QED
      BY <2>1, <3>4 DEF TurnsTo
  <2>4. CASE q # r
    BY <1>1, <2>1, <2>4 DEF TurnsTo, ReportSteps
  <2> QED
    BY <2>3, <2>4
<1>5. ASSUME NEW q \in Report, Show(q) \/ Commit(q)
      PROVE  rep' \in [Report -> ReportRecord] /\ ReportSteps(r)'
  <2>1. rep[q].step \in {"rendered", "stored"}
    BY <1>5 DEF Show, Commit
  <2> QED
    BY <1>1, <1>5, <2>1, ShowTurns DEF TurnsTo, ReportSteps
<1>6. ASSUME NEW q \in Report, Upload(q)
      PROVE  rep' \in [Report -> ReportRecord] /\ ReportSteps(r)'
  <2>1. rep[q].step = "rendered"
    BY <1>6 DEF Upload
  <2> QED
    BY <1>1, <1>6, <2>1, UploadTurns DEF TurnsTo, ReportSteps
<1>7. ASSUME NEW q \in Report, AbortReport(q)
      PROVE  rep' \in [Report -> ReportRecord] /\ ReportSteps(r)'
  <2>1. \A k \in Section : Unread[k] = {}
    BY DEF Unread
  <2> QED
    BY <1>1, <1>7, <2>1, AbortTurns DEF TurnsTo, ReportSteps, Section
<1> QED
  BY <1>2, <1>3, <1>4, <1>5, <1>6, <1>7, ViewsSteps DEF reportVars, viewsVars

MergeRecord == [step : {"unsent", "rows", "entries", "merged", "failed"},
                from : Place, rows : SUBSET Item, entries : SUBSET Telling]
CaseTypes == /\ items \in [Item -> {"unborn", "gone"} \cup Place]
             /\ entry \in [Telling -> {"none"} \cup Place]
             /\ taken \subseteq Telling
             /\ merge \in [Merge -> MergeRecord]

\* A merge that goes on, and what it then has.
MergeTurns(m, step, rows_, entries_) ==
  /\ merge' \in [Merge -> MergeRecord]
  /\ \A n \in Merge \ {m} : merge'[n] = merge[n]
  /\ merge'[m].step = step /\ merge'[m].rows = rows_ /\ merge'[m].entries = entries_

LEMMA MergeGoes ==
  ASSUME CaseTypes, NEW m \in Merge
  PROVE  /\ \A from \in Place : SelectObservables(m, from) =>
              MergeTurns(m, "rows", {x \in Item : items[x] = from /\ KindOf[x] = "observable"}, {})
         /\ SelectEntries(m) =>
              /\ MergeTurns(m, "entries", merge[m].rows,
                            {t \in Telling : entry[t] = merge[m].from})
              /\ merge'[m].from = merge[m].from
         /\ CommitMerge(m) => MergeTurns(m, "merged", merge[m].rows, merge[m].entries)
         /\ AbortMerge(m) => MergeTurns(m, "failed", merge[m].rows, merge[m].entries)
<1>1. merge \in [Merge -> MergeRecord] /\ merge[m] \in MergeRecord
  BY DEF CaseTypes
<1>2. ASSUME NEW from \in Place, SelectObservables(m, from)
      PROVE  MergeTurns(m, "rows",
                        {x \in Item : items[x] = from /\ KindOf[x] = "observable"}, {})
  <2> DEFINE found == {x \in Item : items[x] = from /\ KindOf[x] = "observable"}
  <2>1. merge' = [merge EXCEPT ![m] = [step |-> "rows", from |-> from,
                                       rows |-> found, entries |-> {}]]
    BY <1>2 DEF SelectObservables
  <2>2. found \in SUBSET Item
    OBVIOUS
  <2> HIDE DEF found
  <2>3. MergeTurns(m, "rows", found, {})
    BY <1>1, <2>1, <2>2 DEF MergeTurns, MergeRecord
  <2> QED
    BY <2>3 DEF found
<1>3. ASSUME SelectEntries(m)
      PROVE  /\ MergeTurns(m, "entries", merge[m].rows,
                           {t \in Telling : entry[t] = merge[m].from})
             /\ merge'[m].from = merge[m].from
  <2> DEFINE found == {t \in Telling : entry[t] = merge[m].from}
  <2>1. merge' = [merge EXCEPT ![m] = [merge[m] EXCEPT !.step = "entries", !.entries = found]]
    BY <1>1, <1>3 DEF SelectEntries, MergeRecord
  <2>2. found \in SUBSET Telling
    OBVIOUS
  <2> HIDE DEF found
  <2>3. MergeTurns(m, "entries", merge[m].rows, found) /\ merge'[m].from = merge[m].from
    BY <1>1, <2>1, <2>2 DEF MergeTurns, MergeRecord
  <2> QED
    BY <2>3 DEF found
<1>4. CommitMerge(m) => MergeTurns(m, "merged", merge[m].rows, merge[m].entries)
  BY <1>1 DEF CommitMerge, MergeTurns, MergeRecord
<1>5. AbortMerge(m) => MergeTurns(m, "failed", merge[m].rows, merge[m].entries)
  BY <1>1 DEF AbortMerge, MergeTurns, MergeRecord
<1> QED
  BY <1>2, <1>3, <1>4, <1>5

LEMMA CaseTypesKept ==
  ASSUME ViewsTypeOK, [ViewsNext]_viewsVars PROVE CaseTypes'
<1>1. CaseTypes
  BY DEF ViewsTypeOK, CaseTypes, MergeRecord
<1>2. CASE UNCHANGED caseVars
  BY <1>1, <1>2 DEF caseVars, CaseTypes
<1>3. ASSUME NEW x \in Item, NEW p \in Place, NEW b \in BOOLEAN, Add(x, p, b) PROVE CaseTypes'
  BY <1>1, <1>3 DEF Add, CaseTypes, Telling
<1>4. ASSUME NEW x \in Item, Delete(x) PROVE CaseTypes'
  BY <1>1, <1>4 DEF Delete, CaseTypes, Telling
<1>5. ASSUME NEW m \in Merge, CommitMerge(m) PROVE CaseTypes'
  <2>1. Other(merge[m].from) \in Place /\ merge[m].entries \subseteq Telling
    BY <1>1 DEF Other, Place, CaseTypes, MergeRecord
  <2> QED
    BY <1>1, <1>5, <2>1, MergeGoes DEF MergeTurns, CommitMerge, CaseTypes
<1>6. ASSUME NEW m \in Merge, SelectEntries(m) \/ AbortMerge(m)
                              \/ \E from \in Place : SelectObservables(m, from)
      PROVE  CaseTypes'
  BY <1>1, <1>6, MergeGoes
     DEF MergeTurns, SelectEntries, AbortMerge, SelectObservables, CaseTypes
<1> QED
  BY <1>2, <1>3, <1>4, <1>5, <1>6, ViewsSteps
     DEF CaseStep, Start, Select, Show, Commit, Upload, AbortReport, viewsVars, caseVars

LEMMA ViewsTypeStep ==
  ASSUME ViewsInv, [ViewsNext]_viewsVars PROVE ViewsTypeOK'
<1>1. ViewsTypeOK /\ UnsentBlank
  BY DEF ViewsInv
<1>2. \A r \in Report : rep' \in [Report -> ReportRecord] /\ ReportSteps(r)'
  BY <1>1, ReportStepsKept
<1>3. CaseTypes' /\ objects' \subseteq Report /\ reports' \subseteq Report
  <2>1. objects' \subseteq Report /\ reports' \subseteq Report
    BY <1>1, ViewsSteps DEF ViewsTypeOK, reportVars, Start, Select, Show, Commit, Upload,
                            AbortReport, viewsVars
  <2> QED
    BY <1>1, <2>1, CaseTypesKept
<1>4. rep' \in [Report -> ReportRecord]
  <2>1. CASE Report = {}
    <3>1. UNCHANGED rep
      BY <1>1, <2>1, ViewsSteps DEF reportVars, viewsVars
    <3> QED
      BY <1>1, <3>1, RepType
  <2>2. CASE Report # {}
    BY <1>2, <2>2
  <2> QED
    BY <2>1, <2>2
<1> QED
  BY <1>2, <1>3, <1>4 DEF ViewsTypeOK, ReportRecord, ReportSteps, CaseTypes, MergeRecord
-----------------------------------------------------------------------------
(* Reports: rows and entries of the cases                                  *)

LEMMA CaseInvStep ==
  ASSUME ViewsTypeOK, CaseInv, [ViewsNext]_viewsVars PROVE CaseInv'
<1> USE DEF CaseInv
<1>1. CaseTypes /\ CaseTypes'
  BY CaseTypesKept DEF ViewsTypeOK, CaseTypes, MergeRecord
\* What has been told of a row remains so.
<1>2. \A x \in Item : Onward(x) /\ Lasting(x) /\ <<x, "there">> \in Telling
                      /\ <<x, "gone">> \in Telling
  BY ItemsGoOn, EntriesLast DEF Telling
<1>3. ASSUME UNCHANGED caseVars PROVE CaseInv'
  BY <1>3 DEF caseVars, EntriesHappened, MergesSelect, RowsTold, MergesBring, Kept
\* A step that adds or deletes a row.
<1>4. ASSUME NEW y \in Item, UNCHANGED merge, taken' = taken,
             \A x \in Item \ {y} : items'[x] = items[x],
             \A t \in Telling : t \notin {<<y, "there">>, <<y, "gone">>} => entry'[t] = entry[t],
             \A t \in Telling : entry[t] # "none" => entry'[t] # "none",
             entry'[<<y, "there">>] # "none" => items'[y] # "unborn",
             entry'[<<y, "gone">>] # "none" => items'[y] = "gone",
             KindOf[y] \in Early => /\ items'[y] # "unborn" => entry'[<<y, "there">>] # "none"
                                    /\ items'[y] = "here" => Kept(<<y, "there">>)'
      PROVE  CaseInv'
  <2>1. \A x \in Item \ {y} : /\ entry'[<<x, "there">>] = entry[<<x, "there">>]
                              /\ entry'[<<x, "gone">>] = entry[<<x, "gone">>]
    BY <1>2, <1>4
  <2>2. EntriesHappened'
    BY <1>4, <2>1 DEF EntriesHappened
  <2>3. MergesSelect'
    BY <1>1, <1>2, <1>4 DEF MergesSelect, Onward, CaseTypes, MergeRecord
  <2>4. RowsTold'
    <3> SUFFICES ASSUME NEW x \in Item, KindOf[x] \in Early
                 PROVE  /\ items'[x] # "unborn" => entry'[<<x, "there">>] # "none"
                        /\ items'[x] = "here" => Kept(<<x, "there">>)'
      BY DEF RowsTold
    <3>1. CASE x = y
      BY <1>4, <3>1
    <3>2. CASE x # y
      BY <1>2, <1>4, <3>2 DEF RowsTold, Lasting
    <3> QED
      BY <3>1, <3>2
  <2>5. MergesBring'
    BY <1>1, <1>2, <1>4 DEF MergesBring, Lasting, CaseTypes, MergeRecord
  <2> QED
    BY <2>2, <2>3, <2>4, <2>5
<1>5. ASSUME NEW y \in Item, NEW p \in Place, NEW b \in BOOLEAN, Add(y, p, b) PROVE CaseInv'
  <2>1. /\ items[y] = "unborn" /\ items'[y] = p /\ p \in {"here", "away"}
        /\ \A x \in Item \ {y} : items'[x] = items[x]
        /\ UNCHANGED <<taken, merge>>
    BY <1>1, <1>5 DEF Add, CaseTypes, Place
  <2>2. /\ entry[<<y, "there">>] = "none" /\ entry[<<y, "gone">>] = "none"
    BY <2>1 DEF EntriesHappened
  <2>3. /\ entry'[<<y, "there">>] = IF b THEN p ELSE "none"
        /\ entry'[<<y, "gone">>] = "none"
        /\ \A t \in Telling \ {<<y, "there">>} : entry'[t] = entry[t]
    BY <1>1, <1>2, <1>5, <2>2 DEF Add, CaseTypes
  <2>4. KindOf[y] \in Early => b
    BY <1>5 DEF Add, Early, Silent
  <2> QED
    BY <1>4, <2>1, <2>2, <2>3, <2>4 DEF Kept
<1>6. ASSUME NEW y \in Item, Delete(y) PROVE CaseInv'
  <2>1. /\ items[y] \in {"here", "away"} /\ items'[y] = "gone"
        /\ \A x \in Item \ {y} : items'[x] = items[x]
        /\ UNCHANGED <<taken, merge>>
    BY <1>1, <1>6 DEF Delete, CaseTypes, Place
  <2>2. /\ entry[<<y, "gone">>] = "none"
        /\ KindOf[y] \in Early => entry[<<y, "there">>] # "none"
    BY <2>1 DEF EntriesHappened, RowsTold
  <2>3. \A t \in Telling \ {<<y, "gone">>} : entry'[t] = entry[t]
    BY <1>1, <1>6 DEF Delete, CaseTypes
  <2> QED
    BY <1>2, <1>4, <2>1, <2>2, <2>3
\* A step of a merge that moves nothing.
<1>7. ASSUME NEW m \in Merge, UNCHANGED <<items, entry, taken>>,
             \A n \in Merge \ {m} : merge'[n] = merge[n],
             \A x \in merge'[m].rows : KindOf[x] = "observable" /\ items[x] # "unborn",
             \A t \in merge'[m].entries : entry[t] # "none",
             merge'[m].step = "entries" /\ merge'[m].from = "away" =>
               \A x \in merge'[m].rows : <<x, "there">> \in merge'[m].entries
                                         \/ Kept(<<x, "there">>)
      PROVE  CaseInv'
  BY <1>7 DEF EntriesHappened, MergesSelect, RowsTold, MergesBring, Kept
<1>8. ASSUME NEW m \in Merge, NEW from \in Place, SelectObservables(m, from) PROVE CaseInv'
  <2>1. MergeTurns(m, "rows", {x \in Item : items[x] = from /\ KindOf[x] = "observable"}, {})
    BY <1>1, <1>8, MergeGoes
  <2>2. UNCHANGED <<items, entry, taken>> /\ from # "unborn"
    BY <1>8 DEF SelectObservables, Place
  <2> QED
    BY <1>7, <2>1, <2>2 DEF MergeTurns
<1>9. ASSUME NEW m \in Merge, SelectEntries(m) PROVE CaseInv'
  <2>1. /\ MergeTurns(m, "entries", merge[m].rows, {t \in Telling : entry[t] = merge[m].from})
        /\ merge'[m].from = merge[m].from
    BY <1>1, <1>9, MergeGoes
  <2>2. UNCHANGED <<items, entry, taken>> /\ merge[m].from \in Place
    BY <1>1, <1>9 DEF SelectEntries, CaseTypes, MergeRecord
  <2>3. merge[m].from # "none"
    BY <2>2 DEF Place
  <2>4. \A x \in merge[m].rows : KindOf[x] = "observable" /\ items[x] # "unborn"
    BY DEF MergesSelect
  <2>5. ASSUME merge[m].from = "away", NEW x \in merge[m].rows
        PROVE  entry[<<x, "there">>] = "away" \/ Kept(<<x, "there">>)
    <3>1. x \in Item /\ KindOf[x] \in Early /\ <<x, "there">> \in Telling
      BY <1>1, <1>2, <2>4, <2>5 DEF Early, CaseTypes, MergeRecord
    <3>2. entry[<<x, "there">>] \in {"here", "away"}
      BY <1>1, <2>4, <2>5, <3>1 DEF RowsTold, CaseTypes, Place
    <3> QED
      BY <3>2 DEF Kept
  <2>6. \A x \in merge[m].rows : <<x, "there">> \in Telling
    BY <1>1, <1>2 DEF CaseTypes, MergeRecord
  <2> QED
    BY <1>7, <2>1, <2>2, <2>3, <2>4, <2>5, <2>6 DEF MergeTurns
<1>10. ASSUME NEW m \in Merge, AbortMerge(m) PROVE CaseInv'
  <2>1. MergeTurns(m, "failed", merge[m].rows, merge[m].entries)
    BY <1>1, <1>10, MergeGoes
  <2>2. UNCHANGED <<items, entry, taken>>
    BY <1>10 DEF AbortMerge
  <2> QED
    BY <1>7, <2>1, <2>2 DEF MergeTurns, MergesSelect
<1>11. ASSUME NEW m \in Merge, CommitMerge(m) PROVE CaseInv'
  <2> DEFINE to == Other(merge[m].from)
             R == merge[m].rows
             E == merge[m].entries
  <2>1. /\ MergeTurns(m, "merged", R, E) /\ merge[m].step = "entries"
        /\ R \subseteq Item /\ E \subseteq Telling
    BY <1>1, <1>11, MergeGoes DEF CommitMerge, CaseTypes, MergeRecord
  <2>2. /\ \A x \in R : items[x] # "gone" /\ KindOf[x] = "observable" /\ items[x] # "unborn"
        /\ \A t \in E : entry[t] # "none"
    BY <1>11 DEF CommitMerge, MergesSelect
  <2>3. /\ \A x \in Item : items'[x] = IF x \in R THEN to ELSE items[x]
        /\ \A t \in Telling : entry'[t] = IF t \in E THEN to ELSE entry[t]
    BY <1>11 DEF CommitMerge
  <2>4. to \in {"here", "away"} /\ (to = "here" => merge[m].from = "away")
    BY <1>1 DEF Other, CaseTypes, MergeRecord, Place
  <2>5. /\ \A n \in Merge : merge'[n].rows = merge[n].rows /\ merge'[n].entries = merge[n].entries
        /\ \A n \in Merge \ {m} : merge'[n] = merge[n]
        /\ merge'[m].step = "merged"
    BY <2>1 DEF MergeTurns
  <2>6. to = "here" => \A x \in R : <<x, "there">> \in E \/ Kept(<<x, "there">>)
    BY <2>1, <2>4 DEF MergesBring
  <2> HIDE DEF to, R, E
  <2>7. EntriesHappened'
    <3>1. ASSUME NEW x \in Item, entry'[<<x, "there">>] # "none" PROVE items'[x] # "unborn"
      <4>1. entry[<<x, "there">>] # "none"
        BY <1>2, <2>2, <2>3, <3>1
      <4> QED
        BY <1>2, <4>1 DEF EntriesHappened, Onward
    <3>2. ASSUME NEW x \in Item, entry'[<<x, "gone">>] # "none" PROVE items'[x] = "gone"
      <4>1. entry[<<x, "gone">>] # "none"
        BY <1>2, <2>2, <2>3, <3>2
      <4> QED
        BY <1>2, <4>1 DEF EntriesHappened, Onward
    <3> QED
      BY <3>1, <3>2 DEF EntriesHappened
  <2>8. MergesSelect'
    <3>1. \A n \in Merge : merge[n].rows \subseteq Item /\ merge[n].entries \subseteq Telling
      BY <1>1 DEF CaseTypes, MergeRecord
    <3>2. \A t \in Telling : entry[t] # "none" => entry'[t] # "none"
      BY <2>3, <2>4
    <3> QED
      BY <1>2, <2>5, <3>1, <3>2 DEF MergesSelect, Onward
  <2>9. RowsTold'
    <3> SUFFICES ASSUME NEW x \in Item, KindOf[x] \in Early, items'[x] # "unborn"
                 PROVE  /\ entry'[<<x, "there">>] # "none"
                        /\ items'[x] = "here" => Kept(<<x, "there">>)'
      BY DEF RowsTold
    <3>1. items[x] # "unborn"
      BY <2>2, <2>3
    <3>2. entry'[<<x, "there">>] # "none"
      BY <1>2, <3>1 DEF RowsTold, Lasting
    <3>3. CASE x \in R
      <4>1. items'[x] = "here" => <<x, "there">> \in E \/ Kept(<<x, "there">>)
        BY <2>3, <2>6, <3>3
      <4>2. items'[x] = "here" /\ <<x, "there">> \in E => Kept(<<x, "there">>)'
        BY <1>2, <2>3, <3>3 DEF Kept
      <4> QED
        BY <1>2, <3>2, <4>1, <4>2 DEF Lasting
    <3>4. CASE x \notin R
      BY <1>2, <2>3, <3>2, <3>4 DEF RowsTold, Lasting
    <3> QED
      BY <3>3, <3>4
  <2>10. MergesBring'
    <3> SUFFICES ASSUME NEW n \in Merge, merge'[n].step = "entries", merge'[n].from = "away",
                        NEW x \in merge'[n].rows
                 PROVE  <<x, "there">> \in merge'[n].entries \/ Kept(<<x, "there">>)'
      BY DEF MergesBring
    <3>1. n # m /\ merge'[n] = merge[n] /\ x \in Item
      BY <1>1, <2>5 DEF CaseTypes, MergeRecord
    <3> QED
      BY <1>2, <3>1 DEF MergesBring, Lasting
  <2> QED
    BY <2>7, <2>8, <2>9, <2>10
<1> QED
  BY <1>3, <1>5, <1>6, <1>8, <1>9, <1>10, <1>11, ViewsSteps
     DEF CaseStep, Start, Select, Show, Commit, Upload, AbortReport, viewsVars, caseVars

LEMMA ViewsInvKept ==
  ASSUME ViewsInv, [ViewsNext]_viewsVars PROVE ViewsInv'
<1>1. (\A r \in Report : HasRead(r, 5) => LaterShown(r, "task"))'
  BY LaterShownStep DEF ViewsInv, TasksShown
<1>2. (\A r \in Report : HasRead(r, 7) => LaterShown(r, "evidence"))'
  BY LaterShownStep DEF ViewsInv, EvidenceShown
<1> QED
  BY <1>1, <1>2, ViewsTypeStep, CaseInvStep, BlankStep, HappenedStep, TasksLaterStep,
     EarlierKeptStep, EarlierToldStep, NotDeletedStep DEF ViewsInv, TasksShown, EvidenceShown
-----------------------------------------------------------------------------
(* Reports: the theorems                                                   *)

LEMMA ViewsInvariance == ViewsSpec => []ViewsInv
<1>1. ViewsInit => ViewsInv
  BY InitViewsInv
<1>2. ViewsInv /\ [ViewsNext]_viewsVars => ViewsInv'
  BY ViewsInvKept
<1> QED
  BY <1>1, <1>2, PTL DEF ViewsSpec

\* A report reads each of its sections once and in their order, and shows in each
\* what belongs there (generate_report, preview_report).
THEOREM ViewsTyped == ViewsSpec => []ViewsTypeOK
<1>1. ViewsInv => ViewsTypeOK
  BY DEF ViewsInv
<1> QED
  BY <1>1, ViewsInvariance, PTL

\* A report on an investigation does not contradict itself, whatever changes the
\* case between its SELECTs (_build_context), merges included (merge_cases): the
\* timeline comes after the rows it must tell, unless a merge has taken their
\* entries, and before those of this case that it must not tell too little of.
THEOREM ReportsCoherent == ViewsSpec => []ReportCoherent
<1>1. ViewsInv => ReportCoherent
  BY InvCoherent
<1> QED
  BY <1>1, ViewsInvariance, PTL
-----------------------------------------------------------------------------
(* Induction over data                                                     *)

\* A set of natural numbers has a least one: of the finite intervals below its
\* members there is a smallest.
LEMMA LeastNatural ==
  ASSUME NEW T, T \subseteq Nat, T # {}
  PROVE  \E n \in T : \A m \in T : n <= m
<1>1. PICK k \in T : TRUE
  OBVIOUS
<1> DEFINE Below == {0..m : m \in {x \in T : x <= k}}
<1>2. Below \subseteq SUBSET (0..k) /\ Below # {}
  OBVIOUS
<1>3. PICK S \in Below : \A U \in Below : ~ (<<U, S>> \in StrictSubsetOrdering(0..k))
  <2>1. IsFiniteSet(0..k)
    BY FS_Interval
  <2>2. IsWellFoundedOn(StrictSubsetOrdering(0..k), SUBSET (0..k))
    BY <2>1, FS_StrictSubsetOrderingWellFounded, FS_FiniteSubsetsOfFinite
  <2> HIDE DEF Below
  <2> QED
    BY <1>2, <2>2, WFMin
<1>4. PICK n \in T : n <= k /\ S = 0..n
  OBVIOUS
<1>5. ASSUME NEW m \in T, m < n PROVE FALSE
  <2>1. 0..m \in Below
    BY <1>4, <1>5
  <2>2. 0..m \subseteq 0..n /\ n \in 0..n /\ n \notin 0..m /\ 0..n \subseteq 0..k
    BY <1>4, <1>5
  <2>3. <<0..m, 0..n>> \in StrictSubsetOrdering(0..k)
    BY <2>2 DEF StrictSubsetOrdering
  <2> QED
    BY <1>3, <1>4, <2>1, <2>3
<1> QED
  BY <1>4, <1>5

\* Induction, over the set of the numbers for which something holds.
LEMMA InductionOverNat ==
  ASSUME NEW T, 0 \in T, \A n \in Nat : n \in T => n + 1 \in T
  PROVE  Nat \subseteq T
<1> DEFINE U == Nat \ T
<1>1. SUFFICES ASSUME U # {} PROVE FALSE
  OBVIOUS
<1>2. PICK n \in U : \A m \in U : n <= m
  <2> HIDE DEF U
  <2>1. U \subseteq Nat
    BY DEF U
  <2> QED
    BY <1>1, <2>1, LeastNatural
<1>3. n # 0 /\ n - 1 \in Nat /\ n - 1 \in T
  BY <1>2
<1> QED
  BY <1>2, <1>3
-----------------------------------------------------------------------------
(* Clusters: runs and groups of entries                                    *)

\* Groups of two and more, apart from one another, that hold together exactly the
\* entries of A between which no gap of S is longer than the threshold.
Groups(S, A, P) ==
  /\ \A C \in P : C \subseteq A /\ \E x, y \in C : x # y
  /\ \A C, D \in P : C = D \/ C \cap D = {}
  /\ \A x, y \in A : x # y /\ TimeOf[x] <= TimeOf[y] =>
       (Together(S, x, y) <=> \E C \in P : {x, y} \subseteq C)

\* The loop of find_clusters over S with the entries in "left" still to come:
\* the current run ends in the latest entry so far and holds all that is together
\* with it; the others are in groups.
Runs(S, left, done, run, last) ==
  /\ left \subseteq S /\ run \subseteq S \ left /\ last \in run
  /\ \A y \in S \ left : TimeOf[y] <= TimeOf[last]
  /\ \A z \in left : TimeOf[last] <= TimeOf[z]
  /\ \A y \in S \ left : y \in run <=> Together(S, y, last)
  /\ Groups(S, (S \ left) \ run, done)

Flush(done, run) == IF \E x, y \in run : x # y THEN done \cup {run} ELSE done

LEMMA TellingFinite == IsFiniteSet(Telling)
<1>1. IsFiniteSet({"there", "gone"})
  <2>1. IsFiniteSet({"there"} \cup {"gone"})
    BY FS_Singleton, FS_AddElement
  <2>2. {"there"} \cup {"gone"} = {"there", "gone"}
    OBVIOUS
  <2> QED
    BY <2>1, <2>2
<1> QED
  BY <1>1, ItemAssumption, FS_Product DEF Telling

LEMMA Times ==
  ASSUME NEW S, S \subseteq Telling
  PROVE  \A x \in S : TimeOf[x] \in Int
BY TimeAssumption

\* With the current run as one more group all entries so far are in groups.
LEMMA FlushedGroups ==
  ASSUME NEW S, S \subseteq Telling, NEW left, NEW done, NEW run, NEW last,
         Runs(S, left, done, run, last)
  PROVE  Groups(S, S \ left, Flush(done, run))
<1> DEFINE A == S \ left
           P == Flush(done, run)
<1>1. /\ run \subseteq A /\ last \in run /\ A \subseteq S
      /\ \A y \in A : TimeOf[y] <= TimeOf[last]
      /\ \A y \in A : y \in run <=> Together(S, y, last)
      /\ Groups(S, A \ run, done)
  BY DEF Runs
<1>2. \A x \in S : TimeOf[x] \in Int
  BY Times
<1> HIDE DEF A
<1>3. \A C \in done : C \subseteq A \ run /\ \E x, y \in C : x # y
  BY <1>1 DEF Groups
<1>4. \A C, D \in done : C = D \/ C \cap D = {}
  BY <1>1 DEF Groups
<1>5. \A C \in P : C \in done \/ (C = run /\ \E x, y \in run : x # y)
  BY DEF Flush
<1>6. done \subseteq P /\ ((\E x, y \in run : x # y) => run \in P)
  BY DEF Flush
<1> HIDE DEF P
<1>7. \A C \in P : C \subseteq A /\ \E x, y \in C : x # y
  BY <1>1, <1>3, <1>5
<1>8. \A C, D \in P : C = D \/ C \cap D = {}
  BY <1>3, <1>4, <1>5
<1>9. ASSUME NEW x \in A, NEW y \in A, x # y, TimeOf[x] <= TimeOf[y]
      PROVE  Together(S, x, y) <=> \E C \in P : {x, y} \subseteq C
  <2>1. TimeOf[x] \in Int /\ TimeOf[y] \in Int /\ TimeOf[last] \in Int
        /\ TimeOf[y] <= TimeOf[last]
    BY <1>1, <1>2
  <2>2. Together(S, x, last) => Together(S, x, y)
    BY <1>2, <2>1 DEF Together
  <2>3. Together(S, x, last) => Together(S, y, last)
    BY <1>2, <1>9, <2>1 DEF Together
  <2>4. Together(S, x, y) /\ Together(S, y, last) => Together(S, x, last)
    BY <1>2, <2>1 DEF Together
  <2>5. CASE x \in run
    <3>1. y \in run /\ Together(S, x, y)
      BY <1>1, <2>2, <2>3, <2>5
    <3>2. run \in P
      BY <1>6, <1>9, <2>5, <3>1
    <3> QED
      BY <2>5, <3>1, <3>2
  <2>6. CASE x \notin run /\ y \in run
    <3>1. ~ Together(S, x, y)
      BY <1>1, <2>4, <2>6
    <3>2. ASSUME NEW C \in P, {x, y} \subseteq C PROVE FALSE
      BY <1>3, <1>5, <2>6, <3>2
    <3> QED
      BY <3>1, <3>2
  <2>7. CASE x \notin run /\ y \notin run
    <3>1. Together(S, x, y) <=> \E C \in done : {x, y} \subseteq C
      BY <1>1, <1>9, <2>7 DEF Groups
    <3>2. (\E C \in P : {x, y} \subseteq C) <=> \E C \in done : {x, y} \subseteq C
      BY <1>5, <1>6, <2>7
    <3> QED
      BY <3>1, <3>2
  <2> QED
    BY <2>5, <2>6, <2>7
<1> QED
  BY <1>7, <1>8, <1>9 DEF Groups, A, P

\* The next entry is within the threshold of the last one: the run goes on.
LEMMA RunGoesOn ==
  ASSUME NEW S, S \subseteq Telling, NEW left, NEW done, NEW run, NEW last,
         Runs(S, left, done, run, last),
         NEW x \in left, \A z \in left : TimeOf[x] <= TimeOf[z],
         TimeOf[x] - TimeOf[last] <= Threshold
  PROVE  Runs(S, left \ {x}, done, run \cup {x}, x)
<1> DEFINE A == S \ left
           B == S \ (left \ {x})
<1>1. /\ left \subseteq S /\ run \subseteq A /\ last \in run /\ A \subseteq S
      /\ \A y \in A : TimeOf[y] <= TimeOf[last]
      /\ TimeOf[last] <= TimeOf[x]
      /\ \A y \in A : y \in run <=> Together(S, y, last)
      /\ Groups(S, A \ run, done)
  BY DEF Runs
<1>2. \A y \in S : TimeOf[y] \in Int
  BY Times
<1>3. B = A \cup {x} /\ x \notin A /\ x \in S /\ B \ (run \cup {x}) = A \ run
  BY <1>1
<1>4. Threshold \in Nat
  BY TimeAssumption
<1> HIDE DEF A, B
<1>5. TimeOf[x] \in Int /\ TimeOf[last] \in Int
  BY <1>1, <1>2, <1>3
<1>6. \A y \in B : TimeOf[y] <= TimeOf[x]
  BY <1>1, <1>2, <1>3, <1>5
<1>7. ASSUME NEW y \in A PROVE Together(S, y, last) <=> Together(S, y, x)
  <2>1. TimeOf[y] \in Int /\ TimeOf[y] <= TimeOf[last]
    BY <1>1, <1>2
  <2>2. Together(S, y, x) => Together(S, y, last)
    BY <1>1, <1>2, <1>5, <2>1 DEF Together
  <2>3. ASSUME Together(S, y, last), NEW z \in S, TimeOf[z] >= TimeOf[y], TimeOf[z] < TimeOf[x]
        PROVE  \E u \in S : TimeOf[u] > TimeOf[z] /\ TimeOf[u] - TimeOf[z] <= Threshold
    <3>1. TimeOf[z] \in Int
      BY <1>2
    <3>2. CASE TimeOf[z] < TimeOf[last]
      BY <1>5, <2>1, <2>3, <3>1, <3>2 DEF Together
    <3>3. CASE TimeOf[z] >= TimeOf[last]
      <4>1. TimeOf[x] > TimeOf[z] /\ TimeOf[x] - TimeOf[z] <= Threshold
        BY <1>4, <1>5, <2>3, <3>1, <3>3
      <4> QED
        BY <1>3, <4>1
    <3> QED
      BY <1>5, <3>1, <3>2, <3>3
  <2>4. Together(S, y, last) => Together(S, y, x)
    BY <1>2, <1>5, <2>1, <2>3 DEF Together
  <2> QED
    BY <2>2, <2>4
<1>8. Together(S, x, x)
  BY <1>2, <1>5 DEF Together
<1>9. \A y \in B : y \in run \cup {x} <=> Together(S, y, x)
  BY <1>1, <1>3, <1>7, <1>8
<1> QED
  BY <1>1, <1>3, <1>6, <1>9 DEF Runs, A, B

\* It is farther away: a new run begins.
LEMMA RunBegins ==
  ASSUME NEW S, S \subseteq Telling, NEW left, NEW done, NEW run, NEW last,
         Runs(S, left, done, run, last),
         NEW x \in left, \A z \in left : TimeOf[x] <= TimeOf[z],
         ~ (TimeOf[x] - TimeOf[last] <= Threshold)
  PROVE  Runs(S, left \ {x}, Flush(done, run), {x}, x)
<1> DEFINE A == S \ left
           B == S \ (left \ {x})
<1>1. /\ left \subseteq S /\ run \subseteq A /\ last \in run /\ A \subseteq S
      /\ \A y \in A : TimeOf[y] <= TimeOf[last]
      /\ TimeOf[last] <= TimeOf[x]
  BY DEF Runs
<1>2. \A y \in S : TimeOf[y] \in Int
  BY Times
<1>3. B = A \cup {x} /\ x \notin A /\ x \in S /\ B \ {x} = A /\ S = A \cup left
  BY <1>1
<1>4. Threshold \in Nat
  BY TimeAssumption
<1>5. Groups(S, A, Flush(done, run))
  BY FlushedGroups
<1> HIDE DEF A, B
<1>6. TimeOf[x] \in Int /\ TimeOf[last] \in Int /\ last \in S /\ TimeOf[last] < TimeOf[x]
  <2>1. TimeOf[x] \in Int /\ TimeOf[last] \in Int /\ last \in S
    BY <1>1, <1>2, <1>3
  <2> QED
    BY <1>1, <1>4, <2>1
<1>7. \A y \in B : TimeOf[y] <= TimeOf[x]
  BY <1>1, <1>2, <1>3, <1>6
<1>8. ASSUME NEW y \in A PROVE ~ Together(S, y, x)
  <2>1. ASSUME NEW u \in S, TimeOf[u] > TimeOf[last], TimeOf[u] - TimeOf[last] <= Threshold
        PROVE  FALSE
    <3>1. TimeOf[u] \in Int
      BY <1>2
    <3>2. u \in left
      BY <1>1, <1>3, <1>6, <2>1, <3>1
    <3>3. TimeOf[x] <= TimeOf[u]
      BY <3>2
    <3> QED
      BY <1>4, <1>6, <2>1, <3>1, <3>3
  <2>2. TimeOf[y] <= TimeOf[last] /\ TimeOf[y] \in Int
    BY <1>1, <1>2
  <2> QED
    BY <1>6, <2>1, <2>2 DEF Together
<1>9. Together(S, x, x)
  BY <1>2, <1>6 DEF Together
<1>10. \A y \in B : y \in {x} <=> Together(S, y, x)
  BY <1>3, <1>8, <1>9
<1> QED
  BY <1>1, <1>3, <1>5, <1>7, <1>10 DEF Runs, A, B

LEMMA FirstRun ==
  ASSUME NEW S, S \subseteq Telling, NEW x \in S, \A z \in S : TimeOf[x] <= TimeOf[z]
  PROVE  Runs(S, S \ {x}, {}, {x}, x)
<1>1. \A y \in S : TimeOf[y] \in Int
  BY Times
<1>2. S \ (S \ {x}) = {x}
  OBVIOUS
<1>3. Together(S, x, x)
  BY <1>1 DEF Together
<1>4. Groups(S, {x} \ {x}, {})
  BY DEF Groups
<1> QED
  BY <1>1, <1>2, <1>3, <1>4 DEF Runs
-----------------------------------------------------------------------------
(* Clusters: the loop                                                      *)

\* Of finitely many entries one is the earliest.
LEMMA EarliestIs ==
  ASSUME NEW S, S \subseteq Telling, S # {}
  PROVE  Earliest(S) \in S /\ \A y \in S : TimeOf[Earliest(S)] <= TimeOf[y]
<1> DEFINE T == {n \in Nat : \A U : U \subseteq Telling /\ IsFiniteSet(U) /\ Cardinality(U) = n
                                    /\ U # {}
                  => \E x \in U : \A y \in U : TimeOf[x] <= TimeOf[y]}
<1>1. 0 \in T
  <2> SUFFICES ASSUME NEW U, IsFiniteSet(U), Cardinality(U) = 0, U # {} PROVE FALSE
    OBVIOUS
  <2> QED
    BY FS_EmptySet
<1>2. ASSUME NEW n \in Nat, n \in T PROVE n + 1 \in T
  <2> SUFFICES ASSUME NEW U, U \subseteq Telling, IsFiniteSet(U), Cardinality(U) = n + 1, U # {}
               PROVE  \E x \in U : \A y \in U : TimeOf[x] <= TimeOf[y]
    OBVIOUS
  <2>1. \A y \in U : TimeOf[y] \in Int
    BY Times
  <2>2. PICK u \in U : TRUE
    OBVIOUS
  <2>3. IsFiniteSet(U \ {u}) /\ Cardinality(U \ {u}) = n /\ U \ {u} \subseteq Telling
    <3>1. /\ IsFiniteSet(U \ {u})
          /\ Cardinality(U \ {u}) = IF u \in U THEN Cardinality(U) - 1 ELSE Cardinality(U)
      BY FS_RemoveElement
    <3>2. n + 1 - 1 = n
      OBVIOUS
    <3> QED
      BY <2>2, <3>1, <3>2
  <2>4. CASE U \ {u} = {}
    BY <2>1, <2>2, <2>4
  <2>5. CASE U \ {u} # {}
    <3>1. PICK x \in U \ {u} : \A y \in U \ {u} : TimeOf[x] <= TimeOf[y]
      BY <1>2, <2>3, <2>5
    <3>2. CASE TimeOf[x] <= TimeOf[u]
      BY <3>1, <3>2
    <3>3. CASE ~ (TimeOf[x] <= TimeOf[u])
      BY <2>1, <2>2, <3>1, <3>3
    <3> QED
      BY <3>2, <3>3
  <2> QED
    BY <2>4, <2>5
<1> HIDE DEF T
<1>3. Nat \subseteq T
  BY <1>1, <1>2, InductionOverNat
<1>4. IsFiniteSet(S) /\ Cardinality(S) \in Nat
  BY TellingFinite, FS_Subset, FS_CardinalityType
<1>5. \E x \in S : \A y \in S : TimeOf[x] <= TimeOf[y]
  BY <1>3, <1>4 DEF T
<1> QED
  BY <1>5 DEF Earliest

\* What the loop holds after n further entries, given what it held before.
Round(g, S, n) == IF n = 0 THEN Starts(S) ELSE Take(g[n - 1])
Rounds(g, S, n) == g = [i \in 0..n |-> Round(g, S, i)]

LEMMA RoundsExist ==
  ASSUME NEW S, NEW n \in Nat
  PROVE  \E g : Rounds(g, S, n)
<1> DEFINE T == {k \in Nat : \E g : g = [i \in 0..k |-> Round(g, S, i)]}
<1>1. 0 \in T
  <2> DEFINE g == [i \in 0..0 |-> Starts(S)]
  <2>1. g = [i \in 0..0 |-> Round(g, S, i)]
    BY DEF Round
  <2> QED
    BY <2>1
<1>2. ASSUME NEW k \in Nat, k \in T PROVE k + 1 \in T
  <2>1. PICK g : g = [i \in 0..k |-> Round(g, S, i)]
    BY <1>2
  <2> DEFINE h == [i \in 0..k+1 |-> IF i = k + 1 THEN Round(g, S, i) ELSE g[i]]
  <2>2. ASSUME NEW i \in 0..k+1 PROVE h[i] = Round(h, S, i)
    <3>1. CASE i = 0
      BY <2>1, <3>1 DEF Round
    <3>2. CASE i # 0
      <4>1. i - 1 \in 0..k /\ h[i - 1] = g[i - 1]
        BY <3>2
      <4>2. Round(h, S, i) = Round(g, S, i)
        BY <3>2, <4>1 DEF Round
      <4> HIDE DEF h
      <4>3. h[i] = Round(g, S, i)
        <5>1. CASE i = k + 1
          BY <5>1 DEF h
        <5>2. CASE i \in 0..k
          BY <2>1, <5>2 DEF h
        <5> QED
          BY <5>1, <5>2
      <4> QED
        BY <4>2, <4>3
    <3> QED
      BY <3>1, <3>2
  <2>3. h = [i \in 0..k+1 |-> Round(h, S, i)]
    BY <2>2
  <2> HIDE DEF h
  <2> QED
    BY <2>3
<1> HIDE DEF T
<1>3. Nat \subseteq T
  BY <1>1, <1>2, InductionOverNat
<1> QED
  BY <1>3 DEF T, Rounds

LEMMA ClustersOfTurns ==
  ASSUME NEW S, S # {}, NEW n \in Nat, Cardinality(S) - 1 = n
  PROVE  \E g : Rounds(g, S, n) /\ FindClusters(S) = Flushed(g[n])
<1> DEFINE further == Cardinality(S) - 1
           IsLoop(f) == f = [k \in 0..further |-> IF k = 0 THEN Starts(S) ELSE Take(f[k - 1])]
           g == CHOOSE f : IsLoop(f)
<1>1. \E f : IsLoop(f)
  <2>1. PICK f : Rounds(f, S, n)
    BY RoundsExist
  <2>2. IsLoop(f)
    BY <2>1 DEF Rounds, Round
  <2> QED
    BY <2>2
<1>2. IsLoop(g)
  BY <1>1
<1>3. FindClusters(S) = Flushed(g[n])
  BY DEF FindClusters
<1> HIDE DEF g
<1>4. Rounds(g, S, n)
  BY <1>2 DEF Rounds, Round
<1> QED
  BY <1>3, <1>4

\* The loop's record says what Runs says; no entry is twice in its current run.
Follows(S, acc) ==
  /\ acc \in [left : SUBSET Telling, done : SUBSET SUBSET Telling, current : Seq(Telling)]
  /\ acc.current # << >>
  /\ \A i, j \in 1..Len(acc.current) : acc.current[i] = acc.current[j] => i = j
  /\ Runs(S, acc.left, acc.done, ToSet(acc.current), Last(acc.current))

LEMMA AppendSet ==
  ASSUME NEW s \in Seq(Telling), NEW x \in Telling
  PROVE  /\ Append(s, x) \in Seq(Telling) /\ Append(s, x) # << >>
         /\ ToSet(Append(s, x)) = ToSet(s) \cup {x} /\ Last(Append(s, x)) = x
         /\ Len(Append(s, x)) = Len(s) + 1
         /\ \A i \in 1..Len(s) : Append(s, x)[i] = s[i]
         /\ Append(s, x)[Len(s) + 1] = x
<1> DEFINE r == Append(s, x)
           n == Len(s)
<1>1. /\ n \in Nat /\ r \in Seq(Telling) /\ r # << >> /\ Len(r) = n + 1
      /\ \A i \in 1..n : r[i] = s[i]
      /\ r[n + 1] = x /\ DOMAIN s = 1..n /\ DOMAIN r = 1..n+1
  BY AppendProperties, LenProperties
<1> HIDE DEF r, n
<1>2. ToSet(r) = ToSet(s) \cup {x}
  <2>1. \A i \in 1..n+1 : i \in 1..n \/ i = n + 1
    BY <1>1
  <2>2. 1..n \subseteq 1..n+1 /\ n + 1 \in 1..n+1
    BY <1>1
  <2> QED
    BY <1>1, <2>1, <2>2 DEF ToSet
<1>3. Last(r) = x
  BY <1>1 DEF Last
<1> QED
  BY <1>1, <1>2, <1>3 DEF r, n

\* A run has two entries when its list has.
LEMMA FlushedIs ==
  ASSUME NEW S, NEW acc, Follows(S, acc)
  PROVE  Flushed(acc) = Flush(acc.done, ToSet(acc.current))
<1> DEFINE s == acc.current
           n == Len(s)
<1>1. /\ s \in Seq(Telling) /\ s # << >>
      /\ \A i, j \in 1..n : s[i] = s[j] => i = j
  BY DEF Follows
<1>2. n \in Nat /\ n # 0 /\ DOMAIN s = 1..n
  BY <1>1, EmptySeq, LenProperties
<1> HIDE DEF s, n
<1>3. ASSUME n >= 2 PROVE \E x, y \in ToSet(s) : x # y
  <2>1. 1 \in 1..n /\ 2 \in 1..n
    BY <1>2, <1>3
  <2>2. s[1] # s[2] /\ s[1] \in ToSet(s) /\ s[2] \in ToSet(s)
    BY <1>1, <1>2, <2>1 DEF ToSet
  <2> QED
    BY <2>2
<1>4. ASSUME ~ (n >= 2), NEW x \in ToSet(s), NEW y \in ToSet(s) PROVE x = y
  <2>1. n = 1
    BY <1>2, <1>4
  <2> QED
    BY <1>2, <2>1 DEF ToSet
<1> QED
  BY <1>3, <1>4 DEF Flushed, Flush, s, n

LEMMA StartsFollow ==
  ASSUME NEW S, S \subseteq Telling, S # {}
  PROVE  Follows(S, Starts(S)) /\ Starts(S).left = S \ {Earliest(S)}
<1> DEFINE x == Earliest(S)
<1>1. x \in S /\ \A y \in S : TimeOf[x] <= TimeOf[y]
  BY EarliestIs
<1> HIDE DEF x
<1>2. Starts(S) = [left |-> S \ {x}, done |-> {}, current |-> <<x>>]
  BY DEF Starts, x
<1>3. Runs(S, S \ {x}, {}, {x}, x)
  BY <1>1, FirstRun
<1>4. ToSet(<<x>>) = {x} /\ Last(<<x>>) = x /\ Len(<<x>>) = 1
  BY DEF ToSet, Last
<1>5. Starts(S) \in [left : SUBSET Telling, done : SUBSET SUBSET Telling, current : Seq(Telling)]
  BY <1>1, <1>2
<1> QED
  BY <1>2, <1>3, <1>4, <1>5 DEF Follows, x

LEMMA TakeFollows ==
  ASSUME NEW S, S \subseteq Telling, NEW acc, Follows(S, acc), acc.left # {}
  PROVE  Follows(S, Take(acc)) /\ Take(acc).left = acc.left \ {Earliest(acc.left)}
<1> DEFINE x == Earliest(acc.left)
           run == ToSet(acc.current)
           last == Last(acc.current)
<1>1. /\ acc \in [left : SUBSET Telling, done : SUBSET SUBSET Telling, current : Seq(Telling)]
      /\ Runs(S, acc.left, acc.done, run, last)
      /\ acc.left \subseteq S /\ run \subseteq S \ acc.left
      /\ \A i, j \in 1..Len(acc.current) : acc.current[i] = acc.current[j] => i = j
  BY DEF Follows, Runs
<1>2. x \in acc.left /\ \A y \in acc.left : TimeOf[x] <= TimeOf[y]
  BY <1>1, EarliestIs
<1>3. x \in Telling /\ x \notin run
  BY <1>1, <1>2
<1> HIDE DEF x
<1>4. CASE TimeOf[x] - TimeOf[last] <= Threshold
  <2>1. Take(acc) = [left |-> acc.left \ {x}, done |-> acc.done,
                     current |-> Append(acc.current, x)]
    BY <1>1, <1>4 DEF Take, x
  <2>2. Runs(S, acc.left \ {x}, acc.done, run \cup {x}, x)
    BY <1>1, <1>2, <1>4, RunGoesOn
  <2> DEFINE s == acc.current
             r == Append(s, x)
             n == Len(s)
  <2>3. s \in Seq(Telling) /\ n \in Nat /\ DOMAIN s = 1..n
    BY <1>1, LenProperties
  <2>4. /\ r \in Seq(Telling) /\ r # << >> /\ ToSet(r) = run \cup {x} /\ Last(r) = x
        /\ Len(r) = n + 1 /\ \A i \in 1..n : r[i] = s[i]
        /\ r[n + 1] = x
    BY <1>3, <2>3, AppendSet
  <2>5. \A i \in 1..n : s[i] # x
    BY <1>3, <2>3 DEF ToSet
  <2>6. \A i, j \in 1..n : s[i] = s[j] => i = j
    BY <1>1
  <2> HIDE DEF s, r, n
  <2>7. ASSUME NEW i \in 1..Len(r), NEW j \in 1..Len(r), r[i] = r[j] PROVE i = j
    <3>1. (i \in 1..n \/ i = n + 1) /\ (j \in 1..n \/ j = n + 1)
      BY <2>3, <2>4
    <3> QED
      BY <2>4, <2>5, <2>6, <2>7, <3>1
  <2>8. Take(acc) = [left |-> acc.left \ {x}, done |-> acc.done, current |-> r]
    BY <2>1 DEF r, s
  <2>9. Take(acc) \in [left : SUBSET Telling, done : SUBSET SUBSET Telling, current : Seq(Telling)]
    BY <1>1, <2>4, <2>8
  <2>10. Take(acc).left = acc.left \ {x} /\ Take(acc).done = acc.done
         /\ Take(acc).current = r
    BY <2>8
  <2> DEFINE b == Take(acc)
  <2> HIDE DEF b, run, last
  <2>11. b \in [left : SUBSET Telling, done : SUBSET SUBSET Telling, current : Seq(Telling)]
         /\ b.left = acc.left \ {x} /\ b.done = acc.done /\ b.current = r
    BY <2>9, <2>10 DEF b
  <2>12. \A i, j \in 1..Len(r) : r[i] = r[j] => i = j
    BY <2>7
  <2>13. Follows(S, b)
    BY <2>2, <2>4, <2>11, <2>12 DEF Follows
  <2> QED
    BY <2>11, <2>13 DEF b, x
<1>5. CASE ~ (TimeOf[x] - TimeOf[last] <= Threshold)
  <2>1. Take(acc) = [left |-> acc.left \ {x}, done |-> Flushed(acc), current |-> <<x>>]
    BY <1>1, <1>5 DEF Take, x
  <2>2. Runs(S, acc.left \ {x}, Flush(acc.done, run), {x}, x)
    BY <1>1, <1>2, <1>5, RunBegins
  <2>3. Flushed(acc) = Flush(acc.done, run)
    BY FlushedIs
  <2>4. ToSet(<<x>>) = {x} /\ Last(<<x>>) = x /\ Len(<<x>>) = 1
    BY DEF ToSet, Last
  <2>5. Flushed(acc) \subseteq SUBSET Telling
    BY <1>1, <2>3 DEF Flush
  <2>6. Take(acc) \in [left : SUBSET Telling, done : SUBSET SUBSET Telling, current : Seq(Telling)]
    BY <1>1, <1>3, <2>1, <2>5
  <2>7. Take(acc).left = acc.left \ {x} /\ Take(acc).done = Flush(acc.done, run)
        /\ Take(acc).current = <<x>>
    BY <2>1, <2>3
  <2> HIDE DEF run, last
  <2>8. <<x>> # << >> /\ \A i, j \in 1..Len(<<x>>) : i = j
    BY <2>4
  <2> DEFINE b == Take(acc)
             s == <<x>>
  <2> HIDE DEF b, s
  <2>9. b \in [left : SUBSET Telling, done : SUBSET SUBSET Telling, current : Seq(Telling)]
        /\ b.left = acc.left \ {x} /\ b.done = Flush(acc.done, run) /\ b.current = s
    BY <2>6, <2>7 DEF b, s
  <2>10. s # << >> /\ (\A i, j \in 1..Len(s) : i = j) /\ ToSet(s) = {x} /\ Last(s) = x
    BY <2>4, <2>8 DEF s
  <2>11. Follows(S, b)
    BY <2>2, <2>9, <2>10 DEF Follows
  <2> QED
    BY <2>9, <2>11 DEF b, x
<1> QED
  BY <1>4, <1>5

\* Every entry is taken once.
LEMMA RoundsFollow ==
  ASSUME NEW S, S \subseteq Telling, S # {}, NEW n \in Nat, Cardinality(S) - 1 = n,
         NEW g, Rounds(g, S, n)
  PROVE  Follows(S, g[n]) /\ g[n].left = {}
<1> DEFINE T == {k \in Nat : k <= n => /\ Follows(S, g[k])
                                       /\ IsFiniteSet(g[k].left)
                                       /\ Cardinality(g[k].left) = n - k}
<1>1. IsFiniteSet(S) /\ Cardinality(S) = n + 1
  <2>1. IsFiniteSet(S) /\ Cardinality(S) \in Nat
    BY TellingFinite, FS_Subset, FS_CardinalityType
  <2> QED
    BY <2>1
<1>2. 0 \in T
  <2>1. g[0] = Starts(S)
    BY DEF Rounds, Round
  <2>2. Follows(S, Starts(S)) /\ Starts(S).left = S \ {Earliest(S)} /\ Earliest(S) \in S
    BY StartsFollow, EarliestIs
  <2>3. IsFiniteSet(S \ {Earliest(S)}) /\ Cardinality(S \ {Earliest(S)}) = n
    <3> DEFINE x == Earliest(S)
    <3> HIDE DEF x
    <3>1. /\ IsFiniteSet(S \ {x})
          /\ Cardinality(S \ {x}) = IF x \in S THEN Cardinality(S) - 1 ELSE Cardinality(S)
      BY <1>1, FS_RemoveElement
    <3>2. n + 1 - 1 = n
      OBVIOUS
    <3>3. x \in S
      BY <2>2 DEF x
    <3>4. IsFiniteSet(S \ {x}) /\ Cardinality(S \ {x}) = n
      BY <1>1, <3>1, <3>2, <3>3
    <3> QED
      BY <3>4 DEF x
  <2> QED
    BY <2>1, <2>2, <2>3
<1>3. ASSUME NEW k \in Nat, k \in T PROVE k + 1 \in T
  <2> SUFFICES ASSUME k + 1 <= n
               PROVE  /\ Follows(S, g[k + 1]) /\ IsFiniteSet(g[k + 1].left)
                      /\ Cardinality(g[k + 1].left) = n - (k + 1)
    OBVIOUS
  <2>1. /\ Follows(S, g[k]) /\ IsFiniteSet(g[k].left)
        /\ Cardinality(g[k].left) = n - k
    BY <1>3
  <2>2. g[k + 1] = Take(g[k])
    BY DEF Rounds, Round
  <2> DEFINE left == g[k].left
             x == Earliest(left)
  <2>3. left \subseteq Telling
    BY <2>1 DEF Follows
  <2>4. left # {}
    BY <2>1, FS_EmptySet
  <2>5. Follows(S, g[k + 1]) /\ g[k + 1].left = left \ {x}
    <3> DEFINE acc == g[k]
    <3>1. Follows(S, acc) /\ acc.left # {}
      BY <2>1, <2>4
    <3> HIDE DEF acc
    <3>2. Follows(S, Take(acc)) /\ Take(acc).left = acc.left \ {Earliest(acc.left)}
      BY <3>1, TakeFollows
    <3> QED
      BY <2>2, <3>2 DEF acc
  <2>6. x \in left
    BY <2>3, <2>4, EarliestIs
  <2>7. IsFiniteSet(left) /\ Cardinality(left) = n - k
    BY <2>1
  <2> HIDE DEF left, x
  <2>8. /\ IsFiniteSet(left \ {x})
        /\ Cardinality(left \ {x}) = IF x \in left THEN Cardinality(left) - 1 ELSE Cardinality(left)
    BY <2>7, FS_RemoveElement
  <2>9. n - k - 1 = n - (k + 1)
    OBVIOUS
  <2> QED
    BY <2>5, <2>6, <2>7, <2>8, <2>9
<1> HIDE DEF T
<1>4. n \in T
  BY <1>2, <1>3, InductionOverNat
<1>5. Follows(S, g[n]) /\ IsFiniteSet(g[n].left) /\ Cardinality(g[n].left) = n - n
  BY <1>4 DEF T
<1> QED
  BY <1>5, FS_EmptySet

\* What find_clusters returns for entries of the case.
LEMMA ClustersAreGroups ==
  ASSUME NEW S, S \subseteq Telling
  PROVE  Groups(S, S, FindClusters(S))
<1>1. CASE S = {}
  BY <1>1 DEF FindClusters, Groups
<1>2. CASE S # {}
  <2> DEFINE n == Cardinality(S) - 1
  <2>1. n \in Nat
    <3>1. IsFiniteSet(S) /\ Cardinality(S) \in Nat
      BY TellingFinite, FS_Subset, FS_CardinalityType
    <3>2. Cardinality(S) # 0
      BY <1>2, <3>1, FS_EmptySet
    <3> QED
      BY <3>1, <3>2
  <2>2. Cardinality(S) - 1 = n
    OBVIOUS
  <2> HIDE DEF n
  <2>3. PICK g : Rounds(g, S, n) /\ FindClusters(S) = Flushed(g[n])
    BY <1>2, <2>1, <2>2, ClustersOfTurns
  <2> DEFINE acc == g[n]
  <2>4. Follows(S, acc) /\ acc.left = {}
    BY <1>2, <2>1, <2>2, <2>3, RoundsFollow
  <2>5. FindClusters(S) = Flushed(acc)
    BY <2>3
  <2> HIDE DEF acc
  <2>6. Flushed(acc) = Flush(acc.done, ToSet(acc.current))
    BY <2>4, FlushedIs
  <2>7. Runs(S, acc.left, acc.done, ToSet(acc.current), Last(acc.current))
    BY <2>4 DEF Follows
  <2>8. Groups(S, S \ acc.left, Flush(acc.done, ToSet(acc.current)))
    BY <2>7, FlushedGroups
  <2>9. S \ acc.left = S
    BY <2>4
  <2> QED
    BY <2>5, <2>6, <2>8, <2>9
<1> QED
  BY <1>1, <1>2

LEMMA TwoAtLeast ==
  ASSUME NEW C, C \subseteq Telling, NEW x \in C, NEW y \in C, x # y
  PROVE  Cardinality(C) >= 2
<1>1. IsFiniteSet(C)
  BY TellingFinite, FS_Subset
<1>2. IsFiniteSet({x}) /\ Cardinality({x}) = 1
  BY FS_Singleton
<1>3. IsFiniteSet(C \ {x}) /\ Cardinality(C \ {x}) = Cardinality(C) - 1
  BY <1>1, FS_RemoveElement
<1>4. Cardinality(C \ {x}) # 0
  BY <1>3, FS_EmptySet
<1>5. Cardinality(C) \in Nat /\ Cardinality(C \ {x}) \in Nat
  BY <1>1, <1>3, FS_CardinalityType
<1> QED
  BY <1>3, <1>4, <1>5

LEMMA SwimlaneGroups == ClustersAreRuns
<1> DEFINE S == Timeline
           P == FindClusters(S)
<1>1. S \subseteq Telling
  BY DEF Timeline
<1>2. Groups(S, S, P)
  BY <1>1, ClustersAreGroups
<1> HIDE DEF S, P
<1>3. \A C \in P : C \subseteq S /\ \E x, y \in C : x # y
  BY <1>2 DEF Groups
<1>4. \A C \in P : Cardinality(C) >= 2
  BY <1>1, <1>3, TwoAtLeast
<1>5. /\ \A x, y \in S : x # y /\ TimeOf[x] <= TimeOf[y] =>
           (Together(S, x, y) <=> \E C \in P : {x, y} \subseteq C)
      /\ \A C, D \in P : C = D \/ C \cap D = {}
  BY <1>2 DEF Groups
<1> QED
  BY <1>4, <1>5 DEF ClustersAreRuns, Swimlane, S, P

THEOREM ClustersRight == ViewsSpec => []ClustersAreRuns
BY SwimlaneGroups, PTL
-----------------------------------------------------------------------------
(* The hub: the messages of a queue on a channel                           *)

\* What OnChannel has kept of the first n messages, given what it kept before.
Keep(g, q, c, n) == IF n = 0 THEN << >>
                    ELSE IF q[n][1] = c THEN Append(g[n - 1], q[n])
                    ELSE g[n - 1]

\* A function that has kept of the first n messages what it should.
Keeping(g, q, c, n) == g = [i \in 0..n |-> Keep(g, q, c, i)]
KeptTo(g, q, c, n) == \A i \in 0..n : g[i] = Keep(g, q, c, i)
Agree(p, q, n) == \A i \in 1..n : p[i] = q[i]

LEMMA KeepsExists ==
  ASSUME NEW q, NEW c, NEW n \in Nat
  PROVE  \E g : Keeping(g, q, c, n)
<1> DEFINE T == {k \in Nat : \E g : g = [i \in 0..k |-> Keep(g, q, c, i)]}
<1>1. 0 \in T
  <2> DEFINE g == [i \in 0..0 |-> << >>]
  <2>1. g = [i \in 0..0 |-> Keep(g, q, c, i)]
    BY DEF Keep
  <2> QED
    BY <2>1
<1>2. ASSUME NEW k \in Nat, k \in T PROVE k + 1 \in T
  <2>1. PICK g : g = [i \in 0..k |-> Keep(g, q, c, i)]
    BY <1>2
  <2> DEFINE h == [i \in 0..k+1 |-> IF i = k + 1 THEN Keep(g, q, c, i) ELSE g[i]]
  <2>2. ASSUME NEW i \in 0..k+1 PROVE h[i] = Keep(h, q, c, i)
    <3>1. CASE i = 0
      BY <2>1, <3>1 DEF Keep
    <3>2. CASE i # 0
      <4>1. i - 1 \in 0..k /\ h[i - 1] = g[i - 1]
        BY <3>2
      <4>2. Keep(h, q, c, i) = Keep(g, q, c, i)
        BY <3>2, <4>1 DEF Keep
      <4> HIDE DEF h
      <4>3. h[i] = Keep(g, q, c, i)
        <5>1. CASE i = k + 1
          BY <5>1 DEF h
        <5>2. CASE i \in 0..k
          BY <2>1, <5>2 DEF h
        <5> QED
          BY <5>1, <5>2
      <4> QED
        BY <4>2, <4>3
    <3> QED
      BY <3>1, <3>2
  <2>3. h = [i \in 0..k+1 |-> Keep(h, q, c, i)]
    BY <2>2
  <2> HIDE DEF h
  <2> QED
    BY <2>3
<1> HIDE DEF T
<1>3. Nat \subseteq T
  BY <1>1, <1>2, InductionOverNat
<1> QED
  BY <1>3 DEF T, Keeping

\* The recursion determines what is kept, however long the queue goes on.
LEMMA KeepsUnique ==
  ASSUME NEW p, NEW q, NEW c, NEW n \in Nat, NEW g, NEW h,
         KeptTo(g, p, c, n), KeptTo(h, q, c, n), Agree(p, q, n)
  PROVE  g[n] = h[n]
<1> DEFINE T == {i \in Nat : i <= n => g[i] = h[i]}
<1>1. 0 \in T
  BY DEF Keep, KeptTo
<1>2. ASSUME NEW i \in Nat, i \in T PROVE i + 1 \in T
  <2>1. SUFFICES ASSUME i + 1 <= n PROVE g[i + 1] = h[i + 1]
    OBVIOUS
  <2>2. g[i] = h[i] /\ i + 1 \in 1..n /\ i + 1 \in 0..n /\ (i + 1) - 1 = i /\ i + 1 # 0
    BY <1>2, <2>1
  <2>3. Keep(g, p, c, i + 1) = Keep(h, q, c, i + 1)
    BY <2>2 DEF Keep, Agree
  <2> QED
    BY <2>2, <2>3 DEF KeptTo
<1> HIDE DEF T
<1>3. Nat \subseteq T
  BY <1>1, <1>2, InductionOverNat
<1> QED
  BY <1>3 DEF T

LEMMA OnChannelKeeps ==
  ASSUME NEW q, NEW c, NEW n \in Nat, Len(q) = n
  PROVE  \E g : KeptTo(g, q, c, n) /\ OnChannel(q, c) = g[n]
<1> DEFINE IsKept(f) == f = [k \in 0..Len(q) |-> IF k = 0 THEN << >>
                               ELSE IF q[k][1] = c THEN Append(f[k - 1], q[k])
                               ELSE f[k - 1]]
           g == CHOOSE f : IsKept(f)
<1>1. \E f : IsKept(f)
  <2>1. PICK f : Keeping(f, q, c, n)
    BY KeepsExists
  <2>2. IsKept(f)
    BY <2>1 DEF Keeping, Keep
  <2> QED
    BY <2>2
<1>2. IsKept(g)
  BY <1>1
<1>3. OnChannel(q, c) = g[n]
  BY DEF OnChannel
<1> HIDE DEF g
<1>4. KeptTo(g, q, c, n)
  BY <1>2 DEF Keep, KeptTo
<1> QED
  BY <1>3, <1>4

\* Nothing of nothing; a further message is kept last if it is on the channel.
LEMMA OnChannelEmpty == ASSUME NEW c PROVE OnChannel(<< >>, c) = << >>
<1>1. PICK g : KeptTo(g, << >>, c, 0) /\ OnChannel(<< >>, c) = g[0]
  BY OnChannelKeeps
<1> QED
  BY <1>1 DEF Keep, KeptTo

LEMMA OnChannelAppend ==
  ASSUME NEW S, NEW q \in Seq(S), NEW m \in S, NEW c
  PROVE  OnChannel(Append(q, m), c) = IF m[1] = c THEN Append(OnChannel(q, c), m)
                                      ELSE OnChannel(q, c)
<1> DEFINE r == Append(q, m)
           n == Len(q)
<1>1. /\ Len(r) = n + 1 /\ n \in Nat /\ r[n + 1] = m
      /\ \A i \in 1..n : r[i] = q[i]
  BY AppendProperties, LenProperties
<1>2. PICK g : KeptTo(g, q, c, n) /\ OnChannel(q, c) = g[n]
  BY <1>1, OnChannelKeeps
<1> HIDE DEF r
<1>3. PICK h : KeptTo(h, r, c, n + 1) /\ OnChannel(r, c) = h[n + 1]
  <2>1. n + 1 \in Nat /\ Len(r) = n + 1
    BY <1>1
  <2> HIDE DEF n
  <2> QED
    BY <2>1, OnChannelKeeps
<1> HIDE DEF n
<1>4. h[n] = g[n]
  <2>1. KeptTo(h, r, c, n)
    BY <1>1, <1>3 DEF KeptTo
  <2>2. Agree(r, q, n) /\ n \in Nat
    BY <1>1 DEF Agree
  <2> QED
    BY <1>2, <2>1, <2>2, KeepsUnique
<1>5. h[n + 1] = Keep(h, r, c, n + 1) /\ n + 1 # 0 /\ (n + 1) - 1 = n
  BY <1>1, <1>3 DEF KeptTo
<1> QED
  BY <1>1, <1>2, <1>3, <1>4, <1>5 DEF Keep, r

\* Induction over the sequences, which grow at their end.
LEMMA InductionOverSeq ==
  ASSUME NEW S, NEW T, << >> \in T,
         \A q \in Seq(S), m \in S : q \in T => Append(q, m) \in T
  PROVE  Seq(S) \subseteq T
<1> DEFINE N == {n \in Nat : \A q \in Seq(S) : Len(q) = n => q \in T}
<1>1. 0 \in N
  BY EmptySeq
<1>2. ASSUME NEW n \in Nat, n \in N PROVE n + 1 \in N
  <2>1. SUFFICES ASSUME NEW q \in Seq(S), Len(q) = n + 1 PROVE q \in T
    OBVIOUS
  <2>2. q # << >>
    BY <2>1, EmptySeq
  <2>3. PICK s \in Seq(S), m \in S : q = Append(s, m)
    BY <2>2, SequenceEmptyOrAppend
  <2>4. Len(s) = n
    BY <2>1, <2>3, AppendProperties, LenProperties
  <2> QED
    BY <1>2, <2>3, <2>4
<1> HIDE DEF N
<1>3. Nat \subseteq N
  BY <1>1, <1>2, InductionOverNat
<1> QED
  BY <1>3, LenProperties DEF N

LEMMA OnChannelType ==
  ASSUME NEW S, NEW q \in Seq(S), NEW c PROVE OnChannel(q, c) \in Seq(S)
<1> DEFINE T == {s \in Seq(S) : OnChannel(s, c) \in Seq(S)}
<1>1. << >> \in T
  BY EmptySeq, OnChannelEmpty
<1>2. ASSUME NEW s \in Seq(S), NEW m \in S, s \in T PROVE Append(s, m) \in T
  <2>1. OnChannel(s, c) \in Seq(S)
    BY <1>2
  <2>2. Append(OnChannel(s, c), m) \in Seq(S) /\ Append(s, m) \in Seq(S)
    BY <2>1, AppendProperties
  <2>3. OnChannel(Append(s, m), c) = IF m[1] = c THEN Append(OnChannel(s, c), m)
                                     ELSE OnChannel(s, c)
    BY OnChannelAppend
  <2> QED
    BY <2>1, <2>2, <2>3
<1> HIDE DEF T
<1>3. Seq(S) \subseteq T
  BY <1>1, <1>2, InductionOverSeq
<1> QED
  BY <1>3 DEF T

\* The first message is kept first.
First(q, c) == IF Head(q)[1] = c THEN <<Head(q)>> ELSE << >>

LEMMA OnChannelHead ==
  ASSUME NEW S, NEW q \in Seq(S), q # << >>, NEW c
  PROVE  OnChannel(q, c) = First(q, c) \o OnChannel(Tail(q), c)
<1> DEFINE T == {s \in Seq(S) : s # << >> =>
                   OnChannel(s, c) = First(s, c) \o OnChannel(Tail(s), c)}
<1>1. << >> \in T
  BY EmptySeq
<1>2. ASSUME NEW s \in Seq(S), NEW m \in S, s \in T PROVE Append(s, m) \in T
  <2> DEFINE r == Append(s, m)
  <2>1. r \in Seq(S) /\ r # << >>
    BY AppendProperties
  <2>2. OnChannel(r, c) = IF m[1] = c THEN Append(OnChannel(s, c), m)
                          ELSE OnChannel(s, c)
    BY OnChannelAppend
  <2>3. /\ Head(r) = IF s = << >> THEN m ELSE Head(s)
        /\ Tail(r) = IF s = << >> THEN << >> ELSE Append(Tail(s), m)
    BY HeadTailAppend
  <2> HIDE DEF r
  <2>4. CASE s = << >>
    <3>1. OnChannel(s, c) = << >> /\ OnChannel(Tail(r), c) = << >>
      BY <2>3, <2>4, OnChannelEmpty
    <3>2. OnChannel(r, c) = First(r, c)
      <4>1. Append(<< >>, m) = <<m>>
        OBVIOUS
      <4> QED
        BY <2>2, <2>3, <2>4, <3>1, <4>1 DEF First
    <3>3. First(r, c) \in Seq(S)
      BY <2>3, <2>4 DEF First
    <3> QED
      BY <2>1, <3>1, <3>2, <3>3, ConcatEmptySeq DEF r
  <2>5. CASE s # << >>
    <3>1. Head(s) \in S /\ Tail(s) \in Seq(S)
      BY <2>5, HeadTailProperties
    <3>2. OnChannel(s, c) = First(s, c) \o OnChannel(Tail(s), c)
      BY <1>2, <2>5
    <3>3. First(r, c) = First(s, c) /\ Tail(r) = Append(Tail(s), m)
      BY <2>3, <2>5 DEF First
    <3>4. OnChannel(Tail(r), c) = IF m[1] = c THEN Append(OnChannel(Tail(s), c), m)
                                  ELSE OnChannel(Tail(s), c)
      <4> DEFINE u == Tail(s)
      <4>1. u \in Seq(S)
        BY <3>1
      <4> HIDE DEF u
      <4>2. OnChannel(Append(u, m), c) = IF m[1] = c THEN Append(OnChannel(u, c), m)
                                         ELSE OnChannel(u, c)
        BY <4>1, OnChannelAppend
      <4> QED
        BY <3>3, <4>2 DEF u
    <3>5. First(s, c) \in Seq(S) /\ OnChannel(Tail(s), c) \in Seq(S)
      <4>1. OnChannel(Tail(s), c) \in Seq(S)
        BY <3>1, OnChannelType
      <4>2. <<Head(s)>> \in Seq(S) /\ << >> \in Seq(S)
        BY <3>1
      <4> QED
        BY <4>1, <4>2 DEF First
    <3>6. Append(First(s, c) \o OnChannel(Tail(s), c), m)
            = First(s, c) \o Append(OnChannel(Tail(s), c), m)
      <4>1. ASSUME NEW a \in Seq(S), NEW b \in Seq(S)
            PROVE  Append(a \o b, m) = a \o Append(b, m)
        <5>1. <<m>> \in Seq(S) /\ a \o b \in Seq(S)
          BY ConcatProperties
        <5>2. Append(a \o b, m) = (a \o b) \o <<m>> /\ Append(b, m) = b \o <<m>>
          BY <5>1, AppendIsConcat
        <5>3. (a \o b) \o <<m>> = a \o (b \o <<m>>)
          BY <5>1, ConcatAssociative
        <5> QED
          BY <5>2, <5>3
      <4> QED
        BY <3>5, <4>1
    <3>7. OnChannel(r, c) = First(r, c) \o OnChannel(Tail(r), c)
      BY <2>2, <3>2, <3>3, <3>4, <3>6
    <3> QED
      BY <2>1, <3>7 DEF r
  <2> QED
    BY <2>4, <2>5
<1> HIDE DEF T
<1>3. Seq(S) \subseteq T
  BY <1>1, <1>2, InductionOverSeq
<1> QED
  BY <1>3 DEF T
-----------------------------------------------------------------------------
(* The hub: suffixes                                                       *)

LEMMA ReverseShape ==
  ASSUME NEW S, NEW a \in Seq(S)
  PROVE  /\ Reverse(a) \in Seq(S)
         /\ Len(Reverse(a)) = Len(a)
         /\ \A i \in 1..Len(a) : Reverse(a)[i] = a[Len(a) - i + 1]
<1>1. Len(a) \in Nat /\ \A i \in 1..Len(a) : a[Len(a) - i + 1] \in S
  BY LenProperties, ElementOfSeq
<1> QED
  BY <1>1 DEF Reverse

\* The last messages of b are those of a, one by one.
Ends(a, b) == /\ Len(a) <= Len(b)
              /\ \A i \in 1..Len(a) : a[i] = b[Len(b) - Len(a) + i]

LEMMA SuffixEnds ==
  ASSUME NEW S, NEW a \in Seq(S), NEW b \in Seq(S)
  PROVE  IsSuffix(a, b) <=> Ends(a, b)
<1> DEFINE x == Reverse(a)
           y == Reverse(b)
           n == Len(a)
           k == Len(b)
<1>1. /\ n \in Nat /\ k \in Nat
      /\ x \in Seq(S) /\ y \in Seq(S) /\ Len(x) = n /\ Len(y) = k
      /\ \A i \in 1..n : x[i] = a[n - i + 1]
      /\ \A i \in 1..k : y[i] = b[k - i + 1]
  BY ReverseShape, LenProperties
<1> HIDE DEF x, y, n, k
<1>2. IsSuffix(a, b) <=> n <= k /\ SubSeq(x, 1, n) = SubSeq(y, 1, n)
  BY <1>1 DEF IsSuffix, IsPrefix, x, y
<1>3. ASSUME n <= k
      PROVE  (SubSeq(x, 1, n) = SubSeq(y, 1, n)) <=> (\A i \in 1..n : x[i] = y[i])
  <2>1. /\ SubSeq(x, 1, n) \in Seq(S) /\ Len(SubSeq(x, 1, n)) = n
        /\ \A i \in 1..n : SubSeq(x, 1, n)[i] = x[i]
    BY <1>1, SubSeqProperties
  <2>2. /\ SubSeq(y, 1, n) \in Seq(S) /\ Len(SubSeq(y, 1, n)) = n
        /\ \A i \in 1..n : SubSeq(y, 1, n)[i] = y[i]
    BY <1>1, <1>3, SubSeqProperties
  <2> QED
    BY <2>1, <2>2, SeqEqual
<1>4. ASSUME n <= k
      PROVE  (\A i \in 1..n : x[i] = y[i]) <=> (\A i \in 1..n : a[i] = b[k - n + i])
  <2>1. ASSUME NEW i \in 1..n
        PROVE  (x[i] = y[i]) <=> (a[n - i + 1] = b[k - n + (n - i + 1)])
    BY <1>1, <1>4
  <2>2. \A i \in 1..n : n - i + 1 \in 1..n /\ n - (n - i + 1) + 1 = i
    BY <1>1
  <2>3. ASSUME \A i \in 1..n : x[i] = y[i], NEW j \in 1..n
        PROVE  a[j] = b[k - n + j]
    <3>1. n - j + 1 \in 1..n /\ n - (n - j + 1) + 1 = j
      BY <2>2
    <3> QED
      BY <2>1, <2>3, <3>1
  <2>4. ASSUME \A j \in 1..n : a[j] = b[k - n + j], NEW i \in 1..n
        PROVE  x[i] = y[i]
    BY <2>1, <2>2, <2>4
  <2> QED
    BY <2>3, <2>4
<1> QED
  BY <1>2, <1>3, <1>4 DEF Ends, n, k

LEMMA EmptySuffix == ASSUME NEW S, NEW b \in Seq(S) PROVE IsSuffix(<< >>, b)
<1>1. Ends(<< >>, b)
  BY LenProperties DEF Ends
<1>2. << >> \in Seq(S)
  OBVIOUS
<1> QED
  BY <1>1, <1>2, SuffixEnds

LEMMA SuffixGrows ==
  ASSUME NEW S, NEW a \in Seq(S), NEW b \in Seq(S), NEW m \in S, IsSuffix(a, b)
  PROVE  IsSuffix(Append(a, m), Append(b, m))
<1> DEFINE x == Append(a, m)
           y == Append(b, m)
           n == Len(a)
           k == Len(b)
<1>1. /\ n \in Nat /\ k \in Nat
      /\ x \in Seq(S) /\ y \in Seq(S) /\ Len(x) = n + 1 /\ Len(y) = k + 1
      /\ \A i \in 1..n : x[i] = a[i]
      /\ \A i \in 1..k : y[i] = b[i]
      /\ x[n + 1] = m /\ y[k + 1] = m
  BY AppendProperties, LenProperties
<1>2. n <= k /\ \A i \in 1..n : a[i] = b[k - n + i]
  BY SuffixEnds DEF Ends
<1> HIDE DEF x, y, n, k
<1>3. n + 1 <= k + 1
  BY <1>1, <1>2
<1>4. ASSUME NEW i \in 1..n+1 PROVE x[i] = y[(k + 1) - (n + 1) + i]
  <2>1. CASE i \in 1..n
    <3>1. (k + 1) - (n + 1) + i = k - n + i /\ k - n + i \in 1..k
      BY <1>1, <1>2, <2>1
    <3>2. x[i] = a[i] /\ a[i] = b[k - n + i] /\ y[k - n + i] = b[k - n + i]
      BY <1>1, <1>2, <2>1, <3>1
    <3> QED
      BY <3>1, <3>2
  <2>2. CASE i = n + 1
    <3>1. (k + 1) - (n + 1) + i = k + 1
      BY <1>1, <2>2
    <3> QED
      BY <1>1, <2>2, <3>1
  <2> QED
    BY <1>1, <2>1, <2>2
<1>5. Ends(x, y)
  BY <1>1, <1>3, <1>4 DEF Ends
<1>6. IsSuffix(x, y)
  BY <1>1, <1>5, SuffixEnds
<1> QED
  BY <1>6 DEF x, y

\* What a suffix ends in is one.
LEMMA SuffixDrops ==
  ASSUME NEW S, NEW x \in Seq(S), NEW a \in Seq(S), NEW b \in Seq(S), IsSuffix(x \o a, b)
  PROVE  IsSuffix(a, b)
<1> DEFINE y == x \o a
           h == Len(x)
           n == Len(a)
           k == Len(b)
<1>1. /\ y \in Seq(S) /\ Len(y) = h + n /\ h \in Nat /\ n \in Nat /\ k \in Nat
      /\ \A i \in 1..(h + n) : y[i] = IF i <= h THEN x[i] ELSE a[i - h]
  BY ConcatProperties, LenProperties
<1>2. Ends(y, b)
  BY <1>1, SuffixEnds
<1> HIDE DEF y, h, n, k
<1>3. h + n <= k /\ \A i \in 1..(h + n) : y[i] = b[k - (h + n) + i]
  BY <1>1, <1>2 DEF Ends, k
<1>4. ASSUME NEW i \in 1..n PROVE a[i] = b[k - n + i]
  <2>1. h + i \in 1..(h + n) /\ ~ (h + i <= h) /\ h + i - h = i
        /\ k - (h + n) + (h + i) = k - n + i
    BY <1>1
  <2>2. y[h + i] = a[i]
    BY <1>1, <2>1
  <2>3. y[h + i] = b[k - (h + n) + (h + i)]
    BY <1>3, <2>1
  <2> QED
    BY <2>1, <2>2, <2>3
<1>5. n <= k
  BY <1>1, <1>3
<1>6. Ends(a, b)
  BY <1>4, <1>5 DEF Ends, n, k
<1> QED
  BY <1>6, SuffixEnds

\* What was published since then grows as what was published grows.
LEMMA SinceGrows ==
  ASSUME NEW S, NEW p \in Seq(S), NEW m \in S, NEW j \in 0..Len(p)
  PROVE  SubSeq(Append(p, m), j + 1, Len(Append(p, m)))
           = Append(SubSeq(p, j + 1, Len(p)), m)
<1> DEFINE r == Append(p, m)
           n == Len(p)
<1>1. /\ n \in Nat /\ r \in Seq(S) /\ Len(r) = n + 1 /\ r[n + 1] = m
      /\ \A i \in 1..n : r[i] = p[i]
  BY AppendProperties, LenProperties
<1>2. j \in 0..n
  OBVIOUS
<1>3. \A i \in 1..n : p[i] \in S
  BY ElementOfSeq
<1> HIDE DEF r, n
<1> DEFINE u == SubSeq(r, j + 1, n + 1)
           w == SubSeq(p, j + 1, n)
<1>4. /\ u \in Seq(S) /\ Len(u) = n - j + 1
      /\ \A i \in 1..n-j+1 : u[i] = r[j + i]
  <2>1. \A i \in (j + 1)..(n + 1) : r[i] \in S
    BY <1>1, <1>2, <1>3
  <2>2. j + 1 \in Int /\ n + 1 \in Int /\ j + 1 <= n + 1
    BY <1>1, <1>2
  <2>3. /\ u \in Seq(S) /\ Len(u) = IF j + 1 <= n + 1 THEN (n + 1) - (j + 1) + 1 ELSE 0
        /\ \A i \in 1..(n + 1) - (j + 1) + 1 : u[i] = r[j + 1 + i - 1]
    BY <2>1, <2>2, SubSeqProperties
  <2> HIDE DEF u
  <2> QED
    BY <1>1, <1>2, <2>2, <2>3
<1>5. /\ w \in Seq(S) /\ Len(w) = n - j
      /\ \A i \in 1..n-j : w[i] = p[j + i]
  <2>1. \A i \in (j + 1)..n : p[i] \in S
    BY <1>1, <1>2, <1>3
  <2>2. j + 1 \in Int /\ n \in Int
    BY <1>1, <1>2
  <2>3. /\ w \in Seq(S) /\ Len(w) = IF j + 1 <= n THEN n - (j + 1) + 1 ELSE 0
        /\ \A i \in 1..n - (j + 1) + 1 : w[i] = p[j + 1 + i - 1]
    BY <2>1, <2>2, SubSeqProperties
  <2> HIDE DEF w
  <2> QED
    BY <1>1, <1>2, <2>2, <2>3
<1> HIDE DEF u, w
<1>6. /\ Append(w, m) \in Seq(S) /\ Len(Append(w, m)) = n - j + 1
      /\ \A i \in 1..n-j : Append(w, m)[i] = w[i]
      /\ Append(w, m)[n - j + 1] = m
  BY <1>1, <1>2, <1>5, AppendProperties
<1>7. ASSUME NEW i \in 1..n-j+1 PROVE u[i] = Append(w, m)[i]
  <2> DEFINE z == Append(w, m)
  <2>1. z = Append(w, m)
    OBVIOUS
  <2> HIDE DEF z
  <2>2. CASE i \in 1..n-j
    <3>1. u[i] = r[j + i] /\ j + i \in 1..n
      BY <1>1, <1>2, <1>4, <2>2
    <3> QED
      BY <1>1, <1>5, <1>6, <2>1, <2>2, <3>1
  <2>3. CASE i = n - j + 1
    <3>1. j + i = n + 1
      BY <1>1, <1>2, <2>3
    <3> QED
      BY <1>1, <1>4, <1>6, <2>1, <2>3, <3>1
  <2>4. i \in 1..n-j \/ i = n - j + 1
    BY <1>1, <1>2
  <2> QED
    BY <2>2, <2>3, <2>4
<1>8. u = Append(w, m)
  BY <1>4, <1>6, <1>7, SeqEqual
<1> QED
  BY <1>1, <1>8 DEF r, n, u, w

\* Nothing was published since now.
LEMMA SinceNow ==
  ASSUME NEW S, NEW p \in Seq(S)
  PROVE  SubSeq(p, Len(p) + 1, Len(p)) = << >>
<1>1. Len(p) \in Nat
  BY LenProperties
<1> QED
  BY <1>1, SubSeqEmpty
-----------------------------------------------------------------------------
(* The hub: what its state is made of                                      *)

\* What is being handed out is a message.
Handing == \A p \in Process : sending[p].to # {} => sending[p].msg \in Message

LEMMA SomePerson == ASSUME NEW s \in Socket PROVE UserOf[s] \in Person
BY DEF Person

\* What the connections say is untouched but for the sockets that are closed.
LEMMA ClosedTyped ==
  ASSUME HubTypeOK, NEW S, Closed(S)
  PROVE  got' \in [Socket -> Seq(Message)] /\ joined' \in [Socket -> Nat]
BY DEF HubTypeOK, Closed

LEMMA TouchedTyped ==
  ASSUME HubTypeOK, NEW s \in Socket, Touched(s)
  PROVE  score' \in [Case -> [Person -> Age \cup {Nil}]]
<1>1. 0 \in Age
  BY TTLAssumption DEF Age
<1> QED
  BY <1>1, SomePerson DEF HubTypeOK, Touched

\* The presence after a step.
PresenceTyped == /\ score' \in [Case -> [Person -> Age \cup {Nil}]]
                 /\ away' \in [Case -> [Person -> Age]]
ClientTyped == got' \in [Socket -> Seq(Message)] /\ joined' \in [Socket -> Nat]
TrafficTyped == /\ starting' \subseteq Process
                /\ listening' \subseteq Process \ starting'
                /\ stage' \in [Event -> {"new", "half", "done"}]
                /\ published' \in Seq(Message)
                /\ inbox' \in [Process -> Seq(Message)]
                /\ sending' \in [Process -> [msg : Message \cup {Nil}, to : SUBSET Socket]]
                /\ Handing'
SocketsTyped ==
  /\ at' \in [Socket -> Process \cup {Nil}]
  /\ sock' \in [Socket -> {"new", "accepted", "registered", "in", "leaving",
                           "forgetting", "gone", "leaked"}]
  /\ sockets' \in [Process -> SUBSET Socket]

LEMMA PresenceStays ==
  ASSUME HubTypeOK, UNCHANGED presence PROVE PresenceTyped
BY DEF HubTypeOK, presence, PresenceTyped

LEMMA TrafficStays ==
  ASSUME HubTypeOK, Handing, UNCHANGED traffic PROVE TrafficTyped
BY DEF HubTypeOK, Handing, traffic, TrafficTyped

LEMMA ClientStays ==
  ASSUME HubTypeOK, UNCHANGED client PROVE ClientTyped
BY DEF HubTypeOK, client, ClientTyped

LEMMA TypedAgain ==
  ASSUME SocketsTyped, PresenceTyped, ClientTyped, TrafficTyped
  PROVE  HubTypeOK' /\ Handing'
BY DEF HubTypeOK, SocketsTyped, PresenceTyped, ClientTyped, TrafficTyped

LEMMA LenPublished == ASSUME HubTypeOK PROVE Len(published) \in Nat
BY LenProperties DEF HubTypeOK

LEMMA HandlerTyped ==
  ASSUME HubTypeOK, Handing, NEW s \in Socket, Handler(s)
  PROVE  HubTypeOK' /\ Handing'
<1>1. ASSUME NEW p \in Process, Accept(s, p) PROVE HubTypeOK' /\ Handing'
  <2>1. SocketsTyped
    BY <1>1 DEF Accept, HubTypeOK, SocketsTyped
  <2> QED
    BY <1>1, <2>1, PresenceStays, TrafficStays, ClientStays, TypedAgain DEF Accept
<1>2. CASE Register(s)
  <2>1. SocketsTyped
    BY <1>2 DEF Register, HubTypeOK, SocketsTyped
  <2>2. PresenceTyped
    <3>1. 0 \in Age
      BY TTLAssumption DEF Age
    <3> QED
      BY <1>2, <3>1, SomePerson DEF Register, Returned, HubTypeOK, PresenceTyped
  <2>3. ClientTyped
    BY <1>2, LenPublished DEF Register, HubTypeOK, ClientTyped
  <2> QED
    BY <1>2, <2>1, <2>2, <2>3, TrafficStays, TypedAgain DEF Register
<1>3. CASE Enter(s)
  <2>1. SocketsTyped
    BY <1>3 DEF Enter, HubTypeOK, SocketsTyped
  <2>2. PresenceTyped
    BY <1>3, TouchedTyped DEF Enter, HubTypeOK, PresenceTyped
  <2> QED
    BY <1>3, <2>1, <2>2, TrafficStays, ClientStays, TypedAgain DEF Enter
<1>4. CASE EnterFails(s)
  <2>1. SocketsTyped
    BY <1>4 DEF EnterFails, HubTypeOK, SocketsTyped
  <2>2. ClientTyped
    BY <1>4, ClosedTyped DEF EnterFails, ClientTyped
  <2>3. PresenceTyped
    BY <1>4, TouchedTyped DEF EnterFails, HubTypeOK, PresenceTyped
  <2> QED
    BY <1>4, <2>1, <2>2, <2>3, TrafficStays, TypedAgain DEF EnterFails
<1>5. CASE Ping(s)
  <2>1. SocketsTyped
    BY <1>5 DEF Ping, HubTypeOK, SocketsTyped
  <2>2. PresenceTyped
    BY <1>5, TouchedTyped DEF Ping, HubTypeOK, PresenceTyped
  <2> QED
    BY <1>5, <2>1, <2>2, TrafficStays, ClientStays, TypedAgain DEF Ping
<1>6. CASE Leave(s)
  <2>1. SocketsTyped
    BY <1>6 DEF Leave, HubTypeOK, SocketsTyped
  <2>2. ClientTyped
    BY <1>6, ClosedTyped DEF Leave, ClientTyped
  <2> QED
    BY <1>6, <2>1, <2>2, TrafficStays, PresenceStays, TypedAgain DEF Leave
<1>7. CASE Unregister(s)
  <2>1. SocketsTyped
    BY <1>7 DEF Unregister, HubTypeOK, SocketsTyped
  <2> QED
    BY <1>7, <2>1, ClientStays, TrafficStays, PresenceStays, TypedAgain DEF Unregister
<1>8. CASE Forget(s)
  <2>1. SocketsTyped
    BY <1>8 DEF Forget, HubTypeOK, SocketsTyped
  <2>2. PresenceTyped
    <3>1. [score EXCEPT ![ChannelOf[s]][UserOf[s]] = Nil]
            \in [Case -> [Person -> Age \cup {Nil}]]
      BY DEF HubTypeOK
    <3>2. score' \in [Case -> [Person -> Age \cup {Nil}]]
      BY <1>8, <3>1 DEF Forget, HubTypeOK
    <3> QED
      BY <1>8, <3>2 DEF Forget, HubTypeOK, PresenceTyped
  <2> QED
    BY <1>8, <2>1, <2>2, ClientStays, TrafficStays, TypedAgain DEF Forget
<1> QED
  BY <1>1, <1>2, <1>3, <1>4, <1>5, <1>6, <1>7, <1>8 DEF Handler

LEMMA PublishTyped ==
  ASSUME HubTypeOK, Handing, NEW c \in Channel, NEW e \in Event, Publish(c, e),
         stage' \in [Event -> {"new", "half", "done"}], UNCHANGED <<starting, listening, sending>>
  PROVE  TrafficTyped
<1>1. <<c, e>> \in Message
  BY DEF Message
<1>2. published' \in Seq(Message)
  BY <1>1, AppendProperties DEF HubTypeOK, Publish
<1>3. \A p \in Process : inbox[p] \in Seq(Message) /\ Append(inbox[p], <<c, e>>) \in Seq(Message)
  BY <1>1, AppendProperties DEF HubTypeOK
<1>4. inbox' \in [Process -> Seq(Message)]
  BY <1>3 DEF Publish
<1> QED
  BY <1>2, <1>4 DEF HubTypeOK, Handing, TrafficTyped

LEMMA PublisherTyped ==
  ASSUME HubTypeOK, Handing, NEW e \in Event, Publisher(e)
  PROVE  HubTypeOK' /\ Handing'
<1>1. UNCHANGED <<at, sock, sockets, client, presence>>
  BY DEF Publisher, PublishToCase, PublishToTenant, PublishFails
<1>2. CaseOf[e] \in Channel /\ Feed \in Channel
  BY CaseAssumption DEF Channel
<1>3. stage' \in [Event -> {"new", "half", "done"}]
  BY DEF Publisher, PublishToCase, PublishToTenant, PublishFails, HubTypeOK
<1>4. TrafficTyped
  <2>1. CASE PublishToCase(e)
    BY <1>2, <1>3, <2>1, PublishTyped DEF PublishToCase
  <2>2. CASE PublishToTenant(e)
    BY <1>2, <1>3, <2>2, PublishTyped DEF PublishToTenant
  <2>3. CASE PublishFails(e)
    BY <1>3, <2>3 DEF PublishFails, HubTypeOK, Handing, TrafficTyped
  <2> QED
    BY <2>1, <2>2, <2>3 DEF Publisher
<1>5. SocketsTyped
  BY <1>1 DEF HubTypeOK, SocketsTyped
<1> QED
  BY <1>1, <1>4, <1>5, ClientStays, PresenceStays, TypedAgain

LEMMA HandoutTyped ==
  ASSUME HubTypeOK, Handing, NEW p \in Process, NEW m, NEW S \in SUBSET Socket,
         S # {} => m \in Message, sending' = [sending EXCEPT ![p] = Handout(m, S)]
  PROVE  /\ sending' \in [Process -> [msg : Message \cup {Nil}, to : SUBSET Socket]]
         /\ Handing'
<1>1. /\ Handout(m, S) \in [msg : Message \cup {Nil}, to : SUBSET Socket]
      /\ Handout(m, S).to = S /\ (S # {} => Handout(m, S).msg = m)
  BY DEF Handout
<1> DEFINE h == Handout(m, S)
<1>2. /\ h \in [msg : Message \cup {Nil}, to : SUBSET Socket]
      /\ h.to # {} => h.msg \in Message
  BY <1>1
<1> HIDE DEF h
<1>3. sending' = [sending EXCEPT ![p] = h]
  BY DEF h
<1> QED
  BY <1>2, <1>3 DEF HubTypeOK, Handing

LEMMA ListenerTyped ==
  ASSUME HubTypeOK, Handing, NEW p \in Process, Listener(p) \/ Restart(p)
  PROVE  HubTypeOK' /\ Handing'
<1>1. CASE Deliver(p)
  <2> DEFINE to == {s \in sockets[p] : ChannelOf[s] = Head(inbox[p])[1]}
  <2>1. Head(inbox[p]) \in Message /\ Tail(inbox[p]) \in Seq(Message)
    BY <1>1, HeadTailProperties DEF Deliver, HubTypeOK
  <2>2. to \in SUBSET Socket
    BY DEF HubTypeOK
  <2>3. sending' = [sending EXCEPT ![p] = Handout(Head(inbox[p]), to)]
    BY <1>1 DEF Deliver
  <2> HIDE DEF to
  <2>4. /\ sending' \in [Process -> [msg : Message \cup {Nil}, to : SUBSET Socket]]
        /\ Handing'
    BY <2>1, <2>2, <2>3, HandoutTyped
  <2>5. TrafficTyped
    BY <1>1, <2>1, <2>4 DEF Deliver, HubTypeOK, TrafficTyped
  <2>6. SocketsTyped
    BY <1>1 DEF Deliver, HubTypeOK, SocketsTyped
  <2> QED
    BY <1>1, <2>5, <2>6, ClientStays, PresenceStays, TypedAgain DEF Deliver
<1>2. ASSUME NEW s \in Socket, Send(p, s) PROVE HubTypeOK' /\ Handing'
  <2> DEFINE m == sending[p].msg
             to == sending[p].to \ {s}
  <2>1. m \in Message
    BY <1>2 DEF Send, Handing
  <2>2. to \in SUBSET Socket
    BY DEF HubTypeOK
  <2>3. sending' = [sending EXCEPT ![p] = Handout(m, to)]
    BY <1>2 DEF Send, HubTypeOK
  <2> HIDE DEF to
  <2>4. /\ sending' \in [Process -> [msg : Message \cup {Nil}, to : SUBSET Socket]]
        /\ Handing'
    BY <2>1, <2>2, <2>3, HandoutTyped
  <2>5. TrafficTyped
    BY <1>2, <2>4 DEF Send, HubTypeOK, TrafficTyped
  <2>6. Append(got[s], m) \in Seq(Message)
    BY <2>1, AppendProperties DEF HubTypeOK
  <2>7. ClientTyped
    <3>1. got' = got \/ got' = [got EXCEPT ![s] = Append(got[s], m)]
      BY <1>2 DEF Send
    <3> QED
      BY <1>2, <2>6, <3>1 DEF Send, HubTypeOK, ClientTyped
  <2>8. SocketsTyped
    BY <1>2 DEF Send, HubTypeOK, SocketsTyped
  <2> QED
    BY <1>2, <2>5, <2>7, <2>8, PresenceStays, TypedAgain DEF Send
<1>3. CASE ListenerFails(p)
  <2>1. TrafficTyped
    BY <1>3 DEF ListenerFails, HubTypeOK, Handing, TrafficTyped
  <2>2. SocketsTyped
    BY <1>3 DEF ListenerFails, HubTypeOK, SocketsTyped
  <2> QED
    BY <1>3, <2>1, <2>2, ClientStays, PresenceStays, TypedAgain DEF ListenerFails
<1>4. CASE Restart(p)
  <2>1. sending' = [sending EXCEPT ![p] = Handout(Nil, {})]
    BY <1>4 DEF Restart, Nothing
  <2>2. /\ sending' \in [Process -> [msg : Message \cup {Nil}, to : SUBSET Socket]]
        /\ Handing'
    BY <2>1, HandoutTyped
  <2>3. TrafficTyped
    BY <1>4, <2>2 DEF Restart, HubTypeOK, TrafficTyped
  <2>4. SocketsTyped
    BY <1>4 DEF Restart, HubTypeOK, SocketsTyped
  <2>5. ClientTyped
    BY <1>4, ClosedTyped DEF Restart, ClientTyped
  <2> QED
    BY <1>4, <2>3, <2>4, <2>5, PresenceStays, TypedAgain DEF Restart
<1>5. CASE Subscribe(p)
  <2>1. TrafficTyped
    BY <1>5 DEF Subscribe, HubTypeOK, Handing, TrafficTyped
  <2>2. SocketsTyped
    BY <1>5 DEF Subscribe, HubTypeOK, SocketsTyped
  <2>3. ClientTyped
    BY <1>5, LenPublished DEF Subscribe, HubTypeOK, ClientTyped
  <2> QED
    BY <1>5, <2>1, <2>2, <2>3, PresenceStays, TypedAgain DEF Subscribe
<1>6. CASE SubscribeFails(p)
  <2>1. TrafficTyped
    BY <1>6 DEF SubscribeFails, HubTypeOK, Handing, TrafficTyped
  <2>2. SocketsTyped
    BY <1>6 DEF SubscribeFails, HubTypeOK, SocketsTyped
  <2> QED
    BY <1>6, <2>1, <2>2, ClientStays, PresenceStays, TypedAgain DEF SubscribeFails
<1> QED
  BY <1>1, <1>2, <1>3, <1>4, <1>5, <1>6 DEF Listener

LEMMA TickTyped ==
  ASSUME HubTypeOK, Handing, HubTick
  PROVE  HubTypeOK' /\ Handing'
<1>1. \A x \in Age : x = TTL \/ x + 1 \in Age
  BY TTLAssumption DEF Age
<1>2. 0 \in Age /\ TTL \in Age
  BY TTLAssumption DEF Age
<1>3. PresenceTyped
  BY <1>1, <1>2 DEF HubTick, HubTypeOK, PresenceTyped
<1>4. SocketsTyped
  BY DEF HubTick, HubTypeOK, SocketsTyped
<1> QED
  BY <1>3, <1>4, TrafficStays, ClientStays, TypedAgain DEF HubTick

LEMMA HubTypedInit == HubInit => HubTypeOK /\ Handing
<1> SUFFICES ASSUME HubInit PROVE HubTypeOK /\ Handing
  OBVIOUS
<1>1. TTL \in Age /\ << >> \in Seq(Message)
  BY TTLAssumption DEF Age
<1>2. sending = [p \in Process |-> [msg |-> Nil, to |-> {}]]
  BY DEF HubInit, Nothing, Handout
<1>3. Handing
  BY <1>2 DEF Handing
<1>4. sending \in [Process -> [msg : Message \cup {Nil}, to : SUBSET Socket]]
  BY <1>2
<1> QED
  BY <1>1, <1>3, <1>4 DEF HubInit, HubTypeOK

LEMMA HubTypedStep ==
  ASSUME HubTypeOK, Handing, [HubNext]_hubVars PROVE HubTypeOK' /\ Handing'
<1>1. CASE UNCHANGED hubVars
  BY <1>1 DEF hubVars, HubTypeOK, Handing
<1> QED
  BY <1>1, HandlerTyped, PublisherTyped, ListenerTyped, TickTyped DEF HubNext

\* The state of the hub is what its code makes it.
THEOREM HubTyped == HubSpec => []HubTypeOK
<1>1. HubInit => HubTypeOK /\ Handing
  BY HubTypedInit
<1>2. HubTypeOK /\ Handing /\ [HubNext]_hubVars => (HubTypeOK /\ Handing)'
  BY HubTypedStep
<1> QED
  BY <1>1, <1>2, PTL DEF HubSpec
-----------------------------------------------------------------------------
(* The hub: where sockets are                                              *)

\* A process knows, and hands out to, only sockets that have reached it and been
\* registered there, and knows every one that is open.
Reached(s) == sock[s] # "new" => at[s] \in Process
OnCase(s) == sock[s] \in {"registered", "forgetting"} => ChannelOf[s] \in Case
Quiet(s) == sock[s] \in {"new", "accepted"} => got[s] = << >>
Known(p, s) == /\ at[s] = p
               /\ sock[s] \notin {"new", "accepted"}
Enrolled(s) == sock[s] \in Open => s \in sockets[at[s]]
Placed ==
  /\ \A s \in Socket : Reached(s) /\ OnCase(s) /\ Quiet(s) /\ Enrolled(s)
  /\ \A p \in Process : \A s \in sockets[p] \cup sending[p].to : Known(p, s)
  /\ \A s \in Socket : joined[s] <= Len(published)

LEMMA HandlerPlaced ==
  ASSUME HubTypeOK, Placed, NEW s \in Socket, Handler(s)
  PROVE  Placed'
<1>1. Len(published) \in Nat /\ published' = published /\ sending' = sending
  BY LenPublished DEF Handler, Accept, Register, Enter, EnterFails, Ping, Leave, Unregister,
     Forget, traffic
<1> USE DEF HubTypeOK, Placed, Reached, OnCase, Quiet, Known, Enrolled, Open, traffic, client,
            presence
<1>2. ASSUME NEW p \in Process, Accept(s, p) PROVE Placed'
  BY <1>1, <1>2, NilAssumption DEF Accept
<1>3. CASE Register(s)
  <2> USE <1>3 DEF Register
  <2>1. at[s] \in Process /\ at' = at /\ got' = got
    OBVIOUS
  <2>2. \A q \in Process : sockets'[q] = IF q = at[s] THEN sockets[q] \cup {s}
                                         ELSE sockets[q]
    BY <2>1
  <2>3. \A t \in Socket \ {s} : sock'[t] = sock[t] /\ joined'[t] = joined[t]
    OBVIOUS
  <2>4. /\ sock'[s] \in {"in", "registered"} /\ joined'[s] = Len(published)
        /\ sock'[s] = "registered" => ChannelOf[s] \in Case
    <3>1. sock'[s] = IF ChannelOf[s] = Feed THEN "in" ELSE "registered"
      OBVIOUS
    <3>2. ChannelOf[s] \in Case \/ ChannelOf[s] = Feed
      BY ChannelAssumption DEF Channel
    <3>3. joined'[s] = Len(published)
      OBVIOUS
    <3> QED
      BY <3>1, <3>2, <3>3
  <2>5. \A t \in Socket : Reached(t)' /\ OnCase(t)' /\ Quiet(t)' /\ Enrolled(t)'
    BY <2>1, <2>2, <2>3, <2>4
  <2>6. \A q \in Process : \A t \in sockets'[q] \cup sending'[q].to : Known(q, t)'
    BY <1>1, <2>1, <2>2, <2>3, <2>4
  <2>7. \A t \in Socket : joined'[t] <= Len(published')
    BY <1>1, <2>3, <2>4
  <2> QED
    BY <2>5, <2>6, <2>7
<1>4. CASE Enter(s)
  BY <1>1, <1>4 DEF Enter
<1>5. CASE EnterFails(s)
  BY <1>1, <1>5 DEF EnterFails, Closed
<1>6. CASE Ping(s)
  BY <1>1, <1>6 DEF Ping
<1>7. CASE Leave(s)
  BY <1>1, <1>7 DEF Leave, Closed
<1>8. CASE Unregister(s)
  <2> USE <1>8 DEF Unregister
  <2>1. at[s] \in Process /\ UNCHANGED <<at, got, joined>>
    OBVIOUS
  <2>2. \A q \in Process : sockets'[q] = IF q = at[s] THEN sockets[q] \ {s}
                                         ELSE sockets[q]
    BY <2>1
  <2>3. \A t \in Socket \ {s} : sock'[t] = sock[t]
    OBVIOUS
  <2>4. /\ sock'[s] \in {"gone", "forgetting"}
        /\ sock'[s] = "forgetting" => ChannelOf[s] \in Case
    BY ChannelAssumption DEF Channel
  <2>5. \A t \in Socket : Reached(t)' /\ OnCase(t)' /\ Quiet(t)' /\ Enrolled(t)'
    BY <2>1, <2>2, <2>3, <2>4
  <2>6. \A q \in Process : \A t \in sockets'[q] \cup sending'[q].to : Known(q, t)'
    BY <1>1, <2>1, <2>2, <2>3, <2>4
  <2> QED
    BY <1>1, <2>1, <2>5, <2>6
<1>9. CASE Forget(s)
  BY <1>1, <1>9 DEF Forget
<1> QED
  BY <1>2, <1>3, <1>4, <1>5, <1>6, <1>7, <1>8, <1>9 DEF Handler

LEMMA PublisherPlaced ==
  ASSUME HubTypeOK, Placed, NEW e \in Event, Publisher(e)
  PROVE  Placed'
<1>1. UNCHANGED <<at, sock, sockets, got, joined, sending>>
  BY DEF Publisher, PublishToCase, PublishToTenant, PublishFails, client
<1>2. Len(published') \in Nat /\ Len(published) <= Len(published')
  <2>1. ASSUME NEW c \in Channel, Publish(c, e)
        PROVE  Len(published') = Len(published) + 1
    <3>1. <<c, e>> \in Message
      BY DEF Message
    <3> QED
      BY <2>1, <3>1, AppendProperties DEF Publish, HubTypeOK
  <2>2. CaseOf[e] \in Channel /\ Feed \in Channel
    BY CaseAssumption DEF Channel
  <2>3. published' = published \/ Len(published') = Len(published) + 1
    BY <2>1, <2>2 DEF Publisher, PublishToCase, PublishToTenant, PublishFails
  <2> QED
    BY <2>3, LenPublished
<1>3. \A s \in Socket : joined'[s] <= Len(published')
  BY <1>1, <1>2, LenPublished DEF HubTypeOK, Placed
<1> QED
  BY <1>1, <1>3 DEF Placed, Reached, OnCase, Quiet, Known, Enrolled

\* Sending takes sockets out of the delivery that is under way.
LEMMA SendShape ==
  ASSUME HubTypeOK, NEW p \in Process, NEW s \in Socket, Send(p, s)
  PROVE  /\ sending'[p].to = sending[p].to \ {s}
         /\ sending'[p].to # {} => sending'[p].msg = sending[p].msg
         /\ \A q \in Process \ {p} : sending'[q] = sending[q]
<1> DEFINE h == Handout(sending[p].msg, sending[p].to \ {s})
<1>1. h.to = sending[p].to \ {s} /\ (h.to # {} => h.msg = sending[p].msg)
  BY DEF Handout
<1>2. sending' = [sending EXCEPT ![p] = h]
  BY DEF Send, HubTypeOK
<1> HIDE DEF h
<1> QED
  BY <1>1, <1>2 DEF HubTypeOK

\* A delivery begins with every socket the listener knows on the channel.
LEMMA DeliverShape ==
  ASSUME HubTypeOK, NEW p \in Process, Deliver(p)
  PROVE  /\ sending'[p].to = {s \in sockets[p] : ChannelOf[s] = Head(inbox[p])[1]}
         /\ sending'[p].to # {} => sending'[p].msg = Head(inbox[p])
         /\ \A q \in Process \ {p} : sending'[q] = sending[q]
<1> DEFINE to == {s \in sockets[p] : ChannelOf[s] = Head(inbox[p])[1]}
           h == Handout(Head(inbox[p]), to)
<1>1. h.to = to /\ (h.to # {} => h.msg = Head(inbox[p]))
  BY DEF Handout
<1>2. sending' = [sending EXCEPT ![p] = h]
  BY DEF Deliver
<1> HIDE DEF h
<1> QED
  BY <1>1, <1>2 DEF HubTypeOK

LEMMA ListenerPlaced ==
  ASSUME HubTypeOK, Placed, NEW p \in Process, Listener(p) \/ Restart(p)
  PROVE  Placed'
<1>1. CASE Deliver(p)
  <2>1. \A q \in Process : sending'[q].to \subseteq sockets[q] \cup sending[q].to
    BY <1>1, DeliverShape
  <2>2. UNCHANGED <<at, sock, sockets, got, joined, published>>
    BY <1>1 DEF Deliver, client
  <2> QED
    BY <2>1, <2>2 DEF Placed, Reached, OnCase, Quiet, Known, Enrolled
<1>2. ASSUME NEW s \in Socket, Send(p, s) PROVE Placed'
  <2>1. \A q \in Process : sending'[q].to \subseteq sending[q].to
    BY <1>2, SendShape
  <2>2. UNCHANGED <<at, sock, sockets, joined, published>>
    BY <1>2 DEF Send
  <2>3. got' = got \/ (/\ sock[s] \in Open
                       /\ got' = [got EXCEPT ![s] = Append(got[s], sending[p].msg)])
    BY <1>2 DEF Send
  <2>4. \A t \in Socket : Quiet(t) => Quiet(t)'
    BY <2>2, <2>3 DEF Quiet, Open, HubTypeOK
  <2> QED
    BY <2>1, <2>2, <2>4 DEF Placed, Reached, OnCase, Known, Enrolled
<1>3. CASE ListenerFails(p)
  BY <1>3 DEF ListenerFails, client, Placed, Reached, OnCase, Quiet, Known, Enrolled
<1>4. CASE Restart(p)
  <2>1. sending' = [sending EXCEPT ![p] = Nothing] /\ Nothing.to = {}
    BY <1>4 DEF Restart, Nothing, Handout
  <2>2. \A q \in Process : IF q = p THEN sending'[q].to = {} /\ sockets'[q] = {}
                           ELSE sending'[q] = sending[q] /\ sockets'[q] = sockets[q]
    BY <1>4, <2>1 DEF Restart, HubTypeOK
  <2>3. \A s \in Socket : /\ at'[s] = at[s]
                          /\ at[s] = p => sock'[s] = "gone" /\ joined'[s] = 0
                          /\ at[s] # p => /\ sock'[s] = sock[s] /\ got'[s] = got[s]
                                          /\ joined'[s] = joined[s]
    BY <1>4 DEF Restart, Closed, HubTypeOK
  <2>4. published' = published
    BY <1>4 DEF Restart
  <2>5. ASSUME NEW s \in Socket
        PROVE  /\ Reached(s)' /\ OnCase(s)' /\ Quiet(s)' /\ Enrolled(s)'
               /\ joined'[s] <= Len(published')
    <3>1. CASE at[s] = p
      BY <2>3, <2>4, <3>1, LenPublished DEF Reached, OnCase, Quiet, Enrolled, Open
    <3>2. CASE at[s] # p
      <4>1. /\ sock'[s] = sock[s] /\ got'[s] = got[s] /\ joined'[s] = joined[s]
            /\ at'[s] = at[s]
        BY <2>3, <3>2
      <4>2. Reached(s) /\ OnCase(s) /\ Quiet(s) /\ Enrolled(s) /\ joined[s] <= Len(published)
        BY DEF Placed
      <4>3. sock[s] \in Open => at[s] \in Process /\ sockets'[at[s]] = sockets[at[s]]
        BY <2>2, <3>2, <4>2 DEF Reached, Open
      <4> QED
        BY <2>4, <4>1, <4>2, <4>3 DEF Reached, OnCase, Quiet, Enrolled
    <3> QED
      BY <3>1, <3>2
  <2>6. \A q \in Process : \A s \in sockets'[q] \cup sending'[q].to : Known(q, s)'
    BY <2>2, <2>3 DEF Placed, Known, HubTypeOK
  <2> QED
    BY <2>5, <2>6 DEF Placed
<1>5. CASE Subscribe(p)
  <2>1. UNCHANGED <<at, sock, sockets, got, sending, published>>
    BY <1>5 DEF Subscribe
  <2>2. \A s \in Socket : joined'[s] = joined[s] \/ joined'[s] = Len(published)
    BY <1>5 DEF Subscribe
  <2>3. \A s \in Socket : joined'[s] <= Len(published')
    BY <2>1, <2>2, LenPublished DEF Placed
  <2> QED
    BY <2>1, <2>3 DEF Placed, Reached, OnCase, Quiet, Known, Enrolled
<1>6. CASE SubscribeFails(p)
  BY <1>6 DEF SubscribeFails, client, Placed, Reached, OnCase, Quiet, Known, Enrolled
<1> QED
  BY <1>1, <1>2, <1>3, <1>4, <1>5, <1>6 DEF Listener

LEMMA PlacedInit == HubInit => Placed
<1> SUFFICES ASSUME HubInit PROVE Placed
  OBVIOUS
<1>1. \A p \in Process : sockets[p] = {} /\ sending[p].to = {}
  BY DEF HubInit, Nothing, Handout
<1>2. Len(published) = 0
  BY DEF HubInit
<1> QED
  BY <1>1, <1>2 DEF HubInit, Placed, Reached, OnCase, Quiet, Known, Enrolled, Open

LEMMA PlacedStep ==
  ASSUME HubTypeOK, Placed, [HubNext]_hubVars PROVE Placed'
<1>1. CASE UNCHANGED hubVars
  BY <1>1 DEF hubVars, Placed, Reached, OnCase, Quiet, Known, Enrolled
<1>2. CASE HubTick
  BY <1>2 DEF HubTick, client, traffic, Placed, Reached, OnCase, Quiet, Known, Enrolled
<1> QED
  BY <1>1, <1>2, HandlerPlaced, PublisherPlaced, ListenerPlaced DEF HubNext
-----------------------------------------------------------------------------
(* The hub: presence                                                       *)

\* A member's score is no younger than the last time it had a tab on the case.
Watched(c, u) == /\ score[c][u] # Nil => away[c][u] <= score[c][u]
                 /\ Present(c, u) => away[c][u] = 0
PresenceHolds == \A c \in Case : \A u \in Person : Watched(c, u)

LEMMA AgesOf ==
  ASSUME HubTypeOK, NEW c \in Case, NEW u \in Person
  PROVE  /\ away[c][u] \in Nat /\ away[c][u] <= TTL
         /\ score[c][u] # Nil => score[c][u] \in Nat /\ score[c][u] <= TTL
BY TTLAssumption DEF HubTypeOK, Age

LEMMA WatchedStays ==
  ASSUME PresenceHolds, UNCHANGED presence,
         \A c \in Case : \A u \in Person : Present(c, u)' => Present(c, u)
  PROVE  PresenceHolds'
BY DEF PresenceHolds, Watched, presence

\* The sockets that are open are no more, so no more people are present.
LEMMA FewerPresent ==
  ASSUME NEW c, NEW u, \A s \in Socket : sock'[s] \in Open => sock[s] \in Open, Present(c, u)'
  PROVE  Present(c, u)
BY DEF Present

LEMMA HandlerWatched ==
  ASSUME HubTypeOK, Placed, PresenceHolds, NEW s \in Socket, Handler(s)
  PROVE  PresenceHolds'
<1> DEFINE c0 == ChannelOf[s]
           u0 == UserOf[s]
<1>1. u0 \in Person
  BY SomePerson
<1>2. ASSUME UNCHANGED presence, \A t \in Socket : sock'[t] \in Open => sock[t] \in Open
      PROVE  PresenceHolds'
  BY <1>2, WatchedStays, FewerPresent
<1>3. ASSUME Touched(s), away' = away, sock[s] \in Open, c0 \in Case,
             \A t \in Socket : sock'[t] \in Open => sock[t] \in Open
      PROVE  PresenceHolds'
  <2>1. Present(c0, u0)
    BY <1>3 DEF Present
  <2>2. away[c0][u0] = 0
    BY <1>1, <1>3, <2>1 DEF PresenceHolds, Watched
  <2>3. ASSUME NEW c \in Case, NEW u \in Person
        PROVE  score'[c][u] = IF c = c0 /\ u = u0 THEN 0 ELSE score[c][u]
    BY <1>3 DEF Touched, HubTypeOK
  <2> QED
    BY <1>3, <2>2, <2>3, FewerPresent DEF PresenceHolds, Watched
<1>4. ASSUME NEW p \in Process, Accept(s, p) PROVE PresenceHolds'
  BY <1>2, <1>4 DEF Accept, HubTypeOK, Open
<1>5. CASE Register(s)
  <2>1. ASSUME NEW c \in Case, NEW u \in Person
        PROVE  away'[c][u] = IF c = c0 /\ u = u0 THEN 0 ELSE away[c][u]
    BY <1>5 DEF Register, Returned, HubTypeOK
  <2>2. ASSUME NEW c \in Case, NEW u \in Person, Present(c, u)'
        PROVE  Present(c, u) \/ (c = c0 /\ u = u0)
    <3>1. \A t \in Socket \ {s} : sock'[t] = sock[t]
      BY <1>5 DEF Register, HubTypeOK
    <3> QED
      BY <2>2, <3>1 DEF Present
  <2>3. ASSUME NEW c \in Case, NEW u \in Person PROVE Watched(c, u)'
    <3>1. Watched(c, u) /\ score'[c][u] = score[c][u]
      BY <1>5 DEF Register, PresenceHolds
    <3>2. CASE c = c0 /\ u = u0
      BY <2>1, <3>1, <3>2, AgesOf DEF Watched
    <3>3. CASE ~ (c = c0 /\ u = u0)
      BY <2>1, <2>2, <3>1, <3>3 DEF Watched
    <3> QED
      BY <3>2, <3>3
  <2> QED
    BY <2>3 DEF PresenceHolds
<1>6. CASE Enter(s)
  <2>1. c0 \in Case
    BY <1>6 DEF Enter, Placed, OnCase
  <2> QED
    BY <1>3, <1>6, <2>1 DEF Enter, Open, HubTypeOK
<1>7. CASE EnterFails(s)
  <2>1. c0 \in Case /\ away' = away
    BY <1>7 DEF EnterFails, Placed, OnCase
  <2>2. sock[s] \in Open /\ \A t \in Socket : sock'[t] \in Open => sock[t] \in Open
    BY <1>7 DEF EnterFails, HubTypeOK, Open
  <2>3. CASE Touched(s)
    BY <1>3, <2>1, <2>2, <2>3
  <2>4. CASE UNCHANGED score
    BY <1>2, <2>1, <2>2, <2>4 DEF presence
  <2> QED
    BY <1>7, <2>3, <2>4 DEF EnterFails
<1>8. CASE Ping(s)
  BY <1>3, <1>8 DEF Ping, Open
<1>9. CASE Leave(s)
  BY <1>2, <1>9 DEF Leave, HubTypeOK, Open
<1>10. CASE Unregister(s)
  BY <1>2, <1>10 DEF Unregister, HubTypeOK, Open
<1>11. CASE Forget(s)
  <2>1. ASSUME NEW c \in Case, NEW u \in Person
        PROVE  score'[c][u] = score[c][u] \/ score'[c][u] = Nil
    <3>1. score' = score \/ score' = [score EXCEPT ![c0][u0] = Nil]
      BY <1>11 DEF Forget
    <3>2. CASE score' = score
      BY <3>2
    <3>3. CASE score' = [score EXCEPT ![c0][u0] = Nil]
      <4>1. score'[c] = IF c = c0 THEN [score[c0] EXCEPT ![u0] = Nil] ELSE score[c]
        BY <3>3 DEF HubTypeOK
      <4>2. score[c] \in [Person -> Age \cup {Nil}]
        BY DEF HubTypeOK
      <4> QED
        BY <4>1, <4>2
    <3> QED
      BY <3>1, <3>2, <3>3
  <2>2. \A t \in Socket : sock'[t] \in Open => sock[t] \in Open
    BY <1>11 DEF Forget, HubTypeOK, Open
  <2>3. away' = away
    BY <1>11 DEF Forget
  <2> QED
    BY <2>1, <2>2, <2>3, FewerPresent DEF PresenceHolds, Watched
<1> QED
  BY <1>4, <1>5, <1>6, <1>7, <1>8, <1>9, <1>10, <1>11 DEF Handler

LEMMA TickWatched ==
  ASSUME HubTypeOK, PresenceHolds, HubTick
  PROVE  PresenceHolds'
<1> SUFFICES ASSUME NEW c \in Case, NEW u \in Person PROVE Watched(c, u)'
  BY DEF PresenceHolds
<1>1. Present(c, u)' <=> Present(c, u)
  BY DEF HubTick, Present
<1>2. /\ score'[c][u] = IF score[c][u] = Nil \/ score[c][u] = TTL THEN score[c][u]
                        ELSE score[c][u] + 1
      /\ away'[c][u] = IF Present(c, u) THEN 0
                       ELSE IF away[c][u] = TTL THEN TTL ELSE away[c][u] + 1
  BY DEF HubTick
<1>3. Watched(c, u)
  BY DEF PresenceHolds
<1>4. /\ away[c][u] \in Nat /\ away[c][u] <= TTL /\ TTL \in Nat
      /\ score[c][u] # Nil => score[c][u] \in Nat /\ score[c][u] <= TTL
  BY AgesOf, TTLAssumption
<1>5. CASE Present(c, u)
  <2>1. away'[c][u] = 0
    BY <1>2, <1>5
  <2> QED
    BY <1>2, <1>4, <2>1 DEF Watched
<1>6. CASE ~ Present(c, u)
  BY <1>1, <1>2, <1>3, <1>4, <1>6 DEF Watched
<1> QED
  BY <1>5, <1>6

LEMMA PresenceStep ==
  ASSUME HubTypeOK, Placed, PresenceHolds, [HubNext]_hubVars
  PROVE  PresenceHolds'
<1>1. CASE UNCHANGED hubVars
  BY <1>1 DEF hubVars, PresenceHolds, Watched, Present
<1>2. ASSUME NEW e \in Event, Publisher(e) PROVE PresenceHolds'
  <2>1. UNCHANGED <<sock, presence>>
    BY <1>2 DEF Publisher, PublishToCase, PublishToTenant, PublishFails
  <2> QED
    BY <2>1, WatchedStays, FewerPresent
<1>3. ASSUME NEW p \in Process, Listener(p) PROVE PresenceHolds'
  <2>1. UNCHANGED <<sock, presence>>
    BY <1>3 DEF Listener, Subscribe, SubscribeFails, Deliver, Send, ListenerFails
  <2> QED
    BY <2>1, WatchedStays, FewerPresent
<1>4. ASSUME NEW p \in Process, Restart(p) PROVE PresenceHolds'
  <2>1. \A s \in Socket : sock'[s] \in Open => sock[s] \in Open
    BY <1>4 DEF Restart, Open
  <2>2. UNCHANGED presence
    BY <1>4 DEF Restart
  <2> QED
    BY <2>1, <2>2, WatchedStays, FewerPresent
<1> QED
  BY <1>1, <1>2, <1>3, <1>4, HandlerWatched, TickWatched DEF HubNext

LEMMA PresenceInit == HubInit => PresenceHolds
BY DEF HubInit, PresenceHolds, Watched, Present, Open

\* Whoever is shown on a case had a tab open on it less than a TTL ago, whatever
\* sockets come and go, and whichever calls to Redis fail (_touch_presence,
\* get_active_viewers).
THEOREM ViewersThere == HubSpec => []ViewersWereThere
<1> DEFINE Inv == HubTypeOK /\ Handing /\ Placed /\ PresenceHolds
<1>1. HubInit => Inv
  BY HubTypedInit, PlacedInit, PresenceInit
<1>2. Inv /\ [HubNext]_hubVars => Inv'
  BY HubTypedStep, PlacedStep, PresenceStep
<1>3. Inv => ViewersWereThere
  <2> SUFFICES ASSUME Inv, NEW c \in Case, NEW u \in Viewers(c) PROVE away[c][u] < TTL
    BY DEF ViewersWereThere
  <2>1. u \in Person /\ score[c][u] # Nil /\ score[c][u] < TTL
    BY DEF Viewers
  <2>2. away[c][u] <= score[c][u]
    BY <2>1 DEF PresenceHolds, Watched
  <2>3. score[c][u] \in Nat /\ away[c][u] \in Nat
    BY <2>1, AgesOf
  <2> QED
    BY <2>1, <2>2, <2>3, TTLAssumption
<1> QED
  BY <1>1, <1>2, <1>3, PTL DEF HubSpec
-----------------------------------------------------------------------------
(* The hub: what a socket is sent                                          *)

\* What a socket is being sent, and what its channel has carried since it came.
Now(s) == IF s \in sending[at[s]].to THEN <<sending[at[s]].msg>> ELSE << >>
Coming(s) == OnChannel(inbox[at[s]], ChannelOf[s])
Since(s) == SubSeq(published, joined[s] + 1, Len(published))
Due(s) == OnChannel(Since(s), ChannelOf[s])
Served(s) == sock[s] \in Open /\ at[s] \in listening
Whole(s) == Served(s) => IsSuffix(Due(s), Stream(s))

LEMMA StreamParts == ASSUME NEW s PROVE Stream(s) = got[s] \o Now(s) \o Coming(s)
BY DEF Stream, Now, Coming

LEMMA WholeIsAll == NoMessageLost <=> \A s \in Socket : Whole(s)
BY DEF NoMessageLost, Whole, Served, Due, Since

LEMMA PartsTyped ==
  ASSUME HubTypeOK, Handing, NEW s \in Socket, at[s] \in Process
  PROVE  /\ got[s] \in Seq(Message) /\ Now(s) \in Seq(Message)
         /\ inbox[at[s]] \in Seq(Message) /\ Coming(s) \in Seq(Message)
<1>1. inbox[at[s]] \in Seq(Message)
  BY DEF HubTypeOK
<1> DEFINE q == inbox[at[s]]
<1>2. q \in Seq(Message)
  BY <1>1
<1> HIDE DEF q
<1>3. OnChannel(q, ChannelOf[s]) \in Seq(Message)
  BY <1>2, OnChannelType
<1>4. Now(s) \in Seq(Message)
  BY DEF Now, Handing
<1> QED
  BY <1>2, <1>3, <1>4 DEF HubTypeOK, Coming, q

LEMMA StreamTyped ==
  ASSUME HubTypeOK, Handing, NEW s \in Socket, at[s] \in Process
  PROVE  Stream(s) \in Seq(Message)
<1>1. got[s] \in Seq(Message) /\ Now(s) \in Seq(Message) /\ Coming(s) \in Seq(Message)
  BY PartsTyped
<1>2. got[s] \o Now(s) \in Seq(Message)
  BY <1>1, ConcatProperties
<1>3. got[s] \o Now(s) \o Coming(s) \in Seq(Message)
  BY <1>1, <1>2, ConcatProperties
<1> QED
  BY <1>3, StreamParts

LEMMA SinceTyped ==
  ASSUME HubTypeOK, NEW s \in Socket
  PROVE  Since(s) \in Seq(Message) /\ Due(s) \in Seq(Message)
<1>1. joined[s] + 1 \in Int /\ Len(published) \in Int
  BY LenPublished DEF HubTypeOK
<1>2. \A i \in (joined[s] + 1)..Len(published) : published[i] \in Message
  BY LenPublished, ElementOfSeq DEF HubTypeOK
<1>3. Since(s) \in Seq(Message)
  BY <1>1, <1>2, SubSeqProperties DEF Since
<1> DEFINE q == Since(s)
<1>4. q \in Seq(Message)
  BY <1>3
<1> HIDE DEF q
<1>5. OnChannel(q, ChannelOf[s]) \in Seq(Message)
  BY <1>4, OnChannelType
<1> QED
  BY <1>4, <1>5 DEF Due, q

\* Nothing that is still due to a socket served before and after has changed.
Same(s) == Served(s)' => /\ Served(s) /\ joined'[s] = joined[s]
                         /\ Stream(s)' = Stream(s)

LEMMA StreamStays ==
  ASSUME NEW s \in Socket, at'[s] = at[s], got'[s] = got[s],
         inbox'[at[s]] = inbox[at[s]], sending'[at[s]] = sending[at[s]]
  PROVE  Stream(s)' = Stream(s)
<1>1. Now(s)' = Now(s) /\ Coming(s)' = Coming(s)
  BY DEF Now, Coming
<1> QED
  BY <1>1, StreamParts DEF Stream

\* What a socket sees of the other processes' business, and of its own's.
LEMMA UndisturbedSame ==
  ASSUME NEW s \in Socket, Served(s)' => Served(s),
         Served(s)' => /\ at'[s] = at[s] /\ got'[s] = got[s] /\ joined'[s] = joined[s]
                       /\ inbox'[at[s]] = inbox[at[s]] /\ sending'[at[s]] = sending[at[s]]
  PROVE  Same(s)
BY StreamStays DEF Same

\* The handlers concern the newcomers only.
LEMMA HandlerSame ==
  ASSUME HubTypeOK, NEW t \in Socket, Handler(t), NEW s \in Socket,
         ~ (s = t /\ Register(t))
  PROVE  Same(s)
<1>1. UNCHANGED <<listening, published, inbox, sending>>
  BY DEF Handler, Accept, Register, Enter, EnterFails, Ping, Leave, Unregister, Forget,
     traffic
<1>2. ASSUME sock'[s] \in Open => /\ sock[s] \in Open /\ at'[s] = at[s]
                                  /\ got'[s] = got[s] /\ joined'[s] = joined[s]
      PROVE  Same(s)
  BY <1>1, <1>2, UndisturbedSame DEF Served
<1>3. ASSUME NEW p \in Process, Accept(t, p) PROVE Same(s)
  <2>1. CASE s = t
    <3>1. sock'[s] = "accepted"
      BY <1>3, <2>1 DEF Accept, HubTypeOK
    <3> QED
      BY <3>1 DEF Same, Served, Open
  <2>2. CASE s # t
    <3>1. at'[s] = at[s] /\ sock'[s] = sock[s] /\ got' = got /\ joined' = joined
      BY <1>3, <2>2 DEF Accept, client
    <3> QED
      BY <1>2, <3>1
  <2> QED
    BY <2>1, <2>2
<1>4. CASE Register(t)
  <2>1. /\ at'[s] = at[s] /\ sock'[s] = sock[s] /\ got' = got
        /\ joined'[s] = joined[s]
    BY <1>4 DEF Register
  <2> QED
    BY <1>2, <2>1
<1>5. CASE Enter(t)
  BY <1>2, <1>5 DEF Enter, client, Open, HubTypeOK
<1>6. CASE EnterFails(t)
  <2>1. at' = at
    BY <1>6 DEF EnterFails
  <2>2. sock'[s] \in Open => s # t /\ sock[s] \in Open
    BY <1>6 DEF EnterFails, HubTypeOK, Open
  <2>3. s # t => got'[s] = got[s] /\ joined'[s] = joined[s]
    BY <1>6 DEF EnterFails, Closed
  <2> QED
    BY <1>2, <2>1, <2>2, <2>3
<1>7. CASE Ping(t)
  BY <1>2, <1>7 DEF Ping, client
<1>8. CASE Leave(t)
  <2>1. at' = at
    BY <1>8 DEF Leave
  <2>2. sock'[s] \in Open => s # t /\ sock[s] \in Open
    BY <1>8 DEF Leave, HubTypeOK, Open
  <2>3. s # t => got'[s] = got[s] /\ joined'[s] = joined[s]
    BY <1>8 DEF Leave, Closed
  <2> QED
    BY <1>2, <2>1, <2>2, <2>3
<1>9. CASE Unregister(t)
  BY <1>2, <1>9 DEF Unregister, client, Open, HubTypeOK
<1>10. CASE Forget(t)
  BY <1>2, <1>10 DEF Forget, client, Open, HubTypeOK
<1> QED
  BY <1>3, <1>4, <1>5, <1>6, <1>7, <1>8, <1>9, <1>10 DEF Handler

\* A message published reaches, at once, the buffer of every live listener, and
\* with it the stream of each socket on its channel.
LEMMA PublishStream ==
  ASSUME HubTypeOK, Handing, NEW c \in Channel, NEW e \in Event, Publish(c, e),
         UNCHANGED <<at, got, sending>>,
         NEW s \in Socket, at[s] \in Process, at[s] \in listening
  PROVE  Stream(s)' = IF c = ChannelOf[s] THEN Append(Stream(s), <<c, e>>) ELSE Stream(s)
<1> DEFINE m == <<c, e>>
           ch == ChannelOf[s]
           q == inbox[at[s]]
<1>1. m \in Message /\ m[1] = c
  BY DEF Message
<1>2. /\ q \in Seq(Message)
      /\ got[s] \in Seq(Message) /\ Now(s) \in Seq(Message) /\ Coming(s) \in Seq(Message)
  BY PartsTyped
<1>3. inbox'[at[s]] = Append(q, m)
  BY DEF Publish
<1> HIDE DEF m, q
<1>4. Coming(s)' = IF c = ch THEN Append(Coming(s), m) ELSE Coming(s)
  <2>1. OnChannel(Append(q, m), ch)
          = IF m[1] = ch THEN Append(OnChannel(q, ch), m) ELSE OnChannel(q, ch)
    BY <1>1, <1>2, OnChannelAppend
  <2>2. Coming(s)' = OnChannel(Append(q, m), ch) /\ Coming(s) = OnChannel(q, ch)
    BY <1>3 DEF Coming, q
  <2> QED
    BY <1>1, <2>1, <2>2
<1>5. got'[s] = got[s] /\ Now(s)' = Now(s)
  BY DEF Now
<1>6. Stream(s)' = got'[s] \o Now(s)' \o Coming(s)'
  BY DEF Stream, Now, Coming
<1>7. CASE c = ch
  <2> DEFINE a == got[s] \o Now(s)
             b == Coming(s)
  <2>1. a \in Seq(Message) /\ b \in Seq(Message)
    BY <1>2, ConcatProperties
  <2>2. Stream(s)' = a \o Append(b, m) /\ Stream(s) = a \o b
    BY <1>4, <1>5, <1>6, <1>7, StreamParts
  <2> HIDE DEF a, b
  <2>3. <<m>> \in Seq(Message) /\ a \o b \in Seq(Message)
    BY <1>1, <2>1, ConcatProperties
  <2>4. Append(a \o b, m) = (a \o b) \o <<m>> /\ Append(b, m) = b \o <<m>>
    BY <1>1, <2>1, <2>3, AppendIsConcat
  <2>5. Append(a \o b, m) = a \o Append(b, m)
    BY <2>1, <2>3, <2>4, ConcatAssociative
  <2> QED
    BY <1>7, <2>2, <2>5 DEF m
<1>8. CASE c # ch
  BY <1>4, <1>5, <1>6, <1>8, StreamParts
<1> QED
  BY <1>7, <1>8

\* A delivery moves the first message from the buffer to the hands of the
\* listener, for whom it is meant.
LEMMA DeliverStream ==
  ASSUME HubTypeOK, Placed, NEW p \in Process, Deliver(p),
         NEW s \in Socket, at[s] = p, Served(s)
  PROVE  Stream(s)' = Stream(s)
<1>1. UNCHANGED <<at, sock, sockets, got, joined, listening, published>>
  BY DEF Deliver, client
<1> DEFINE q == inbox[p]
           ch == ChannelOf[s]
           m == Head(q)
<1>3. q \in Seq(Message) /\ q # << >>
  BY DEF Deliver, HubTypeOK
<1>4. s \in sockets[p] /\ s \notin sending[p].to
  BY DEF Deliver, Placed, Enrolled, Served
<1>5. s \in sending'[p].to <=> m[1] = ch
  BY <1>4, DeliverShape
<1>6. s \in sending'[p].to => sending'[p].msg = m
  BY DeliverShape
<1>7. Now(s) = << >> /\ Now(s)' = First(q, ch)
  BY <1>1, <1>4, <1>5, <1>6 DEF Now, First
<1>8. Coming(s)' = OnChannel(Tail(q), ch) /\ Coming(s) = OnChannel(q, ch)
  BY <1>1 DEF Deliver, Coming, HubTypeOK
<1> HIDE DEF q, m
<1>9. OnChannel(q, ch) = First(q, ch) \o OnChannel(Tail(q), ch)
  BY <1>3, OnChannelHead
<1>10. got[s] \in Seq(Message) /\ First(q, ch) \in Seq(Message)
       /\ OnChannel(Tail(q), ch) \in Seq(Message)
  <2>1. Head(q) \in Message /\ Tail(q) \in Seq(Message)
    BY <1>3, HeadTailProperties
  <2>2. OnChannel(Tail(q), ch) \in Seq(Message)
    BY <2>1, OnChannelType
  <2>3. <<Head(q)>> \in Seq(Message) /\ << >> \in Seq(Message)
    BY <2>1
  <2> QED
    BY <2>2, <2>3 DEF First, HubTypeOK
<1>11. Stream(s)' = got[s] \o First(q, ch) \o OnChannel(Tail(q), ch)
  <2>1. Stream(s)' = got'[s] \o Now(s)' \o Coming(s)'
    BY DEF Stream, Now, Coming
  <2> QED
    BY <1>1, <1>7, <1>8, <2>1
<1>12. Stream(s) = got[s] \o (First(q, ch) \o OnChannel(Tail(q), ch))
  <2>1. Stream(s) = got[s] \o << >> \o OnChannel(q, ch)
    BY <1>7, <1>8, StreamParts
  <2>2. got[s] \o << >> = got[s]
    BY <1>10, ConcatEmptySeq
  <2> QED
    BY <1>9, <2>1, <2>2
<1> DEFINE f == First(q, ch)
           k == OnChannel(Tail(q), ch)
           g == got[s]
<1>13. g \in Seq(Message) /\ f \in Seq(Message) /\ k \in Seq(Message)
  BY <1>10
<1>14. Stream(s)' = (g \o f) \o k /\ Stream(s) = g \o (f \o k)
  BY <1>11, <1>12
<1> HIDE DEF f, k, g
<1>15. (g \o f) \o k = g \o (f \o k)
  <2>1. ASSUME NEW x \in Seq(Message), NEW y \in Seq(Message), NEW z \in Seq(Message)
        PROVE  (x \o y) \o z = x \o (y \o z)
    BY ConcatAssociative
  <2> QED
    BY <1>13, <2>1
<1> QED
  BY <1>14, <1>15

\* A send moves it on to the socket; the others still wait for it.
LEMMA SendStream ==
  ASSUME HubTypeOK, Handing, NEW p \in Process, NEW t \in Socket,
         Send(p, t), NEW s \in Socket, at[s] = p, Served(s)
  PROVE  Stream(s)' = Stream(s)
<1>1. UNCHANGED <<at, sock, joined, listening, published, inbox>>
  BY DEF Send
<1>3. Coming(s)' = Coming(s)
  BY <1>1 DEF Coming
<1>4. Stream(s)' = got'[s] \o Now(s)' \o Coming(s)
  <2>1. Stream(s)' = got'[s] \o Now(s)' \o Coming(s)'
    BY DEF Stream, Now, Coming
  <2> QED
    BY <1>3, <2>1
<1>5. ASSUME s = t PROVE Stream(s)' = Stream(s)
  <2> DEFINE m == sending[p].msg
  <2>1. s \in sending[p].to /\ s \notin sending'[p].to
    <3>1. Send(p, s)
      BY <1>5
    <3> QED
      <4>1. s \in sending[p].to
        BY <3>1 DEF Send
      <4>2. sending'[p].to = sending[p].to \ {s}
        BY <3>1, SendShape
      <4> QED
        BY <4>1, <4>2
  <2>2. Now(s) = <<m>> /\ Now(s)' = << >>
    BY <1>1, <2>1 DEF Now
  <2>3. m \in Message
    BY <2>1 DEF Handing
  <2>4. got'[s] = Append(got[s], m) /\ got[s] \in Seq(Message)
    BY <1>5 DEF Send, Served, HubTypeOK
  <2> HIDE DEF m
  <2>5. Append(got[s], m) = got[s] \o <<m>> /\ Append(got[s], m) \in Seq(Message)
    BY <2>3, <2>4, AppendIsConcat, AppendProperties
  <2>6. Append(got[s], m) \o << >> = Append(got[s], m)
    BY <2>5, ConcatEmptySeq
  <2> QED
    BY <1>4, <2>2, <2>4, <2>5, <2>6, StreamParts
<1>6. ASSUME s # t PROVE Stream(s)' = Stream(s)
  <2>1. got'[s] = got[s]
    BY <1>6 DEF Send
  <2>2. s \in sending'[p].to <=> s \in sending[p].to
    BY <1>6, SendShape
  <2>3. s \in sending'[p].to => sending'[p].msg = sending[p].msg
    BY SendShape
  <2>4. Now(s)' = Now(s)
    BY <1>1, <2>2, <2>3 DEF Now
  <2> QED
    BY <1>4, <2>1, <2>4, StreamParts
<1> QED
  BY <1>5, <1>6

\* Whatever another process does concerns none of this one's sockets.
LEMMA ElsewhereSame ==
  ASSUME HubTypeOK, Placed, NEW p \in Process, Listener(p) \/ Restart(p),
         NEW s \in Socket, at[s] # p
  PROVE  Same(s)
<1>1. at' = at
  BY DEF Listener, Subscribe, SubscribeFails, Deliver, Send, ListenerFails, Restart
<1> DEFINE Untouched == /\ inbox'[at[s]] = inbox[at[s]] /\ sending'[at[s]] = sending[at[s]]
                        /\ at[s] \in listening' => at[s] \in listening
                        /\ sock'[s] = sock[s] /\ got'[s] = got[s] /\ joined'[s] = joined[s]
<1>2. ASSUME Deliver(p) PROVE Untouched
  BY <1>2 DEF Deliver, client, HubTypeOK
<1>3. ASSUME NEW t \in Socket, Send(p, t) PROVE Untouched
  <2>1. t # s
    BY <1>3 DEF Send, Placed, Known
  <2> QED
    BY <1>3, <2>1 DEF Send, HubTypeOK
<1>4. ASSUME ListenerFails(p) PROVE Untouched
  BY <1>4 DEF ListenerFails, client, HubTypeOK
<1>5. ASSUME Restart(p) PROVE Untouched
  BY <1>5 DEF Restart, Closed, HubTypeOK
<1>6. ASSUME Subscribe(p) PROVE Untouched
  BY <1>6 DEF Subscribe
<1>7. ASSUME SubscribeFails(p) PROVE Untouched
  BY <1>7 DEF SubscribeFails, client
<1>8. Untouched
  BY <1>2, <1>3, <1>4, <1>5, <1>6, <1>7 DEF Listener
<1> QED
  BY <1>1, <1>8, UndisturbedSame DEF Served

LEMMA ListenerSame ==
  ASSUME HubTypeOK, Handing, Placed, NEW p \in Process, Listener(p) \/ Restart(p),
         NEW s \in Socket, ~ (at[s] = p /\ Subscribe(p))
  PROVE  Same(s)
<1>1. CASE at[s] # p
  BY <1>1, ElsewhereSame
<1>2. CASE at[s] = p
  <2>1. CASE Deliver(p)
    <3>1. UNCHANGED <<at, sock, joined, listening>>
      BY <2>1 DEF Deliver, client
    <3>2. Served(s) => Stream(s)' = Stream(s)
      BY <1>2, <2>1, DeliverStream
    <3> QED
      BY <3>1, <3>2 DEF Same, Served
  <2>2. ASSUME NEW t \in Socket, Send(p, t) PROVE Same(s)
    <3>1. UNCHANGED <<at, sock, joined, listening>>
      BY <2>2 DEF Send
    <3>2. Served(s) => Stream(s)' = Stream(s)
      BY <1>2, <2>2, SendStream
    <3> QED
      BY <3>1, <3>2 DEF Same, Served
  <2>3. CASE ListenerFails(p)
    BY <1>2, <2>3 DEF ListenerFails, Same, Served
  <2>4. CASE Restart(p)
    <3>1. sock'[s] = "gone"
      BY <1>2, <2>4 DEF Restart
    <3> QED
      BY <3>1 DEF Same, Served, Open
  <2>5. CASE SubscribeFails(p)
    <3>1. UNCHANGED <<at, sock, got, joined, listening, inbox, sending>>
      BY <2>5 DEF SubscribeFails, client
    <3> QED
      BY <3>1, UndisturbedSame DEF Served
  <2> QED
    BY <1>2, <2>1, <2>2, <2>3, <2>4, <2>5 DEF Listener
<1> QED
  BY <1>1, <1>2

\* Every other step leaves all of it alone.
LEMMA IdleSame ==
  ASSUME UNCHANGED <<at, sock, got, joined, listening, inbox, sending>>, NEW s \in Socket
  PROVE  Same(s)
BY UndisturbedSame DEF Served
-----------------------------------------------------------------------------
(* The hub: no message is lost                                             *)

LEMMA WholeStays ==
  ASSUME NEW s \in Socket, Whole(s), Same(s), published' = published
  PROVE  Whole(s)'
<1>1. Served(s)' => Due(s)' = Due(s)
  BY DEF Same, Due, Since
<1> QED
  BY <1>1 DEF Whole, Same

\* A socket just registered, or just subscribed for, claims what is published from
\* now on.
LEMMA NewcomerWhole ==
  ASSUME HubTypeOK', Handing', NEW s \in Socket, at'[s] \in Process,
         joined'[s] = Len(published')
  PROVE  Whole(s)'
<1>1. published' \in Seq(Message)
  BY DEF HubTypeOK
<1>2. SubSeq(published', Len(published') + 1, Len(published')) = << >>
  BY <1>1, SinceNow
<1>3. Since(s)' = << >>
  BY <1>2 DEF Since
<1>4. Due(s)' = << >>
  BY <1>3, OnChannelEmpty DEF Due
<1>5. Stream(s)' \in Seq(Message)
  <2>1. HubTypeOK /\ Handing /\ at[s] \in Process => Stream(s) \in Seq(Message)
    BY StreamTyped
  <2>2. (HubTypeOK /\ Handing /\ at[s] \in Process => Stream(s) \in Seq(Message))'
    BY StreamTyped, PTL
  <2> QED
    BY <2>2
<1>6. IsSuffix(<< >>, Stream(s)')
  BY <1>5, EmptySuffix
<1> QED
  BY <1>4, <1>6 DEF Whole

LEMMA HandlerWhole ==
  ASSUME HubTypeOK, Handing, Placed, NoMessageLost, HubTypeOK', Handing',
         NEW t \in Socket, Handler(t)
  PROVE  NoMessageLost'
<1>1. published' = published
  BY DEF Handler, Accept, Register, Enter, EnterFails, Ping, Leave, Unregister, Forget,
     traffic
<1>2. SUFFICES ASSUME NEW s \in Socket PROVE Whole(s)'
  BY DEF NoMessageLost, Whole, Served, Due, Since
<1>3. CASE s = t /\ Register(t)
  <2>1. joined'[s] = Len(published')
    BY <1>1, <1>3 DEF Register, HubTypeOK
  <2>2. at'[s] \in Process
    BY <1>3 DEF Register, Placed, Reached
  <2> QED
    BY <2>1, <2>2, NewcomerWhole
<1>4. CASE ~ (s = t /\ Register(t))
  <2>1. Same(s) /\ Whole(s)
    BY <1>4, HandlerSame, WholeIsAll
  <2> QED
    BY <1>1, <2>1, WholeStays
<1> QED
  BY <1>3, <1>4

\* The stream of a socket grows exactly when what it may claim grows.
LEMMA PublishWhole ==
  ASSUME HubTypeOK, Handing, Placed, NoMessageLost, NEW c \in Channel, NEW e \in Event,
         Publish(c, e), UNCHANGED <<at, sock, got, joined, listening, sending>>
  PROVE  NoMessageLost'
<1> DEFINE m == <<c, e>>
<1>1. SUFFICES ASSUME NEW s \in Socket, Served(s) PROVE Whole(s)'
  BY DEF NoMessageLost, Whole, Served, Due, Since
<1>2. Whole(s) /\ at[s] \in Process /\ at[s] \in listening
  BY <1>1, WholeIsAll DEF Served, Placed, Reached, Open
<1> DEFINE ch == ChannelOf[s]
           since == Since(s)
<1>3. m \in Message /\ m[1] = c
  BY DEF Message
<1>4. since \in Seq(Message) /\ Due(s) \in Seq(Message) /\ Stream(s) \in Seq(Message)
  BY <1>2, SinceTyped, StreamTyped
<1>5. Since(s)' = Append(since, m)
  <2> DEFINE p == published
             j == joined[s]
  <2>1. p \in Seq(Message) /\ j \in 0..Len(p)
    BY LenPublished DEF HubTypeOK, Placed
  <2>2. published' = Append(p, m) /\ joined'[s] = j
    BY DEF Publish
  <2> HIDE DEF p, j, m
  <2>3. SubSeq(Append(p, m), j + 1, Len(Append(p, m))) = Append(SubSeq(p, j + 1, Len(p)), m)
    BY <1>3, <2>1, SinceGrows
  <2> QED
    BY <2>2, <2>3 DEF Since, p, j
<1>6. Stream(s)' = IF c = ch THEN Append(Stream(s), m) ELSE Stream(s)
  BY <1>2, PublishStream
<1> HIDE DEF m, since
<1>7. Due(s)' = IF c = ch THEN Append(Due(s), m) ELSE Due(s)
  <2>1. OnChannel(Append(since, m), ch)
          = IF m[1] = ch THEN Append(OnChannel(since, ch), m) ELSE OnChannel(since, ch)
    BY <1>3, <1>4, OnChannelAppend
  <2>2. Due(s)' = OnChannel(Append(since, m), ch) /\ Due(s) = OnChannel(since, ch)
    BY <1>5 DEF Due, since
  <2> QED
    BY <1>3, <2>1, <2>2
<1>8. IsSuffix(Due(s), Stream(s))
  BY <1>1, <1>2 DEF Whole
<1>9. IsSuffix(Append(Due(s), m), Append(Stream(s), m))
  BY <1>3, <1>4, <1>8, SuffixGrows
<1> QED
  BY <1>6, <1>7, <1>8, <1>9 DEF Whole

LEMMA PublisherWhole ==
  ASSUME HubTypeOK, Handing, Placed, NoMessageLost, NEW e \in Event, Publisher(e)
  PROVE  NoMessageLost'
<1>1. UNCHANGED <<at, sock, got, joined, listening, sending>>
  BY DEF Publisher, PublishToCase, PublishToTenant, PublishFails, client
<1>2. CaseOf[e] \in Channel /\ Feed \in Channel
  BY CaseAssumption DEF Channel
<1>3. CASE PublishFails(e)
  <2>1. UNCHANGED <<published, inbox>>
    BY <1>3 DEF PublishFails
  <2> QED
    BY <1>1, <2>1 DEF NoMessageLost, Stream
<1>4. CASE PublishToCase(e)
  BY <1>1, <1>2, <1>4, PublishWhole DEF PublishToCase
<1>5. CASE PublishToTenant(e)
  BY <1>1, <1>2, <1>5, PublishWhole DEF PublishToTenant
<1> QED
  BY <1>3, <1>4, <1>5 DEF Publisher

LEMMA ListenerWhole ==
  ASSUME HubTypeOK, Handing, Placed, NoMessageLost, HubTypeOK', Handing',
         NEW p \in Process, Listener(p) \/ Restart(p)
  PROVE  NoMessageLost'
<1>1. published' = published
  BY DEF Listener, Subscribe, SubscribeFails, Deliver, Send, ListenerFails, Restart
<1>2. ASSUME NEW s \in Socket PROVE Whole(s)'
  <2>1. CASE at[s] = p /\ Subscribe(p)
    <3>1. CASE Served(s)'
      <4>1. joined'[s] = Len(published') /\ at'[s] \in Process
        BY <1>1, <2>1, <3>1 DEF Subscribe, Served
      <4> QED
        BY <4>1, NewcomerWhole
    <3>2. CASE ~ Served(s)'
      BY <3>2 DEF Whole
    <3> QED
      BY <3>1, <3>2
  <2>2. CASE ~ (at[s] = p /\ Subscribe(p))
    BY <1>1, <2>2, ListenerSame, WholeIsAll, WholeStays
  <2> QED
    BY <2>1, <2>2
<1> QED
  BY <1>2 DEF NoMessageLost, Whole, Served, Due, Since

LEMMA WholeStep ==
  ASSUME HubTypeOK, Handing, Placed, NoMessageLost, HubTypeOK', Handing',
         [HubNext]_hubVars
  PROVE  NoMessageLost'
<1>1. CASE UNCHANGED hubVars
  BY <1>1 DEF hubVars, NoMessageLost, Stream
<1>2. CASE HubTick
  <2>1. UNCHANGED <<at, sock, got, joined, listening, published, inbox, sending>>
    BY <1>2 DEF HubTick, client, traffic
  <2> QED
    BY <2>1 DEF NoMessageLost, Stream
<1> QED
  BY <1>1, <1>2, HandlerWhole, PublisherWhole, ListenerWhole DEF HubNext

LEMMA WholeInit == HubInit => NoMessageLost
BY DEF HubInit, NoMessageLost, Open

\* A connected socket of a process whose listener runs misses no message of its
\* channel published since it was registered and the listener subscribed, whichever
\* came later, and gets none twice or out of order (_listen, connect_case,
\* disconnect_case), however many sockets, processes and messages there are.
THEOREM NothingLost == HubSpec => []NoMessageLost
<1> DEFINE Inv == HubTypeOK /\ Handing /\ Placed /\ NoMessageLost
<1>1. HubInit => Inv
  BY HubTypedInit, PlacedInit, WholeInit
<1>2. Inv /\ [HubNext]_hubVars => Inv'
  BY HubTypedStep, PlacedStep, WholeStep
<1> QED
  BY <1>1, <1>2, PTL DEF HubSpec
-----------------------------------------------------------------------------
(* The hub: nothing else is sent                                           *)

\* What a channel has carried; it ends in what a socket is sent, and in what
\* waits for those that are not there yet.
Carried(c) == OnChannel(published, c)
Only(s) == Served(s) => IsSuffix(Stream(s), Carried(ChannelOf[s]))
Waits(p, c) == OnChannel(inbox[p], c)
Buffered == \A p \in listening : \A c \in Channel : IsSuffix(Waits(p, c), Carried(c))

\* Before it subscribes a process has nothing to hand out, and has sent nothing.
Fresh(p) == /\ inbox[p] = << >> /\ sending[p].to = {}
            /\ \A s \in Socket : at[s] = p => got[s] = << >>
StartsFresh == \A p \in starting : Fresh(p)

LEMMA OnlyIsAll == NothingElseSent <=> \A s \in Socket : Only(s)
BY DEF NothingElseSent, Only, Served, Carried

LEMMA CarriedTyped ==
  ASSUME HubTypeOK, NEW c
  PROVE  Carried(c) \in Seq(Message) /\ \A p \in Process : Waits(p, c) \in Seq(Message)
<1>1. published \in Seq(Message) /\ \A p \in Process : inbox[p] \in Seq(Message)
  BY DEF HubTypeOK
<1> QED
  BY <1>1, OnChannelType DEF Carried, Waits

LEMMA CarriedGrows ==
  ASSUME HubTypeOK, NEW c \in Channel, NEW e \in Event, Publish(c, e), NEW d
  PROVE  /\ Carried(d)' = IF c = d THEN Append(Carried(d), <<c, e>>) ELSE Carried(d)
         /\ \A p \in listening :
              Waits(p, d)' = IF c = d THEN Append(Waits(p, d), <<c, e>>) ELSE Waits(p, d)
<1> DEFINE m == <<c, e>>
<1>1. m \in Message /\ m[1] = c
  BY DEF Message
<1>2. published \in Seq(Message) /\ published' = Append(published, m)
      /\ \A p \in listening : inbox[p] \in Seq(Message) /\ inbox'[p] = Append(inbox[p], m)
  BY DEF Publish, HubTypeOK
<1> HIDE DEF m
<1>3. ASSUME NEW q \in Seq(Message)
      PROVE  OnChannel(Append(q, m), d)
               = IF c = d THEN Append(OnChannel(q, d), m) ELSE OnChannel(q, d)
  BY <1>1, OnChannelAppend
<1> QED
  BY <1>2, <1>3 DEF Carried, Waits, m

LEMMA BufferedStep ==
  ASSUME HubTypeOK, HubTypeOK', StartsFresh, Buffered, [HubNext]_hubVars
  PROVE  Buffered'
<1>1. ASSUME listening' = listening, published' = published, inbox' = inbox
      PROVE  Buffered'
  BY <1>1 DEF Buffered, Carried, Waits
<1>2. ASSUME NEW c \in Channel, NEW e \in Event, Publish(c, e), listening' = listening
      PROVE  Buffered'
  <2> SUFFICES ASSUME NEW p \in listening, NEW d \in Channel
               PROVE  IsSuffix(Waits(p, d)', Carried(d)')
    BY <1>2 DEF Buffered, Carried, Waits
  <2>1. IsSuffix(Waits(p, d), Carried(d))
    BY DEF Buffered
  <2>2. Waits(p, d) \in Seq(Message) /\ Carried(d) \in Seq(Message) /\ <<c, e>> \in Message
    BY CarriedTyped DEF HubTypeOK, Message
  <2>3. IsSuffix(Append(Waits(p, d), <<c, e>>), Append(Carried(d), <<c, e>>))
    BY <2>1, <2>2, SuffixGrows
  <2> QED
    BY <1>2, <2>1, <2>3, CarriedGrows
<1>3. ASSUME NEW p \in Process, Deliver(p) PROVE Buffered'
  <2> SUFFICES ASSUME NEW r \in listening, NEW d \in Channel
               PROVE  IsSuffix(Waits(r, d)', Carried(d)')
    BY <1>3 DEF Deliver, Buffered, Carried, Waits
  <2>1. IsSuffix(Waits(r, d), Carried(d)) /\ Carried(d)' = Carried(d) /\ r \in Process
    BY <1>3 DEF Deliver, Buffered, Carried, HubTypeOK
  <2>2. CASE r # p
    BY <1>3, <2>1, <2>2 DEF Deliver, Waits, HubTypeOK
  <2>3. CASE r = p
    <3> DEFINE q == inbox[p]
               f == First(q, d)
               k == OnChannel(Tail(q), d)
    <3>1. q \in Seq(Message) /\ q # << >>
      BY <1>3 DEF Deliver, HubTypeOK
    <3>2. Waits(r, d)' = k /\ Waits(r, d) = OnChannel(q, d)
      BY <1>3, <2>3 DEF Deliver, Waits, HubTypeOK
    <3> HIDE DEF q
    <3>3. OnChannel(q, d) = f \o k
      BY <3>1, OnChannelHead
    <3>4. f \in Seq(Message) /\ k \in Seq(Message)
      <4>1. Head(q) \in Message /\ Tail(q) \in Seq(Message)
        BY <3>1, HeadTailProperties
      <4>2. OnChannel(Tail(q), d) \in Seq(Message)
        BY <4>1, OnChannelType
      <4>3. <<Head(q)>> \in Seq(Message) /\ << >> \in Seq(Message)
        BY <4>1
      <4> QED
        BY <4>2, <4>3 DEF First
    <3> HIDE DEF f, k
    <3>5. Carried(d) \in Seq(Message) /\ IsSuffix(f \o k, Carried(d))
      BY <2>1, <3>2, <3>3, CarriedTyped
    <3>6. IsSuffix(k, Carried(d))
      BY <3>4, <3>5, SuffixDrops
    <3> QED
      BY <2>1, <3>2, <3>6
  <2> QED
    BY <2>2, <2>3
<1>4. ASSUME NEW p \in Process, NEW s \in Socket, Send(p, s) PROVE Buffered'
  BY <1>1, <1>4 DEF Send
<1>5. ASSUME NEW p \in Process, ListenerFails(p) PROVE Buffered'
  <2>1. \A r \in listening' : r \in listening /\ inbox'[r] = inbox[r]
    BY <1>5 DEF ListenerFails, HubTypeOK
  <2> QED
    BY <1>5, <2>1 DEF ListenerFails, Buffered, Carried, Waits
<1>6. ASSUME NEW p \in Process, Restart(p) PROVE Buffered'
  <2> SUFFICES ASSUME NEW r \in listening', NEW d \in Channel
               PROVE  IsSuffix(Waits(r, d)', Carried(d)')
    BY DEF Buffered, Carried, Waits
  <2>1. Carried(d)' = Carried(d)
    BY <1>6 DEF Restart, Carried
  <2>2. r # p /\ r \in listening
    BY <1>6 DEF Restart
  <2> QED
    BY <1>6, <2>1, <2>2 DEF Restart, Buffered, Waits, HubTypeOK
<1>7. ASSUME NEW s \in Socket, Handler(s) PROVE Buffered'
  BY <1>1, <1>7 DEF Handler, Accept, Register, Enter, EnterFails, Ping, Leave, Unregister,
     Forget, traffic
<1>8. ASSUME NEW e \in Event, Publisher(e) PROVE Buffered'
  <2>1. CaseOf[e] \in Channel /\ Feed \in Channel
    BY CaseAssumption DEF Channel
  <2> QED
    BY <1>1, <1>2, <1>8, <2>1 DEF Publisher, PublishToCase, PublishToTenant, PublishFails
<1>9. CASE HubTick \/ UNCHANGED hubVars
  BY <1>1, <1>9 DEF HubTick, traffic, hubVars
<1>10. ASSUME NEW p \in Process, Subscribe(p) PROVE Buffered'
  <2> SUFFICES ASSUME NEW r \in listening', NEW d \in Channel
               PROVE  IsSuffix(Waits(r, d)', Carried(d)')
    BY DEF Buffered, Carried, Waits
  <2>1. Carried(d)' = Carried(d) /\ inbox' = inbox
    BY <1>10 DEF Subscribe, Carried
  <2>2. CASE r = p
    <3>1. inbox[r] = << >>
      BY <1>10, <2>2 DEF Subscribe, StartsFresh, Fresh
    <3>2. Waits(r, d)' = << >>
      BY <2>1, <3>1, OnChannelEmpty DEF Waits
    <3> QED
      BY <2>1, <3>2, CarriedTyped, EmptySuffix
  <2>3. CASE r # p
    BY <1>10, <2>1, <2>3 DEF Subscribe, Buffered, Waits
  <2> QED
    BY <2>2, <2>3
<1>11. ASSUME NEW p \in Process, SubscribeFails(p) PROVE Buffered'
  BY <1>1, <1>11 DEF SubscribeFails
<1> QED
  BY <1>3, <1>4, <1>5, <1>6, <1>7, <1>8, <1>9, <1>10, <1>11 DEF HubNext, Listener

\* Nobody sends, and nothing is buffered, for a process that has not subscribed.
LEMMA StartsFreshStep ==
  ASSUME HubTypeOK, Placed, StartsFresh, [HubNext]_hubVars
  PROVE  StartsFresh'
<1> SUFFICES ASSUME NEW r \in starting' PROVE Fresh(r)'
  BY DEF StartsFresh
<1>1. ASSUME r \in starting, inbox'[r] = inbox[r], sending'[r].to = {},
             \A s \in Socket : at'[s] = r => got'[s] = << >> \/ (at[s] = r /\ got'[s] = got[s])
      PROVE  Fresh(r)'
  BY <1>1 DEF StartsFresh, Fresh
<1>2. r \in starting => Fresh(r) /\ r \in Process /\ r \notin listening
  BY DEF StartsFresh, HubTypeOK
<1>3. ASSUME UNCHANGED <<at, got, starting, inbox, sending>> PROVE Fresh(r)'
  BY <1>1, <1>2, <1>3 DEF Fresh
<1>4. ASSUME NEW t \in Socket, Handler(t) PROVE Fresh(r)'
  <2>1. UNCHANGED <<starting, inbox, sending>>
    BY <1>4 DEF Handler, Accept, Register, Enter, EnterFails, Ping, Leave, Unregister,
       Forget, traffic
  <2>2. \A s \in Socket : at'[s] = r => got'[s] = << >> \/ (at[s] = r /\ got'[s] = got[s])
    <3>1. ASSUME NEW p \in Process, Accept(t, p), NEW s \in Socket, at'[s] = r
          PROVE  got'[s] = << >> \/ (at[s] = r /\ got'[s] = got[s])
      <4>1. got' = got /\ (s # t => at'[s] = at[s]) /\ got[t] = << >>
        BY <3>1 DEF Accept, client, Placed, Quiet
      <4> QED
        BY <3>1, <4>1
    <3>2. CASE EnterFails(t)
      BY <3>2 DEF EnterFails, Closed
    <3>3. CASE Leave(t)
      BY <3>3 DEF Leave, Closed
    <3>4. CASE Register(t) \/ Enter(t) \/ Ping(t) \/ Unregister(t) \/ Forget(t)
      BY <3>4 DEF Register, Enter, Ping, Unregister, Forget, client
    <3> QED
      BY <1>4, <3>1, <3>2, <3>3, <3>4 DEF Handler
  <2> QED
    BY <1>1, <1>2, <2>1, <2>2 DEF Fresh
<1>5. ASSUME NEW e \in Event, Publisher(e) PROVE Fresh(r)'
  <2>1. UNCHANGED <<at, got, starting, listening, sending>>
    BY <1>5 DEF Publisher, PublishToCase, PublishToTenant, PublishFails, client
  <2>2. inbox'[r] = inbox[r]
    BY <1>2, <1>5, <2>1 DEF Publisher, PublishToCase, PublishToTenant, PublishFails, Publish
  <2> QED
    BY <1>1, <1>2, <2>1, <2>2 DEF Fresh
<1>6. ASSUME NEW p \in Process, Restart(p) PROVE Fresh(r)'
  <2>1. at' = at /\ \A s \in Socket : got'[s] = IF at[s] = p THEN << >> ELSE got[s]
    BY <1>6 DEF Restart, Closed
  <2>2. sending' = [sending EXCEPT ![p] = Nothing] /\ Nothing.to = {}
    BY <1>6 DEF Restart, Nothing, Handout
  <2>3. CASE r = p
    BY <1>6, <2>1, <2>2, <2>3 DEF Restart, Fresh, HubTypeOK
  <2>4. CASE r # p
    <3>1. r \in starting /\ inbox'[r] = inbox[r] /\ sending'[r] = sending[r]
      BY <1>6, <2>2, <2>4 DEF Restart, HubTypeOK
    <3> QED
      BY <1>1, <1>2, <2>1, <3>1 DEF Fresh
  <2> QED
    BY <2>3, <2>4
<1>7. ASSUME NEW p \in Process, Listener(p) PROVE Fresh(r)'
  <2>1. CASE Deliver(p)
    <3>1. r # p /\ r \in starting
      BY <1>2, <2>1 DEF Deliver
    <3>2. inbox'[r] = inbox[r] /\ sending'[r] = sending[r] /\ UNCHANGED <<at, got>>
      BY <2>1, <3>1 DEF Deliver, client, HubTypeOK
    <3> QED
      BY <1>1, <1>2, <3>1, <3>2 DEF Fresh
  <2>2. ASSUME NEW t \in Socket, Send(p, t) PROVE Fresh(r)'
    <3>1. r # p /\ r \in starting /\ at[t] = p
      BY <1>2, <2>2 DEF Send, Placed, Known
    <3>2. /\ inbox'[r] = inbox[r] /\ sending'[r] = sending[r] /\ at' = at
          /\ \A s \in Socket : at[s] = r => got'[s] = got[s]
      BY <2>2, <3>1 DEF Send, HubTypeOK
    <3> QED
      BY <1>1, <1>2, <3>1, <3>2 DEF Fresh
  <2>3. CASE ListenerFails(p)
    <3>1. r # p /\ r \in starting
      BY <1>2, <2>3 DEF ListenerFails
    <3>2. inbox'[r] = inbox[r] /\ sending' = sending /\ UNCHANGED <<at, got>>
      BY <2>3, <3>1 DEF ListenerFails, client, HubTypeOK
    <3> QED
      BY <1>1, <1>2, <3>1, <3>2 DEF Fresh
  <2>4. CASE Subscribe(p) \/ SubscribeFails(p)
    <3>1. r \in starting /\ UNCHANGED <<at, got, inbox, sending>>
      BY <2>4 DEF Subscribe, SubscribeFails, client
    <3> QED
      BY <1>1, <1>2, <3>1 DEF Fresh
  <2> QED
    BY <1>7, <2>1, <2>2, <2>3, <2>4 DEF Listener
<1>8. CASE HubTick \/ UNCHANGED hubVars
  BY <1>3, <1>8 DEF HubTick, client, traffic, hubVars
<1> QED
  BY <1>4, <1>5, <1>6, <1>7, <1>8 DEF HubNext

LEMMA OnlyStays ==
  ASSUME NEW s \in Socket, Only(s), Same(s), published' = published
  PROVE  Only(s)'
BY DEF Only, Same, Carried

\* A socket just registered is sent what waits in the buffer of its process.
LEMMA NewcomerOnly ==
  ASSUME HubTypeOK, Placed, Buffered, NEW s \in Socket, Register(s)
  PROVE  Only(s)'
<1>1. /\ UNCHANGED <<at, got, inbox, sending, published, listening>>
      /\ at[s] \in Process /\ got[s] = << >> /\ s \notin sending[at[s]].to
  BY DEF Register, traffic, Placed, Reached, Quiet, Known
<1> SUFFICES ASSUME at[s] \in listening PROVE IsSuffix(Stream(s)', Carried(ChannelOf[s])')
  BY <1>1 DEF Only, Served
<1> DEFINE w == Waits(at[s], ChannelOf[s])
<1>2. Stream(s)' = << >> \o << >> \o w
  BY <1>1 DEF Stream, Waits
<1>3. w \in Seq(Message)
  BY <1>1, CarriedTyped
<1>4. IsSuffix(w, Carried(ChannelOf[s])) /\ Carried(ChannelOf[s])' = Carried(ChannelOf[s])
  BY <1>1, ChannelAssumption DEF Buffered, Carried
<1> HIDE DEF w
<1>5. << >> \o << >> \o w = w
  <2>1. << >> \o << >> = << >> /\ << >> \o w = w
    BY <1>3, ConcatEmptySeq
  <2> QED
    BY <2>1
<1> QED
  BY <1>2, <1>4, <1>5

\* The sockets a process had when it subscribed have been sent nothing yet.
LEMMA SubscriberOnly ==
  ASSUME HubTypeOK, StartsFresh, NEW p \in Process, Subscribe(p), NEW s \in Socket, at[s] = p
  PROVE  Only(s)'
<1>1. UNCHANGED <<at, got, inbox, sending, published>>
  BY DEF Subscribe
<1>2. got[s] = << >> /\ inbox[p] = << >> /\ s \notin sending[p].to
  BY DEF Subscribe, StartsFresh, Fresh
<1>3. Stream(s)' = << >> \o << >> \o << >>
  BY <1>1, <1>2, OnChannelEmpty DEF Stream
<1>4. << >> \o << >> \o << >> = << >>
  OBVIOUS
<1>5. Carried(ChannelOf[s])' = Carried(ChannelOf[s]) /\ Carried(ChannelOf[s]) \in Seq(Message)
  BY <1>1, CarriedTyped DEF Carried
<1>6. IsSuffix(Stream(s)', Carried(ChannelOf[s])')
  BY <1>3, <1>4, <1>5, EmptySuffix
<1> QED
  BY <1>6 DEF Only

LEMMA PublisherOnly ==
  ASSUME HubTypeOK, Handing, Placed, NothingElseSent, NEW e \in Event, Publisher(e),
         NEW s \in Socket
  PROVE  Only(s)'
<1>1. UNCHANGED <<at, sock, got, joined, listening, sending>>
  BY DEF Publisher, PublishToCase, PublishToTenant, PublishFails, client
<1>2. CaseOf[e] \in Channel /\ Feed \in Channel
  BY CaseAssumption DEF Channel
<1>3. ASSUME NEW c \in Channel, Publish(c, e) PROVE Only(s)'
  <2> SUFFICES ASSUME Served(s) PROVE IsSuffix(Stream(s)', Carried(ChannelOf[s])')
    BY <1>1 DEF Only, Served
  <2> DEFINE ch == ChannelOf[s]
             m == <<c, e>>
  <2>1. at[s] \in Process /\ at[s] \in listening
    BY DEF Served, Placed, Reached, Open
  <2>2. IsSuffix(Stream(s), Carried(ch))
    BY OnlyIsAll DEF Only
  <2>3. Stream(s) \in Seq(Message) /\ Carried(ch) \in Seq(Message) /\ m \in Message
    BY <2>1, StreamTyped, CarriedTyped DEF Message
  <2>4. Stream(s)' = IF c = ch THEN Append(Stream(s), m) ELSE Stream(s)
    BY <1>1, <1>3, <2>1, PublishStream
  <2>5. Carried(ch)' = IF c = ch THEN Append(Carried(ch), m) ELSE Carried(ch)
    BY <1>3, CarriedGrows
  <2> HIDE DEF m
  <2>6. IsSuffix(Append(Stream(s), m), Append(Carried(ch), m))
    BY <2>2, <2>3, SuffixGrows
  <2> QED
    BY <2>2, <2>4, <2>5, <2>6
<1>4. CASE PublishFails(e)
  BY <1>1, <1>4, IdleSame, OnlyIsAll, OnlyStays DEF PublishFails
<1> QED
  BY <1>2, <1>3, <1>4 DEF Publisher, PublishToCase, PublishToTenant

LEMMA OnlyStep ==
  ASSUME HubTypeOK, Handing, Placed, StartsFresh, Buffered, NothingElseSent, [HubNext]_hubVars
  PROVE  NothingElseSent'
<1> SUFFICES ASSUME NEW s \in Socket PROVE Only(s)'
  BY DEF NothingElseSent, Only, Served, Carried
<1>1. Only(s)
  BY OnlyIsAll
<1>2. ASSUME NEW t \in Socket, Handler(t) PROVE Only(s)'
  <2>1. published' = published
    BY <1>2 DEF Handler, Accept, Register, Enter, EnterFails, Ping, Leave, Unregister, Forget,
       traffic
  <2>2. CASE s = t /\ Register(t)
    BY <2>2, NewcomerOnly
  <2>3. CASE ~ (s = t /\ Register(t))
    BY <1>1, <1>2, <2>1, <2>3, HandlerSame, OnlyStays
  <2> QED
    BY <2>2, <2>3
<1>3. ASSUME NEW e \in Event, Publisher(e) PROVE Only(s)'
  BY <1>3, PublisherOnly
<1>4. ASSUME NEW p \in Process, Listener(p) \/ Restart(p) PROVE Only(s)'
  <2>1. published' = published
    BY <1>4 DEF Listener, Subscribe, SubscribeFails, Deliver, Send, ListenerFails, Restart
  <2>2. CASE at[s] = p /\ Subscribe(p)
    BY <2>2, SubscriberOnly
  <2>3. CASE ~ (at[s] = p /\ Subscribe(p))
    BY <1>1, <1>4, <2>1, <2>3, ListenerSame, OnlyStays
  <2> QED
    BY <2>2, <2>3
<1>5. CASE HubTick \/ UNCHANGED hubVars
  <2>1. UNCHANGED <<at, sock, got, joined, listening, published, inbox, sending>>
    BY <1>5 DEF HubTick, client, traffic, hubVars
  <2> QED
    BY <1>1, <2>1, IdleSame, OnlyStays
<1> QED
  BY <1>2, <1>3, <1>4, <1>5 DEF HubNext

LEMMA OnlyInit == HubInit => NothingElseSent /\ Buffered /\ StartsFresh
<1> SUFFICES ASSUME HubInit PROVE StartsFresh
  BY DEF HubInit, NothingElseSent, Buffered, Open
<1>1. \A p \in Process : inbox[p] = << >> /\ sending[p].to = {}
  BY DEF HubInit, Nothing, Handout
<1> QED
  BY <1>1 DEF HubInit, StartsFresh, Fresh

\* A connected socket is sent nothing of another channel, nothing that was not
\* published, and no message again or before an earlier one (_listen, which hands
\* each message to the connections of its channel), however many there are.
THEOREM NothingElse == HubSpec => []NothingElseSent
<1> DEFINE Inv == HubTypeOK /\ Handing /\ Placed /\ StartsFresh /\ Buffered /\ NothingElseSent
<1>1. HubInit => Inv
  BY HubTypedInit, PlacedInit, OnlyInit
<1>2. Inv /\ [HubNext]_hubVars => Inv'
  BY HubTypedStep, PlacedStep, StartsFreshStep, BufferedStep, OnlyStep
<1> QED
  BY <1>1, <1>2, PTL DEF HubSpec
=============================================================================

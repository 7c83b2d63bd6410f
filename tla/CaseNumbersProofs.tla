------------------------- MODULE CaseNumbersProofs --------------------------
(***************************************************************************)
(* Proofs about CaseNumbers, for any sets of workers, tenants and ids.     *)
(*                                                                         *)
(* Two invariants carry them.  IndexInv holds with merges and deletions    *)
(* too: an uncommitted insert stands for a number no committed row and no  *)
(* other insert has.  DenseInv holds while cases are only created: what    *)
(* has been inserted but not committed is exactly the next number, and     *)
(* what has only been read is at most that, which is why the next commit   *)
(* leaves no gap.                                                          *)
(***************************************************************************)
EXTENDS CaseNumbers, Sequences, WellFoundedInduction, TLAPS

-----------------------------------------------------------------------------
(* MAX over a non-empty, bounded set of numbers.                           *)

LEMMA MaxOfBounded ==
  ASSUME NEW S \in SUBSET Nat, S # {}, NEW b \in Nat, \A x \in S : x <= b
  PROVE  /\ Max(S) \in S
         /\ \A x \in S : x <= Max(S)
<1> DEFINE Bounds == {u \in Nat : \A x \in S : x <= u}
<1>1. PICK m \in Bounds : \A u \in Bounds : ~(<<u, m>> \in OpToRel(<, Nat))
  <2>1. Bounds \subseteq Nat /\ Bounds # {}
    OBVIOUS
  <2> QED
    BY <2>1, WFMin, NatLessThanWellFounded, Zenon
<1>2. \A u \in Bounds : ~(u < m)
  BY <1>1 DEF OpToRel
<1>3. m \in S
  <2> SUFFICES ASSUME m \notin S PROVE FALSE
    OBVIOUS
  <2>1. m \in Nat /\ \A x \in S : x \in Nat /\ x <= m /\ x # m
    OBVIOUS
  <2>2. \A x \in S : x <= m - 1
    BY <2>1
  <2>3. m - 1 \in Nat
    <3>1. PICK x \in S : TRUE
      OBVIOUS
    <3> QED
      BY <3>1, <2>1
  <2> QED
    BY <2>1, <2>2, <2>3, <1>2
<1>4. \E x \in S : \A y \in S : x >= y
  BY <1>3
<1> QED
  BY <1>4 DEF Max

LEMMA MaxOfInterval ==
  ASSUME NEW n \in Nat, n # 0
  PROVE  Max(1..n) = n
<1>1. 1..n \in SUBSET Nat /\ n \in 1..n /\ \A x \in 1..n : x <= n
  OBVIOUS
<1>2. Max(1..n) \in 1..n /\ \A x \in 1..n : x <= Max(1..n)
  BY <1>1, MaxOfBounded
<1> QED
  BY <1>1, <1>2
-----------------------------------------------------------------------------
(* Numbers with merges and deletions.                                      *)

Bounded == \E b \in Nat : \A r \in cases : r.number <= b

\* The index at work: an insert that has been let through has a number no
\* committed row has, and no other insert that has been let through.
InsertedFree  == \A w \in Worker :
                   req[w].step = "inserted" => ~Taken(req[w].row)
InsertedApart == \A v, w \in Worker :
                   /\ v # w
                   /\ req[v].step = "inserted"
                   /\ req[w].step = "inserted"
                   => ~SameNumber(req[v].row, req[w].row)

\* uuid4: the id of a creation in progress is that of nothing else.
IdsFresh == /\ \A w \in Worker : Busy(w) => \A r \in cases : r.id # req[w].row.id
            /\ \A v, w \in Worker : v # w /\ Busy(v) /\ Busy(w)
                                      => req[v].row.id # req[w].row.id

IndexInv == /\ TypeOK
            /\ Bounded
            /\ NoDuplicates
            /\ InsertedFree
            /\ InsertedApart
            /\ IdsFresh

LEMMA NextNumberType ==
  ASSUME TypeOK, Bounded, NEW t \in Tenant
  PROVE  Last(t) \in Nat /\ \A n \in Numbers(t) : n <= Last(t)
<1>1. CASE Numbers(t) = {}
  BY <1>1 DEF Last
<1>2. CASE Numbers(t) # {}
  <2>1. Numbers(t) \in SUBSET Nat
    BY DEF TypeOK, Numbers, Row
  <2>2. PICK b \in Nat : \A n \in Numbers(t) : n <= b
    BY DEF Bounded, Numbers
  <2> QED
    BY <1>2, <2>1, <2>2, MaxOfBounded DEF Last
<1> QED
  BY <1>1, <1>2

LEMMA RequestShape ==
  ASSUME TypeOK, NEW w \in Worker
  PROVE  /\ Busy(w) <=> req[w].step \in {"numbered", "inserted"}
         /\ Busy(w) => /\ req[w].row \in Row
                       /\ req[w] = [step |-> req[w].step, row |-> req[w].row]
BY DEF TypeOK, Request, Idle, Busy

LEMMA TypeStep == TypeOK /\ Bounded /\ [NextWithDelete]_vars => TypeOK'
<1> SUFFICES ASSUME TypeOK, Bounded, [NextWithDelete]_vars PROVE TypeOK'
  OBVIOUS
<1> USE DEF TypeOK
<1>1. ASSUME NEW w \in Worker, NEW t \in Tenant, NextCaseNumber(w, t)
      PROVE  TypeOK'
  <2>1. PICK c \in Case : req' = [req EXCEPT ![w] =
              [step |-> "numbered",
               row |-> [id |-> c, tenant |-> t, number |-> Last(t) + 1]]]
    BY <1>1 DEF NextCaseNumber
  <2>2. Last(t) + 1 \in Nat \ {0}
    BY NextNumberType
  <2>3. [step |-> "numbered",
         row |-> [id |-> c, tenant |-> t, number |-> Last(t) + 1]] \in Request
    BY <2>2 DEF Request, Row
  <2> QED
    BY <1>1, <2>1, <2>3 DEF NextCaseNumber
<1>2. ASSUME NEW w \in Worker, InsertCase(w) PROVE TypeOK'
  <2>1. req[w].row \in Row /\ req[w] = [step |-> req[w].step, row |-> req[w].row]
    BY <1>2, RequestShape DEF InsertCase
  <2>2. [req[w] EXCEPT !.step = "inserted"] = [step |-> "inserted", row |-> req[w].row]
    BY <2>1
  <2> QED
    BY <1>2, <2>1, <2>2 DEF InsertCase, Request
<1>3. ASSUME NEW w \in Worker, Conflict(w) \/ Abort(w) PROVE TypeOK'
  BY <1>3 DEF Conflict, Abort, Request
<1>4. ASSUME NEW w \in Worker, Commit(w) PROVE TypeOK'
  BY <1>4, RequestShape DEF Commit, Request
<1>5. ASSUME NEW src \in cases, NEW tgt \in cases, MergeAway(src, tgt) PROVE TypeOK'
  BY <1>5 DEF MergeAway, Row
<1>6. ASSUME NEW r \in cases, DeleteCase(r) PROVE TypeOK'
  BY <1>6 DEF DeleteCase
<1>7. CASE UNCHANGED vars
  BY <1>7 DEF vars
<1> QED
  BY <1>1, <1>2, <1>3, <1>4, <1>5, <1>6, <1>7
  DEF NextWithDelete, Next, Create, Remove

LEMMA IndexStep == IndexInv /\ [NextWithDelete]_vars => IndexInv'
<1> SUFFICES ASSUME IndexInv, [NextWithDelete]_vars PROVE IndexInv'
  OBVIOUS
<1>0. TypeOK'
  BY TypeStep DEF IndexInv
<1> USE DEF IndexInv, InsertedFree, InsertedApart, IdsFresh, NoDuplicates,
            Taken, SameNumber
<1>1. ASSUME NEW w \in Worker, NEW t \in Tenant, NextCaseNumber(w, t)
      PROVE  IndexInv'
  <2>1. PICK c \in Case :
          /\ ~Drawn(c)
          /\ req' = [req EXCEPT ![w] =
               [step |-> "numbered",
                row |-> [id |-> c, tenant |-> t, number |-> Last(t) + 1]]]
    BY <1>1 DEF NextCaseNumber
  <2>2. cases' = cases
    BY <1>1 DEF NextCaseNumber
  <2>3. /\ req'[w].step = "numbered"
        /\ req'[w].row.id = c
        /\ \A v \in Worker \ {w} : req'[v] = req[v]
    BY <2>1 DEF TypeOK
  <2>4. \A r \in cases : r.id # c
    BY <2>1 DEF Drawn
  <2>5. \A v \in Worker : Busy(v) => req[v].row.id # c
    BY <2>1 DEF Drawn
  <2>6. \A v \in Worker : v # w => (Busy(v)' <=> Busy(v))
    BY <2>3 DEF Busy
  <2>7. Bounded'
    BY <2>2 DEF Bounded
  <2>8. InsertedFree' /\ InsertedApart' /\ NoDuplicates'
    BY <2>2, <2>3
  <2>9. IdsFresh'
    BY <2>2, <2>3, <2>4, <2>5, <2>6
  <2> QED
    BY <1>0, <2>7, <2>8, <2>9
<1>2. ASSUME NEW w \in Worker, InsertCase(w) PROVE IndexInv'
  <2>1. /\ cases' = cases
        /\ req'[w] = [step |-> "inserted", row |-> req[w].row]
        /\ \A v \in Worker \ {w} : req'[v] = req[v]
        /\ Busy(w)
    <3>1. req[w] = [step |-> req[w].step, row |-> req[w].row] /\ Busy(w)
      BY <1>2, RequestShape DEF InsertCase
    <3> QED
      BY <1>2, <3>1 DEF InsertCase, TypeOK
  <2>2. \A v \in Worker : Busy(v)' <=> Busy(v)
    BY <2>1 DEF Busy, Idle
  <2>3. ~Taken(req[w].row) /\ ~Contended(w)
    BY <1>2 DEF InsertCase
  <2>4. Bounded' /\ NoDuplicates'
    BY <2>1 DEF Bounded
  <2>5. InsertedFree' /\ InsertedApart'
    BY <2>1, <2>3 DEF Contended
  <2>6. IdsFresh'
    BY <2>1, <2>2
  <2> QED
    BY <1>0, <2>4, <2>5, <2>6
<1>3. ASSUME NEW w \in Worker, Conflict(w) \/ Abort(w) PROVE IndexInv'
  <2>1. /\ cases' = cases
        /\ req'[w] = Idle
        /\ \A v \in Worker \ {w} : req'[v] = req[v]
    BY <1>3 DEF Conflict, Abort, TypeOK
  <2>2. ~Busy(w)' /\ req'[w].step = "idle"
    BY <2>1 DEF Busy, Idle
  <2>3. \A v \in Worker : v # w => (Busy(v)' <=> Busy(v))
    BY <2>1 DEF Busy
  <2>4. Bounded' /\ NoDuplicates'
    BY <2>1 DEF Bounded
  <2>5. InsertedFree' /\ InsertedApart'
    BY <2>1, <2>2
  <2>6. IdsFresh'
    BY <2>1, <2>2, <2>3
  <2> QED
    BY <1>0, <2>4, <2>5, <2>6
<1>4. ASSUME NEW w \in Worker, Commit(w) PROVE IndexInv'
  <2> DEFINE q == req[w].row
  <2>1. /\ cases' = cases \cup {q}
        /\ req'[w] = Idle
        /\ req[w].step = "inserted"
        /\ \A v \in Worker \ {w} : req'[v] = req[v]
    BY <1>4 DEF Commit, TypeOK
  <2>2. Busy(w) /\ q \in Row
    BY <2>1, RequestShape
  <2>3. ~Busy(w)' /\ req'[w].step = "idle"
    BY <2>1 DEF Busy, Idle
  <2>4. \A v \in Worker : v # w => (Busy(v)' <=> Busy(v))
    BY <2>1 DEF Busy
  <2>5. Bounded'
    <3>1. PICK b \in Nat : \A r \in cases : r.number <= b
      BY DEF Bounded
    <3>2. \A r \in cases : r.number \in Nat
      BY DEF TypeOK, Row
    <3>3. CASE q.number <= b
      BY <2>1, <3>1, <3>3 DEF Bounded
    <3>4. CASE ~(q.number <= b)
      <4>1. q.number \in Nat /\ \A r \in cases : r.number <= q.number
        BY <2>2, <3>1, <3>2, <3>4 DEF Row
      <4> QED
        BY <2>1, <4>1 DEF Bounded
    <3> QED
      BY <3>3, <3>4
  <2>6. NoDuplicates'
    BY <2>1, <2>2
  <2>7. InsertedFree' /\ InsertedApart'
    BY <2>1, <2>3
  <2>8. IdsFresh'
    BY <2>1, <2>2, <2>3, <2>4
  <2> QED
    BY <1>0, <2>5, <2>6, <2>7, <2>8
<1>5. ASSUME NEW src \in cases, NEW tgt \in cases, MergeAway(src, tgt) PROVE IndexInv'
  BY <1>0, <1>5 DEF MergeAway, Bounded, Busy
<1>6. ASSUME NEW r \in cases, DeleteCase(r) PROVE IndexInv'
  BY <1>0, <1>6 DEF DeleteCase, Bounded, Busy
<1>7. CASE UNCHANGED vars
  BY <1>0, <1>7 DEF vars, Bounded, Busy
<1> QED
  BY <1>1, <1>2, <1>3, <1>4, <1>5, <1>6, <1>7
  DEF NextWithDelete, Next, Create, Remove

LEMMA IndexInit == Init => IndexInv
BY DEF Init, IndexInv, TypeOK, Bounded, NoDuplicates, InsertedFree,
       InsertedApart, IdsFresh, Busy, Idle, Request, Row

LEMMA IndexAlways == SpecWithDelete => []IndexInv
BY IndexInit, IndexStep, PTL DEF SpecWithDelete

\* Every state of the numbering, with merges and deletions, is well typed: in
\* particular next_case_number always answers a positive integer.
THEOREM TypeCorrect == SpecWithDelete => []TypeOK
<1>1. IndexInv => TypeOK
  BY DEF IndexInv
<1> QED
  BY <1>1, IndexAlways, PTL

\* No two cases of a tenant share a number, however many requests allocate
\* numbers without a lock between create_case's select and its insert, and
\* whatever fails or is deleted.
THEOREM NumbersUnique == SpecWithDelete => []NoDuplicates
<1>1. IndexInv => NoDuplicates
  BY DEF IndexInv
<1> QED
  BY <1>1, IndexAlways, PTL
-----------------------------------------------------------------------------
(* Numbers while cases are only created.                                   *)

\* What a request has read is at most the next number of its tenant: numbers
\* are never ahead of the committed rows.
NotAhead == \A w \in Worker :
              Busy(w) => req[w].row.number <= Last(req[w].row.tenant) + 1

DenseInv == IndexInv /\ NoGaps /\ NotAhead

LEMMA LastOfInterval ==
  ASSUME NEW t \in Tenant, NEW n \in Nat, Numbers(t) = 1..n
  PROVE  Last(t) = n
<1>1. CASE n = 0
  BY <1>1 DEF Last
<1>2. CASE n # 0
  <2>1. Numbers(t) # {}
    BY <1>2
  <2> QED
    BY <1>2, <2>1, MaxOfInterval DEF Last
<1> QED
  BY <1>1, <1>2

\* The heart of the matter: an insert that has been let through has the next
\* number, so its commit extends the numbers of its tenant by one.
LEMMA CommitExtends ==
  ASSUME DenseInv, NEW w \in Worker, Commit(w), NEW q, q = req[w].row
  PROVE  /\ q \in Row
         /\ q \notin cases
         /\ cases' = cases \cup {q}
         /\ q.number = Last(q.tenant) + 1
         /\ Last(q.tenant)' = Last(q.tenant) + 1
         /\ Numbers(q.tenant)' = 1..(Last(q.tenant) + 1)
         /\ \A t \in Tenant \ {q.tenant} : /\ Numbers(t)' = Numbers(t)
                                            /\ Last(t)' = Last(t)
<1> DEFINE t0 == q.tenant
<1>1. q \in Row /\ Busy(w) /\ cases' = cases \cup {q}
  BY RequestShape DEF DenseInv, IndexInv, Commit
<1>2. t0 \in Tenant /\ q.number \in Nat /\ q.number # 0
  BY <1>1 DEF Row
<1>3. Last(t0) \in Nat /\ Numbers(t0) = 1..Last(t0)
  BY <1>2, NextNumberType DEF DenseInv, IndexInv, NoGaps
<1>4. q.number \notin Numbers(t0) /\ q \notin cases
  BY DEF DenseInv, IndexInv, InsertedFree, Taken, SameNumber, Numbers, Commit
<1>5. q.number <= Last(t0) + 1
  BY <1>1 DEF DenseInv, NotAhead
<1>6. q.number = Last(t0) + 1
  BY <1>2, <1>3, <1>4, <1>5
<1>7. Numbers(t0)' = Numbers(t0) \cup {q.number}
  BY <1>1 DEF Numbers
<1>8. Numbers(t0)' = 1..(Last(t0) + 1)
  BY <1>3, <1>6, <1>7
<1>9. Last(t0)' = Last(t0) + 1
  <2>1. Last(t0) + 1 \in Nat /\ Last(t0) + 1 # 0
    BY <1>3
  <2>2. Numbers(t0)' # {}
    BY <1>8, <2>1
  <2>3. Max(Numbers(t0)') = Last(t0) + 1
    BY <1>8, <2>1, MaxOfInterval
  <2> QED
    BY <2>2, <2>3 DEF Last
<1>10. ASSUME NEW t \in Tenant \ {t0}
       PROVE  Numbers(t)' = Numbers(t) /\ Last(t)' = Last(t)
  <2>1. Numbers(t)' = Numbers(t)
    BY <1>1 DEF Numbers
  <2> QED
    BY <2>1 DEF Last
<1> QED
  BY <1>1, <1>4, <1>6, <1>8, <1>9, <1>10

LEMMA DenseInit == Init => DenseInv
<1> SUFFICES ASSUME Init PROVE DenseInv
  OBVIOUS
<1>1. IndexInv
  BY IndexInit
<1>2. \A t \in Tenant : Numbers(t) = {}
  BY DEF Init, Numbers
<1>3. NoGaps
  <2>1. \A t \in Tenant : Last(t) = 0
    BY <1>2 DEF Last
  <2>2. 1..0 = {}
    OBVIOUS
  <2> QED
    BY <1>2, <2>1, <2>2 DEF NoGaps
<1>4. NotAhead
  BY DEF Init, NotAhead, Busy
<1> QED
  BY <1>1, <1>3, <1>4 DEF DenseInv

\* Only a commit changes the table while cases are only created.
LEMMA TableUnchanged ==
  ASSUME cases' = cases
  PROVE  \A t : Numbers(t)' = Numbers(t) /\ Last(t)' = Last(t)
<1>1. \A t : Numbers(t)' = Numbers(t)
  BY DEF Numbers
<1> QED
  BY <1>1 DEF Last

LEMMA DenseStep == DenseInv /\ [Next]_vars => DenseInv'
<1> SUFFICES ASSUME DenseInv, [Next]_vars PROVE DenseInv'
  OBVIOUS
<1>0. IndexInv'
  BY IndexStep DEF DenseInv, NextWithDelete
<1>1. ASSUME NEW w \in Worker, NEW t \in Tenant, NextCaseNumber(w, t)
      PROVE  DenseInv'
  <2>1. cases' = cases
    BY <1>1 DEF NextCaseNumber
  <2>2. PICK c \in Case : req' = [req EXCEPT ![w] =
               [step |-> "numbered",
                row |-> [id |-> c, tenant |-> t, number |-> Last(t) + 1]]]
    BY <1>1 DEF NextCaseNumber
  <2>3. /\ req'[w].row.tenant = t
        /\ req'[w].row.number = Last(t) + 1
        /\ \A v \in Worker \ {w} : req'[v] = req[v]
    BY <2>2 DEF DenseInv, IndexInv, TypeOK
  <2>4. Last(t) + 1 <= Last(t) + 1
    BY NextNumberType DEF DenseInv, IndexInv
  <2>5. NoGaps'
    BY <2>1, TableUnchanged DEF DenseInv, NoGaps
  <2>6. NotAhead'
    BY <2>1, <2>3, <2>4, TableUnchanged DEF DenseInv, NotAhead, Busy
  <2> QED
    BY <1>0, <2>5, <2>6 DEF DenseInv
<1>2. ASSUME NEW w \in Worker, InsertCase(w) PROVE DenseInv'
  <2>1. req[w] = [step |-> req[w].step, row |-> req[w].row] /\ Busy(w)
    BY <1>2, RequestShape DEF InsertCase, DenseInv, IndexInv
  <2>2. /\ cases' = cases
        /\ req'[w].row = req[w].row
        /\ \A v \in Worker \ {w} : req'[v] = req[v]
    BY <1>2, <2>1 DEF InsertCase, DenseInv, IndexInv, TypeOK
  <2>3. NoGaps'
    BY <2>2, TableUnchanged DEF DenseInv, NoGaps
  <2>4. NotAhead'
    BY <2>1, <2>2, TableUnchanged DEF DenseInv, NotAhead, Busy
  <2> QED
    BY <1>0, <2>3, <2>4 DEF DenseInv
<1>3. ASSUME NEW w \in Worker, Conflict(w) \/ Abort(w) PROVE DenseInv'
  <2>1. /\ cases' = cases
        /\ req'[w] = Idle
        /\ \A v \in Worker \ {w} : req'[v] = req[v]
    BY <1>3 DEF Conflict, Abort, DenseInv, IndexInv, TypeOK
  <2>2. NoGaps'
    BY <2>1, TableUnchanged DEF DenseInv, NoGaps
  <2>3. NotAhead'
    BY <2>1, TableUnchanged DEF DenseInv, NotAhead, Busy
  <2> QED
    BY <1>0, <2>2, <2>3 DEF DenseInv
<1>4. ASSUME NEW w \in Worker, Commit(w) PROVE DenseInv'
  <2>0. PICK q : q = req[w].row
    OBVIOUS
  <2>1. /\ q \in Row
        /\ Last(q.tenant)' = Last(q.tenant) + 1
        /\ Numbers(q.tenant)' = 1..(Last(q.tenant) + 1)
        /\ \A t \in Tenant \ {q.tenant} : /\ Numbers(t)' = Numbers(t)
                                           /\ Last(t)' = Last(t)
    BY <1>4, <2>0, CommitExtends
  <2>2. req'[w] = Idle /\ \A v \in Worker \ {w} : req'[v] = req[v]
    BY <1>4 DEF Commit, DenseInv, IndexInv, TypeOK
  <2>3. NoGaps'
    <3>1. Last(q.tenant) + 1 = Last(q.tenant)'
      BY <2>1
    <3>2. Numbers(q.tenant)' = 1..Last(q.tenant)'
      BY <2>1, <3>1
    <3>3. \A t \in Tenant \ {q.tenant} : Numbers(t)' = 1..Last(t)'
      BY <2>1 DEF DenseInv, NoGaps
    <3> QED
      BY <3>2, <3>3 DEF NoGaps
  <2>4. NotAhead'
    <3> SUFFICES ASSUME NEW v \in Worker, Busy(v)'
                 PROVE  (req[v].row.number <= Last(req[v].row.tenant) + 1)'
      BY DEF NotAhead
    <3>1. v # w /\ req'[v] = req[v] /\ Busy(v)
      BY <2>2 DEF Busy
    <3>2. req[v].row \in Row
      BY <3>1, RequestShape DEF DenseInv, IndexInv
    <3>3. req[v].row.number <= Last(req[v].row.tenant) + 1
      BY <3>1 DEF DenseInv, NotAhead
    <3>4. Last(req[v].row.tenant) \in Nat
      BY <3>2, NextNumberType DEF DenseInv, IndexInv, Row
    <3>5. CASE req[v].row.tenant = q.tenant
      BY <2>1, <3>1, <3>2, <3>3, <3>4, <3>5 DEF Row
    <3>6. CASE req[v].row.tenant # q.tenant
      BY <2>1, <3>1, <3>2, <3>3, <3>6 DEF Row
    <3> QED
      BY <3>5, <3>6
  <2> QED
    BY <1>0, <2>3, <2>4 DEF DenseInv
<1>5. CASE UNCHANGED vars
  <2>1. cases' = cases /\ req' = req
    BY <1>5 DEF vars
  <2> QED
    BY <1>0, <2>1, TableUnchanged DEF DenseInv, NoGaps, NotAhead, Busy
<1> QED
  BY <1>1, <1>2, <1>3, <1>4, <1>5 DEF Next, Create

LEMMA DenseAlways == Spec => []DenseInv
BY DenseInit, DenseStep, PTL DEF Spec

\* The cases of a tenant are numbered 1..n at every moment, whichever requests
\* run together and whichever fail between create_case's select and commit.
THEOREM NumbersDense == Spec => []NoGaps
<1>1. DenseInv => NoGaps
  BY DEF DenseInv
<1> QED
  BY <1>1, DenseAlways, PTL
-----------------------------------------------------------------------------
(* Creation implements the registry.                                       *)

LEMMA BookEntry ==
  ASSUME NoDuplicates, NEW r \in cases
  PROVE  (CHOOSE x \in cases : x.tenant = r.tenant /\ x.number = r.number) = r
BY DEF NoDuplicates, SameNumber

LEMMA BookType ==
  ASSUME DenseInv, NEW t \in Tenant
  PROVE  /\ Last(t) \in Nat
         /\ DOMAIN Book[t] = 1..Last(t)
         /\ Book[t] \in Seq(Case)
         /\ Len(Book[t]) = Last(t)
         /\ \A n \in 1..Last(t) :
              \E r \in cases : r.tenant = t /\ r.number = n /\ Book[t][n] = r.id
<1>1. Last(t) \in Nat
  BY NextNumberType DEF DenseInv, IndexInv
<1>2. Book[t] = [n \in 1..Last(t) |->
                   (CHOOSE r \in cases : r.tenant = t /\ r.number = n).id]
  BY DEF Book
<1>3. ASSUME NEW n \in 1..Last(t)
      PROVE  \E r \in cases : r.tenant = t /\ r.number = n /\ Book[t][n] = r.id
  <2>1. n \in Numbers(t)
    BY DEF DenseInv, NoGaps
  <2>2. PICK r \in cases : r.tenant = t /\ r.number = n
    BY <2>1 DEF Numbers
  <2>3. (CHOOSE x \in cases : x.tenant = t /\ x.number = n) = r
    BY <2>2, BookEntry DEF DenseInv, IndexInv
  <2> QED
    BY <1>2, <2>2, <2>3
<1>4. \A n \in 1..Last(t) : Book[t][n] \in Case
  BY <1>3 DEF DenseInv, IndexInv, TypeOK, Row
<1>5. Book[t] \in Seq(Case) /\ Len(Book[t]) = Last(t)
  BY <1>1, <1>2, <1>4
<1> QED
  BY <1>1, <1>2, <1>3, <1>5

LEMMA SequenceIsFunction ==
  ASSUME NEW S, NEW s \in Seq(S)
  PROVE  s = [n \in 1..Len(s) |-> s[n]]
OBVIOUS

LEMMA BookUnchanged ==
  ASSUME cases' = cases
  PROVE  Book' = Book
BY TableUnchanged DEF Book

LEMMA BookInit == Init => Registry!Init
<1> SUFFICES ASSUME Init PROVE Registry!Init
  OBVIOUS
<1>1. \A t \in Tenant : Numbers(t) = {}
  BY DEF Init, Numbers
<1>2. \A t \in Tenant : Last(t) = 0
  BY <1>1 DEF Last
<1>3. ASSUME NEW t \in Tenant
      PROVE  [n \in 1..Last(t) |->
                (CHOOSE r \in cases : r.tenant = t /\ r.number = n).id] = << >>
  BY <1>2
<1> QED
  BY <1>3 DEF Book, Registry!Init

LEMMA BookStep == DenseInv /\ [Next]_vars => [Registry!Next]_Book
<1> SUFFICES ASSUME DenseInv, [Next]_vars PROVE [Registry!Next]_Book
  OBVIOUS
<1>1. ASSUME NEW w \in Worker, Commit(w) PROVE Registry!Next
  <2>0. PICK q : q = req[w].row
    OBVIOUS
  <2> DEFINE t0 == q.tenant
  <2>1. /\ q \in Row
        /\ q \notin cases
        /\ cases' = cases \cup {q}
        /\ q.number = Last(t0) + 1
        /\ Last(t0)' = Last(t0) + 1
        /\ \A t \in Tenant \ {t0} : Last(t)' = Last(t)
    BY <1>1, <2>0, CommitExtends
  <2>2. t0 \in Tenant /\ q.id \in Case
    BY <2>1 DEF Row
  <2>3. DenseInv'
    BY DenseStep
  <2>4. \A r \in cases : r.id # q.id
    BY <1>1, <2>0, RequestShape DEF DenseInv, IndexInv, IdsFresh, Commit
  <2>5. ~Registry!Entered(q.id)
    BY <2>4, BookType DEF Registry!Entered
  <2>6. ASSUME NEW t \in Tenant, NEW n \in 1..Last(t)
        PROVE  Book'[t][n] = Book[t][n]
    <3>1. PICK r \in cases : r.tenant = t /\ r.number = n /\ Book[t][n] = r.id
      BY BookType
    <3>2. Last(t) \in Nat /\ (Last(t)' = Last(t) \/ Last(t)' = Last(t) + 1)
      BY <2>1, BookType
    <3>3. n \in 1..Last(t)'
      BY <3>2
    <3>4. Book'[t][n] = (CHOOSE x \in cases' : x.tenant = t /\ x.number = n).id
      BY <3>3 DEF Book
    <3>5. r \in cases' /\ \A x \in cases' : x.tenant = t /\ x.number = n => x = r
      BY <2>1, <2>3, <3>1 DEF DenseInv, IndexInv, NoDuplicates, SameNumber
    <3> QED
      BY <3>1, <3>4, <3>5
  <2>7. Book'[t0] = Append(Book[t0], q.id)
    <3>1. /\ Last(t0) \in Nat
          /\ Book[t0] \in Seq(Case)
          /\ Len(Book[t0]) = Last(t0)
      BY <2>2, BookType
    <3>2. Book'[t0] = [n \in 1..(Last(t0) + 1) |->
                 (CHOOSE r \in cases' : r.tenant = t0 /\ r.number = n).id]
      BY <2>1, <2>2 DEF Book
    <3>3. Book'[t0][Last(t0) + 1] = q.id
      <4>1. Last(t0) + 1 \in 1..(Last(t0) + 1)
        BY <3>1
      <4>2. q \in cases' /\ \A x \in cases' :
                            x.tenant = t0 /\ x.number = Last(t0) + 1 => x = q
        BY <2>1, <2>3 DEF DenseInv, IndexInv, NoDuplicates, SameNumber
      <4> QED
        BY <3>2, <4>1, <4>2, <2>1
    <3>4. \A n \in 1..Last(t0) : Book'[t0][n] = Book[t0][n]
      BY <2>2, <2>6
    <3>5. \A n \in 1..(Last(t0) + 1) :
            Book'[t0][n] = IF n <= Last(t0) THEN Book[t0][n] ELSE q.id
      BY <3>1, <3>3, <3>4
    <3>6. DOMAIN Book'[t0] = 1..(Last(t0) + 1)
      BY <3>2
    <3>7. /\ DOMAIN Append(Book[t0], q.id) = 1..(Last(t0) + 1)
          /\ \A n \in 1..(Last(t0) + 1) : Append(Book[t0], q.id)[n]
                = IF n <= Last(t0) THEN Book[t0][n] ELSE q.id
      BY <2>2, <3>1
    <3>8. Append(Book[t0], q.id)
            = [n \in 1..(Last(t0) + 1) |-> Append(Book[t0], q.id)[n]]
      <4>1. Append(Book[t0], q.id) \in Seq(Case)
        BY <2>2, <3>1
      <4>2. Len(Append(Book[t0], q.id)) = Last(t0) + 1
        BY <2>2, <3>1
      <4> QED
        BY <4>1, <4>2, SequenceIsFunction
    <3>9. Book'[t0] = [n \in 1..(Last(t0) + 1) |-> Book'[t0][n]]
      BY <3>2
    <3>10. \A n \in 1..(Last(t0) + 1) : Book'[t0][n] = Append(Book[t0], q.id)[n]
      BY <3>5, <3>7
    <3> HIDE DEF t0
    <3> QED
      BY <3>8, <3>9, <3>10, Zenon
  <2>8. \A t \in Tenant \ {t0} : Book'[t] = Book[t]
    <3> SUFFICES ASSUME NEW t \in Tenant \ {t0} PROVE Book'[t] = Book[t]
      OBVIOUS
    <3>1. Last(t)' = Last(t)
      BY <2>1
    <3>2. \A n \in 1..Last(t) : Book'[t][n] = Book[t][n]
      BY <2>6
    <3>3. /\ Book[t] = [n \in 1..Last(t) |-> Book[t][n]]
          /\ Book'[t] = [n \in 1..Last(t) |-> Book'[t][n]]
      BY <3>1 DEF Book
    <3> QED
      BY <3>2, <3>3
  <2>9. Book' = [Book EXCEPT ![t0] = Append(Book[t0], q.id)]
    <3>1. Book = [t \in Tenant |-> Book[t]] /\ Book' = [t \in Tenant |-> Book'[t]]
      BY DEF Book
    <3> QED
      BY <2>2, <2>7, <2>8, <3>1
  <2> QED
    BY <2>2, <2>5, <2>9 DEF Registry!Next, Registry!Open
<1>2. ASSUME cases' = cases PROVE Book' = Book
  BY <1>2, BookUnchanged
<1> QED
  BY <1>1, <1>2
  DEF Next, Create, NextCaseNumber, InsertCase, Conflict, Abort, vars

\* Creating cases implements the registry: whatever the interleaving, each
\* commit of create_case enters one case at the end of its tenant's book, and
\* nothing else a request does shows there.
THEOREM CreationImplementsRegistry == Spec => RegistrySpec
<1>1. Spec => []DenseInv
  BY DenseAlways
<1>2. Init => Registry!Init
  BY BookInit
<1>3. DenseInv /\ [Next]_vars => [Registry!Next]_Book
  BY BookStep
<1> QED
  BY <1>1, <1>2, <1>3, PTL DEF Spec, RegistrySpec, Registry!Spec
=============================================================================

---------------------------- MODULE CaseNumbers -----------------------------
(***************************************************************************)
(* How concurrent requests obtain case numbers                             *)
(* (backend/src/services/cases.py, create_case).                           *)
(*                                                                         *)
(* A request that creates a case - POST /cases, or the promotion of an     *)
(* alert into a new case - is one READ COMMITTED transaction: it selects   *)
(* MAX(case_number) + 1 over the committed rows, inserts its row at the    *)
(* next flush, does the rest of its work (timeline entry, template tasks,  *)
(* module dispatch) and commits.  Nothing is locked between the select and *)
(* the insert; the unique index on (tenant_id, case_number) is what keeps  *)
(* two requests from using the number both have read.                      *)
(***************************************************************************)
EXTENDS Naturals, FiniteSetsExt

CONSTANTS Worker,      \* requests in progress at one time
          Tenant,
          Case         \* case ids (uuid4: never drawn twice).  The model's
                       \* bound: a behaviour draws at most |Case| of them

VARIABLES cases,       \* committed rows of table cases
          req,         \* what each worker's request is doing
          childless,   \* ids whose every child row a merge has moved away
          deleted      \* rows deleted so far, kept to speak about their numbers

vars == <<cases, req, childless, deleted>>

Row == [id : Case, tenant : Tenant, number : Nat \ {0}]

Idle == [step |-> "idle"]

Request == {Idle} \cup [step : {"numbered", "inserted"}, row : Row]

TypeOK == /\ cases \subseteq Row
          /\ req \in [Worker -> Request]
          /\ childless \subseteq Case
          /\ deleted \subseteq Row

Init == /\ cases = {}
        /\ req = [w \in Worker |-> Idle]
        /\ childless = {}
        /\ deleted = {}
-----------------------------------------------------------------------------
Numbers(t) == {r.number : r \in {x \in cases : x.tenant = t}}

\* COALESCE(MAX(case_number), 0) over the rows this statement can see: the
\* committed ones, whatever other transactions have inserted since.
Last(t) == IF Numbers(t) = {} THEN 0 ELSE Max(Numbers(t))

Busy(w) == req[w] # Idle

Drawn(c) == \/ \E r \in cases \cup deleted : r.id = c
            \/ \E w \in Worker : Busy(w) /\ req[w].row.id = c

SameNumber(r, s) == r.tenant = s.tenant /\ r.number = s.number

\* The index entry of an insert that has not committed makes an insert of the
\* same number wait; the entry of a committed row makes it fail.
Taken(r) == \E s \in cases : SameNumber(r, s)
Contended(w) == \E v \in Worker \ {w} : /\ req[v].step = "inserted"
                                        /\ SameNumber(req[w].row, req[v].row)
-----------------------------------------------------------------------------
\* Mutant: no + 1.
NextCaseNumber_OffByOne(w, t) ==
  /\ req[w] = Idle
  /\ \E c \in Case :
       /\ ~Drawn(c)
       /\ req' = [req EXCEPT ![w] =
            [step |-> "numbered",
             row |-> [id |-> c, tenant |-> t, number |-> Last(t)]]]
  /\ UNCHANGED <<cases, childless, deleted>>

\* SELECT next_case_number(tenant), and the Case object built around it.
NextCaseNumber(w, t) ==
  /\ req[w] = Idle
  /\ \E c \in Case :
       /\ ~Drawn(c)
       /\ req' = [req EXCEPT ![w] =
            [step |-> "numbered",
             row |-> [id |-> c, tenant |-> t, number |-> Last(t) + 1]]]
  /\ UNCHANGED <<cases, childless, deleted>>

\* Mutant: the unique index is missing, as it is on alerts.dedup_key.
InsertCase_NoIndex(w) ==
  /\ req[w].step = "numbered"
  /\ req' = [req EXCEPT ![w].step = "inserted"]
  /\ UNCHANGED <<cases, childless, deleted>>

\* db.flush(): the INSERT goes through once no other transaction holds the
\* index entry.
InsertCase(w) ==
  /\ req[w].step = "numbered"
  /\ ~Taken(req[w].row)
  /\ ~Contended(w)
  /\ req' = [req EXCEPT ![w].step = "inserted"]
  /\ UNCHANGED <<cases, childless, deleted>>

\* Mutant: the handler retries the insert with the number it has.
Conflict_RetriesSameNumber(w) ==
  /\ req[w].step = "numbered"
  /\ Taken(req[w].row)
  /\ UNCHANGED vars

\* The INSERT hits a committed row: IntegrityError, rolled back, 409.
Conflict(w) ==
  /\ req[w].step = "numbered"
  /\ Taken(req[w].row)
  /\ req' = [req EXCEPT ![w] = Idle]
  /\ UNCHANGED <<cases, childless, deleted>>

\* get_db commits: the row is visible, with its case_created timeline entry.
Commit(w) ==
  /\ req[w].step = "inserted"
  /\ cases' = cases \cup {req[w].row}
  /\ req' = [req EXCEPT ![w] = Idle]
  /\ UNCHANGED <<childless, deleted>>

\* Any failure on the way - unknown template, a foreign key, a module error
\* that poisons the session, the client gone, the process killed - rolls back.
Abort(w) ==
  /\ Busy(w)
  /\ req' = [req EXCEPT ![w] = Idle]
  /\ UNCHANGED <<cases, childless, deleted>>
-----------------------------------------------------------------------------
\* merge_cases moves every observable and timeline entry of the source; the
\* target gains them.
MergeAway(src, tgt) ==
  /\ src # tgt
  /\ src.tenant = tgt.tenant
  /\ childless' = (childless \cup {src.id}) \ {tgt.id}
  /\ UNCHANGED <<cases, req, deleted>>

\* delete_case: the ORM sets case_id of the children to NULL, which the columns
\* refuse, so only a case without children can be deleted.
DeleteCase(r) ==
  /\ r.id \in childless
  /\ cases' = cases \ {r}
  /\ deleted' = deleted \cup {r}
  /\ childless' = childless \ {r.id}
  /\ UNCHANGED req
-----------------------------------------------------------------------------
Create(w) == \/ \E t \in Tenant : NextCaseNumber(w, t)
             \/ InsertCase(w)
             \/ Conflict(w)
             \/ Commit(w)

\* Creation only: the system the numbering promise is about.
Next == \E w \in Worker : Create(w) \/ Abort(w)

Spec == Init /\ [][Next]_vars

\* With the merges and deletions that can remove a number again.
Remove == \/ \E src, tgt \in cases : MergeAway(src, tgt)
          \/ \E r \in cases : DeleteCase(r)

NextWithDelete == Next \/ Remove

SpecWithDelete == Init /\ [][NextWithDelete]_vars

\* The event loop keeps running every admitted request (weak fairness would do
\* for its steps), and PostgreSQL wakes an insert that waits on the index each
\* time the other transaction ends: strong, because a later request may take
\* the entry first, again and again, but not for ever.  Nothing makes a client
\* send a request, and nothing makes one fail.
Advance(w) == InsertCase(w) \/ Conflict(w) \/ Commit(w)

FairSpec == Spec /\ \A w \in Worker : SF_vars(Advance(w))

-----------------------------------------------------------------------------
\* The committed cases of a tenant are numbered 1..n: no gap, whatever aborts
\* in between, because create_case reads MAX and not a sequence.
NoGaps == \A t \in Tenant : Numbers(t) = 1..Last(t)

\* A number names one case of its tenant (and an id one case), at every moment.
NoDuplicates == \A r, s \in cases : SameNumber(r, s) \/ r.id = s.id => r = s

\* A number once given to a case is never given to another one, not even after
\* the first was merged away by merge_cases and deleted by delete_case.  The
\* code does not keep this: MAX forgets the number with the row.
NeverReissued == \A r \in cases, s \in deleted : ~SameNumber(r, s)

\* A create request always ends, by commit or by 409: the index makes requests
\* wait for each other and the waits never close a cycle.
EveryCreateSettles == \A w \in Worker : Busy(w) ~> ~Busy(w)

\* Creation implements the registry: case number n of a tenant is the n-th case
\* entered in its book.
Book == [t \in Tenant |->
           [n \in 1..Last(t) |->
              (CHOOSE r \in cases : r.tenant = t /\ r.number = n).id]]

Registry == INSTANCE CaseRegistry WITH book <- Book
RegistrySpec == Registry!Spec
=============================================================================

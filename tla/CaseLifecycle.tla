--------------------------- MODULE CaseLifecycle ----------------------------
(***************************************************************************)
(* Status changes and merges of the cases of one tenant, and the rows that *)
(* hang off them (backend/src/services/cases.py, update_case, close_case,  *)
(* merge_cases; observables.py and timeline.py for the rows).              *)
(*                                                                         *)
(* Requests are READ COMMITTED transactions, as in AlertQueue: a handler   *)
(* works on the row it loaded, a flush writes the columns it changed and   *)
(* keeps the row lock to the end of the transaction.  A merge is the one   *)
(* that takes several row locks: the moved rows, the target when the       *)
(* cases_merged entry is flushed, then the sources one after the other.    *)
(***************************************************************************)
EXTENDS Naturals, FiniteSets, Rows

CONSTANTS Worker,      \* requests in progress at one time
          Case,        \* case ids
          Rank,        \* their order, in which a flush writes them
          Item,        \* observables and other timeline entries; the model's bound
          Payload,     \* bodies of PATCH /cases/{id} in play
          MaxMerges,   \* the model's bound on merges
          MaxChanges,  \* the model's bound on changes of status
          None

\* in_progress and pending are treated exactly as new.
Status == {"new", "resolved", "closed"}

ASSUME RankAssumption == Rank \in [Case -> Nat]
ASSUME PayloadAssumption ==
  Payload \subseteq [status : Status] \cup [outcome : BOOLEAN]
                      \cup [status : Status, outcome : BOOLEAN]
ASSUME BoundAssumption == MaxChanges \in Nat

\* A status_changed entry: the case it was recorded for, its event_timestamp
\* and the status it tells.  Like an item it hangs off a case by its case_id.
Change == [case : Case, at : 1..MaxChanges, status : Status]

Entries == Item \cup Change

ASSUME ItemAssumption == Item \cap Change = {}
ASSUME NoneAssumption == None \notin Change

VARIABLES cases,       \* committed rows of table cases
          home,        \* case_id of each committed entry
          clock,       \* event_timestamps handed out
          told,        \* the status_changed entry written last of each case
          lock,        \* pairs <<row, transaction>>: it has updated the row and not ended
          merged,      \* merges committed, as pairs <<source, target>>
          req,         \* what each worker's request is doing
          alone        \* workers whose request in progress has not been overtaken:
                       \* nobody else committed since it began

vars == <<cases, home, clock, told, lock, merged, req, alone>>

\* outcome, resolved_at and closed_at: whether they are set.
Row == [status : Status, outcome : BOOLEAN, resolved_at : BOOLEAN,
        closed_at : BOOLEAN, merged_from : SUBSET Case]

Idle == [step |-> "idle"]

Init == /\ cases = [c \in Case |-> [status |-> "new", outcome |-> FALSE,
                                    resolved_at |-> FALSE, closed_at |-> FALSE,
                                    merged_from |-> {}]]
        /\ home = << >>
        /\ clock = 0
        /\ told = [c \in Case |-> None]
        /\ lock = {}
        /\ merged = {}
        /\ req = [w \in Worker |-> Idle]
        /\ alone = {}
-----------------------------------------------------------------------------
(* Rows, locks and transactions                                            *)

\* A new entry on a case.
Place(e, c) ==
  home' = [d \in DOMAIN home \cup {e} |-> IF d = e THEN c ELSE home[d]]

First(S) == {s \in S : \A c \in S : Rank[s] <= Rank[c]}

Free(w, rows) == \A h \in lock : h[1] \in rows => h[2] = w

Take(w, rows) == lock' = lock \cup (rows \X {w})

Release(w) == lock' = {h \in lock : h[2] # w}

\* A request begins; its commit ends it and overtakes all the others.
Begin(w, request) == /\ req' = [req EXCEPT ![w] = request]
                     /\ alone' = alone \cup {w}

End(w) == /\ Release(w)
          /\ req' = [req EXCEPT ![w] = Idle]
          /\ alone' = {}
-----------------------------------------------------------------------------
(* PATCH /cases/{id} and POST /cases/{id}/close                            *)

\* The columns update_case assigns, for a payload with some of status, outcome.
Assigned(row, payload) ==
  LET becomes(s) == "status" \in DOMAIN payload /\ payload.status = s /\ row.status # s
  IN  [c \in DOMAIN payload
             \cup (IF becomes("resolved") THEN {"resolved_at"} ELSE {})
             \cup (IF becomes("closed") THEN {"closed_at"} ELSE {}) |->
         IF c \in DOMAIN payload THEN payload[c] ELSE TRUE]

\* The handler: load, assign, refuse a move to closed without an outcome (400,
\* nothing written), and stamp the status_changed entry with the time.
LoadUpdate(w, c, payload) ==
  LET row   == cases[c]
      want  == Assigned(row, payload)
      end   == Overlay(row, want)
      moves == end.status # row.status
  IN  /\ req[w] = Idle
      /\ end.status = "closed" /\ moves => end.outcome
      /\ moves => clock < MaxChanges
      /\ clock' = IF moves THEN clock + 1 ELSE clock
      /\ Begin(w, [step |-> "update", case |-> c, at |-> clock',
                   write |-> Changed(row, want)])
      /\ UNCHANGED <<cases, home, told, lock, merged>>

\* The flush of the row, and of the entry: it waits for the row lock.
FlushUpdate(w) ==
  /\ req[w].step = "update"
  /\ LET rows == IF DOMAIN req[w].write = {} THEN {} ELSE {req[w].case}
     IN  Free(w, rows) /\ Take(w, rows)
  /\ req' = [req EXCEPT ![w].step = "updated"]
  /\ UNCHANGED <<cases, home, clock, told, merged, alone>>

Entry(r) == [case |-> r.case, at |-> r.at, status |-> r.write.status]

CommitUpdate_FirstEntryOnly(w) ==   \* mutant: a second change skips its entry
  /\ req[w].step = "updated"
  /\ LET r == req[w]
     IN  /\ cases' = [cases EXCEPT ![r.case] = Overlay(@, r.write)]
         /\ IF "status" \in DOMAIN r.write /\ told[r.case] = None
            THEN /\ told' = [told EXCEPT ![r.case] = Entry(r)]
                 /\ Place(Entry(r), r.case)
            ELSE UNCHANGED <<told, home>>
  /\ End(w)
  /\ UNCHANGED <<clock, merged>>

CommitUpdate(w) ==
  /\ req[w].step = "updated"
  /\ LET r == req[w]
     IN  /\ cases' = [cases EXCEPT ![r.case] = Overlay(@, r.write)]
         /\ IF "status" \in DOMAIN r.write
            THEN /\ told' = [told EXCEPT ![r.case] = Entry(r)]
                 /\ Place(Entry(r), r.case)
            ELSE UNCHANGED <<told, home>>
  /\ End(w)
  /\ UNCHANGED <<clock, merged>>
-----------------------------------------------------------------------------
(* POST /cases/{id}/merge                                                  *)

\* The rows of target and sources, as the session will compare against them.
\* Any status goes: closed cases and earlier sources or targets too.
LoadMerge(w, t, S) ==
  /\ req[w] = Idle
  /\ Cardinality(merged) + Cardinality(S) <= MaxMerges
  /\ Begin(w, [step |-> "collect", target |-> t, sources |-> S, left |-> S,
               moved |-> {}, open |-> {s \in S : cases[s].status # "closed"},
               merged_from |-> cases[t].merged_from \cup S])
  /\ UNCHANGED <<cases, home, clock, told, lock, merged>>

\* SELECT the observables and timeline entries of the next source (in the code
\* one statement for each table; a row that comes too late for its own is one
\* that comes after both).  Autoflush first sends the case_id of the rows moved
\* so far and locks them.
CollectItems(w) ==
  /\ req[w].step = "collect"
  /\ req[w].left # {}
  /\ Free(w, req[w].moved) /\ Take(w, req[w].moved)
  /\ \E s \in First(req[w].left) :
       req' = [req EXCEPT ![w].moved = @ \cup {e \in DOMAIN home : home[e] = s},
                          ![w].left = @ \ {s}]
  /\ UNCHANGED <<cases, home, clock, told, merged, alone>>

\* record_event flushes: merged_from of the target, case_id of the rows moved
\* last.  (The locks of one flush are taken together here.)
FlushMerge(w) ==
  /\ req[w].step = "collect"
  /\ req[w].left = {}
  /\ LET rows == req[w].moved \cup {req[w].target}
     IN  Free(w, rows) /\ Take(w, rows)
  /\ req' = [req EXCEPT ![w].step = "close", ![w].left = req[w].sources]
  /\ UNCHANGED <<cases, home, clock, told, merged, alone>>

\* The last flush closes the sources, row by row in the order of their ids.
FlushSource(w) ==
  /\ req[w].step = "close"
  /\ req[w].left # {}
  /\ \E s \in First(req[w].left) :
       /\ Free(w, {s}) /\ Take(w, {s})
       /\ req' = [req EXCEPT ![w].left = @ \ {s}]
  /\ UNCHANGED <<cases, home, clock, told, merged, alone>>

MergeWrite_InPlace(r, c) ==   \* mutant: merged_from grows in place, which no flush sees
  CASE c \in r.open -> [status |-> "closed", closed_at |-> TRUE]
    [] c \in r.sources \ r.open -> [closed_at |-> TRUE]
    [] OTHER         -> << >>

MergeWrite_Archives(r, c) ==   \* mutant: a status of no CaseStatus
  CASE c = r.target  -> [merged_from |-> r.merged_from]
    [] c \in r.sources -> [status |-> "merged", closed_at |-> TRUE]
    [] OTHER         -> << >>

\* What a merge writes on each case: merged_from on the target; on a source
\* closed_at, and the status unless it was loaded closed.  No status_changed is
\* recorded, but those of the sources move with everything else.
MergeWrite(r, c) ==
  CASE c = r.target   -> [merged_from |-> r.merged_from]
    [] c \in r.open   -> [status |-> "closed", closed_at |-> TRUE]
    [] c \in r.sources \ r.open -> [closed_at |-> TRUE]
    [] OTHER          -> << >>

CommitMerge(w) ==
  /\ req[w].step = "close"
  /\ req[w].left = {}
  /\ cases' = [c \in Case |-> Overlay(cases[c], MergeWrite(req[w], c))]
  /\ home' = [e \in DOMAIN home |-> IF e \in req[w].moved THEN req[w].target ELSE home[e]]
  /\ merged' = merged \cup (req[w].sources \X {req[w].target})
  /\ End(w)
  /\ UNCHANGED <<clock, told>>
-----------------------------------------------------------------------------
(* POST /cases/{id}/observables and /timeline                              *)

\* The insert locks nothing a merge waits for and is invisible until the
\* commit: the whole request is one step.
AddItem(w, i, c) ==
  /\ req[w] = Idle
  /\ i \notin DOMAIN home
  /\ Place(i, c)
  /\ alone' = {}
  /\ UNCHANGED <<cases, clock, told, lock, merged, req>>

\* A failure, a lost client, a crash: rolled back.
Abort(w) ==
  /\ req[w] # Idle
  /\ Release(w)
  /\ req' = [req EXCEPT ![w] = Idle]
  /\ alone' = alone \ {w}
  /\ UNCHANGED <<cases, home, clock, told, merged>>

\* The rows the next flush of a request needs.
Wants(w) == CASE req[w].step = "update" /\ DOMAIN req[w].write # {} -> {req[w].case}
              [] req[w].step = "collect" ->
                   req[w].moved \cup IF req[w].left = {} THEN {req[w].target} ELSE {}
              [] req[w].step = "close" /\ req[w].left # {} -> First(req[w].left)
              [] OTHER -> {}

\* A set of requests each of which waits for another of the set.
Deadlocked(W) == \A w \in W : \E v \in W \ {w} : \E x \in Wants(w) : <<x, v>> \in lock

BreakDeadlock_Retries(w) ==   \* mutant: the service starts the request over
  /\ \E W \in SUBSET Worker : w \in W /\ Deadlocked(W)
  /\ Release(w)
  /\ req[w].step \in {"collect", "close"}
  /\ req' = [req EXCEPT ![w].step = "collect", ![w].moved = {},
                        ![w].left = req[w].sources]
  /\ UNCHANGED <<cases, home, clock, told, merged, alone>>

\* PostgreSQL finds the cycle and fails one request (a 500 for its client).
BreakDeadlock(w) ==
  /\ \E W \in SUBSET Worker : w \in W /\ Deadlocked(W)
  /\ Abort(w)
-----------------------------------------------------------------------------
Update(w) == \/ \E c \in Case, p \in Payload : LoadUpdate(w, c, p)
             \/ FlushUpdate(w)
             \/ CommitUpdate(w)

Merge(w) == \/ \E t \in Case : \E S \in (SUBSET (Case \ {t})) \ {{}} : LoadMerge(w, t, S)
            \/ CollectItems(w)
            \/ FlushMerge(w)
            \/ FlushSource(w)
            \/ CommitMerge(w)

Next == \E w \in Worker : \/ Update(w)
                          \/ Merge(w)
                          \/ \E i \in Item, c \in Case : AddItem(w, i, c)
                          \/ Abort(w)
                          \/ BreakDeadlock(w)

Spec == Init /\ [][Next]_vars

\* Requests run on, waiters get their row locks in turn, and PostgreSQL's
\* deadlock detector always runs.
Advance(w) == \/ FlushUpdate(w) \/ CommitUpdate(w)
              \/ CollectItems(w) \/ FlushMerge(w) \/ FlushSource(w) \/ CommitMerge(w)

FairSpec == /\ Spec
            /\ \A w \in Worker : SF_vars(Advance(w))
            /\ WF_vars(\E w \in Worker : BreakDeadlock(w))
-----------------------------------------------------------------------------
Column == [status |-> Status, outcome |-> BOOLEAN,
           resolved_at |-> BOOLEAN, closed_at |-> BOOLEAN]

UpdateOK(r, now) ==
  /\ DOMAIN r = {"step", "case", "at", "write"}
  /\ r.step \in {"update", "updated"}
  /\ r.case \in Case
  /\ r.at \in (IF "status" \in DOMAIN r.write THEN 1 ELSE 0)..now
  /\ \A d \in DOMAIN r.write : d \in DOMAIN Column /\ r.write[d] \in Column[d]

MergeOK(r) ==
  /\ r \in [step : {"collect", "close"}, target : Case, sources : SUBSET Case,
            left : SUBSET Case, moved : SUBSET Entries, open : SUBSET Case,
            merged_from : SUBSET Case]
  /\ r.target \notin r.sources
  /\ r.open \subseteq r.sources /\ r.left \subseteq r.sources /\ r.sources # {}

RequestOK(r, now) == r = Idle \/ UpdateOK(r, now) \/ MergeOK(r)

TypeOK ==
  /\ cases \in [Case -> Row]
  /\ DOMAIN home \subseteq Entries /\ home \in [DOMAIN home -> Case]
  /\ clock \in 0..MaxChanges
  /\ told \in [Case -> Change \cup {None}]
  /\ lock \subseteq (Case \cup Entries) \X Worker
  /\ merged \subseteq Case \X Case
  /\ alone \subseteq Worker
  /\ DOMAIN req = Worker
  /\ \A w \in Worker : RequestOK(req[w], clock)

MergedAway == {p[1] : p \in merged}
MergedInto == {p[2] : p \in merged}

\* The status_changed entries on the timeline of a case.
On(c) == {e \in DOMAIN home \cap Change : home[e] = c}

\* Of the status_changed entries recorded for a case the one written last is on
\* its timeline and tells its status, although it is made from the row one
\* request loaded and the status may be set by another: update_case writes a
\* status only together with its entry, under one row lock.  On a case nothing was
\* merged into there are no others.  (Merges are the exceptions: a merged-away
\* case is closed untold and loses its entries, and its target cannot tell them
\* from its own.)
StatusTold ==
  \A c \in Case \ MergedAway :
    /\ cases[c].status = IF told[c] = None THEN "new" ELSE told[c].status
    /\ told[c] # None => told[c].case = c /\ told[c] \in On(c)
    /\ \A e \in On(c) : e.case = c \/ c \in MergedInto

\* README, "status transitions ... every one lands automatically": no status moves
\* without an entry of its case.  The code does not keep this: merge_cases closes
\* its sources and records nothing for them.
TransitionsLand ==
  [][\A c \in Case : cases'[c].status # cases[c].status => told'[c] # told[c]]_vars

\* README, "Reconstruct what happened": read in the order of its event_timestamps it
\* ends with the status of the case.  The code does not keep this: the clock is
\* read before the row lock is waited for, and a merge brings other cases'.
TimelineReconstructs ==
  \A c \in Case \ MergedAway :
    On(c) # {} => \E e \in On(c) : /\ \A d \in On(c) : d.at <= e.at
                                   /\ e.status = cases[c].status

\* A closed case has its closed_at, and a resolved one its resolved_at.
StatusStamped == \A c \in Case :
                   /\ cases[c].status = "closed" => cases[c].closed_at
                   /\ cases[c].status = "resolved" => cases[c].resolved_at

\* merge_cases "transfers all observables and timeline entries from sources":
\* when a merge commits, nothing is left on its sources.  The code does not keep
\* this: an item may come after its source's SELECT.
MergeLeavesNothing ==
  [][\A p \in merged' \ merged : \A e \in DOMAIN home' : home'[e] # p[1]]_vars

\* merge_cases "records merged_from on the target", for every merge there was.
\* The code does not keep this: the list is read, extended and written whole.
MergesRemembered == \A p \in merged : p[1] \in cases[p[2]].merged_from

\* A merge that nothing overtakes does both, with several sources at a time too.
MergeUndisturbed ==
  [][\A w \in alone : CommitMerge(w) =>
        LET t == req[w].target
        IN  /\ \A e \in DOMAIN home' : home'[e] \notin req[w].sources
            /\ cases'[t].merged_from = cases[t].merged_from \cup req[w].sources]_vars

\* Merges that wait for each other's rows do not hang: every request ends.
RequestsFinish == \A w \in Worker : req[w] # Idle ~> req[w] = Idle
=============================================================================

------------------------ MODULE ModuleDispatchProofs ------------------------
(***************************************************************************)
(* Proofs about the two kinds of jobs a request leaves to the Celery       *)
(* worker: the modules' hooks (ModuleDispatch), for any requests, runners, *)
(* modules, events and subscriptions, and then the enrichment of           *)
(* observables (Enrichment), for any requests, deletions, observables,     *)
(* sources and types.                                                      *)
(***************************************************************************)
EXTENDS ModuleDispatch, Enrichment, TLAPS

Out(h) == h \in queue \/ Running(h)

Extra(h) == IF h \in unsure THEN 1 ELSE 0

\* Nothing has been done about the hook yet.
Untouched(h) == ~Out(h) /\ runs[h] = 0 /\ h \notin unsure

Active(w) == req[w] # Idle

HooksOf(w, M) == {req[w].event} \X M
-----------------------------------------------------------------------------
(* The invariant                                                           *)

\* Each event belongs to one request, and each hook of it to one list.
RequestsApart ==
  \A w \in Worker : Active(w) =>
    /\ req[w].event \in fired \ done
    /\ HooksOf(w, req[w].left \cup req[w].noted \cup req[w].ran) \subseteq Hook
    /\ req[w].left \cap (req[w].noted \cup req[w].ran) = {}
    /\ req[w].wrote \subseteq req[w].ran
    /\ \A x \in Worker : Active(x) /\ req[x].event = req[w].event => x = w

\* What has not been dispatched has no task.
FreshHooks ==
  /\ \A h \in Hook : h[1] \notin fired => Untouched(h)
  /\ \A w \in Worker : req[w].step = "dispatch" =>
       \A h \in HooksOf(w, req[w].left) : Untouched(h)

\* A task is in one place.
OneTaker ==
  /\ \A h \in queue : ~Running(h)
  /\ \A r, q \in Runner : job[r] = job[q] /\ job[r] # None => r = q

\* A hook can be run by a runner and, if the broker took the task and reported an
\* error, by the request: each way that is still open is left room for.
RunsCounted ==
  /\ \A h \in Hook : runs[h] <= 1 + Extra(h)
  /\ \A h \in Hook : Out(h) => runs[h] <= Extra(h)
  /\ \A w \in Worker : Active(w) => \A h \in HooksOf(w, req[w].ran) :
       runs[h] <= Extra(h) /\ (Out(h) => runs[h] = 0 /\ h \in unsure)

\* The runner has found the case.
CasesThere == \A r \in Runner : job[r] # None => job[r][1] \notin NewCase \ done

\* A noted hook, committed or not, keeps its module.
NotedAnswered ==
  /\ \A h \in noted : modules[h[2]] # "deleted"
  /\ \A w \in Worker : Active(w) => \A h \in HooksOf(w, req[w].noted) :
       modules[h[2]] # "deleted" /\ (h[1] \notin NewCase => Answered(h))

IInv == /\ TypeOK /\ RequestsApart /\ FreshHooks /\ OneTaker /\ RunsCounted
        /\ CasesThere /\ NotedAnswered
        /\ QueuedIsAnswered /\ WritesAccounted /\ NoRunWithoutCase

LEMMA InitIInv == ASSUME Init PROVE IInv
<1> USE DEF Init
<1>1. \A w \in Worker : ~Active(w) /\ req[w].step # "dispatch"
  BY DEF Active, Idle
<1>2. \A h \in Hook : Untouched(h)
  BY NoneAssumption DEF Untouched, Out, Running
<1>3. TypeOK
  BY DEF TypeOK
<1>4. RequestsApart /\ FreshHooks /\ OneTaker
  BY <1>1, <1>2, NoneAssumption DEF RequestsApart, FreshHooks, OneTaker
<1>5. RunsCounted
  BY <1>1, <1>2 DEF RunsCounted, Untouched, Extra
<1>6. CasesThere /\ NotedAnswered
  BY <1>1 DEF CasesThere, NotedAnswered
<1>7. QueuedIsAnswered /\ WritesAccounted /\ NoRunWithoutCase
  BY DEF QueuedIsAnswered, WritesAccounted, NoRunWithoutCase
<1> QED
  BY <1>3, <1>4, <1>5, <1>6, <1>7 DEF IInv
-----------------------------------------------------------------------------
(* The steps                                                               *)

\* The disjuncts of Next, an aborting request and a breaking one together.
Step == \/ \E w \in Worker, e \in Event : Fire(w, e)
        \/ \E w \in Worker, m \in Module : Enqueue(w, m)
        \/ \E w \in Worker, m \in Module : RunHere(w, m)
        \/ \E w \in Worker : Commit(w)
        \/ \E w \in Worker : Abort(w)
        \/ \E r \in Runner, h \in Hook : Take(r, h)
        \/ \E r \in Runner : CommitRun(r)
        \/ \E r \in Runner : Lose(r)
        \/ \E m \in Module : Toggle(m)
        \/ \E m \in Module : DeleteModule(m)
        \/ UNCHANGED vars

LEMMA StepsOfNext == ASSUME [Next]_vars PROVE Step
  BY DEF Next, Request, Run, Break, Step

\* What the requests' actions make of a request's record.
LEMMA Requests ==
  ASSUME TypeOK, NEW w \in Worker
  PROVE /\ req[w] = Idle \/ req[w] \in RequestRecord
        /\ Active(w) <=> req[w] \in RequestRecord
        /\ req[w].step = "dispatch" => Active(w)
        /\ Active(w) => /\ req[w].event \in Event
                        /\ req[w].left \subseteq Module /\ req[w].noted \subseteq Module
                        /\ req[w].ran \subseteq Module /\ req[w].wrote \subseteq Module
<1>1. req[w] = Idle \/ req[w] \in RequestRecord
  BY DEF TypeOK
<1>2. Active(w) <=> req[w] \in RequestRecord
  BY <1>1 DEF RequestRecord, Idle, Active
<1> QED
  BY <1>1, <1>2 DEF RequestRecord, Active, Idle

Others(w) == /\ req' \in [Worker -> {Idle} \cup RequestRecord]
             /\ \A x \in Worker : x # w => req'[x] = req[x]

SameEvent(w) == /\ req[w] \in RequestRecord /\ req'[w] \in RequestRecord
                /\ req'[w].event = req[w].event

LEMMA FireShape ==
  ASSUME TypeOK, NEW w \in Worker, NEW e \in Event, Fire(w, e)
  PROVE /\ Others(w)
        /\ req'[w] \in RequestRecord
        /\ req'[w].event = e
        /\ req'[w].left \subseteq {m \in Module : <<e, m>> \in Hook}
        /\ req'[w].noted = {} /\ req'[w].ran = {} /\ req'[w].wrote = {}
<1>1. w \in DOMAIN req
  BY DEF TypeOK
<1> QED
  BY <1>1 DEF Fire, TypeOK, RequestRecord, Others

LEMMA EnqueueShape ==
  ASSUME TypeOK, NEW w \in Worker, NEW m \in Module, Enqueue(w, m)
  PROVE /\ Others(w) /\ SameEvent(w)
        /\ req'[w].ran = req[w].ran /\ req'[w].wrote = req[w].wrote
        /\ \/ /\ req'[w].step = "broken"
              /\ req'[w].left = req[w].left /\ req'[w].noted = req[w].noted
           \/ /\ modules[m] # "deleted"
              /\ req'[w].step = "dispatch"
              /\ req'[w].left = req[w].left \ {m} /\ req'[w].noted = req[w].noted \cup {m}
<1>1. req[w] \in RequestRecord
  BY Requests DEF Enqueue
<1>2. req \in [Worker -> {Idle} \cup RequestRecord]
  BY DEF TypeOK
<1>3. CASE modules[m] = "deleted"
  BY <1>1, <1>2, <1>3 DEF Enqueue, RequestRecord, Others, SameEvent
<1>4. CASE modules[m] # "deleted"
  <2>1. req' = [req EXCEPT ![w] = [req[w] EXCEPT !.left = req[w].left \ {m},
                                                 !.noted = req[w].noted \cup {m}]]
    BY <1>1, <1>2, <1>4 DEF Enqueue, RequestRecord
  <2> QED
    BY <1>1, <1>2, <1>4, <2>1 DEF Enqueue, RequestRecord, Others, SameEvent
<1> QED
  BY <1>3, <1>4

LEMMA RunHereShape ==
  ASSUME TypeOK, NEW w \in Worker, NEW m \in Module, RunHere(w, m)
  PROVE /\ Others(w) /\ SameEvent(w)
        /\ req'[w].noted = req[w].noted
        /\ \/ /\ req'[w].step = "broken"
              /\ req'[w].left = req[w].left /\ req'[w].ran = req[w].ran
              /\ req'[w].wrote = req[w].wrote
           \/ /\ req'[w].step = "dispatch"
              /\ req'[w].left = {} /\ req'[w].ran = req[w].ran
              /\ req'[w].wrote = req[w].wrote
           \/ /\ req'[w].step = "dispatch"
              /\ req'[w].left = req[w].left \ {m} /\ req'[w].ran = req[w].ran \cup {m}
              /\ req'[w].wrote \subseteq req[w].wrote \cup {m}
<1>1. req[w] \in RequestRecord /\ req[w].step = "dispatch"
  BY Requests DEF RunHere, Refuse
<1>2. req \in [Worker -> {Idle} \cup RequestRecord]
  BY DEF TypeOK
<1>3. CASE req' = [req EXCEPT ![w].left = {}]
  BY <1>1, <1>2, <1>3 DEF RequestRecord, Others, SameEvent
<1>4. CASE req' = [req EXCEPT ![w].step = "broken"]
  BY <1>1, <1>2, <1>4 DEF RequestRecord, Others, SameEvent
<1>5. ASSUME NEW writes \in {{}, {m}},
             req' = [req EXCEPT ![w].left = @ \ {m}, ![w].ran = @ \cup {m},
                                ![w].wrote = @ \cup writes]
      PROVE  /\ Others(w) /\ SameEvent(w)
             /\ req'[w].noted = req[w].noted
             /\ req'[w].step = "dispatch"
             /\ req'[w].left = req[w].left \ {m} /\ req'[w].ran = req[w].ran \cup {m}
             /\ req'[w].wrote \subseteq req[w].wrote \cup {m}
  <2>1. req' = [req EXCEPT ![w] = [req[w] EXCEPT !.left = req[w].left \ {m},
                                                 !.ran = req[w].ran \cup {m},
                                                 !.wrote = req[w].wrote \cup writes]]
    BY <1>1, <1>2, <1>5 DEF RequestRecord
  <2> QED
    BY <1>1, <1>2, <2>1 DEF RequestRecord, Others, SameEvent
<1> QED
  BY <1>3, <1>4, <1>5 DEF RunHere

LEMMA EndShape ==
  ASSUME TypeOK, NEW w \in Worker, Commit(w) \/ Abort(w)
  PROVE Others(w) /\ req'[w] = Idle /\ Active(w)
<1>1. Active(w)
  BY Requests DEF Commit, Abort, Active
<1> QED
  BY <1>1 DEF Commit, Abort, TypeOK, Others
-----------------------------------------------------------------------------
(* Preservation, conjunct by conjunct                                       *)

\* A module that is dispatched now: nothing has been done about its hook.
LEMMA Dispatched ==
  ASSUME IInv, NEW w \in Worker, NEW m \in Module,
         req[w].step = "dispatch", m \in req[w].left
  PROVE /\ Active(w)
        /\ <<req[w].event, m>> \in Hook
        /\ Untouched(<<req[w].event, m>>)
        /\ req[w].event \in fired \ done
        /\ m \notin req[w].noted \cup req[w].ran
        /\ \A x \in Worker : Active(x) /\ x # w => req[x].event # req[w].event
<1>1. Active(w)
  BY Requests DEF IInv
<1>2. <<req[w].event, m>> \in HooksOf(w, req[w].left)
  BY DEF HooksOf
<1>3. <<req[w].event, m>> \in Hook
  BY <1>1, <1>2 DEF IInv, RequestsApart, HooksOf
<1>4. Untouched(<<req[w].event, m>>)
  BY <1>2 DEF IInv, FreshHooks
<1> QED
  BY <1>1, <1>3, <1>4 DEF IInv, RequestsApart

\* A request going on with its own event stays apart from the others.
LEMMA ApartGoesOn ==
  ASSUME TypeOK, RequestsApart, NEW w \in Worker, Others(w), SameEvent(w),
         UNCHANGED <<fired, done>>,
         req'[w].left \cup req'[w].noted \cup req'[w].ran
           \subseteq req[w].left \cup req[w].noted \cup req[w].ran,
         req'[w].left \cap (req'[w].noted \cup req'[w].ran) = {},
         req'[w].wrote \subseteq req'[w].ran
  PROVE RequestsApart'
<1>1. Active(w)
  BY Requests DEF SameEvent
<1>2. \A x \in Worker : Active(x)' => Active(x) /\ req'[x].event = req[x].event
  BY <1>1 DEF Others, SameEvent, Active
<1>3. ASSUME NEW x \in Worker, Active(x)'
      PROVE  /\ req'[x].event \in fired' \ done'
             /\ \A y \in Worker : Active(y)' /\ req'[y].event = req'[x].event => y = x
  BY <1>2, <1>3 DEF RequestsApart
<1>4. ASSUME NEW x \in Worker, Active(x)', x # w
      PROVE  /\ HooksOf(x, req[x].left \cup req[x].noted \cup req[x].ran)' \subseteq Hook
             /\ req'[x].left \cap (req'[x].noted \cup req'[x].ran) = {}
             /\ req'[x].wrote \subseteq req'[x].ran
  <2>1. req'[x] = req[x]
    BY <1>4 DEF Others
  <2> QED
    BY <1>2, <1>4, <2>1 DEF RequestsApart, HooksOf
<1>5. HooksOf(w, req[w].left \cup req[w].noted \cup req[w].ran)' \subseteq Hook
  <2>1. {req[w].event} \X (req[w].left \cup req[w].noted \cup req[w].ran) \subseteq Hook
    BY <1>1 DEF RequestsApart, HooksOf
  <2> QED
    BY <2>1 DEF HooksOf, SameEvent
<1> QED
  BY <1>3, <1>4, <1>5 DEF RequestsApart

LEMMA TypeStep == ASSUME IInv, Step PROVE TypeOK'
<1>1. ASSUME NEW w \in Worker, NEW e \in Event, Fire(w, e)
     PROVE TypeOK'
  BY <1>1, FireShape DEF IInv, TypeOK, Fire, Others
<1>2. ASSUME NEW w \in Worker, NEW m \in Module, Enqueue(w, m)
     PROVE TypeOK'
  <2>1. <<req[w].event, m>> \in Hook
    BY <1>2, Dispatched DEF Enqueue
  <2> QED
    BY <1>2, <2>1, EnqueueShape DEF IInv, TypeOK, Enqueue, Others
<1>3. ASSUME NEW w \in Worker, NEW m \in Module, RunHere(w, m)
     PROVE TypeOK'
  <2>1. <<req[w].event, m>> \in Hook
    BY <1>3, Dispatched DEF RunHere, Refuse
  <2>2. req' \in [Worker -> {Idle} \cup RequestRecord]
    BY <1>3, RunHereShape DEF IInv, Others
  <2>3. Refuse(w, m)
    BY <1>3 DEF RunHere
  <2> QED
    BY <2>1, <2>2, <2>3 DEF IInv, TypeOK, Refuse
<1>4. ASSUME NEW w \in Worker, Commit(w)
     PROVE TypeOK'
  <2>1. Active(w) /\ req[w].event \in fired
    BY <1>4, EndShape DEF IInv, RequestsApart
  <2>2. {req[w].event} \X req[w].noted \subseteq Hook
    BY <2>1 DEF IInv, RequestsApart, HooksOf
  <2> QED
    BY <1>4, <2>1, <2>2, EndShape DEF IInv, TypeOK, Commit, Added, Others
<1>5. ASSUME NEW w \in Worker, Abort(w)
     PROVE TypeOK'
  BY <1>5 DEF IInv, TypeOK, Abort
<1>6. ASSUME NEW r \in Runner, NEW h \in Hook, Take(r, h)
     PROVE TypeOK'
  BY <1>6 DEF IInv, TypeOK, Take
<1>7. ASSUME NEW r \in Runner, CommitRun(r)
     PROVE TypeOK'
  BY <1>7 DEF IInv, TypeOK, CommitRun
<1>8. ASSUME NEW r \in Runner, Lose(r)
     PROVE TypeOK'
  BY <1>8 DEF IInv, TypeOK, Lose
<1>9. ASSUME NEW m \in Module, Toggle(m)
     PROVE TypeOK'
  BY <1>9 DEF IInv, TypeOK, Toggle
<1>10. ASSUME NEW m \in Module, DeleteModule(m)
     PROVE TypeOK'
  BY <1>10 DEF IInv, TypeOK, DeleteModule
<1>11. CASE UNCHANGED vars
  BY <1>11 DEF IInv, TypeOK, vars
<1> QED
  BY <1>1, <1>2, <1>3, <1>4, <1>5, <1>6, <1>7, <1>8, <1>9, <1>10, <1>11
     DEF Step, vars

\* A request that ends leaves the others to their events.
LEMMA RequestEnds ==
  ASSUME IInv, NEW w \in Worker, Commit(w) \/ Abort(w),
         fired' = fired, done' \subseteq done \cup {req[w].event}
  PROVE  RequestsApart'
<1>1. Others(w) /\ req'[w] = Idle /\ Active(w)
  BY EndShape DEF IInv
<1>2. \A x \in Worker : Active(x)' => x # w /\ req'[x] = req[x] /\ Active(x)
  BY <1>1 DEF Others, Active
<1>3. ASSUME NEW x \in Worker, Active(x)'
      PROVE  /\ req[x].event \in fired' \ done'
             /\ \A y \in Worker : Active(y)' /\ req'[y].event = req[x].event => y = x
  BY <1>1, <1>2, <1>3 DEF IInv, RequestsApart
<1>4. ASSUME NEW x \in Worker, Active(x)'
      PROVE  /\ HooksOf(x, req[x].left \cup req[x].noted \cup req[x].ran)' \subseteq Hook
             /\ req[x].left \cap (req[x].noted \cup req[x].ran) = {}
             /\ req[x].wrote \subseteq req[x].ran
  <2>1. req'[x] = req[x] /\ Active(x)
    BY <1>2, <1>4
  <2> QED
    BY <2>1 DEF IInv, RequestsApart, HooksOf
<1> QED
  BY <1>2, <1>3, <1>4 DEF RequestsApart

LEMMA ApartStep == ASSUME IInv, Step PROVE RequestsApart'
<1>1. ASSUME NEW w \in Worker, NEW e \in Event, Fire(w, e)
     PROVE RequestsApart'
  BY <1>1, FireShape, Requests
     DEF IInv, RequestsApart, HooksOf, Active, Fire, Others, TypeOK
<1>2. ASSUME NEW w \in Worker, NEW m \in Module, Enqueue(w, m)
     PROVE RequestsApart'
  <2>1. m \in req[w].left /\ m \notin req[w].noted \cup req[w].ran /\ Active(w)
    BY <1>2, Dispatched DEF Enqueue
  <2>2. /\ req[w].left \cap (req[w].noted \cup req[w].ran) = {}
        /\ req[w].wrote \subseteq req[w].ran
    BY <2>1 DEF IInv, RequestsApart
  <2>3. UNCHANGED <<fired, done>>
    BY <1>2 DEF Enqueue
  <2> QED
    BY <1>2, <2>1, <2>2, <2>3, EnqueueShape, ApartGoesOn DEF IInv
<1>3. ASSUME NEW w \in Worker, NEW m \in Module, RunHere(w, m)
     PROVE RequestsApart'
  <2>1. m \in req[w].left /\ m \notin req[w].noted \cup req[w].ran /\ Active(w)
    BY <1>3, Dispatched DEF RunHere, Refuse
  <2>2. /\ req[w].left \cap (req[w].noted \cup req[w].ran) = {}
        /\ req[w].wrote \subseteq req[w].ran
    BY <2>1 DEF IInv, RequestsApart
  <2>3. UNCHANGED <<fired, done>>
    BY <1>3 DEF RunHere, Refuse
  <2> QED
    BY <1>3, <2>1, <2>2, <2>3, RunHereShape, ApartGoesOn DEF IInv
<1>4. ASSUME NEW w \in Worker, Commit(w)
     PROVE RequestsApart'
  BY <1>4, RequestEnds DEF Commit
<1>5. ASSUME NEW w \in Worker, Abort(w)
     PROVE RequestsApart'
  BY <1>5, RequestEnds DEF Abort
<1>6. CASE UNCHANGED <<req, fired, done>>
  BY <1>6 DEF IInv, RequestsApart, HooksOf, Active
<1> QED
  BY <1>1, <1>2, <1>3, <1>4, <1>5, <1>6
     DEF Step, vars, Take, CommitRun, Lose, Toggle, DeleteModule

\* A hook stays untouched in a step that is not about it.
LEMMA StaysUntouched ==
  ASSUME IInv, NEW k \in Hook, Untouched(k), Step
  PROVE \/ Untouched(k)'
        \/ \E w \in Worker, m \in Module :
             k = <<req[w].event, m>> /\ (Enqueue(w, m) \/ RunHere(w, m))
        \/ \E w \in Worker : Commit(w) /\ k \in HooksOf(w, req[w].ran)
<1> SUFFICES ASSUME ~ \E w \in Worker, m \in Module :
                      k = <<req[w].event, m>> /\ (Enqueue(w, m) \/ RunHere(w, m)),
                    ~ \E w \in Worker : Commit(w) /\ k \in HooksOf(w, req[w].ran)
             PROVE  Untouched(k)'
  OBVIOUS
<1> USE DEF Untouched, Out, Running
<1>1. CASE UNCHANGED <<queue, job, runs, unsure>>
  BY <1>1
<1>2. ASSUME NEW w \in Worker, NEW m \in Module, Enqueue(w, m) PROVE Untouched(k)'
  BY <1>2 DEF Enqueue
<1>3. ASSUME NEW w \in Worker, NEW m \in Module, RunHere(w, m) PROVE Untouched(k)'
  BY <1>3 DEF RunHere, Refuse
<1>4. ASSUME NEW w \in Worker, Commit(w) PROVE Untouched(k)'
  <2>1. runs'[k] = 0
    <3>1. k \notin {req[w].event} \X req[w].ran
      BY <1>4 DEF HooksOf
    <3> QED
      BY <1>4, <3>1 DEF Commit, Added
  <2> QED
    BY <1>4, <2>1 DEF Commit
<1>5. ASSUME NEW r \in Runner, NEW h \in Hook, Take(r, h) PROVE Untouched(k)'
  <2>1. k # h
    BY <1>5 DEF Take
  <2> QED
    BY <1>5, <2>1 DEF Take, IInv, TypeOK
<1>6. ASSUME NEW r \in Runner, CommitRun(r) PROVE Untouched(k)'
  <2>1. job[r] # k
    OBVIOUS
  <2> QED
    BY <1>6, <2>1, NoneAssumption DEF CommitRun, IInv, TypeOK
<1>7. ASSUME NEW r \in Runner, Lose(r) PROVE Untouched(k)'
  BY <1>7, NoneAssumption DEF Lose, IInv, TypeOK
<1> QED
  BY <1>1, <1>2, <1>3, <1>4, <1>5, <1>6, <1>7
     DEF Step, Fire, Abort, Toggle, DeleteModule, vars

LEMMA FreshStep == ASSUME IInv, Step PROVE FreshHooks'
<1>1. ASSUME NEW k \in Hook, k[1] \notin fired'
      PROVE  Untouched(k)'
  <2>1. fired \subseteq fired'
    BY DEF Step, Fire, Enqueue, RunHere, Refuse, Commit, Abort, Take, CommitRun, Lose,
           Toggle, DeleteModule, vars
  <2>2. Untouched(k)
    BY <1>1, <2>1 DEF IInv, FreshHooks
  <2>3. ASSUME NEW w \in Worker, req[w].step = "dispatch" PROVE k[1] # req[w].event
    BY <1>1, <2>1, <2>3, Requests DEF IInv, RequestsApart
  <2>4. ASSUME NEW w \in Worker, NEW m \in Module, Enqueue(w, m) \/ RunHere(w, m)
        PROVE  k # <<req[w].event, m>>
    BY <2>3, <2>4 DEF Enqueue, RunHere, Refuse
  <2>5. ASSUME NEW w \in Worker, Commit(w) PROVE k \notin HooksOf(w, req[w].ran)
    BY <2>3, <2>5 DEF Commit, HooksOf
  <2> QED
    BY <2>2, <2>4, <2>5, StaysUntouched
<1>2. ASSUME NEW x \in Worker, req'[x].step = "dispatch",
             NEW k \in HooksOf(x, req[x].left)'
      PROVE  Untouched(k)'
  <2>1. k \in Hook
    <3>1. TypeOK' /\ RequestsApart'
      BY TypeStep, ApartStep
    <3>2. Active(x)'
      BY <1>2, <3>1 DEF TypeOK, Active, Idle
    <3> QED
      BY <1>2, <3>1, <3>2 DEF RequestsApart, HooksOf
  <2>2. ASSUME NEW w \in Worker, NEW e \in Event, Fire(w, e) PROVE Untouched(k)'
    <3>1. Untouched(k)
      BY <1>2, <2>1, <2>2, FireShape, Requests
         DEF Fire, Others, HooksOf, IInv, FreshHooks
    <3> QED
      BY <2>2, <3>1 DEF Fire, Untouched, Out, Running
  <2>3. ASSUME NEW w \in Worker, NEW m \in Module, Enqueue(w, m) PROVE Untouched(k)'
    <3>1. Untouched(k) /\ k # <<req[w].event, m>>
      <4>1. CASE x = w
        <5>1. /\ req'[w].left = req[w].left \ {m} /\ req'[w].event = req[w].event
              /\ req[w].step = "dispatch"
          BY <1>2, <2>3, <4>1, EnqueueShape DEF Enqueue, SameEvent, IInv
        <5>2. k \in HooksOf(w, req[w].left) /\ k # <<req[w].event, m>>
          BY <1>2, <4>1, <5>1 DEF HooksOf
        <5> QED
          BY <4>1, <5>1, <5>2 DEF IInv, FreshHooks
      <4>2. CASE x # w
        <5>1. req'[x] = req[x] /\ Active(x)
          BY <1>2, <2>3, <4>2, EnqueueShape, Requests DEF Others, IInv
        <5>2. req[x].event # req[w].event
          BY <2>3, <4>2, <5>1, Dispatched DEF Enqueue
        <5> QED
          BY <1>2, <5>1, <5>2 DEF HooksOf, IInv, FreshHooks
      <4> QED
        BY <4>1, <4>2
    <3> QED
      BY <2>1, <2>3, <3>1 DEF Enqueue, Untouched, Out, Running
  <2>4. ASSUME NEW w \in Worker, NEW m \in Module, RunHere(w, m) PROVE Untouched(k)'
    <3>1. Untouched(k) /\ k # <<req[w].event, m>>
      <4>1. CASE x = w
        <5>1. /\ req'[w].left \subseteq req[w].left \ {m}
              /\ req'[w].event = req[w].event /\ req[w].step = "dispatch"
          BY <1>2, <2>4, <4>1, RunHereShape DEF RunHere, Refuse, SameEvent, IInv
        <5>2. k \in HooksOf(w, req[w].left) /\ k # <<req[w].event, m>>
          BY <1>2, <4>1, <5>1 DEF HooksOf
        <5> QED
          BY <4>1, <5>1, <5>2 DEF IInv, FreshHooks
      <4>2. CASE x # w
        <5>1. req'[x] = req[x] /\ Active(x)
          BY <1>2, <2>4, <4>2, RunHereShape, Requests DEF Others, IInv
        <5>2. req[x].event # req[w].event
          BY <2>4, <4>2, <5>1, Dispatched DEF RunHere, Refuse
        <5> QED
          BY <1>2, <5>1, <5>2 DEF HooksOf, IInv, FreshHooks
      <4> QED
        BY <4>1, <4>2
    <3> QED
      BY <2>1, <2>4, <3>1 DEF RunHere, Refuse, Untouched, Out, Running
  <2>5. ASSUME NEW w \in Worker, Commit(w) PROVE Untouched(k)'
    <3>1. req'[x] = req[x] /\ Active(x) /\ x # w
      BY <1>2, <2>5, EndShape, Requests DEF IInv, Others, Idle
    <3>2. req[x].event # req[w].event
      BY <2>5, <3>1, EndShape DEF IInv, RequestsApart
    <3>3. Untouched(k)
      BY <1>2, <3>1 DEF HooksOf, IInv, FreshHooks
    <3>4. runs'[k] = runs[k]
      BY <1>2, <2>1, <2>5, <3>1, <3>2 DEF Commit, Added, HooksOf, IInv, TypeOK
    <3> QED
      BY <2>5, <3>3, <3>4 DEF Commit, Untouched, Out, Running
  <2>6. CASE \E w \in Worker : Abort(w)
    <3>1. PICK w \in Worker : Abort(w)
      BY <2>6
    <3>2. req'[x] = req[x]
      BY <1>2, <3>1, EndShape DEF IInv, Others, Idle
    <3> QED
      BY <1>2, <3>1, <3>2 DEF Abort, HooksOf, IInv, FreshHooks, Untouched, Out, Running
  <2>7. CASE UNCHANGED req
    <3>1. Untouched(k)
      BY <1>2, <2>7 DEF HooksOf, IInv, FreshHooks
    <3>2. ASSUME NEW w \in Worker PROVE ~Commit(w)
      BY <2>7, EndShape DEF IInv, Active
    <3> QED
      BY <2>1, <2>3, <2>4, <3>1, <3>2, StaysUntouched
  <2> QED
    BY <2>2, <2>3, <2>4, <2>5, <2>6, <2>7
       DEF Step, Take, CommitRun, Lose, Toggle, DeleteModule, vars
<1> QED
  BY <1>1, <1>2 DEF FreshHooks

LEMMA TakerStep == ASSUME IInv, Step PROVE OneTaker'
<1> USE NoneAssumption DEF OneTaker, Running
<1>1. ASSUME NEW w \in Worker, NEW m \in Module, Enqueue(w, m)
     PROVE OneTaker'
  <2>1. ~Running(<<req[w].event, m>>)
    BY <1>1, Dispatched DEF Enqueue, Untouched, Out
  <2> QED
    BY <1>1, <2>1 DEF Enqueue, IInv
<1>2. ASSUME NEW w \in Worker, NEW m \in Module, RunHere(w, m)
     PROVE OneTaker'
  <2>1. ~Running(<<req[w].event, m>>)
    BY <1>2, Dispatched DEF RunHere, Refuse, Untouched, Out
  <2> QED
    BY <1>2, <2>1 DEF RunHere, Refuse, IInv
<1>3. ASSUME NEW r \in Runner, NEW h \in Hook, Take(r, h)
     PROVE OneTaker'
  BY <1>3 DEF Take, IInv, TypeOK
<1>4. ASSUME NEW r \in Runner, CommitRun(r)
     PROVE OneTaker'
  BY <1>4 DEF CommitRun, IInv, TypeOK
<1>5. ASSUME NEW r \in Runner, Lose(r)
     PROVE OneTaker'
  BY <1>5 DEF Lose, IInv, TypeOK
<1>6. CASE UNCHANGED <<queue, job>>
  BY <1>6 DEF IInv
<1> QED
  BY <1>1, <1>2, <1>3, <1>4, <1>5, <1>6
     DEF Step, vars, Fire, Commit, Abort, Toggle, DeleteModule

LEMMA CountedStep == ASSUME IInv, Step PROVE RunsCounted'
<1>0. /\ \A h \in Hook : runs[h] \in Nat
      /\ \A h \in Hook : runs[h] <= 1 + Extra(h)
      /\ \A h \in Hook : Out(h) => runs[h] <= Extra(h)
      /\ \A w \in Worker : Active(w) => \A h \in HooksOf(w, req[w].ran) :
           runs[h] <= Extra(h) /\ (Out(h) => runs[h] = 0 /\ h \in unsure)
      /\ \A w \in Worker : Active(w) => HooksOf(w, req[w].ran) \subseteq Hook
  BY DEF IInv, TypeOK, RunsCounted, RequestsApart, HooksOf
<1>1. ASSUME UNCHANGED runs, unsure \subseteq unsure',
             \A h \in Hook : Out(h)' => Out(h),
             \A w \in Worker : Active(w)' =>
               \/ Active(w) /\ req'[w].event = req[w].event /\ req'[w].ran = req[w].ran
               \/ req'[w].ran = {}
      PROVE  RunsCounted'
  <2>1. \A h \in Hook : Extra(h) <= Extra(h)' /\ Extra(h) \in Nat /\ Extra(h)' \in Nat
    BY <1>1 DEF Extra
  <2>2. ASSUME NEW w \in Worker, Active(w)', NEW h \in HooksOf(w, req[w].ran)'
        PROVE  runs'[h] <= Extra(h)' /\ (Out(h)' => runs'[h] = 0 /\ h \in unsure')
    <3>1. Active(w) /\ h \in HooksOf(w, req[w].ran)
      BY <1>1, <2>2 DEF HooksOf
    <3>2. h \in Hook
      BY <1>0, <3>1
    <3> QED
      BY <1>0, <1>1, <2>1, <3>1, <3>2
  <2>3. \A h \in Hook : runs'[h] <= 1 + Extra(h)' /\ (Out(h)' => runs'[h] <= Extra(h)')
    BY <1>0, <1>1, <2>1
  <2> QED
    BY <2>2, <2>3 DEF RunsCounted
<1>2. ASSUME NEW w \in Worker, NEW e \in Event, Fire(w, e) PROVE RunsCounted'
  BY <1>1, <1>2, FireShape DEF Fire, IInv, Others, Out, Running, Active
<1>3. ASSUME NEW w \in Worker, NEW m \in Module, Enqueue(w, m) \/ RunHere(w, m)
      PROVE  RunsCounted'
  <2>0. PICK k \in Hook : k = <<req[w].event, m>>
    BY <1>3, Dispatched DEF Enqueue, RunHere, Refuse
  <2>1. Active(w) /\ k \in Hook /\ Untouched(k) /\ m \notin req[w].ran
    BY <1>3, <2>0, Dispatched DEF Enqueue, RunHere, Refuse
  <2>2. \A x \in Worker : Active(x) /\ x # w => req[x].event # req[w].event
    BY <1>3, Dispatched DEF Enqueue, RunHere, Refuse
  <2>3. /\ UNCHANGED <<runs, job>> /\ unsure \subseteq unsure'
        /\ queue' \subseteq queue \cup {k}
    BY <1>3, <2>0 DEF Enqueue, RunHere, Refuse
  <2>4. \A h \in Hook : Extra(h) <= Extra(h)' /\ Extra(h) \in Nat /\ Extra(h)' \in Nat
    BY <2>3 DEF Extra
  <2>5. \A h \in Hook : Out(h)' => Out(h) \/ h = k
    BY <2>3 DEF Out, Running
  <2>6. runs[k] = 0
    BY <2>1 DEF Untouched
  <2>7. /\ Others(w) /\ SameEvent(w)
        /\ \/ req'[w].ran = req[w].ran
           \/ req'[w].ran = req[w].ran \cup {m} /\ RunHere(w, m)
    BY <1>3, EnqueueShape, RunHereShape DEF IInv
  <2>8. ASSUME NEW x \in Worker, Active(x)', NEW h \in HooksOf(x, req[x].ran)'
        PROVE  runs'[h] <= Extra(h)' /\ (Out(h)' => runs'[h] = 0 /\ h \in unsure')
    <3>1. CASE x = w /\ h = k
      <4>1. req'[w].ran = req[w].ran \cup {m} /\ RunHere(w, m)
        BY <2>0, <2>1, <2>7, <2>8, <3>1 DEF HooksOf, SameEvent
      <4>2. ~Out(k)
        BY <2>1 DEF Untouched
      <4>3. Out(k)' => k \in unsure'
        BY <2>0, <4>1, <4>2 DEF RunHere, Refuse, Out, Running
      <4> QED
        BY <2>1, <2>3, <2>4, <2>6, <3>1, <4>3
    <3>2. CASE x = w /\ h # k
      <4>1. h \in HooksOf(w, req[w].ran)
        BY <2>0, <2>7, <2>8, <3>2 DEF HooksOf, SameEvent
      <4>2. h \in Hook
        BY <1>0, <2>1, <4>1
      <4> QED
        BY <1>0, <2>1, <2>3, <2>4, <2>5, <3>2, <4>1, <4>2
    <3>3. CASE x # w
      <4>1. req'[x] = req[x] /\ Active(x)
        BY <2>7, <2>8, <3>3 DEF Others, Active
      <4>2. h \in HooksOf(x, req[x].ran)
        BY <2>8, <4>1 DEF HooksOf
      <4>3. h # k
        BY <2>0, <2>2, <3>3, <4>1, <4>2 DEF HooksOf
      <4>4. h \in Hook
        BY <1>0, <4>1, <4>2
      <4> QED
        BY <1>0, <2>3, <2>4, <2>5, <4>1, <4>2, <4>3, <4>4
    <3> QED
      BY <3>1, <3>2, <3>3
  <2>9. \A h \in Hook : runs'[h] <= 1 + Extra(h)' /\ (Out(h)' => runs'[h] <= Extra(h)')
    BY <1>0, <2>3, <2>4, <2>5, <2>6
  <2> QED
    BY <2>8, <2>9 DEF RunsCounted
<1>4. ASSUME NEW w \in Worker, Commit(w) PROVE RunsCounted'
  <2> DEFINE K == HooksOf(w, req[w].ran)
  <2>1. Active(w) /\ Others(w) /\ req'[w] = Idle /\ UNCHANGED <<unsure, queue, job>>
    BY <1>4, EndShape DEF IInv, Commit
  <2>2. \A h \in Hook : runs'[h] = IF h \in K THEN runs[h] + 1 ELSE runs[h]
    BY <1>0, <1>4 DEF Commit, Added, HooksOf
  <2>3. \A h : (Out(h)' <=> Out(h)) /\ Extra(h)' = Extra(h) /\ Extra(h) \in Nat
    BY <2>1 DEF Out, Running, Extra
  <2>4. \A h \in K : Out(h) => Extra(h) = 1
    BY <1>0, <2>1 DEF Extra
  <2>5. ASSUME NEW x \in Worker, Active(x)', NEW h \in HooksOf(x, req[x].ran)'
        PROVE  Active(x) /\ h \in HooksOf(x, req[x].ran) /\ h \notin K
    <3>1. req'[x] = req[x] /\ Active(x) /\ x # w
      BY <2>1, <2>5 DEF Others, Active
    <3>2. req[x].event # req[w].event
      BY <2>1, <3>1 DEF IInv, RequestsApart
    <3> QED
      BY <2>5, <3>1, <3>2 DEF HooksOf
  <2>6. \A h \in Hook : runs'[h] <= 1 + Extra(h)' /\ (Out(h)' => runs'[h] <= Extra(h)')
    BY <1>0, <2>1, <2>2, <2>3, <2>4
  <2>7. \A x \in Worker : Active(x)' => \A h \in HooksOf(x, req[x].ran)' :
          runs'[h] <= Extra(h)' /\ (Out(h)' => runs'[h] = 0 /\ h \in unsure')
    BY <1>0, <2>1, <2>2, <2>3, <2>5
  <2> QED
    BY <2>6, <2>7 DEF RunsCounted
<1>5. ASSUME NEW w \in Worker, Abort(w) PROVE RunsCounted'
  BY <1>1, <1>5, EndShape DEF IInv, Abort, Others, Out, Running, Active
<1>6. ASSUME NEW r \in Runner, NEW h \in Hook, Take(r, h) PROVE RunsCounted'
  <2>1. \A k \in Hook : Out(k)' => Out(k)
    BY <1>6 DEF Take, Out, Running, IInv, TypeOK
  <2> QED
    BY <1>1, <1>6, <2>1 DEF Take, Active
<1>7. ASSUME NEW r \in Runner, CommitRun(r) PROVE RunsCounted'
  <2>0. PICK k \in Hook : k = job[r]
    BY <1>7 DEF CommitRun, IInv, TypeOK
  <2>1. k \in Hook /\ Out(k) /\ UNCHANGED <<unsure, queue, req>>
    BY <1>7, <2>0 DEF CommitRun, IInv, TypeOK, Out, Running
  <2>2. \A h \in Hook : runs'[h] = IF h = k THEN runs[h] + 1 ELSE runs[h]
    BY <1>0, <1>7, <2>0, <2>1 DEF CommitRun, IInv, TypeOK
  <2>3. ~Out(k)'
    BY <1>7, <2>0, <2>1, NoneAssumption
       DEF CommitRun, IInv, TypeOK, OneTaker, Out, Running
  <2>4. \A h \in Hook : (Out(h)' => Out(h)) /\ Extra(h)' = Extra(h) /\ Extra(h) \in Nat
    BY <1>7, <2>0, <2>1, NoneAssumption DEF CommitRun, IInv, TypeOK, Out, Running, Extra
  <2>5. \A h \in Hook : runs'[h] <= 1 + Extra(h)' /\ (Out(h)' => runs'[h] <= Extra(h)')
    BY <1>0, <2>1, <2>2, <2>3, <2>4
  <2>6. \A w \in Worker : Active(w)' => Active(w) /\ HooksOf(w, req[w].ran)' \subseteq Hook
                                        /\ HooksOf(w, req[w].ran)' = HooksOf(w, req[w].ran)
    BY <1>0, <2>1 DEF Active, HooksOf
  <2>7. ASSUME NEW w \in Worker, Active(w)', NEW h \in HooksOf(w, req[w].ran)'
        PROVE  runs'[h] <= Extra(h)' /\ (Out(h)' => runs'[h] = 0 /\ h \in unsure')
    <3>1. /\ h \in Hook /\ runs[h] <= Extra(h)
          /\ Out(h) => runs[h] = 0 /\ h \in unsure
      BY <1>0, <2>6, <2>7
    <3>2. CASE h = k
      <4>1. runs'[h] = 1 /\ Extra(h)' = 1
        BY <2>1, <2>2, <2>4, <3>1, <3>2 DEF Extra
      <4> QED
        BY <2>3, <3>2, <4>1
    <3>3. CASE h # k
      BY <2>1, <2>2, <2>4, <3>1, <3>3
    <3> QED
      BY <3>2, <3>3
  <2> QED
    BY <2>5, <2>7 DEF RunsCounted
<1>8. ASSUME NEW r \in Runner, Lose(r) PROVE RunsCounted'
  <2>1. \A k \in Hook : Out(k)' => Out(k)
    BY <1>8, NoneAssumption DEF Lose, Out, Running, IInv, TypeOK
  <2> QED
    BY <1>1, <1>8, <2>1 DEF Lose, Active
<1>9. CASE UNCHANGED <<runs, unsure, queue, job, req>>
  BY <1>1, <1>9 DEF Out, Running, Active
<1> QED
  BY <1>2, <1>3, <1>4, <1>5, <1>6, <1>7, <1>8, <1>9
     DEF Step, Toggle, DeleteModule, vars

LEMMA CasesStep == ASSUME IInv, Step PROVE CasesThere'
<1> USE NoneAssumption DEF CasesThere
<1>1. ASSUME NEW r \in Runner, NEW h \in Hook, Take(r, h)
     PROVE CasesThere'
  BY <1>1 DEF Take, Insertable, IInv, TypeOK
<1>2. ASSUME NEW r \in Runner, CommitRun(r)
     PROVE CasesThere'
  BY <1>2 DEF CommitRun, IInv, TypeOK
<1>3. ASSUME NEW r \in Runner, Lose(r)
     PROVE CasesThere'
  BY <1>3 DEF Lose, IInv, TypeOK
<1>4. CASE UNCHANGED job /\ done \subseteq done'
  BY <1>4 DEF IInv, TypeOK
<1> QED
  BY <1>1, <1>2, <1>3, <1>4
     DEF Step, vars, Fire, Enqueue, RunHere, Refuse, Commit, Abort, Toggle, DeleteModule

\* A noted hook of a case that is there stays answered: a runner that takes its
\* task can insert the row.
LEMMA StaysAnswered ==
  ASSUME IInv, Step, NEW h \in Hook, Answered(h),
         modules[h[2]] # "deleted", h[1] \notin NewCase
  PROVE  Answered(h)'
<1> USE NoneAssumption DEF Answered, Running
<1>1. CASE queue \subseteq queue' /\ UNCHANGED <<job, runs, lost>>
  BY <1>1
<1>2. ASSUME NEW w \in Worker, Commit(w) PROVE Answered(h)'
  <2>1. runs[h] > 0 => runs'[h] > 0
    BY <1>2 DEF Commit, Added, IInv, TypeOK
  <2> QED
    BY <1>2, <2>1 DEF Commit
<1>3. ASSUME NEW r \in Runner, NEW k \in Hook, Take(r, k) PROVE Answered(h)'
  BY <1>3 DEF Take, Insertable, IInv, TypeOK
<1>4. ASSUME NEW r \in Runner, CommitRun(r) PROVE Answered(h)'
  <2>1. runs[h] > 0 \/ job[r] = h => runs'[h] > 0
    BY <1>4 DEF CommitRun, IInv, TypeOK
  <2> QED
    BY <1>4, <2>1 DEF CommitRun, IInv, TypeOK
<1>5. ASSUME NEW r \in Runner, Lose(r) PROVE Answered(h)'
  BY <1>5 DEF Lose, IInv, TypeOK
<1> QED
  BY <1>1, <1>2, <1>3, <1>4, <1>5
     DEF Step, Fire, Enqueue, RunHere, Refuse, Abort, Toggle, DeleteModule, vars

\* The module of a row that is inserted, committed or not, stays.
LEMMA ModuleStays ==
  ASSUME IInv, Step, NEW h \in Hook, modules[h[2]] # "deleted",
         h \in noted \/ \E w \in Worker : Active(w) /\ h \in HooksOf(w, req[w].noted)
  PROVE  modules'[h[2]] # "deleted"
<1>1. h[2] \in Module
  BY HookAssumption
<1>2. ASSUME NEW m \in Module, Toggle(m) PROVE modules'[h[2]] # "deleted"
  BY <1>1, <1>2 DEF Toggle, IInv, TypeOK
<1>3. ASSUME NEW m \in Module, DeleteModule(m) PROVE modules'[h[2]] # "deleted"
  <2>1. Referenced(h[2])
    BY DEF Referenced, HooksOf, Active
  <2> QED
    BY <1>1, <1>3, <2>1 DEF DeleteModule, IInv, TypeOK
<1> QED
  BY <1>2, <1>3
     DEF Step, Fire, Enqueue, RunHere, Refuse, Commit, Abort, Take, CommitRun, Lose, vars

LEMMA NotedStep == ASSUME IInv, Step PROVE NotedAnswered'
<1>1. ASSUME NEW h \in noted' PROVE modules'[h[2]] # "deleted"
  <2>1. h \in Hook
    BY TypeStep DEF TypeOK
  <2>2. h \in noted \/ \E w \in Worker : Active(w) /\ h \in HooksOf(w, req[w].noted)
    <3>1. ASSUME NEW w \in Worker, Commit(w)
          PROVE  Active(w) /\ noted' = noted \cup HooksOf(w, req[w].noted)
      BY <3>1, EndShape DEF Commit, HooksOf, IInv
    <3> QED
      BY <3>1 DEF Step, Fire, Enqueue, RunHere, Refuse, Abort, Take, CommitRun, Lose,
                  Toggle, DeleteModule, vars
  <2> QED
    BY <2>1, <2>2, ModuleStays DEF IInv, NotedAnswered
<1>2. ASSUME NEW w \in Worker, Active(w)', NEW h \in HooksOf(w, req[w].noted)'
      PROVE  modules'[h[2]] # "deleted" /\ (h[1] \notin NewCase => Answered(h)')
  <2>1. h \in Hook
    BY <1>2, ApartStep DEF RequestsApart, HooksOf
  <2>2. ASSUME Active(w), h \in HooksOf(w, req[w].noted)
        PROVE  modules'[h[2]] # "deleted" /\ (h[1] \notin NewCase => Answered(h)')
    BY <2>1, <2>2, ModuleStays, StaysAnswered DEF IInv, NotedAnswered
  <2>3. ASSUME NEW m \in Module, Enqueue(w, m),
               ~(Active(w) /\ h \in HooksOf(w, req[w].noted))
        PROVE  modules'[h[2]] # "deleted" /\ (h[1] \notin NewCase => Answered(h)')
    <3>0. Active(w)
      BY <2>3, Dispatched DEF Enqueue
    <3>1. h = <<req[w].event, m>> /\ modules[m] # "deleted"
      BY <1>2, <2>3, <3>0, EnqueueShape DEF HooksOf, SameEvent, IInv
    <3>2. h \in queue' /\ modules' = modules /\ h[2] = m
      BY <2>3, <3>1 DEF Enqueue
    <3> QED
      BY <3>1, <3>2 DEF Answered
  <2>4. ASSUME NEW e \in Event, Fire(w, e) PROVE FALSE
    BY <1>2, <2>4, FireShape DEF HooksOf, IInv
  <2>5. \/ Active(w) /\ h \in HooksOf(w, req[w].noted)
        \/ \E m \in Module : Enqueue(w, m)
    <3>1. CASE req'[w] = req[w]
      BY <1>2, <3>1 DEF Active, HooksOf
    <3>2. ASSUME NEW m \in Module, RunHere(w, m)
          PROVE  Active(w) /\ h \in HooksOf(w, req[w].noted)
      BY <1>2, <3>2, RunHereShape, Requests DEF HooksOf, SameEvent, IInv
    <3>3. ~Commit(w) /\ ~Abort(w)
      BY <1>2, EndShape DEF IInv, Active
    <3>4. ASSUME NEW x \in Worker, x # w,
                 \/ \E e \in Event : Fire(x, e)
                 \/ \E m \in Module : Enqueue(x, m) \/ RunHere(x, m)
                 \/ Commit(x) \/ Abort(x)
          PROVE  req'[w] = req[w]
      BY <3>4, FireShape, EnqueueShape, RunHereShape, EndShape DEF IInv, Others
    <3> QED
      BY <2>4, <3>1, <3>2, <3>3, <3>4
         DEF Step, Take, CommitRun, Lose, Toggle, DeleteModule, vars
  <2> QED
    BY <2>2, <2>3, <2>5
<1> QED
  BY <1>1, <1>2 DEF NotedAnswered

LEMMA QueuedStep == ASSUME IInv, Step PROVE QueuedIsAnswered'
<1> SUFFICES ASSUME NEW h \in noted', h[1] \notin NewCase
             PROVE  Answered(h)'
  BY DEF QueuedIsAnswered
<1>1. h \in Hook
  BY TypeStep DEF TypeOK
<1>2. CASE h \in noted
  BY <1>1, <1>2, StaysAnswered DEF IInv, QueuedIsAnswered, NotedAnswered
<1>3. ASSUME NEW w \in Worker, Commit(w), h \notin noted PROVE Answered(h)'
  <2>1. Active(w) /\ h \in HooksOf(w, req[w].noted)
    BY <1>3, EndShape DEF Commit, HooksOf, IInv
  <2> QED
    BY <1>1, <2>1, StaysAnswered DEF IInv, NotedAnswered
<1> QED
  BY <1>2, <1>3 DEF Step, Fire, Enqueue, RunHere, Refuse, Abort, Take, CommitRun, Lose,
                    Toggle, DeleteModule, vars

LEMMA WritesStep == ASSUME IInv, Step PROVE WritesAccounted'
<1> USE DEF WritesAccounted
<1>1. ASSUME NEW w \in Worker, Commit(w)
     PROVE WritesAccounted'
  <2>1. req[w].wrote \subseteq req[w].ran
    BY <1>1, EndShape DEF IInv, RequestsApart
  <2> QED
    BY <1>1, <2>1 DEF Commit, Added, IInv, TypeOK
<1>2. ASSUME NEW r \in Runner, CommitRun(r)
     PROVE WritesAccounted'
  BY <1>2 DEF CommitRun, IInv, TypeOK
<1>3. CASE UNCHANGED <<wrote, runs>>
  BY <1>3 DEF IInv
<1> QED
  BY <1>1, <1>2, <1>3
     DEF Step, vars, Fire, Enqueue, RunHere, Refuse, Abort, Take, Lose, Toggle, DeleteModule

LEMMA RunCaseStep == ASSUME IInv, Step PROVE NoRunWithoutCase'
<1> USE DEF NoRunWithoutCase
<1>1. ASSUME NEW w \in Worker, Commit(w)
     PROVE NoRunWithoutCase'
  <2>1. \A h \in Hook : h[1] # req[w].event => runs'[h] = runs[h]
    BY <1>1 DEF Commit, Added, IInv, TypeOK
  <2> QED
    BY <1>1, <2>1 DEF Commit, IInv
<1>2. ASSUME NEW r \in Runner, CommitRun(r)
     PROVE NoRunWithoutCase'
  <2>1. \A h \in Hook : h # job[r] => runs'[h] = runs[h]
    BY <1>2 DEF CommitRun, IInv, TypeOK
  <2> QED
    BY <1>2, <2>1 DEF CommitRun, IInv, CasesThere
<1>3. CASE UNCHANGED runs /\ done \subseteq done'
  BY <1>3 DEF IInv
<1> QED
  BY <1>1, <1>2, <1>3
     DEF Step, vars, Fire, Enqueue, RunHere, Refuse, Abort, Take, Lose, Toggle, DeleteModule

-----------------------------------------------------------------------------
(* The theorems                                                            *)

THEOREM Invariance == Spec => []IInv
<1>1. Init => IInv
  BY InitIInv
<1>2. IInv /\ [Next]_vars => IInv'
  <2> SUFFICES ASSUME IInv, [Next]_vars PROVE IInv'
    OBVIOUS
  <2>1. Step
    BY StepsOfNext
  <2> QED
    BY <2>1, TypeStep, ApartStep, FreshStep, TakerStep, CountedStep, CasesStep, NotedStep,
       QueuedStep, WritesStep, RunCaseStep DEF IInv
<1> QED
  BY <1>1, <1>2, PTL DEF Spec

\* Type correctness of requests, runners, queue and rows.
THEOREM TypeCorrect == Spec => []TypeOK
  BY Invariance, PTL DEF IInv

\* A hook recorded as queued is with the broker, being run or has run, or a
\* runner was lost over it: whatever the order of commit, run and deletion.
THEOREM QueuedAnswered == Spec => []QueuedIsAnswered
  BY Invariance, PTL DEF IInv

\* A module runs once for an event, for a request that may dispatch it, fall
\* back and abort while runners work; twice only if the broker took a task that
\* it reported refused.
THEOREM RunAtMostOnce == Spec => []RunsOnce
<1>1. IInv => RunsOnce
  BY DEF IInv, RunsCounted, RunsOnce, Extra
<1> QED
  BY <1>1, Invariance, PTL

\* What a module has written stays only beside the row of its execution.
THEOREM WritesBelong == Spec => []WritesAccounted
  BY Invariance, PTL DEF IInv

\* Executions about a new case come after the commit that creates it.
THEOREM RunsHaveCase == Spec => []NoRunWithoutCase
  BY Invariance, PTL DEF IInv
-----------------------------------------------------------------------------
(* Enrichment: the invariant                                               *)

\* The job, and the result, of a pair that a request matched.
JobOf(t, p) == <<t, p[1], p[2]>>

\* A deletion between its DELETE and its commit has its row to itself.
DeletionsApart ==
  /\ \A d \in Deleter : del[d].step = "deleted" => del[d].row \in there
  /\ \A d, f \in Deleter :
       del[d].step = "deleted" /\ del[f] = del[d] => f = d

\* The DELETE of a source found no result, and no result has come since.
DeletedSourcesEmpty == \A s \in Source : Deleting(s) => Of(s) = {}

\* The foreign keys of an uncommitted result hold.
StubsHold ==
  \A t \in Trigger : trig[t].step = "queueing" =>
    \A p \in trig[t].stubs : \A x \in {p[1], p[2]} : x \in there /\ ~ Deleting(x)

\* What the request has gone through has a job or a result; a result can only
\* have gone with its observable.
PairsBacked ==
  \A t \in Trigger : \A p \in trig[t].listed \ trig[t].todo :
    \/ jobs[JobOf(t, p)] # "none"
    \/ trig[t].step = "queueing" /\ p \in trig[t].stubs
    \/ trig[t].step = "committed" /\ (JobOf(t, p) \in results \/ p[1] \in gone)

\* A request commits when it has gone through every pair.
CommittedWhole == \A t \in Trigger : trig[t].step = "committed" => trig[t].todo = {}

EnrichmentInv == /\ EnrichmentTypeOK /\ DeletionsApart /\ DeletedSourcesEmpty
                 /\ StubsHold /\ PairsBacked /\ CommittedWhole

\* The invariant says what the committed entries promise.
LEMMA InvBacks == ASSUME EnrichmentInv PROVE EntryBacked
<1> SUFFICES ASSUME NEW t \in Trigger, trig[t].step = "committed",
                    NEW p \in trig[t].listed, p[1] \in there
             PROVE  jobs[JobOf(t, p)] # "none" \/ JobOf(t, p) \in results
  BY DEF EntryBacked, JobOf
<1>1. p \in trig[t].listed \ trig[t].todo /\ p[1] \notin gone
  BY DEF EnrichmentInv, CommittedWhole, EnrichmentTypeOK
<1> QED
  BY <1>1 DEF EnrichmentInv, PairsBacked

LEMMA InitEnrichmentInv == ASSUME EnrichmentInit PROVE EnrichmentInv
<1> USE DEF EnrichmentInit
<1>1. \A t \in Trigger : /\ trig[t].step = "unsent" /\ trig[t].listed = {}
                         /\ trig[t].todo = {} /\ trig[t].stubs = {}
  BY DEF Asked
<1>2. \A d \in Deleter : del[d].step = "idle"
  BY DEF NoDeletion
<1>3. EnrichmentTypeOK
  BY <1>1 DEF EnrichmentTypeOK, Asked
<1>4. DeletionsApart /\ DeletedSourcesEmpty
  BY <1>2 DEF DeletionsApart, DeletedSourcesEmpty, Deleting, Of
<1>5. StubsHold /\ PairsBacked /\ CommittedWhole
  BY <1>1 DEF StubsHold, PairsBacked, CommittedWhole
<1> QED
  BY <1>3, <1>4, <1>5 DEF EnrichmentInv
-----------------------------------------------------------------------------
(* Enrichment: the steps                                                   *)

\* The disjuncts of EnrichmentNext.
EnrichmentStep ==
  \/ \E S \in SUBSET Observable : CreateObservables(S)
  \/ \E s \in Source, types \in SUBSET Type : CreateSource(s, types)
  \/ \E s \in Source, types \in SUBSET Type : UpdateSource(s, types)
  \/ \E d \in Deleter, x \in Row : LoadDelete(d, x)
  \/ \E d \in Deleter : FlushDelete(d)
  \/ \E d \in Deleter : CommitDelete(d)
  \/ \E d \in Deleter : AbortDelete(d)
  \/ \E t \in Trigger, O \in SUBSET Observable, S \in SUBSET Source : StartTrigger(t, O, S)
  \/ \E t \in Trigger, p \in Pair : Queue(t, p)
  \/ \E t \in Trigger, p \in Pair : FallBack(t, p)
  \/ \E t \in Trigger : CommitTrigger(t)
  \/ \E t \in Trigger : AbortTrigger(t)
  \/ \E j \in Job : TakeJob(j)
  \/ \E j \in Job : Record(j)
  \/ \E j \in Job : Fail(j) \/ Crash(j)
  \/ UNCHANGED enrichmentVars

LEMMA StepsOfEnrichment == ASSUME [EnrichmentNext]_enrichmentVars PROVE EnrichmentStep
  BY DEF EnrichmentNext, EnrichmentStep

TriggerRecord == [step : {"unsent", "queueing", "committed", "aborted"},
                  listed : SUBSET Pair, todo : SUBSET Pair, stubs : SUBSET Pair]

\* A step that changes the record of one request, and leaves this there.
Becomes(t, step, listed, todo, stubs) ==
  /\ trig' \in [Trigger -> TriggerRecord]
  /\ \A u \in Trigger : u # t => trig'[u] = trig[u]
  /\ trig'[t].step = step /\ trig'[t].listed = listed
  /\ trig'[t].todo = todo /\ trig'[t].stubs = stubs

LEMMA TriggerType ==
  ASSUME EnrichmentTypeOK
  PROVE  trig \in [Trigger -> TriggerRecord]
  BY DEF EnrichmentTypeOK, TriggerRecord

LEMMA StartShape ==
  ASSUME EnrichmentTypeOK, NEW t \in Trigger, NEW O \in SUBSET Observable,
         NEW S \in SUBSET Source, StartTrigger(t, O, S)
  PROVE  Becomes(t, "queueing", Matching(O, S), Matching(O, S), {})
<1>1. Matching(O, S) \subseteq Pair
  BY DEF Matching, Pair
<1> QED
  BY <1>1, TriggerType DEF StartTrigger, Asked, Becomes, TriggerRecord

LEMMA QueueShape ==
  ASSUME EnrichmentTypeOK, NEW t \in Trigger, NEW p, Queue(t, p)
  PROVE  Becomes(t, "queueing", trig[t].listed, trig[t].todo \ {p}, trig[t].stubs)
<1>1. trig[t] \in TriggerRecord
  BY TriggerType
<1> QED
  BY <1>1, TriggerType DEF Queue, Becomes, TriggerRecord

LEMMA FallBackShape ==
  ASSUME EnrichmentTypeOK, NEW t \in Trigger, NEW p \in Pair, FallBack(t, p)
  PROVE  Becomes(t, "queueing", trig[t].listed, trig[t].todo \ {p}, trig[t].stubs \cup {p})
<1>1. trig[t] \in TriggerRecord
  BY TriggerType
<1>2. trig' = [trig EXCEPT ![t] = [trig[t] EXCEPT !.todo = trig[t].todo \ {p},
                                                  !.stubs = trig[t].stubs \cup {p}]]
  BY <1>1, TriggerType DEF FallBack, TriggerRecord
<1>3. trig[t].step = "queueing"
  BY DEF FallBack
<1> QED
  BY <1>1, <1>2, <1>3, TriggerType DEF Becomes, TriggerRecord

LEMMA CommitShape ==
  ASSUME EnrichmentTypeOK, NEW t \in Trigger, CommitTrigger(t)
  PROVE  Becomes(t, "committed", trig[t].listed, {}, trig[t].stubs)
<1>1. trig[t] \in TriggerRecord
  BY TriggerType
<1> QED
  BY <1>1, TriggerType DEF CommitTrigger, Becomes, TriggerRecord

LEMMA AbortShape ==
  ASSUME EnrichmentTypeOK, NEW t \in Trigger, AbortTrigger(t)
  PROVE  Becomes(t, "aborted", {}, {}, {})
  BY TriggerType DEF AbortTrigger, Asked, Becomes, TriggerRecord




-----------------------------------------------------------------------------
(* Enrichment: preservation, conjunct by conjunct                          *)

\* Such a step keeps the types.
LEMMA BecomesTyped ==
  ASSUME EnrichmentTypeOK, NEW t \in Trigger, NEW step, NEW listed, NEW todo, NEW stubs,
         Becomes(t, step, listed, todo, stubs),
         todo \subseteq listed, stubs \subseteq listed \ todo,
         UNCHANGED <<there, gone, serves, del>>,
         jobs' \in [Job -> {"none", "queued", "running", "done", "lost"}],
         results' \subseteq {j \in Job : {j[2], j[3]} \subseteq there}
  PROVE  EnrichmentTypeOK'
<1>1. trig' \in [Trigger -> TriggerRecord]
  BY DEF Becomes
<1>2. \A u \in Trigger : /\ trig[u].todo \subseteq trig[u].listed
                         /\ trig[u].stubs \subseteq trig[u].listed \ trig[u].todo
  BY DEF EnrichmentTypeOK
<1>3. \A u \in Trigger : /\ trig'[u].todo \subseteq trig'[u].listed
                         /\ trig'[u].stubs \subseteq trig'[u].listed \ trig'[u].todo
  BY <1>2 DEF Becomes
<1> QED
  BY <1>1, <1>3 DEF EnrichmentTypeOK, TriggerRecord

LEMMA TriggerTypeStep ==
  ASSUME EnrichmentTypeOK, StubsHold, NEW t \in Trigger,
         \/ \E O \in SUBSET Observable, S \in SUBSET Source : StartTrigger(t, O, S)
         \/ \E p \in Pair : Queue(t, p)
         \/ \E p \in Pair : FallBack(t, p)
         \/ CommitTrigger(t)
         \/ AbortTrigger(t)
  PROVE  EnrichmentTypeOK'
<1>1. /\ trig[t].todo \subseteq trig[t].listed
      /\ trig[t].stubs \subseteq trig[t].listed \ trig[t].todo
      /\ jobs \in [Job -> {"none", "queued", "running", "done", "lost"}]
      /\ results \subseteq {j \in Job : {j[2], j[3]} \subseteq there}
  BY DEF EnrichmentTypeOK
<1>2. ASSUME NEW O \in SUBSET Observable, NEW S \in SUBSET Source, StartTrigger(t, O, S)
      PROVE  EnrichmentTypeOK'
  <2>1. UNCHANGED <<there, gone, serves, jobs, results, del>>
    BY <1>2 DEF StartTrigger
  <2> QED
    BY <1>1, <1>2, <2>1, StartShape, BecomesTyped
<1>3. ASSUME NEW p \in Pair, Queue(t, p)
      PROVE  EnrichmentTypeOK'
  <2>1. /\ UNCHANGED <<there, gone, serves, results, del>>
        /\ jobs' \in [Job -> {"none", "queued", "running", "done", "lost"}]
    BY <1>1, <1>3 DEF Queue
  <2>2. /\ trig[t].todo \ {p} \subseteq trig[t].listed
        /\ trig[t].stubs \subseteq trig[t].listed \ (trig[t].todo \ {p})
    BY <1>1
  <2>3. Becomes(t, "queueing", trig[t].listed, trig[t].todo \ {p}, trig[t].stubs)
    BY <1>3, QueueShape
  <2> QED
    BY <1>1, <2>1, <2>2, <2>3, BecomesTyped
<1>4. ASSUME NEW p \in Pair, FallBack(t, p)
      PROVE  EnrichmentTypeOK'
  <2>1. UNCHANGED <<there, gone, serves, jobs, results, del>> /\ p \in trig[t].todo
    BY <1>4 DEF FallBack
  <2>2. /\ trig[t].todo \ {p} \subseteq trig[t].listed
        /\ trig[t].stubs \cup {p} \subseteq trig[t].listed \ (trig[t].todo \ {p})
    BY <1>1, <2>1
  <2>3. Becomes(t, "queueing", trig[t].listed, trig[t].todo \ {p}, trig[t].stubs \cup {p})
    BY <1>4, FallBackShape
  <2> QED
    BY <1>1, <2>1, <2>2, <2>3, BecomesTyped
<1>5. CASE CommitTrigger(t)
  <2>1. \A p \in trig[t].stubs : p \in Pair /\ {p[1], p[2]} \subseteq there
    BY <1>5, TriggerType DEF CommitTrigger, StubsHold, TriggerRecord
  <2>2. /\ UNCHANGED <<there, gone, serves, jobs, del>>
        /\ results' \subseteq {j \in Job : {j[2], j[3]} \subseteq there}
    BY <1>1, <1>5, <2>1 DEF CommitTrigger, Job, Pair
  <2> QED
    BY <1>1, <1>5, <2>2, CommitShape, BecomesTyped
<1>6. CASE AbortTrigger(t)
  <2>1. UNCHANGED <<there, gone, serves, jobs, results, del>>
    BY <1>6 DEF AbortTrigger
  <2> QED
    BY <1>1, <1>6, <2>1, AbortShape, BecomesTyped
<1> QED
  BY <1>2, <1>3, <1>4, <1>5, <1>6




LEMMA EnrichmentTypeStep == ASSUME EnrichmentInv, EnrichmentStep PROVE EnrichmentTypeOK'
<1> USE DEF EnrichmentInv, EnrichmentTypeOK
<1>1. ASSUME NEW S \in SUBSET Observable, CreateObservables(S)
      PROVE  EnrichmentTypeOK'
  BY <1>1 DEF CreateObservables, Row
<1>2. ASSUME NEW s \in Source, NEW types \in SUBSET Type, CreateSource(s, types)
      PROVE  EnrichmentTypeOK'
  BY <1>2 DEF CreateSource, Row
<1>3. ASSUME NEW s \in Source, NEW types \in SUBSET Type, UpdateSource(s, types)
      PROVE  EnrichmentTypeOK'
  BY <1>3 DEF UpdateSource
<1>4. ASSUME NEW d \in Deleter, NEW x \in Row, LoadDelete(d, x)
      PROVE  EnrichmentTypeOK'
  BY <1>4 DEF LoadDelete
<1>5. ASSUME NEW d \in Deleter, FlushDelete(d)
      PROVE  EnrichmentTypeOK'
  <2>1. del[d] \in [step : {"delete", "deleted"}, row : Row]
    BY <1>5 DEF FlushDelete, NoDeletion
  <2> QED
    BY <1>5, <2>1 DEF FlushDelete
<1>6. ASSUME NEW d \in Deleter, CommitDelete(d)
      PROVE  EnrichmentTypeOK'
  <2>1. del[d] \in [step : {"delete", "deleted"}, row : Row] /\ del[d].row \in Row
    BY <1>6 DEF CommitDelete, NoDeletion
  <2>2. \A j \in results' : j \in Job /\ {j[2], j[3]} \subseteq there'
    BY <1>6 DEF CommitDelete, Of
  <2> QED
    BY <1>6, <2>1, <2>2 DEF CommitDelete
<1>7. ASSUME NEW d \in Deleter, AbortDelete(d)
      PROVE  EnrichmentTypeOK'
  BY <1>7 DEF AbortDelete
<1>8. ASSUME NEW t \in Trigger,
             \/ \E O \in SUBSET Observable, S \in SUBSET Source : StartTrigger(t, O, S)
             \/ \E p \in Pair : Queue(t, p)
             \/ \E p \in Pair : FallBack(t, p)
             \/ CommitTrigger(t)
             \/ AbortTrigger(t)
      PROVE  EnrichmentTypeOK'
  <2> HIDE DEF EnrichmentTypeOK
  <2> QED
    BY <1>8, TriggerTypeStep
<1>9. ASSUME NEW j \in Job, TakeJob(j)
       PROVE  EnrichmentTypeOK'
  BY <1>9 DEF TakeJob
<1>10. ASSUME NEW j \in Job, Record(j)
       PROVE  EnrichmentTypeOK'
  BY <1>10 DEF Record
<1>11. ASSUME NEW j \in Job, Fail(j) \/ Crash(j)
       PROVE  EnrichmentTypeOK'
  BY <1>11 DEF Fail, Crash
<1>12. CASE UNCHANGED enrichmentVars
  BY <1>12 DEF enrichmentVars
<1> QED
  BY <1>1, <1>2, <1>3, <1>4, <1>5, <1>6, <1>7, <1>8, <1>9, <1>10, <1>11, <1>12
     DEF EnrichmentStep

\* Deletions: the other deletions' records, and the rows that are taken away.
LEMMA ApartDeletions == ASSUME EnrichmentInv, EnrichmentStep PROVE DeletionsApart'
<1> USE DEF EnrichmentInv, EnrichmentTypeOK
<1>1. CASE UNCHANGED del /\ there \subseteq there'
  BY <1>1 DEF DeletionsApart
<1>2. ASSUME NEW d \in Deleter, NEW x \in Row, LoadDelete(d, x)
      PROVE  DeletionsApart'
  BY <1>2 DEF DeletionsApart, LoadDelete
<1>3. ASSUME NEW d \in Deleter, FlushDelete(d)
      PROVE  DeletionsApart'
  <2>1. /\ del[d] \in [step : {"delete", "deleted"}, row : Row]
        /\ del[d].row \in there /\ ~ Deleting(del[d].row)
    BY <1>3 DEF FlushDelete, NoDeletion
  <2>2. /\ del' = [del EXCEPT ![d] = [del[d] EXCEPT !.step = "deleted"]]
        /\ [del[d] EXCEPT !.step = "deleted"] = [step |-> "deleted", row |-> del[d].row]
    BY <1>3, <2>1 DEF FlushDelete
  <2>3. \A f \in Deleter : del[f] # [step |-> "deleted", row |-> del[d].row]
    BY <2>1 DEF Deleting
  <2> QED
    BY <1>3, <2>1, <2>2, <2>3 DEF DeletionsApart, FlushDelete
<1>4. ASSUME NEW d \in Deleter, CommitDelete(d)
      PROVE  DeletionsApart'
  <2>1. \A f \in Deleter : f # d => del'[f] = del[f]
    BY <1>4 DEF CommitDelete
  <2>2. del'[d].step # "deleted"
    BY <1>4 DEF CommitDelete, NoDeletion
  <2>3. ASSUME NEW f \in Deleter, f # d, del[f].step = "deleted"
        PROVE  del[f].row # del[d].row
    <3>1. del[f] \in [step : {"delete", "deleted"}, row : Row]
          /\ del[d] \in [step : {"delete", "deleted"}, row : Row]
      BY <1>4, <2>3 DEF CommitDelete, NoDeletion
    <3>2. del[f] # del[d]
      BY <1>4, <2>3 DEF DeletionsApart, CommitDelete
    <3> QED
      BY <1>4, <2>3, <3>1, <3>2 DEF CommitDelete
  <2> QED
    BY <1>4, <2>1, <2>2, <2>3 DEF DeletionsApart, CommitDelete
<1>5. ASSUME NEW d \in Deleter, AbortDelete(d)
      PROVE  DeletionsApart'
  BY <1>5 DEF DeletionsApart, AbortDelete, NoDeletion
<1> QED
  BY <1>1, <1>2, <1>3, <1>4, <1>5
     DEF EnrichmentStep, CreateObservables, CreateSource, UpdateSource, StartTrigger, Queue,
         FallBack, CommitTrigger, AbortTrigger, TakeJob, Record, Fail, Crash, enrichmentVars

\* Only a DELETE makes a row one that is being deleted.
LEMMA NewlyDeleting ==
  ASSUME EnrichmentInv, EnrichmentStep, NEW x, Deleting(x)', ~ Deleting(x)
  PROVE  /\ ~ Holding(x) /\ (x \in Source => Of(x) = {})
         /\ UNCHANGED <<there, trig, results>>
<1> USE DEF EnrichmentInv, EnrichmentTypeOK
<1>1. PICK d \in Deleter : del'[d] = [step |-> "deleted", row |-> x]
  BY DEF Deleting
<1>2. del[d] # del'[d]
  BY <1>1 DEF Deleting
<1>3. PICK f \in Deleter : FlushDelete(f)
  <2>1. \A f \in Deleter, y \in Row : ~ LoadDelete(f, y)
    BY <1>1, <1>2 DEF LoadDelete
  <2>2. \A f \in Deleter : ~ CommitDelete(f) /\ ~ AbortDelete(f)
    BY <1>1, <1>2 DEF CommitDelete, AbortDelete, NoDeletion
  <2> QED
    BY <1>2, <2>1, <2>2
       DEF EnrichmentStep, CreateObservables, CreateSource, UpdateSource, StartTrigger, Queue,
           FallBack, CommitTrigger, AbortTrigger, TakeJob, Record, Fail, Crash, enrichmentVars
<1>4. f = d
  BY <1>2, <1>3 DEF FlushDelete
<1>5. del[d] \in [step : {"delete", "deleted"}, row : Row]
  BY <1>3, <1>4 DEF FlushDelete, NoDeletion
<1>6. del[d].row = x
  BY <1>1, <1>3, <1>4, <1>5 DEF FlushDelete
<1> QED
  BY <1>3, <1>4, <1>6 DEF FlushDelete

\* What a step adds to the results has its rows to itself; what it takes away goes
\* with the row that is deleted.
LEMMA ResultsChange ==
  ASSUME EnrichmentInv, EnrichmentStep
  PROVE  /\ \A j \in results' \ results : ~ Deleting(j[2]) /\ ~ Deleting(j[3])
         /\ \A j \in results \ results' : j[2] \in gone'
<1> USE DEF EnrichmentInv, EnrichmentTypeOK
<1>1. ASSUME NEW d \in Deleter, CommitDelete(d)
      PROVE  \A j \in results \ results' : j[2] \in gone'
  <2>1. del[d] = [step |-> "deleted", row |-> del[d].row]
    BY <1>1 DEF CommitDelete, NoDeletion
  <2>2. Deleting(del[d].row)
    BY <2>1 DEF Deleting
  <2>3. ASSUME NEW j \in Of(del[d].row) PROVE j[2] = del[d].row
    <3>1. j[3] \in Source /\ j \in Of(j[3])
      BY <2>3 DEF Of, Job
    <3>2. j[3] # del[d].row
      BY <2>2, <3>1 DEF DeletedSourcesEmpty
    <3> QED
      BY <2>3, <3>2 DEF Of
  <2> QED
    BY <1>1, <2>3 DEF CommitDelete
<1>2. ASSUME NEW t \in Trigger, CommitTrigger(t)
      PROVE  \A j \in results' \ results : ~ Deleting(j[2]) /\ ~ Deleting(j[3])
  <2>1. \A p \in trig[t].stubs : ~ Deleting(p[1]) /\ ~ Deleting(p[2])
    BY <1>2 DEF CommitTrigger, StubsHold
  <2> QED
    BY <1>2, <2>1 DEF CommitTrigger
<1>3. ASSUME NEW j \in Job, Record(j)
      PROVE  \A k \in results' \ results : ~ Deleting(k[2]) /\ ~ Deleting(k[3])
  BY <1>3 DEF Record
<1> QED
  BY <1>1, <1>2, <1>3
     DEF EnrichmentStep, CreateObservables, CreateSource, UpdateSource, StartTrigger, Queue,
         LoadDelete, FlushDelete, CommitDelete, AbortDelete, CommitTrigger, Record,
         FallBack, AbortTrigger, TakeJob, Fail, Crash, enrichmentVars

LEMMA EmptySources == ASSUME EnrichmentInv, EnrichmentStep PROVE DeletedSourcesEmpty'
<1> SUFFICES ASSUME NEW s \in Source, Deleting(s)', NEW j \in results', s \in {j[2], j[3]}
             PROVE  FALSE
  BY DEF DeletedSourcesEmpty, Of
<1>1. CASE ~ Deleting(s)
  BY <1>1, NewlyDeleting DEF Of
<1>2. CASE Deleting(s)
  <2>1. j \notin results
    BY <1>2 DEF EnrichmentInv, DeletedSourcesEmpty, Of
  <2> QED
    BY <1>2, <2>1, ResultsChange
<1> QED
  BY <1>1, <1>2

LEMMA HeldStubs == ASSUME EnrichmentInv, EnrichmentStep PROVE StubsHold'
<1> SUFFICES ASSUME NEW t \in Trigger, trig'[t].step = "queueing",
                    NEW p \in trig'[t].stubs, NEW x \in {p[1], p[2]}
             PROVE  x \in there' /\ ~ Deleting(x)'
  BY DEF StubsHold
<1>1. EnrichmentTypeOK /\ StubsHold /\ DeletionsApart
  BY DEF EnrichmentInv
<1>2. /\ trig[t].step = "queueing"
      /\ p \in trig[t].stubs \/ (x \in there /\ ~ Deleting(x) /\ UNCHANGED <<there, del>>)
  <2>1. CASE trig'[t] = trig[t]
    BY <2>1
  <2>2. CASE \E O \in SUBSET Observable, S \in SUBSET Source : StartTrigger(t, O, S)
    BY <1>1, <2>2, StartShape DEF Becomes
  <2>3. ASSUME NEW q \in Pair, Queue(t, q)
        PROVE  trig[t].step = "queueing" /\ p \in trig[t].stubs
    BY <1>1, <2>3, QueueShape DEF Becomes, Queue
  <2>4. ASSUME NEW q \in Pair, FallBack(t, q)
        PROVE  /\ trig[t].step = "queueing"
               /\ p \in trig[t].stubs \/ (x \in there /\ ~ Deleting(x) /\ UNCHANGED <<there, del>>)
    <3>1. p \in trig[t].stubs \/ p = q
      BY <1>1, <2>4, FallBackShape DEF Becomes
    <3> QED
      BY <2>4, <3>1 DEF FallBack
  <2>5. ~ CommitTrigger(t) /\ ~ AbortTrigger(t)
    <3>1. ASSUME CommitTrigger(t) PROVE FALSE
      BY <1>1, <3>1, CommitShape DEF Becomes
    <3>2. ASSUME AbortTrigger(t) PROVE FALSE
      BY <1>1, <3>2, AbortShape DEF Becomes
    <3> QED
      BY <3>1, <3>2
  <2>6. ASSUME NEW u \in Trigger, u # t,
               \/ \E O \in SUBSET Observable, S \in SUBSET Source : StartTrigger(u, O, S)
               \/ \E q \in Pair : Queue(u, q) \/ FallBack(u, q)
               \/ CommitTrigger(u) \/ AbortTrigger(u)
        PROVE  trig'[t] = trig[t]
    BY <1>1, <2>6, StartShape, QueueShape, FallBackShape, CommitShape, AbortShape DEF Becomes
  <2> QED
    BY <2>1, <2>2, <2>3, <2>4, <2>5, <2>6
       DEF EnrichmentStep, CreateObservables, CreateSource, UpdateSource, LoadDelete,
           FlushDelete, CommitDelete, AbortDelete, TakeJob, Record, Fail, Crash, enrichmentVars
<1>3. x \in there /\ ~ Deleting(x)
  BY <1>1, <1>2 DEF StubsHold
<1>4. ASSUME Deleting(x)' PROVE FALSE
  <2>1. ~ Holding(x) /\ UNCHANGED trig
    BY <1>3, <1>4, NewlyDeleting
  <2>2. p \in trig[t].stubs
    BY <2>1
  <2> QED
    BY <1>2, <2>1, <2>2 DEF Holding
<1>5. x \in there'
  <2>1. ASSUME NEW d \in Deleter, CommitDelete(d) PROVE x # del[d].row
    <3>1. del[d] = [step |-> "deleted", row |-> del[d].row]
      BY <1>1, <2>1 DEF CommitDelete, NoDeletion, EnrichmentTypeOK
    <3> QED
      BY <1>3, <3>1 DEF Deleting
  <2> QED
    BY <1>3, <2>1
       DEF EnrichmentStep, CreateObservables, CreateSource, UpdateSource, LoadDelete,
           FlushDelete, CommitDelete, AbortDelete, TakeJob, Record, Fail, Crash,
           StartTrigger, Queue, FallBack, CommitTrigger, AbortTrigger, enrichmentVars
<1> QED
  BY <1>4, <1>5

\* A pair the request has gone through stays answered.
LEMMA BackedPairs == ASSUME EnrichmentInv, EnrichmentStep PROVE PairsBacked'
<1> SUFFICES ASSUME NEW t \in Trigger, NEW p \in trig'[t].listed \ trig'[t].todo
             PROVE  \/ jobs'[JobOf(t, p)] # "none"
                    \/ trig'[t].step = "queueing" /\ p \in trig'[t].stubs
                    \/ trig'[t].step = "committed" /\ (JobOf(t, p) \in results' \/ p[1] \in gone')
  BY DEF PairsBacked, JobOf
<1> USE DEF JobOf
<1>1. EnrichmentTypeOK /\ PairsBacked
  BY DEF EnrichmentInv
<1>2. ASSUME NEW j \in Job, jobs[j] # "none" PROVE jobs'[j] # "none"
  BY <1>1, <1>2
     DEF EnrichmentTypeOK, EnrichmentStep, CreateObservables, CreateSource, UpdateSource,
         LoadDelete, FlushDelete, CommitDelete, AbortDelete, TakeJob, Record, Fail, Crash,
         StartTrigger, Queue, FallBack, CommitTrigger, AbortTrigger, enrichmentVars
<1>3. gone \subseteq gone'
  BY DEF EnrichmentStep, CreateObservables, CreateSource, UpdateSource,
         LoadDelete, FlushDelete, CommitDelete, AbortDelete, TakeJob, Record, Fail, Crash,
         StartTrigger, Queue, FallBack, CommitTrigger, AbortTrigger, enrichmentVars
<1>4. CASE trig'[t] = trig[t]
  <2>1. p \in trig[t].listed \ trig[t].todo /\ p \in Pair
    BY <1>1, <1>4, TriggerType DEF TriggerRecord
  <2>2. JobOf(t, p) \in Job
    BY <2>1 DEF Job, Pair
  <2>3. CASE jobs[JobOf(t, p)] # "none"
    BY <1>2, <2>2, <2>3
  <2>4. CASE trig[t].step = "queueing" /\ p \in trig[t].stubs
    BY <1>4, <2>4
  <2>5. CASE trig[t].step = "committed" /\ p[1] \in gone
    BY <1>3, <1>4, <2>5
  <2>6. CASE trig[t].step = "committed" /\ JobOf(t, p) \in results
    <3>1. JobOf(t, p) \in results' \/ p[1] \in gone'
      BY <2>6, ResultsChange
    <3> QED
      BY <1>4, <2>6, <3>1
  <2> QED
    BY <1>1, <2>1, <2>3, <2>4, <2>5, <2>6 DEF PairsBacked
<1>5. ASSUME NEW O \in SUBSET Observable, NEW S \in SUBSET Source, StartTrigger(t, O, S)
      PROVE  FALSE
  BY <1>1, <1>5, StartShape DEF Becomes
<1>6. ASSUME NEW q \in Pair, Queue(t, q)
      PROVE  \/ jobs'[JobOf(t, p)] # "none"
             \/ trig'[t].step = "queueing" /\ p \in trig'[t].stubs
  <2>1. Becomes(t, "queueing", trig[t].listed, trig[t].todo \ {q}, trig[t].stubs)
    BY <1>1, <1>6, QueueShape
  <2>2. p \in Pair /\ JobOf(t, p) \in Job /\ JobOf(t, q) \in Job
    BY <1>1, <2>1, TriggerType DEF Becomes, TriggerRecord, Job, Pair
  <2>3. CASE p = q
    <3>1. jobs' = [jobs EXCEPT ![JobOf(t, q)] = "queued"]
      BY <1>6 DEF Queue
    <3> QED
      BY <1>1, <2>2, <2>3, <3>1 DEF EnrichmentTypeOK
  <2>4. CASE p # q
    <3>1. p \in trig[t].listed \ trig[t].todo /\ trig[t].step = "queueing"
      BY <1>6, <2>1, <2>4 DEF Becomes, Queue
    <3>2. jobs[JobOf(t, p)] # "none" \/ p \in trig[t].stubs
      BY <1>1, <3>1 DEF PairsBacked
    <3> QED
      BY <1>2, <2>1, <2>2, <3>2 DEF Becomes
  <2> QED
    BY <2>3, <2>4
<1>7. ASSUME NEW q \in Pair, FallBack(t, q)
      PROVE  \/ jobs'[JobOf(t, p)] # "none"
             \/ trig'[t].step = "queueing" /\ p \in trig'[t].stubs
  <2>1. Becomes(t, "queueing", trig[t].listed, trig[t].todo \ {q}, trig[t].stubs \cup {q})
    BY <1>1, <1>7, FallBackShape
  <2>2. CASE p # q
    <3>1. p \in trig[t].listed \ trig[t].todo /\ trig[t].step = "queueing"
      BY <1>7, <2>1, <2>2 DEF Becomes, FallBack
    <3>2. UNCHANGED jobs
      BY <1>7 DEF FallBack
    <3> QED
      BY <1>1, <2>1, <3>1, <3>2 DEF PairsBacked, Becomes
  <2> QED
    BY <2>1, <2>2 DEF Becomes
<1>8. ASSUME CommitTrigger(t)
      PROVE  \/ jobs'[JobOf(t, p)] # "none"
             \/ trig'[t].step = "committed" /\ JobOf(t, p) \in results'
  <2>1. Becomes(t, "committed", trig[t].listed, {}, trig[t].stubs)
    BY <1>1, <1>8, CommitShape
  <2>2. p \in trig[t].listed \ trig[t].todo /\ trig[t].step = "queueing"
    BY <1>8, <2>1 DEF Becomes, CommitTrigger
  <2>3. jobs[JobOf(t, p)] # "none" \/ p \in trig[t].stubs
    BY <1>1, <2>2 DEF PairsBacked
  <2> QED
    BY <1>8, <2>1, <2>3 DEF Becomes, CommitTrigger
<1>9. ASSUME AbortTrigger(t) PROVE FALSE
  BY <1>1, <1>9, AbortShape DEF Becomes
<1>10. ASSUME NEW u \in Trigger, u # t,
              \/ \E O \in SUBSET Observable, S \in SUBSET Source : StartTrigger(u, O, S)
              \/ \E q \in Pair : Queue(u, q) \/ FallBack(u, q)
              \/ CommitTrigger(u) \/ AbortTrigger(u)
       PROVE  trig'[t] = trig[t]
  BY <1>1, <1>10, StartShape, QueueShape, FallBackShape, CommitShape, AbortShape DEF Becomes
<1> QED
  BY <1>4, <1>5, <1>6, <1>7, <1>8, <1>9, <1>10
     DEF EnrichmentStep, CreateObservables, CreateSource, UpdateSource, LoadDelete,
         FlushDelete, CommitDelete, AbortDelete, TakeJob, Record, Fail, Crash, enrichmentVars

LEMMA WholeCommits == ASSUME EnrichmentInv, EnrichmentStep PROVE CommittedWhole'
<1> SUFFICES ASSUME NEW t \in Trigger, trig'[t].step = "committed"
             PROVE  trig'[t].todo = {}
  BY DEF CommittedWhole
<1>1. EnrichmentTypeOK /\ CommittedWhole
  BY DEF EnrichmentInv
<1>2. ASSUME NEW u \in Trigger,
             \/ \E O \in SUBSET Observable, S \in SUBSET Source : StartTrigger(u, O, S)
             \/ \E q \in Pair : Queue(u, q)
             \/ \E q \in Pair : FallBack(u, q)
             \/ AbortTrigger(u)
      PROVE  trig'[t] = trig[t]
  BY <1>1, <1>2, StartShape, QueueShape, FallBackShape, AbortShape DEF Becomes
<1>3. ASSUME NEW u \in Trigger, CommitTrigger(u)
      PROVE  trig'[t] = trig[t] \/ trig'[t].todo = {}
  BY <1>1, <1>3, CommitShape DEF Becomes
<1>4. trig'[t] = trig[t] \/ trig'[t].todo = {}
  BY <1>2, <1>3
     DEF EnrichmentStep, CreateObservables, CreateSource, UpdateSource, LoadDelete,
         FlushDelete, CommitDelete, AbortDelete, TakeJob, Record, Fail, Crash, enrichmentVars
<1> QED
  BY <1>1, <1>4 DEF CommittedWhole

LEMMA EnrichmentInvKept ==
  ASSUME EnrichmentInv, [EnrichmentNext]_enrichmentVars PROVE EnrichmentInv'
<1>1. EnrichmentStep
  BY StepsOfEnrichment
<1> QED
  BY <1>1, EnrichmentTypeStep, ApartDeletions, EmptySources, HeldStubs, BackedPairs, WholeCommits
     DEF EnrichmentInv
-----------------------------------------------------------------------------
(* Enrichment: the theorems                                                *)

LEMMA EnrichmentInvariance == EnrichmentSpec => []EnrichmentInv
<1>1. EnrichmentInit => EnrichmentInv
  BY InitEnrichmentInv
<1>2. EnrichmentInv /\ [EnrichmentNext]_enrichmentVars => EnrichmentInv'
  BY EnrichmentInvKept
<1> QED
  BY <1>1, <1>2, PTL DEF EnrichmentSpec

\* However requests, workers and deletions overlap, every result refers to an
\* observable and a source that are there (trigger_enrichment,
\* execute_enrichment, delete_observable, delete_source).
THEOREM EnrichmentTyped == EnrichmentSpec => []EnrichmentTypeOK
<1>1. EnrichmentInv => EnrichmentTypeOK
  BY DEF EnrichmentInv
<1> QED
  BY <1>1, EnrichmentInvariance, PTL

\* A committed enrichment_triggered entry tells the truth (trigger_enrichment):
\* every source it lists for an observable that is still there got a job or has
\* left a result, whether the broker was up or down.
THEOREM EntriesBacked == EnrichmentSpec => []EntryBacked
<1>1. EnrichmentInv => EntryBacked
  BY InvBacks
<1> QED
  BY <1>1, EnrichmentInvariance, PTL

\* Only the deletion of its observable takes a result away (delete_source).
THEOREM SourcesKeepResults == EnrichmentSpec => ResultsKept
<1>1. EnrichmentInv /\ [EnrichmentNext]_enrichmentVars
        => [\A j \in results \ results' : j[2] \in gone']_enrichmentVars
  BY StepsOfEnrichment, ResultsChange
<1> QED
  BY <1>1, EnrichmentInvariance, PTL DEF EnrichmentSpec, ResultsKept
=============================================================================

------------------------- MODULE NoteFoldersProofs --------------------------
(***************************************************************************)
(* Proofs about NoteFolders, for any number of overlapping requests, any   *)
(* folders and any notes.                                                  *)
(***************************************************************************)
EXTENDS NoteFolders, TLAPS

-----------------------------------------------------------------------------
(* Requests                                                                *)

MoveRequest == [step : {"walk", "move", "moved"}, item : Item,
                to : Folder \cup {None}, changes : BOOLEAN,
                at : Folder \cup {None}, visited : SUBSET Folder]
DeleteRequest == [step : {"delete", "deleted"}, item : Item, content : SUBSET Item]
Moving(w) == req[w].step \in {"walk", "move", "moved"}

LEMMA RequestShape ==
  ASSUME TypeOK, NEW w \in Worker
  PROVE  /\ req[w].step \in {"idle", "walk", "move", "moved", "delete", "deleted"}
         /\ Moving(w) <=> req[w] \in MoveRequest
         /\ req[w].step = "walk" => req[w].at \in Folder
         /\ req[w].step \in {"delete", "deleted"} <=> req[w] \in DeleteRequest
         /\ req[w].step = "idle" <=> req[w] = Idle
BY NoneAssumption DEF TypeOK, RequestOK, MoveRequest, DeleteRequest, Moving, Idle, Item

\* Whatever lies in a folder, the folder is there.
LEMMA Place ==
  ASSUME TypeOK, NEW x \in Item
  PROVE  /\ within[x] \in {"unborn", "gone", None} \cup Folder
         /\ within[x] \in Folder => Alive(within[x])
         /\ Alive(x) => within[x] \in Folder \cup {None}
  BY MarkAssumption, NoneAssumption DEF TypeOK, Alive, Item
-----------------------------------------------------------------------------
(* The invariant                                                           *)

\* A flushed move has found its folder there.
Homes ==
  \A w \in Worker : req[w].step = "moved" /\ req[w].changes /\ req[w].to # None =>
    Alive(req[w].to)

\* A folder is not deleted while something is moved into it.
Apart ==
  \A v, w \in Worker :
    req[v].step = "deleted" /\ req[w].step = "moved" /\ req[w].changes =>
      req[w].to # req[v].item

\* A flushed deletion has taken out all that is in the folder.
Emptied == \A v \in Worker : req[v].step = "deleted" => In(req[v].item) \subseteq req[v].content

\* What a folder's move that nobody overtakes has visited is a path to the root,
\* from the new parent as far as it has come, and leaves the folder aside.
Walked ==
  \A w \in alone : Moving(w) /\ req[w].item \in Folder /\ req[w].to # None =>
    /\ \A f \in req[w].visited : /\ f # req[w].item
                                 /\ ParentOf(f) \in req[w].visited \cup {req[w].at}
    /\ req[w].to \in req[w].visited \cup {req[w].at}
    /\ req[w].step # "walk" => req[w].at = None

IInv == TypeOK /\ Homes /\ Apart /\ Emptied /\ Walked

-----------------------------------------------------------------------------
(* What the actions have in common                                         *)

LEMMA LocksFollow ==
  ASSUME TypeOK, NEW w \in Worker, NEW rows
  PROVE  /\ Take(w, rows) => lock' \in [Item -> Worker \cup {Nobody}]
         /\ Release(w) => lock' \in [Item -> Worker \cup {Nobody}]
  BY DEF TypeOK, Take, Release

\* A commit or abort ends the request and no other.
LEMMA Ended ==
  ASSUME TypeOK, NEW w \in Worker, End(w) \/ Abort(w)
  PROVE  /\ DOMAIN req' = Worker
         /\ req'[w] = Idle
         /\ \A v \in Worker \ {w} : req'[v] = req[v]
         /\ \A v \in Worker : RequestOK(req'[v])
         /\ lock' \in [Item -> Worker \cup {Nobody}]
         /\ alone' \subseteq alone
         /\ w \notin alone'
  BY LocksFollow DEF TypeOK, End, Abort, RequestOK

LEMMA InitInv == Init => IInv
<1> SUFFICES ASSUME Init PROVE IInv
  OBVIOUS
<1>1. \A w \in Worker : req[w] = Idle /\ req[w].step = "idle"
  BY DEF Init, Idle
<1>2. TypeOK
  BY <1>1 DEF Init, TypeOK, RequestOK
<1> QED
  BY <1>1, <1>2 DEF IInv, Homes, Apart, Emptied, Walked, Init

-----------------------------------------------------------------------------
(* Type correctness                                                        *)

LEMMA TypeStep == IInv /\ [Next]_vars => TypeOK'
<1> SUFFICES ASSUME IInv, [Next]_vars PROVE TypeOK'
  OBVIOUS
<1> USE DEF IInv
<1>1. ASSUME NEW x \in Item, NEW f \in Folder \cup {None}, Create(x, f) PROVE TypeOK'
  <2>1. /\ DOMAIN within' = Item /\ within'[x] = f
        /\ \A y \in Item \ {x} : within'[y] = within[y]
    BY <1>1 DEF Create, TypeOK
  <2>2. f # None => f # x /\ Alive(f)
    BY <1>1 DEF Create, Alive
  <2>3. \A y \in Item : Alive(y) => Alive(y)'
    BY <2>1, MarkAssumption DEF Alive, Item
  <2>4. \A y \in Item : within'[y] \in {"unborn", "gone", None} \cup {g \in Folder : Alive(g)'}
    BY <2>1, <2>2, <2>3, Place DEF TypeOK, Item
  <2> QED
    BY <1>1, <2>1, <2>4 DEF Create, TypeOK
<1>2. ASSUME NEW w \in Worker, NEW x \in Item, NEW f \in Folder \cup {None}, LoadMove(w, x, f)
      PROVE  TypeOK'
  <2>1. RequestOK([step |-> IF x \in Folder /\ f # None THEN "walk" ELSE "move",
                   item |-> x, to |-> f, changes |-> within[x] # f, at |-> f, visited |-> {}])
    BY DEF RequestOK
  <2>2. \A v \in Worker : RequestOK(req'[v])
    BY <1>2, <2>1 DEF LoadMove, Begin, TypeOK
  <2> QED
    BY <1>2, <2>2 DEF LoadMove, Begin, TypeOK, Alive
<1>3. ASSUME NEW w \in Worker, NEW x \in Item, LoadDelete(w, x) PROVE TypeOK'
  <2>1. RequestOK([step |-> "delete", item |-> x, content |-> In(x)])
    BY DEF RequestOK, In
  <2>2. \A v \in Worker : RequestOK(req'[v])
    BY <1>3, <2>1 DEF LoadDelete, Begin, TypeOK
  <2> QED
    BY <1>3, <2>2 DEF LoadDelete, Begin, TypeOK, Alive
<1>4. ASSUME NEW w \in Worker, Hop(w) PROVE TypeOK'
  <2>1. req[w] \in MoveRequest /\ req[w].at \in Folder
    BY <1>4, RequestShape DEF Hop, Moving
  <2> DEFINE next == ParentOf(req[w].at)
  <2>2. next \in Folder \cup {None}
    BY <2>1, Place DEF ParentOf, Item
  <2>3. req'[w] = [req[w] EXCEPT !.visited = req[w].visited \cup {req[w].at}, !.at = next,
                                 !.step = IF next = None THEN "move" ELSE "walk"]
    BY <1>4 DEF Hop, TypeOK
  <2> HIDE DEF next
  <2>4. RequestOK(req'[w])
    <3> DEFINE seen == req[w].visited \cup {req[w].at}
               step == IF next = None THEN "move" ELSE "walk"
    <3>1. seen \in SUBSET Folder /\ step \in {"walk", "move", "moved"}
      BY <2>1 DEF MoveRequest
    <3> HIDE DEF seen
    <3>2. req'[w] \in MoveRequest
      BY <2>1, <2>2, <2>3, <3>1 DEF MoveRequest, seen
    <3>3. req'[w].step = "walk" => req'[w].at # None
      BY <2>1, <2>3 DEF MoveRequest
    <3> QED
      BY <3>2, <3>3 DEF MoveRequest, RequestOK
  <2>5. DOMAIN req' = Worker /\ \A v \in Worker : RequestOK(req'[v])
    BY <1>4, <2>4 DEF Hop, TypeOK
  <2> QED
    BY <1>4, <2>5 DEF Hop, TypeOK, Alive
<1>5. ASSUME NEW w \in Worker, FlushMove(w) PROVE TypeOK'
  <2>1. req[w] \in MoveRequest
    BY <1>5, RequestShape DEF FlushMove, Moving
  <2>2. RequestOK([req[w] EXCEPT !.step = "moved"])
    BY <2>1 DEF MoveRequest, RequestOK
  <2>3. DOMAIN req' = Worker /\ \A v \in Worker : RequestOK(req'[v])
    BY <1>5, <2>2 DEF FlushMove, TypeOK
  <2>4. lock' \in [Item -> Worker \cup {Nobody}]
    BY <1>5, LocksFollow DEF FlushMove, TypeOK
  <2> QED
    BY <1>5, <2>3, <2>4 DEF FlushMove, TypeOK, Alive
<1>6. ASSUME NEW w \in Worker, CommitMove(w) PROVE TypeOK'
  <2>1. req[w] \in MoveRequest /\ req[w].step = "moved"
    BY <1>6, RequestShape DEF CommitMove, Moving
  <2>2. End(w)
    BY <1>6 DEF CommitMove
  <2>3. CASE ~ req[w].changes
    BY <1>6, <2>2, <2>3, Ended DEF CommitMove, TypeOK, Alive
  <2>4. CASE req[w].changes
    <3> DEFINE x == req[w].item
               f == req[w].to
    <3>1. x \in Item /\ f \in Folder \cup {None}
      BY <2>1 DEF MoveRequest
    <3>2. f # None => Alive(f)
      BY <2>1, <2>4 DEF Homes
    <3>3. /\ DOMAIN within' = Item /\ within'[x] = f
          /\ \A y \in Item \ {x} : within'[y] = within[y]
      BY <1>6, <2>4, <3>1 DEF CommitMove, TypeOK
    <3>4. \A y \in Item : Alive(y) => Alive(y)'
      BY <3>1, <3>3, MarkAssumption DEF Alive, Item
    <3>5. \A y \in Item :
            within'[y] \in {"unborn", "gone", None} \cup {g \in Folder : Alive(g)'}
      BY <3>1, <3>2, <3>3, <3>4, Place DEF TypeOK, Item
    <3> QED
      BY <2>2, <3>3, <3>5, Ended DEF TypeOK
  <2> QED
    BY <2>1, <2>3, <2>4 DEF MoveRequest
<1>7. ASSUME NEW w \in Worker, FlushDelete(w) PROVE TypeOK'
  <2>1. req[w] \in DeleteRequest
    BY <1>7, RequestShape DEF FlushDelete
  <2>2. RequestOK([req[w] EXCEPT !.step = "deleted"])
    BY <2>1 DEF DeleteRequest, RequestOK
  <2>3. DOMAIN req' = Worker /\ \A v \in Worker : RequestOK(req'[v])
    BY <1>7, <2>2 DEF FlushDelete, TypeOK
  <2>4. lock' \in [Item -> Worker \cup {Nobody}]
    BY <1>7, LocksFollow DEF FlushDelete, TypeOK
  <2> QED
    BY <1>7, <2>3, <2>4 DEF FlushDelete, TypeOK, Alive
<1>8. ASSUME NEW w \in Worker, CommitDelete(w) PROVE TypeOK'
  <2> DEFINE x == req[w].item
             C == req[w].content
  <2>1. req[w] \in DeleteRequest /\ In(x) \subseteq C /\ C \subseteq Item /\ x \in Item
    BY <1>8, RequestShape DEF CommitDelete, DeleteRequest, Emptied
  <2>2. End(w)
    BY <1>8 DEF CommitDelete
  <2>3. /\ DOMAIN within' = Item
        /\ \A y \in Item : within'[y] = IF y = x THEN "gone" ELSE IF y \in C THEN None
                                        ELSE within[y]
    BY <1>8 DEF CommitDelete
  <2>4. \A y \in Item \ {x} : Alive(y) => Alive(y)'
    BY <2>3, MarkAssumption DEF Alive
  <2>5. \A y \in Item \ C : within[y] # x
    BY <2>1 DEF In
  <2>6. \A y \in Item : within'[y] \in {"unborn", "gone", None} \cup {g \in Folder : Alive(g)'}
    BY <2>3, <2>4, <2>5, Place DEF TypeOK, Item
  <2> QED
    BY <2>2, <2>3, <2>6, Ended DEF TypeOK
<1>9. ASSUME NEW w \in Worker, Abort(w) PROVE TypeOK'
  BY <1>9, Ended DEF Abort, TypeOK, Alive
<1>10. CASE UNCHANGED vars
  BY <1>10 DEF vars, TypeOK, Alive
<1> QED
  BY <1>1, <1>2, <1>3, <1>4, <1>5, <1>6, <1>7, <1>8, <1>9, <1>10 DEF Next, Advance, Refuse
-----------------------------------------------------------------------------
(* What a step may change                                                  *)

\* The place of an item changes by its creation, its move or a deletion only.
LEMMA PlaceChanges ==
  ASSUME IInv, [Next]_vars, NEW y \in Item, within'[y] # within[y]
  PROVE  \/ \E f \in Folder \cup {None} : Create(y, f) /\ within'[y] = f
         \/ \E w \in Worker : /\ CommitMove(w) /\ req[w].changes
                              /\ req[w].item = y /\ within'[y] = req[w].to
         \/ \E w \in Worker : /\ CommitDelete(w)
                              /\ \/ y = req[w].item /\ within'[y] = "gone"
                                 \/ within'[y] = None
<1>1. ASSUME NEW x \in Item, NEW f \in Folder \cup {None}, Create(x, f)
      PROVE  x = y /\ within'[y] = f
  BY <1>1 DEF Create, IInv, TypeOK
<1>2. ASSUME NEW w \in Worker, CommitMove(w)
      PROVE  req[w].changes /\ req[w].item = y /\ within'[y] = req[w].to
  BY <1>2 DEF CommitMove, IInv, TypeOK
<1>3. ASSUME NEW w \in Worker, CommitDelete(w)
      PROVE  (y = req[w].item /\ within'[y] = "gone") \/ within'[y] = None
  BY <1>3 DEF CommitDelete
<1>4. ASSUME NEW w \in Worker
      PROVE  /\ ~ \E x \in Item, f \in Folder \cup {None} : LoadMove(w, x, f)
             /\ ~ \E x \in Item : LoadDelete(w, x)
             /\ ~ Hop(w) /\ ~ FlushMove(w) /\ ~ FlushDelete(w) /\ ~ Abort(w)
  BY DEF LoadMove, LoadDelete, Hop, FlushMove, FlushDelete, Abort
<1>5. ~ UNCHANGED vars
  BY DEF vars
<1> QED
  BY <1>1, <1>2, <1>3, <1>4, <1>5 DEF Next, Advance, Refuse

\* A folder or note is there until its deletion commits.
LEMMA StillThere ==
  ASSUME IInv, [Next]_vars, NEW y \in Item, Alive(y),
         \A w \in Worker : CommitDelete(w) => y # req[w].item
  PROVE  Alive(y)'
<1> SUFFICES ASSUME within'[y] # within[y] PROVE within'[y] \notin {"unborn", "gone"}
  BY DEF Alive
<1>1. ASSUME NEW w \in Worker, CommitMove(w) PROVE req[w].to \in Folder \cup {None}
  BY <1>1, RequestShape DEF CommitMove, IInv, Moving, MoveRequest
<1>2. \A f \in Folder \cup {None} : f \notin {"unborn", "gone"}
  BY MarkAssumption DEF Item
<1> QED
  BY <1>1, <1>2, PlaceChanges

\* A request reaches its commit by its flush only.
LEMMA RequestChanges ==
  ASSUME IInv, [Next]_vars, NEW w \in Worker
  PROVE  \/ req'[w] = req[w]
         \/ req'[w].step \in {"idle", "walk", "move", "delete"}
         \/ FlushMove(w)
         \/ FlushDelete(w)
<1>1. ASSUME NEW v \in Worker, End(v) \/ Abort(v)
      PROVE  req'[w] = req[w] \/ req'[w].step = "idle"
  BY <1>1, Ended DEF Idle, IInv
<1>2. ASSUME NEW v \in Worker, NEW x \in Item, NEW f \in Folder \cup {None}, LoadMove(v, x, f)
      PROVE  req'[w] = req[w] \/ req'[w].step \in {"walk", "move"}
  BY <1>2 DEF LoadMove, Begin, IInv, TypeOK
<1>3. ASSUME NEW v \in Worker, NEW x \in Item, LoadDelete(v, x)
      PROVE  req'[w] = req[w] \/ req'[w].step = "delete"
  BY <1>3 DEF LoadDelete, Begin, IInv, TypeOK
<1>4. ASSUME NEW v \in Worker, Hop(v)
      PROVE  req'[w] = req[w] \/ req'[w].step \in {"walk", "move"}
  <2>1. req[v] \in MoveRequest
    BY <1>4, RequestShape DEF Hop, Moving, IInv
  <2> QED
    BY <1>4, <2>1 DEF Hop, IInv, TypeOK, MoveRequest
<1>5. ASSUME NEW v \in Worker \ {w}, FlushMove(v) \/ FlushDelete(v)
      PROVE  req'[w] = req[w]
  BY <1>5 DEF FlushMove, FlushDelete, IInv, TypeOK
<1>6. ASSUME NEW x \in Item, NEW f \in Folder \cup {None}, Create(x, f) PROVE req'[w] = req[w]
  BY <1>6 DEF Create
<1> QED
  BY <1>1, <1>2, <1>3, <1>4, <1>5, <1>6 DEF Next, Advance, Refuse, CommitMove, CommitDelete, vars

\* What a flush leaves: the step, and the others' requests.
LEMMA Flushed ==
  ASSUME IInv, NEW w \in Worker, FlushMove(w) \/ FlushDelete(w)
  PROVE  /\ FlushMove(w) => req'[w] = [req[w] EXCEPT !.step = "moved"] /\ req[w] \in MoveRequest
         /\ FlushDelete(w) => /\ req'[w] = [req[w] EXCEPT !.step = "deleted"]
                              /\ req[w] \in DeleteRequest
         /\ \A v \in Worker \ {w} : req'[v] = req[v]
         /\ within' = within /\ alone' = alone
  BY RequestShape DEF FlushMove, FlushDelete, IInv, TypeOK, Moving
-----------------------------------------------------------------------------
(* The other parts of the invariant                                        *)

LEMMA HomesStep == IInv /\ [Next]_vars => Homes'
<1> SUFFICES ASSUME IInv, [Next]_vars, NEW w \in Worker,
                    req'[w].step = "moved", req'[w].changes, req'[w].to # None
             PROVE  Alive(req[w].to)'
  BY DEF Homes
<1> PICK f : f = req'[w].to
  OBVIOUS
<1> SUFFICES Alive(f)'
  BY DEF Alive
<1>1. CASE req'[w] = req[w]
  <2>1. f \in Item /\ Alive(f)
    BY <1>1, RequestShape DEF IInv, Homes, Moving, MoveRequest, Item
  <2>2. \A v \in Worker : CommitDelete(v) => f # req[v].item
    BY <1>1 DEF IInv, Apart, CommitDelete
  <2> QED
    BY <2>1, <2>2, StillThere
<1>2. CASE FlushMove(w)
  <2>1. req'[w] = [req[w] EXCEPT !.step = "moved"] /\ req[w] \in MoveRequest /\ within' = within
    BY <1>2, Flushed
  <2>2. f = req[w].to /\ req[w].changes
    BY <2>1 DEF MoveRequest
  <2> QED
    BY <1>2, <2>1, <2>2 DEF FlushMove, Alive
<1>3. CASE FlushDelete(w)
  BY <1>3, Flushed DEF DeleteRequest
<1> QED
  BY <1>1, <1>2, <1>3, RequestChanges

LEMMA ApartStep == IInv /\ [Next]_vars => Apart'
<1> SUFFICES ASSUME IInv, [Next]_vars, NEW v \in Worker, NEW w \in Worker,
                    req'[v].step = "deleted", req'[w].step = "moved", req'[w].changes
             PROVE  req'[w].to # req'[v].item
  BY DEF Apart
<1>1. v # w
  OBVIOUS
<1>2. CASE FlushMove(w)
  <2>1. /\ req'[w].to = req[w].to /\ req[w].changes
        /\ req'[v] = req[v]
    <3>1. /\ req'[w] = [req[w] EXCEPT !.step = "moved"] /\ req[w] \in MoveRequest
          /\ req'[v] = req[v]
      BY <1>1, <1>2, Flushed
    <3> QED
      BY <3>1 DEF MoveRequest
  <2>2. req[v].item \in Item
    BY <2>1, RequestShape DEF IInv, DeleteRequest
  <2> QED
    BY <1>2, <2>1, <2>2, NoneAssumption DEF FlushMove, Deleting
<1>3. CASE FlushDelete(v)
  <2>1. req'[v].item = req[v].item /\ req'[w] = req[w]
    <3>1. /\ req'[v] = [req[v] EXCEPT !.step = "deleted"] /\ req[v] \in DeleteRequest
          /\ req'[w] = req[w]
      BY <1>1, <1>3, Flushed
    <3> QED
      BY <3>1 DEF DeleteRequest
  <2> QED
    BY <1>3, <2>1 DEF FlushDelete, Filing
<1>4. CASE req'[v] = req[v] /\ req'[w] = req[w]
  BY <1>4 DEF IInv, Apart
<1>5. ~ FlushMove(v) /\ ~ FlushDelete(w)
  BY Flushed DEF MoveRequest, DeleteRequest
<1> QED
  BY <1>2, <1>3, <1>4, <1>5, RequestChanges

LEMMA EmptiedStep == IInv /\ [Next]_vars => Emptied'
<1> SUFFICES ASSUME IInv, [Next]_vars, NEW v \in Worker, req'[v].step = "deleted",
                    NEW y \in Item, within'[y] = req'[v].item
             PROVE  y \in req'[v].content
  BY DEF Emptied, In
<1>1. CASE FlushDelete(v)
  <2>1. req'[v].item = req[v].item /\ req'[v].content = req[v].content /\ within' = within
    BY <1>1, Flushed DEF DeleteRequest
  <2> QED
    BY <1>1, <2>1 DEF FlushDelete, In
<1>2. CASE req'[v] = req[v]
  <2>1. req[v].item \in Item
    BY <1>2, RequestShape DEF IInv, DeleteRequest
  <2>2. CASE within'[y] = within[y]
    BY <1>2, <2>2 DEF IInv, Emptied, In
  <2>3. CASE within'[y] # within[y]
    <3>1. ASSUME NEW f \in Folder \cup {None}, Create(y, f), within'[y] = f PROVE FALSE
      BY <1>2, <2>1, <3>1, NoneAssumption DEF Create, Deleting
    <3>2. ASSUME NEW w \in Worker, CommitMove(w), req[w].changes, within'[y] = req[w].to
          PROVE  FALSE
      BY <1>2, <3>2 DEF CommitMove, IInv, Apart
    <3>3. within'[y] \notin {"gone", None}
      BY <1>2, <2>1, NoneAssumption, MarkAssumption
    <3> QED
      BY <2>3, <3>1, <3>2, <3>3, PlaceChanges
  <2> QED
    BY <2>2, <2>3
<1>3. ~ FlushMove(v)
  BY Flushed DEF MoveRequest
<1> QED
  BY <1>1, <1>2, <1>3, RequestChanges

LEMMA WalkedStep == IInv /\ [Next]_vars => Walked'
<1> SUFFICES ASSUME IInv, [Next]_vars, NEW w \in alone', Moving(w)',
                    req'[w].item \in Folder, req'[w].to # None
             PROVE  /\ \A f \in req'[w].visited :
                         /\ f # req'[w].item
                         /\ ParentOf(f)' \in req'[w].visited \cup {req'[w].at}
                    /\ req'[w].to \in req'[w].visited \cup {req'[w].at}
                    /\ req'[w].step # "walk" => req'[w].at = None
  BY DEF Walked
<1> DEFINE Goal == /\ \A f \in req'[w].visited :
                         /\ f # req'[w].item
                         /\ ParentOf(f)' \in req'[w].visited \cup {req'[w].at}
                   /\ req'[w].to \in req'[w].visited \cup {req'[w].at}
                   /\ req'[w].step # "walk" => req'[w].at = None
<1>1. w \in Worker
  BY TypeStep DEF TypeOK, IInv
<1>2. within' = within => \A f : ParentOf(f)' = ParentOf(f)
  BY DEF ParentOf, Alive
<1>3. CASE req'[w] = req[w] /\ w \in alone /\ within' = within
  <2>1. Moving(w)
    BY <1>3 DEF Moving
  <2> QED
    BY <1>2, <1>3, <2>1 DEF IInv, Walked
<1>4. ASSUME NEW v \in Worker, NEW x \in Item, NEW f \in Folder \cup {None}, LoadMove(v, x, f)
      PROVE  Goal
  <2>1. CASE v = w
    <3>1. req'[w] = [step |-> IF x \in Folder /\ f # None THEN "walk" ELSE "move",
                     item |-> x, to |-> f, changes |-> within[x] # f, at |-> f, visited |-> {}]
      BY <1>4, <2>1 DEF LoadMove, Begin, IInv, TypeOK
    <3> QED
      BY <3>1
  <2>2. CASE v # w
    BY <1>1, <1>3, <1>4, <2>2 DEF LoadMove, Begin, IInv, TypeOK
  <2> QED
    BY <2>1, <2>2
<1>5. ASSUME NEW v \in Worker, NEW x \in Item, LoadDelete(v, x) PROVE Goal
  <2>1. v # w
    BY <1>5 DEF LoadDelete, Begin, IInv, TypeOK, Moving
  <2> QED
    BY <1>1, <1>3, <1>5, <2>1 DEF LoadDelete, Begin, IInv, TypeOK
<1>6. ASSUME NEW v \in Worker, Hop(v) PROVE Goal
  <2>1. CASE v # w
    BY <1>1, <1>3, <1>6, <2>1 DEF Hop, IInv, TypeOK
  <2>2. CASE v = w
    <3> DEFINE r == req[w]
               next == ParentOf(r.at)
               r1 == req'[w]
    <3>1. r \in MoveRequest /\ r.step = "walk" /\ w \in alone /\ within' = within
      BY <1>1, <1>6, <2>2, RequestShape DEF Hop, IInv, Moving
    <3>2. r1 = [r EXCEPT !.visited = r.visited \cup {r.at}, !.at = next,
                         !.step = IF next = None THEN "move" ELSE "walk"]
      BY <1>1, <1>6, <2>2 DEF Hop, IInv, TypeOK
    <3>3. /\ r1.visited = r.visited \cup {r.at} /\ r1.at = next
          /\ r1.item = r.item /\ r1.to = r.to
          /\ r1.step = IF next = None THEN "move" ELSE "walk"
      BY <3>1, <3>2 DEF MoveRequest
    <3>4. r.at # r.item
      BY <1>6, <2>2 DEF Hop, Closes
    <3>5. /\ \A f \in r.visited : f # r.item /\ ParentOf(f) \in r.visited \cup {r.at}
          /\ r.to \in r.visited \cup {r.at}
      BY <3>1, <3>3 DEF IInv, Walked, Moving
    <3> HIDE DEF r, r1, next
    <3>6. \A f \in r1.visited : f # r1.item /\ ParentOf(f)' \in r1.visited \cup {r1.at}
      BY <1>2, <3>1, <3>3, <3>4, <3>5 DEF next
    <3> QED
      BY <3>3, <3>5, <3>6 DEF r1
  <2> QED
    BY <2>1, <2>2
<1>7. ASSUME NEW v \in Worker, FlushMove(v) PROVE Goal
  <2>1. CASE v # w
    BY <1>1, <1>3, <1>7, <2>1, Flushed
  <2>2. CASE v = w
    <3>1. /\ req'[w] = [req[w] EXCEPT !.step = "moved"] /\ req[w] \in MoveRequest
          /\ within' = within /\ w \in alone
      BY <1>7, <2>2, Flushed
    <3>2. /\ req'[w].visited = req[w].visited /\ req'[w].at = req[w].at
          /\ req'[w].item = req[w].item /\ req'[w].to = req[w].to
          /\ Moving(w) /\ req[w].step = "move"
      BY <1>7, <2>2, <3>1 DEF MoveRequest, Moving, FlushMove
    <3> QED
      BY <1>2, <3>1, <3>2 DEF IInv, Walked
  <2> QED
    BY <2>1, <2>2
<1>8. ASSUME NEW v \in Worker, FlushDelete(v) PROVE Goal
  <2>1. v # w
    BY <1>8, Flushed DEF DeleteRequest, Moving
  <2> QED
    BY <1>1, <1>3, <1>8, <2>1, Flushed
<1>9. ASSUME NEW v \in Worker, Abort(v) PROVE Goal
  <2>1. v # w
    BY <1>9 DEF Abort
  <2> QED
    BY <1>1, <1>3, <1>9, <2>1 DEF Abort, IInv, TypeOK
<1>10. ASSUME NEW v \in Worker, CommitMove(v) \/ CommitDelete(v) PROVE Goal
  BY <1>10 DEF CommitMove, CommitDelete, End
<1>11. ASSUME NEW x \in Item, NEW f \in Folder \cup {None}, Create(x, f) PROVE Goal
  BY <1>11 DEF Create
<1>12. CASE UNCHANGED vars
  BY <1>3, <1>12 DEF vars
<1> QED
  BY <1>4, <1>5, <1>6, <1>7, <1>8, <1>9, <1>10, <1>11, <1>12 DEF Next, Advance, Refuse

LEMMA Invariance == Spec => []IInv
<1>1. IInv /\ [Next]_vars => IInv'
  BY TypeStep, HomesStep, ApartStep, EmptiedStep, WalkedStep DEF IInv
<1> QED
  BY <1>1, InitInv, PTL DEF Spec
-----------------------------------------------------------------------------
(* Theorems                                                                *)

\* Type correctness, and no dangling folder: whatever requests overlap, an item
\* that is there lies at the top or in a folder that is there (notes.py).
THEOREM TypeCorrect == Spec => []TypeOK
  BY Invariance, PTL DEF IInv

\* A move that nothing overtakes closes no cycle, although its walk reads the
\* tree one folder at a time (notes.py, _would_create_cycle and update_folder).
THEOREM UndisturbedMove == Spec => ForestKept
<1>1. ASSUME IInv, NEW w \in alone, CommitMove(w), Forest, NEW S \in (SUBSET Folder) \ {{}},
             \A f \in S : within'[f] \in S
      PROVE  FALSE
  <2> DEFINE r == req[w]
  <2>1. /\ r \in MoveRequest /\ r.step = "moved" /\ Moving(w)
        /\ within' = IF r.changes THEN [within EXCEPT ![r.item] = r.to] ELSE within
    BY <1>1, RequestShape DEF CommitMove, Moving, IInv, TypeOK
  <2>2. DOMAIN within = Item /\ S \subseteq Item
    BY <1>1 DEF Item, IInv, TypeOK
  <2>3. r.changes /\ r.item \in S /\ r.to \in S
    <3>1. CASE ~ (r.changes /\ r.item \in S)
      <4>1. \A f \in S : within'[f] = within[f]
        BY <2>1, <2>2, <3>1 DEF MoveRequest
      <4> QED
        BY <1>1, <4>1 DEF Forest
    <3>2. CASE r.changes /\ r.item \in S
      <4>1. within'[r.item] = r.to
        BY <2>1, <2>2, <3>2
      <4> QED
        BY <1>1, <3>2, <4>1
    <3> QED
      BY <3>1, <3>2
  <2>4. /\ \A f \in r.visited : f # r.item /\ ParentOf(f) \in r.visited \cup {None}
        /\ r.to \in r.visited
    <3>1. r.item \in Folder /\ r.to # None
      BY <2>3, NoneAssumption DEF Item
    <3>2. r.at = None
      BY <1>1, <2>1, <3>1 DEF IInv, Walked
    <3> QED
      BY <1>1, <2>1, <3>1, <3>2 DEF IInv, Walked
  <2> DEFINE path == S \cap r.visited
  <2>5. path \in (SUBSET Folder) \ {{}}
    BY <2>3, <2>4
  <2>6. ASSUME NEW f \in path PROVE within[f] \in path
    <3>1. within'[f] = within[f] /\ within[f] \in S
      BY <1>1, <2>1, <2>2, <2>4, <2>6
    <3>2. Alive(f) /\ within[f] # None
      BY <3>1, NoneAssumption, MarkAssumption DEF Alive, Item
    <3> QED
      BY <2>4, <2>6, <3>1, <3>2 DEF ParentOf
  <2> QED
    BY <1>1, <2>5, <2>6 DEF Forest
<1>2. IInv /\ [Next]_vars => [\A w \in alone : CommitMove(w) /\ Forest => Forest']_vars
  BY <1>1 DEF Forest
<1> QED
  BY <1>2, Invariance, PTL DEF Spec, ForestKept
=============================================================================

---------------------------- MODULE NoteFolders -----------------------------
(***************************************************************************)
(* Note folders and the notes in them (backend/src/services/notes.py).     *)
(*                                                                         *)
(* Moving a folder walks up from its new parent, one SELECT for each hop,  *)
(* and refuses to close a cycle; nothing locks the folders it has passed.  *)
(* Requests are READ COMMITTED transactions as in CaseLifecycle.           *)
(***************************************************************************)
CONSTANTS Worker,   \* requests in progress at one time
          Folder,   \* folder ids; the model's bound
          Note,     \* note ids; the model's bound
          CaseOf,   \* the case of each folder and note
          None,     \* a parent_id or folder_id that is NULL
          Nobody    \* no transaction

Item == Folder \cup Note

ASSUME ItemAssumption == Folder \cap Note = {} /\ DOMAIN CaseOf = Item
ASSUME NoneAssumption == None \notin Item /\ Nobody \notin Worker
ASSUME MarkAssumption == {"unborn", "gone"} \cap (Item \cup {None}) = {}

VARIABLES within,   \* committed parent_id of each folder, folder_id of each note,
                    \* or "unborn" or "gone"
          lock,     \* the transaction that has written a row and not ended
          req,      \* what each worker's request is doing
          alone     \* workers whose request in progress has not been overtaken

vars == <<within, lock, req, alone>>

Idle == [step |-> "idle"]
Alive(x) == within[x] \notin {"unborn", "gone"}
In(f) == {x \in Item : within[x] = f}

Init == /\ within = [x \in Item |-> "unborn"]
        /\ lock = [x \in Item |-> Nobody]
        /\ req = [w \in Worker |-> Idle]
        /\ alone = {}
-----------------------------------------------------------------------------
Free(w, rows) == \A x \in rows : lock[x] \in {Nobody, w}
Take(w, rows) == lock' = [x \in Item |-> IF x \in rows THEN w ELSE lock[x]]
Release(w) == lock' = [x \in Item |-> IF lock[x] = w THEN Nobody ELSE lock[x]]

Begin(w, request) == /\ req[w] = Idle
                     /\ req' = [req EXCEPT ![w] = request]
                     /\ alone' = alone \cup {w}
End(w) == /\ Release(w)
          /\ req' = [req EXCEPT ![w] = Idle]
          /\ alone' = {}

\* A refusal (400), a failure, a lost client, a crash: rolled back.
Abort(w) == /\ req[w] # Idle
            /\ Release(w)
            /\ req' = [req EXCEPT ![w] = Idle]
            /\ alone' = alone \ {w}
            /\ UNCHANGED within

\* The foreign key to a folder waits for whoever deletes it, and its deletion
\* for whoever has written a reference to it.
Deleting(f) == \E v \in Worker : req[v].step = "deleted" /\ req[v].item = f
Filing(f) == \E v \in Worker : req[v].step = "moved" /\ req[v].to = f
-----------------------------------------------------------------------------
\* create_folder and create_note: into a folder of the same case (404, 400), or
\* at the top.  Nobody sees the new row before the commit.
Create(x, f) ==
  /\ within[x] = "unborn"
  /\ f # None => Alive(f) /\ ~ Deleting(f) /\ CaseOf[f] = CaseOf[x]
  /\ within' = [within EXCEPT ![x] = f]
  /\ alone' = {}
  /\ UNCHANGED <<lock, req>>

\* update_note and update_folder, with folder_id or parent_id.  A note's folder
\* is looked up (404, 400); a folder's new parent only walked from, in
\* whichever case it is.  A move to the top needs no check.
LoadMove(w, x, f) ==
  /\ Alive(x)
  /\ f # None => within[f] # "unborn"   \* its id was given out when it came
  /\ x \in Note /\ f # None => Alive(f) /\ CaseOf[f] = CaseOf[x]
  /\ Begin(w, [step |-> IF x \in Folder /\ f # None THEN "walk" ELSE "move",
               item |-> x, to |-> f, changes |-> within[x] # f,
               at |-> f, visited |-> {}])
  /\ UNCHANGED <<within, lock>>

ParentOf(f) == IF Alive(f) THEN within[f] ELSE None   \* scalar_one_or_none

Closes(w) == req[w].at = req[w].item \/ req[w].at \in req[w].visited

Hop_ParentOnly(w) ==   \* mutant: only the new parent is looked at
  /\ req[w].step = "walk"
  /\ ~ Closes(w)
  /\ req' = [req EXCEPT ![w].step = "move"]
  /\ UNCHANGED <<within, lock, alone>>

Hop_Forgets(w) ==   \* mutant: no visited set
  /\ req[w].step = "walk"
  /\ ~ Closes(w)
  /\ LET next == ParentOf(req[w].at)
     IN  req' = [req EXCEPT ![w].at = next,
                            ![w].step = IF next = None THEN "move" ELSE "walk"]
  /\ UNCHANGED <<within, lock, alone>>

\* _would_create_cycle, one turn of its loop.
Hop(w) ==
  /\ req[w].step = "walk"
  /\ ~ Closes(w)
  /\ LET next == ParentOf(req[w].at)
     IN  req' = [req EXCEPT ![w].visited = @ \cup {req[w].at},
                            ![w].at = next,
                            ![w].step = IF next = None THEN "move" ELSE "walk"]
  /\ UNCHANGED <<within, lock, alone>>

\* The flush: no UPDATE when the item is loaded where it is to go.
FlushMove(w) ==
  /\ req[w].step = "move"
  /\ Alive(req[w].item)
  /\ IF ~ req[w].changes THEN UNCHANGED lock
     ELSE /\ req[w].to # None => Alive(req[w].to) /\ ~ Deleting(req[w].to)
          /\ Free(w, {req[w].item}) /\ Take(w, {req[w].item})
  /\ req' = [req EXCEPT ![w].step = "moved"]
  /\ UNCHANGED <<within, alone>>

CommitMove(w) ==
  /\ req[w].step = "moved"
  /\ within' = IF req[w].changes THEN [within EXCEPT ![req[w].item] = req[w].to]
                                 ELSE within
  /\ End(w)

\* delete_folder and delete_note.  The ORM selects what is in the folder, ...
LoadDelete(w, x) ==
  /\ Alive(x)
  /\ Begin(w, [step |-> "delete", item |-> x, content |-> In(x)])
  /\ UNCHANGED <<within, lock>>

\* ... takes it out, and deletes the folder, to which nothing may refer then.
FlushDelete(w) ==
  /\ req[w].step = "delete"
  /\ LET rows == req[w].content \cup {req[w].item}
     IN  Free(w, rows) /\ Take(w, rows)
  /\ \A x \in req[w].content : Alive(x)
  /\ In(req[w].item) \subseteq req[w].content
  /\ ~ Filing(req[w].item)
  /\ req' = [req EXCEPT ![w].step = "deleted"]
  /\ UNCHANGED <<within, alone>>

CommitDelete_KeepsContent(w) ==   \* mutant: what was in the folder still refers to it
  /\ req[w].step = "deleted"
  /\ within' = [within EXCEPT ![req[w].item] = "gone"]
  /\ End(w)

CommitDelete(w) ==
  /\ req[w].step = "deleted"
  /\ within' = [x \in Item |-> IF x = req[w].item THEN "gone"
                               ELSE IF x \in req[w].content THEN None
                               ELSE within[x]]
  /\ End(w)

\* What can only end in a refusal or an error: a move that would close a cycle,
\* a row that has gone (a DELETE of it is only a warning), a folder that has
\* gone, or been filled again.
Doomed(w) ==
  \/ req[w].step = "walk" /\ Closes(w)
  \/ req[w].step = "move" /\ ~ Alive(req[w].item)
  \/ req[w].step = "move" /\ req[w].changes /\ req[w].to # None /\ ~ Alive(req[w].to)
  \/ req[w].step = "delete" /\ \E x \in req[w].content : ~ Alive(x)
  \/ req[w].step = "delete" /\ ~ In(req[w].item) \subseteq req[w].content

Refuse(w) == Doomed(w) /\ Abort(w)
-----------------------------------------------------------------------------
Advance(w) == \/ Hop(w)
              \/ FlushMove(w)
              \/ CommitMove(w)
              \/ FlushDelete(w)
              \/ CommitDelete(w)
              \/ Refuse(w)

Next == \/ \E x \in Item, f \in Folder \cup {None} : Create(x, f)
        \/ \E w \in Worker :
             \/ \E x \in Item, f \in Folder \cup {None} : LoadMove(w, x, f)
             \/ \E x \in Item : LoadDelete(w, x)
             \/ Advance(w)
             \/ Abort(w)

Spec == Init /\ [][Next]_vars

\* Requests run on, and waiters get their row locks in turn.
FairSpec == Spec /\ \A w \in Worker : SF_vars(Advance(w))
-----------------------------------------------------------------------------
RequestOK(r) ==
  \/ r = Idle
  \/ /\ r \in [step : {"walk", "move", "moved"}, item : Item,
               to : Folder \cup {None}, changes : BOOLEAN,
               at : Folder \cup {None}, visited : SUBSET Folder]
     /\ r.step = "walk" => r.at # None
  \/ r \in [step : {"delete", "deleted"}, item : Item, content : SUBSET Item]

\* No dangling parent or folder either: whatever overlaps, an item that is there
\* lies at the top or in a folder that is there.
TypeOK ==
  /\ DOMAIN within = Item
  /\ \A x \in Item : within[x] \in {"unborn", "gone", None} \cup {f \in Folder : Alive(f)}
  /\ lock \in [Item -> Worker \cup {Nobody}]
  /\ DOMAIN req = Worker
  /\ \A w \in Worker : RequestOK(req[w])
  /\ alone \subseteq Worker

\* "Enforces a valid folder tree (no cycles)": no folders that only lie in one
\* another.
Forest == \A S \in (SUBSET Folder) \ {{}} : \E f \in S : within[f] \notin S

\* A move that nothing overtakes closes no cycle, although its walk reads the
\* tree one folder at a time.  (Two that overlap may close one together.)
ForestKept == [][\A w \in alone : CommitMove(w) /\ Forest => Forest']_vars

\* Every request ends, a move into a cycle that others have closed too.
RequestsFinish == \A w \in Worker : req[w] # Idle ~> req[w] = Idle
=============================================================================

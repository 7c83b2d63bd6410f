--------------------------- MODULE AccessProofs -----------------------------
(***************************************************************************)
(* Proofs about Access, for any number of overlapping requests, pooled     *)
(* connections, users, tenants and sessions.                               *)
(***************************************************************************)
EXTENDS Access, TLAPS

-----------------------------------------------------------------------------
(* Requests                                                                *)

LEMMA RequestShape ==
  ASSUME TypeOK, NEW w \in Worker
  PROVE  /\ req[w] = Idle <=> req[w].step = "idle"
         /\ req[w] # Idle <=> req[w] \in Request
         /\ req[w].step \in {"idle", "loaded", "active", "known", "scoped", "ran", "done",
                             "stream"}
BY DEF TypeOK, Request, Idle

\* What a request keeps while it runs.
Keeps(r, q) == /\ q \in Request
               /\ q.user = r.user /\ q.session = r.session /\ q.role = r.role
               /\ q.late = r.late /\ (r.held => q.held)
Same(r, q) == Keeps(r, q) /\ q.step = r.step /\ q.conn = r.conn /\ q.seen = r.seen
Kept(v) == IF req[v] = Idle THEN req'[v] = Idle ELSE Same(req[v], req'[v])

\* How a step may change a request.
Started(w) == /\ req[w] = Idle /\ req'[w] \in Request /\ conns' = conns
              /\ req'[w].step \in {"loaded", "known", "stream"}
              /\ req'[w].step = "known" => req'[w].session = None
              /\ req'[w].step = "loaded" => req'[w].session \in Session
              /\ req'[w].session # None => sessions[req'[w].session] # None
              /\ req'[w].conn = None /\ req'[w].held
              /\ req'[w].late => req'[w].session \in ended
Checked(w) == /\ req[w] \in Request /\ Keeps(req[w], req'[w]) /\ conns' = conns
              /\ req'[w].conn = req[w].conn
              /\ \/ /\ req[w].step = "loaded" /\ req'[w].step = "active"
                    /\ Live(req[w].session)
                 \/ req[w].step = "active" /\ req'[w].step = "known"
Scoped(w) == /\ req[w] \in Request /\ Keeps(req[w], req'[w])
             /\ req[w].step = "known" /\ req'[w].step = "scoped"
             /\ \E c \in Conn :
                  /\ req'[w].conn = c
                  /\ \A v \in Worker : req[v] # Idle => req[v].conn # c
                  /\ conns' = [conns EXCEPT ![c] =
                       [tenant |-> TenantOf[req[w].user],
                        admin |-> conns[c].admin \/ req[w].role = "platform_admin"]]
Ran(w) == /\ req[w] \in Request /\ Keeps(req[w], req'[w]) /\ conns' = conns
          /\ req'[w].conn = req[w].conn
          /\ req[w].step = "scoped"
          /\ \/ req'[w].step = "ran" /\ req'[w].seen = Visible(req[w].conn)
             \/ req'[w].step = "done"
Released(w) == req[w] # Idle /\ req'[w] = Idle /\ Release(w)

Proceeds(w) == Started(w) \/ Checked(w) \/ Scoped(w) \/ Ran(w) \/ Released(w)

LEMMA Unmoved ==
  ASSUME TypeOK, NEW v \in Worker, req'[v] = req[v]
  PROVE  Kept(v)
BY RequestShape DEF Kept, Same, Keeps

\* One more step of a request.
LEMMA Stepped ==
  ASSUME TypeOK, NEW w \in Worker, req[w].step # "idle",
         NEW step \in {"loaded", "active", "known", "scoped", "ran", "done"}, To(w, step)
  PROVE  /\ req[w] \in Request /\ Keeps(req[w], req'[w])
         /\ req'[w].step = step /\ req'[w].conn = req[w].conn /\ req'[w].seen = req[w].seen
         /\ req' = [v \in Worker |-> req'[v]]
         /\ \A v \in Worker \ {w} : Kept(v)
<1>1. req[w] \in Request
  BY RequestShape
<1>2. req'[w] = [req[w] EXCEPT !.step = step]
  BY DEF To, TypeOK
<1>3. req'[w] \in Request /\ req'[w].step = step
  BY <1>1, <1>2 DEF Request
<1>4. /\ req'[w].user = req[w].user /\ req'[w].session = req[w].session
      /\ req'[w].role = req[w].role /\ req'[w].late = req[w].late
      /\ req'[w].held = req[w].held
      /\ req'[w].conn = req[w].conn /\ req'[w].seen = req[w].seen
  BY <1>1, <1>2 DEF Request
<1>5. req' = [v \in Worker |-> req'[v]] /\ \A v \in Worker \ {w} : Kept(v)
  BY Unmoved DEF To, TypeOK
<1> QED
  BY <1>1, <1>3, <1>4, <1>5 DEF Keeps

\* A request begins: the user it has loaded is active, in the role it will run with.
LEMMA Begun ==
  ASSUME TypeOK, NEW w \in Worker, NEW u \in User, NEW s \in Session \cup {None},
         NEW step \in {"loaded", "known", "stream"}, step = "known" => s = None,
         step = "loaded" => s \in Session,
         s # None => sessions[s] # None,
         NEW seen \in SUBSET (Tenant \cup {None}),
         Active(u), Begin(w, u, s, users[u].role, step, seen)
  PROVE  Started(w) /\ req' = [v \in Worker |-> req'[v]] /\ \A v \in Worker \ {w} : Kept(v)
<1> DEFINE r == [step |-> step, user |-> u, session |-> s, role |-> users[u].role,
                 conn |-> None, seen |-> seen, held |-> Holds(users, u, users[u].role),
                 late |-> s \in ended]
<1>1. users[u].role \in Role
  BY DEF Active, TypeOK
<1>2. Holds(users, u, users[u].role)
  BY DEF Active, Holds
<1>3. /\ req[w] = Idle /\ req'[w] = r /\ conns' = conns /\ req' = [v \in Worker |-> req'[v]]
      /\ \A v \in Worker \ {w} : req'[v] = req[v]
  BY DEF Begin, TypeOK
<1>4. r \in Request
  BY <1>1, <1>2 DEF Request
<1>5. /\ r.step = step /\ r.session = s /\ r.conn = None /\ r.held
      /\ r.late => s \in ended
  BY <1>2
<1> HIDE DEF r
<1> QED
  BY <1>3, <1>4, <1>5, Unmoved DEF Started

\* A user is written: the request is done, the others go on and may have
\* witnessed it.
LEMMA Written ==
  ASSUME TypeOK, NEW w \in Worker, req[w].step = "scoped", NEW u \in User, NEW row,
         WriteUser(w, u, row)
  PROVE  Ran(w) /\ req' = [v \in Worker |-> req'[v]] /\ \A v \in Worker \ {w} : Kept(v)
<1> DEFINE f == [req EXCEPT ![w].step = "done"]
<1>1. req[w] \in Request
  BY RequestShape
<1>2. DOMAIN f = Worker /\ f[w] = [req[w] EXCEPT !.step = "done"]
      /\ \A v \in Worker \ {w} : f[v] = req[v]
  BY DEF TypeOK
<1>3. /\ f[w] \in Request /\ f[w].step = "done" /\ f[w].conn = req[w].conn
      /\ f[w].user = req[w].user /\ f[w].session = req[w].session
      /\ f[w].role = req[w].role /\ f[w].late = req[w].late /\ f[w].held = req[w].held
  BY <1>1, <1>2 DEF Request
<1>4. req' = Witnessed(f, users') /\ conns' = conns
  BY DEF WriteUser
<1> HIDE DEF f
<1>5. \A v \in Worker : f[v] \in Request \cup {Idle}
  <2>1. ASSUME NEW v \in Worker \ {w} PROVE f[v] \in Request \cup {Idle}
    BY <1>2, RequestShape
  <2> QED
    BY <1>3, <2>1
<1>6. ASSUME NEW v \in Worker, f[v] # Idle
      PROVE  /\ Keeps(f[v], req'[v])
             /\ req'[v].step = f[v].step /\ req'[v].conn = f[v].conn /\ req'[v].seen = f[v].seen
  <2>1. f[v] \in Request
    BY <1>5, <1>6
  <2>2. PICK held \in BOOLEAN : /\ req'[v] = [f[v] EXCEPT !.held = held]
                                /\ f[v].held => held
    <3>1. PICK h \in BOOLEAN : h <=> Holds(users', f[v].user, f[v].role)
      <4>1. CASE Holds(users', f[v].user, f[v].role)
        BY <4>1
      <4>2. CASE ~ Holds(users', f[v].user, f[v].role)
        BY <4>2
      <4> QED
        BY <4>1, <4>2
    <3>2. (f[v].held \/ Holds(users', f[v].user, f[v].role)) \in BOOLEAN
      OBVIOUS
    <3>3. req'[v] = [f[v] EXCEPT !.held = (f[v].held \/ Holds(users', f[v].user, f[v].role))]
      BY <1>4, <1>6 DEF Witnessed
    <3> QED
      BY <3>2, <3>3
  <2>3. /\ req'[v] \in Request /\ req'[v].held = held
        /\ req'[v].user = f[v].user /\ req'[v].session = f[v].session
        /\ req'[v].role = f[v].role /\ req'[v].late = f[v].late
        /\ req'[v].step = f[v].step /\ req'[v].conn = f[v].conn /\ req'[v].seen = f[v].seen
    BY <2>1, <2>2 DEF Request
  <2> QED
    BY <2>2, <2>3 DEF Keeps
<1>7. Idle.step = "idle"
  BY DEF Idle
<1>8. f[w] # Idle
  BY <1>3, <1>7
<1>9. \A v \in Worker \ {w} : Kept(v)
  <2> SUFFICES ASSUME NEW v \in Worker \ {w} PROVE Kept(v)
    OBVIOUS
  <2>1. CASE req[v] = Idle
    BY <1>2, <1>4, <2>1 DEF Witnessed, Kept
  <2>2. CASE req[v] # Idle
    BY <1>2, <1>6, <2>2 DEF Kept, Same
  <2> QED
    BY <2>1, <2>2
<1>10. Ran(w)
  BY <1>1, <1>3, <1>4, <1>6, <1>8 DEF Ran, Keeps
<1> QED
  BY <1>4, <1>9, <1>10 DEF Witnessed
-----------------------------------------------------------------------------
(* The invariant                                                           *)

\* The session a request presents was made by a login.
Presented ==
  \A w \in Worker : req[w] # Idle /\ req[w].session # None => sessions[req[w].session] # None

\* A session that has ended is there no longer, and does not come back.
StaysEnded == \A s \in ended : sessions[s] # None /\ sessions[s].left = 0

\* What the checks of a request have found: nobody gets past the session check
\* with a session that had ended before the request began.  (A stream has none.)
ChecksHeld ==
  \A w \in Worker : req[w] # Idle =>
    /\ req[w].held
    /\ req[w].late => req[w].step \in {"loaded", "stream"} /\ req[w].session \in ended
    /\ req[w].step \in {"loaded", "active"} => req[w].session \in Session

\* A connection is told the tenant of the request that has it, and nothing
\* while nobody has it.
Connections ==
  /\ \A w \in Worker : req[w] # Idle =>
       /\ req[w].step \in {"loaded", "active", "known", "stream"} => req[w].conn = None
       /\ req[w].step \in {"scoped", "ran", "done"} =>
            /\ req[w].conn \in Conn
            /\ conns[req[w].conn].tenant = TenantOf[req[w].user]
            /\ conns[req[w].conn].admin <=> req[w].role = "platform_admin"
  /\ \A v, w \in Worker : v # w /\ req[v] # Idle /\ req[w] # Idle /\ req[v].conn = req[w].conn
       => req[w].conn = None
  /\ \A c \in Conn : (\A w \in Worker : req[w] # Idle => req[w].conn # c) => conns[c] = Unset

IInv == TypeOK /\ Presented /\ StaysEnded /\ ChecksHeld /\ Connections /\ TenantIsolation

LEMMA InitInv == Init => IInv
<1> SUFFICES ASSUME Init PROVE IInv
  OBVIOUS
<1>1. \A w \in Worker : req[w] = Idle /\ req[w].step = "idle"
  BY DEF Init, Idle
<1>2. TypeOK
  BY ServiceAssumption, TenantAssumption DEF Init, TypeOK, Role, Unset
<1> QED
  BY <1>1, <1>2 DEF IInv, Presented, StaysEnded, ChecksHeld, Connections, TenantIsolation, Init
-----------------------------------------------------------------------------
(* Every step is a step of one request or of none                          *)

LEMMA RequestChanges ==
  ASSUME IInv, [Next]_vars
  PROVE  /\ req' = [v \in Worker |-> req'[v]]
         /\ \/ conns' = conns /\ \A v \in Worker : Kept(v)
            \/ \E w \in Worker : Proceeds(w) /\ \A v \in Worker \ {w} : Kept(v)
<1> USE DEF IInv
<1> DEFINE Goal == /\ req' = [v \in Worker |-> req'[v]]
                   /\ \/ conns' = conns /\ \A v \in Worker : Kept(v)
                      \/ \E w \in Worker : Proceeds(w) /\ \A v \in Worker \ {w} : Kept(v)
<1>1. CASE req' = req /\ conns' = conns
  BY <1>1, Unmoved DEF TypeOK
<1>2. ASSUME NEW u \in User, NEW s \in Session, Login(u, s) PROVE Goal
  BY <1>1, <1>2 DEF Login
<1>3. CASE Tick
  BY <1>1, <1>3 DEF Tick
<1>4. ASSUME NEW w \in Worker, NEW s \in Session, Load(w, s) PROVE Goal
  <2>1. sessions[s].user \in User /\ sessions[s] # None
    BY <1>4 DEF Load, Bearer, TypeOK
  <2>3. s # None => sessions[s] # None
    BY <2>1
  <2> DEFINE none == {}
  <2>4. /\ Active(sessions[s].user)
        /\ Begin(w, sessions[s].user, s, users[sessions[s].user].role, "loaded", none)
    BY <1>4 DEF Load
  <2>5. none \in SUBSET (Tenant \cup {None})
    OBVIOUS
  <2> HIDE DEF none
  <2> QED
    BY <2>1, <2>3, <2>4, <2>5, Begun DEF Proceeds
<1>13. ASSUME NEW w \in Worker, NEW s \in Session, CaseStream(w, s) \/ TenantStream(w, s)
       PROVE  Goal
  <2>1. PICK t \in Tenant : Stream(w, s, t)
    BY <1>13, TenantAssumption DEF CaseStream, TenantStream, Stream, Bearer, TypeOK
  <2>2. sessions[s].user \in User /\ sessions[s] # None
    BY <2>1 DEF Stream, Bearer, TypeOK
  <2> DEFINE seen == {t}
  <2>3. /\ Active(sessions[s].user)
        /\ Begin(w, sessions[s].user, s, users[sessions[s].user].role, "stream", seen)
    BY <2>1 DEF Stream
  <2>4. seen \in SUBSET (Tenant \cup {None})
    OBVIOUS
  <2> HIDE DEF seen
  <2> QED
    BY <2>2, <2>3, <2>4, Begun DEF Proceeds
<1>5. ASSUME NEW w \in Worker, NEW u \in User, LoadKey(w, u) PROVE Goal
  <2> DEFINE none == {}
  <2>1. Active(u) /\ Begin(w, u, None, users[u].role, "known", none)
    BY <1>5 DEF LoadKey
  <2>2. none \in SUBSET (Tenant \cup {None})
    OBVIOUS
  <2> HIDE DEF none
  <2> QED
    BY <2>1, <2>2, Begun DEF Proceeds
<1>6. ASSUME NEW w \in Worker, CheckSession(w) \/ Touch(w) PROVE Goal
  <2>1. CASE CheckSession(w)
    BY <2>1, Stepped DEF CheckSession, Proceeds, Checked
  <2>2. CASE Touch(w)
    BY <2>2, Stepped DEF Touch, Proceeds, Checked
  <2> QED
    BY <1>6, <2>1, <2>2
<1>7. ASSUME NEW w \in Worker, NEW c \in Conn, Scope(w, c) PROVE Goal
  <2>1. req[w] \in Request /\ req[w].step = "known"
    BY <1>7, RequestShape DEF Scope
  <2>2. /\ req'[w] = [req[w] EXCEPT !.step = "scoped", !.conn = c]
        /\ req' = [v \in Worker |-> req'[v]]
        /\ \A v \in Worker \ {w} : req'[v] = req[v]
    BY <1>7 DEF Scope, TypeOK
  <2>3. /\ req'[w] \in Request /\ req'[w].step = "scoped" /\ req'[w].conn = c
        /\ req'[w].user = req[w].user /\ req'[w].session = req[w].session
        /\ req'[w].role = req[w].role /\ req'[w].late = req[w].late
        /\ req'[w].held = req[w].held
    BY <2>1, <2>2 DEF Request
  <2>4. Scoped(w)
    BY <1>7, <2>1, <2>3 DEF Scope, Scoped, Keeps
  <2> QED
    BY <2>2, <2>4, Unmoved DEF Proceeds
<1>8. ASSUME NEW w \in Worker, NEW k \in Investigated, Query(w, k) PROVE Goal
  <2>1. req[w] \in Request /\ req[w].step = "scoped"
    BY <1>8, RequestShape DEF Query, May
  <2>2. Visible(req[w].conn) \in SUBSET (Tenant \cup {None})
    <3>1. req[w].conn \in Conn
      BY <2>1, RequestShape DEF Connections
    <3>2. conns[req[w].conn].tenant \in Tenant \cup {None}
      BY <3>1 DEF TypeOK
    <3> QED
      BY <3>2 DEF Visible
  <2>3. /\ req'[w] = [req[w] EXCEPT !.step = "ran", !.seen = Visible(req[w].conn)]
        /\ req' = [v \in Worker |-> req'[v]]
        /\ \A v \in Worker \ {w} : req'[v] = req[v]
    BY <1>8 DEF Query, TypeOK
  <2>4. /\ req'[w] \in Request /\ req'[w].step = "ran" /\ req'[w].conn = req[w].conn
        /\ req'[w].user = req[w].user /\ req'[w].session = req[w].session
        /\ req'[w].role = req[w].role /\ req'[w].late = req[w].late
        /\ req'[w].held = req[w].held /\ req'[w].seen = Visible(req[w].conn)
    BY <2>1, <2>2, <2>3 DEF Request
  <2>5. Ran(w)
    BY <1>8, <2>1, <2>4 DEF Query, Ran, Keeps
  <2> QED
    BY <2>3, <2>5, Unmoved DEF Proceeds
<1>9. ASSUME NEW w \in Worker, Logout(w) \/ ManageTenants(w) PROVE Goal
  <2>1. req[w].step = "scoped" /\ To(w, "done") /\ conns' = conns
    BY <1>9 DEF Logout, HasToken, ManageTenants, CreateTenant, DeleteTenant, IsPlatformAdmin
  <2> QED
    BY <2>1, Stepped DEF Proceeds, Ran
<1>10. ASSUME NEW w \in Worker, ManageUsers(w) PROVE Goal
  <2>1. PICK u \in User : \E row : WriteUser(w, u, row)
    BY <1>10 DEF ManageUsers, CreateUser, CreateServiceAccount, UpdateUser, DeactivateUser
  <2>2. req[w].step = "scoped"
    BY <1>10 DEF ManageUsers, CreateUser, CreateServiceAccount, UpdateUser, DeactivateUser, May
  <2> QED
    BY <2>1, <2>2, Written DEF Proceeds
<1>11. ASSUME NEW w \in Worker, Finish(w) \/ Refuse(w) PROVE Goal
  <2>1. req[w] # Idle /\ Release(w) /\ req' = [req EXCEPT ![w] = Idle]
    BY <1>11 DEF Finish, Refuse, Idle
  <2>2. /\ req'[w] = Idle /\ req' = [v \in Worker |-> req'[v]]
        /\ \A v \in Worker \ {w} : req'[v] = req[v]
    BY <2>1 DEF TypeOK
  <2> QED
    BY <2>1, <2>2, Unmoved DEF Proceeds, Released
<1>12. CASE UNCHANGED vars
  BY <1>1, <1>12 DEF vars
<1> QED
  BY <1>2, <1>3, <1>4, <1>5, <1>6, <1>7, <1>8, <1>9, <1>10, <1>11, <1>12, <1>13 DEF Next
-----------------------------------------------------------------------------
(* Type correctness                                                        *)

LEMMA RequestsType ==
  ASSUME IInv, [Next]_vars
  PROVE  /\ req' \in [Worker -> Request \cup {Idle}]
         /\ conns' \in [Conn -> [tenant : Tenant \cup {None}, admin : BOOLEAN]]
<1> USE DEF IInv
<1>1. ASSUME NEW v \in Worker, Kept(v) PROVE req'[v] \in Request \cup {Idle}
  BY <1>1 DEF Kept, Same, Keeps
<1>2. ASSUME NEW w \in Worker, Proceeds(w)
      PROVE  /\ req'[w] \in Request \cup {Idle}
             /\ conns' \in [Conn -> [tenant : Tenant \cup {None}, admin : BOOLEAN]]
  <2>1. CASE Started(w) \/ Checked(w) \/ Ran(w)
    BY <2>1 DEF Started, Checked, Ran, Keeps, TypeOK
  <2>2. CASE Scoped(w)
    <3>1. TenantOf[req[w].user] \in Tenant
      BY <2>2, TenantAssumption DEF Scoped, Request
    <3>2. PICK c \in Conn : conns' = [conns EXCEPT ![c] =
             [tenant |-> TenantOf[req[w].user],
              admin |-> conns[c].admin \/ req[w].role = "platform_admin"]]
      BY <2>2 DEF Scoped
    <3>3. (conns[c].admin \/ req[w].role = "platform_admin") \in BOOLEAN
      OBVIOUS
    <3>4. conns' \in [Conn -> [tenant : Tenant \cup {None}, admin : BOOLEAN]]
      BY <3>1, <3>2, <3>3 DEF TypeOK
    <3> QED
      BY <2>2, <3>4 DEF Scoped, Keeps
  <2>3. CASE Released(w)
    BY <2>3 DEF Released, Release, Unset, TypeOK
  <2> QED
    BY <1>2, <2>1, <2>2, <2>3 DEF Proceeds
<1>3. CASE conns' = conns /\ \A v \in Worker : Kept(v)
  <2>1. \A v \in Worker : req'[v] \in Request \cup {Idle}
    BY <1>1, <1>3
  <2> QED
    BY <1>3, <2>1, RequestChanges DEF TypeOK
<1>4. CASE \E w \in Worker : Proceeds(w) /\ \A v \in Worker \ {w} : Kept(v)
  <2>1. \A v \in Worker : req'[v] \in Request \cup {Idle}
    BY <1>1, <1>2, <1>4
  <2> QED
    BY <1>2, <1>4, <2>1, RequestChanges
<1> QED
  BY <1>3, <1>4, RequestChanges

LEMMA TypeStep == IInv /\ [Next]_vars => TypeOK'
<1> SUFFICES ASSUME IInv, [Next]_vars PROVE TypeOK'
  OBVIOUS
<1> DEFINE Rest == /\ users' \in [User -> [role : Role, active : BOOLEAN] \cup {None}]
                   /\ tenants' \subseteq Tenant
                   /\ \A u \in User : users'[u] # None => TenantOf[u] \in tenants'
                   /\ sessions' \in [Session -> [user : User, claim : Role, left : 0 .. Timeout]
                                                \cup {None}]
                   /\ ended' \subseteq Session
<1> SUFFICES Rest
  BY RequestsType DEF TypeOK
<1> USE DEF IInv, TypeOK
<1>1. CASE users' = users /\ tenants' = tenants /\ sessions' = sessions /\ ended' = ended
  BY <1>1
<1>2. ASSUME NEW u \in User, NEW s \in Session, Login(u, s) PROVE Rest
  <2>1. [user |-> u, claim |-> users[u].role, left |-> Timeout]
          \in [user : User, claim : Role, left : 0 .. Timeout]
    BY <1>2, TimeoutAssumption DEF Login, Active
  <2> QED
    BY <1>2, <2>1 DEF Login
<1>3. CASE Tick
  <2>1. ASSUME NEW s \in Session, sessions[s] # None, Live(s)
        PROVE  [sessions[s] EXCEPT !.left = sessions[s].left - 1]
                 \in [user : User, claim : Role, left : 0 .. Timeout]
    BY <2>1, TimeoutAssumption DEF Live
  <2>2. \A s \in Session : sessions'[s] = IF sessions[s] = None \/ ~ Live(s) THEN sessions[s]
                              ELSE [sessions[s] EXCEPT !.left = sessions[s].left - 1]
    BY <1>3 DEF Tick
  <2>3. \A s \in Session :
          sessions'[s] \in [user : User, claim : Role, left : 0 .. Timeout] \cup {None}
    BY <2>1, <2>2
  <2> QED
    BY <1>3, <2>3 DEF Tick
<1>4. ASSUME NEW w \in Worker, Touch(w) PROVE Rest
  <2>1. req[w].session \in Session /\ sessions[req[w].session] # None
    BY <1>4, NoneAssumption, RequestShape DEF Touch, ChecksHeld, Presented
  <2>2. [sessions[req[w].session] EXCEPT !.left = Timeout]
          \in [user : User, claim : Role, left : 0 .. Timeout]
    BY <2>1, TimeoutAssumption
  <2> QED
    BY <1>4, <2>1, <2>2 DEF Touch, Renewed
<1>5. ASSUME NEW w \in Worker, Logout(w) PROVE Rest
  <2>1. req[w].session \in Session /\ sessions[req[w].session] # None
    BY <1>5, RequestShape DEF Logout, HasToken, Presented, Request
  <2>2. [sessions[req[w].session] EXCEPT !.left = 0]
          \in [user : User, claim : Role, left : 0 .. Timeout]
    BY <2>1, TimeoutAssumption
  <2> QED
    BY <1>5, <2>1, <2>2 DEF Logout
<1>6. ASSUME NEW w \in Worker, NEW u \in User, NEW row \in [role : Role, active : BOOLEAN],
             WriteUser(w, u, row), TenantOf[u] \in tenants
      PROVE  Rest
  BY <1>6 DEF WriteUser
<1>7. ASSUME NEW w \in Worker, ManageUsers(w) PROVE Rest
  <2>1. ASSUME NEW u \in User, NEW r \in Granted, CreateUser(w, u, r) PROVE Rest
    BY <1>6, <2>1, GrantedAssumption DEF CreateUser, Vacant
  <2>2. ASSUME NEW u \in User, CreateServiceAccount(w, u) PROVE Rest
    BY <1>6, <2>2 DEF CreateServiceAccount, Vacant, Role
  <2>3. ASSUME NEW u \in User, NEW r \in Granted, NEW a \in BOOLEAN, UpdateUser(w, u, r, a)
        PROVE  Rest
    BY <1>6, <2>3, GrantedAssumption DEF UpdateUser
  <2>4. ASSUME NEW u \in User, DeactivateUser(w, u) PROVE Rest
    <3>1. [users[u] EXCEPT !.active = FALSE] \in [role : Role, active : BOOLEAN]
      BY <2>4 DEF DeactivateUser
    <3> QED
      BY <1>6, <2>4, <3>1 DEF DeactivateUser
  <2> QED
    BY <1>7, <2>1, <2>2, <2>3, <2>4 DEF ManageUsers
<1>8. ASSUME NEW w \in Worker, ManageTenants(w) PROVE Rest
  BY <1>8 DEF ManageTenants, CreateTenant, DeleteTenant
<1>9. ASSUME NEW w \in Worker,
             \/ \E s \in Session : Load(w, s) \/ CaseStream(w, s) \/ TenantStream(w, s)
             \/ \E u \in User : LoadKey(w, u)
             \/ CheckSession(w)
             \/ \E c \in Conn : Scope(w, c)
             \/ \E k \in Investigated : Query(w, k)
             \/ Finish(w)
             \/ Refuse(w)
      PROVE  Rest
  BY <1>1, <1>9 DEF Load, CaseStream, TenantStream, Stream, LoadKey, Begin, CheckSession, Scope,
                    Query, Finish, Refuse
<1>10. CASE UNCHANGED vars
  BY <1>1, <1>10 DEF vars
<1> QED
  BY <1>2, <1>3, <1>4, <1>5, <1>7, <1>8, <1>9, <1>10 DEF Next
-----------------------------------------------------------------------------
(* Sessions                                                                *)

\* What a step does to sessions: a made one stays made, and one that has ended
\* has no time left again.
LEMMA SessionChanges ==
  ASSUME IInv, [Next]_vars
  PROVE  /\ \A s \in Session : sessions[s] # None => sessions'[s] # None
         /\ StaysEnded'
         /\ ended \subseteq ended'
<1> DEFINE Goal == /\ \A s \in Session : sessions[s] # None => sessions'[s] # None
                   /\ StaysEnded'
                   /\ ended \subseteq ended'
           Row == [user : User, claim : Role, left : 0 .. Timeout]
<1> USE DEF IInv
<1>1. CASE sessions' = sessions /\ ended' = ended
  BY <1>1 DEF StaysEnded
<1>2. ASSUME NEW x \in Session, NEW row \in Row,
             sessions' = [sessions EXCEPT ![x] = row],
             \/ row.left = 0 /\ ended' = ended \cup {x}
             \/ x \notin ended /\ ended' = ended
      PROVE  Goal
  <2>1. sessions'[x] = row /\ \A s \in Session \ {x} : sessions'[s] = sessions[s]
    BY <1>2 DEF TypeOK
  <2>2. row # None
    BY NoRecordAssumption
  <2>3. ended \subseteq Session
    BY DEF TypeOK
  <2> QED
    BY <1>2, <2>1, <2>2, <2>3 DEF StaysEnded
<1>3. ASSUME NEW u \in User, NEW s \in Session, Login(u, s) PROVE Goal
  <2> DEFINE row == [user |-> u, claim |-> users[u].role, left |-> Timeout]
  <2>1. row \in Row
    BY <1>3, TimeoutAssumption DEF Login, Active, TypeOK
  <2>2. s \notin ended
    BY <1>3 DEF Login, StaysEnded
  <2>3. sessions' = [sessions EXCEPT ![s] = row] /\ ended' = ended
    BY <1>3 DEF Login
  <2> HIDE DEF row, Row
  <2> QED
    BY <1>2, <2>1, <2>2, <2>3
<1>4. CASE Tick
  <2>1. ASSUME NEW s \in Session, sessions[s] # None
        PROVE  sessions'[s] # None /\ (sessions[s].left = 0 => sessions'[s].left = 0)
    <3>1. sessions[s] \in Row
      BY <2>1 DEF TypeOK
    <3>2. CASE Live(s)
      <4>1. sessions'[s] = [sessions[s] EXCEPT !.left = sessions[s].left - 1]
        BY <1>4, <2>1, <3>2 DEF Tick
      <4>2. sessions'[s] \in Row
        BY <3>1, <3>2, <4>1, TimeoutAssumption DEF Live
      <4> QED
        BY <3>1, <3>2, <4>2, NoRecordAssumption DEF Live
    <3>3. CASE ~ Live(s)
      BY <1>4, <2>1, <3>3 DEF Tick
    <3> QED
      BY <3>2, <3>3
  <2>2. ended' = ended \cup {s \in Session : sessions[s] # None /\ sessions'[s].left = 0}
    BY <1>4 DEF Tick
  <2>3. ended \subseteq Session
    BY DEF TypeOK
  <2> QED
    BY <2>1, <2>2, <2>3 DEF StaysEnded
<1>5. ASSUME NEW w \in Worker, Touch(w) PROVE Goal
  <2> DEFINE s == req[w].session
             row == [sessions[s] EXCEPT !.left = Timeout]
  <2>1. s \in Session /\ sessions[s] \in Row
    BY <1>5, NoneAssumption, RequestShape DEF Touch, ChecksHeld, Presented, TypeOK
  <2>2. row \in Row
    BY <2>1, TimeoutAssumption
  <2>3. CASE Live(s)
    <3>1. s \notin ended
      BY <2>3 DEF StaysEnded, Live
    <3>2. sessions' = [sessions EXCEPT ![s] = row] /\ ended' = ended
      BY <1>5, <2>3 DEF Touch, Renewed
    <3> HIDE DEF s, row, Row
    <3> QED
      BY <1>2, <2>1, <2>2, <3>1, <3>2
  <2>4. CASE ~ Live(s)
    BY <1>1, <1>5, <2>4 DEF Touch
  <2> QED
    BY <2>3, <2>4
<1>6. ASSUME NEW w \in Worker, Logout(w) PROVE Goal
  <2> DEFINE s == req[w].session
             row == [sessions[s] EXCEPT !.left = 0]
  <2>1. s \in Session /\ sessions[s] \in Row
    BY <1>6, RequestShape DEF Logout, HasToken, Presented, Request, TypeOK
  <2>2. row \in Row /\ row.left = 0
    BY <2>1, TimeoutAssumption
  <2>3. sessions' = [sessions EXCEPT ![s] = row] /\ ended' = ended \cup {s}
    BY <1>6 DEF Logout
  <2> HIDE DEF s, row, Row
  <2> QED
    BY <1>2, <2>1, <2>2, <2>3
<1>7. ASSUME NEW w \in Worker,
             \/ \E s \in Session : Load(w, s) \/ CaseStream(w, s) \/ TenantStream(w, s)
             \/ \E u \in User : LoadKey(w, u)
             \/ CheckSession(w)
             \/ \E c \in Conn : Scope(w, c)
             \/ \E k \in Investigated : Query(w, k)
             \/ ManageUsers(w)
             \/ ManageTenants(w)
             \/ Finish(w)
             \/ Refuse(w)
      PROVE  Goal
  BY <1>1, <1>7 DEF Load, CaseStream, TenantStream, Stream, LoadKey, Begin, CheckSession, Scope,
                    Query, Finish, Refuse,
                    ManageUsers, CreateUser, CreateServiceAccount, UpdateUser, DeactivateUser,
                    WriteUser, ManageTenants, CreateTenant, DeleteTenant
<1>8. CASE UNCHANGED vars
  BY <1>1, <1>8 DEF vars
<1> QED
  BY <1>3, <1>4, <1>5, <1>6, <1>7, <1>8 DEF Next

-----------------------------------------------------------------------------
(* The requests' parts of the invariant                                    *)

LEMMA Each ==
  ASSUME IInv, [Next]_vars, NEW w \in Worker
  PROVE  Kept(w) \/ Proceeds(w)
BY RequestChanges

\* What does not begin or end keeps who it is for.
LEMMA Goes ==
  ASSUME IInv, [Next]_vars, NEW w \in Worker, req'[w] # Idle
  PROVE  Started(w) \/ (req[w] # Idle /\ Keeps(req[w], req'[w]))
BY Each, RequestShape DEF Kept, Same, Proceeds, Checked, Scoped, Ran, Released, IInv

\* Only one request is not kept.
LEMMA OneProceeds ==
  ASSUME IInv, [Next]_vars, NEW v \in Worker, NEW w \in Worker, v # w, Scoped(v)
  PROVE  Kept(w)
<1>1. ~ Kept(v)
  <2>1. req[v] # Idle /\ req'[v].step # req[v].step
    BY RequestShape DEF Scoped, IInv
  <2> QED
    BY <2>1 DEF Kept, Same
<1> QED
  BY <1>1, RequestChanges

LEMMA PresentedStep == IInv /\ [Next]_vars => Presented'
<1> SUFFICES ASSUME IInv, [Next]_vars, NEW w \in Worker,
                    req'[w] # Idle, req'[w].session # None
             PROVE  sessions'[req'[w].session] # None
  BY DEF Presented
<1>1. req'[w].session \in Session
  BY RequestsType DEF Request
<1>2. sessions[req'[w].session] # None
  BY Goes DEF Started, Keeps, IInv, Presented
<1> QED
  BY <1>1, <1>2, SessionChanges

LEMMA ChecksStep == IInv /\ [Next]_vars => ChecksHeld'
<1> SUFFICES ASSUME IInv, [Next]_vars, NEW w \in Worker, req'[w] # Idle
             PROVE  /\ req'[w].held
                    /\ req'[w].late => /\ req'[w].step \in {"loaded", "stream"}
                                       /\ req'[w].session \in ended'
                    /\ req'[w].step \in {"loaded", "active"} => req'[w].session \in Session
  BY DEF ChecksHeld
<1> USE DEF IInv
<1>1. ended \subseteq ended' /\ ended \subseteq Session
  BY SessionChanges DEF TypeOK
<1>2. CASE Started(w)
  BY <1>1, <1>2, NoneAssumption DEF Started
<1>3. CASE Kept(w)
  BY <1>1, <1>3 DEF Kept, Same, Keeps, ChecksHeld
<1>4. CASE Checked(w)
  <2>1. req[w] # Idle /\ Keeps(req[w], req'[w])
    BY <1>4, RequestShape DEF Checked
  <2>2. req[w].session \in Session
    BY <1>4, <2>1 DEF Checked, ChecksHeld
  <2>3. ~ req[w].late
    BY <1>4, <2>1 DEF Checked, ChecksHeld, StaysEnded, Live
  <2> QED
    BY <2>1, <2>2, <2>3 DEF Keeps, ChecksHeld
<1>5. CASE Scoped(w) \/ Ran(w)
  BY <1>5, RequestShape DEF Scoped, Ran, Keeps, ChecksHeld
<1> QED
  BY <1>2, <1>3, <1>4, <1>5, Each DEF Proceeds, Released

LEMMA IsolationStep == IInv /\ [Next]_vars => TenantIsolation'
<1> SUFFICES ASSUME IInv, [Next]_vars, NEW w \in Worker, req'[w].step = "ran"
             PROVE  req'[w].seen = {None} \cup IF req'[w].role = "platform_admin" THEN Tenant
                                               ELSE {TenantOf[req'[w].user]}
  BY DEF TenantIsolation
<1>1. req'[w] # Idle
  BY DEF Idle
<1>2. CASE Kept(w)
  BY <1>1, <1>2 DEF Kept, Same, Keeps, IInv, TenantIsolation
<1>3. CASE Ran(w)
  <2>1. /\ req'[w].seen = Visible(req[w].conn)
        /\ req'[w].role = req[w].role /\ req'[w].user = req[w].user
    BY <1>3 DEF Ran, Keeps
  <2>2. /\ conns[req[w].conn].tenant = TenantOf[req[w].user]
        /\ conns[req[w].conn].admin <=> req[w].role = "platform_admin"
    BY <1>3, RequestShape DEF Ran, IInv, Connections
  <2> QED
    BY <2>1, <2>2 DEF Visible
<1>4. ~ Started(w) /\ ~ Checked(w) /\ ~ Scoped(w)
  BY DEF Started, Checked, Scoped
<1> QED
  BY <1>1, <1>2, <1>3, <1>4, Each DEF Proceeds, Released
-----------------------------------------------------------------------------
(* Connections                                                             *)

\* Which connection a request has after a step.
LEMMA HasConnection ==
  ASSUME IInv, [Next]_vars, NEW w \in Worker, req'[w] # Idle
  PROVE  \/ req'[w].conn = None
         \/ req[w] # Idle /\ req'[w].conn = req[w].conn
         \/ Scoped(w)
BY Each, RequestShape DEF Kept, Same, Proceeds, Started, Checked, Ran, Released, IInv

\* The settings of a connection outlive a step unless its request ends, or it is
\* nobody's.
LEMMA SettingsStay ==
  ASSUME IInv, [Next]_vars, NEW w \in Worker, Kept(w), req[w] # Idle, req[w].conn \in Conn
  PROVE  conns'[req[w].conn] = conns[req[w].conn]
<1> USE DEF IInv
<1>1. CASE conns' = conns
  BY <1>1
<1>2. ASSUME NEW v \in Worker, Scoped(v) PROVE conns'[req[w].conn] = conns[req[w].conn]
  BY <1>2 DEF Scoped, TypeOK
<1>3. ASSUME NEW v \in Worker \ {w}, Released(v) PROVE conns'[req[w].conn] = conns[req[w].conn]
  BY <1>3, NoneAssumption DEF Released, Release, Connections
<1>4. ~ Released(w)
  <2>1. Same(req[w], req'[w])
    BY DEF Kept
  <2> QED
    BY <2>1 DEF Same, Keeps, Released, Request, Idle
<1> QED
  BY <1>1, <1>2, <1>3, <1>4, RequestChanges DEF Proceeds, Started, Checked, Ran

LEMMA ConnectionsStep == IInv /\ [Next]_vars => Connections'
<1> SUFFICES ASSUME IInv, [Next]_vars PROVE Connections'
  OBVIOUS
<1> USE DEF IInv
<1>1. ASSUME NEW w \in Worker, req'[w] # Idle
      PROVE  /\ req'[w].step \in {"loaded", "active", "known", "stream"} => req'[w].conn = None
             /\ req'[w].step \in {"scoped", "ran", "done"} =>
                  /\ req'[w].conn \in Conn
                  /\ conns'[req'[w].conn].tenant = TenantOf[req'[w].user]
                  /\ conns'[req'[w].conn].admin <=> req'[w].role = "platform_admin"
  <2>1. CASE Started(w)
    BY <2>1 DEF Started
  <2>2. CASE Kept(w)
    <3>1. req[w] # Idle /\ Same(req[w], req'[w])
      BY <1>1, <2>2 DEF Kept
    <3>2. req[w].conn \in Conn => conns'[req[w].conn] = conns[req[w].conn]
      BY <2>2, <3>1, SettingsStay
    <3> QED
      BY <3>1, <3>2 DEF Same, Keeps, Connections
  <2>3. CASE Checked(w)
    BY <2>3, RequestShape DEF Checked, Connections
  <2>4. CASE Scoped(w)
    <3>1. PICK c \in Conn :
            /\ req'[w].conn = c
            /\ \A v \in Worker : req[v] # Idle => req[v].conn # c
            /\ conns' = [conns EXCEPT ![c] =
                 [tenant |-> TenantOf[req[w].user],
                  admin |-> conns[c].admin \/ req[w].role = "platform_admin"]]
      BY <2>4 DEF Scoped
    <3>2. ~ conns[c].admin
      BY <3>1 DEF Connections, Unset
    <3>3. conns'[c] = [tenant |-> TenantOf[req[w].user],
                       admin |-> conns[c].admin \/ req[w].role = "platform_admin"]
      BY <3>1 DEF TypeOK
    <3>4. conns'[c].tenant = TenantOf[req[w].user]
      BY <3>3
    <3>5. (conns[c].admin \/ req[w].role = "platform_admin")
              <=> req[w].role = "platform_admin"
      BY <3>2
    <3>6. conns'[c].admin <=> req[w].role = "platform_admin"
      <4>1. CASE req[w].role = "platform_admin"
        <5>1. conns'[c] = [tenant |-> TenantOf[req[w].user], admin |-> TRUE]
          BY <3>3, <4>1
        <5> QED
          BY <4>1, <5>1
      <4>2. CASE req[w].role # "platform_admin"
        <5>1. (conns[c].admin \/ req[w].role = "platform_admin") = FALSE
          BY <3>2, <4>2
        <5>2. conns'[c] = [tenant |-> TenantOf[req[w].user], admin |-> FALSE]
          BY <3>3, <5>1
        <5> QED
          BY <4>2, <5>2
      <4> QED
        BY <4>1, <4>2
    <3> QED
      BY <2>4, <3>1, <3>4, <3>6 DEF Scoped, Keeps
  <2>5. CASE Ran(w)
    BY <2>5, RequestShape DEF Ran, Keeps, Connections
  <2> QED
    BY <1>1, <2>1, <2>2, <2>3, <2>4, <2>5, Each DEF Proceeds, Released
<1>2. ASSUME NEW v \in Worker, NEW w \in Worker, v # w, req'[v] # Idle, req'[w] # Idle,
             req'[v].conn = req'[w].conn
      PROVE  req'[w].conn = None
  <2>1. CASE Scoped(v)
    <3>1. Kept(w)
      BY <1>2, <2>1, OneProceeds
    <3> QED
      BY <1>2, <2>1, <3>1 DEF Scoped, Kept, Same
  <2>2. CASE Scoped(w)
    <3>1. Kept(v)
      BY <1>2, <2>2, OneProceeds
    <3> QED
      BY <1>2, <2>2, <3>1 DEF Scoped, Kept, Same
  <2>3. CASE ~ Scoped(v) /\ ~ Scoped(w)
    BY <1>2, <2>3, HasConnection DEF Connections
  <2> QED
    BY <2>1, <2>2, <2>3
<1>3. ASSUME NEW c \in Conn, \A w \in Worker : req'[w] # Idle => req'[w].conn # c
      PROVE  conns'[c] = Unset
  <2>1. ASSUME NEW w \in Worker, Kept(w), req[w] # Idle PROVE req[w].conn # c
    <3>1. Same(req[w], req'[w])
      BY <2>1 DEF Kept
    <3>2. req'[w] # Idle
      BY <3>1 DEF Same, Keeps, Request, Idle
    <3> QED
      BY <1>3, <3>1, <3>2 DEF Same
  <2>2. CASE conns' = conns /\ \A w \in Worker : Kept(w)
    BY <2>1, <2>2 DEF Connections
  <2>3. ASSUME NEW w \in Worker, Proceeds(w), \A v \in Worker \ {w} : Kept(v)
        PROVE  conns'[c] = Unset
    <3>1. CASE Released(w)
      <4>1. CASE c = req[w].conn
        BY <3>1, <4>1 DEF Released, Release
      <4>2. CASE c # req[w].conn
        BY <2>1, <2>3, <3>1, <4>2 DEF Released, Release, Connections
      <4> QED
        BY <4>1, <4>2
    <3>2. CASE Started(w)
      BY <2>1, <2>3, <3>2 DEF Started, Connections
    <3>3. CASE Checked(w) \/ Ran(w)
      <4>1. req'[w] # Idle /\ req'[w].conn = req[w].conn /\ conns' = conns
        BY <3>3 DEF Checked, Ran, Keeps, Request, Idle
      <4> QED
        BY <1>3, <2>1, <2>3, <4>1 DEF Connections
    <3>4. CASE Scoped(w)
      <4>1. req[w] # Idle /\ req[w].conn = None /\ req'[w] # Idle
        BY <3>4, RequestShape DEF Scoped, Keeps, Request, Idle, Connections
      <4>2. conns'[c] = conns[c]
        BY <1>3, <3>4, <4>1 DEF Scoped, TypeOK
      <4> QED
        BY <2>1, <2>3, <4>1, <4>2, NoneAssumption DEF Connections
    <3> QED
      BY <2>3, <3>1, <3>2, <3>3, <3>4 DEF Proceeds
  <2> QED
    BY <2>2, <2>3, RequestChanges
<1> QED
  BY <1>1, <1>2, <1>3 DEF Connections

LEMMA Invariance == Spec => []IInv
<1>1. IInv /\ [Next]_vars => IInv'
  BY TypeStep, PresentedStep, SessionChanges, ChecksStep, ConnectionsStep, IsolationStep DEF IInv
<1> QED
  BY <1>1, InitInv, PTL DEF Spec
-----------------------------------------------------------------------------
(* Theorems                                                                *)

\* Type correctness; in particular every user belongs to a tenant that exists
\* (users.py, tenants.py).
THEOREM TypeCorrect == Spec => []TypeOK
  BY Invariance, PTL DEF IInv

\* A query sees its own tenant's rows and the shared ones, or all as a platform
\* administrator, whoever had its connection before (session.py, migration 0003).
THEOREM TenantsAreIsolated == Spec => []TenantIsolation
  BY Invariance, PTL DEF IInv

\* No request is served in a role that its user has not had, active, since it
\* began, whatever the token claims (auth/dependencies.py).
THEOREM RolesAreCurrent == Spec => []RevocationHolds
<1>1. IInv => RevocationHolds
  BY RequestShape DEF IInv, ChecksHeld, RevocationHolds
<1> QED
  BY <1>1, Invariance, PTL

\* No HTTP request that presents a session after its end is served, whatever renews
\* the session meanwhile (auth/sessions.py, auth/dependencies.py).  The streams, whose
\* handshake looks for no session, are not requests that are served in this sense.
THEOREM EndedSessionsStayOut == Spec => []LoggedOutStaysOut
<1>1. IInv => LoggedOutStaysOut
  BY RequestShape DEF IInv, ChecksHeld, LoggedOutStaysOut
<1> QED
  BY <1>1, Invariance, PTL
=============================================================================

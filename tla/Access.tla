------------------------------- MODULE Access -------------------------------
(***************************************************************************)
(* Who may do what, and what a request sees (backend/src/auth, db/session, *)
(* the row level security of migration 0003, services/users, tenants).     *)
(*                                                                         *)
(* A request is authenticated by a JWT, which names a user and a session,  *)
(* or by the API key of a service account.  It loads the user, looks for   *)
(* the session in Redis, renews it, takes a pooled connection, tells       *)
(* PostgreSQL its tenant for the length of the transaction, checks the     *)
(* permission its route asks for, and runs.  Every step is a round trip    *)
(* between which other requests log out, change users, or use the          *)
(* connection.  A WebSocket is opened by a handshake of its own, which     *)
(* looks at the token and the user alone (api/routers/realtime.py).        *)
(***************************************************************************)
EXTENDS Naturals

CONSTANTS Worker,    \* requests and streams in progress at one time
          Conn,      \* pooled connections of the application role
          User,      \* ids of users and service accounts; the model's bound
          Service,   \* those of service accounts
          Root,      \* the platform administrator there is from the start
          Tenant,
          TenantOf,  \* the tenant of each user
          NameOf,    \* and its username
          Session,   \* session ids (uuid4); the model's bound on logins
          Timeout,   \* inactivity timeout, in ticks
          Granted,   \* the roles given by updates; the model's bound
          None

Role == {"platform_admin", "tenant_admin", "analyst", "read_only", "api_service_account"}

ASSUME ServiceAssumption == Service \subseteq User /\ Root \in User \ Service
ASSUME TenantAssumption == TenantOf \in [User -> Tenant] /\ DOMAIN NameOf = User
ASSUME TimeoutAssumption == Timeout \in Nat \ {0}
ASSUME GrantedAssumption == Granted \subseteq Role
ASSUME NoneAssumption == None \notin Tenant \cup Session \cup Conn
ASSUME NoRecordAssumption == None \notin [user : User, claim : Role, left : 0 .. Timeout]

VARIABLES users,     \* users rows: role and is_active
          tenants,   \* tenants rows
          sessions,  \* what login made: the session key's time left, the token's claims
          conns,     \* app.current_tenant and app.is_platform_admin of each connection
          req,       \* what each worker's request is doing
          ended      \* sessions that were logged out or timed out

vars == <<users, tenants, sessions, conns, req, ended>>

Idle == [step |-> "idle"]
Unset == [tenant |-> None, admin |-> FALSE]   \* reads back as ''

Init == /\ users = [u \in User |-> IF u = Root THEN [role |-> "platform_admin", active |-> TRUE]
                                   ELSE None]
        /\ tenants = {TenantOf[Root]}
        /\ sessions = [s \in Session |-> None]
        /\ conns = [c \in Conn |-> Unset]
        /\ req = [w \in Worker |-> Idle]
        /\ ended = {}
-----------------------------------------------------------------------------
(* The permission matrix (auth/rbac.py)                                    *)

Investigated == {"case", "task", "observable", "asset", "evidence", "note", "timeline",
                 "alert", "attack_mapping", "report"}
Configured == {"case_template", "report_template", "enrichment_source"}

ReadOnly == (Investigated \cup {"dashboard", "search"}) \X {"read"}
Analyst == ReadOnly \cup (Investigated \X {"create", "update", "delete"})
                    \cup ({"enrichment", "module"} \X {"read", "execute"})
                    \cup (Configured \X {"read"})
TenantAdmin == Analyst \cup (Configured \X {"create", "update", "delete"})
                       \cup ({"user"} \X {"create", "read", "update", "delete"})
                       \cup {<<"audit_log", "read">>, <<"tenant", "read">>, <<"tenant", "update">>}

Permissions == [platform_admin |-> {}, tenant_admin |-> TenantAdmin, analyst |-> Analyst,
                read_only |-> ReadOnly, api_service_account |-> Analyst]

HasPermission(role, p) == role = "platform_admin" \/ p \in Permissions[role]
-----------------------------------------------------------------------------
Active(u) == users[u] # None /\ users[u].active

\* The user has the role and is active; req[w].held records that this was so at
\* some time since the request began.
Holds(us, u, role) == us[u] # None /\ us[u].active /\ us[u].role = role
Witnessed(f, us) ==
  [v \in Worker |-> IF f[v] = Idle THEN Idle
                    ELSE [f[v] EXCEPT !.held = @ \/ Holds(us, f[v].user, f[v].role)]]

To(w, step) == req' = [req EXCEPT ![w].step = step]

\* The transaction of w ends: its settings were local to it, and the connection
\* goes back to the pool.
Release_Global(w) ==   \* mutant: SET without LOCAL
  UNCHANGED conns
Release(w) ==
  conns' = [c \in Conn |-> IF req[w] # Idle /\ c = req[w].conn THEN Unset ELSE conns[c]]

\* 401, 403, 404, 409, a lost client: the transaction is rolled back.
Refuse(w) == /\ req[w] # Idle
             /\ Release(w)
             /\ req' = [req EXCEPT ![w] = Idle]
             /\ UNCHANGED <<users, tenants, sessions, ended>>
-----------------------------------------------------------------------------
(* Sessions                                                                *)

\* POST /login looks the user up by name alone, and fails if two tenants share
\* the name.  What it does between the lookup and the new session matters to no
\* later request, which looks the user up again.
Login(u, s) ==
  /\ sessions[s] = None
  /\ u \notin Service
  /\ Active(u)
  /\ \A v \in User \ {u} : NameOf[v] = NameOf[u] => users[v] = None
  /\ sessions' = [sessions EXCEPT ![s] = [user |-> u, claim |-> users[u].role, left |-> Timeout]]
  /\ UNCHANGED <<users, tenants, conns, req, ended>>

Live(s) == sessions[s].left > 0

\* Redis expires the key.
Tick ==
  /\ sessions' = [s \in Session |-> IF sessions[s] = None \/ ~ Live(s) THEN sessions[s]
                                    ELSE [sessions[s] EXCEPT !.left = @ - 1]]
  /\ ended' = ended \cup {s \in Session : sessions[s] # None /\ sessions'[s].left = 0}
  /\ UNCHANGED <<users, tenants, conns, req>>

\* POST /refresh exchanges a refresh token for an access token without looking
\* at the user or the session: a token of a session can always be presented.
Bearer(s) == sessions[s] # None
-----------------------------------------------------------------------------
(* get_principal and require_permission                                    *)

Begin(w, u, s, role, step, seen) ==
  /\ req[w] = Idle
  /\ req' = [req EXCEPT ![w] =
       [step |-> step, user |-> u, session |-> s, role |-> role,
        conn |-> None, seen |-> seen, held |-> Holds(users, u, role), late |-> s \in ended]]
  /\ UNCHANGED <<users, tenants, sessions, conns, ended>>

Load_Claim(w, s) ==   \* mutant: the role is the one the token claims
  /\ Bearer(s)
  /\ Active(sessions[s].user)
  /\ Begin(w, sessions[s].user, s, sessions[s].claim, "loaded", {})

\* _load_user_from_token: the user row.
Load(w, s) ==
  /\ Bearer(s)
  /\ Active(sessions[s].user)
  /\ Begin(w, sessions[s].user, s, users[sessions[s].user].role, "loaded", {})

\* _load_service_account
LoadKey(w, u) ==
  /\ u \in Service
  /\ Active(u)
  /\ Begin(w, u, None, users[u].role, "known", {})

\* is_session_active
CheckSession(w) ==
  /\ req[w].step = "loaded"
  /\ Live(req[w].session)
  /\ To(w, "active")
  /\ UNCHANGED <<users, tenants, sessions, conns, ended>>

Renewed(s) == [sessions EXCEPT ![s].left = Timeout]

Touch_Sets(w) ==   \* mutant: writes the key anew instead of EXPIRE
  /\ req[w].step = "active"
  /\ sessions' = Renewed(req[w].session)
  /\ To(w, "known")
  /\ UNCHANGED <<users, tenants, conns, ended>>

\* touch_session: EXPIRE does nothing to a key that is gone, and nobody looks at
\* its result.
Touch(w) ==
  /\ req[w].step = "active"
  /\ sessions' = IF Live(req[w].session) THEN Renewed(req[w].session) ELSE sessions
  /\ To(w, "known")
  /\ UNCHANGED <<users, tenants, conns, ended>>

\* apply_tenant_context on a connection nobody else has.  The flag is only ever
\* set, not cleared.
Scope(w, c) ==
  /\ req[w].step = "known"
  /\ \A v \in Worker : req[v] # Idle => req[v].conn # c
  /\ conns' = [conns EXCEPT ![c] =
       [tenant |-> TenantOf[req[w].user], admin |-> @.admin \/ req[w].role = "platform_admin"]]
  /\ req' = [req EXCEPT ![w].step = "scoped", ![w].conn = c]
  /\ UNCHANGED <<users, tenants, sessions, ended>>
-----------------------------------------------------------------------------
(* The WebSockets                                                          *)

\* _authenticate_ws looks for no session.  A stream that is open stays open whatever
\* becomes of its user and session, until the client goes (Refuse).
Stream(w, s, t) ==
  /\ Bearer(s)
  /\ Active(sessions[s].user)
  /\ Begin(w, sessions[s].user, s, users[sessions[s].user].role, "stream", {t})

\* case_stream: the case may be of any tenant.
CaseStream(w, s) == \E t \in Tenant : Stream(w, s, t)

\* tenant_stream: its user's tenant only.
TenantStream(w, s) == Stream(w, s, TenantOf[sessions[s].user])
-----------------------------------------------------------------------------
(* The routes                                                              *)

\* require_permission: the last thing before the handler of the route.
May(w, resource, action) == /\ req[w].step = "scoped"
                            /\ HasPermission(req[w].role, <<resource, action>>)

\* Routes that take tokens only: logout, and those for platform administrators.
HasToken(w) == req[w].step = "scoped" /\ req[w].session # None
IsPlatformAdmin(w) == HasToken(w) /\ req[w].role = "platform_admin"

\* The policies tenant_isolation and platform_admin_bypass.  (None: the rows of
\* no tenant, the shared templates.)
Visible(c) == {None} \cup IF conns[c].admin THEN Tenant ELSE {conns[c].tenant}

\* A route of an investigation: it sees what the policies let through.
Query(w, resource) ==
  /\ May(w, resource, "read")
  /\ req' = [req EXCEPT ![w].step = "ran", ![w].seen = Visible(req[w].conn)]
  /\ UNCHANGED <<users, tenants, sessions, conns, ended>>

Logout(w) ==
  /\ HasToken(w)
  /\ sessions' = [sessions EXCEPT ![req[w].session].left = 0]
  /\ ended' = ended \cup {req[w].session}
  /\ To(w, "done")
  /\ UNCHANGED <<users, tenants, conns>>

\* _assert_same_tenant_or_platform: these routes run on the owner's connection,
\* which the policies do not restrict.
SameTenantOrPlatform(w, t) == req[w].role = "platform_admin" \/ TenantOf[req[w].user] = t

WriteUser(w, u, row) ==
  /\ SameTenantOrPlatform(w, TenantOf[u])
  /\ users' = [users EXCEPT ![u] = row]
  /\ req' = Witnessed([req EXCEPT ![w].step = "done"], users')
  /\ UNCHANGED <<tenants, sessions, conns, ended>>

\* The tenant exists (404) and has nobody of that name (409).
Vacant(u) ==
  /\ users[u] = None
  /\ TenantOf[u] \in tenants
  /\ \A v \in User : TenantOf[v] = TenantOf[u] /\ NameOf[v] = NameOf[u] => users[v] = None

CreateUser(w, u, role) ==
  /\ May(w, "user", "create")
  /\ u \notin Service /\ role # "api_service_account"
  /\ Vacant(u)
  /\ WriteUser(w, u, [role |-> role, active |-> TRUE])

\* The role of the body, analyst or read_only, is checked and not used.
CreateServiceAccount(w, u) ==
  /\ May(w, "user", "create")
  /\ u \in Service
  /\ Vacant(u)
  /\ WriteUser(w, u, [role |-> "api_service_account", active |-> TRUE])

\* update_user writes the columns of its body, whatever kind of user it is.
UpdateUser(w, u, role, active) ==
  /\ May(w, "user", "update")
  /\ users[u] # None
  /\ WriteUser(w, u, [role |-> role, active |-> active])

DeactivateUser(w, u) ==
  /\ May(w, "user", "delete")
  /\ users[u] # None
  /\ WriteUser(w, u, [users[u] EXCEPT !.active = FALSE])

CreateTenant(w, t) ==
  /\ IsPlatformAdmin(w)
  /\ t \notin tenants
  /\ tenants' = tenants \cup {t}
  /\ To(w, "done")
  /\ UNCHANGED <<users, sessions, conns, ended>>

DeleteTenant_Cascades(w, t) ==   \* mutant: goes with its users left behind
  /\ IsPlatformAdmin(w)
  /\ tenants' = tenants \ {t}
  /\ To(w, "done")
  /\ UNCHANGED <<users, sessions, conns, ended>>

\* The ORM sets tenant_id of the tenant's users to NULL, which the column refuses:
\* a tenant that has users cannot be deleted.
DeleteTenant(w, t) ==
  /\ IsPlatformAdmin(w)
  /\ t \in tenants
  /\ \A u \in User : TenantOf[u] = t => users[u] = None
  /\ tenants' = tenants \ {t}
  /\ To(w, "done")
  /\ UNCHANGED <<users, sessions, conns, ended>>

\* get_db commits and closes.
Finish(w) ==
  /\ req[w].step \in {"ran", "done"}
  /\ Release(w)
  /\ req' = [req EXCEPT ![w] = Idle]
  /\ UNCHANGED <<users, tenants, sessions, ended>>
-----------------------------------------------------------------------------
ManageUsers(w) ==
  \/ \E u \in User, r \in Granted : CreateUser(w, u, r)
  \/ \E u \in User : CreateServiceAccount(w, u)
  \/ \E u \in User, r \in Granted, a \in BOOLEAN : UpdateUser(w, u, r, a)
  \/ \E u \in User : DeactivateUser(w, u)

ManageTenants(w) ==
  \E t \in Tenant : CreateTenant(w, t) \/ DeleteTenant(w, t)

Next == \/ \E u \in User, s \in Session : Login(u, s)
        \/ Tick
        \/ \E w \in Worker :
             \/ \E s \in Session : Load(w, s) \/ CaseStream(w, s) \/ TenantStream(w, s)
             \/ \E u \in User : LoadKey(w, u)
             \/ CheckSession(w)
             \/ Touch(w)
             \/ \E c \in Conn : Scope(w, c)
             \/ \E r \in Investigated : Query(w, r)
             \/ Logout(w)
             \/ ManageUsers(w)
             \/ ManageTenants(w)
             \/ Finish(w)
             \/ Refuse(w)

Spec == Init /\ [][Next]_vars
-----------------------------------------------------------------------------
Request == [step : {"loaded", "active", "known", "scoped", "ran", "done", "stream"},
            user : User, session : Session \cup {None}, role : Role,
            conn : Conn \cup {None},
            seen : SUBSET (Tenant \cup {None}), held : BOOLEAN, late : BOOLEAN]

TypeOK ==
  /\ users \in [User -> [role : Role, active : BOOLEAN] \cup {None}]
  /\ tenants \subseteq Tenant
  /\ \A u \in User : users[u] # None => TenantOf[u] \in tenants
  /\ sessions \in [Session -> [user : User, claim : Role, left : 0 .. Timeout] \cup {None}]
  /\ conns \in [Conn -> [tenant : Tenant \cup {None}, admin : BOOLEAN]]
  /\ req \in [Worker -> Request \cup {Idle}]
  /\ ended \subseteq Session

\* A query sees the rows of its user's tenant and the shared ones, a platform
\* administrator's sees all: no less, and no more because of whoever had the
\* connection before.
TenantIsolation ==
  \A w \in Worker : req[w].step = "ran" =>
    req[w].seen = {None} \cup IF req[w].role = "platform_admin" THEN Tenant
                              ELSE {TenantOf[req[w].user]}

\* A request is served in a role that its user, active, has had since it began:
\* what was revoked before stays revoked, whatever the token says.
RevocationHolds ==
  \A w \in Worker : req[w].step \in {"ran", "done"} => req[w].held

\* A request that presents a session after its logout or timeout is not served,
\* although requests that were in flight then still renew it.  This is said of the
\* HTTP requests; a stream is opened with the token of an ended session as well.
LoggedOutStaysOut ==
  \A w \in Worker : req[w].step \in {"ran", "done"} => ~ req[w].late
=============================================================================

-------------------------------- MODULE Access --------------------------------
(***************************************************************************)
(* Who may do what: users, tenants and their members, entities and their   *)
(* staff, first-run setup, and the sessions a user holds.                  *)
(*                                                                         *)
(* A handler of internal/http is the sequence of database statements it    *)
(* makes (todo), and other requests run between any two of them: only      *)
(* registerUser, CreateWithOwner and the admin command use a transaction.  *)
(* A statement that fails ends its request and leaves what the earlier     *)
(* ones wrote.  An access token is a signed pair of user and tenant that   *)
(* every session carries; passwords, hashes and expiry are left out: a     *)
(* request with a wrong password or an expired token never begins.         *)
(***************************************************************************)
EXTENDS Integers, FiniteSets, Sequences

CONSTANTS
    Users,             \* email addresses, one user each
    Clerks,            \* requests that run side by side
    Cash, Fees,        \* names of accounts, those a template brings
    MaxTenants, MaxEntities, MaxSessions, MaxRequests,   \* bounds of the model
    MaxAccessFaults    \* bound: statements that fail

ASSUME AccessConstants ==
    /\ MaxTenants \in Nat \ {0} /\ MaxEntities \in Nat
    /\ MaxSessions \in Nat /\ MaxRequests \in Nat /\ MaxAccessFaults \in Nat
    /\ Cash # Fees

NoTenant == 0
DefaultTenant == 1   \* which a migration inserts
Tenants  == 1 .. MaxTenants
Entities == 1 .. MaxEntities
Roles    == {"admin", "user"}   \* "accountant" differs only where documents are written

VARIABLES
    users,        \* users.email of the rows there are
    admins,       \* users.is_admin
    home,         \* users.default_tenant_id
    tenants,      \* tenants ever created: ids 1 .. tenants
    members,      \* tenant_memberships
    entities,     \* entities: [id, tenant]
    entityCount,  \* entities ever created
    charts,       \* the account names of each entity
    seeds,        \* accounts of new entities whose inserts are still to come
    staff,        \* entity_users
    sessions,     \* refresh_tokens: [id, user, tenant, from]
    revoked,      \* ids with revoked_at set
    setupComplete,
    request,      \* a request's remaining statements and its locals
    requests,     \* requests begun so far, up to MaxRequests
    half,         \* history: users whose request stopped half-way
    bare,         \* history: entities whose Cash account was lost when it was
                  \* seeded, or renamed or deleted since
    accessFaults

people     == <<users, admins, home>>
tenancy    == <<tenants, members>>
estate     == <<entities, entityCount, charts, seeds, staff>>
tokens     == <<sessions, revoked>>
history    == <<half, bare>>
accessVars == <<people, tenancy, estate, tokens, setupComplete, request, requests,
                history, accessFaults>>

Member(t, u)  == \E m \in members : m.tenant = t /\ m.user = u
Serves(e, u)  == \E s \in staff : s.entity = e /\ s.user = u
SessionIds    == {s.id : s \in sessions}
NextSession   == Cardinality(sessions) + 1
Resting       == [todo |-> <<>>]
Request(u, t, e, r, s, statements) ==
    [todo |-> statements, user |-> u, tenant |-> t, entity |-> e, role |-> r, session |-> s]

AccessInit ==
    /\ users = {} /\ admins = {}
    /\ home = [u \in Users |-> NoTenant]
    /\ tenants = DefaultTenant
    /\ members = {} /\ entities = {} /\ entityCount = 0 /\ staff = {}
    /\ charts = [e \in Entities |-> {}] /\ seeds = {}
    /\ sessions = {} /\ revoked = {}
    /\ setupComplete = FALSE
    /\ request = [p \in Clerks |-> Resting]
    /\ requests = 0
    /\ half = {} /\ bare = {}
    /\ accessFaults = 0

-----------------------------------------------------------------------------
(* Guards: the middleware a route names.                                   *)

(* AuthRequired and requireTenantMembership: the bearer's token names a    *)
(* user and a tenant, and the membership is looked up on every request.    *)
AuthRequired(u, t) ==
    /\ \E s \in sessions : s.user = u /\ s.tenant = t
    /\ Member(t, u)

AdminRequired(u, t) == AuthRequired(u, t) /\ u \in admins

(* requireEntityRole with adminRoles(): GetRole joins the membership with  *)
(* the entity's tenant, so an entity of another tenant is not found.       *)
requireEntityAdmin(u, t, e) ==
    /\ AuthRequired(u, t)
    /\ [id |-> e, tenant |-> t] \in entities
    /\ [entity |-> e, user |-> u, role |-> "admin"] \in staff

-----------------------------------------------------------------------------
(* Requests.                                                               *)

Idle(p) == request[p] = Resting

(* A request more, up to the bound of the model.                           *)
Counted == requests < MaxRequests /\ requests' = requests + 1

AccessFault == accessFaults < MaxAccessFaults /\ accessFaults' = accessFaults + 1

Opens(p, r) ==
    /\ Idle(p) /\ Counted
    /\ request' = [request EXCEPT ![p] = r]
    /\ UNCHANGED <<people, tenancy, estate, tokens, setupComplete, history>>

Begin(p, r) == Opens(p, r) /\ UNCHANGED accessFaults

(* A slip: setup is marked complete before the administrator exists.       *)
SetupMarksFirst(p, u) ==
    /\ ~ setupComplete
    /\ Begin(p, Request(u, NoTenant, 0, "admin", 0,
             <<"complete", "tenant", "user", "member", "home", "entity">>))

(* POST /setup.  Two of them may run at once: the test of setup_complete   *)
(* is not repeated.                                                        *)
handleSetup(p, u) ==
    /\ ~ setupComplete
    /\ Begin(p, Request(u, NoTenant, 0, "admin", 0,
             <<"tenant", "user", "member", "home", "entity", "complete">>))

(* POST /users, by an administrator: the user is created before the tenant *)
(* is looked up or created.                                                *)
handleCreateUser(p, a, t, u, given, role) ==
    /\ AdminRequired(a, t)
    /\ Begin(p, Request(u, given, 0, role, 0,
             <<"user">> \o (IF given = NoTenant THEN <<"tenant">> ELSE <<"known">>)
                        \o <<"member", "home">>))

(* POST /entities/:id/members: the entity's row, then the tenant's if      *)
(* there is none.                                                          *)
handleCreateMember(p, a, t, e, u, role) ==
    /\ requireEntityAdmin(a, t, e)
    /\ u \in users
    /\ Begin(p, Request(u, t, e, role, 0, <<"staff", "look", "member">>))

(* POST /auth/refresh: the token is read and tested...                     *)
handleRefresh(p, s) ==
    /\ s \in sessions /\ s.id \notin revoked
    /\ Begin(p, Request(s.user, s.tenant, 0, "user", s.id, <<"exchange", "session">>))

(* POST /auth/logout: read and tested, then revoked.                       *)
handleLogout(p, s) ==
    /\ s \in sessions /\ s.id \notin revoked
    /\ Begin(p, Request(s.user, s.tenant, 0, "user", s.id, <<"revoke">>))

(* resolveTenantForLogin: the tenant asked for, which must have the user   *)
(* as a member, else the default one if it still does, else the newest.    *)
resolveTenantForLogin(u, asked) ==
    IF asked # NoTenant THEN {asked} \cap {t \in Tenants : Member(t, u)}
    ELSE IF home[u] # NoTenant /\ Member(home[u], u) THEN {home[u]}
    ELSE {t \in Tenants : Member(t, u)}

(* POST /auth/login, once the password and, if any, the second factor have *)
(* been accepted.  It is refused before setup, unless the look at          *)
(* system_settings fails.                                                  *)
handleLogin(p, u, asked) ==
    /\ u \in users
    /\ \E t \in resolveTenantForLogin(u, asked) :
          Opens(p, Request(u, t, 0, "user", 0, <<"session">>))
    /\ \/ setupComplete /\ UNCHANGED accessFaults
       \/ AccessFault

(* POST /tenants/:id/switch behind requireTenantAccess.                    *)
handleSwitchTenant(p, u, t, target) ==
    /\ AuthRequired(u, t) /\ Member(target, u)
    /\ Begin(p, Request(u, target, 0, "user", 0, <<"session">>))

(* POST /auth/register: one transaction writes tenant, user, membership    *)
(* and default tenant; then the session.                                   *)
handleRegister(p, u) ==
    /\ setupComplete /\ Idle(p) /\ Counted
    /\ u \notin users /\ tenants < MaxTenants
    /\ tenants' = tenants + 1
    /\ users' = users \cup {u}
    /\ members' = members \cup {[tenant |-> tenants + 1, user |-> u, role |-> "user"]}
    /\ home' = [home EXCEPT ![u] = tenants + 1]
    /\ request' = [request EXCEPT ![p] = Request(u, tenants + 1, 0, "user", 0, <<"session">>)]
    /\ UNCHANGED <<admins, estate, tokens, setupComplete, history, accessFaults>>

-----------------------------------------------------------------------------
(* Statements.                                                             *)

At(p, statement) == ~ Idle(p) /\ Head(request[p].todo) = statement

Stop(p) == request' = [request EXCEPT ![p] = Resting]

Rest(r) == IF Len(r.todo) = 1 THEN Resting ELSE [r EXCEPT !.todo = Tail(@)]

Advance(p) == request' = [request EXCEPT ![p] = Rest(@)]

(* The accounts of a new entity are inserted before its request goes on.   *)
Seeded(e) == \A s \in seeds : s.entity # e

(* The statement fails, or the client is gone: what the earlier statements *)
(* wrote stays.                                                            *)
StatementFails(p) ==
    /\ ~ Idle(p) /\ (At(p, "complete") => Seeded(request[p].entity))
    /\ AccessFault
    /\ half' = half \cup {request[p].user}
    /\ Stop(p)
    /\ UNCHANGED <<people, tenancy, estate, tokens, setupComplete, requests, bare>>

CreateTenant(p) ==
    /\ At(p, "tenant") /\ tenants < MaxTenants
    /\ tenants' = tenants + 1
    /\ request' = [request EXCEPT ![p] = Rest([@ EXCEPT !.tenant = tenants + 1])]
    /\ UNCHANGED <<people, members, estate, tokens, setupComplete, requests, history,
                   accessFaults>>

(* handleCreateUser looks a tenant up that the client named; the user      *)
(* it has just created stays if there is none.                             *)
FindTenant(p) ==
    /\ At(p, "known")
    /\ IF request[p].tenant \in 1 .. tenants
       THEN Advance(p) /\ UNCHANGED half
       ELSE Stop(p) /\ half' = half \cup {request[p].user}
    /\ UNCHANGED <<people, tenancy, estate, tokens, setupComplete, requests, bare,
                   accessFaults>>

(* users.email is unique: a second insert fails.                           *)
CreateUser(p) ==
    /\ At(p, "user")
    /\ LET u == request[p].user IN
       IF u \in users
       THEN Stop(p) /\ UNCHANGED people
       ELSE /\ users' = users \cup {u}
            /\ admins' = IF request[p].role = "admin" THEN admins \cup {u} ELSE admins
            /\ UNCHANGED home
            /\ Advance(p)
    /\ UNCHANGED <<tenancy, estate, tokens, setupComplete, requests, history, accessFaults>>

(* (tenant_id, user_id) is unique.                                         *)
CreateTenantMember(p) ==
    /\ At(p, "member")
    /\ LET m == [tenant |-> request[p].tenant, user |-> request[p].user,
                 role |-> IF request[p].role = "admin" THEN "admin" ELSE "user"] IN
       IF Member(m.tenant, m.user)
       THEN Stop(p) /\ UNCHANGED members
       ELSE Advance(p) /\ members' = members \cup {m}
    /\ UNCHANGED <<people, tenants, estate, tokens, setupComplete, requests, history,
                   accessFaults>>

SetDefaultTenant(p) ==
    /\ At(p, "home")
    /\ home' = [home EXCEPT ![request[p].user] = request[p].tenant]
    /\ Advance(p)
    /\ UNCHANGED <<users, admins, tenancy, estate, tokens, setupComplete, requests,
                   history, accessFaults>>

(* (user_id, entity_id) is unique, and the entity must still exist.        *)
CreateStaff(p) ==
    /\ At(p, "staff")
    /\ LET w == request[p] IN
       IF Serves(w.entity, w.user) \/ [id |-> w.entity, tenant |-> w.tenant] \notin entities
       THEN Stop(p) /\ UNCHANGED staff
       ELSE /\ staff' = staff \cup {[entity |-> w.entity, user |-> w.user, role |-> w.role]}
            /\ Advance(p)
    /\ UNCHANGED <<people, tenancy, entities, entityCount, charts, seeds, tokens,
                   setupComplete, requests, history, accessFaults>>

(* GetRole: a user who is a member of the tenant already needs no row.     *)
LookUpTenantMember(p) ==
    /\ At(p, "look")
    /\ IF Member(request[p].tenant, request[p].user) THEN Stop(p) ELSE Advance(p)
    /\ UNCHANGED <<people, tenancy, estate, tokens, setupComplete, requests, history,
                   accessFaults>>

(* ensureCashAccount and the duplicate test of seedEntityAccounts.         *)
SeedNames(template) == template \cup {Cash}

(* CreateWithOwner writes the entity and its owner in one transaction.     *)
CreateWithOwner(u, t, template) ==
    /\ entityCount < MaxEntities
    /\ entityCount' = entityCount + 1
    /\ entities' = entities \cup {[id |-> entityCount + 1, tenant |-> t]}
    /\ staff' = staff \cup {[entity |-> entityCount + 1, user |-> u, role |-> "admin"]}
    /\ seeds' = seeds \cup {[entity |-> entityCount + 1, name |-> n] : n \in SeedNames(template)}
    /\ UNCHANGED charts

(* seedEntityAccounts inserts the accounts one by one, and ignores it when *)
(* one fails: the entity is gone, has an account of that name by now, or   *)
(* the statement fails.                                                    *)
SeedAccount(s) ==
    /\ seeds' = seeds \ {s}
    /\ \/ /\ charts' = IF \E e \in entities : e.id = s.entity
                       THEN [charts EXCEPT ![s.entity] = @ \cup {s.name}] ELSE charts
          /\ UNCHANGED <<bare, accessFaults>>
       \/ /\ AccessFault
          /\ bare' = IF s.name = Cash THEN bare \cup {s.entity} ELSE bare
          /\ UNCHANGED charts
    /\ UNCHANGED <<people, tenancy, entities, entityCount, staff, tokens, setupComplete,
                   request, requests, half>>

(* The entity of setup: none is asked for, or its creation fails unseen.   *)
SetupEntity(p, template) ==
    /\ At(p, "entity")
    /\ \/ /\ CreateWithOwner(request[p].user, request[p].tenant, template)
          /\ request' = [request EXCEPT ![p] = Rest([@ EXCEPT !.entity = entityCount + 1])]
       \/ UNCHANGED estate /\ Advance(p)
    /\ UNCHANGED <<people, tenancy, tokens, setupComplete, requests, history, accessFaults>>

SetSetupComplete(p) ==
    /\ At(p, "complete") /\ Seeded(request[p].entity)
    /\ setupComplete' = TRUE
    /\ Advance(p)
    /\ UNCHANGED <<people, tenancy, estate, tokens, requests, history, accessFaults>>

(* A slip: Revoke in place of RevokeIfActive.                              *)
ExchangeUnchecked(p) ==
    /\ At(p, "exchange")
    /\ revoked' = revoked \cup {request[p].session}
    /\ Advance(p)
    /\ UNCHANGED <<people, tenancy, estate, sessions, setupComplete, requests, history,
                   accessFaults>>

(* RevokeIfActive: one of two concurrent exchanges finds the row revoked.  *)
RevokeIfActive(p) ==
    /\ At(p, "exchange")
    /\ IF request[p].session \in revoked THEN Stop(p) ELSE Advance(p)
    /\ revoked' = revoked \cup {request[p].session}
    /\ UNCHANGED <<people, tenancy, estate, sessions, setupComplete, requests, history,
                   accessFaults>>

Revoke(p) ==
    /\ At(p, "revoke")
    /\ revoked' = revoked \cup {request[p].session}
    /\ Advance(p)
    /\ UNCHANGED <<people, tenancy, estate, sessions, setupComplete, requests, history,
                   accessFaults>>

issueSession(p) ==
    /\ At(p, "session") /\ NextSession <= MaxSessions
    /\ sessions' = sessions \cup
          {[id |-> NextSession, user |-> request[p].user, tenant |-> request[p].tenant,
            from |-> request[p].session]}
    /\ Advance(p)
    /\ UNCHANGED <<people, tenancy, estate, revoked, setupComplete, requests, history,
                   accessFaults>>

-----------------------------------------------------------------------------
(* Requests of one statement.                                              *)

(* POST /auth/logout-all.                                                  *)
handleLogoutAll(u, t) ==
    /\ AuthRequired(u, t) /\ Counted
    /\ revoked' = revoked \cup {s.id : s \in {x \in sessions : x.user = u}}
    /\ UNCHANGED <<people, tenancy, estate, sessions, setupComplete, request,
                   history, accessFaults>>

handleCreateEntity(u, t, template) ==
    /\ AuthRequired(u, t) /\ Counted
    /\ CreateWithOwner(u, t, template)
    /\ UNCHANGED <<people, tenancy, tokens, setupComplete, request, history, accessFaults>>

(* DELETE /entities/:id; staff and accounts go with it (ON DELETE CASCADE).*)
handleDeleteEntity(u, t, e) ==
    /\ requireEntityAdmin(u, t, e) /\ Counted
    /\ entities' = entities \ {[id |-> e, tenant |-> t]}
    /\ staff' = {s \in staff : s.entity # e}
    /\ charts' = [charts EXCEPT ![e] = {}]
    /\ UNCHANGED <<people, tenancy, entityCount, seeds, tokens, setupComplete, request,
                   history, accessFaults>>

(* PATCH and DELETE /entities/:id/members/:member_id: the caller is an     *)
(* administrator of the entity of the path; the row is found by its id     *)
(* alone, so it may be of any entity.                                      *)
handleUpdateMember(a, t, e, m, role) ==
    /\ requireEntityAdmin(a, t, e) /\ m \in staff /\ Counted
    /\ staff' = (staff \ {m}) \cup {[entity |-> m.entity, user |-> m.user, role |-> role]}
    /\ UNCHANGED <<people, tenancy, entities, entityCount, charts, seeds, tokens,
                   setupComplete, request, history, accessFaults>>

handleDeleteMember(a, t, e, m) ==
    /\ requireEntityAdmin(a, t, e) /\ m \in staff /\ Counted
    /\ staff' = staff \ {m}
    /\ UNCHANGED <<people, tenancy, entities, entityCount, charts, seeds, tokens,
                   setupComplete, request, history, accessFaults>>

(* An administrator of the entity changes the names of its chart, each of  *)
(* which is unique in it.                                                  *)
ChangeChart(a, t, e, gone, new) ==
    /\ requireEntityAdmin(a, t, e) /\ Counted
    /\ gone \subseteq charts[e] /\ new \cap charts[e] = {}
    /\ charts' = [charts EXCEPT ![e] = (@ \ gone) \cup new]
    /\ bare' = IF Cash \in gone THEN bare \cup {e} ELSE bare
    /\ UNCHANGED <<people, tenancy, entities, entityCount, seeds, staff, tokens,
                   setupComplete, request, half, accessFaults>>

createAccount(a, t, e, name) == ChangeChart(a, t, e, {}, {name})

updateAccount(a, t, e, name, new) == ChangeChart(a, t, e, {name}, {new})

(* Refused when something in the books refers to the account.              *)
deleteAccount(a, t, e, name) == ChangeChart(a, t, e, {name}, {})

(* A slip: the account is made an administrator but never inserted.        *)
ResetUnknown(u) ==
    /\ admins' = admins \cup {u} /\ setupComplete' = TRUE
    /\ Counted
    /\ UNCHANGED <<users, home, tenancy, estate, tokens, request, history, accessFaults>>

(* The command "openb00ks admin reset-password": upsertAdminUser finds or  *)
(* creates the user and picks its tenant (its default, one it is in, the   *)
(* oldest, a new one); all in one transaction.                             *)
resetAdminPassword(u) ==
    \E t \in IF home[u] # NoTenant THEN {home[u]}
             ELSE IF \E x \in Tenants : Member(x, u) THEN {x \in Tenants : Member(x, u)}
             ELSE {1} :
       /\ tenants' = IF tenants = 0 THEN 1 ELSE tenants
       /\ users' = users \cup {u}
       /\ admins' = admins \cup {u}
       /\ members' = {m \in members : ~ (m.tenant = t /\ m.user = u)}
                        \cup {[tenant |-> t, user |-> u, role |-> "admin"]}
       /\ home' = [home EXCEPT ![u] = t]
       /\ setupComplete' = TRUE
       /\ Counted
       /\ UNCHANGED <<estate, tokens, request, history, accessFaults>>

-----------------------------------------------------------------------------
Templates == {{Fees}, {Cash, Fees}}

Handlers(p) ==
    \/ \E u \in Users :
          \/ handleSetup(p, u)
          \/ handleRegister(p, u)
          \/ \E t \in {NoTenant} \cup Tenants : handleLogin(p, u, t)
          \/ \E t, x \in Tenants : handleSwitchTenant(p, u, t, x)
          \/ \E a \in Users, t \in Tenants, g \in {NoTenant} \cup Tenants,
                r \in {"admin", "user"} : handleCreateUser(p, a, t, u, g, r)
          \/ \E a \in Users, t \in Tenants, e \in Entities, r \in Roles :
                handleCreateMember(p, a, t, e, u, r)
    \/ \E s \in sessions : handleRefresh(p, s) \/ handleLogout(p, s)

Statements(p) ==
    \/ StatementFails(p) \/ CreateTenant(p) \/ FindTenant(p) \/ CreateUser(p)
    \/ CreateTenantMember(p) \/ SetDefaultTenant(p) \/ CreateStaff(p)
    \/ LookUpTenantMember(p) \/ SetSetupComplete(p)
    \/ \E template \in Templates : SetupEntity(p, template)
    \/ RevokeIfActive(p) \/ Revoke(p) \/ issueSession(p)

Chart(u, t, e) ==
    \E name \in {Cash, Fees} :
       \/ createAccount(u, t, e, name)
       \/ deleteAccount(u, t, e, name)
       \/ \E new \in {Cash, Fees} : updateAccount(u, t, e, name, new)

Office(u, t) ==
    \/ \E template \in Templates : handleCreateEntity(u, t, template)
    \/ \E e \in Entities :
          \/ handleDeleteEntity(u, t, e)
          \/ \E m \in staff : \/ handleDeleteMember(u, t, e, m)
                              \/ \E r \in Roles : handleUpdateMember(u, t, e, m, r)
          \/ Chart(u, t, e)

AccessNext ==
    \/ \E p \in Clerks : Handlers(p) \/ Statements(p)
    \/ \E u \in Users, t \in Tenants : handleLogoutAll(u, t) \/ Office(u, t)
    \/ \E s \in seeds : SeedAccount(s)
    \/ \E u \in Users : resetAdminPassword(u)

AccessSpec == AccessInit /\ [][AccessNext]_accessVars

-----------------------------------------------------------------------------
AccessTypeOK ==
    /\ users \subseteq Users /\ admins \subseteq users
    /\ home \in [Users -> 0 .. MaxTenants]
    /\ tenants \in 0 .. MaxTenants
    /\ members \subseteq [tenant : Tenants, user : Users, role : Roles]
    /\ entities \subseteq [id : Entities, tenant : Tenants]
    /\ entityCount \in 0 .. MaxEntities
    /\ charts \in [Entities -> SUBSET {Cash, Fees}]
    /\ seeds \subseteq [entity : Entities, name : {Cash, Fees}]
    /\ staff \subseteq [entity : Entities, user : Users, role : Roles]
    /\ sessions \subseteq [id : 1 .. MaxSessions, user : Users, tenant : Tenants,
                           from : 0 .. MaxSessions]
    /\ revoked \subseteq 1 .. MaxSessions
    /\ setupComplete \in BOOLEAN
    /\ half \subseteq Users /\ bare \subseteq Entities
    /\ requests \in 0 .. MaxRequests /\ accessFaults \in 0 .. MaxAccessFaults

(* Whatever logins, refreshes, switches and logouts run side by side, a    *)
(* refresh token is exchanged at most once (the comment in handleRefresh), *)
(* the token it was exchanged for is gone, and every session is of a       *)
(* tenant its user is a member of.                                         *)
SessionsAreSound ==
    /\ \A s, x \in sessions : s.from = x.from /\ s.from # 0 => s = x
    /\ \A s \in sessions : s.from # 0 => s.from \in revoked /\ s.from # s.id
    /\ \A s \in sessions : Member(s.tenant, s.user)

(* A user is on the way: its request has not ended, or ended half-way.     *)
Unsettled(u) == u \in half \/ \E p \in Clerks : ~ Idle(p) /\ request[p].user = u

(* The entity has its Cash account, will have it, or has lost it.          *)
HasCash(e) == Cash \in charts[e] \/ e \in bare \/ [entity |-> e, name |-> Cash] \in seeds

(* What several statements build together holds once they have ended,      *)
(* unless one failed: who serves an entity is a member of its tenant, the  *)
(* default tenant is one the user is in, a completed setup left an         *)
(* administrator who can log in, and an entity has or will have its Cash   *)
(* account, unless its insert was lost or an administrator took it away.   *)
MembershipsHold ==
    /\ \A s \in staff, e \in entities :
          s.entity = e.id => Member(e.tenant, s.user) \/ Unsettled(s.user)
    /\ \A u \in users : home[u] # NoTenant => Member(home[u], u)
    /\ setupComplete => \E u \in admins : home[u] # NoTenant
    /\ \A e \in entities : HasCash(e.id)
=============================================================================

------------------------------ MODULE AdminApi ------------------------------
(***************************************************************************)
(* The admin and SCIM HTTP controllers over the store: requests of several *)
(* callers, each authenticated, planned from what its handler reads, and   *)
(* carried out one store call at a time between the calls of the others.   *)
(*                                                                         *)
(* A run picks one topic, a group of endpoints over the same tables; the   *)
(* tables of the other topics stay as they are.                            *)
(***************************************************************************)
EXTENDS AdminHandlers, AdminAuth

CONSTANTS
  Workers,        \* threads of the HTTP server
  MaxRequests,    \* bound: requests that write, by topic
  MaxFaults,      \* bound: store calls that fail for no reason of their own
  MaxNow          \* bound: the clock

VARIABLES
  topic,
  jobs,           \* per worker, the request it serves
  cookies,        \* what the callers hold
  pending,        \* pendingSsoMap: state -> [tenant, created]
  nextId,         \* the next fresh id
  faults

apivars == <<db, now, rbac, enforcement, topic, jobs, cookies, pending,
             nextId, faults>>

FirstId == 10
Idle == [op |-> "idle"]
Busy(w) == jobs[w] # Idle

(***************************************************************************)
(* Endpoints: which handler each one calls.                                *)
(***************************************************************************)
TenantRoute(op, ctx, a) ==
  CASE op = "createTenant" -> createTenant(ctx, a)
    [] op = "listTenants"  -> listTenants(ctx, a)
    [] op = "getTenant"    -> getTenant(ctx, a)
    [] op = "updateTenant" -> updateTenant(ctx, a)
    [] op = "deleteTenant" -> deleteTenant(ctx, a)

UserRoute(op, ctx, a) ==
  CASE op = "createUser" -> createUser(ctx, a)
    [] op = "listUsers"  -> listUsers(ctx, a)
    [] op = "getUser"    -> getUser(ctx, a)
    [] op = "updateUser" -> updateUser(ctx, a)
    [] op = "deleteUser" -> deleteUser(ctx, a)

KeyRoute(op, ctx, a) ==
  CASE op = "createApiKey" -> createApiKey(ctx, a)
    [] op = "listApiKeys"  -> listApiKeys(ctx, a)
    [] op = "revokeApiKey" -> revokeApiKey(ctx, a)
    [] op = "rotateApiKey" -> rotateApiKey(ctx, a)

ReportRoute(op, ctx, a) ==
  CASE op = "queryAudits"       -> queryAudits(ctx, a)
    [] op = "queryCosts"        -> queryCosts(ctx, a)
    [] op = "dashboardSummary"  -> dashboardSummary(ctx, a)
    [] op = "savingsSummary"    -> getSavingsSummary(ctx, a)
    [] op = "caseStudyHeadline" -> caseStudyHeadline(ctx, a)
    [] op = "securityEvents"    -> getSecurityEvents(ctx, a)

PredictRoute(op, ctx, a) ==
  CASE op = "predictUsage"      -> predictUsage(ctx, a)
    [] op = "predictBudget"     -> predictBudgetExhaustion(ctx, a)
    [] op = "exportAuditReport" -> exportAuditReport(ctx, a)
    [] op = "exportCostReport"  -> exportCostReport(ctx, a)

TemplateRoute(op, ctx, a) ==
  CASE op = "listPromptTemplates"  -> listPromptTemplates(ctx, a)
    [] op = "createPromptTemplate" -> createPromptTemplate(ctx, a)
    [] op = "getPromptTemplate"    -> getPromptTemplate(ctx, a)
    [] op = "updatePromptTemplate" -> updatePromptTemplate(ctx, a)
    [] op = "deletePromptTemplate" -> deletePromptTemplate(ctx, a)

RuleRoute(op, ctx, a) ==
  CASE op = "listRuleSets"     -> listRuleSets(ctx, a)
    [] op = "getActiveRuleSet" -> getActiveRuleSet(ctx, a)
    [] op = "createRuleSet"    -> createRuleSet(ctx, a)
    [] op = "activateRuleSet"  -> activateRuleSet(ctx, a)

SsoRoute(op, ctx, a) ==
  CASE op = "listSsoProviders"  -> listSsoProviders(ctx, a)
    [] op = "createSsoProvider" -> createSsoProvider(ctx, a)
    [] op = "getSsoProvider"    -> getSsoProvider(ctx, a)
    [] op = "updateSsoProvider" -> updateSsoProvider(ctx, a)
    [] op = "deleteSsoProvider" -> deleteSsoProvider(ctx, a)
    [] op = "ssoLogout"         -> handleSsoLogout(ctx, a)

MfaRoute(op, ctx, a) ==
  CASE op = "mfaSetup"    -> setupMfa(ctx, a)
    [] op = "mfaVerify"   -> verifyMfa(ctx, a)
    [] op = "mfaDisable"  -> disableMfa(ctx, a)
    [] op = "mfaRecovery" -> recoveryMfa(ctx, a)

ScimUserRoute(op, ctx, a) ==
  CASE op = "scimCreateUser" -> scimCreateUser(ctx, a)
    [] op = "scimGetUser"    -> scimGetUser(ctx, a)
    [] op = "scimUpdateUser" -> scimUpdateUser(ctx, a)
    [] op = "scimDeleteUser" -> scimDeleteUser(ctx, a)
    [] op = "scimListUsers"  -> scimListUsers(ctx, a)

ScimGroupRoute(op, ctx, a) ==
  CASE op = "createGroup" -> createGroup(ctx, a)
    [] op = "getGroup"    -> getGroup(ctx, a)
    [] op = "updateGroup" -> updateGroup(ctx, a)
    [] op = "deleteGroup" -> deleteGroup(ctx, a)
    [] op = "listGroups"  -> listGroups(ctx, a)

TenantOps   == {"createTenant", "listTenants", "getTenant", "updateTenant",
                "deleteTenant"}
UserOps     == {"createUser", "listUsers", "getUser", "updateUser",
                "deleteUser"}
ScimUserOps == {"scimCreateUser", "scimGetUser", "scimUpdateUser",
                "scimDeleteUser", "scimListUsers"}
KeyOps      == {"createApiKey", "listApiKeys", "revokeApiKey", "rotateApiKey"}
ReportOps   == {"queryAudits", "queryCosts", "dashboardSummary",
                "savingsSummary", "caseStudyHeadline", "securityEvents"}
PredictOps  == {"predictUsage", "predictBudget", "exportAuditReport",
                "exportCostReport"}
TemplateOps == {"listPromptTemplates", "createPromptTemplate",
                "getPromptTemplate", "updatePromptTemplate",
                "deletePromptTemplate"}
RuleOps     == {"listRuleSets", "getActiveRuleSet", "createRuleSet",
                "activateRuleSet"}
SsoOps      == {"listSsoProviders", "createSsoProvider", "getSsoProvider",
                "updateSsoProvider", "deleteSsoProvider", "ssoLogout"}
MfaOps      == {"mfaSetup", "mfaVerify", "mfaDisable", "mfaRecovery"}
GroupOps    == {"createGroup", "getGroup", "updateGroup", "deleteGroup",
                "listGroups"}

OpsOf(tp) ==
  CASE tp = "tenants"   -> TenantOps
    [] tp = "users"     -> UserOps \cup ScimUserOps
    [] tp = "keys"      -> KeyOps
    [] tp = "templates" -> TemplateOps \cup ReportOps \cup PredictOps
    [] tp = "rules"     -> RuleOps
    [] tp = "providers" -> SsoOps \ {"ssoLogout"}
    [] tp = "sso"       -> {"ssoLogout"}
    [] tp = "mfa"       -> MfaOps
    [] tp = "groups"    -> GroupOps

Handler(op, ctx, a) ==
  CASE op \in TenantOps   -> TenantRoute(op, ctx, a)
    [] op \in UserOps     -> UserRoute(op, ctx, a)
    [] op \in ScimUserOps -> ScimUserRoute(op, ctx, a)
    [] op \in KeyOps      -> KeyRoute(op, ctx, a)
    [] op \in ReportOps   -> ReportRoute(op, ctx, a)
    [] op \in PredictOps  -> PredictRoute(op, ctx, a)
    [] op \in TemplateOps -> TemplateRoute(op, ctx, a)
    [] op \in RuleOps     -> RuleRoute(op, ctx, a)
    [] op \in SsoOps      -> SsoRoute(op, ctx, a)
    [] op \in MfaOps      -> MfaRoute(op, ctx, a)
    [] op \in GroupOps    -> ScimGroupRoute(op, ctx, a)

(***************************************************************************)
(* The parsed requests of an endpoint, with the fresh id n.                *)
(***************************************************************************)
Ids(tb) == Rows(tb) \cup {9}

ArgsOf(op, n) ==
  CASE op = "createTenant" -> [n : {n}, name : {"", "t1", "new"}]
    [] op = "updateTenant" ->
         [n : {n}, id : Ids("tenants"), status : {"active", "suspended"}]
    [] op \in {"getTenant", "deleteTenant"} -> [n : {n}, id : Ids("tenants")]
    [] op = "createUser" ->
         [n : {n}, tenant : {0, 2}, name : {"", "amy", "new"},
          role : {Developer, SuperAdmin}]
    [] op = "scimCreateUser" -> [n : {n}, name : {"", "amy", "new"}]
    [] op = "updateUser" ->
         [n : {n}, id : Ids("users"), role : {Keep, Viewer, SuperAdmin},
          status : {"", "inactive"}]
    [] op = "scimUpdateUser" ->
         [n : {n}, id : Ids("users"), status : {"", "inactive"}]
    [] op \in {"getUser", "deleteUser", "scimGetUser", "scimDeleteUser"} ->
         [n : {n}, id : Ids("users")]
    [] op = "createApiKey" ->
         [n : {n}, user : {0, 9, 1, 2}, role : {Keep, TenantAdmin}]
    [] op \in {"revokeApiKey", "rotateApiKey"} ->
         [n : {n}, id : Ids("keys")]
    [] op = "createPromptTemplate" ->
         [n : {n}, tenant : {0, 2}, name : {"", "new"}]
    [] op \in {"getPromptTemplate", "updatePromptTemplate",
               "deletePromptTemplate"} ->
         [n : {n}, id : Ids("templates"), name : {"new"}]
    [] op \in {"createRuleSet", "savingsSummary"} ->
         [n : {n}, tenant : {0, 1, 2}, valid : BOOLEAN, licensed : {rbac}]
    [] op = "activateRuleSet" ->
         [n : {n}, tenant : {1, 2}, version : {1, 2}]
    [] op = "createSsoProvider" -> [n : {n}, tenant : {0, 2}]
    [] op = "updateSsoProvider" ->
         [n : {n}, id : Ids("sso"), enabled : BOOLEAN]
    [] op \in {"getSsoProvider", "deleteSsoProvider"} ->
         [n : {n}, id : Ids("sso")]
    [] op \in {"mfaSetup", "ssoLogout", "listSsoProviders"} -> [n : {n}]
    [] op \in {"mfaVerify", "mfaDisable"} ->
         [n : {n}, code : {0} \cup {db.mfa[u].secret : u \in Rows("mfa")}]
    [] op = "mfaRecovery" -> [n : {n}, recovery : {0, 1}]
    [] op = "createGroup" ->
         [n : {n}, name : {"", "g"}, members : {{}, {1}}]
    [] op = "updateGroup" ->
         [n : {n}, id : Ids("groups"), members : {{}, {1}}]
    [] op \in {"getGroup", "deleteGroup"} -> [n : {n}, id : Ids("groups")]
    [] OTHER -> [n : {n}, tenant : {0, 1, 2}]

(***************************************************************************)
(* Authentication.                                                         *)
(***************************************************************************)

\* The contexts a request is served in: none when it is refused.
Authenticate(op, c) ==
  CASE c.kind = "scim" ->
         IF op \in ScimUserOps \cup GroupOps
         THEN authenticateToken(c.id) ELSE {}
    [] op \in ScimUserOps \cup GroupOps -> {}
    [] op \in {"mfaSetup", "mfaVerify", "mfaRecovery"} ->
         resolveMfaChallengeSession(c)
    [] OTHER -> resolveAdminSession(c)

\* getSession touches the session it finds.
Touched(c) ==
  IF c.kind = "session" /\ getSession(c.id) # {}
  THEN With("sessions", c.id, [db.sessions[c.id] EXCEPT !.active = now])
  ELSE db

(***************************************************************************)
(* Jobs.                                                                   *)
(***************************************************************************)
Job(op, ctx, a, p) ==
  [op |-> op, ctx |-> ctx, a |-> a, plan |-> p,
   alone |-> \A w \in Workers : ~Busy(w)]

Serve(w, job) ==
  jobs' = [v \in Workers |->
             IF v = w THEN job
             ELSE IF Busy(v) THEN [jobs[v] EXCEPT !.alone = FALSE]
             ELSE Idle]

Budget == nextId < FirstId + MaxRequests[topic]

\* A request that calls the store; one that is refused, or only reads,
\* changes nothing but the activity of its session.
Request(w) ==
  /\ ~Busy(w) /\ Budget
  /\ \E c \in cookies, op \in OpsOf(topic) :
       /\ op \in GroupOps => \A v \in Workers : ~Busy(v)  \* groups_mutex_
       /\ \E ctx \in Authenticate(op, c), a \in ArgsOf(op, nextId) :
            LET p == Handler(op, ctx, a)
            IN  /\ p.todo # <<>>
                /\ Serve(w, Job(op, ctx, a, p))
       /\ db' = Touched(c)
  /\ nextId' = nextId + 1
  /\ UNCHANGED <<now, rbac, enforcement, topic, cookies, pending, faults>>

\* GET /admin/me and every other request that comes to nothing.
Touch ==
  /\ \E c \in cookies : db' = Touched(c) /\ db' # db
  /\ UNCHANGED <<now, rbac, enforcement, topic, jobs, cookies, pending,
                 nextId, faults>>

\* The audit record of a request that succeeded.
Audited(tables, job) ==
  [tables EXCEPT !.audits =
     [i \in DOMAIN @ \cup {100 * job.a.n + t : t \in job.plan.audit} |->
        IF i \in DOMAIN @ THEN @[i] ELSE [tenant |-> i % 100]]]

\* What follows a call: the handler gives up, goes on, or has answered.
Proceed(w, ok, tables) ==
  LET job  == jobs[w]
      rest == Tail(job.plan.todo)
      more == [job EXCEPT !.plan.todo = rest]
  IN  CASE ~ok /\ Head(job.plan.todo).must ->
             /\ jobs' = [jobs EXCEPT ![w] = Idle]
             /\ db' = IF job.plan.failed = "ok" THEN Audited(tables, job)
                      ELSE tables
        [] (ok \/ ~Head(job.plan.todo).must) /\
           (rest # <<>> \/ job.plan.next # "") ->
             jobs' = [jobs EXCEPT ![w] = more] /\ db' = tables
        [] OTHER ->
             /\ jobs' = [jobs EXCEPT ![w] = Idle]
             /\ db' = IF job.plan.res = "ok" THEN Audited(tables, job)
                      ELSE tables

Step(w) ==
  /\ Busy(w) /\ jobs[w].plan.todo # <<>>
  /\ LET c == Head(jobs[w].plan.todo)
     IN  /\ Proceed(w, Succeeds(c), After(c))
         /\ cookies' = cookies \cup
              (IF c.do = "insert" /\ c.tb = "sessions"
               THEN {[kind |-> "session", id |-> c.id]} ELSE {})
  /\ UNCHANGED <<now, rbac, enforcement, topic, pending, nextId, faults>>

\* The database is busy, or gone: the call does nothing.
StepFails(w) ==
  /\ Busy(w) /\ jobs[w].plan.todo # <<>> /\ faults < MaxFaults
  /\ Head(jobs[w].plan.todo).do # "swapBucket"
  /\ Proceed(w, FALSE, db)
  /\ faults' = faults + 1
  /\ UNCHANGED <<now, rbac, enforcement, topic, cookies, pending, nextId>>

\* The second half of a handler that reads again after it wrote.
Continue(w) ==
  /\ Busy(w) /\ jobs[w].plan.todo = <<>>
  /\ LET job == jobs[w]
         p   == IF job.plan.next = "createSession"
                THEN createSession(job.plan.user, job.ctx.tenant, job.a.n)
                ELSE reloadTenant(job.plan.user)
     IN  jobs' = [jobs EXCEPT ![w].plan =
                    [p EXCEPT !.audit = job.plan.audit]]
  /\ UNCHANGED <<db, now, rbac, enforcement, topic, cookies, pending, nextId,
                 faults>>

(***************************************************************************)
(* Logins.                                                                 *)
(***************************************************************************)
\* POST /admin/login with an API key sets a JWT cookie.
Login ==
  /\ topic = "keys"
  /\ \E k \in Rows("keys") : \E c \in login(k) : cookies' = cookies \cup {c}
  /\ UNCHANGED <<db, now, rbac, enforcement, topic, jobs, pending, nextId,
                 faults>>

Fresh(p) == now - p.created <= Window

\* Adds a state to the pending map and forgets the ones that expired.
ssoLogin(t, idp) ==
  /\ topic \in {"sso", "providers"} /\ Budget
  /\ initiateSsoLogin(t, idp).res = "ok"
  /\ pending' = [s \in {x \in DOMAIN pending : Fresh(pending[x])}
                         \cup {nextId} |->
                   IF s = nextId THEN [tenant |-> t, created |-> now]
                   ELSE pending[s]]
  /\ nextId' = nextId + 1
  /\ UNCHANGED <<db, now, rbac, enforcement, topic, jobs, cookies, faults>>

Caller(t) == [user |-> 0, tenant |-> t, role |-> Viewer, rbac |-> TRUE,
              session |-> 0]

\* Takes the state out of the map, then asks the provider who this is.
ssoCallback(w, s, sub, idp) ==
  LET t == pending[s].tenant
      p == IF Fresh(pending[s]) THEN handleSsoCallback(t, sub, idp, nextId)
           ELSE Refuse("InvalidRequest")
  IN  /\ ~Busy(w) /\ Budget
      /\ pending' = [x \in DOMAIN pending \ {s} |-> pending[x]]
      /\ IF p.todo = <<>> THEN UNCHANGED jobs
         ELSE Serve(w, Job("ssoCallback", Caller(t), [n |-> nextId, state |-> s], p))
      /\ nextId' = nextId + 1
      /\ UNCHANGED <<db, now, rbac, enforcement, topic, cookies, faults>>

Tick ==
  /\ now < MaxNow[topic]
  /\ now' = now + 1
  /\ UNCHANGED <<db, rbac, enforcement, topic, jobs, cookies, pending,
                 nextId, faults>>

ApiNext ==
  \/ \E w \in Workers :
       \/ Request(w) \/ Step(w) \/ StepFails(w) \/ Continue(w)
       \/ \E s \in DOMAIN pending, sub \in {"amy", "sam"}, idp \in BOOLEAN :
            ssoCallback(w, s, sub, idp)
  \/ \E t \in {1, 2}, idp \in BOOLEAN : ssoLogin(t, idp)
  \/ Touch \/ Login \/ Tick

(***************************************************************************)
(* Properties.                                                             *)
(***************************************************************************)

Changed(tb) ==
  {i \in DOMAIN db[tb] \cup DOMAIN db'[tb] :
     ~(i \in DOMAIN db[tb] /\ i \in DOMAIN db'[tb] /\ db[tb][i] = db'[tb][i])}

Works(w) == Busy(w) /\ jobs'[w] # jobs[w]

\* A write gives a user or a key a role above the caller's only where it
\* writes back a role it read (SCIM updates, and updateUser without a role
\* in the body), which can undo a demotion made in between.
GrantBounded ==
  [][\A w \in Workers, tb \in {"users", "keys"} : Works(w) =>
       \A i \in Changed(tb) :
         (i \in DOMAIN db'[tb] /\
            (i \in DOMAIN db[tb] => db'[tb][i].role > db[tb][i].role)) =>
              \/ canGrantRole(jobs[w].ctx, db'[tb][i].role)
              \/ jobs[w].op \in {"scimUpdateUser", "scimDeleteUser"}
              \/ jobs[w].op = "updateUser" /\ jobs[w].a.role = Keep
    ]_apivars

\* Wrong MFA codes of one user inside a lock-out window: those in flight
\* when the last one allowed is recorded still count, and no others.
LockoutBound ==
  \A u \in Rows("failures") :
    db.failures[u].count >= MaxFailures + Cardinality(Workers) =>
      now - db.failures[u].first >= Window
=============================================================================

--------------------------- MODULE AdminHandlers ---------------------------
(***************************************************************************)
(* What the admin API and the SCIM endpoint do once a request is let in:   *)
(* the handlers of AdminIamController, ScimService,                        *)
(* AdminGovernanceController and the reports of AdminController.           *)
(***************************************************************************)
EXTENDS AdminDb

(***************************************************************************)
(* AdminIamController: tenants, users and API keys.  Every operator is one *)
(* handler; `a' is the parsed request, a.n the id generateId returns.      *)
(***************************************************************************)
Keep == 99     \* the field is absent from the body

(***************************************************************************)
(* Tenants.                                                                *)
(***************************************************************************)
createTenant(ctx, a) ==
  IF ~requireRole(ctx, SuperAdmin) THEN Forbidden
  ELSE IF a.name = "" THEN Refuse("MissingRequiredField")
  ELSE IF \E i \in Rows("tenants") : db.tenants[i].name = a.name
       THEN Refuse("TenantNameExists")
  ELSE Do(<<Ins("tenants", a.n, [tenant |-> a.n, name |-> a.name,
                                 status |-> "active"])>>,
          auditCrossTenantAction(ctx, a.n))

listTenants(ctx, a) ==
  IF ~requireRole(ctx, SuperAdmin) THEN Forbidden
  ELSE Reply(TenantsIn("tenants", 0))

getTenant(ctx, a) ==
  IF ~authorize(ctx, Viewer, a.id) THEN Forbidden
  ELSE IF effectiveTenantId(ctx, a.id) \notin Rows("tenants")
       THEN Refuse("InvalidRequest")
  ELSE Reply({effectiveTenantId(ctx, a.id)})

updateTenant(ctx, a) ==
  IF ~authorize(ctx, SuperAdmin, a.id) THEN Forbidden
  ELSE IF a.id \notin Rows("tenants") THEN Refuse("InvalidRequest")
  ELSE Do(<<Upd("tenants", a.id,
                [db.tenants[a.id] EXCEPT !.status = a.status])>>,
          auditCrossTenantAction(ctx, a.id))

deleteTenant(ctx, a) ==
  IF ~requireRole(ctx, SuperAdmin) THEN Forbidden
  ELSE Do(<<Del("tenants", a.id)>>, auditCrossTenantAction(ctx, a.id))

(***************************************************************************)
(* Users.                                                                  *)
(***************************************************************************)
createUser(ctx, a) ==
  LET t == IF a.tenant = 0 THEN ctx.tenant ELSE a.tenant
  IN  IF ~authorize(ctx, TenantAdmin, t) THEN Forbidden
      ELSE IF a.name = "" THEN Refuse("MissingRequiredField")
      ELSE IF ~canGrantRole(ctx, a.role) THEN Forbidden
      ELSE IF \E i \in Rows("users") :
                db.users[i].tenant = t /\ db.users[i].name = a.name
           THEN Refuse("UsernameExists")
      ELSE Do(<<Ins("users", a.n, [tenant |-> t, name |-> a.name,
                                   role |-> a.role, status |-> "active"])>>,
              auditAction(ctx))

\* The shape of the list handlers that take an optional tenant.
ListOf(ctx, a, tb) ==
  IF a.tenant # 0 /\ ~requireTenantAccess(ctx, a.tenant) THEN Forbidden
  ELSE IF ~requireRole(ctx, Viewer) THEN Forbidden
  ELSE Reply(TenantsIn(tb, effectiveTenantId(ctx, a.tenant)))

listUsers(ctx, a) == ListOf(ctx, a, "users")

getUser(ctx, a) ==
  IF a.id \notin Rows("users") THEN Refuse("InvalidRequest")
  ELSE IF ~authorize(ctx, Viewer, db.users[a.id].tenant) THEN Forbidden
  ELSE Reply({db.users[a.id].tenant})

\* Writes the whole row it read, with the fields the body names changed.
updateUser(ctx, a) ==
  IF a.id \notin Rows("users") THEN Refuse("InvalidRequest")
  ELSE IF ~authorize(ctx, TenantAdmin, db.users[a.id].tenant) THEN Forbidden
  ELSE IF a.role # Keep /\ ~canGrantRole(ctx, a.role) THEN Forbidden
  ELSE Do(<<Upd("users", a.id,
                [db.users[a.id] EXCEPT
                   !.role = IF a.role = Keep THEN @ ELSE a.role,
                   !.status = IF a.status = "" THEN @ ELSE a.status])>>,
          auditAction(ctx))

deleteUser(ctx, a) ==
  IF a.id \notin Rows("users") THEN Refuse("InvalidRequest")
  ELSE IF ~authorize(ctx, TenantAdmin, db.users[a.id].tenant) THEN Forbidden
  ELSE Do(<<Del("users", a.id)>>, auditAction(ctx))

(***************************************************************************)
(* API keys.                                                               *)
(***************************************************************************)
\* The new key's role is the user's unless the body names one.
createApiKey(ctx, a) ==
  IF a.user = 0 THEN Refuse("MissingRequiredField")
  ELSE IF a.user \notin Rows("users") THEN Refuse("InvalidRequest")
  ELSE LET u == db.users[a.user]
           r == IF a.role = Keep THEN u.role ELSE a.role
       IN  IF ~authorize(ctx, TenantAdmin, u.tenant) THEN Forbidden
           ELSE IF ~canGrantRole(ctx, r) THEN Forbidden
           ELSE Do(<<Ins("keys", a.n, [user |-> a.user, tenant |-> u.tenant,
                                       role |-> r, status |-> "active"])>>,
                   auditAction(ctx))

listApiKeys(ctx, a) == ListOf(ctx, a, "keys")

revokeApiKey(ctx, a) ==
  IF a.id \notin Rows("keys") THEN Refuse("InvalidRequest")
  ELSE IF ~authorize(ctx, TenantAdmin, db.keys[a.id].tenant) THEN Forbidden
  ELSE Do(<<Set("keys", a.id, [status |-> "revoked"])>>, auditAction(ctx))

\* A bug: the role of the key is not compared with the caller's.
rotateApiKeyAnyRole(ctx, a) ==
  IF a.id \notin Rows("keys") THEN Refuse("InvalidRequest")
  ELSE IF ~authorize(ctx, TenantAdmin, db.keys[a.id].tenant) THEN Forbidden
  ELSE Do(<<Try(Set("keys", a.id, [status |-> "revoked"])),
            Ins("keys", a.n, [db.keys[a.id] EXCEPT !.status = "active"])>>,
          auditAction(ctx))

\* Revokes the key, whatever comes of it, then inserts its successor.
rotateApiKey(ctx, a) ==
  IF a.id \notin Rows("keys") THEN Refuse("InvalidRequest")
  ELSE IF ~authorize(ctx, TenantAdmin, db.keys[a.id].tenant) THEN Forbidden
  ELSE IF ~canGrantRole(ctx, db.keys[a.id].role) THEN Forbidden
  ELSE Do(<<Try(Set("keys", a.id, [status |-> "revoked"])),
            Ins("keys", a.n, [db.keys[a.id] EXCEPT !.status = "active"])>>,
          auditAction(ctx))

(***************************************************************************)
(* ScimService: users and groups an identity provider synchronises with a  *)
(* bearer token bound to one tenant.  ctx.tenant is that tenant.           *)
(***************************************************************************)
\* The contexts a SCIM token resolves to.
authenticateToken(k) ==
  {[user |-> 0, tenant |-> db.tokens[i].tenant, role |-> Viewer,
    rbac |-> TRUE, session |-> 0]
     : i \in {j \in Rows("tokens") \cap {k} : db.tokens[j].expires > now}}

(***************************************************************************)
(* Users.                                                                  *)
(***************************************************************************)
UserOf(ctx, i) == i \in Rows("users") /\ db.users[i].tenant = ctx.tenant

\* The mapping it inserts is for the subject "scim:<id>" of issuer "scim",
\* which no login presents; a failure to insert it is ignored.
scimCreateUser(ctx, a) ==
  IF a.name = "" THEN Refuse("400")
  ELSE IF \E i \in Rows("users") : UserOf(ctx, i) /\ db.users[i].name = a.name
       THEN Refuse("409")
  ELSE Do(<<Ins("users", a.n, [tenant |-> ctx.tenant, name |-> a.name,
                               role |-> Viewer, status |-> "active"]),
            Try(Ins("scimMappings", a.n, [tenant |-> ctx.tenant]))>>,
          auditAction(ctx))

scimGetUser(ctx, a) ==
  IF UserOf(ctx, a.id) THEN Reply({ctx.tenant}) ELSE Refuse("404")

\* Writes the whole row it read: the role of then comes back.
scimUpdateUser(ctx, a) ==
  IF ~UserOf(ctx, a.id) THEN Refuse("404")
  ELSE Do(<<Upd("users", a.id,
                [db.users[a.id] EXCEPT
                   !.status = IF a.status = "" THEN @ ELSE a.status])>>,
          auditAction(ctx))

\* Deactivates, and reports success whatever the store says.
scimDeleteUser(ctx, a) ==
  IF ~UserOf(ctx, a.id) THEN Refuse("404")
  ELSE Do(<<Try(Upd("users", a.id,
                    [db.users[a.id] EXCEPT !.status = "inactive"]))>>,
          auditAction(ctx))

scimListUsers(ctx, a) == Reply(TenantsIn("users", ctx.tenant))

(***************************************************************************)
(* Groups, under groups_mutex_: one call at a time.                        *)
(***************************************************************************)
GroupOf(ctx, i) == i \in Rows("groups") /\ db.groups[i].tenant = ctx.tenant

\* When the store refuses the group it is kept in memory only, where no
\* other handler of a service with a store looks: the answer is the same.
createGroup(ctx, a) ==
  IF a.name = "" THEN Refuse("400")
  ELSE [Do(<<Ins("groups", a.n, [tenant |-> ctx.tenant, members |-> {}])>> \o
           (IF a.members = {} THEN <<>>
            ELSE <<Try(Set("groups", a.n, [members |-> a.members]))>>),
           auditAction(ctx)) EXCEPT !.failed = "ok"]

getGroup(ctx, a) ==
  IF GroupOf(ctx, a.id) THEN Reply({ctx.tenant}) ELSE Refuse("404")

updateGroup(ctx, a) ==
  IF ~GroupOf(ctx, a.id) THEN Refuse("404")
  ELSE Do(<<Try(Set("groups", a.id, [members |-> a.members]))>>,
          auditAction(ctx))

deleteGroup(ctx, a) ==
  IF ~GroupOf(ctx, a.id) THEN Refuse("404")
  ELSE Do(<<Try(Del("groups", a.id))>>, auditAction(ctx))

listGroups(ctx, a) == Reply(TenantsIn("groups", ctx.tenant))

(***************************************************************************)
(* AdminGovernanceController (prompt templates, rule sets, audit queries)  *)
(* and the reports of AdminController: costs, dashboard, savings, case     *)
(* study, security events, predictions, exports.  A report shows numbers   *)
(* computed from the rows of the tenants in `reads'.                       *)
(***************************************************************************)
(***************************************************************************)
(* Prompt templates.                                                       *)
(***************************************************************************)
createPromptTemplate(ctx, a) ==
  LET t == IF a.tenant = 0 THEN ctx.tenant ELSE a.tenant
  IN  IF ~requireRole(ctx, TenantAdmin) THEN Forbidden
      ELSE IF ~requireTenantAccess(ctx, t) THEN Forbidden
      ELSE IF a.name = "" THEN Refuse("InvalidRequest")
      ELSE Do(<<Ins("templates", a.n, [tenant |-> t, name |-> a.name])>>,
              auditAction(ctx))

\* The lists of this controller never refuse another tenant: they answer
\* for the caller's own.
OwnList(ctx, a, tb) ==
  IF ~requireRole(ctx, Viewer) THEN Forbidden
  ELSE Reply(TenantsIn(tb, effectiveTenantId(ctx, a.tenant)))

listPromptTemplates(ctx, a) == OwnList(ctx, a, "templates")

\* A template by its id, for a caller of at least this role.
TemplateFor(ctx, a, role, plan) ==
  IF ~requireRole(ctx, role) THEN Forbidden
  ELSE IF a.id \notin Rows("templates") THEN Refuse("InvalidRequest")
  ELSE IF ~requireTenantAccess(ctx, db.templates[a.id].tenant) THEN Forbidden
  ELSE plan

getPromptTemplate(ctx, a) ==
  TemplateFor(ctx, a, Viewer, Reply({db.templates[a.id].tenant}))

updatePromptTemplate(ctx, a) ==
  TemplateFor(ctx, a, TenantAdmin,
    Do(<<Upd("templates", a.id, [db.templates[a.id] EXCEPT !.name = a.name])>>,
       auditAction(ctx)))

deletePromptTemplate(ctx, a) ==
  TemplateFor(ctx, a, TenantAdmin,
    Do(<<Del("templates", a.id)>>, auditAction(ctx)))

(***************************************************************************)
(* Rule sets.                                                              *)
(***************************************************************************)
RuleSetsOf(ctx, a) ==
  LET t == effectiveTenantId(ctx, a.tenant)
  IN  IF t \in Rows("rules") /\ db.rules[t].versions # {} THEN {t} ELSE {}

listRuleSets(ctx, a) ==
  IF ~requireRole(ctx, Viewer) THEN Forbidden ELSE Reply(RuleSetsOf(ctx, a))

getActiveRuleSet(ctx, a) ==
  IF ~requireRole(ctx, Viewer) THEN Forbidden
  ELSE LET t == effectiveTenantId(ctx, a.tenant)
       IN  IF t \notin Rows("rules") \/ db.rules[t].active = 0
           THEN Refuse("InvalidRequest") ELSE Reply({t})

\* The version after the newest; the runtime's bucket is not refreshed.
createRuleSet(ctx, a) ==
  LET t == IF a.tenant = 0 THEN ctx.tenant ELSE a.tenant
  IN  IF ~requireRole(ctx, TenantAdmin) THEN Forbidden
      ELSE IF ~requireTenantAccess(ctx, t) THEN Forbidden
      ELSE IF ~a.valid THEN Refuse("InvalidRequest")
      ELSE Do(<<Call("insertRuleSet", "rules", t,
                     1 + Max({0} \cup db.rules[t].versions))>>,
              auditAction(ctx))

\* Activates the version, then the hook reloads the tenant's bucket.
activateRuleSet(ctx, a) ==
  LET t == effectiveTenantId(ctx, a.tenant)
  IN  IF ~requireRole(ctx, TenantAdmin) THEN Forbidden
      ELSE IF ~requireTenantAccess(ctx, t) THEN Forbidden
      ELSE [Do(<<Call("activateRuleSetVersion", "rules", t, a.version)>>,
               auditAction(ctx)) EXCEPT !.next = "reloadTenant", !.user = t]

\* RuleEngine::reloadTenant reads the active set here and swaps the bucket
\* later, under its lock; no active set erases the bucket.
reloadTenant(t) ==
  [NoPlan EXCEPT !.todo = <<Try(Call("swapBucket", "bucket", t,
                                     db.rules[t].active))>>]

(***************************************************************************)
(* Audit and cost queries, reports.                                        *)
(***************************************************************************)
\* withRbac(Viewer) around a query with an optional tenant.
Query(ctx, a, tb) ==
  IF ~requireRole(ctx, Viewer) THEN Forbidden
  ELSE IF a.tenant # 0 /\ ~requireTenantAccess(ctx, a.tenant) THEN Forbidden
  ELSE Reply(TenantsIn(tb, effectiveTenantId(ctx, a.tenant)))

queryAudits(ctx, a) == Query(ctx, a, "audits")
queryCosts(ctx, a)  == Query(ctx, a, "costs")

\* The counts and the cost total are scoped; the number of active tenants
\* is not, and shows no row.
dashboardSummary(ctx, a) ==
  IF ~requireRole(ctx, Viewer) THEN Forbidden
  ELSE Reply(TenantsIn("audits", effectiveTenantId(ctx, 0))
               \cup TenantsIn("costs", effectiveTenantId(ctx, 0)))

caseStudyHeadline(ctx, a) ==
  IF ~requireRole(ctx, Viewer) THEN Forbidden
  ELSE Reply(TenantsIn("costs",
                       IF ctx.role = SuperAdmin THEN 0 ELSE ctx.tenant))

\* a.valid: the window is at most 365 days; a.licensed: AdvancedRouting.
getSavingsSummary(ctx, a) ==
  IF ~requireRole(ctx, Viewer) THEN Forbidden
  ELSE IF ~a.licensed THEN Forbidden
  ELSE IF a.tenant # 0 /\ ~requireTenantAccess(ctx, a.tenant) THEN Forbidden
  ELSE IF ~a.valid THEN Refuse("InvalidRequest")
  ELSE Reply(TenantsIn("costs", effectiveTenantId(ctx, a.tenant)))

\* Process-wide counters: raw for a SuperAdmin, a severity for the others.
getSecurityEvents(ctx, a) ==
  IF ~requireRole(ctx, Viewer) THEN Forbidden ELSE Reply({})

Export(ctx, a, tb) ==
  IF ~requireRole(ctx, TenantAdmin) THEN Forbidden
  ELSE IF /\ ctx.role # SuperAdmin
          /\ a.tenant # 0 /\ a.tenant # ctx.tenant THEN Forbidden
  ELSE [Reply(TenantsIn(tb, effectiveTenantId(ctx, a.tenant)))
          EXCEPT !.audit = auditAction(ctx)]

exportAuditReport(ctx, a) == Export(ctx, a, "audits")
exportCostReport(ctx, a)  == Export(ctx, a, "costs")

\* The role is compared even when RBAC is off.
Predict(ctx, a) ==
  LET t == effectiveTenantId(ctx, a.tenant)
  IN  IF ctx.role \notin {SuperAdmin, TenantAdmin} THEN Forbidden
      ELSE IF ctx.role = TenantAdmin /\ t # ctx.tenant
           THEN Refuse("CrossTenantDenied")
      ELSE Reply(TenantsIn("costs", t))

predictUsage(ctx, a)            == Predict(ctx, a)
predictBudgetExhaustion(ctx, a) == Predict(ctx, a)
=============================================================================

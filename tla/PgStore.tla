------------------------------ MODULE PgStore ------------------------------
(***************************************************************************)
(* PgPersistentStore, one call at a time: `up' is FALSE while the pool can *)
(* hand out no connection, and every call then gives up with an empty      *)
(* answer.  The foreign keys of the schema are enforced.                   *)
(* PgClients has the calls of two clients interleave statement by       *)
(* statement.                                                              *)
(***************************************************************************)
EXTENDS StoreTables

(***************************************************************************)
(* The schema: the column sets that must be unique.                        *)
(***************************************************************************)
UniqueOfAccounts ==
  [tenants           |-> {{"id"}},
   users             |-> {{"id"}, {"tenant", "name"}},
   api_keys          |-> {{"id"}},
   sso_providers     |-> {{"id"}},
   identity_mappings |-> {{"id"}, {"subject"}}]

UniqueOfSessions ==
  [sessions           |-> {{"id"}},
   mfa_secrets        |-> {{"user"}},
   mfa_failures       |-> {{"user"}},
   scim_tokens        |-> {{"id"}},
   scim_groups        |-> {{"id"}},
   scim_group_members |-> {{"group", "user"}}]

UniqueOfGovernance ==
  [prompt_templates     |-> {{"id"}},
   rule_sets            |-> {{"tenant", "version"}},
   config_versions      |-> {{"id"}},
   rollouts             |-> {{"id"}},
   rollout_stage_events |-> {{"id"}},
   autonomy_proposals   |-> {{"id"}}]

\* The log tables have only their serial key.
UniqueOfLogs == [t \in LogTables |-> {{"seq"}}]

Unique == UniqueOfAccounts @@ UniqueOfSessions @@ UniqueOfGovernance
            @@ UniqueOfLogs

\* <<table, column, parent>>: the column is the id of a row of the parent.
References ==
  { <<"sso_providers", "tenant", "tenants">>,
    <<"identity_mappings", "tenant", "tenants">>,
    <<"identity_mappings", "user", "users">>,
    <<"scim_tokens", "tenant", "tenants">> }

\* A UNIQUE constraint, a partial unique index or a REFERENCES clause.
Clash(tb, row, others) ==
  \/ \E u \in Unique[tb], r \in others : SameOn(r, row, u)
  \/ /\ tb = "config_versions" /\ row.status = "ACTIVE"
     /\ \E r \in others : r.status = "ACTIVE"
  \/ /\ tb = "rollouts" /\ row.status \in ActiveRollout
     /\ \E r \in others : r.status \in ActiveRollout /\ r.target = row.target
  \/ \E f \in References :
       f[1] = tb /\ Where(f[3], "id", row[f[2]]) = {}

\* The rows of tb that some row still refers to.
Referenced(tb) ==
  {r \in db[tb] : \E f \in References :
                    f[3] = tb /\ Where(f[1], f[2], r.id) # {}}

(***************************************************************************)
(* One statement (the PostgreSQL engine).                                  *)
(***************************************************************************)
Insert(call, arg, tb, row) ==
  LET ok == up /\ ~Clash(tb, row, db[tb])
  IN  Put(call, arg, ok, tb, db[tb] \cup {row}, ok)

Update(call, row, tb, key, cols) ==
  LET hit  == Where(tb, key, row[key])
      rest == db[tb] \ hit
      new  == {Patched(r, row, cols) : r \in hit}
      ok   == up /\ hit # {} /\ \A r \in new : ~Clash(tb, r, rest)
  IN  Put(call, row, ok, tb, rest \cup new, ok)

Delete(call, arg, tb, key) ==
  LET hit == Where(tb, key, arg)
      ok  == up /\ hit # {} /\ hit \cap Referenced(tb) = {}
  IN  Put(call, arg, ok, tb, db[tb] \ hit, ok)

Prune(call, tb, hit) ==
  Put(call, 0, up, tb, db[tb] \ hit, IF up THEN Cardinality(hit) ELSE 0)

initialize == up' = TRUE /\ UNCHANGED <<db, last, now, focus>>
\* close(), or every connection of the pool busy or broken.
close      == up' = FALSE /\ UNCHANGED <<db, last, now, focus>>

(***************************************************************************)
(* Audit, cost and savings logs.                                           *)
(***************************************************************************)
insertAudit(t) ==
  Insert("insertAudit", t, "audits", LogRow("audits", t, 0))
queryAudits(t, limit) ==
  List("queryAudits", <<t, limit>>, Newest(OfTenant("audits", t), "seq", limit))
auditCount(t) == Number("auditCount", t, Cardinality(OfTenant("audits", t)))

pruneAudits ==
  Prune("pruneAudits", "audits", {r \in db.audits : r.ts < now - Window})

insertCostRecord(t) ==
  Insert("insertCostRecord", t, "cost_records", LogRow("cost_records", t, 1))
queryCosts(t, limit) ==
  List("queryCosts", <<t, limit>>,
       Newest(OfTenant("cost_records", t), "seq", limit))
costRecordCount(t) ==
  Number("costRecordCount", t, Cardinality(OfTenant("cost_records", t)))
costTotal(t) == Number("costTotal", t, TotalCost(OfTenant("cost_records", t)))
pruneCostRecords ==
  Prune("pruneCostRecords", "cost_records",
        {r \in db.cost_records : r.ts < now - Window})

getTenantCostInPeriod(t, from, to) ==
  Number("getTenantCostInPeriod", <<t, from, to>>,
         TotalCost(InPeriod(Where("cost_records", "tenant", t), from, to)))
queryCostsByDateRange(t, from, to) ==
  Find("queryCostsByDateRange", <<t, from, to>>,
       InPeriod(OfTenant("cost_records", t), from, to))

insertSavingsEvent(t) ==
  Insert("insertSavingsEvent", t, "savings_events",
         LogRow("savings_events", t, 1))
querySavingsEventsByDateRange(from, to) ==
  Find("querySavingsEventsByDateRange", <<from, to>>,
       InPeriod(db.savings_events, from, to))
savingsEventCount ==
  Number("savingsEventCount", 0, Cardinality(db.savings_events))
pruneSavingsEvents ==
  Prune("pruneSavingsEvents", "savings_events",
        {r \in db.savings_events : r.ts < now - Window})

(***************************************************************************)
(* Tenants, users and API keys.                                            *)
(***************************************************************************)
insertTenant(t) == Insert("insertTenant", t, "tenants", t)
getTenant(i) == Find("getTenant", i, Where("tenants", "id", i))
listTenants == Find("listTenants", 0, db.tenants)
tenantCount == Number("tenantCount", 0, Cardinality(db.tenants))
updateTenant(t) == Update("updateTenant", t, "tenants", "id", {"data"})
deleteTenant(i) == Delete("deleteTenant", i, "tenants", "id")

insertUser(u) == Insert("insertUser", u, "users", u)
getUser(i) == Find("getUser", i, Where("users", "id", i))
getUserByUsername(t, n) ==
  Find("getUserByUsername", <<t, n>>,
       {r \in db.users : r.tenant = t /\ r.name = n})
listUsers(t) == Find("listUsers", t, OfTenant("users", t))
userCount(t) == Number("userCount", t, Cardinality(OfTenant("users", t)))
updateUser(u) == Update("updateUser", u, "users", "id", {"name", "data"})
deleteUser(i) == Delete("deleteUser", i, "users", "id")

insertApiKey(k) == Insert("insertApiKey", k, "api_keys", k)
getApiKeyByHash(h) == Find("getApiKeyByHash", h, Where("api_keys", "hash", h))
getApiKeysByPrefix(h) ==
  Find("getApiKeysByPrefix", h, Where("api_keys", "hash", h))
listApiKeys(t) == Find("listApiKeys", t, OfTenant("api_keys", t))
apiKeyCount(t) == Number("apiKeyCount", t, Cardinality(OfTenant("api_keys", t)))
updateApiKey(k) ==
  Update("updateApiKey", k, "api_keys", "id", {"status", "data"})
revokeApiKey(i) ==
  LET hit == Where("api_keys", "id", i)
  IN  Put("revokeApiKey", i, up, "api_keys",
          (db.api_keys \ hit) \cup {[r EXCEPT !.status = "revoked"] : r \in hit},
          up /\ hit # {})

(***************************************************************************)
(* SSO providers, identity mappings, sessions.                             *)
(***************************************************************************)
insertSsoProvider(p) == Insert("insertSsoProvider", p, "sso_providers", p)
getSsoProvider(i) == Find("getSsoProvider", i, Where("sso_providers", "id", i))
\* Any enabled provider of the tenant: LIMIT 1 without an order.
getSsoProviderByTenant(t) ==
  Find("getSsoProviderByTenant", t,
       {r \in db.sso_providers : r.tenant = t /\ r.enabled})
listSsoProviders == Find("listSsoProviders", 0, db.sso_providers)
ssoProviderCount == Number("ssoProviderCount", 0, Cardinality(db.sso_providers))
updateSsoProvider(p) ==
  Update("updateSsoProvider", p, "sso_providers", "id", {"tenant", "enabled"})
deleteSsoProvider(i) == Delete("deleteSsoProvider", i, "sso_providers", "id")

insertIdentityMapping(m) ==
  Insert("insertIdentityMapping", m, "identity_mappings", m)
getIdentityMapping(s) ==
  Find("getIdentityMapping", s, Where("identity_mappings", "subject", s))
listIdentityMappings(t) ==
  Find("listIdentityMappings", t, Where("identity_mappings", "tenant", t))
deleteIdentityMapping(i) ==
  Delete("deleteIdentityMapping", i, "identity_mappings", "id")

\* UPDATE ... SET col = v WHERE id = i.
SetColumn(call, i, tb, col, v) ==
  LET hit == Where(tb, "id", i)
  IN  Put(call, <<i, v>>, up, tb,
          (db[tb] \ hit) \cup {[r EXCEPT ![col] = v] : r \in hit},
          up /\ hit # {})

updateIdentityMappingLastLogin(i) ==
  SetColumn("updateIdentityMappingLastLogin", i, "identity_mappings", "login",
            now)

insertSession(i, u) ==
  Insert("insertSession", <<i, u>>, "sessions", SessionRow(i, u))
getSession(i) == Find("getSession", i, Where("sessions", "id", i))
listSessionsByUser(u) ==
  Find("listSessionsByUser", u, Where("sessions", "user", u))
updateSessionActivity(i) ==
  SetColumn("updateSessionActivity", i, "sessions", "active", now)
updateSessionMfaVerified(i) ==
  SetColumn("updateSessionMfaVerified", i, "sessions", "mfa", TRUE)
deleteSession(i) == Delete("deleteSession", i, "sessions", "id")
countSessionsByUser(u) ==
  Number("countSessionsByUser", u, Cardinality(Where("sessions", "user", u)))

\* expires_at is "2026-01-02T...", NOW()::TEXT is "2026-01-02 ...": within
\* one day the blank sorts before the T, so only earlier days compare less.
deleteExpiredSessions ==
  Prune("deleteExpiredSessions", "sessions",
        {r \in db.sessions : r.expires \div DayLength < now \div DayLength})

(***************************************************************************)
(* MFA and SCIM.                                                           *)
(***************************************************************************)
upsertMfaSecret(m) ==
  Put("upsertMfaSecret", m, up, "mfa_secrets",
      (db.mfa_secrets \ Where("mfa_secrets", "user", m.user)) \cup {m}, up)
getMfaSecret(u) == Find("getMfaSecret", u, Where("mfa_secrets", "user", u))
deleteMfaSecret(u) == Delete("deleteMfaSecret", u, "mfa_secrets", "user")

\* One INSERT ... ON CONFLICT DO UPDATE; TRUE when now locked.
recordMfaFailure(u) ==
  LET row == AfterFailure(u, db.mfa_failures)
  IN  Put("recordMfaFailure", u, up, "mfa_failures",
          (db.mfa_failures \ Where("mfa_failures", "user", u)) \cup {row},
          up /\ row.until > now)
getMfaLockedUntil(u) ==
  Number("getMfaLockedUntil", u,
         MapThenSumSet(LAMBDA r : r.until, Where("mfa_failures", "user", u)))
clearMfaFailures(u) ==
  Put("clearMfaFailures", u, up, "mfa_failures",
      db.mfa_failures \ Where("mfa_failures", "user", u), up)

insertScimToken(t) == Insert("insertScimToken", t, "scim_tokens", t)
getScimTokenByHash(h) ==
  Find("getScimTokenByHash", h, Where("scim_tokens", "hash", h))
listScimTokens(t) == Find("listScimTokens", t, Where("scim_tokens", "tenant", t))
deleteScimToken(i) == Delete("deleteScimToken", i, "scim_tokens", "id")

insertScimGroup(g) == Insert("insertScimGroup", g, "scim_groups", g)
getScimGroup(i) == Find("getScimGroup", i, Where("scim_groups", "id", i))
listScimGroups(t) == Find("listScimGroups", t, Where("scim_groups", "tenant", t))
getScimGroupMembers(i) ==
  Find("getScimGroupMembers", i,
       {r.user : r \in Where("scim_group_members", "group", i)})

\* Renames the group, then replaces its member rows.
updateScimGroup(i, n, members) ==
  LET hit == Where("scim_groups", "id", i)
      ok  == up /\ hit # {}
  IN  /\ db' = IF ~ok THEN db ELSE
                 [db EXCEPT
                   !["scim_groups"] = (@ \ hit) \cup
                                        {[r EXCEPT !.name = n] : r \in hit},
                   !["scim_group_members"] =
                      (@ \ Where("scim_group_members", "group", i)) \cup
                        [group : {i}, user : members]]
      /\ Returns("updateScimGroup", <<i, n, members>>, ok)

\* ON DELETE CASCADE takes the member rows along.
deleteScimGroup(i) ==
  LET hit == Where("scim_groups", "id", i)
      ok  == up /\ hit # {}
  IN  /\ db' = IF ~ok THEN db ELSE
                 [db EXCEPT !["scim_groups"] = @ \ hit,
                            !["scim_group_members"] =
                               @ \ Where("scim_group_members", "group", i)]
      /\ Returns("deleteScimGroup", i, ok)

(***************************************************************************)
(* Prompt templates and rule sets.                                         *)
(***************************************************************************)
insertPromptTemplate(t) ==
  Insert("insertPromptTemplate", t, "prompt_templates", t)
getPromptTemplate(i) ==
  Find("getPromptTemplate", i, Where("prompt_templates", "id", i))
updatePromptTemplate(t) ==
  Update("updatePromptTemplate", t, "prompt_templates", "id", {"name", "data"})
deletePromptTemplate(i) ==
  Delete("deletePromptTemplate", i, "prompt_templates", "id")
listPromptTemplates(t) ==
  Find("listPromptTemplates", t, Where("prompt_templates", "tenant", t))
listPromptTemplatesByName(t, n) ==
  Find("listPromptTemplatesByName", <<t, n>>,
       {r \in Where("prompt_templates", "tenant", t) : r.name = n})
promptTemplateCount(t) ==
  Number("promptTemplateCount", t, Cardinality(OfTenant("prompt_templates", t)))

Deactivated(t) ==
  {IF r.tenant = t THEN [r EXCEPT !.active = FALSE] ELSE r : r \in db.rule_sets}

\* Deactivates the tenant's versions, then inserts: a version that exists
\* makes the INSERT fail and leaves the deactivation behind.
insertRuleSet(r) ==
  LET ok == up /\ ~Clash("rule_sets", r, db.rule_sets)
  IN  Put("insertRuleSet", r, up, "rule_sets",
          Deactivated(r.tenant) \cup IF ok THEN {r} ELSE {}, ok)

getActiveRuleSet(t) ==
  Find("getActiveRuleSet", t, {r \in Where("rule_sets", "tenant", t) : r.active})
listRuleSetVersions(t, limit) ==
  List("listRuleSetVersions", <<t, limit>>,
       Newest(Where("rule_sets", "tenant", t), "version", limit))
ruleSetCount(t) == Number("ruleSetCount", t, Cardinality(OfTenant("rule_sets", t)))

activateRuleSetVersion(t, v) ==
  LET hit == {r \in db.rule_sets : r.tenant = t /\ r.version = v}
      ok  == up /\ hit # {}
  IN  Put("activateRuleSetVersion", <<t, v>>, ok, "rule_sets",
          {IF r.tenant = t THEN [r EXCEPT !.active = (r.version = v)] ELSE r
             : r \in db.rule_sets}, ok)

(***************************************************************************)
(* Config versions, rollouts and approval proposals.                       *)
(***************************************************************************)
insertConfigVersion(i) ==
  Insert("insertConfigVersion", i, "config_versions",
         [id |-> i, status |-> "PENDING", reviewer |-> ""])

\* Only a verdict records its reviewer.
updateConfigStatus(i, s) ==
  LET hit == Where("config_versions", "id", i)
      new == {[r EXCEPT !.status = s,
                        !.reviewer = IF s \in {"APPROVED", "REJECTED"}
                                     THEN "r" ELSE @] : r \in hit}
      ok  == up /\ hit # {}
  IN  Put("updateConfigStatus", <<i, s>>, ok, "config_versions",
          (db.config_versions \ hit) \cup new, ok)

getConfigVersion(i) ==
  Find("getConfigVersion", i, Where("config_versions", "id", i))

\* Newest first after the page token; an unknown token is ignored.
listConfigVersions(wanted, token) ==
  LET after == Where("config_versions", "id", token) # {}
      S == {r \in db.config_versions :
              /\ wanted = {} \/ r.status \in wanted
              /\ after => r.id < token}
  IN  List("listConfigVersions", <<wanted, token>>, Newest(S, "id", 50))

getActiveConfig ==
  Find("getActiveConfig", 0, Where("config_versions", "status", "ACTIVE"))

\* Demotes every ACTIVE row and promotes the target in one transaction.
activateConfig(i) ==
  LET hit == {r \in Where("config_versions", "id", i) :
                r.status \in {"APPROVED", "SUPERSEDED", "ACTIVE"}}
      ok  == up /\ hit # {}
      To(r) == IF r.id = i THEN "ACTIVE"
               ELSE IF r.status = "ACTIVE" THEN "SUPERSEDED" ELSE r.status
  IN  Put("activateConfig", i, ok, "config_versions",
          {[r EXCEPT !.status = To(r)] : r \in db.config_versions}, ok)

insertRollout(r) == Insert("insertRollout", r, "rollouts", r)
updateRollout(r) ==
  Update("updateRollout", r, "rollouts", "id", {"target", "status"})
getRollout(i) == Find("getRollout", i, Where("rollouts", "id", i))
findActiveRolloutByTarget(t) ==
  Find("findActiveRolloutByTarget", t,
       {r \in Where("rollouts", "target", t) : r.status \in ActiveRollout})
listRollouts(wanted, token) ==
  LET after == Where("rollouts", "id", token) # {}
      S == {r \in db.rollouts : /\ wanted = {} \/ r.status \in wanted
                                /\ after => r.id < token}
  IN  List("listRollouts", <<wanted, token>>, Newest(S, "id", 50))
appendRolloutStageEvent(e) ==
  Insert("appendRolloutStageEvent", e, "rollout_stage_events", e)
listRolloutStageEvents(i) ==
  List("listRolloutStageEvents", i,
       Oldest(Where("rollout_stage_events", "rollout", i), "id"))

insertApprovalProposal(p) ==
  Insert("insertApprovalProposal", p, "autonomy_proposals", ProposalRow(p))
getApprovalProposal(i) ==
  Find("getApprovalProposal", i, Where("autonomy_proposals", "id", i))
updateApprovalProposal(p) ==
  Update("updateApprovalProposal", p, "autonomy_proposals", "id",
         {"source", "state"})
listApprovalProposals(s) ==
  List("listApprovalProposals", s,
       Newest({r \in db.autonomy_proposals : s = "" \/ r.state = s}, "id", 1000))
pruneApprovalProposals ==
  Prune("pruneApprovalProposals", "autonomy_proposals",
        {r \in db.autonomy_proposals : r.at < now - Window})

(***************************************************************************)
(* The calls of each group of tables.                                      *)
(***************************************************************************)
LogCalls ==
  \/ /\ focus = "audits"
     /\ \/ Room("audits") /\ \E t \in TenantIds : insertAudit(t)
        \/ \E t \in Filters : auditCount(t) \/ queryAudits(t, 1) \/ queryAudits(t, 100)
        \/ pruneAudits
  \/ /\ focus = "costs"
     /\ \/ Room("cost_records") /\ \E t \in TenantIds : insertCostRecord(t)
        \/ \E t \in Filters :
             costRecordCount(t) \/ costTotal(t) \/ queryCosts(t, 1)
        \/ \E from, to \in Times :
             \/ getTenantCostInPeriod("t1", from, to)
             \/ \E t \in Filters : queryCostsByDateRange(t, from, to)
        \/ pruneCostRecords
  \/ /\ focus = "savings"
     /\ \/ Room("savings_events") /\ \E t \in TenantIds : insertSavingsEvent(t)
        \/ \E from, to \in Times : querySavingsEventsByDateRange(from, to)
        \/ savingsEventCount \/ pruneSavingsEvents

AccountCalls ==
  \/ /\ focus = "tenants"
     /\ \/ \E t \in TenantRows : insertTenant(t) \/ updateTenant(t)
        \/ \E i \in TenantIds : getTenant(i) \/ deleteTenant(i)
        \/ listTenants \/ tenantCount
  \/ /\ focus = "users"
     /\ \/ \E u \in UserRows : insertUser(u) \/ updateUser(u)
        \/ \E i \in Ids : getUser(i) \/ deleteUser(i)
        \/ \E t \in Filters : listUsers(t) \/ userCount(t)
        \/ \E n \in {"n1", "n2"} : getUserByUsername("t1", n)
  \/ /\ focus = "keys"
     /\ \/ \E k \in KeyRows : insertApiKey(k) \/ updateApiKey(k)
        \/ \E h \in {"h1", "h2"} : getApiKeyByHash(h) \/ getApiKeysByPrefix(h)
        \/ \E t \in Filters : listApiKeys(t) \/ apiKeyCount(t)
        \/ \E i \in Ids : revokeApiKey(i)

IdentityCalls ==
  \/ /\ focus = "sso"
     /\ \/ insertTenant(OneTenant) \/ deleteTenant("t1")
        \/ \E p \in ProviderRows : insertSsoProvider(p) \/ updateSsoProvider(p)
        \/ \E i \in Ids : getSsoProvider(i) \/ deleteSsoProvider(i)
        \/ getSsoProviderByTenant("t1") \/ listSsoProviders \/ ssoProviderCount
  \/ /\ focus = "mappings"
     /\ \/ insertTenant(OneTenant) \/ insertUser(OneUser) \/ deleteUser(1)
        \/ \E m \in MappingRows : insertIdentityMapping(m)
        \/ \E s \in {"s1", "s2"} : getIdentityMapping(s)
        \/ listIdentityMappings("t1")
        \/ \E i \in Ids :
             deleteIdentityMapping(i) \/ updateIdentityMappingLastLogin(i)

SessionCalls ==
  \/ /\ focus = "sessions"
     /\ \/ \E i \in Ids : insertSession(i, 1)
        \/ updateSessionActivity(1) \/ updateSessionMfaVerified(2)
        \/ \E i \in Ids : \/ getSession(i) \/ deleteSession(i)
                          \/ listSessionsByUser(i) \/ countSessionsByUser(i)
        \/ deleteExpiredSessions
  \/ /\ focus = "secrets"
     /\ \/ \E m \in SecretRows : upsertMfaSecret(m)
        \/ \E u \in Ids : getMfaSecret(u) \/ deleteMfaSecret(u)
  \/ /\ focus = "mfa"
     /\ \/ MayFail(1) /\ recordMfaFailure(1)
        \/ getMfaLockedUntil(1) \/ clearMfaFailures(1)

ScimCalls ==
  \/ /\ focus = "tokens"
     /\ \/ insertTenant(OneTenant) \/ deleteTenant("t1")
        \/ \E t \in TokenRows : insertScimToken(t)
        \/ getScimTokenByHash("h1") \/ listScimTokens("t1")
        \/ \E i \in Ids : deleteScimToken(i)
  \/ /\ focus = "groups"
     /\ \/ \E g \in GroupRows : insertScimGroup(g)
        \/ listScimGroups("t1")
        \/ \E i \in Ids : \/ getScimGroup(i) \/ getScimGroupMembers(i)
                          \/ deleteScimGroup(i)
                          \/ \E n \in {"n1", "n2"}, m \in SUBSET {1, 2} :
                               updateScimGroup(i, n, m)

GovernanceCalls ==
  \/ /\ focus = "templates"
     /\ \/ \E t \in TemplateRows :
             insertPromptTemplate(t) \/ updatePromptTemplate(t)
        \/ \E i \in Ids : getPromptTemplate(i) \/ deletePromptTemplate(i)
        \/ \E n \in {"n1", "n2"} : listPromptTemplatesByName("t1", n)
        \/ listPromptTemplates("t1")
        \/ \E t \in Filters : promptTemplateCount(t)
  \/ /\ focus = "rules"
     /\ \/ \E r \in RuleRows : NextOrOlder(r) /\ insertRuleSet(r)
        \/ \E v \in 1..3 : activateRuleSetVersion("t1", v)
        \/ getActiveRuleSet("t1")
        \/ \E limit \in {1, 20} : listRuleSetVersions("t1", limit)
        \/ \E t \in Filters : ruleSetCount(t)

ControlPlaneCalls ==
  \/ /\ focus = "configs"
     /\ \/ \E i \in Ids :
             \/ insertConfigVersion(i) \/ getConfigVersion(i)
             \/ activateConfig(i)
             \/ \E s \in {"APPROVED", "REJECTED"} : updateConfigStatus(i, s)
        \/ \E w \in {{}, {"APPROVED"}}, token \in 0..2 :
             listConfigVersions(w, token)
        \/ getActiveConfig
  \/ /\ focus = "rollouts"
     /\ \/ \E r \in RolloutRows : insertRollout(r) \/ updateRollout(r)
        \/ \E i \in Ids : getRollout(i)
        \/ \E t \in {"v1", "v2"} : findActiveRolloutByTarget(t)
        \/ \E w \in {{}, {"COMPLETED"}}, token \in 0..2 : listRollouts(w, token)
  \/ /\ focus = "events"
     /\ \/ \E e \in EventRows : Fresh(e) /\ appendRolloutStageEvent(e)
        \/ \E i \in Ids : listRolloutStageEvents(i)
  \/ /\ focus = "proposals"
     /\ \/ \E p \in ProposalRows :
             insertApprovalProposal(p) \/ updateApprovalProposal(p)
        \/ \E i \in Ids : getApprovalProposal(i)
        \/ \E s \in {"", "pending"} : listApprovalProposals(s)
        \/ pruneApprovalProposals

Next ==
  \/ initialize \/ close \/ Tick
  \/ LogCalls \/ AccountCalls \/ IdentityCalls \/ SessionCalls
  \/ ScimCalls \/ GovernanceCalls \/ ControlPlaneCalls

Spec == StoreInit /\ [][Next]_storeVars
=============================================================================

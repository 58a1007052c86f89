---------------------------- MODULE MemoryStore ----------------------------
(***************************************************************************)
(* MemoryPersistentStore: maps keyed by id under one mutex, so a call is   *)
(* one step.  A map is the set of its rows; `pointer' is                   *)
(* active_config_version_id_ (0: empty).  Only some of the calls look at   *)
(* initialized_.  The logs are vectors capped at Cap entries.              *)
(***************************************************************************)
EXTENDS StoreTables

CONSTANT Cap      \* max_audits_, max_costs_ and max_savings_events_

VARIABLE pointer

memVars == <<storeVars, pointer>>

(***************************************************************************)
(* Shapes of a call.                                                       *)
(***************************************************************************)
Has(tb, i) == Where(tb, "id", i) # {}

\* map[row.id] = row, unless the id is taken or the call refuses.
Emplace(call, row, tb, refused) ==
  LET ok == ~refused /\ ~Has(tb, row.id)
  IN  Put(call, row, ok, tb, db[tb] \cup {row}, ok) /\ UNCHANGED pointer

\* it->second = row.
Replace(call, row, tb, refused) ==
  LET hit == Where(tb, "id", row.id)
      ok  == ~refused /\ hit # {}
  IN  /\ Put(call, row, ok, tb,
             (db[tb] \ hit) \cup {Patched(r, row, DOMAIN row) : r \in hit}, ok)
      /\ UNCHANGED pointer

\* map.erase(id) > 0.
Erase(call, i, tb) ==
  /\ Put(call, i, TRUE, tb, db[tb] \ Where(tb, "id", i), Has(tb, i))
  /\ UNCHANGED pointer

\* it->second.col = v.
Assign(call, i, tb, col, v) ==
  LET hit == Where(tb, "id", i)
  IN  /\ Put(call, <<i, v>>, TRUE, tb,
             (db[tb] \ hit) \cup {[r EXCEPT ![col] = v] : r \in hit}, hit # {})
      /\ UNCHANGED pointer

Scan(call, arg, res) == Ask(call, arg, res) /\ UNCHANGED pointer

\* push_back, after erasing the oldest entry of a full vector.
PushBack(call, t, tb, row) ==
  LET full == Cardinality(db[tb]) >= Cap
      kept == IF full THEN {r \in db[tb] : \E q \in db[tb] : q.seq < r.seq}
              ELSE db[tb]
  IN  Put(call, t, up, tb, kept \cup {row}, up) /\ UNCHANGED pointer

\* remove_if; pruning does not look at initialized_.
RemoveIf(call, tb, hit) ==
  Put(call, 0, TRUE, tb, db[tb] \ hit, Cardinality(hit)) /\ UNCHANGED pointer

initialize == up' = TRUE /\ UNCHANGED <<db, last, now, focus, pointer>>

\* Clears two of the logs and keeps everything else.
close ==
  /\ up' = FALSE
  /\ db' = [db EXCEPT !["audits"] = {}, !["cost_records"] = {}]
  /\ UNCHANGED <<last, now, focus, pointer>>

(***************************************************************************)
(* Audit, cost and savings logs.                                           *)
(***************************************************************************)
insertAudit(t) == PushBack("insertAudit", t, "audits", LogRow("audits", t, 0))
queryAudits(t, limit) ==
  Scan("queryAudits", <<t, limit>>, Newest(OfTenant("audits", t), "seq", limit))
auditCount(t) == Scan("auditCount", t, Cardinality(OfTenant("audits", t)))
pruneAudits ==
  RemoveIf("pruneAudits", "audits", {r \in db.audits : r.ts < now - Window})

insertCostRecord(t) ==
  PushBack("insertCostRecord", t, "cost_records", LogRow("cost_records", t, 1))
queryCosts(t, limit) ==
  Scan("queryCosts", <<t, limit>>,
       Newest(OfTenant("cost_records", t), "seq", limit))
costRecordCount(t) ==
  Scan("costRecordCount", t, Cardinality(OfTenant("cost_records", t)))
costTotal(t) == Scan("costTotal", t, TotalCost(OfTenant("cost_records", t)))
pruneCostRecords ==
  RemoveIf("pruneCostRecords", "cost_records",
           {r \in db.cost_records : r.ts < now - Window})
getTenantCostInPeriod(t, from, to) ==
  Scan("getTenantCostInPeriod", <<t, from, to>>,
       TotalCost(InPeriod(Where("cost_records", "tenant", t), from, to)))
queryCostsByDateRange(t, from, to) ==
  Scan("queryCostsByDateRange", <<t, from, to>>,
       InPeriod(OfTenant("cost_records", t), from, to))

insertSavingsEvent(t) ==
  PushBack("insertSavingsEvent", t, "savings_events",
          LogRow("savings_events", t, 1))
querySavingsEventsByDateRange(from, to) ==
  Scan("querySavingsEventsByDateRange", <<from, to>>,
       InPeriod(db.savings_events, from, to))
savingsEventCount ==
  Scan("savingsEventCount", 0, Cardinality(db.savings_events))
pruneSavingsEvents ==
  RemoveIf("pruneSavingsEvents", "savings_events",
           {r \in db.savings_events : r.ts < now - Window})

(***************************************************************************)
(* Tenants, users and API keys.                                            *)
(***************************************************************************)
insertTenant(t) == Emplace("insertTenant", t, "tenants", FALSE)
getTenant(i) == Scan("getTenant", i, Where("tenants", "id", i))
listTenants == Scan("listTenants", 0, db.tenants)
tenantCount == Scan("tenantCount", 0, Cardinality(db.tenants))
updateTenant(t) == Replace("updateTenant", t, "tenants", FALSE)
deleteTenant(i) == Erase("deleteTenant", i, "tenants")

\* A bug: two users of a tenant may share a name.
insertUserNoNameCheck(u) == Emplace("insertUser", u, "users", FALSE)

insertUser(u) ==
  Emplace("insertUser", u, "users",
          \E r \in db.users : r.tenant = u.tenant /\ r.name = u.name)
getUser(i) == Scan("getUser", i, Where("users", "id", i))
getUserByUsername(t, n) ==
  Scan("getUserByUsername", <<t, n>>,
       {r \in db.users : r.tenant = t /\ r.name = n})
listUsers(t) == Scan("listUsers", t, OfTenant("users", t))
userCount(t) == Scan("userCount", t, Cardinality(OfTenant("users", t)))
updateUser(u) == Replace("updateUser", u, "users", FALSE)
deleteUser(i) == Erase("deleteUser", i, "users")

insertApiKey(k) == Emplace("insertApiKey", k, "api_keys", FALSE)
getApiKeyByHash(h) == Scan("getApiKeyByHash", h, Where("api_keys", "hash", h))
getApiKeysByPrefix(h) ==
  Scan("getApiKeysByPrefix", h, Where("api_keys", "hash", h))
listApiKeys(t) == Scan("listApiKeys", t, OfTenant("api_keys", t))
apiKeyCount(t) == Scan("apiKeyCount", t, Cardinality(OfTenant("api_keys", t)))
updateApiKey(k) == Replace("updateApiKey", k, "api_keys", FALSE)
revokeApiKey(i) ==
  LET hit == Where("api_keys", "id", i)
  IN  /\ Put("revokeApiKey", i, TRUE, "api_keys",
             (db.api_keys \ hit) \cup
               {[r EXCEPT !.status = "revoked"] : r \in hit}, hit # {})
      /\ UNCHANGED pointer

(***************************************************************************)
(* SSO providers, identity mappings, sessions.                             *)
(***************************************************************************)
insertSsoProvider(p) == Emplace("insertSsoProvider", p, "sso_providers", ~up)
getSsoProvider(i) == Scan("getSsoProvider", i, Where("sso_providers", "id", i))
getSsoProviderByTenant(t) ==
  Scan("getSsoProviderByTenant", t,
       {r \in db.sso_providers : r.tenant = t /\ r.enabled})
listSsoProviders == Scan("listSsoProviders", 0, db.sso_providers)
ssoProviderCount == Scan("ssoProviderCount", 0, Cardinality(db.sso_providers))
updateSsoProvider(p) == Replace("updateSsoProvider", p, "sso_providers", FALSE)
deleteSsoProvider(i) == Erase("deleteSsoProvider", i, "sso_providers")

\* Only the id is checked, not (external_subject, external_issuer).
insertIdentityMapping(m) ==
  Emplace("insertIdentityMapping", m, "identity_mappings", ~up)
getIdentityMapping(s) ==
  Scan("getIdentityMapping", s, Where("identity_mappings", "subject", s))
listIdentityMappings(t) ==
  Scan("listIdentityMappings", t, Where("identity_mappings", "tenant", t))
deleteIdentityMapping(i) ==
  Erase("deleteIdentityMapping", i, "identity_mappings")
updateIdentityMappingLastLogin(i) ==
  Assign("updateIdentityMappingLastLogin", i, "identity_mappings", "login", now)

insertSession(i, u) ==
  LET ok == up /\ ~Has("sessions", i)
  IN  /\ Put("insertSession", <<i, u>>, ok, "sessions",
             db.sessions \cup {SessionRow(i, u)}, ok)
      /\ UNCHANGED pointer
getSession(i) == Scan("getSession", i, Where("sessions", "id", i))
listSessionsByUser(u) ==
  Scan("listSessionsByUser", u, Where("sessions", "user", u))
updateSessionActivity(i) ==
  Assign("updateSessionActivity", i, "sessions", "active", now)
updateSessionMfaVerified(i) ==
  Assign("updateSessionMfaVerified", i, "sessions", "mfa", TRUE)
deleteSession(i) == Erase("deleteSession", i, "sessions")
countSessionsByUser(u) ==
  Scan("countSessionsByUser", u, Cardinality(Where("sessions", "user", u)))

deleteExpiredSessions ==
  RemoveIf("deleteExpiredSessions", "sessions",
           {r \in db.sessions : r.expires < now})

(***************************************************************************)
(* MFA and SCIM.  The secrets are not overridden: PersistentStore's        *)
(* defaults refuse them.                                                   *)
(***************************************************************************)
upsertMfaSecret(m) == Scan("upsertMfaSecret", m, FALSE)
getMfaSecret(u) == Scan("getMfaSecret", u, {})
deleteMfaSecret(u) == Scan("deleteMfaSecret", u, FALSE)

recordMfaFailure(u) ==
  LET row == AfterFailure(u, db.mfa_failures)
  IN  /\ Put("recordMfaFailure", u, TRUE, "mfa_failures",
             (db.mfa_failures \ Where("mfa_failures", "user", u)) \cup {row},
             row.until > now)
      /\ UNCHANGED pointer
getMfaLockedUntil(u) ==
  Scan("getMfaLockedUntil", u,
       MapThenSumSet(LAMBDA r : r.until, Where("mfa_failures", "user", u)))
clearMfaFailures(u) ==
  /\ Put("clearMfaFailures", u, TRUE, "mfa_failures",
         db.mfa_failures \ Where("mfa_failures", "user", u), TRUE)
  /\ UNCHANGED pointer

insertScimToken(t) == Emplace("insertScimToken", t, "scim_tokens", ~up)
getScimTokenByHash(h) ==
  Scan("getScimTokenByHash", h, Where("scim_tokens", "hash", h))
listScimTokens(t) == Scan("listScimTokens", t, Where("scim_tokens", "tenant", t))
deleteScimToken(i) == Erase("deleteScimToken", i, "scim_tokens")

insertScimGroup(g) == Emplace("insertScimGroup", g, "scim_groups", FALSE)
getScimGroup(i) == Scan("getScimGroup", i, Where("scim_groups", "id", i))
listScimGroups(t) == Scan("listScimGroups", t, Where("scim_groups", "tenant", t))
getScimGroupMembers(i) ==
  Scan("getScimGroupMembers", i,
       {r.user : r \in Where("scim_group_members", "group", i)})
updateScimGroup(i, n, members) ==
  LET hit == Where("scim_groups", "id", i)
  IN  /\ db' = IF hit = {} THEN db ELSE
                 [db EXCEPT
                   !["scim_groups"] = (@ \ hit) \cup
                                        {[r EXCEPT !.name = n] : r \in hit},
                   !["scim_group_members"] =
                      (@ \ Where("scim_group_members", "group", i)) \cup
                        [group : {i}, user : members]]
      /\ Returns("updateScimGroup", <<i, n, members>>, hit # {})
      /\ UNCHANGED pointer
deleteScimGroup(i) ==
  /\ db' = [db EXCEPT !["scim_groups"] = @ \ Where("scim_groups", "id", i),
                      !["scim_group_members"] =
                         @ \ Where("scim_group_members", "group", i)]
  /\ Returns("deleteScimGroup", i, Has("scim_groups", i))
  /\ UNCHANGED pointer

(***************************************************************************)
(* Prompt templates and rule sets.                                         *)
(***************************************************************************)
insertPromptTemplate(t) ==
  Emplace("insertPromptTemplate", t, "prompt_templates", FALSE)
getPromptTemplate(i) ==
  Scan("getPromptTemplate", i, Where("prompt_templates", "id", i))
updatePromptTemplate(t) ==
  Replace("updatePromptTemplate", t, "prompt_templates", FALSE)
deletePromptTemplate(i) == Erase("deletePromptTemplate", i, "prompt_templates")
listPromptTemplates(t) ==
  Scan("listPromptTemplates", t, Where("prompt_templates", "tenant", t))
listPromptTemplatesByName(t, n) ==
  Scan("listPromptTemplatesByName", <<t, n>>,
       {r \in Where("prompt_templates", "tenant", t) : r.name = n})
promptTemplateCount(t) ==
  Scan("promptTemplateCount", t, Cardinality(OfTenant("prompt_templates", t)))

\* Every version of the tenant with its is_active flag set to (version = v).
Pointed(t, v) ==
  {IF r.tenant = t THEN [r EXCEPT !.active = (r.version = v)] ELSE r
     : r \in db.rule_sets}

\* An existing version is refused before anything is deactivated.
insertRuleSet(r) ==
  LET ok == {q \in db.rule_sets : SameOn(q, r, {"tenant", "version"})} = {}
  IN  /\ Put("insertRuleSet", r, ok, "rule_sets",
             Pointed(r.tenant, 0) \cup {r}, ok)
      /\ UNCHANGED pointer
getActiveRuleSet(t) ==
  Scan("getActiveRuleSet", t,
       {r \in Where("rule_sets", "tenant", t) : r.active})
\* Latest insertion first; versions are inserted in increasing order.
listRuleSetVersions(t, limit) ==
  Scan("listRuleSetVersions", <<t, limit>>,
       Newest(Where("rule_sets", "tenant", t), "version", limit))
ruleSetCount(t) == Scan("ruleSetCount", t, Cardinality(OfTenant("rule_sets", t)))

\* Deactivates every other version, also when the version does not exist.
activateRuleSetVersion(t, v) ==
  /\ Put("activateRuleSetVersion", <<t, v>>, TRUE, "rule_sets", Pointed(t, v),
         {r \in db.rule_sets : r.tenant = t /\ r.version = v} # {})
  /\ UNCHANGED pointer

(***************************************************************************)
(* Config versions, rollouts and approval proposals.                       *)
(***************************************************************************)
insertConfigVersion(i) ==
  LET ok == ~Has("config_versions", i)
  IN  /\ Put("insertConfigVersion", i, ok, "config_versions",
             db.config_versions \cup
               {[id |-> i, status |-> "PENDING", reviewer |-> ""]}, ok)
      /\ UNCHANGED pointer
updateConfigStatus(i, s) ==
  LET hit == Where("config_versions", "id", i)
      new == {[r EXCEPT !.status = s,
                        !.reviewer = IF s \in {"APPROVED", "REJECTED"}
                                     THEN "r" ELSE @] : r \in hit}
  IN  /\ Put("updateConfigStatus", <<i, s>>, TRUE, "config_versions",
             (db.config_versions \ hit) \cup new, hit # {})
      /\ UNCHANGED pointer
getConfigVersion(i) ==
  Scan("getConfigVersion", i, Where("config_versions", "id", i))

\* What follows `token' in s, a sequence of rows: nothing if it is not there.
After(s, token) ==
  IF token = 0 THEN s
  ELSE SelectSeq(s, LAMBDA r : r.id < token /\ \E k \in DOMAIN s : s[k].id = token)

\* Filters first, then looks for the page token among what is left.
listConfigVersions(wanted, token) ==
  LET S == {r \in db.config_versions : wanted = {} \/ r.status \in wanted}
  IN  Scan("listConfigVersions", <<wanted, token>>,
           After(Newest(S, "id", 50), token))

\* Follows the pointer, whatever the status of that row is.
getActiveConfig ==
  Scan("getActiveConfig", 0, Where("config_versions", "id", pointer))

activateConfig(i) ==
  LET hit == {r \in Where("config_versions", "id", i) :
                \/ r.status \in {"APPROVED", "SUPERSEDED"}
                \/ r.status = "ACTIVE" /\ pointer = i}
      To(r) == IF r.id = i THEN "ACTIVE"
               ELSE IF r.id = pointer THEN "SUPERSEDED" ELSE r.status
      noop == \E r \in hit : r.status = "ACTIVE"
  IN  /\ Put("activateConfig", i, hit # {} /\ ~noop, "config_versions",
             {[r EXCEPT !.status = To(r)] : r \in db.config_versions}, hit # {})
      /\ pointer' = IF hit = {} THEN pointer ELSE i

\* Another rollout of the target is active.
Taken(r) ==
  /\ r.status \in ActiveRollout
  /\ \E q \in db.rollouts :
       q.id # r.id /\ q.target = r.target /\ q.status \in ActiveRollout

insertRollout(r) == Emplace("insertRollout", r, "rollouts", ~up \/ Taken(r))
updateRollout(r) == Replace("updateRollout", r, "rollouts", ~up \/ Taken(r))
getRollout(i) == Scan("getRollout", i, Where("rollouts", "id", i))
findActiveRolloutByTarget(t) ==
  Scan("findActiveRolloutByTarget", t,
       {r \in Where("rollouts", "target", t) : r.status \in ActiveRollout})
listRollouts(wanted, token) ==
  LET S == {r \in db.rollouts : wanted = {} \/ r.status \in wanted}
  IN  Scan("listRollouts", <<wanted, token>>, After(Newest(S, "id", 50), token))
appendRolloutStageEvent(e) ==
  /\ Put("appendRolloutStageEvent", e, up, "rollout_stage_events",
         db.rollout_stage_events \cup {e}, up)
  /\ UNCHANGED pointer
listRolloutStageEvents(i) ==
  Scan("listRolloutStageEvents", i,
       Oldest(Where("rollout_stage_events", "rollout", i), "id"))

insertApprovalProposal(p) ==
  LET ok == up /\ ~Has("autonomy_proposals", p.id)
  IN  /\ Put("insertApprovalProposal", p, ok, "autonomy_proposals",
             db.autonomy_proposals \cup {ProposalRow(p)}, ok)
      /\ UNCHANGED pointer
getApprovalProposal(i) ==
  Scan("getApprovalProposal", i, Where("autonomy_proposals", "id", i))
updateApprovalProposal(p) ==
  Replace("updateApprovalProposal", p, "autonomy_proposals", ~up)
listApprovalProposals(s) ==
  Scan("listApprovalProposals", s,
       Newest({r \in db.autonomy_proposals : s = "" \/ r.state = s}, "id", 1000))
pruneApprovalProposals ==
  /\ Put("pruneApprovalProposals", 0, up, "autonomy_proposals",
         {r \in db.autonomy_proposals : r.at >= now - Window},
         IF up THEN Cardinality({r \in db.autonomy_proposals :
                                   r.at < now - Window}) ELSE 0)
  /\ UNCHANGED pointer

(***************************************************************************)
(* The calls of each group of tables.                                      *)
(***************************************************************************)
LogCalls ==
  \/ /\ focus = "audits"
     /\ \/ Room("audits") /\ \E t \in TenantIds : insertAudit(t)
        \/ \E t \in Filters : auditCount(t) \/ queryAudits(t, 1) \/ queryAudits(t, 100)
        \/ pruneAudits
  \/ /\ focus = "costs"
     /\ \/ Room("cost_records") /\ \E t \in TenantIds : insertCostRecord(t)
        \/ \E t \in Filters :
             costRecordCount(t) \/ costTotal(t) \/ queryCosts(t, 1)
        \/ \E from, to \in Times :
             \/ getTenantCostInPeriod("t1", from, to)
             \/ \E t \in Filters : queryCostsByDateRange(t, from, to)
        \/ pruneCostRecords
  \/ /\ focus = "savings"
     /\ \/ Room("savings_events") /\ \E t \in TenantIds : insertSavingsEvent(t)
        \/ \E from, to \in Times : querySavingsEventsByDateRange(from, to)
        \/ savingsEventCount \/ pruneSavingsEvents

AccountCalls ==
  \/ /\ focus = "tenants"
     /\ \/ \E t \in TenantRows : insertTenant(t) \/ updateTenant(t)
        \/ \E i \in TenantIds : getTenant(i) \/ deleteTenant(i)
        \/ listTenants \/ tenantCount
  \/ /\ focus = "users"
     /\ \/ \E u \in UserRows : insertUser(u) \/ updateUser(u)
        \/ \E i \in Ids : getUser(i) \/ deleteUser(i)
        \/ \E t \in Filters : listUsers(t) \/ userCount(t)
        \/ \E n \in {"n1", "n2"} : getUserByUsername("t1", n)
  \/ /\ focus = "keys"
     /\ \/ \E k \in KeyRows : insertApiKey(k) \/ updateApiKey(k)
        \/ \E h \in {"h1", "h2"} : getApiKeyByHash(h) \/ getApiKeysByPrefix(h)
        \/ \E t \in Filters : listApiKeys(t) \/ apiKeyCount(t)
        \/ \E i \in Ids : revokeApiKey(i)

IdentityCalls ==
  \/ /\ focus = "sso"
     /\ \/ insertTenant(OneTenant) \/ deleteTenant("t1")
        \/ \E p \in ProviderRows : insertSsoProvider(p) \/ updateSsoProvider(p)
        \/ \E i \in Ids : getSsoProvider(i) \/ deleteSsoProvider(i)
        \/ getSsoProviderByTenant("t1") \/ listSsoProviders \/ ssoProviderCount
  \/ /\ focus = "mappings"
     /\ \/ insertTenant(OneTenant) \/ insertUser(OneUser) \/ deleteUser(1)
        \/ \E m \in MappingRows : insertIdentityMapping(m)
        \/ \E s \in {"s1", "s2"} : getIdentityMapping(s)
        \/ listIdentityMappings("t1")
        \/ \E i \in Ids :
             deleteIdentityMapping(i) \/ updateIdentityMappingLastLogin(i)

SessionCalls ==
  \/ /\ focus = "sessions"
     /\ \/ \E i \in Ids : insertSession(i, 1)
        \/ updateSessionActivity(1) \/ updateSessionMfaVerified(2)
        \/ \E i \in Ids : \/ getSession(i) \/ deleteSession(i)
                          \/ listSessionsByUser(i) \/ countSessionsByUser(i)
        \/ deleteExpiredSessions
  \/ /\ focus = "secrets"
     /\ \/ \E m \in SecretRows : upsertMfaSecret(m)
        \/ \E u \in Ids : getMfaSecret(u) \/ deleteMfaSecret(u)
  \/ /\ focus = "mfa"
     /\ \/ MayFail(1) /\ recordMfaFailure(1)
        \/ getMfaLockedUntil(1) \/ clearMfaFailures(1)

ScimCalls ==
  \/ /\ focus = "tokens"
     /\ \/ insertTenant(OneTenant) \/ deleteTenant("t1")
        \/ \E t \in TokenRows : insertScimToken(t)
        \/ getScimTokenByHash("h1") \/ listScimTokens("t1")
        \/ \E i \in Ids : deleteScimToken(i)
  \/ /\ focus = "groups"
     /\ \/ \E g \in GroupRows : insertScimGroup(g)
        \/ listScimGroups("t1")
        \/ \E i \in Ids : \/ getScimGroup(i) \/ getScimGroupMembers(i)
                          \/ deleteScimGroup(i)
                          \/ \E n \in {"n1", "n2"}, m \in SUBSET {1, 2} :
                               updateScimGroup(i, n, m)

GovernanceCalls ==
  \/ /\ focus = "templates"
     /\ \/ \E t \in TemplateRows :
             insertPromptTemplate(t) \/ updatePromptTemplate(t)
        \/ \E i \in Ids : getPromptTemplate(i) \/ deletePromptTemplate(i)
        \/ \E n \in {"n1", "n2"} : listPromptTemplatesByName("t1", n)
        \/ listPromptTemplates("t1")
        \/ \E t \in Filters : promptTemplateCount(t)
  \/ /\ focus = "rules"
     /\ \/ \E r \in RuleRows : NextOrOlder(r) /\ insertRuleSet(r)
        \/ \E v \in 1..3 : activateRuleSetVersion("t1", v)
        \/ getActiveRuleSet("t1")
        \/ \E limit \in {1, 20} : listRuleSetVersions("t1", limit)
        \/ \E t \in Filters : ruleSetCount(t)

ControlPlaneCalls ==
  \/ /\ focus = "configs"
     /\ \/ \E i \in Ids :
             \/ insertConfigVersion(i) \/ getConfigVersion(i)
             \/ activateConfig(i)
             \/ \E s \in {"APPROVED", "REJECTED"} : updateConfigStatus(i, s)
        \/ \E w \in {{}, {"APPROVED"}}, token \in 0..2 :
             listConfigVersions(w, token)
        \/ getActiveConfig
  \/ /\ focus = "rollouts"
     /\ \/ \E r \in RolloutRows : insertRollout(r) \/ updateRollout(r)
        \/ \E i \in Ids : getRollout(i)
        \/ \E t \in {"v1", "v2"} : findActiveRolloutByTarget(t)
        \/ \E w \in {{}, {"COMPLETED"}}, token \in 0..2 : listRollouts(w, token)
  \/ /\ focus = "events"
     /\ \/ \E e \in EventRows : Fresh(e) /\ appendRolloutStageEvent(e)
        \/ \E i \in Ids : listRolloutStageEvents(i)
  \/ /\ focus = "proposals"
     /\ \/ \E p \in ProposalRows :
             insertApprovalProposal(p) \/ updateApprovalProposal(p)
        \/ \E i \in Ids : getApprovalProposal(i)
        \/ \E s \in {"", "pending"} : listApprovalProposals(s)
        \/ pruneApprovalProposals

Next ==
  \/ initialize \/ close
  \/ Tick /\ UNCHANGED pointer
  \/ LogCalls \/ AccountCalls \/ IdentityCalls \/ SessionCalls
  \/ ScimCalls \/ GovernanceCalls \/ ControlPlaneCalls

Spec == StoreInit /\ pointer = 0 /\ [][Next]_memVars
=============================================================================

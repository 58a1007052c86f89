----------------------------- MODULE AdminAuth -----------------------------
(***************************************************************************)
(* Who the caller is: AuthService, SessionManager, the session resolution  *)
(* shared by the HTTP and WebSocket channels, the SSO flow (OIDC provider  *)
(* CRUD, login, callback, identity mapping) and the MFA handlers.          *)
(***************************************************************************)
EXTENDS AdminDb

VARIABLES
  rbac,          \* the RBAC feature of the license
  enforcement    \* mfa.enforcement

(***************************************************************************)
(* Sessions.                                                               *)
(***************************************************************************)
isExpired(s)     == now >= s.expires
isIdleTimeout(s) == now >= s.active + Window

\* SessionManager::getSession: the ids a lookup finds alive and touches.
getSession(i) ==
  IF /\ i \in Rows("sessions")
     /\ ~isExpired(db.sessions[i]) /\ ~isIdleTimeout(db.sessions[i])
  THEN {i} ELSE {}

Active(tb, i) == i \in Rows(tb) /\ db[tb][i].status = "active"

\* The context of a live session, with the user's role of now.
resolveSession(i) ==
  {[user |-> db.sessions[s].user, tenant |-> db.sessions[s].tenant,
    role |-> db.users[db.sessions[s].user].role, rbac |-> TRUE, session |-> s]
     : s \in {x \in getSession(i) : /\ Active("users", db.sessions[x].user)
                                    /\ Active("tenants", db.sessions[x].tenant)}}

isMfaRequired(ctx) ==
  \/ enforcement = "required"
  \/ enforcement = "role_based" /\ ctx.role >= TenantAdmin

Verified(ctx) == ctx.session # 0 /\ db.sessions[ctx.session].mfa

\* A cookie is a session id, or a JWT that carries the role of its issue.
JwtContext(c) ==
  [user |-> c.user, tenant |-> c.tenant, role |-> c.role, rbac |-> rbac,
   session |-> 0]

\* SSO session first, behind the MFA gate; then the JWT, which can carry no
\* MFA state.
resolveAdminSession(c) ==
  IF c.kind = "session"
  THEN {x \in resolveSession(c.id) : isMfaRequired(x) => Verified(x)}
  ELSE {x \in {JwtContext(c)} : now <= c.exp /\ ~isMfaRequired(x)}

resolvePendingMfaSession(c) ==
  IF c.kind = "session"
  THEN {x \in resolveSession(c.id) : isMfaRequired(x) /\ ~Verified(x)}
  ELSE {}

resolveMfaChallengeSession(c) ==
  LET x == resolveAdminSession(c)
  IN  IF x # {} THEN x ELSE resolvePendingMfaSession(c)

\* Deletes the oldest sessions of the user until one more fits.
enforceLimit(u) ==
  LET mine  == {i \in Rows("sessions") : db.sessions[i].user = u}
      order == SetToSortSeq(mine, LAMBDA i, j :
                 db.sessions[i].created * 100 + i
                   < db.sessions[j].created * 100 + j)
      extra == IF Cardinality(mine) >= MaxConcurrent
               THEN Cardinality(mine) - MaxConcurrent + 1 ELSE 0
  IN  [k \in 1..extra |-> Try(Del("sessions", order[k]))]

createSession(u, t, n) ==
  [NoPlan EXCEPT !.todo = enforceLimit(u) \o
     <<Ins("sessions", n, [user |-> u, tenant |-> t, mfa |-> FALSE,
                           created |-> now, active |-> now,
                           expires |-> now + 2 * Window])>>]

(***************************************************************************)
(* API keys.                                                               *)
(***************************************************************************)
\* The contexts a bearer key resolves to; with RBAC off the configured keys
\* are super-administrators of no tenant.
resolveRbac(k) ==
  {[user |-> db.keys[i].user, tenant |-> db.keys[i].tenant,
    role |-> db.keys[i].role, rbac |-> TRUE, session |-> 0]
     : i \in {j \in Rows("keys") \cap {k} :
                /\ db.keys[j].status \notin {"revoked", "expired"}
                /\ Active("users", db.keys[j].user)
                /\ Active("tenants", db.keys[j].tenant)}}

resolveLegacy(k) ==
  {[user |-> 0, tenant |-> 0, role |-> SuperAdmin, rbac |-> FALSE,
    session |-> 0] : i \in {k} \cap {1}}

resolve(k) == IF rbac THEN resolveRbac(k) ELSE resolveLegacy(k)

\* POST /admin/login: the JWT cookies it may set.
login(k) ==
  {[kind |-> "jwt", id |-> 0, user |-> x.user, tenant |-> x.tenant,
    role |-> x.role, exp |-> now + Window] : x \in {y \in resolve(k) : ~isMfaRequired(y)}}

(***************************************************************************)
(* SSO providers.                                                          *)
(***************************************************************************)
createSsoProvider(ctx, a) ==
  IF ~requireRole(ctx, SuperAdmin) THEN Forbidden
  ELSE IF a.tenant = 0 THEN Refuse("MissingRequiredField")
  ELSE Do(<<Ins("sso", a.n, [tenant |-> a.tenant, enabled |-> TRUE,
                             jit |-> TRUE])>>, auditAction(ctx))

listSsoProviders(ctx, a) ==
  IF ~requireRole(ctx, SuperAdmin) THEN Forbidden
  ELSE Reply(TenantsIn("sso", 0))

getSsoProvider(ctx, a) ==
  IF ~requireRole(ctx, SuperAdmin) THEN Forbidden
  ELSE IF a.id \notin Rows("sso") THEN Refuse("InvalidRequest")
  ELSE Reply({db.sso[a.id].tenant})

updateSsoProvider(ctx, a) ==
  IF ~requireRole(ctx, SuperAdmin) THEN Forbidden
  ELSE IF a.id \notin Rows("sso") THEN Refuse("InvalidRequest")
  ELSE Do(<<Upd("sso", a.id, [db.sso[a.id] EXCEPT !.enabled = a.enabled])>>,
          auditAction(ctx))

deleteSsoProvider(ctx, a) ==
  IF ~requireRole(ctx, SuperAdmin) THEN Forbidden
  ELSE Do(<<Del("sso", a.id)>>, auditAction(ctx))

\* LIMIT 1 over the tenant's enabled providers: the first row met.
getSsoProviderByTenant(t) ==
  LET S == {i \in Rows("sso") : db.sso[i].tenant = t /\ db.sso[i].enabled}
  IN  IF S = {} THEN {} ELSE {Min(S)}

(***************************************************************************)
(* SSO login.  `idp': discovery, code exchange and token verification all  *)
(* succeed at the identity provider.                                       *)
(***************************************************************************)
initiateSsoLogin(t, idp) ==
  IF getSsoProviderByTenant(t) = {} \/ ~idp
  THEN Refuse("InvalidRequest") ELSE NoPlan

\* A mapped subject must have an active user; an unmapped one gets a user
\* and a mapping, when the provider provisions just in time.
mapIdentity(p, sub, n) ==
  IF sub \in Rows("mappings")
  THEN LET m == db.mappings[sub]
           touch == <<Try(Set("mappings", sub, [login |-> now]))>>
       IN  IF ~Active("users", m.user)
           THEN [Refuse("InvalidRequest") EXCEPT !.todo = touch]
           ELSE [NoPlan EXCEPT !.todo = touch, !.user = m.user,
                               !.next = "createSession"]
  ELSE IF ~p.jit THEN Refuse("InvalidRequest")
  ELSE [NoPlan EXCEPT
          !.todo = <<Ins("users", n, [tenant |-> p.tenant, name |-> sub,
                                      role |-> Viewer, status |-> "active"]),
                     Ins("mappings", sub, [tenant |-> p.tenant, user |-> n,
                                           login |-> now])>>,
          !.user = n, !.next = "createSession"]

handleSsoCallback(t, sub, idp, n) ==
  LET S == getSsoProviderByTenant(t)
  IN  IF S = {} \/ ~idp THEN Refuse("InvalidRequest")
      ELSE mapIdentity(db.sso[CHOOSE i \in S : TRUE], sub, n)

handleSsoLogout(ctx, a) ==
  [NoPlan EXCEPT !.todo = IF ctx.session = 0 THEN <<>>
                          ELSE <<Try(Del("sessions", ctx.session))>>]

(***************************************************************************)
(* MFA.  A secret is numbered; a right code is the number of the secret.   *)
(***************************************************************************)
Secret(ctx) == db.mfa[ctx.user]
Enrolled(ctx) == ctx.user \in Rows("mfa")
Locked(ctx) ==
  ctx.user \in Rows("failures") /\ db.failures[ctx.user].until > now

\* setMfaVerified, when the caller came with a session.
MarkVerified(ctx) ==
  IF ctx.session = 0 THEN <<>>
  ELSE <<Try(Set("sessions", ctx.session, [mfa |-> TRUE]))>>

Failed(ctx) ==
  [Refuse("MfaInvalidCode") EXCEPT
     !.todo = <<Try(Call("recordMfaFailure", "failures", ctx.user, <<>>))>>]

setupMfa(ctx, a) ==
  IF Enrolled(ctx) /\ Secret(ctx).on THEN Refuse("InvalidRequest")
  ELSE Do(<<Put("mfa", ctx.user, [secret |-> a.n, on |-> FALSE,
                                  codes |-> {1, 2}])>>, auditAction(ctx))

\* A bug: the lock-out is not looked at.
verifyMfaUnlocked(ctx, a) ==
  IF ~Enrolled(ctx) THEN Refuse("MfaNotSetup")
  ELSE IF a.code # Secret(ctx).secret THEN Failed(ctx)
  ELSE Do(<<Try(Del("failures", ctx.user))>> \o MarkVerified(ctx),
          auditAction(ctx))

verifyMfa(ctx, a) ==
  IF ~Enrolled(ctx) THEN Refuse("MfaNotSetup")
  ELSE IF Locked(ctx) THEN Refuse("RateLimitExceeded")
  ELSE IF a.code # Secret(ctx).secret THEN Failed(ctx)
  ELSE Do(<<Try(Del("failures", ctx.user))>> \o
          (IF Secret(ctx).on THEN <<>>
           ELSE <<Try(Put("mfa", ctx.user, [Secret(ctx) EXCEPT !.on = TRUE]))>>)
          \o MarkVerified(ctx), auditAction(ctx))

disableMfa(ctx, a) ==
  IF ~requireRole(ctx, TenantAdmin) THEN Forbidden
  ELSE IF ~Enrolled(ctx) \/ ~Secret(ctx).on THEN Refuse("MfaNotSetup")
  ELSE IF a.code # Secret(ctx).secret THEN Refuse("MfaInvalidCode")
  ELSE Do(<<Try(Del("mfa", ctx.user))>>, auditAction(ctx))

\* Writes back the codes it read without the one used.
recoveryMfa(ctx, a) ==
  IF ~Enrolled(ctx) \/ ~Secret(ctx).on THEN Refuse("MfaNotSetup")
  ELSE IF Locked(ctx) THEN Refuse("RateLimitExceeded")
  ELSE IF a.recovery \notin Secret(ctx).codes THEN Failed(ctx)
  ELSE Do(<<Try(Del("failures", ctx.user)),
            Try(Put("mfa", ctx.user,
                    [Secret(ctx) EXCEPT !.codes = @ \ {a.recovery}]))>>
          \o MarkVerified(ctx), auditAction(ctx))
=============================================================================

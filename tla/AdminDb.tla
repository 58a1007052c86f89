------------------------------ MODULE AdminDb ------------------------------
(***************************************************************************)
(* What the admin and SCIM handlers share: the rows they read, the store   *)
(* calls they make one after another, and the authorization predicates.    *)
(*                                                                         *)
(* A handler is an operator on the caller's context and the request's      *)
(* arguments that returns a plan, computed from what it reads: the store   *)
(* calls still to make, the answer if they succeed, and whose rows the     *)
(* answer shows.  Other handlers run between two calls of a plan.          *)
(*                                                                         *)
(* Ids and tenants are numbers; 0 is the empty id.  Tenant 0 in a list     *)
(* call means every tenant.                                                *)
(***************************************************************************)
EXTENDS Naturals, Sequences, FiniteSets, FiniteSetsExt, SequencesExt

CONSTANTS
  MaxConcurrent,    \* session.max_concurrent
  MaxFailures,      \* mfa.lockout_max_failures
  Window            \* mfa.lockout_window_seconds, and every session timeout

VARIABLES
  db,               \* db[table]: a function from ids to rows
  now               \* the wall clock

Viewer      == 0
Developer   == 1
TenantAdmin == 2
SuperAdmin  == 3

Rows(tb) == DOMAIN db[tb]

\* The tenants whose rows a list call over table tb returns.
TenantsIn(tb, t) ==
  {db[tb][i].tenant : i \in {j \in Rows(tb) : t = 0 \/ db[tb][j].tenant = t}}

(***************************************************************************)
(* Authorization.  ctx: [user, tenant, role, rbac, session].               *)
(***************************************************************************)
requireRole(ctx, required) == ctx.rbac => ctx.role >= required

requireTenantAccess(ctx, t) ==
  ctx.rbac => (ctx.role = SuperAdmin \/ ctx.tenant = t)

authorize(ctx, required, t) ==
  requireRole(ctx, required) /\ requireTenantAccess(ctx, t)

canGrantRole(ctx, target) == ctx.rbac => target <= ctx.role

effectiveTenantId(ctx, requested) ==
  IF ctx.role = SuperAdmin THEN requested ELSE ctx.tenant

(***************************************************************************)
(* Store calls.  `must': the handler gives up when the call fails.         *)
(***************************************************************************)
Call(do, tb, i, row) ==
  [do |-> do, tb |-> tb, id |-> i, row |-> row, must |-> TRUE]
Ins(tb, i, row) == Call("insert", tb, i, row)
Upd(tb, i, row) == Call("update", tb, i, row)
Put(tb, i, row) == Call("upsert", tb, i, row)
Del(tb, i)      == Call("delete", tb, i, <<>>)
\* UPDATE of some columns.
Set(tb, i, row) == Call("set", tb, i, row)
\* The handler ignores the result.
Try(c) == [c EXCEPT !.must = FALSE]

\* UNIQUE(tenant_id, username), and a rule set version that exists.
Clash(c) ==
  \/ /\ c.tb = "users"
     /\ \E i \in Rows("users") \ {c.id} :
          /\ db.users[i].tenant = c.row.tenant
          /\ db.users[i].name = c.row.name
  \/ c.do = "insertRuleSet" /\ c.row \in db.rules[c.id].versions

Succeeds(c) ==
  CASE c.do = "insert"                -> c.id \notin Rows(c.tb) /\ ~Clash(c)
    [] c.do = "update"                -> c.id \in Rows(c.tb) /\ ~Clash(c)
    [] c.do \in {"delete", "set"}     -> c.id \in Rows(c.tb)
    [] c.do = "insertRuleSet"         -> ~Clash(c)
    [] c.do = "activateRuleSetVersion" -> c.row \in db.rules[c.id].versions
    [] OTHER                          -> TRUE

\* A failed count inside the window goes on; outside it starts again.
AfterFailure(u) ==
  LET f     == db.failures[u]
      old   == u \in Rows("failures") /\ now - f.first <= Window
      count == IF old THEN f.count + 1 ELSE 1
      kept  == IF u \in Rows("failures") THEN f.until ELSE 0
  IN  [count |-> count, first |-> IF old THEN f.first ELSE now,
       until |-> IF count >= MaxFailures THEN now + Window ELSE kept]

With(tb, i, row) ==
  [db EXCEPT ![tb] = [j \in DOMAIN @ \cup {i} |-> IF j = i THEN row ELSE @[j]]]
Without(tb, i) ==
  [db EXCEPT ![tb] = [j \in DOMAIN @ \ {i} |-> @[j]]]
Patched(old, new) ==
  [c \in DOMAIN old |-> IF c \in DOMAIN new THEN new[c] ELSE old[c]]

\* insertRuleSet deactivates the tenant's versions before it inserts.
InsertedRuleSet(c) ==
  [versions |-> db.rules[c.id].versions \cup {c.row},
   active   |-> IF Clash(c) THEN 0 ELSE c.row]

\* The tables after call c, had it been executed.
After(c) ==
  CASE c.do \in {"insert", "update", "upsert"} /\ Succeeds(c) ->
         With(c.tb, c.id, c.row)
    [] c.do = "delete" /\ Succeeds(c) -> Without(c.tb, c.id)
    [] c.do = "set" /\ Succeeds(c) ->
         With(c.tb, c.id, Patched(db[c.tb][c.id], c.row))
    [] c.do = "insertRuleSet" -> With("rules", c.id, InsertedRuleSet(c))
    [] c.do = "activateRuleSetVersion" /\ Succeeds(c) ->
         With("rules", c.id, [db.rules[c.id] EXCEPT !.active = c.row])
    [] c.do = "recordMfaFailure" -> With("failures", c.id, AfterFailure(c.id))
    [] c.do = "swapBucket" -> With("bucket", c.id, c.row)
    [] OTHER -> db

(***************************************************************************)
(* Plans.  `next' is what the handler does after its calls, for `user';    *)
(* `failed' is its answer when a call it needs fails.                      *)
(***************************************************************************)
NoPlan == [res |-> "ok", todo |-> <<>>, reads |-> {}, audit |-> {},
           next |-> "", user |-> 0, failed |-> "InternalError"]

Refuse(code)       == [NoPlan EXCEPT !.res = code]
Reply(tenants)     == [NoPlan EXCEPT !.reads = tenants]
\* Make the calls, then write the audit records of these tenants.
Do(calls, tenants) == [NoPlan EXCEPT !.todo = calls, !.audit = tenants]

auditAction(ctx) == {ctx.tenant}
auditCrossTenantAction(ctx, t) == {ctx.tenant, t}

Forbidden == Refuse("InsufficientPermissions")
=============================================================================

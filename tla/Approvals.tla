----------------------------- MODULE Approvals ------------------------------
(***************************************************************************)
(* The approval of proposals made by the autonomy modules                   *)
(* (src/observe/autonomy): AutonomyApprovalWorkflow over ApprovalQueue, a   *)
(* cache of the proposals in front of the persistent store, driven by the   *)
(* admin endpoints.  No lock is held from the read of a proposal to the     *)
(* write of its new state, so every step of a call is an action of its own. *)
(***************************************************************************)
EXTENDS Integers, FiniteSets

(***************************************************************************)
(* What a proposal changes when it is applied or rolled back: one applier   *)
(* per source (src/observe/autonomy, src/observe/recovery,                  *)
(* src/guardrail/autonomy, src/workflow), over the state they act on: the   *)
(* tier overrides of MLRouter, the mode of BanditRouter, the cap of         *)
(* BudgetGuardStage, the guard model registry and a paused workflow run.    *)
(* Every applier maps the targets to the outcomes it can have.              *)
(***************************************************************************)

Outcome(ok, targets) == [ok |-> ok, targets |-> targets]
Ok(targets)   == {Outcome(TRUE, targets)}
Fail(targets) == {Outcome(FALSE, targets)}

-----------------------------------------------------------------------------
(* The guard model registry: version -> status, at most one of them live. *)

insert(models, v) ==
  IF models[v] # "none" THEN [ok |-> FALSE, models |-> models]
  ELSE [ok |-> TRUE, models |-> [models EXCEPT ![v] = "shadow"]]

promote(models, v) ==
  IF models[v] \in {"none", "retired"} THEN [ok |-> FALSE, models |-> models]
  ELSE [ok |-> TRUE,
        models |-> [w \in DOMAIN models |->
                      IF w = v THEN "live"
                      ELSE IF models[w] = "live" THEN "retired" ELSE models[w]]]

revert(models, v) ==
  IF models[v] # "live" THEN [ok |-> FALSE, models |-> models]
  ELSE [ok |-> TRUE, models |-> [models EXCEPT ![v] = "retired"]]

FromRegistry(targets, op) ==
  {Outcome(op.ok, [targets EXCEPT !.models = op.models])}

-----------------------------------------------------------------------------
(* MLRouter's override of a tenant's quality tier. *)

overrideQualityTier(targets, tenant, tier) ==
  [targets EXCEPT !.tier[tenant] = tier]

clearQualityTierOverride(targets, tenant) ==
  [targets EXCEPT !.tier[tenant] = "none"]

CostAutonomyApplier_apply(p, targets) ==
  IF p.key \notin DOMAIN targets.tier THEN Fail(targets)
  ELSE Ok(overrideQualityTier(targets, p.key, p.value))

\* The override is dropped, whatever was in force before the proposal.
CostAutonomyApplier_rollback(p, targets) ==
  IF p.key \notin DOMAIN targets.tier THEN Fail(targets)
  ELSE Ok(clearQualityTierOverride(targets, p.key))

BanditAutonomyApplier_apply(p, targets) ==
  CASE p.action \in {"shadow_to_live", "expand_canary"} ->
         Ok([targets EXCEPT !.mode = "live"])
    [] p.action = "revert_to_shadow" -> Ok([targets EXCEPT !.mode = "shadow"])
    [] OTHER -> Fail(targets)

BanditAutonomyApplier_rollback(p, targets) ==
  Ok([targets EXCEPT !.mode = "shadow"])

-----------------------------------------------------------------------------
(* RecoveryApplier: two actions that change something, the rest advisory. *)

Advisory == {"switch_router_fallback", "switch_connector",
             "propose_hpa_scale", "send_webhook", "audit_only"}

handleApplyBudgetCap(p, targets) ==
  IF p.value < 0 THEN Fail(targets) ELSE Ok([targets EXCEPT !.cap = p.value])

\* The cap to restore is the proposal's own previous_per_tenant_24h_usd.
rollbackApplyBudgetCap(p, targets) ==
  IF p.previous < 0 THEN Fail(targets)
  ELSE Ok([targets EXCEPT !.cap = p.previous])

RecoveryApplier_apply(p, targets) ==
  CASE p.action = "override_quality_tier" -> CostAutonomyApplier_apply(p, targets)
    [] p.action = "apply_budget_cap" -> handleApplyBudgetCap(p, targets)
    [] p.action \in Advisory -> Ok(targets)
    [] OTHER -> Fail(targets)

RecoveryApplier_rollback(p, targets) ==
  CASE p.action = "override_quality_tier" ->
         CostAutonomyApplier_rollback(p, targets)
    [] p.action = "apply_budget_cap" -> rollbackApplyBudgetCap(p, targets)
    [] p.action \in Advisory -> Ok(targets)
    [] OTHER -> Fail(targets)

-----------------------------------------------------------------------------
GuardModelApplier_apply(p, targets) ==
  CASE p.action = "promote_shadow_to_live" ->
         FromRegistry(targets, promote(targets.models, p.key))
    [] p.action = "revert_to_previous" ->
         FromRegistry(targets, revert(targets.models, p.key))
    [] p.action = "register_shadow" ->
         FromRegistry(targets, insert(targets.models, p.key))
    [] OTHER -> Fail(targets)

\* Whatever the action was, the version itself is retired if it is live.
GuardModelApplier_rollback(p, targets) ==
  FromRegistry(targets, revert(targets.models, p.key))

\* The paused run is resumed (WorkflowEngine): it may finish, fail, be refused
\* by the admission, or pause again, and only the first counts as applied.
WorkflowApprovalApplier_apply(p, targets) ==
  IF targets.run # "waiting" THEN Fail(targets)
  ELSE Ok([targets EXCEPT !.run = "succeeded"])
       \cup {Outcome(FALSE, [targets EXCEPT !.run = s]) :
               s \in {"waiting", "running", "dead_letter"}}

WorkflowApprovalApplier_rollback(p, targets) == Ok(targets)

-----------------------------------------------------------------------------
(* BaseAutonomyApplier: the switch that disables autonomy is read again. *)

Applier_apply(p, targets, enabled) ==
  CASE ~enabled -> Fail(targets)
    [] p.source = "CostOptimizer" -> CostAutonomyApplier_apply(p, targets)
    [] p.source = "Bandit" -> BanditAutonomyApplier_apply(p, targets)
    [] p.source = "AutoRecovery" -> RecoveryApplier_apply(p, targets)
    [] p.source = "AdaptiveGuard" -> GuardModelApplier_apply(p, targets)
    [] OTHER -> WorkflowApprovalApplier_apply(p, targets)

Applier_rollback(p, targets, enabled) ==
  CASE ~enabled -> Fail(targets)
    [] p.source = "CostOptimizer" -> CostAutonomyApplier_rollback(p, targets)
    [] p.source = "Bandit" -> BanditAutonomyApplier_rollback(p, targets)
    [] p.source = "AutoRecovery" -> RecoveryApplier_rollback(p, targets)
    [] p.source = "AdaptiveGuard" -> GuardModelApplier_rollback(p, targets)
    [] OTHER -> WorkflowApprovalApplier_rollback(p, targets)

-----------------------------------------------------------------------------
CONSTANTS Admins,     \* threads that serve admin requests
          Ids,         \* the ULIDs that propose() mints
          Workloads,   \* what a behaviour is about: the payloads (source,
                       \* action, key, value, previous), ids and threads
          Targets,     \* the states the targets may start in
          MaxFailures    \* store writes that fail, prune() calls and restarts

ASSUME ApprovalsAssumption ==
  /\ "none" \notin Ids
  /\ \A w \in Workloads : w.ids \subseteq Ids
  /\ MaxFailures \in Nat

VARIABLES workload,    \* the workload of this behaviour
          durable,     \* the queue has a persistent store
          enabled,     \* AEGISGATE_DISABLE_AUTONOMY is not set
          store,       \* approval_proposals: id -> proposal
          cache,       \* cache_: id -> proposal
          targets,     \* what the appliers act on
          req,         \* thread -> its call
          applied,     \* id -> how often its applier was asked to apply it
          used,        \* ids minted so far
          overlapped,  \* ids with two calls in progress at once
          failures, prunes, crashes

options == <<workload, durable, enabled>>
avars == <<options, store, cache, targets, req, applied, used, overlapped, failures,
           prunes, crashes>>

None == [state |-> "none"]

NoCall == [pc |-> "idle", op |-> "none", id |-> "none", cur |-> None,
           list |-> << >>]

Proposal(payload, state) == [payload |-> payload, state |-> state]

Exists(m, id) == m[id].state # "none"

\* applied saturates here: two threads can approve and apply without end.
AppliedCap == MaxFailures + 2

Faults == failures + prunes + crashes

Busy(id) == \E t \in Admins : req[t].id = id /\ req[t].pc # "idle"
Pruning  == \E t \in Admins : req[t].op = "prune"

ApprovalsInit ==
  /\ workload \in Workloads
  /\ durable \in BOOLEAN
  /\ enabled \in BOOLEAN
  /\ store = [id \in Ids |-> None]
  /\ cache = [id \in Ids |-> None]
  /\ targets \in Targets
  /\ req = [t \in Admins |-> NoCall]
  /\ applied = [id \in Ids |-> 0]
  /\ used = {}
  /\ overlapped = {}
  /\ failures = 0
  /\ prunes = 0
  /\ crashes = 0

-----------------------------------------------------------------------------
(* Which states an operation may start from, and where it leads. *)

FromLoose(op) == CASE op = "approve" -> {"PROPOSED"}
                   [] op = "reject" -> {"PROPOSED", "APPROVED"}
                   [] op = "apply" -> {"APPROVED", "APPLIED"}
                   [] OTHER -> {"APPLIED"}

From(op) == CASE op = "approve" -> {"PROPOSED"}
              [] op = "reject" -> {"PROPOSED", "APPROVED"}
              [] op = "apply" -> {"APPROVED"}
              [] OTHER -> {"APPLIED"}

To(op) == CASE op = "approve" -> "APPROVED"
            [] op = "reject" -> "REJECTED"
            [] op = "apply" -> "APPLIED"
            [] OTHER -> "ROLLED_BACK"

\* propose(): a fresh id, PROPOSED, on its way into the queue.
propose(t) ==
  /\ req[t].pc = "idle"
  /\ enabled
  /\ \E id \in workload.ids \ used, payload \in workload.payloads :
       /\ used' = used \cup {id}
       /\ req' = [req EXCEPT ![t] =
                    [NoCall EXCEPT !.pc = IF durable THEN "store" ELSE "cache",
                                   !.op = "propose", !.id = id,
                                   !.cur = Proposal(payload, "PROPOSED")]]
       /\ overlapped' = IF Pruning THEN overlapped \cup {id} ELSE overlapped
  /\ UNCHANGED <<options, store, cache, targets, applied, failures, prunes, crashes>>

\* The admin handler looks at the cached proposal before it calls the workflow.
Request(t, id, op) ==
  /\ req[t].pc = "idle"
  /\ enabled
  /\ cache[id].state \in From(op)
  /\ req' = [req EXCEPT ![t] = [NoCall EXCEPT !.pc = "get", !.op = op, !.id = id]]
  /\ overlapped' = IF Busy(id) \/ Pruning THEN overlapped \cup {id} ELSE overlapped
  /\ UNCHANGED <<options, store, cache, targets, applied, used, failures, prunes, crashes>>

\* The workflow reads the proposal again: this copy is the one it writes back.
Get(t) ==
  LET r == req[t] IN
  /\ r.pc = "get"
  /\ req' = [req EXCEPT ![t] =
       IF cache[r.id].state \notin From(r.op) THEN NoCall
       ELSE [r EXCEPT !.cur = cache[r.id],
                      !.pc = IF r.op \in {"apply", "rollback"} THEN "effect"
                             ELSE "write"]]
  /\ UNCHANGED <<options, store, cache, targets, applied, used, overlapped,
                 failures, prunes, crashes>>

\* approve and reject only change the state they read.
Decide(t) ==
  /\ req[t].pc = "write"
  /\ req' = [req EXCEPT ![t].cur.state = To(req[t].op),
                        ![t].pc = IF durable THEN "store" ELSE "cache"]
  /\ UNCHANGED <<options, store, cache, targets, applied, used, overlapped,
                 failures, prunes, crashes>>

\* apply(): the applier runs, and when it fails its rollback follows.
Apply(t) ==
  /\ req[t].pc = "effect" /\ req[t].op = "apply"
  /\ applied' = [applied EXCEPT ![req[t].id] = IF @ < AppliedCap THEN @ + 1 ELSE @]
  /\ \E o \in Applier_apply(req[t].cur.payload, targets, enabled) :
       /\ targets' = o.targets
       /\ req' = [req EXCEPT
            ![t].cur.state = IF o.ok THEN "APPLIED" ELSE "ROLLED_BACK",
            ![t].pc = IF ~o.ok THEN "undo" ELSE IF durable THEN "store" ELSE "cache"]
  /\ UNCHANGED <<options, store, cache, used, overlapped, failures, prunes, crashes>>

Undo(t) ==
  /\ req[t].pc = "undo"
  /\ \E b \in Applier_rollback(req[t].cur.payload, targets, enabled) :
       targets' = b.targets
  /\ req' = [req EXCEPT ![t].pc = IF durable THEN "store" ELSE "cache"]
  /\ UNCHANGED <<options, store, cache, applied, used, overlapped, failures, prunes,
                 crashes>>

\* rollback(): best effort, the proposal is marked whatever came of it.
Rollback(t) ==
  /\ req[t].pc = "effect" /\ req[t].op = "rollback"
  /\ \E b \in Applier_rollback(req[t].cur.payload, targets, enabled) :
       targets' = b.targets
  /\ req' = [req EXCEPT ![t].cur.state = "ROLLED_BACK",
                        ![t].pc = IF durable THEN "store" ELSE "cache"]
  /\ UNCHANGED <<options, store, cache, applied, used, overlapped, failures,
                 prunes, crashes>>

\* ApprovalQueue::insert and update: the store first, outside the lock.  An
\* update of a row that was pruned in the meantime changes nothing and fails.
StoreWrite(t) ==
  LET r == req[t] IN
  /\ r.pc = "store"
  /\ r.op = "propose" \/ Exists(store, r.id)
  /\ store' = [store EXCEPT ![r.id] = r.cur]
  /\ req' = [req EXCEPT ![t].pc = "cache"]
  /\ UNCHANGED <<options, cache, targets, applied, used, overlapped, failures,
                 prunes, crashes>>

StoreRefusesQuietly(t) ==
  /\ req[t].pc = "store"
  /\ Faults < MaxFailures /\ failures' = failures + 1
  /\ req' = [req EXCEPT ![t].pc = "cache"]
  /\ UNCHANGED <<options, store, cache, targets, applied, used, overlapped, prunes, crashes>>

StoreRefuses(t) ==
  /\ req[t].pc = "store"
  /\ \/ Faults < MaxFailures /\ failures' = failures + 1
     \/ req[t].op # "propose" /\ ~Exists(store, req[t].id) /\ UNCHANGED failures
  /\ req' = [req EXCEPT ![t] = NoCall]
  /\ UNCHANGED <<options, store, cache, targets, applied, used, overlapped, prunes, crashes>>

\* Then the cache, under the lock: an entry that is missing is put back.
CacheWrite(t) ==
  /\ req[t].pc = "cache"
  /\ cache' = [cache EXCEPT ![req[t].id] = req[t].cur]
  /\ req' = [req EXCEPT ![t] = NoCall]
  /\ UNCHANGED <<options, store, targets, applied, used, overlapped, failures,
                 prunes, crashes>>

-----------------------------------------------------------------------------
(* prune(): rows past their retention leave the store, the rows that stay    *)
(* are listed, and the cache becomes that list.  Which rows are old is left  *)
(* open.                                                                     *)

Drop(m, old) == [id \in Ids |-> IF id \in old THEN None ELSE m[id]]

prune(t) ==
  /\ req[t].pc = "idle"
  /\ Faults < MaxFailures /\ prunes' = prunes + 1
  /\ \E old \in SUBSET Ids :
       IF durable
       THEN /\ store' = Drop(store, old)
            /\ req' = [req EXCEPT ![t] = [NoCall EXCEPT !.pc = "list", !.op = "prune"]]
            /\ UNCHANGED cache
       ELSE cache' = Drop(cache, old) /\ UNCHANGED <<store, req>>
  /\ overlapped' = overlapped \cup {id \in Ids : Busy(id) \/ Pruning}
  /\ UNCHANGED <<options, targets, applied, used, failures, crashes>>

PruneList(t) ==
  /\ req[t].pc = "list"
  /\ req' = [req EXCEPT ![t].pc = "swap", ![t].list = store]
  /\ UNCHANGED <<options, store, cache, targets, applied, used, overlapped,
                 failures, prunes, crashes>>

PruneSwap(t) ==
  /\ req[t].pc = "swap"
  /\ cache' = req[t].list
  /\ req' = [req EXCEPT ![t] = NoCall]
  /\ UNCHANGED <<options, store, targets, applied, used, overlapped, failures,
                 prunes, crashes>>

\* A restart at any point: initialize() reads the cache back from the store;
\* what the appliers changed was in memory and starts over.
initialize ==
  /\ Faults < MaxFailures /\ crashes' = crashes + 1
  /\ cache' = IF durable THEN store ELSE [id \in Ids |-> None]
  /\ targets' \in Targets
  /\ req' = [t \in Admins |-> NoCall]
  /\ applied' = [id \in Ids |-> 0]
  /\ UNCHANGED <<options, store, used, overlapped, failures, prunes>>

-----------------------------------------------------------------------------
Serve(t) ==
  /\ t \in workload.threads
  /\ \/ propose(t) \/ Get(t) \/ Decide(t) \/ Apply(t) \/ Undo(t) \/ Rollback(t)
     \/ StoreWrite(t) \/ StoreRefuses(t) \/ CacheWrite(t)
     \/ prune(t) \/ PruneList(t) \/ PruneSwap(t)
     \/ \E id \in Ids, op \in {"approve", "reject", "apply", "rollback"} :
          Request(t, id, op)

ApprovalsNext == (\E t \in Admins : Serve(t)) \/ initialize

ApprovalsSpec == ApprovalsInit /\ [][ApprovalsNext]_avars

-----------------------------------------------------------------------------
(* Properties *)

\* Between calls the queue's cache shows what the store holds: a write the
\* store refused is not shown, one it took is not lost.
CacheMirrorsStore ==
  \A id \in Ids \ overlapped :
    durable /\ ~Busy(id) /\ ~Pruning => cache[id] = store[id]

\* A proposal takes effect once, and again only when the store refused to
\* record that it had.
AppliedOnce ==
  \A id \in Ids \ overlapped : applied[id] <= 1 + failures
=============================================================================

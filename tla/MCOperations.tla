---------------------------- MODULE MCOperations ----------------------------
(***************************************************************************)
(* What operators decide on: staged rollouts, autonomy proposals and their *)
(* appliers, the stores of workflow runs, and what the consoles are        *)
(* pushed.  The parts share no state here, so one of them is chosen in the *)
(* initial state and the others stand still: the graph is the disjoint     *)
(* union of theirs.                                                        *)
(***************************************************************************)
EXTENDS Rollout, Approvals, WorkflowStateStore, AdminStream, TLC

CONSTANTS a1, a2, p1, p2

VARIABLE part

(***************************************************************************)
(* Autonomy proposals, by source: two threads on one proposal, or one      *)
(* thread on two of them.                                                  *)
(***************************************************************************)
P(source, action, key, value, previous) ==
  [source |-> source, action |-> action, key |-> key, value |-> value,
   previous |-> previous]

CostWorkload == {P("CostOptimizer", "none", "acme", "economy", 0),
                 P("CostOptimizer", "none", "nobody", "economy", 0)}

BanditWorkload == {P("Bandit", "shadow_to_live", "none", 0, 0),
                   P("Bandit", "revert_to_shadow", "none", 0, 0),
                   P("Bandit", "tune", "none", 0, 0)}

RecoveryWorkload == {P("AutoRecovery", "override_quality_tier", "acme", "economy", 0),
                     P("AutoRecovery", "audit_only", "none", 0, 0)}

CapWorkload == {P("AutoRecovery", "apply_budget_cap", "none", 5, 9),
                P("AutoRecovery", "apply_budget_cap", "none", 5, -1),
                P("AutoRecovery", "apply_budget_cap", "none", -1, 9)}

GuardWorkload == {P("AdaptiveGuard", "promote_shadow_to_live", "v1", 0, 0),
                  P("AdaptiveGuard", "promote_shadow_to_live", "v2", 0, 0),
                  P("AdaptiveGuard", "register_shadow", "v1", 0, 0)}

RunWorkload == {P("Workflow", "resume", "r1", 0, 0)}

MCWorkloads ==
  {[payloads |-> w, ids |-> {p1}, threads |-> {a1, a2}] :
     w \in {BanditWorkload, CapWorkload, GuardWorkload}}
  \cup
  {[payloads |-> w, ids |-> {p1, p2}, threads |-> {a1}] :
     w \in {CostWorkload, RecoveryWorkload, RunWorkload}}

MCTargets ==
  {[tier |-> [acme |-> "none"], mode |-> "shadow", cap |-> 9, run |-> "waiting",
    models |-> m] : m \in {[v1 |-> "none", v2 |-> "shadow"],
                           [v1 |-> "shadow", v2 |-> "live"]}}

(***************************************************************************)
(* The consoles: a super admin and one of a tenant, and a log stream that  *)
(* wants the blocked requests only.                                        *)
(***************************************************************************)
MCConsoles == {"root", "ann"}
MCTenantOf == [c \in MCConsoles |-> "acme"]
MCLevel == [s \in {"s1"} |-> "block"]
MCEntries == {[tenant |-> "acme", action |-> "block"], [tenant |-> "globex", action |-> "pass"]}

(***************************************************************************)
(* The sum.                                                                *)
(***************************************************************************)
\* Two bounds on the rollouts: two of them and no review or activation by
\* others, or one of them, operated by one thread, and any number of those.
OneRollout ==
  /\ \E r \in Rollouts : \A q \in Rollouts \ {r} :
       rollout[q].status = "NONE" /\ \A p \in Procs : loc[p].id # q
  /\ \E p \in Operators : \A q \in Operators \ {p} : loc[q].pc = "idle"

allVars == <<part, vars, avars, svars, streamVars>>

OpsInit ==
  /\ part \in {"rollouts", "reviews", "approvals", "runs", "consoles"}
  /\ Init /\ (part \in {"rollouts", "reviews"} \/ \A v \in Versions : status[v] = "PENDING")
  /\ ApprovalsInit
  /\ part # "approvals" =>
       /\ workload.payloads = RunWorkload /\ durable /\ enabled
       /\ targets.models["v1"] = "none"
  /\ StateInit /\ StreamInit

Only(p) ==
  /\ part = p /\ UNCHANGED part
  /\ IF p \in {"rollouts", "reviews"} THEN TRUE ELSE UNCHANGED vars
  /\ IF p = "approvals" THEN TRUE ELSE UNCHANGED avars
  /\ IF p = "runs"      THEN TRUE ELSE UNCHANGED svars
  /\ IF p = "consoles"  THEN TRUE ELSE UNCHANGED streamVars

OpsNext ==
  \/ Only("rollouts") /\ Next /\ UNCHANGED admin
  \/ Only("reviews") /\ Next /\ OneRollout'
  \/ Only("approvals") /\ ApprovalsNext
  \/ Only("runs") /\ StateNext
  \/ Only("consoles") /\ StreamNext

OpsSpec == OpsInit /\ [][OpsNext]_allVars

\* Rollouts and the operators' threads are interchangeable.
Symm == Permutations(Rollouts) \cup Permutations(Operators)
=============================================================================

----------------------------- MODULE RuleEngine -----------------------------
(***************************************************************************)
(* The custom rules of the request path: RuleEngine keeps one global rule  *)
(* set (rules_) and one per tenant (tenant_rules_), which are loaded from  *)
(* the store or from YAML when the gateway starts, when its configuration  *)
(* is reloaded, and, for one tenant, when an administrator activates a     *)
(* version.  A load reads the store first and takes rules_mutex_ only to   *)
(* install what it parsed; an evaluation holds the mutex shared, its       *)
(* Modify loop included.                                                   *)
(*                                                                         *)
(* Abstractions: a rule set is its version, whose rule does KindOf when it *)
(* matches, as it does here; a text is the number of occurrences of the    *)
(* rule's keyword.  The scope "" is the global one.                        *)
(***************************************************************************)
EXTENDS Integers, FiniteSets

CONSTANTS
  RuleTenants,            \* tenant ids; "" is not one of them
  Loaders,            \* threads that activate and reload
  Requests,           \* threads that evaluate requests
  Versions,           \* versions of rule sets
  Kinds,              \* what the sets do: "block", "warn", "modify", "bad"
                      \* (unparsable) or "again": modify, with a replacement
                      \* that contains the keyword
  MaxActivations      \* bound: activations and reloads

ASSUME RuleAssumption == "" \notin RuleTenants /\ Loaders \cap Requests = {}

VARIABLES
  kind,               \* what each version does
  active,             \* the store: the active version of each scope, or 0
  yaml,               \* the rules file: a version, or 0 when it cannot be loaded
  rules, buckets,     \* rules_ and tenant_rules_
  task,                \* what each thread is doing
  loads,               \* activations and reloads that may still begin
  overlapped          \* history: two loads have been under way at once

ruleVars == <<kind, active, yaml, rules, buckets, task, loads, overlapped>>

Scopes == RuleTenants \cup {""}
NoTask == [at |-> "idle"]
NoneLoaded == [t \in {} |-> 0]
Unset(f, x) == [y \in DOMAIN f \ {x} |-> f[y]]
SetTo(f, x, v) == [y \in DOMAIN f \cup {x} |-> IF y = x THEN v ELSE f[y]]

\* parseRuleSetJson, parseYaml: a set that cannot be parsed is refused.
Parses(v) == v # 0 /\ kind[v] # "bad"

Turns(t, step) == task' = [task EXCEPT ![t] = step]
Loading == {t \in Loaders : task[t] # NoTask}
Begins(t) ==
  /\ task[t] = NoTask
  /\ loads > 0
  /\ loads' = loads - 1
  /\ overlapped' = (overlapped \/ Loading # {})

\* No evaluation holds rules_mutex_, so that a load can take it exclusively.
Unlocked == \A r \in Requests : task[r] = NoTask

\* The set of the tenants' buckets loadAllTenants builds from what it read.
Loaded(read) == [t \in {u \in DOMAIN read : Parses(read[u])} |-> read[t]]

\* The gateway has assembled its pipeline from the store and the rules file.
RuleInit ==
  /\ kind \in [Versions -> Kinds]
  /\ active \in [Scopes -> Versions \cup {0}]
  /\ yaml \in Versions \cup {0}
  /\ rules = IF Parses(active[""]) THEN active[""] ELSE IF Parses(yaml) THEN yaml ELSE 0
  /\ buckets = Loaded([t \in RuleTenants |-> active[t]])
  /\ task = [t \in Loaders \cup Requests |-> NoTask]
  /\ loads = MaxActivations
  /\ overlapped = FALSE

(***************************************************************************)
(* An administrator activates a version: the store first, then             *)
(* refreshTenantRules, which does nothing for the global scope.            *)
(***************************************************************************)
Activate(t, scope, v) ==
  /\ Begins(t)
  /\ active' = [active EXCEPT ![scope] = v]
  /\ Turns(t, IF scope = "" THEN NoTask ELSE [at |-> "refresh", scope |-> scope])
  /\ UNCHANGED <<kind, yaml, rules, buckets>>

\* reloadTenant reads the active set of the tenant.
RefreshRead(t) ==
  /\ task[t].at = "refresh"
  /\ Turns(t, [at |-> "put", scope |-> task[t].scope, version |-> active[task[t].scope]])
  /\ UNCHANGED <<kind, active, yaml, rules, buckets, loads, overlapped>>

\* A bug: a set that is loaded stays.
RefreshedOnce(b, scope, v) ==
  IF scope \notin DOMAIN b /\ Parses(v) THEN SetTo(b, scope, v) ELSE b

\* The buckets after reloadTenant.
Refreshed(b, scope, v) ==
  CASE v = 0     -> Unset(b, scope)
    [] Parses(v) -> SetTo(b, scope, v)
    [] OTHER     -> b

RefreshPut(t) ==
  /\ task[t].at = "put"
  /\ Unlocked
  /\ buckets' = Refreshed(buckets, task[t].scope, task[t].version)
  /\ Turns(t, NoTask)
  /\ UNCHANGED <<kind, active, yaml, rules, loads, overlapped>>

(***************************************************************************)
(* reloadSecurityRules: reloadFromStoreOrYaml, then loadAllTenants.        *)
(***************************************************************************)
Reload(t) ==
  /\ Begins(t)
  /\ Turns(t, [at |-> "global", version |-> active[""]])
  /\ UNCHANGED <<kind, active, yaml, rules, buckets>>

\* The set reloadFromStoreOrYaml leaves in rules_.
Global(v) == IF Parses(v) THEN v ELSE IF Parses(yaml) THEN yaml ELSE rules

ReloadGlobal(t) ==
  /\ task[t].at = "global"
  /\ Unlocked
  /\ rules' = Global(task[t].version)
  /\ Turns(t, [at |-> "tenants", read |-> NoneLoaded])
  /\ UNCHANGED <<kind, active, yaml, buckets, loads, overlapped>>

\* loadAllTenants reads the tenants one after the other.
ReloadRead(t) ==
  /\ task[t].at = "tenants"
  /\ \E u \in RuleTenants \ DOMAIN task[t].read :
       Turns(t, [task[t] EXCEPT !.read = SetTo(@, u, active[u])])
  /\ UNCHANGED <<kind, active, yaml, rules, buckets, loads, overlapped>>

ReloadPut(t) ==
  /\ task[t].at = "tenants"
  /\ DOMAIN task[t].read = RuleTenants
  /\ Unlocked
  /\ buckets' = Loaded(task[t].read)
  /\ Turns(t, NoTask)
  /\ UNCHANGED <<kind, active, yaml, rules, loads, overlapped>>

\* The rules file is edited.
EditYaml(v) ==
  /\ loads > 0 /\ loads' = loads - 1
  /\ yaml' = v
  /\ UNCHANGED <<kind, active, rules, buckets, task, overlapped>>

(***************************************************************************)
(* Evaluations.                                                            *)
(***************************************************************************)
\* The rule set of a tenant's requests.
InForce(tenant) == IF tenant \in DOMAIN buckets THEN buckets[tenant] ELSE rules

\* process, evaluateImpl and processImpl up to the Modify loop.
Evaluate(r, tenant) ==
  /\ task[r] = NoTask
  /\ LET v == InForce(tenant)
     IN  Turns(r, [at |-> CASE v = 0                        -> "continue"
                           [] kind[v] = "block"            -> "reject"
                           [] kind[v] \in {"modify", "again"} -> "modify"
                           [] OTHER                        -> "continue",
                  tenant |-> tenant, version |-> v, found |-> 2])
  /\ UNCHANGED <<kind, active, yaml, rules, buckets, loads, overlapped>>

\* One round of the Modify loop replaces one occurrence of the keyword.
ModifyOnce(r) ==
  /\ task[r].at = "modify"
  /\ Turns(r, IF task[r].found = 0 THEN [task[r] EXCEPT !.at = "continue"]
             ELSE [task[r] EXCEPT !.found = IF kind[task[r].version] = "again" THEN @ ELSE @ - 1])
  /\ UNCHANGED <<kind, active, yaml, rules, buckets, loads, overlapped>>

\* process returns and releases the mutex.
Return(r) ==
  /\ task[r].at \in {"continue", "reject"}
  /\ Turns(r, NoTask)
  /\ UNCHANGED <<kind, active, yaml, rules, buckets, loads, overlapped>>

RuleNext ==
  \/ \E t \in Loaders :
       \/ \E scope \in Scopes, v \in Versions : Activate(t, scope, v)
       \/ RefreshRead(t)
       \/ RefreshPut(t)
       \/ Reload(t)
       \/ ReloadGlobal(t)
       \/ ReloadRead(t)
       \/ ReloadPut(t)
  \/ \E v \in Versions \cup {0} : EditYaml(v)
  \/ \E r \in Requests :
       \/ \E tenant \in RuleTenants : Evaluate(r, tenant)
       \/ ModifyOnce(r)
       \/ Return(r)

RuleSpec == RuleInit /\ [][RuleNext]_ruleVars

(***************************************************************************)
(* Properties.                                                             *)
(***************************************************************************)
\* The set that should be in force for a tenant, given what the store holds.
Expected(tenant) ==
  /\ Parses(active[tenant]) => tenant \in DOMAIN buckets /\ buckets[tenant] = active[tenant]
  /\ active[tenant] = 0 => tenant \notin DOMAIN buckets

\* reloadTenant, loadAllTenants: as long as activations and reloads come one
\* after the other, once no load is under way every tenant's requests are
\* judged by the version that is active in the store.  (Two loads at once may
\* install what they read in the other order.)
SerialActivationInForce ==
  ~overlapped /\ Loading = {} => \A tenant \in RuleTenants : Expected(tenant)
=============================================================================

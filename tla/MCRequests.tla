----------------------------- MODULE MCRequests -----------------------------
(***************************************************************************)
(* What a request meets on its way: the request path with its limits,      *)
(* guardrails and safety providers, the custom rules, the routers, and the *)
(* upstream calls.  The parts share no state here, so one of them is       *)
(* chosen in the initial state and the others stand still: the graph is    *)
(* the disjoint union of theirs.                                           *)
(***************************************************************************)
EXTENDS RequestPath, RuleEngine, Routing, Upstream, TLC

CONSTANTS first, spare, unserved, k1, k2

VARIABLE part

(***************************************************************************)
(* Deployments of the request path, each with the load that shows what it  *)
(* is there for.                                                           *)
(***************************************************************************)
Stages == [injectionRules |-> TRUE, failOpen |-> FALSE, guardReady |-> TRUE, guardClosed |-> FALSE]
Plain  == [stages |-> Stages, safety |-> "off", mode |-> "Any", closed |-> FALSE,
           rbac |-> TRUE, ownLimit |-> FALSE,
           kinds |-> {"chat"}, texts |-> {{}}, answers |-> {{}}, chunks |-> {}, costs |-> {0},
           arrivals |-> 2]

\* The external providers, in every mode and with either policy.
SafetyDeployments ==
  {[Plain EXCEPT !.safety = "on", !.mode = m[1], !.closed = m[2], !.texts = {{}, {"flagged"}}] :
     m \in {<<"Any", FALSE>>, <<"All", TRUE>>, <<"Majority", FALSE>>}}
\* What is charged, and limited.
PayingDeployments ==
  {[Plain EXCEPT !.kinds = {"chat", "proxy"}, !.costs = {1}, !.arrivals = 3, !.rbac = FALSE],
   [Plain EXCEPT !.ownLimit = TRUE, !.costs = {0, 1}]}
\* What the guardrails see and change.
FilteringDeployments ==
  {[Plain EXCEPT !.kinds = {"chat", "stream"}, !.texts = {{"pii"}, {"injection"}},
                 !.answers = {{"secret", "pii"}}, !.chunks = {<<"p">>}],
   [Plain EXCEPT !.stages.injectionRules = FALSE, !.safety = "shadow"],
   [Plain EXCEPT !.stages.injectionRules = FALSE, !.stages.failOpen = TRUE, !.safety = "shadow",
                 !.texts = {{}, {"ruleBlock"}}],
   [Plain EXCEPT !.stages.guardReady = FALSE, !.stages.guardClosed = TRUE]}
AllDeployments == SafetyDeployments \cup PayingDeployments \cup FilteringDeployments

(***************************************************************************)
(* Routing.                                                                *)
(***************************************************************************)
\* Three models: a cheap one in the EU, a dear one in the US that fails over to
\* the cheap one, and a middle one without a region that no connector serves.
MCInfo == [small |-> [cost |-> 1, regions |-> {"eu"}, tags |-> {"fast"}],
           plain |-> [cost |-> 2, regions |-> {}, tags |-> {"fast"}],
           large |-> [cost |-> 3, regions |-> {"us"}, tags |-> {}]]
MCConnected == {"small", "large"}
MCWeights == [cost |-> 40, quality |-> 35, latency |-> 25]
MCStrategies == {[cost |-> 20, quality |-> 60, latency |-> 20]}
MCAlias == [europe |-> "eu"]
MCWhitelist == [acme |-> {}, zeta |-> {"small", "large"}]
MCFallbacks == [small |-> <<"large">>, plain |-> <<"small">>, large |-> <<"small">>]

Ctx == [tenant |-> "acme", model |-> "none", tag |-> "none", tier |-> "none",
        size |-> "short", header |-> "none", sdk |-> "none", ip |-> "none",
        residency |-> "none"]

MCContexts ==
  {Ctx,
   [Ctx EXCEPT !.model = "large", !.header = "europe", !.residency = "strict"],
   [Ctx EXCEPT !.model = "gone", !.tier = "premium", !.sdk = "us"],
   [Ctx EXCEPT !.tag = "fast", !.size = "long", !.ip = "asia"],
   [Ctx EXCEPT !.tenant = "zeta", !.tier = "economy", !.size = "medium"]}

Exp(tenant, variants) == [enabled |-> TRUE, tenant |-> tenant, variants |-> variants]

Dep(router, experiments, geo) ==
  [base |-> router, experiments |-> experiments, geo |-> geo, region |-> "us"]

MCStacks ==
  {Dep(base, << >>, "off") : base \in {"basic", "cost_aware", "ml", "multi_objective", "bandit"}}
  \cup {Dep("ml", << >>, "strict"), Dep("ml", << >>, "any"),
        Dep("basic", <<Exp("zeta", ("plain" :> 1 @@ "small" :> 1)),
                       Exp("none", ("large" :> 1 @@ "small" :> 0))>>, "off"),
        Dep("basic", <<Exp("none", ("large" :> 1))>>, "prefer")}

(***************************************************************************)
(* Upstream: first falls back to a model no connector serves and to spare. *)
(***************************************************************************)
MCKeys == <<k1, k2>>
MCWeight == [k \in KeySet |-> 1]
MCChain == [m \in Models |-> IF m = first THEN <<unserved, spare>> ELSE <<>>]

(***************************************************************************)
(* The sum.                                                                *)
(***************************************************************************)
requestVars == <<part, pathVars, ruleVars, rvars, vars>>

RequestsInit ==
  /\ part \in {"path", "rules", "routing", "upstream"}
  /\ PathInit /\ (part # "path" => options = CHOOSE d \in Deployments : TRUE)
  /\ RuleInit
  /\ part # "rules" => (\A v \in Versions : kind[v] = "block") /\ (\A s \in Scopes : active[s] = 0) /\ yaml = 0
  /\ RoutingInit /\ (part # "routing" => deploy = Dep("basic", << >>, "off"))
  /\ Init

Only(p) ==
  /\ part = p /\ UNCHANGED part
  /\ IF p = "path"     THEN TRUE ELSE UNCHANGED pathVars
  /\ IF p = "rules"    THEN TRUE ELSE UNCHANGED ruleVars
  /\ IF p = "routing"  THEN TRUE ELSE UNCHANGED rvars
  /\ IF p = "upstream" THEN TRUE ELSE UNCHANGED vars

RequestsNext ==
  \/ Only("path") /\ PathNext
  \/ Only("rules") /\ RuleNext
  \/ Only("routing") /\ RoutingNext
  \/ Only("upstream") /\ Next

RequestsSpec == RequestsInit /\ [][RequestsNext]_requestVars
=============================================================================

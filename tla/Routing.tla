------------------------------ MODULE Routing -------------------------------
(***************************************************************************)
(* Requests routed, served and reported back: the routers, the tenant's     *)
(* model list, the fallback chain (src/gateway/fallback.cpp) and the        *)
(* outcomes the learning routers average (src/server/gateway_runtime.cpp,   *)
(* src/gateway).                                                            *)
(***************************************************************************)
EXTENDS Integers, Sequences, FiniteSets, FiniteSetsExt

(***************************************************************************)
(* The routers of src/gateway: how a model is picked for a request.  Each   *)
(* router is an operator from a request to the set of picks it may make:    *)
(* models are kept in hash maps, so what is first among equals, and what a  *)
(* random or hashed choice yields, is left open.  A pick is a model and the *)
(* A/B variant the request is attributed to.                                *)
(***************************************************************************)

CONSTANTS Info,          \* model -> [cost, regions, tags]: ModelInfo
          Connected,     \* the models a connector supports
          DefaultModel,  \* default_model_, or "none"
          Weights,       \* the three weights of the learning routers, in percent
          Alias          \* region_aliases

Catalogue == DOMAIN Info
Known  == Catalogue \cup Connected

findByModel(m) == m \in Connected

Pinned(ctx) == ctx.model # "none" /\ findByModel(ctx.model)

-----------------------------------------------------------------------------
(* Order by cost: sorting leaves models of equal cost in any order. *)

Below(S, m)   == Cardinality({x \in S : Info[x].cost < Info[m].cost})
NotAbove(S, m) == Cardinality({x \in S : Info[x].cost <= Info[m].cost})

\* What may stand at index k (from 0) of S sorted by cost.
AtIndex(S, k) == {m \in S : Below(S, m) <= k /\ k < NotAbove(S, m)}

Cheapest(S) == AtIndex(S, 0)
Dearest(S)  == AtIndex(S, Cardinality(S) - 1)

\* The first n of S sorted by cost.
CheapestHalves(S, n) ==
  {H \in SUBSET S : /\ Cardinality(H) = n
                    /\ \A a \in H, b \in S \ H : Info[a].cost <= Info[b].cost}

findModelsByTag(tag) == {m \in Catalogue : tag \in Info[m].tags}

-----------------------------------------------------------------------------
(* BasicRouter and CostAwareRouter. *)

ByTag(ctx) == IF ctx.tag = "none" THEN {} ELSE Cheapest(findModelsByTag(ctx.tag))

BasicRouter_selectModel(ctx) ==
  IF Pinned(ctx) THEN {ctx.model}
  ELSE IF ByTag(ctx) # {} THEN ByTag(ctx) ELSE {DefaultModel}

\* Short prompts go to the cheapest, long ones to the dearest of at least
\* three, the rest to the middle.
selectByCharCount(ctx) ==
  LET n == Cardinality(Connected \cap Catalogue)
      S == Connected \cap Catalogue
  IN  CASE Catalogue = {} -> {"none"}
        [] n = 0 -> {DefaultModel}
        [] ctx.size = "short" -> Cheapest(S)
        [] ctx.size = "long" /\ n >= 3 -> Dearest(S)
        [] OTHER -> AtIndex(S, n \div 2)

CostAwareRouter_selectModel(ctx) ==
  LET S == Connected \cap Catalogue IN
  CASE Pinned(ctx) -> {ctx.model}
    [] ~Pinned(ctx) /\ ByTag(ctx) # {} -> ByTag(ctx)
    [] ~Pinned(ctx) /\ ByTag(ctx) = {} /\ ctx.tier = "economy" /\ S # {} -> Cheapest(S)
    [] ~Pinned(ctx) /\ ByTag(ctx) = {} /\ ctx.tier = "premium" /\ S # {} -> Dearest(S)
    [] OTHER -> selectByCharCount(ctx)

-----------------------------------------------------------------------------
(* MLRouter and MultiObjectiveRouter: the best weighted score.  Latency and  *)
(* success are what the averages stand at; a model without samples counts as *)
(* fully successful at 100 ms.                                               *)

Unseen == [n |-> 0, latency |-> 100, success |-> 100]

Share(x, S) == IF Max(S) > Min(S)
               THEN 100 - (100 * (x - Min(S))) \div (Max(S) - Min(S))
               ELSE 100

scoreModel(m, S, stats, w) ==
    w.cost * Share(Info[m].cost, {Info[x].cost : x \in S})
  + w.quality * stats[m].success
  + w.latency * Share(stats[m].latency, {stats[x].latency : x \in S})

BestScored(S, stats, w) ==
  {m \in S : \A x \in S : scoreModel(m, S, stats, w) >= scoreModel(x, S, stats, w)}

\* The tenant's override comes before the tier the request asks for.
Tier(ctx, override) ==
  IF override[ctx.tenant] # "none" THEN override[ctx.tenant] ELSE ctx.tier

Candidates(tier) ==
  LET mid == Cardinality(Catalogue) \div 2 IN
  CASE tier = "economy" -> CheapestHalves(Catalogue, mid)
    [] tier = "premium" -> {Catalogue \ H : H \in CheapestHalves(Catalogue, mid)}
    [] OTHER -> {Catalogue}

MLRouter_selectModel(ctx, stats, override) ==
  IF Pinned(ctx) THEN {ctx.model}
  ELSE UNION {IF S = {} THEN {DefaultModel} ELSE BestScored(S, stats, Weights) :
                S \in Candidates(Tier(ctx, override))}

\* The weights of the strategy in force, or the default ones.
resolveWeights(strategy) == IF strategy.active THEN strategy.weights ELSE Weights

MultiObjectiveRouter_selectModel(ctx, stats, strategy) ==
  CASE Pinned(ctx) -> {ctx.model}
    [] ~Pinned(ctx) /\ Catalogue = {} -> {DefaultModel}
    [] OTHER -> BestScored(Catalogue, stats, resolveWeights(strategy))

\* In shadow the base router decides; live, a sampled arm does.
BanditRouter_selectModel(ctx, mode, base) ==
  CASE mode = "shadow" -> base
    [] mode = "live" /\ Pinned(ctx) -> {ctx.model}
    [] mode = "live" /\ ~Pinned(ctx) /\ Catalogue = {} -> {DefaultModel}
    [] OTHER -> Catalogue

-----------------------------------------------------------------------------
(* ABTestRouter: the first experiment whose variant can be served. *)

Unattributed(S) == {[model |-> m, variant |-> "none"] : m \in S}

assignVariant(exp) == {v \in DOMAIN exp.variants : exp.variants[v] > 0}

Applies(exp, ctx) ==
  exp.enabled /\ exp.tenant \in {"none", ctx.tenant} /\ assignVariant(exp) # {}

ABTestRouter_selectModel(ctx, experiments, base) ==
  LET From[i \in 1 .. Len(experiments) + 1] ==
        CASE i = Len(experiments) + 1 -> Unattributed(base)
          [] i <= Len(experiments) /\ ~Applies(experiments[i], ctx) -> From[i + 1]
          [] OTHER ->
               UNION {IF findByModel(v) THEN {[model |-> v, variant |-> v]}
                      ELSE From[i + 1] : v \in assignVariant(experiments[i])}
  IN  IF Pinned(ctx) THEN Unattributed({ctx.model}) ELSE From[1]

-----------------------------------------------------------------------------
(* GeoRouter. *)

normalizeRegion(r) == IF r \in DOMAIN Alias THEN Alias[r] ELSE r

\* A header, the SDK's field, the address, the configured default, in this order.
inferClientRegion(ctx, fallback) ==
  normalizeRegion(CASE ctx.header # "none" -> ctx.header
                    [] ctx.header = "none" /\ ctx.sdk # "none" -> ctx.sdk
                    [] ctx.header = "none" /\ ctx.sdk = "none" /\ ctx.ip # "none" -> ctx.ip
                    [] OTHER -> fallback)

EffectiveStrict(ctx, affinity) == ctx.residency = "strict" \/ affinity = "strict"

filterModelsByRegion(ctx, affinity, region) ==
  {m \in Catalogue : IF Info[m].regions = {} THEN ~EffectiveStrict(ctx, affinity)
                  ELSE region \in Info[m].regions}

GeoRouterTrusting_selectModel(ctx, affinity, fallback, base) ==
  LET region == inferClientRegion(ctx, fallback)
      strict == EffectiveStrict(ctx, affinity)
      match  == filterModelsByRegion(ctx, affinity, region)
      repick(p) == IF strict /\ ~Pinned(ctx) /\ p.model # "none" /\ p.model \notin match
                   THEN {[p EXCEPT !.model = m] : m \in match} ELSE {p}
  IN  IF match = {} /\ strict THEN Unattributed({"none"})
      ELSE UNION {repick(p) : p \in base}

GeoRouter_selectModel(ctx, affinity, fallback, base) ==
  LET region == inferClientRegion(ctx, fallback)
      strict == EffectiveStrict(ctx, affinity)
      match  == filterModelsByRegion(ctx, affinity, region)
      repick(p) == IF strict /\ p.model # "none" /\ p.model \notin match
                   THEN {[p EXCEPT !.model = m] : m \in match} ELSE {p}
  IN  IF match = {} /\ strict THEN Unattributed({"none"})
      ELSE UNION {repick(p) : p \in base}

-----------------------------------------------------------------------------
CONSTANTS Clients, Subscribers,
          Stacks,   \* how the routers are wrapped, see Router
          Contexts,      \* the requests that may arrive
          Whitelist,     \* tenant -> model_whitelist, empty: every model
          Fallbacks,         \* model -> its fallback chain
          Strategies,    \* strategies the catalogue may put in force
          Latencies,     \* the latencies observed, in ms
          MaxRequests, MaxControls

VARIABLES deploy,     \* the deployment of this behaviour
          stats,      \* stats_: model -> its averages
          override,   \* quality_tier_overrides_
          mode,       \* the bandit's mode
          strategy,   \* active_strategy_
          req,        \* thread -> its request
          ended,      \* requests that went upstream and were reported
          arrived, controls

rvars == <<deploy, stats, override, mode, strategy, req, ended,
           arrived, controls>>

NoRequest == [pc |-> "idle", ctx |-> << >>, target |-> "none", variant |-> "none",
              left |-> << >>, served |-> "none", ok |-> FALSE]

RoutingInit ==
  /\ deploy \in Stacks
  /\ stats = [m \in Known |-> Unseen]
  /\ override = [t \in Subscribers |-> "none"]
  /\ mode = "shadow"
  /\ strategy = [active |-> FALSE]
  /\ req = [t \in Clients |-> NoRequest]
  /\ ended = 0
  /\ arrived = 0
  /\ controls = 0

-----------------------------------------------------------------------------
(* The routers as they are assembled: geo around A/B around the base. *)

Base(ctx) ==
  CASE deploy.base = "basic" -> BasicRouter_selectModel(ctx)
    [] deploy.base = "cost_aware" -> CostAwareRouter_selectModel(ctx)
    [] deploy.base = "ml" -> MLRouter_selectModel(ctx, stats, override)
    [] deploy.base = "multi_objective" ->
         MultiObjectiveRouter_selectModel(ctx, stats, strategy)
    [] OTHER ->
         BanditRouter_selectModel(ctx, mode, MLRouter_selectModel(ctx, stats, override))

Router(ctx) ==
  LET tested == ABTestRouter_selectModel(ctx, deploy.experiments, Base(ctx)) IN
  IF deploy.geo = "off" THEN tested
  ELSE GeoRouter_selectModel(ctx, deploy.geo, deploy.region, tested)

processRequest(t) ==
  /\ req[t].pc = "idle"
  /\ arrived < MaxRequests /\ arrived' = arrived + 1
  /\ \E ctx \in Contexts :
       req' = [req EXCEPT ![t] = [NoRequest EXCEPT !.pc = "route", !.ctx = ctx]]
  /\ UNCHANGED <<deploy, stats, override, mode, strategy, ended, controls>>

Route(t) ==
  /\ req[t].pc = "route"
  /\ \E p \in Router(req[t].ctx) :
       req' = [req EXCEPT ![t] =
         IF p.model = "none" THEN NoRequest
         ELSE [@ EXCEPT !.target = p.model, !.variant = p.variant, !.pc = "check"]]
  /\ UNCHANGED <<deploy, stats, override, mode, strategy, ended,
                 arrived, controls>>

isModelAllowed(tenant, m) == Whitelist[tenant] = {} \/ m \in Whitelist[tenant]

\* A model the tenant may not use ends the request; else it goes upstream.
CheckModel(t) ==
  LET r == req[t] IN
  /\ r.pc = "check"
  /\ req' = [req EXCEPT ![t] =
       IF isModelAllowed(r.ctx.tenant, r.target)
       THEN [r EXCEPT !.pc = "try", !.left = <<r.target>> \o Fallbacks[r.target]]
       ELSE NoRequest]
  /\ UNCHANGED <<deploy, stats, override, mode, strategy, ended,
                 arrived, controls>>

-----------------------------------------------------------------------------
(* executeWithFallback and streamWithFallback: the target, then its chain. *)

\* The circuit is open, or no connector supports the model.
Skip(t) ==
  /\ req[t].pc = "try" /\ req[t].left # << >>
  /\ req' = [req EXCEPT ![t].left = Tail(@)]
  /\ UNCHANGED <<deploy, stats, override, mode, strategy, ended,
                 arrived, controls>>

Called(t) == req[t].pc = "try" /\ req[t].left # << >> /\ findByModel(Head(req[t].left))

Fails(t) ==
  /\ Called(t)
  /\ req' = [req EXCEPT ![t].left = Tail(@)]
  /\ UNCHANGED <<deploy, stats, override, mode, strategy, ended, arrived, controls>>

Answers(t) ==
  /\ Called(t)
  /\ req' = [req EXCEPT ![t].served = Head(req[t].left), ![t].ok = TRUE,
                        ![t].pc = "report"]
  /\ UNCHANGED <<deploy, stats, override, mode, strategy, ended, arrived, controls>>

AllFailed(t) ==
  /\ req[t].pc = "try" /\ req[t].left = << >>
  /\ req' = [req EXCEPT ![t].pc = "report"]
  /\ UNCHANGED <<deploy, stats, override, mode, strategy, ended,
                 arrived, controls>>

\* A moving average: it stays where it is or moves towards what was observed.
Between(old, new) ==
  IF old < new THEN {old, (old + new) \div 2} ELSE {old, (old + new + 1) \div 2}

Averages(s, latency, ok) ==
  LET hit == IF ok THEN 100 ELSE 0 IN
  IF s.n = 0 THEN {[n |-> 1, latency |-> latency, success |-> hit]}
  ELSE {[n |-> s.n + 1, latency |-> l, success |-> h] :
          l \in Between(s.latency, latency), h \in Between(s.success, hit)}

\* The outcome is reported for the model that was picked.
reportOutcome(t) ==
  LET r == req[t] IN
  /\ r.pc = "report"
  /\ ended' = ended + 1
  /\ \E latency \in Latencies : \E s \in Averages(stats[r.target], latency, r.ok) :
       stats' = [stats EXCEPT ![r.target] = s]
  /\ req' = [req EXCEPT ![t] = NoRequest]
  /\ UNCHANGED <<deploy, override, mode, strategy, arrived, controls>>

-----------------------------------------------------------------------------
(* What autonomy and operators change while requests are in flight. *)

overrideQualityTier(tenant, tier) ==
  /\ override' = [override EXCEPT ![tenant] = tier]
  /\ UNCHANGED <<mode, strategy>>

clearQualityTierOverride(tenant) ==
  /\ override[tenant] # "none"
  /\ override' = [override EXCEPT ![tenant] = "none"]
  /\ UNCHANGED <<mode, strategy>>

setActiveStrategy(s) ==
  /\ strategy' = [active |-> TRUE, weights |-> s]
  /\ UNCHANGED <<override, mode>>

clearActiveStrategy ==
  /\ strategy' = [active |-> FALSE]
  /\ UNCHANGED <<override, mode>>

transitionToLive == mode' = "live" /\ UNCHANGED <<override, strategy>>

revertToShadow == mode' = "shadow" /\ UNCHANGED <<override, strategy>>

Control ==
  /\ controls < MaxControls /\ controls' = controls + 1
  /\ \/ /\ deploy.base \in {"ml", "bandit"}
        /\ \E tenant \in Subscribers :
             \/ \E tier \in {"economy", "premium"} : overrideQualityTier(tenant, tier)
             \/ clearQualityTierOverride(tenant)
     \/ /\ deploy.base = "multi_objective"
        /\ (\E s \in Strategies : setActiveStrategy(s)) \/ clearActiveStrategy
     \/ deploy.base = "bandit" /\ (transitionToLive \/ revertToShadow)
  /\ UNCHANGED <<deploy, stats, req, ended, arrived>>

RoutingNext ==
  \/ Control
  \/ \E t \in Clients :
       \/ processRequest(t) \/ Route(t) \/ CheckModel(t) \/ Skip(t) \/ Fails(t)
       \/ Answers(t) \/ AllFailed(t) \/ reportOutcome(t)

RoutingSpec == RoutingInit /\ [][RoutingNext]_rvars

-----------------------------------------------------------------------------
(* Properties *)

Routed(t) == req[t].pc \in {"check", "try", "report"}

ClientRegion(t) == inferClientRegion(req[t].ctx, deploy.region)

Strict(t) == deploy.geo # "off" /\ EffectiveStrict(req[t].ctx, deploy.geo)

\* Whatever router is inside, pinned model or experiment included, a request
\* under a strict policy is sent first to a model of the client's region.
StrictPick ==
  \A t \in Clients :
    Routed(t) /\ Strict(t) => ClientRegion(t) \in Info[req[t].target].regions
=============================================================================

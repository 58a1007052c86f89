---------------------------- MODULE RequestPath -----------------------------
(***************************************************************************)
(* The data plane: chat requests, streamed or not, and proxied requests,   *)
(* from GatewayRuntime's entry points to the reply.  A request runs on its *)
(* own thread; it shares with the others the abuse windows, the rate       *)
(* limiter, the external-safety stage's results, the chunk filter's tail,  *)
(* the cost store and the cache.  Each step of a request up to the next    *)
(* use of shared state is one action.                                      *)
(*                                                                         *)
(* Abstractions: texts are traits, as below, a tenant has one key, the     *)
(* clock stands still, so that buckets do not refill and a block lasts,    *)
(* and the cache is looked up by the exact request (SemanticCache has the  *)
(* rest); requests with tools, which bypass the cache, are left out.       *)
(* Calls upstream end as Upstream says.                                    *)
(***************************************************************************)
EXTENDS Limits

\* The tenants' cost limits.
CONSTANTS
  Threads,       \* what runs requests
  Tenants,
  Limit,         \* the tenants' daily cost limit
  MaxCost        \* the highest cost of a request

ASSUME CostAssumption ==
  /\ IsFiniteSet(Threads)
  /\ "none" \notin Tenants
  /\ Limit \in Nat \ {0}
  /\ MaxCost \in Nat

(***************************************************************************)
(* The stages of the inbound and outbound pipelines, as operators on what  *)
(* they tell apart in a request or a response: its traits.  A stage        *)
(* continues, rejects, or rewrites the text by removing a trait; the       *)
(* pipeline stops at the first stage that does not continue.  The stage    *)
(* that asks external providers keeps state and is part of RequestPath.    *)
(*                                                                         *)
(* Chunks of a stream are short sequences of the symbols "p" (plain text), *)
(* "s" and "e" (the start and the end of what the filter looks for), and   *)
(* "*" (what it puts in its place).                                        *)
(***************************************************************************)

(***************************************************************************)
(* Inbound stages: whether a stage rejects a text with these traits.       *)
(***************************************************************************)
\* InputPreprocessor: an instruction hidden in an encoding.
scanDecodedSegments(traits) == "encoded" \in traits
InputPreprocessorRejects(o, traits) == scanDecodedSegments(traits)

\* InjectionDetector: the keywords, the patterns, then the heuristic, on the
\* text and on the image references; without patterns, as configured.
detect(traits) == traits \cap {"injection", "imageInjection"} # {}
InjectionDetectorRejects(o, traits) ==
  IF o.injectionRules THEN detect(traits) ELSE ~o.failOpen

\* GuardClassifier: the model's score (an inference that fails counts as safe,
\* and text in a script it was not trained on is skipped), or what is configured
\* without a model.
classify(o, traits) == /\ o.guardReady
                       /\ "unsafe" \in traits /\ traits \cap {"inferenceFails", "cjk"} = {}
GuardClassifierRejects(o, traits) == classify(o, traits) \/ (~o.guardReady /\ o.guardClosed)

\* PIIFilter, inbound: PII in an image reference cannot be masked.
PIIFilterRejects(o, traits) == "imagePii" \in traits

\* TopicGuard.
check(traits) == "offTopic" \in traits
TopicGuardRejects(o, traits) == check(traits)

\* RuleEngine, with a blocking rule that matches.
RuleEngineRejects(o, traits) == "ruleBlock" \in traits

\* Pipeline::execute over the stages before and after the external providers.
FirstStagesReject(o, traits) ==
  \/ InputPreprocessorRejects(o, traits)
  \/ InjectionDetectorRejects(o, traits)
  \/ GuardClassifierRejects(o, traits)

LastStagesReject(o, traits) ==
  \/ PIIFilterRejects(o, traits)
  \/ TopicGuardRejects(o, traits)
  \/ RuleEngineRejects(o, traits)

\* PIIFilter, inbound: what is masked in the messages that go upstream.
MaskRequest(traits) == traits \ {"pii"}

(***************************************************************************)
(* Outbound stages.                                                        *)
(***************************************************************************)

\* ContentFilter::process.
filter(traits, streamed) == traits \ {"secret"}

\* PIIFilter::process, outbound.
mask(traits) == traits \ {"pii"}

\* The response after the outbound pipeline.
Outbound(traits, streamed) == mask(filter(traits, streamed))

(***************************************************************************)
(* The filter of a stream's chunks.                                        *)
(***************************************************************************)
Secret == <<"s", "e">>

\* ContentFilter::filter on a text, which is too short to hold Secret twice.
Filtered(text) ==
  LET found == {i \in 1 .. Len(text) - 1 : SubSeq(text, i, i + 1) = Secret}
  IN  IF found = {} THEN text
      ELSE LET i == CHOOSE i \in found : TRUE
           IN  SubSeq(text, 1, i - 1) \o <<"*">> \o SubSeq(text, i + 2, Len(text))

\* ContentFilter::processChunk: what it puts out for a chunk, given the tail.
processChunk(tail, chunk) ==
  LET masked == Filtered(tail \o chunk)
  IN  IF masked = tail \o chunk THEN chunk
      ELSE IF Len(masked) >= Len(tail) THEN SubSeq(masked, Len(tail) + 1, Len(masked))
      ELSE masked

\* The tail kept for the next chunk; chunks are shorter than kChunkOverlap.
NextTail(chunk) == chunk

\* Pipeline::executeChunk, GatewayRuntime's onDelta: an empty output leaves the chunk as it was.
executeChunk(tail, chunk) ==
  LET out == processChunk(tail, chunk) IN IF out = <<>> THEN chunk ELSE out

-----------------------------------------------------------------------------
CONSTANTS
  Providers,         \* number of external safety providers
  ShadowCap,         \* shadow_max_inflight
  Deployments        \* the options a behaviour may have

ASSUME DeploymentsAssumption == \A d \in Deployments : d.costs \subseteq 0 .. MaxCost

VARIABLES
  options,           \* the deployment: stages, safety, mode, closed, rbac, ownLimit,
                     \* and its load: the kinds and texts of requests, the
                     \* answers, their chunks and their costs; how many
                     \* requests arrive bounds the model
  job,               \* the request each thread runs
  gauge,             \* active_connections
  windows,           \* AbuseDetector
  shard,             \* the buckets of rate_limiter_
  results,           \* last_results_ of the external-safety stage
  inflight,          \* shadow_inflight_
  tail,              \* prev_tail_ of the chunk filter
  spent,             \* CostTracker: cost recorded in memory, per tenant
  stored, unchecked, \* the cost store, and what proxied calls put there
  cached,            \* the cache: [key, answer]
  left               \* requests that may still arrive

pathVars == <<options, job, gauge, windows, shard, results, inflight, tail, spent,
              stored, unchecked, cached, left>>

Now  == 1
NoJob == [at |-> "idle"]

PathInit ==
  /\ options \in Deployments
  /\ job = [t \in Threads |-> NoJob]
  /\ gauge = 0
  /\ windows = NoKeys /\ shard = NoBuckets
  /\ results = <<>> /\ inflight = 0 /\ tail = <<>>
  /\ spent = [w \in Tenants |-> 0]
  /\ stored = [w \in Tenants |-> 0] /\ unchecked = [w \in Tenants |-> 0]
  /\ cached = {}
  /\ left = options.arrivals

Goes(t, at) == job' = [job EXCEPT ![t].at = at]
\* The reply is sent, and the gauge goes down.
Ends(t) == job' = [job EXCEPT ![t] = NoJob] /\ gauge' = gauge - 1
Stays   == UNCHANGED gauge

limitVars  == <<windows, shard>>
safetyVars == <<results, inflight>>
costVars   == <<spent, stored, unchecked>>

\* The RequestContext a request begins with.  charge: abuse_cost_multiplier;
\* verdicts: the results it was given by the safety providers; sent: the last
\* chunk its client was sent.
Context(kind, w, text) ==
  [at |-> "admit", kind |-> kind, tenant |-> w, text |-> text, charge |-> 1, cost |-> 0,
   answer |-> {}, verdicts |-> <<>>, sent |-> <<>>]

\* A request is accepted, and the runtime begins to process it.
Accept(t, kind, w, text) ==
  /\ job[t] = NoJob
  /\ left > 0 /\ left' = left - 1
  /\ gauge' = gauge + 1
  /\ job' = [job EXCEPT ![t] = Context(kind, w, text)]
  /\ UNCHANGED <<options, limitVars, safetyVars, tail, costVars, cached>>

\* chatCompletions: on to processRequest or processStreamingRequest.
Arrive(t, kind, w, text) == kind \in {"chat", "stream"} /\ Accept(t, kind, w, text)

\* handleProxyEndpoint: on to processProxyRequest.
ArriveProxy(t, w, text) == "proxy" \in options.kinds /\ Accept(t, "proxy", w, text)

\* A throttled client pays double: throttleFactor is 1/2.
abuseCostMultiplier(action) == IF action = "Throttle" THEN 2 ELSE 1

\* Authentication, and AbuseDetector::observe.
Admit(t, known) ==
  /\ job[t].at = "admit"
  /\ IF ~known /\ options.rbac
     THEN Ends(t) /\ UNCHANGED windows
     ELSE \E w \in observe(windows, job[t].tenant, job[t].text, Now) :
            /\ windows' = w
            /\ LET action == getAction(w, job[t].tenant, Now)
               IN  IF action = "Block" THEN Ends(t)
                   ELSE /\ job' = [job EXCEPT
                             ![t].charge = abuseCostMultiplier(action),
                             ![t].at = IF job[t].kind = "proxy" THEN "limit" ELSE "first"]
                        /\ Stays
  /\ UNCHANGED <<options, shard, safetyVars, tail, costVars, cached, left>>

\* A rejection that leaves the gauge as it is.
RejectedUncounted(t) ==
  /\ \E w \in recordRejection(windows, job[t].tenant, Now) : windows' = w
  /\ job' = [job EXCEPT ![t] = NoJob] /\ UNCHANGED gauge

\* The inbound pipeline rejected the request.
Rejected(t) ==
  /\ \E w \in recordRejection(windows, job[t].tenant, Now) : windows' = w
  /\ Ends(t)

\* The inbound stages before the external providers.
FirstStages(t) ==
  /\ job[t].at = "first"
  /\ IF FirstStagesReject(options.stages, job[t].text) THEN Rejected(t)
     ELSE /\ Goes(t, IF options.safety = "off" THEN "last" ELSE "safety")
          /\ Stays /\ UNCHANGED windows
  /\ UNCHANGED <<options, shard, safetyVars, tail, costVars, cached, left>>

(***************************************************************************)
(* ExternalSafetyStage.                                                    *)
(***************************************************************************)
\* Clears last_results_; whoever else is in the stage shares it with t.
SafetyBegin(t) ==
  /\ job[t].at = "safety" /\ options.safety = "on"
  /\ results' = <<>>
  /\ Goes(t, "check")
  /\ UNCHANGED <<options, gauge, limitVars, inflight, tail, costVars, cached, left>>

Verdicts(text) == (IF "flagged" \in text THEN {"flagged"} ELSE {"ok"}) \cup {"error"}

\* A provider answers, and its result is appended to last_results_.
SafetyCheck(t) ==
  /\ job[t].at = "check"
  /\ \E v \in Verdicts(job[t].text) :
       /\ results' = Append(results, v)
       /\ LET vs == Append(job[t].verdicts, v)
          IN  job' = [job EXCEPT ![t].verdicts = vs,
                                 ![t].at = IF Len(vs) = Providers THEN "decide" ELSE "check"]
  /\ UNCHANGED <<options, gauge, limitVars, inflight, tail, costVars, cached, left>>

CountOf(rs, v) == Len(SelectSeq(rs, LAMBDA x : x = v))

shouldBlock(rs, mode, closed) ==
  LET flagged == CountOf(rs, "flagged")
      errors  == CountOf(rs, "error")
      success == Len(rs) - errors
  IN  IF errors > 0 /\ (success = 0 \/ closed) THEN closed
      ELSE CASE mode = "Any"      -> flagged > 0
             [] mode = "All"      -> success > 0 /\ flagged = success
             [] mode = "Majority" -> success > 0 /\ flagged > success \div 2

SafetyDecide(t) ==
  /\ job[t].at = "decide"
  /\ IF shouldBlock(results, options.mode, options.closed) THEN Rejected(t)
     ELSE Goes(t, "last") /\ Stays /\ UNCHANGED windows
  /\ UNCHANGED <<options, shard, safetyVars, tail, costVars, cached, left>>

\* In shadow mode the providers are asked on another thread, if the cap allows.
SafetyShadow(t) ==
  /\ job[t].at = "safety" /\ options.safety = "shadow"
  /\ inflight' = IF inflight < ShadowCap THEN inflight + 1 ELSE inflight
  /\ Goes(t, "last")
  /\ UNCHANGED <<options, gauge, limitVars, results, tail, costVars, cached, left>>

ShadowEnds ==
  /\ inflight > 0
  /\ inflight' = inflight - 1
  /\ UNCHANGED <<options, job, gauge, limitVars, results, tail, costVars, cached, left>>

(***************************************************************************)
(* From the rest of the inbound pipeline to the call.                      *)
(***************************************************************************)
Key(t) == <<job[t].tenant, MaskRequest(job[t].text)>>
Hits(t) == {e \in cached : e.key = Key(t)}

\* The stages after the providers, the semantic cache last: a hit is the reply.
LastStages(t) ==
  /\ job[t].at = "last"
  /\ IF LastStagesReject(options.stages, job[t].text) THEN Rejected(t)
     ELSE /\ UNCHANGED windows
          /\ IF Hits(t) # {} THEN Ends(t) ELSE Goes(t, "limit") /\ Stays
  /\ UNCHANGED <<options, shard, safetyVars, tail, costVars, cached, left>>

\* The rate limit of the tenant: its own, with a limiter made for this request,
\* or else the process's.  A proxied request has a bucket under its key.
RateLimit(t) ==
  /\ job[t].at = "limit"
  /\ LET proxied == job[t].kind = "proxy"
         own     == options.ownLimit /\ ~proxied
         r       == allow(IF own THEN NoBuckets ELSE shard,
                          <<job[t].tenant, IF proxied THEN "key" ELSE "">>, job[t].charge, Now)
     IN  /\ shard' = IF own THEN shard ELSE r.shard
         /\ IF r.ok THEN Goes(t, IF proxied THEN "route" ELSE "budget") /\ Stays ELSE Ends(t)
  /\ UNCHANGED <<options, windows, safetyVars, tail, costVars, cached, left>>

\* The limit itself may still be spent.
WithinLimitOrAt(w) == stored[w] <= Limit

\* checkTenantCostLimits reads the store.
WithinLimit(w) == stored[w] < Limit

\* checkTenantCostLimits, then selectModel, isModelAllowed and the timeout,
\* any of which may end the request.
BudgetAndRoute(t, routed) ==
  /\ job[t].at = "budget"
  /\ IF WithinLimit(job[t].tenant) /\ routed THEN Goes(t, "call") /\ Stays ELSE Ends(t)
  /\ UNCHANGED <<options, limitVars, safetyVars, tail, costVars, cached, left>>

\* A proxied request: enforceModalityQuota (ClusterState) and the choice of a
\* handler or connector may end it; no cost limit is checked.
ProxyRoute(t, routed) ==
  /\ job[t].at = "route"
  /\ IF routed THEN Goes(t, "call") /\ Stays ELSE Ends(t)
  /\ UNCHANGED <<options, limitVars, safetyVars, tail, costVars, cached, left>>

(***************************************************************************)
(* The call upstream and its reply.                                        *)
(***************************************************************************)
\* executeWithFallback returns.
CallDone(t, answer, cost) ==
  /\ job[t].at = "call" /\ job[t].kind = "chat"
  /\ job' = [job EXCEPT ![t].answer = answer, ![t].cost = cost, ![t].at = "outbound"]
  /\ UNCHANGED <<options, gauge, limitVars, safetyVars, tail, costVars, cached, left>>

\* onDone: the stream is complete, and what it accumulated goes through the
\* outbound stages once more.
StreamDone(t, answer, cost) ==
  /\ job[t].at = "call" /\ job[t].kind = "stream"
  /\ job' = [job EXCEPT ![t].answer = answer, ![t].cost = cost, ![t].at = "outbound"]
  /\ UNCHANGED <<options, gauge, limitVars, safetyVars, tail, costVars, cached, left>>

\* The call fails and the client gets the error.
CallFails(t) ==
  /\ job[t].at = "call"
  /\ Ends(t)
  /\ UNCHANGED <<options, limitVars, safetyVars, tail, costVars, cached, left>>

\* onDelta: a chunk goes through the outbound stages' processChunk.
Delta(t, chunk) ==
  /\ job[t].at = "call" /\ job[t].kind = "stream"
  /\ tail' = NextTail(chunk)
  /\ job' = [job EXCEPT ![t].sent = executeChunk(tail, chunk)]
  /\ UNCHANGED <<options, gauge, limitVars, safetyVars, costVars, cached, left>>

\* The outbound pipeline: the filters, then CostTracker's record in memory.
OutboundStages(t) ==
  /\ job[t].at = "outbound"
  /\ job' = [job EXCEPT ![t].answer = Outbound(@, job[t].kind = "stream"), ![t].at = "persist"]
  /\ spent' = [spent EXCEPT ![job[t].tenant] = @ + job[t].cost]
  /\ UNCHANGED <<options, gauge, limitVars, safetyVars, tail, stored, unchecked, cached, left>>

PersistTwice(t, ok) ==
  /\ job[t].at = "persist"
  /\ stored' = IF ok THEN [stored EXCEPT ![job[t].tenant] = @ + 2 * job[t].cost] ELSE stored
  /\ Goes(t, "finalize")
  /\ UNCHANGED <<options, gauge, limitVars, safetyVars, tail, spent, unchecked, cached, left>>

\* CostTracker::record stores the cost after it has released its mutex; a
\* failed insert is only logged.
Persist(t, ok) ==
  /\ job[t].at = "persist"
  /\ stored' = IF ok THEN [stored EXCEPT ![job[t].tenant] = @ + job[t].cost] ELSE stored
  /\ Goes(t, "finalize")
  /\ UNCHANGED <<options, gauge, limitVars, safetyVars, tail, spent, unchecked, cached, left>>

\* finalizeNonStreamingResponse: the answer is cached and sent.
Finalize(t) ==
  /\ job[t].at = "finalize" /\ job[t].kind = "chat"
  /\ cached' = cached \cup {[key |-> Key(t), answer |-> job[t].answer]}
  /\ Ends(t)
  /\ UNCHANGED <<options, limitVars, safetyVars, tail, costVars, left>>

\* The end of onDone: what was accumulated is cached, the chunks were sent before.
FinalizeStream(t) ==
  /\ job[t].at = "finalize" /\ job[t].kind = "stream"
  /\ cached' = cached \cup {[key |-> Key(t), answer |-> job[t].answer]}
  /\ Ends(t)
  /\ UNCHANGED <<options, limitVars, safetyVars, tail, costVars, left>>

\* A proxied call is answered: the gauge goes down before the cost is recorded.
ProxyDone(t, cost) ==
  /\ job[t].at = "call" /\ job[t].kind = "proxy"
  /\ gauge' = gauge - 1
  /\ job' = [job EXCEPT ![t].cost = cost, ![t].at = "charge"]
  /\ spent' = [spent EXCEPT ![job[t].tenant] = @ + cost]
  /\ UNCHANGED <<options, limitVars, safetyVars, tail, stored, unchecked, cached, left>>

ProxyPersist(t, ok) ==
  /\ job[t].at = "charge"
  /\ LET c == IF ok THEN job[t].cost ELSE 0
     IN  /\ stored' = [stored EXCEPT ![job[t].tenant] = @ + c]
         /\ unchecked' = [unchecked EXCEPT ![job[t].tenant] = @ + c]
  /\ job' = [job EXCEPT ![t] = NoJob]
  /\ UNCHANGED <<options, gauge, limitVars, safetyVars, tail, spent, cached, left>>

\* reloadConfig puts a new rate limiter in the place of the old one.
ReloadConfig ==
  /\ shard # NoBuckets
  /\ shard' = NoBuckets
  /\ UNCHANGED <<options, job, gauge, windows, safetyVars, tail, costVars, cached, left>>

PathNext ==
  \/ \E t \in Threads :
       \/ \E w \in Tenants, text \in options.texts :
            (\E kind \in options.kinds : Arrive(t, kind, w, text)) \/ ArriveProxy(t, w, text)
       \/ \E known \in BOOLEAN : Admit(t, known)
       \/ FirstStages(t)
       \/ SafetyBegin(t)
       \/ SafetyCheck(t)
       \/ SafetyDecide(t)
       \/ SafetyShadow(t)
       \/ LastStages(t)
       \/ RateLimit(t)
       \/ \E routed \in BOOLEAN : BudgetAndRoute(t, routed) \/ ProxyRoute(t, routed)
       \/ \E answer \in options.answers, cost \in options.costs :
            CallDone(t, answer, cost) \/ StreamDone(t, answer, cost)
       \/ CallFails(t)
       \/ \E chunk \in options.chunks : Delta(t, chunk)
       \/ OutboundStages(t)
       \/ \E ok \in BOOLEAN : Persist(t, ok)
       \/ Finalize(t) \/ FinalizeStream(t)
       \/ \E cost \in options.costs : ProxyDone(t, cost)
       \/ \E ok \in BOOLEAN : ProxyPersist(t, ok)
  \/ ShadowEnds
  \/ ReloadConfig

PathSpec == PathInit /\ [][PathNext]_pathVars

(***************************************************************************)
(* Properties.                                                             *)
(***************************************************************************)
\* processRequest, processStreamingRequest, processProxyRequest: whatever path
\* a request takes, active_connections counts the requests without a reply.
GaugeBalanced ==
  gauge = Cardinality({t \in Threads : job[t].at \notin {"idle", "charge"}})

\* checkTenantCostLimits reads what is stored, CostTracker stores a cost after
\* the reply was computed: in between, other requests pass the same check.
LetThroughFor(t) == IF job[t].at \in {"call", "outbound", "persist"} /\ job[t].kind # "proxy"
                    THEN job[t].tenant ELSE "none"
B == INSTANCE Budget WITH pending <- [t \in Threads |-> LetThroughFor(t)]

\* The request path implements the budget's promise.
ImplementsBudget == B!BudgetSpec

\* A tenant's limit is overspent by at most one request of each thread, proxied
\* calls aside, which are not checked.
OverspendBounded == B!OverspendBounded

\* The cache only holds answers that went through the outbound filters.
CachedIsFiltered == \A e \in cached : e.answer \cap {"secret", "pii"} = {}
=============================================================================

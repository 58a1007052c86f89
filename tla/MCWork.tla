------------------------------- MODULE MCWork -------------------------------
(***************************************************************************)
(* Work that must come to an end: staged rollouts, workflow runs, upstream *)
(* calls, and the reloads and the exit of the gateway process.  The parts  *)
(* share no state here, so one of them is chosen in the initial state and  *)
(* the others stand still: the graph is the disjoint union of theirs.      *)
(***************************************************************************)
EXTENDS GatewayProcess, WorkflowEngine, TLC

VARIABLES
  part,
  status, activeId, admin, wentLive, rollout, loc, todo, snap, tickNow, now, faults,
  circuits, keyStates, upCall, client

Rollout == INSTANCE Rollout
  WITH Versions <- {"v1", "v2"}, NoVersion <- "none", MemoryBackend <- FALSE,
       Rollouts <- {"r1"}, Operators <- {"op1"}, Ticker <- "ticker", StageCount <- 2,
       Cooldown <- 1, Grace <- 2, MaxTime <- 4, MaxFaults <- 2,
       ConfigMayFail <- FALSE, ConfigAdmin <- FALSE, Serial <- TRUE

(***************************************************************************)
(* Deployments of the gateway process: the full one, the bare one, and the *)
(* full one less one thing; and three versions of its configuration file.  *)
(***************************************************************************)
Full == [store |-> TRUE, dashboard |-> TRUE, abuse |-> TRUE, router |-> "ml", licensed |-> TRUE,
         wrapped |-> FALSE, bus |-> TRUE, openai |-> TRUE, redis |-> "cluster", redisUp |-> TRUE,
         autonomy |-> TRUE, costAutonomy |-> TRUE, queueLoads |-> TRUE, budgetGuard |-> TRUE,
         multimodal |-> TRUE, modalityLimits |-> TRUE, workflowEndpoint |-> TRUE,
         strict |-> TRUE, backendsUp |-> TRUE]

Bare == [p \in DOMAIN Full |-> IF p = "router" THEN "cost_aware"
                               ELSE IF p = "redis" THEN "off" ELSE FALSE]

MCSettings ==
  {Full, Bare, [Full EXCEPT !.router = "cost_aware"], [Full EXCEPT !.wrapped = TRUE]}
    \cup {[Full EXCEPT ![p] = FALSE] :
             p \in {"store", "licensed", "redisUp", "autonomy", "queueLoads", "openai", "backendsUp"}}

Good == [f \in {"injection", "pii", "topics"} |-> "good"]
MCFiles ==
  << [parses |-> TRUE,  keys |-> <<"k1", "k2">>, rules |-> [Good EXCEPT !["topics"] = "partly"]],
     [parses |-> FALSE, keys |-> <<>>,           rules |-> Good],
     [parses |-> TRUE,  keys |-> <<"k3", "k1">>, rules |-> [Good EXCEPT !["injection"] = "partly",
                                                                       !["pii"] = "bad"]] >>

(***************************************************************************)
(* Workflows: two branches that meet again, with an approval on one of     *)
(* them; a cycle; a node whose tool the caller may not use.                *)
(***************************************************************************)
Node(type, deps, attempts) ==
  [type |-> type, deps |-> deps, attempts |-> attempts, tool |-> TRUE]

Review ==
  "a" :> Node("tool", {}, 1) @@ "h" :> Node("approval", {"a"}, 1)
  @@ "b" :> Node("tool", {}, 2) @@ "j" :> Node("topology", {"h", "b"}, 1)
Cycle  == "a" :> Node("tool", {"h"}, 1) @@ "h" :> Node("approval", {"a"}, 1)
Bypass == "a" :> [Node("tool", {}, 1) EXCEPT !.tool = FALSE]

Usual == [maxRuns |-> 1, workers |-> 2, stopOnFirstFailure |-> TRUE,
          callback |-> FALSE, sandbox |-> TRUE, autonomy |-> TRUE, durable |-> TRUE]

MCWorkflows == {Review, Cycle, Bypass}
MCDeployments ==
  {Usual,
   [Usual EXCEPT !.stopOnFirstFailure = FALSE, !.callback = TRUE, !.workers = 1],
   [Usual EXCEPT !.sandbox = FALSE, !.durable = FALSE],
   [Usual EXCEPT !.autonomy = FALSE]}

\* Two calls of one model, whose circuit has one half-open slot.
Upstream == INSTANCE Upstream
  WITH Models <- {"a"}, Primaries <- {"a"}, Served <- {"a"}, Chain <- [m \in {"a"} |-> <<>>],
       Keys <- <<"k1">>, Weight <- [k \in {"k1"} |-> 1], NoKey <- "none",
       FailureThreshold <- 2, HalfOpenMaxCalls <- 1, MaxConsecutiveFailures <- 1,
       MaxAttempts <- 2, MaxInFlight <- 2, Calls <- {"c1", "c2"}, Streaming <- {"c1"},
       keys <- keyStates, call <- upCall

(***************************************************************************)
(* The sum.                                                                *)
(***************************************************************************)
rolloutVars == <<status, activeId, admin, wentLive, rollout, loc, todo, snap, tickNow, now, faults>>
upstreamVars == <<circuits, keyStates, upCall, client>>
allVars == <<part, rolloutVars, procVars, wvars, upstreamVars>>

Init ==
  /\ part \in {"rollout", "process", "workflow", "upstream"}
  /\ Rollout!Init /\ (part # "rollout" => \A v \in {"v1", "v2"} : status[v] = "APPROVED")
  /\ ProcInit
  /\ IF settings = Full THEN file = 1 ELSE part = "process" /\ file = Len(Files)
  /\ WorkflowInit /\ (part # "workflow" => cfg = Usual)
  /\ Upstream!Init

Only(p) ==
  /\ part = p /\ UNCHANGED part
  /\ IF p = "rollout" THEN TRUE ELSE UNCHANGED rolloutVars
  /\ IF p = "process" THEN TRUE ELSE UNCHANGED procVars
  /\ IF p = "workflow" THEN TRUE ELSE UNCHANGED wvars
  /\ IF p = "upstream" THEN TRUE ELSE UNCHANGED upstreamVars

Next ==
  \/ Only("rollout") /\ Rollout!Next
  \/ Only("process") /\ ProcNext
  \/ Only("workflow") /\ WorkflowNext
  \/ Only("upstream") /\ Upstream!Next

\* The fairness each part states for itself, of the part that was chosen.
Fairness ==
  /\ \A p \in {"op1", "ticker"} : WF_rolloutVars(part = "rollout" /\ Rollout!Step(p))
  /\ WF_rolloutVars(part = "rollout" /\ Rollout!TickBegin)
  /\ WF_rolloutVars(part = "rollout" /\ Rollout!Evaluate("r1"))
  /\ WF_rolloutVars(part = "rollout" /\ Rollout!Advance)
  /\ WF_procVars(part = "process" /\ ReloadTimer)
  /\ WF_procVars(part = "process" /\ Watchdog)
  /\ \A t \in Reloaders : WF_procVars(part = "process" /\ ReloadStep(t))
  /\ \A t \in Callers : WF_wvars(part = "workflow" /\ Execute(t))
  /\ \A c \in {"c1", "c2"} : WF_upstreamVars(part = "upstream" /\ Upstream!Step(c))
  /\ WF_upstreamVars(/\ part = "upstream" /\ Upstream!ResetTimeoutPasses("a")
                     /\ UNCHANGED <<keyStates, client, upCall>>)

Spec == Init /\ [][Next]_allVars /\ Fairness

(***************************************************************************)
(* What the parts promise; each property is stated in the part's module.   *)
(***************************************************************************)
\* RolloutController: an ended rollout and its target agree.
TerminalAgreement == Rollout!TerminalAgreement

\* FallbackManager: every call ends.
CallsEnd == Upstream!CallsEnd
\* CircuitBreaker: a model that calls keep asking for is admitted again.
BreakerRecovers == Upstream!BreakerRecovers
=============================================================================

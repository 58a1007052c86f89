--------------------------- MODULE GatewayProcess ---------------------------
(***************************************************************************)
(* The life of the gateway process (main.cpp, GatewayRuntime, Config): it  *)
(* starts and wires its parts, reloads its configuration on SIGHUP (a      *)
(* one-second timer of the main loop sees the flag) and on the reload      *)
(* endpoint (an HTTP thread), checks API keys meanwhile, and stops on      *)
(* SIGTERM under a watchdog.                                               *)
(***************************************************************************)
EXTENDS Functions, Integers, FiniteSets, Sequences

(***************************************************************************)
(* GatewayRuntime::initialize: which parts of the gateway are built for    *)
(* which settings, and which parts they keep pointers to.                  *)
(*                                                                         *)
(* A world has the incarnation of every part (0: there is none) and the    *)
(* pointers taken, each to an incarnation of a part.  A part built again   *)
(* is another incarnation, and pointers to the old one dangle.             *)
(***************************************************************************)

Parts == {"pipeline", "store", "abuse", "router", "mlRouter", "bus", "fallback", "limiter",
          "openai", "savings", "auth", "scim", "redisState", "queue", "approvals",
          "costApplier", "guardRegistry", "guardSink", "guardApplier", "guardAdmin",
          "stateStore", "engine", "workflowApplier", "budgetGuard", "modalityUpstream",
          "modalityRouter", "modalityLimiter"}

NoWorld == [alive |-> [p \in Parts |-> 0], refs |-> {}]

Has(w, p)  == w.alive[p] > 0
\* p takes a pointer to each of ds.
Points(w, p, ds) == [w EXCEPT !.refs = @ \cup {<<p, d, w.alive[d]>> : d \in ds}]
Build(w, p, ds)  == Points([w EXCEPT !.alive[p] = @ + 1], p, ds)
BuildIf(c, w, p, ds) == IF c THEN Build(w, p, ds) ELSE w

Live(w, r) == w.alive[r[2]] = r[3] /\ r[3] > 0

(***************************************************************************)
(* The steps of initialize, in their order.                                *)
(***************************************************************************)
\* PipelineAssembler::assemble, and AbuseDetector.  With strict backends a
\* backend that fell back to memory makes assemble throw (see Startable).
buildPipeline(s, w) ==
  LET w1 == Build(BuildIf(s.store, w, "store", {}), "pipeline", {})
  IN  BuildIf(s.abuse, w1, "abuse", {})

\* The router, and what wraps it, of what the licence allows.
buildRouter(s, w) ==
  LET w1 == BuildIf(s.router = "ml" /\ s.licensed, w, "mlRouter", {})
  IN  Build(w1, "router", IF Has(w1, "mlRouter") THEN {"mlRouter"} ELSE {})

\* router_ is the MLRouter itself, and not what wraps it.
RouterIsMl(s) == s.router = "ml" /\ s.licensed /\ ~s.wrapped

\* FeedbackBus, FallbackManager, RateLimiter, the providers.
buildGateway(s, w) ==
  LET w1 == Build(Build(BuildIf(s.bus, w, "bus", {}), "fallback", {}), "limiter", {})
  IN  BuildIf(s.openai, w1, "openai", {})

\* SavingsAggregator, AuthService, ScimService.
buildServices(s, w) ==
  LET st == IF s.store /\ s.dashboard THEN {"store"} ELSE {}
      w1 == Build(w, "savings", {"pipeline"} \cup st)
      w2 == BuildIf(s.store, w1, "auth", {"store", "pipeline"})
  IN  BuildIf(s.store, w2, "scim", {"store", "pipeline"})

\* The Redis state store: for the limiter, and in cluster mode for four parts.
wireRedis(s, w) ==
  IF s.redis = "off" \/ ~s.redisUp THEN w
  ELSE LET w1 == Points(Build(w, "redisState", {}), "limiter", {"redisState"})
           ab == IF Has(w1, "abuse") THEN {"abuse"} ELSE {}
           ml == IF RouterIsMl(s) THEN {"mlRouter"} ELSE {}
       IN  IF s.redis # "cluster" THEN w1
           ELSE [w1 EXCEPT !.refs = @ \cup
                  {<<p, "redisState", w1.alive["redisState"]>> : p \in {"fallback"} \cup ab \cup ml}]

\* ApprovalQueue and AutonomyApprovalWorkflow, with CostAutonomyApplier when
\* there is an MLRouter.
wireApprovals(s, w) ==
  LET w1 == Build(w, "queue", IF s.store THEN {"store"} ELSE {})
      w2 == Build(w1, "approvals", {"queue", "pipeline"})
  IN  IF s.costAutonomy /\ Has(w2, "mlRouter")
      THEN Points(Build(w2, "costApplier", {"mlRouter"}), "approvals", {"costApplier"})
      ELSE w2

\* The adaptive guard: registry, sink, applier.
wireGuard(s, w) ==
  LET w1 == Build(w, "guardRegistry", {})
      w2 == Build(w1, "guardSink", {"pipeline"})
  IN  Points(Build(w2, "guardApplier", {"guardRegistry"}), "approvals", {"guardApplier"})

\* Workflow 2.0: state store, engine, applier.
wireWorkflow(s, w) ==
  LET w1 == Build(Build(w, "stateStore", {}), "engine", {"stateStore", "pipeline"})
  IN  Points(Build(w1, "workflowApplier", {"engine", "stateStore"}), "approvals", {"workflowApplier"})

\* GuardAdminController, and the stages that report to it.
wireGuardAdmin(s, w) ==
  Points(Build(w, "guardAdmin", {"guardSink", "guardRegistry", "approvals", "pipeline"}),
         "pipeline", {"guardAdmin"})

wireAutonomy(s, w) ==
  IF ~s.autonomy /\ ~s.costAutonomy THEN w
  ELSE IF ~s.queueLoads THEN w
  ELSE wireGuardAdmin(s, wireWorkflow(s, wireGuard(s, wireApprovals(s, w))))

\* BudgetGuardStage, at the end of the inbound pipeline.
wireBudgetGuard(s, w) ==
  IF ~s.budgetGuard THEN w
  ELSE Build(w, "budgetGuard",
             {"pipeline"} \cup (IF Has(w, "mlRouter") THEN {"mlRouter"} ELSE {}))

\* ModalityRouter and ModalityRateLimiter, on the OpenAI connector.
wireMultimodal(s, w) ==
  IF ~s.multimodal \/ ~Has(w, "openai") THEN w
  ELSE LET w1 == Build(w, "modalityUpstream", {"openai"})
           w2 == Build(w1, "modalityRouter", {"modalityUpstream"})
       IN  BuildIf(s.modalityLimits, w2, "modalityLimiter", {"limiter"})

\* The engine for /v1/workflow, unless autonomy built one.
wireWorkflowEndpoint(s, w) ==
  IF ~s.workflowEndpoint \/ Has(w, "engine") THEN w
  ELSE Build(Build(w, "stateStore", {}), "engine", {"stateStore", "pipeline"})

\* enforceBackendActive: initialize throws, and main exits.
Startable(s) == s.strict => s.backendsUp

initialize(s) ==
  LET w1 == buildGateway(s, buildRouter(s, buildPipeline(s, NoWorld)))
      w2 == wireRedis(s, buildServices(s, w1))
      w3 == wireBudgetGuard(s, wireAutonomy(s, w2))
  IN  wireWorkflowEndpoint(s, wireMultimodal(s, w3))

\* reloadConfig: a new RateLimiter takes the place of the old one (2 stands
\* for every later incarnation: nothing takes a pointer to one).
replaceLimiter(w) == [w EXCEPT !.alive["limiter"] = 2,
                               !.refs = {r \in @ : r[1] # "limiter"}]

-----------------------------------------------------------------------------
CONSTANTS
  HttpThreads,      \* the threads that serve the reload endpoint
  Files,            \* the versions of the configuration file, in order of editing
  Settings          \* the settings a deployment starts with

VARIABLES
  settings,
  world,            \* the parts and their pointers
  file,             \* the version of the configuration file on disk
  conf,             \* the version Config holds
  keys,             \* valid_api_key_hashes_
  rules,            \* the version of each rule file in force
  flag,             \* g_reload_requested
  job,              \* what each reloading thread is doing
  phase,            \* "starting", "running", "stopping" and its steps, "exited"
  asked,            \* history: the version on disk at the last SIGHUP
  overlapped        \* history: two reloads have been under way at once

procVars == <<settings, world, file, conf, keys, rules, flag, job, phase, asked, overlapped>>

Reloaders == HttpThreads \cup {"main"}
Idle == [at |-> "idle", left |-> <<>>]
Parses(v) == Files[v].parses
KeysOf(v) == Files[v].keys

\* What a stage matches with: nothing, its built-in patterns, or what it took
\* from a version of its file, all of it or the part before an error.
Nothing  == <<"nothing", 0>>
Defaults == <<"defaults", 0>>
Whole(v) == <<"whole", v>>
Part(v)  == <<"part", v>>
RuleFiles == {"injection", "pii", "topics"}
Rules0 == [f \in RuleFiles |-> IF f = "pii" THEN Defaults ELSE Nothing]

ProcInit ==
  /\ settings \in Settings /\ world = NoWorld
  /\ file \in DOMAIN Files
  /\ conf = 0 /\ keys = {} /\ rules = Rules0
  /\ flag = FALSE /\ job = [t \in Reloaders |-> Idle]
  /\ phase = "starting" /\ asked = 0 /\ overlapped = FALSE

(***************************************************************************)
(* Start.                                                                  *)
(***************************************************************************)
\* The stages load their files.  The pattern lists of two of them keep what was
\* read before an error; PIIFilter restores what it had.  The rule engine's
\* part in a reload is module RuleEngine's.
loadPatterns(v) ==
  IF Files[v].rules["injection"] = "good" THEN Whole(v)
  ELSE IF Files[v].rules["injection"] = "partly" THEN Part(v) ELSE Nothing
PIIFilter_loadPatterns(v) == IF Files[v].rules["pii"] = "good" THEN Whole(v) ELSE Defaults
loadConfig(v) ==
  IF Files[v].rules["topics"] = "good" THEN Whole(v)
  ELSE IF Files[v].rules["topics"] = "partly" THEN Part(v) ELSE Nothing

\* main: the file must load, and initialize must not throw.
Start ==
  /\ phase = "starting"
  /\ IF Parses(file) /\ Startable(settings)
     THEN /\ conf' = file /\ world' = initialize(settings) /\ phase' = "running"
          /\ keys' = Range(KeysOf(file))
          /\ rules' = [injection |-> loadPatterns(file), pii |-> PIIFilter_loadPatterns(file),
                       topics |-> loadConfig(file)]
     ELSE phase' = "exited" /\ UNCHANGED <<conf, world, keys, rules>>
  /\ UNCHANGED <<settings, file, flag, job, asked, overlapped>>

(***************************************************************************)
(* Reload.                                                                 *)
(***************************************************************************)
\* An operator saves the next version of the files.
Edit ==
  /\ phase = "running" /\ file < Len(Files)
  /\ file' = file + 1
  /\ UNCHANGED <<settings, world, conf, keys, rules, flag, job, phase, asked, overlapped>>

handleSighup ==
  /\ phase = "running"
  /\ flag' = TRUE /\ asked' = file
  /\ UNCHANGED <<settings, world, file, conf, keys, rules, job, phase, overlapped>>

\* Config::reload: a file that does not parse leaves the previous configuration.
ConfigReload(t) ==
  IF Parses(file)
  THEN /\ conf' = file /\ job' = [job EXCEPT ![t].at = "limiter"]
       /\ overlapped' = (overlapped \/ \E u \in Reloaders \ {t} : job[u].at # "idle")
  ELSE UNCHANGED <<conf, job, overlapped>>

\* The timer of the main loop.
ReloadTimer ==
  /\ phase = "running" /\ flag /\ job["main"] = Idle
  /\ flag' = FALSE
  /\ ConfigReload("main")
  /\ UNCHANGED <<settings, world, file, keys, rules, phase, asked>>

\* ApiController::reloadConfig.
ReloadEndpoint(t) ==
  /\ phase = "running" /\ job[t] = Idle
  /\ ConfigReload(t)
  /\ UNCHANGED <<settings, world, file, keys, rules, flag, phase, asked>>

ReplaceLimiter(t) ==
  /\ phase # "exited" /\ job[t].at = "limiter"
  /\ world' = replaceLimiter(world)
  /\ job' = [job EXCEPT ![t].at = "clear"]
  /\ UNCHANGED <<settings, file, conf, keys, rules, flag, phase, asked, overlapped>>

\* Mutant: the hashes of the new keys are added to those of the old.
ClearKeysNot(t) ==
  /\ phase # "exited" /\ job[t].at = "clear"
  /\ keys' = keys
  /\ job' = [job EXCEPT ![t] = [at |-> "fill", left |-> KeysOf(conf)]]
  /\ UNCHANGED <<settings, world, file, conf, rules, flag, phase, asked, overlapped>>

\* valid_api_key_hashes_ is emptied, and config_->authApiKeys() copied.
ClearKeys(t) ==
  /\ phase # "exited" /\ job[t].at = "clear"
  /\ keys' = {}
  /\ job' = [job EXCEPT ![t] = [at |-> "fill", left |-> KeysOf(conf)]]
  /\ UNCHANGED <<settings, world, file, conf, rules, flag, phase, asked, overlapped>>

\* One push_back.  Two threads that push at once may lose one of the two.
PushKey(t) ==
  /\ phase # "exited" /\ job[t].at = "fill" /\ job[t].left # <<>>
  /\ \/ keys' = keys \cup {Head(job[t].left)}
     \/ \E u \in Reloaders \ {t} : job[u].at \in {"clear", "fill"} /\ keys' = keys
  /\ job' = [job EXCEPT ![t].left = Tail(@)]
  /\ UNCHANGED <<settings, world, file, conf, rules, flag, phase, asked, overlapped>>

KeysDone(t) ==
  /\ phase # "exited" /\ job[t].at = "fill" /\ job[t].left = <<>>
  /\ job' = [job EXCEPT ![t].at = "rules"]
  /\ UNCHANGED <<settings, world, file, conf, keys, rules, flag, phase, asked, overlapped>>

\* Each stage parses its file into new patterns and swaps them in; after an
\* error the old ones stay.
reloadPatterns(old) == IF Files[file].rules["injection"] = "good" THEN Whole(file) ELSE old
PIIFilter_reloadPatterns(old) == IF Files[file].rules["pii"] = "good" THEN Whole(file) ELSE old
reloadConfig(old) == IF Files[file].rules["topics"] = "good" THEN Whole(file) ELSE old

reloadSecurityRules(t) ==
  /\ phase # "exited" /\ job[t].at = "rules"
  /\ rules' = [injection |-> reloadPatterns(rules.injection),
               pii |-> PIIFilter_reloadPatterns(rules.pii),
               topics |-> reloadConfig(rules.topics)]
  /\ job' = [job EXCEPT ![t] = Idle]
  /\ UNCHANGED <<settings, world, file, conf, keys, flag, phase, asked, overlapped>>

(***************************************************************************)
(* Stop.                                                                   *)
(***************************************************************************)
\* handleShutdownSignal, and app.run() returns once the loop is free.
Stop ==
  /\ phase = "running" /\ job["main"] = Idle
  /\ phase' = "bus"
  /\ UNCHANGED <<settings, world, file, conf, keys, rules, flag, job, asked, overlapped>>

\* GatewayRuntime::shutdown: the bus, the audit log, the stores.  Any of them
\* may hang: the steps have no fairness.
NextStep == [bus |-> "audit", audit |-> "store", store |-> "cache", cache |-> "exited"]

shutdown ==
  /\ phase \in DOMAIN NextStep
  /\ phase' = NextStep[phase]
  /\ UNCHANGED <<settings, world, file, conf, keys, rules, flag, job, asked, overlapped>>

\* 30 s after app.run() returned the process is ended.
Watchdog ==
  /\ phase \in DOMAIN NextStep
  /\ phase' = "exited"
  /\ UNCHANGED <<settings, world, file, conf, keys, rules, flag, job, asked, overlapped>>

ReloadStep(t) ==
  ReplaceLimiter(t) \/ ClearKeys(t) \/ PushKey(t) \/ KeysDone(t) \/ reloadSecurityRules(t)

ProcNext ==
  \/ Start \/ Edit \/ handleSighup \/ ReloadTimer \/ Stop \/ shutdown \/ Watchdog
  \/ \E t \in HttpThreads : ReloadEndpoint(t)
  \/ \E t \in Reloaders : ReloadStep(t)

\* The main loop runs its timer, a reload runs to its end (it waits for
\* nobody), and the watchdog sleeps 30 s.
ProcFairness ==
  /\ WF_procVars(ReloadTimer) /\ WF_procVars(Watchdog)
  /\ \A t \in Reloaders : WF_procVars(ReloadStep(t))

ProcSpec == ProcInit /\ [][ProcNext]_procVars /\ ProcFairness

(***************************************************************************)
(* Properties.                                                             *)
(***************************************************************************)

\* When no reload is under way, and no two have overlapped, the keys accepted
\* are those of the configuration held (gateway_runtime.cpp:1132).
KeysSettled ==
  phase = "running" /\ (\A t \in Reloaders : job[t] = Idle) /\ ~overlapped
    => keys = Range(KeysOf(conf))
=============================================================================

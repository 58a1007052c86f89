--------------------------- MODULE WorkflowEngine ---------------------------
(***************************************************************************)
(* The workflow engine (src/workflow): a caller's execute() admits a run,   *)
(* validates its graph, records it in the state store and lets a pool of    *)
(* workers run the nodes whose dependencies are done; a HumanApproval node  *)
(* pauses the run, and resume() executes what is left of it later.          *)
(* A call of the engine is a caller's record: which of its steps comes next *)
(* (pc), the graph it runs, how many dependencies each node still waits for *)
(* (left), and where each submitted node is (at).                           *)
(***************************************************************************)
EXTENDS Integers, Sequences, FiniteSets, FiniteSetsExt, Functions

CONSTANTS Callers,      \* threads that may be inside execute() or resume()
          RunIds,       \* the run ids generateRequestId() hands out
          Workflows,    \* the DSLs submitted: node id -> NodeSpec
          Deployments,  \* the configurations of the engine and of its store
          MaxCrashes,   \* restarts of the process that are explored
          MaxResumes    \* resume() calls that are explored

VARIABLES cfg,          \* WorkflowEngineConfig and the dependencies wired in
          runs,         \* workflow_runs: run id -> [status, dsl]
          nodeRuns,     \* workflow_node_runs: run id -> node -> the attempts
          active,       \* active_runs_
          call,         \* caller -> its call of the engine
          shared,   \* runs on which two calls were inside the engine
          crashes, resumes

wvars == <<cfg, runs, nodeRuns, active, call, shared, crashes, resumes>>

NoRun == [status |-> "none", dsl |-> << >>]

NoCall == [pc |-> "idle", run |-> "none", graph |-> << >>, left |-> << >>,
         at |-> << >>, cancelled |-> FALSE, paused |-> FALSE,
         failed |-> FALSE, late |-> 0, cur |-> 0]

\* A node of a call: "none" (not submitted), "queued", then inside runNode.
NotSubmitted == [pc |-> "none", attempt |-> 0, advance |-> FALSE]

Pending(c) == {n \in DOMAIN c.at : c.at[n].pc \notin {"none", "done"}}
Started(c) == {n \in Pending(c) : c.at[n].pc # "queued"}

-----------------------------------------------------------------------------
(* The state store.                                                        *)

createRun(rs, r, dsl) ==
  IF rs[r].status = "none"
  THEN [rs EXCEPT ![r] = [status |-> "Running", dsl |-> dsl]]
  ELSE rs

transitionRunStatus(rs, r, status) ==
  IF rs[r].status = "none" THEN rs ELSE [rs EXCEPT ![r].status = status]

\* One row per (run, node, attempt): a later write of an attempt replaces it.
upsertNodeRun(ns, r, n, attempt, status) ==
  LET old  == ns[r]
      rows == IF n \in DOMAIN old THEN old[n] ELSE << >>
      new  == [k \in (DOMAIN rows) \cup {attempt} |->
                 IF k = attempt THEN status ELSE rows[k]]
  IN  [ns EXCEPT ![r] = [m \in (DOMAIN old) \cup {n} |->
                           IF m = n THEN new ELSE old[m]]]

\* listNodeRuns: the nodes with a row of one of these statuses.
listNodeRuns(ns, r, statuses) ==
  {n \in DOMAIN ns[r] : Range(ns[r][n]) \cap statuses # {}}

Done(ns, r) == listNodeRuns(ns, r, {"Succeeded", "Skipped"})

-----------------------------------------------------------------------------
(* The checks of the DSL that execute() makes.                             *)

\* Kahn's algorithm: a node that waits for itself, for a node of a cycle or
\* for a node that does not exist is never visited.
validateNoCycle(dsl) ==
  LET visited[i \in 0 .. Cardinality(DOMAIN dsl)] ==
        IF i = 0 THEN {}
        ELSE {n \in DOMAIN dsl : dsl[n].deps \subseteq visited[i - 1]}
  IN  visited[Cardinality(DOMAIN dsl)] = DOMAIN dsl

validateNoSandboxBypass(dsl) ==
  \A n \in DOMAIN dsl : dsl[n].type \in {"tool", "approval"} => dsl[n].tool

-----------------------------------------------------------------------------
WorkflowInit ==
  /\ cfg \in Deployments
  /\ runs = [r \in RunIds |-> NoRun]
  /\ nodeRuns = [r \in RunIds |-> << >>]
  /\ active = 0
  /\ call = [t \in Callers |-> NoCall]
  /\ shared = {}
  /\ crashes = 0
  /\ resumes = 0

\* processWorkflowRequest: a request id that no run has, and the posted graph.
processWorkflowRequest(t) ==
  /\ call[t].pc = "idle"
  /\ \E r \in RunIds, dsl \in Workflows :
       /\ runs[r].status = "none"
       /\ \A u \in Callers : call[u].run # r
       /\ call' = [call EXCEPT ![t] =
                     [NoCall EXCEPT !.pc = "enter", !.run = r, !.graph = dsl]]
  /\ UNCHANGED <<cfg, runs, nodeRuns, active, shared, crashes, resumes>>

\* active_runs_.fetch_add(1) + 1, kept by the caller as cur.
Enter(t) ==
  /\ call[t].pc = "enter"
  /\ active' = active + 1
  /\ call' = [call EXCEPT ![t].pc = "admit", ![t].cur = active + 1]
  /\ UNCHANGED <<cfg, runs, nodeRuns, shared, crashes, resumes>>

\* Too many runs: the call returns, and its guard gives the count back.
Backpressure(t) ==
  /\ call[t].pc = "admit"
  /\ call[t].cur > cfg.maxRuns
  /\ call' = [call EXCEPT ![t].pc = "return"]
  /\ UNCHANGED <<cfg, runs, nodeRuns, active, shared, crashes, resumes>>

\* checkAutonomyOrCancel: the operator has disabled autonomy.
checkAutonomyOrCancel(t) ==
  /\ call[t].pc = "admit"
  /\ call[t].cur <= cfg.maxRuns
  /\ ~cfg.autonomy
  /\ runs' = transitionRunStatus(runs, call[t].run, "Cancelled")
  /\ call' = [call EXCEPT ![t].pc = "return"]
  /\ UNCHANGED <<cfg, nodeRuns, active, shared, crashes, resumes>>

Refused(t) ==
  /\ call[t].pc = "admit"
  /\ call[t].cur <= cfg.maxRuns
  /\ cfg.autonomy
  /\ ~(validateNoCycle(call[t].graph) /\ validateNoSandboxBypass(call[t].graph))
  /\ call' = [call EXCEPT ![t].pc = "return"]
  /\ UNCHANGED <<cfg, runs, nodeRuns, active, shared, crashes, resumes>>

\* The run is recorded, and every node without a dependency is submitted.
Dispatch(t) ==
  LET c == call[t]
      left == [n \in DOMAIN c.graph |-> Cardinality(c.graph[n].deps)]
  IN  /\ c.pc = "admit"
      /\ c.cur <= cfg.maxRuns
      /\ cfg.autonomy
      /\ validateNoCycle(c.graph)
      /\ validateNoSandboxBypass(c.graph)
      /\ runs' = transitionRunStatus(createRun(runs, c.run, c.graph),
                                     c.run, "Running")
      /\ call' = [call EXCEPT
                    ![t].pc = "run", ![t].left = left,
                    ![t].at = [n \in DOMAIN c.graph |->
                                 IF left[n] = 0
                                 THEN [NotSubmitted EXCEPT !.pc = "queued"]
                                 ELSE NotSubmitted]]
      /\ UNCHANGED <<cfg, nodeRuns, active, shared, crashes, resumes>>

-----------------------------------------------------------------------------
(* runNode, on a worker of the call's pool. *)

Others == <<cfg, active, shared, crashes, resumes>>

StartNodeUnlessCancelled(t, n) ==
  LET c == call[t]
      next == CASE c.graph[n].type = "approval" -> "ask"
                [] c.graph[n].type = "topology" -> "skip"
                [] OTHER -> "try"
  IN  /\ c.pc = "run"
      /\ ~c.cancelled
      /\ c.at[n].pc = "queued"
      /\ Cardinality(Started(c)) < cfg.workers
      /\ call' = [call EXCEPT ![t].at[n] = [pc |-> next, attempt |-> 1,
                                            advance |-> FALSE]]
      /\ UNCHANGED <<runs, nodeRuns>> /\ UNCHANGED Others

\* A free worker takes a submitted node; a cancelled call skips its work.
StartNode(t, n) ==
  LET c == call[t]
      next == CASE c.cancelled -> "finish"
                [] c.graph[n].type = "approval" -> "ask"
                [] c.graph[n].type = "topology" -> "skip"
                [] OTHER -> "try"
  IN  /\ c.pc = "run"
      /\ c.at[n].pc = "queued"
      /\ Cardinality(Started(c)) < cfg.workers
      /\ call' = [call EXCEPT ![t].at[n] = [pc |-> next, attempt |-> 1,
                                            advance |-> FALSE]]
      /\ UNCHANGED <<runs, nodeRuns>> /\ UNCHANGED Others

\* HumanApproval: the row is written before the callback is asked.
AskApproval(t, n) ==
  /\ call[t].pc = "run" /\ call[t].at[n].pc = "ask"
  /\ nodeRuns' = upsertNodeRun(nodeRuns, call[t].run, n, 1, "WaitingForApproval")
  /\ call' = [call EXCEPT ![t].at[n].pc = "asked"]
  /\ UNCHANGED runs /\ UNCHANGED Others

\* No callback, or one that answers "pause".
Pause(t, n) ==
  /\ call[t].pc = "run" /\ call[t].at[n].pc = "asked"
  /\ call' = [call EXCEPT ![t].paused = TRUE, ![t].cancelled = TRUE,
                          ![t].at[n].pc = "finish"]
  /\ UNCHANGED <<runs, nodeRuns>> /\ UNCHANGED Others

\* A callback that lets the node through.
LetThrough(t, n) ==
  /\ call[t].pc = "run" /\ call[t].at[n].pc = "asked"
  /\ cfg.callback
  /\ nodeRuns' = upsertNodeRun(nodeRuns, call[t].run, n, 1, "Succeeded")
  /\ call' = [call EXCEPT ![t].at[n].pc = "finish", ![t].at[n].advance = TRUE]
  /\ UNCHANGED runs /\ UNCHANGED Others

\* Conditional, FanOut and FanIn nodes only shape the graph.
SkipNode(t, n) ==
  /\ call[t].pc = "run" /\ call[t].at[n].pc = "skip"
  /\ nodeRuns' = upsertNodeRun(nodeRuns, call[t].run, n, 1, "Skipped")
  /\ call' = [call EXCEPT ![t].at[n].pc = "finish", ![t].at[n].advance = TRUE]
  /\ UNCHANGED runs /\ UNCHANGED Others

\* An attempt of a tool starts unless the call was cancelled in the meantime.
Attempt(t, n) ==
  LET c == call[t] IN
  /\ c.pc = "run" /\ c.at[n].pc = "try"
  /\ c.at[n].attempt <= c.graph[n].attempts
  /\ ~c.cancelled
  /\ nodeRuns' = upsertNodeRun(nodeRuns, c.run, n, c.at[n].attempt, "Running")
  /\ call' = [call EXCEPT ![t].at[n].pc = "tool"]
  /\ UNCHANGED runs /\ UNCHANGED Others

ToolSucceeds(t, n) ==
  LET c == call[t] IN
  /\ c.pc = "run" /\ c.at[n].pc = "tool"
  /\ cfg.sandbox
  /\ nodeRuns' = upsertNodeRun(nodeRuns, c.run, n, c.at[n].attempt, "Succeeded")
  /\ call' = [call EXCEPT ![t].at[n].pc = "finish", ![t].at[n].advance = TRUE]
  /\ UNCHANGED runs /\ UNCHANGED Others

\* The tool fails, or there is no sandbox: the attempt is recorded as failed.
ToolFails(t, n) ==
  LET c == call[t] IN
  /\ c.pc = "run" /\ c.at[n].pc = "tool"
  /\ nodeRuns' = upsertNodeRun(nodeRuns, c.run, n, c.at[n].attempt, "Failed")
  /\ call' = [call EXCEPT ![t].at[n].pc = "try", ![t].at[n].attempt = @ + 1]
  /\ UNCHANGED runs /\ UNCHANGED Others

\* The wait for the tool times out: the tool keeps running, its future is
\* kept in detached, and the next attempt may start beside it.
ToolTimesOut(t, n) ==
  LET c == call[t] IN
  /\ c.pc = "run" /\ c.at[n].pc = "tool"
  /\ cfg.sandbox
  /\ nodeRuns' = upsertNodeRun(nodeRuns, c.run, n, c.at[n].attempt, "Failed")
  /\ call' = [call EXCEPT ![t].at[n].pc = "try", ![t].at[n].attempt = @ + 1,
                          ![t].late = @ + 1]
  /\ UNCHANGED runs /\ UNCHANGED Others

\* No attempt is left, or the call was cancelled before the next one.
DeadLetter(t, n) ==
  LET c == call[t] IN
  /\ c.pc = "run" /\ c.at[n].pc = "try"
  /\ c.at[n].attempt > c.graph[n].attempts \/ c.cancelled
  /\ nodeRuns' = upsertNodeRun(nodeRuns, c.run, n,
                               Max({1, c.at[n].attempt - 1}), "DeadLetter")
  /\ call' = [call EXCEPT ![t].at[n].pc = "finish", ![t].failed = TRUE,
                          ![t].cancelled = @ \/ cfg.stopOnFirstFailure]
  /\ UNCHANGED runs /\ UNCHANGED Others

\* The end of runNode, under sched_mu: successors that waited only for this
\* node are submitted, and the node stops being outstanding.
FinishNode(t, n) ==
  LET c == call[t]
      goes == c.at[n].advance /\ ~c.cancelled
      succ == {s \in DOMAIN c.graph : n \in c.graph[s].deps}
      left == [s \in DOMAIN c.left |->
                 IF goes /\ s \in succ THEN c.left[s] - 1 ELSE c.left[s]]
  IN  /\ c.pc = "run" /\ c.at[n].pc = "finish"
      /\ call' = [call EXCEPT
                    ![t].left = left,
                    ![t].at = [s \in DOMAIN c.at |->
                       CASE s = n -> [c.at[n] EXCEPT !.pc = "done"]
                         [] goes /\ s \in succ /\ left[s] = 0 ->
                              [NotSubmitted EXCEPT !.pc = "queued"]
                         [] OTHER -> c.at[s]]]
      /\ UNCHANGED <<runs, nodeRuns>> /\ UNCHANGED Others

\* A tool that outlived its timeout returns; nobody looks at its result.
LateToolEnds(t) ==
  /\ call[t].late > 0
  /\ call' = [call EXCEPT ![t].late = @ - 1]
  /\ UNCHANGED <<runs, nodeRuns>> /\ UNCHANGED Others

FinalStatusIgnoresPause(c) == IF c.failed THEN "DeadLetter" ELSE "Succeeded"

\* What execute() records when nothing is outstanding any more: a pause comes
\* before a failure.
FinalStatus(c) ==
  CASE c.paused -> "WaitingForApproval"
    [] ~c.paused /\ c.failed -> "DeadLetter"
    [] OTHER -> "Succeeded"

\* outstanding is 0, the pool is joined and every late tool has returned.
Settle(t) ==
  /\ call[t].pc = "run"
  /\ Pending(call[t]) = {}
  /\ call[t].late = 0
  /\ runs' = transitionRunStatus(runs, call[t].run, FinalStatus(call[t]))
  /\ call' = [call EXCEPT ![t].pc = "return"]
  /\ UNCHANGED nodeRuns /\ UNCHANGED Others

\* ActiveGuard's destructor, after the run's status is already visible.
Return(t) ==
  /\ call[t].pc = "return"
  /\ active' = active - 1
  /\ call' = [call EXCEPT ![t] = NoCall]
  /\ UNCHANGED <<cfg, runs, nodeRuns, shared, crashes, resumes>>

-----------------------------------------------------------------------------
(* resume(): read the run, mark what was waiting, execute what is left.    *)

Inside(u, r) == call[u].run = r /\ call[u].pc \notin {"idle", "return"}

\* getRun: only a run that waits for approval is resumed.
resume(t, r) ==
  /\ call[t].pc = "idle"
  /\ resumes < MaxResumes
  /\ runs[r].status = "WaitingForApproval"
  /\ call' = [call EXCEPT ![t] = [NoCall EXCEPT !.pc = "mark", !.run = r,
                                              !.graph = runs[r].dsl]]
  /\ resumes' = resumes + 1
  /\ shared' = IF \E u \in Callers : Inside(u, r)
                   THEN shared \cup {r} ELSE shared
  /\ UNCHANGED <<cfg, runs, nodeRuns, active, crashes>>

\* The nodes that are not done, with the dependencies that are not done.
Trimmed(dsl, done) ==
  [n \in DOMAIN dsl \ done |-> [dsl[n] EXCEPT !.deps = @ \ done]]

\* Every node that waits becomes Succeeded, whichever of them was approved.
MarkApproved(t) ==
  LET c == call[t]
      waiting == listNodeRuns(nodeRuns, c.run, {"WaitingForApproval"})
      done == Done(nodeRuns, c.run) \cup waiting
  IN  /\ c.pc = "mark"
      /\ nodeRuns' = [nodeRuns EXCEPT ![c.run] =
                         [n \in DOMAIN @ |-> [k \in DOMAIN @[n] |->
                            IF @[n][k] = "WaitingForApproval"
                            THEN "Succeeded" ELSE @[n][k]]]]
      /\ call' = [call EXCEPT ![t].pc = "rerun",
                              ![t].graph = Trimmed(c.graph, done)]
      /\ UNCHANGED runs /\ UNCHANGED Others

\* Back to Running before execute() has admitted the call.
Rerun(t) ==
  /\ call[t].pc = "rerun"
  /\ runs' = transitionRunStatus(runs, call[t].run, "Running")
  /\ call' = [call EXCEPT ![t].pc = "enter"]
  /\ UNCHANGED nodeRuns /\ UNCHANGED Others

\* The process stops and starts again: the in-memory store loses its runs,
\* the SQLite store keeps them, and no run is taken up by itself.
Restart ==
  /\ crashes < MaxCrashes
  /\ crashes' = crashes + 1
  /\ active' = 0
  /\ call' = [t \in Callers |-> NoCall]
  /\ runs' = IF cfg.durable THEN runs ELSE [r \in RunIds |-> NoRun]
  /\ nodeRuns' = IF cfg.durable THEN nodeRuns ELSE [r \in RunIds |-> << >>]
  /\ shared' = IF cfg.durable THEN shared ELSE {}
  /\ UNCHANGED <<cfg, resumes>>

-----------------------------------------------------------------------------
RunNode(t, n) ==
  \/ StartNode(t, n) \/ AskApproval(t, n) \/ Pause(t, n) \/ LetThrough(t, n)
  \/ SkipNode(t, n) \/ Attempt(t, n) \/ ToolSucceeds(t, n) \/ ToolFails(t, n)
  \/ ToolTimesOut(t, n) \/ DeadLetter(t, n) \/ FinishNode(t, n)

Execute(t) ==
  \/ Enter(t) \/ Backpressure(t) \/ checkAutonomyOrCancel(t) \/ Refused(t)
  \/ Dispatch(t) \/ LateToolEnds(t) \/ Settle(t) \/ Return(t)
  \/ MarkApproved(t) \/ Rerun(t)
  \/ \E n \in DOMAIN call[t].at : RunNode(t, n)

WorkflowNext ==
  \/ \E t \in Callers : processWorkflowRequest(t) \/ Execute(t)
  \/ \E t \in Callers, r \in RunIds : resume(t, r)
  \/ Restart

\* The threads of a call run, a tool that was started ends, and a late one
\* returns in the end; nobody has to submit, resume or restart anything.
WorkflowFair == \A t \in Callers : WF_wvars(Execute(t))

WorkflowSpec == WorkflowInit /\ [][WorkflowNext]_wvars /\ WorkflowFair

-----------------------------------------------------------------------------

\* A run recorded as Succeeded has every node of its DSL Succeeded or Skipped,
\* over all the calls that worked on it.
SucceededMeansDone ==
  \A r \in RunIds \ shared :
    runs[r].status = "Succeeded" => Done(nodeRuns, r) = DOMAIN runs[r].dsl

\* A call of execute() returns, whatever its tools do as long as they end:
\* cancelled and paused nodes are not waited for, and none is lost.
ExecutionEnds ==
  \A t \in Callers : call[t].pc = "enter" ~> call[t].pc = "idle"
=============================================================================

---------------------------- MODULE SelfHealing ----------------------------
(***************************************************************************)
(* The loops that watch the gateway and act on what they see               *)
(* (src/observe/recovery, src/observe/cost_optimizer.cpp,                   *)
(* src/observe/alerting.cpp).  Each of them must not act twice within a     *)
(* cooldown, and each is called by several threads:                         *)
(*   "runbook"  ring buffers of events and log lines -> RootCauseAnalyzer   *)
(*              -> RunbookEngine -> a proposal, with both files reloaded    *)
(*              underneath;                                                 *)
(*   "cost"     CostOptimizer's recommendations, proposed once a window;    *)
(*   "alert"    AlertManager's rules, evaluated by every request.           *)
(***************************************************************************)
EXTENDS Integers, Sequences, FiniteSets, SequencesExt

CONSTANTS Healers,
          RuleFiles,      \* what a file of RCA rules may hold
          RunbookDirs,    \* what a directory of runbooks may hold
          HistoryCap,     \* capacity of each ring buffer
          Lookback,       \* how far back the signals are collected
          CostModels, MinRequests, MinQuality, MaxLoss, DedupWindow,
          AlertRules, MaxAlerts,
          MaxHealClock, MaxInputs   \* bounds: the clock, the inputs of one behaviour

VARIABLES strand,      \* the loop this behaviour is about
          healClock, inputs,
          history, logs,                      \* FeedbackEventHistory, LogRingbufferSink
          rules, runbooks, last,              \* the analyzer's rules, the engine's books
          stats, dedup,                       \* CostOptimizer
          lastFired, alerts, metric,          \* AlertManager and the counter it reads
          job                                 \* what each thread is doing

hvars == <<strand, healClock, inputs, history, logs, rules, runbooks, last, stats, dedup,
           lastFired, alerts, metric, job>>
signalVars == <<history, logs>>
bookVars   == <<rules, runbooks, last>>
costVars   == <<stats, dedup>>
alertVars  == <<lastFired, alerts, metric>>

Never == -1
NoJob  == [pc |-> "idle", now |-> 0, signals |-> << >>, hyps |-> {}, todo |-> << >>,
          raced |-> {}]

BookIds == {b.id : b \in UNION {Range(dir) : dir \in RunbookDirs}}
AlertIds == {AlertRules[i].id : i \in DOMAIN AlertRules}
Switches == {s \in CostModels \X CostModels : s[1] # s[2]}

HealInit ==
  /\ strand \in {"runbook", "cost", "alert"}
  /\ healClock = 0 /\ inputs = 0
  /\ history = << >> /\ logs = << >>
  /\ rules = << >> /\ runbooks = << >> /\ last = [b \in BookIds |-> Never]
  /\ stats = [m \in CostModels |-> [cost |-> 0, quality |-> 0, count |-> 0]]
  /\ dedup = [s \in Switches |-> Never]
  /\ lastFired = [r \in AlertIds |-> Never] /\ alerts = << >> /\ metric = 0
  /\ job = [t \in Healers |-> NoJob]

Input == inputs < MaxInputs /\ inputs' = inputs + 1

\* A thread that acts on x spoils it for the others that decided on x already.
Spoil(t, x) == [u \in Healers |-> IF u # t /\ job[u].pc \in {"act", "propose"}
                                  THEN [job[u] EXCEPT !.raced = @ \cup {x}] ELSE job[u]]

-----------------------------------------------------------------------------
(* The ring buffers. *)

Ring(buffer, e) ==
  Append(IF Len(buffer) >= HistoryCap THEN Tail(buffer) ELSE buffer, e)

snapshotSince(buffer, since) == SelectSeq(buffer, LAMBDA at : at > since)

onEvent ==
  /\ strand = "runbook" /\ Input /\ history' = Ring(history, healClock)
  /\ UNCHANGED <<strand, healClock, logs, bookVars, costVars, alertVars, job>>

sink_it_ ==
  /\ strand = "runbook" /\ Input /\ logs' = Ring(logs, healClock)
  /\ UNCHANGED <<strand, healClock, history, bookVars, costVars, alertVars, job>>

-----------------------------------------------------------------------------
(* Rules and runbooks, and their reload: all of the files or none of them.   *)

Kinds == {"metric", "feedback", "log"}

ParsesRule(r) == r.id # "none" /\ r.conditions # << >>
                 /\ \A i \in DOMAIN r.conditions : r.conditions[i].kind \in Kinds

parseRunbook(b) ==
  /\ b.id # "none" /\ b.triggers # << >> /\ b.actions # << >>
  /\ \A i \in DOMAIN b.triggers : b.triggers[i].kind \in {"metric", "feedback", "rca"}
  /\ \A i \in DOMAIN b.actions : b.actions[i] # "none"

\* A file without any rule is not refused: it empties the analyzer.
reloadRules(file) ==
  /\ strand = "runbook" /\ Input
  /\ rules' = IF \A i \in DOMAIN file : ParsesRule(file[i]) THEN file ELSE rules
  /\ UNCHANGED <<strand, healClock, signalVars, runbooks, last, costVars, alertVars, job>>

\* The cooldowns survive: they belong to the id, not to the runbook.
reloadRunbooks(dir) ==
  /\ strand = "runbook" /\ Input
  /\ runbooks' = IF dir # << >> /\ (\A i \in DOMAIN dir : parseRunbook(dir[i]))
                 THEN dir ELSE runbooks
  /\ UNCHANGED <<strand, healClock, signalVars, rules, last, costVars, alertVars, job>>

-----------------------------------------------------------------------------
(* RootCauseAnalyzer::analyze; scores are in tenths. *)

Matches(c, signals) ==
  CASE c.kind = "metric" -> signals.metric > c.value
    [] c.kind = "feedback" -> Len(signals.events) >= c.value
    [] OTHER -> Len(signals.logs) >= c.value

scoreRule(r, matched) ==
  IF matched < r.min THEN 0
  ELSE IF r.per * matched < r.all THEN r.per * matched ELSE r.all

OutputThreshold == 3

analyze(signals) ==
  {h \in {[rule |-> rules[i].id,
           score |-> scoreRule(rules[i],
             Cardinality({k \in DOMAIN rules[i].conditions :
                            Matches(rules[i].conditions[k], signals)}))] :
            i \in DOMAIN rules} : h.score >= OutputThreshold}

-----------------------------------------------------------------------------
(* RunbookEngine::evaluate: any trigger, unless the runbook is cooling down. *)

Fires(trigger, signals, hyps) ==
  IF trigger.kind = "rca"
  THEN \E h \in hyps : h.rule = trigger.rule /\ h.score >= trigger.value
  ELSE Matches(trigger, signals)

CoolingSameInstant(b, now) == last[b.id] = now

Cooling(b, now) == last[b.id] # Never /\ now - last[b.id] < b.cooldown

evaluate(signals, hyps, now) ==
  SelectSeq(runbooks, LAMBDA b :
    ~Cooling(b, now) /\ \E i \in DOMAIN b.triggers : Fires(b.triggers[i], signals, hyps))

\* The loop the engine's header describes: collect, analyze, evaluate, then per
\* match build the proposal, hand it to the approval workflow, mark the runbook.
Collect(t) ==
  /\ strand = "runbook" /\ job[t].pc = "idle" /\ Input
  /\ \E m \in {0, 1} :
       job' = [job EXCEPT ![t].pc = "analyze",
                 ![t].signals = [metric |-> m,
                                 events |-> snapshotSince(history, healClock - Lookback),
                                 logs   |-> snapshotSince(logs, healClock - Lookback)]]
  /\ UNCHANGED <<strand, healClock, signalVars, bookVars, costVars, alertVars>>

Analyze(t) ==
  /\ job[t].pc = "analyze"
  /\ job' = [job EXCEPT ![t].pc = "evaluate", ![t].hyps = analyze(job[t].signals)]
  /\ UNCHANGED <<strand, healClock, inputs, signalVars, bookVars, costVars, alertVars>>

EvaluateRunbooks(t) ==
  LET found == evaluate(job[t].signals, job[t].hyps, healClock) IN
  /\ job[t].pc = "evaluate"
  /\ job' = [job EXCEPT ![t] = IF found = << >> THEN NoJob
                               ELSE [NoJob EXCEPT !.pc = "act", !.todo = found]]
  /\ UNCHANGED <<strand, healClock, inputs, signalVars, bookVars, costVars, alertVars>>

markTriggered(t) ==
  LET b == Head(job[t].todo) IN
  /\ job[t].pc = "act"
  /\ last' = [last EXCEPT ![b.id] = healClock]
  /\ job' = [Spoil(t, b.id) EXCEPT ![t] =
               IF Len(@.todo) = 1 THEN NoJob ELSE [@ EXCEPT !.todo = Tail(@)]]
  /\ UNCHANGED <<strand, healClock, inputs, signalVars, rules, runbooks, costVars, alertVars>>

-----------------------------------------------------------------------------
(* CostOptimizer.  A recommendation is a switch to a model with less cost    *)
(* per quality, which has been good enough and loses little.                 *)

recordUsage(m, cost, quality) ==
  /\ strand = "cost" /\ Input
  /\ stats' = [stats EXCEPT ![m] = [cost |-> @.cost + cost, quality |-> @.quality + quality,
                                    count |-> @.count + 1]]
  /\ UNCHANGED <<strand, healClock, dedup, signalVars, bookVars, alertVars, job>>

\* avg_cost / avg_quality, the counts cancel; no quality counts as no cost.
LessPerQuality(a, b) ==
  CASE a.quality > 0 /\ b.quality > 0 -> a.cost * b.quality < b.cost * a.quality
    [] a.quality = 0 -> b.quality > 0 /\ b.cost > 0
    [] OTHER -> FALSE

getRecommendations ==
  {s \in Switches :
     LET cur == stats[s[1]]
         new == stats[s[2]]
     IN  /\ cur.count >= MinRequests /\ new.count >= MinRequests
         /\ new.quality >= MinQuality * new.count
         /\ cur.quality * new.count - new.quality * cur.count
              <= MaxLoss * cur.count * new.count
         /\ LessPerQuality(new, cur)}

proposeRecommendations(t) ==
  /\ strand = "cost" /\ job[t].pc = "idle" /\ getRecommendations # {} /\ Input
  /\ job' = [job EXCEPT ![t] = [NoJob EXCEPT !.pc = "dedup", !.now = healClock,
                                  !.todo = SetToSeq(getRecommendations)]]
  /\ UNCHANGED <<strand, healClock, signalVars, bookVars, costVars, alertVars>>

NextSwitch(t) == [job EXCEPT ![t] = IF Len(@.todo) = 1 THEN NoJob
                                    ELSE [@ EXCEPT !.pc = "dedup", !.todo = Tail(@)]]

Dedup(t) ==
  LET s == Head(job[t].todo) IN
  /\ job[t].pc = "dedup"
  /\ job' = IF dedup[s] # Never /\ job[t].now - dedup[s] < DedupWindow
            THEN NextSwitch(t) ELSE [job EXCEPT ![t].pc = "propose"]
  /\ UNCHANGED <<strand, healClock, inputs, signalVars, bookVars, costVars, alertVars>>

\* The workflow takes the proposal, and only then is the switch remembered.
Proposed(t) ==
  LET s == Head(job[t].todo) IN
  /\ job[t].pc = "propose"
  /\ dedup' = [dedup EXCEPT ![s] = job[t].now]
  /\ job' = [Spoil(t, s) EXCEPT ![t] = NextSwitch(t)[t]]
  /\ UNCHANGED <<strand, healClock, inputs, stats, signalVars, bookVars, alertVars>>

ProposalRefused(t) ==
  /\ job[t].pc = "propose"
  /\ job' = NextSwitch(t)
  /\ UNCHANGED <<strand, healClock, inputs, signalVars, bookVars, costVars, alertVars>>

-----------------------------------------------------------------------------
(* AlertManager: a copy of the rules, then per rule a read of the metric and  *)
(* the threshold and cooldown checks under the lock.                         *)

Count == /\ strand = "alert" /\ Input /\ metric' = metric + 1
         /\ UNCHANGED <<strand, healClock, lastFired, alerts, signalVars, bookVars, costVars, job>>

process(t) ==
  /\ strand = "alert" /\ job[t].pc = "idle" /\ Input
  /\ job' = [job EXCEPT ![t] = [NoJob EXCEPT !.pc = "read",
               !.todo = SelectSeq(AlertRules, LAMBDA r : r.enabled)]]
  /\ UNCHANGED <<strand, healClock, signalVars, bookVars, costVars, alertVars>>

ReadMetric(t) ==
  /\ job[t].pc = "read"
  /\ job' = [job EXCEPT ![t].pc = "fire", ![t].now = metric]
  /\ UNCHANGED <<strand, healClock, inputs, signalVars, bookVars, costVars, alertVars>>

Suppressed(r) == r.cooldown > 0 /\ lastFired[r.id] # Never
                 /\ healClock - lastFired[r.id] < r.cooldown

fireRuleLocked(t) ==
  LET r == Head(job[t].todo) IN
  /\ job[t].pc = "fire"
  /\ IF job[t].now < r.threshold \/ Suppressed(r) THEN UNCHANGED <<lastFired, alerts>>
     ELSE /\ lastFired' = IF r.cooldown > 0 THEN [lastFired EXCEPT ![r.id] = healClock]
                          ELSE lastFired
          /\ alerts' = Append(IF Len(alerts) >= MaxAlerts THEN Tail(alerts) ELSE alerts,
                              [rule |-> r.id, at |-> healClock])
  /\ job' = [job EXCEPT ![t] = IF Len(@.todo) = 1 THEN NoJob
                               ELSE [@ EXCEPT !.pc = "read", !.todo = Tail(@)]]
  /\ UNCHANGED <<strand, healClock, inputs, metric, signalVars, bookVars, costVars>>

\* The list is emptied, the cooldowns stay.
clearAlerts ==
  /\ strand = "alert" /\ Input /\ alerts # << >> /\ alerts' = << >>
  /\ UNCHANGED <<strand, healClock, lastFired, metric, signalVars, bookVars, costVars, job>>

-----------------------------------------------------------------------------
HealTick == /\ healClock < MaxHealClock /\ healClock' = healClock + 1
        /\ UNCHANGED <<strand, inputs, signalVars, bookVars, costVars, alertVars, job>>

HealNext ==
  \/ HealTick \/ onEvent \/ sink_it_ \/ Count \/ clearAlerts
  \/ \E file \in RuleFiles : reloadRules(file)
  \/ \E dir \in RunbookDirs : reloadRunbooks(dir)
  \/ \E m \in CostModels, c \in {1, 2}, q \in {0, 1} : recordUsage(m, c, q)
  \/ \E t \in Healers :
       \/ Collect(t) \/ Analyze(t) \/ EvaluateRunbooks(t) \/ markTriggered(t)
       \/ proposeRecommendations(t) \/ Dedup(t) \/ Proposed(t) \/ ProposalRefused(t)
       \/ process(t) \/ ReadMetric(t) \/ fireRuleLocked(t)

HealSpec == HealInit /\ [][HealNext]_hvars

-----------------------------------------------------------------------------
\* A runbook does not act again before its cooldown is over, reloads of the
\* runbooks in between included, unless another thread acted on it between this
\* thread's evaluate() and markTriggered(): the two calls are not one step.
CooldownKept ==
  [][\A t \in Healers : markTriggered(t) =>
       LET b == Head(job[t].todo) IN
       b.id \in job[t].raced \/ last[b.id] = Never
         \/ healClock - last[b.id] >= b.cooldown]_hvars
=============================================================================

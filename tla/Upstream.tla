------------------------------ MODULE Upstream ------------------------------
(***************************************************************************)
(* How a chat call reaches an upstream model: FallbackManager walks the    *)
(* candidate models, asking the circuit breaker about each; the connector  *)
(* of the model tries API keys until one attempt answers; the answer is    *)
(* reported to the balancer and then to the circuit breaker.  Both forms   *)
(* are modelled: complete(), where the calling thread waits for the        *)
(* answer, and streaming, where the steps are callbacks of the upstream    *)
(* client.  OpenAIConnector and ClaudeConnector run the same algorithm.    *)
(* A step of a call enters at most one critical section shared with other  *)
(* calls, the balancer's or that of a circuit shard.  One provider, hence  *)
(* one balancer, serves the models.                                        *)
(***************************************************************************)
EXTENDS FiniteSets, Integers, Sequences, Functions

(***************************************************************************)
(* CircuitBreaker: one circuit per model, created on first use, in one of  *)
(* 16 shards, which forgets its least recently used circuit when it is     *)
(* full and any circuit left idle for circuit_idle_ttl.  Each operation    *)
(* holds the shard's mutex throughout, so each is one step.  The clock is  *)
(* abstracted to whether reset_timeout has passed since the last failure,  *)
(* kept while the circuit is open.  failure_count is only compared with    *)
(* the threshold, so it stops there.  The order of use and the hash that   *)
(* picks the shard are left out: any circuit may be the one forgotten.     *)
(***************************************************************************)

CONSTANTS
  Models,
  FailureThreshold,    \* failure_threshold
  HalfOpenMaxCalls     \* half_open_max_calls

ASSUME BreakerAssumption ==
  /\ FailureThreshold \in Nat \ {0}
  /\ HalfOpenMaxCalls \in Nat \ {0}

VARIABLES circuits     \* circuits[m]: the circuit of m, Fresh when there is none

Fresh == [state |-> "Closed", failures |-> 0, halfOpenCalls |-> 0, timedOut |-> FALSE]

CircuitType ==
  [state : {"Closed", "Open", "HalfOpen"}, failures : 0 .. FailureThreshold,
   halfOpenCalls : 0 .. HalfOpenMaxCalls, timedOut : BOOLEAN]

BreakerInit == circuits = [m \in Models |-> Fresh]

\* half_open_calls is not reset.
EffectiveSlotsKept(c) ==
  IF c.state = "Open" /\ c.timedOut
  THEN [c EXCEPT !.state = "HalfOpen", !.timedOut = FALSE]
  ELSE c

\* evaluateEffectiveState.
Effective(c) ==
  IF c.state = "Open" /\ c.timedOut
  THEN [c EXCEPT !.state = "HalfOpen", !.halfOpenCalls = 0, !.timedOut = FALSE]
  ELSE c

\* Whether allowRequest lets a call through, once the state is up to date.
Admits(c) ==
  \/ c.state = "Closed"
  \/ c.state = "HalfOpen" /\ c.halfOpenCalls < HalfOpenMaxCalls

AllowRequest(m, allowed) ==
  LET c == Effective(circuits[m]) IN
  /\ allowed = Admits(c)
  /\ circuits' = [circuits EXCEPT ![m] =
       IF allowed /\ c.state = "HalfOpen" THEN [c EXCEPT !.halfOpenCalls = @ + 1] ELSE c]

RecordSuccess(m) ==
  circuits' = [circuits EXCEPT ![m].failures = 0, ![m].state = "Closed", ![m].timedOut = FALSE]

\* A failure in the half-open state is counted, but does not open the circuit again.
RecordFailureStaysHalfOpen(m) ==
  LET failures == IF circuits[m].failures < FailureThreshold
                  THEN circuits[m].failures + 1 ELSE FailureThreshold IN
  circuits' = [circuits EXCEPT
       ![m].failures = failures,
       ![m].timedOut = FALSE,
       ![m].state = IF @ # "HalfOpen" /\ failures = FailureThreshold THEN "Open" ELSE @]

RecordFailure(m) ==
  LET failures == IF circuits[m].failures < FailureThreshold
                  THEN circuits[m].failures + 1 ELSE FailureThreshold IN
  circuits' = [circuits EXCEPT
       ![m].failures = failures,
       ![m].timedOut = FALSE,
       ![m].state = IF @ = "HalfOpen" \/ failures = FailureThreshold THEN "Open" ELSE @]

\* state() and exportMetrics(): reading a circuit brings its state up to date.
ReadState(m) == circuits' = [circuits EXCEPT ![m] = Effective(@)]

\* reset_timeout passes on the clock the next operation reads.
ResetTimeoutPasses(m) ==
  /\ circuits[m].state = "Open" /\ ~ circuits[m].timedOut
  /\ circuits' = [circuits EXCEPT ![m].timedOut = TRUE]

\* circuitFor, for another model of a full shard or for m after its idle TTL,
\* drops the circuit of m: the next use starts from a new one.
Forget(m) ==
  /\ circuits[m] # Fresh
  /\ circuits' = [circuits EXCEPT ![m] = Fresh]

-----------------------------------------------------------------------------
(***************************************************************************)
(* Balancer: the API keys of one provider, handed out by smooth weighted   *)
(* round robin among the healthy ones.  A key with MaxConsecutiveFailures  *)
(* failures in a row is set aside until its cooldown is over.  Every       *)
(* operation holds the mutex throughout.  The clock is abstracted to       *)
(* whether the cooldown is over, and consecutive_failures, only compared   *)
(* with the maximum, stops there.                                          *)
(***************************************************************************)

CONSTANTS
  Keys,                    \* keys_: the keys in the order of the configuration
  Weight,                  \* Weight[k]
  NoKey,                   \* the empty string nextKey returns
  MaxConsecutiveFailures   \* kMaxConsecutiveFailures

KeySet == Range(Keys)

ASSUME BalancerAssumption ==
  /\ IsInjective(Keys) /\ NoKey \notin KeySet
  /\ Weight \in [KeySet -> Nat \ {0}]
  /\ MaxConsecutiveFailures \in Nat \ {0}

VARIABLES keys             \* keys[k]: the KeyState of k

FreshKey == [cw |-> 0, healthy |-> TRUE, failures |-> 0, cooled |-> FALSE]

KeyType == [cw : Int, healthy : BOOLEAN, failures : 0 .. MaxConsecutiveFailures,
            cooled : BOOLEAN]

BalancerInit == keys = [k \in KeySet |-> FreshKey]

\* The first loop of nextKey: keys whose cooldown is over are healthy again.
Recovered == [k \in KeySet |-> IF ~ keys[k].healthy /\ keys[k].cooled THEN FreshKey ELSE keys[k]]

\* The second loop: the healthy key with the largest current weight, the first one of several.
Best(ks, healthy) ==
  CHOOSE k \in healthy :
    LET cw(j) == ks[j].cw + Weight[j]
        Place(j) == CHOOSE i \in DOMAIN Keys : Keys[i] = j IN
    \A j \in healthy : cw(k) > cw(j) \/ (cw(k) = cw(j) /\ Place(k) <= Place(j))

NextKey(key) ==
  LET ks == Recovered
      healthy == {k \in KeySet : ks[k].healthy}
      total == FoldFunction(LAMBDA a, b : a + b, 0, [k \in healthy |-> Weight[k]]) IN
  /\ key = IF healthy = {} THEN NoKey ELSE Best(ks, healthy)
  /\ keys' = [k \in KeySet |->
       IF k \in healthy
       THEN [ks[k] EXCEPT !.cw = @ + Weight[k] - (IF k = key THEN total ELSE 0)]
       ELSE ks[k]]

ReportSuccess(key) ==
  keys' = [keys EXCEPT ![key].failures = 0, ![key].healthy = TRUE, ![key].cooled = FALSE]

ReportFailure(key) ==
  LET failures == IF keys[key].failures < MaxConsecutiveFailures
                  THEN keys[key].failures + 1 ELSE MaxConsecutiveFailures IN
  keys' = [keys EXCEPT
    ![key].failures = failures,
    ![key].healthy = @ /\ failures < MaxConsecutiveFailures,
    ![key].cooled = @ /\ failures < MaxConsecutiveFailures]

\* The cooldown of k passes on the clock nextKey reads.
CooldownPasses(k) ==
  /\ ~ keys[k].healthy /\ ~ keys[k].cooled
  /\ keys' = [keys EXCEPT ![k].cooled = TRUE]

-----------------------------------------------------------------------------
CONSTANTS
  Calls,          \* the calls the gateway makes, one after the other on each
  Primaries,      \* models the router selects
  Chain,          \* chains_: Chain[m] is the sequence of fallbacks of m
  Served,         \* models a connector is registered for
  Streaming,      \* the calls made by streamWithFallback
  MaxAttempts,    \* max_retries + 1
  MaxInFlight     \* bound: calls running at the same time

ASSUME UpstreamAssumption ==
  /\ Primaries \subseteq Models /\ Served \subseteq Models
  /\ Chain \in [Models -> Seq(Models)]
  /\ Streaming \subseteq Calls /\ IsFiniteSet(Calls)
  /\ MaxAttempts \in Nat \ {0} /\ MaxInFlight \in Nat

VARIABLES
  call,           \* call[c]: the locals of the call, or its shared callback state
  client          \* client[c]: what the caller has seen of the call it made last

vars == <<circuits, keys, client, call>>

\* todo: the candidates left, the current one first.  tried, status, seen: the
\* retry state of the connector.  attempted, open, noKeys, saw, sent: the flags of
\* the fallback loop.  answered: whether any HTTP status came back (history).
NewCall(pc, todo) ==
  [pc |-> pc, todo |-> todo, key |-> NoKey,
   tried |-> {}, status |-> "none", seen |-> FALSE, err |-> "default",
   attempted |-> FALSE, open |-> FALSE, noKeys |-> TRUE, saw |-> FALSE,
   sent |-> FALSE, answered |-> FALSE]

Idle == NewCall("idle", <<>>)

CallType ==
  [pc : {"idle", "model", "key", "wait", "succeed", "fail"},
   todo : Seq(Models), key : KeySet \cup {NoKey}, tried : SUBSET KeySet,
   status : {"none", "http", "transport"}, seen : BOOLEAN,
   err : {"default", "keys", "status", "fatal", "other"},
   attempted : BOOLEAN, open : BOOLEAN, noKeys : BOOLEAN, saw : BOOLEAN,
   sent : BOOLEAN, answered : BOOLEAN]

TypeOK ==
  /\ circuits \in [Models -> CircuitType]
  /\ keys \in [KeySet -> KeyType]
  /\ client \in [Calls -> {"idle", "waiting", "streaming", "done", "failed"}]
  /\ call \in [Calls -> CallType]

Init ==
  /\ BreakerInit /\ BalancerInit
  /\ call = [c \in Calls |-> Idle]
  /\ client = [c \in Calls |-> "idle"]

Model(c) == Head(call[c].todo)
Set(c, r) == call' = [call EXCEPT ![c] = r]

\* The callback the caller gets, or what complete() returns to it.
Sees(c, what) == client' = [client EXCEPT ![c] = what]

\* executeWithFallback and streamWithFallback: the list of candidates.
Begin(c) ==
  /\ call[c].pc = "idle"
  /\ Cardinality({d \in Calls : call[d].pc # "idle"}) < MaxInFlight
  /\ \E m \in Primaries : Set(c, NewCall("model", <<m>> \o Chain[m]))
  /\ Sees(c, "waiting")
  /\ UNCHANGED <<circuits, keys>>

\* One turn of the loop over the candidates, up to the call of the connector.
TryModel(c) ==
  /\ call[c].pc = "model" /\ call[c].todo # <<>>
  /\ \E allowed \in BOOLEAN :
       /\ AllowRequest(Model(c), allowed)
       /\ Set(c, IF ~ allowed
                 THEN [call[c] EXCEPT !.open = TRUE, !.todo = Tail(@)]
                 ELSE IF Model(c) \notin Served
                 THEN [call[c] EXCEPT !.todo = Tail(@)]
                 ELSE [call[c] EXCEPT !.pc = "key", !.attempted = TRUE])
  /\ UNCHANGED <<keys, client>>

\* No candidate is left.
OutOfModels(c) ==
  /\ call[c].pc = "model" /\ call[c].todo = <<>>
  /\ Set(c, Idle)
  /\ Sees(c, "failed")
  /\ UNCHANGED <<circuits, keys>>

\* complete() throws, or surface_exhaustion() calls onError.
Exhausted(r) == [r EXCEPT !.pc = "fail", !.err = IF r.status = "http" THEN "status" ELSE "keys"]

\* The next key of the balancer, if it may be used for this call.
PickKey(c) ==
  /\ call[c].pc = "key"
  /\ \E key \in KeySet \cup {NoKey} :
       /\ NextKey(key)
       /\ Set(c, IF key = NoKey \/ key \in call[c].tried
                    \/ Cardinality(call[c].tried) >= MaxAttempts
                 THEN Exhausted(call[c])
                 ELSE [call[c] EXCEPT !.pc = "wait", !.key = key, !.tried = @ \cup {key}])
  /\ UNCHANGED <<circuits, client>>

\* A line of the response body, which may or may not parse to a delta.  An error
\* response has a body too, and its lines come through the same callback.
Line(c) ==
  /\ call[c].pc = "wait" /\ c \in Streaming
  /\ \/ /\ Set(c, [call[c] EXCEPT !.seen = TRUE])
        /\ UNCHANGED client
     \/ /\ Set(c, [call[c] EXCEPT !.seen = TRUE, !.sent = TRUE])
        /\ Sees(c, "streaming")
  /\ UNCHANGED <<circuits, keys>>

\* first_chunk_seen is not tested.
CanRetryMidStream(r) == Cardinality(r.tried) < MaxAttempts

\* canRetryStream, for a failure another key may fix.
CanRetryStream(r) == ~ r.seen /\ Cardinality(r.tried) < MaxAttempts

\* Status 200, whose body complete() may fail to parse.
AnswerOk(c) ==
  /\ call[c].pc = "wait"
  /\ ReportSuccess(call[c].key)
  /\ \/ Set(c, [call[c] EXCEPT !.pc = "succeed", !.answered = c \notin Streaming])
     \/ /\ c \notin Streaming
        /\ Set(c, [call[c] EXCEPT !.pc = "fail", !.err = "other", !.answered = c \notin Streaming])
  /\ UNCHANGED <<circuits, client>>

\* Another status.  Its body holds no deltas.
AnswerStatus(c) ==
  /\ call[c].pc = "wait" /\ ~ call[c].sent
  /\ ReportFailure(call[c].key)
  /\ LET r == [call[c] EXCEPT !.status = "http", !.answered = c \notin Streaming] IN
     \E retryable \in BOOLEAN :
       Set(c, IF ~ retryable THEN [r EXCEPT !.pc = "fail", !.err = "fatal"]
              ELSE IF c \in Streaming /\ ~ CanRetryStream(r) THEN Exhausted(r)
              ELSE [r EXCEPT !.pc = "key"])
  /\ UNCHANGED <<circuits, client>>

\* A transport error or a timeout, in the middle of a body or before it.
AnswerTransport(c) ==
  /\ call[c].pc = "wait"
  /\ ReportFailure(call[c].key)
  /\ LET r == [call[c] EXCEPT !.status = "transport"] IN
     Set(c, IF c \notin Streaming THEN [call[c] EXCEPT !.pc = "key"]
            ELSE IF CanRetryStream(r) THEN [r EXCEPT !.pc = "key"]
            ELSE IF r.seen THEN [r EXCEPT !.pc = "fail", !.err = "other"]
            ELSE Exhausted(r))
  /\ UNCHANGED <<circuits, client>>

Succeed(c) ==
  /\ call[c].pc = "succeed"
  /\ RecordSuccess(Model(c))
  /\ Set(c, Idle)
  /\ Sees(c, "done")
  /\ UNCHANGED keys

\* The catch block of executeWithFallback.
Caught(r) ==
  [r EXCEPT !.noKeys = @ /\ r.err = "keys", !.saw = @ \/ r.err \in {"status", "fatal"},
            !.err = "default"]

\* The next candidate, with a new retry state.
NextCandidate(c, r) ==
  [(IF c \in Streaming THEN r ELSE Caught(r)) EXCEPT
     !.pc = "model", !.todo = Tail(@), !.key = NoKey, !.tried = {}, !.status = "none", !.seen = FALSE]

Fail(c) ==
  /\ call[c].pc = "fail"
  /\ RecordFailure(Model(c))
  /\ IF call[c].sent
     THEN Set(c, Idle) /\ Sees(c, "failed")
     ELSE Set(c, NextCandidate(c, call[c])) /\ UNCHANGED client
  /\ UNCHANGED keys

Step(c) ==
  \/ TryModel(c) \/ OutOfModels(c) \/ PickKey(c)
  \/ Line(c) \/ AnswerOk(c) \/ AnswerStatus(c) \/ AnswerTransport(c)
  \/ Succeed(c) \/ Fail(c)

\* What the rest of the process and the clock do to the circuits and the keys.
Around ==
  \/ \E m \in Models : (ReadState(m) \/ ResetTimeoutPasses(m) \/ Forget(m))
                        /\ UNCHANGED <<keys, client, call>>
  \/ \E k \in KeySet : CooldownPasses(k) /\ UNCHANGED <<circuits, client, call>>

Next == (\E c \in Calls : Begin(c) \/ Step(c)) \/ Around

Spec == Init /\ [][Next]_vars

\* A thread or a callback that can run does; libcurl's timeout ends every transfer;
\* the clock advances.
Fairness ==
  /\ \A c \in Calls : WF_vars(Step(c))
  /\ \A m \in Models : WF_vars(ResetTimeoutPasses(m) /\ UNCHANGED <<keys, client, call>>)

FairSpec == Spec /\ Fairness

-----------------------------------------------------------------------------

InFlight(m) == {c \in Calls : call[c].pc \in {"key", "wait", "succeed", "fail"} /\ Model(c) = m}

\* A half-open circuit never has more slots taken (half_open_calls) than there are
\* calls in flight for the model, each of which will close or reopen it when it
\* ends: no slot leaks, whatever calls begun in an earlier state report meanwhile.
ProbesAccounted ==
  \A m \in Models : circuits[m].state = "HalfOpen" =>
    circuits[m].halfOpenCalls <= Cardinality(InFlight(m))

\* The deltas of one stream come from one model and one key: once the client has
\* seen a delta, neither the connector's retry nor the fallback starts another attempt.
SingleSource ==
  [][\A c \in Calls : client[c] = "streaming" /\ client'[c] = "streaming" =>
       /\ call'[c].pc # "key" /\ call'[c].key = call[c].key
       /\ call'[c].todo = call[c].todo]_vars

\* Every call ends.
CallsEnd ==
  \A c \in Calls : client[c] \in {"waiting", "streaming"} ~> client[c] \in {"done", "failed"}

Tried(m) == \E c \in Calls : call[c].todo # <<>> /\ Model(c) = m /\ TryModel(c)
Admitted(m) == Tried(m) /\ \E c \in Calls : call[c].pc = "model" /\ call'[c].pc = "key"

\* A model that calls keep asking for is admitted again and again: its circuit
\* cannot stay open, or half-open with its slots taken, for ever.
BreakerRecovers ==
  \A m \in Served : []<><<Tried(m)>>_vars => []<><<Admitted(m)>>_vars

\* Before anything was sent to the client, a failure another key may fix is the
\* connector's last word only when the attempts are used up or every healthy key
\* was tried.
KeysTriedFirst ==
  [][\A c \in Calls : call[c].pc # "fail" /\ call'[c].pc = "fail"
       /\ call'[c].err \in {"keys", "status"} =>
       \/ Cardinality(call'[c].tried) >= MaxAttempts
       \/ \A k \in KeySet : keys'[k].healthy => k \in call'[c].tried]_vars
=============================================================================

---------------------------- MODULE ClusterState ----------------------------
(***************************************************************************)
(* The limits of a gateway process, and of a cluster of gateway nodes that *)
(* keep them in one Redis (RedisStateStore): token buckets, modality       *)
(* quotas, abuse windows and circuit breakers.  With Redis the bucket and  *)
(* the failure count change in one EVAL each; the abuse list and the       *)
(* half-open admission are read and written back in separate commands,     *)
(* between which other nodes run.                                          *)
(*                                                                         *)
(* setup picks the deployment and the limit that is exercised: limits of   *)
(* different kinds share no state.  The Redis keys' expiry is modelled for *)
(* the buckets and the blocks; abuse lists outlive the times in them, and  *)
(* a circuit's hash lasts an hour, longer than the instance's clock.       *)
(***************************************************************************)
EXTENDS Limits

CONSTANTS
  Nodes, Keys,        \* gateway nodes and client keys
  Modalities,         \* the modalities with a quota
  Users,              \* the keys whose requests have a modality
  Contents,           \* request contents
  Quota,              \* RateLimiter::Config of a modality: [cap, rate]
  BucketTtl,          \* the EX of a bucket key in Redis
  FailureThreshold, ResetTimeout, HalfOpenMax,   \* CircuitConfig
  Costs,              \* what requests cost, throttled ones more
  Skews,              \* how far a node's steady clock is ahead
  Parts,              \* the limits exercised: "rate", "abuse", "breaker"
  Faults,             \* whether Redis may become unreachable
  MaxTime,            \* bound: the clock
  MaxRejections       \* bound: rejections of a key within a window

ASSUME ClusterAssumption ==
  /\ BucketTtl * RefillRate >= MaxTokens
  /\ FailureThreshold \in Nat \ {0} /\ ResetTimeout \in Nat /\ HalfOpenMax \in Nat \ {0}
  /\ Skews \subseteq Nat /\ Skews # {} /\ Costs \subseteq Nat /\ BucketTtl \in Nat
  /\ Quota.cap \in Nat /\ Quota.rate \in Nat
  /\ IsFiniteSet(Nodes)

VARIABLES
  now,
  setup,            \* [redis, part, faults, skew]
  shard, quota,       \* the process's buckets and modality quotas
  windows,            \* the process's abuse windows
  redis,              \* [up, buckets, lists, blocks, circuit]
  node,               \* what each node is doing
  spent, since,       \* history: tokens admitted per key, and since when
  probing             \* history: half-open slots taken since the circuit was reset

clusterVars ==
  <<now, setup, shard, quota, windows, redis, node, spent, since, probing>>

Waiting == [at |-> "idle"]
Clock(n) == now + setup.skew[n]

NoCircuit == [state |-> "none", fails |-> 0, calls |-> 0, last |-> 0]

ClusterInit ==
  /\ now = 1
  /\ setup \in [redis : BOOLEAN, part : Parts, faults : Faults, skew : [Nodes -> Skews]]
  /\ setup.part = "breaker" \/ setup.faults => setup.redis
  /\ shard = NoBuckets /\ windows = NoKeys
  /\ quota \in {NoQuotas} \cup {setQuota(NoQuotas, m, Quota) : m \in Modalities}
  /\ setup.part # "rate" => quota = NoQuotas
  /\ redis = [up |-> TRUE, buckets |-> NoKeys, lists |-> NoKeys, blocks |-> NoKeys,
              circuit |-> NoCircuit]
  /\ node = [n \in Nodes |-> Waiting]
  /\ spent = NoKeys /\ since = NoKeys /\ probing = 0

\* Time passes, and with it the Redis keys that have an expiry.
Tick ==
  /\ now < MaxTime
  /\ now' = now + 1
  /\ redis' = [redis EXCEPT
       !.buckets = Without(@, {k \in DOMAIN @ : redis.buckets[k].expires <= now'}),
       !.blocks  = Without(@, {k \in DOMAIN @ : redis.blocks[k] <= now'})]
  /\ UNCHANGED <<setup, shard, quota, windows, node, spent, since, probing>>

\* Redis becomes unreachable, and comes back.
RedisFails ==
  /\ setup.faults
  /\ redis' = [redis EXCEPT !.up = ~@]
  /\ UNCHANGED <<now, setup, shard, quota, windows, node, spent, since, probing>>

\* A bucket is kept for a client key, or for a modality and a client key.
PlainKey(key) == <<"", key>>

(***************************************************************************)
(* Rate limits.                                                            *)
(***************************************************************************)
Spend(key, cost) ==
  /\ spent' = With(spent, key, cost + IF key \in DOMAIN spent THEN spent[key] ELSE 0)
  /\ since' = IF key \in DOMAIN since THEN since ELSE With(since, key, now)

\* The script run by rateLimitAllow.
kRateLimitLua(n, key, cost) ==
  LET t == Clock(n)
      b == IF key \in DOMAIN redis.buckets THEN redis.buckets[key]
           ELSE [tokens |-> MaxTokens, last |-> t, expires |-> 0]
      tokens == AtMost(MaxTokens, b.tokens + (t - b.last) * RefillRate)
      ok == tokens >= cost
  IN  [ok |-> ok,
       bucket |-> [tokens |-> IF ok THEN tokens - cost ELSE tokens, last |-> t,
                   expires |-> now + BucketTtl]]

\* rateLimitAllow; an unreachable Redis admits the request, and nothing is charged.
rateLimitAllow(n, key, cost) ==
  IF ~redis.up THEN UNCHANGED <<redis, spent, since>>
  ELSE LET r == kRateLimitLua(n, key, cost)
       IN  /\ redis' = [redis EXCEPT !.buckets = With(@, key, r.bucket)]
           /\ IF r.ok THEN Spend(key, cost) ELSE UNCHANGED <<spent, since>>

\* RateLimiter::allow, in the process or through Redis with the global limits.
Allow(n, key, cost) ==
  /\ setup.part = "rate"
  /\ node[n] = Waiting
  /\ IF setup.redis
     THEN rateLimitAllow(n, key, cost) /\ UNCHANGED shard
     ELSE LET r == allow(shard, key, cost, now)
          IN  /\ shard' = r.shard
              /\ IF r.ok THEN Spend(key, cost) ELSE UNCHANGED <<spent, since>>
              /\ UNCHANGED redis
  /\ UNCHANGED <<now, setup, quota, windows, node, probing>>

\* enforceModalityQuota up to the release of ModalityRateLimiter's mutex.
EnforceModalityQuota(n, m, who) ==
  /\ setup.part = "rate"
  /\ node[n] = Waiting
  /\ hasQuota(quota, m)
  /\ LET r == seedQuota(shard, quota, m, who, now)
     IN  /\ shard' = r.shard /\ quota' = r.quota
         /\ IF <<m, who>> \in quota.seeded THEN UNCHANGED <<spent, since>>
            ELSE /\ spent' = With(spent, <<m, who>>, 0)
                 /\ since' = With(since, <<m, who>>, now)
  /\ node' = [node EXCEPT ![n] = [at |-> "quota", key |-> <<m, who>>]]
  /\ UNCHANGED <<now, setup, windows, redis, probing>>

\* ModalityRateLimiter::allow asks the limiter behind it.
TakeQuota(n) ==
  /\ node[n].at = "quota"
  /\ IF setup.redis
     THEN rateLimitAllow(n, node[n].key, 1) /\ UNCHANGED shard
     ELSE LET r == allow(shard, node[n].key, 1, now)
          IN  /\ shard' = r.shard
              /\ IF r.ok THEN Spend(node[n].key, 1) ELSE UNCHANGED <<spent, since>>
              /\ UNCHANGED redis
  /\ node' = [node EXCEPT ![n] = Waiting]
  /\ UNCHANGED <<now, setup, quota, windows, probing>>

(***************************************************************************)
(* Abuse windows.                                                          *)
(***************************************************************************)
RecordRejection(n, key) ==
  /\ setup.part = "abuse" /\ ~setup.redis
  /\ rejectionCount(windows, key, now) < MaxRejections
  /\ windows' \in recordRejection(windows, key, now)
  /\ UNCHANGED <<now, setup, shard, quota, redis, node, spent, since, probing>>

Observe(n, key, content) ==
  /\ setup.part = "abuse" /\ ~setup.redis
  /\ rejectionCount(windows, key, now) < MaxRejections
  /\ windows' \in observe(windows, key, content, now)
  /\ UNCHANGED <<now, setup, shard, quota, redis, node, spent, since, probing>>

ListOf(key) == IF key \in DOMAIN redis.lists THEN redis.lists[key] ELSE <<>>
Recent(list, t) == SelectSeq(list, LAMBDA x : x >= t - AbuseWindow)

\* abuseRecordRejection reads the list of a key.
AbuseRead(n, key) ==
  /\ setup.part = "abuse" /\ setup.redis
  /\ node[n] = Waiting
  /\ Len(Recent(ListOf(key), Clock(n))) < MaxRejections
  /\ node' = [node EXCEPT ![n] = [at |-> "list", key |-> key,
                                   list |-> IF redis.up THEN ListOf(key) ELSE <<>>]]
  /\ UNCHANGED <<now, setup, shard, quota, windows, redis, spent, since, probing>>

\* The list abuseRecordRejection writes back.
Kept(list, t) == Append(Recent(list, t), t)

AbuseWrite(n) ==
  /\ node[n].at = "list"
  /\ redis' = IF redis.up
              THEN [redis EXCEPT !.lists = With(@, node[n].key, Kept(node[n].list, Clock(n)))]
              ELSE redis
  /\ node' = [node EXCEPT ![n] = [at |-> "judge", key |-> node[n].key]]
  /\ UNCHANGED <<now, setup, shard, quota, windows, spent, since, probing>>

\* abuseGetCount, and abuseSetBlocked unless abuseIsBlocked.
AbuseJudge(n) ==
  /\ node[n].at = "judge"
  /\ LET key == node[n].key
     IN  IF /\ redis.up
            /\ Len(Recent(ListOf(key), Clock(n))) >= BlockAt
            /\ key \notin DOMAIN redis.blocks
         THEN redis' = [redis EXCEPT !.blocks = With(@, key, now + BlockFor)]
         ELSE UNCHANGED redis
  /\ node' = [node EXCEPT ![n] = Waiting]
  /\ UNCHANGED <<now, setup, shard, quota, windows, spent, since, probing>>

(***************************************************************************)
(* Circuit breakers: a hash per model; one model is modelled.              *)
(***************************************************************************)
Elapsed(last, t) == t - last >= ResetTimeout

computeCircuitState(state, fails, last, t) ==
  CASE state = "Open"              -> IF Elapsed(last, t) THEN "HalfOpen" ELSE "Open"
    [] state = "HalfOpen"          -> "HalfOpen"
    [] fails >= FailureThreshold   -> IF Elapsed(last, t) THEN "HalfOpen" ELSE "Open"
    [] OTHER                       -> "Closed"

Goes(n, step) == node' = [node EXCEPT ![n] = step]

\* cbGetState reads the state field; an absent one is a closed circuit.
BreakerState(n) ==
  /\ setup.part = "breaker"
  /\ node[n] = Waiting
  /\ Goes(n, IF redis.up /\ redis.circuit.state # "none"
             THEN [at |-> "fields", state |-> redis.circuit.state]
             ELSE [at |-> "call", probe |-> FALSE])
  /\ UNCHANGED <<now, setup, shard, quota, windows, redis, spent, since, probing>>

\* cbGetState reads the other fields, each 0 when it cannot be read.
BreakerFields(n) ==
  /\ node[n].at = "fields"
  /\ LET c == IF redis.up THEN redis.circuit ELSE NoCircuit
     IN  Goes(n, CASE computeCircuitState(node[n].state, c.fails, c.last, Clock(n)) = "Closed"
                        -> [at |-> "call", probe |-> FALSE]
                   [] computeCircuitState(node[n].state, c.fails, c.last, Clock(n)) = "Open"
                        -> Waiting
                   [] OTHER -> [at |-> "probe"])
  /\ UNCHANGED <<now, setup, shard, quota, windows, redis, spent, since, probing>>

\* cbAllowRequest reads half_open_calls.
BreakerProbe(n) ==
  /\ node[n].at = "probe"
  /\ Goes(n, IF (IF redis.up THEN redis.circuit.calls ELSE 0) < HalfOpenMax
             THEN [at |-> "take"] ELSE Waiting)
  /\ UNCHANGED <<now, setup, shard, quota, windows, redis, spent, since, probing>>

\* The slot is not counted.
BreakerTakeUncounted(n) ==
  /\ node[n].at = "take"
  /\ redis' = IF redis.up THEN [redis EXCEPT !.circuit.state = "HalfOpen"] ELSE redis
  /\ Goes(n, [at |-> "call", probe |-> TRUE])
  /\ probing' = IF redis.up THEN AtMost(probing + 1, HalfOpenMax + Cardinality(Nodes))
              ELSE probing
  /\ UNCHANGED <<now, setup, shard, quota, windows, spent, since>>

\* cbAllowRequest takes a half-open slot; half_open_calls is only compared with the limit.
BreakerTake(n) ==
  /\ node[n].at = "take"
  /\ redis' = IF redis.up
              THEN [redis EXCEPT !.circuit.state = "HalfOpen", !.circuit.calls = AtMost(@ + 1, HalfOpenMax)]
              ELSE redis
  /\ Goes(n, [at |-> "call", probe |-> TRUE])
  /\ probing' = IF redis.up THEN AtMost(probing + 1, HalfOpenMax + Cardinality(Nodes))
              ELSE probing
  /\ UNCHANGED <<now, setup, shard, quota, windows, spent, since>>

\* The script run by cbRecordFailure; failure_count is only compared with the threshold.
kCircuitFailureLua(n) ==
  LET c == redis.circuit
      fails == AtMost(c.fails + 1, FailureThreshold)
  IN  [c EXCEPT !.fails = fails, !.last = Clock(n),
                !.state = IF \/ c.state = "HalfOpen"
                             \/ c.state = "none" /\ fails >= FailureThreshold
                          THEN "Open" ELSE c.state]

\* The call a node made ends: cbRecordSuccess deletes the hash.
CallSucceeds(n) ==
  /\ node[n].at = "call"
  /\ redis' = IF redis.up THEN [redis EXCEPT !.circuit = NoCircuit] ELSE redis
  /\ probing' = IF redis.up THEN 0 ELSE probing
  /\ Goes(n, Waiting)
  /\ UNCHANGED <<now, setup, shard, quota, windows, spent, since>>

CallFails(n) ==
  /\ node[n].at = "call"
  /\ redis' = IF redis.up THEN [redis EXCEPT !.circuit = kCircuitFailureLua(n)] ELSE redis
  /\ Goes(n, Waiting)
  /\ UNCHANGED <<now, setup, shard, quota, windows, spent, since, probing>>

ClusterNext ==
  \/ Tick
  \/ RedisFails
  \/ \E n \in Nodes :
       \/ \E key \in Keys :
            \/ \E cost \in Costs : Allow(n, PlainKey(key), cost)
            \/ \E m \in Modalities : key \in Users /\ EnforceModalityQuota(n, m, key)
            \/ RecordRejection(n, key)
            \/ \E content \in Contents : Observe(n, key, content)
            \/ AbuseRead(n, key)
       \/ TakeQuota(n)
       \/ AbuseWrite(n)
       \/ AbuseJudge(n)
       \/ BreakerState(n)
       \/ BreakerFields(n)
       \/ BreakerProbe(n)
       \/ BreakerTake(n)
       \/ CallSucceeds(n)
       \/ CallFails(n)

ClusterSpec == ClusterInit /\ [][ClusterNext]_clusterVars

(***************************************************************************)
(* Properties.                                                             *)
(***************************************************************************)

\* The limits that hold for a key.  With Redis the modality quotas are not
\* looked at: rateLimitAllow always passes the global limits.  In the process
\* a seeded bucket that is pruned before it is drawn from comes back with the
\* global limits, since its key stays in seeded.
LargerOf(a, b) == IF a >= b THEN a ELSE b
LimitOf(key) == IF key[1] \in Modalities /\ ~setup.redis
                THEN LargerOf(Quota.cap, MaxTokens) ELSE MaxTokens
RateOf(key)  == IF key[1] \in Modalities /\ ~setup.redis
                THEN LargerOf(Quota.rate, RefillRate) ELSE RefillRate

\* RateLimiter::allow, kRateLimitLua: whatever is pruned, expires, is seeded or
\* refilled, and whichever nodes ask, the tokens admitted for a key never exceed
\* its bucket plus what was refilled since its first request.
TokensBounded ==
  \A key \in DOMAIN spent : spent[key] <= LimitOf(key) + RateOf(key) * (now - since[key])

\* cbAllowRequest: half_open_calls is read and incremented in separate commands,
\* so nodes may overshoot half_open_max, but each by one call at most, as long as
\* Redis stays reachable.
ProbesBounded == ~setup.faults => probing <= HalfOpenMax + Cardinality(Nodes) - 1
=============================================================================

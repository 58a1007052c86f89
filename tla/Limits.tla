------------------------------- MODULE Limits -------------------------------
(***************************************************************************)
(* The in-process limits of the request path, as operators: the token      *)
(* buckets of RateLimiter, the per-modality quotas ModalityRateLimiter     *)
(* seeds into them, and the sliding windows of AbuseDetector.  Each        *)
(* operation of the limiter and of the detector holds the shard's mutex    *)
(* throughout.  One shard is modelled: keys of different shards never      *)
(* meet.                                                                   *)
(*                                                                         *)
(* Abstractions: time is a number of ticks, a request's content stands for *)
(* its SimHash, and two contents are similar when they are equal.          *)
(***************************************************************************)
EXTENDS Integers, Sequences, FiniteSets

CONSTANTS
  MaxTokens, RefillRate,   \* RateLimiter::Config of the process
  PruneIdle,               \* the 300 s after which a full bucket may go
  PruneOps, MaxBuckets,    \* kPruneIntervalOps, kMaxBucketsPerShard
  AbuseWindow,             \* window_seconds
  WarnAt, ThrottleAt, BlockAt,  \* warn_, throttle_ and block_threshold
  BlockFor,                \* block_duration_seconds
  MaxKeys,                 \* max_keys_per_shard
  MaxPrints                \* similarity_max_fingerprints

ASSUME LimitsAssumption ==
  /\ MaxTokens \in Nat \ {0} /\ RefillRate \in Nat
  /\ PruneIdle \in Nat /\ PruneOps \in Nat \ {0} /\ MaxBuckets \in Nat \ {0}
  /\ AbuseWindow \in Nat /\ BlockFor \in Nat /\ MaxKeys \in Nat \ {0} /\ MaxPrints \in Nat
  /\ WarnAt \in Nat /\ ThrottleAt \in Nat /\ BlockAt \in Nat \ {0}

\* A function without a set of arguments, and with one more.
Without(f, xs) == [x \in DOMAIN f \ xs |-> f[x]]
With(f, x, v)  == [y \in DOMAIN f \cup {x} |-> IF y = x THEN v ELSE f[y]]
NoKeys == [x \in {} |-> {}]

AtMost(a, b) == IF a <= b THEN a ELSE b

(***************************************************************************)
(* RateLimiter.  A shard is its buckets and op_counter.                    *)
(***************************************************************************)
NoBuckets == [buckets |-> NoKeys, ops |-> 0]

Bucket(cap, rate, now) == [tokens |-> cap, cap |-> cap, rate |-> rate, last |-> now]

refill(b, now) ==
  [b EXCEPT !.tokens = AtMost(b.cap, b.tokens + (now - b.last) * b.rate), !.last = now]

maybePruneAnyIdle(s, now) ==
  IF s.ops + 1 < PruneOps /\ Cardinality(DOMAIN s.buckets) < MaxBuckets
  THEN [s EXCEPT !.ops = @ + 1]
  ELSE [ops |-> 0,
        buckets |-> Without(s.buckets,
          {k \in DOMAIN s.buckets : now - s.buckets[k].last > PruneIdle})]

maybePrune(s, now) ==
  IF s.ops + 1 < PruneOps /\ Cardinality(DOMAIN s.buckets) < MaxBuckets
  THEN [s EXCEPT !.ops = @ + 1]
  ELSE [ops |-> 0,
        buckets |-> Without(s.buckets,
          {k \in DOMAIN s.buckets : /\ s.buckets[k].tokens >= s.buckets[k].cap
                                    /\ now - s.buckets[k].last > PruneIdle})]

\* The shard with a bucket for the key.
getBucket(s, key, now) ==
  IF key \in DOMAIN s.buckets THEN s
  ELSE LET p == maybePrune(s, now)
       IN  [p EXCEPT !.buckets = With(@, key, Bucket(MaxTokens, RefillRate, now))]

\* RateLimiter::allow: the shard after it and whether the request is admitted.
allow(s, key, cost, now) ==
  IF cost <= 0 THEN [ok |-> TRUE, shard |-> s]
  ELSE LET g == getBucket(s, key, now)
           b == refill(g.buckets[key], now)
           ok == b.tokens >= cost
           after == [b EXCEPT !.tokens = IF ok THEN @ - cost ELSE @]
       IN  [ok |-> ok, shard |-> [g EXCEPT !.buckets = With(@, key, after)]]

setKeyConfig(s, key, q, now) ==
  [s EXCEPT !.buckets = With(@, key, Bucket(q.cap, q.rate, now))]

(***************************************************************************)
(* ModalityRateLimiter: the quotas, and the keys already seeded with one.  *)
(***************************************************************************)
NoQuotas == [quotas |-> NoKeys, seeded |-> {}]

setQuota(q, m, cfg) == [quotas |-> With(q.quotas, m, cfg), seeded |-> {}]
hasQuota(q, m)      == m \in DOMAIN q.quotas

\* The part of ModalityRateLimiter::allow under its own mutex.
seedQuota(s, q, m, who, now) ==
  IF hasQuota(q, m) /\ <<m, who>> \notin q.seeded
  THEN [shard |-> setKeyConfig(s, <<m, who>>, q.quotas[m], now),
        quota |-> [q EXCEPT !.seeded = @ \cup {<<m, who>>}]]
  ELSE [shard |-> s, quota |-> q]

(***************************************************************************)
(* AbuseDetector: a window per key, with the times of its rejections, the  *)
(* end of its block and the fingerprints of its last requests.             *)
(***************************************************************************)
NoWindow == [times |-> <<>>, until |-> 0, prints |-> <<>>]

WindowOf(w, key) == IF key \in DOMAIN w THEN w[key] ELSE NoWindow

pruneExpired(win, now) ==
  [win EXCEPT !.times = SelectSeq(@, LAMBDA t : t >= now - AbuseWindow)]

countInWindow(win, now) == Len(SelectSeq(win.times, LAMBDA t : t >= now - AbuseWindow))

LastSeen(win) == IF win.times = <<>> THEN -1 ELSE win.times[Len(win.times)]

\* The keys ensureKeyCapacity may drop to make room for a new one.
Evictable(w, key) ==
  IF key \in DOMAIN w \/ Cardinality(DOMAIN w) < MaxKeys THEN {}
  ELSE {k \in DOMAIN w : \A o \in DOMAIN w : LastSeen(w[k]) <= LastSeen(w[o])}

\* The windows ensureKeyCapacity may leave.
ensureKeyCapacity(w, key) ==
  IF Evictable(w, key) = {} THEN {w} ELSE {Without(w, {k}) : k \in Evictable(w, key)}

pushFingerprint(win, content) ==
  LET p == Append(win.prints, content)
  IN  [win EXCEPT !.prints = IF Len(p) > MaxPrints
                             THEN SubSeq(p, Len(p) - MaxPrints + 1, Len(p)) ELSE p]

ActionFor(count) ==
  CASE count >= BlockAt    -> "Block"
    [] count >= ThrottleAt -> "Throttle"
    [] count >= WarnAt     -> "Warn"
    [] OTHER               -> "Allow"

actionFromCount(count, until, now) == IF until > now THEN "Block" ELSE ActionFor(count)

\* A rejection counted in a window, and the block it may start.
Counted(win, now) ==
  LET p == pruneExpired([win EXCEPT !.times = Append(@, now)], now)
  IN  [p EXCEPT !.until = IF Len(p.times) >= BlockAt /\ @ <= now THEN now + BlockFor ELSE @]

\* The windows recordRejection may leave.
recordRejection(w, key, now) ==
  {With(v, key, Counted(WindowOf(v, key), now)) : v \in ensureKeyCapacity(w, key)}

Similar(win, content) == content \in {win.prints[i] : i \in 1 .. Len(win.prints)}

\* The windows observe may leave: a content seen before counts as a rejection.
observe(w, key, content, now) ==
  {LET win == WindowOf(v, key)
   IN  With(v, key, pushFingerprint(IF Similar(win, content) THEN Counted(win, now) ELSE win,
                                    content))
     : v \in ensureKeyCapacity(w, key)}

getAction(w, key, now) ==
  IF key \in DOMAIN w THEN actionFromCount(countInWindow(w[key], now), w[key].until, now)
  ELSE "Allow"

rejectionCount(w, key, now) == IF key \in DOMAIN w THEN countInWindow(w[key], now) ELSE 0
=============================================================================

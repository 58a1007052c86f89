------------------------- MODULE SharedStateProofs -------------------------
(***************************************************************************)
(* What the nodes share, for any number of nodes, keys and any limits: the *)
(* half-open slots of a circuit in Redis, and the token buckets in the     *)
(* process or in Redis.                                                    *)
(***************************************************************************)
EXTENDS ClusterState, FiniteSetTheorems, TLAPS

\* What Redis and the nodes' steps look like.
RedisShape ==
  /\ DOMAIN redis = {"up", "buckets", "lists", "blocks", "circuit"}
  /\ DOMAIN redis.circuit = {"state", "fails", "calls", "last"}
  /\ DOMAIN node = Nodes

(***************************************************************************)
(* The circuits that nodes share through Redis (ClusterState).             *)
(* ProbesBounded alone is not inductive: a node may already have read a    *)
(* count that was not full.  SlotsCounted counts such nodes in.            *)
(***************************************************************************)
\* The nodes that have read half_open_calls and go on to take a slot.
Takers == {n \in Nodes : node[n].at = "take"}

\* While Redis stays reachable half_open_calls counts the slots taken, and
\* every node that is about to take one read the count before it was full.
SlotsCounted ==
  /\ redis.up
  /\ probing \in Nat
  /\ redis.circuit.calls = AtMost(probing, HalfOpenMax)
  /\ probing + Cardinality(Takers) <= HalfOpenMax + Cardinality(Nodes) - 1

SlotInv == RedisShape /\ (~setup.faults => SlotsCounted)

LEMMA SlotLimits == HalfOpenMax \in Nat /\ HalfOpenMax > 0 /\ Cardinality(Nodes) \in Nat
<1>1. HalfOpenMax \in Nat \ {0} /\ IsFiniteSet(Nodes)
  BY ClusterAssumption, Zenon
<1> QED BY <1>1, FS_CardinalityType

LEMMA TakersFinite ==
  /\ IsFiniteSet(Takers) /\ Cardinality(Takers) \in Nat
  /\ Cardinality(Takers) <= Cardinality(Nodes)
BY ClusterAssumption, FS_Subset, FS_CardinalityType, Zenon DEF Takers

LEMMA TakersFiniteNext ==
  /\ IsFiniteSet(Takers') /\ Cardinality(Takers') \in Nat
  /\ Cardinality(Takers') <= Cardinality(Nodes)
BY ClusterAssumption, FS_Subset, FS_CardinalityType, Zenon DEF Takers

LEMMA SlotInitOK == ClusterInit => SlotInv
<1> SUFFICES ASSUME ClusterInit PROVE SlotInv
  OBVIOUS
<1>1. RedisShape
  BY DEF ClusterInit, RedisShape, NoCircuit
<1>2. Takers = {}
  BY DEF ClusterInit, Takers, Waiting
<1>3. Cardinality(Takers) = 0
  BY <1>2, FS_EmptySet
<1>4. redis.up /\ probing = 0 /\ redis.circuit.calls = 0
  BY DEF ClusterInit, NoCircuit
<1> QED BY <1>1, <1>3, <1>4, TakersFinite, SlotLimits, SMTT(30)
        DEF SlotInv, SlotsCounted, AtMost

\* A step that neither counts slots nor makes a node a taker.
LEMMA NoSlotTaken ==
  ASSUME SlotInv, RedisShape', setup' = setup, probing' = probing,
         ~setup.faults => redis'.up = redis.up /\ redis'.circuit.calls = redis.circuit.calls,
         Takers' \subseteq Takers
  PROVE  SlotInv'
<1>1. Cardinality(Takers') <= Cardinality(Takers)
  BY TakersFinite, FS_Subset
<1> QED BY <1>1, TakersFinite, TakersFiniteNext, SlotLimits DEF SlotInv, SlotsCounted

\* A node goes on to a step without a slot to take.
Aside(n) == \E step : step.at # "take" /\ node' = [node EXCEPT ![n] = step]

\* As above, when one node moves.
LEMMA NodeMoves ==
  ASSUME SlotInv, NEW n \in Nodes, NEW step, node' = [node EXCEPT ![n] = step],
         step.at # "take"
  PROVE  Takers' \subseteq Takers /\ DOMAIN node' = Nodes
BY DEF Takers, SlotInv, RedisShape

LEMMA RateStepOK ==
  ASSUME SlotInv, NEW n \in Nodes, NEW key, NEW cost,
         Allow(n, key, cost) \/ TakeQuota(n)
  PROVE  SlotInv'
<1>1. redis' = redis \/ \E b : redis' = [redis EXCEPT !.buckets = b]
  BY Zenon DEF Allow, TakeQuota, rateLimitAllow
<1>2. node' = node \/ node' = [node EXCEPT ![n] = Waiting]
  BY Zenon DEF Allow, TakeQuota
<1>3. Takers' \subseteq Takers /\ DOMAIN node' = Nodes
  BY <1>2, NodeMoves DEF Waiting, Takers, SlotInv, RedisShape
<1>4. redis'.up = redis.up /\ redis'.circuit = redis.circuit /\ DOMAIN redis' = DOMAIN redis
  BY <1>1 DEF SlotInv, RedisShape
<1>5. setup' = setup /\ probing' = probing
  BY Zenon DEF Allow, TakeQuota
<1> QED BY <1>3, <1>4, <1>5, NoSlotTaken DEF SlotInv, RedisShape

LEMMA SeedStepOK ==
  ASSUME SlotInv, NEW n \in Nodes, NEW m, NEW who, EnforceModalityQuota(n, m, who)
  PROVE  SlotInv'
<1>1. /\ node' = [node EXCEPT ![n] = [at |-> "quota", key |-> <<m, who>>]]
      /\ setup' = setup /\ probing' = probing /\ redis' = redis
  BY Zenon DEF EnforceModalityQuota
<1> DEFINE step == [at |-> "quota", key |-> <<m, who>>]
<1>2. Takers' \subseteq Takers /\ DOMAIN node' = Nodes
  <2>1. step.at # "take" /\ node' = [node EXCEPT ![n] = step]
    BY <1>1
  <2> HIDE DEF step
  <2> QED BY <2>1, NodeMoves, Zenon
<1> QED BY <1>1, <1>2, NoSlotTaken DEF SlotInv, RedisShape

\* What the commands of the abuse lists and the reads of a circuit change.
LEMMA AbuseView ==
  ASSUME RedisShape, NEW n \in Nodes, NEW key,
         AbuseRead(n, key) \/ AbuseWrite(n) \/ AbuseJudge(n)
  PROVE  /\ Aside(n) /\ UNCHANGED <<now, setup, shard, quota, spent, since, probing>>
         /\ redis'.up = redis.up /\ redis'.circuit = redis.circuit
         /\ redis'.buckets = redis.buckets /\ DOMAIN redis' = DOMAIN redis
<1>1. Aside(n)
  <2>1. CASE AbuseRead(n, key)
    <3> DEFINE step == [at |-> "list", key |-> key,
                        list |-> IF redis.up THEN ListOf(key) ELSE <<>>]
    <3>1. step.at # "take" /\ node' = [node EXCEPT ![n] = step]
      BY <2>1 DEF AbuseRead
    <3> HIDE DEF step
    <3> QED BY <3>1, Zenon DEF Aside
  <2>2. CASE AbuseWrite(n)
    BY <2>2, Zenon DEF AbuseWrite, Aside
  <2>3. CASE AbuseJudge(n)
    BY <2>3, Zenon DEF AbuseJudge, Waiting, Aside
  <2> QED BY <2>1, <2>2, <2>3
<1>2. \/ redis' = redis
      \/ \E b : redis' = [redis EXCEPT !.lists = b]
      \/ \E b : redis' = [redis EXCEPT !.blocks = b]
  BY Zenon DEF AbuseRead, AbuseWrite, AbuseJudge
<1>3. /\ redis'.up = redis.up /\ redis'.circuit = redis.circuit
      /\ redis'.buckets = redis.buckets /\ DOMAIN redis' = DOMAIN redis
  BY <1>2 DEF RedisShape
<1>4. UNCHANGED <<now, setup, shard, quota, spent, since, probing>>
  BY Zenon DEF AbuseRead, AbuseWrite, AbuseJudge
<1> QED BY <1>1, <1>3, <1>4, Zenon

LEMMA BreakerReadView ==
  ASSUME NEW n \in Nodes, BreakerState(n) \/ BreakerFields(n)
  PROVE  Aside(n) /\ UNCHANGED <<now, setup, shard, quota, redis, spent, since, probing>>
<1>1. Aside(n)
  <2>1. CASE BreakerState(n)
    <3> DEFINE step == IF redis.up /\ redis.circuit.state # "none"
                       THEN [at |-> "fields", state |-> redis.circuit.state]
                       ELSE [at |-> "call", probe |-> FALSE]
    <3>1. node' = [node EXCEPT ![n] = step]
      BY <2>1, Zenon DEF BreakerState, Goes
    <3>2. step.at # "take"
      BY Zenon
    <3> HIDE DEF step
    <3> QED BY <3>1, <3>2, ZenonT(30) DEF Aside
  <2>2. CASE BreakerFields(n)
    <3> DEFINE c == IF redis.up THEN redis.circuit ELSE NoCircuit
               s == computeCircuitState(node[n].state, c.fails, c.last, Clock(n))
               step == CASE s = "Closed" -> [at |-> "call", probe |-> FALSE]
                         [] s = "Open" -> Waiting
                         [] OTHER -> [at |-> "probe"]
    <3>1. node' = [node EXCEPT ![n] = step]
      BY <2>2 DEF BreakerFields, Goes
    <3> HIDE DEF s
    <3>2. step.at # "take"
      BY DEF Waiting
    <3> HIDE DEF step
    <3> QED BY <3>1, <3>2, Zenon DEF Aside
  <2> QED BY <2>1, <2>2
<1>2. UNCHANGED <<now, setup, shard, quota, redis, spent, since, probing>>
  BY Zenon DEF BreakerState, BreakerFields
<1> QED BY <1>1, <1>2

LEMMA AsideOK ==
  ASSUME SlotInv, NEW n \in Nodes, NEW key,
         \/ AbuseRead(n, key) \/ AbuseWrite(n) \/ AbuseJudge(n)
         \/ BreakerState(n) \/ BreakerFields(n)
  PROVE  SlotInv'
<1>1. /\ Aside(n) /\ setup' = setup /\ probing' = probing
      /\ redis'.up = redis.up /\ redis'.circuit = redis.circuit /\ DOMAIN redis' = DOMAIN redis
  BY AbuseView, BreakerReadView DEF SlotInv
<1>2. Takers' \subseteq Takers /\ DOMAIN node' = Nodes
  BY <1>1, NodeMoves, Zenon DEF Aside
<1> QED BY <1>1, <1>2, NoSlotTaken DEF SlotInv, RedisShape

\* The last slot is seen free by every node at most.
LEMMA BreakerProbeOK ==
  ASSUME SlotInv, NEW n \in Nodes, BreakerProbe(n)
  PROVE  SlotInv'
<1>1. setup' = setup /\ probing' = probing /\ redis' = redis
  BY Zenon DEF BreakerProbe
<1>2. CASE ~setup.faults /\ redis.circuit.calls < HalfOpenMax
  <2>1. node' = [node EXCEPT ![n] = [at |-> "take"]]
    BY <1>2, ZenonT(30) DEF BreakerProbe, Goes, SlotInv, SlotsCounted
  <2>2. RedisShape'
    BY <1>1, <2>1 DEF SlotInv, RedisShape
  <2>3. probing < HalfOpenMax
    BY <1>2, SlotLimits DEF SlotInv, SlotsCounted, AtMost
  <2> QED BY <1>1, <1>2, <2>2, <2>3, TakersFinite, TakersFiniteNext, SlotLimits
          DEF SlotInv, SlotsCounted
<1>3. CASE ~setup.faults /\ ~(redis.circuit.calls < HalfOpenMax)
  <2>1. node' = [node EXCEPT ![n] = Waiting]
    BY <1>3, Zenon DEF BreakerProbe, Goes, SlotInv, SlotsCounted
  <2>2. Takers' \subseteq Takers /\ DOMAIN node' = Nodes
    <3>1. Waiting.at # "take"
      BY DEF Waiting
    <3> QED BY <2>1, <3>1, NodeMoves, Zenon
  <2> QED BY <1>1, <2>2, NoSlotTaken DEF SlotInv, RedisShape
<1>4. CASE setup.faults
  BY <1>1, <1>4 DEF SlotInv, RedisShape, BreakerProbe, Goes
<1> QED BY <1>2, <1>3, <1>4

LEMMA BreakerTakeOK ==
  ASSUME SlotInv, NEW n \in Nodes, BreakerTake(n)
  PROVE  SlotInv'
<1>1. node[n].at = "take" /\ node' = [node EXCEPT ![n] = [at |-> "call", probe |-> TRUE]]
      /\ setup' = setup
  BY Zenon DEF BreakerTake, Goes
<1>2. RedisShape'
  BY <1>1 DEF BreakerTake, SlotInv, RedisShape
<1>3. CASE ~setup.faults
  <2>1. /\ redis'.up /\ probing' = AtMost(probing + 1, HalfOpenMax + Cardinality(Nodes))
        /\ redis'.circuit.calls = AtMost(redis.circuit.calls + 1, HalfOpenMax)
    BY <1>3 DEF BreakerTake, SlotInv, SlotsCounted, RedisShape
  <2>2. Takers' = Takers \ {n} /\ n \in Takers
    BY <1>1 DEF Takers, SlotInv, RedisShape
  <2>3. Cardinality(Takers') = Cardinality(Takers) - 1
    BY <2>2, TakersFinite, FS_RemoveElement, Zenon
  <2>4. SlotsCounted
    BY <1>3 DEF SlotInv
  <2> QED BY <1>1, <1>2, <2>1, <2>3, <2>4, TakersFinite, TakersFiniteNext, SlotLimits
          DEF SlotInv, SlotsCounted, AtMost
<1> QED BY <1>1, <1>2, <1>3 DEF SlotInv

LEMMA CallEndsOK ==
  ASSUME SlotInv, NEW n \in Nodes, CallSucceeds(n) \/ CallFails(n)
  PROVE  SlotInv'
<1>1. node' = [node EXCEPT ![n] = Waiting] /\ setup' = setup
  BY Zenon DEF CallSucceeds, CallFails, Goes
<1>2. Takers' \subseteq Takers /\ DOMAIN node' = Nodes
  <2>1. Waiting.at # "take"
    BY DEF Waiting
  <2> QED BY <1>1, <2>1, NodeMoves, ZenonT(30)
<1>3. CASE CallFails(n)
  <2>1. /\ probing' = probing /\ redis'.up = redis.up /\ DOMAIN redis' = DOMAIN redis
        /\ redis'.circuit.calls = redis.circuit.calls
        /\ DOMAIN redis'.circuit = DOMAIN redis.circuit
    BY <1>3 DEF CallFails, kCircuitFailureLua, SlotInv, RedisShape
  <2> QED BY <1>1, <1>2, <2>1, NoSlotTaken DEF SlotInv, RedisShape
<1>4. CASE CallSucceeds(n)
  <2>1. RedisShape'
    BY <1>2, <1>4 DEF CallSucceeds, NoCircuit, SlotInv, RedisShape
  <2>2. ~setup.faults => redis'.up /\ probing' = 0 /\ redis'.circuit.calls = 0
    BY <1>4 DEF CallSucceeds, NoCircuit, SlotInv, RedisShape, SlotsCounted
  <2>3. Cardinality(Takers') <= Cardinality(Takers)
    BY <1>2, TakersFinite, FS_Subset
  <2> QED BY <1>1, <2>1, <2>2, <2>3, TakersFinite, TakersFiniteNext, SlotLimits
          DEF SlotInv, SlotsCounted, AtMost
<1> QED BY <1>3, <1>4

LEMMA SlotStepOK == SlotInv /\ [ClusterNext]_clusterVars => SlotInv'
<1> SUFFICES ASSUME SlotInv, [ClusterNext]_clusterVars PROVE SlotInv'
  OBVIOUS
<1>1. CASE Tick
  <2>1. /\ \E b, c : redis' = [redis EXCEPT !.buckets = b, !.blocks = c]
        /\ UNCHANGED <<setup, node, probing>>
    BY <1>1, Zenon DEF Tick
  <2>2. redis'.up = redis.up /\ redis'.circuit = redis.circuit /\ DOMAIN redis' = DOMAIN redis
    BY <2>1 DEF SlotInv, RedisShape
  <2> QED BY <2>1, <2>2, NoSlotTaken DEF SlotInv, RedisShape, Takers
<1>2. CASE RedisFails
  BY <1>2 DEF RedisFails, SlotInv, RedisShape
<1>3. ASSUME NEW n \in Nodes, NEW key \in Keys, NEW content,
             RecordRejection(n, key) \/ Observe(n, key, content)
      PROVE  SlotInv'
  <2>1. UNCHANGED <<setup, redis, node, probing>>
    BY <1>3, Zenon DEF RecordRejection, Observe
  <2> QED BY <2>1, NoSlotTaken DEF SlotInv, RedisShape, Takers
<1>4. CASE UNCHANGED clusterVars
  BY <1>4, NoSlotTaken DEF SlotInv, RedisShape, Takers, clusterVars
<1> QED
  BY <1>1, <1>2, <1>3, <1>4, RateStepOK, SeedStepOK, AsideOK,
     BreakerProbeOK, BreakerTakeOK, CallEndsOK, Zenon DEF ClusterNext

\* However the nodes interleave the read of half_open_calls with its increment,
\* each overshoots half_open_max by one call at most while Redis is reachable,
\* for any number of nodes and any limit.
THEOREM ProbesBoundedHolds == ClusterSpec => []ProbesBounded
<1>1. SlotInv => ProbesBounded
  BY TakersFinite, SlotLimits DEF SlotInv, SlotsCounted, ProbesBounded
<1> QED BY <1>1, SlotInitOK, SlotStepOK, PTL DEF ClusterSpec

(***************************************************************************)
(* The token buckets, in the process or shared through Redis.  TokensBounded *)
(* says nothing of what the buckets hold.  TokenInv adds that no bucket    *)
(* holds, or can be refilled to, more than its key may still be given (Fits), *)
(* and that a key whose bucket is gone may be given a full one (RoomForFull): *)
(* that is why a bucket may be pruned or expire only once it would be full. *)
(***************************************************************************)
\* With equal clocks, how far every node's is ahead.
Ahead == CHOOSE s \in Skews : TRUE
EqualClocks == \A s, t \in Skews : s = t

\* The tokens that may still be admitted for a key.
Room(key) ==
  IF key \in DOMAIN spent
  THEN (LimitOf(key) + RateOf(key) * (now - since[key])) - spent[key]
  ELSE LimitOf(key)

\* What a bucket would hold if it were refilled after some time.
Level(cap, rate, tokens, idle) == AtMost(cap, tokens + idle * rate)

\* A bucket holds at most the room of its key, and when it is full there is
\* room for the full bucket that replaces a pruned or expired one.
Fits(cap, rate, tokens, idle, limit, pace, room) ==
  /\ cap \in Nat /\ rate \in Nat /\ tokens \in Nat /\ idle \in Nat
  /\ tokens <= cap /\ cap <= limit /\ rate <= pace
  /\ Level(cap, rate, tokens, idle) <= room
  /\ Level(cap, rate, tokens, idle) + MaxTokens <= room + cap

LimiterTypes ==
  /\ now \in Nat
  /\ setup.redis \in BOOLEAN /\ \A n \in Nodes : setup.skew[n] \in Skews
  /\ DOMAIN shard = {"buckets", "ops"} /\ DOMAIN quota = {"quotas", "seeded"}
  /\ \A m \in DOMAIN quota.quotas : quota.quotas[m] = Quota
  /\ DOMAIN spent = DOMAIN since
  /\ \A k \in DOMAIN spent : spent[k] \in Nat /\ since[k] \in Nat

\* A key without a bucket may get a full one.
RoomForFull(buckets) == \A k \in DOMAIN spent \ DOMAIN buckets : MaxTokens <= Room(k)

ShardBucket(k, b) ==
  /\ b \in [tokens : Nat, cap : Nat, rate : Nat, last : Nat]
  /\ Fits(b.cap, b.rate, b.tokens, now - b.last, LimitOf(k), RateOf(k), Room(k))

ShardOK ==
  /\ \A k \in DOMAIN shard.buckets : ShardBucket(k, shard.buckets[k])
  /\ RoomForFull(shard.buckets)

\* A bucket in Redis expires no sooner than it would be full again.
RedisBucket(k, b) ==
  /\ b \in [tokens : Nat, last : Int, expires : Int]
  /\ b.expires = (b.last - Ahead) + BucketTtl
  /\ Fits(MaxTokens, RefillRate, b.tokens, (now + Ahead) - b.last,
          LimitOf(k), RateOf(k), Room(k))

RedisOK ==
  /\ \A k \in DOMAIN redis.buckets : RedisBucket(k, redis.buckets[k])
  /\ RoomForFull(redis.buckets)

TokenInv == LimiterTypes /\ IF setup.redis THEN RedisOK ELSE ShardOK

LEMMA LessNothing == \A i \in Int : i - 0 = i
OBVIOUS

LEMMA LessItself == \A i \in Int : i - i = 0
OBVIOUS

LEMMA NatIsInt == \A i \in Nat : i \in Int
OBVIOUS

LEMMA LaterBy == \A i, d, e \in Nat : i + d \in Int /\ i + e = ((i + d) - d) + e
OBVIOUS

LEMMA TokenConstants ==
  /\ MaxTokens \in Nat /\ RefillRate \in Nat /\ BucketTtl \in Nat
  /\ BucketTtl * RefillRate >= MaxTokens
  /\ Quota.cap \in Nat /\ Quota.rate \in Nat
  /\ Costs \subseteq Nat /\ Skews \subseteq Nat /\ Skews # {}
BY ClusterAssumption, LimitsAssumption, Zenon

LEMMA LimitFacts ==
  ASSUME NEW k
  PROVE  /\ LimitOf(k) \in Nat /\ RateOf(k) \in Nat
         /\ MaxTokens <= LimitOf(k) /\ RefillRate <= RateOf(k)
         /\ k[1] \in Modalities /\ ~setup.redis =>
              Quota.cap <= LimitOf(k) /\ Quota.rate <= RateOf(k)
<1> DEFINE cap == Quota.cap
           rate == Quota.rate
           own == k[1] \in Modalities /\ ~setup.redis
<1>1. MaxTokens \in Nat /\ RefillRate \in Nat /\ cap \in Nat /\ rate \in Nat
  BY TokenConstants
<1>2. /\ LimitOf(k) = IF own THEN LargerOf(cap, MaxTokens) ELSE MaxTokens
      /\ RateOf(k) = IF own THEN LargerOf(rate, RefillRate) ELSE RefillRate
  BY Zenon DEF LimitOf, RateOf
<1> HIDE DEF cap, rate, own
<1>3. /\ LimitOf(k) \in Nat /\ RateOf(k) \in Nat
      /\ MaxTokens <= LimitOf(k) /\ RefillRate <= RateOf(k)
      /\ own => cap <= LimitOf(k) /\ rate <= RateOf(k)
  BY <1>1, <1>2 DEF LargerOf
<1> QED BY <1>3, Zenon DEF cap, rate, own

\* A bucket's level is a number of tokens within its capacity, the tokens
\* themselves when it was just used, and grows by the rate.
LEMMA LevelFacts ==
  ASSUME NEW cap \in Nat, NEW rate \in Nat, NEW tokens \in Nat, NEW idle \in Nat,
         tokens <= cap
  PROVE  /\ Level(cap, rate, tokens, idle) \in Nat
         /\ Level(cap, rate, tokens, idle) <= cap
         /\ tokens <= Level(cap, rate, tokens, idle)
         /\ Level(cap, rate, tokens, 0) = tokens
         /\ Level(cap, rate, tokens, idle + 1) <= Level(cap, rate, tokens, idle) + rate
<1> DEFINE grown == idle * rate
<1>1. grown \in Nat /\ (idle + 1) * rate = grown + rate /\ 0 * rate = 0
  OBVIOUS
<1>2. /\ Level(cap, rate, tokens, idle) = AtMost(cap, tokens + grown)
      /\ Level(cap, rate, tokens, 0) = AtMost(cap, tokens)
      /\ Level(cap, rate, tokens, idle + 1) = AtMost(cap, tokens + (grown + rate))
  BY <1>1 DEF Level
<1> HIDE DEF grown
<1> QED BY <1>1, <1>2 DEF AtMost

\* Time passes: the bucket is refilled no faster than the room grows.
LEMMA FitsLater ==
  ASSUME NEW cap, NEW rate, NEW tokens, NEW idle, NEW limit \in Int, NEW pace \in Int,
         NEW room \in Int, Fits(cap, rate, tokens, idle, limit, pace, room),
         NEW more, more = room + pace \/ more = limit, MaxTokens <= limit
  PROVE  Fits(cap, rate, tokens, idle + 1, limit, pace, more)
<1> DEFINE l == Level(cap, rate, tokens, idle)
           m == Level(cap, rate, tokens, idle + 1)
<1>1. /\ cap \in Nat /\ rate \in Nat /\ tokens \in Nat /\ idle \in Nat /\ idle + 1 \in Nat
      /\ tokens <= cap /\ cap <= limit /\ rate <= pace /\ l <= room /\ l + MaxTokens <= room + cap
  BY DEF Fits
<1>2. l \in Nat /\ m \in Nat /\ m <= cap /\ m <= l + rate
  BY <1>1, LevelFacts, Zenon
<1> HIDE DEF l, m
<1>3. m <= more /\ m + MaxTokens <= more + cap
  BY <1>1, <1>2, TokenConstants
<1> QED BY <1>1, <1>3, Zenon DEF Fits, m

\* A draw takes from the bucket what it takes from the room.
LEMMA FitsDrawn ==
  ASSUME NEW cap, NEW rate, NEW tokens, NEW idle, NEW limit \in Int, NEW pace \in Int,
         NEW room \in Int, Fits(cap, rate, tokens, idle, limit, pace, room),
         NEW cost \in Nat, NEW l, l = Level(cap, rate, tokens, idle)
  PROVE  /\ l \in Nat /\ l <= room
         /\ Fits(cap, rate, l, 0, limit, pace, room)
         /\ l >= cost => Fits(cap, rate, l - cost, 0, limit, pace, room - cost)
<1>1. /\ cap \in Nat /\ rate \in Nat /\ tokens \in Nat /\ idle \in Nat
      /\ tokens <= cap /\ cap <= limit /\ rate <= pace /\ l <= room /\ l + MaxTokens <= room + cap
  BY DEF Fits
<1>2. l \in Nat /\ l <= cap
  BY <1>1, LevelFacts, Zenon
<1>3. ASSUME NEW c \in Nat, l >= c PROVE Fits(cap, rate, l - c, 0, limit, pace, room - c)
  <2>1. /\ l - c \in Nat /\ l - c <= cap /\ 0 \in Nat /\ l - c <= room - c
        /\ (l - c) + MaxTokens <= (room - c) + cap
    BY <1>1, <1>2, <1>3, TokenConstants
  <2>2. \A d \in Nat : d <= cap => Level(cap, rate, d, 0) = d
    BY <1>1, <2>1, LevelFacts, Zenon
  <2> QED BY <1>1, <2>1, <2>2, Zenon DEF Fits
<1>4. l - 0 = l /\ room - 0 = room /\ l >= 0 /\ 0 \in Nat
  BY <1>2
<1> QED BY <1>1, <1>2, <1>3, <1>4, Zenon

\* There is room for a full bucket once the bucket is full.
LEMMA FitsFull ==
  ASSUME NEW cap, NEW rate, NEW tokens, NEW idle, NEW limit \in Int, NEW pace \in Int,
         NEW room \in Int, Fits(cap, rate, tokens, idle, limit, pace, room)
  PROVE  /\ tokens >= cap => MaxTokens <= room
         /\ cap = MaxTokens /\ rate = RefillRate /\ idle >= BucketTtl => MaxTokens <= room
<1> DEFINE l == Level(cap, rate, tokens, idle)
<1>1. /\ cap \in Nat /\ rate \in Nat /\ tokens \in Nat /\ idle \in Nat
      /\ tokens <= cap /\ l <= room /\ l + MaxTokens <= room + cap
  BY DEF Fits
<1>2. l \in Nat /\ tokens <= l
  BY <1>1, LevelFacts, Zenon
<1>3. ASSUME cap = MaxTokens, rate = RefillRate, idle >= BucketTtl PROVE l = MaxTokens
  <2> DEFINE grown == idle * RefillRate
  <2>1. grown >= BucketTtl * RefillRate /\ grown \in Int
    BY <1>1, <1>3, TokenConstants
  <2>2. grown >= MaxTokens
    BY <2>1, TokenConstants
  <2>3. l = AtMost(MaxTokens, tokens + grown)
    BY <1>3, Zenon DEF Level
  <2> HIDE DEF l, grown
  <2> QED BY <1>1, <2>1, <2>2, <2>3, TokenConstants DEF AtMost
<1> HIDE DEF l
<1> QED BY <1>1, <1>2, <1>3, TokenConstants

\* A bucket that is put in place when there is room for it.
LEMMA FitsNew ==
  ASSUME NEW cap \in Nat, NEW rate \in Nat, NEW limit \in Int, NEW pace \in Int, NEW room \in Int,
         cap <= limit, rate <= pace, cap <= room, MaxTokens <= room
  PROVE  Fits(cap, rate, cap, 0, limit, pace, room)
<1>1. Level(cap, rate, cap, 0) = cap /\ cap <= cap /\ 0 \in Nat
  BY LevelFacts
<1>2. cap + MaxTokens <= room + cap
  BY TokenConstants
<1> QED BY <1>1, <1>2, Zenon DEF Fits

\* A key starts afresh: its room is the limit.
LEMMA FitsAfresh ==
  ASSUME NEW cap, NEW rate, NEW tokens, NEW idle, NEW limit \in Int, NEW pace \in Int,
         NEW room \in Int, Fits(cap, rate, tokens, idle, limit, pace, room), MaxTokens <= limit
  PROVE  Fits(cap, rate, tokens, idle, limit, pace, limit)
<1> DEFINE l == Level(cap, rate, tokens, idle)
<1>1. /\ cap \in Nat /\ rate \in Nat /\ tokens \in Nat /\ idle \in Nat
      /\ tokens <= cap /\ cap <= limit
  BY DEF Fits
<1>2. l \in Nat /\ l <= cap
  BY <1>1, LevelFacts, Zenon
<1> HIDE DEF l
<1>3. l <= limit /\ l + MaxTokens <= limit + cap
  BY <1>1, <1>2, TokenConstants
<1> QED BY <1>3, Zenon DEF Fits, l

LEMMA RoomFacts ==
  ASSUME LimiterTypes, NEW k
  PROVE  /\ Room(k) \in Int
         /\ k \notin DOMAIN spent => Room(k) = LimitOf(k)
<1>1. CASE k \in DOMAIN spent
  <2>1. spent[k] \in Int /\ now - since[k] \in Int
    BY <1>1 DEF LimiterTypes
  <2> QED BY <1>1, <2>1, LimitFacts DEF Room
<1> QED BY <1>1, LimitFacts DEF Room

\* What a tick does to the room of a key.
LEMMA RoomGrows ==
  ASSUME LimiterTypes, NEW k, now' = now + 1, UNCHANGED <<setup, spent, since>>
  PROVE  /\ LimitOf(k)' = LimitOf(k) /\ RateOf(k)' = RateOf(k)
         /\ Room(k)' = Room(k) + RateOf(k) \/ Room(k)' = LimitOf(k)
<1>1. LimitOf(k)' = LimitOf(k) /\ RateOf(k)' = RateOf(k)
  BY DEF LimitOf, RateOf
<1>2. CASE k \in DOMAIN spent
  <2> DEFINE rate == RateOf(k)
             limit == LimitOf(k)
             age == now - since[k]
             sum == spent[k]
  <2>1. rate \in Int /\ limit \in Int /\ age \in Int /\ sum \in Int /\ now' - since'[k] = age + 1
    BY <1>2, LimitFacts DEF LimiterTypes
  <2>2. Room(k) = (limit + rate * age) - sum /\ Room(k)' = (limit + rate * (age + 1)) - sum
    BY <1>1, <1>2, <2>1, Zenon DEF Room
  <2> HIDE DEF rate, limit, age, sum
  <2>3. rate * (age + 1) = rate * age + rate /\ rate * age \in Int
    BY <2>1
  <2> QED BY <1>1, <2>1, <2>2, <2>3 DEF rate
<1> QED BY <1>1, <1>2, Zenon DEF Room

\* What spending for a key does: its room shrinks by the cost.
LEMMA RoomSpent ==
  ASSUME LimiterTypes, NEW key, NEW cost \in Nat, Spend(key, cost), UNCHANGED <<now, setup>>
  PROVE  /\ DOMAIN spent' = DOMAIN spent \cup {key} /\ DOMAIN since' = DOMAIN spent'
         /\ \A k \in DOMAIN spent' : spent'[k] \in Nat /\ since'[k] \in Nat
         /\ Room(key)' = Room(key) - cost
         /\ \A k : k # key => Room(k)' = Room(k)
<1>1. now \in Nat /\ DOMAIN since = DOMAIN spent
      /\ \A k \in DOMAIN spent : spent[k] \in Nat /\ since[k] \in Nat
  BY DEF LimiterTypes
<1>2. /\ DOMAIN spent' = DOMAIN spent \cup {key} /\ DOMAIN since' = DOMAIN spent'
      /\ \A k \in DOMAIN spent : since'[k] = since[k]
      /\ \A k \in DOMAIN spent \ {key} : spent'[k] = spent[k]
      /\ key \in DOMAIN spent => spent'[key] = cost + spent[key]
      /\ key \notin DOMAIN spent => spent'[key] = cost /\ since'[key] = now
  BY <1>1 DEF Spend, With
<1>3. \A k : LimitOf(k)' = LimitOf(k) /\ RateOf(k)' = RateOf(k)
  BY DEF LimitOf, RateOf
<1>4. Room(key)' = Room(key) - cost
  <2> DEFINE full == LimitOf(key) + RateOf(key) * (now - since[key])
  <2>1. CASE key \in DOMAIN spent
    <3>1. full \in Int
      BY <1>1, <2>1, LimitFacts
    <3>2. Room(key) = full - spent[key] /\ Room(key)' = full - (cost + spent[key])
      BY <1>2, <1>3, <2>1 DEF Room
    <3> HIDE DEF full
    <3> QED BY <1>1, <2>1, <3>1, <3>2
  <2>2. CASE key \notin DOMAIN spent
    <3>1. Room(key) = LimitOf(key) /\ Room(key)' = (LimitOf(key) + RateOf(key) * (now - now)) - cost
      BY <1>2, <1>3, <2>2, Zenon DEF Room
    <3>2. now - now = 0 /\ RateOf(key) * 0 = 0 /\ LimitOf(key) + 0 = LimitOf(key)
      BY <1>1, LimitFacts
    <3> QED BY <3>1, <3>2, Zenon
  <2> QED BY <2>1, <2>2, Zenon
<1>5. \A k : k # key => Room(k)' = Room(k)
  BY <1>2, <1>3, Zenon DEF Room
<1>6. \A k \in DOMAIN spent' : spent'[k] \in Nat /\ since'[k] \in Nat
  BY <1>1, <1>2
<1> QED BY <1>2, <1>4, <1>5, <1>6, Zenon

LEMMA TokenTickOK ==
  ASSUME TokenInv, RedisShape, Tick, Ahead \in Nat
  PROVE  TokenInv'
<1>1. now' = now + 1 /\ UNCHANGED <<setup, shard, quota, spent, since>> /\ LimiterTypes
  BY DEF Tick, TokenInv
<1>2. LimiterTypes' /\ now \in Nat
  BY <1>1 DEF LimiterTypes
<1>3. ASSUME NEW k
      PROVE  /\ LimitOf(k)' = LimitOf(k) /\ RateOf(k)' = RateOf(k)
             /\ LimitOf(k) \in Int /\ RateOf(k) \in Int /\ Room(k) \in Int
             /\ Room(k)' = Room(k) + RateOf(k) \/ Room(k)' = LimitOf(k)
             /\ MaxTokens <= LimitOf(k) /\ (MaxTokens <= Room(k) => MaxTokens <= Room(k)')
  <2>1. /\ LimitOf(k) \in Nat /\ RateOf(k) \in Nat /\ Room(k) \in Int /\ MaxTokens <= LimitOf(k)
        /\ Room(k)' = Room(k) + RateOf(k) \/ Room(k)' = LimitOf(k)
    BY <1>1, LimitFacts, RoomFacts, RoomGrows
  <2> QED BY <1>1, <2>1, RoomGrows, TokenConstants
<1>4. ASSUME NEW cap, NEW rate, NEW tokens, NEW idle, NEW k,
             Fits(cap, rate, tokens, idle, LimitOf(k), RateOf(k), Room(k))
      PROVE  Fits(cap, rate, tokens, idle + 1, LimitOf(k)', RateOf(k)', Room(k)')
  BY <1>3, <1>4, FitsLater, Zenon
<1>5. CASE ~setup.redis
  <2>1. ShardOK
    BY <1>5 DEF TokenInv
  <2>2. ASSUME NEW k \in DOMAIN shard.buckets PROVE ShardBucket(k, shard.buckets[k])'
    <3>1. /\ shard.buckets[k] \in [tokens : Nat, cap : Nat, rate : Nat, last : Nat]
          /\ now' - shard.buckets[k].last = (now - shard.buckets[k].last) + 1
      BY <1>1, <1>2, <2>1 DEF ShardOK, ShardBucket
    <3> QED BY <1>1, <1>4, <2>1, <3>1, Zenon DEF ShardOK, ShardBucket
  <2>3. RoomForFull(shard.buckets)'
    BY <1>1, <1>3, <2>1, Zenon DEF ShardOK, RoomForFull
  <2> QED BY <1>1, <1>2, <1>5, <2>2, <2>3, Zenon DEF TokenInv, ShardOK
<1>6. CASE setup.redis
  <2> DEFINE gone == {k \in DOMAIN redis.buckets : redis.buckets[k].expires <= now'}
  <2>1. RedisOK
    BY <1>6 DEF TokenInv
  <2>2. redis'.buckets = Without(redis.buckets, gone)
    BY DEF Tick, RedisShape
  <2>3. ASSUME NEW k \in DOMAIN redis.buckets
        PROVE  /\ Fits(MaxTokens, RefillRate, redis.buckets[k].tokens,
                       (now' + Ahead) - redis.buckets[k].last, LimitOf(k)', RateOf(k)', Room(k)')
               /\ k \in gone => (now' + Ahead) - redis.buckets[k].last >= BucketTtl
    <3> DEFINE b == redis.buckets[k]
    <3>1. /\ b \in [tokens : Nat, last : Int, expires : Int]
          /\ b.expires = (b.last - Ahead) + BucketTtl
          /\ Fits(MaxTokens, RefillRate, b.tokens, (now + Ahead) - b.last,
                  LimitOf(k), RateOf(k), Room(k))
      BY <2>1, Zenon DEF RedisOK, RedisBucket
    <3>2. /\ (now' + Ahead) - b.last = ((now + Ahead) - b.last) + 1
          /\ b.expires <= now' => (now' + Ahead) - b.last >= BucketTtl
      BY <1>1, <1>2, <3>1, TokenConstants
    <3> QED BY <1>4, <3>1, <3>2, Zenon
  <2> HIDE DEF gone
  <2>4. /\ DOMAIN redis'.buckets = DOMAIN redis.buckets \ gone
        /\ \A k \in DOMAIN redis'.buckets : redis'.buckets[k] = redis.buckets[k]
    BY <2>2 DEF Without
  <2>5. ASSUME NEW k \in DOMAIN redis'.buckets PROVE RedisBucket(k, redis.buckets[k])'
    BY <2>1, <2>3, <2>4, Zenon DEF RedisOK, RedisBucket
  <2>6. ASSUME NEW k \in DOMAIN spent' \ DOMAIN redis'.buckets PROVE MaxTokens <= Room(k)'
    <3>1. CASE k \in DOMAIN redis.buckets
      <4>1. LimitOf(k)' \in Int /\ RateOf(k)' \in Int /\ Room(k)' \in Int
        BY <1>3
      <4> QED BY <2>3, <2>4, <3>1, <4>1, FitsFull
    <3>2. CASE k \notin DOMAIN redis.buckets
      BY <1>1, <1>3, <2>1, <3>2, Zenon DEF RedisOK, RoomForFull
    <3> QED BY <3>1, <3>2, Zenon
  <2> QED BY <1>1, <1>2, <1>6, <2>5, <2>6, Zenon DEF TokenInv, RedisOK, RoomForFull
<1> QED BY <1>5, <1>6

LEMMA FullRoom ==
  ASSUME LimiterTypes, NEW buckets, RoomForFull(buckets), NEW k, k \notin DOMAIN buckets
  PROVE  MaxTokens <= Room(k)
BY RoomFacts, LimitFacts DEF RoomForFull

LEMMA FitsHasRoom ==
  ASSUME NEW cap, NEW rate, NEW tokens, NEW idle, NEW limit, NEW pace, NEW room \in Int,
         Fits(cap, rate, tokens, idle, limit, pace, room)
  PROVE  room >= 0
<1>1. /\ cap \in Nat /\ rate \in Nat /\ tokens \in Nat /\ idle \in Nat /\ tokens <= cap
      /\ Level(cap, rate, tokens, idle) <= room
  BY Zenon DEF Fits
<1>2. Level(cap, rate, tokens, idle) \in Nat
  BY <1>1, LevelFacts, Zenon
<1> QED BY <1>1, <1>2

LEMMA RoomLeft ==
  ASSUME TokenInv, NEW k
  PROVE  Room(k) >= 0
<1>1. LimiterTypes /\ Room(k) \in Int /\ MaxTokens \in Nat
  BY RoomFacts, TokenConstants, Zenon DEF TokenInv
<1>2. CASE MaxTokens <= Room(k)
  BY <1>1, <1>2
<1>3. CASE ~setup.redis
  <2>1. CASE k \in DOMAIN shard.buckets
    BY <1>1, <1>3, <2>1, FitsHasRoom, Zenon DEF TokenInv, ShardOK, ShardBucket
  <2> QED BY <1>1, <1>2, <1>3, <2>1, FullRoom, Zenon DEF TokenInv, ShardOK
<1>4. CASE setup.redis
  <2>1. CASE k \in DOMAIN redis.buckets
    BY <1>1, <1>4, <2>1, FitsHasRoom, Zenon DEF TokenInv, RedisOK, RedisBucket
  <2> QED BY <1>1, <1>2, <1>4, <2>1, FullRoom, Zenon DEF TokenInv, RedisOK
<1> QED BY <1>3, <1>4, Zenon

\* A step that writes one key's bucket and leaves the room of the other keys.
Spares(key) ==
  /\ now' = now
  /\ \A k : LimitOf(k)' = LimitOf(k) /\ RateOf(k)' = RateOf(k)
  /\ \A k : k # key => Room(k)' = Room(k)
  /\ DOMAIN spent' \subseteq DOMAIN spent \cup {key}

Writes(key, old, new) ==
  /\ DOMAIN new = DOMAIN old \cup {key}
  /\ \A k \in DOMAIN old : k # key => new[k] = old[k]

LEMMA ShardWritten ==
  ASSUME NEW key, NEW old, \A k \in DOMAIN old : ShardBucket(k, old[k]), RoomForFull(old),
         Spares(key), Writes(key, old, shard'.buckets), ShardBucket(key, shard.buckets[key])'
  PROVE  ShardOK'
<1>1. ASSUME NEW k \in DOMAIN shard'.buckets PROVE ShardBucket(k, shard.buckets[k])'
  <2>1. CASE k # key
    <3>1. ShardBucket(k, old[k]) /\ shard'.buckets[k] = old[k]
      BY <2>1, Zenon DEF Writes
    <3> QED BY <2>1, <3>1, Zenon DEF Spares, ShardBucket
  <2> QED BY <2>1, Zenon
<1>2. RoomForFull(shard.buckets)'
  BY Zenon DEF RoomForFull, Spares, Writes
<1> QED BY <1>1, <1>2, Zenon DEF ShardOK

LEMMA RedisWritten ==
  ASSUME RedisOK, NEW key, Spares(key), Writes(key, redis.buckets, redis'.buckets),
         RedisBucket(key, redis.buckets[key])'
  PROVE  RedisOK'
<1>1. ASSUME NEW k \in DOMAIN redis'.buckets PROVE RedisBucket(k, redis.buckets[k])'
  <2>1. CASE k # key
    <3>1. RedisBucket(k, redis.buckets[k]) /\ redis'.buckets[k] = redis.buckets[k]
      BY <2>1, Zenon DEF Writes, RedisOK
    <3> QED BY <2>1, <3>1, Zenon DEF Spares, RedisBucket
  <2> QED BY <2>1, Zenon
<1>2. RoomForFull(redis.buckets)'
  BY Zenon DEF RedisOK, RoomForFull, Spares, Writes
<1> QED BY <1>1, <1>2, Zenon DEF RedisOK

\* Only full buckets are pruned, and a bucket made anew is full.
LEMMA GetBucketOK ==
  ASSUME ShardOK, LimiterTypes, NEW key, NEW g, g = getBucket(shard, key, now)
  PROVE  /\ DOMAIN g = {"buckets", "ops"} /\ key \in DOMAIN g.buckets
         /\ \A k \in DOMAIN g.buckets : ShardBucket(k, g.buckets[k])
         /\ RoomForFull(g.buckets)
<1>1. CASE key \in DOMAIN shard.buckets
  BY <1>1, Zenon DEF getBucket, ShardOK, LimiterTypes
<1>2. CASE key \notin DOMAIN shard.buckets
  <2> DEFINE full == {k \in DOMAIN shard.buckets :
                        /\ shard.buckets[k].tokens >= shard.buckets[k].cap
                        /\ now - shard.buckets[k].last > PruneIdle}
             b == Bucket(MaxTokens, RefillRate, now)
  <2>1. ASSUME NEW k \in full PROVE MaxTokens <= Room(k)
    <3>1. PICK c : c = shard.buckets[k]
      OBVIOUS
    <3>2. /\ c.tokens >= c.cap
          /\ Fits(c.cap, c.rate, c.tokens, now - c.last, LimitOf(k), RateOf(k), Room(k))
      BY <3>1, Zenon DEF ShardOK, ShardBucket
    <3>3. LimitOf(k) \in Int /\ RateOf(k) \in Int /\ Room(k) \in Int
      BY LimitFacts, RoomFacts
    <3> QED BY <3>2, <3>3, FitsFull, Zenon
  <2> HIDE DEF full
  <2>2. PICK p : p = maybePrune(shard, now)
    BY Zenon
  <2>3. PICK gone \in SUBSET full :
          /\ DOMAIN p = {"buckets", "ops"} /\ DOMAIN p.buckets = DOMAIN shard.buckets \ gone
          /\ \A k \in DOMAIN p.buckets : p.buckets[k] = shard.buckets[k]
    <3>1. CASE shard.ops + 1 < PruneOps /\ Cardinality(DOMAIN shard.buckets) < MaxBuckets
      <4>1. p = [shard EXCEPT !.ops = @ + 1]
        BY <2>2, <3>1, Zenon DEF maybePrune
      <4>2. DOMAIN p = {"buckets", "ops"} /\ p.buckets = shard.buckets
        BY <4>1 DEF LimiterTypes
      <4>3. {} \in SUBSET full /\ DOMAIN shard.buckets \ {} = DOMAIN shard.buckets
        OBVIOUS
      <4> QED BY <4>2, <4>3, Zenon
    <3>2. CASE ~(shard.ops + 1 < PruneOps /\ Cardinality(DOMAIN shard.buckets) < MaxBuckets)
      <4>1. p = [ops |-> 0, buckets |-> Without(shard.buckets, full)]
        BY <2>2, <3>2, Zenon DEF maybePrune, full
      <4> QED BY <4>1 DEF Without
    <3> QED BY <3>1, <3>2
  <2>4. g = [p EXCEPT !.buckets = With(@, key, b)]
    BY <1>2, <2>2, Zenon DEF getBucket
  <2>5. ShardBucket(key, b)
    <3>1. /\ now \in Nat /\ MaxTokens \in Nat /\ RefillRate \in Nat /\ now - now = 0
          /\ LimitOf(key) \in Int /\ RateOf(key) \in Int /\ Room(key) \in Int
          /\ MaxTokens <= LimitOf(key) /\ RefillRate <= RateOf(key)
      BY TokenConstants, LimitFacts, RoomFacts DEF LimiterTypes
    <3>2. MaxTokens <= Room(key)
      BY <1>2, FullRoom DEF ShardOK
    <3>3. Fits(MaxTokens, RefillRate, MaxTokens, 0, LimitOf(key), RateOf(key), Room(key))
      BY <3>1, <3>2, FitsNew, Zenon
    <3>4. /\ b \in [tokens : Nat, cap : Nat, rate : Nat, last : Nat]
          /\ b.tokens = MaxTokens /\ b.cap = MaxTokens /\ b.rate = RefillRate /\ b.last = now
      BY <3>1 DEF Bucket
    <3> HIDE DEF b
    <3> QED BY <3>1, <3>3, <3>4, Zenon DEF ShardBucket
  <2> HIDE DEF b
  <2>6. /\ DOMAIN g = {"buckets", "ops"} /\ key \in DOMAIN g.buckets
        /\ DOMAIN g.buckets = (DOMAIN shard.buckets \ gone) \cup {key} /\ g.buckets[key] = b
        /\ \A k \in DOMAIN g.buckets \ {key} : g.buckets[k] = shard.buckets[k]
    BY <2>3, <2>4 DEF With
  <2>7. ASSUME NEW k \in DOMAIN g.buckets PROVE ShardBucket(k, g.buckets[k])
    BY <2>5, <2>6, Zenon DEF ShardOK
  <2> QED BY <2>1, <2>6, <2>7, Zenon DEF ShardOK, RoomForFull
<1> QED BY <1>1, <1>2

\* What a request does to the room of the keys.
LEMMA RoomAfter ==
  ASSUME LimiterTypes, NEW key, NEW cost \in Nat, UNCHANGED <<now, setup>>,
         Spend(key, cost) \/ UNCHANGED <<spent, since>>
  PROVE  /\ \A k : LimitOf(k)' = LimitOf(k) /\ RateOf(k)' = RateOf(k)
         /\ \A k : k # key => Room(k)' = Room(k)
         /\ DOMAIN spent' \subseteq DOMAIN spent \cup {key} /\ DOMAIN spent' = DOMAIN since'
         /\ \A k \in DOMAIN spent' : spent'[k] \in Nat /\ since'[k] \in Nat
<1>1. \A k : LimitOf(k)' = LimitOf(k) /\ RateOf(k)' = RateOf(k)
  BY DEF LimitOf, RateOf
<1>2. CASE Spend(key, cost)
  BY <1>1, <1>2, RoomSpent, Zenon
<1>3. CASE UNCHANGED <<spent, since>>
  BY <1>1, <1>3 DEF LimiterTypes, Room
<1> QED BY <1>2, <1>3, Zenon

\* What is drawn from a bucket is taken from the room of its key.
LEMMA FitsAfter ==
  ASSUME LimiterTypes, NEW key, NEW cost \in Nat, UNCHANGED <<now, setup>>,
         NEW cap, NEW rate, NEW tokens, NEW idle,
         Fits(cap, rate, tokens, idle, LimitOf(key), RateOf(key), Room(key)),
         NEW l, l = Level(cap, rate, tokens, idle),
         NEW left, left = IF l >= cost THEN l - cost ELSE l,
         IF l >= cost THEN Spend(key, cost) ELSE UNCHANGED <<spent, since>>
  PROVE  left \in Nat /\ Fits(cap, rate, left, 0, LimitOf(key)', RateOf(key)', Room(key)')
<1>1. LimitOf(key) \in Int /\ RateOf(key) \in Int /\ Room(key) \in Int
  BY LimitFacts, RoomFacts
<1>2. /\ l \in Nat /\ Fits(cap, rate, l, 0, LimitOf(key), RateOf(key), Room(key))
      /\ l >= cost => Fits(cap, rate, l - cost, 0, LimitOf(key), RateOf(key), Room(key) - cost)
  BY <1>1, FitsDrawn, Zenon
<1>3. LimitOf(key)' = LimitOf(key) /\ RateOf(key)' = RateOf(key)
  BY DEF LimitOf, RateOf
<1>4. CASE l >= cost
  <2>1. left = l - cost /\ left \in Nat
    BY <1>2, <1>4
  <2>2. Room(key)' = Room(key) - cost
    BY <1>4, RoomSpent, Zenon
  <2> QED BY <1>2, <1>3, <1>4, <2>1, <2>2, Zenon
<1>5. CASE ~(l >= cost)
  BY <1>2, <1>3, <1>5, Zenon DEF Room
<1> QED BY <1>4, <1>5, Zenon

\* A step that leaves the buckets alone.
LEMMA NoTokenMoves ==
  ASSUME TokenInv, redis'.buckets = redis.buckets,
         UNCHANGED <<now, setup, shard, quota, spent, since>>
  PROVE  TokenInv'
BY ZenonT(30) DEF TokenInv, LimiterTypes, ShardOK, ShardBucket, RedisOK, RedisBucket, RoomForFull,
       Room, LimitOf, RateOf

\* The first request of a key with a quota puts a bucket of the quota's size
\* into the process; the key starts afresh.
LEMMA SeedOK ==
  ASSUME TokenInv, NEW n \in Nodes, NEW m \in Modalities, NEW who,
         EnforceModalityQuota(n, m, who)
  PROVE  TokenInv'
<1>1. PICK key : key = <<m, who>>
  BY Zenon
<1>2. /\ LimiterTypes /\ now \in Nat
      /\ quota.quotas[m] = Quota /\ hasQuota(quota, m) /\ key[1] \in Modalities
  BY <1>1, Zenon DEF TokenInv, EnforceModalityQuota, hasQuota, LimiterTypes
<1>3. UNCHANGED <<now, setup, redis>>
  BY Zenon DEF EnforceModalityQuota
<1>4. CASE key \in quota.seeded
  <2>1. UNCHANGED <<shard, quota, spent, since>>
    BY <1>1, <1>4, Zenon DEF EnforceModalityQuota, seedQuota
  <2> QED BY <1>3, <2>1, NoTokenMoves, Zenon
<1>5. CASE key \notin quota.seeded
  <2>1. PICK b : b = Bucket(Quota.cap, Quota.rate, now)
    OBVIOUS
  <2>2. /\ shard' = [shard EXCEPT !.buckets = With(@, key, b)]
        /\ quota' = [quota EXCEPT !.seeded = @ \cup {key}]
        /\ spent' = With(spent, key, 0) /\ since' = With(since, key, now)
    BY <1>1, <1>2, <1>5, <2>1, Zenon DEF EnforceModalityQuota, seedQuota, setKeyConfig
  <2>3. /\ DOMAIN spent' = DOMAIN spent \cup {key} /\ DOMAIN since' = DOMAIN spent'
        /\ spent'[key] = 0 /\ since'[key] = now
        /\ \A k \in DOMAIN spent \ {key} : spent'[k] = spent[k] /\ since'[k] = since[k]
    BY <1>2, <2>2, ZenonT(30) DEF With, LimiterTypes
  <2>4. /\ \A k : LimitOf(k)' = LimitOf(k) /\ RateOf(k)' = RateOf(k)
        /\ \A k : k # key => Room(k)' = Room(k)
    BY <1>3, <2>3, Zenon DEF Room, LimitOf, RateOf
  <2>5. /\ Room(key)' = LimitOf(key) /\ MaxTokens <= LimitOf(key)
        /\ LimitOf(key) \in Int /\ RateOf(key) \in Int /\ Room(key) \in Int
    <3>1. LimitOf(key) \in Int /\ RateOf(key) \in Int /\ MaxTokens <= LimitOf(key)
      BY LimitFacts
    <3>2. (LimitOf(key) + RateOf(key) * (now - now)) - 0 = LimitOf(key)
      BY <1>2, <3>1
    <3>3. Room(key)' = (LimitOf(key) + RateOf(key) * (now - now)) - 0
      BY <1>3, <2>3, <2>4, Zenon DEF Room
    <3>4. Room(key) \in Int
      BY <1>2, RoomFacts, Zenon
    <3> QED BY <3>1, <3>2, <3>3, <3>4, ZenonT(30)
  <2>6. LimiterTypes'
    <3>1. DOMAIN shard' = {"buckets", "ops"} /\ DOMAIN quota' = {"quotas", "seeded"}
          /\ quota'.quotas = quota.quotas
      BY <1>2, <2>2, Zenon DEF LimiterTypes
    <3>2. 0 \in Nat
      OBVIOUS
    <3>3. \A k \in DOMAIN spent' : spent'[k] \in Nat /\ since'[k] \in Nat
      BY <1>2, <2>3, <3>2, ZenonT(30) DEF LimiterTypes
    <3> QED BY <1>2, <1>3, <2>3, <3>1, <3>3, Zenon DEF LimiterTypes
  <2>7. ASSUME ~setup.redis PROVE ShardOK'
    <3>1. ShardBucket(key, b)'
      <4>1. /\ now \in Nat /\ now' - now = 0 /\ Quota.cap \in Nat /\ Quota.rate \in Nat
            /\ Quota.cap <= LimitOf(key) /\ Quota.rate <= RateOf(key)
        BY <1>2, <1>3, <2>7, LimitFacts, TokenConstants
      <4>2. Fits(Quota.cap, Quota.rate, Quota.cap, 0, LimitOf(key), RateOf(key), LimitOf(key))
        BY <2>5, <4>1, FitsNew, Zenon
      <4>3. /\ b \in [tokens : Nat, cap : Nat, rate : Nat, last : Nat]
            /\ b.tokens = Quota.cap /\ b.cap = Quota.cap /\ b.rate = Quota.rate /\ b.last = now
        BY <2>1, <4>1 DEF Bucket
      <4> QED BY <2>4, <2>5, <4>1, <4>2, <4>3, ZenonT(30) DEF ShardBucket
    <3>2. Writes(key, shard.buckets, shard'.buckets) /\ shard'.buckets[key] = b
      BY <1>2, <2>2 DEF With, LimiterTypes, Writes
    <3>3. (\A k \in DOMAIN shard.buckets : ShardBucket(k, shard.buckets[k]))
          /\ RoomForFull(shard.buckets)
      BY <2>7, Zenon DEF TokenInv, ShardOK
    <3>4. Spares(key)
      BY <1>3, <2>3, <2>4, Zenon DEF Spares
    <3>5. ShardBucket(key, shard.buckets[key])'
      BY <3>1, <3>2, Zenon
    <3>6. PICK old : old = shard.buckets
      OBVIOUS
    <3> QED BY <3>2, <3>3, <3>4, <3>5, <3>6, ShardWritten, Zenon
  <2>8. ASSUME setup.redis PROVE RedisOK'
    <3>1. RedisOK
      BY <2>8, Zenon DEF TokenInv
    <3>2. ASSUME NEW k \in DOMAIN redis.buckets PROVE RedisBucket(k, redis.buckets[k])'
      <4>1. CASE k = key
        <5>1. PICK c : c = redis.buckets[k]
          OBVIOUS
        <5>2. RedisBucket(key, c)
          BY <3>1, <4>1, <5>1, Zenon DEF RedisOK
        <5>3. RedisBucket(key, c)'
          BY <1>3, <2>4, <2>5, <5>2, FitsAfresh, Zenon DEF RedisBucket
        <5> QED BY <1>3, <4>1, <5>1, <5>3, Zenon
      <4>2. CASE k # key
        BY <1>3, <2>4, <3>1, <4>2, Zenon DEF RedisOK, RedisBucket
      <4> QED BY <4>1, <4>2, Zenon
    <3> QED BY <1>3, <2>3, <2>4, <2>5, <3>1, <3>2, ZenonT(30) DEF RedisOK, RoomForFull
  <2> QED BY <1>3, <2>6, <2>7, <2>8, Zenon DEF TokenInv
<1> QED BY <1>4, <1>5

\* RateLimiter::allow draws from what the bucket holds now.
LEMMA ShardAllowOK ==
  ASSUME ShardOK, LimiterTypes, NEW key, NEW cost \in Nat, UNCHANGED <<now, setup>>,
         shard' = allow(shard, key, cost, now).shard,
         IF allow(shard, key, cost, now).ok THEN Spend(key, cost)
         ELSE UNCHANGED <<spent, since>>
  PROVE  ShardOK' /\ DOMAIN shard' = {"buckets", "ops"}
<1>1. /\ \A k : LimitOf(k)' = LimitOf(k) /\ RateOf(k)' = RateOf(k)
      /\ \A k : k # key => Room(k)' = Room(k)
      /\ DOMAIN spent' \subseteq DOMAIN spent \cup {key}
  BY RoomAfter, Zenon
<1>2. CASE cost = 0
  <2>1. shard' = shard /\ Spend(key, cost)
    BY <1>2 DEF allow
  <2>2. Room(key) \in Int /\ Room(key)' = Room(key) - 0
    BY <1>2, <2>1, RoomSpent, RoomFacts, Zenon
  <2>3. \A k : Room(k)' = Room(k)
    <3>1. Room(key)' = Room(key)
      BY <2>2, LessNothing, Zenon
    <3> QED BY <1>1, <3>1, Zenon
  <2>4. \A k \in DOMAIN shard.buckets : ShardBucket(k, shard.buckets[k])'
    BY <1>1, <2>1, <2>3, Zenon DEF ShardOK, ShardBucket
  <2>5. \A k : k \notin DOMAIN shard.buckets => MaxTokens <= Room(k)
    BY FullRoom, Zenon DEF ShardOK
  <2>6. RoomForFull(shard.buckets)'
    BY <2>1, <2>3, <2>5 DEF RoomForFull
  <2> QED BY <2>1, <2>4, <2>6, Zenon DEF ShardOK, LimiterTypes
<1>3. CASE cost # 0
  <2>1. PICK g : g = getBucket(shard, key, now)
    OBVIOUS
  <2>2. /\ DOMAIN g = {"buckets", "ops"} /\ key \in DOMAIN g.buckets
        /\ \A k \in DOMAIN g.buckets : ShardBucket(k, g.buckets[k])
        /\ RoomForFull(g.buckets)
    BY <2>1, GetBucketOK
  <2>3. PICK b \in [tokens : Nat, cap : Nat, rate : Nat, last : Nat] :
          /\ b = g.buckets[key]
          /\ Fits(b.cap, b.rate, b.tokens, now - b.last, LimitOf(key), RateOf(key), Room(key))
    BY <2>2, Zenon DEF ShardBucket
  <2>4. PICK l : l = Level(b.cap, b.rate, b.tokens, now - b.last)
    OBVIOUS
  <2>5. PICK left : left = IF l >= cost THEN l - cost ELSE l
    OBVIOUS
  <2>6. PICK after : after = [tokens |-> left, cap |-> b.cap, rate |-> b.rate, last |-> now]
    BY Zenon
  <2>7. allow(shard, key, cost, now)
          = [ok |-> l >= cost, shard |-> [g EXCEPT !.buckets = With(@, key, after)]]
    <3> DEFINE r == refill(b, now)
    <3>1. ~(cost <= 0)
      BY <1>3
    <3>2. allow(shard, key, cost, now)
            = [ok |-> r.tokens >= cost,
               shard |-> [g EXCEPT !.buckets =
                 With(@, key, [r EXCEPT !.tokens = IF r.tokens >= cost THEN @ - cost ELSE @])]]
      BY <2>1, <2>3, <3>1, Zenon DEF allow
    <3>3. r = [b EXCEPT !.tokens = l, !.last = now]
      BY <2>4, Zenon DEF refill, Level
    <3> HIDE DEF r
    <3>4. r = [tokens |-> l, cap |-> b.cap, rate |-> b.rate, last |-> now]
      BY <2>3, <3>3, Zenon
    <3>5. r.tokens = l /\ [r EXCEPT !.tokens = IF r.tokens >= cost THEN @ - cost ELSE @] = after
      BY <2>5, <2>6, <3>4
    <3> QED BY <3>2, <3>5, Zenon
  <2>8. /\ IF l >= cost THEN Spend(key, cost) ELSE UNCHANGED <<spent, since>>
        /\ shard' = [g EXCEPT !.buckets = With(@, key, after)]
    <3> DEFINE ok == l >= cost
               s == [g EXCEPT !.buckets = With(@, key, after)]
    <3>1. allow(shard, key, cost, now) = [ok |-> ok, shard |-> s]
      BY <2>7, Zenon
    <3> HIDE DEF ok, s
    <3>2. allow(shard, key, cost, now).ok = ok /\ allow(shard, key, cost, now).shard = s
      BY <3>1
    <3> QED BY <3>2, Zenon DEF ok, s
  <2>9. Fits(b.cap, b.rate, left, 0, LimitOf(key)', RateOf(key)', Room(key)') /\ left \in Nat
    BY <2>3, <2>4, <2>5, <2>8, FitsAfter, ZenonT(30)
  <2>10. ShardBucket(key, after)'
    <3>1. /\ after \in [tokens : Nat, cap : Nat, rate : Nat, last : Nat] /\ now' - after.last = 0
          /\ after.tokens = left /\ after.cap = b.cap /\ after.rate = b.rate
      <4>1. b.cap \in Nat /\ b.rate \in Nat /\ left \in Nat /\ now \in Nat /\ now' = now
        BY <2>3, <2>9, Zenon DEF LimiterTypes
      <4>2. after.last = now /\ now - now = 0
        BY <2>6, <4>1, LessItself, NatIsInt, Zenon
      <4>3. after.tokens = left /\ after.cap = b.cap /\ after.rate = b.rate
        BY <2>6, Zenon
      <4>4. after \in [tokens : Nat, cap : Nat, rate : Nat, last : Nat]
        BY <2>6, <4>1, Zenon
      <4> QED BY <4>1, <4>2, <4>3, <4>4, Zenon
    <3> QED BY <2>9, <3>1, Zenon DEF ShardBucket
  <2>11. DOMAIN shard' = {"buckets", "ops"} /\ shard'.buckets = With(g.buckets, key, after)
    BY <2>2, <2>8, ZenonT(30)
  <2>12. Writes(key, g.buckets, shard'.buckets) /\ shard'.buckets[key] = after
    BY <2>2, <2>11, Zenon DEF With, Writes
  <2>13. Spares(key)
    BY <1>1, Zenon DEF Spares
  <2>14. ShardBucket(key, shard.buckets[key])'
    BY <2>10, <2>12, Zenon
  <2> QED BY <2>2, <2>11, <2>12, <2>13, <2>14, ShardWritten, Zenon
<1> QED BY <1>2, <1>3

\* The script draws from what the bucket holds now, or from a full one.
LEMMA RedisAllowOK ==
  ASSUME RedisOK, LimiterTypes, RedisShape, Ahead \in Nat, NEW key, NEW cost \in Nat,
         NEW n \in Nodes, Clock(n) = now + Ahead, UNCHANGED <<now, setup>>,
         rateLimitAllow(n, key, cost)
  PROVE  RedisOK'
<1>1. CASE ~redis.up
  <2>1. UNCHANGED <<redis, spent, since>>
    BY <1>1, Zenon DEF rateLimitAllow
  <2>2. \A k : Room(k)' = Room(k) /\ LimitOf(k)' = LimitOf(k) /\ RateOf(k)' = RateOf(k)
    BY <2>1, Zenon DEF Room, LimitOf, RateOf
  <2> QED BY <2>1, <2>2, Zenon DEF RedisOK, RedisBucket, RoomForFull
<1>2. CASE redis.up
  <2>1. PICK t : t = now + Ahead
    OBVIOUS
  <2>2. PICK b : b = IF key \in DOMAIN redis.buckets THEN redis.buckets[key]
                     ELSE [tokens |-> MaxTokens, last |-> t, expires |-> 0]
    BY Zenon
  <2>3. Fits(MaxTokens, RefillRate, b.tokens, t - b.last, LimitOf(key), RateOf(key), Room(key))
    <3>1. CASE key \in DOMAIN redis.buckets
      BY <2>1, <2>2, <3>1, Zenon DEF RedisOK, RedisBucket
    <3>2. CASE key \notin DOMAIN redis.buckets
      <4>1. b.tokens = MaxTokens /\ b.last = t
        BY <2>2, <3>2, Zenon
      <4>2. /\ LimitOf(key) \in Int /\ RateOf(key) \in Int /\ Room(key) \in Int
            /\ MaxTokens <= LimitOf(key) /\ RefillRate <= RateOf(key) /\ MaxTokens <= Room(key)
        BY <3>2, LimitFacts, RoomFacts, FullRoom DEF RedisOK
      <4>3. t - t = 0
        BY <2>1 DEF LimiterTypes
      <4> QED BY <4>1, <4>2, <4>3, FitsNew, TokenConstants, Zenon
    <3> QED BY <3>1, <3>2
  <2>4. PICK l : l = Level(MaxTokens, RefillRate, b.tokens, t - b.last)
    OBVIOUS
  <2>5. PICK left : left = IF l >= cost THEN l - cost ELSE l
    OBVIOUS
  <2>6. PICK after : after = [tokens |-> left, last |-> t, expires |-> now + BucketTtl]
    BY Zenon
  <2>7. /\ redis' = [redis EXCEPT !.buckets = With(@, key, after)]
        /\ IF l >= cost THEN Spend(key, cost) ELSE UNCHANGED <<spent, since>>
    <3> DEFINE ok == l >= cost
    <3>1. kRateLimitLua(n, key, cost) = [ok |-> ok, bucket |-> after]
      BY <2>1, <2>2, <2>4, <2>5, <2>6, Zenon DEF kRateLimitLua, Level
    <3> HIDE DEF ok
    <3>2. kRateLimitLua(n, key, cost).ok = ok /\ kRateLimitLua(n, key, cost).bucket = after
      BY <3>1
    <3> QED BY <1>2, <3>2, Zenon DEF rateLimitAllow, ok
  <2>8. /\ left \in Nat
        /\ Fits(MaxTokens, RefillRate, left, 0, LimitOf(key)', RateOf(key)', Room(key)')
    BY <2>3, <2>4, <2>5, <2>7, FitsAfter, Zenon
  <2>9. RedisBucket(key, after)'
    <3>1. /\ after \in [tokens : Nat, last : Int, expires : Int] /\ after.tokens = left
          /\ (now' + Ahead) - after.last = 0 /\ after.expires = (after.last - Ahead) + BucketTtl
      <4>1. /\ now \in Nat /\ BucketTtl \in Nat /\ now' = now
            /\ after = [tokens |-> left, last |-> now + Ahead, expires |-> now + BucketTtl]
        BY <2>1, <2>6, TokenConstants, Zenon DEF LimiterTypes
      <4>2. /\ after.tokens = left /\ after.last = now + Ahead /\ after.expires = now + BucketTtl
        BY <4>1, Zenon
      <4>3. /\ now + Ahead \in Int /\ now + BucketTtl \in Int
            /\ now + BucketTtl = ((now + Ahead) - Ahead) + BucketTtl
        BY <4>1, LaterBy, Zenon
      <4>4. (now + Ahead) - (now + Ahead) = 0
        BY <4>3, LessItself, Zenon
      <4>5. after \in [tokens : Nat, last : Int, expires : Int]
        BY <2>8, <4>1, <4>3, Zenon
      <4> QED BY <4>1, <4>2, <4>3, <4>4, <4>5, Zenon
    <3> QED BY <2>8, <3>1, ZenonT(30) DEF RedisBucket
  <2>10. Writes(key, redis.buckets, redis'.buckets) /\ redis'.buckets[key] = after
    BY <2>7 DEF With, RedisShape, Writes
  <2>11. Spares(key)
    BY <2>7, RoomAfter, Zenon DEF Spares
  <2>12. RedisBucket(key, redis.buckets[key])'
    BY <2>9, <2>10, Zenon
  <2> QED BY <2>10, <2>11, <2>12, RedisWritten, Zenon
<1> QED BY <1>1, <1>2, ZenonT(30)

LEMMA ClocksOK ==
  ASSUME EqualClocks, LimiterTypes
  PROVE  Ahead \in Nat /\ \A n \in Nodes : Clock(n) = now + Ahead
<1>1. Ahead \in Skews
  BY TokenConstants, Zenon DEF Ahead
<1>2. \A n \in Nodes : setup.skew[n] = Ahead
  BY <1>1 DEF EqualClocks, LimiterTypes
<1> QED BY <1>1, <1>2, TokenConstants DEF Clock

\* A request that is admitted or refused, in the process or through Redis.
LEMMA TokenAllowOK ==
  ASSUME TokenInv, RedisShape, EqualClocks, NEW key, NEW cost \in Nat, NEW n \in Nodes,
         UNCHANGED <<now, setup, quota>>,
         IF setup.redis
         THEN rateLimitAllow(n, key, cost) /\ UNCHANGED shard
         ELSE LET r == allow(shard, key, cost, now)
              IN  /\ shard' = r.shard
                  /\ IF r.ok THEN Spend(key, cost) ELSE UNCHANGED <<spent, since>>
                  /\ UNCHANGED redis
  PROVE  TokenInv'
<1>1. LimiterTypes
  BY ZenonT(30) DEF TokenInv
<1>2. IF setup.redis THEN RedisOK' /\ shard' = shard
                     ELSE ShardOK' /\ DOMAIN shard' = {"buckets", "ops"}
  <2>1. CASE setup.redis
    <3>1. rateLimitAllow(n, key, cost) /\ shard' = shard /\ RedisOK
      BY <2>1, Zenon DEF TokenInv
    <3> QED BY <1>1, <2>1, <3>1, ClocksOK, RedisAllowOK, Zenon
  <2>2. CASE ~setup.redis
    <3>1. /\ shard' = allow(shard, key, cost, now).shard /\ ShardOK
          /\ IF allow(shard, key, cost, now).ok THEN Spend(key, cost)
             ELSE UNCHANGED <<spent, since>>
      BY <2>2, Zenon DEF TokenInv
    <3> QED BY <1>1, <2>2, <3>1, ShardAllowOK, Zenon
  <2> QED BY <2>1, <2>2, Zenon
<1>3. Spend(key, cost) \/ UNCHANGED <<spent, since>>
  BY Zenon DEF rateLimitAllow
<1>4. /\ DOMAIN spent' = DOMAIN since'
      /\ \A k \in DOMAIN spent' : spent'[k] \in Nat /\ since'[k] \in Nat
  BY <1>1, <1>3, RoomAfter, ZenonT(30)
<1>5. LimiterTypes'
  BY <1>1, <1>2, <1>4, Zenon DEF LimiterTypes
<1> QED BY <1>2, <1>5, Zenon DEF TokenInv

LEMMA TokenInitOK == ClusterInit => TokenInv
<1> SUFFICES ASSUME ClusterInit PROVE TokenInv
  OBVIOUS
<1>1. DOMAIN spent = {} /\ DOMAIN since = {} /\ DOMAIN shard.buckets = {}
      /\ DOMAIN redis.buckets = {} /\ DOMAIN shard = {"buckets", "ops"} /\ now = 1
  BY Zenon DEF ClusterInit, NoKeys, NoBuckets
<1>2. setup.redis \in BOOLEAN /\ \A n \in Nodes : setup.skew[n] \in Skews
  BY Zenon DEF ClusterInit
<1>3. DOMAIN quota = {"quotas", "seeded"} /\ \A m \in DOMAIN quota.quotas : quota.quotas[m] = Quota
  <2>1. ASSUME NEW m, quota = setQuota(NoQuotas, m, Quota)
        PROVE  /\ DOMAIN quota = {"quotas", "seeded"}
               /\ \A o \in DOMAIN quota.quotas : quota.quotas[o] = Quota
    BY <2>1, Zenon DEF setQuota, NoQuotas, NoKeys, With
  <2>2. quota = NoQuotas \/ \E m \in Modalities : quota = setQuota(NoQuotas, m, Quota)
    BY Zenon DEF ClusterInit
  <2> QED BY <2>1, <2>2 DEF NoQuotas, NoKeys
<1>4. LimiterTypes
  BY <1>1, <1>2, <1>3 DEF LimiterTypes
<1> QED BY <1>1, <1>4, ZenonT(30) DEF TokenInv, ShardOK, RedisOK, RoomForFull

LEMMA TokenStepOK ==
  ASSUME EqualClocks, SlotInv, TokenInv, [ClusterNext]_clusterVars
  PROVE  TokenInv'
<1>1. RedisShape /\ LimiterTypes /\ Ahead \in Nat
  BY ClocksOK, Zenon DEF SlotInv, TokenInv
<1>2. CASE Tick
  BY <1>1, <1>2, TokenTickOK, Zenon
<1>3. CASE RedisFails
  <2>1. redis'.buckets = redis.buckets
    BY <1>1, <1>3 DEF RedisFails, RedisShape
  <2> QED BY <1>3, <2>1, NoTokenMoves, Zenon DEF RedisFails
<1>4. ASSUME NEW n \in Nodes, NEW key, NEW cost \in Nat, Allow(n, key, cost) PROVE TokenInv'
  BY <1>1, <1>4, TokenAllowOK, Zenon DEF Allow
<1>5. ASSUME NEW n \in Nodes, TakeQuota(n) PROVE TokenInv'
  <2>1. PICK k : k = node[n].key
    OBVIOUS
  <2>2. 1 \in Nat
    OBVIOUS
  <2> QED BY <1>1, <1>5, <2>1, <2>2, TokenAllowOK, Zenon DEF TakeQuota
<1>6. ASSUME NEW n \in Nodes, NEW key, NEW content,
             \/ RecordRejection(n, key) \/ Observe(n, key, content)
             \/ AbuseRead(n, key) \/ AbuseWrite(n) \/ AbuseJudge(n)
             \/ BreakerState(n) \/ BreakerFields(n)
      PROVE  TokenInv'
  <2>1. \/ UNCHANGED <<now, setup, shard, quota, redis, spent, since>>
        \/ AbuseRead(n, key) \/ AbuseWrite(n) \/ AbuseJudge(n)
    BY <1>6, Zenon DEF RecordRejection, Observe, BreakerState, BreakerFields
  <2>2. UNCHANGED <<now, setup, shard, quota, spent, since>> /\ redis'.buckets = redis.buckets
    BY <1>1, <2>1, AbuseView, Zenon
  <2> QED BY <2>2, NoTokenMoves, Zenon
<1>7. ASSUME NEW n \in Nodes,
             BreakerProbe(n) \/ BreakerTake(n) \/ CallSucceeds(n) \/ CallFails(n)
      PROVE  TokenInv'
  <2>1. /\ UNCHANGED <<now, setup, shard, quota, spent, since>>
        /\ redis' = redis \/ \E c : redis' = [redis EXCEPT !.circuit = c]
    BY <1>7, Zenon DEF BreakerProbe, BreakerTake, CallSucceeds, CallFails
  <2>2. redis'.buckets = redis.buckets
    BY <1>1, <2>1 DEF RedisShape
  <2> QED BY <2>1, <2>2, NoTokenMoves, Zenon
<1>8. CASE UNCHANGED clusterVars
  BY <1>8, NoTokenMoves, Zenon DEF clusterVars
<1>9. \A c \in Costs : c \in Nat
  BY TokenConstants
<1> QED
  BY <1>2, <1>3, <1>4, <1>5, <1>6, <1>7, <1>8, <1>9, SeedOK, Zenon DEF ClusterNext

\* Whatever is pruned, expires, is seeded or refilled, and whichever nodes ask,
\* the tokens admitted for a key never exceed its bucket plus what was refilled
\* since its first request, for any limits, keys, costs and number of nodes
\* whose clocks agree.
THEOREM TokensBoundedHolds ==
  ASSUME EqualClocks
  PROVE  ClusterSpec => []TokensBounded
<1>1. TokenInv => TokensBounded
  <2> SUFFICES ASSUME TokenInv, NEW k \in DOMAIN spent
               PROVE  spent[k] <= LimitOf(k) + RateOf(k) * (now - since[k])
    BY Zenon DEF TokensBounded
  <2> DEFINE due == LimitOf(k) + RateOf(k) * (now - since[k])
  <2>1. spent[k] \in Int /\ now - since[k] \in Int /\ Room(k) = due - spent[k] /\ Room(k) >= 0
    BY RoomLeft DEF TokenInv, LimiterTypes, Room
  <2>2. due \in Int
    BY <2>1, LimitFacts
  <2> HIDE DEF due
  <2>3. spent[k] <= due
    BY <2>1, <2>2
  <2> QED BY <2>3 DEF due
<1>2. SlotInv /\ TokenInv /\ [ClusterNext]_clusterVars => SlotInv' /\ TokenInv'
  BY SlotStepOK, TokenStepOK
<1> QED BY <1>1, <1>2, SlotInitOK, TokenInitOK, PTL DEF ClusterSpec
=============================================================================

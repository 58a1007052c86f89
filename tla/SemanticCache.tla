--------------------------- MODULE SemanticCache ---------------------------
(***************************************************************************)
(* The semantic cache of the request path: its entries with their LRU      *)
(* list, the partitioned in-process vector index that finds them, and the  *)
(* CacheStore copy it is warmed up from after a restart.  The lock of the  *)
(* cache is released between the phases of a lookup and of an insertion,   *)
(* so each phase is an action of the request thread that runs it.          *)
(*                                                                         *)
(* Abstractions: a prompt is a number, whose distance to another gives the *)
(* similarity; a partition key (a SHA-256 over tenant, conversation and    *)
(* system prompt) is the pair of tenant and conversation; an entry is      *)
(* fresh or past its TTL; similarities are percentages.                    *)
(***************************************************************************)
EXTENDS Integers, Sequences, FiniteSets, SequencesExt

CONSTANTS
  Threads,          \* threads that run requests
  Prompts,          \* a set of numbers
  Models, Tenants, Conversations,
  MaxEntries,       \* max_entries_, and the capacity of a partition
  MaxPartitions,    \* max_partitions_
  EvictInterval,    \* kEvictInterval
  WindowSize,       \* window_size of the adaptive threshold
  MaxPuts,          \* bound: insertions
  MaxRestarts       \* bound: restarts

VARIABLES
  entries,          \* entries_: id -> entry
  lru,              \* lru_list_, most recently used first
  seq,              \* seq_counter_
  index,            \* PartitionedVectorIndex: key -> [live, used]
  stored,           \* what the CacheStore keeps: id -> entry
  threshold, recent,\* threshold_ and the window of recent outcomes
  options,          \* the deployment: sharing, adaptive threshold, a store
                    \* that outlives the process, imports, threads, tenants
  thread,           \* what each thread does
  restarts,
  putsLeft          \* insertions that may still be made

cacheVars == <<entries, lru, seq, index, stored, threshold, recent, options,
               thread, restarts, putsLeft>>

Empty == [x \in {} |-> {}]
Idle  == [at |-> "idle"]
Drop(f, x) == [y \in DOMAIN f \ {x} |-> f[y]]
Put(f, x, v) == [y \in DOMAIN f \cup {x} |-> IF y = x THEN v ELSE f[y]]

\* A list without the last occurrence of an id.
RemoveLast(list, id) == Reverse(Remove(Reverse(list), id))

Similarity(p, q) == IF p = q THEN 100 ELSE IF p - q \in {1, -1} THEN 92 ELSE 0

(***************************************************************************)
(* VectorIndex: a slot freed by a removal is reused, but it stays counted  *)
(* in used (cur_element_count), and a full index refuses an insertion      *)
(* before it looks for a free slot.                                        *)
(***************************************************************************)
Slots == [live |-> Empty, used |-> 0]

InsertSlot(part, id, vec) ==
  IF id \in DOMAIN part.live THEN [ok |-> TRUE, part |-> part]
  ELSE IF part.used >= MaxEntries THEN [ok |-> FALSE, part |-> part]
  ELSE [ok   |-> TRUE,
        part |-> [live |-> Put(part.live, id, vec),
                  used |-> IF part.used > Cardinality(DOMAIN part.live)
                           THEN part.used ELSE part.used + 1]]

RemoveSlot(part, id) == [part EXCEPT !.live = Drop(@, id)]

\* The nearest live vectors at or above a threshold; ties are broken either way.
Nearest(part, vec, floor) ==
  {id \in DOMAIN part.live :
     /\ Similarity(part.live[id], vec) >= floor
     /\ \A o \in DOMAIN part.live :
          Similarity(part.live[o], vec) <= Similarity(part.live[id], vec)}

(***************************************************************************)
(* PartitionedVectorIndex: past max_partitions_ new keys share one bucket. *)
(***************************************************************************)
Overflow == <<"__overflow__">>
Shared   == <<>>                  \* the empty key, used by importFromJson

resolveKey(ix, key) ==
  IF \/ key \in DOMAIN ix \/ key \in {Shared, Overflow}
     \/ Cardinality(DOMAIN ix) < MaxPartitions
  THEN key ELSE Overflow

getOrCreate(ix, key) ==
  LET k == resolveKey(ix, key)
  IN  IF k \notin DOMAIN ix /\ Cardinality(DOMAIN ix) >= MaxPartitions
      THEN Overflow ELSE k

Partition(ix, k) == IF k \in DOMAIN ix THEN ix[k] ELSE Slots

insert(ix, key, id, vec) ==
  LET k == getOrCreate(ix, key)
      r == InsertSlot(Partition(ix, k), id, vec)
  IN  [ok |-> r.ok, index |-> Put(ix, k, r.part)]

remove(ix, key, id) ==
  LET k == resolveKey(ix, key)
  IN  IF k \in DOMAIN ix THEN Put(ix, k, RemoveSlot(ix[k], id)) ELSE ix

\* As search, with the nearest vector however far it is.
searchUnfloored(ix, key, vec, floor) == Nearest(Partition(ix, resolveKey(ix, key)), vec, 0)

search(ix, key, vec, floor) == Nearest(Partition(ix, resolveKey(ix, key)), vec, floor)

\* The best matches over all partitions.
searchAll(ix, vec, floor) ==
  LET found == {<<k, id>> \in UNION {{k} \X Nearest(ix[k], vec, floor) : k \in DOMAIN ix} : TRUE}
      Score(f) == Similarity(ix[f[1]].live[f[2]], vec)
  IN  {f[2] : f \in {g \in found : \A h \in found : Score(h) <= Score(g)}}

(***************************************************************************)
(* The adaptive threshold.                                                 *)
(***************************************************************************)
MinThreshold == 85
MaxThreshold == 98
AdjustRate   == 8
BigOf(a, b)   == IF a >= b THEN a ELSE b
SmallOf(a, b) == IF a <= b THEN a ELSE b

Hits(window) == Cardinality({i \in DOMAIN window : window[i].hit})
computeP50(window) ==
  LET sims == [i \in DOMAIN window |-> window[i].sim]
  IN  SortSeq(sims, <)[(Len(sims) \div 2) + 1]

maybeAdjustThreshold(window, th) ==
  LET low  == 100 * Hits(window) < 15 * Len(window) /\ 10 * computeP50(window) > 9 * th
      high == 100 * Hits(window) > 60 * Len(window) /\ 100 * computeP50(window) < 105 * th
  IN  IF low THEN BigOf(MinThreshold, th - AdjustRate)
      ELSE IF high THEN SmallOf(MaxThreshold, th + AdjustRate \div 2)
      ELSE th

recordHitMiss(hit, sim) ==
  LET window == Append(recent, [hit |-> hit, sim |-> sim])
  IN  IF ~options.adaptive THEN UNCHANGED <<threshold, recent>>
      ELSE IF Len(window) < WindowSize
      THEN recent' = window /\ UNCHANGED threshold
      ELSE /\ threshold' = maybeAdjustThreshold(window, threshold)
           /\ recent' = <<>>

(***************************************************************************)
(* A lookup: SemanticCache::process and get.                               *)
(***************************************************************************)
At(t, at) == thread[t].at = at
Go(t, job) == thread' = [thread EXCEPT ![t] = job]

\* After a miss the request goes on to a model and comes back to store its
\* answer, unless another tenant's entries may answer it.
Missed(j) ==
  [at |-> IF options.sharing THEN "share" ELSE "miss",
   prompt |-> j.prompt, model |-> j.model, part |-> j.part]

\* process(): tool calls, empty prompts and what the policy skips never get here.
Lookup(t) ==
  /\ At(t, "idle")
  /\ \E p \in Prompts, m \in Models, n \in options.tenants, c \in Conversations :
       LET j == [at |-> "idle", prompt |-> p, model |-> m, part |-> <<n, c>>]
           found == search(index, j.part, p, threshold)
           Score(id) == Similarity(index[resolveKey(index, j.part)].live[id], p)
       IN  \/ \E id \in found :
                /\ Go(t, [at |-> "check", id |-> id, sim |-> Score(id)] @@ j)
                /\ UNCHANGED <<threshold, recent>>
           \/ found = {} /\ Go(t, Missed(j)) /\ recordHitMiss(FALSE, 0)
  /\ UNCHANGED <<entries, lru, seq, index, stored, options, restarts, putsLeft>>

ToFront(list, id) == IF id \in Range(list) THEN <<id>> \o Remove(list, id) ELSE list

\* The part of get() under the lock, for the id the index returned.
checkEntry(j, id) ==
  IF id \notin DOMAIN entries THEN "gone"
  ELSE IF ~entries[id].fresh THEN "expired"
  ELSE IF entries[id].model # j.model THEN "model"
  ELSE IF entries[id].part # j.part THEN "partition"
  ELSE "hit"

\* An expired entry leaves the map and the LRU list at once.
forgetExpired(id) == entries' = Drop(entries, id) /\ lru' = Remove(lru, id)

Check(t) ==
  LET j == thread[t]
      r == checkEntry(j, j.id)
  IN  /\ At(t, "check")
      /\ \/ /\ r = "hit"
            /\ lru' = ToFront(lru, j.id)
            /\ Go(t, [at |-> "served", entry |-> entries[j.id]] @@ j)
            /\ UNCHANGED entries
         \/ /\ r = "expired"
            /\ forgetExpired(j.id)
            /\ Go(t, [j EXCEPT !.at = "drop"])
         \/ /\ r \in {"gone", "model", "partition"}
            /\ Go(t, Missed(j))
            /\ UNCHANGED <<entries, lru>>
      /\ recordHitMiss(r = "hit", j.sim)
      /\ UNCHANGED <<seq, index, stored, options, restarts, putsLeft>>

\* The vector of the expired entry is removed after the lock is released.
DropExpired(t) ==
  LET j == thread[t]
  IN  /\ At(t, "drop")
      /\ index' = remove(index, j.part, j.id)
      /\ Go(t, Missed(j))
      /\ UNCHANGED <<entries, lru, seq, stored, threshold, recent, options, restarts, putsLeft>>

\* getCrossTenant, when sharing is switched on.
MinSharing == 95
getCrossTenant(t) ==
  LET j == thread[t]
      found == searchAll(index, j.prompt, MinSharing)
      Usable(id) == /\ id \in DOMAIN entries
                    /\ entries[id].fresh /\ entries[id].model = j.model
  IN  /\ At(t, "share")
      /\ \/ \E id \in found :
              Go(t, IF Usable(id)
                    THEN [at |-> "served", entry |-> entries[id]] @@ j
                    ELSE [j EXCEPT !.at = "miss"])
         \/ found = {} /\ Go(t, [j EXCEPT !.at = "miss"])
      /\ UNCHANGED <<entries, lru, seq, index, stored, threshold, recent, options,
                     restarts, putsLeft>>

\* The answer is on its way to the client; a missed request may also fail
\* before it has anything to store.
Finish(t) ==
  /\ thread[t].at \in {"served", "miss"}
  /\ Go(t, Idle)
  /\ UNCHANGED <<entries, lru, seq, index, stored, threshold, recent, options,
                 restarts, putsLeft>>

(***************************************************************************)
(* An insertion: putFromContext and put.                                   *)
(***************************************************************************)
\* evictExpiredLocked: the ids past their TTL.
evictExpiredLocked == {id \in DOMAIN entries : ~entries[id].fresh}

\* evictLRU: the id at the back of the list, if there is one.
evictLRU(list) == IF list = <<>> THEN {} ELSE {Last(list)}

Tagged(ids) ==
  {<<IF id \in DOMAIN entries THEN entries[id].part ELSE Shared, id>> : id \in ids}

\* What phase 1 evicts: the expired entries every EvictInterval insertions,
\* then the least recently used one if the cache is still full.
Victims ==
  LET old  == IF (seq + 1) % EvictInterval = 0 THEN evictExpiredLocked ELSE {}
      full == Cardinality(DOMAIN entries \ old) >= MaxEntries
  IN  old \cup (IF full THEN evictLRU(SelectSeq(lru, LAMBDA id : id \notin old)) ELSE {})

\* Phase 1, under the lock: make room and take the next id.
Allocate(t, j) ==
  /\ putsLeft > 0
  /\ putsLeft' = putsLeft - 1
  /\ seq' = seq + 1
  /\ entries' = [id \in DOMAIN entries \ Victims |-> entries[id]]
  /\ lru' = FoldSet(LAMBDA id, list : RemoveLast(list, id), lru, Victims)
  /\ Go(t, [at |-> "unlink", id |-> <<j.model, seq>>, prompt |-> j.prompt,
            model |-> j.model, part |-> j.part, out |-> Tagged(Victims)])
  /\ UNCHANGED <<index, stored, threshold, recent, options, restarts>>

putFromContext(t) == At(t, "miss") /\ Allocate(t, thread[t])

\* importFromJson puts under the empty partition key.
importFromJson(t) ==
  /\ At(t, "idle") /\ options.imports
  /\ \E p \in Prompts, m \in Models :
       Allocate(t, [at |-> "idle", prompt |-> p, model |-> m, part |-> Shared])

\* Phase 2, without the lock: remove the victim's vector ...
Unlink(t) ==
  LET j == thread[t]
  IN  /\ At(t, "unlink")
      /\ index' = FoldSet(LAMBDA v, ix : remove(ix, v[1], v[2]), index, j.out)
      /\ Go(t, [j EXCEPT !.at = "insert", !.out = {}])
      /\ UNCHANGED <<entries, lru, seq, stored, threshold, recent, options, restarts, putsLeft>>

\* ... and insert the new one.  Nothing is registered if that fails.
Insert(t) ==
  LET j == thread[t]
      r == insert(index, j.part, j.id, j.prompt)
  IN  /\ At(t, "insert")
      /\ index' = r.index
      /\ Go(t, IF r.ok THEN [j EXCEPT !.at = "commit"] ELSE Idle)
      /\ UNCHANGED <<entries, lru, seq, stored, threshold, recent, options, restarts, putsLeft>>

\* Phase 3, under the lock: register the entry and persist it.
Commit(t) ==
  LET j == thread[t]
      e == [prompt |-> j.prompt, model |-> j.model,
            part |-> j.part, fresh |-> TRUE]
  IN  /\ At(t, "commit")
      /\ entries' = Put(entries, j.id, e)
      /\ lru' = <<j.id>> \o lru
      /\ \/ options.durable /\ stored' = Put(stored, j.id, e)   \* persistEntry
         \/ UNCHANGED stored           \* which may fail, or write to memory
      /\ Go(t, Idle)
      /\ UNCHANGED <<seq, index, threshold, recent, options, restarts, putsLeft>>

(***************************************************************************)
(* Time, and a restart with a warm-up from the CacheStore.                 *)
(***************************************************************************)
Expire ==
  /\ \E id \in DOMAIN entries :
       /\ entries[id].fresh
       /\ entries' = [entries EXCEPT ![id].fresh = FALSE]
       /\ stored' = Drop(stored, id)
  /\ UNCHANGED <<lru, seq, index, threshold, recent, options, thread, restarts, putsLeft>>

\* warmUp loads what the store returns, up to the limit, in any order.  The
\* counter that numbers new entries starts again from zero.
warmUp ==
  /\ options.durable /\ restarts < MaxRestarts
  /\ restarts' = restarts + 1
  /\ \E order \in SetToSeqs(DOMAIN stored) :
       LET load == SubSeq(order, 1, SmallOf(Len(order), MaxEntries))
       IN  /\ entries' = [id \in Range(load) |-> stored[id]]
           /\ lru' = load
           /\ index' = FoldLeft(LAMBDA ix, id :
                          insert(ix, stored[id].part, id, stored[id].prompt).index,
                          Empty, load)
  /\ seq' = 0
  /\ thread' = [t \in Threads |-> Idle]
  /\ recent' = <<>> /\ threshold' = 90
  /\ UNCHANGED <<stored, options, putsLeft>>

CacheInit ==
  /\ entries = Empty /\ lru = <<>> /\ seq = 0
  /\ index = Empty /\ stored = Empty
  /\ threshold = 90 /\ recent = <<>>
  /\ options \in
       LET one == {CHOOSE t \in Threads : TRUE}
           Plain == [sharing |-> FALSE, adaptive |-> FALSE, durable |-> FALSE,
                     imports |-> FALSE, threads |-> one, tenants |-> Tenants]
       IN  {[Plain EXCEPT !.threads = Threads,
                          !.tenants = {CHOOSE n \in Tenants : TRUE}],
            [Plain EXCEPT !.sharing = TRUE, !.imports = TRUE],
            [Plain EXCEPT !.adaptive = TRUE],
            [Plain EXCEPT !.durable = TRUE, !.imports = TRUE]}
  /\ thread = [t \in Threads |-> Idle]
  /\ restarts = 0 /\ putsLeft = MaxPuts

CacheStep(t) ==
  \/ Lookup(t) \/ Check(t) \/ DropExpired(t) \/ getCrossTenant(t)
  \/ Finish(t) \/ putFromContext(t) \/ importFromJson(t)
  \/ Unlink(t) \/ Insert(t) \/ Commit(t)

CacheNext == (\E t \in options.threads : CacheStep(t)) \/ Expire \/ warmUp

CacheSpec == CacheInit /\ [][CacheNext]_cacheVars
(***************************************************************************)
(* Properties.                                                             *)
(***************************************************************************)
Served == {thread[t] : t \in {u \in Threads : At(u, "served")}}

\* Until a restart, the answer of a hit was given to a prompt that is at
\* least as similar as the sharing limit or the lowest threshold demand
\* (get, put).
HitAnswersPrompt ==
  restarts = 0 => \A j \in Served : Similarity(j.prompt, j.entry.prompt) >= MinThreshold

\* The same after restarts too: what the tests of warmUp expect.
HitAnswersPromptAlways ==
  \A j \in Served : Similarity(j.prompt, j.entry.prompt) >= MinThreshold
=============================================================================

---------------------------- MODULE CacheStores ----------------------------
(***************************************************************************)
(* What outlives the semantic cache: the stores under it, and the snapshots  *)
(* of its index.                                                             *)
(*                                                                           *)
(* The two CacheStore back ends under the semantic cache (src/storage),      *)
(* given the same calls: MemoryCacheStore, a map with an LRU list beside it, *)
(* and RedisCacheStore, whose server expires keys by itself, may be out of   *)
(* reach, and is cleared by a scan that other calls run into.                *)
(***************************************************************************)
EXTENDS Integers, Sequences, FiniteSets, SequencesExt

CONSTANTS StoreKeys, Values, Ttls, MaxSize, MaxClock, MaxOps

ASSUME CacheSizeAssumption == MaxSize \in Nat \ {0}

VARIABLES mem,        \* [data, lru]: MemoryCacheStore
          red,        \* the keys of the Redis server
          up,         \* is the server reachable?
          scan,       \* RedisCacheStore::clear under way: the keys still to visit
          clock, ops,
          touched,    \* history: when each key was last used
          apart,      \* history: keys the two stores rightly disagree on
          early       \* history: keys written before the clear under way began

cvars == <<mem, red, up, scan, clock, ops, touched, apart, early>>

Absent == [value |-> "none", expire |-> 0]
Forever == 0

Entry(v, ttl) == [value |-> v, expire |-> IF ttl > 0 THEN clock + ttl ELSE Forever]
Held(data) == {k \in StoreKeys : data[k] # Absent}

NoScan == [on |-> FALSE, left |-> {}]

CacheStoreInit ==
  /\ mem = [data |-> [k \in StoreKeys |-> Absent], lru |-> << >>]
  /\ red = [k \in StoreKeys |-> Absent]
  /\ up = TRUE /\ scan = NoScan /\ clock = 1 /\ ops = 0
  /\ touched = [k \in StoreKeys |-> 0] /\ apart = {} /\ early = {}

-----------------------------------------------------------------------------
(* MemoryCacheStore *)

isExpiredLate(e) == e.expire # Forever /\ clock > e.expire + 1

isExpired(e) == e.expire # Forever /\ clock > e.expire

touchLRU(lru, k) == <<k>> \o Remove(lru, k)

mem_evictLRU(m) ==
  [data |-> [m.data EXCEPT ![Last(m.lru)] = Absent], lru |-> Front(m.lru)]

\* An expired entry is still an entry here: it is overwritten in place.
mem_set(m, k, e) ==
  LET room == IF m.data[k] = Absent /\ Cardinality(Held(m.data)) >= MaxSize
              THEN mem_evictLRU(m) ELSE m
  IN  [data |-> [room.data EXCEPT ![k] = e], lru |-> touchLRU(room.lru, k)]

mem_del(m, k) == [data |-> [m.data EXCEPT ![k] = Absent], lru |-> Remove(m.lru, k)]

mem_exists(m, k) == m.data[k] # Absent /\ ~isExpired(m.data[k])

mem_get(m, k) ==
  CASE m.data[k] = Absent -> m
    [] m.data[k] # Absent /\ isExpired(m.data[k]) -> mem_del(m, k)
    [] OTHER -> [m EXCEPT !.lru = touchLRU(@, k)]

mem_clear == [data |-> [k \in StoreKeys |-> Absent], lru |-> << >>]

-----------------------------------------------------------------------------
(* RedisCacheStore: a call without a connection has no effect. *)

red_set(k, e) == IF up THEN [red EXCEPT ![k] = e] ELSE red
red_del(k)    == IF up THEN [red EXCEPT ![k] = Absent] ELSE red
red_keys      == Held(red)

-----------------------------------------------------------------------------
(* The calls. *)

Call == ops < MaxOps /\ ops' = ops + 1
Use(k) == touched' = [touched EXCEPT ![k] = ops + 1]

Evicted(m) == Held(mem.data) \ Held(m.data)

\* A write settles a disagreement, unless Redis missed it or is being scanned.
set(k, v, ttl) ==
  LET m == mem_set(mem, k, Entry(v, ttl)) IN
  /\ Call /\ Use(k)
  /\ mem' = m
  /\ red' = red_set(k, Entry(v, ttl))
  /\ apart' = ((apart \ {k}) \cup Evicted(m)) \cup
              IF up /\ ~scan.on THEN {} ELSE {k}
  /\ early' = early \ {k}
  /\ UNCHANGED <<up, scan, clock>>

get(k) ==
  /\ Call /\ mem' = mem_get(mem, k)
  /\ IF mem_exists(mem, k) THEN Use(k) ELSE UNCHANGED touched
  /\ UNCHANGED <<red, up, scan, clock, apart, early>>

del(k) ==
  /\ Call /\ mem' = mem_del(mem, k) /\ red' = red_del(k)
  /\ apart' = IF up THEN apart \ {k} ELSE apart \cup {k}
  /\ UNCHANGED <<up, scan, clock, touched, early>>

\* In memory at once; in Redis a scan over the keys, deleting as it goes.
clear ==
  /\ Call /\ ~scan.on
  /\ mem' = mem_clear
  /\ scan' = IF up THEN [on |-> TRUE, left |-> red_keys] ELSE NoScan
  /\ apart' = StoreKeys /\ early' = IF up THEN red_keys ELSE {}
  /\ UNCHANGED <<red, up, clock, touched>>

scanDeleteMatching ==
  /\ scan.on /\ up /\ scan.left # {}
  /\ \E k \in scan.left :
       /\ red' = [red EXCEPT ![k] = Absent]
       /\ scan' = [scan EXCEPT !.left = @ \ {k}]
  /\ UNCHANGED <<mem, up, clock, ops, touched, apart, early>>

\* The cursor is back at its start: the stores agree again on what both lack.
ScanEnds ==
  /\ scan.on /\ up /\ scan.left = {}
  /\ scan' = NoScan
  /\ apart' = {k \in apart : mem.data[k] # red[k]}
  /\ UNCHANGED <<mem, red, up, clock, ops, touched, early>>

\* A scan command that fails ends the clear where it is.
ScanFails ==
  /\ scan.on /\ ~up
  /\ scan' = NoScan /\ early' = {}
  /\ UNCHANGED <<mem, red, up, clock, ops, touched, apart>>

ServerDown == up /\ Call /\ up' = FALSE
              /\ UNCHANGED <<mem, red, scan, clock, touched, apart, early>>
ServerUp   == ~up /\ up' = TRUE
              /\ UNCHANGED <<mem, red, scan, clock, ops, touched, apart, early>>

\* Time passes, and Redis drops what has expired.
StoreTick ==
  /\ clock < MaxClock /\ clock' = clock + 1
  /\ red' = [k \in StoreKeys |-> IF red[k].expire # Forever /\ clock + 1 > red[k].expire
                            THEN Absent ELSE red[k]]
  /\ UNCHANGED <<mem, up, scan, ops, touched, apart, early>>

CacheStoreNext ==
  \/ \E k \in StoreKeys : get(k) \/ del(k) \/ \E v \in Values, t \in Ttls : set(k, v, t)
  \/ clear \/ scanDeleteMatching \/ ScanEnds \/ ScanFails
  \/ ServerDown \/ ServerUp \/ StoreTick

CacheStoreSpec == CacheStoreInit /\ [][CacheStoreNext]_cvars

-----------------------------------------------------------------------------

\* A key neither evicted nor written while Redis was away or being scanned
\* reads the same from either store.
BackendsAgree ==
  \A k \in StoreKeys \ apart :
    IF mem_exists(mem, k) THEN red[k] = mem.data[k] ELSE red[k] = Absent

-----------------------------------------------------------------------------
(***************************************************************************)
(* Snapshots of the vector index (src/cache/cache_migrator.cpp): dump writes *)
(* every entry with its partition and id as a small JSON text under one      *)
(* digest, restore checks the digest and replays them.  A string is a        *)
(* sequence of the characters the two text conversions tell apart.           *)
(***************************************************************************)
CONSTANTS Entries,     \* [partition, id, dim, tenant]: what an index may hold, two at most
          Allowlists   \* sets of tenants a restore may be limited to

VARIABLES source,      \* the entries of the index
          file,        \* the snapshot
          target, refused, \* the index restored into; what it did not take
          allowed, pc

mvars == <<source, file, target, refused, allowed, pc>>

NoFile == [state |-> "none", dim |-> 0, items |-> << >>]

SnapInit ==
  /\ source \in {{}} \cup {{e, f} : e, f \in Entries}
  /\ file = NoFile /\ target = {} /\ refused = {} /\ allowed = {} /\ pc = "start"

-----------------------------------------------------------------------------
(* The text of an entry. *)

jsonEscapeNoBackslash(s) ==
  FlattenSeq([i \in DOMAIN s |->
    CASE s[i] = "quote" -> <<"backslash", "quote">>
      [] s[i] = "newline" -> <<"backslash", "n">>
      [] OTHER -> <<s[i]>>])

jsonEscape(s) ==
  FlattenSeq([i \in DOMAIN s |->
    CASE s[i] \in {"quote", "backslash"} -> <<"backslash", s[i]>>
      [] s[i] = "newline" -> <<"backslash", "n">>
      [] OTHER -> <<s[i]>>])

Opening(key) == <<"quote", key, "quote", ":", "quote">>

buildPayloadJson(partition, id) ==
  <<"{">> \o Opening("partition") \o jsonEscape(partition) \o <<"quote", ",">>
    \o Opening("id") \o jsonEscape(id) \o <<"quote", "}">>

\* The first place where the key opens, then characters up to a bare quote.
extractField(payload, key) ==
  LET open   == Opening(key)
      starts == {i \in 1 .. Len(payload) - Len(open) + 1 :
                   SubSeq(payload, i, i + Len(open) - 1) = open}
      from   == CHOOSE i \in starts : \A j \in starts : i <= j
      escaped(c) == IF c = "n" THEN "newline" ELSE c
      Read[p \in 1 .. Len(payload) + 1] ==
        CASE p > Len(payload) -> [ok |-> FALSE, val |-> << >>]
          [] p < Len(payload) /\ payload[p] = "backslash" ->
               [Read[p + 2] EXCEPT !.val = <<escaped(payload[p + 1])>> \o @]
          [] p <= Len(payload) /\ payload[p] = "quote" -> [ok |-> TRUE, val |-> << >>]
          [] OTHER -> [Read[p + 1] EXCEPT !.val = <<payload[p]>> \o @]
  IN  IF starts = {} THEN [ok |-> FALSE, val |-> << >>] ELSE Read[from + Len(open)]

\* "tenant:abc|conv:1" -> "abc"
tenantFromPartition(partition) ==
  IF Len(partition) >= 2 /\ partition[1] = "tenant:" THEN partition[2] ELSE "none"

-----------------------------------------------------------------------------
(* dump(): the first entry fixes the dimension, entries of another one are   *)
(* skipped; the output is truncated first and complete only after the flush. *)

Dumped == {e \in source : e.dim = file.dim}

dump ==
  /\ pc = "start"
  /\ \E first \in (IF source = {} THEN {0} ELSE {e.dim : e \in source}) :
       file' = [state |-> "cut", dim |-> first,
                items |-> SetToSeq({[dim |-> e.dim,
                                     payload |-> buildPayloadJson(e.partition, e.id)] :
                                      e \in {x \in source : x.dim = first}})]
  /\ pc' = "writing"
  /\ UNCHANGED <<source, target, refused, allowed>>

Flush == /\ pc = "writing" /\ file' = [file EXCEPT !.state = "whole"] /\ pc' = "dumped"
         /\ UNCHANGED <<source, target, refused, allowed>>

\* The process dies before the flush, or the file is damaged afterwards.
Crash == /\ pc = "writing" /\ pc' = "dumped"
         /\ UNCHANGED <<source, file, target, refused, allowed>>

Damage == /\ pc = "dumped" /\ file.state = "whole"
          /\ file' = [file EXCEPT !.state = "altered"]
          /\ UNCHANGED <<source, target, refused, allowed, pc>>

-----------------------------------------------------------------------------
(* restore(): nothing before the digest matches; then entry by entry.        *)

verifyChecksum == file.state = "whole"

Fields(item) == [partition |-> extractField(item.payload, "partition"),
                 id |-> extractField(item.payload, "id"), dim |-> item.dim]

Wanted(item, tenants) ==
  LET f == Fields(item) IN
  /\ f.partition.ok /\ f.id.ok
  /\ tenants = {} \/ tenantFromPartition(f.partition.val) \in tenants
  /\ f.dim = file.dim

restore ==
  /\ pc = "dumped"
  /\ allowed' \in Allowlists
  /\ pc' = "restored"
  /\ IF verifyChecksum
     THEN \E no \in SUBSET DOMAIN file.items :
            LET taken == {i \in DOMAIN file.items : Wanted(file.items[i], allowed')} IN
            /\ no \subseteq taken
            /\ refused' = {[partition |-> Fields(file.items[i]).partition.val,
                            id |-> Fields(file.items[i]).id.val,
                            dim |-> file.dim] : i \in no}
            /\ target' = {[partition |-> Fields(file.items[i]).partition.val,
                           id |-> Fields(file.items[i]).id.val,
                           dim |-> file.dim] : i \in taken \ no}
     ELSE UNCHANGED <<target, refused>>
  /\ UNCHANGED <<source, file>>

SnapNext == dump \/ Flush \/ Crash \/ Damage \/ restore

SnapSpec == SnapInit /\ [][SnapNext]_mvars

-----------------------------------------------------------------------------
Plain(S) == {[partition |-> e.partition, id |-> e.id, dim |-> e.dim] : e \in S}

\* A restore gives back the entries that were dumped, with the partitions and
\* ids they had, whatever quotes and backslashes those hold: all of them when
\* no tenants are named and the index takes them, only entries of the named
\* tenants otherwise, and none when the dump was interrupted or the file damaged.
RestoredIsDumped ==
  pc = "restored" =>
    IF file.state = "whole"
    THEN /\ target \subseteq Plain({e \in Dumped : allowed = {} \/ e.tenant \in allowed})
         /\ allowed = {} => target \cup refused = Plain(Dumped)
    ELSE target = {}
=============================================================================

------------------------------ MODULE MCCaches ------------------------------
(***************************************************************************)
(* The caches and the shared state behind the request path: the semantic   *)
(* cache, the stores under it, snapshots of its index, and the limits and  *)
(* breakers that nodes keep in one Redis.  The parts share no state here,  *)
(* so one of them is chosen in the initial state and the others stand      *)
(* still: the graph is the disjoint union of theirs.                       *)
(***************************************************************************)
EXTENDS SemanticCache, CacheStores, ClusterState

VARIABLE part

(***************************************************************************)
(* Partitions as SemanticCache makes them, a digest of tenant and          *)
(* conversation, and as other writers of the index may name them.          *)
(***************************************************************************)
Strings == UNION {[1 .. n -> {"a", "n", "id", "quote", "backslash", "newline"}] : n \in 0 .. 2}

Made == {[partition |-> <<"digest", t>>, id |-> <<i>>, dim |-> d, tenant |-> t] :
           t \in {"t1", "t2"}, i \in {"1", "2"}, d \in {1, 2}}
Odd  == {[partition |-> <<"tenant:", "t1">> \o s, id |-> r, dim |-> 1, tenant |-> "t1"] :
           s \in Strings, r \in {<< >>, <<"quote", "backslash">>}}

MCEntries == Made \cup Odd
MCAllowlists == {{}, {"t1"}}

MCQuota == [cap |-> 3, rate |-> 1]

(***************************************************************************)
(* The sum.                                                                *)
(***************************************************************************)
allVars == <<part, cacheVars, cvars, mvars, clusterVars>>

CachesInit ==
  /\ part \in {"semantic", "stores", "snapshots", "cluster"}
  /\ CacheInit /\ (part # "semantic" => options.adaptive)
  /\ CacheStoreInit
  /\ SnapInit /\ (part # "snapshots" => source = {})
  /\ ClusterInit
  /\ part # "cluster" =>
       setup.part = "rate" /\ ~setup.redis /\ setup.skew = [n \in Nodes |-> 0] /\ quota = NoQuotas

Only(p) ==
  /\ part = p /\ UNCHANGED part
  /\ IF p = "semantic"  THEN TRUE ELSE UNCHANGED cacheVars
  /\ IF p = "stores"    THEN TRUE ELSE UNCHANGED cvars
  /\ IF p = "snapshots" THEN TRUE ELSE UNCHANGED mvars
  /\ IF p = "cluster"   THEN TRUE ELSE UNCHANGED clusterVars

CachesNext ==
  \/ Only("semantic") /\ CacheNext
  \/ Only("stores") /\ CacheStoreNext
  \/ Only("snapshots") /\ SnapNext
  \/ Only("cluster") /\ ClusterNext

CachesSpec == CachesInit /\ [][CachesNext]_allVars
=============================================================================

---------------------------- MODULE StoresProofs ----------------------------
(***************************************************************************)
(* The threads that share the PostgreSQL store, for any number of threads, *)
(* connections, versions and outages: each connection has one owner, and   *)
(* activateConfig leaves at most one version ACTIVE although its           *)
(* statements interleave with those of other calls.  And, after any calls, *)
(* the two workflow state stores answer alike.                             *)
(***************************************************************************)
EXTENDS PgClients, WorkflowStateStore, FiniteSetTheorems, SequenceTheorems, TLAPS

(***************************************************************************)
(* The pool.                                                               *)
(***************************************************************************)
Places == {"out", "waiting", "checking", "rebuilding", "holding"}
Holding == {c \in Clients : pc[c] = "holding"}

PoolTypes ==
  /\ idle \in Seq(Conns)
  /\ active_count \in Int
  /\ pc \in [Clients -> Places]
  /\ conn \in [Clients -> Conns \cup {0}]

\* A thread owns a connection from the pop to the return.
OwnedInside == \A c \in Clients : conn[c] = 0 <=> pc[c] \in {"out", "waiting"}

\* EachConnectionOnce, by positions of idle_.
IdleOnce == \A i, j \in 1 .. Len(idle) : idle[i] = idle[j] => i = j
OwnedOnce ==
  /\ \A c \in Clients : conn[c] # 0 => \A i \in 1 .. Len(idle) : idle[i] # conn[c]
  /\ \A c, d \in Clients : conn[c] # 0 /\ c # d => conn[c] # conn[d]
Counted == active_count = Cardinality(Holding)

PoolInv == PoolTypes /\ OwnedInside /\ IdleOnce /\ OwnedOnce /\ Counted

LEMMA HoldingFinite == IsFiniteSet(Holding) /\ Cardinality(Holding) \in Nat
<1>1. Holding \in SUBSET Clients
  BY DEF Holding
<1>2. IsFiniteSet(Holding)
  BY <1>1, PoolAssumption, FS_Subset
<1> QED BY <1>2, FS_CardinalityType

LEMMA PoolInitOK == PoolInit => PoolInv
<1> SUFFICES ASSUME PoolInit PROVE PoolInv
  OBVIOUS
<1>1. idle \in Seq(Conns) /\ Len(idle) = PoolSize /\ \A k \in Conns : idle[k] = k
  BY PoolAssumption DEF PoolInit, Conns
<1>2. PoolTypes
  BY <1>1 DEF PoolInit, PoolTypes, Places
<1>3. IdleOnce
  BY <1>1 DEF IdleOnce, Conns
<1>4. OwnedOnce /\ OwnedInside
  BY DEF PoolInit, OwnedOnce, OwnedInside
<1>5. Holding = {}
  BY DEF PoolInit, Holding
<1>6. Counted
  BY <1>5, FS_EmptySet DEF PoolInit, Counted
<1> QED BY <1>2, <1>3, <1>4, <1>6 DEF PoolInv

\* A thread moves on and takes and returns nothing.
LEMMA MovesOK ==
  ASSUME PoolInv, NEW c \in Clients, NEW place \in Places, place # "holding",
         pc[c] # "holding", pc' = [pc EXCEPT ![c] = place],
         UNCHANGED <<idle, active_count, conn>>,
         place \in {"out", "waiting"} <=> pc[c] \in {"out", "waiting"}
  PROVE  PoolInv'
<1>1. PoolTypes'
  BY DEF PoolInv, PoolTypes
<1>2. OwnedInside'
  BY DEF PoolInv, PoolTypes, OwnedInside
<1>3. Holding' = Holding
  BY DEF PoolInv, PoolTypes, Holding
<1>4. IdleOnce' /\ OwnedOnce' /\ Counted'
  BY <1>3 DEF PoolInv, IdleOnce, OwnedOnce, Counted
<1> QED BY <1>1, <1>2, <1>4 DEF PoolInv

LEMMA PopOK ==
  ASSUME PoolInv, NEW c \in Clients, pop(c)
  PROVE  PoolInv'
<1> USE DEF PoolInv, PoolTypes
<1> DEFINE n == Len(idle)
<1>1. /\ pc[c] = "waiting" /\ n \in Nat /\ n > 0
      /\ idle[n] \in Conns
      /\ conn' = [conn EXCEPT ![c] = idle[n]]
      /\ pc' = [pc EXCEPT ![c] = "checking"]
      /\ active_count' = active_count
  BY DEF pop
<1>2. /\ idle' \in Seq(Conns) /\ Len(idle') = n - 1
      /\ \A i \in 1 .. n - 1 : idle'[i] = idle[i]
  <2>1. idle' = SubSeq(idle, 1, n - 1)
    BY DEF pop
  <2>2. \A i \in 1 .. n - 1 : idle[i] \in Conns
    BY <1>1
  <2>3. n - 1 \in Int /\ (n - 1) - 1 + 1 = n - 1
    BY <1>1
  <2> HIDE DEF n
  <2>4. /\ SubSeq(idle, 1, n - 1) \in Seq(Conns)
        /\ Len(SubSeq(idle, 1, n - 1)) = IF 1 <= n - 1 THEN (n - 1) - 1 + 1 ELSE 0
        /\ \A i \in 1 .. (n - 1) - 1 + 1 : SubSeq(idle, 1, n - 1)[i] = idle[1 + i - 1]
    BY <2>2, <2>3, SubSeqProperties
  <2> QED BY <1>1, <2>1, <2>3, <2>4
<1>3. PoolTypes'
  BY <1>1, <1>2 DEF Places
<1>4. idle[n] # 0
  BY <1>1 DEF Conns
<1>5. OwnedInside'
  BY <1>1, <1>4 DEF OwnedInside
<1>6. IdleOnce'
  BY <1>1, <1>2 DEF IdleOnce
<1>7. OwnedOnce'
  <2>1. conn[c] = 0
    BY <1>1 DEF OwnedInside
  <2>2. \A i \in 1 .. n - 1 : idle[i] # idle[n]
    BY <1>1 DEF IdleOnce
  <2>3. \A d \in Clients \ {c} : conn'[d] = conn[d] /\ conn[d] # idle[n]
    BY <1>1, <1>4 DEF OwnedOnce
  <2>4. conn'[c] = idle[n]
    BY <1>1
  <2>5. \A d \in Clients : conn'[d] # 0 => \A i \in 1 .. n - 1 : idle'[i] # conn'[d]
    BY <1>1, <1>2, <2>2, <2>3, <2>4 DEF OwnedOnce
  <2>6. \A d, e \in Clients : conn'[d] # 0 /\ d # e => conn'[d] # conn'[e]
    BY <2>3, <2>4 DEF OwnedOnce
  <2> QED BY <1>2, <2>5, <2>6 DEF OwnedOnce
<1>8. Holding' = Holding
  BY <1>1 DEF Holding
<1>9. Counted'
  BY <1>1, <1>8 DEF Counted
<1> QED BY <1>3, <1>5, <1>6, <1>7, <1>9, Zenon

\* The connection is counted and handed out.
LEMMA HandOutOK ==
  ASSUME PoolInv, NEW c \in Clients, pc[c] \in {"checking", "rebuilding"},
         pc' = [pc EXCEPT ![c] = "holding"], active_count' = active_count + 1,
         UNCHANGED <<idle, conn>>
  PROVE  PoolInv'
<1> USE DEF PoolInv, PoolTypes
<1>1. PoolTypes'
  BY DEF Places
<1>2. OwnedInside' /\ IdleOnce' /\ OwnedOnce'
  BY DEF OwnedInside, IdleOnce, OwnedOnce
<1>3. Holding' = Holding \cup {c} /\ c \notin Holding
  BY DEF Holding
<1>4. Cardinality(Holding') = Cardinality(Holding) + 1
  BY <1>3, HoldingFinite, FS_AddElement, Zenon
<1>5. Counted'
  BY <1>4 DEF Counted
<1> QED BY <1>1, <1>2, <1>5

LEMMA RebuildFailsOK ==
  ASSUME PoolInv, NEW c \in Clients, rebuildFails(c)
  PROVE  PoolInv'
<1> USE DEF PoolInv, PoolTypes
<1>1. /\ pc[c] = "rebuilding" /\ conn' = [conn EXCEPT ![c] = 0]
      /\ pc' = [pc EXCEPT ![c] = "out"] /\ idle' = idle /\ active_count' = active_count
  BY DEF rebuildFails
<1>2. PoolTypes'
  BY <1>1 DEF Places
<1>3. OwnedInside' /\ IdleOnce' /\ OwnedOnce'
  BY <1>1 DEF OwnedInside, IdleOnce, OwnedOnce
<1>4. Holding' = Holding
  BY <1>1, Zenon DEF Holding
<1> QED BY <1>1, <1>2, <1>3, <1>4 DEF Counted

LEMMA ReleaseOK ==
  ASSUME PoolInv, NEW c \in Clients, release(c)
  PROVE  PoolInv'
<1> USE DEF PoolInv, PoolTypes
<1> DEFINE n == Len(idle)
<1>1. /\ pc[c] = "holding" /\ active_count' = active_count - 1
      /\ conn' = [conn EXCEPT ![c] = 0] /\ pc' = [pc EXCEPT ![c] = "out"]
      /\ idle' = Append(idle, conn[c]) /\ n \in Nat
  BY DEF release
<1>2. conn[c] \in Conns /\ conn[c] # 0
  BY <1>1 DEF OwnedInside
<1>3. /\ idle' \in Seq(Conns) /\ Len(idle') = n + 1 /\ idle'[n + 1] = conn[c]
      /\ \A i \in 1 .. n : idle'[i] = idle[i]
  BY <1>1, <1>2
<1>4. PoolTypes'
  BY <1>1, <1>3 DEF Places
<1>5. OwnedInside'
  BY <1>1 DEF OwnedInside
<1>6. IdleOnce'
  <2>1. \A i \in 1 .. n : idle[i] # conn[c]
    BY <1>2 DEF OwnedOnce
  <2> QED BY <1>1, <1>3, <2>1 DEF IdleOnce
<1>7. OwnedOnce'
  <2>1. \A d \in Clients : conn'[d] # 0 => conn'[d] = conn[d] /\ conn[d] # conn[c]
    BY <1>1 DEF OwnedOnce
  <2>2. \A d \in Clients : conn'[d] # 0 => \A i \in 1 .. n + 1 : idle'[i] # conn'[d]
    BY <1>1, <1>3, <2>1 DEF OwnedOnce
  <2>3. \A d, e \in Clients : conn'[d] # 0 /\ d # e => conn'[d] # conn'[e]
    BY <1>1 DEF OwnedOnce
  <2> QED BY <1>3, <2>2, <2>3, Zenon DEF OwnedOnce
<1>8. Holding' = Holding \ {c} /\ c \in Holding
  BY <1>1 DEF Holding
<1>9. Cardinality(Holding') = Cardinality(Holding) - 1
  BY <1>8, HoldingFinite, FS_RemoveElement, Zenon
<1>10. Counted'
  BY <1>1, <1>9 DEF Counted
<1> QED BY <1>4, <1>5, <1>6, <1>7, <1>10

LEMMA AcquireStepsOK ==
  ASSUME PoolInv, NEW c \in Clients, acquire(c) \/ acquireSteps(c)
  PROVE  PoolInv'
<1>1. CASE acquire(c)
  BY <1>1, MovesOK, Zenon DEF acquire, Places
<1>2. CASE timeout(c)
  BY <1>2, MovesOK, Zenon DEF timeout, Places
<1>3. CASE checkFails(c)
  BY <1>3, MovesOK, Zenon DEF checkFails, Places
<1>4. CASE checkPasses(c) \/ rebuild(c)
  BY <1>4, HandOutOK DEF checkPasses, rebuild
<1> QED BY <1>1, <1>2, <1>3, <1>4, PopOK, RebuildFailsOK, Zenon DEF acquireSteps

\* Of the pool, a step of a client is a step of the pool or none.
LEMMA PoolStepOK == PoolInv /\ [PgNext]_vars => PoolInv'
<1> SUFFICES ASSUME PoolInv, [PgNext]_vars PROVE PoolInv'
  OBVIOUS
<1>1. ASSUME UNCHANGED <<idle, active_count, pc, conn>> PROVE PoolInv'
  <2>1. Holding' = Holding
    BY <1>1 DEF Holding
  <2> QED BY <1>1, <2>1
          DEF PoolInv, PoolTypes, OwnedInside, IdleOnce, OwnedOnce, Counted
<1>2. CASE UNCHANGED vars
  BY <1>1, <1>2 DEF vars, poolVars
<1>3. CASE ServerStep
  BY <1>1, <1>3 DEF ServerStep, serverDown, serverUp
<1>4. ASSUME NEW c \in Clients, NEW call, NEW v, Begin(c, call, v) PROVE PoolInv'
  BY <1>4, AcquireStepsOK DEF Begin
<1>5. ASSUME NEW c \in Clients, Progress(c) PROVE PoolInv'
  <2>1. CASE AcquireStep(c)
    BY <2>1, AcquireStepsOK DEF AcquireStep
  <2>2. CASE release(c)
    BY <2>2, ReleaseOK, Zenon
  <2>3. CASE connectionLost(c)
    BY <2>2, <2>3 DEF connectionLost, Finish
  <2>4. CASE ConfigCall(c)
    <3>1. release(c) \/ UNCHANGED poolVars
      BY <2>4, Zenon
      DEF ConfigCall, selectForUpdate, demoteStart, demote, promote, commit, Finish
    <3> QED BY <1>1, <2>2, <3>1, Zenon DEF poolVars
  <2>5. CASE RuleSetCall(c)
    <3>1. release(c) \/ UNCHANGED poolVars
      BY <2>5
      DEF RuleSetCall, checkRuleSet, deactivateRuleSets, insertRuleSet,
          activateRuleSetVersion, Finish
    <3> QED BY <1>1, <2>2, <3>1 DEF poolVars
  <2> QED BY <1>5, <2>1, <2>3, <2>4, <2>5, Zenon DEF Progress
<1> QED BY <1>2, <1>3, <1>4, <1>5 DEF PgNext

\* acquire, returnConn: no connection is idle twice or has two users, and
\* active_count_ counts the handles that are out, for any number of threads
\* and connections and any interleaving of checks, rebuilds and returns.
THEOREM OneOwner == PgSpec => []EachConnectionOnce
<1>1. PoolInv => EachConnectionOnce
  <2> SUFFICES ASSUME PoolInv PROVE EachConnectionOnce
    OBVIOUS
  <2>1. DOMAIN idle = 1 .. Len(idle)
    BY DEF PoolInv, PoolTypes
  <2>2. IsInjective(idle)
    BY <2>1 DEF IsInjective, PoolInv, IdleOnce
  <2>3. \A k : k \in Range(idle) <=> \E i \in 1 .. Len(idle) : idle[i] = k
    BY <2>1 DEF Range
  <2>4. \A c, d \in Clients :
          conn[c] # 0 => conn[c] \notin Range(idle) /\ (c # d => conn[c] # conn[d])
    BY <2>3, Zenon DEF PoolInv, OwnedOnce
  <2> QED BY <2>2, <2>4 DEF EachConnectionOnce, PoolInv, Counted, Holding
<1> QED BY <1>1, PoolInitOK, PoolStepOK, PTL DEF PgSpec, PgInit

(***************************************************************************)
(* activateConfig.  Only a COMMIT changes the statuses.  A client can be   *)
(* about to commit only after a promotion that found no other client with  *)
(* an uncommitted change of an ACTIVE row, so there is one at most, and    *)
(* its writes cover every row that is ACTIVE.                              *)
(***************************************************************************)
Statuses == {"APPROVED", "ACTIVE", "SUPERSEDED"}

TxTypes ==
  /\ status \in [Versions -> Statuses]
  /\ at = [c \in Clients |-> at[c]]
  /\ job = [c \in Clients |-> job[c]]
  /\ mine = [c \in Clients |-> mine[c]]
  /\ rows \in [Clients -> SUBSET Versions]
  /\ \A c \in Clients : at[c] # "start" => Target(c) \in Versions

\* What a client has written when it is about to promote, and to commit.
Demotes(c) ==
  /\ DOMAIN mine[c] \subseteq Versions \ {Target(c)}
  /\ mine[c] = [v \in DOMAIN mine[c] |-> "SUPERSEDED"]
Replaces(c) ==
  /\ Target(c) \in DOMAIN mine[c] /\ DOMAIN mine[c] \subseteq Versions
  /\ mine[c] = [v \in DOMAIN mine[c] |->
                  IF v = Target(c) THEN "ACTIVE" ELSE "SUPERSEDED"]
  /\ \A v \in Versions : status[v] = "ACTIVE" => v \in DOMAIN mine[c]

Written(c) ==
  /\ at[c] \in {"promote", "commit"} => pc[c] = "holding"
  /\ at[c] \notin {"promote", "commit"} => mine[c] = NoWrites
  /\ at[c] = "demoting" => Target(c) \notin rows[c]
  /\ at[c] = "promote" => Demotes(c)
  /\ at[c] = "commit" => Replaces(c)

TxInv ==
  /\ TxTypes
  /\ \A c \in Clients : Written(c)
  /\ \A c, d \in Clients : at[c] = "commit" /\ at[d] = "commit" => c = d
  /\ \A v, w \in Versions : status[v] = "ACTIVE" /\ status[w] = "ACTIVE" => v = w

LEMMA TxInitOK == PgInit => TxInv
BY DEF PgInit, TxInv, TxTypes, Statuses, Written, Target, NoWrites

\* Nothing the invariant is about changes but what the client c is at.
LEMMA ElsewhereOK ==
  ASSUME TxInv, NEW c \in Clients, NEW place, place \notin {"promote", "commit"},
         at' = [at EXCEPT ![c] = place], mine' = mine, status' = status,
         at[c] \notin {"promote", "commit"},
         job' = [job EXCEPT ![c] = job'[c]],
         rows' = [rows EXCEPT ![c] = rows'[c]], rows'[c] \subseteq Versions,
         \A d \in Clients \ {c} : pc'[d] = pc[d],
         place # "start" => Target(c)' \in Versions,
         place = "demoting" => Target(c)' \notin rows'[c]
  PROVE  TxInv'
<1> USE DEF TxInv, TxTypes
<1>1. \A d \in Clients \ {c} : at'[d] = at[d] /\ Target(d)' = Target(d)
  BY DEF Target
<1>2. at'[c] = place
  OBVIOUS
<1>3. TxTypes'
  BY <1>1, <1>2, Zenon
<1>4. \A d \in Clients \ {c} : Written(d)'
  BY <1>1 DEF Written, Demotes, Replaces
<1>5. Written(c)'
  BY <1>2, Zenon DEF Written
<1> QED BY <1>1, <1>2, <1>3, <1>4, <1>5, Zenon

\* A call ends with the writes it commits, all of its own or none.
LEMMA FinishOK ==
  ASSUME TxInv, PoolInv, NEW c \in Clients, NEW written, Finish(c, written),
         written = NoWrites \/ (at[c] = "commit" /\ written = mine[c])
  PROVE  TxInv'
<1> USE DEF TxInv, TxTypes
<1>1. /\ at' = [at EXCEPT ![c] = "start"] /\ mine' = [mine EXCEPT ![c] = NoWrites]
      /\ job' = [job EXCEPT ![c] = <<"none", 0>>] /\ rows' = [rows EXCEPT ![c] = {}]
      /\ pc' = [pc EXCEPT ![c] = "out"] /\ status' = Over(status, written)
  BY DEF Finish, Goto, Forget, release
<1>2. \A d \in Clients \ {c} :
        /\ at'[d] = at[d] /\ Target(d)' = Target(d) /\ mine'[d] = mine[d]
        /\ pc'[d] = pc[d] /\ rows'[d] = rows[d]
  BY <1>1, Zenon DEF Target, PoolInv, PoolTypes
<1>3. at'[c] = "start" /\ mine'[c] = NoWrites
  BY <1>1, Zenon
<1>4. CASE written = NoWrites
  <2>1. status' = status
    BY <1>1, <1>4 DEF Over, NoWrites
  <2>2. TxTypes'
    BY <1>1, <1>2, <1>3, <2>1, Zenon
  <2>3. \A d \in Clients : Written(d)'
    BY <1>2, <1>3, <2>1 DEF Written, Demotes, Replaces
  <2> QED BY <1>2, <1>3, <2>1, <2>2, <2>3
<1>5. CASE at[c] = "commit" /\ written = mine[c]
  <2>1. Replaces(c)
    BY <1>5, Zenon DEF Written
  <2>2. \A v \in Versions : status'[v] = "ACTIVE" => v = Target(c)
    BY <1>1, <1>5, <2>1, Zenon DEF Over, Replaces
  <2>3. status' \in [Versions -> Statuses]
    BY <1>1, <1>5, <2>1, Zenon DEF Over, Replaces, Statuses
  <2>4. \A d \in Clients \ {c} : at[d] # "commit"
    BY <1>5
  <2>5. TxTypes'
    BY <1>1, <1>2, <1>3, <2>3, ZenonT(30)
  <2>6. \A d \in Clients \ {c} : Written(d)'
    BY <1>2, <2>4 DEF Written, Demotes
  <2>7. Written(c)'
    BY <1>3, Zenon DEF Written
  <2> QED BY <1>2, <1>3, <2>2, <2>4, <2>5, <2>6, <2>7
<1> QED BY <1>4, <1>5, Zenon

LEMMA DemoteOK ==
  ASSUME TxInv, NEW c \in Clients, demote(c)
  PROVE  TxInv'
<1> USE DEF TxInv, TxTypes
<1> DEFINE hit == {v \in rows[c] : status[v] = "ACTIVE"}
<1>1. /\ at[c] = "demoting" /\ pc[c] = "holding"
      /\ mine' = [mine EXCEPT ![c] = [v \in hit |-> "SUPERSEDED"]]
      /\ at' = [at EXCEPT ![c] = "promote"]
      /\ pc' = pc /\ job' = job /\ rows' = rows /\ status' = status
  BY DEF demote, Goto, Live, poolVars
<1>2. \A d \in Clients : Target(d)' = Target(d)
  BY <1>1, Zenon DEF Target
<1>3. \A d \in Clients \ {c} : at'[d] = at[d] /\ mine'[d] = mine[d]
  BY <1>1, Zenon
<1>4. at'[c] = "promote" /\ mine'[c] = [v \in hit |-> "SUPERSEDED"]
  BY <1>1, Zenon
<1>5. hit \subseteq Versions \ {Target(c)}
  BY <1>1 DEF Written
<1>6. TxTypes'
  BY <1>1, <1>2, <1>3, <1>4, Zenon
<1>7. \A d \in Clients \ {c} : Written(d)'
  BY <1>1, <1>2, <1>3 DEF Written, Demotes, Replaces
<1> HIDE DEF hit
<1>8. Written(c)'
  BY <1>1, <1>2, <1>4, <1>5, Zenon DEF Written, Demotes
<1>9. \A d, e \in Clients : at'[d] = "commit" /\ at'[e] = "commit" => d = e
  BY <1>3, <1>4
<1>10. \A v, w \in Versions : status'[v] = "ACTIVE" /\ status'[w] = "ACTIVE" => v = w
  BY <1>1, Zenon
<1> QED BY <1>6, <1>7, <1>8, <1>9, <1>10, Zenon

LEMMA PromoteOK ==
  ASSUME TxInv, NEW c \in Clients, Live(c), at[c] = "promote", ~Pending(c), ~Violates(c),
         mine' = [mine EXCEPT ![c] = Over(@, [v \in {Target(c)} |-> "ACTIVE"])],
         at' = [at EXCEPT ![c] = "commit"], UNCHANGED <<pc, job, rows, status>>
  PROVE  TxInv'
<1> USE DEF TxInv, TxTypes
<1>1. \A d \in Clients : Target(d)' = Target(d)
  BY DEF Target
<1>2. \A d \in Clients \ {c} : at'[d] = at[d] /\ mine'[d] = mine[d]
  OBVIOUS
<1>3. at'[c] = "commit" /\ mine'[c] = Over(mine[c], [v \in {Target(c)} |-> "ACTIVE"])
  OBVIOUS
<1>4. Demotes(c) /\ Target(c) \in Versions
  BY DEF Written
<1>5. \A d \in Clients \ {c} : at[d] # "commit"
  <2> SUFFICES ASSUME NEW d \in Clients \ {c}, at[d] = "commit" PROVE FALSE
    OBVIOUS
  <2>1. Replaces(d)
    BY Zenon DEF Written
  <2>2. Target(d) \in DOMAIN mine[d] /\ mine[d][Target(d)] = "ACTIVE"
    BY <2>1, Zenon DEF Replaces
  <2> QED BY <2>2, Zenon DEF Pending
<1>6. \A v \in Versions : status[v] = "ACTIVE" => v \in DOMAIN mine[c] \cup {Target(c)}
  BY Zenon DEF Violates, Others
<1>7. /\ DOMAIN mine'[c] = DOMAIN mine[c] \cup {Target(c)}
      /\ mine'[c] = [v \in DOMAIN mine'[c] |->
                       IF v = Target(c) THEN "ACTIVE" ELSE "SUPERSEDED"]
  BY <1>3, <1>4 DEF Over, Demotes
<1>8. TxTypes'
  BY <1>1, <1>2, <1>3, ZenonT(30)
<1>9. \A d \in Clients \ {c} : Written(d)'
  BY <1>1, <1>2, <1>5, Zenon DEF Written, Demotes
<1>10. Replaces(c)'
  BY <1>1, <1>4, <1>6, <1>7 DEF Replaces, Demotes
<1>11. Written(c)'
  BY <1>3, <1>10, Zenon DEF Written, Live
<1> QED BY <1>2, <1>3, <1>5, <1>8, <1>9, <1>11

LEMMA ConfigCallOK ==
  ASSUME TxInv, PoolInv, NEW c \in Clients, ConfigCall(c)
  PROVE  TxInv'
<1>1. ASSUME Finish(c, NoWrites) PROVE TxInv'
  BY <1>1, FinishOK
<1>2. CASE selectForUpdate(c)
  <2>1. CASE Finish(c, NoWrites)
    BY <1>1, <2>1, SMTT(30)
  <2>2. CASE ~Finish(c, NoWrites)
    <3>1. /\ at[c] = "activateConfig" /\ at' = [at EXCEPT ![c] = "demote"]
          /\ mine' = mine /\ status' = status /\ job' = job /\ rows' = rows /\ pc' = pc
      BY <1>2, <2>2, Zenon DEF selectForUpdate, Goto, poolVars
    <3>2. Target(c) \in Versions /\ Target(c)' = Target(c)
      BY <3>1 DEF TxInv, TxTypes, Target
    <3> QED BY <3>1, <3>2, ElsewhereOK, Zenon DEF TxInv, TxTypes
  <2> QED BY <2>1, <2>2
<1>3. CASE demoteStart(c)
  <2>1. /\ at[c] = "demote" /\ at' = [at EXCEPT ![c] = "demoting"]
        /\ mine' = mine /\ status' = status /\ job' = job /\ pc' = pc
        /\ rows' = [rows EXCEPT ![c] = {v \in Versions \ {Target(c)} : status[v] = "ACTIVE"}]
    BY <1>3, Zenon DEF demoteStart, Goto, poolVars
  <2>2. Target(c) \in Versions /\ Target(c)' = Target(c)
    BY <2>1, Zenon DEF TxInv, TxTypes, Target
  <2>3. rows'[c] = {v \in Versions \ {Target(c)} : status[v] = "ACTIVE"}
    BY <2>1 DEF TxInv, TxTypes
  <2>4. rows' = [rows EXCEPT ![c] = rows'[c]] /\ job' = [job EXCEPT ![c] = job'[c]]
    BY <2>1, <2>3, Zenon DEF TxInv, TxTypes
  <2>5. rows'[c] \subseteq Versions /\ Target(c) \notin rows'[c]
    BY <2>3, Zenon
  <2> QED BY <2>1, <2>2, <2>4, <2>5, ElsewhereOK, Zenon
<1>4. CASE promote(c)
  <2>1. CASE Finish(c, NoWrites)
    BY <1>1, <2>1
  <2>2. CASE ~Finish(c, NoWrites)
    BY <1>4, <2>2, PromoteOK, Zenon DEF promote, Goto, poolVars
  <2> QED BY <2>1, <2>2
<1>5. CASE commit(c)
  BY <1>5, FinishOK DEF commit
<1> QED BY <1>2, <1>3, <1>4, <1>5, DemoteOK, Zenon DEF ConfigCall

\* A client goes to a place outside activateConfig's transaction, and keeps or
\* ends its call.
LEMMA CallEndsOK ==
  ASSUME TxInv, PoolInv, NEW c \in Clients, at[c] \notin {"promote", "commit"},
         at' = [at EXCEPT ![c] = "start"], Forget(c), UNCHANGED <<mine, status>>,
         \A d \in Clients \ {c} : pc'[d] = pc[d]
  PROVE  TxInv'
<1>1. /\ job' = [job EXCEPT ![c] = job'[c]] /\ rows' = [rows EXCEPT ![c] = rows'[c]]
      /\ rows'[c] \subseteq Versions
  BY DEF Forget, TxInv, TxTypes
<1> QED BY <1>1, ElsewhereOK, Zenon

LEMMA RuleSetCallOK ==
  ASSUME TxInv, PoolInv, NEW c \in Clients, RuleSetCall(c)
  PROVE  TxInv'
<1>1. ASSUME NEW place, place \in {"deactivate", "insert", "reactivate"},
             at' = [at EXCEPT ![c] = place], at[c] \notin {"start", "promote", "commit"},
             UNCHANGED <<pc, job, rows, status, mine>>
      PROVE  TxInv'
  <2>1. Target(c) \in Versions /\ Target(c)' = Target(c)
    BY <1>1 DEF TxInv, TxTypes, Target
  <2>2. rows' = [rows EXCEPT ![c] = rows'[c]] /\ job' = [job EXCEPT ![c] = job'[c]]
        /\ rows'[c] \subseteq Versions
    BY <1>1, Zenon DEF TxInv, TxTypes
  <2> QED BY <1>1, <2>1, <2>2, ElsewhereOK, Zenon
<1>2. CASE checkRuleSet(c)
  <2>1. CASE Finish(c, NoWrites)
    BY <2>1, FinishOK
  <2>2. CASE ~Finish(c, NoWrites)
    <3>1. /\ at[c] = "activateRuleSetVersion" /\ at' = [at EXCEPT ![c] = "deactivate"]
          /\ UNCHANGED <<pc, job, rows, status, mine>>
      BY <1>2, <2>2 DEF checkRuleSet, Goto, poolVars
    <3> QED BY <1>1, <3>1, Zenon
  <2> QED BY <2>1, <2>2
<1>3. CASE deactivateRuleSets(c)
  <2>1. /\ at[c] \in {"insertRuleSet", "deactivate"}
        /\ at' = [at EXCEPT ![c] = IF at[c] = "insertRuleSet" THEN "insert" ELSE "reactivate"]
        /\ UNCHANGED <<pc, job, rows, status, mine>>
    BY <1>3 DEF deactivateRuleSets, Goto, poolVars
  <2> QED BY <1>1, <2>1, Zenon
<1>4. CASE insertRuleSet(c) \/ activateRuleSetVersion(c)
  <2>1. /\ at[c] \in {"insert", "reactivate"} /\ at' = [at EXCEPT ![c] = "start"]
        /\ Forget(c) /\ release(c) /\ UNCHANGED <<mine, status>>
    BY <1>4, Zenon DEF insertRuleSet, activateRuleSetVersion, Goto
  <2>2. \A d \in Clients \ {c} : pc'[d] = pc[d]
    BY <2>1 DEF release, PoolInv, PoolTypes
  <2> QED BY <2>1, <2>2, CallEndsOK, ZenonT(30)
<1> QED BY <1>2, <1>3, <1>4 DEF RuleSetCall

LEMMA AcquireStepOK ==
  ASSUME TxInv, PoolInv, NEW c \in Clients, AcquireStep(c)
  PROVE  TxInv'
<1>1. /\ mine' = mine /\ status' = status
      /\ pc[c] # "holding" /\ \A d \in Clients \ {c} : pc'[d] = pc[d]
  BY Zenon DEF AcquireStep, acquireSteps, pop, timeout, checkPasses, checkFails, rebuild,
         rebuildFails, PoolInv, PoolTypes
<1>2. at[c] \notin {"promote", "commit"}
  BY <1>1, Zenon DEF TxInv, Written
<1>3. CASE pc'[c] = "out"
  BY <1>1, <1>2, <1>3, CallEndsOK, Zenon DEF AcquireStep, Goto
<1>4. CASE pc'[c] # "out"
  <2>1. UNCHANGED <<job, rows, at>>
    BY <1>4 DEF AcquireStep
  <2>2. TxTypes'
    BY <1>1, <2>1, Zenon DEF TxInv, TxTypes, Target
  <2>3. ASSUME NEW d \in Clients PROVE Written(d)'
    <3>1. Written(d) /\ (at[d] \in {"promote", "commit"} => pc'[d] = pc[d])
      BY <1>1, <1>2, Zenon DEF TxInv
    <3> QED BY <1>1, <2>1, <3>1, Zenon DEF Written, Target, Demotes, Replaces
  <2> QED BY <1>1, <2>1, <2>2, <2>3, Zenon DEF TxInv
<1> QED BY <1>3, <1>4, Zenon

LEMMA BeginOK ==
  ASSUME TxInv, PoolInv, NEW c \in Clients, NEW v \in Versions,
         NEW call \in {"activateConfig", "insertRuleSet", "activateRuleSetVersion"},
         Begin(c, call, v)
  PROVE  TxInv'
<1>1. /\ at' = [at EXCEPT ![c] = call] /\ job' = [job EXCEPT ![c] = <<call, v>>]
      /\ pc[c] = "out" /\ pc' = [pc EXCEPT ![c] = "waiting"]
      /\ rows' = rows /\ status' = status /\ mine' = mine
  BY Zenon DEF Begin, acquire, Goto
<1>2. at[c] \notin {"promote", "commit"}
  BY <1>1, Zenon DEF TxInv, Written
<1>3. Target(c)' = v /\ job' = [job EXCEPT ![c] = job'[c]]
  BY <1>1, Zenon DEF TxInv, TxTypes, Target
<1>4. rows' = [rows EXCEPT ![c] = rows'[c]] /\ rows'[c] \subseteq Versions
  BY <1>1 DEF TxInv, TxTypes
<1>5. \A d \in Clients \ {c} : pc'[d] = pc[d]
  BY <1>1, Zenon DEF PoolInv, PoolTypes
<1> QED BY <1>1, <1>2, <1>3, <1>4, <1>5, ElsewhereOK, Zenon

LEMMA TxStepOK == TxInv /\ PoolInv /\ [PgNext]_vars => TxInv'
<1> SUFFICES ASSUME TxInv, PoolInv, [PgNext]_vars PROVE TxInv'
  BY Zenon
<1>1. ASSUME UNCHANGED pgVars, UNCHANGED pc PROVE TxInv'
  BY <1>1 DEF pgVars, TxInv, TxTypes, Written, Target, Demotes, Replaces
<1>2. CASE UNCHANGED vars
  BY <1>1, <1>2 DEF vars, poolVars
<1>3. CASE ServerStep
  BY <1>1, <1>3, Zenon DEF ServerStep, serverDown, serverUp
<1>4. ASSUME NEW c \in Clients, connectionLost(c) PROVE TxInv'
  BY <1>4, FinishOK DEF connectionLost
<1> QED
  BY <1>2, <1>3, <1>4, BeginOK, AcquireStepOK, ConfigCallOK, RuleSetCallOK, Zenon
  DEF PgNext, Progress

\* activateConfig: however the statements of the calls interleave and wherever
\* a connection is lost, at most one version is ACTIVE, for any number of
\* threads, connections and versions.  (The partial unique index makes the
\* promotion wait or fail; the row locks alone would not do.)
THEOREM OneActiveVersion == PgSpec => []AtMostOneActive
<1>1. TxInv => AtMostOneActive
  <2> SUFFICES ASSUME TxInv PROVE AtMostOneActive
    OBVIOUS
  <2> DEFINE S == {v \in Versions : status[v] = "ACTIVE"}
  <2>1. CASE S = {}
    BY <2>1, FS_EmptySet DEF AtMostOneActive
  <2>2. CASE S # {}
    <3>1. PICK v \in Versions : status[v] = "ACTIVE"
      BY <2>2
    <3>2. S = {v}
      BY <3>1 DEF TxInv
    <3>3. Cardinality(S) = 1
      BY <3>2, FS_Singleton, Zenon
    <3> QED BY <3>3 DEF AtMostOneActive
  <2> QED BY <2>1, <2>2
<1> QED BY <1>1, PoolInitOK, PoolStepOK, TxInitOK, TxStepOK, PTL DEF PgSpec, PgInit

-----------------------------------------------------------------------------
(***************************************************************************)
(* The workflow state stores.  They hold the same runs; the memory store   *)
(* may keep rows of a run that is gone, which the foreign key refuses, and *)
(* such a run is not created again.                                        *)
(***************************************************************************)
RunRecords == [status : RunStatuses \cup {"Running", "none"}, context : {0, 1},
               created : Nat, updated : Nat]

StoreType == [runs : [RunIds -> RunRecords], nodes : [Keys -> NodeStatuses \cup {NoRow}]]

StateInv ==
  /\ mem \in StoreType /\ sql \in StoreType /\ rowClock \in Nat \ {0}
  /\ mem.runs = sql.runs
  /\ \A r \in RunIds : HasRun(mem, r) => mem.runs[r].updated > 0
  /\ \A k \in Keys : HasRun(mem, k[1]) => mem.nodes[k] = sql.nodes[k]
  /\ \A k \in Keys : ~HasRun(mem, k[1]) => sql.nodes[k] = NoRow

LEMMA KeyParts == \A k \in Keys : k[1] \in RunIds /\ k[2] \in Nodes /\ k[3] \in Attempts
BY DEF Keys

\* Both stores change the record of a run the same way, and no rows.
LEMMA RunsStep ==
  ASSUME StateInv, NEW r \in RunIds, NEW rec \in RunRecords,
         mem' = [mem EXCEPT !.runs = [mem.runs EXCEPT ![r] = rec]],
         sql' = [sql EXCEPT !.runs = [sql.runs EXCEPT ![r] = rec]],
         rowClock' = rowClock, rec.status # "none", rec.updated > 0,
         HasRun(mem, r) \/ Rows(mem, r) = {}
  PROVE  StateInv'
  <1>0. mem \in StoreType /\ sql \in StoreType /\ mem.runs = sql.runs
    BY DEF StateInv
  <1>1. /\ mem'.runs = [mem.runs EXCEPT ![r] = rec] /\ sql'.runs = mem'.runs
        /\ mem'.nodes = mem.nodes /\ sql'.nodes = sql.nodes
        /\ mem' \in StoreType /\ sql' \in StoreType
    BY <1>0 DEF StoreType
  <1>2. \A q \in RunIds : mem'.runs[q] = IF q = r THEN rec ELSE mem.runs[q]
    BY <1>0, <1>1, Zenon DEF StoreType
  <1>3. \A q \in RunIds : HasRun(mem, q)' => mem'.runs[q].updated > 0
    BY <1>2 DEF HasRun, StateInv
  <1>4. ASSUME NEW k \in Keys
        PROVE  /\ HasRun(mem, k[1])' => mem'.nodes[k] = sql'.nodes[k]
               /\ ~HasRun(mem, k[1])' => sql'.nodes[k] = NoRow
    <2>1. k[1] \in RunIds
      BY KeyParts
    <2>2. CASE k[1] # r \/ HasRun(mem, r)
      BY <1>1, <1>2, <2>1, <2>2 DEF HasRun, StateInv
    <2>3. CASE k[1] = r /\ ~HasRun(mem, r)
      <3>1. mem.nodes[k] = NoRow /\ sql.nodes[k] = NoRow
        BY <2>3, Zenon DEF StateInv, Rows
      <3> QED BY <1>1, <1>2, <2>1, <2>3, <3>1, Zenon DEF HasRun
    <2> QED BY <2>2, <2>3
  <1> QED BY <1>1, <1>3, <1>4, Zenon DEF StateInv

LEMMA StateStill ==
  ASSUME StateInv, UNCHANGED <<mem, sql>>, rowClock' \in Nat \ {0}
  PROVE  StateInv'
BY DEF StateInv, HasRun

LEMMA RunCallsOK ==
  ASSUME StateInv, NEW r \in RunIds,
         createRun(r) \/ updateRunContext(r, 1) \/ \E s \in RunStatuses : transitionRunStatus(r, s)
  PROVE  StateInv'
  <1>0. /\ mem \in StoreType /\ sql \in StoreType /\ mem.runs = sql.runs
        /\ mem.runs[r] \in RunRecords /\ rowClock \in Nat \ {0}
    BY Zenon DEF StateInv, StoreType
  <1>1. HasRun(mem, r) <=> HasRun(sql, r)
    BY <1>0 DEF HasRun
  <1>2. CASE createRun(r)
    <2> DEFINE rec == [status |-> "Running", context |-> 0, created |-> rowClock,
                       updated |-> rowClock]
    <2>1. rec \in RunRecords /\ rec.status # "none" /\ rec.updated > 0
      BY <1>0 DEF RunRecords
    <2>2. CASE HasRun(mem, r)
      BY <1>0, <1>1, <1>2, <2>2, StateStill, Zenon
         DEF createRun, Both, mem_createRun, sql_createRun, Reply
    <2>3. CASE ~HasRun(mem, r)
      <3>1. /\ mem' = [mem EXCEPT !.runs[r] = rec] /\ sql' = [sql EXCEPT !.runs[r] = rec]
            /\ rowClock' = rowClock /\ Rows(mem, r) = {}
        BY <1>1, <1>2, <2>3, Zenon DEF createRun, Both, mem_createRun, sql_createRun, Reply
      <3> HIDE DEF rec
      <3>2. /\ mem' = [mem EXCEPT !.runs = [mem.runs EXCEPT ![r] = rec]]
            /\ sql' = [sql EXCEPT !.runs = [sql.runs EXCEPT ![r] = rec]]
        BY <1>0, <3>1, Zenon DEF StoreType
      <3> QED BY <2>1, <3>1, <3>2, RunsStep, Zenon
    <2> QED BY <2>2, <2>3, Zenon
  <1>3. CASE updateRunContext(r, 1)
    <2> DEFINE rec == [mem.runs[r] EXCEPT !.context = 1, !.updated = rowClock]
    <2>1. rec \in RunRecords /\ rec.status = mem.runs[r].status /\ rec.updated > 0
      <3> DEFINE old == mem.runs[r]
      <3>1. old \in RunRecords /\ rowClock \in Nat /\ rowClock > 0
        BY <1>0 DEF StoreType
      <3> HIDE DEF old
      <3>2. /\ [old EXCEPT !.context = 1, !.updated = rowClock] \in RunRecords
            /\ [old EXCEPT !.context = 1, !.updated = rowClock].status = old.status
            /\ [old EXCEPT !.context = 1, !.updated = rowClock].updated = rowClock
        BY <3>1, Zenon DEF RunRecords
      <3> QED BY <3>1, <3>2, Zenon DEF old
    <2>2. CASE ~HasRun(mem, r)
      <3>1. mem' = mem /\ sql' = [sql EXCEPT !.runs[r] = sql.runs[r]] /\ rowClock' = rowClock
        BY <1>0, <1>1, <1>3, <2>2, Zenon DEF updateRunContext, Both, mem_updateRunContext,
                                      sql_updateRunContext, Reply, HasRun, StoreType
      <3>2. sql' = sql
        BY <1>0, <3>1 DEF StoreType
      <3> QED BY <1>0, <3>1, <3>2, StateStill, Zenon
    <2>3. CASE HasRun(mem, r)
      <3>1. /\ mem' = [mem EXCEPT !.runs[r].context = 1, !.runs[r].updated = rowClock]
            /\ rowClock' = rowClock
        BY <1>3, <2>3 DEF updateRunContext, Both, mem_updateRunContext, Reply
      <3>2. sql' = [sql EXCEPT !.runs[r] = rec]
        BY <1>0, <1>1, <1>3, <2>3 DEF updateRunContext, Both, sql_updateRunContext, Reply, HasRun,
                                      StoreType
      <3>3. mem' = [mem EXCEPT !.runs = [mem.runs EXCEPT ![r] = rec]]
        BY <1>0, <3>1, Zenon DEF StoreType, RunRecords
      <3> HIDE DEF rec
      <3>4. sql' = [sql EXCEPT !.runs = [sql.runs EXCEPT ![r] = rec]]
        BY <1>0, <3>2, Zenon DEF StoreType
      <3> QED BY <2>1, <2>3, <3>1, <3>3, <3>4, RunsStep, Zenon DEF HasRun
    <2> QED BY <2>2, <2>3
  <1>4. CASE \E s \in RunStatuses : transitionRunStatus(r, s)
    <2>0. PICK s \in RunStatuses : transitionRunStatus(r, s)
      BY <1>4
    <2> DEFINE rec == [mem.runs[r] EXCEPT !.status = s, !.updated = rowClock]
    <2>1. rec \in RunRecords /\ rec.status # "none" /\ rec.updated > 0
      <3> DEFINE old == mem.runs[r]
      <3>1. old \in RunRecords /\ rowClock \in Nat /\ rowClock > 0
        BY <1>0 DEF StoreType
      <3> HIDE DEF old
      <3>2. /\ [old EXCEPT !.status = s, !.updated = rowClock] \in RunRecords
            /\ [old EXCEPT !.status = s, !.updated = rowClock].status = s
            /\ [old EXCEPT !.status = s, !.updated = rowClock].updated = rowClock
        BY <3>1, Zenon DEF RunRecords
      <3>3. s # "none"
        BY StateAssumption
      <3> QED BY <3>1, <3>2, <3>3, Zenon DEF old
    <2>2. CASE ~HasRun(mem, r)
      <3>1. mem' = mem /\ sql' = [sql EXCEPT !.runs[r] = sql.runs[r]] /\ rowClock' = rowClock
        BY <1>0, <1>1, <2>0, <2>2, Zenon DEF transitionRunStatus, Both, mem_transitionRunStatus,
                                      sql_transitionRunStatus, Reply, HasRun, StoreType
      <3>2. sql' = sql
        BY <1>0, <3>1 DEF StoreType
      <3> QED BY <1>0, <3>1, <3>2, StateStill, Zenon
    <2>3. CASE HasRun(mem, r)
      <3>1. /\ mem' = [mem EXCEPT !.runs[r].status = s, !.runs[r].updated = rowClock]
            /\ rowClock' = rowClock
        BY <2>0, <2>3, Zenon DEF transitionRunStatus, Both, mem_transitionRunStatus, Reply
      <3>2. sql' = [sql EXCEPT !.runs[r] = rec]
        BY <1>0, <1>1, <2>0, <2>3, Zenon DEF transitionRunStatus, Both, sql_transitionRunStatus, Reply,
                                      HasRun, StoreType
      <3>3. mem' = [mem EXCEPT !.runs = [mem.runs EXCEPT ![r] = rec]]
        BY <1>0, <3>1, Zenon DEF StoreType, RunRecords
      <3> HIDE DEF rec
      <3>4. sql' = [sql EXCEPT !.runs = [sql.runs EXCEPT ![r] = rec]]
        BY <1>0, <3>2, Zenon DEF StoreType
      <3> QED BY <2>1, <2>3, <3>1, <3>3, <3>4, RunsStep, ZenonT(30)
    <2> QED BY <2>2, <2>3, Zenon
  <1> QED BY <1>2, <1>3, <1>4, Zenon

LEMMA RowCallsOK ==
  ASSUME StateInv, NEW k \in Keys, NEW s \in NodeStatuses, upsertNodeRun(k, s)
  PROVE  StateInv'
  <1>0. mem \in StoreType /\ sql \in StoreType /\ mem.runs = sql.runs /\ rowClock' = rowClock
    BY DEF StateInv, upsertNodeRun
  <1>1. mem' = [mem EXCEPT !.nodes[k] = s]
    BY DEF upsertNodeRun, Both, mem_upsertNodeRun, Reply
  <1>2. mem' \in StoreType /\ mem'.runs = mem.runs /\ mem'.nodes = [mem.nodes EXCEPT ![k] = s]
    BY <1>0, <1>1, Zenon DEF StoreType
  <1>3. CASE ~HasRun(sql, k[1])
    <2>1. sql' = sql
      BY <1>3, Zenon DEF upsertNodeRun, Both, sql_upsertNodeRun, Reply
    <2>2. \A x \in Keys : HasRun(mem, x[1]) => mem'.nodes[x] = mem.nodes[x]
      BY <1>0, <1>2, <1>3, Zenon DEF HasRun, StoreType
    <2> QED BY <1>0, <1>2, <2>1, <2>2, Zenon DEF StateInv, HasRun
  <1>4. CASE HasRun(sql, k[1])
    <2>1. sql' = [sql EXCEPT !.nodes[k] = s]
      BY <1>4 DEF upsertNodeRun, Both, sql_upsertNodeRun, Reply
    <2>2. sql' \in StoreType /\ sql'.runs = sql.runs /\ sql'.nodes = [sql.nodes EXCEPT ![k] = s]
      BY <1>0, <2>1, Zenon DEF StoreType
    <2>3. ASSUME NEW x \in Keys
          PROVE  /\ HasRun(mem, x[1]) => mem'.nodes[x] = sql'.nodes[x]
                 /\ ~HasRun(mem, x[1]) => sql'.nodes[x] = NoRow
      <3>1. CASE x = k
        BY <1>0, <1>2, <1>4, <2>2, <3>1, Zenon DEF StoreType, HasRun
      <3>2. CASE x # k
        BY <1>0, <1>2, <2>2, <3>2, Zenon DEF StoreType, StateInv
      <3> QED BY <3>1, <3>2, Zenon
    <2> QED BY <1>0, <1>2, <2>2, <2>3, Zenon DEF StateInv, HasRun
  <1> QED BY <1>3, <1>4, Zenon

LEMMA PruneRunsOK ==
  ASSUME StateInv, NEW cutoff \in Nat, pruneOldRuns(cutoff)
  PROVE  StateInv'
  <1>0. /\ mem \in StoreType /\ sql \in StoreType /\ mem.runs = sql.runs /\ rowClock' = rowClock
        /\ mem.runs \in [RunIds -> RunRecords]
    BY Zenon DEF StateInv, pruneOldRuns, StoreType
  <1> DEFINE old == {r \in RunIds : HasRun(mem, r) /\ mem.runs[r].updated < cutoff}
             R == [r \in RunIds |-> IF r \in old THEN NoRun ELSE mem.runs[r]]
             N(s) == [k \in Keys |-> IF k[1] \in old THEN NoRow ELSE s.nodes[k]]
  <1>1. {r \in RunIds : HasRun(mem, r) /\ Age(mem.runs[r]) < cutoff} = old
    BY Zenon DEF StateInv, Age
  <1>2. {r \in RunIds : HasRun(sql, r) /\ sql.runs[r].updated < cutoff} = old
    BY <1>0, Zenon DEF HasRun
  <1> HIDE DEF old
  <1>3. mem' = [runs |-> R, nodes |-> N(mem)]
    BY <1>1, Zenon DEF pruneOldRuns, Both, mem_pruneOldRuns, Reply
  <1>4. sql' = [runs |-> R, nodes |-> N(sql)]
    BY <1>0, <1>2, Zenon DEF pruneOldRuns, Both, sql_pruneOldRuns, Reply
  <1>5. NoRun \in RunRecords /\ NoRun.status = "none"
    BY Zenon DEF NoRun, RunRecords
  <1>6. /\ R \in [RunIds -> RunRecords]
        /\ N(mem) \in [Keys -> NodeStatuses \cup {NoRow}]
        /\ N(sql) \in [Keys -> NodeStatuses \cup {NoRow}]
    BY <1>0, <1>5, Zenon DEF StoreType
  <1>7. mem' \in StoreType /\ sql' \in StoreType /\ mem'.runs = R /\ sql'.runs = R
        /\ mem'.nodes = N(mem) /\ sql'.nodes = N(sql)
    BY <1>3, <1>4, <1>6, Zenon DEF StoreType
  <1>8. \A r \in RunIds : HasRun(mem, r)' <=> HasRun(mem, r) /\ r \notin old
    BY <1>5, <1>7, Zenon DEF HasRun
  <1>9. \A r \in RunIds : HasRun(mem, r)' => mem'.runs[r].updated > 0
    BY <1>7, <1>8, Zenon DEF StateInv
  <1>10. ASSUME NEW k \in Keys
         PROVE  /\ HasRun(mem, k[1])' => mem'.nodes[k] = sql'.nodes[k]
                /\ ~HasRun(mem, k[1])' => sql'.nodes[k] = NoRow
    <2>1. k[1] \in RunIds
      BY KeyParts, Zenon
    <2>2. /\ mem'.nodes[k] = IF k[1] \in old THEN NoRow ELSE mem.nodes[k]
          /\ sql'.nodes[k] = IF k[1] \in old THEN NoRow ELSE sql.nodes[k]
      BY <1>7
    <2> QED BY <1>8, <2>1, <2>2, Zenon DEF StateInv
  <1> QED BY <1>0, <1>7, <1>9, <1>10, Zenon DEF StateInv

\* MemoryWorkflowStateStore answers what SQLiteWorkflowStateStore answers, for any
\* sequence of calls on any runs and nodes.
THEOREM StoresAnswerAlike == StateSpec => []StoresAgree
  <1>1. StateInit => StateInv
    <2> SUFFICES ASSUME StateInit PROVE StateInv
      OBVIOUS
    <2>1. Empty \in StoreType
      BY Zenon DEF Empty, StoreType, NoRun, RunRecords
    <2>2. \A r \in RunIds : ~HasRun(Empty, r)
      BY Zenon DEF Empty, HasRun, NoRun
    <2>3. \A k \in Keys : Empty.nodes[k] = NoRow
      BY Zenon DEF Empty
    <2> QED BY <2>1, <2>2, <2>3, KeyParts DEF StateInit, StateInv
  <1>2. StateInv /\ [StateNext]_svars => StateInv'
    <2> SUFFICES ASSUME StateInv, [StateNext]_svars PROVE StateInv'
      OBVIOUS
    <2>1. CASE RowTick \/ UNCHANGED svars
      <3>1. rowClock \in Nat \ {0}
        BY Zenon DEF StateInv
      <3>2. UNCHANGED <<mem, sql>> /\ (rowClock' = rowClock \/ rowClock' = rowClock + 1)
        BY <2>1, Zenon DEF RowTick, svars
      <3>3. rowClock' \in Nat \ {0}
        BY <3>1, <3>2
      <3> QED BY <3>2, <3>3, StateStill, Zenon
    <2>2. CASE \E cutoff \in 1 .. MaxRowClock : pruneOldRuns(cutoff)
      <3>1. \A cutoff \in 1 .. MaxRowClock : cutoff \in Nat
        OBVIOUS
      <3> QED BY <2>2, <3>1, PruneRunsOK, Zenon
    <2> QED BY <2>1, <2>2, RunCallsOK, RowCallsOK, Zenon DEF StateNext
  <1>3. ASSUME StateInv PROVE StoresAgree
    <2>1. \A r \in RunIds : mem_getRun(mem, r) = sql_getRun(sql, r)
      BY <1>3, Zenon DEF StateInv, mem_getRun, sql_getRun
    <2>2. \A s \in RunStatuses \cup {"any"} : mem_listRuns(mem, s) = sql_listRuns(sql, s)
      BY <1>3, Zenon DEF StateInv, mem_listRuns, sql_listRuns, HasRun
    <2>3. ASSUME NEW r \in mem_listRuns(mem, "any")
          PROVE  /\ mem_listNodeRuns(mem, r) = sql_listNodeRuns(sql, r)
                 /\ \A n \in Nodes : mem_getNodeRun(mem, r, n) = sql_getNodeRun(sql, r, n)
      <3>1. \A k \in Keys : k[1] = r => mem.nodes[k] = sql.nodes[k]
        BY <1>3, <2>3, Zenon DEF StateInv, mem_listRuns
      <3>2. Rows(mem, r) = Rows(sql, r) /\ \A k \in Rows(mem, r) : mem.nodes[k] = sql.nodes[k]
        BY <3>1, Zenon DEF Rows
      <3>3. mem_listNodeRuns(mem, r) = sql_listNodeRuns(sql, r)
        BY <3>2, Zenon DEF mem_listNodeRuns, sql_listNodeRuns
      <3>4. ASSUME NEW n \in Nodes PROVE mem_getNodeRun(mem, r, n) = sql_getNodeRun(sql, r, n)
        <4> DEFINE found == {k \in Rows(mem, r) : k[2] = n}
                   high == {k \in found : \A x \in found : x[3] <= k[3]}
        <4>1. \A k \in found : k[3] \in Nat
          BY KeyParts, StateAssumption, Zenon DEF Rows
        <4>2. high = {k \in found : ~\E x \in found : x[3] > k[3]}
          <5> HIDE DEF found
          <5> QED BY <4>1
        <4>3. {k \in Rows(sql, r) : k[2] = n} = found
          BY <3>2, Zenon
        <4>4. \A k \in high : mem.nodes[k] = sql.nodes[k]
          BY <3>2, Zenon
        <4>5. mem_getNodeRun(mem, r, n) = {mem.nodes[k] : k \in high}
          BY Zenon DEF mem_getNodeRun
        <4>6. sql_getNodeRun(sql, r, n) = {sql.nodes[k] : k \in high}
          BY <4>2, <4>3, Zenon DEF sql_getNodeRun
        <4> HIDE DEF high, found
        <4> QED BY <4>4, <4>5, <4>6, Zenon
      <3> QED BY <3>3, <3>4, Zenon
    <2> QED BY <2>1, <2>2, <2>3, Zenon DEF StoresAgree
  <1> QED BY <1>1, <1>2, <1>3, PTL DEF StateSpec
=============================================================================

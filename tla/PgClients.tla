----------------------------- MODULE PgClients -----------------------------
(***************************************************************************)
(* The calls of PgPersistentStore that run several statements, made by     *)
(* several threads over the connection pool.  The statements of two calls  *)
(* interleave: activateConfig puts its own in one transaction, the         *)
(* rule-set and SCIM-group calls do not.                                   *)
(*                                                                         *)
(* The server (external) is PostgreSQL at READ COMMITTED: an UPDATE picks  *)
(* its rows from what is committed when it starts, waits for their row     *)
(* locks, and looks at each row again before it writes; writes show at     *)
(* COMMIT; the partial unique index makes a promotion wait for a           *)
(* transaction that is changing an ACTIVE row, and fail on a committed one.*)
(***************************************************************************)
EXTENDS Naturals, Sequences, FiniteSets, Functions

(***************************************************************************)
(* ConnectionPool<Conn>, shared by the PostgreSQL store and the Redis      *)
(* cache.  A client borrows a connection in three steps with the lock      *)
(* given up between them: it waits for an idle one and pops it, checks it, *)
(* and rebuilds it when the check fails.  A rebuilt connection takes the   *)
(* name of the one it replaces; a connection that could not be rebuilt is  *)
(* gone.                                                                   *)
(***************************************************************************)

CONSTANTS
  Clients,    \* threads that call the store
  PoolSize,   \* pool_size_
  MaxOutages  \* bound on the times the server goes away

ASSUME PoolAssumption ==
  PoolSize \in Nat \ {0} /\ MaxOutages \in Nat /\ IsFiniteSet(Clients)

VARIABLES
  idle,          \* idle_
  active_count,  \* active_count_
  pc,            \* pc[c]: where client c is in acquire()
  conn,          \* conn[c]: the connection c popped or holds (0: none)
  dead,          \* connections whose server session is gone
  server,        \* is the server reachable
  outages

poolVars == <<idle, active_count, pc, conn, dead, server, outages>>

Conns == 1..PoolSize

PoolInit ==
  /\ idle = [k \in Conns |-> k]
  /\ active_count = 0
  /\ pc = [c \in Clients |-> "out"]
  /\ conn = [c \in Clients |-> 0]
  /\ dead = {}
  /\ server = "up"
  /\ outages = 0

\* acquire() is called.
acquire(c) ==
  /\ pc[c] = "out"
  /\ pc' = [pc EXCEPT ![c] = "waiting"]
  /\ UNCHANGED <<idle, active_count, conn, dead, server, outages>>

\* A bug: the connection is used but stays in idle_.
popPeeks(c) ==
  /\ pc[c] = "waiting" /\ idle # <<>>
  /\ conn' = [conn EXCEPT ![c] = idle[Len(idle)]]
  /\ pc' = [pc EXCEPT ![c] = "checking"]
  /\ UNCHANGED <<idle, active_count, dead, server, outages>>

\* idle_ is not empty: take its last element and give up the lock.
pop(c) ==
  /\ pc[c] = "waiting" /\ idle # <<>>
  /\ conn' = [conn EXCEPT ![c] = idle[Len(idle)]]
  /\ idle' = SubSeq(idle, 1, Len(idle) - 1)
  /\ pc' = [pc EXCEPT ![c] = "checking"]
  /\ UNCHANGED <<active_count, dead, server, outages>>

\* The deadline passes with idle_ still empty: nullopt.
timeout(c) ==
  /\ pc[c] = "waiting" /\ idle = <<>>
  /\ pc' = [pc EXCEPT ![c] = "out"]
  /\ UNCHANGED <<idle, active_count, conn, dead, server, outages>>

\* health_check_ passes: count the connection and hand it out.
checkPasses(c) ==
  /\ pc[c] = "checking" /\ conn[c] \notin dead
  /\ active_count' = active_count + 1
  /\ pc' = [pc EXCEPT ![c] = "holding"]
  /\ UNCHANGED <<idle, conn, dead, server, outages>>

\* health_check_ fails: the connection is deleted.
checkFails(c) ==
  /\ pc[c] = "checking" /\ conn[c] \in dead
  /\ pc' = [pc EXCEPT ![c] = "rebuilding"]
  /\ UNCHANGED <<idle, active_count, conn, dead, server, outages>>

\* factory_() connects again ...
rebuild(c) ==
  /\ pc[c] = "rebuilding" /\ server = "up"
  /\ dead' = dead \ {conn[c]}
  /\ active_count' = active_count + 1
  /\ pc' = [pc EXCEPT ![c] = "holding"]
  /\ UNCHANGED <<idle, conn, server, outages>>

\* ... or returns nullptr: nullopt, and nothing goes back to idle_.
rebuildFails(c) ==
  /\ pc[c] = "rebuilding" /\ server = "down"
  /\ conn' = [conn EXCEPT ![c] = 0]
  /\ pc' = [pc EXCEPT ![c] = "out"]
  /\ UNCHANGED <<idle, active_count, dead, server, outages>>

\* ~Handle() and returnConn(): dead or not, it goes back to idle_.
release(c) ==
  /\ pc[c] = "holding"
  /\ active_count' = active_count - 1
  /\ idle' = Append(idle, conn[c])
  /\ conn' = [conn EXCEPT ![c] = 0]
  /\ pc' = [pc EXCEPT ![c] = "out"]
  /\ UNCHANGED <<dead, server, outages>>

\* The server goes away with every session, and comes back without them.
serverDown ==
  /\ server = "up" /\ outages < MaxOutages
  /\ server' = "down" /\ outages' = outages + 1
  /\ dead' = Conns
  /\ UNCHANGED <<idle, active_count, pc, conn>>
serverUp ==
  /\ server = "down"
  /\ server' = "up"
  /\ UNCHANGED <<idle, active_count, pc, conn, dead, outages>>

acquireSteps(c) ==
  \/ pop(c) \/ timeout(c) \/ checkPasses(c) \/ checkFails(c)
  \/ rebuild(c) \/ rebuildFails(c)

PoolNext ==
  \/ \E c \in Clients : acquire(c) \/ acquireSteps(c) \/ release(c)
  \/ serverDown \/ serverUp

PoolSpec == PoolInit /\ [][PoolNext]_poolVars

(***************************************************************************)
(* Properties.                                                             *)
(***************************************************************************)
\* No connection is idle twice or has two users, active_count_ counts the
\* handles that are out, and the pool never grows past its size, whatever
\* the interleaving of checks, rebuilds and returns.
EachConnectionOnce ==
  /\ IsInjective(idle)
  /\ \A c, d \in Clients :
       conn[c] # 0 => /\ conn[c] \notin Range(idle)
                      /\ c # d => conn[c] # conn[d]
  /\ active_count = Cardinality({c \in Clients : pc[c] = "holding"})

-----------------------------------------------------------------------------
CONSTANTS
  Versions,   \* version_id of config versions, and rule-set versions; 1 is
              \* active at the start
  MaxCalls    \* bound on the calls made

VARIABLES
  job,        \* job[c]: <<call, version>> c is in
  at,         \* at[c]: the statement c runs next
  rows,       \* rows[c]: rows the demotion of c picked
  status,     \* committed status of each config version
  mine,       \* mine[c]: uncommitted writes, version -> status
  locks,      \* locks[v]: the client whose transaction has row v locked
  rules,      \* committed rule sets of a tenant: [version, active]
  calls,
  table       \* the table the calls of this behaviour use

pgVars == <<job, at, rows, status, mine, locks, rules, calls, table>>
vars   == <<poolVars, pgVars>>

None == 0
NoWrites == [v \in {} |-> ""]

\* Rows, or writes, with further writes over them.
Over(f, written) ==
  [v \in DOMAIN f \cup DOMAIN written |->
     IF v \in DOMAIN written THEN written[v] ELSE f[v]]

PgInit ==
  /\ PoolInit
  /\ job = [c \in Clients |-> <<"none", 0>>]
  /\ at = [c \in Clients |-> "start"]
  /\ rows = [c \in Clients |-> {}]
  /\ status = [v \in Versions |-> IF v = 1 THEN "ACTIVE" ELSE "APPROVED"]
  /\ mine = [c \in Clients |-> NoWrites]
  /\ locks = [v \in Versions |-> None]
  /\ rules = {[version |-> 1, active |-> TRUE]}
  /\ calls = 0
  /\ table \in {"config_versions", "rule_sets"}

Live(c)   == pc[c] = "holding" /\ conn[c] \notin dead
Goto(c, s) == at' = [at EXCEPT ![c] = s]
Target(c) == job[c][2]

(***************************************************************************)
(* A call begins by borrowing a connection.                                *)
(***************************************************************************)
Begin(c, call, v) ==
  /\ calls < MaxCalls
  /\ calls' = calls + 1
  /\ acquire(c)
  /\ job' = [job EXCEPT ![c] = <<call, v>>]
  /\ Goto(c, call)
  /\ UNCHANGED <<rows, status, mine, locks, rules, table>>

\* The locals of a call go with it.
Forget(c) ==
  /\ job' = [job EXCEPT ![c] = <<"none", 0>>]
  /\ rows' = [rows EXCEPT ![c] = {}]

\* acquire() goes on; a call that gets no connection returns false.
AcquireStep(c) ==
  /\ acquireSteps(c)
  /\ IF pc'[c] # "out" THEN UNCHANGED <<job, rows, at>>
     ELSE Forget(c) /\ Goto(c, "start")
  /\ UNCHANGED <<status, mine, locks, rules, calls, table>>

\* A bug: the connection goes back with its transaction still open.
FinishOpen(c, written) ==
  /\ release(c)
  /\ status' = Over(status, written)
  /\ mine' = [mine EXCEPT ![c] = NoWrites]
  /\ Goto(c, "start")
  /\ Forget(c)
  /\ UNCHANGED <<locks, rules, calls, table>>

\* Every way out of a call: the transaction is over on the server, and the
\* handle gives the connection back.
Finish(c, written) ==
  /\ release(c)
  /\ status' = Over(status, written)
  /\ mine' = [mine EXCEPT ![c] = NoWrites]
  /\ locks' = [v \in Versions |-> IF locks[v] = c THEN None ELSE locks[v]]
  /\ Goto(c, "start")
  /\ Forget(c)
  /\ UNCHANGED <<rules, calls, table>>

\* A statement fails because the connection died; the server has rolled
\* back what the session had not committed.
connectionLost(c) ==
  /\ pc[c] = "holding" /\ conn[c] \in dead
  /\ Finish(c, NoWrites)

(***************************************************************************)
(* activateConfig.                                                         *)
(***************************************************************************)
LockFree(c, v) == locks[v] \in {None, c}

\* BEGIN; SELECT status ... FOR UPDATE, and what the status says.
selectForUpdate(c) ==
  /\ Live(c) /\ at[c] = "activateConfig"
  /\ LockFree(c, Target(c))
  /\ \/ /\ status[Target(c)] \in {"APPROVED", "SUPERSEDED"}
        /\ locks' = [locks EXCEPT ![Target(c)] = c]
        /\ Goto(c, "demote")
        /\ UNCHANGED <<poolVars, job, rows, status, mine, rules, calls, table>>
     \/ /\ status[Target(c)] \notin {"APPROVED", "SUPERSEDED"}
        /\ Finish(c, NoWrites)

\* UPDATE ... WHERE status = 'ACTIVE' AND version_id <> target starts.
demoteStart(c) ==
  /\ Live(c) /\ at[c] = "demote"
  /\ rows' = [rows EXCEPT ![c] =
                {v \in Versions \ {Target(c)} : status[v] = "ACTIVE"}]
  /\ Goto(c, "demoting")
  /\ UNCHANGED <<poolVars, job, status, mine, locks, rules, calls, table>>

\* It has the row locks; rows that are no longer ACTIVE are skipped.
demote(c) ==
  LET hit == {v \in rows[c] : status[v] = "ACTIVE"}
  IN  /\ Live(c) /\ at[c] = "demoting"
      /\ \A v \in rows[c] : LockFree(c, v)
      /\ mine' = [mine EXCEPT ![c] = [v \in hit |-> "SUPERSEDED"]]
      /\ locks' = [v \in Versions |-> IF v \in hit THEN c ELSE locks[v]]
      /\ Goto(c, "promote")
      /\ UNCHANGED <<poolVars, job, rows, status, rules, calls, table>>

\* What uq_config_versions_active says to c's promotion.
Others(c) == Versions \ (DOMAIN mine[c] \cup {Target(c)})
Pending(c) ==
  \E d \in Clients \ {c} : \E v \in DOMAIN mine[d] :
    "ACTIVE" \in {mine[d][v], status[v]}
Violates(c) == \E v \in Others(c) : status[v] = "ACTIVE"

\* UPDATE ... SET status = 'ACTIVE' WHERE version_id = target.
promote(c) ==
  /\ Live(c) /\ at[c] = "promote" /\ ~Pending(c)
  /\ \/ /\ ~Violates(c)
        /\ mine' = [mine EXCEPT ![c] = Over(@, [v \in {Target(c)} |-> "ACTIVE"])]
        /\ Goto(c, "commit")
        /\ UNCHANGED <<poolVars, job, rows, status, locks, rules, calls, table>>
     \/ Violates(c) /\ Finish(c, NoWrites)

\* COMMIT.
commit(c) ==
  /\ Live(c) /\ at[c] = "commit"
  /\ Finish(c, mine[c])

(***************************************************************************)
(* insertRuleSet and activateRuleSetVersion.                               *)
(***************************************************************************)
RuleVersions == {r.version : r \in rules}
Deactivated == {[r EXCEPT !.active = FALSE] : r \in rules}

\* SELECT COUNT(*): false when the version does not exist.
checkRuleSet(c) ==
  /\ Live(c) /\ at[c] = "activateRuleSetVersion"
  /\ \/ /\ Target(c) \in RuleVersions
        /\ Goto(c, "deactivate")
        /\ UNCHANGED <<poolVars, job, rows, status, mine, locks, rules, calls, table>>
     \/ Target(c) \notin RuleVersions /\ Finish(c, NoWrites)

\* UPDATE rule_sets SET is_active = 0 WHERE tenant_id = ..., which both
\* calls run before they write the new active row.
deactivateRuleSets(c) ==
  /\ Live(c) /\ at[c] \in {"insertRuleSet", "deactivate"}
  /\ rules' = Deactivated
  /\ Goto(c, IF at[c] = "insertRuleSet" THEN "insert" ELSE "reactivate")
  /\ UNCHANGED <<poolVars, job, rows, status, mine, locks, calls, table>>

\* INSERT: refused when the version is taken.
insertRuleSet(c) ==
  /\ Live(c) /\ at[c] = "insert"
  /\ rules' = IF Target(c) \in RuleVersions THEN rules
              ELSE rules \cup {[version |-> Target(c), active |-> TRUE]}
  /\ release(c) /\ Goto(c, "start") /\ Forget(c)
  /\ UNCHANGED <<status, mine, locks, calls, table>>

\* UPDATE ... SET is_active = 1 WHERE version = ...
activateRuleSetVersion(c) ==
  /\ Live(c) /\ at[c] = "reactivate"
  /\ rules' = {IF r.version = Target(c) THEN [r EXCEPT !.active = TRUE] ELSE r
                 : r \in rules}
  /\ release(c) /\ Goto(c, "start") /\ Forget(c)
  /\ UNCHANGED <<status, mine, locks, calls, table>>

(***************************************************************************)
(* The specification.                                                      *)
(***************************************************************************)
ConfigCall(c) ==
  \/ selectForUpdate(c) \/ demoteStart(c) \/ demote(c) \/ promote(c)
  \/ commit(c)
RuleSetCall(c) ==
  \/ checkRuleSet(c) \/ deactivateRuleSets(c) \/ insertRuleSet(c)
  \/ activateRuleSetVersion(c)
ServerStep == (serverDown \/ serverUp) /\ UNCHANGED pgVars

\* What a call in progress does next.
Progress(c) ==
  AcquireStep(c) \/ connectionLost(c) \/ ConfigCall(c) \/ RuleSetCall(c)

PgNext ==
  \/ \E c \in Clients :
       \/ \E v \in Versions :
            \/ table = "config_versions" /\ Begin(c, "activateConfig", v)
            \/ table = "rule_sets" /\ Begin(c, "insertRuleSet", v)
            \/ table = "rule_sets" /\ Begin(c, "activateRuleSetVersion", v)
       \/ Progress(c)
  \/ ServerStep

\* A thread inside a call keeps running it.
PgFairness == \A c \in Clients : WF_vars(Progress(c))

PgSpec == PgInit /\ [][PgNext]_vars /\ PgFairness

(***************************************************************************)
(* Properties.                                                             *)
(***************************************************************************)
\* Two activateConfig calls, interleaved statement by statement and cut off
\* anywhere by a lost connection, never leave two ACTIVE versions.
AtMostOneActive ==
  Cardinality({v \in Versions : status[v] = "ACTIVE"}) <= 1

\* Calls that wait for each other's row locks or index entries never wait
\* for ever: each gets its answer.
EveryCallAnswered == \A c \in Clients : pc[c] # "out" ~> pc[c] = "out"
=============================================================================

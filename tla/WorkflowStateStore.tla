------------------------- MODULE WorkflowStateStore -------------------------
(***************************************************************************)
(* The two stores of workflow runs (src/workflow): MemoryWorkflowStateStore *)
(* and SQLiteWorkflowStateStore, given the same calls side by side.  What   *)
(* they hold is a map of runs and a table of node rows keyed by run, node   *)
(* and attempt; SQLite ties the rows to their run by a foreign key.         *)
(***************************************************************************)
EXTENDS Integers, FiniteSets

CONSTANTS RunIds, Nodes, Attempts, RunStatuses, NodeStatuses, MaxRowClock

ASSUME StateAssumption == Attempts \subseteq Nat /\ "none" \notin RunStatuses

VARIABLES mem, sql,   \* the two stores: [runs, nodes]
          rowClock

svars == <<mem, sql, rowClock>>

NoRun == [status |-> "none", context |-> 0, created |-> 0, updated |-> 0]
NoRow == "none"

Keys == RunIds \X Nodes \X Attempts

Empty == [runs |-> [r \in RunIds |-> NoRun], nodes |-> [k \in Keys |-> NoRow]]

HasRun(s, r) == s.runs[r].status # "none"

StateInit == mem = Empty /\ sql = Empty /\ rowClock = 1

Reply(ok, s) == [ok |-> ok, store |-> s]

-----------------------------------------------------------------------------
(* MemoryWorkflowStateStore *)

mem_createRun(s, r, rec) ==
  IF HasRun(s, r) THEN Reply(FALSE, s) ELSE Reply(TRUE, [s EXCEPT !.runs[r] = rec])

mem_getRun(s, r) == s.runs[r]

mem_listRuns(s, status) ==
  {r \in RunIds : HasRun(s, r) /\ status \in {"any", s.runs[r].status}}

mem_transitionRunStatus(s, r, status, now) ==
  IF ~HasRun(s, r) THEN Reply(FALSE, s)
  ELSE Reply(TRUE, [s EXCEPT !.runs[r].status = status, !.runs[r].updated = now])

mem_updateRunContext(s, r, context, now) ==
  IF ~HasRun(s, r) THEN Reply(FALSE, s)
  ELSE Reply(TRUE, [s EXCEPT !.runs[r].context = context, !.runs[r].updated = now])

mem_upsertNodeRunByNode(s, k, status) ==
  Reply(TRUE, [s EXCEPT !.nodes = [x \in Keys |->
    IF x = k THEN status
    ELSE IF x[1] = k[1] /\ x[2] = k[2] THEN NoRow ELSE s.nodes[x]]])

mem_upsertNodeRun(s, k, status) == Reply(TRUE, [s EXCEPT !.nodes[k] = status])

Rows(s, r) == {k \in Keys : k[1] = r /\ s.nodes[k] # NoRow}

mem_listNodeRuns(s, r) == {<<k, s.nodes[k]>> : k \in Rows(s, r)}

\* The row of the node's highest attempt.
mem_getNodeRun(s, r, n) ==
  LET rows == {k \in Rows(s, r) : k[2] = n} IN
  {s.nodes[k] : k \in {k \in rows : \A x \in rows : x[3] <= k[3]}}

\* A run without an update time counts from its creation.
Age(run) == IF run.updated > 0 THEN run.updated ELSE run.created

mem_pruneOldRuns(s, cutoff) ==
  LET old == {r \in RunIds : HasRun(s, r) /\ Age(s.runs[r]) < cutoff} IN
  Reply(TRUE, [runs |-> [r \in RunIds |-> IF r \in old THEN NoRun ELSE s.runs[r]],
               nodes |-> [k \in Keys |-> IF k[1] \in old THEN NoRow ELSE s.nodes[k]]])

-----------------------------------------------------------------------------
(* SQLiteWorkflowStateStore: one statement, or one transaction, a call. *)

sql_createRun(s, r, rec) ==
  IF HasRun(s, r) THEN Reply(FALSE, s) ELSE Reply(TRUE, [s EXCEPT !.runs[r] = rec])

sql_getRun(s, r) == s.runs[r]

sql_listRuns(s, status) ==
  {r \in RunIds : HasRun(s, r) /\ (status = "any" \/ s.runs[r].status = status)}

sql_transitionRunStatus(s, r, status, now) ==
  Reply(HasRun(s, r),
        [s EXCEPT !.runs[r] = IF @.status = "none" THEN @
                              ELSE [@ EXCEPT !.status = status, !.updated = now]])

sql_updateRunContext(s, r, context, now) ==
  Reply(HasRun(s, r),
        [s EXCEPT !.runs[r] = IF @.status = "none" THEN @
                              ELSE [@ EXCEPT !.context = context, !.updated = now]])

\* The foreign key refuses a row of a run that is not there.
sql_upsertNodeRun(s, k, status) ==
  IF ~HasRun(s, k[1]) THEN Reply(FALSE, s)
  ELSE Reply(TRUE, [s EXCEPT !.nodes[k] = status])

sql_listNodeRuns(s, r) == {<<k, s.nodes[k]>> : k \in Rows(s, r)}

sql_getNodeRun(s, r, n) ==
  LET rows == {k \in Rows(s, r) : k[2] = n} IN
  {s.nodes[k] : k \in {k \in rows : ~\E x \in rows : x[3] > k[3]}}

\* ON DELETE CASCADE takes the rows along.
sql_pruneOldRuns(s, cutoff) ==
  LET old == {r \in RunIds : HasRun(s, r) /\ s.runs[r].updated < cutoff} IN
  Reply(TRUE, [runs |-> [r \in RunIds |-> IF r \in old THEN NoRun ELSE s.runs[r]],
               nodes |-> [k \in Keys |-> IF k[1] \in old THEN NoRow ELSE s.nodes[k]]])

-----------------------------------------------------------------------------
(* The calls the engine makes.  A run is created once, with both its times;  *)
(* a node row may still be written after its run was pruned.                 *)

Both(m, s) == mem' = m.store /\ sql' = s.store

createRun(r) ==
  LET rec == [status |-> "Running", context |-> 0, created |-> rowClock, updated |-> rowClock] IN
  /\ Rows(mem, r) = {}
  /\ Both(mem_createRun(mem, r, rec), sql_createRun(sql, r, rec)) /\ UNCHANGED rowClock

transitionRunStatus(r, status) ==
  Both(mem_transitionRunStatus(mem, r, status, rowClock),
       sql_transitionRunStatus(sql, r, status, rowClock)) /\ UNCHANGED rowClock

updateRunContext(r, context) ==
  Both(mem_updateRunContext(mem, r, context, rowClock),
       sql_updateRunContext(sql, r, context, rowClock)) /\ UNCHANGED rowClock

upsertNodeRun(k, status) ==
  Both(mem_upsertNodeRun(mem, k, status), sql_upsertNodeRun(sql, k, status))
  /\ UNCHANGED rowClock

pruneOldRuns(cutoff) ==
  Both(mem_pruneOldRuns(mem, cutoff), sql_pruneOldRuns(sql, cutoff)) /\ UNCHANGED rowClock

RowTick == rowClock < MaxRowClock /\ rowClock' = rowClock + 1 /\ UNCHANGED <<mem, sql>>

StateNext ==
  \/ RowTick
  \/ \E r \in RunIds : createRun(r) \/ updateRunContext(r, 1)
                       \/ \E s \in RunStatuses : transitionRunStatus(r, s)
  \/ \E k \in Keys, s \in NodeStatuses : upsertNodeRun(k, s)
  \/ \E cutoff \in 1 .. MaxRowClock : pruneOldRuns(cutoff)

StateSpec == StateInit /\ [][StateNext]_svars

-----------------------------------------------------------------------------
\* The in-memory store answers as the SQLite one does, whatever sequence of
\* calls came before, prunes in the middle of a run included: the same runs,
\* the same listings, and for a run that exists the same rows and latest row.
StoresAgree ==
  /\ \A r \in RunIds : mem_getRun(mem, r) = sql_getRun(sql, r)
  /\ \A s \in RunStatuses \cup {"any"} : mem_listRuns(mem, s) = sql_listRuns(sql, s)
  /\ \A r \in mem_listRuns(mem, "any") :
       /\ mem_listNodeRuns(mem, r) = sql_listNodeRuns(sql, r)
       /\ \A n \in Nodes : mem_getNodeRun(mem, r, n) = sql_getNodeRun(sql, r, n)
=============================================================================

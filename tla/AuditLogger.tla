---------------------------- MODULE AuditLogger ----------------------------
(***************************************************************************)
(* AuditLogger and the end of GatewayRuntime::shutdown.  log() links an    *)
(* entry into the hash chain under mutex_ and queues it under queue_mutex_ *)
(* afterwards; one writer thread persists the queue in batches; flush()    *)
(* waits on an epoch; shutdown() stops and joins the writer, and then the  *)
(* store is closed under it.  An entry is its position in the chain: its   *)
(* hash covers the hash of the entry before it.                            *)
(***************************************************************************)
EXTENDS Naturals, Sequences, FiniteSets

CONSTANTS
  Loggers,      \* threads that call log()
  Flushers,     \* threads that call flush(), beside Main
  Main,         \* the thread in GatewayRuntime::shutdown
  MaxPending,   \* kMaxQueueSize
  BatchSize,    \* kBatchSize
  MaxEntries,   \* bound on the entries logged
  MaxFlushes,   \* bound on the flush() calls that wait
  MaxFaults     \* bound on failed insertAudit calls

ASSUME AuditAssumption == MaxPending \in Nat \ {0} /\ BatchSize \in Nat \ {0}

VARIABLES
  chained,      \* entries linked so far: last_chain_hash_ is that of the last
  inHand,       \* the entry a logger has linked and not queued yet, or 0
  pending,      \* pending_queue_
  writing,      \* what the writer has taken
  writer,       \* where the writer is
  stored,       \* the audits table, in insertion order
  lost,         \* entries overflown, or refused by the store
  waiters,      \* the targets in flush_waiters_
  flushEpoch, completedEpoch,
  flushing,     \* per thread in flush(): where, its target, what it is for
  stopWriter,   \* stop_
  gateway,      \* where GatewayRuntime::shutdown is
  atStop,       \* the entries accepted when stop_ was raised
  faults

logVars == <<chained, inHand>>
waitVars == <<waiters, flushEpoch, completedEpoch>>
gatewayVars == <<stopWriter, gateway, atStop>>
auditVars == <<chained, inHand, pending, writing, writer, stored, lost, waiters,
          flushEpoch, completedEpoch, flushing, stopWriter, gateway, atStop, faults>>

Entries == 1 .. MaxEntries
Holds(s) == {s[i] : i \in DOMAIN s}
Least(m, n) == IF m < n THEN m ELSE n
Callers == Flushers \cup {Main}
NoFlush == [pc |-> "idle", target |-> 0, must |-> {}, late |-> FALSE]

\* queued, being written, or done with.
Accepted == Holds(pending) \cup Holds(writing) \cup Holds(stored) \cup lost
Settled == Holds(stored) \cup lost

AuditTypeOK ==
  /\ chained \in 0 .. MaxEntries
  /\ inHand \in [Loggers -> 0 .. MaxEntries]
  /\ pending \in Seq(Entries) /\ Len(pending) <= MaxPending
  /\ writing \in Seq(Entries) /\ stored \in Seq(Entries)
  /\ lost \subseteq Entries
  /\ writer \in {"head", "wait", "drain", "last", "exited"}
  /\ {flushEpoch, completedEpoch} \subseteq Nat /\ waiters \subseteq Nat
  /\ flushing \in [Callers -> [pc : {"idle", "waiting", "true", "false"},
                            target : Nat, must : SUBSET Entries, late : BOOLEAN]]
  /\ stopWriter \in BOOLEAN
  /\ gateway \in {"run", "flush", "stop", "join", "close", "closed"}
  /\ atStop \subseteq Entries
  /\ faults \in 0 .. MaxFaults

\* setPersistentStore has started the writer.
AuditInit ==
  /\ chained = 0 /\ inHand = [t \in Loggers |-> 0]
  /\ pending = <<>> /\ writing = <<>> /\ writer = "head"
  /\ stored = <<>> /\ lost = {}
  /\ waiters = {} /\ flushEpoch = 0 /\ completedEpoch = 0
  /\ flushing = [c \in Callers |-> NoFlush]
  /\ stopWriter = FALSE /\ gateway = "run" /\ atStop = {} /\ faults = 0

(***************************************************************************)
(* log.  The in-memory copy and the subscribers are left out.              *)
(***************************************************************************)
LogChain(t) ==
  /\ inHand[t] = 0 /\ chained < MaxEntries
  /\ chained' = chained + 1
  /\ inHand' = [inHand EXCEPT ![t] = chained + 1]
  /\ UNCHANGED <<pending, writing, writer, stored, lost, waitVars, flushing, gatewayVars, faults>>

\* A full queue loses its oldest entry.
LogEnqueue(t) ==
  /\ inHand[t] # 0
  /\ IF Len(pending) >= MaxPending
     THEN pending' = Append(Tail(pending), inHand[t]) /\ lost' = lost \cup {Head(pending)}
     ELSE pending' = Append(pending, inHand[t]) /\ UNCHANGED lost
  /\ inHand' = [inHand EXCEPT ![t] = 0]
  /\ UNCHANGED <<chained, writing, writer, stored, waitVars, flushing, gatewayVars, faults>>

(***************************************************************************)
(* flush and notifyFlushWaiters.                                           *)
(***************************************************************************)
\* Nothing to wait for.  draining_ is up while the writer is at "drain"; the
\* last batch is written with draining_ down.
FlushIdle == pending = <<>> /\ writer # "drain" /\ waiters = {}

AuditFlushBegin(c) ==
  /\ flushing[c].pc = "idle"
  /\ c = Main => gateway = "flush"
  /\ LET must == Holds(pending) \cup Holds(writing) IN
     IF FlushIdle
     THEN /\ flushing' = [flushing EXCEPT ![c] = [pc |-> "true", target |-> 0,
                                             must |-> must, late |-> stopWriter]]
          /\ UNCHANGED waitVars
     ELSE /\ flushEpoch < MaxFlushes
          /\ flushEpoch' = flushEpoch + 1
          /\ waiters' = waiters \cup {flushEpoch + 1}
          /\ flushing' = [flushing EXCEPT ![c] =
                         [pc |-> "waiting", target |-> flushEpoch + 1,
                          must |-> must, late |-> stopWriter]]
          /\ UNCHANGED completedEpoch
  /\ UNCHANGED <<logVars, pending, writing, writer, stored, lost, gatewayVars, faults>>

\* The promise is set, or wait_for gives up; the waiter stays listed then.
FlushEnd(c) ==
  /\ flushing[c].pc = "waiting"
  /\ \/ flushing[c].target \notin waiters /\ flushing' = [flushing EXCEPT ![c].pc = "true"]
     \/ flushing' = [flushing EXCEPT ![c].pc = "false"]
  /\ UNCHANGED <<logVars, pending, writing, writer, stored, lost, waitVars, gatewayVars, faults>>

FlushAgain(c) ==
  /\ c # Main /\ flushing[c].pc \in {"true", "false"}
  /\ flushing' = [flushing EXCEPT ![c] = NoFlush]
  /\ UNCHANGED <<logVars, pending, writing, writer, stored, lost, waitVars, gatewayVars, faults>>

\* One more epoch is complete, if anybody waits.
NotifyFlushWaiters ==
  /\ completedEpoch' = IF waiters = {} THEN completedEpoch ELSE completedEpoch + 1
  /\ waiters' = {t \in waiters : t > completedEpoch'}
  /\ UNCHANGED flushEpoch

(***************************************************************************)
(* writerLoop.                                                             *)
(***************************************************************************)
WriterFrame == UNCHANGED <<logVars, flushing, gatewayVars>>

\* A bug: what is queued when the loop ends is not taken.
WriterHeadLeaves ==
  /\ writer = "head"
  /\ writer' = IF stopWriter THEN "last" ELSE "wait"
  /\ WriterFrame /\ UNCHANGED <<pending, writing, stored, lost, waitVars, faults>>

\* The loop condition; after it everything still queued is the last batch.
WriterHead ==
  /\ writer = "head"
  /\ IF stopWriter
     THEN writer' = "last" /\ writing' = pending /\ pending' = <<>>
     ELSE writer' = "wait" /\ UNCHANGED <<writing, pending>>
  /\ WriterFrame /\ UNCHANGED <<stored, lost, waitVars, faults>>

\* wait_for is over (notified, or after kFlushInterval): take a batch ...
WriterTake ==
  /\ writer = "wait" /\ pending # <<>>
  /\ LET n == Least(Len(pending), BatchSize) IN
     /\ writing' = SubSeq(pending, 1, n)
     /\ pending' = SubSeq(pending, n + 1, Len(pending))
  /\ writer' = "drain"
  /\ WriterFrame /\ UNCHANGED <<stored, lost, waitVars, faults>>

\* ... or find none.
WriterIdle ==
  /\ writer = "wait" /\ pending = <<>>
  /\ NotifyFlushWaiters
  /\ writer' = "head"
  /\ WriterFrame /\ UNCHANGED <<pending, writing, stored, lost, faults>>

\* drainBatch, one insertAudit at a time; a failure is logged and skipped.
WriterInsert ==
  /\ writer \in {"drain", "last"} /\ writing # <<>>
  /\ writing' = Tail(writing)
  /\ \/ /\ gateway # "closed"
        /\ stored' = Append(stored, Head(writing)) /\ UNCHANGED <<lost, faults>>
     \/ /\ faults < MaxFaults
        /\ lost' = lost \cup {Head(writing)} /\ faults' = faults + 1 /\ UNCHANGED stored
  /\ WriterFrame /\ UNCHANGED <<writer, pending, waitVars>>

\* A bug: waiters are told after every batch, whatever is queued behind it.
WriterDrainedEager ==
  /\ writer = "drain" /\ writing = <<>>
  /\ NotifyFlushWaiters
  /\ writer' = "head"
  /\ WriterFrame /\ UNCHANGED <<pending, writing, stored, lost, faults>>

WriterDrained ==
  /\ writer = "drain" /\ writing = <<>>
  /\ IF pending = <<>> THEN NotifyFlushWaiters ELSE UNCHANGED waitVars
  /\ writer' = "head"
  /\ WriterFrame /\ UNCHANGED <<pending, writing, stored, lost, faults>>

\* A bug: the writer waits for a flush before it leaves.
WriterExitNever ==
  /\ writer = "last" /\ writing = <<>> /\ waiters # {}
  /\ NotifyFlushWaiters
  /\ writer' = "exited"
  /\ WriterFrame /\ UNCHANGED <<pending, writing, stored, lost, faults>>

WriterExit ==
  /\ writer = "last" /\ writing = <<>>
  /\ NotifyFlushWaiters
  /\ writer' = "exited"
  /\ WriterFrame /\ UNCHANGED <<pending, writing, stored, lost, faults>>

(***************************************************************************)
(* GatewayRuntime::shutdown: flush, stop, join, close the store.  Requests *)
(* may still be logging.                                                   *)
(***************************************************************************)
MainFrame == UNCHANGED <<logVars, pending, writing, writer, stored, lost, waitVars, flushing, faults>>

MainFlush ==
  /\ gateway = "run"
  /\ gateway' = "flush"
  /\ MainFrame /\ UNCHANGED <<stopWriter, atStop>>

MainStop ==
  /\ gateway = "flush" /\ flushing[Main].pc \in {"true", "false"}
  /\ stopWriter' = TRUE /\ atStop' = Accepted
  /\ gateway' = "join"
  /\ MainFrame

MainJoin ==
  /\ gateway = "join" /\ writer = "exited"
  /\ gateway' = "close"
  /\ MainFrame /\ UNCHANGED <<stopWriter, atStop>>

MainClose ==
  /\ gateway = "close"
  /\ gateway' = "closed"
  /\ MainFrame /\ UNCHANGED <<stopWriter, atStop>>

Log(t) == LogChain(t) \/ LogEnqueue(t)
Flush(c) == AuditFlushBegin(c) \/ FlushEnd(c) \/ FlushAgain(c)
Writer ==
  \/ WriterHead \/ WriterTake \/ WriterIdle \/ WriterInsert
  \/ WriterDrained \/ WriterExit
GatewayShutdown == MainFlush \/ MainStop \/ MainJoin \/ MainClose

AuditNext ==
  \/ \E t \in Loggers : Log(t)
  \/ \E c \in Callers : Flush(c)
  \/ Writer
  \/ GatewayShutdown

\* The writer runs (its waits are timed), log() goes on once it has begun,
\* and shutdown, once begun, proceeds.
AuditSpec ==
  /\ AuditInit /\ [][AuditNext]_auditVars
  /\ WF_auditVars(Writer)
  /\ \A t \in Loggers : WF_auditVars(LogEnqueue(t))
  /\ WF_auditVars(AuditFlushBegin(Main) \/ FlushEnd(Main) \/ MainStop \/ MainJoin \/ MainClose)

(***************************************************************************)
(* Properties.                                                             *)
(***************************************************************************)
\* Every entry of the chain is in exactly one place: in a logger's hand,
\* queued, with the writer, stored once, or known to be lost.
AuditAccounted ==
  LET hands == {inHand[t] : t \in Loggers} \ {0} IN
  /\ 1 .. chained = hands \cup Accepted
  /\ chained = Cardinality(hands) + Len(pending) + Len(writing) + Len(stored)
               + Cardinality(lost)

\* flush() returns true only when all that was queued before it is persisted,
\* overflown or refused, with any number of overlapping flushes.  (A flush
\* called after shutdown() has raised stop_ may miss the last batch: draining_
\* is not set for it.)
FlushMeansPersisted ==
  \A c \in Callers : flushing[c].pc = "true" /\ ~flushing[c].late =>
    flushing[c].must \subseteq Settled

\* No waiter is forgotten: the targets listed are those of the epochs that
\* have begun and are not complete.
WaitersAreNext == waiters = (completedEpoch + 1) .. flushEpoch

\* When the store is closed the writer is gone and everything accepted before
\* shutdown() is persisted, overflown or refused.
PersistedByClose ==
  gateway = "closed" => writer = "exited" /\ atStop \subseteq Settled

\* Shutdown comes to its end.
ShutdownEnds == gateway = "flush" ~> gateway = "closed"
=============================================================================

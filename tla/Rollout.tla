------------------------------ MODULE Rollout ------------------------------
(***************************************************************************)
(* RolloutController over the rollout table and the config table: operator *)
(* calls (create, start, promote, pause, resume, abort) and the ticker     *)
(* thread (reconcile, evaluateStage, evaluateAutoRollback).  Every call    *)
(* loads a copy of the record, works on the copy and writes it back whole; *)
(* a step here is one call into a store, so the steps of two calls on one  *)
(* rollout interleave exactly where the code holds no lock.                *)
(***************************************************************************)
EXTENDS ConfigStore, Integers, FiniteSets

CONSTANTS
  Rollouts,       \* rollout ids
  Operators,      \* gRPC threads that carry operator calls
  Ticker,         \* the RolloutTicker thread
  StageCount,     \* stages of a rollout spec
  Cooldown,       \* pause_cooldown_ms
  Grace,          \* auto_rollback_grace_seconds
  MaxTime,        \* bound on the wall clock
  MaxFaults,      \* bound on failed updateRollout calls
  ConfigMayFail,  \* activateConfig may fail
  ConfigAdmin,    \* operators also review, activate and roll back versions
  Serial          \* TRUE: a call starts only when no other call is running

ASSUME RolloutAssumption ==
  /\ Ticker \notin Operators
  /\ StageCount \in Nat \ {0}
  /\ MaxTime \in Nat \ {0}
  /\ {Cooldown, Grace, MaxFaults} \subseteq Nat
  /\ {ConfigMayFail, ConfigAdmin, Serial} \subseteq BOOLEAN

VARIABLES
  admin,          \* reviews and activations that have read a version and not
                  \* written it yet
  wentLive,       \* the versions that have been live so far
  rollout,        \* the rollout table
  loc,            \* the call each thread is in: where, on what copy
  todo,           \* rollouts of the current tick still to be evaluated
  snap,           \* the records listRollouts returned to the tick
  tickNow,        \* wall_now_ms of the current tick
  now,            \* the wall clock
  faults          \* failed updateRollout calls so far

confVars == <<storeVars, admin, wentLive>>
ticking == <<todo, snap, tickNow>>
vars == <<status, activeId, admin, wentLive, rollout, loc, todo, snap, tickNow, now, faults>>

Procs == Operators \cup {Ticker}
RolloutStatuses == {"PENDING", "PROGRESSING", "PAUSED", "COMPLETED", "FAILED", "ABORTED"}
ActiveStatuses == {"PENDING", "PROGRESSING", "PAUSED"}

\* A manual and an automatic pause differ in pause_reason only, which no
\* handler reads; stage_started_at only matters to whether the metrics of the
\* stage are looked at, which is left open.
NoRec == [status |-> "NONE", target |-> NoVersion, idx |-> 0, prev |-> NoVersion,
          pausedAt |-> 0, reason |-> "UNSPECIFIED"]
Rec == [status : RolloutStatuses \cup {"NONE"},
        target : Versions \cup {NoVersion},
        idx : 0 .. StageCount - 1,
        prev : Versions \cup {NoVersion},
        pausedAt : 0 .. MaxTime,
        reason : {"UNSPECIFIED", "AUTO_ROLLBACK"}]

\* pc "write" persists the copy; "then" is where the call goes after that.
Idle == [pc |-> "idle", id |-> "none", rec |-> NoRec, then |-> "idle"]
Loc == [pc : {"idle", "insert", "capture", "activate", "activate_write",
              "write", "restore", "restore_write", "stage"},
        id : Rollouts \cup {"none"},
        rec : Rec,
        then : {"idle", "restore", "write"}]

TypeOK ==
  /\ StoreTypeOK
  /\ admin \subseteq Versions \X {"APPROVED", "REJECTED", "ACTIVE"}
  /\ wentLive \subseteq Versions
  /\ rollout \in [Rollouts -> Rec]
  /\ loc \in [Procs -> Loc]
  /\ todo \subseteq Rollouts
  /\ snap \in [Rollouts -> Rec]
  /\ tickNow \in 0 .. MaxTime
  /\ now \in 1 .. MaxTime
  /\ faults \in 0 .. MaxFaults

\* At most one version is live, and a superseded one means some other went
\* live after it.
Init ==
  /\ status \in [Versions -> {"PENDING", "APPROVED", "ACTIVE", "SUPERSEDED"}]
  /\ Cardinality(ActiveRows) <= 1
  /\ ActiveRows = {} => \A v \in Versions : status[v] # "SUPERSEDED"
  /\ activeId = IF MemoryBackend /\ ActiveRows # {}
                THEN CHOOSE v \in ActiveRows : TRUE ELSE NoVersion
  /\ admin = {}
  /\ wentLive = {v \in Versions : status[v] \in {"ACTIVE", "SUPERSEDED"}}
  /\ rollout = [r \in Rollouts |-> NoRec]
  /\ loc = [p \in Procs |-> Idle]
  /\ todo = {}
  /\ snap = [r \in Rollouts |-> NoRec]
  /\ tickNow = 0
  /\ now = 1
  /\ faults = 0

(***************************************************************************)
(* attemptRolloutTransition.                                               *)
(***************************************************************************)

\* "NONE" stands for nullopt.
Move(from, action, isLast) ==
  CASE from = "PENDING" /\ action = "Start" -> "PROGRESSING"
    [] from = "PROGRESSING" /\ action = "Promote" ->
         IF isLast THEN "COMPLETED" ELSE "PROGRESSING"
    [] from = "PROGRESSING" /\ action \in {"PauseManual", "PauseAuto"} -> "PAUSED"
    [] from = "PAUSED" /\ action = "Resume" -> "PROGRESSING"
    [] from = "PAUSED" /\ action = "AutoRollback" -> "FAILED"
    [] from \in {"PROGRESSING", "PAUSED"} /\ action = "Fail" -> "FAILED"
    [] from \in ActiveStatuses /\ action = "Abort" -> "ABORTED"
    [] OTHER -> "NONE"

IsLast(rec) == rec.idx + 1 >= StageCount

(***************************************************************************)
(* The rollout table.                                                      *)
(***************************************************************************)
\* Another active rollout on the same target.
Conflict(r, target) ==
  \E q \in Rollouts \ {r} :
    rollout[q].status \in ActiveStatuses /\ rollout[q].target = target

\* A bug: an update is taken without looking at the other rollouts.
AcceptsAlways(r, rec) == TRUE

\* insertRollout and updateRollout accept the record.
Accepts(r, rec) == rec.status \in ActiveStatuses => ~Conflict(r, rec.target)

\* activateConfig: the store takes the version live, or refuses.
GoLive(v) == ActivateConfig(v) /\ wentLive' = wentLive \cup {v}
GoLiveFails(v) ==
  (ConfigMayFail \/ ~Activatable(v)) /\ UNCHANGED <<storeVars, wentLive>>

(***************************************************************************)
(* Starting a call, and moving on inside one.                              *)
(***************************************************************************)
MayStart(p) ==
  /\ loc[p] = Idle
  /\ Serial => (\A q \in Procs : loc[q] = Idle) /\ (p \in Operators => todo = {})

Go(p, pc, r, rec, then) ==
  loc' = [loc EXCEPT ![p] = [pc |-> pc, id |-> r, rec |-> rec, then |-> then]]
Done(p) == loc' = [loc EXCEPT ![p] = Idle]

\* Where a call goes after a step: "idle" ends it.
Continue(p, pc, rec) ==
  IF pc = "idle" THEN Done(p) ELSE Go(p, pc, loc[p].id, rec, "idle")

CallFrame == UNCHANGED <<ticking, now>>

(***************************************************************************)
(* Operator calls: load, check the transition, prepare the copy.           *)
(***************************************************************************)
Create(p, r, v) ==
  /\ MayStart(p)
  /\ rollout[r] = NoRec
  /\ \A q \in Procs : loc[q].id # r
  /\ status[v] = "APPROVED"
  /\ ~Conflict(r, v)
  /\ Go(p, "insert", r, [NoRec EXCEPT !.status = "PENDING", !.target = v], "idle")
  /\ CallFrame /\ UNCHANGED <<confVars, rollout, faults>>

Insert(p) ==
  LET r == loc[p].id IN
  /\ loc[p].pc = "insert"
  /\ rollout' = IF Accepts(r, loc[p].rec)
                THEN [rollout EXCEPT ![r] = loc[p].rec] ELSE rollout
  /\ Done(p)
  /\ CallFrame /\ UNCHANGED <<confVars, faults>>

\* loadRollout followed by a refused transition has no effect.
Load(p, r, action, pc, rec, then) ==
  /\ MayStart(p)
  /\ Move(rollout[r].status, action, IsLast(rollout[r])) # "NONE"
  /\ Go(p, pc, r, rec, then)
  /\ CallFrame /\ UNCHANGED <<confVars, rollout, faults>>

Start(p, r) ==
  Load(p, r, "Start", "capture",
       [rollout[r] EXCEPT !.status = "PROGRESSING"], "idle")

\* startRollout's getActive.
Capture(p) ==
  /\ loc[p].pc = "capture"
  /\ Go(p, "write", loc[p].id, [loc[p].rec EXCEPT !.prev = GetActive], "idle")
  /\ CallFrame /\ UNCHANGED <<confVars, rollout, faults>>

Promote(p, r) ==
  IF IsLast(rollout[r])
  THEN Load(p, r, "Promote", "activate", rollout[r], "idle")
  ELSE Load(p, r, "Promote", "write",
            [rollout[r] EXCEPT !.idx = @ + 1], "idle")

Pause(p, r) ==
  Load(p, r, "PauseManual", "write",
       [rollout[r] EXCEPT !.status = "PAUSED", !.pausedAt = now], "idle")

\* paused_at stays: it anchors the auto-pause cooldown.
Resume(p, r) ==
  Load(p, r, "Resume", "write",
       [rollout[r] EXCEPT !.status = "PROGRESSING", !.reason = "UNSPECIFIED"], "idle")

\* A bug: the previous version is not restored.
AbortOnly(p, r) ==
  Load(p, r, "Abort", "write", [rollout[r] EXCEPT !.status = "ABORTED"], "idle")

\* The status is persisted first, the previous version restored after it.
Abort(p, r) ==
  Load(p, r, "Abort", "write", [rollout[r] EXCEPT !.status = "ABORTED"],
       IF rollout[r].status # "PENDING" /\ rollout[r].prev # NoVersion
       THEN "restore" ELSE "idle")

(***************************************************************************)
(* The steps calls share.                                                  *)
(***************************************************************************)
\* updateRollout; a call whose write fails returns without its last part,
\* but a reconciliation that fails is followed by the evaluation of the stage.
Write(p) ==
  LET r == loc[p].id IN
  /\ loc[p].pc = "write"
  /\ \/ /\ Accepts(r, loc[p].rec)
        /\ rollout' = [rollout EXCEPT ![r] = loc[p].rec]
        /\ Continue(p, loc[p].then, loc[p].rec)
        /\ UNCHANGED faults
     \/ /\ \/ ~Accepts(r, loc[p].rec) /\ UNCHANGED faults
           \/ faults < MaxFaults /\ faults' = faults + 1
        /\ IF p = Ticker /\ loc[p].rec.status = "COMPLETED"
           THEN Continue(p, "stage", loc[p].rec) ELSE Done(p)
        /\ UNCHANGED rollout
  /\ CallFrame /\ UNCHANGED confVars

\* ConfigServiceCore::activate reads the target; an error fails the rollout.
ActivateRead(p) ==
  LET rec == loc[p].rec IN
  /\ loc[p].pc = "activate"
  /\ IF CanMove(status[rec.target], "ACTIVATE", "ACTIVE")
     THEN Continue(p, "activate_write", rec)
     ELSE Continue(p, "write", [rec EXCEPT !.status = "FAILED"])
  /\ CallFrame /\ UNCHANGED <<confVars, rollout, faults>>

\* A bug: a failed activation is taken for a success.
ActivateWriteOptimistic(p) ==
  LET rec == loc[p].rec IN
  /\ loc[p].pc = "activate_write"
  /\ GoLive(rec.target) \/ GoLiveFails(rec.target)
  /\ Continue(p, "write", [rec EXCEPT !.status = "COMPLETED"])
  /\ CallFrame /\ UNCHANGED <<admin, rollout, faults>>

ActivateWrite(p) ==
  LET rec == loc[p].rec IN
  /\ loc[p].pc = "activate_write"
  /\ \/ /\ GoLive(rec.target)
        /\ Continue(p, "write", [rec EXCEPT !.status = "COMPLETED"])
     \/ /\ GoLiveFails(rec.target)
        /\ Continue(p, "write", [rec EXCEPT !.status = "FAILED"])
  /\ CallFrame /\ UNCHANGED <<admin, rollout, faults>>

\* ConfigServiceCore::rollback to the version that was live at the start:
\* nothing to do when it is live again, an audited error when it is neither.
RestoreRead(p) ==
  LET rec == loc[p].rec IN
  /\ loc[p].pc = "restore"
  /\ IF status[rec.prev] = "SUPERSEDED"
     THEN Go(p, "restore_write", loc[p].id, rec, loc[p].then)
     ELSE Continue(p, loc[p].then, rec)
  /\ CallFrame /\ UNCHANGED <<confVars, rollout, faults>>

RestoreWrite(p) ==
  /\ loc[p].pc = "restore_write"
  /\ GoLive(loc[p].rec.prev) \/ GoLiveFails(loc[p].rec.prev)
  /\ Continue(p, loc[p].then, loc[p].rec)
  /\ CallFrame /\ UNCHANGED <<admin, rollout, faults>>

(***************************************************************************)
(* The ticker thread.                                                      *)
(***************************************************************************)
\* tickOnce reads the clock, onTick lists the live rollouts.
TickBegin ==
  /\ MayStart(Ticker)
  /\ todo = {}
  /\ todo' = {r \in Rollouts : rollout[r].status \in {"PROGRESSING", "PAUSED"}}
  /\ todo' # {}
  /\ snap' = [r \in Rollouts |-> IF r \in todo' THEN rollout[r] ELSE NoRec]
  /\ tickNow' = now
  /\ UNCHANGED <<confVars, rollout, loc, now, faults>>

Evaluated(r) ==
  /\ todo' = todo \ {r}
  /\ snap' = [snap EXCEPT ![r] = NoRec]
  /\ UNCHANGED <<confVars, rollout, tickNow, now, faults>>

\* reconcileActivatedRollout works on the listed copy; the stage is evaluated
\* when there is nothing to reconcile.
Reconcile(r) ==
  /\ MayStart(Ticker) /\ r \in todo
  /\ snap[r].status = "PROGRESSING"
  /\ IF GetActive = snap[r].target
     THEN Go(Ticker, "write", r, [snap[r] EXCEPT !.status = "COMPLETED"], "idle")
     ELSE Go(Ticker, "stage", r, snap[r], "idle")
  /\ Evaluated(r)

\* evaluateStage: PROGRESSING and out of the cooldown; whether the stage has
\* been observed long enough and breaches a threshold is the metrics' say.
MayAutoPause(rec) ==
  /\ rec.status = "PROGRESSING"
  /\ rec.pausedAt > 0 => tickNow - rec.pausedAt >= Cooldown

EvaluateStage(p) ==
  LET r == loc[p].id IN
  /\ loc[p].pc = "stage"
  /\ \/ /\ MayAutoPause(rollout[r])
        /\ Continue(p, "write",
              [rollout[r] EXCEPT !.status = "PAUSED", !.pausedAt = tickNow])
     \/ Done(p)
  /\ CallFrame /\ UNCHANGED <<confVars, rollout, faults>>

GraceOver(rec) == rec.status = "PAUSED" /\ tickNow - rec.pausedAt >= Grace

\* evaluateAutoRollback: restore first, persist the status after it.  Nothing
\* happens within the grace period, nor when the kill switch is on or the spec
\* has opted out, which is left open.
EvaluateAutoRollback(r) ==
  /\ MayStart(Ticker) /\ r \in todo
  /\ snap[r].status = "PAUSED"
  /\ \/ /\ GraceOver(rollout[r])
        /\ LET rec == [rollout[r] EXCEPT !.status = "FAILED", !.reason = "AUTO_ROLLBACK"]
           IN  IF rec.prev # NoVersion
               THEN Go(Ticker, "restore", r, rec, "write")
               ELSE Go(Ticker, "write", r, rec, "idle")
     \/ UNCHANGED loc
  /\ Evaluated(r)

(***************************************************************************)
(* The rest of the control plane, and time.                                *)
(***************************************************************************)
\* Other operators' approve, reject, activate and rollback: the call reads the
\* version and consults the status machine (a rollback to the live version ends
\* there) ...
AdminRead(v, action, to) ==
  /\ ConfigAdmin
  /\ CanMove(status[v], action, to) /\ status[v] # "ACTIVE"
  /\ admin' = admin \cup {<<v, to>>}
  /\ UNCHANGED <<storeVars, wentLive, rollout, loc, ticking, now, faults>>

\* ... and writes later.  A review overwrites whatever the status is by then.
\* Another call that has read the same may still be under way.
AdminWrite(v, to) ==
  /\ <<v, to>> \in admin
  /\ admin' \in {admin, admin \ {<<v, to>>}}
  /\ IF to = "ACTIVE"
     THEN GoLive(v) \/ GoLiveFails(v)
     ELSE UpdateStatus(v, to) /\ UNCHANGED wentLive
  /\ UNCHANGED <<rollout, loc, ticking, now, faults>>

AdminCall(v) ==
  \/ AdminRead(v, "APPROVE", "APPROVED") \/ AdminRead(v, "REJECT", "REJECTED")
  \/ AdminRead(v, "ACTIVATE", "ACTIVE") \/ AdminRead(v, "ROLLBACK_TO", "ACTIVE")
  \/ \E to \in {"APPROVED", "REJECTED", "ACTIVE"} : AdminWrite(v, to)

Advance ==
  /\ now < MaxTime
  /\ now' = now + 1
  /\ UNCHANGED <<confVars, rollout, loc, ticking, faults>>

Call(p, r) ==
  \/ \E v \in Versions : Create(p, r, v)
  \/ Start(p, r) \/ Promote(p, r) \/ Pause(p, r) \/ Resume(p, r) \/ Abort(p, r)

Step(p) ==
  \/ Insert(p) \/ Capture(p) \/ Write(p) \/ ActivateRead(p) \/ ActivateWrite(p)
  \/ RestoreRead(p) \/ RestoreWrite(p) \/ EvaluateStage(p)

Evaluate(r) == Reconcile(r) \/ EvaluateAutoRollback(r)

Next ==
  \/ \E p \in Operators, r \in Rollouts : Call(p, r)
  \/ \E p \in Procs : Step(p)
  \/ TickBegin
  \/ \E r \in Rollouts : Evaluate(r)
  \/ \E v \in Versions : AdminCall(v)
  \/ Advance

Spec == Init /\ [][Next]_vars

\* The ticker thread keeps running, a call that has begun goes on, and time
\* passes; operators are free to do nothing.
Fairness ==
  /\ \A p \in Procs : WF_vars(Step(p))
  /\ WF_vars(TickBegin)
  /\ \A r \in Rollouts : WF_vars(Evaluate(r))
  /\ WF_vars(Advance)

FairSpec == Spec /\ Fairness

(***************************************************************************)
(* Properties.                                                             *)
(***************************************************************************)

\* At most one PENDING, PROGRESSING or PAUSED rollout per target version,
\* although every update writes back a copy that may be stale.
OneActivePerTarget ==
  \A r, q \in Rollouts :
    /\ rollout[r].status \in ActiveStatuses
    /\ rollout[q].status \in ActiveStatuses
    /\ rollout[r].target = rollout[q].target
    => r = q

\* A rollout is COMPLETED only if its target did go live, however promote,
\* reconcile, other operators' activations and late reviews interleave.  (It need
\* not be live or superseded still: a reject that read the version before it went
\* live may be written after that.)
CompletedWasActivated ==
  \A r \in Rollouts : rollout[r].status = "COMPLETED" => rollout[r].target \in wentLive

\* attemptRolloutTransition, "terminal - reject everything": a rollout that has
\* ended stays as it ended.
TerminalIsFinal ==
  [][\A r \in Rollouts : rollout[r].status \in {"COMPLETED", "FAILED", "ABORTED"} =>
       rollout'[r].status = rollout[r].status]_vars

\* Between calls, the table and the config agree on how a rollout ended,
\* even if updates of the rollout failed on the way: COMPLETED means the
\* target is live, ABORTED or automatically rolled back means the version
\* that was live before is live again.
TerminalAgreement ==
  (todo = {} /\ \A p \in Procs : loc[p] = Idle) =>
    \A r \in Rollouts :
      LET rec == rollout[r] IN
      /\ rec.status = "COMPLETED" => GetActive = rec.target
      /\ /\ rec.status = "ABORTED" \/ rec.reason = "AUTO_ROLLBACK"
         /\ rec.prev # NoVersion
         => GetActive = rec.prev
=============================================================================

--------------------------- MODULE RolloutProofs ---------------------------
(***************************************************************************)
(* Rollouts, and the consoles that follow the audit log, for any number of *)
(* rollouts, versions, operators, faults, threads and consoles.            *)
(***************************************************************************)
EXTENDS Rollout, AdminStream, TLAPS

(***************************************************************************)
(* Rollouts: at most one is active per target, and COMPLETED rollouts did  *)
(* go live.  Neither needs the calls to be serial.                         *)
(***************************************************************************)
\* A version that is or was live.  Its status does not tell: a reject that read
\* it earlier may overwrite it.
Activated(v) == v \in wentLive

\* A record, wherever a copy of it is: in the table, in a thread's hands, or
\* in the ticker's list.
Good(rec) ==
  /\ rec \in Rec
  /\ rec.status # "NONE" => rec.target \in Versions
  /\ rec.status = "COMPLETED" => Activated(rec.target)

GoodLoc(l) ==
  /\ l \in Loc
  /\ Good(l.rec)
  /\ l.pc # "idle" => l.id \in Rollouts
  /\ l.pc \in {"activate", "activate_write"} => l.rec.status = "PROGRESSING"
  /\ l.pc \in {"restore", "restore_write"} \/ l.then = "restore" =>
       l.rec.prev \in Versions

ConfInv ==
  /\ StoreTypeOK
  /\ admin \subseteq Versions \X {"APPROVED", "REJECTED", "ACTIVE"}
  /\ wentLive \subseteq Versions
  /\ \A v \in ActiveRows : Activated(v)
  /\ MemoryBackend /\ activeId \in Versions => Activated(activeId)
RowsInv == rollout \in [Rollouts -> Rec] /\ \A r \in Rollouts : Good(rollout[r])
LocInv == loc \in [Procs -> Loc] /\ \A p \in Procs : GoodLoc(loc[p])
TickInv ==
  /\ todo \subseteq Rollouts
  /\ snap \in [Rollouts -> Rec] /\ \A r \in Rollouts : Good(snap[r])
  /\ tickNow \in 0 .. MaxTime
TimeInv == now \in 1 .. MaxTime /\ faults \in 0 .. MaxFaults

IInv == ConfInv /\ RowsInv /\ LocInv /\ TickInv /\ TimeInv /\ OneActivePerTarget

\* Activated versions stay activated in this step.
Monotone == \A v \in Versions : Activated(v) => Activated(v)'

(***************************************************************************)
(* Facts about records and the config table.                               *)
(***************************************************************************)
LEMMA NoRecGood == Good(NoRec) /\ NoRec \in Rec
BY RolloutAssumption DEF Good, NoRec, Rec

LEMMA IdleGood == GoodLoc(Idle)
BY NoRecGood DEF GoodLoc, Idle, Loc, NoRec

LEMMA GetActiveGood ==
  ASSUME ConfInv
  PROVE  /\ GetActive \in Versions \cup {NoVersion}
         /\ GetActive \in Versions => Activated(GetActive)
<1>1. CASE MemoryBackend
  BY <1>1 DEF ConfInv, StoreTypeOK, GetActive
<1>2. CASE ~MemoryBackend /\ ActiveRows = {}
  BY <1>2, StoreAssumption DEF GetActive
<1>3. CASE ~MemoryBackend /\ ActiveRows # {}
  <2>1. GetActive \in ActiveRows
    BY <1>3 DEF GetActive
  <2> QED BY <2>1, Zenon DEF ActiveRows, ConfInv
<1> QED BY <1>1, <1>2, <1>3

LEMMA GoLiveGood ==
  ASSUME ConfInv, NEW v \in Versions, GoLive(v), admin' \subseteq admin
  PROVE  ConfInv' /\ Monotone /\ Activated(v)'
<1> USE DEF GoLive, Activated
<1>1. StoreTypeOK' /\ (activeId' = v \/ activeId' = activeId)
  BY DEF ConfInv, StoreTypeOK, ActivateConfig, ConfigStatuses, storeVars
<1>2. Activated(v)' /\ Monotone /\ (wentLive \subseteq Versions)'
  BY Zenon DEF Monotone, ConfInv
<1>3. \A w \in ActiveRows' : w = v \/ w \in ActiveRows
  BY DEF ConfInv, StoreTypeOK, ActivateConfig, ActiveRows, storeVars
<1> QED BY <1>1, <1>2, <1>3, Zenon DEF ConfInv, Monotone, ActiveRows

LEMMA SameConfig ==
  ASSUME ConfInv, UNCHANGED confVars
  PROVE  ConfInv' /\ Monotone /\ \A rec : Good(rec) <=> Good(rec)'
BY DEF ConfInv, StoreTypeOK, Monotone, Activated, ActiveRows, confVars, storeVars, Good

LEMMA GoLiveFailsGood ==
  ASSUME ConfInv, NEW v, GoLiveFails(v), admin' \subseteq admin
  PROVE  ConfInv' /\ Monotone
BY DEF ConfInv, StoreTypeOK, Monotone, Activated, ActiveRows, GoLiveFails, storeVars

LEMMA MonotoneGood ==
  ASSUME Monotone
  PROVE  /\ \A rec : Good(rec) => Good(rec)'
         /\ \A l : GoodLoc(l) => GoodLoc(l)'
BY DEF Monotone, Good, GoodLoc

(***************************************************************************)
(* The parts of the invariant a step leaves alone, or changes in one place.*)
(***************************************************************************)
LEMMA RowsKept ==
  ASSUME RowsInv, Monotone, UNCHANGED rollout
  PROVE  RowsInv'
BY MonotoneGood DEF RowsInv

LEMMA RowPut ==
  ASSUME RowsInv, OneActivePerTarget, UNCHANGED confVars, ConfInv,
         NEW r \in Rollouts, NEW rec, Good(rec), Accepts(r, rec),
         rollout' = [rollout EXCEPT ![r] = rec]
  PROVE  RowsInv' /\ OneActivePerTarget'
<1>1. RowsInv'
  BY SameConfig DEF RowsInv, Good
<1>2. OneActivePerTarget'
  BY DEF RowsInv, OneActivePerTarget, Accepts, Conflict
<1> QED BY <1>1, <1>2

LEMMA TickKept ==
  ASSUME TickInv, Monotone, UNCHANGED ticking
  PROVE  TickInv'
BY MonotoneGood DEF TickInv, ticking

LEMMA LocKept ==
  ASSUME LocInv, Monotone, UNCHANGED loc
  PROVE  LocInv'
BY MonotoneGood DEF LocInv

LEMMA LocPut ==
  ASSUME LocInv, Monotone, NEW p \in Procs, NEW l, GoodLoc(l)',
         loc' = [loc EXCEPT ![p] = l]
  PROVE  LocInv'
BY MonotoneGood DEF LocInv, GoodLoc

\* A call that moves on without touching any table.
LEMMA Thinks ==
  ASSUME IInv, NEW p \in Procs, NEW l, GoodLoc(l), loc' = [loc EXCEPT ![p] = l],
         UNCHANGED <<confVars, rollout, faults, ticking, now>>
  PROVE  IInv'
<1>1. Monotone /\ ConfInv' /\ GoodLoc(l)'
  BY SameConfig, MonotoneGood DEF IInv
<1>2. LocInv'
  BY <1>1, LocPut, Zenon DEF IInv
<1>3. RowsInv' /\ TickInv'
  BY <1>1, RowsKept, TickKept DEF IInv
<1>4. TimeInv' /\ OneActivePerTarget'
  BY DEF IInv, TimeInv, OneActivePerTarget
<1> QED BY <1>1, <1>2, <1>3, <1>4 DEF IInv

LEMMA LoadIInv ==
  ASSUME IInv, NEW p \in Procs, NEW r \in Rollouts, NEW action, NEW pc, NEW rec, NEW then,
         Load(p, r, action, pc, rec, then),
         GoodLoc([pc |-> pc, id |-> r, rec |-> rec, then |-> then])
  PROVE  IInv'
BY Thinks, Zenon DEF Load, Go, CallFrame

\* What a refused transition and a transition out of a status tell.
LEMMA MoveFrom ==
  ASSUME NEW from, NEW isLast \in BOOLEAN
  PROVE  /\ Move(from, "Start", isLast) # "NONE" => from = "PENDING"
         /\ Move(from, "Promote", isLast) # "NONE" => from = "PROGRESSING"
         /\ Move(from, "PauseManual", isLast) # "NONE" => from = "PROGRESSING"
         /\ Move(from, "Resume", isLast) # "NONE" => from = "PAUSED"
         /\ Move(from, "Abort", isLast) # "NONE" => from \in ActiveStatuses
BY DEF Move, ActiveStatuses

LEMMA CallIInv ==
  ASSUME IInv, NEW p \in Operators, NEW r \in Rollouts, Call(p, r)
  PROVE  IInv'
<1> DEFINE rr == rollout[r]
<1>0. Good(rr) /\ rr \in Rec /\ now \in 0 .. MaxTime /\ p \in Procs /\ IsLast(rr) \in BOOLEAN
  BY RolloutAssumption DEF IInv, RowsInv, TimeInv, Procs, IsLast
<1> USE <1>0 DEF GoodLoc, Loc, Good, Rec, RolloutStatuses
<1>1. ASSUME NEW v \in Versions, Create(p, r, v)
      PROVE  IInv'
  <2> DEFINE rec == [NoRec EXCEPT !.status = "PENDING", !.target = v]
             l == [pc |-> "insert", id |-> r, rec |-> rec, then |-> "idle"]
  <2>1. GoodLoc(l)
    BY NoRecGood, Zenon DEF NoRec
  <2>2. loc' = [loc EXCEPT ![p] = l]
    BY <1>1 DEF Create, Go
  <2> QED BY <1>1, <2>1, <2>2, Thinks, ZenonT(30) DEF Create, CallFrame
<1>2. CASE Start(p, r)
  <2> DEFINE rec == [rr EXCEPT !.status = "PROGRESSING"]
  <2>1. rr.status = "PENDING"
    BY <1>2, MoveFrom DEF Start, Load
  <2>2. GoodLoc([pc |-> "capture", id |-> r, rec |-> rec, then |-> "idle"])
    BY <2>1
  <2> QED BY <1>2, <2>2, LoadIInv DEF Start
<1>3. CASE Promote(p, r)
  <2> DEFINE rec == [rr EXCEPT !.idx = @ + 1]
  <2>1. CASE IsLast(rr)
    <3>1. Load(p, r, "Promote", "activate", rr, "idle")
      BY <1>3, <2>1 DEF Promote
    <3>2. rr.status = "PROGRESSING"
      BY <3>1, MoveFrom, Zenon DEF Load
    <3>3. GoodLoc([pc |-> "activate", id |-> r, rec |-> rr, then |-> "idle"])
      BY <3>2
    <3> QED BY <3>1, <3>3, LoadIInv
  <2>2. CASE ~IsLast(rr)
    <3>1. Load(p, r, "Promote", "write", rec, "idle")
      BY <1>3, <2>2 DEF Promote
    <3>2. rr.status = "PROGRESSING"
      BY <3>1, MoveFrom DEF Load
    <3>3. rec \in Rec
      BY <2>2, RolloutAssumption DEF IsLast
    <3>4. GoodLoc([pc |-> "write", id |-> r, rec |-> rec, then |-> "idle"])
      BY <3>2, <3>3
    <3> QED BY <3>1, <3>4, LoadIInv
  <2> QED BY <2>1, <2>2
<1>4. CASE Pause(p, r)
  <2> DEFINE rec == [rr EXCEPT !.status = "PAUSED", !.pausedAt = now]
  <2>1. rr.status = "PROGRESSING"
    BY <1>4, MoveFrom DEF Pause, Load
  <2>2. GoodLoc([pc |-> "write", id |-> r, rec |-> rec, then |-> "idle"])
    BY <2>1, Zenon
  <2> QED BY <1>4, <2>2, LoadIInv, Zenon DEF Pause
<1>5. CASE Resume(p, r)
  <2> DEFINE rec == [rr EXCEPT !.status = "PROGRESSING", !.reason = "UNSPECIFIED"]
  <2>1. rr.status = "PAUSED"
    BY <1>5, MoveFrom DEF Resume, Load
  <2>2. GoodLoc([pc |-> "write", id |-> r, rec |-> rec, then |-> "idle"])
    BY <2>1, Zenon
  <2> QED BY <1>5, <2>2, LoadIInv, Zenon DEF Resume
<1>6. CASE Abort(p, r)
  <2> DEFINE rec == [rr EXCEPT !.status = "ABORTED"]
             then == IF rr.status # "PENDING" /\ rr.prev # NoVersion
                     THEN "restore" ELSE "idle"
  <2>1. rr.status \in ActiveStatuses
    BY <1>6, MoveFrom DEF Abort, Load
  <2>2. then \in {"restore", "idle"} /\ (then = "restore" => rr.prev \in Versions)
    OBVIOUS
  <2> HIDE DEF then
  <2>3. GoodLoc([pc |-> "write", id |-> r, rec |-> rec, then |-> then])
    BY <2>1, <2>2 DEF ActiveStatuses
  <2>4. Load(p, r, "Abort", "write", rec, then)
    BY <1>6 DEF Abort, then
  <2> QED BY <2>3, <2>4, LoadIInv
<1> QED BY <1>1, <1>2, <1>3, <1>4, <1>5, <1>6 DEF Call

\* Continue, to a place that suits the record.
LEMMA ContinueGood ==
  ASSUME NEW p \in Procs, NEW pc, NEW rec, NEW r, r = loc[p].id, Continue(p, pc, rec),
         pc # "idle" =>
           GoodLoc([pc |-> pc, id |-> r, rec |-> rec, then |-> "idle"])'
  PROVE  \E l : GoodLoc(l)' /\ loc' = [loc EXCEPT ![p] = l]
<1>1. CASE pc = "idle"
  <2>1. GoodLoc(Idle)'
    BY NoRecGood DEF GoodLoc, Idle, Loc, NoRec, Good
  <2> QED BY <1>1, <2>1, Zenon DEF Continue, Done
<1>2. CASE pc # "idle"
  BY <1>2 DEF Continue, Go
<1> QED BY <1>1, <1>2

LEMMA StepIInv ==
  ASSUME IInv, NEW p \in Procs, Step(p)
  PROVE  IInv'
<1>a. PICK rec, r, then : rec = loc[p].rec /\ r = loc[p].id /\ then = loc[p].then
  BY Zenon
<1>0. GoodLoc(loc[p])
  BY DEF IInv, LocInv
<1> USE <1>a
<1>1. CASE Insert(p)
  <2>1. Good(rec) /\ r \in Rollouts
    BY <1>0, <1>1, Zenon DEF Insert, GoodLoc
  <2>2. UNCHANGED confVars /\ UNCHANGED ticking /\ UNCHANGED <<now, faults>>
    BY <1>1 DEF Insert, CallFrame
  <2>3. ConfInv' /\ Monotone
    BY <2>2, SameConfig DEF IInv
  <2>4. RowsInv' /\ OneActivePerTarget'
    <3>1. CASE Accepts(r, rec)
      BY <1>1, <2>1, <2>2, <3>1, RowPut, Zenon DEF Insert, IInv
    <3>2. CASE ~Accepts(r, rec)
      <4>1. UNCHANGED rollout
        BY <1>1, <3>2 DEF Insert
      <4> QED BY <2>3, <4>1, RowsKept DEF IInv, OneActivePerTarget
    <3> QED BY <3>1, <3>2
  <2>5. LocInv'
    <3>1. loc' = [loc EXCEPT ![p] = Idle] /\ GoodLoc(Idle)'
      BY <1>1, <2>3, IdleGood, MonotoneGood DEF Insert, Done
    <3> QED BY <2>3, <3>1, LocPut, Zenon DEF IInv
  <2>6. TickInv' /\ TimeInv'
    BY <2>2, <2>3, TickKept DEF IInv, TimeInv
  <2> QED BY <2>3, <2>4, <2>5, <2>6, Zenon DEF IInv
<1>2. CASE Capture(p)
  <2> DEFINE rec2 == [rec EXCEPT !.prev = GetActive]
             l == [pc |-> "write", id |-> r, rec |-> rec2, then |-> "idle"]
  <2>1. GetActive \in Versions \cup {NoVersion}
    BY GetActiveGood DEF IInv
  <2>2. GoodLoc(l)
    BY <1>0, <1>2, <2>1 DEF Capture, GoodLoc, Loc, Good, Rec
  <2>3. loc' = [loc EXCEPT ![p] = l]
    BY <1>2 DEF Capture, Go
  <2> QED BY <1>2, <2>2, <2>3, Thinks, Zenon DEF Capture, CallFrame
<1>3. CASE Write(p)
  <2>1. Good(rec) /\ r \in Rollouts
    BY <1>0, <1>3, Zenon DEF Write, GoodLoc
  <2>2. UNCHANGED confVars /\ UNCHANGED ticking /\ UNCHANGED now
    BY <1>3 DEF Write, CallFrame
  <2>3. ConfInv' /\ Monotone
    BY <2>2, SameConfig, Zenon DEF IInv
  <2>4. faults' \in 0 .. MaxFaults
    BY <1>3, RolloutAssumption DEF Write, IInv, TimeInv
  <2>5. TickInv' /\ TimeInv'
    BY <2>2, <2>3, <2>4, TickKept DEF IInv, TimeInv
  <2>6. CASE /\ Accepts(r, rec)
             /\ rollout' = [rollout EXCEPT ![r] = rec]
             /\ Continue(p, then, rec)
    <3>1. RowsInv' /\ OneActivePerTarget'
      BY <2>1, <2>2, <2>6, RowPut, Zenon DEF IInv
    <3>2. then # "idle" =>
            GoodLoc([pc |-> then, id |-> r, rec |-> rec, then |-> "idle"])
      BY <1>0, <1>3, ZenonT(30) DEF GoodLoc, Loc, Write
    <3>3. \E l : GoodLoc(l)' /\ loc' = [loc EXCEPT ![p] = l]
      BY <2>3, <2>6, <3>2, MonotoneGood, ContinueGood, Zenon
    <3>4. LocInv'
      BY <2>3, <3>3, LocPut, Zenon DEF IInv
    <3> QED BY <2>3, <2>5, <3>1, <3>4 DEF IInv
  <2>7. CASE Done(p) /\ UNCHANGED rollout
    <3>1. RowsInv' /\ OneActivePerTarget'
      BY <2>3, <2>7, RowsKept DEF IInv, OneActivePerTarget
    <3>2. loc' = [loc EXCEPT ![p] = Idle] /\ GoodLoc(Idle)'
      BY <2>3, <2>7, IdleGood, MonotoneGood DEF Done
    <3>3. LocInv'
      BY <2>3, <3>2, LocPut, Zenon DEF IInv
    <3> QED BY <2>3, <2>5, <3>1, <3>3 DEF IInv
  <2>8. CASE Continue(p, "stage", rec) /\ UNCHANGED rollout
    <3>1. RowsInv' /\ OneActivePerTarget'
      BY <2>3, <2>8, RowsKept, Zenon DEF IInv, OneActivePerTarget
    <3>2. GoodLoc([pc |-> "stage", id |-> r, rec |-> rec, then |-> "idle"])
      BY <2>1 DEF GoodLoc, Loc, Good
    <3>3. \E l : GoodLoc(l)' /\ loc' = [loc EXCEPT ![p] = l]
      BY <2>3, <2>8, <3>2, MonotoneGood, ContinueGood
    <3>4. LocInv'
      BY <2>3, <3>3, LocPut, Zenon DEF IInv
    <3> QED BY <2>3, <2>5, <3>1, <3>4 DEF IInv
  <2> QED BY <1>3, <2>6, <2>7, <2>8, Zenon DEF Write
<1>4. CASE ActivateRead(p)
  <2> DEFINE failed == [rec EXCEPT !.status = "FAILED"]
  <2>1. GoodLoc([pc |-> "activate_write", id |-> r, rec |-> rec, then |-> "idle"])
    BY <1>0, <1>4, Zenon DEF ActivateRead, GoodLoc, Loc
  <2>2. GoodLoc([pc |-> "write", id |-> r, rec |-> failed, then |-> "idle"])
    BY <1>0, <1>4 DEF ActivateRead, GoodLoc, Loc, Good, Rec, RolloutStatuses
  <2>3. PICK l : GoodLoc(l) /\ loc' = [loc EXCEPT ![p] = l]
    BY <1>4, <2>1, <2>2 DEF ActivateRead, Continue, Go
  <2> QED BY <1>4, <2>3, Thinks, Zenon DEF ActivateRead, CallFrame
<1>5. CASE ActivateWrite(p)
  <2> DEFINE failed == [rec EXCEPT !.status = "FAILED"]
             completed == [rec EXCEPT !.status = "COMPLETED"]
  <2>1. rec.target \in Versions /\ rec \in Rec /\ r \in Rollouts
    BY <1>0, <1>5 DEF ActivateWrite, GoodLoc, Good
  <2>2. /\ ConfInv' /\ Monotone
        /\ \E l : GoodLoc(l)' /\ loc' = [loc EXCEPT ![p] = l]
    <3>0. admin' \subseteq admin
      BY <1>5, Zenon DEF ActivateWrite
    <3>1. CASE GoLive(rec.target) /\ Continue(p, "write", completed)
      <4>1. ConfInv' /\ Monotone /\ Activated(rec.target)'
        BY <2>1, <3>0, <3>1, GoLiveGood, Zenon DEF IInv
      <4>2. GoodLoc([pc |-> "write", id |-> r, rec |-> completed, then |-> "idle"])'
        BY <2>1, <4>1 DEF GoodLoc, Loc, Good, Rec, RolloutStatuses
      <4> QED BY <3>1, <4>1, <4>2, ContinueGood
    <3>2. CASE GoLiveFails(rec.target) /\ Continue(p, "write", failed)
      <4>1. ConfInv' /\ Monotone
        BY <3>0, <3>2, GoLiveFailsGood, Zenon DEF IInv
      <4>2. GoodLoc([pc |-> "write", id |-> r, rec |-> failed, then |-> "idle"])'
        BY <2>1 DEF GoodLoc, Loc, Good, Rec, RolloutStatuses
      <4> QED BY <3>2, <4>1, <4>2, ContinueGood
    <3> QED BY <1>5, <3>1, <3>2 DEF ActivateWrite
  <2>3. LocInv'
    BY <2>2, LocPut, Zenon DEF IInv
  <2>4. RowsInv' /\ TickInv' /\ TimeInv' /\ OneActivePerTarget'
    BY <1>5, <2>2, RowsKept, TickKept
    DEF ActivateWrite, CallFrame, IInv, TimeInv, OneActivePerTarget
  <2> QED BY <2>2, <2>3, <2>4 DEF IInv
<1>6. CASE RestoreRead(p)
  <2>1. GoodLoc([pc |-> "restore_write", id |-> r, rec |-> rec, then |-> then])
    BY <1>0, <1>6, Zenon DEF RestoreRead, GoodLoc, Loc
  <2>2. then # "idle" =>
          GoodLoc([pc |-> then, id |-> r, rec |-> rec, then |-> "idle"])
    BY <1>0, <1>6, Zenon DEF RestoreRead, GoodLoc, Loc
  <2>3. PICK l : GoodLoc(l) /\ loc' = [loc EXCEPT ![p] = l]
    BY <1>6, <2>1, <2>2, IdleGood DEF RestoreRead, Continue, Go, Done
  <2> QED BY <1>6, <2>3, Thinks, Zenon DEF RestoreRead, CallFrame
<1>7. CASE RestoreWrite(p)
  <2>1. rec.prev \in Versions
    BY <1>0, <1>7, Zenon DEF RestoreWrite, GoodLoc
  <2>2. ConfInv' /\ Monotone
    <3>1. admin' \subseteq admin
      BY <1>7, Zenon DEF RestoreWrite
    <3> QED BY <1>7, <2>1, <3>1, GoLiveGood, GoLiveFailsGood, Zenon DEF RestoreWrite, IInv
  <2>3. then # "idle" =>
          GoodLoc([pc |-> then, id |-> r, rec |-> rec, then |-> "idle"])
    BY <1>0, <1>7, Zenon DEF RestoreWrite, GoodLoc, Loc
  <2>4. \E l : GoodLoc(l)' /\ loc' = [loc EXCEPT ![p] = l]
    BY <1>7, <2>2, <2>3, MonotoneGood, ContinueGood, Zenon DEF RestoreWrite
  <2>5. LocInv'
    BY <2>2, <2>4, LocPut, Zenon DEF IInv
  <2>6. RowsInv' /\ TickInv' /\ TimeInv' /\ OneActivePerTarget'
    BY <1>7, <2>2, RowsKept, TickKept, Zenon
    DEF RestoreWrite, CallFrame, IInv, TimeInv, OneActivePerTarget
  <2> QED BY <2>2, <2>5, <2>6, Zenon DEF IInv
<1>8. CASE EvaluateStage(p)
  <2> DEFINE paused == [rollout[r] EXCEPT !.status = "PAUSED", !.pausedAt = tickNow]
  <2>1. r \in Rollouts /\ Good(rollout[r]) /\ tickNow \in 0 .. MaxTime
    BY <1>0, <1>8 DEF EvaluateStage, GoodLoc, IInv, RowsInv, TickInv
  <2>2. MayAutoPause(rollout[r]) =>
          GoodLoc([pc |-> "write", id |-> r, rec |-> paused, then |-> "idle"])
    BY <2>1, Zenon DEF GoodLoc, Loc, Good, Rec, RolloutStatuses, MayAutoPause
  <2>3. PICK l : GoodLoc(l) /\ loc' = [loc EXCEPT ![p] = l]
    BY <1>8, <2>2, IdleGood, Zenon DEF EvaluateStage, Continue, Go, Done
  <2> QED BY <1>8, <2>3, Thinks, Zenon DEF EvaluateStage, CallFrame
<1> QED BY <1>1, <1>2, <1>3, <1>4, <1>5, <1>6, <1>7, <1>8 DEF Step

LEMMA TickBeginIInv ==
  ASSUME IInv, TickBegin
  PROVE  IInv'
<1> USE DEF IInv, TickBegin
<1>1. ConfInv' /\ Monotone
  BY SameConfig, Zenon
<1>2. RowsInv' /\ LocInv' /\ TimeInv' /\ OneActivePerTarget'
  BY <1>1, RowsKept, LocKept DEF TimeInv, OneActivePerTarget
<1>3. \A r \in Rollouts : Good(rollout[r]) /\ Good(NoRec) /\ rollout[r] \in Rec
  BY NoRecGood, Zenon DEF RowsInv
<1>4. \A r \in Rollouts : snap'[r] \in Rec /\ Good(snap'[r])
  BY <1>3, NoRecGood, Zenon
<1>5. \A r \in Rollouts : Good(snap[r])'
  BY <1>1, <1>4, SameConfig, Zenon DEF Good
<1>6. TickInv'
  BY <1>4, <1>5 DEF TickInv, TimeInv
<1> QED BY <1>1, <1>2, <1>6, Zenon

\* An evaluation leaves the ticker's list and may hand the thread a record.
LEMMA EvaluatedIInv ==
  ASSUME IInv, NEW r \in Rollouts, Evaluated(r),
         \/ UNCHANGED loc
         \/ \E l : GoodLoc(l) /\ loc' = [loc EXCEPT ![Ticker] = l]
  PROVE  IInv'
<1> USE DEF IInv, Evaluated
<1>1. ConfInv' /\ Monotone
  BY SameConfig, Zenon
<1>2. RowsInv' /\ TimeInv' /\ OneActivePerTarget'
  BY <1>1, RowsKept DEF TimeInv, OneActivePerTarget
<1>3. LocInv'
  <2>1. CASE UNCHANGED loc
    BY <1>1, <2>1, LocKept
  <2>2. ASSUME NEW l, GoodLoc(l), loc' = [loc EXCEPT ![Ticker] = l]
        PROVE  LocInv'
    BY <1>1, <2>2, MonotoneGood, LocPut, Zenon DEF Procs
  <2> QED BY <2>1, <2>2
<1>4. \A q \in Rollouts : Good(snap[q]) /\ snap[q] \in Rec
  BY DEF TickInv
<1>5. \A q \in Rollouts : Good(snap'[q]) /\ snap'[q] \in Rec
  BY <1>4, NoRecGood, Zenon DEF TickInv
<1>6. \A q \in Rollouts : Good(snap[q])'
  BY <1>1, <1>5, SameConfig DEF Good
<1>7. TickInv'
  BY <1>5, <1>6, RolloutAssumption DEF TickInv
<1> QED BY <1>1, <1>2, <1>3, <1>7

LEMMA EvaluateIInv ==
  ASSUME IInv, NEW r \in Rollouts, Evaluate(r)
  PROVE  IInv'
<1>0. /\ Good(rollout[r]) /\ Good(snap[r]) /\ tickNow \in 0 .. MaxTime
      /\ rollout[r] \in Rec /\ snap[r] \in Rec
  BY DEF IInv, RowsInv, TickInv
<1>1. CASE Reconcile(r)
  <2> DEFINE rec == [snap[r] EXCEPT !.status = "COMPLETED"]
             l == [pc |-> "write", id |-> r, rec |-> rec, then |-> "idle"]
  <2>1. CASE GetActive = snap[r].target
    <3>1. snap[r].target \in Versions
      BY <1>0, <1>1 DEF Reconcile, Good
    <3>2. Activated(snap[r].target)
      BY <2>1, <3>1, GetActiveGood DEF IInv
    <3>3. Good(rec)
      BY <1>0, <3>1, <3>2 DEF Good, Rec, RolloutStatuses
    <3>4. GoodLoc(l)
      BY <3>3, Zenon DEF GoodLoc, Loc, Good
    <3> QED BY <1>1, <2>1, <3>4, EvaluatedIInv DEF Reconcile, Go
  <2>2. CASE GetActive # snap[r].target
    <3>1. GoodLoc([pc |-> "stage", id |-> r, rec |-> snap[r], then |-> "idle"])
      BY <1>0 DEF GoodLoc, Loc
    <3> QED BY <1>1, <2>2, <3>1, EvaluatedIInv, Zenon DEF Reconcile, Go
  <2> QED BY <2>1, <2>2
<1>2. CASE EvaluateAutoRollback(r)
  <2> DEFINE rec == [rollout[r] EXCEPT !.status = "FAILED", !.reason = "AUTO_ROLLBACK"]
  <2>1. CASE GraceOver(rollout[r])
    <3>1. Good(rec) /\ rec.prev = rollout[r].prev
      BY <1>0, <2>1, Zenon DEF Good, Rec, RolloutStatuses, GraceOver
    <3>2. GoodLoc([pc |-> "write", id |-> r, rec |-> rec, then |-> "idle"])
      BY <3>1, Zenon DEF GoodLoc, Loc, Good
    <3>3. rec.prev # NoVersion =>
            GoodLoc([pc |-> "restore", id |-> r, rec |-> rec, then |-> "write"])
      BY <1>0, <3>1, Zenon DEF GoodLoc, Loc, Good, Rec
    <3>4. UNCHANGED loc \/ \E l : GoodLoc(l) /\ loc' = [loc EXCEPT ![Ticker] = l]
      BY <1>2, <3>2, <3>3 DEF EvaluateAutoRollback, Go
    <3> QED BY <1>2, <3>4, EvaluatedIInv, Zenon DEF EvaluateAutoRollback
  <2>2. CASE ~GraceOver(rollout[r])
    BY <1>2, <2>2, EvaluatedIInv, Zenon DEF EvaluateAutoRollback
  <2> QED BY <2>1, <2>2
<1> QED BY <1>1, <1>2 DEF Evaluate

\* A review writes no ACTIVE.
LEMMA ReviewGood ==
  ASSUME ConfInv, NEW v \in Versions, NEW to \in {"APPROVED", "REJECTED"},
         UpdateStatus(v, to), UNCHANGED wentLive, admin' \subseteq admin
  PROVE  ConfInv' /\ Monotone
<1>1. StoreTypeOK'
  BY DEF ConfInv, StoreTypeOK, ConfigStatuses, UpdateStatus
<1>2. \A w \in ActiveRows' : w \in ActiveRows
  BY DEF ConfInv, StoreTypeOK, UpdateStatus, ActiveRows
<1> QED BY <1>1, <1>2, Zenon DEF ConfInv, Monotone, Activated, UpdateStatus, ActiveRows

LEMMA AdminIInv ==
  ASSUME IInv, NEW v \in Versions, AdminCall(v)
  PROVE  IInv'
<1>0. ConfInv
  BY DEF IInv
<1>1. ASSUME NEW action, NEW to \in {"APPROVED", "REJECTED", "ACTIVE"}, AdminRead(v, action, to)
      PROVE  ConfInv' /\ Monotone /\ UNCHANGED <<rollout, loc, ticking, now, faults>>
  <2>1. UNCHANGED <<rollout, loc, ticking, now, faults>>
    BY <1>1, Zenon DEF AdminRead
  <2>2. (admin \subseteq Versions \X {"APPROVED", "REJECTED", "ACTIVE"})'
    BY <1>0, <1>1 DEF AdminRead, ConfInv
  <2>3. UNCHANGED <<status, activeId, wentLive>>
    BY <1>1, Zenon DEF AdminRead, storeVars
  <2> QED BY <1>0, <2>1, <2>2, <2>3 DEF ConfInv, StoreTypeOK, Monotone, Activated, ActiveRows
<1>2. ASSUME NEW to \in {"APPROVED", "REJECTED", "ACTIVE"}, AdminWrite(v, to)
      PROVE  ConfInv' /\ Monotone /\ UNCHANGED <<rollout, loc, ticking, now, faults>>
  <2>1. UNCHANGED <<rollout, loc, ticking, now, faults>> /\ admin' \subseteq admin
    BY <1>2, Zenon DEF AdminWrite
  <2>2. CASE to = "ACTIVE"
    BY <1>0, <1>2, <2>1, <2>2, GoLiveGood, GoLiveFailsGood, Zenon DEF AdminWrite
  <2>3. CASE to # "ACTIVE"
    BY <1>0, <1>2, <2>1, <2>3, ReviewGood, Zenon DEF AdminWrite
  <2> QED BY <2>2, <2>3
<1>3. ConfInv' /\ Monotone /\ UNCHANGED <<rollout, loc, ticking, now, faults>>
  BY <1>1, <1>2, Zenon DEF AdminCall
<1> QED
  BY <1>3, RowsKept, LocKept, TickKept DEF IInv, TimeInv, OneActivePerTarget

LEMMA InitIInv == Init => IInv
<1> SUFFICES ASSUME Init PROVE IInv
  OBVIOUS
<1> USE DEF Init
<1>1. ConfInv
  <2>1. StoreTypeOK
    BY DEF StoreTypeOK, ConfigStatuses, ActiveRows
  <2>2. MemoryBackend /\ activeId \in Versions => Activated(activeId)
    <3>1. CASE MemoryBackend /\ ActiveRows # {}
      BY <3>1 DEF ActiveRows, Activated
    <3>2. CASE ~(MemoryBackend /\ ActiveRows # {})
      BY <3>2, StoreAssumption, Zenon
    <3> QED BY <3>1, <3>2
  <2>3. (\A v \in ActiveRows : Activated(v)) /\ wentLive \subseteq Versions
    BY Zenon DEF ActiveRows, Activated
  <2> QED BY <2>1, <2>2, <2>3, Zenon DEF ConfInv
<1>2. RowsInv /\ LocInv /\ TickInv
  BY NoRecGood, IdleGood, RolloutAssumption DEF RowsInv, LocInv, TickInv, GoodLoc
<1>3. TimeInv /\ OneActivePerTarget
  BY RolloutAssumption DEF TimeInv, OneActivePerTarget, NoRec, ActiveStatuses
<1> QED BY <1>1, <1>2, <1>3 DEF IInv

LEMMA NextIInv == IInv /\ [Next]_vars => IInv'
<1> SUFFICES ASSUME IInv, [Next]_vars PROVE IInv'
  OBVIOUS
<1>1. CASE Advance
  <2>1. ConfInv' /\ Monotone
    BY <1>1, SameConfig DEF Advance, IInv
  <2>2. TimeInv'
    BY <1>1, RolloutAssumption DEF Advance, IInv, TimeInv
  <2> QED
    BY <1>1, <2>1, <2>2, RowsKept, LocKept, TickKept DEF Advance, IInv, OneActivePerTarget
<1>2. CASE UNCHANGED vars
  <2>1. ConfInv' /\ Monotone
    BY <1>2, SameConfig DEF vars, confVars, storeVars, IInv
  <2> QED
    BY <1>2, <2>1, RowsKept, LocKept, TickKept
    DEF vars, ticking, IInv, TimeInv, OneActivePerTarget
<1> QED
  BY <1>1, <1>2, CallIInv, StepIInv, TickBeginIInv, EvaluateIInv, AdminIInv DEF Next

LEMMA SpecIInv == Spec => []IInv
BY InitIInv, NextIInv, PTL DEF Spec

\* Every reachable state is well typed.
THEOREM TypeCorrect == Spec => []TypeOK
<1>1. IInv => TypeOK
  BY DEF IInv, ConfInv, RowsInv, LocInv, TickInv, TimeInv, TypeOK
<1> QED BY <1>1, SpecIInv, PTL

\* The store never holds two active rollouts for one target, under any
\* interleaving of operator calls and ticks.
THEOREM OneActive == Spec => []OneActivePerTarget
BY SpecIInv, PTL DEF IInv

\* A COMPLETED rollout's target did go live, whichever of promote and
\* reconcile completed it and whatever other operators' reviews, activations and
\* rollbacks did to the version meanwhile.
THEOREM CompletedActivated == Spec => []CompletedWasActivated
<1>1. IInv => CompletedWasActivated
  BY DEF IInv, RowsInv, Good, Activated, CompletedWasActivated
<1> QED BY <1>1, SpecIInv, PTL

(***************************************************************************)
(* The admin stream.  Until a close handler has found nobody connected,    *)
(* the subscription of the controller is there once the first handler has  *)
(* returned, so every log() that begins then has it in its snapshot.       *)
(***************************************************************************)
ConsolePlaces == {"away", "refused", "inserted", "open", "starting", "subscribed", "erased",
                  "stopping", "unsubscribing", "gone"}

LogFields == {"n", "entry", "left", "due"}

StreamTypes ==
  /\ console \in [Consoles -> ConsolePlaces]
  /\ connections \subseteq Consoles
  /\ DOMAIN heardBy = Consoles
  /\ DOMAIN logCall = LogThreads
  /\ \A g \in LogThreads : DOMAIN logCall[g] = LogFields
  /\ logs \in Nat

Subscribed ==
  /\ ~foundNone /\ (ready \/ \E c \in Consoles : console[c] = "subscribed") =>
       "ws" \in subscribers
  /\ \A c \in Consoles : console[c] \in {"stopping", "unsubscribing"} => foundNone

\* The callback of the controller is still to come, or the consoles that are
\* due have the entry of g.
DueServed(g) ==
  /\ \A c \in logCall[g].due :
       /\ c \in Consoles /\ console[c] # "away"
       /\ shouldDeliverAuditToConnection(c, logCall[g].entry.tenant)
  /\ \/ "ws" \in logCall[g].left
     \/ \A c \in logCall[g].due \cap connections :
          Message("audit", logCall[g].entry.tenant, logCall[g].n) \in heardBy[c]

StreamInv == StreamTypes /\ Subscribed /\ \A g \in LogThreads : DueServed(g)

\* A handler of the console c: nobody who was away is let in again.
LEMMA HandlerOK ==
  ASSUME StreamInv, NEW c \in Consoles, NEW at \in ConsolePlaces \ {"away"},
         console' = [console EXCEPT ![c] = at], UNCHANGED <<logCall, heardBy, logs>>,
         connections' \subseteq Consoles,
         \/ connections' \subseteq connections
         \/ console[c] = "away" /\ connections' = connections \cup {c},
         Subscribed'
  PROVE  StreamInv'
  <1>1. StreamTypes'
    BY DEF StreamInv, StreamTypes
  <1>2. \A d \in Consoles : console'[d] = IF d = c THEN at ELSE console[d]
    BY Zenon DEF StreamInv, StreamTypes
  <1>3. ASSUME NEW g \in LogThreads PROVE DueServed(g)'
    <2>1. DueServed(g)
      BY <1>3, Zenon DEF StreamInv
    <2>2. \A d \in logCall[g].due : d \in connections' => d \in connections
      BY <2>1, Zenon DEF DueServed
    <2>3. \A d \in logCall[g].due : console'[d] # "away"
      BY <1>2, <2>1, Zenon DEF DueServed
    <2> QED BY <2>1, <2>2, <2>3 DEF DueServed, shouldDeliverAuditToConnection
  <1> QED BY <1>1, <1>3, Zenon DEF StreamInv

LEMMA HandlersOK ==
  ASSUME StreamInv, NEW c \in Consoles,
         \/ Connect(c) \/ Exchange(c) \/ startAuditSubscription(c) \/ StoreSubId(c)
         \/ Close(c) \/ CountLeft(c) \/ stopAuditSubscription(c) \/ Unsubscribe(c)
  PROVE  StreamInv'
  <1>0. StreamTypes /\ Subscribed
    BY DEF StreamInv
  <1>1. CASE Connect(c)
    <2>1. PICK at \in {"refused", "inserted"} :
            /\ console' = [console EXCEPT ![c] = at] /\ console[c] = "away"
            /\ connections' = connections \/ connections' = connections \cup {c}
            /\ UNCHANGED <<subscribers, logCall, heardBy, logs, ready, foundNone>>
      BY <1>1, Zenon DEF Connect
    <2>2. Subscribed'
      BY <1>0, <2>1 DEF Subscribed, StreamTypes
    <2> QED BY <1>0, <2>1, <2>2, HandlerOK, Zenon DEF StreamTypes, ConsolePlaces
  <1>2. CASE Exchange(c) \/ Close(c)
    <2>1. PICK at \in {"open", "starting", "erased"} :
            /\ console' = [console EXCEPT ![c] = at]
            /\ connections' \subseteq connections
            /\ UNCHANGED <<subscribers, logCall, heardBy, logs, ready, foundNone>>
      BY <1>2, Zenon DEF Exchange, Close
    <2>2. Subscribed'
      BY <1>0, <2>1 DEF Subscribed, StreamTypes
    <2> QED BY <1>0, <2>1, <2>2, HandlerOK, Zenon DEF StreamTypes, ConsolePlaces
  <1>3. CASE startAuditSubscription(c) \/ StoreSubId(c)
    <2>1. PICK at \in {"subscribed", "open"} :
            /\ console' = [console EXCEPT ![c] = at]
            /\ UNCHANGED <<connections, logCall, heardBy, logs, foundNone>>
            /\ ~foundNone => "ws" \in subscribers'
      BY <1>0, <1>3, Zenon DEF startAuditSubscription, StoreSubId, hubVars, Subscribed
    <2>2. Subscribed'
      BY <1>0, <2>1 DEF Subscribed, StreamTypes
    <2> QED BY <1>0, <2>1, <2>2, HandlerOK, Zenon DEF StreamTypes, ConsolePlaces
  <1>4. CASE CountLeft(c)
    <2>1. PICK at \in {"stopping", "gone"} :
            /\ console' = [console EXCEPT ![c] = at]
            /\ UNCHANGED <<connections, subscribers, logCall, heardBy, logs, ready>>
            /\ foundNone => foundNone'
            /\ at = "stopping" => foundNone'
      BY <1>4, Zenon DEF CountLeft
    <2>2. Subscribed'
      BY <1>0, <2>1 DEF Subscribed, StreamTypes
    <2> QED BY <1>0, <2>1, <2>2, HandlerOK, Zenon DEF StreamTypes, ConsolePlaces
  <1>5. CASE stopAuditSubscription(c) \/ Unsubscribe(c)
    <2>1. PICK at \in {"unsubscribing", "gone"} :
            /\ console' = [console EXCEPT ![c] = at] /\ foundNone
            /\ UNCHANGED <<connections, logCall, heardBy, logs, ready, foundNone>>
      BY <1>0, <1>5, Zenon DEF stopAuditSubscription, Unsubscribe, hubVars, Subscribed
    <2>2. Subscribed'
      BY <1>0, <2>1, Zenon DEF Subscribed, StreamTypes
    <2> QED BY <1>0, <2>1, <2>2, HandlerOK, Zenon DEF StreamTypes, ConsolePlaces
  <1> QED BY <1>1, <1>2, <1>3, <1>4, <1>5

LEMMA NoLogOwesNothing == NoLog.due = {}
BY DEF NoLog

\* A step that moves no console and lets everybody hear at least what they had.
LEMMA LogStepOK ==
  ASSUME StreamInv, UNCHANGED <<console, connections, ready, foundNone>>,
         "ws" \in subscribers => "ws" \in subscribers',
         StreamTypes', \A g \in LogThreads : DueServed(g)'
  PROVE  StreamInv'
BY DEF StreamInv, Subscribed

LEMMA LogsOK ==
  ASSUME StreamInv, NEW g \in LogThreads,
         \/ \E e \in Entries : Snapshot(g, e)
         \/ DeliverToConsoles(g)
         \/ \E s \in Streams : DeliverToStream(g, s)
         \/ LogReturns(g)
  PROVE  StreamInv'
  <1>0. /\ StreamTypes /\ Subscribed /\ DOMAIN logCall[g] = LogFields
        /\ \A h \in LogThreads : DueServed(h)
    BY Zenon DEF StreamInv, StreamTypes
  <1>1. CASE \E e \in Entries : Snapshot(g, e)
    <2>1. PICK e \in Entries : Snapshot(g, e)
      BY <1>1, Zenon
    <2> DEFINE due == {c \in connections : /\ ready /\ ~foundNone /\ console[c] = "open"
                                           /\ shouldDeliverAuditToConnection(c, e.tenant)}
               r == [n |-> logs + 1, entry |-> e, left |-> subscribers, due |-> due]
    <2>2. /\ logCall' = [logCall EXCEPT ![g] = r] /\ logs' = logs + 1
          /\ UNCHANGED <<console, connections, ready, foundNone, subscribers, heardBy>>
      BY <2>1 DEF Snapshot, hubVars
    <2>3. due # {} => "ws" \in subscribers
      BY <1>0, SMTT(30) DEF Subscribed
    <2>4. StreamTypes'
      <3>1. DOMAIN r = LogFields
        BY Zenon DEF LogFields
      <3>2. logs' \in Nat
        BY <1>0, <2>2 DEF StreamTypes
      <3>3. /\ DOMAIN logCall' = LogThreads
            /\ \A h \in LogThreads : logCall'[h] = IF h = g THEN r ELSE logCall[h]
        BY <1>0, <2>2, Zenon DEF StreamTypes
      <3> QED BY <1>0, <2>2, <3>1, <3>2, <3>3, Zenon DEF StreamTypes
    <2>5. /\ r.due = due /\ r.left = subscribers /\ r.entry = e
          /\ \A c \in due : /\ c \in Consoles /\ console[c] # "away"
                            /\ shouldDeliverAuditToConnection(c, e.tenant)
      BY <1>0 DEF StreamTypes
    <2> HIDE DEF due, r
    <2>6. ASSUME NEW h \in LogThreads PROVE DueServed(h)'
      <3>1. CASE h = g
        <4>1. logCall'[h] = r
          BY <1>0, <2>2, <3>1, SMTT(30) DEF StreamTypes
        <4> QED BY <2>2, <2>3, <2>5, <4>1, Zenon DEF DueServed, shouldDeliverAuditToConnection
      <3>2. CASE h # g
        <4>1. logCall'[h] = logCall[h]
          BY <1>0, <2>2, <3>2, Zenon DEF StreamTypes
        <4> QED BY <1>0, <2>2, <4>1, Zenon DEF DueServed, shouldDeliverAuditToConnection
      <3> QED BY <3>1, <3>2
    <2> QED BY <2>2, <2>4, <2>6, LogStepOK
  <1>2. CASE DeliverToConsoles(g)
    <2> DEFINE e == logCall[g].entry
               m == Message("audit", e.tenant, logCall[g].n)
               r == [logCall[g] EXCEPT !.left = @ \ {"ws"}]
    <2>1. /\ logCall' = [logCall EXCEPT ![g] = r]
          /\ UNCHANGED <<console, connections, ready, foundNone, subscribers, logs>>
      BY <1>0, <1>2 DEF DeliverToConsoles, hubVars, StreamTypes
    <2>2. heardBy' = [c \in Consoles |->
            IF c \in connections /\ shouldDeliverAuditToConnection(c, e.tenant)
            THEN heardBy[c] \cup {m} ELSE heardBy[c]]
      BY <1>2, SMTT(30) DEF DeliverToConsoles
    <2>3. \A c \in Consoles :
            /\ heardBy[c] \subseteq heardBy'[c]
            /\ c \in connections /\ shouldDeliverAuditToConnection(c, e.tenant) => m \in heardBy'[c]
      BY <2>2, Zenon
    <2>4. /\ DOMAIN r = LogFields /\ r.due = logCall[g].due /\ r.entry = e
          /\ r.n = logCall[g].n
      BY <1>0 DEF LogFields
    <2>5. StreamTypes'
      BY <1>0, <2>1, <2>2, <2>4 DEF StreamTypes
    <2> HIDE DEF r
    <2>6. ASSUME NEW h \in LogThreads PROVE DueServed(h)'
      <3>1. DueServed(h)
        BY <1>0, SMTT(30)
      <3>2. CASE h = g
        <4>1. logCall'[h] = r
          BY <1>0, <2>1, <3>2, SMTT(30) DEF StreamTypes
        <4>2. \A c \in r.due : /\ c \in Consoles /\ console'[c] # "away"
                               /\ shouldDeliverAuditToConnection(c, e.tenant)
          BY <2>1, <2>4, <3>1, <3>2, Zenon DEF DueServed
        <4>3. \A c \in r.due \cap connections' : m \in heardBy'[c]
          BY <2>1, <2>3, <4>2, ZenonT(30)
        <4> QED BY <2>4, <4>1, <4>2, <4>3, Zenon DEF DueServed, shouldDeliverAuditToConnection
      <3>3. CASE h # g
        <4>1. logCall'[h] = logCall[h]
          BY <1>0, <2>1, <3>3, Zenon DEF StreamTypes
        <4> QED BY <2>1, <2>3, <3>1, <4>1, Zenon DEF DueServed, shouldDeliverAuditToConnection
      <3> QED BY <3>2, <3>3
    <2> QED BY <2>1, <2>5, <2>6, LogStepOK
  <1>3. CASE \E s \in Streams : DeliverToStream(g, s)
    <2>1. PICK s \in Streams : DeliverToStream(g, s)
      BY <1>3
    <2> DEFINE r == [logCall[g] EXCEPT !.left = @ \ {s}]
    <2>2. /\ logCall' = [logCall EXCEPT ![g] = r]
          /\ UNCHANGED <<console, connections, ready, foundNone, logs, heardBy>>
          /\ subscribers' = subscribers \/ subscribers' = subscribers \ {s}
      BY <1>0, <2>1 DEF DeliverToStream, hubVars, StreamTypes
    <2>3. /\ DOMAIN r = LogFields /\ r.due = logCall[g].due /\ r.entry = logCall[g].entry
          /\ r.n = logCall[g].n /\ r.left = logCall[g].left \ {s}
      BY <1>0 DEF LogFields
    <2>4. s # "ws"
      BY StreamAssumption
    <2>5. StreamTypes'
      BY <1>0, <2>2, <2>3 DEF StreamTypes
    <2> HIDE DEF r
    <2>6. ASSUME NEW h \in LogThreads PROVE DueServed(h)'
      <3>1. DueServed(h)
        BY <1>0, SMTT(30)
      <3>2. CASE h = g
        <4>1. logCall'[h] = r
          BY <1>0, <2>2, <3>2, SMTT(30) DEF StreamTypes
        <4> QED BY <2>2, <2>3, <2>4, <3>1, <3>2, <4>1, Zenon
               DEF DueServed, shouldDeliverAuditToConnection
      <3>3. CASE h # g
        <4>1. logCall'[h] = logCall[h]
          BY <1>0, <2>2, <3>3, Zenon DEF StreamTypes
        <4> QED BY <2>2, <3>1, <4>1, Zenon DEF DueServed, shouldDeliverAuditToConnection
      <3> QED BY <3>2, <3>3
    <2> QED BY <2>2, <2>4, <2>5, <2>6, LogStepOK, Zenon
  <1>4. CASE LogReturns(g)
    <2>1. /\ logCall' = [logCall EXCEPT ![g] = NoLog]
          /\ UNCHANGED <<console, connections, ready, foundNone, subscribers, logs, heardBy>>
      BY <1>4, ZenonT(30) DEF LogReturns, hubVars
    <2>2. StreamTypes'
      BY <1>0, <2>1, ZenonT(30) DEF StreamTypes, NoLog, LogFields
    <2>3. ASSUME NEW h \in LogThreads PROVE DueServed(h)'
      <3>1. CASE h = g
        <4>1. logCall'[h] = NoLog
          BY <1>0, <2>1, <3>1 DEF StreamTypes
        <4>2. logCall'[h].due = {}
          BY <4>1, NoLogOwesNothing, Zenon
        <4> QED BY <4>2, Zenon DEF DueServed
      <3>2. CASE h # g
        <4>1. logCall'[h] = logCall[h]
          BY <1>0, <2>1, <3>2, Zenon DEF StreamTypes
        <4> QED BY <1>0, <2>1, <4>1, Zenon DEF DueServed, shouldDeliverAuditToConnection
      <3> QED BY <3>1, <3>2
    <2> QED BY <2>1, <2>2, <2>3, LogStepOK, SMTT(30)
  <1> QED BY <1>1, <1>2, <1>3, <1>4

LEMMA StreamNextInv == StreamInv /\ [StreamNext]_streamVars => StreamInv'
  <1> SUFFICES ASSUME StreamInv, [StreamNext]_streamVars PROVE StreamInv'
    OBVIOUS
  <1>0. StreamTypes /\ \A g \in LogThreads : DueServed(g)
    BY DEF StreamInv
  <1>1. CASE (\E s \in Streams : OpenStream(s) \/ StoreStreamId(s) \/ StreamBreaks(s))
             \/ PushMetrics \/ PushCaseStudy \/ UNCHANGED streamVars
    <2>1. /\ UNCHANGED <<console, connections, ready, foundNone, logCall, logs>>
          /\ "ws" \in subscribers => "ws" \in subscribers'
      BY <1>1, Zenon DEF OpenStream, StoreStreamId, StreamBreaks, PushMetrics, PushCaseStudy, hubVars,
                  streamVars
    <2>2. DOMAIN heardBy' = Consoles /\ \A c \in Consoles : heardBy[c] \subseteq heardBy'[c]
      <3>1. CASE UNCHANGED heardBy
        BY <1>0, <3>1, ZenonT(30) DEF StreamTypes
      <3>2. CASE PushMetrics
        BY <3>2, Zenon DEF PushMetrics
      <3>3. CASE PushCaseStudy
        BY <3>3, Zenon DEF PushCaseStudy
      <3> QED BY <1>1, <3>1, <3>2, <3>3, Zenon DEF OpenStream, StoreStreamId, StreamBreaks, streamVars
    <2>3. StreamTypes'
      BY <1>0, <2>1, <2>2, ZenonT(30) DEF StreamTypes
    <2>4. ASSUME NEW g \in LogThreads PROVE DueServed(g)'
      <3>1. DueServed(g)
        BY <1>0
      <3> QED BY <2>1, <2>2, <3>1, Zenon DEF DueServed, shouldDeliverAuditToConnection
    <2> QED BY <2>1, <2>3, <2>4, LogStepOK
  <1> QED BY <1>1, HandlersOK, LogsOK DEF StreamNext

\* As long as no close handler has found the last console gone, AuditLogger's
\* callback reaches every console that stays connected throughout log(),
\* whatever other consoles and streams come and go.
THEOREM ConsolesHear == StreamSpec => []HeardWhileConnected
  <1>1. StreamInit => StreamInv
    <2> SUFFICES ASSUME StreamInit PROVE StreamInv
      OBVIOUS
    <2>1. StreamTypes
      BY Zenon DEF StreamInit, StreamTypes, ConsolePlaces, NoLog, LogFields
    <2>2. Subscribed
      BY Zenon DEF StreamInit, Subscribed
    <2>3. ASSUME NEW g \in LogThreads PROVE DueServed(g)
      BY Zenon DEF StreamInit, DueServed, NoLog
    <2> QED BY <2>1, <2>2, <2>3, SMTT(30) DEF StreamInv
  <1>2. StreamInv => HeardWhileConnected
    BY Zenon DEF StreamInv, DueServed, HeardWhileConnected
  <1> QED BY <1>1, <1>2, StreamNextInv, PTL DEF StreamSpec
=============================================================================

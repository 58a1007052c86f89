------------------------ MODULE ConfigServiceProofs ------------------------
(***************************************************************************)
(* The config service and the ticker beside it, for any number of          *)
(* versions, operators, contents and threads.                              *)
(***************************************************************************)
EXTENDS ConfigService, RolloutTicker, TLAPS

(***************************************************************************)
(* The config service, with either backend: the type invariant,            *)
(* AtMostOneActive and DualApproval, and the published lifecycle when      *)
(* calls do not overlap.                                                   *)
(***************************************************************************)
\* In memory the pointer names the only row that can be ACTIVE, and that row
\* has been reviewed, so demoting it unseen is harmless.
PointerInv ==
  MemoryBackend =>
    /\ \A v \in Versions : status[v] = "ACTIVE" => activeId = v
    /\ activeId \in Versions => status[activeId] \notin {"ABSENT", "PENDING"}

\* What a thread read is still good for its write: the row exists, and its
\* submitter is not the reviewer.
CallInv ==
  \A t \in Threads :
    /\ call[t].op = "submit" => call[t].u \in Users /\ call[t].c \in Contents
    /\ call[t].op \in {"approve", "reject"} =>
         /\ call[t].v \in Versions
         /\ call[t].u \in Users
         /\ submitter[call[t].v] # call[t].u
         /\ status[call[t].v] # "ABSENT"
    /\ call[t].op \in {"activate", "rollback"} => call[t].v \in Versions

Reviewed(v) == status[v] \notin {"ABSENT", "PENDING"}

ReviewInv ==
  /\ \A v \in Versions : status[v] # "ABSENT" => submitter[v] # NoUser
  /\ \A v \in Versions : Reviewed(v) => reviewer[v] # NoUser
  /\ \A v \in Versions :
       Reviewed(v) /\ reviewer[v] = submitter[v] => submitter[v] = BootstrapActor

\* The bootstrap runs before the server, on an empty table, hence once.
BootInv ==
  /\ boot # "serving" => \A t \in Threads : call[t] = Idle
  /\ boot = "empty" => \A v \in Versions : status[v] = "ABSENT"
  /\ boot \in {"submitted", "approved"} => bootV \in Versions
  /\ \A v, w \in Versions :
       /\ status[v] # "ABSENT" /\ submitter[v] = BootstrapActor
       /\ status[w] # "ABSENT" /\ submitter[w] = BootstrapActor
       => v = w
  /\ boot \in {"submitted", "approved"} =>
       status[bootV] # "ABSENT" /\ submitter[bootV] = BootstrapActor

IInv ==
  /\ TypeOK
  /\ AtMostOneActive
  /\ PointerInv
  /\ CallInv
  /\ ReviewInv
  /\ BootInv

\* Where a thread without a call is, and what a review may move.
LEMMA IdleOp == Idle.op = "idle"
BY Zenon DEF Idle

LEMMA ReviewMoves ==
  ASSUME NEW s, NEW op, CanMove(s, Verb[op], Verdict[op])
  PROVE  /\ op = "approve" => s = "PENDING"
         /\ op = "reject" => s \in {"PENDING", "APPROVED"}
BY DEF CanMove, Transitions, Verb, Verdict

LEMMA InitIInv == Init => IInv
BY StoreAssumption, ServiceAssumption
DEF Init, StoreInit, IInv, TypeOK, StoreTypeOK, ConfigStatuses, Call, Idle, Actors,
    AtMostOneActive, ActiveRows, PointerInv, CallInv, ReviewInv, Reviewed, BootInv

LEMMA BeginIInv ==
  ASSUME IInv, NEW t \in Threads, NEW c \in Call, Begin(t, c),
         c.op = "submit" => c.u \in Users /\ c.c \in Contents,
         c.op \in {"approve", "reject"} =>
           /\ c.v \in Versions /\ c.u \in Users
           /\ submitter[c.v] # c.u /\ status[c.v] # "ABSENT",
         c.op \in {"activate", "rollback"} => c.v \in Versions
  PROVE  IInv'
<1> USE DEF IInv, Begin, storeVars, svcVars
<1>1. TypeOK'
  BY DEF TypeOK, StoreTypeOK
<1>2. AtMostOneActive' /\ PointerInv' /\ ReviewInv'
  BY DEF AtMostOneActive, ActiveRows, PointerInv, ReviewInv, Reviewed
<1>3. CallInv'
  BY DEF CallInv, TypeOK
<1>4. BootInv'
  BY DEF BootInv
<1> QED BY <1>1, <1>2, <1>3, <1>4

\* A submit's insert, of a thread or of the bootstrap: the new row is
\* PENDING and nobody holds a call on it.
LEMMA WriteSubmissionIInv ==
  ASSUME IInv, NEW v \in Versions, NEW u \in Actors, NEW c \in Contents,
         WriteSubmission(v, u, c),
         u = BootstrapActor => \A w \in Versions : status[w] = "ABSENT"
  PROVE  /\ StoreTypeOK' /\ AtMostOneActive' /\ PointerInv' /\ ReviewInv'
         /\ content' \in [Versions -> Contents \cup {NoContent}]
         /\ submitter' \in [Versions -> Actors \cup {NoUser}]
         /\ reviewer' \in [Versions -> Actors \cup {NoUser}]
         /\ \A w \in Versions : status[w] # "ABSENT" =>
              status'[w] # "ABSENT" /\ submitter'[w] = submitter[w]
         /\ status'[v] # "ABSENT" /\ submitter'[v] = u
         /\ \A x, y \in Versions :
              /\ status'[x] # "ABSENT" /\ submitter'[x] = BootstrapActor
              /\ status'[y] # "ABSENT" /\ submitter'[y] = BootstrapActor
              => x = y
<1> USE DEF IInv, TypeOK, StoreTypeOK, WriteSubmission, InsertVersion
<1>1. StoreTypeOK' /\ content' \in [Versions -> Contents \cup {NoContent}]
      /\ submitter' \in [Versions -> Actors \cup {NoUser}]
      /\ reviewer' \in [Versions -> Actors \cup {NoUser}]
  BY DEF ConfigStatuses
<1>2. AtMostOneActive'
  BY DEF AtMostOneActive, ActiveRows
<1>3. PointerInv'
  BY DEF PointerInv
<1>4. ReviewInv'
  BY ServiceAssumption DEF ReviewInv, Reviewed, Actors
<1>5. \A w \in Versions : status[w] # "ABSENT" =>
        status'[w] # "ABSENT" /\ submitter'[w] = submitter[w]
  OBVIOUS
<1>6. status'[v] # "ABSENT" /\ submitter'[v] = u
  OBVIOUS
<1>7. \A x, y \in Versions :
        /\ status'[x] # "ABSENT" /\ submitter'[x] = BootstrapActor
        /\ status'[y] # "ABSENT" /\ submitter'[y] = BootstrapActor
        => x = y
  BY DEF BootInv
<1> QED BY <1>1, <1>2, <1>3, <1>4, <1>5, <1>6, <1>7

\* A review write, of a thread or of the bootstrap.
LEMMA WriteVerdictIInv ==
  ASSUME IInv, NEW v \in Versions, NEW new \in {"APPROVED", "REJECTED"}, NEW u \in Actors,
         WriteVerdict(v, new, u),
         u = submitter[v] => u = BootstrapActor
  PROVE  /\ StoreTypeOK' /\ AtMostOneActive' /\ PointerInv' /\ ReviewInv'
         /\ reviewer' \in [Versions -> Actors \cup {NoUser}]
         /\ \A w \in Versions : (status'[w] = "ABSENT") <=> (status[w] = "ABSENT")
<1> USE DEF IInv, TypeOK, StoreTypeOK, WriteVerdict, UpdateStatus
<1>1. StoreTypeOK' /\ reviewer' \in [Versions -> Actors \cup {NoUser}]
  BY DEF ConfigStatuses
<1>2. AtMostOneActive'
  BY DEF AtMostOneActive, ActiveRows
<1>3. PointerInv'
  BY DEF PointerInv
<1>4. ReviewInv'
  BY ServiceAssumption DEF ReviewInv, Reviewed, Actors
<1>5. \A w \in Versions : (status'[w] = "ABSENT") <=> (status[w] = "ABSENT")
  OBVIOUS
<1> QED BY <1>1, <1>2, <1>3, <1>4, <1>5

\* activateConfig, of a thread or of the bootstrap.
LEMMA ActivateConfigIInv ==
  ASSUME IInv, NEW v \in Versions, ActivateConfig(v), UNCHANGED svcVars
  PROVE  /\ StoreTypeOK' /\ AtMostOneActive' /\ PointerInv' /\ ReviewInv'
         /\ \A w \in Versions : (status'[w] = "ABSENT") <=> (status[w] = "ABSENT")
<1> USE DEF IInv, TypeOK, StoreTypeOK, ActivateConfig, Activatable, storeVars, svcVars
<1>1. CASE status[v] = "ACTIVE"
  BY <1>1 DEF AtMostOneActive, ActiveRows, PointerInv, ReviewInv, Reviewed
<1>2. CASE status[v] # "ACTIVE"
  <2>1. StoreTypeOK'
    BY <1>2 DEF ConfigStatuses
  <2>2. \A w \in Versions : status'[w] = "ACTIVE" => w = v
    <3>1. CASE MemoryBackend
      BY <1>2, <3>1, StoreAssumption DEF PointerInv, Demoted
    <3>2. CASE ~MemoryBackend
      BY <1>2, <3>2 DEF Demoted, ActiveRows
    <3> QED BY <3>1, <3>2
  <2>3. AtMostOneActive'
    BY <2>2 DEF AtMostOneActive, ActiveRows
  <2>4. PointerInv'
    BY <1>2, <2>2 DEF PointerInv
  <2>5. \A w \in Versions : Reviewed(w)' <=> Reviewed(w)
    <3>1. \A w \in Demoted(v) : w \in Versions /\ Reviewed(w)
      BY DEF Demoted, ActiveRows, Reviewed, PointerInv
    <3> QED BY <1>2, <3>1 DEF Reviewed
  <2>6. \A w \in Versions : (status'[w] = "ABSENT") <=> (status[w] = "ABSENT")
    <3>1. \A w \in Demoted(v) : status[w] # "ABSENT"
      BY DEF Demoted, ActiveRows, PointerInv
    <3> QED BY <1>2, <3>1
  <2>7. ReviewInv'
    BY <2>5, <2>6 DEF ReviewInv
  <2> QED BY <2>1, <2>3, <2>4, <2>6, <2>7
<1> QED BY <1>1, <1>2

LEMMA ServeIInv ==
  ASSUME IInv, NEW t \in Threads, Serve(t)
  PROVE  IInv'
<1> USE DEF IInv
<1>1. ASSUME NEW u \in Users, NEW c \in Contents, SubmitCheck(t, u, c)
      PROVE  IInv'
  <2> DEFINE k == [op |-> "submit", v |-> NoVersion, u |-> u, c |-> c]
  <2>1. k \in Call /\ Begin(t, k)
    BY <1>1 DEF Call, SubmitCheck
  <2> QED BY <2>1, BeginIInv
<1>2. ASSUME NEW v \in Versions, SubmitInsert(t, v)
      PROVE  IInv'
  <2>1. call[t].u \in Users /\ call[t].c \in Contents
    BY <1>2 DEF CallInv, SubmitInsert
  <2>2. call[t].u \in Actors /\ call[t].u # BootstrapActor
    BY <2>1, ServiceAssumption DEF Actors
  <2>3. WriteSubmission(v, call[t].u, call[t].c) /\ Return(t)
    BY <1>2 DEF SubmitInsert
  <2>4. /\ StoreTypeOK' /\ AtMostOneActive' /\ PointerInv' /\ ReviewInv'
        /\ content' \in [Versions -> Contents \cup {NoContent}]
        /\ submitter' \in [Versions -> Actors \cup {NoUser}]
        /\ reviewer' \in [Versions -> Actors \cup {NoUser}]
        /\ \A w \in Versions : status[w] # "ABSENT" =>
             status'[w] # "ABSENT" /\ submitter'[w] = submitter[w]
        /\ \A x, y \in Versions :
             /\ status'[x] # "ABSENT" /\ submitter'[x] = BootstrapActor
             /\ status'[y] # "ABSENT" /\ submitter'[y] = BootstrapActor
             => x = y
    BY <2>1, <2>2, <2>3, WriteSubmissionIInv, Zenon
  <2>5. TypeOK'
    BY <2>3, <2>4, Zenon DEF TypeOK, Return, Call, Idle
  <2>6. CallInv'
    BY <2>3, <2>4 DEF CallInv, Return, Idle, TypeOK
  <2>7. boot = "serving"
    BY <1>2 DEF BootInv, SubmitInsert, Idle
  <2>8. BootInv'
    BY <2>3, <2>4, <2>7 DEF BootInv, Return
  <2> QED BY <2>4, <2>5, <2>6, <2>8
<1>3. ASSUME NEW op \in DOMAIN Verdict, NEW v \in Versions, NEW u \in Users,
             ReviewCheck(t, op, v, u)
      PROVE  IInv'
  <2> DEFINE k == [op |-> op, v |-> v, u |-> u, c |-> NoContent]
  <2>1. op \in {"approve", "reject"}
    BY Zenon DEF Verdict
  <2>2. k \in Call /\ Begin(t, k)
    BY <1>3, <2>1, Zenon DEF Call, ReviewCheck
  <2>3. submitter[v] # u /\ status[v] # "ABSENT"
    BY <1>3, Zenon DEF ReviewCheck, CanMove, Transitions
  <2> QED BY <2>1, <2>2, <2>3, BeginIInv
<1>4. ASSUME ReviewWrite(t)
      PROVE  IInv'
  <2> DEFINE v == call[t].v
             u == call[t].u
             to == Verdict[call[t].op]
  <2>1. call[t].op \in {"approve", "reject"}
    BY <1>4 DEF ReviewWrite, Verdict
  <2>2. v \in Versions /\ u \in Actors /\ submitter[v] # u
    BY <2>1 DEF CallInv, Actors
  <2>3. to \in {"APPROVED", "REJECTED"}
    BY <2>1 DEF Verdict
  <2>4. WriteVerdict(v, to, u) /\ Return(t)
    BY <1>4 DEF ReviewWrite
  <2> HIDE DEF v, u, to
  <2>5. /\ StoreTypeOK' /\ AtMostOneActive' /\ PointerInv' /\ ReviewInv'
        /\ reviewer' \in [Versions -> Actors \cup {NoUser}]
        /\ \A w \in Versions : (status'[w] = "ABSENT") <=> (status[w] = "ABSENT")
    BY <2>2, <2>3, <2>4, WriteVerdictIInv, Zenon
  <2>6. TypeOK'
    BY <2>4, <2>5, Zenon DEF TypeOK, Return, WriteVerdict, Call, Idle
  <2>7. CallInv'
    BY <2>4, <2>5 DEF CallInv, Return, WriteVerdict, Idle, TypeOK
  <2>8. boot = "serving"
    BY <2>1 DEF BootInv, Idle
  <2>9. BootInv'
    BY <2>4, <2>5, <2>8, Zenon DEF BootInv, Return, WriteVerdict
  <2> QED BY <2>5, <2>6, <2>7, <2>9
<1>5. ASSUME NEW v \in Versions, NEW u \in Users, ActivateCheck(t, v, u)
      PROVE  IInv'
  <2> DEFINE k == [op |-> "activate", v |-> v, u |-> u, c |-> NoContent]
  <2>1. k \in Call /\ Begin(t, k)
    BY <1>5 DEF Call, ActivateCheck
  <2> QED BY <2>1, BeginIInv
<1>6. ASSUME NEW v \in Versions, NEW u \in Users, RollbackCheck(t, v, u)
      PROVE  IInv'
  <2> DEFINE k == [op |-> "rollback", v |-> v, u |-> u, c |-> NoContent]
  <2>1. k \in Call /\ Begin(t, k)
    BY <1>6 DEF Call, RollbackCheck
  <2> QED BY <2>1, BeginIInv
<1>7. ASSUME GoLiveWrite(t)
      PROVE  IInv'
  <2>1. call[t].v \in Versions /\ call[t] # Idle
    BY <1>7 DEF CallInv, GoLiveWrite, Idle
  <2>2. ActivateConfig(call[t].v) /\ Return(t) /\ UNCHANGED svcVars
    BY <1>7 DEF GoLiveWrite
  <2>3. /\ StoreTypeOK' /\ AtMostOneActive' /\ PointerInv' /\ ReviewInv'
        /\ \A w \in Versions : (status'[w] = "ABSENT") <=> (status[w] = "ABSENT")
    BY <2>1, <2>2, ActivateConfigIInv, Zenon
  <2>4. TypeOK'
    BY <2>2, <2>3, Zenon DEF TypeOK, Return, svcVars, Call, Idle
  <2>5. CallInv'
    BY <2>2, <2>3, Zenon DEF CallInv, Return, svcVars, Idle, TypeOK
  <2>6. BootInv'
    BY <2>1, <2>2, <2>3 DEF BootInv, Return, svcVars
  <2> QED BY <2>3, <2>4, <2>5, <2>6, Zenon
<1>8. ASSUME StoreCallFails(t)
      PROVE  IInv'
  <2> USE <1>8 DEF StoreCallFails, Return, storeVars, svcVars
  <2>1. TypeOK'
    BY Zenon DEF TypeOK, StoreTypeOK, Call, Idle
  <2>2. AtMostOneActive' /\ PointerInv' /\ ReviewInv'
    BY Zenon DEF AtMostOneActive, ActiveRows, PointerInv, ReviewInv, Reviewed
  <2>3. CallInv'
    BY DEF CallInv, Idle, TypeOK
  <2>4. BootInv'
    BY DEF BootInv
  <2> QED BY <2>1, <2>2, <2>3, <2>4
<1> QED
  BY <1>1, <1>2, <1>3, <1>4, <1>5, <1>6, <1>7, <1>8, Zenon DEF Serve

LEMMA BootIInv ==
  ASSUME IInv,
         \/ BootCheck \/ BootApprove \/ BootActivate \/ Crash
         \/ \E v \in Versions, c \in Contents : BootSubmit(v, c)
  PROVE  IInv'
<1> USE DEF IInv
<1>1. CASE BootCheck
  <2> USE <1>1 DEF BootCheck, storeVars, svcVars
  <2>1. TypeOK'
    BY Zenon DEF TypeOK, StoreTypeOK
  <2>2. AtMostOneActive' /\ PointerInv' /\ ReviewInv' /\ CallInv'
    BY DEF AtMostOneActive, ActiveRows, PointerInv, ReviewInv, Reviewed, CallInv
  <2>3. BootInv'
    BY DEF BootInv, HasAnyVersion
  <2> QED BY <2>1, <2>2, <2>3
<1>2. ASSUME NEW v \in Versions, NEW c \in Contents, BootSubmit(v, c)
      PROVE  IInv'
  <2>1. WriteSubmission(v, BootstrapActor, c) /\ BootstrapActor \in Actors
    BY <1>2, Zenon DEF BootSubmit, Actors
  <2>2. \A w \in Versions : status[w] = "ABSENT"
    BY <1>2, Zenon DEF BootSubmit, BootInv
  <2>3. /\ StoreTypeOK' /\ AtMostOneActive' /\ PointerInv' /\ ReviewInv'
        /\ content' \in [Versions -> Contents \cup {NoContent}]
        /\ submitter' \in [Versions -> Actors \cup {NoUser}]
        /\ reviewer' \in [Versions -> Actors \cup {NoUser}]
        /\ status'[v] # "ABSENT" /\ submitter'[v] = BootstrapActor
        /\ \A x, y \in Versions :
             /\ status'[x] # "ABSENT" /\ submitter'[x] = BootstrapActor
             /\ status'[y] # "ABSENT" /\ submitter'[y] = BootstrapActor
             => x = y
    BY <2>1, <2>2, WriteSubmissionIInv, Zenon
  <2>4. TypeOK'
    BY <1>2, <2>3, Zenon DEF TypeOK, BootSubmit
  <2>5. CallInv' /\ BootInv'
    BY <1>2, <2>3, Zenon DEF CallInv, BootInv, BootSubmit, Idle
  <2> QED BY <2>3, <2>4, <2>5
<1>3. CASE BootApprove
  <2>1. /\ bootV \in Versions /\ submitter[bootV] = BootstrapActor
        /\ BootstrapActor \in Actors
        /\ WriteVerdict(bootV, "APPROVED", BootstrapActor)
    BY <1>3 DEF BootApprove, BootInv, Actors
  <2>2. /\ StoreTypeOK' /\ AtMostOneActive' /\ PointerInv' /\ ReviewInv'
        /\ reviewer' \in [Versions -> Actors \cup {NoUser}]
        /\ \A w \in Versions : (status'[w] = "ABSENT") <=> (status[w] = "ABSENT")
    BY <2>1, WriteVerdictIInv, Zenon
  <2>3. TypeOK'
    BY <1>3, <2>2, Zenon DEF TypeOK, BootApprove, WriteVerdict
  <2>4. CallInv' /\ BootInv'
    BY <1>3, <2>2, Zenon DEF CallInv, BootInv, BootApprove, WriteVerdict
  <2> QED BY <2>2, <2>3, <2>4, Zenon
<1>4. CASE BootActivate
  <2>1. bootV \in Versions /\ ActivateConfig(bootV) /\ UNCHANGED svcVars
    BY <1>4 DEF BootActivate, BootInv
  <2>2. /\ StoreTypeOK' /\ AtMostOneActive' /\ PointerInv' /\ ReviewInv'
        /\ \A w \in Versions : (status'[w] = "ABSENT") <=> (status[w] = "ABSENT")
    BY <2>1, ActivateConfigIInv, Zenon
  <2>3. TypeOK'
    BY <1>4, <2>2, Zenon DEF TypeOK, BootActivate, svcVars
  <2>4. CallInv' /\ BootInv'
    BY <1>4, <2>2, Zenon DEF CallInv, BootInv, BootActivate, svcVars
  <2> QED BY <2>2, <2>3, <2>4
<1>5. CASE Crash
  <2> USE <1>5 DEF Crash, RestartStore, storeVars, svcVars
  <2>1. TypeOK'
    BY DEF TypeOK, StoreTypeOK, ConfigStatuses, Call, Idle
  <2>2. AtMostOneActive' /\ PointerInv' /\ ReviewInv'
    <3>1. CASE MemoryBackend
      <4>1. /\ \A v \in Versions : status'[v] = "ABSENT"
            /\ activeId' = NoVersion /\ NoVersion \notin Versions
        BY <3>1, StoreAssumption, Zenon
      <4> QED BY <4>1, Zenon DEF AtMostOneActive, ActiveRows, PointerInv, ReviewInv, Reviewed
    <3>2. CASE ~MemoryBackend
      BY <3>2, Zenon DEF AtMostOneActive, ActiveRows, PointerInv, ReviewInv, Reviewed
    <3> QED BY <3>1, <3>2
  <2>3. CallInv' /\ BootInv'
    BY Zenon DEF CallInv, BootInv, Idle
  <2> QED BY <2>1, <2>2, <2>3, Zenon
<1> QED
  BY <1>1, <1>2, <1>3, <1>4, <1>5

LEMMA NextIInv == IInv /\ [Next]_vars => IInv'
<1> SUFFICES ASSUME IInv, [Next]_vars PROVE IInv'
  BY Zenon
<1>1. CASE UNCHANGED vars
  BY <1>1
  DEF IInv, vars, TypeOK, StoreTypeOK, AtMostOneActive, ActiveRows, PointerInv,
      CallInv, ReviewInv, Reviewed, BootInv
<1> QED BY <1>1, ServeIInv, BootIInv DEF Next

LEMMA SpecIInv == Spec => []IInv
BY InitIInv, NextIInv, PTL DEF Spec

\* Every reachable state is well typed.
THEOREM TypeCorrect == Spec => []TypeOK
BY SpecIInv, PTL DEF IInv

\* activateConfig keeps at most one ACTIVE version under any interleaving of
\* any number of worker threads, restarts and failed store calls.
THEOREM OneActive == Spec => []AtMostOneActive
BY SpecIInv, PTL DEF IInv

\* No version gets past review on its submitter's word, except the one the
\* bootstrap seeded into an empty table.
THEOREM DualApprovalHolds == Spec => []DualApproval
<1>1. IInv => DualApproval
  BY DEF IInv, ReviewInv, Reviewed, BootInv, DualApproval, SelfReviewed
<1> QED BY <1>1, SpecIInv, PTL

(***************************************************************************)
(* Calls that do not overlap.                                              *)
(***************************************************************************)
\* What a review read is still so at its write, the bootstrap finds its row
\* as it left it, and in memory the pointed row is live.
SerialInv ==
  /\ serial \in BOOLEAN
  /\ boot = "submitted" => status[bootV] = "PENDING"
  /\ boot = "approved" => status[bootV] = "APPROVED"
  /\ serial =>
       /\ OneCallAtATime
       /\ \A t \in Threads :
            /\ call[t].op = "approve" => status[call[t].v] = "PENDING"
            /\ call[t].op = "reject" => status[call[t].v] \in {"PENDING", "APPROVED"}
       /\ MemoryBackend /\ activeId \in Versions => status[activeId] = "ACTIVE"

\* activateConfig then supersedes exactly the live version.
LEMMA ActivateGoesLive ==
  ASSUME IInv, SerialInv, serial, NEW v \in Versions, ActivateConfig(v)
  PROVE  UNCHANGED storeVars \/ GoesLive(v)
<1> USE DEF IInv, TypeOK, StoreTypeOK
<1>1. \A w \in Versions \ {v} : w \in Demoted(v) <=> status[w] = "ACTIVE"
  BY DEF SerialInv, PointerInv, Demoted, ActiveRows
<1>2. CASE status[v] = "ACTIVE"
  BY <1>2 DEF ActivateConfig
<1>3. CASE status[v] # "ACTIVE"
  <2>1. status[v] \in {"APPROVED", "SUPERSEDED"}
    BY <1>3 DEF ActivateConfig, Activatable
  <2>2. status' = [w \in Versions |-> IF w = v THEN "ACTIVE"
                                     ELSE IF w \in Demoted(v) THEN "SUPERSEDED"
                                     ELSE status[w]]
    BY <1>3, Zenon DEF ActivateConfig
  <2> QED BY <1>1, <2>1, <2>2 DEF GoesLive
<1> QED BY <1>2, <1>3

LEMMA ActivateKeepsPointer ==
  ASSUME IInv, SerialInv, serial, NEW v \in Versions, ActivateConfig(v)
  PROVE  MemoryBackend /\ activeId' \in Versions => status'[activeId'] = "ACTIVE"
BY DEF IInv, TypeOK, StoreTypeOK, SerialInv, ActivateConfig, storeVars

LEMMA NextSerial ==
  ASSUME IInv, SerialInv, ServiceNext
  PROVE  SerialInv' /\ (serial => LifecycleStep \/ UNCHANGED status)
<1> USE DEF IInv, TypeOK, StoreTypeOK
<1>1. serial' = serial /\ (serial => OneCallAtATime') /\ serial \in BOOLEAN
  BY Zenon DEF ServiceNext, SerialInv
<1>2. ASSUME NEW t \in Threads, NEW c \in Call, Begin(t, c),
             c.op = "approve" => status[c.v] = "PENDING",
             c.op = "reject" => status[c.v] \in {"PENDING", "APPROVED"}
      PROVE  SerialInv' /\ UNCHANGED status
  BY <1>1, <1>2, Zenon DEF SerialInv, Begin, storeVars
<1>3. ASSUME NEW t \in Threads, Serve(t)
      PROVE  SerialInv' /\ (serial => LifecycleStep \/ UNCHANGED status)
  <2>1. ASSUME NEW u \in Users, NEW c \in Contents, SubmitCheck(t, u, c)
        PROVE  SerialInv' /\ UNCHANGED status
    <3> DEFINE k == [op |-> "submit", v |-> NoVersion, u |-> u, c |-> c]
    <3>1. k \in Call /\ Begin(t, k)
      BY <2>1, Zenon DEF Call, SubmitCheck
    <3> QED BY <3>1, <1>2, Zenon
  <2>2. ASSUME NEW op \in DOMAIN Verdict, NEW v \in Versions, NEW u \in Users,
               ReviewCheck(t, op, v, u)
        PROVE  SerialInv' /\ UNCHANGED status
    <3> DEFINE k == [op |-> op, v |-> v, u |-> u, c |-> NoContent]
    <3>1. op \in {"approve", "reject"}
      BY Zenon DEF Verdict
    <3>2. k \in Call /\ Begin(t, k)
      BY <2>2, <3>1, Zenon DEF Call, ReviewCheck
    <3>3. /\ op = "approve" => status[v] = "PENDING"
          /\ op = "reject" => status[v] \in {"PENDING", "APPROVED"}
      BY <2>2, ReviewMoves, Zenon DEF ReviewCheck
    <3> QED BY <3>2, <3>3, <1>2, Zenon
  <2>3. ASSUME NEW v \in Versions, NEW u \in Users, ActivateCheck(t, v, u)
        PROVE  SerialInv' /\ UNCHANGED status
    <3> DEFINE k == [op |-> "activate", v |-> v, u |-> u, c |-> NoContent]
    <3>1. k \in Call /\ Begin(t, k)
      BY <2>3 DEF Call, ActivateCheck
    <3> QED BY <3>1, <1>2
  <2>4. ASSUME NEW v \in Versions, NEW u \in Users, RollbackCheck(t, v, u)
        PROVE  SerialInv' /\ UNCHANGED status
    <3> DEFINE k == [op |-> "rollback", v |-> v, u |-> u, c |-> NoContent]
    <3>1. k \in Call /\ Begin(t, k)
      BY <2>4, Zenon DEF Call, RollbackCheck
    <3> QED BY <3>1, <1>2
  \* Once the call of t returns nobody is in a call.
  <2>5. ASSUME call[t] # Idle, Return(t), boot = "serving",
               serial => /\ MemoryBackend /\ activeId' \in Versions =>
                              status'[activeId'] = "ACTIVE"
        PROVE  SerialInv'
    <3>1. boot' = "serving"
      BY <2>5 DEF Return
    <3>2. serial => \A u \in Threads : call'[u] = Idle
      BY <2>5 DEF Return, SerialInv, OneCallAtATime
    <3> QED BY <1>1, <2>5, <3>1, <3>2, IdleOp, ZenonT(30) DEF SerialInv
  <2>6. call[t] # Idle => boot = "serving"
    BY DEF BootInv
  <2>7. ASSUME NEW v \in Versions, SubmitInsert(t, v)
        PROVE  SerialInv' /\ LifecycleStep
    <3>1. call[t] # Idle /\ Return(t) /\ InsertVersion(v)
      BY <2>7 DEF SubmitInsert, WriteSubmission, Idle
    <3>2. Moves(v, {"ABSENT"}, "PENDING")
      BY <3>1 DEF InsertVersion, Moves
    <3>3. serial => (MemoryBackend /\ activeId' \in Versions => status'[activeId'] = "ACTIVE")
      BY <3>1, Zenon DEF InsertVersion, SerialInv
    <3> QED BY <2>5, <2>6, <3>1, <3>2, <3>3, Zenon DEF LifecycleStep
  <2>8. ASSUME ReviewWrite(t)
        PROVE  SerialInv' /\ (serial => LifecycleStep)
    <3> DEFINE v == call[t].v
    <3>1. call[t].op \in {"approve", "reject"} /\ call[t] # Idle /\ Return(t)
      BY <2>8, IdleOp, Zenon DEF ReviewWrite, Verdict
    <3>2. v \in Versions /\ status' = [status EXCEPT ![v] = Verdict[call[t].op]]
          /\ activeId' = activeId
      BY <2>8, <3>1, Zenon DEF ReviewWrite, WriteVerdict, UpdateStatus, CallInv
    <3>3. serial => \/ Moves(v, {"PENDING"}, "APPROVED")
                    \/ Moves(v, {"PENDING", "APPROVED"}, "REJECTED")
      <4>1. CASE call[t].op = "approve"
        <5>1. status' = [status EXCEPT ![v] = "APPROVED"]
          BY <3>2, <4>1 DEF Verdict
        <5>2. serial => status[v] = "PENDING"
          BY <4>1 DEF SerialInv
        <5> QED BY <5>1, <5>2, Zenon DEF Moves
      <4>2. CASE call[t].op = "reject"
        <5>1. status' = [status EXCEPT ![v] = "REJECTED"]
          BY <3>2, <4>2 DEF Verdict
        <5>2. serial => status[v] \in {"PENDING", "APPROVED"}
          BY <4>2 DEF SerialInv
        <5> QED BY <5>1, <5>2, Zenon DEF Moves
      <4> QED BY <3>1, <4>1, <4>2
    <3>4. serial => status[v] # "ACTIVE"
      BY <3>1, Zenon DEF SerialInv
    <3>5. serial => (MemoryBackend /\ activeId' \in Versions => status'[activeId'] = "ACTIVE")
      BY <3>2, <3>4, Zenon DEF SerialInv
    <3> QED BY <2>5, <2>6, <3>1, <3>2, <3>3, <3>5, Zenon DEF LifecycleStep
  <2>9. ASSUME GoLiveWrite(t)
        PROVE  SerialInv' /\ (serial => LifecycleStep \/ UNCHANGED status)
    <3>1. /\ call[t] # Idle /\ Return(t) /\ call[t].v \in Versions
          /\ ActivateConfig(call[t].v)
      BY <2>9, IdleOp, Zenon DEF GoLiveWrite, CallInv
    <3>2. serial => (MemoryBackend /\ activeId' \in Versions => status'[activeId'] = "ACTIVE")
      BY <3>1, ActivateKeepsPointer, Zenon
    <3>3. serial => UNCHANGED storeVars \/ GoesLive(call[t].v)
      BY <3>1, ActivateGoesLive
    <3> QED BY <2>5, <2>6, <3>1, <3>2, <3>3, Zenon DEF LifecycleStep, storeVars
  <2>10. ASSUME StoreCallFails(t)
         PROVE  SerialInv' /\ UNCHANGED status
    <3>1. call[t] # Idle /\ Return(t) /\ status' = status /\ activeId' = activeId
      BY <2>10 DEF StoreCallFails, storeVars
    <3>2. serial => (MemoryBackend /\ activeId' \in Versions => status'[activeId'] = "ACTIVE")
      BY <3>1, Zenon DEF SerialInv
    <3> QED BY <2>5, <2>6, <3>1, <3>2
  <2> QED
    BY <1>3, <2>1, <2>2, <2>3, <2>4, <2>7, <2>8, <2>9, <2>10, Zenon DEF Serve
<1>4. CASE BootCheck
  BY <1>1, <1>4, Zenon DEF BootCheck, SerialInv, storeVars
<1>5. ASSUME NEW v \in Versions, NEW c \in Contents, BootSubmit(v, c)
      PROVE  SerialInv' /\ LifecycleStep
  <2>1. InsertVersion(v) /\ boot' = "submitted" /\ bootV' = v /\ call' = call /\ boot = "empty"
    BY <1>5 DEF BootSubmit, WriteSubmission
  <2>2. Moves(v, {"ABSENT"}, "PENDING")
    BY <2>1, Zenon DEF InsertVersion, Moves
  <2>3. \A t \in Threads : call[t].op = "idle"
    BY <2>1, IdleOp, Zenon DEF BootInv
  <2> QED BY <1>1, <2>1, <2>2, <2>3 DEF SerialInv, InsertVersion, LifecycleStep
<1>6. CASE BootApprove
  <2>1. /\ bootV \in Versions /\ boot = "submitted" /\ boot' = "approved"
        /\ status[bootV] = "PENDING" /\ call' = call /\ bootV' = bootV
        /\ status' = [status EXCEPT ![bootV] = "APPROVED"] /\ activeId' = activeId
    BY <1>6 DEF BootApprove, WriteVerdict, UpdateStatus, BootInv, SerialInv
  <2>2. Moves(bootV, {"PENDING"}, "APPROVED")
    BY <2>1, Zenon DEF Moves
  <2>3. \A t \in Threads : call[t].op = "idle"
    BY <2>1, IdleOp, Zenon DEF BootInv
  <2> QED BY <1>1, <2>1, <2>2, <2>3, Zenon DEF SerialInv, LifecycleStep
<1>7. CASE BootActivate
  <2>1. /\ bootV \in Versions /\ boot = "approved" /\ boot' = "serving"
        /\ call' = call /\ bootV' = bootV /\ ActivateConfig(bootV)
    BY <1>7, Zenon DEF BootActivate, BootInv
  <2>2. \A t \in Threads : call[t].op = "idle"
    BY <2>1, IdleOp, Zenon DEF BootInv
  <2>3. serial => (MemoryBackend /\ activeId' \in Versions => status'[activeId'] = "ACTIVE")
    BY <2>1, ActivateKeepsPointer, Zenon
  <2>4. serial => UNCHANGED storeVars \/ GoesLive(bootV)
    BY <2>1, ActivateGoesLive, Zenon
  <2>5. SerialInv'
    BY <1>1, <2>1, <2>2, <2>3, Zenon DEF SerialInv
  <2> QED BY <2>1, <2>4, <2>5, Zenon DEF LifecycleStep, storeVars
<1>8. CASE Crash
  <2>1. SerialInv'
    BY <1>1, <1>8, StoreAssumption, Zenon DEF Crash, RestartStore, SerialInv, Idle, storeVars
  <2> QED BY <1>8, <2>1, Zenon DEF Crash, RestartStore, LifecycleStep, storeVars
<1> QED
  BY <1>3, <1>4, <1>5, <1>6, <1>7, <1>8 DEF ServiceNext, Next

\* With calls that do not overlap, every write to the table is a transition of
\* the published lifecycle, for either backend and any number of workers.
THEOREM LifecycleKept == ServiceSpec => SerialLifecycle
<1>1. ServiceInit => IInv /\ SerialInv
  <2> SUFFICES ASSUME ServiceInit PROVE IInv /\ SerialInv
    OBVIOUS
  <2>1. IInv
    BY InitIInv DEF ServiceInit
  <2> QED BY <2>1, StoreAssumption
          DEF ServiceInit, Init, StoreInit, SerialInv, OneCallAtATime, Idle
<1>2. IInv /\ SerialInv /\ [ServiceNext]_<<vars, serial>> => IInv' /\ SerialInv'
  <2> SUFFICES ASSUME IInv, SerialInv, [ServiceNext]_<<vars, serial>>
               PROVE  IInv' /\ SerialInv'
    OBVIOUS
  <2>1. IInv'
    BY NextIInv DEF ServiceNext
  <2>2. CASE ServiceNext
    BY <2>1, <2>2, NextSerial, Zenon
  <2>3. CASE UNCHANGED <<vars, serial>>
    BY <2>1, <2>3 DEF vars, SerialInv, OneCallAtATime
  <2> QED BY <2>2, <2>3
<1>3. IInv /\ SerialInv /\ [ServiceNext]_<<vars, serial>> => [serial => LifecycleStep]_status
  <2> SUFFICES ASSUME IInv, SerialInv, [ServiceNext]_<<vars, serial>>, status' # status, serial
               PROVE  LifecycleStep
    OBVIOUS
  <2>1. ServiceNext
    BY Zenon DEF vars
  <2> QED BY <2>1, NextSerial
<1> QED BY <1>1, <1>2, <1>3, PTL DEF ServiceSpec, SerialLifecycle

-----------------------------------------------------------------------------
(***************************************************************************)
(* The control-plane process.  main leaves stop() only when the helper has *)
(* joined the ticker thread or failed to, and gets there only when the     *)
(* server is closed.                                                       *)
(***************************************************************************)
AfterStop == {"flush", "exited"}

TickerInv ==
  /\ server = "up" <=> watcher \in {"none", "sigwait"}
  /\ server = "closed" <=> watcher = "done"
  /\ watcher = "done" => calls = 0
  /\ main = "init" <=> watcher = "none"
  /\ main = "init" => loop = "none"
  /\ main \in {"serving", "join_watcher", "stop"} => started
  /\ main \in StopSteps \cup AfterStop => watcher = "done"
  /\ main \in AfterStop => (helper = "joined" /\ loop = "none") \/ helper = "threw"
  /\ ~audit => main = "exited"

\* Server::Wait, RolloutTicker::stop and audit.shutdown, in main's order: no handler
\* runs any more when the process takes its objects down, and no tick either
\* unless the ticker was detached before the helper got to join().
THEOREM ExitIsQuiet == TickerSpec => []QuietAtExit
  <1>1. TickerInit => TickerInv
    BY Zenon DEF TickerInit, TickerInv, StopSteps, AfterStop
  <1>2. TickerInv /\ [TickerNext]_tickerVars => TickerInv'
    <2> SUFFICES ASSUME TickerInv, [TickerNext]_tickerVars PROVE TickerInv'
      OBVIOUS
    <2> USE DEF TickerInv, StopSteps, AfterStop, MainTo, procVars, tickVars
    <2>1. CASE Start \/ WaitReturns \/ JoinWatcher
      BY <2>1, Zenon DEF Start, WaitReturns, JoinWatcher
    <2>2. CASE Stop \/ Signal \/ Notify \/ Spawn
      BY <2>2, Zenon DEF Stop, Signal, Notify, Spawn
    <2>3. CASE Ready \/ Timeout \/ Joinable \/ Detach
      BY <2>3, Zenon DEF Ready, Timeout, Joinable, Detach
    <2>4. CASE Destroy \/ FlushAudit
      BY <2>4, Zenon DEF Destroy, FlushAudit
    <2>5. CASE HelperStep \/ LoopStep \/ TickEnds
      BY <2>5, Zenon DEF HelperStep, HelperJoins, Join, LoopStep, LoopHead, LoopTicked,
                         LoopWakes, TickEnds, LoopTo
    <2>6. CASE CallBegins \/ CallEnds
      BY <2>6 DEF CallBegins, CallEnds
    <2>7. CASE SignalArrives \/ ServerShutdownReturns
      BY <2>7, Zenon DEF SignalArrives, ServerShutdownReturns
    <2>8. CASE UNCHANGED tickerVars
      BY <2>8 DEF tickerVars
    <2> QED
      BY <2>1, <2>2, <2>3, <2>4, <2>5, <2>6, <2>7, <2>8, Zenon DEF TickerNext, MainStep
  <1>3. TickerInv => QuietAtExit
    BY DEF TickerInv, QuietAtExit, StopSteps, AfterStop
  <1> QED BY <1>1, <1>2, <1>3, PTL DEF TickerSpec

-----------------------------------------------------------------------------
=============================================================================

--------------------------- MODULE ConfigService ---------------------------
(***************************************************************************)
(* ConfigServiceCore behind its gRPC worker threads, and the bootstrap     *)
(* that seeds the table at process start.  A handler reads the row, checks *)
(* the status machine and only then writes: the read and the write are two *)
(* steps, and nothing excludes the steps of another thread between them.   *)
(* A call that returns an error before its write changes nothing and is    *)
(* not an action.                                                          *)
(***************************************************************************)
EXTENDS ConfigStore, TLC

CONSTANTS
  Users,          \* SuperAdmin operators
  BootstrapActor, \* kBootstrapActor, never an operator
  NoUser,         \* the empty user id
  Contents,       \* YAML bodies that pass size, scan, syntax and validation
  NoContent,
  Threads         \* gRPC worker threads

ASSUME ServiceAssumption ==
  /\ BootstrapActor \notin Users
  /\ NoUser \notin Users \cup {BootstrapActor}
  /\ NoContent \notin Contents

VARIABLES
  content,        \* content_sha256 of a version
  submitter,
  reviewer,
  call,           \* the call a thread is inside of, between read and write
  boot,           \* progress of bootstrapFromActiveYamlIfEmpty
  bootV           \* the version the bootstrap submitted

svcVars == <<content, submitter, reviewer>>
vars == <<status, activeId, content, submitter, reviewer, call, boot, bootV>>

Actors == Users \cup {BootstrapActor}
Idle == [op |-> "idle", v |-> NoVersion, u |-> NoUser, c |-> NoContent]
Call == [op : {"idle", "submit", "approve", "reject", "activate", "rollback"},
         v : Versions \cup {NoVersion},
         u : Users \cup {NoUser},
         c : Contents \cup {NoContent}]

TypeOK ==
  /\ StoreTypeOK
  /\ content \in [Versions -> Contents \cup {NoContent}]
  /\ submitter \in [Versions -> Actors \cup {NoUser}]
  /\ reviewer \in [Versions -> Actors \cup {NoUser}]
  /\ call \in [Threads -> Call]
  /\ boot \in {"down", "empty", "submitted", "approved", "serving"}
  /\ bootV \in Versions \cup {NoVersion}

Init ==
  /\ StoreInit
  /\ content = [v \in Versions |-> NoContent]
  /\ submitter = [v \in Versions |-> NoUser]
  /\ reviewer = [v \in Versions |-> NoUser]
  /\ call = [t \in Threads |-> Idle]
  /\ boot = "down"
  /\ bootV = NoVersion

Begin(t, c) ==
  /\ boot = "serving"
  /\ call[t] = Idle
  /\ call' = [call EXCEPT ![t] = c]
  /\ UNCHANGED <<storeVars, svcVars, boot, bootV>>

Return(t) ==
  /\ call' = [call EXCEPT ![t] = Idle]
  /\ UNCHANGED <<boot, bootV>>

(***************************************************************************)
(* submit: the duplicate check reads the live rows, the insert comes       *)
(* later.  A rate-limited or validate_only call ends between the two.  The *)
(* check lists at most 500 rows, more than any instance has.               *)
(***************************************************************************)
HasLive(c) == \E v \in Versions : status[v] \in LiveStatuses /\ content[v] = c

SubmitCheck(t, u, c) ==
  /\ ~HasLive(c)
  /\ Begin(t, [op |-> "submit", v |-> NoVersion, u |-> u, c |-> c])

\* The row a submit writes.
WriteSubmission(v, u, c) ==
  /\ InsertVersion(v)
  /\ content' = [content EXCEPT ![v] = c]
  /\ submitter' = [submitter EXCEPT ![v] = u]
  /\ reviewer' = [reviewer EXCEPT ![v] = NoUser]

SubmitInsert(t, v) ==
  /\ call[t].op = "submit"
  /\ WriteSubmission(v, call[t].u, call[t].c)
  /\ Return(t)

(***************************************************************************)
(* approve and reject, both transitionReview.                              *)
(***************************************************************************)
Verdict == [approve |-> "APPROVED", reject |-> "REJECTED"]
Verb == [approve |-> "APPROVE", reject |-> "REJECT"]

\* A bug: the self-review check is dropped.
ReviewCheckAnyone(t, op, v, u) ==
  /\ CanMove(status[v], Verb[op], Verdict[op])
  /\ Begin(t, [op |-> op, v |-> v, u |-> u, c |-> NoContent])

ReviewCheck(t, op, v, u) ==
  /\ submitter[v] # u
  /\ CanMove(status[v], Verb[op], Verdict[op])
  /\ Begin(t, [op |-> op, v |-> v, u |-> u, c |-> NoContent])

WriteVerdict(v, new, u) ==
  /\ UpdateStatus(v, new)
  /\ reviewer' = [reviewer EXCEPT ![v] = u]
  /\ UNCHANGED <<content, submitter>>

ReviewWrite(t) ==
  /\ call[t].op \in DOMAIN Verdict
  /\ WriteVerdict(call[t].v, Verdict[call[t].op], call[t].u)
  /\ Return(t)

(***************************************************************************)
(* activate and rollback: the service checks the status it read, the store *)
(* checks again inside activateConfig.  A rollback to the ACTIVE version   *)
(* writes nothing.                                                         *)
(***************************************************************************)
ActivateCheck(t, v, u) ==
  /\ CanMove(status[v], "ACTIVATE", "ACTIVE")
  /\ Begin(t, [op |-> "activate", v |-> v, u |-> u, c |-> NoContent])

RollbackCheck(t, v, u) ==
  /\ CanMove(status[v], "ROLLBACK_TO", "ACTIVE")
  /\ status[v] # "ACTIVE"
  /\ Begin(t, [op |-> "rollback", v |-> v, u |-> u, c |-> NoContent])

GoLiveWrite(t) ==
  /\ call[t].op \in {"activate", "rollback"}
  /\ ActivateConfig(call[t].v)
  /\ Return(t)
  /\ UNCHANGED svcVars

\* The store call returns false (I/O error, or activateConfig's own check).
StoreCallFails(t) ==
  /\ call[t] # Idle
  /\ Return(t)
  /\ UNCHANGED <<storeVars, svcVars>>

(***************************************************************************)
(* Process start: main() runs the bootstrap before the gRPC server exists. *)
(* A failed step ends the process (Crash).                                 *)
(***************************************************************************)
HasAnyVersion == \E v \in Versions : status[v] # "ABSENT"

\* "serving" at once when no bootstrap file is configured.
BootCheck ==
  /\ boot = "down"
  /\ boot' \in IF HasAnyVersion THEN {"serving"} ELSE {"serving", "empty"}
  /\ UNCHANGED <<storeVars, svcVars, call, bootV>>

BootSubmit(v, c) ==
  /\ boot = "empty"
  /\ WriteSubmission(v, BootstrapActor, c)
  /\ boot' = "submitted"
  /\ bootV' = v
  /\ UNCHANGED call

BootApprove ==
  /\ boot = "submitted"
  /\ WriteVerdict(bootV, "APPROVED", BootstrapActor)
  /\ boot' = "approved"
  /\ UNCHANGED <<call, bootV>>

BootActivate ==
  /\ boot = "approved"
  /\ ActivateConfig(bootV)
  /\ boot' = "serving"
  /\ UNCHANGED <<svcVars, call, bootV>>

Crash ==
  /\ boot # "down"
  /\ boot' = "down"
  /\ bootV' = NoVersion
  /\ call' = [t \in Threads |-> Idle]
  /\ RestartStore
  /\ IF MemoryBackend
     THEN /\ content' = [v \in Versions |-> NoContent]
          /\ submitter' = [v \in Versions |-> NoUser]
          /\ reviewer' = [v \in Versions |-> NoUser]
     ELSE UNCHANGED svcVars

Serve(t) ==
  \/ \E u \in Users, c \in Contents : SubmitCheck(t, u, c)
  \/ \E v \in Versions : SubmitInsert(t, v)
  \/ \E op \in DOMAIN Verdict, v \in Versions, u \in Users :
       ReviewCheck(t, op, v, u)
  \/ ReviewWrite(t)
  \/ \E v \in Versions, u \in Users :
       ActivateCheck(t, v, u) \/ RollbackCheck(t, v, u)
  \/ GoLiveWrite(t)
  \/ StoreCallFails(t)

Next ==
  \/ \E t \in Threads : Serve(t)
  \/ BootCheck
  \/ \E v \in Versions, c \in Contents : BootSubmit(v, c)
  \/ BootApprove
  \/ BootActivate
  \/ Crash

Spec == Init /\ [][Next]_vars

(***************************************************************************)
(* Properties.                                                             *)
(***************************************************************************)

\* At no time are two versions ACTIVE, however activations, rollbacks and
\* late review writes of different threads interleave (activateConfig
\* demotes and promotes in one transaction).
AtMostOneActive == \A v, w \in ActiveRows : v = w

\* Dual approval (SR5): a version that got past review carries a reviewer
\* who is not its submitter.  The only exception is the version the
\* bootstrap seeded, and there is never more than one of those, across any
\* number of crashes in the middle of the bootstrap.
SelfReviewed(v) ==
  /\ status[v] \notin {"ABSENT", "PENDING"}
  /\ reviewer[v] = submitter[v]
DualApproval ==
  /\ \A v \in Versions : status[v] \notin {"ABSENT", "PENDING"} => reviewer[v] # NoUser
  /\ \A v \in Versions : SelfReviewed(v) => submitter[v] = BootstrapActor
  /\ \A v, w \in Versions : SelfReviewed(v) /\ SelfReviewed(w) => v = w

-----------------------------------------------------------------------------
(***************************************************************************)
(* Calls that do not overlap.  In the behaviours where serial is TRUE a    *)
(* call begins only when no other call is under way.                       *)
(***************************************************************************)
VARIABLE serial

OneCallAtATime == \A t, u \in Threads : call[t] # Idle /\ call[u] # Idle => t = u

ServiceInit == Init /\ serial \in BOOLEAN

ServiceNext == Next /\ (serial => OneCallAtATime') /\ UNCHANGED serial

ServiceSpec == ServiceInit /\ [][ServiceNext]_<<vars, serial>>

(***************************************************************************)
(* The lifecycle as atomic transitions: the table in the comment of enum   *)
(* ConfigStatus.  REJECTED is terminal, a version goes live only from      *)
(* APPROVED or SUPERSEDED, and going live supersedes the version that was  *)
(* live.  A restart empties the in-memory table.                           *)
(***************************************************************************)
Moves(v, from, to) == status[v] \in from /\ status' = [status EXCEPT ![v] = to]

GoesLive(v) ==
  /\ status[v] \in {"APPROVED", "SUPERSEDED"}
  /\ status' = [w \in Versions |-> IF w = v THEN "ACTIVE"
                                   ELSE IF status[w] = "ACTIVE" THEN "SUPERSEDED"
                                   ELSE status[w]]

LifecycleStep ==
  \/ \E v \in Versions :
       \/ Moves(v, {"ABSENT"}, "PENDING")
       \/ Moves(v, {"PENDING"}, "APPROVED")
       \/ Moves(v, {"PENDING", "APPROVED"}, "REJECTED")
       \/ GoesLive(v)
  \/ MemoryBackend /\ Crash

\* Calls that do not overlap implement the lifecycle published with enum
\* ConfigStatus, through crashes and the bootstrap.
SerialLifecycle == [][serial => LifecycleStep]_status

\* For TLC: versions, users, contents and threads are interchangeable.
Symm == Permutations(Versions) \cup Permutations(Users)
          \cup Permutations(Threads) \cup Permutations(Contents)
=============================================================================

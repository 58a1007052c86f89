-------------------------- MODULE ApprovalsProofs --------------------------
(***************************************************************************)
(* The approval queue, for any number of threads, proposals and faults.    *)
(* CacheMirrorsStore and AppliedOnce speak of the ids whose calls did not  *)
(* overlap; for such an id at most one call is in progress, so what it     *)
(* read is still there when it writes, and the store runs ahead of the     *)
(* cache only between its two writes.                                      *)
(***************************************************************************)
EXTENDS Approvals, TLAPS

Payloads == UNION {w.payloads : w \in Workloads}

ProposalStates == {"PROPOSED", "APPROVED", "REJECTED", "APPLIED", "ROLLED_BACK"}

Proposals == {None} \cup [payload : Payloads, state : ProposalStates]

Contents == [Ids -> Proposals]

Decisions == {"approve", "reject", "apply", "rollback"}

ApprovalCalls ==
  [pc : {"idle", "get", "write", "effect", "undo", "store", "cache", "list", "swap"},
   op : Decisions \cup {"none", "propose", "prune"}, id : Ids \cup {"none"},
   cur : Proposals, list : Contents \cup {<< >>}]

\* Where a call can be, and what it carries there.
CallShape(c) ==
  /\ c.op = "none" => c = NoCall
  /\ c.op = "prune" => /\ c.id = "none" /\ durable
                       /\ c.pc \in {"list", "swap"} /\ (c.pc = "swap" => c.list \in Contents)
  /\ c.op = "propose" => c.pc \in {"store", "cache"}
  /\ c.op \in Decisions => c.pc \in {"get", "write", "effect", "undo", "store", "cache"}
  /\ c.op \in Decisions \cup {"propose"} => c.id \in Ids /\ (c.pc # "get" => c.cur # None)
  /\ c.pc = "undo" => c.op = "apply"
  /\ c.op \in {"apply", "rollback"} /\ c.pc \in {"undo", "store", "cache"} =>
       c.cur.state \in {"APPLIED", "ROLLED_BACK"}
  /\ c.pc = "store" => durable

ApprovalTypes ==
  /\ durable \in BOOLEAN
  /\ workload \in Workloads
  /\ store \in Contents /\ cache \in Contents
  /\ req \in [Admins -> ApprovalCalls]
  /\ applied \in [Ids -> Nat]
  /\ failures \in Nat
  /\ \A t \in Admins : CallShape(req[t])

\* An id that was not minted yet is nowhere.
Unminted(id) ==
  /\ cache[id] = None /\ store[id] = None /\ applied[id] = 0
  /\ \A t \in Admins : req[t].id # id /\ (req[t].pc = "swap" => req[t].list[id] = None)

\* One call at a time.
OneCall(id) ==
  \A t, u \in Admins :
    /\ req[t].id = id /\ req[u].id = id => t = u
    /\ req[t].op = "prune" => req[u].id # id
    /\ req[t].op = "prune" /\ req[u].op = "prune" => t = u

\* How far the cache may be from the store.
Mirrored(id) ==
  durable =>
    /\ \/ cache[id] = store[id]
       \/ \E t \in Admins : req[t].op = "prune"
       \/ \E t \in Admins : req[t].id = id /\ req[t].pc = "cache"
    /\ \A t \in Admins :
         /\ req[t].op = "prune" => store[id] \in {cache[id], None}
         /\ req[t].pc = "swap" => req[t].list[id] = store[id]
         /\ req[t].id = id /\ req[t].pc = "cache" => req[t].cur = store[id]

\* How often the proposal has taken effect, by where it is.
Counted(id) ==
  /\ \A t \in Admins :
       req[t].id = id =>
         /\ req[t].op = "propose" => applied[id] = 0
         /\ req[t].op # "propose" /\ req[t].pc # "get" => cache[id].state \in From(req[t].op)
  /\ applied[id] <= failures + 1
  /\ \/ cache[id].state \notin {"PROPOSED", "APPROVED"}
     \/ applied[id] <= failures
     \/ \E t \in Admins : /\ req[t].id = id /\ req[t].op = "apply"
                          /\ req[t].pc \in {"undo", "store", "cache"}

Settled(id) == OneCall(id) /\ Mirrored(id) /\ Counted(id)

ApprovalsInv ==
  /\ ApprovalTypes
  /\ \A id \in Ids \ used : Unminted(id)
  /\ \A id \in Ids \ overlapped : Settled(id)

\* A proposal that no call is about is counted as before, pruned or not.
LEMMA CountKept ==
  ASSUME NEW id \in Ids, Counted(id), UNCHANGED <<applied, failures>>,
         cache'[id] \in {cache[id], None},
         \A t \in Admins : req[t].id # id /\ req'[t].id # id
  PROVE  Counted(id)'
  <1>1. None.state \notin {"PROPOSED", "APPROVED"}
    BY DEF None
  <1>2. cache'[id].state \notin {"PROPOSED", "APPROVED"} \/ cache'[id] = cache[id]
    BY <1>1, Zenon
  <1> QED BY <1>2, Zenon DEF Counted

\* A thread without a call, and one that is not pruning.
LEMMA CallKinds ==
  ASSUME NEW c \in ApprovalCalls, CallShape(c)
  PROVE  /\ c.pc = "idle" => c = NoCall
         /\ c.pc \notin {"idle", "list", "swap"} =>
              c.id \in Ids /\ c.op \in Decisions \cup {"propose"}
         /\ c.pc \in {"list", "swap"} => c.op = "prune" /\ c.id = "none" /\ durable
         /\ c.op = "prune" => c.pc \in {"list", "swap"}
  BY DEF CallShape, ApprovalCalls, NoCall, Decisions

LEMMA NoCallOK == NoCall \in ApprovalCalls /\ CallShape(NoCall)
  BY DEF CallShape, ApprovalCalls, NoCall, Decisions, Proposals

\* What a call on one id does not touch stays settled.
LEMMA Elsewhere ==
  ASSUME NEW t \in Admins, NEW c, NEW id \in Ids,
         ApprovalTypes, Settled(id),
         req' = [req EXCEPT ![t] = c], req[t].id # id, c.id # id,
         req[t].op # "prune", c.op # "prune", req[t].pc # "swap", c.pc # "swap",
         cache'[id] = cache[id], store'[id] = store[id], applied'[id] = applied[id],
         failures' \in Nat, failures' >= failures, durable' = durable
  PROVE  Settled(id)'
  <1>1. /\ req'[t] = c
        /\ \A u \in Admins : u # t => req'[u] = req[u]
    BY DEF ApprovalTypes
  <1>2. OneCall(id)'
    BY <1>1 DEF Settled, OneCall
  <1>3. Mirrored(id)'
    BY <1>1 DEF Settled, Mirrored
  <1>4. Counted(id)'
    <2>1. applied[id] \in Nat /\ failures \in Nat
      BY DEF ApprovalTypes
    <2>2. \A u \in Admins :
            req'[u].id = id =>
              /\ req'[u].op = "propose" => applied'[id] = 0
              /\ req'[u].op # "propose" /\ req'[u].pc # "get" =>
                   cache'[id].state \in From(req'[u].op)
      BY <1>1 DEF Settled, Counted
    <2>3. applied'[id] <= failures' + 1
      BY <2>1 DEF Settled, Counted
    <2>4. \/ cache'[id].state \notin {"PROPOSED", "APPROVED"}
          \/ applied'[id] <= failures'
          \/ \E u \in Admins : /\ req'[u].id = id /\ req'[u].op = "apply"
                               /\ req'[u].pc \in {"undo", "store", "cache"}
      BY <1>1, <2>1 DEF Settled, Counted
    <2> QED BY <2>2, <2>3, <2>4 DEF Counted
  <1> QED BY <1>2, <1>3, <1>4 DEF Settled

\* The only call on an id keeps it settled if it leaves these facts behind.
LEMMA OnlyCall ==
  ASSUME NEW t \in Admins, NEW c, NEW a \in Ids, ApprovalTypes,
         req' = [req EXCEPT ![t] = c], durable' = durable,
         \A u \in Admins \ {t} : req[u].id # a /\ req[u].op # "prune" /\ req[u].pc # "swap",
         c.op # "prune", c.pc # "swap",
         durable => IF c.id = a /\ c.pc = "cache" THEN c.cur = store'[a]
                    ELSE cache'[a] = store'[a],
         c.id = a => /\ c.op = "propose" => applied'[a] = 0
                     /\ c.op # "propose" /\ c.pc # "get" => cache'[a].state \in From(c.op),
         applied'[a] <= failures' + 1,
         \/ cache'[a].state \notin {"PROPOSED", "APPROVED"}
         \/ applied'[a] <= failures'
         \/ c.id = a /\ c.op = "apply" /\ c.pc \in {"undo", "store", "cache"}
  PROVE  Settled(a)'
  <1>1. /\ req'[t] = c
        /\ \A u \in Admins \ {t} : req'[u] = req[u]
    BY DEF ApprovalTypes
  <1>2. OneCall(a)'
    BY <1>1 DEF OneCall
  <1>3. Mirrored(a)'
    BY <1>1 DEF Mirrored
  <1>4. Counted(a)'
    BY <1>1 DEF Counted
  <1> QED BY <1>2, <1>3, <1>4 DEF Settled

\* The invariant after a step of a call on one id, from what it means for it.
LEMMA CallStep ==
  ASSUME NEW t \in Admins, NEW c \in ApprovalCalls, NEW a \in Ids,
         ApprovalsInv, CallShape(c),
         req' = [req EXCEPT ![t] = c], req[t].id \in {a, "none"}, c.id \in {a, "none"},
         req[t].op # "prune", c.op # "prune",
         cache' \in Contents, store' \in Contents, applied' \in [Ids -> Nat],
         \A id \in Ids \ {a} : /\ cache'[id] = cache[id] /\ store'[id] = store[id]
                               /\ applied'[id] = applied[id],
         failures' \in Nat, failures' >= failures, durable' = durable, workload' = workload,
         a \in used', used \subseteq used', overlapped \subseteq overlapped',
         a \notin overlapped' => Settled(a)'
  PROVE  ApprovalsInv'
  <1>0. ApprovalTypes /\ req[t] \in ApprovalCalls /\ CallShape(req[t])
    BY DEF ApprovalsInv, ApprovalTypes
  <1>1. /\ req'[t] = c
        /\ \A u \in Admins : u # t => req'[u] = req[u]
        /\ req' \in [Admins -> ApprovalCalls]
    BY <1>0 DEF ApprovalTypes
  <1>2. req[t].pc # "swap" /\ c.pc # "swap"
    BY <1>0, CallKinds
  <1>3. ApprovalTypes'
    <2>1. \A u \in Admins : CallShape(req'[u])
      BY <1>0, <1>1, Zenon DEF ApprovalTypes
    <2>2. \A u \in Admins : CallShape(req[u])'
      BY <2>1 DEF CallShape
    <2> QED BY <1>0, <1>1, <2>2 DEF ApprovalTypes
  <1>4. ASSUME NEW id \in Ids \ used' PROVE Unminted(id)'
    <2>1. Unminted(id) /\ id # a /\ id # "none"
      BY ApprovalsAssumption DEF ApprovalsInv
    <2> QED BY <1>1, <1>2, <2>1 DEF Unminted
  <1>5. ASSUME NEW id \in Ids \ overlapped' PROVE Settled(id)'
    <2>1. Settled(id) /\ id # "none"
      BY ApprovalsAssumption DEF ApprovalsInv
    <2>2. CASE id # a
      <3>1. req[t].id # id /\ c.id # id
        BY <2>1, <2>2
      <3>2. cache'[id] = cache[id] /\ store'[id] = store[id] /\ applied'[id] = applied[id]
        BY <2>2
      <3> QED BY <1>0, <1>2, <2>1, <3>1, <3>2, Elsewhere, Zenon
    <2> QED BY <2>2
  <1> QED BY <1>3, <1>4, <1>5 DEF ApprovalsInv

\* What a call in progress may rely on.
LEMMA Working ==
  ASSUME NEW t \in Admins, ApprovalsInv, req[t].pc \notin {"idle", "list", "swap"}
  PROVE  /\ req[t] \in ApprovalCalls /\ CallShape(req[t])
         /\ req[t].id \in Ids /\ req[t].id \in used
         /\ req[t].op \in Decisions \cup {"propose"} /\ req[t].op # "prune"
         /\ req[t].id \notin overlapped =>
              /\ Settled(req[t].id)
              /\ \A u \in Admins \ {t} :
                   req[u].id # req[t].id /\ req[u].op # "prune" /\ req[u].pc # "swap"
  <1>1. req[t] \in ApprovalCalls /\ CallShape(req[t])
    BY DEF ApprovalsInv, ApprovalTypes
  <1>2. /\ req[t].id \in Ids
        /\ req[t].op \in Decisions \cup {"propose"} /\ req[t].op # "prune"
    BY <1>1, CallKinds DEF Decisions
  <1>3. req[t].id \in used
    BY <1>2 DEF ApprovalsInv, Unminted
  <1>4. ASSUME req[t].id \notin overlapped
        PROVE  /\ Settled(req[t].id)
               /\ \A u \in Admins \ {t} :
                    req[u].id # req[t].id /\ req[u].op # "prune" /\ req[u].pc # "swap"
    <2>1. Settled(req[t].id)
      BY <1>2, <1>4 DEF ApprovalsInv
    <2>2. ASSUME NEW u \in Admins \ {t}
          PROVE  req[u].id # req[t].id /\ req[u].op # "prune" /\ req[u].pc # "swap"
      <3>1. req[u].id # req[t].id /\ req[u].op # "prune"
        BY <2>1 DEF Settled, OneCall
      <3>2. req[u] \in ApprovalCalls /\ CallShape(req[u])
        BY DEF ApprovalsInv, ApprovalTypes
      <3> QED BY <3>1, <3>2, CallKinds
    <2> QED BY <2>1, <2>2
  <1> QED BY <1>1, <1>2, <1>3, <1>4

\* An id nobody works on while nobody prunes.
LEMMA Free ==
  ASSUME NEW a \in Ids, ApprovalsInv, ~Busy(a), ~Pruning
  PROVE  \A u \in Admins : req[u].id # a /\ req[u].op # "prune" /\ req[u].pc # "swap"
  <1> SUFFICES ASSUME NEW u \in Admins
               PROVE  req[u].id # a /\ req[u].op # "prune" /\ req[u].pc # "swap"
    OBVIOUS
  <1>1. req[u] \in ApprovalCalls /\ CallShape(req[u])
    BY DEF ApprovalsInv, ApprovalTypes
  <1>2. req[u].op # "prune" /\ (req[u].pc # "idle" => req[u].id # a)
    BY DEF Busy, Pruning
  <1>3. req[u].pc = "idle" => req[u].id = "none"
    BY <1>1, CallKinds DEF NoCall
  <1> QED BY <1>1, <1>2, <1>3, CallKinds, ApprovalsAssumption

LEMMA ProposeOK ==
  ASSUME NEW t \in Admins, ApprovalsInv, propose(t) PROVE ApprovalsInv'
  <1>0. ApprovalTypes /\ req[t] = NoCall
    <2>1. req[t] \in ApprovalCalls /\ CallShape(req[t]) /\ req[t].pc = "idle"
      BY DEF ApprovalsInv, ApprovalTypes, propose
    <2> QED BY <2>1, CallKinds DEF ApprovalsInv
  <1>1. PICK a \in workload.ids \ used, payload \in workload.payloads :
          /\ used' = used \cup {a}
          /\ req' = [req EXCEPT ![t] =
                       [NoCall EXCEPT !.pc = IF durable THEN "store" ELSE "cache",
                                      !.op = "propose", !.id = a,
                                      !.cur = Proposal(payload, "PROPOSED")]]
          /\ overlapped' = IF Pruning THEN overlapped \cup {a} ELSE overlapped
    BY Zenon DEF propose
  <1> DEFINE c == [NoCall EXCEPT !.pc = IF durable THEN "store" ELSE "cache",
                                 !.op = "propose", !.id = a,
                                 !.cur = Proposal(payload, "PROPOSED")]
  <1>2. a \in Ids /\ a \notin used /\ payload \in Payloads
    BY <1>0, ApprovalsAssumption DEF ApprovalTypes, Payloads
  <1>3. Proposal(payload, "PROPOSED") \in Proposals /\ Proposal(payload, "PROPOSED") # None
    BY <1>2 DEF Proposal, Proposals, ProposalStates, None
  <1>4. /\ c.op = "propose" /\ c.id = a /\ c.cur # None /\ c \in ApprovalCalls
        /\ c.pc = IF durable THEN "store" ELSE "cache"
    BY <1>2, <1>3, Zenon DEF NoCall, ApprovalCalls
  <1>5. UNCHANGED <<durable, workload, store, cache, applied, failures>>
    BY DEF propose, options
  <1> HIDE DEF c
  <1>6. CallShape(c)
    BY <1>2, <1>4 DEF CallShape, Decisions
  <1>7. Unminted(a)
    BY <1>2 DEF ApprovalsInv
  <1>8. ASSUME a \notin overlapped' PROVE Settled(a)'
    <2>1. ~Pruning
      BY <1>1, <1>8
    <2>2. ~Busy(a)
      BY <1>7 DEF Unminted, Busy
    <2>3. \A u \in Admins : req[u].id # a /\ req[u].op # "prune" /\ req[u].pc # "swap"
      BY <1>2, <2>1, <2>2, Free
    <2>4. req' = [req EXCEPT ![t] = c]
      BY <1>1 DEF c
    <2>5. cache'[a] = store'[a] /\ applied'[a] = 0 /\ failures' \in Nat
      BY <1>0, <1>5, <1>7 DEF Unminted, ApprovalTypes
    <2>6. applied'[a] <= failures' /\ applied'[a] <= failures' + 1
      BY <2>5
    <2>7. durable => c.pc # "cache"
      BY <1>4
    <2> QED BY <1>0, <1>2, <1>4, <1>5, <2>3, <2>4, <2>5, <2>6, <2>7, OnlyCall, Zenon
  <1>9. req[t].id = "none" /\ req[t].op # "prune" /\ req' = [req EXCEPT ![t] = c]
    BY <1>0, <1>1 DEF NoCall, c
  <1>10. /\ cache' \in Contents /\ store' \in Contents /\ applied' \in [Ids -> Nat]
         /\ failures' \in Nat /\ failures' >= failures
         /\ a \in used' /\ used \subseteq used' /\ overlapped \subseteq overlapped'
    BY <1>0, <1>1, <1>5 DEF ApprovalTypes
  <1> QED BY <1>2, <1>4, <1>5, <1>6, <1>8, <1>9, <1>10, CallStep, Zenon

LEMMA RequestOK ==
  ASSUME NEW t \in Admins, NEW a \in Ids, NEW op \in Decisions, ApprovalsInv,
         Request(t, a, op)
  PROVE  ApprovalsInv'
  <1>0. ApprovalTypes /\ req[t] = NoCall
    <2>1. req[t] \in ApprovalCalls /\ CallShape(req[t]) /\ req[t].pc = "idle"
      BY DEF ApprovalsInv, ApprovalTypes, Request
    <2> QED BY <2>1, CallKinds DEF ApprovalsInv
  <1> DEFINE c == [NoCall EXCEPT !.pc = "get", !.op = op, !.id = a]
  <1>1. /\ c.op = op /\ c.id = a /\ c.pc = "get" /\ c \in ApprovalCalls
        /\ op \notin {"prune", "propose", "none"}
    BY Zenon DEF NoCall, ApprovalCalls, Decisions, Proposals
  <1>2. /\ req' = [req EXCEPT ![t] = c] /\ cache[a].state \in From(op)
        /\ overlapped' = IF Busy(a) \/ Pruning THEN overlapped \cup {a} ELSE overlapped
        /\ UNCHANGED <<durable, workload, store, cache, applied, failures, used>>
    BY DEF Request, options
  <1> HIDE DEF c
  <1>3. CallShape(c)
    BY <1>1 DEF CallShape
  <1>4. a \in used
    <2>1. cache[a] # None
      BY <1>2 DEF From, None, Decisions
    <2> QED BY <2>1 DEF ApprovalsInv, Unminted
  <1>5. ASSUME a \notin overlapped' PROVE Settled(a)'
    <2>1. ~Pruning /\ ~Busy(a) /\ Settled(a)
      BY <1>2, <1>5 DEF ApprovalsInv
    <2>2. \A u \in Admins : req[u].id # a /\ req[u].op # "prune" /\ req[u].pc # "swap"
      BY <2>1, Free
    <2>3. durable => cache'[a] = store'[a]
      BY <1>2, <2>1, <2>2 DEF Settled, Mirrored
    <2>4. /\ applied'[a] <= failures' + 1
          /\ cache'[a].state \notin {"PROPOSED", "APPROVED"} \/ applied'[a] <= failures'
      BY <1>2, <2>1, <2>2 DEF Settled, Counted
    <2> QED BY <1>0, <1>1, <1>2, <2>2, <2>3, <2>4, OnlyCall, Zenon
  <1>6. req[t].id = "none" /\ req[t].op # "prune"
    BY <1>0 DEF NoCall
  <1>7. /\ cache' \in Contents /\ store' \in Contents /\ applied' \in [Ids -> Nat]
        /\ failures' \in Nat /\ failures' >= failures
        /\ used \subseteq used' /\ overlapped \subseteq overlapped'
    BY <1>0, <1>2 DEF ApprovalTypes
  <1> QED BY <1>1, <1>2, <1>3, <1>4, <1>5, <1>6, <1>7, CallStep, Zenon

\* A step of a call in progress that only moves the call on.
LEMMA MoveOK ==
  ASSUME NEW t \in Admins, NEW c \in ApprovalCalls, ApprovalsInv, CallShape(c),
         req[t].pc \in {"get", "write", "effect", "undo"},
         req' = [req EXCEPT ![t] = c], c.op # "prune",
         \/ c.id = "none" /\ req[t].pc = "get"
         \/ /\ c.id = req[t].id /\ c.op = req[t].op
            /\ req[t].pc = "get" => cache[c.id].state \in From(c.op)
            /\ c.pc = "cache" => ~durable
            /\ req[t].pc = "undo" => c.pc \in {"store", "cache"},
         UNCHANGED <<durable, workload, store, cache, applied, failures, used, overlapped>>
  PROVE  ApprovalsInv'
  <1> PICK a \in Ids : a = req[t].id
    BY Working
  <1>0. /\ req[t] \in ApprovalCalls /\ CallShape(req[t]) /\ a \in Ids /\ a \in used
        /\ req[t].op \in Decisions \cup {"propose"} /\ req[t].op # "prune"
        /\ a \notin overlapped =>
             /\ Settled(a)
             /\ \A u \in Admins \ {t} :
                  req[u].id # a /\ req[u].op # "prune" /\ req[u].pc # "swap"
    BY Working
  <1>1. ApprovalTypes /\ c.pc # "swap"
    BY CallKinds DEF ApprovalsInv
  <1>2. req[t].op # "propose" /\ (req[t].pc = "undo" => req[t].op = "apply")
    BY <1>0 DEF CallShape
  <1>3. a # "none" /\ c.id \in {a, "none"}
    BY <1>0, ApprovalsAssumption
  <1>4. ASSUME a \notin overlapped' PROVE Settled(a)'
    <2>1. /\ Settled(a)
          /\ \A u \in Admins \ {t} : req[u].id # a /\ req[u].op # "prune" /\ req[u].pc # "swap"
      BY <1>0, <1>4, Zenon
    <2>2. durable => cache'[a] = store'[a]
      BY <1>0, <2>1, Zenon DEF Settled, Mirrored
    <2>3. durable => IF c.id = a /\ c.pc = "cache" THEN c.cur = store'[a]
                     ELSE cache'[a] = store'[a]
      BY <1>3, <2>2, Zenon
    <2>4. c.id = a => /\ c.op = "propose" => applied'[a] = 0
                      /\ c.op # "propose" /\ c.pc # "get" => cache'[a].state \in From(c.op)
      BY <1>2, <1>3, <2>1, Zenon DEF Settled, Counted
    <2>5. applied'[a] <= failures' + 1
      BY <2>1, Zenon DEF Settled, Counted
    <2>6. \/ cache'[a].state \notin {"PROPOSED", "APPROVED"}
          \/ applied'[a] <= failures'
          \/ c.id = a /\ c.op = "apply" /\ c.pc \in {"undo", "store", "cache"}
      BY <1>2, <1>3, <2>1 DEF Settled, Counted
    <2>7. durable' = durable /\ a \in Ids
      BY <1>0
    <2> QED BY <1>1, <2>1, <2>3, <2>4, <2>5, <2>6, <2>7, OnlyCall, Zenon
  <1>5. /\ cache' \in Contents /\ store' \in Contents /\ applied' \in [Ids -> Nat]
        /\ failures' \in Nat /\ failures' >= failures
        /\ durable' = durable /\ workload' = workload
    BY <1>1 DEF ApprovalTypes
  <1>6. /\ req[t].id \in {a, "none"} /\ req[t].op # "prune" /\ a \in Ids
        /\ a \in used' /\ used \subseteq used' /\ overlapped \subseteq overlapped'
        /\ \A id \in Ids \ {a} : /\ cache'[id] = cache[id] /\ store'[id] = store[id]
                                 /\ applied'[id] = applied[id]
    BY <1>0
  <1> QED BY <1>3, <1>4, <1>5, <1>6, CallStep, Zenon

\* A record with one field of it changed.
LEMMA CurState ==
  ASSUME NEW p \in Proposals, p # None, NEW x \in ProposalStates
  PROVE  /\ [p EXCEPT !.state = x] \in Proposals /\ [p EXCEPT !.state = x] # None
         /\ [p EXCEPT !.state = x].state = x
  BY DEF Proposals, ProposalStates, None

LEMMA GetOK ==
  ASSUME NEW t \in Admins, ApprovalsInv, Get(t) PROVE ApprovalsInv'
  <1> DEFINE r == req[t]
             d == [r EXCEPT !.cur = cache[r.id],
                            !.pc = IF r.op \in {"apply", "rollback"} THEN "effect" ELSE "write"]
  <1>1. /\ r.pc = "get"
        /\ UNCHANGED <<durable, workload, store, cache, applied, failures, used, overlapped>>
        /\ \/ req' = [req EXCEPT ![t] = NoCall]
           \/ req' = [req EXCEPT ![t] = d] /\ cache[r.id].state \in From(r.op)
    BY Zenon DEF Get, options
  <1>2. /\ r \in ApprovalCalls /\ CallShape(r) /\ r.id \in Ids
        /\ r.op \in Decisions \cup {"propose"} /\ r.op # "prune"
    BY <1>1, Working
  <1>3. CASE req' = [req EXCEPT ![t] = NoCall]
    <2>1. NoCall.op # "prune" /\ NoCall.id = "none"
      BY DEF NoCall
    <2> QED BY <1>1, <1>3, <2>1, NoCallOK, MoveOK, Zenon
  <1>4. CASE req' = [req EXCEPT ![t] = d] /\ cache[r.id].state \in From(r.op)
    <2>1. cache[r.id] \in Proposals /\ cache[r.id] # None
      BY <1>2, <1>4 DEF ApprovalsInv, ApprovalTypes, Contents, From, None
    <2>2. r.op \in Decisions
      BY <1>1, <1>2 DEF CallShape
    <2> HIDE DEF r
    <2>3. /\ d \in ApprovalCalls /\ d.id = r.id /\ d.op = r.op /\ d.cur = cache[r.id]
          /\ d.pc = IF r.op \in {"apply", "rollback"} THEN "effect" ELSE "write"
      BY <1>2, <2>1, Zenon DEF ApprovalCalls
    <2> HIDE DEF d
    <2>4. CallShape(d)
      BY <1>2, <2>1, <2>2, <2>3 DEF CallShape, Decisions
    <2>5. d.pc \in {"effect", "write"} /\ cache[d.id].state \in From(d.op)
      BY <1>4, <2>3
    <2> QED BY <1>1, <1>2, <1>4, <2>3, <2>4, <2>5, MoveOK, Zenon DEF r
  <1> QED BY <1>1, <1>3, <1>4

LEMMA DecideOK ==
  ASSUME NEW t \in Admins, ApprovalsInv, Decide(t) PROVE ApprovalsInv'
  <1> DEFINE r == req[t]
             q == [r.cur EXCEPT !.state = To(r.op)]
             d == [r EXCEPT !.cur = q, !.pc = IF durable THEN "store" ELSE "cache"]
  <1>1. /\ r.pc = "write"
        /\ UNCHANGED <<durable, workload, store, cache, applied, failures, used, overlapped>>
    BY DEF Decide, options
  <1>2. /\ r \in ApprovalCalls /\ CallShape(r) /\ r.id \in Ids
        /\ r.op \in Decisions \cup {"propose"} /\ r.op # "prune"
    BY <1>1, Working
  <1>3. r.op \in Decisions /\ r.cur \in Proposals /\ r.cur # None
    BY <1>1, <1>2 DEF CallShape, ApprovalCalls
  <1>4. To(r.op) \in ProposalStates /\ (r.op \in {"apply", "rollback"} =>
                                         To(r.op) \in {"APPLIED", "ROLLED_BACK"})
    BY <1>3 DEF To, ProposalStates, Decisions
  <1>5. q \in Proposals /\ q # None /\ q.state = To(r.op)
    BY <1>3, <1>4, CurState
  <1>6. req' = [req EXCEPT ![t] = d]
    BY DEF Decide, ApprovalsInv, ApprovalTypes, ApprovalCalls
  <1> HIDE DEF r, q
  <1>7. /\ d \in ApprovalCalls /\ d.id = r.id /\ d.op = r.op /\ d.cur = q
        /\ d.pc = IF durable THEN "store" ELSE "cache"
    BY <1>2, <1>5, Zenon DEF ApprovalCalls
  <1> HIDE DEF d
  <1>8. CallShape(d)
    BY <1>2, <1>3, <1>4, <1>5, <1>7 DEF CallShape, Decisions
  <1>9. d.pc = "cache" => ~durable
    BY <1>7
  <1> QED BY <1>1, <1>2, <1>6, <1>7, <1>8, <1>9, MoveOK, Zenon DEF r

LEMMA UndoOK ==
  ASSUME NEW t \in Admins, ApprovalsInv, Undo(t) PROVE ApprovalsInv'
  <1> DEFINE r == req[t]
             d == [r EXCEPT !.pc = IF durable THEN "store" ELSE "cache"]
  <1>1. /\ r.pc = "undo" /\ req' = [req EXCEPT ![t] = d]
        /\ UNCHANGED <<durable, workload, store, cache, applied, failures, used, overlapped>>
    BY DEF Undo, options
  <1>2. /\ r \in ApprovalCalls /\ CallShape(r) /\ r.id \in Ids
        /\ r.op \in Decisions \cup {"propose"} /\ r.op # "prune"
    BY <1>1, Working
  <1>3. r.op = "apply" /\ r.cur.state \in {"APPLIED", "ROLLED_BACK"} /\ r.cur # None
    BY <1>1, <1>2 DEF CallShape, Decisions
  <1> HIDE DEF r
  <1>4. /\ d \in ApprovalCalls /\ d.id = r.id /\ d.op = r.op /\ d.cur = r.cur
        /\ d.pc = IF durable THEN "store" ELSE "cache"
    BY <1>2 DEF ApprovalCalls
  <1> HIDE DEF d
  <1>5. CallShape(d)
    BY <1>2, <1>3, <1>4 DEF CallShape, Decisions
  <1>6. (d.pc = "cache" => ~durable) /\ d.pc \in {"store", "cache"}
    BY <1>4
  <1> QED BY <1>1, <1>2, <1>4, <1>5, <1>6, MoveOK, Zenon DEF r

LEMMA RollbackOK ==
  ASSUME NEW t \in Admins, ApprovalsInv, Rollback(t) PROVE ApprovalsInv'
  <1> DEFINE r == req[t]
             q == [r.cur EXCEPT !.state = "ROLLED_BACK"]
             d == [r EXCEPT !.cur = q, !.pc = IF durable THEN "store" ELSE "cache"]
  <1>1. /\ r.pc = "effect" /\ r.op = "rollback"
        /\ UNCHANGED <<durable, workload, store, cache, applied, failures, used, overlapped>>
    BY DEF Rollback, options
  <1>2. r \in ApprovalCalls /\ CallShape(r) /\ r.id \in Ids
    BY <1>1, Working, Zenon
  <1>3. r.cur \in Proposals /\ r.cur # None
    BY <1>1, <1>2 DEF CallShape, ApprovalCalls, Decisions
  <1>4. q \in Proposals /\ q # None /\ q.state = "ROLLED_BACK"
    BY <1>3, CurState, Zenon DEF ProposalStates
  <1>5. req' = [req EXCEPT ![t] = d]
    BY DEF Rollback, ApprovalsInv, ApprovalTypes, ApprovalCalls
  <1> HIDE DEF r, q
  <1>6. /\ d \in ApprovalCalls /\ d.id = r.id /\ d.op = r.op /\ d.cur = q
        /\ d.pc = IF durable THEN "store" ELSE "cache"
    BY <1>2, <1>4, Zenon DEF ApprovalCalls
  <1> HIDE DEF d
  <1>7. CallShape(d)
    BY <1>1, <1>2, <1>4, <1>6 DEF CallShape, Decisions
  <1>8. (d.pc = "cache" => ~durable) /\ d.op # "prune"
    BY <1>1, <1>6
  <1> QED BY <1>1, <1>2, <1>5, <1>6, <1>7, <1>8, MoveOK, Zenon DEF r

\* A call in progress on a: what its step must leave behind.
LEMMA WorkStep ==
  ASSUME NEW t \in Admins, NEW c \in ApprovalCalls, NEW a \in Ids, ApprovalsInv, CallShape(c),
         req[t].pc \notin {"idle", "list", "swap"}, req[t].id = a,
         req' = [req EXCEPT ![t] = c], c.id \in {a, "none"}, c.op # "prune",
         cache' \in Contents, store' \in Contents, applied' \in [Ids -> Nat],
         \A id \in Ids \ {a} : /\ cache'[id] = cache[id] /\ store'[id] = store[id]
                               /\ applied'[id] = applied[id],
         failures' \in Nat, failures' >= failures,
         UNCHANGED <<durable, workload, used, overlapped>>,
         ASSUME a \notin overlapped, Settled(a)
         PROVE  /\ durable => IF c.id = a /\ c.pc = "cache" THEN c.cur = store'[a]
                              ELSE cache'[a] = store'[a]
                /\ c.id = a => /\ c.op = "propose" => applied'[a] = 0
                               /\ c.op # "propose" /\ c.pc # "get" =>
                                    cache'[a].state \in From(c.op)
                /\ applied'[a] <= failures' + 1
                /\ \/ cache'[a].state \notin {"PROPOSED", "APPROVED"}
                   \/ applied'[a] <= failures'
                   \/ c.id = a /\ c.op = "apply" /\ c.pc \in {"undo", "store", "cache"}
  PROVE  ApprovalsInv'
  <1>0. /\ a \in used /\ req[t].op # "prune"
        /\ a \notin overlapped =>
             /\ Settled(a)
             /\ \A u \in Admins \ {t} :
                  req[u].id # a /\ req[u].op # "prune" /\ req[u].pc # "swap"
    BY Working, Zenon
  <1>1. ApprovalTypes /\ c.pc # "swap"
    BY CallKinds DEF ApprovalsInv
  <1>2. ASSUME a \notin overlapped' PROVE Settled(a)'
    <2>1. /\ Settled(a) /\ durable' = durable /\ a \notin overlapped
          /\ \A u \in Admins \ {t} : req[u].id # a /\ req[u].op # "prune" /\ req[u].pc # "swap"
      BY <1>0, <1>2
    <2> QED BY <1>1, <2>1, OnlyCall, Zenon
  <1>3. /\ durable' = durable /\ workload' = workload
        /\ a \in used' /\ used \subseteq used' /\ overlapped \subseteq overlapped'
    BY <1>0
  <1> QED BY <1>0, <1>2, <1>3, CallStep, Zenon

\* What is settled about the only call on an id.
LEMMA OnlyCallHas ==
  ASSUME NEW t \in Admins, NEW a \in Ids, ApprovalsInv, a \notin overlapped, Settled(a),
         req[t].id = a, req[t].pc \notin {"idle", "list", "swap"}
  PROVE  /\ durable /\ req[t].pc # "cache" => cache[a] = store[a]
         /\ durable /\ req[t].pc = "cache" => req[t].cur = store[a]
         /\ req[t].op = "propose" => applied[a] = 0
         /\ req[t].op # "propose" /\ req[t].pc # "get" => cache[a].state \in From(req[t].op)
         /\ applied[a] <= failures + 1
         /\ \/ cache[a].state \notin {"PROPOSED", "APPROVED"}
            \/ applied[a] <= failures
            \/ req[t].op = "apply" /\ req[t].pc \in {"undo", "store", "cache"}
  <1>1. /\ req[t].op # "prune"
        /\ \A u \in Admins \ {t} : req[u].id # a /\ req[u].op # "prune" /\ req[u].pc # "swap"
    BY Working
  <1>2. /\ durable /\ req[t].pc # "cache" => cache[a] = store[a]
        /\ durable /\ req[t].pc = "cache" => req[t].cur = store[a]
    BY <1>1 DEF Settled, Mirrored
  <1> QED BY <1>1, <1>2 DEF Settled, Counted

LEMMA ApplyOK ==
  ASSUME NEW t \in Admins, ApprovalsInv, Apply(t) PROVE ApprovalsInv'
  <1>1. /\ req[t].pc = "effect" /\ req[t].op = "apply"
        /\ UNCHANGED <<durable, workload, store, cache, failures, used, overlapped>>
        /\ applied' = [applied EXCEPT ![req[t].id] = IF @ < AppliedCap THEN @ + 1 ELSE @]
    BY DEF Apply, options
  <1>2. PICK o \in Applier_apply(req[t].cur.payload, targets, enabled) :
          req' = [req EXCEPT
            ![t].cur.state = IF o.ok THEN "APPLIED" ELSE "ROLLED_BACK",
            ![t].pc = IF ~o.ok THEN "undo" ELSE IF durable THEN "store" ELSE "cache"]
    BY Zenon DEF Apply
  <1> DEFINE r == req[t]
             x == IF o.ok THEN "APPLIED" ELSE "ROLLED_BACK"
             y == IF ~o.ok THEN "undo" ELSE IF durable THEN "store" ELSE "cache"
             q == [r.cur EXCEPT !.state = x]
             d == [r EXCEPT !.cur = q, !.pc = y]
  <1>3. r \in ApprovalCalls /\ CallShape(r) /\ r.id \in Ids
    BY <1>1, Working, Zenon
  <1>4. r.cur \in Proposals /\ r.cur # None
    BY <1>1, <1>3 DEF CallShape, ApprovalCalls, Decisions
  <1>5. /\ x \in {"APPLIED", "ROLLED_BACK"} /\ y \in {"undo", "store", "cache"}
        /\ y = "store" => durable
        /\ y = "cache" => ~durable
    OBVIOUS
  <1> HIDE DEF x, y
  <1>6. q \in Proposals /\ q # None /\ q.state = x
    <2>1. x \in ProposalStates
      BY <1>5 DEF ProposalStates
    <2> QED BY <1>4, <2>1, CurState
  <1>7. req' = [req EXCEPT ![t] = d]
    BY <1>2, Zenon DEF ApprovalsInv, ApprovalTypes, ApprovalCalls, x, y
  <1>8. PICK a \in Ids : a = r.id
    BY <1>3
  <1>9. ApprovalTypes /\ AppliedCap \in Nat
    BY ApprovalsAssumption DEF ApprovalsInv, AppliedCap
  <1>10. /\ applied' \in [Ids -> Nat] /\ applied'[a] <= applied[a] + 1
         /\ \A id \in Ids \ {a} : applied'[id] = applied[id]
    BY <1>1, <1>8, <1>9 DEF ApprovalTypes
  <1>11. req[t].pc \notin {"idle", "list", "swap"} /\ req[t].id = a
    BY <1>1, <1>8, Zenon
  <1>12. ASSUME a \notin overlapped, Settled(a)
         PROVE  /\ applied'[a] <= failures' + 1 /\ (durable => cache'[a] = store'[a])
                /\ cache'[a].state \in From("apply")
    <2>1. cache[a].state \in From("apply") /\ (durable => cache[a] = store[a])
      BY <1>1, <1>11, <1>12, OnlyCallHas
    <2>2. cache[a].state = "APPROVED"
      BY <2>1, Zenon DEF From
    <2>3. applied[a] <= failures
      BY <1>1, <1>11, <1>12, <2>2, OnlyCallHas, Zenon
    <2>4. applied[a] \in Nat /\ applied'[a] \in Nat /\ failures \in Nat /\ failures' = failures
      BY <1>1, <1>9, <1>10 DEF ApprovalTypes
    <2>5. applied'[a] <= failures' + 1
      BY <1>10, <2>3, <2>4
    <2> QED BY <1>1, <2>1, <2>5, Zenon
  <1> HIDE DEF r, q
  <1>13. d \in ApprovalCalls /\ d.id = r.id /\ d.op = r.op /\ d.cur = q /\ d.pc = y
    BY <1>3, <1>5, <1>6, Zenon DEF ApprovalCalls
  <1>14. r.op = "apply"
    BY <1>1, Zenon DEF r
  <1> HIDE DEF d
  <1>15. CallShape(d)
    BY <1>3, <1>5, <1>6, <1>13, <1>14, Zenon DEF CallShape, Decisions
  <1>16. /\ cache' \in Contents /\ store' \in Contents /\ failures' \in Nat /\ failures' >= failures
         /\ UNCHANGED <<durable, workload, used, overlapped>>
         /\ \A id \in Ids \ {a} : /\ cache'[id] = cache[id] /\ store'[id] = store[id]
                                  /\ applied'[id] = applied[id]
    BY <1>1, <1>9, <1>10 DEF ApprovalTypes
  <1>17. /\ d.id = a /\ d.op = "apply" /\ d.pc \in {"undo", "store", "cache"}
         /\ durable => d.pc # "cache"
    BY <1>5, <1>8, <1>13, <1>14
  <1> QED BY <1>7, <1>10, <1>11, <1>12, <1>13, <1>15, <1>16, <1>17, WorkStep, Zenon

LEMMA StoreWriteOK ==
  ASSUME NEW t \in Admins, ApprovalsInv, StoreWrite(t) PROVE ApprovalsInv'
  <1> DEFINE r == req[t]
             d == [r EXCEPT !.pc = "cache"]
  <1>1. /\ r.pc = "store" /\ req' = [req EXCEPT ![t] = d]
        /\ store' = [store EXCEPT ![r.id] = r.cur]
        /\ UNCHANGED <<durable, workload, cache, applied, failures, used, overlapped>>
    BY DEF StoreWrite, options
  <1>2. /\ r \in ApprovalCalls /\ CallShape(r) /\ r.id \in Ids
        /\ r.op \in Decisions \cup {"propose"} /\ r.op # "prune"
    BY <1>1, Working
  <1>3. PICK a \in Ids : a = r.id
    BY <1>2
  <1>4. ApprovalTypes /\ r.cur \in Proposals
    BY <1>2 DEF ApprovalsInv, ApprovalCalls
  <1>5. req[t].pc \notin {"idle", "list", "swap"} /\ req[t].id = a
    BY <1>1, <1>3
  <1>6. store' \in Contents /\ store'[a] = r.cur /\ \A id \in Ids \ {a} : store'[id] = store[id]
    BY <1>1, <1>3, <1>4 DEF ApprovalTypes, Contents
  <1>7. ASSUME a \notin overlapped, Settled(a)
        PROVE  /\ r.op = "propose" => applied'[a] = 0
               /\ r.op # "propose" => cache'[a].state \in From(r.op)
               /\ applied'[a] <= failures' + 1
               /\ \/ cache'[a].state \notin {"PROPOSED", "APPROVED"}
                  \/ applied'[a] <= failures'
                  \/ r.op = "apply"
    BY <1>1, <1>5, <1>7, OnlyCallHas
  <1> HIDE DEF r
  <1>8. d \in ApprovalCalls /\ d.id = r.id /\ d.op = r.op /\ d.cur = r.cur /\ d.pc = "cache"
    BY <1>2 DEF ApprovalCalls
  <1> HIDE DEF d
  <1>9. CallShape(d)
    BY <1>1, <1>2, <1>8 DEF CallShape, Decisions
  <1>10. /\ cache' \in Contents /\ applied' \in [Ids -> Nat]
         /\ failures' \in Nat /\ failures' >= failures
         /\ UNCHANGED <<durable, workload, used, overlapped>>
         /\ \A id \in Ids \ {a} : /\ cache'[id] = cache[id] /\ store'[id] = store[id]
                                  /\ applied'[id] = applied[id]
    BY <1>1, <1>4, <1>6 DEF ApprovalTypes
  <1>11. d.id = a /\ d.pc = "cache" /\ d.cur = store'[a] /\ d.op = r.op /\ d.op # "prune"
    BY <1>2, <1>3, <1>6, <1>8
  <1> QED BY <1>1, <1>5, <1>6, <1>7, <1>8, <1>9, <1>10, <1>11, WorkStep, ZenonT(30)

LEMMA StoreRefusesOK ==
  ASSUME NEW t \in Admins, ApprovalsInv, StoreRefuses(t) PROVE ApprovalsInv'
  <1>1. /\ req[t].pc = "store" /\ req' = [req EXCEPT ![t] = NoCall]
        /\ \/ failures' = failures + 1
           \/ ~Exists(store, req[t].id) /\ failures' = failures
        /\ UNCHANGED <<durable, workload, store, cache, applied, used, overlapped>>
    BY DEF StoreRefuses, options
  <1>2. req[t] \in ApprovalCalls /\ CallShape(req[t]) /\ req[t].id \in Ids
    BY <1>1, Working
  <1>3. PICK a \in Ids : a = req[t].id
    BY <1>2, Zenon
  <1>4. ApprovalTypes /\ durable
    BY <1>1, <1>2 DEF ApprovalsInv, CallShape
  <1>5. /\ cache' \in Contents /\ store' \in Contents /\ applied' \in [Ids -> Nat]
        /\ failures' \in Nat /\ failures' >= failures
        /\ UNCHANGED <<durable, workload, used, overlapped>>
        /\ \A id \in Ids \ {a} : /\ cache'[id] = cache[id] /\ store'[id] = store[id]
                                 /\ applied'[id] = applied[id]
    BY <1>1, <1>4 DEF ApprovalTypes
  <1>6. ASSUME a \notin overlapped, Settled(a)
        PROVE  /\ cache'[a] = store'[a]
               /\ applied'[a] <= failures' + 1
               /\ \/ cache'[a].state \notin {"PROPOSED", "APPROVED"}
                  \/ applied'[a] <= failures'
    <2>1. cache[a] = store[a] /\ applied[a] <= failures + 1
      BY <1>1, <1>3, <1>4, <1>6, OnlyCallHas
    <2>2. applied[a] \in Nat /\ failures \in Nat
      BY <1>4, Zenon DEF ApprovalTypes
    <2>3. CASE failures' = failures + 1
      BY <1>1, <2>1, <2>2, <2>3
    <2>4. CASE ~Exists(store, req[t].id) /\ failures' = failures
      BY <1>1, <1>3, <2>1, <2>4, Zenon DEF Exists
    <2> QED BY <1>1, <2>3, <2>4, Zenon
  <1>7. NoCall.id = "none" /\ NoCall.op # "prune" /\ NoCall.id # a
    BY ApprovalsAssumption DEF NoCall
  <1> QED BY <1>1, <1>3, <1>5, <1>6, <1>7, NoCallOK, WorkStep, Zenon

LEMMA CacheWriteOK ==
  ASSUME NEW t \in Admins, ApprovalsInv, CacheWrite(t) PROVE ApprovalsInv'
  <1>1. /\ req[t].pc = "cache" /\ req' = [req EXCEPT ![t] = NoCall]
        /\ cache' = [cache EXCEPT ![req[t].id] = req[t].cur]
        /\ UNCHANGED <<durable, workload, store, applied, failures, used, overlapped>>
    BY DEF CacheWrite, options
  <1>2. /\ req[t] \in ApprovalCalls /\ CallShape(req[t]) /\ req[t].id \in Ids
        /\ req[t].op \in Decisions \cup {"propose"}
    BY <1>1, Working
  <1>3. PICK a \in Ids : a = req[t].id
    BY <1>2, Zenon
  <1>4. ApprovalTypes /\ req[t].cur \in Proposals
    BY <1>2 DEF ApprovalsInv, ApprovalCalls
  <1>5. cache' \in Contents /\ cache'[a] = req[t].cur /\ \A id \in Ids \ {a} : cache'[id] = cache[id]
    BY <1>1, <1>3, <1>4 DEF ApprovalTypes, Contents
  <1>6. /\ store' \in Contents /\ applied' \in [Ids -> Nat]
        /\ failures' \in Nat /\ failures' >= failures
        /\ UNCHANGED <<durable, workload, used, overlapped>>
        /\ \A id \in Ids \ {a} : /\ cache'[id] = cache[id] /\ store'[id] = store[id]
                                 /\ applied'[id] = applied[id]
    BY <1>1, <1>4, <1>5 DEF ApprovalTypes
  <1>7. ASSUME a \notin overlapped, Settled(a)
        PROVE  /\ durable => cache'[a] = store'[a]
               /\ applied'[a] <= failures' + 1
               /\ \/ cache'[a].state \notin {"PROPOSED", "APPROVED"}
                  \/ applied'[a] <= failures'
    <2>1. /\ durable => req[t].cur = store[a]
          /\ req[t].op = "propose" => applied[a] = 0
          /\ req[t].op # "propose" => cache[a].state \in From(req[t].op)
          /\ applied[a] <= failures + 1
          /\ \/ cache[a].state \notin {"PROPOSED", "APPROVED"}
             \/ applied[a] <= failures
             \/ req[t].op = "apply"
      BY <1>1, <1>3, <1>7, OnlyCallHas, Zenon
    <2>2. CASE req[t].op = "propose"
      <3>1. applied[a] = 0 /\ failures \in Nat
        BY <1>4, <2>1, <2>2 DEF ApprovalTypes
      <3>2. applied[a] <= failures /\ applied[a] <= failures + 1
        BY <3>1
      <3> QED BY <1>1, <1>5, <2>1, <3>2, Zenon
    <2>3. CASE req[t].op \in {"apply", "rollback"}
      <3>1. req[t].cur.state \in {"APPLIED", "ROLLED_BACK"}
        BY <1>1, <1>2, <2>3, Zenon DEF CallShape
      <3> QED BY <1>1, <1>5, <2>1, <3>1, Zenon
    <2>4. CASE req[t].op \in {"approve", "reject"}
      <3>1. cache[a].state \in {"PROPOSED", "APPROVED"}
        BY <2>1, <2>4 DEF From
      <3> QED BY <1>1, <1>5, <2>1, <2>4, <3>1
    <2> QED BY <1>2, <2>2, <2>3, <2>4, Zenon DEF Decisions
  <1>8. NoCall.id = "none" /\ NoCall.op # "prune" /\ NoCall.id # a
    BY ApprovalsAssumption DEF NoCall
  <1> QED BY <1>1, <1>3, <1>5, <1>6, <1>7, <1>8, NoCallOK, WorkStep, Zenon

\* The types after a step that changes the call of one thread.
LEMMA TypesStep ==
  ASSUME NEW t \in Admins, NEW c \in ApprovalCalls, ApprovalTypes, CallShape(c),
         req' = [req EXCEPT ![t] = c], cache' \in Contents, store' \in Contents,
         UNCHANGED <<durable, workload, applied, failures>>
  PROVE  ApprovalTypes' /\ req'[t] = c /\ \A u \in Admins \ {t} : req'[u] = req[u]
  <1>1. /\ req' \in [Admins -> ApprovalCalls] /\ req'[t] = c
        /\ \A u \in Admins \ {t} : req'[u] = req[u]
    BY DEF ApprovalTypes
  <1>2. \A u \in Admins : CallShape(req'[u])
    BY <1>1, Zenon DEF ApprovalTypes
  <1>3. \A u \in Admins : CallShape(req[u])'
    BY <1>2 DEF CallShape
  <1> QED BY <1>1, <1>3 DEF ApprovalTypes

LEMMA DropOK ==
  ASSUME NEW m \in Contents, NEW old \in SUBSET Ids
  PROVE  /\ Drop(m, old) \in Contents
         /\ \A id \in Ids : Drop(m, old)[id] \in {m[id], None}
  BY DEF Drop, Contents, Proposals

\* prune() begins: an id it touches is free, or counts as overlapped from now on.
LEMMA PruneOK ==
  ASSUME NEW t \in Admins, ApprovalsInv, prune(t) PROVE ApprovalsInv'
  <1>0. ApprovalTypes /\ req[t] = NoCall
    <2>1. req[t] \in ApprovalCalls /\ CallShape(req[t]) /\ req[t].pc = "idle"
      BY DEF ApprovalsInv, ApprovalTypes, prune
    <2> QED BY <2>1, CallKinds DEF ApprovalsInv
  <1> DEFINE c == [NoCall EXCEPT !.pc = "list", !.op = "prune"]
  <1>1. PICK old \in SUBSET Ids :
          IF durable
          THEN /\ store' = Drop(store, old)
               /\ req' = [req EXCEPT ![t] = c]
               /\ UNCHANGED cache
          ELSE cache' = Drop(cache, old) /\ UNCHANGED <<store, req>>
    BY DEF prune
  <1>2. /\ UNCHANGED <<durable, workload, applied, failures, used>>
        /\ overlapped' = overlapped \cup {id \in Ids : Busy(id) \/ Pruning}
    BY DEF prune, options
  <1>3. c \in ApprovalCalls /\ c.pc = "list" /\ c.op = "prune" /\ c.id = "none"
    BY Zenon DEF NoCall, ApprovalCalls, Decisions, Proposals
  <1> HIDE DEF c
  <1>4. ASSUME NEW id \in Ids \ overlapped'
        PROVE  /\ Settled(id) /\ id # "none"
               /\ \A u \in Admins : req[u].id # id /\ req[u].op # "prune" /\ req[u].pc # "swap"
    <2>1. id \notin overlapped /\ ~Busy(id) /\ ~Pruning
      BY <1>2, <1>4
    <2> QED BY <2>1, Free, ApprovalsAssumption DEF ApprovalsInv
  <1>5. CASE durable
    <2>1. /\ store' = Drop(store, old) /\ cache' = cache
          /\ req' = [req EXCEPT ![t] = c]
      BY <1>1, <1>5
    <2>2. CallShape(c)
      BY <1>3, <1>5 DEF CallShape, Decisions
    <2>3. /\ store' \in Contents /\ cache' \in Contents
          /\ \A id \in Ids : store'[id] \in {store[id], None}
      BY <1>0, <2>1, DropOK DEF ApprovalTypes
    <2>4. ApprovalTypes' /\ req'[t] = c /\ \A u \in Admins \ {t} : req'[u] = req[u]
      BY <1>0, <1>2, <1>3, <2>1, <2>2, <2>3, TypesStep, Zenon
    <2>5. ASSUME NEW id \in Ids \ used' PROVE Unminted(id)'
      <3>1. Unminted(id) /\ id # "none"
        BY <1>2, <2>5, ApprovalsAssumption DEF ApprovalsInv
      <3> QED BY <1>2, <1>3, <2>1, <2>3, <2>4, <3>1, Zenon DEF Unminted
    <2>6. ASSUME NEW id \in Ids \ overlapped' PROVE Settled(id)'
      <3>1. /\ Settled(id) /\ id # "none"
            /\ \A u \in Admins : req[u].id # id /\ req[u].op # "prune" /\ req[u].pc # "swap"
        BY <1>4, <2>6, Zenon
      <3>2. cache[id] = store[id]
        BY <1>5, <3>1, Zenon DEF Settled, Mirrored
      <3>3. OneCall(id)'
        BY <1>3, <2>4, <3>1, Zenon DEF OneCall
      <3>4. Mirrored(id)'
        BY <1>3, <2>1, <2>3, <2>4, <3>1, <3>2, Zenon DEF Mirrored
      <3>5. Counted(id)'
        BY <1>2, <1>3, <2>1, <2>4, <3>1, Zenon DEF Counted, Settled
      <3> QED BY <3>3, <3>4, <3>5 DEF Settled
    <2> QED BY <2>4, <2>5, <2>6 DEF ApprovalsInv
  <1>6. CASE ~durable
    <2>1. cache' = Drop(cache, old) /\ store' = store /\ req' = req
      BY <1>1, <1>6
    <2>2. cache' \in Contents /\ \A id \in Ids : cache'[id] \in {cache[id], None}
      BY <1>0, <2>1, DropOK, Zenon DEF ApprovalTypes
    <2>3. ApprovalTypes'
      BY <1>0, <1>2, <2>1, <2>2, Zenon DEF ApprovalTypes, CallShape
    <2>4. ASSUME NEW id \in Ids \ used' PROVE Unminted(id)'
      BY <1>2, <2>1, <2>2, <2>4, Zenon DEF ApprovalsInv, Unminted
    <2>5. ASSUME NEW id \in Ids \ overlapped' PROVE Settled(id)'
      <3>1. /\ Settled(id)
            /\ \A u \in Admins : req[u].id # id /\ req[u].op # "prune" /\ req[u].pc # "swap"
        BY <1>4, <2>5, Zenon
      <3>2. Mirrored(id)' /\ OneCall(id)'
        BY <1>2, <1>6, <2>1, <3>1, Zenon DEF Mirrored, OneCall
      <3>3. Counted(id)'
        BY <1>2, <2>1, <2>2, <3>1, CountKept, Zenon DEF Settled
      <3> QED BY <3>2, <3>3 DEF Settled
    <2> QED BY <2>3, <2>4, <2>5 DEF ApprovalsInv
  <1> QED BY <1>5, <1>6

LEMMA PruneListOK ==
  ASSUME NEW t \in Admins, ApprovalsInv, PruneList(t) PROVE ApprovalsInv'
  <1> DEFINE r == req[t]
             c == [r EXCEPT !.pc = "swap", !.list = store]
  <1>0. /\ ApprovalTypes /\ r \in ApprovalCalls /\ CallShape(r) /\ r.pc = "list"
        /\ store \in Contents
    BY DEF ApprovalsInv, ApprovalTypes, PruneList
  <1>1. /\ req' = [req EXCEPT ![t] = c]
        /\ UNCHANGED <<durable, workload, store, cache, applied, failures, used, overlapped>>
    BY Zenon DEF PruneList, options
  <1>2. r.op = "prune" /\ r.id = "none" /\ durable
    BY <1>0, CallKinds
  <1> HIDE DEF r
  <1>3. /\ c \in ApprovalCalls /\ c.pc = "swap" /\ c.op = "prune" /\ c.id = "none"
        /\ c.list = store
    BY <1>0, <1>2, Zenon DEF ApprovalCalls
  <1> HIDE DEF c
  <1>4. CallShape(c)
    BY <1>0, <1>2, <1>3 DEF CallShape, Decisions
  <1>5. ApprovalTypes' /\ req'[t] = c /\ \A u \in Admins \ {t} : req'[u] = req[u]
    <2>1. cache' \in Contents /\ store' \in Contents
      BY <1>0, <1>1, Zenon DEF ApprovalTypes
    <2> QED BY <1>0, <1>1, <1>3, <1>4, <2>1, TypesStep, Zenon
  <1>6. ASSUME NEW id \in Ids \ used' PROVE Unminted(id)'
    <2>1. Unminted(id) /\ id # "none"
      BY <1>1, <1>6, ApprovalsAssumption, Zenon DEF ApprovalsInv
    <2> QED BY <1>1, <1>3, <1>5, <2>1, Zenon DEF Unminted
  <1>7. ASSUME NEW id \in Ids \ overlapped' PROVE Settled(id)'
    <2>1. Settled(id) /\ id # "none" /\ req[t].op = "prune" /\ req[t].id = "none"
      BY <1>1, <1>2, <1>7, ApprovalsAssumption, Zenon DEF ApprovalsInv, r
    <2>2. \A u \in Admins : req[u].id # id /\ (u # t => req[u].op # "prune")
      BY <2>1, Zenon DEF OneCall, Settled
    <2>3. OneCall(id)'
      BY <1>3, <1>5, <2>1, <2>2, Zenon DEF OneCall
    <2>4. Mirrored(id)'
      BY <1>1, <1>3, <1>5, <2>1, <2>2, Zenon DEF Mirrored, Settled
    <2>5. Counted(id)'
      <3>1. Counted(id) /\ id \in Ids
        BY <1>7, <2>1, Zenon DEF Settled
      <3>2. UNCHANGED <<applied, failures>> /\ cache'[id] \in {cache[id], None}
        BY <1>1, Zenon
      <3>3. \A u \in Admins : req[u].id # id /\ req'[u].id # id
        BY <1>3, <1>5, <2>1, <2>2, Zenon
      <3> QED BY <3>1, <3>2, <3>3, CountKept, Zenon
    <2> QED BY <2>3, <2>4, <2>5, Zenon DEF Settled
  <1> QED BY <1>5, <1>6, <1>7, Zenon DEF ApprovalsInv

LEMMA PruneSwapOK ==
  ASSUME NEW t \in Admins, ApprovalsInv, PruneSwap(t) PROVE ApprovalsInv'
  <1>0. /\ ApprovalTypes /\ req[t] \in ApprovalCalls /\ CallShape(req[t])
        /\ req[t].pc = "swap"
    BY DEF ApprovalsInv, ApprovalTypes, PruneSwap
  <1>1. /\ req' = [req EXCEPT ![t] = NoCall] /\ cache' = req[t].list
        /\ UNCHANGED <<durable, workload, store, applied, failures, used, overlapped>>
    BY DEF PruneSwap, options
  <1>2. req[t].op = "prune" /\ durable /\ req[t].list \in Contents
    BY <1>0, CallKinds DEF CallShape
  <1>3. NoCall.op # "prune" /\ NoCall.id = "none" /\ NoCall.pc = "idle"
    BY DEF NoCall
  <1>4. ApprovalTypes' /\ req'[t] = NoCall /\ \A u \in Admins \ {t} : req'[u] = req[u]
    <2>1. cache' \in Contents /\ store' \in Contents
      BY <1>0, <1>1, <1>2, Zenon DEF ApprovalTypes
    <2> QED BY <1>0, <1>1, <2>1, NoCallOK, TypesStep, Zenon
  <1>5. ASSUME NEW id \in Ids \ used' PROVE Unminted(id)'
    <2>1. Unminted(id) /\ id # "none"
      BY <1>1, <1>5, ApprovalsAssumption, Zenon DEF ApprovalsInv
    <2> QED BY <1>0, <1>1, <1>3, <1>4, <2>1, Zenon DEF Unminted
  <1>6. ASSUME NEW id \in Ids \ overlapped' PROVE Settled(id)'
    <2>1. Settled(id) /\ id # "none"
      BY <1>1, <1>6, ApprovalsAssumption, Zenon DEF ApprovalsInv
    <2>2. cache'[id] = store[id] /\ store[id] \in {cache[id], None}
      BY <1>0, <1>1, <1>2, <2>1, Zenon DEF Settled, Mirrored
    <2>3. \A u \in Admins : /\ req[u].id # id
                            /\ u # t => req[u].op # "prune"
      BY <1>2, <2>1 DEF Settled, OneCall
    <2>4. \A u \in Admins : u # t => req[u].pc # "swap"
      BY <1>0, <2>3, CallKinds DEF ApprovalTypes
    <2>5. OneCall(id)'
      BY <1>3, <1>4, <2>1, <2>3, Zenon DEF OneCall
    <2>6. Mirrored(id)'
      BY <1>1, <1>3, <1>4, <2>1, <2>2, <2>3, <2>4, Zenon DEF Mirrored
    <2>7. Counted(id)'
      <3>1. \A u \in Admins : req[u].id # id /\ req'[u].id # id
        BY <1>3, <1>4, <2>1, <2>3, Zenon
      <3>2. cache'[id] \in {cache[id], None} /\ id \in Ids
        BY <1>6, <2>2, Zenon
      <3> QED BY <1>1, <2>1, <3>1, <3>2, CountKept, Zenon DEF Settled
    <2> QED BY <2>5, <2>6, <2>7 DEF Settled
  <1> QED BY <1>4, <1>5, <1>6, Zenon DEF ApprovalsInv

\* Nobody is at work after a restart.
LEMMA RestartOK ==
  ASSUME ApprovalsInv, initialize PROVE ApprovalsInv'
  <1>0. ApprovalTypes
    BY DEF ApprovalsInv
  <1>1. /\ req' = [t \in Admins |-> NoCall] /\ applied' = [id \in Ids |-> 0]
        /\ cache' = IF durable THEN store ELSE [id \in Ids |-> None]
        /\ UNCHANGED <<durable, workload, store, used, overlapped, failures>>
    BY DEF initialize, options
  <1>2. NoCall.op = "none" /\ NoCall.id = "none" /\ NoCall.pc = "idle"
    BY DEF NoCall
  <1>3. \A t \in Admins : req'[t] = NoCall
    BY <1>1
  <1>4. /\ cache' \in Contents /\ (durable => cache' = store)
        /\ \A id \in Ids : cache'[id] \in {store[id], None}
    BY <1>0, <1>1 DEF ApprovalTypes, Contents, Proposals
  <1>5. ApprovalTypes'
    <2>1. \A t \in Admins : CallShape(req[t])'
      BY <1>3 DEF CallShape, NoCall, Decisions
    <2>2. req' \in [Admins -> ApprovalCalls] /\ applied' \in [Ids -> Nat]
      BY <1>1, NoCallOK, Zenon
    <2> QED BY <1>0, <1>1, <1>4, <2>1, <2>2, Zenon DEF ApprovalTypes
  <1>6. ASSUME NEW id \in Ids \ used' PROVE Unminted(id)'
    <2>1. Unminted(id) /\ id # "none"
      BY <1>1, <1>6, ApprovalsAssumption, Zenon DEF ApprovalsInv
    <2> QED BY <1>1, <1>2, <1>3, <1>4, <2>1, Zenon DEF Unminted
  <1>7. ASSUME NEW id \in Ids \ overlapped' PROVE Settled(id)'
    <2>1. id # "none" /\ applied'[id] = 0
      BY <1>1, ApprovalsAssumption
    <2>2. applied'[id] <= failures' /\ applied'[id] <= failures' + 1
      <3>1. failures' \in Nat /\ 0 <= failures' /\ 0 <= failures' + 1
        BY <1>0, <1>1 DEF ApprovalTypes
      <3> QED BY <2>1, <3>1, Zenon
    <2>3. OneCall(id)' /\ Mirrored(id)'
      BY <1>1, <1>2, <1>3, <1>4, <2>1, Zenon DEF OneCall, Mirrored
    <2>4. Counted(id)'
      BY <1>2, <1>3, <2>1, <2>2 DEF Counted
    <2> QED BY <2>3, <2>4, Zenon DEF Settled
  <1> QED BY <1>5, <1>6, <1>7 DEF ApprovalsInv

LEMMA ApprovalsStart == ApprovalsInit => ApprovalsInv
  <1> SUFFICES ASSUME ApprovalsInit PROVE ApprovalsInv
    OBVIOUS
  <1>1. \A t \in Admins : req[t] = NoCall
    BY DEF ApprovalsInit
  <1>2. NoCall.op = "none" /\ NoCall.id = "none" /\ NoCall.pc = "idle"
    BY DEF NoCall
  <1>3. ApprovalTypes
    BY <1>1, NoCallOK DEF ApprovalsInit, ApprovalTypes, Contents, Proposals
  <1>4. \A id \in Ids : /\ cache[id] = None /\ store[id] = None /\ applied[id] = 0
                        /\ id # "none"
    BY ApprovalsAssumption DEF ApprovalsInit
  <1>5. \A id \in Ids : Unminted(id)
    BY <1>1, <1>2, <1>4 DEF Unminted
  <1>6. ASSUME NEW id \in Ids PROVE Settled(id)
    <2>1. failures = 0
      BY Zenon DEF ApprovalsInit
    <2>2. OneCall(id) /\ Mirrored(id)
      BY <1>1, <1>2, <1>4, Zenon DEF OneCall, Mirrored
    <2>3. Counted(id)
      BY <1>1, <1>2, <1>4, <2>1 DEF Counted
    <2> QED BY <2>2, <2>3 DEF Settled
  <1> QED BY <1>3, <1>5, <1>6 DEF ApprovalsInv

LEMMA ApprovalsNextInv == ApprovalsInv /\ [ApprovalsNext]_avars => ApprovalsInv'
  <1> SUFFICES ASSUME ApprovalsInv, [ApprovalsNext]_avars PROVE ApprovalsInv'
    BY Zenon
  <1>1. ASSUME NEW t \in Admins, Serve(t) PROVE ApprovalsInv'
    <2>1. ASSUME NEW id \in Ids, NEW op \in {"approve", "reject", "apply", "rollback"},
                 Request(t, id, op)
          PROVE  ApprovalsInv'
      BY <2>1, RequestOK DEF Decisions
    <2> QED BY <1>1, <2>1, ProposeOK, GetOK, DecideOK, ApplyOK, UndoOK, RollbackOK, StoreWriteOK,
               StoreRefusesOK, CacheWriteOK, PruneOK, PruneListOK, PruneSwapOK, Zenon DEF Serve
  <1>2. CASE UNCHANGED avars
    <2>1. UNCHANGED <<durable, workload, store, cache, req, applied, used, overlapped, failures>>
      BY <1>2, Zenon DEF avars, options
    <2>2. ApprovalTypes'
      BY <2>1, Zenon DEF ApprovalsInv, ApprovalTypes, CallShape
    <2>3. \A id \in Ids \ used' : Unminted(id)'
      BY <2>1, Zenon DEF ApprovalsInv, Unminted
    <2>4. ASSUME NEW id \in Ids \ overlapped' PROVE Settled(id)'
      <3>1. Settled(id)
        BY <2>1, <2>4, SMTT(30) DEF ApprovalsInv
      <3>2. OneCall(id)' /\ Mirrored(id)'
        BY <2>1, <3>1, Zenon DEF Settled, OneCall, Mirrored
      <3>3. Counted(id)'
        BY <2>1, <3>1, Zenon DEF Settled, Counted
      <3> QED BY <3>2, <3>3 DEF Settled
    <2> QED BY <2>2, <2>3, <2>4 DEF ApprovalsInv
  <1> QED BY <1>1, <1>2, RestartOK DEF ApprovalsNext

LEMMA ApprovalsCorrect == ApprovalsSpec => []ApprovalsInv
  BY ApprovalsStart, ApprovalsNextInv, PTL DEF ApprovalsSpec

\* Between the calls on it the cache shows a proposal as the store holds it, for
\* any number of threads, proposals, failing writes, prunes and restarts
\* (ApprovalQueue::insert, update, prune, initialize).
THEOREM QueueMirrorsStore == ApprovalsSpec => []CacheMirrorsStore
  <1>1. ApprovalsInv => CacheMirrorsStore
    <2> SUFFICES ASSUME ApprovalsInv, NEW id \in Ids \ overlapped, durable, ~Busy(id), ~Pruning
                 PROVE  cache[id] = store[id]
      BY Zenon DEF CacheMirrorsStore
    <2>1. \A u \in Admins : req[u].id # id /\ req[u].op # "prune"
      BY Free
    <2> QED BY <2>1, Zenon DEF ApprovalsInv, Settled, Mirrored
  <1> QED BY <1>1, ApprovalsCorrect, PTL

\* A proposal takes effect once more than the store refused to record at most,
\* for any number of threads, proposals and faults
\* (AutonomyApprovalWorkflow::apply).
THEOREM TakesEffectOnce == ApprovalsSpec => []AppliedOnce
  <1>1. ApprovalsInv => AppliedOnce
    <2> SUFFICES ASSUME ApprovalsInv, NEW id \in Ids \ overlapped PROVE applied[id] <= 1 + failures
      BY Zenon DEF AppliedOnce
    <2>1. applied[id] <= failures + 1 /\ failures \in Nat
      BY DEF ApprovalsInv, ApprovalTypes, Settled, Counted
    <2> QED BY <2>1
  <1> QED BY <1>1, ApprovalsCorrect, PTL
=============================================================================

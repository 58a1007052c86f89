-------------------------- MODULE BackgroundProofs --------------------------
(***************************************************************************)
(* The background threads, for any number of callers, queue bounds and     *)
(* batch sizes: the audit writer persists what flush() and shutdown()      *)
(* promise, and the feedback bus loses nothing and delivers what flush()   *)
(* promises.  Each part has an inductive invariant of its own.             *)
(***************************************************************************)
EXTENDS FeedbackBus, AuditLogger, FiniteSetTheorems, SequenceTheorems, TLAPS

(***************************************************************************)
(* The audit writer.  An entry a flush waits for is queued, with the       *)
(* writer, or settled; it is settled as soon as the flush's target has     *)
(* left the list of waiters, for the writer only tells waiters when        *)
(* nothing is queued or written, or, at its end, when nothing is left that *)
(* was queued before stop_ was raised.                                     *)
(***************************************************************************)
AuditTypes ==
  /\ pending \in Seq(Nat) /\ writing \in Seq(Nat) /\ stored \in Seq(Nat)
  /\ DOMAIN flushing = Callers
  /\ \A c \in Callers :
       flushing[c] \in [pc : {"idle", "waiting", "true", "false"}, target : Nat,
                        must : SUBSET Nat, late : BOOLEAN]
  /\ inHand \in [Loggers -> Nat] /\ chained \in Nat /\ flushEpoch \in Nat
  /\ stopWriter \in BOOLEAN

\* Where the writer is, what it holds, and how far shutdown is.
WriterPlaces ==
  /\ writer \in {"head", "wait", "drain", "last", "exited"}
  /\ writer \in {"head", "wait", "exited"} => writing = <<>>
  /\ writer \in {"last", "exited"} => stopWriter
  /\ stopWriter <=> gateway \in {"join", "close", "closed"}
  /\ gateway \in {"close", "closed"} => writer = "exited"

\* Entries that were accepted before stop_ are never again only in the queue.
Persisting(es) ==
  IF writer \in {"last", "exited"} THEN es \subseteq Holds(writing) \cup Settled
  ELSE es \subseteq Accepted

FlushesKept ==
  \A c \in Callers : ~flushing[c].late =>
    /\ Persisting(flushing[c].must)
    /\ \/ flushing[c].pc = "waiting" /\ flushing[c].target \in waiters
       \/ flushing[c].pc \in {"idle", "false"}
       \/ flushing[c].must \subseteq Settled

AuditInv ==
  /\ AuditTypes /\ WriterPlaces /\ FlushesKept
  /\ stopWriter => Persisting(atStop)

-----------------------------------------------------------------------------
\* What the operations on sequences do to the entries they hold.
LEMMA HoldsAppend ==
  ASSUME NEW S, NEW s \in Seq(S), NEW e \in S
  PROVE  Append(s, e) \in Seq(S) /\ Holds(Append(s, e)) = Holds(s) \cup {e}
  <1> DEFINE a == Append(s, e)
  <1>1. /\ a \in Seq(S) /\ Len(a) = Len(s) + 1 /\ a[Len(s) + 1] = e
        /\ \A i \in 1 .. Len(s) : a[i] = s[i]
    BY AppendProperties
  <1>2. DOMAIN a = 1 .. Len(s) + 1 /\ DOMAIN s = 1 .. Len(s) /\ Len(s) \in Nat
    BY <1>1
  <1> HIDE DEF a
  <1>3. Holds(a) \subseteq Holds(s) \cup {e}
    BY <1>1, <1>2 DEF Holds
  <1>4. ASSUME NEW i \in DOMAIN s PROVE s[i] \in Holds(a)
    BY <1>1, <1>2, <1>4 DEF Holds
  <1>5. e \in Holds(a)
    BY <1>1, <1>2 DEF Holds
  <1> QED BY <1>1, <1>3, <1>4, <1>5 DEF Holds, a

LEMMA HoldsTail ==
  ASSUME NEW S, NEW s \in Seq(S), s # <<>>
  PROVE  /\ Tail(s) \in Seq(S) /\ Head(s) \in S /\ Len(Tail(s)) = Len(s) - 1
         /\ Holds(s) = {Head(s)} \cup Holds(Tail(s))
  <1> DEFINE t == Tail(s)
  <1>1. /\ t \in Seq(S) /\ Head(s) \in S /\ Len(t) = Len(s) - 1 /\ Len(s) \in Nat \ {0}
        /\ \A i \in 1 .. Len(t) : t[i] = s[i + 1]
        /\ Head(s) = s[1]
    BY HeadTailProperties, EmptySeq
  <1>2. DOMAIN t = 1 .. Len(s) - 1 /\ DOMAIN s = 1 .. Len(s)
    BY <1>1
  <1> HIDE DEF t
  <1>3. Holds(t) \subseteq Holds(s)
    <2>1. ASSUME NEW i \in DOMAIN t PROVE i + 1 \in DOMAIN s /\ t[i] = s[i + 1]
      BY <1>1, <1>2, <2>1
    <2> QED BY <2>1, Zenon DEF Holds
  <1>4. Head(s) \in Holds(s)
    BY <1>1, <1>2 DEF Holds
  <1>5. ASSUME NEW i \in DOMAIN s PROVE s[i] \in {Head(s)} \cup Holds(t)
    <2>1. CASE i = 1
      BY <1>1, <2>1
    <2>2. CASE i # 1
      <3>1. i - 1 \in DOMAIN t /\ t[i - 1] = s[i]
        BY <1>1, <1>2, <1>5, <2>2
      <3> QED BY <3>1 DEF Holds
    <2> QED BY <2>1, <2>2
  <1>6. Holds(s) \subseteq {Head(s)} \cup Holds(t)
    BY <1>5 DEF Holds
  <1> QED BY <1>1, <1>3, <1>4, <1>6 DEF t

LEMMA HoldsIn == \A S : \A s \in Seq(S) : Holds(s) \subseteq S
BY DEF Holds

LEMMA HoldsEmpty == Holds(<<>>) = {}
BY DEF Holds

LEMMA HoldsSplit ==
  ASSUME NEW S, NEW s \in Seq(S), NEW n \in 0 .. Len(s)
  PROVE  /\ SubSeq(s, 1, n) \in Seq(S) /\ SubSeq(s, n + 1, Len(s)) \in Seq(S)
         /\ Holds(s) = Holds(SubSeq(s, 1, n)) \cup Holds(SubSeq(s, n + 1, Len(s)))
  <1> DEFINE a == SubSeq(s, 1, n)
             b == SubSeq(s, n + 1, Len(s))
  <1>1. a \in Seq(S) /\ Len(a) = n /\ \A i \in 1 .. n : a[i] = s[i]
    BY SubSeqProperties
  <1>2. b \in Seq(S) /\ Len(b) = Len(s) - n /\ \A i \in 1 .. Len(b) : b[i] = s[n + i]
    BY SubSeqProperties
  <1>3. ASSUME NEW i \in 1 .. Len(s) PROVE s[i] \in Holds(a) \cup Holds(b)
    <2>1. CASE i <= n
      BY <1>1, <2>1 DEF Holds
    <2>2. CASE i > n
      <3>1. i - n \in DOMAIN b /\ s[i] = b[i - n]
        BY <1>2, <2>2
      <3> HIDE DEF b
      <3> QED BY <3>1 DEF Holds
    <2> QED BY <2>1, <2>2
  <1>4. Holds(a) \subseteq Holds(s)
    BY <1>1 DEF Holds
  <1>5. Holds(b) \subseteq Holds(s)
    BY <1>2 DEF Holds
  <1>6. Holds(s) \subseteq Holds(a) \cup Holds(b)
    <2>1. DOMAIN s = 1 .. Len(s)
      OBVIOUS
    <2> HIDE DEF a, b
    <2> QED BY <1>3, <2>1, Zenon DEF Holds
  <1> QED BY <1>1, <1>2, <1>4, <1>5, <1>6, Zenon

\* The entries that are settled, and those that are on their way, only grow
\* from one to the other: what a step has to show for FlushesKept and atStop.
Onward ==
  /\ Settled \subseteq Settled'
  /\ Holds(writing) \cup Settled \subseteq (Holds(writing) \cup Settled)'
  /\ Accepted \subseteq Accepted'

\* A step of the loggers or of the writer that tells no waiter.
LEMMA OnwardKeeps ==
  ASSUME AuditInv, AuditTypes', WriterPlaces', Onward,
         UNCHANGED <<flushing, waiters, stopWriter, atStop>>,
         writer' \in {"last", "exited"} <=> writer \in {"last", "exited"}
  PROVE  AuditInv'
  <1>1. ASSUME NEW es, Persisting(es) PROVE Persisting(es)'
    BY <1>1 DEF Persisting, Onward
  <1>2. FlushesKept'
    BY <1>1 DEF AuditInv, FlushesKept, Onward
  <1> QED BY <1>1, <1>2 DEF AuditInv

LEMMA LogOK ==
  ASSUME AuditInv, NEW t \in Loggers, Log(t)
  PROVE  AuditInv'
  <1>1. AuditTypes /\ WriterPlaces
    BY DEF AuditInv
  <1>2. CASE LogChain(t)
    <2>1. AuditTypes' /\ WriterPlaces' /\ Onward
      BY <1>1, <1>2 DEF LogChain, AuditTypes, WriterPlaces, Onward, Accepted, Settled, Holds,
                        waitVars, gatewayVars
    <2> QED BY <1>2, <2>1, OnwardKeeps DEF LogChain, waitVars, gatewayVars
  <1>3. CASE LogEnqueue(t)
    <2>1. inHand[t] \in Nat /\ pending \in Seq(Nat) /\ [inHand EXCEPT ![t] = 0] \in [Loggers -> Nat]
      BY <1>1 DEF AuditTypes
    <2>2. pending' \in Seq(Nat) /\ Holds(pending) \cup lost \subseteq Holds(pending') \cup lost'
          /\ lost \subseteq lost'
      <3>1. CASE Len(pending) >= MaxPending
        <4>1. pending # <<>>
          BY <3>1, AuditAssumption
        <4>2. /\ Tail(pending) \in Seq(Nat)
              /\ Holds(pending) = {Head(pending)} \cup Holds(Tail(pending))
          BY <2>1, <4>1, HoldsTail, Zenon
        <4>3. /\ Append(Tail(pending), inHand[t]) \in Seq(Nat)
              /\ Holds(Append(Tail(pending), inHand[t])) = Holds(Tail(pending)) \cup {inHand[t]}
          <5> DEFINE q == Tail(pending)
          <5>1. q \in Seq(Nat)
            BY <4>2
          <5> HIDE DEF q
          <5>2. /\ Append(q, inHand[t]) \in Seq(Nat)
                /\ Holds(Append(q, inHand[t])) = Holds(q) \cup {inHand[t]}
            BY <2>1, <5>1, HoldsAppend
          <5> QED BY <5>2 DEF q
        <4>4. pending' = Append(Tail(pending), inHand[t]) /\ lost' = lost \cup {Head(pending)}
          BY <1>3, <3>1, Zenon DEF LogEnqueue
        <4> QED BY <4>2, <4>3, <4>4
      <3>2. CASE ~(Len(pending) >= MaxPending)
        <4>1. pending' = Append(pending, inHand[t]) /\ lost' = lost
          BY <1>3, <3>2, Zenon DEF LogEnqueue
        <4> QED BY <2>1, <4>1, HoldsAppend
      <3> QED BY <3>1, <3>2, Zenon
    <2>3. AuditTypes' /\ WriterPlaces'
      BY <1>1, <1>3, <2>1, <2>2, Zenon DEF LogEnqueue, AuditTypes, WriterPlaces, waitVars, gatewayVars
    <2>4. Onward
      BY <1>3, <2>2 DEF LogEnqueue, Onward, Accepted, Settled
    <2> QED BY <1>3, <2>3, <2>4, OnwardKeeps DEF LogEnqueue, waitVars, gatewayVars
  <1> QED BY <1>2, <1>3 DEF Log

LEMMA FlushOK ==
  ASSUME AuditInv, NEW c \in Callers, Flush(c)
  PROVE  AuditInv'
  <1>0. AuditTypes /\ WriterPlaces /\ FlushesKept
    BY DEF AuditInv
  <1>1. UNCHANGED <<logVars, pending, writing, writer, stored, lost, gatewayVars>>
    BY Zenon DEF Flush, AuditFlushBegin, FlushEnd, FlushAgain
  <1>2. WriterPlaces' /\ (stopWriter => Persisting(atStop))'
    BY <1>0, <1>1, Zenon DEF AuditInv, WriterPlaces, Persisting, Accepted, Settled, Holds, gatewayVars
  <1>3. \A es : Persisting(es)' = Persisting(es)
    BY <1>1 DEF Persisting, Accepted, Settled, Holds
  <1>4. waiters \subseteq waiters' /\ Settled' = Settled
    BY <1>1 DEF Flush, AuditFlushBegin, FlushEnd, FlushAgain, waitVars, Settled, Holds
  \* What the flush of c is afterwards.
  <1>5. PICK f : flushing' = [flushing EXCEPT ![c] = f]
    BY <1>0, Zenon DEF Flush, AuditFlushBegin, FlushEnd, FlushAgain, AuditTypes
  <1>6. /\ f \in [pc : {"idle", "waiting", "true", "false"}, target : Nat,
                  must : SUBSET Nat, late : BOOLEAN]
        /\ flushEpoch' \in Nat
        /\ ~f.late => /\ Persisting(f.must)
                      /\ \/ f.pc = "waiting" /\ f.target \in waiters'
                         \/ f.pc \in {"idle", "false"}
                         \/ f.must \subseteq Settled
    <2>1. CASE AuditFlushBegin(c)
      <3> DEFINE must == Holds(pending) \cup Holds(writing)
      <3>1. must \subseteq Accepted /\ must \in SUBSET Nat
        <4>1. Holds(pending) \subseteq Nat /\ Holds(writing) \subseteq Nat
          BY <1>0, HoldsIn, Zenon DEF AuditTypes
        <4> QED BY <4>1, Zenon DEF Accepted
      <3>2. ~stopWriter => Persisting(must)
        BY <1>0, <3>1 DEF Persisting, WriterPlaces
      <3>3. CASE FlushIdle
        <4>1. f = [pc |-> "true", target |-> 0, must |-> must, late |-> stopWriter]
              /\ flushEpoch' = flushEpoch
          BY <1>0, <1>5, <2>1, <3>3, Zenon DEF AuditFlushBegin, AuditTypes, waitVars
        <4>2. ~stopWriter => must = {}
          BY <1>0, <3>3, HoldsEmpty, Zenon DEF FlushIdle, WriterPlaces
        <4> HIDE DEF must
        <4> QED BY <1>0, <3>1, <3>2, <4>1, <4>2 DEF AuditTypes
      <3>4. CASE ~FlushIdle
        <4>1. /\ f = [pc |-> "waiting", target |-> flushEpoch + 1, must |-> must,
                      late |-> stopWriter]
              /\ flushEpoch' = flushEpoch + 1
              /\ waiters' = waiters \cup {flushEpoch + 1}
          BY <1>0, <1>5, <2>1, <3>4, Zenon DEF AuditFlushBegin, AuditTypes
        <4> HIDE DEF must
        <4>2. flushEpoch + 1 \in Nat /\ stopWriter \in BOOLEAN
          BY <1>0 DEF AuditTypes
        <4> QED BY <3>1, <3>2, <4>1, <4>2, Zenon
      <3> QED BY <3>3, <3>4, Zenon
    <2>2. CASE FlushEnd(c)
      <3>1. \/ flushing[c].target \notin waiters /\ f = [flushing[c] EXCEPT !.pc = "true"]
            \/ f = [flushing[c] EXCEPT !.pc = "false"]
        BY <1>0, <1>5, <2>2 DEF FlushEnd, AuditTypes
      <3>2. flushing[c].pc = "waiting" /\ flushEpoch' = flushEpoch
        BY <2>2, Zenon DEF FlushEnd, waitVars
      <3> QED BY <1>0, <3>1, <3>2, Zenon DEF AuditTypes, FlushesKept
    <2>3. CASE FlushAgain(c)
      <3>1. f = NoFlush /\ flushEpoch' = flushEpoch
        BY <1>0, <1>5, <2>3, Zenon DEF FlushAgain, AuditTypes, waitVars
      <3> QED BY <1>0, <3>1, Zenon DEF NoFlush, Persisting, AuditTypes
    <2> QED BY <2>1, <2>2, <2>3, Zenon DEF Flush
  <1>7. AuditTypes'
    BY <1>0, <1>1, <1>5, <1>6, Zenon DEF AuditTypes, logVars, gatewayVars
  <1>8. FlushesKept'
    BY <1>0, <1>3, <1>4, <1>5, <1>6, Zenon DEF FlushesKept, AuditTypes
  <1> QED BY <1>2, <1>7, <1>8, Zenon DEF AuditInv

\* Telling the waiters is right when all that they wait for is settled.
LEMMA TellOK ==
  ASSUME AuditInv, WriterPlaces', WriterFrame, NotifyFlushWaiters,
         UNCHANGED <<pending, writing, stored, lost, faults>>,
         writer' \in {"head", "exited"},
         writer' = "exited" <=> writer \in {"last", "exited"},
         \A es : Persisting(es) => es \subseteq Settled
  PROVE  AuditInv'
  <1>1. AuditTypes'
    BY Zenon DEF AuditInv, AuditTypes, WriterFrame, NotifyFlushWaiters, logVars, gatewayVars
  <1>2. Settled' = Settled /\ Accepted' = Accepted
    BY DEF Settled, Accepted, Holds
  <1>3. Settled \subseteq Accepted
    BY DEF Settled, Accepted
  <1>4. ASSUME NEW es, Persisting(es) PROVE Persisting(es)' /\ es \subseteq Settled'
    BY <1>2, <1>3, <1>4, Zenon DEF Persisting
  <1>5. FlushesKept'
    BY <1>4 DEF AuditInv, FlushesKept, WriterFrame
  <1> QED BY <1>1, <1>4, <1>5, Zenon DEF AuditInv, WriterFrame, gatewayVars

LEMMA WriterOK ==
  ASSUME AuditInv, Writer
  PROVE  AuditInv'
  <1>0. AuditTypes /\ WriterPlaces
    BY DEF AuditInv
  <1>1. CASE WriterHead
    <2>1. CASE stopWriter
      <3>1. /\ writer' = "last" /\ writing' = pending /\ pending' = <<>> /\ writing = <<>>
            /\ writer \notin {"last", "exited"}
            /\ UNCHANGED <<chained, inHand, flushing, stopWriter, gateway, atStop, stored, lost,
                           waiters, flushEpoch, completedEpoch, faults>>
        BY <1>0, <1>1, <2>1, Zenon
           DEF WriterHead, WriterPlaces, WriterFrame, logVars, gatewayVars, waitVars
      <3>2. AuditTypes' /\ WriterPlaces'
        BY <1>0, <2>1, <3>1, Zenon DEF AuditTypes, WriterPlaces
      <3>3. Settled' = Settled /\ Accepted = (Holds(writing) \cup Settled)'
        BY <3>1, HoldsEmpty DEF Settled, Accepted, Holds
      <3>4. ASSUME NEW es, Persisting(es) PROVE Persisting(es)'
        BY <3>1, <3>3, <3>4, Zenon DEF Persisting
      <3>5. FlushesKept'
        BY <3>1, <3>3, <3>4, Zenon DEF AuditInv, FlushesKept
      <3> QED BY <3>1, <3>2, <3>4, <3>5, Zenon DEF AuditInv
    <2>2. CASE ~stopWriter
      <3>1. AuditTypes' /\ WriterPlaces' /\ Onward
        BY <1>0, <1>1, <2>2, Zenon
           DEF WriterHead, AuditTypes, WriterPlaces, Onward, Settled, Accepted, Holds,
               WriterFrame, logVars, gatewayVars, waitVars
      <3> QED BY <1>1, <2>2, <3>1, OnwardKeeps, Zenon DEF WriterHead, WriterFrame, gatewayVars, waitVars
    <2> QED BY <2>1, <2>2, Zenon
  <1>2. CASE WriterTake
    <2> DEFINE n == Least(Len(pending), BatchSize)
    <2>1. n \in 0 .. Len(pending)
      BY <1>0, AuditAssumption DEF Least, AuditTypes
    <2>2. /\ writing' = SubSeq(pending, 1, n) /\ pending' = SubSeq(pending, n + 1, Len(pending))
          /\ writing = <<>> /\ UNCHANGED <<stored, lost>>
      BY <1>0, <1>2, Zenon DEF WriterTake, WriterPlaces
    <2> HIDE DEF n
    <2>3. /\ writing' \in Seq(Nat) /\ pending' \in Seq(Nat)
          /\ Holds(pending) = Holds(writing') \cup Holds(pending')
      BY <1>0, <2>1, <2>2, HoldsSplit, Zenon DEF AuditTypes
    <2>4. Onward
      BY <2>2, <2>3, HoldsEmpty DEF Onward, Accepted, Settled
    <2>5. AuditTypes' /\ WriterPlaces'
      BY <1>0, <1>2, <2>3, Zenon DEF WriterTake, AuditTypes, WriterPlaces, WriterFrame, logVars,
                              gatewayVars, waitVars
    <2> QED BY <1>2, <2>4, <2>5, OnwardKeeps, Zenon DEF WriterTake, WriterFrame, gatewayVars, waitVars
  <1>3. CASE WriterInsert
    <2>1. /\ writing' = Tail(writing) /\ writing \in Seq(Nat) /\ writing # <<>>
          /\ writer \in {"drain", "last"} /\ writer' = writer /\ UNCHANGED pending
      BY <1>0, <1>3 DEF WriterInsert, AuditTypes
    <2>2. /\ writing' \in Seq(Nat) /\ Head(writing) \in Nat
          /\ Holds(writing) = {Head(writing)} \cup Holds(writing')
      BY <2>1, HoldsTail
    <2>3. /\ stored' \in Seq(Nat)
          /\ Settled' = Settled \cup {Head(writing)}
      <3>1. CASE stored' = Append(stored, Head(writing)) /\ UNCHANGED lost
        <4>1. /\ Append(stored, Head(writing)) \in Seq(Nat)
              /\ Holds(Append(stored, Head(writing))) = Holds(stored) \cup {Head(writing)}
          <5> DEFINE e == Head(writing)
          <5>1. e \in Nat /\ stored \in Seq(Nat)
            BY <1>0, <2>2 DEF AuditTypes
          <5> HIDE DEF e
          <5>2. Append(stored, e) \in Seq(Nat) /\ Holds(Append(stored, e)) = Holds(stored) \cup {e}
            BY <5>1, HoldsAppend
          <5> QED BY <5>2 DEF e
        <4> QED BY <3>1, <4>1 DEF Settled
      <3>2. CASE lost' = lost \cup {Head(writing)} /\ UNCHANGED stored
        BY <1>0, <2>2, <3>2, Zenon DEF Settled, AuditTypes
      <3> QED BY <1>3, <3>1, <3>2 DEF WriterInsert
    <2>4. Onward
      BY <2>1, <2>2, <2>3, Zenon DEF Onward, Accepted, Settled
    <2>5. AuditTypes' /\ WriterPlaces'
      BY <1>0, <1>3, <2>1, <2>2, <2>3, Zenon DEF WriterInsert, AuditTypes, WriterPlaces, WriterFrame,
                                          logVars, gatewayVars, waitVars
    <2> QED BY <1>3, <2>1, <2>4, <2>5, OnwardKeeps, Zenon
               DEF WriterInsert, WriterFrame, gatewayVars, waitVars
  <1>4. CASE WriterIdle \/ (WriterDrained /\ pending = <<>>)
    <2>1. /\ pending = <<>> /\ writing = <<>> /\ writer \in {"wait", "drain"} /\ writer' = "head"
          /\ NotifyFlushWaiters /\ WriterFrame /\ UNCHANGED <<pending, writing, stored, lost, faults>>
      BY <1>0, <1>4 DEF WriterIdle, WriterDrained, WriterPlaces
    <2>2. Accepted = Settled
      BY <2>1, HoldsEmpty, Zenon DEF Accepted, Settled
    <2>3. \A es : Persisting(es) => es \subseteq Settled
      BY <2>1, <2>2, Zenon DEF Persisting
    <2>4. WriterPlaces'
      BY <1>0, <2>1, Zenon DEF WriterPlaces, WriterFrame, gatewayVars
    <2> QED BY <2>1, <2>3, <2>4, TellOK, Zenon
  <1>5. CASE WriterDrained /\ pending # <<>>
    <2>1. AuditTypes' /\ WriterPlaces' /\ Onward
      BY <1>0, <1>5, Zenon
         DEF WriterDrained, AuditTypes, WriterPlaces, Onward, Settled, Accepted, Holds,
             WriterFrame, logVars, gatewayVars, waitVars
    <2> QED BY <1>5, <2>1, OnwardKeeps, Zenon DEF WriterDrained, WriterFrame, gatewayVars, waitVars
  <1>6. CASE WriterExit
    <2>1. /\ writing = <<>> /\ writer = "last" /\ writer' = "exited"
          /\ NotifyFlushWaiters /\ WriterFrame /\ UNCHANGED <<pending, writing, stored, lost, faults>>
      BY <1>6 DEF WriterExit
    <2>2. \A es : Persisting(es) => es \subseteq Settled
      BY <2>1, HoldsEmpty, Zenon DEF Persisting
    <2>3. WriterPlaces'
      BY <1>0, <2>1 DEF WriterPlaces, WriterFrame, gatewayVars
    <2> QED BY <2>1, <2>2, <2>3, TellOK, Zenon
  <1> QED BY <1>1, <1>2, <1>3, <1>4, <1>5, <1>6, Zenon DEF Writer

LEMMA MainOK ==
  ASSUME AuditInv, GatewayShutdown
  PROVE  AuditInv'
  <1>0. AuditTypes /\ WriterPlaces
    BY DEF AuditInv
  <1>1. /\ Settled' = Settled /\ Accepted' = Accepted /\ Holds(writing') = Holds(writing)
        /\ UNCHANGED <<chained, inHand, pending, writing, writer, stored, lost, waiters, flushEpoch,
                       completedEpoch, flushing, faults>>
    BY DEF GatewayShutdown, MainFlush, MainStop, MainJoin, MainClose, MainFrame, Settled, Accepted,
           Holds, logVars, waitVars
  <1>2. \A es : Persisting(es)' = Persisting(es)
    BY <1>1, SMTT(30) DEF Persisting
  <1>3. FlushesKept'
    BY <1>1, <1>2, Zenon DEF AuditInv, FlushesKept
  <1>4. AuditTypes' /\ WriterPlaces' /\ (stopWriter => Persisting(atStop))'
    <2>1. CASE MainStop
      <3>1. writer \notin {"last", "exited"}
        BY <1>0, <2>1, Zenon DEF MainStop, WriterPlaces
      <3>2. atStop' = Accepted
        BY <2>1 DEF MainStop
      <3>3. Persisting(Accepted)
        BY <3>1, Zenon DEF Persisting
      <3> QED BY <1>0, <1>1, <1>2, <2>1, <3>1, <3>2, <3>3, Zenon DEF MainStop, AuditTypes, WriterPlaces
    <2>2. CASE MainFlush \/ MainJoin \/ MainClose
      BY <1>0, <1>1, <1>2, <2>2 DEF AuditInv, MainFlush, MainJoin, MainClose, AuditTypes, WriterPlaces
    <2> QED BY <2>1, <2>2, Zenon DEF GatewayShutdown
  <1> QED BY <1>3, <1>4, Zenon DEF AuditInv

LEMMA AuditInitInv == AuditInit => AuditInv
  <1> SUFFICES ASSUME AuditInit PROVE AuditInv
    OBVIOUS
  <1>1. AuditTypes
    <2>1. <<>> \in Seq(Nat)
      OBVIOUS
    <2>2. NoFlush \in [pc : {"idle", "waiting", "true", "false"}, target : Nat,
                      must : SUBSET Nat, late : BOOLEAN]
      BY DEF NoFlush
    <2> QED BY <2>1, <2>2, Zenon DEF AuditInit, AuditTypes
  <1>2. WriterPlaces /\ ~stopWriter
    BY DEF AuditInit, WriterPlaces
  <1>3. FlushesKept
    BY DEF AuditInit, FlushesKept, NoFlush, Persisting
  <1> QED BY <1>1, <1>2, <1>3 DEF AuditInv

LEMMA AuditNextInv == AuditInv /\ [AuditNext]_auditVars => AuditInv'
  <1> SUFFICES ASSUME AuditInv, [AuditNext]_auditVars PROVE AuditInv'
    OBVIOUS
  <1>1. CASE UNCHANGED auditVars
    <2>1. AuditTypes' /\ WriterPlaces' /\ Onward
      BY <1>1 DEF AuditInv, auditVars, AuditTypes, WriterPlaces, Onward, Accepted, Settled, Holds
    <2> QED BY <1>1, <2>1, OnwardKeeps, Zenon DEF auditVars
  <1> QED BY <1>1, LogOK, FlushOK, WriterOK, MainOK, Zenon DEF AuditNext

\* What a run of the audit logger is built on, at every number of loggers and
\* flushers and at every queue and batch size.
THEOREM AuditCorrect == AuditSpec => []AuditInv
BY AuditInitInv, AuditNextInv, PTL DEF AuditSpec

\* AuditLogger::flush returns true only when every entry queued before it has
\* been handed to the store or is known to be lost, however many flushes
\* overlap and whenever the writer tells them.
THEOREM FlushPersists == AuditSpec => []FlushMeansPersisted
  <1>1. AuditInv => FlushMeansPersisted
    BY Zenon DEF AuditInv, FlushesKept, FlushMeansPersisted
  <1> QED BY <1>1, AuditCorrect, PTL

\* GatewayRuntime::shutdown closes the store only when the writer is gone and
\* all that was accepted before stop_ has been handed to it.
THEOREM CloseIsLast == AuditSpec => []PersistedByClose
  <1>1. AuditInv => PersistedByClose
    BY HoldsEmpty DEF AuditInv, WriterPlaces, Persisting, PersistedByClose
  <1> QED BY <1>1, AuditCorrect, PTL

(***************************************************************************)
(* The feedback bus.  Queue and batch hold an event once, the four places  *)
(* an event can be in are disjoint, in_flight_ is the length of the batch  *)
(* and the dispatcher holds a batch only while it delivers.                *)
(***************************************************************************)
Distinct(s) == \A i, j \in DOMAIN s : s[i] = s[j] => i = j

Checked == {q \in Publishers : pub[q].pc = "checked"}

BusTypes ==
  /\ cfg \in Configs
  /\ queue \in Seq(Events) /\ Distinct(queue) /\ Len(queue) <= cfg.max
  /\ batch \in Seq(Events) /\ Distinct(batch) /\ inFlight = Len(batch)
  /\ disp \notin {"deliver", "call"} => batch = <<>>
  /\ disp = "call" => batch # <<>>
  /\ pub \in [Publishers -> [pc : {"idle", "checked", "queued"}, n : Nat]]

Places ==
  /\ Published = InSeq(queue) \cup InSeq(batch) \cup done \cup dropped
  /\ InSeq(queue) \cap InSeq(batch) = {}
  /\ (InSeq(queue) \cup InSeq(batch)) \cap (done \cup dropped) = {}
  /\ done \cap dropped = {}

FlushCovered ==
  /\ flush.pc = "waiting" =>
       flush.must \subseteq InSeq(queue) \cup InSeq(batch) \cup done \cup dropped
  /\ flush.pc = "true" => flush.must \subseteq done \cup dropped
  /\ flush = [pc |-> flush.pc, must |-> flush.must]

\* The bound on the events published: a publisher that has passed the check
\* has room for its event.
Bounded == Cardinality(Published) + Cardinality(Checked) <= MaxEvents

BusInv == BusTypes /\ Places /\ FlushCovered /\ Bounded

LEMMA InSeqHolds == \A s : InSeq(s) = Holds(s)
BY DEF InSeq, Holds

LEMMA DistinctAppend ==
  ASSUME NEW S, NEW s \in Seq(S), NEW e \in S, Distinct(s), e \notin InSeq(s)
  PROVE  Distinct(Append(s, e))
  <1> DEFINE a == Append(s, e)
  <1>1. /\ a \in Seq(S) /\ Len(a) = Len(s) + 1 /\ a[Len(s) + 1] = e
        /\ \A i \in 1 .. Len(s) : a[i] = s[i]
    BY AppendProperties
  <1>2. DOMAIN a = 1 .. Len(s) + 1 /\ DOMAIN s = 1 .. Len(s) /\ Len(s) \in Nat
    BY <1>1
  <1> HIDE DEF a
  <1>3. \A i \in 1 .. Len(s) : a[i] # e
    BY <1>1, <1>2, Zenon DEF InSeq
  <1>4. ASSUME NEW i \in DOMAIN a, NEW j \in DOMAIN a, a[i] = a[j] PROVE i = j
    <2>1. CASE i \in 1 .. Len(s) /\ j \in 1 .. Len(s)
      BY <1>1, <1>2, <1>4, <2>1, Zenon DEF Distinct
    <2>2. CASE i = Len(s) + 1 \/ j = Len(s) + 1
      BY <1>1, <1>2, <1>3, <1>4, <2>2
    <2> QED BY <1>2, <2>1, <2>2
  <1>5. Distinct(a)
    BY <1>4 DEF Distinct
  <1> QED BY <1>5, Zenon DEF a

LEMMA DistinctTail ==
  ASSUME NEW S, NEW s \in Seq(S), s # <<>>, Distinct(s)
  PROVE  Distinct(Tail(s)) /\ Head(s) \notin InSeq(Tail(s))
  <1> DEFINE t == Tail(s)
  <1>1. /\ t \in Seq(S) /\ Len(t) = Len(s) - 1 /\ Len(s) \in Nat \ {0}
        /\ \A i \in 1 .. Len(t) : t[i] = s[i + 1]
        /\ Head(s) = s[1]
    BY HeadTailProperties, EmptySeq
  <1>2. DOMAIN t = 1 .. Len(s) - 1 /\ DOMAIN s = 1 .. Len(s)
    BY <1>1
  <1> HIDE DEF t
  <1>3. ASSUME NEW i \in DOMAIN t, NEW j \in DOMAIN t, t[i] = t[j] PROVE i = j
    <2>1. i + 1 \in DOMAIN s /\ j + 1 \in DOMAIN s /\ s[i + 1] = s[j + 1]
      BY <1>1, <1>2, <1>3
    <2>2. i + 1 = j + 1
      BY <2>1 DEF Distinct
    <2> QED BY <1>2, <2>2
  <1>4. ASSUME NEW i \in DOMAIN t PROVE t[i] # Head(s)
    <2>1. i + 1 \in DOMAIN s /\ 1 \in DOMAIN s /\ i + 1 # 1 /\ t[i] = s[i + 1]
      BY <1>1, <1>2, <1>4
    <2> QED BY <1>1, <2>1, Zenon DEF Distinct
  <1>5. Distinct(t) /\ Head(s) \notin InSeq(t)
    BY <1>3, <1>4 DEF Distinct, InSeq
  <1> QED BY <1>5, Zenon DEF t

\* The end of a sequence.
LEMMA DistinctEnd ==
  ASSUME NEW S, NEW s \in Seq(S), Distinct(s), NEW n \in 0 .. Len(s)
  PROVE  /\ SubSeq(s, n + 1, Len(s)) \in Seq(S) /\ Distinct(SubSeq(s, n + 1, Len(s)))
         /\ Len(SubSeq(s, n + 1, Len(s))) = Len(s) - n
         /\ InSeq(SubSeq(s, n + 1, Len(s))) \subseteq InSeq(s)
  <1> DEFINE b == SubSeq(s, n + 1, Len(s))
  <1>1. b \in Seq(S) /\ Len(b) = Len(s) - n /\ \A i \in 1 .. Len(b) : b[i] = s[n + i]
    BY SubSeqProperties
  <1>2. DOMAIN b = 1 .. Len(s) - n /\ DOMAIN s = 1 .. Len(s)
    BY <1>1
  <1> HIDE DEF b
  <1>3. ASSUME NEW i \in DOMAIN b, NEW j \in DOMAIN b, b[i] = b[j] PROVE i = j
    <2>1. n + i \in DOMAIN s /\ n + j \in DOMAIN s /\ s[n + i] = s[n + j]
      BY <1>1, <1>2, <1>3
    <2>2. n + i = n + j
      BY <2>1 DEF Distinct
    <2> QED BY <1>2, <2>2
  <1>4. InSeq(b) \subseteq InSeq(s)
    <2>1. ASSUME NEW i \in DOMAIN b PROVE n + i \in DOMAIN s /\ b[i] = s[n + i]
      BY <1>1, <1>2, <2>1
    <2> QED BY <2>1, Zenon DEF InSeq
  <1>5. b \in Seq(S) /\ Distinct(b) /\ Len(b) = Len(s) - n /\ InSeq(b) \subseteq InSeq(s)
    BY <1>1, <1>3, <1>4 DEF Distinct
  <1> QED BY <1>5, Zenon DEF b

LEMMA CountTo == \A n \in Nat : IsFiniteSet(1 .. n) /\ Cardinality(1 .. n) = n
  <1> TAKE n \in Nat
  <1>1. /\ IsFiniteSet(1 .. n)
        /\ Cardinality(1 .. n) = IF 1 > n THEN 0 ELSE n - 1 + 1
    BY FS_Interval
  <1> QED BY <1>1

\* A sequence of different elements holds as many as it is long.
LEMMA CountDistinct ==
  ASSUME NEW S, NEW s \in Seq(S), Distinct(s)
  PROVE  IsFiniteSet(InSeq(s)) /\ Cardinality(InSeq(s)) = Len(s)
  <1>1. Len(s) \in Nat /\ DOMAIN s = 1 .. Len(s) /\ s = [i \in 1 .. Len(s) |-> s[i]]
    OBVIOUS
  <1>2. s \in [1 .. Len(s) -> InSeq(s)]
    BY <1>1 DEF InSeq
  <1>3. s \in Bijection(1 .. Len(s), InSeq(s))
    BY <1>1, <1>2, Zenon DEF Bijection, Injection, Surjection, Distinct, InSeq, IsInjective
  <1>4. ExistsBijection(1 .. Len(s), InSeq(s))
    BY <1>3 DEF ExistsBijection
  <1>5. IsFiniteSet(1 .. Len(s)) /\ Cardinality(1 .. Len(s)) = Len(s)
    BY <1>1, CountTo, Zenon
  <1> QED BY <1>4, <1>5, FS_Bijection, Zenon

LEMMA DisjointUnion ==
  ASSUME NEW S, IsFiniteSet(S), NEW T, IsFiniteSet(T), S \cap T = {}
  PROVE  IsFiniteSet(S \cup T) /\ Cardinality(S \cup T) = Cardinality(S) + Cardinality(T)
  <1>1. /\ IsFiniteSet(S \cup T)
        /\ Cardinality(S \cup T) = Cardinality(S) + Cardinality(T) - Cardinality(S \cap T)
    BY FS_Union
  <1>2. Cardinality(S \cap T) = 0 /\ Cardinality(S) \in Nat /\ Cardinality(T) \in Nat
    BY FS_EmptySet, FS_CardinalityType, Zenon
  <1> QED BY <1>1, <1>2

LEMMA BusFinite ==
  /\ IsFiniteSet(Events) /\ IsFiniteSet(Published) /\ IsFiniteSet(Checked)
  /\ Cardinality(Published) \in Nat /\ Cardinality(Checked) \in Nat
  <1>1. IsFiniteSet(Events)
    BY BusAssumption, CountTo, FS_Product, Zenon DEF Events
  <1>2. Published \in SUBSET Events /\ Checked \in SUBSET Publishers
    BY DEF Published, Checked
  <1>3. IsFiniteSet(Published) /\ IsFiniteSet(Checked)
    BY <1>1, <1>2, BusAssumption, FS_Subset, Zenon
  <1> QED BY <1>1, <1>3, FS_CardinalityType, Zenon

\* The events a publisher has published are at most MaxEvents.
LEMMA RoomFor ==
  ASSUME BusInv, NEW p \in Publishers, pub[p].pc = "checked"
  PROVE  pub[p].n \in 0 .. MaxEvents - 1
  <1>1. pub[p].n \in Nat /\ MaxEvents \in Nat
    BY BusAssumption, Zenon DEF BusInv, BusTypes
  <1>2. SUFFICES ASSUME pub[p].n >= MaxEvents PROVE FALSE
    BY <1>1
  <1> DEFINE s == [i \in 1 .. MaxEvents |-> <<p, i>>]
  <1>3. s \in Seq(Events) /\ Len(s) = MaxEvents
    BY <1>1 DEF Events
  <1>4. Distinct(s)
    BY DEF Distinct
  <1>5. \A i \in 1 .. MaxEvents : <<p, i>> \in Published
    BY <1>1, <1>2 DEF Published, Events
  <1>6. InSeq(s) \in SUBSET Published
    BY <1>5, Zenon DEF InSeq
  <1> HIDE DEF s
  <1>7. IsFiniteSet(InSeq(s)) /\ Cardinality(InSeq(s)) = MaxEvents
    BY <1>3, <1>4, CountDistinct, Zenon
  <1>8. MaxEvents <= Cardinality(Published)
    BY <1>6, <1>7, BusFinite, FS_Subset, Zenon
  <1>9. Cardinality(Checked) # 0
    <2>1. Checked # {}
      BY Zenon DEF Checked
    <2> QED BY <2>1, BusFinite, FS_EmptySet, Zenon
  <1> QED BY <1>1, <1>8, <1>9, BusFinite DEF BusInv, Bounded

\* A step that publishes nothing and checks nobody in.
LEMMA SamePublished ==
  ASSUME BusInv, \A p \in Publishers : pub'[p].n = pub[p].n
  PROVE  Published' = Published
BY Zenon DEF Published, Events

LEMMA BusQuiet ==
  ASSUME BusInv, UNCHANGED pub
  PROVE  Published' = Published /\ Bounded'
BY DEF BusInv, Bounded, Published, Checked

\* A step that moves no event.
LEMMA BusFrame ==
  ASSUME BusInv, UNCHANGED <<cfg, queue, batch, inFlight, done, dropped>>,
         Published' = Published, pub' \in [Publishers -> [pc : {"idle", "checked", "queued"}, n : Nat]],
         disp' \notin {"deliver", "call"} => batch = <<>>, disp' = "call" => batch # <<>>
  PROVE  /\ BusTypes' /\ Places'
         /\ InSeq(queue)' = InSeq(queue) /\ InSeq(batch)' = InSeq(batch)
         /\ UNCHANGED flush => FlushCovered'
  <1>1. /\ InSeq(queue)' = InSeq(queue) /\ InSeq(batch)' = InSeq(batch)
        /\ Distinct(queue)' = Distinct(queue) /\ Distinct(batch)' = Distinct(batch)
    BY Zenon DEF InSeq, Distinct
  <1>2. BusTypes'
    BY <1>1, Zenon DEF BusInv, BusTypes
  <1>3. Places'
    BY <1>1, Zenon DEF BusInv, Places
  <1>4. UNCHANGED flush => FlushCovered'
    BY <1>1 DEF BusInv, FlushCovered
  <1> QED BY <1>1, <1>2, <1>3, <1>4, Zenon

LEMMA PublishOK ==
  ASSUME BusInv, NEW p \in Publishers, Publish(p)
  PROVE  BusInv'
  <1>0. BusTypes /\ Places /\ FlushCovered
    BY DEF BusInv
  <1>p. pub[p] \in [pc : {"idle", "checked", "queued"}, n : Nat]
    BY <1>0 DEF BusTypes
  <1>1. CASE PublishCheck(p)
    <2>1. pub' = [pub EXCEPT ![p].pc = "checked"] /\ UNCHANGED <<busVars, flush>>
      BY <1>1 DEF PublishCheck
    <2>2. Published' = Published
      BY <1>0, <2>1, SamePublished, Zenon DEF BusTypes
    <2>3. BusTypes' /\ Places' /\ FlushCovered'
      <3>1. pub' \in [Publishers -> [pc : {"idle", "checked", "queued"}, n : Nat]]
        BY <1>0, <1>p, <2>1, Zenon DEF BusTypes
      <3> QED BY <1>0, <2>1, <2>2, <3>1, BusFrame, Zenon DEF BusTypes, busVars
    <2>4. Checked' = Checked \cup {p} /\ p \notin Checked
      BY <1>0, <1>1, <2>1 DEF Checked, PublishCheck, BusTypes
    <2>5. Cardinality(Checked') = Cardinality(Checked) + 1
      BY <2>4, BusFinite, FS_AddElement, Zenon
    <2>6. Cardinality(Published) + Cardinality(Checked) < MaxEvents
      BY <1>1, Zenon DEF PublishCheck, Checked
    <2>7. Bounded'
      BY <2>2, <2>5, <2>6, BusFinite, BusAssumption DEF Bounded
    <2> QED BY <2>3, <2>7 DEF BusInv
  <1>2. CASE PublishEnqueue(p)
    <2> DEFINE e == <<p, pub[p].n + 1>>
    <2>1. /\ pub[p].pc = "checked" /\ queue' = Enqueue(queue, e)
          /\ dropped' = dropped \cup (InSeq(queue) \ InSeq(queue'))
          /\ pub' = [pub EXCEPT ![p] = [pc |-> "queued", n |-> pub[p].n + 1]]
          /\ UNCHANGED <<cfg, batch, inFlight, disp, done, flush>>
      BY <1>0, <1>2, Zenon DEF PublishEnqueue, BusTypes
    <2>2. pub[p].n \in 0 .. MaxEvents - 1 /\ MaxEvents \in Nat
      BY <2>1, RoomFor, BusAssumption, Zenon
    <2>3. e \in Events /\ e \notin Published
      BY <2>2 DEF Events, Published
    <2>4. Published' = Published \cup {e}
      <3>1. pub' = [pub EXCEPT ![p] = [pc |-> "queued", n |-> pub[p].n + 1]]
        BY <2>1, Zenon
      <3>2. ASSUME NEW q \in Publishers, NEW k \in 1 .. MaxEvents
            PROVE  k <= pub'[q].n <=> (k <= pub[q].n \/ (q = p /\ k = pub[p].n + 1))
        BY <1>0, <2>2, <3>1, <3>2 DEF BusTypes
      <3>3. ASSUME NEW x \in Events PROVE x \in Published' <=> x \in Published \/ x = e
        <4>1. PICK q \in Publishers, k \in 1 .. MaxEvents : x = <<q, k>>
          BY <3>3 DEF Events
        <4>2. x[1] = q /\ x[2] = k /\ (x = e <=> q = p /\ k = pub[p].n + 1)
          BY <4>1
        <4> QED BY <3>2, <3>3, <4>2, Zenon DEF Published
      <3> QED BY <2>3, <3>3, Zenon DEF Published
    <2> HIDE DEF e
    <2>5. /\ queue' \in Seq(Events) /\ Distinct(queue') /\ Len(queue') <= cfg.max
          /\ InSeq(queue') \subseteq InSeq(queue) \cup {e} /\ e \in InSeq(queue')
      <3>0. /\ queue \in Seq(Events) /\ Distinct(queue) /\ Len(queue) <= cfg.max
            /\ e \notin InSeq(queue) /\ cfg.max \in Nat \ {0} /\ Len(queue) \in Nat
        BY <1>0, <2>3, BusAssumption DEF BusTypes, Places, Configs
      <3>1. CASE Len(queue) >= cfg.max
        <4> DEFINE t == Tail(queue)
        <4>1. queue # <<>>
          BY <3>0, <3>1
        <4>2. /\ t \in Seq(Events) /\ Distinct(t) /\ Len(t) = Len(queue) - 1
              /\ InSeq(t) \subseteq InSeq(queue)
          <5>1. /\ t \in Seq(Events) /\ Len(t) = Len(queue) - 1
                /\ Holds(queue) = {Head(queue)} \cup Holds(t)
            BY <3>0, <4>1, HoldsTail, Zenon
          <5>2. Distinct(t)
            BY <3>0, <4>1, DistinctTail, Zenon
          <5> QED BY <5>1, <5>2, InSeqHolds, Zenon
        <4>3. queue' = Append(t, e)
          BY <2>1, <3>1, Zenon DEF Enqueue
        <4> HIDE DEF t
        <4>4. Append(t, e) \in Seq(Events) /\ InSeq(Append(t, e)) = InSeq(t) \cup {e}
          <5>0. t \in Seq(Events) /\ e \in Events
            BY <2>3, <4>2, Zenon
          <5>1. Append(t, e) \in Seq(Events) /\ Holds(Append(t, e)) = Holds(t) \cup {e}
            BY <5>0, HoldsAppend
          <5> QED BY <5>1, InSeqHolds, Zenon
        <4>5. Distinct(Append(t, e))
          BY <2>3, <3>0, <4>2, DistinctAppend, Zenon
        <4>6. Len(Append(t, e)) = Len(t) + 1
          BY <2>3, <4>2
        <4> QED BY <3>0, <4>2, <4>3, <4>4, <4>5, <4>6
      <3>2. CASE ~(Len(queue) >= cfg.max)
        <4>1. queue' = Append(queue, e)
          BY <2>1, <3>2, Zenon DEF Enqueue
        <4>2. Append(queue, e) \in Seq(Events) /\ InSeq(Append(queue, e)) = InSeq(queue) \cup {e}
          <5>0. queue \in Seq(Events) /\ e \in Events
            BY <2>3, <3>0, Zenon
          <5>1. Append(queue, e) \in Seq(Events) /\ Holds(Append(queue, e)) = Holds(queue) \cup {e}
            BY <5>0, HoldsAppend
          <5> QED BY <5>1, InSeqHolds, Zenon
        <4>3. Distinct(Append(queue, e))
          BY <2>3, <3>0, DistinctAppend, Zenon
        <4>4. Len(Append(queue, e)) = Len(queue) + 1
          BY <2>3, <3>0
        <4> QED BY <3>0, <3>2, <4>1, <4>2, <4>3, <4>4
      <3> QED BY <3>1, <3>2, Zenon
    <2>6. BusTypes'
      <3>1. pub' \in [Publishers -> [pc : {"idle", "checked", "queued"}, n : Nat]]
        <4>1. pub[p].n + 1 \in Nat
          BY <2>2
        <4> QED BY <1>0, <1>p, <2>1, <4>1, Zenon DEF BusTypes
      <3> QED BY <1>0, <2>1, <2>5, <3>1, Zenon DEF BusTypes, Distinct
    <2>7. InSeq(batch') = InSeq(batch)
      BY <2>1, Zenon DEF InSeq
    <2>8. Places'
      BY <1>0, <2>1, <2>3, <2>4, <2>5, <2>7, Zenon DEF Places
    <2>9. FlushCovered'
      BY <1>0, <2>1, <2>7, Zenon DEF FlushCovered
    <2>10. Checked' = Checked \ {p} /\ p \in Checked
      BY <1>0, <2>1, Zenon DEF Checked, BusTypes
    <2>11. /\ Cardinality(Checked') = Cardinality(Checked) - 1
           /\ Cardinality(Published') = Cardinality(Published) + 1
      BY <2>3, <2>4, <2>10, BusFinite, FS_AddElement, FS_RemoveElement, Zenon
    <2>12. Bounded'
      BY <2>11, BusFinite, BusAssumption DEF Bounded, BusInv
    <2> QED BY <2>6, <2>8, <2>9, <2>12, Zenon DEF BusInv
  <1>3. CASE PublishNotify(p)
    <2>1. /\ pub' = [pub EXCEPT ![p].pc = "idle"] /\ pub[p].pc = "queued"
          /\ disp' = IF disp = "blocked" THEN "check" ELSE disp
          /\ UNCHANGED <<cfg, queue, batch, inFlight, done, dropped, flush>>
      BY <1>3 DEF PublishNotify
    <2>2. Published' = Published
      BY <1>0, <2>1, SamePublished, Zenon DEF BusTypes
    <2>3. Checked' = Checked
      BY <1>0, <2>1, Zenon DEF Checked, BusTypes
    <2>4. BusTypes' /\ Places' /\ FlushCovered'
      <3>1. pub' \in [Publishers -> [pc : {"idle", "checked", "queued"}, n : Nat]]
        BY <1>0, <1>p, <2>1, Zenon DEF BusTypes
      <3> QED BY <1>0, <2>1, <2>2, <3>1, BusFrame, Zenon DEF BusTypes
    <2> QED BY <2>2, <2>3, <2>4, Zenon DEF BusInv, Bounded
  <1> QED BY <1>1, <1>2, <1>3, Zenon DEF Publish

LEMMA ReconfigureOK ==
  ASSUME BusInv, NEW c \in Configs, Reconfigure(c)
  PROVE  BusInv'
  <1>0. BusTypes /\ Places /\ FlushCovered
    BY Zenon DEF BusInv
  <1>1. /\ cfg' = c /\ queue' = Trimmed(queue, c.max) /\ c.max \in Nat
        /\ dropped' = dropped \cup (InSeq(queue) \ InSeq(queue'))
        /\ UNCHANGED <<batch, inFlight, disp, done, pub, flush>>
    BY BusAssumption DEF Reconfigure, Configs
  <1>2. /\ queue' \in Seq(Events) /\ Distinct(queue') /\ Len(queue') <= c.max
        /\ InSeq(queue') \subseteq InSeq(queue)
    <2>0. queue \in Seq(Events) /\ Distinct(queue) /\ Len(queue) \in Nat
      BY <1>0 DEF BusTypes
    <2>1. CASE Len(queue) > c.max
      <3> DEFINE n == Len(queue) - c.max
      <3>1. n \in 0 .. Len(queue)
        BY <1>1, <2>0, <2>1
      <3>2. Len(queue) - n = c.max
        BY <1>1, <2>0
      <3>3. queue' = SubSeq(queue, n + 1, Len(queue))
        BY <1>1, <2>1, Zenon DEF Trimmed
      <3> HIDE DEF n
      <3> QED BY <1>1, <2>0, <3>1, <3>2, <3>3, DistinctEnd
    <2>2. CASE ~(Len(queue) > c.max)
      <3>1. queue' = queue /\ Len(queue) <= c.max
        BY <1>1, <2>0, <2>2 DEF Trimmed
      <3> QED BY <1>1, <2>0, <3>1, Zenon
    <2> QED BY <2>1, <2>2, Zenon
  <1>3. InSeq(batch') = InSeq(batch) /\ Published' = Published /\ Bounded'
    BY <1>1, BusQuiet, Zenon DEF InSeq
  <1>4. BusTypes'
    BY <1>0, <1>1, <1>2, Zenon DEF BusTypes, Distinct
  <1>5. Places' /\ FlushCovered'
    BY <1>0, <1>1, <1>2, <1>3, Zenon DEF Places, FlushCovered
  <1> QED BY <1>3, <1>4, <1>5, Zenon DEF BusInv

LEMMA DispatchOK ==
  ASSUME BusInv, Dispatch
  PROVE  BusInv'
  <1>0. BusTypes /\ Places /\ FlushCovered
    BY Zenon DEF BusInv
  <1>1. /\ Published' = Published /\ Bounded' /\ UNCHANGED <<cfg, dropped, pub, flush>>
        /\ pub' \in [Publishers -> [pc : {"idle", "checked", "queued"}, n : Nat]]
    BY <1>0, BusQuiet, Zenon
       DEF Dispatch, TakeBatch, PredicateFalse, Sleep, Snapshot, Callback, Delivered,
           BatchDone, ExitCheck, DispFrame, BusTypes
  <1>2. CASE TakeBatch
    <2>1. /\ batch' = queue /\ queue' = <<>> /\ batch = <<>> /\ inFlight' = inFlight + Len(queue)
          /\ disp' = "deliver" /\ UNCHANGED done
      BY <1>0, <1>2, Zenon DEF TakeBatch, BusTypes
    <2>2. InSeq(queue') = {} /\ InSeq(batch) = {} /\ InSeq(batch') = InSeq(queue)
      BY <2>1 DEF InSeq
    <2>3. BusTypes'
      <3>1. Distinct(queue') /\ Distinct(batch') /\ queue' \in Seq(Events) /\ batch' \in Seq(Events)
        BY <1>0, <2>1, Zenon DEF BusTypes, Distinct
      <3>2. inFlight' = Len(batch') /\ Len(queue') <= cfg'.max
        BY <1>0, <1>1, <2>1, BusAssumption, SMTT(30) DEF BusTypes, Configs
      <3> QED BY <1>0, <1>1, <2>1, <3>1, <3>2, Zenon DEF BusTypes
    <2>4. Places' /\ FlushCovered'
      BY <1>0, <1>1, <2>1, <2>2, Zenon DEF Places, FlushCovered
    <2> QED BY <1>1, <2>3, <2>4, Zenon DEF BusInv
  <1>3. CASE PredicateFalse \/ Sleep \/ Snapshot \/ BatchDone \/ ExitCheck
             \/ \E s \in Subscribers : Callback(s)
    <2>1. /\ UNCHANGED <<queue, batch, inFlight, done>>
          /\ disp' \notin {"deliver", "call"} => batch = <<>>
          /\ disp' = "call" => batch # <<>>
      BY <1>0, <1>3, Zenon DEF PredicateFalse, Sleep, Snapshot, Callback, BatchDone, ExitCheck, BusTypes
    <2> QED BY <1>1, <2>1, BusFrame, Zenon DEF BusInv
  <1>4. CASE Delivered
    <2>1. /\ batch' = Tail(batch) /\ done' = done \cup {Head(batch)} /\ batch # <<>>
          /\ inFlight' = inFlight - 1 /\ disp' = "deliver" /\ UNCHANGED queue
          /\ batch \in Seq(Events) /\ Distinct(batch)
      BY <1>0, <1>4, Zenon DEF Delivered, BusTypes
    <2>2. /\ batch' \in Seq(Events) /\ Len(batch') = Len(batch) - 1
          /\ InSeq(batch) = {Head(batch)} \cup InSeq(batch')
      BY <2>1, HoldsTail, InSeqHolds, Zenon
    <2>3. Distinct(batch') /\ Head(batch) \notin InSeq(batch')
      BY <2>1, DistinctTail, Zenon
    <2>4. InSeq(queue') = InSeq(queue)
      BY <2>1, Zenon DEF InSeq
    <2>5. BusTypes'
      BY <1>0, <1>1, <2>1, <2>2, <2>3, Zenon DEF BusTypes, Distinct
    <2>6. Places'
      BY <1>0, <1>1, <2>1, <2>2, <2>3, <2>4, ZenonT(30) DEF Places
    <2>7. FlushCovered'
      BY <1>0, <1>1, <2>1, <2>2, <2>4, ZenonT(30) DEF FlushCovered
    <2> QED BY <1>1, <2>5, <2>6, <2>7, Zenon DEF BusInv
  <1> QED BY <1>2, <1>3, <1>4, Zenon DEF Dispatch

LEMMA BusFlushOK ==
  ASSUME BusInv, FlushBegin \/ FlushTrue \/ FlushReturns
  PROVE  BusInv'
  <1>1. UNCHANGED <<cfg, queue, batch, inFlight, done, dropped, disp, pub>>
    BY DEF FlushBegin, FlushTrue, FlushReturns, busVars
  <1>2. Published' = Published /\ Bounded'
    BY <1>1, BusQuiet, Zenon
  <1>3. /\ BusTypes' /\ Places'
        /\ InSeq(queue)' = InSeq(queue) /\ InSeq(batch)' = InSeq(batch)
    BY <1>1, <1>2, BusFrame, Zenon DEF BusInv, BusTypes
  <1>4. FlushCovered'
    <2>1. CASE FlushBegin
      BY <1>1, <1>3, <2>1, Zenon DEF FlushBegin, FlushCovered
    <2>2. CASE FlushTrue
      <3>1. queue = <<>> /\ batch = <<>>
        BY <2>2, EmptySeq, Zenon DEF FlushTrue, BusInv, BusTypes
      <3>2. InSeq(queue) = {} /\ InSeq(batch) = {}
        BY <3>1 DEF InSeq
      <3>3. flush' = [pc |-> "true", must |-> flush.must] /\ flush.pc = "waiting"
        BY <2>2, Zenon DEF FlushTrue, BusInv, FlushCovered
      <3> QED BY <1>1, <3>2, <3>3, Zenon DEF BusInv, FlushCovered
    <2>3. CASE FlushReturns
      BY <2>3, Zenon DEF FlushReturns, FlushCovered
    <2> QED BY <2>1, <2>2, <2>3, Zenon
  <1> QED BY <1>2, <1>3, <1>4, Zenon DEF BusInv

LEMMA BusInitInv == BusInit => BusInv
  <1> SUFFICES ASSUME BusInit PROVE BusInv
    OBVIOUS
  <1>1. BusTypes
    BY BusAssumption DEF BusInit, BusTypes, Configs, FirstConfig, Distinct
  <1>2. Published = {} /\ Checked = {}
    BY DEF BusInit, Published, Checked, Events
  <1>3. Places
    BY <1>2 DEF BusInit, Places, InSeq
  <1>4. FlushCovered
    BY DEF BusInit, FlushCovered
  <1>5. Bounded
    BY <1>2, FS_EmptySet, BusAssumption DEF Bounded
  <1> QED BY <1>1, <1>3, <1>4, <1>5, Zenon DEF BusInv

LEMMA BusNextInv == BusInv /\ [BusNext]_busAllVars => BusInv'
  <1> SUFFICES ASSUME BusInv, [BusNext]_busAllVars PROVE BusInv'
    OBVIOUS
  <1>1. CASE \/ \E s \in Subscribers : Subscribe(s) \/ Unsubscribe(s)
             \/ Shutdown \/ StopStep \/ UNCHANGED busAllVars
    <2>1. /\ UNCHANGED <<cfg, queue, batch, inFlight, done, dropped, pub, flush>>
          /\ disp' = disp \/ (disp = "blocked" /\ disp' = "check")
      BY <1>1 DEF Subscribe, Unsubscribe, Shutdown, StopStep, ShutdownStore, ShutdownNotify,
                  ShutdownJoin, busVars, busAllVars
    <2>2. Published' = Published /\ Bounded'
      BY <2>1, BusQuiet
    <2> QED BY <2>1, <2>2, BusFrame, Zenon DEF BusInv, BusTypes
  <1> QED BY <1>1, PublishOK, ReconfigureOK, DispatchOK, BusFlushOK, Zenon DEF BusNext

\* What the bus is built on, for any number of publishers and subscribers and
\* at every queue size.
THEOREM BusCorrect == BusSpec => []BusInv
BY BusInitInv, BusNextInv, PTL DEF BusSpec

\* FeedbackBus::flush returns true only when every event accepted before it
\* was called has been delivered or dropped.
THEOREM FlushDelivers == BusSpec => []FlushMeansDelivered
  <1>1. BusInv => FlushMeansDelivered
    BY DEF BusInv, FlushCovered, FlushMeansDelivered
  <1> QED BY <1>1, BusCorrect, PTL

\* No event is lost or duplicated between publish() and the subscribers, and
\* the queue keeps its bound, whatever is reconfigured meanwhile.
THEOREM BusAccounts == BusSpec => []BusAccounted
  <1>1. ASSUME BusInv PROVE BusAccounted
    <2> DEFINE q == InSeq(queue)
               b == InSeq(batch)
    <2>1. BusTypes /\ Places
      BY <1>1, Zenon DEF BusInv
    <2>2. /\ IsFiniteSet(q) /\ Cardinality(q) = Len(queue)
          /\ IsFiniteSet(b) /\ Cardinality(b) = Len(batch)
      BY <2>1, CountDistinct, Zenon DEF BusTypes
    <2>3. /\ Published = q \cup b \cup done \cup dropped /\ q \cap b = {}
          /\ (q \cup b) \cap (done \cup dropped) = {} /\ done \cap dropped = {}
      BY <2>1 DEF Places
    <2> HIDE DEF q, b
    <2>4. done \in SUBSET Published /\ dropped \in SUBSET Published
      BY <2>3, Zenon
    <2>5. IsFiniteSet(done) /\ IsFiniteSet(dropped)
      BY <2>4, BusFinite, FS_Subset, Zenon
    <2>6. IsFiniteSet(q \cup b) /\ Cardinality(q \cup b) = Cardinality(q) + Cardinality(b)
      BY <2>2, <2>3, DisjointUnion, Zenon
    <2>7. /\ IsFiniteSet(done \cup dropped)
          /\ Cardinality(done \cup dropped) = Cardinality(done) + Cardinality(dropped)
      BY <2>3, <2>5, DisjointUnion, Zenon
    <2>8. Cardinality((q \cup b) \cup (done \cup dropped)) =
            Cardinality(q \cup b) + Cardinality(done \cup dropped)
      BY <2>3, <2>6, <2>7, DisjointUnion, Zenon
    <2>9. (q \cup b) \cup (done \cup dropped) = Published
      BY <2>3, Zenon
    <2>10. Cardinality(done) \in Nat /\ Cardinality(dropped) \in Nat
      BY <2>5, FS_CardinalityType, Zenon
    <2>11. Cardinality(Published) =
             Len(queue) + Len(batch) + Cardinality(done) + Cardinality(dropped)
      <3>1. Len(queue) \in Nat /\ Len(batch) \in Nat
        BY <2>1 DEF BusTypes
      <3>2. Cardinality(Published) =
              (Len(queue) + Len(batch)) + (Cardinality(done) + Cardinality(dropped))
        BY <2>2, <2>6, <2>7, <2>8, <2>9, Zenon
      <3> QED BY <2>10, <3>1, <3>2
    <2> QED BY <2>1, <2>11 DEF BusAccounted, BusTypes, Places
  <1> QED BY <1>1, BusCorrect, PTL

=============================================================================

---------------------------- MODULE FeedbackBus ----------------------------
(***************************************************************************)
(* FeedbackBus: publishers append to a bounded queue, a dispatcher thread  *)
(* takes all of it as a batch and calls the subscribers outside the locks, *)
(* flush() waits for queue and batch to be empty, shutdown() stops the     *)
(* dispatcher.  A critical section of queue_mutex_ is one step, except     *)
(* where the dispatcher goes to sleep: condition_variable::wait evaluates  *)
(* its predicate and blocks in two steps, with the mutex held in between,  *)
(* and shutdown() needs no mutex to get in between them.                   *)
(***************************************************************************)
EXTENDS Integers, Sequences, FiniteSets

CONSTANTS
  Publishers,
  Subscribers,
  MaxQueue,       \* max_queue_size
  MaxEvents       \* bound on the events published

ASSUME BusAssumption ==
  IsFiniteSet(Publishers) /\ MaxQueue \in Nat \ {0} /\ MaxEvents \in Nat

VARIABLES
  cfg,            \* config_: enabled and max_queue_size
  queue, batch,   \* queue_, and the dispatcher's local batch
  inFlight,       \* in_flight_
  disp,           \* where the dispatcher is
  snapshot,       \* subscribers still to be called for the head of batch
  subs,           \* subscribers_
  seen,           \* seen[s]: the events s was called with
  done, dropped,  \* events delivered, events pushed out of a full queue
  pub,            \* where a publisher is, and how many events it has published
  stopping,       \* stopping_
  stop,           \* where the thread inside shutdown() is
  flush           \* the thread inside flush(), and what it has to wait for

busVars == <<cfg, queue, batch, inFlight, disp, snapshot, subs, seen, done, dropped>>
busAllVars == <<cfg, queue, batch, inFlight, disp, snapshot, subs, seen, done, dropped,
          pub, stopping, stop, flush>>

Events == Publishers \X (1 .. MaxEvents)
InSeq(s) == {s[i] : i \in DOMAIN s}

Configs == [enabled : BOOLEAN, max : 1 .. MaxQueue]
FirstConfig == [enabled |-> TRUE, max |-> MaxQueue]

BusTypeOK ==
  /\ cfg \in Configs
  /\ queue \in Seq(Events) /\ batch \in Seq(Events)
  /\ inFlight \in Nat
  /\ disp \in {"check", "blocking", "blocked", "deliver", "call", "signal", "exited"}
  /\ snapshot \subseteq Subscribers /\ subs \subseteq Subscribers
  /\ seen \in [Subscribers -> Seq(Events)]
  /\ done \subseteq Events /\ dropped \subseteq Events
  /\ pub \in [Publishers -> [pc : {"idle", "checked", "queued"}, n : 0 .. MaxEvents]]
  /\ stopping \in BOOLEAN
  /\ stop \in {"up", "store", "notify", "join", "down"}
  /\ flush \in [pc : {"idle", "waiting", "true"}, must : SUBSET Events]

\* start() has run: the dispatcher exists.
BusInit ==
  /\ cfg = FirstConfig
  /\ queue = <<>> /\ batch = <<>> /\ inFlight = 0
  /\ disp = "check" /\ snapshot = {}
  /\ subs = {} /\ seen = [s \in Subscribers |-> <<>>]
  /\ done = {} /\ dropped = {}
  /\ pub = [p \in Publishers |-> [pc |-> "idle", n |-> 0]]
  /\ stopping = FALSE /\ stop = "up"
  /\ flush = [pc |-> "idle", must |-> {}]

\* The events publish() has accepted.
Published == {e \in Events : e[2] <= pub[e[1]].n}

\* The dispatcher holds queue_mutex_ from its predicate until it sleeps.
Unlocked == disp # "blocking"

(***************************************************************************)
(* publish: the stopping check, the enqueue and the notify are three steps.*)
(***************************************************************************)
PublishCheck(p) ==
  /\ pub[p].pc = "idle"
  /\ Cardinality(Published) + Cardinality({q \in Publishers : pub[q].pc = "checked"})
       < MaxEvents
  /\ cfg.enabled /\ ~stopping
  /\ pub' = [pub EXCEPT ![p].pc = "checked"]
  /\ UNCHANGED <<busVars, stopping, stop, flush>>

\* The queue with e in it; the oldest event makes room when it is full.
Enqueue(q, e) ==
  IF Len(q) >= cfg.max THEN Append(Tail(q), e) ELSE Append(q, e)

PublishEnqueue(p) ==
  LET e == <<p, pub[p].n + 1>> IN
  /\ pub[p].pc = "checked" /\ Unlocked
  /\ queue' = Enqueue(queue, e)
  /\ dropped' = dropped \cup (InSeq(queue) \ InSeq(queue'))
  /\ pub' = [pub EXCEPT ![p] = [pc |-> "queued", n |-> @.n + 1]]
  /\ UNCHANGED <<cfg, batch, inFlight, disp, snapshot, subs, seen, done,
                 stopping, stop, flush>>

PublishNotify(p) ==
  /\ pub[p].pc = "queued"
  /\ pub' = [pub EXCEPT ![p].pc = "idle"]
  /\ disp' = IF disp = "blocked" THEN "check" ELSE disp
  /\ UNCHANGED <<cfg, queue, batch, inFlight, snapshot, subs, seen, done, dropped,
                 stopping, stop, flush>>

\* A bug: the queue keeps what no longer fits.
TrimmedNot(q, max) == q

\* What reconfigure keeps: the newest max events.
Trimmed(q, max) == IF Len(q) > max THEN SubSeq(q, Len(q) - max + 1, Len(q)) ELSE q

\* reconfigure, once.
Reconfigure(c) ==
  /\ cfg = FirstConfig /\ c # FirstConfig /\ Unlocked
  /\ cfg' = c
  /\ queue' = Trimmed(queue, c.max)
  /\ dropped' = dropped \cup (InSeq(queue) \ InSeq(queue'))
  /\ UNCHANGED <<batch, inFlight, disp, snapshot, subs, seen, done,
                 pub, stopping, stop, flush>>

Subscribe(s) ==
  /\ s \notin subs
  /\ subs' = subs \cup {s}
  /\ UNCHANGED <<cfg, queue, batch, inFlight, disp, snapshot, seen, done, dropped,
                 pub, stopping, stop, flush>>

Unsubscribe(s) ==
  /\ s \in subs
  /\ subs' = subs \ {s}
  /\ UNCHANGED <<cfg, queue, batch, inFlight, disp, snapshot, seen, done, dropped,
                 pub, stopping, stop, flush>>

(***************************************************************************)
(* The dispatcher.                                                         *)
(***************************************************************************)
DispFrame == UNCHANGED <<cfg, subs, dropped, pub, stopping, stop, flush>>

\* A bug: in_flight_ is not raised in the critical section that takes the
\* batch.
TakeBatchUncounted ==
  /\ disp = "check" /\ (queue # <<>> \/ stopping)
  /\ batch' = queue /\ queue' = <<>>
  /\ disp' = "deliver"
  /\ DispFrame /\ UNCHANGED <<inFlight, snapshot, seen, done>>

\* The predicate holds: take everything, raise in_flight_ before unlocking.
TakeBatch ==
  /\ disp = "check" /\ (queue # <<>> \/ stopping)
  /\ batch' = queue /\ queue' = <<>>
  /\ inFlight' = inFlight + Len(queue)
  /\ disp' = "deliver"
  /\ DispFrame /\ UNCHANGED <<snapshot, seen, done>>

PredicateFalse ==
  /\ disp = "check" /\ queue = <<>> /\ ~stopping
  /\ disp' = "blocking"
  /\ DispFrame /\ UNCHANGED <<queue, batch, inFlight, snapshot, seen, done>>

Sleep ==
  /\ disp = "blocking"
  /\ disp' = "blocked"
  /\ DispFrame /\ UNCHANGED <<queue, batch, inFlight, snapshot, seen, done>>

\* deliver: copy the subscribers under mutex_, call them after unlocking.
Snapshot ==
  /\ disp = "deliver" /\ batch # <<>>
  /\ snapshot' = subs
  /\ disp' = "call"
  /\ DispFrame /\ UNCHANGED <<queue, batch, inFlight, seen, done>>

\* A callback returns or throws.
Callback(s) ==
  /\ disp = "call" /\ s \in snapshot
  /\ seen' = [seen EXCEPT ![s] = Append(@, Head(batch))]
  /\ snapshot' = snapshot \ {s}
  /\ DispFrame /\ UNCHANGED <<queue, batch, inFlight, disp, done>>

Delivered ==
  /\ disp = "call" /\ snapshot = {}
  /\ done' = done \cup {Head(batch)}
  /\ batch' = Tail(batch)
  /\ inFlight' = inFlight - 1
  /\ disp' = "deliver"
  /\ DispFrame /\ UNCHANGED <<queue, snapshot, seen>>

\* Batch done: wake flush(), then leave if stopping and nothing is queued.
BatchDone ==
  /\ disp = "deliver" /\ batch = <<>>
  /\ disp' = "signal"
  /\ DispFrame /\ UNCHANGED <<queue, batch, inFlight, snapshot, seen, done>>

ExitCheck ==
  /\ disp = "signal"
  /\ disp' = IF stopping /\ queue = <<>> THEN "exited" ELSE "check"
  /\ DispFrame /\ UNCHANGED <<queue, batch, inFlight, snapshot, seen, done>>

(***************************************************************************)
(* flush and shutdown.  flush gives up at its deadline, whatever happens.  *)
(***************************************************************************)
FlushBegin ==
  /\ flush.pc = "idle" /\ Unlocked
  /\ flush' = [pc |-> "waiting", must |-> InSeq(queue) \cup InSeq(batch)]
  /\ UNCHANGED <<busVars, pub, stopping, stop>>

FlushTrue ==
  /\ flush.pc = "waiting" /\ Unlocked
  /\ queue = <<>> /\ inFlight = 0
  /\ flush' = [flush EXCEPT !.pc = "true"]
  /\ UNCHANGED <<busVars, pub, stopping, stop>>

FlushReturns ==
  /\ flush.pc \in {"waiting", "true"}
  /\ flush' = [pc |-> "idle", must |-> {}]
  /\ UNCHANGED <<busVars, pub, stopping, stop>>

\* The exchange of started_: a second caller returns at once.
Shutdown ==
  /\ stop = "up"
  /\ stop' = "store"
  /\ UNCHANGED <<busVars, pub, stopping, flush>>

ShutdownStore ==
  /\ stop = "store"
  /\ stopping' = TRUE
  /\ stop' = "notify"
  /\ UNCHANGED <<busVars, pub, flush>>

\* notify_all without the mutex: a dispatcher that has evaluated its
\* predicate but does not sleep yet does not hear it.
ShutdownNotify ==
  /\ stop = "notify"
  /\ disp' = IF disp = "blocked" THEN "check" ELSE disp
  /\ stop' = "join"
  /\ UNCHANGED <<cfg, queue, batch, inFlight, snapshot, subs, seen, done, dropped,
                 pub, stopping, flush>>

ShutdownJoin ==
  /\ stop = "join" /\ disp = "exited"
  /\ stop' = "down"
  /\ UNCHANGED <<busVars, pub, stopping, flush>>

Publish(p) == PublishCheck(p) \/ PublishEnqueue(p) \/ PublishNotify(p)
Dispatch ==
  \/ TakeBatch \/ PredicateFalse \/ Sleep \/ Snapshot
  \/ (\E s \in Subscribers : Callback(s))
  \/ Delivered \/ BatchDone \/ ExitCheck
StopStep == ShutdownStore \/ ShutdownNotify \/ ShutdownJoin

BusNext ==
  \/ \E p \in Publishers : Publish(p)
  \/ \E c \in Configs : Reconfigure(c)
  \/ \E s \in Subscribers : Subscribe(s) \/ Unsubscribe(s)
  \/ Dispatch
  \/ FlushBegin \/ FlushTrue \/ FlushReturns
  \/ Shutdown \/ StopStep

\* The dispatcher and a thread inside publish() or shutdown() run on.
BusSpec ==
  /\ BusInit /\ [][BusNext]_busAllVars
  /\ WF_busAllVars(Dispatch) /\ WF_busAllVars(StopStep)
  /\ \A p \in Publishers : WF_busAllVars(PublishEnqueue(p) \/ PublishNotify(p))

(***************************************************************************)
(* Properties.                                                             *)
(***************************************************************************)
\* Nothing is lost or duplicated on the way: an event publish() accepted is
\* in exactly one place, waits there once, and the queue keeps its bound
\* across a reconfiguration.
BusAccounted ==
  /\ Published = InSeq(queue) \cup InSeq(batch) \cup done \cup dropped
  /\ Cardinality(Published) =
       Len(queue) + Len(batch) + Cardinality(done) + Cardinality(dropped)
  /\ Len(queue) <= cfg.max

\* A subscriber never sees two events of one publisher out of order, nor one
\* of them twice, across batches and overflows.
InOrder ==
  \A s \in Subscribers : \A i, j \in DOMAIN seen[s] :
    i < j /\ seen[s][i][1] = seen[s][j][1] => seen[s][i][2] < seen[s][j][2]

\* flush() returns true only when every event accepted before it was called
\* has been delivered or dropped (in_flight_ is raised before the dispatcher
\* unlocks).
FlushMeansDelivered == flush.pc = "true" => flush.must \subseteq done \cup dropped

\* "Stops the dispatcher": shutdown() returns.
ShutdownReturns == stop = "store" ~> stop = "down"
=============================================================================

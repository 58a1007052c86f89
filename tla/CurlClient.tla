----------------------------- MODULE CurlClient -----------------------------
(***************************************************************************)
(* CurlUpstreamClient: callers queue requests, one worker thread starts    *)
(* them on a curl multi handle, cuts the body of a streaming answer into   *)
(* lines as its pieces arrive, and calls the caller back, directly or      *)
(* through the dispatcher that posts to an event loop.  A body is a        *)
(* sequence of characters of which only "n" (newline) and "r" (carriage    *)
(* return) mean anything.                                                  *)
(***************************************************************************)
EXTENDS Naturals, Sequences, FiniteSets, SequencesExt

CONSTANTS
  Requests,
  Streaming,    \* the requests sent with sendStreaming
  Body          \* Body[r]: what the upstream answers to r

VARIABLES
  posting,      \* there is a dispatcher_
  running,      \* running_
  sendQueue,    \* pending_
  worker,       \* where workerLoop is
  taken,        \* the requests popped and not started yet (at most one)
  transfers,    \* active_: per transfer, what was read and line_buffer
  finished,     \* the transfers curl_multi_info_read still reports as done
  wire,         \* per request: the characters that arrived, and how it ended
  posted,       \* callbacks in the event loop
  heard,        \* heard[r]: the callbacks that ran for r
  asked,        \* the requests sent
  closer        \* the thread in shutdown()

netVars == <<wire, asked>>
loopVars == <<posted, heard>>
curlVars == <<posting, running, sendQueue, worker, taken, transfers, finished,
              wire, posted, heard, asked, closer>>

Steps == {"head", "wait", "drain", "start", "check", "perform", "reap", "gone"}
Chunk(line) == [kind |-> "chunk", text |-> line]
Done(body) == [kind |-> "done", text |-> body]
Error == [kind |-> "error", text |-> <<>>]

CurlTypeOK ==
  /\ posting \in BOOLEAN /\ running \in BOOLEAN /\ worker \in Steps
  /\ sendQueue \in Seq(Requests) /\ taken \subseteq Requests /\ Cardinality(taken) <= 1
  /\ finished \subseteq DOMAIN transfers /\ DOMAIN transfers \subseteq asked
  /\ asked \subseteq Requests /\ closer \in {"up", "joining", "closed"}
  /\ \A r \in DOMAIN transfers : transfers[r].read <= wire[r].got
  /\ \A r \in Requests : wire[r].got \in 0 .. Len(Body[r])

CurlInit ==
  /\ posting \in BOOLEAN /\ running = TRUE /\ worker = "head" /\ closer = "up"
  /\ sendQueue = <<>> /\ taken = {} /\ transfers = <<>> /\ finished = {}
  /\ wire = [r \in Requests |-> [got |-> 0, end |-> "open"]]
  /\ posted = <<>> /\ heard = [r \in Requests |-> <<>>] /\ asked = {}

(***************************************************************************)
(* wrapResponse, wrapError and wrapChunk: with a dispatcher a callback is  *)
(* posted, without one it runs at once.                                    *)
(***************************************************************************)
CallsBack(r, events) ==
  IF posting
  THEN /\ posted' = posted \o [i \in DOMAIN events |-> <<r, events[i]>>]
       /\ UNCHANGED heard
  ELSE heard' = [heard EXCEPT ![r] = @ \o events] /\ UNCHANGED posted

\* The event loop runs the callback posted first.
LoopRuns ==
  /\ posted # <<>>
  /\ heard' = [heard EXCEPT ![posted[1][1]] = Append(@, posted[1][2])]
  /\ posted' = Tail(posted)
  /\ UNCHANGED <<posting, running, sendQueue, worker, taken, transfers, finished, netVars, closer>>

\* send, sendStreaming and enqueue.  Nothing asks whether the client still runs.
Send(r) ==
  /\ r \notin asked
  /\ asked' = asked \cup {r}
  /\ sendQueue' = Append(sendQueue, r)
  /\ UNCHANGED <<posting, running, worker, taken, transfers, finished, wire, loopVars, closer>>

(***************************************************************************)
(* The network, under curl: the answer arrives character by character and  *)
(* ends, or the transfer fails or times out.                               *)
(***************************************************************************)
Open(r) == r \in DOMAIN transfers /\ wire[r].end = "open"

Arrives(r) ==
  /\ Open(r) /\ wire[r].got < Len(Body[r])
  /\ wire' = [wire EXCEPT ![r].got = @ + 1]
  /\ UNCHANGED <<posting, running, sendQueue, worker, taken, transfers, finished, loopVars,
                 asked, closer>>

Ends(r) ==
  /\ Open(r)
  /\ \/ wire[r].got = Len(Body[r]) /\ wire' = [wire EXCEPT ![r].end = "ok"]
     \/ wire' = [wire EXCEPT ![r].end = "failed"]
  /\ UNCHANGED <<posting, running, sendQueue, worker, taken, transfers, finished, loopVars,
                 asked, closer>>

(***************************************************************************)
(* The worker thread.                                                      *)
(***************************************************************************)
\* while (running_.load()).
WorkerHead ==
  /\ worker = "head"
  /\ worker' = IF running THEN "wait" ELSE "gone"
  /\ UNCHANGED <<posting, running, sendQueue, taken, transfers, finished, netVars, loopVars,
                 closer>>

\* wait_for, of 10 ms: it needs no notification to end.
WakesWhenAsked ==
  /\ worker = "wait" /\ sendQueue # <<>>
  /\ worker' = "drain"
  /\ UNCHANGED <<posting, running, sendQueue, taken, transfers, finished, netVars, loopVars,
                 closer>>

Wakes ==
  /\ worker = "wait"
  /\ worker' = "drain"
  /\ UNCHANGED <<posting, running, sendQueue, taken, transfers, finished, netVars, loopVars,
                 closer>>

\* while (!pending_.empty()): pop one, and let go of the lock to start it.
Drain ==
  /\ worker = "drain"
  /\ IF sendQueue = <<>>
     THEN worker' = "check" /\ UNCHANGED <<sendQueue, taken>>
     ELSE worker' = "start" /\ taken' = {Head(sendQueue)} /\ sendQueue' = Tail(sendQueue)
  /\ UNCHANGED <<posting, running, transfers, finished, netVars, loopVars, closer>>

startTransfer ==
  /\ worker = "start"
  /\ worker' = "drain" /\ taken' = {}
  /\ transfers' = [r \in DOMAIN transfers \cup taken |->
                     IF r \in taken THEN [read |-> 0, buffer |-> <<>>] ELSE transfers[r]]
  /\ UNCHANGED <<posting, running, sendQueue, finished, netVars, loopVars, closer>>

\* if (!running_ && active_.empty()) break.
WorkerCheck ==
  /\ worker = "check"
  /\ worker' = IF ~running /\ DOMAIN transfers = {} THEN "gone" ELSE "perform"
  /\ UNCHANGED <<posting, running, sendQueue, taken, transfers, finished, netVars, loopVars,
                 closer>>

(***************************************************************************)
(* curl_multi_perform hands what arrived to writeCallback, in pieces of    *)
(* any length; writeCallback gives each complete line that is not empty to *)
(* on_chunk and keeps the rest in line_buffer.                             *)
(***************************************************************************)
Stripped(line) ==
  IF line # <<>> /\ Last(line) = "r" THEN Front(line) ELSE line

Whole(line) == IF Stripped(line) = <<>> THEN <<>> ELSE <<Chunk(Stripped(line))>>

Reads(t, c) ==
  IF c = "n" THEN [buffer |-> <<>>, out |-> t.out \o Whole(t.buffer)]
             ELSE [t EXCEPT !.buffer = Append(@, c)]

Cut(buffer, piece) == FoldLeft(Reads, [buffer |-> buffer, out |-> <<>>], piece)

writeCallback(r, n) ==
  LET t == transfers[r]
      cut == Cut(t.buffer, SubSeq(Body[r], t.read + 1, t.read + n))
  IN  /\ worker = "perform" /\ t.read + n <= wire[r].got
      /\ transfers' = [transfers EXCEPT
                         ![r] = [read |-> t.read + n,
                                 buffer |-> IF r \in Streaming THEN cut.buffer ELSE <<>>]]
      /\ CallsBack(r, IF r \in Streaming THEN cut.out ELSE <<>>)
      /\ UNCHANGED <<posting, running, sendQueue, worker, taken, finished, netVars, closer>>

\* curl reports a transfer that failed, or whose answer was read to its end.
Over(r) ==
  \/ wire[r].end = "failed"
  \/ wire[r].end = "ok" /\ transfers[r].read = Len(Body[r])

\* curl_multi_perform returns when no socket has more to read.
PerformEnds ==
  /\ worker = "perform"
  /\ \A r \in DOMAIN transfers : wire[r].end = "failed" \/ transfers[r].read = wire[r].got
  /\ worker' = "reap"
  /\ finished' = {r \in DOMAIN transfers : Over(r)}
  /\ UNCHANGED <<posting, running, sendQueue, taken, transfers, netVars, loopVars, closer>>

\* What finishTransfer calls: on_error, or the last line and on_done.
LastCalls(r) ==
  IF wire[r].end = "failed" THEN <<Error>>
  ELSE (IF transfers[r].buffer # <<>> THEN <<Chunk(transfers[r].buffer)>> ELSE <<>>)
       \o <<Done(SubSeq(Body[r], 1, transfers[r].read))>>

finishTransferKept(r) ==
  /\ worker = "reap" /\ r \in finished
  /\ CallsBack(r, LastCalls(r))
  /\ finished' = finished \ {r}
  /\ UNCHANGED <<posting, running, sendQueue, worker, taken, transfers, netVars, closer>>

finishTransfer(r) ==
  /\ worker = "reap" /\ r \in finished
  /\ CallsBack(r, LastCalls(r))
  /\ finished' = finished \ {r}
  /\ transfers' = [q \in DOMAIN transfers \ {r} |-> transfers[q]]
  /\ UNCHANGED <<posting, running, sendQueue, worker, taken, netVars, closer>>

\* No message is left; curl_multi_poll only waits.
ReapEnds ==
  /\ worker = "reap" /\ finished = {}
  /\ worker' = "head"
  /\ UNCHANGED <<posting, running, sendQueue, taken, transfers, finished, netVars, loopVars,
                 closer>>

CurlWorker ==
  \/ WorkerHead \/ Wakes \/ Drain \/ startTransfer \/ WorkerCheck
  \/ \E r \in DOMAIN transfers : \E n \in 1 .. Len(Body[r]) : writeCallback(r, n)
  \/ PerformEnds
  \/ \E r \in finished : finishTransfer(r)
  \/ ReapEnds

(***************************************************************************)
(* shutdown, which the destructor calls: the transfers still active are    *)
(* freed, and nobody is called back for them.                              *)
(***************************************************************************)
CurlShutdown ==
  /\ closer = "up"
  /\ closer' = "joining" /\ running' = FALSE
  /\ UNCHANGED <<posting, sendQueue, worker, taken, transfers, finished, netVars, loopVars>>

CurlJoin ==
  /\ closer = "joining" /\ worker = "gone"
  /\ closer' = "closed" /\ transfers' = <<>>
  /\ UNCHANGED <<posting, running, sendQueue, worker, taken, finished, netVars, loopVars>>

CurlNext ==
  \/ CurlWorker \/ LoopRuns \/ CurlShutdown \/ CurlJoin
  \/ \E r \in Requests : Send(r) \/ Arrives(r) \/ Ends(r)

(***************************************************************************)
(* Properties.                                                             *)
(***************************************************************************)
Final(e) == e.kind # "chunk"

\* A caller is told once how its request ended, and hears no chunk after
\* that: the connectors give up the request's state in the last callback.
AnsweredOnce ==
  \A r \in Requests : \A i \in DOMAIN heard[r] :
    Final(heard[r][i]) => i = Len(heard[r])

Answered(r) == \E i \in DOMAIN heard[r] : Final(heard[r][i])

\* While the client runs, every request is answered, by the upstream or by
\* its timeout.  After shutdown() nothing is promised: the worker leaves with
\* requests queued and transfers active.
RequestsAnswered == \A r \in Requests : (r \in asked) ~> (Answered(r) \/ ~running)
=============================================================================

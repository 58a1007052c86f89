--------------------------- MODULE RolloutTicker ---------------------------
(***************************************************************************)
(* The control-plane process from the start of its server to its exit: the *)
(* gRPC workers, the shutdown watcher, the ticker thread that calls        *)
(* RolloutController::onTick, and the stop() that joins it.  stop() joins  *)
(* through a std::async helper so that it can give up after max_wait; the  *)
(* future it gets is a local, and the destructor of a std::async future    *)
(* waits for the helper.                                                   *)
(***************************************************************************)
EXTENDS Naturals

CONSTANTS
  MaxCalls,   \* bound on the gRPC calls in progress
  TicksEnd    \* every onTick returns (no call it makes hangs)

VARIABLES
  main,       \* where the main thread is
  watcher,    \* the thread in sigwait, then in Server::Shutdown
  server,     \* "up", "draining" or "closed"
  calls,      \* gRPC handlers running
  loop,       \* where the ticker thread is, "none" when there is none
  helper,     \* the async joiner, "none" before it is launched
  joinable,   \* the handle th_ still refers to the ticker thread
  started, stopTicker,
  audit       \* the audit logger still takes events

procVars == <<watcher, server, calls, audit>>
tickVars == <<helper, joinable, started, stopTicker>>
tickerVars == <<main, watcher, server, calls, loop, helper, joinable, started, stopTicker, audit>>

StopSteps ==
  {"stop", "signal", "notify", "spawn", "wait", "expired", "detach", "destroy", "terminated"}

TickerTypeOK ==
  /\ main \in {"init", "serving", "join_watcher", "flush", "exited"} \cup StopSteps
  /\ watcher \in {"none", "sigwait", "shutdown", "done"}
  /\ server \in {"up", "draining", "closed"}
  /\ calls \in 0 .. MaxCalls
  /\ loop \in {"none", "head", "tick", "ticked", "waiting", "exited"}
  /\ helper \in {"none", "launched", "joining", "joined", "threw"}
  /\ {joinable, started, stopTicker, audit} \subseteq BOOLEAN

\* bootstrapServer has returned.
TickerInit ==
  /\ main = "init" /\ watcher = "none" /\ server = "up" /\ calls = 0
  /\ loop = "none" /\ helper = "none"
  /\ joinable = FALSE /\ started = FALSE /\ stopTicker = FALSE /\ audit = TRUE

MainTo(pc) == main' = pc

(***************************************************************************)
(* The gRPC server and the watcher.                                        *)
(***************************************************************************)

CallBegins ==
  /\ server = "up" /\ calls < MaxCalls
  /\ calls' = calls + 1
  /\ UNCHANGED <<main, watcher, server, audit, loop, tickVars>>

CallEnds ==
  /\ calls > 0
  /\ calls' = calls - 1
  /\ UNCHANGED <<main, watcher, server, audit, loop, tickVars>>

\* SIGINT or SIGTERM reaches sigwait; Server::Shutdown refuses new calls ...
SignalArrives ==
  /\ watcher = "sigwait"
  /\ watcher' = "shutdown" /\ server' = "draining"
  /\ UNCHANGED <<main, calls, audit, loop, tickVars>>

\* ... and returns when the running ones are done (it cancels them at its
\* deadline, but the handlers still have to return).
ServerShutdownReturns ==
  /\ watcher = "shutdown" /\ calls = 0
  /\ watcher' = "done" /\ server' = "closed"
  /\ UNCHANGED <<main, calls, audit, loop, tickVars>>

(***************************************************************************)
(* The main thread.                                                        *)
(***************************************************************************)
\* ticker.start(), then the watcher, then server->Wait().
Start ==
  /\ main = "init" /\ ~started
  /\ started' = TRUE /\ stopTicker' = FALSE
  /\ loop' = "head" /\ joinable' = TRUE
  /\ watcher' = "sigwait"
  /\ MainTo("serving")
  /\ UNCHANGED <<server, calls, audit, helper>>

\* Wait() may return while Shutdown() is still draining.
WaitReturns ==
  /\ main = "serving" /\ server # "up"
  /\ MainTo("join_watcher")
  /\ UNCHANGED <<procVars, loop, tickVars>>

JoinWatcher ==
  /\ main = "join_watcher" /\ watcher = "done"
  /\ MainTo("stop")
  /\ UNCHANGED <<procVars, loop, tickVars>>

\* stop(): only the call that takes started_ down goes on.
Stop ==
  /\ main = "stop"
  /\ started' = FALSE
  /\ MainTo(IF started THEN "signal" ELSE "flush")
  /\ UNCHANGED <<procVars, loop, helper, joinable, stopTicker>>

Signal ==
  /\ main = "signal"
  /\ stopTicker' = TRUE
  /\ MainTo("notify")
  /\ UNCHANGED <<procVars, loop, helper, joinable, started>>

\* SystemClock::notify takes the mutex waitFor waits with.
Notify ==
  /\ main = "notify"
  /\ loop' = IF loop = "waiting" /\ stopTicker THEN "head" ELSE loop
  /\ MainTo("spawn")
  /\ UNCHANGED <<procVars, tickVars>>

Spawn ==
  /\ main = "spawn"
  /\ helper' = "launched"
  /\ MainTo("wait")
  /\ UNCHANGED <<procVars, loop, joinable, started, stopTicker>>

\* The helper gets to th_.join(), which throws into the future once th_ is
\* detached.
HelperJoins ==
  /\ helper = "launched"
  /\ helper' = IF joinable THEN "joining" ELSE "threw"
  /\ UNCHANGED <<main, procVars, loop, joinable, started, stopTicker>>

\* The thread is over: join() clears th_ and returns.
Join ==
  /\ helper = "joining" /\ loop = "exited"
  /\ helper' = "joined" /\ joinable' = FALSE
  /\ UNCHANGED <<main, procVars, loop, started, stopTicker>>

Ready ==
  /\ main = "wait" /\ helper = "joined"
  /\ MainTo("destroy")
  /\ UNCHANGED <<procVars, loop, tickVars>>

\* max_wait is over, whether or not the helper has got to join().
Timeout ==
  /\ main = "wait" /\ helper \in {"launched", "joining"}
  /\ MainTo("expired")
  /\ UNCHANGED <<procVars, loop, tickVars>>

\* if (th_.joinable()), which the helper's join() may outdate at once ...
Joinable ==
  /\ main = "expired"
  /\ MainTo(IF joinable THEN "detach" ELSE "destroy")
  /\ UNCHANGED <<procVars, loop, tickVars>>

\* ... th_.detach(): a helper inside join() keeps waiting.  Of a thread joined
\* meanwhile it throws, out of stop() and main.
Detach ==
  /\ main = "detach"
  /\ joinable' = FALSE
  /\ MainTo(IF joinable THEN "destroy" ELSE "terminated")
  /\ UNCHANGED <<procVars, loop, helper, started, stopTicker>>

\* A bug (and what the comment has in mind): the future does not wait.
DestroyAtOnce ==
  /\ main = "destroy"
  /\ MainTo("flush")
  /\ UNCHANGED <<procVars, loop, tickVars>>

\* End of stop(): the future's destructor waits for the helper, and drops what
\* the helper threw.
Destroy ==
  /\ main = "destroy" /\ helper \in {"joined", "threw"}
  /\ loop' = IF helper = "joined" THEN "none" ELSE loop
  /\ MainTo("flush")
  /\ UNCHANGED <<procVars, tickVars>>

\* audit.shutdown(), then main returns and destroys everything.
FlushAudit ==
  /\ main = "flush"
  /\ audit' = FALSE
  /\ MainTo("exited")
  /\ UNCHANGED <<watcher, server, calls, loop, tickVars>>

(***************************************************************************)
(* The ticker thread.                                                      *)
(***************************************************************************)
LoopTo(pc) ==
  /\ loop' = pc
  /\ UNCHANGED <<main, procVars, tickVars>>

LoopHead == loop = "head" /\ LoopTo(IF stopTicker THEN "exited" ELSE "tick")

\* onTick returns, or throws and is caught.
TickEnds == loop = "tick" /\ LoopTo("ticked")

\* The check after the tick, and waitFor's own check under its mutex.
LoopTicked == loop = "ticked" /\ LoopTo(IF stopTicker THEN "exited" ELSE "waiting")

\* The interval is over.
LoopWakes == loop = "waiting" /\ LoopTo("head")

MainStep ==
  \/ Start \/ WaitReturns \/ JoinWatcher \/ Stop \/ Signal \/ Notify \/ Spawn
  \/ Ready \/ Timeout \/ Joinable \/ Detach \/ Destroy \/ FlushAudit
HelperStep == HelperJoins \/ Join
LoopStep == LoopHead \/ LoopTicked \/ LoopWakes

TickerNext ==
  \/ MainStep \/ HelperStep \/ LoopStep \/ TickEnds
  \/ CallBegins \/ CallEnds \/ SignalArrives \/ ServerShutdownReturns

\* Threads run, the interval passes and handlers return; a signal need not
\* come, and an onTick need not return unless TicksEnd.
TickerSpec ==
  /\ TickerInit /\ [][TickerNext]_tickerVars
  /\ WF_tickerVars(MainStep) /\ WF_tickerVars(HelperStep) /\ WF_tickerVars(LoopStep)
  /\ WF_tickerVars(CallEnds) /\ WF_tickerVars(ServerShutdownReturns)
  /\ (TicksEnd => WF_tickerVars(TickEnds))

\* Once the audit logger is shut down and main is about to destroy the
\* store, the core and the controller, no gRPC handler is running, and no tick
\* either, even if stop() gave up waiting for the ticker: except when the helper
\* had not got to join() by then, which leaves the thread to itself.
QuietAtExit ==
  ~audit => calls = 0 /\ watcher = "done" /\ (loop = "none" \/ helper = "threw")
=============================================================================

---------------------------- MODULE AdminStream ----------------------------
(***************************************************************************)
(* What the admin consoles are pushed: AdminWsController, the log stream   *)
(* of ApiController::logStream, and the subscribers of AuditLogger behind  *)
(* both.  The handlers of different connections, the threads that log and  *)
(* the event loop's timers interleave; the handlers of one connection run  *)
(* one after the other.                                                    *)
(***************************************************************************)
EXTENDS Naturals, FiniteSets

CONSTANTS
  Consoles,       \* WebSocket connections
  Super,          \* those whose role is SuperAdmin
  TenantOf,       \* TenantOf[c]: the tenant of the session behind c
  Streams,        \* /admin/logs/stream requests
  Level,          \* Level[s]: the ?level= filter of s, or "any"
  LogThreads,
  Entries,        \* the audit entries a request can cause: [tenant, action]
  MaxLogs,        \* bound on the calls of log()
  MaxPushes       \* bound on the timer's ticks

ASSUME StreamAssumption == "ws" \notin Streams

VARIABLES
  console,        \* console[c]: where c's handlers are
  connections,    \* connections_
  timersUp,       \* timer_started_
  subscribers,    \* AuditLogger::subscribers_: "ws" or a stream
  wsSubId,        \* audit_sub_id_ is not 0
  stream,         \* stream[s]: [open: the client is there, known: *sub_id is set]
  logCall,        \* per thread in log(): entry, callbacks left, who must hear it
  logs, pushes,
  heardBy,        \* heardBy[c]: the messages sent to c
  ready,          \* the first connection's handler has returned
  foundNone       \* a close handler has found nobody connected

hubVars == <<connections, timersUp, wsSubId, ready, foundNone>>
streamVars == <<console, connections, timersUp, subscribers, wsSubId, stream, logCall,
                logs, pushes, heardBy, ready, foundNone>>

Global == "global"
Message(kind, scope, n) == [kind |-> kind, scope |-> scope, n |-> n]
NoLog == [n |-> 0, entry |-> [tenant |-> "none", action |-> "none"], left |-> {},
          due |-> {}]
Logging(g) == logCall[g].n # 0

StreamInit ==
  /\ console = [c \in Consoles |-> "away"]
  /\ connections = {} /\ timersUp = FALSE /\ subscribers = {} /\ wsSubId = FALSE
  /\ stream = [s \in Streams |-> [open |-> FALSE, known |-> FALSE, asked |-> FALSE]]
  /\ logCall = [g \in LogThreads |-> NoLog]
  /\ logs = 0 /\ pushes = 0 /\ heardBy = [c \in Consoles |-> {}]
  /\ ready = FALSE /\ foundNone = FALSE

(***************************************************************************)
(* handleNewConnection.  Who is let in is AdminAuth's affair; a refused    *)
(* connection is closed and its close handler runs all the same.           *)
(***************************************************************************)
Connect(c) ==
  /\ console[c] = "away"
  /\ \/ console' = [console EXCEPT ![c] = "refused"] /\ UNCHANGED connections
     \/ /\ console' = [console EXCEPT ![c] = "inserted"]
        /\ connections' = connections \cup {c}
  /\ UNCHANGED <<timersUp, subscribers, wsSubId, stream, logCall, logs, pushes, heardBy,
                 ready, foundNone>>

\* timer_started_.exchange(true): only the first connection ever starts.
Exchange(c) ==
  /\ console[c] = "inserted"
  /\ timersUp' = TRUE
  /\ console' = [console EXCEPT ![c] = IF timersUp THEN "open" ELSE "starting"]
  /\ UNCHANGED <<connections, subscribers, wsSubId, stream, logCall, logs, pushes, heardBy,
                 ready, foundNone>>

startAuditSubscription(c) ==
  /\ console[c] = "starting"
  /\ subscribers' = subscribers \cup {"ws"}
  /\ console' = [console EXCEPT ![c] = "subscribed"]
  /\ UNCHANGED <<hubVars, stream, logCall, logs, pushes, heardBy>>

StoreSubId(c) ==
  /\ console[c] = "subscribed"
  /\ wsSubId' = TRUE /\ ready' = TRUE
  /\ console' = [console EXCEPT ![c] = "open"]
  /\ UNCHANGED <<connections, timersUp, subscribers, stream, logCall, logs, pushes, heardBy,
                 foundNone>>

(***************************************************************************)
(* handleConnectionClosed: erase, look whether anybody is left, and end    *)
(* the subscription when nobody is.                                        *)
(***************************************************************************)
Close(c) ==
  /\ console[c] \in {"open", "refused"}
  /\ connections' = connections \ {c}
  /\ console' = [console EXCEPT ![c] = "erased"]
  /\ UNCHANGED <<timersUp, subscribers, wsSubId, stream, logCall, logs, pushes, heardBy,
                 ready, foundNone>>

CountLeftAlways(c) ==
  /\ console[c] = "erased"
  /\ console' = [console EXCEPT ![c] = "stopping"]
  /\ foundNone' = (foundNone \/ connections = {})
  /\ UNCHANGED <<connections, timersUp, subscribers, wsSubId, stream, logCall, logs, pushes,
                 heardBy, ready>>

CountLeft(c) ==
  /\ console[c] = "erased"
  /\ console' = [console EXCEPT ![c] = IF connections = {} THEN "stopping" ELSE "gone"]
  /\ foundNone' = (foundNone \/ connections = {})
  /\ UNCHANGED <<connections, timersUp, subscribers, wsSubId, stream, logCall, logs, pushes,
                 heardBy, ready>>

\* audit_sub_id_.exchange(0).
stopAuditSubscription(c) ==
  /\ console[c] = "stopping"
  /\ wsSubId' = FALSE
  /\ console' = [console EXCEPT ![c] = IF wsSubId THEN "unsubscribing" ELSE "gone"]
  /\ UNCHANGED <<connections, timersUp, subscribers, stream, logCall, logs, pushes, heardBy,
                 ready, foundNone>>

Unsubscribe(c) ==
  /\ console[c] = "unsubscribing"
  /\ subscribers' = subscribers \ {"ws"}
  /\ console' = [console EXCEPT ![c] = "gone"]
  /\ UNCHANGED <<hubVars, stream, logCall, logs, pushes, heardBy>>

(***************************************************************************)
(* logStream: subscribe, and store the id for the callback afterwards.     *)
(***************************************************************************)
OpenStream(s) ==
  /\ ~stream[s].asked
  /\ stream' = [stream EXCEPT ![s].open = TRUE, ![s].asked = TRUE]
  /\ subscribers' = subscribers \cup {s}
  /\ UNCHANGED <<console, hubVars, logCall, logs, pushes, heardBy>>

StoreStreamId(s) ==
  /\ stream[s].asked /\ ~stream[s].known
  /\ stream' = [stream EXCEPT ![s].known = TRUE]
  /\ UNCHANGED <<console, hubVars, subscribers, logCall, logs, pushes, heardBy>>

\* The client goes away: only a failing send tells.
StreamBreaks(s) ==
  /\ stream[s].open
  /\ stream' = [stream EXCEPT ![s].open = FALSE]
  /\ UNCHANGED <<console, hubVars, subscribers, logCall, logs, pushes, heardBy>>

(***************************************************************************)
(* AuditLogger::log, from the snapshot of the subscribers on.              *)
(***************************************************************************)
shouldDeliverAuditToConnection(c, tenant) == c \in Super \/ TenantOf[c] = tenant
shouldDeliverGlobalMetrics(c) == c \in Super
Matches(s, entry) == Level[s] \in {"any", entry.action}

Snapshot(g, entry) ==
  /\ ~Logging(g) /\ logs < MaxLogs
  /\ logs' = logs + 1
  /\ logCall' = [logCall EXCEPT ![g] =
       [n |-> logs + 1, entry |-> entry, left |-> subscribers,
        due |-> {c \in connections : /\ ready /\ ~foundNone /\ console[c] = "open"
                                     /\ shouldDeliverAuditToConnection(c, entry.tenant)}]]
  /\ UNCHANGED <<console, hubVars, subscribers, stream, pushes, heardBy>>

\* The callback of the controller: every connection of the set, under its lock.
DeliverToConsoles(g) ==
  LET e == logCall[g].entry IN
  /\ "ws" \in logCall[g].left
  /\ heardBy' = [c \in Consoles |->
       IF c \in connections /\ shouldDeliverAuditToConnection(c, e.tenant)
       THEN heardBy[c] \cup {Message("audit", e.tenant, logCall[g].n)} ELSE heardBy[c]]
  /\ logCall' = [logCall EXCEPT ![g].left = @ \ {"ws"}]
  /\ UNCHANGED <<console, hubVars, subscribers, stream, logs, pushes>>

\* The callback of a stream: a send that fails ends the subscription, by the
\* id it finds.  Reading *sub_id while it is stored is a race: the id is seen
\* or not.
DeliverToStream(g, s) ==
  /\ s \in logCall[g].left
  /\ logCall' = [logCall EXCEPT ![g].left = @ \ {s}]
  /\ IF Matches(s, logCall[g].entry) /\ ~stream[s].open
     THEN \E seen \in BOOLEAN :
            /\ stream[s].known => seen
            /\ subscribers' = IF seen THEN subscribers \ {s} ELSE subscribers
     ELSE UNCHANGED subscribers
  /\ UNCHANGED <<console, hubVars, stream, logs, pushes, heardBy>>

LogReturns(g) ==
  /\ Logging(g) /\ logCall[g].left = {}
  /\ logCall' = [logCall EXCEPT ![g] = NoLog]
  /\ UNCHANGED <<console, hubVars, subscribers, stream, logs, pushes, heardBy>>

(***************************************************************************)
(* The timers the first connection starts, which run for good.             *)
(***************************************************************************)
TimersRun == timersUp /\ \A c \in Consoles : console[c] # "starting"

PushMetrics ==
  /\ TimersRun /\ connections # {} /\ pushes < MaxPushes
  /\ pushes' = pushes + 1
  /\ heardBy' = [c \in Consoles |->
       IF c \in connections /\ shouldDeliverGlobalMetrics(c)
       THEN heardBy[c] \cup {Message("metrics", Global, 0)} ELSE heardBy[c]]
  /\ UNCHANGED <<console, hubVars, subscribers, stream, logCall, logs>>

PushCaseStudy ==
  /\ TimersRun /\ connections # {} /\ pushes < MaxPushes
  /\ pushes' = pushes + 1
  /\ heardBy' = [c \in Consoles |->
       IF c \in connections
       THEN heardBy[c] \cup
              {Message("case_study", IF c \in Super THEN Global ELSE TenantOf[c], 0)}
       ELSE heardBy[c]]
  /\ UNCHANGED <<console, hubVars, subscribers, stream, logCall, logs>>

StreamNext ==
  \/ \E c \in Consoles :
       \/ Connect(c) \/ Exchange(c) \/ startAuditSubscription(c) \/ StoreSubId(c)
       \/ Close(c) \/ CountLeft(c) \/ stopAuditSubscription(c) \/ Unsubscribe(c)
  \/ \E s \in Streams : OpenStream(s) \/ StoreStreamId(s) \/ StreamBreaks(s)
  \/ \E g \in LogThreads :
       \/ \E e \in Entries : Snapshot(g, e)
       \/ DeliverToConsoles(g)
       \/ \E s \in Streams : DeliverToStream(g, s)
       \/ LogReturns(g)
  \/ PushMetrics \/ PushCaseStudy

StreamSpec == StreamInit /\ [][StreamNext]_streamVars

(***************************************************************************)
(* Properties.                                                             *)
(***************************************************************************)

\* As long as no close handler has found the last console gone, a console
\* that is connected throughout a log() call hears its entry.  (After that
\* timer_started_ stays set and nothing subscribes again.)
HeardWhileConnected ==
  \A g \in LogThreads :
    Logging(g) /\ logCall[g].left = {} =>
      \A c \in logCall[g].due \cap connections :
        Message("audit", logCall[g].entry.tenant, logCall[g].n) \in heardBy[c]
=============================================================================

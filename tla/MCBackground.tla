---------------------------- MODULE MCBackground ----------------------------
(***************************************************************************)
(* The background threads of the two processes: the rollout ticker, the    *)
(* dispatcher of the feedback bus, the writer of the audit log and the     *)
(* worker of the curl client.  They share no state, so one of them is      *)
(* chosen in the initial state and the others stand still: the graph is    *)
(* the disjoint union of theirs.                                           *)
(***************************************************************************)
EXTENDS RolloutTicker, FeedbackBus, AuditLogger, CurlClient

VARIABLE part

\* The streaming answer has a line ended by CRLF, an empty line and a last
\* line without an end; the other one is a plain body.
MCRequests == {"chat", "stream"}
MCBody == [r \in MCRequests |->
             IF r = "stream" THEN <<"a", "r", "n", "n", "b">> ELSE <<"c">>]

allVars == <<part, tickerVars, busAllVars, auditVars, curlVars>>

Init ==
  /\ part \in {"ticker", "bus", "audit", "curl"}
  /\ TickerInit /\ BusInit /\ AuditInit
  /\ CurlInit /\ (part # "curl" => posting)

Only(p) ==
  /\ part = p /\ UNCHANGED part
  /\ IF p = "ticker" THEN TRUE ELSE UNCHANGED tickerVars
  /\ IF p = "bus" THEN TRUE ELSE UNCHANGED busAllVars
  /\ IF p = "audit" THEN TRUE ELSE UNCHANGED auditVars
  /\ IF p = "curl" THEN TRUE ELSE UNCHANGED curlVars

Next ==
  \/ Only("ticker") /\ TickerNext
  \/ Only("bus") /\ BusNext
  \/ Only("audit") /\ AuditNext
  \/ Only("curl") /\ CurlNext

\* The fairness each part states for itself, of the part that was chosen.
Fairness ==
  /\ WF_tickerVars(part = "ticker" /\ MainStep)
  /\ WF_tickerVars(part = "ticker" /\ HelperStep)
  /\ WF_tickerVars(part = "ticker" /\ LoopStep)
  /\ WF_tickerVars(part = "ticker" /\ TickEnds)
  /\ WF_tickerVars(part = "ticker" /\ CallEnds)
  /\ WF_tickerVars(part = "ticker" /\ ServerShutdownReturns)
  /\ WF_busAllVars(part = "bus" /\ Dispatch)
  /\ WF_busAllVars(part = "bus" /\ StopStep)
  /\ \A p \in Publishers :
       WF_busAllVars(part = "bus" /\ (PublishEnqueue(p) \/ PublishNotify(p)))
  /\ WF_auditVars(part = "audit" /\ Writer)
  /\ \A t \in Loggers : WF_auditVars(part = "audit" /\ LogEnqueue(t))
  /\ WF_auditVars(part = "audit" /\ (\/ AuditFlushBegin(Main) \/ FlushEnd(Main)
                                     \/ MainStop \/ MainJoin \/ MainClose))
  /\ WF_curlVars(part = "curl" /\ CurlWorker)
  /\ WF_curlVars(part = "curl" /\ LoopRuns)
  /\ WF_curlVars(part = "curl" /\ CurlJoin)
  /\ \A r \in Requests : WF_curlVars(part = "curl" /\ Ends(r))

Spec == Init /\ [][Next]_allVars /\ Fairness
=============================================================================

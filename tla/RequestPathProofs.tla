------------------------- MODULE RequestPathProofs -------------------------
(***************************************************************************)
(* The request path, for any number of threads, tenants and deployments.   *)
(*                                                                         *)
(* The gauge is balanced on every way out, the path implements the budget  *)
(* promise (Budget), so that a tenant's limit is overspent by at most one  *)
(* request of each thread, and the cache only holds filtered answers.      *)
(*                                                                         *)
(* None of these is inductive by itself.  JobOK says what is known of a    *)
(* request at each place of the path: a proxied request is never where its *)
(* cost would be charged as that of a checked one, a cost is within        *)
(* bounds from the moment it is known, and an answer is filtered once the  *)
(* outbound stages are behind it.                                          *)
(***************************************************************************)
EXTENDS RequestPath, FiniteSetTheorems, TLAPS

Fields == DOMAIN Context("chat", "", {})

\* What is known of a request.
JobOK(j) ==
  \/ j = NoJob
  \/ /\ DOMAIN j = Fields
     /\ j.at # "idle"
     /\ j.tenant \in Tenants
     /\ j.cost \in 0 .. MaxCost
     /\ j.at \in {"outbound", "persist", "finalize"} => j.kind # "proxy"
     /\ j.at \in {"route", "charge"} => j.kind = "proxy"
     /\ j.at \in {"persist", "finalize"} => j.answer \cap {"secret", "pii"} = {}

JobsOK == DOMAIN job = Threads /\ \A t \in Threads : JobOK(job[t])

CostsOK ==
  /\ options \in Deployments
  /\ stored \in [Tenants -> Nat]
  /\ unchecked \in [Tenants -> Nat]

PathInv == JobsOK /\ CostsOK /\ CachedIsFiltered

\* The requests the gauge counts.
Counts(j) == j.at \notin {"idle", "charge"}

\* Only t's request changes, if any.
OnlyJob(t) == DOMAIN job' = Threads /\ \A u \in Threads \ {t} : job'[u] = job[u]

\* What a step of thread t does to what the gauge and the budget see.
Gauged(t) ==
  \/ Counts(job'[t]) = Counts(job[t]) /\ gauge' = gauge
  \/ Counts(job'[t]) /\ ~Counts(job[t]) /\ gauge' = gauge + 1
  \/ ~Counts(job'[t]) /\ Counts(job[t]) /\ gauge' = gauge - 1

\* What a step of thread t is to the budget.
Budgeted(t) ==
  \/ LetThroughFor(t)' = LetThroughFor(t) /\ UNCHANGED <<stored, unchecked>>
  \/ LetThroughFor(t)' = "none" /\ UNCHANGED <<stored, unchecked>>
  \/ \E w \in Tenants : /\ LetThroughFor(t) = "none" /\ LetThroughFor(t)' = w
                        /\ stored[w] < Limit
                        /\ UNCHANGED <<stored, unchecked>>
  \/ \E w \in Tenants, c \in 0 .. MaxCost :
       /\ LetThroughFor(t) = w /\ LetThroughFor(t)' = "none"
       /\ stored' = [stored EXCEPT ![w] = @ + c]
       /\ UNCHANGED unchecked
  \/ \E w \in Tenants, c \in 0 .. MaxCost :
       /\ LetThroughFor(t)' = LetThroughFor(t)
       /\ stored' = [stored EXCEPT ![w] = @ + c]
       /\ unchecked' = [unchecked EXCEPT ![w] = @ + c]

\* What is shown of every step of a thread.
StepOK(t) == PathInv' /\ OnlyJob(t) /\ Gauged(t) /\ Budgeted(t)

-----------------------------------------------------------------------------
\* The request of thread t, and what replacing it does.
LEMMA Replaced ==
  ASSUME JobsOK, NEW t \in Threads, NEW j, JobOK(j), job' = [job EXCEPT ![t] = j]
  PROVE  JobsOK' /\ OnlyJob(t) /\ job'[t] = j
BY DEF JobsOK, OnlyJob

LEMMA FieldsAre ==
  Fields = {"at", "kind", "tenant", "text", "charge", "cost", "answer", "verdicts", "sent"}
BY DEF Fields, Context

\* Ends: the reply is sent.
LEMMA EndsOK ==
  ASSUME PathInv, NEW t \in Threads, Counts(job[t]), Ends(t),
         UNCHANGED <<options, stored, unchecked, cached>>
  PROVE  StepOK(t)
  <1>1. JobOK(NoJob)
    BY DEF JobOK
  <1>2. JobsOK' /\ OnlyJob(t) /\ job'[t] = NoJob /\ gauge' = gauge - 1
    BY <1>1, Replaced, Zenon DEF PathInv, Ends
  <1>3. Gauged(t)
    BY <1>2 DEF Gauged, Counts, NoJob
  <1>4. Budgeted(t)
    BY <1>2 DEF Budgeted, LetThroughFor, NoJob
  <1> QED BY <1>2, <1>3, <1>4 DEF StepOK, PathInv, CostsOK, CachedIsFiltered

\* Goes: the request moves on, and is not charged or let through by it.
LEMMA GoesOK ==
  ASSUME PathInv, NEW t \in Threads, NEW at, Counts(job[t]), Goes(t, at),
         at \notin {"idle", "charge", "outbound", "persist", "finalize", "call"},
         at = "route" => job[t].kind = "proxy",
         job[t].at \notin {"call", "outbound", "persist"},
         UNCHANGED <<options, stored, unchecked, cached, gauge>>
  PROVE  StepOK(t)
  <1> DEFINE j == [job[t] EXCEPT !.at = at]
  <1>0. JobOK(job[t]) /\ DOMAIN job = Threads
    BY DEF PathInv, JobsOK
  <1>1. DOMAIN job[t] = Fields /\ job[t] # NoJob
    BY <1>0 DEF JobOK, Counts, NoJob
  <1>2. j.at = at /\ DOMAIN j = Fields /\ j.tenant = job[t].tenant /\ j.cost = job[t].cost
        /\ j.kind = job[t].kind
    BY <1>1, FieldsAre
  <1>3. JobOK(j)
    BY <1>0, <1>1, <1>2 DEF JobOK
  <1>4. job' = [job EXCEPT ![t] = j]
    BY <1>0 DEF Goes
  <1>5. JobsOK' /\ OnlyJob(t) /\ job'[t] = j
    BY <1>3, <1>4, Replaced, Zenon DEF PathInv
  <1>6. Gauged(t)
    BY <1>2, <1>5 DEF Gauged, Counts
  <1>7. Budgeted(t)
    BY <1>2, <1>5 DEF Budgeted, LetThroughFor
  <1> QED BY <1>5, <1>6, <1>7 DEF StepOK, PathInv, CostsOK, CachedIsFiltered
\* The other changes of a request: the fields that change are given, and what
\* JobOK asks of them is left to the caller.
LEMMA ChangesOK ==
  ASSUME PathInv, NEW t \in Threads, NEW j, job' = [job EXCEPT ![t] = j], JobOK(j),
         UNCHANGED <<options, cached>>
  PROVE  /\ job'[t] = j /\ OnlyJob(t)
         /\ CostsOK' => PathInv'
BY Replaced, Zenon DEF PathInv, CachedIsFiltered

\* A request that counts has all the fields.
LEMMA HasFields ==
  ASSUME PathInv, NEW t \in Threads, job[t].at # "idle"
  PROVE  /\ DOMAIN job = Threads /\ DOMAIN job[t] = Fields
         /\ job[t].tenant \in Tenants
         /\ job[t].cost \in 0 .. MaxCost
         /\ job[t].at \in {"outbound", "persist", "finalize"} => job[t].kind # "proxy"
         /\ job[t].at \in {"route", "charge"} => job[t].kind = "proxy"
         /\ job[t].at \in {"persist", "finalize"} => job[t].answer \cap {"secret", "pii"} = {}
  <1>1. JobOK(job[t]) /\ DOMAIN job = Threads
    BY DEF PathInv, JobsOK
  <1> QED BY <1>1 DEF JobOK, NoJob

LEMMA AcceptOK ==
  ASSUME PathInv, NEW t \in Threads, NEW k, NEW w \in Tenants, NEW text, Accept(t, k, w, text)
  PROVE  StepOK(t)
  <1> DEFINE j == Context(k, w, text)
  <1>1. /\ DOMAIN j = Fields /\ j.at = "admit" /\ j.tenant = w /\ j.cost = 0
        /\ Counts(j)
    BY FieldsAre DEF Context, Counts
  <1>2. JobOK(j)
    BY <1>1, CostAssumption DEF JobOK
  <1>3. job' = [job EXCEPT ![t] = j] /\ job[t] = NoJob /\ gauge' = gauge + 1
        /\ UNCHANGED <<options, stored, unchecked, cached>>
    BY DEF Accept, costVars
  <1>4. job'[t] = j /\ OnlyJob(t) /\ PathInv'
    BY <1>2, <1>3, ChangesOK, Zenon DEF PathInv, CostsOK
  <1>5. Gauged(t)
    BY <1>1, <1>3, <1>4 DEF Gauged, Counts, NoJob
  <1>6. Budgeted(t)
    BY <1>1, <1>3, <1>4 DEF Budgeted, LetThroughFor, NoJob
  <1> QED BY <1>4, <1>5, <1>6 DEF StepOK

LEMMA AdmitOK ==
  ASSUME PathInv, NEW t \in Threads, NEW known \in BOOLEAN, Admit(t, known)
  PROVE  StepOK(t)
  <1>1. job[t].at = "admit" /\ Counts(job[t]) /\ UNCHANGED <<options, stored, unchecked, cached>>
    BY DEF Admit, Counts, costVars
  <1>2. CASE Ends(t)
    BY <1>1, <1>2, EndsOK
  <1>3. CASE ~Ends(t)
    <2> DEFINE at == IF job[t].kind = "proxy" THEN "limit" ELSE "first"
    <2>0. PICK w \in observe(windows, job[t].tenant, job[t].text, Now) :
             LET action == getAction(w, job[t].tenant, Now)
             IN  IF action = "Block" THEN Ends(t)
                 ELSE /\ job' = [job EXCEPT ![t].charge = abuseCostMultiplier(action),
                                            ![t].at = at]
                      /\ Stays
      BY <1>3, Zenon DEF Admit
    <2> DEFINE c == abuseCostMultiplier(getAction(w, job[t].tenant, Now))
    <2>1. job' = [job EXCEPT ![t].charge = c, ![t].at = at] /\ gauge' = gauge
          /\ at \in {"limit", "first"}
      BY <1>3, <2>0, Zenon DEF Stays
    <2> HIDE DEF c, at
    <2> DEFINE j == [job[t] EXCEPT !.charge = c, !.at = at]
    <2>2. DOMAIN job[t] = Fields /\ DOMAIN job = Threads
      BY <1>1, HasFields
    <2>3. DOMAIN j = Fields /\ j.at = at /\ j.tenant = job[t].tenant /\ j.cost = job[t].cost
      BY <2>2, FieldsAre
    <2>4. JobOK(j)
      BY <1>1, <2>1, <2>3, HasFields DEF JobOK
    <2>5. job' = [job EXCEPT ![t] = j]
      BY <2>1, <2>2, Zenon
    <2>6. job'[t] = j /\ OnlyJob(t) /\ PathInv'
      BY <1>1, <2>4, <2>5, ChangesOK, Zenon DEF PathInv, CostsOK
    <2>7. Gauged(t)
      BY <1>1, <2>1, <2>3, <2>6, Zenon DEF Gauged, Counts
    <2>8. Budgeted(t)
      BY <1>1, <2>1, <2>3, <2>6, Zenon DEF Budgeted, LetThroughFor
    <2> QED BY <2>6, <2>7, <2>8 DEF StepOK
  <1> QED BY <1>2, <1>3

\* The steps of the inbound pipeline, the limiter and the routers: the request
\* ends, or goes on to a place where nothing is charged.
LEMMA InboundOK ==
  ASSUME PathInv, NEW t \in Threads,
         \/ FirstStages(t) \/ SafetyBegin(t) \/ SafetyDecide(t) \/ SafetyShadow(t)
         \/ LastStages(t) \/ RateLimit(t)
  PROVE  StepOK(t)
  <1>1. Counts(job[t]) /\ UNCHANGED <<options, stored, unchecked, cached>>
        /\ job[t].at \notin {"call", "outbound", "persist"}
    BY Zenon DEF FirstStages, SafetyBegin, SafetyDecide, SafetyShadow, LastStages, RateLimit, Counts,
           costVars
  <1>2. \/ Ends(t)
        \/ \E at \in {"last", "safety", "check", "limit", "route", "budget"} :
             Goes(t, at) /\ UNCHANGED gauge /\ (at = "route" => job[t].kind = "proxy")
    <2>1. CASE FirstStages(t)
      BY <2>1, Zenon DEF FirstStages, Rejected, Stays
    <2>2. CASE SafetyBegin(t)
      BY <2>2, Zenon DEF SafetyBegin
    <2>3. CASE SafetyDecide(t)
      BY <2>3, Zenon DEF SafetyDecide, Rejected, Stays
    <2>4. CASE SafetyShadow(t)
      BY <2>4 DEF SafetyShadow
    <2>5. CASE LastStages(t)
      BY <2>5 DEF LastStages, Rejected, Stays
    <2>6. CASE RateLimit(t)
      BY <2>6, Zenon DEF RateLimit, Stays
    <2> QED BY <2>1, <2>2, <2>3, <2>4, <2>5, <2>6, Zenon
  <1>3. CASE Ends(t)
    BY <1>1, <1>3, EndsOK, Zenon
  <1>4. ASSUME NEW at \in {"last", "safety", "check", "limit", "route", "budget"},
               Goes(t, at), UNCHANGED gauge, at = "route" => job[t].kind = "proxy"
        PROVE  StepOK(t)
    BY <1>1, <1>4, GoesOK
  <1> QED BY <1>2, <1>3, <1>4

\* A provider's answer.
LEMMA SafetyCheckOK ==
  ASSUME PathInv, NEW t \in Threads, SafetyCheck(t)
  PROVE  StepOK(t)
  <1>1. job[t].at = "check" /\ UNCHANGED <<options, stored, unchecked, cached, gauge>>
    BY DEF SafetyCheck, costVars
  <1>2. PICK v \in Verdicts(job[t].text) :
          LET vs == Append(job[t].verdicts, v)
          IN  job' = [job EXCEPT ![t].verdicts = vs,
                                 ![t].at = IF Len(vs) = Providers THEN "decide" ELSE "check"]
    BY Zenon DEF SafetyCheck
  <1> DEFINE vs == Append(job[t].verdicts, v)
             at == IF Len(vs) = Providers THEN "decide" ELSE "check"
             j  == [job[t] EXCEPT !.verdicts = vs, !.at = at]
  <1>3. job' = [job EXCEPT ![t].verdicts = vs, ![t].at = at] /\ at \in {"decide", "check"}
    BY <1>2, Zenon
  <1> HIDE DEF vs, at
  <1>4. DOMAIN job[t] = Fields /\ DOMAIN job = Threads
    BY <1>1, HasFields
  <1>5. DOMAIN j = Fields /\ j.at = at /\ j.tenant = job[t].tenant /\ j.cost = job[t].cost
    BY <1>4, FieldsAre
  <1>6. JobOK(j)
    BY <1>1, <1>3, <1>5, HasFields DEF JobOK
  <1>7. job' = [job EXCEPT ![t] = j]
    BY <1>3, <1>4, Zenon
  <1>8. job'[t] = j /\ OnlyJob(t) /\ PathInv'
    BY <1>1, <1>6, <1>7, ChangesOK, Zenon DEF PathInv, CostsOK
  <1>9. Gauged(t)
    BY <1>1, <1>3, <1>5, <1>8, Zenon DEF Gauged, Counts
  <1>10. Budgeted(t)
    BY <1>1, <1>3, <1>5, <1>8, Zenon DEF Budgeted, LetThroughFor
  <1> QED BY <1>8, <1>9, <1>10 DEF StepOK

\* The check of the budget lets the request through, and a proxied request goes
\* by it.
LEMMA RoutedOK ==
  ASSUME PathInv, NEW t \in Threads, NEW routed \in BOOLEAN,
         BudgetAndRoute(t, routed) \/ ProxyRoute(t, routed)
  PROVE  StepOK(t)
  <1>1. job[t].at \in {"budget", "route"} /\ Counts(job[t])
        /\ UNCHANGED <<options, stored, unchecked, cached>>
    BY DEF BudgetAndRoute, ProxyRoute, Counts, costVars
  <1>2. CASE Ends(t)
    BY <1>1, <1>2, EndsOK
  <1>3. CASE ~Ends(t)
    <2>1. Goes(t, "call") /\ UNCHANGED gauge /\ (job[t].at = "budget" => WithinLimit(job[t].tenant))
      BY <1>3 DEF BudgetAndRoute, ProxyRoute, Stays
    <2> DEFINE j == [job[t] EXCEPT !.at = "call"]
    <2>2. DOMAIN job[t] = Fields /\ DOMAIN job = Threads
      BY <1>1, HasFields
    <2>3. DOMAIN j = Fields /\ j.at = "call" /\ j.tenant = job[t].tenant /\ j.cost = job[t].cost
          /\ j.kind = job[t].kind
      BY <2>2, FieldsAre
    <2>4. JobOK(j)
      BY <1>1, <2>3, HasFields DEF JobOK
    <2>5. job' = [job EXCEPT ![t] = j]
      BY <2>1, <2>2 DEF Goes
    <2>6. job'[t] = j /\ OnlyJob(t) /\ PathInv'
      BY <1>1, <2>4, <2>5, ChangesOK, Zenon DEF PathInv, CostsOK
    <2>7. Gauged(t)
      BY <1>1, <2>1, <2>3, <2>6, Zenon DEF Gauged, Counts
    <2>8. job[t].tenant \in Tenants /\ (job[t].at = "route" => job[t].kind = "proxy")
      BY <1>1, HasFields, Zenon
    <2>9. LetThroughFor(t) = "none"
      BY <1>1 DEF LetThroughFor
    <2>10. LetThroughFor(t)' = IF job[t].kind # "proxy" THEN job[t].tenant ELSE "none"
      BY <2>3, <2>6, Zenon DEF LetThroughFor
    <2>11. Budgeted(t)
      BY <1>1, <2>1, <2>8, <2>9, <2>10, Zenon DEF Budgeted, WithinLimit
    <2> QED BY <2>6, <2>7, <2>11, Zenon DEF StepOK
  <1> QED BY <1>2, <1>3, Zenon

\* The call is answered, at once or at the end of a stream.
LEMMA AnsweredOK ==
  ASSUME PathInv, NEW t \in Threads, NEW answer, NEW cost \in options.costs,
         CallDone(t, answer, cost) \/ StreamDone(t, answer, cost)
  PROVE  StepOK(t)
  <1> DEFINE j == [job[t] EXCEPT !.answer = answer, !.cost = cost, !.at = "outbound"]
  <1>1. job[t].at = "call" /\ job[t].kind \in {"chat", "stream"}
        /\ job' = [job EXCEPT ![t].answer = answer, ![t].cost = cost, ![t].at = "outbound"]
        /\ UNCHANGED <<options, stored, unchecked, cached, gauge>>
    BY DEF CallDone, StreamDone, costVars
  <1>2. DOMAIN job[t] = Fields /\ DOMAIN job = Threads
    BY <1>1, HasFields
  <1>3. DOMAIN j = Fields /\ j.at = "outbound" /\ j.tenant = job[t].tenant /\ j.cost = cost
        /\ j.kind = job[t].kind
    BY <1>2, FieldsAre
  <1>4. cost \in 0 .. MaxCost
    BY DeploymentsAssumption DEF PathInv, CostsOK
  <1>5. JobOK(j)
    BY <1>1, <1>3, <1>4, HasFields, Zenon DEF JobOK
  <1>6. job' = [job EXCEPT ![t] = j]
    BY <1>1, <1>2, Zenon
  <1>7. job'[t] = j /\ OnlyJob(t) /\ PathInv'
    BY <1>1, <1>5, <1>6, ChangesOK, Zenon DEF PathInv, CostsOK
  <1>8. Gauged(t)
    BY <1>1, <1>3, <1>7, Zenon DEF Gauged, Counts
  <1>9. Budgeted(t)
    BY <1>1, <1>3, <1>7, Zenon DEF Budgeted, LetThroughFor
  <1> QED BY <1>7, <1>8, <1>9, Zenon DEF StepOK

LEMMA CallFailsOK ==
  ASSUME PathInv, NEW t \in Threads, CallFails(t)
  PROVE  StepOK(t)
  <1>1. Counts(job[t]) /\ Ends(t) /\ UNCHANGED <<options, stored, unchecked, cached>>
    BY DEF CallFails, Counts, costVars
  <1> QED BY <1>1, EndsOK

LEMMA DeltaOK ==
  ASSUME PathInv, NEW t \in Threads, NEW chunk, Delta(t, chunk)
  PROVE  StepOK(t)
  <1> DEFINE out == executeChunk(tail, chunk)
             j   == [job[t] EXCEPT !.sent = out]
  <1>1. job[t].at = "call" /\ job' = [job EXCEPT ![t].sent = out]
        /\ UNCHANGED <<options, stored, unchecked, cached, gauge>>
    BY DEF Delta, costVars
  <1> HIDE DEF out
  <1>2. DOMAIN job[t] = Fields /\ DOMAIN job = Threads
    BY <1>1, HasFields
  <1>3. DOMAIN j = Fields /\ j.at = "call" /\ j.tenant = job[t].tenant /\ j.cost = job[t].cost
        /\ j.kind = job[t].kind
    BY <1>1, <1>2, FieldsAre
  <1>4. JobOK(j)
    BY <1>1, <1>3, HasFields DEF JobOK
  <1>5. job' = [job EXCEPT ![t] = j]
    BY <1>1, <1>2
  <1>6. job'[t] = j /\ OnlyJob(t) /\ PathInv'
    BY <1>1, <1>4, <1>5, ChangesOK, Zenon DEF PathInv, CostsOK
  <1>7. Gauged(t)
    BY <1>1, <1>3, <1>6, Zenon DEF Gauged, Counts
  <1>8. Budgeted(t)
    BY <1>1, <1>3, <1>6 DEF Budgeted, LetThroughFor
  <1> QED BY <1>6, <1>7, <1>8 DEF StepOK

\* ContentFilter::process and PIIFilter::process leave neither trait.
LEMMA OutboundFilters ==
  ASSUME NEW traits, NEW streamed
  PROVE  Outbound(traits, streamed) \cap {"secret", "pii"} = {}
BY DEF Outbound, mask, filter

LEMMA OutboundOK ==
  ASSUME PathInv, NEW t \in Threads, OutboundStages(t)
  PROVE  StepOK(t)
  <1> DEFINE answer == Outbound(job[t].answer, job[t].kind = "stream")
             j == [job[t] EXCEPT !.answer = answer, !.at = "persist"]
  <1>1. job[t].at = "outbound" /\ UNCHANGED <<options, stored, unchecked, cached, gauge>>
    BY DEF OutboundStages
  <1>2. DOMAIN job[t] = Fields /\ DOMAIN job = Threads
    BY <1>1, HasFields
  <1>3. job' = [job EXCEPT ![t] = j]
    BY <1>2, Zenon DEF OutboundStages
  <1>4. answer \cap {"secret", "pii"} = {}
    BY OutboundFilters
  <1> HIDE DEF answer
  <1>5. DOMAIN j = Fields /\ j.at = "persist" /\ j.tenant = job[t].tenant /\ j.cost = job[t].cost
        /\ j.kind = job[t].kind /\ j.answer = answer
    BY <1>2, FieldsAre
  <1>6. JobOK(j)
    BY <1>1, <1>4, <1>5, HasFields, Zenon DEF JobOK
  <1>7. job'[t] = j /\ OnlyJob(t) /\ PathInv'
    BY <1>1, <1>6, <1>3, ChangesOK, Zenon DEF PathInv, CostsOK
  <1>8. Gauged(t)
    BY <1>1, <1>5, <1>7, Zenon DEF Gauged, Counts
  <1>9. Budgeted(t)
    BY <1>1, <1>5, <1>7, Zenon DEF Budgeted, LetThroughFor
  <1> QED BY <1>7, <1>8, <1>9, Zenon DEF StepOK

\* A charge keeps the costs typed.
LEMMA ChargedOK ==
  ASSUME NEW f \in [Tenants -> Nat], NEW w \in Tenants, NEW c \in 0 .. MaxCost
  PROVE  [f EXCEPT ![w] = @ + c] \in [Tenants -> Nat]
BY CostAssumption

\* CostTracker::record stores the cost of a checked request.
LEMMA PersistOK ==
  ASSUME PathInv, NEW t \in Threads, NEW ok \in BOOLEAN, Persist(t, ok)
  PROVE  StepOK(t)
  <1> DEFINE j == [job[t] EXCEPT !.at = "finalize"]
             w == job[t].tenant
             c == job[t].cost
  <1>1. job[t].at = "persist" /\ UNCHANGED <<options, unchecked, cached, gauge>>
    BY DEF Persist
  <1>2. DOMAIN job[t] = Fields /\ DOMAIN job = Threads /\ w \in Tenants /\ c \in 0 .. MaxCost
        /\ job[t].kind # "proxy" /\ job[t].answer \cap {"secret", "pii"} = {}
    BY <1>1, HasFields
  <1>3. job' = [job EXCEPT ![t] = j]
    BY <1>2 DEF Persist, Goes
  <1>4. DOMAIN j = Fields /\ j.at = "finalize" /\ j.tenant = job[t].tenant /\ j.cost = job[t].cost
        /\ j.kind = job[t].kind /\ j.answer = job[t].answer
    BY <1>2, FieldsAre
  <1>5. JobOK(j)
    BY <1>2, <1>4, Zenon DEF JobOK
  <1>6. stored' = stored \/ stored' = [stored EXCEPT ![w] = @ + c]
    BY DEF Persist
  <1>7. CostsOK'
    BY <1>1, <1>2, <1>6, ChargedOK DEF PathInv, CostsOK
  <1>8. job'[t] = j /\ OnlyJob(t) /\ PathInv'
    BY <1>1, <1>3, <1>5, <1>7, ChangesOK, Zenon
  <1>9. Gauged(t)
    BY <1>1, <1>4, <1>8 DEF Gauged, Counts
  <1>10. LetThroughFor(t) = w /\ LetThroughFor(t)' = "none"
    BY <1>1, <1>2, <1>4, <1>8, Zenon DEF LetThroughFor
  <1>11. Budgeted(t)
    <2> HIDE DEF w, c
    <2> QED BY <1>1, <1>2, <1>6, <1>10, Zenon DEF Budgeted
  <1> QED BY <1>8, <1>9, <1>11, Zenon DEF StepOK

\* The answer is cached and the reply sent, or was, chunk by chunk.
LEMMA FinalizeOK ==
  ASSUME PathInv, NEW t \in Threads, Finalize(t) \/ FinalizeStream(t)
  PROVE  StepOK(t)
  <1>1. job[t].at = "finalize" /\ Ends(t) /\ UNCHANGED <<options, stored, unchecked>>
        /\ cached' = cached \cup {[key |-> Key(t), answer |-> job[t].answer]}
    BY DEF Finalize, FinalizeStream, costVars
  <1>2. job[t].answer \cap {"secret", "pii"} = {}
    BY <1>1, HasFields, Zenon
  <1>3. CachedIsFiltered'
    BY <1>1, <1>2 DEF PathInv, CachedIsFiltered
  <1>4. JobOK(NoJob)
    BY DEF JobOK
  <1>5. JobsOK' /\ OnlyJob(t) /\ job'[t] = NoJob /\ gauge' = gauge - 1
    BY <1>1, <1>4, Replaced, Zenon DEF PathInv, Ends
  <1>6. PathInv'
    BY <1>1, <1>3, <1>5, Zenon DEF PathInv, CostsOK
  <1>7. Gauged(t)
    BY <1>1, <1>5 DEF Gauged, Counts, NoJob
  <1>8. Budgeted(t)
    BY <1>1, <1>5 DEF Budgeted, LetThroughFor, NoJob
  <1> QED BY <1>5, <1>6, <1>7, <1>8, Zenon DEF StepOK

\* A proxied call is answered: its reply counts, its cost is still to be stored.
LEMMA ProxyDoneOK ==
  ASSUME PathInv, NEW t \in Threads, NEW cost \in options.costs, ProxyDone(t, cost)
  PROVE  StepOK(t)
  <1> DEFINE j == [job[t] EXCEPT !.cost = cost, !.at = "charge"]
  <1>1. job[t].at = "call" /\ job[t].kind = "proxy" /\ gauge' = gauge - 1
        /\ job' = [job EXCEPT ![t].cost = cost, ![t].at = "charge"]
        /\ UNCHANGED <<options, stored, unchecked, cached>>
    BY DEF ProxyDone
  <1>2. DOMAIN job[t] = Fields /\ DOMAIN job = Threads
    BY <1>1, HasFields
  <1>3. DOMAIN j = Fields /\ j.at = "charge" /\ j.tenant = job[t].tenant /\ j.cost = cost
        /\ j.kind = job[t].kind
    BY <1>2, FieldsAre
  <1>4. cost \in 0 .. MaxCost
    BY DeploymentsAssumption DEF PathInv, CostsOK
  <1>5. JobOK(j)
    BY <1>1, <1>3, <1>4, HasFields, Zenon DEF JobOK
  <1>6. job' = [job EXCEPT ![t] = j]
    BY <1>1, <1>2, Zenon
  <1>7. job'[t] = j /\ OnlyJob(t) /\ PathInv'
    BY <1>1, <1>5, <1>6, ChangesOK, Zenon DEF PathInv, CostsOK
  <1>8. Gauged(t)
    BY <1>1, <1>3, <1>7, Zenon DEF Gauged, Counts
  <1>9. Budgeted(t)
    BY <1>1, <1>3, <1>7, Zenon DEF Budgeted, LetThroughFor
  <1> QED BY <1>7, <1>8, <1>9 DEF StepOK

LEMMA ProxyPersistOK ==
  ASSUME PathInv, NEW t \in Threads, NEW ok \in BOOLEAN, ProxyPersist(t, ok)
  PROVE  StepOK(t)
  <1> DEFINE w == job[t].tenant
             c == IF ok THEN job[t].cost ELSE 0
  <1>1. /\ job[t].at = "charge" /\ job' = [job EXCEPT ![t] = NoJob]
        /\ stored' = [stored EXCEPT ![w] = @ + c]
        /\ unchecked' = [unchecked EXCEPT ![w] = @ + c]
        /\ UNCHANGED <<options, cached, gauge>>
    BY Zenon DEF ProxyPersist
  <1>2. w \in Tenants /\ c \in 0 .. MaxCost
    BY <1>1, HasFields, CostAssumption
  <1>3. LetThroughFor(t) = "none"
    BY <1>1 DEF LetThroughFor
  <1> HIDE DEF w, c
  <1>4. JobOK(NoJob)
    BY DEF JobOK
  <1>5. CostsOK'
    BY <1>1, <1>2, ChargedOK DEF PathInv, CostsOK
  <1>6. job'[t] = NoJob /\ OnlyJob(t) /\ PathInv'
    BY <1>1, <1>4, <1>5, ChangesOK, Zenon
  <1>7. Gauged(t)
    BY <1>1, <1>6 DEF Gauged, Counts, NoJob
  <1>8. LetThroughFor(t)' = "none"
    BY <1>6 DEF LetThroughFor, NoJob
  <1>9. Budgeted(t)
    BY <1>1, <1>2, <1>3, <1>8, Zenon DEF Budgeted
  <1> QED BY <1>6, <1>7, <1>9, Zenon DEF StepOK

-----------------------------------------------------------------------------
\* Every step is a step of one thread, or touches no request and no cost.
LEMMA EveryStep ==
  ASSUME PathInv, [PathNext]_pathVars
  PROVE  \/ \E t \in Threads : StepOK(t)
         \/ PathInv' /\ UNCHANGED <<job, gauge, stored, unchecked>>
  <1>1. ASSUME NEW t \in Threads,
               \/ \E w \in Tenants, text \in options.texts :
                    \/ \E k \in options.kinds : Arrive(t, k, w, text)
                    \/ ArriveProxy(t, w, text)
               \/ \E known \in BOOLEAN : Admit(t, known)
        PROVE  StepOK(t)
    BY <1>1, AcceptOK, AdmitOK, Zenon DEF Arrive, ArriveProxy
  <1>2. ASSUME NEW t \in Threads,
               \/ FirstStages(t) \/ SafetyBegin(t) \/ SafetyDecide(t) \/ SafetyShadow(t)
               \/ LastStages(t) \/ RateLimit(t)
               \/ SafetyCheck(t)
               \/ \E routed \in BOOLEAN : BudgetAndRoute(t, routed) \/ ProxyRoute(t, routed)
        PROVE  StepOK(t)
    BY <1>2, InboundOK, SafetyCheckOK, RoutedOK, Zenon
  <1>3. ASSUME NEW t \in Threads,
               \/ \E answer \in options.answers, cost \in options.costs :
                    CallDone(t, answer, cost) \/ StreamDone(t, answer, cost)
               \/ CallFails(t)
               \/ \E chunk \in options.chunks : Delta(t, chunk)
        PROVE  StepOK(t)
    BY <1>3, AnsweredOK, CallFailsOK, DeltaOK, Zenon
  <1>4. ASSUME NEW t \in Threads,
               \/ OutboundStages(t)
               \/ \E ok \in BOOLEAN : Persist(t, ok)
               \/ Finalize(t) \/ FinalizeStream(t)
               \/ \E cost \in options.costs : ProxyDone(t, cost)
               \/ \E ok \in BOOLEAN : ProxyPersist(t, ok)
        PROVE  StepOK(t)
    BY <1>4, OutboundOK, PersistOK, FinalizeOK, ProxyDoneOK, ProxyPersistOK, Zenon
  <1>5. CASE ShadowEnds \/ ReloadConfig \/ UNCHANGED pathVars
    <2>1. UNCHANGED <<options, job, gauge, stored, unchecked, cached>>
      BY <1>5 DEF ShadowEnds, ReloadConfig, pathVars, costVars
    <2> QED BY <2>1, Zenon DEF PathInv, JobsOK, CostsOK, CachedIsFiltered
  <1> QED BY <1>1, <1>2, <1>3, <1>4, <1>5, Zenon DEF PathNext

\* What a step of one thread does to the number of requests that count.
LEMMA GaugeStep ==
  ASSUME NEW t \in Threads, OnlyJob(t), Gauged(t), GaugeBalanced
  PROVE  GaugeBalanced'
  <1> DEFINE S == {u \in Threads : job[u].at \notin {"idle", "charge"}}
             T == {u \in Threads : job'[u].at \notin {"idle", "charge"}}
  <1>1. IsFiniteSet(S) /\ Cardinality(S) \in Nat /\ gauge = Cardinality(S)
    BY CostAssumption, FS_Subset, FS_CardinalityType, Zenon DEF GaugeBalanced
  <1>2. CASE Counts(job'[t]) = Counts(job[t]) /\ gauge' = gauge
    <2>1. T = S
      BY <1>2, Zenon DEF OnlyJob, Counts
    <2> QED BY <1>1, <1>2, <2>1, Zenon DEF GaugeBalanced
  <1>3. CASE Counts(job'[t]) /\ ~Counts(job[t]) /\ gauge' = gauge + 1
    <2>1. T = S \cup {t} /\ t \notin S
      BY <1>3 DEF OnlyJob, Counts
    <2>2. Cardinality(T) = Cardinality(S) + 1
      BY <1>1, <2>1, FS_AddElement, Zenon
    <2> QED BY <1>1, <1>3, <2>2, Zenon DEF GaugeBalanced
  <1>4. CASE ~Counts(job'[t]) /\ Counts(job[t]) /\ gauge' = gauge - 1
    <2>1. T = S \ {t} /\ t \in S
      BY <1>4 DEF OnlyJob, Counts
    <2>2. Cardinality(T) = Cardinality(S) - 1
      BY <1>1, <2>1, FS_RemoveElement, Zenon
    <2> QED BY <1>1, <1>4, <2>2, Zenon DEF GaugeBalanced
  <1> QED BY <1>2, <1>3, <1>4, Zenon DEF Gauged

LEMMA PathInitInv == PathInit => PathInv /\ GaugeBalanced
  <1> SUFFICES ASSUME PathInit PROVE PathInv /\ GaugeBalanced
    OBVIOUS
  <1>1. PathInv
    BY DEF PathInit, PathInv, JobsOK, JobOK, CostsOK, CachedIsFiltered
  <1>2. {t \in Threads : job[t].at \notin {"idle", "charge"}} = {}
    BY DEF PathInit, NoJob
  <1>3. GaugeBalanced
    BY <1>2, FS_EmptySet, Zenon DEF PathInit, GaugeBalanced
  <1> QED BY <1>1, <1>3

LEMMA PathNextInv == PathInv /\ [PathNext]_pathVars => PathInv'
BY EveryStep DEF StepOK

\* The path keeps its invariant: what is known of a request at each place.
THEOREM PathCorrect == PathSpec => []PathInv
BY PathInitInv, PathNextInv, PTL DEF PathSpec

\* processRequest, processStreamingRequest, processProxyRequest: on whatever way a
\* request leaves, active_connections counts the requests without a reply.
THEOREM GaugeCorrect == PathSpec => []GaugeBalanced
  <1>1. PathInv /\ GaugeBalanced /\ [PathNext]_pathVars => GaugeBalanced'
    <2> SUFFICES ASSUME PathInv, GaugeBalanced, [PathNext]_pathVars PROVE GaugeBalanced'
      OBVIOUS
    <2>1. CASE \E t \in Threads : StepOK(t)
      BY <2>1, GaugeStep, Zenon DEF StepOK
    <2>2. CASE UNCHANGED <<job, gauge, stored, unchecked>>
      BY <2>2 DEF GaugeBalanced
    <2> QED BY <2>1, <2>2, EveryStep, Zenon
  <1> QED BY PathInitInv, <1>1, PathCorrect, PTL DEF PathSpec

\* The cache only holds answers that ContentFilter and PIIFilter have seen.
THEOREM CacheFiltered == PathSpec => []CachedIsFiltered
  <1>1. PathInv => CachedIsFiltered
    BY Zenon DEF PathInv
  <1> QED BY <1>1, PathCorrect, PTL

-----------------------------------------------------------------------------
\* What a step of one thread is to the budget, as a step of Budget.
LEMMA BudgetStep ==
  ASSUME PathInv, NEW t \in Threads, OnlyJob(t), Budgeted(t)
  PROVE  [B!BudgetNext]_(B!budgetVars)
  <1> DEFINE pending == [u \in Threads |-> LetThroughFor(u)]
  <1>1. \A u \in Threads \ {t} : LetThroughFor(u)' = LetThroughFor(u)
    BY DEF OnlyJob, LetThroughFor
  <1>2. pending' = [pending EXCEPT ![t] = LetThroughFor(t)']
    BY <1>1, Zenon
  <1>3. CASE LetThroughFor(t)' = LetThroughFor(t) /\ UNCHANGED <<stored, unchecked>>
    BY <1>1, <1>3 DEF B!budgetVars
  <1>4. CASE LetThroughFor(t)' = "none" /\ UNCHANGED <<stored, unchecked>>
    BY <1>2, <1>4, Zenon DEF B!BudgetNext, B!Drop, B!None
  <1>5. ASSUME NEW w \in Tenants, LetThroughFor(t) = "none", LetThroughFor(t)' = w,
               stored[w] < Limit, UNCHANGED <<stored, unchecked>>
        PROVE  B!BudgetNext
    BY <1>2, <1>5, Zenon DEF B!BudgetNext, B!LetThrough, B!None
  <1>6. ASSUME NEW w \in Tenants, NEW c \in 0 .. MaxCost,
               LetThroughFor(t) = w, LetThroughFor(t)' = "none",
               stored' = [stored EXCEPT ![w] = @ + c], UNCHANGED unchecked
        PROVE  B!BudgetNext
    BY <1>2, <1>6, Zenon DEF B!BudgetNext, B!Charge, B!None
  <1>7. ASSUME NEW w \in Tenants, NEW c \in 0 .. MaxCost,
               LetThroughFor(t)' = LetThroughFor(t),
               stored' = [stored EXCEPT ![w] = @ + c],
               unchecked' = [unchecked EXCEPT ![w] = @ + c]
        PROVE  B!BudgetNext
    <2>1. pending' = pending
      BY <1>1, <1>7
    <2> QED BY <1>7, <2>1, Zenon DEF B!BudgetNext, B!ChargeUnchecked
  <1> QED BY <1>3, <1>4, <1>5, <1>6, <1>7, Zenon DEF Budgeted

\* The request path implements Budget: the initial states are its initial
\* states, and every step is one of its steps or changes none of its variables.
THEOREM PathImplementsBudget == PathSpec => ImplementsBudget
  <1>1. PathInit => B!BudgetInit
    BY DEF PathInit, B!BudgetInit, B!None, LetThroughFor, NoJob
  <1>2. PathInv /\ [PathNext]_pathVars => [B!BudgetNext]_(B!budgetVars)
    <2> SUFFICES ASSUME PathInv, [PathNext]_pathVars PROVE [B!BudgetNext]_(B!budgetVars)
      OBVIOUS
    <2>1. CASE \E t \in Threads : StepOK(t)
      BY <2>1, BudgetStep, Zenon DEF StepOK
    <2>2. CASE UNCHANGED <<job, gauge, stored, unchecked>>
      BY <2>2 DEF B!budgetVars, LetThroughFor
    <2> QED BY <2>1, <2>2, EveryStep
  <1> QED BY <1>1, <1>2, PathCorrect, PTL DEF PathSpec, ImplementsBudget, B!BudgetSpec

(***************************************************************************)
(* What Budget promises.  OverspendBounded is not inductive: a request     *)
(* that was let through still has its cost to add.  BudgetInv sets MaxCost *)
(* aside for each of them.                                                 *)
(***************************************************************************)
\* The tenant each thread was let through for, as B sees it.
Pending == [t \in Threads |-> LetThroughFor(t)]

\* The requests of tenant w that passed the check and are not over.
Under(w) == {t \in Threads : Pending[t] = w}

BudgetTypeOK ==
  /\ stored \in [Tenants -> Nat]
  /\ unchecked \in [Tenants -> Nat]
  /\ Pending \in [Threads -> Tenants \cup {"none"}]

\* What n requests cost at most.
Owed(n) == n * MaxCost

\* What is stored, and what the requests under way may still add.
Reserved ==
  \A w \in Tenants : stored[w] + Owed(Cardinality(Under(w)))
                       <= Limit - 1 + Owed(Cardinality(Threads)) + unchecked[w]

BudgetInv == BudgetTypeOK /\ Reserved

\* The requests under way are counted, and are no more than the threads.
LEMMA UnderCounted ==
  ASSUME NEW w, NEW p
  PROVE  LET S == {t \in Threads : p[t] = w}
         IN  IsFiniteSet(S) /\ Cardinality(S) \in Nat
             /\ Cardinality(S) <= Cardinality(Threads) /\ Cardinality(Threads) \in Nat
BY FS_Subset, FS_CardinalityType, CostAssumption, Zenon

\* Multiplication by a natural number is monotone, and taking one away takes
\* away the factor.
LEMMA Times ==
  ASSUME NEW a \in Nat, NEW b \in Nat, NEW m \in Nat
  PROVE  /\ a * m \in Nat
         /\ a <= b => a * m <= b * m
         /\ a + 1 <= b => a * m + m <= b * m
  <1>1. a * m \in Nat
    OBVIOUS
  <1>2. ASSUME a <= b PROVE a * m <= b * m
    <2>1. PICK d \in Nat : b = a + d
      BY <1>2, b - a \in Nat
    <2>2. b * m = a * m + d * m /\ d * m \in Nat
      BY <2>1
    <2> QED BY <1>1, <2>2
  <1>3. ASSUME a + 1 <= b PROVE a * m + m <= b * m
    <2>1. PICK d \in Nat : b = a + 1 + d
      BY <1>3, b - a - 1 \in Nat
    <2>2. b * m = a * m + m + d * m /\ d * m \in Nat
      BY <2>1
    <2> QED BY <1>1, <2>2
  <1> QED BY <1>1, <1>2, <1>3

LEMMA OwedGrows ==
  ASSUME NEW a \in Nat, NEW b \in Nat
  PROVE  /\ Owed(a) \in Nat
         /\ a <= b => Owed(a) <= Owed(b)
         /\ a + 1 <= b => Owed(a) + MaxCost <= Owed(b)
BY Times, Zenon, CostAssumption DEF Owed

\* Taking thread t out of those under way for w lowers their number by one.
LEMMA UnderRemoved ==
  ASSUME NEW w \in Tenants, NEW t \in Threads, BudgetTypeOK, Pending[t] = w
  PROVE  LET S == {u \in Threads : [Pending EXCEPT ![t] = "none"][u] = w}
         IN  Cardinality(S) + 1 <= Cardinality(Under(w))
  <1> DEFINE S == {u \in Threads : [Pending EXCEPT ![t] = "none"][u] = w}
  <1>1. S = Under(w) \ {t} /\ t \in Under(w)
    BY CostAssumption DEF BudgetTypeOK, Under
  <1>2. IsFiniteSet(Under(w)) /\ Cardinality(Under(w)) \in Nat
    BY UnderCounted, Zenon DEF Under
  <1>3. Cardinality(S) = Cardinality(Under(w)) - 1
    BY <1>1, <1>2, FS_RemoveElement, Zenon
  <1> QED BY <1>2, <1>3

LEMMA BudgetInitInv ==
  ASSUME B!BudgetInit PROVE BudgetInv
  <1>1. BudgetTypeOK
    BY DEF B!BudgetInit, B!None, BudgetTypeOK, Pending
  <1>2. ASSUME NEW w \in Tenants
        PROVE  stored[w] + Owed(Cardinality(Under(w)))
                 <= Limit - 1 + Owed(Cardinality(Threads)) + unchecked[w]
    <2>1. Under(w) = {}
      BY <1>2, CostAssumption DEF B!BudgetInit, B!None, Under, Pending
    <2>2. Cardinality(Under(w)) = 0
      BY <2>1, FS_EmptySet, Zenon
    <2>3. Cardinality(Threads) \in Nat
      BY FS_CardinalityType, CostAssumption, Zenon
    <2>4. Owed(Cardinality(Threads)) \in Nat
      BY <2>3, OwedGrows
    <2>5. Owed(0) = 0
      BY CostAssumption DEF Owed
    <2> QED BY <2>2, <2>4, <2>5, CostAssumption DEF B!BudgetInit
  <1> QED BY <1>1, <1>2 DEF BudgetInv, Reserved

\* The steps of B, in terms of Pending.
LEMMA BudgetMoves ==
  ASSUME [B!BudgetNext]_(B!budgetVars)
  PROVE  \/ \E t \in Threads, w \in Tenants :
              /\ Pending[t] = "none" /\ stored[w] < Limit
              /\ Pending' = [Pending EXCEPT ![t] = w] /\ UNCHANGED <<stored, unchecked>>
         \/ \E t \in Threads :
              Pending' = [Pending EXCEPT ![t] = "none"] /\ UNCHANGED <<stored, unchecked>>
         \/ \E t \in Threads, w \in Tenants, c \in 0 .. MaxCost :
              /\ Pending[t] = w /\ stored' = [stored EXCEPT ![w] = @ + c]
              /\ Pending' = [Pending EXCEPT ![t] = "none"] /\ UNCHANGED unchecked
         \/ \E w \in Tenants, c \in 0 .. MaxCost :
              /\ stored' = [stored EXCEPT ![w] = @ + c]
              /\ unchecked' = [unchecked EXCEPT ![w] = @ + c] /\ UNCHANGED Pending
         \/ UNCHANGED <<stored, unchecked, Pending>>
BY Zenon DEF B!BudgetNext, B!budgetVars, B!LetThrough, B!Drop, B!Charge, B!ChargeUnchecked, B!None,
       Pending

LEMMA BudgetNextInv ==
  ASSUME BudgetInv, [B!BudgetNext]_(B!budgetVars) PROVE BudgetInv'
  <1> USE CostAssumption
  <1>0. BudgetTypeOK /\ Reserved
    BY DEF BudgetInv
  <1>1. Cardinality(Threads) \in Nat
    BY FS_CardinalityType, Zenon
  \* Reserved, with the numbers named.
  <1>2. ASSUME NEW w \in Tenants
        PROVE  /\ stored[w] \in Nat /\ unchecked[w] \in Nat
               /\ Cardinality(Under(w)) \in Nat
               /\ Owed(Cardinality(Under(w))) \in Nat
               /\ Owed(Cardinality(Threads)) \in Nat
               /\ stored[w] + Owed(Cardinality(Under(w)))
                    <= Limit - 1 + Owed(Cardinality(Threads)) + unchecked[w]
    <2>1. Cardinality(Under(w)) \in Nat
      BY UnderCounted, Zenon DEF Under
    <2>2. Owed(Cardinality(Under(w))) \in Nat /\ Owed(Cardinality(Threads)) \in Nat
      BY <2>1, <1>1, OwedGrows, Zenon
    <2> QED BY <1>0, <2>1, <2>2, Zenon DEF BudgetTypeOK, Reserved
  <1>3. ASSUME NEW t \in Threads, NEW w \in Tenants,
               Pending[t] = "none", stored[w] < Limit,
               Pending' = [Pending EXCEPT ![t] = w], UNCHANGED <<stored, unchecked>>
        PROVE  BudgetInv'
    <2>1. BudgetTypeOK'
      BY <1>0, <1>3, Zenon DEF BudgetTypeOK
    <2>2. ASSUME NEW v \in Tenants
          PROVE  (stored[v] + Owed(Cardinality(Under(v)))
                   <= Limit - 1 + Owed(Cardinality(Threads)) + unchecked[v])'
      <3>1. UNCHANGED <<stored, unchecked>>
        BY <1>3, Zenon
      <3>2. CASE v = w
        <4>1. Cardinality(Under(v)') \in Nat /\ Cardinality(Under(v)') <= Cardinality(Threads)
          BY UnderCounted, Zenon DEF Under
        <4>2. Owed(Cardinality(Under(v)')) <= Owed(Cardinality(Threads))
              /\ Owed(Cardinality(Under(v)')) \in Nat
          BY <4>1, <1>1, OwedGrows, Zenon
        <4>3. stored[v] <= Limit - 1
          BY <1>2, <1>3, <3>2
        <4> QED BY <1>2, <3>1, <4>2, <4>3
      <3>3. CASE v # w
        <4>1. Under(v)' = Under(v)
          BY <1>0, <1>3, <3>3, Zenon DEF Under, BudgetTypeOK
        <4> QED BY <1>2, <3>1, <4>1, Zenon
      <3> QED BY <3>2, <3>3, Zenon
    <2> QED BY <2>1, <2>2, Zenon DEF BudgetInv, Reserved
  <1>4. ASSUME NEW t \in Threads,
               Pending' = [Pending EXCEPT ![t] = "none"], UNCHANGED <<stored, unchecked>>
        PROVE  BudgetInv'
    <2>1. BudgetTypeOK'
      BY <1>0, <1>4, Zenon DEF BudgetTypeOK
    <2>2. ASSUME NEW v \in Tenants
          PROVE  (stored[v] + Owed(Cardinality(Under(v)))
                   <= Limit - 1 + Owed(Cardinality(Threads)) + unchecked[v])'
      <3>1. UNCHANGED <<stored, unchecked>>
        BY <1>4, Zenon
      <3>2. Under(v)' \subseteq Under(v)
        BY <1>0, <1>4 DEF Under, BudgetTypeOK
      <3>3. IsFiniteSet(Under(v))
        BY UnderCounted, Zenon DEF Under
      <3>4. Cardinality(Under(v)') \in Nat /\ Cardinality(Under(v)') <= Cardinality(Under(v))
        BY <3>2, <3>3, FS_Subset, FS_CardinalityType, Zenon
      <3>5. Owed(Cardinality(Under(v)')) <= Owed(Cardinality(Under(v)))
            /\ Owed(Cardinality(Under(v)')) \in Nat
        BY <3>4, <1>2, OwedGrows, Zenon
      <3> QED BY <1>2, <3>1, <3>5
    <2> QED BY <2>1, <2>2, Zenon DEF BudgetInv, Reserved
  <1>5. ASSUME NEW t \in Threads, NEW w \in Tenants, NEW c \in 0 .. MaxCost,
               Pending[t] = w, stored' = [stored EXCEPT ![w] = @ + c],
               Pending' = [Pending EXCEPT ![t] = "none"], UNCHANGED unchecked
        PROVE  BudgetInv'
    <2>1. BudgetTypeOK'
      BY <1>0, <1>5 DEF BudgetTypeOK
    <2>2. ASSUME NEW v \in Tenants
          PROVE  (stored[v] + Owed(Cardinality(Under(v)))
                   <= Limit - 1 + Owed(Cardinality(Threads)) + unchecked[v])'
      <3>1. CASE v = w
        <4>1. Cardinality(Under(v)') + 1 <= Cardinality(Under(v))
          BY <1>0, <1>5, <3>1, UnderRemoved, Zenon DEF Under
        <4>2. Cardinality(Under(v)') \in Nat
          BY UnderCounted, Zenon DEF Under
        <4>3. Owed(Cardinality(Under(v)')) + MaxCost <= Owed(Cardinality(Under(v)))
              /\ Owed(Cardinality(Under(v)')) \in Nat
          BY <4>1, <4>2, <1>2, OwedGrows, Zenon
        <4>4. stored'[v] = stored[v] + c /\ unchecked' = unchecked
          BY <1>0, <1>5, <3>1, Zenon DEF BudgetTypeOK
        <4> QED BY <1>2, <4>3, <4>4
      <3>2. CASE v # w
        <4>1. Under(v)' = Under(v)
          BY <1>0, <1>5, <3>2, Zenon DEF Under, BudgetTypeOK
        <4>2. stored'[v] = stored[v] /\ unchecked' = unchecked
          BY <1>0, <1>5, <3>2, Zenon DEF BudgetTypeOK
        <4> QED BY <1>2, <4>1, <4>2, Zenon
      <3> QED BY <3>1, <3>2, Zenon
    <2> QED BY <2>1, <2>2, Zenon DEF BudgetInv, Reserved
  <1>6. ASSUME NEW w \in Tenants, NEW c \in 0 .. MaxCost,
               stored' = [stored EXCEPT ![w] = @ + c],
               unchecked' = [unchecked EXCEPT ![w] = @ + c], UNCHANGED Pending
        PROVE  BudgetInv'
    <2>1. BudgetTypeOK'
      BY <1>0, <1>6 DEF BudgetTypeOK
    <2>2. ASSUME NEW v \in Tenants
          PROVE  (stored[v] + Owed(Cardinality(Under(v)))
                   <= Limit - 1 + Owed(Cardinality(Threads)) + unchecked[v])'
      <3>1. Under(v)' = Under(v)
        BY <1>6, Zenon DEF Under
      <3>2. \/ stored'[v] = stored[v] /\ unchecked'[v] = unchecked[v]
            \/ stored'[v] = stored[v] + c /\ unchecked'[v] = unchecked[v] + c
        BY <1>0, <1>6, Zenon DEF BudgetTypeOK
      <3> QED BY <1>2, <3>1, <3>2
    <2> QED BY <2>1, <2>2, Zenon DEF BudgetInv, Reserved
  <1>7. CASE UNCHANGED <<stored, unchecked, Pending>>
    BY <1>0, <1>7 DEF BudgetInv, BudgetTypeOK, Reserved, Under
  <1> QED BY <1>3, <1>4, <1>5, <1>6, <1>7, BudgetMoves, Zenon

\* checkTenantCostLimits reads the store before the call and CostTracker::record
\* writes it after: what requests on any number of threads overspend together is
\* bounded.  Budget promises it, and the request path implements Budget.
THEOREM OverspendHolds == PathSpec => []OverspendBounded
  <1>1. BudgetInv => OverspendBounded
    <2> SUFFICES ASSUME BudgetInv, NEW w \in Tenants
                 PROVE  stored[w] <= Limit - 1 + B!Owed(B!Cardinality(Threads)) + unchecked[w]
      BY DEF OverspendBounded, B!OverspendBounded
    <2>1. Cardinality(Under(w)) \in Nat /\ Cardinality(Threads) \in Nat
      BY UnderCounted, Zenon DEF Under
    <2>2. Owed(Cardinality(Under(w))) \in Nat /\ Owed(Cardinality(Threads)) \in Nat
      BY <2>1, OwedGrows, Zenon
    <2>3. B!Owed(B!Cardinality(Threads)) = Owed(Cardinality(Threads))
      BY DEF B!Cardinality, Cardinality, B!Owed, Owed
    <2> QED BY <2>2, <2>3, CostAssumption DEF BudgetInv, BudgetTypeOK, Reserved
  <1>2. B!BudgetInit => BudgetInv
    BY BudgetInitInv
  <1>3. BudgetInv /\ [B!BudgetNext]_(B!budgetVars) => BudgetInv'
    BY BudgetNextInv
  <1> QED BY PathImplementsBudget, <1>1, <1>2, <1>3, PTL DEF ImplementsBudget, B!BudgetSpec
=============================================================================

--------------------------- MODULE UpstreamProofs ---------------------------
(***************************************************************************)
(* The rules a request is judged by, and the upstream call it then makes, for *)
(* any number of tenants, versions, threads, calls, models and keys.       *)
(***************************************************************************)
EXTENDS Upstream, RuleEngine, FiniteSetTheorems, TLAPS

(***************************************************************************)
(* The custom rules (RuleEngine).                                          *)
(***************************************************************************)
\* What a thread that loads rules can be doing.
LoaderTasks ==
  {NoTask}
  \cup [at : {"refresh"}, scope : RuleTenants]
  \cup [at : {"put"}, scope : RuleTenants, version : Versions \cup {0}]
  \cup [at : {"global"}, version : Versions \cup {0}]
  \cup [at : {"tenants"}, read : UNION {[D -> Versions \cup {0}] : D \in SUBSET RuleTenants}]

\* The thread t is refreshing the set of a tenant.
Refreshing(t, tenant) == task[t].at \in {"refresh", "put"} /\ task[t].scope = tenant

RuleTypes ==
  /\ active \in [Scopes -> Versions \cup {0}]
  /\ task = [t \in Loaders \cup Requests |-> task[t]]
  /\ \A t \in Loaders : task[t] \in LoaderTasks
  /\ overlapped \in BOOLEAN

\* As long as no two loads were under way at once, what a load has read is
\* what the store holds, and only the tenant that is being refreshed may have
\* another set in force than the store's.
LoadsCurrent ==
  /\ \A t, u \in Loaders : task[t] # NoTask /\ task[u] # NoTask => t = u
  /\ \A tenant \in RuleTenants :
       Expected(tenant) \/ \E t \in Loaders : Refreshing(t, tenant)
  /\ \A t \in Loaders :
       /\ task[t].at = "put" => task[t].version = active[task[t].scope]
       /\ task[t].at = "tenants" => \A u \in DOMAIN task[t].read : task[t].read[u] = active[u]

RuleInv == RuleTypes /\ (~overlapped => LoadsCurrent)

LEMMA RuleInitOK == RuleInit => RuleInv
<1> SUFFICES ASSUME RuleInit PROVE RuleInv
  OBVIOUS
<1>1. RuleTypes
  BY Zenon DEF RuleInit, RuleTypes, LoaderTasks
<1>2. \A tenant \in RuleTenants : Expected(tenant)
  BY Zenon DEF RuleInit, Expected, Loaded, Parses, Scopes
<1>3. \A t \in Loaders : task[t] = NoTask
  BY Zenon DEF RuleInit
<1> QED BY <1>1, <1>2, <1>3 DEF RuleInv, LoadsCurrent, NoTask

\* A request's step changes nothing a load looks at.
LEMMA RequestStepOK ==
  ASSUME RuleInv, NEW r \in Requests, NEW step, Turns(r, step),
         UNCHANGED <<kind, active, buckets, overlapped>>
  PROVE  RuleInv'
<1>1. \A t \in Loaders : task'[t] = task[t]
  BY RuleAssumption, Zenon DEF Turns, RuleInv, RuleTypes
<1>2. RuleTypes'
  BY <1>1, Zenon DEF Turns, RuleInv, RuleTypes
<1>3. \A tenant \in RuleTenants : Expected(tenant)' <=> Expected(tenant)
  BY DEF Expected, Parses
<1> QED BY <1>1, <1>2, <1>3 DEF RuleInv, LoadsCurrent, Refreshing

\* A load begins: it overlaps, or it is the only one.
LEMMA BeginsOK ==
  ASSUME RuleInv, NEW t \in Loaders, Begins(t)
  PROVE  /\ overlapped' \in BOOLEAN
         /\ ~overlapped' => /\ ~overlapped
                            /\ \A u \in Loaders : task[u] = NoTask
                            /\ \A tenant \in RuleTenants : Expected(tenant)
<1>1. overlapped' \in BOOLEAN /\ (~overlapped' => ~overlapped /\ Loading = {})
  BY Zenon DEF Begins, RuleInv, RuleTypes
<1>2. Loading = {} => \A u \in Loaders : task[u] = NoTask
  BY DEF Loading
<1>3. ASSUME ~overlapped, \A u \in Loaders : task[u] = NoTask
      PROVE  \A tenant \in RuleTenants : Expected(tenant)
  BY <1>3 DEF RuleInv, LoadsCurrent, Refreshing, NoTask
<1> QED BY <1>1, <1>2, <1>3

LEMMA ActivateOK ==
  ASSUME RuleInv, NEW t \in Loaders, NEW scope \in Scopes, NEW v \in Versions,
         Activate(t, scope, v)
  PROVE  RuleInv'
<1> DEFINE step == IF scope = "" THEN NoTask ELSE [at |-> "refresh", scope |-> scope]
<1>1. /\ task' = [task EXCEPT ![t] = step] /\ active' = [active EXCEPT ![scope] = v]
      /\ kind' = kind /\ buckets' = buckets /\ Begins(t)
  BY Zenon DEF Activate, Turns
<1>2. step \in LoaderTasks
  BY Zenon DEF LoaderTasks, Scopes
<1>3. RuleTypes'
  BY <1>1, <1>2, BeginsOK, Zenon DEF RuleInv, RuleTypes
<1>4. ASSUME ~overlapped' PROVE LoadsCurrent'
  <2>1. \A u \in Loaders \ {t} : task'[u] = NoTask
    BY <1>1, <1>4, BeginsOK, Zenon DEF RuleInv, RuleTypes
  <2>2. task'[t] = step
    BY <1>1, Zenon DEF RuleInv, RuleTypes
  <2>3. \A tenant \in RuleTenants : tenant # scope => Expected(tenant)'
    BY <1>1, <1>4, BeginsOK, Zenon DEF RuleInv, RuleTypes, Expected, Parses, Scopes
  <2>4. scope \in RuleTenants => Refreshing(t, scope)'
    <3> SUFFICES ASSUME scope \in RuleTenants PROVE Refreshing(t, scope)'
      OBVIOUS
    <3>1. step = [at |-> "refresh", scope |-> scope]
      BY RuleAssumption, Zenon
    <3>2. task'[t] = [at |-> "refresh", scope |-> scope]
      BY <2>2, <3>1, Zenon
    <3>3. task'[t].at = "refresh" /\ task'[t].scope = scope
      BY <3>2
    <3> QED BY <3>3 DEF Refreshing
  <2>5. step.at \in {"idle", "refresh"}
    BY DEF NoTask
  <2> HIDE DEF step
  <2> QED BY <2>1, <2>2, <2>3, <2>4, <2>5 DEF LoadsCurrent, NoTask
<1> QED BY <1>3, <1>4 DEF RuleInv

LEMMA ReloadOK ==
  ASSUME RuleInv, NEW t \in Loaders, Reload(t)
  PROVE  RuleInv'
<1> DEFINE step == [at |-> "global", version |-> active[""]]
<1>1. /\ task' = [task EXCEPT ![t] = step] /\ active' = active
      /\ kind' = kind /\ buckets' = buckets /\ Begins(t)
  BY Zenon DEF Reload, Turns
<1>2. step \in LoaderTasks
  BY Zenon DEF LoaderTasks, Scopes, RuleInv, RuleTypes
<1>3. RuleTypes'
  BY <1>1, <1>2, BeginsOK, Zenon DEF RuleInv, RuleTypes
<1>4. ASSUME ~overlapped' PROVE LoadsCurrent'
  <2>1. \A u \in Loaders \ {t} : task'[u] = NoTask
    BY <1>1, <1>4, BeginsOK, Zenon DEF RuleInv, RuleTypes
  <2>2. task'[t] = step
    BY <1>1, Zenon DEF RuleInv, RuleTypes
  <2>3. \A tenant \in RuleTenants : Expected(tenant)'
    BY <1>1, <1>4, BeginsOK, Zenon DEF Expected, Parses
  <2>4. step.at = "global"
    OBVIOUS
  <2> HIDE DEF step
  <2> QED BY <2>1, <2>2, <2>3, <2>4 DEF LoadsCurrent, NoTask
<1> QED BY <1>3, <1>4 DEF RuleInv

\* A load moves on, from a task that is not over.
LEMMA LoaderMoves ==
  ASSUME RuleInv, NEW t \in Loaders, NEW step \in LoaderTasks, Turns(t, step),
         task[t] # NoTask, UNCHANGED <<kind, active, overlapped>>,
         ~overlapped /\ LoadsCurrent =>
           /\ \A tenant \in RuleTenants :
                Expected(tenant)' \/ (step.at \in {"refresh", "put"} /\ step.scope = tenant)
           /\ step.at = "put" => step.version = active[step.scope]
           /\ step.at = "tenants" => \A u \in DOMAIN step.read : step.read[u] = active[u]
  PROVE  RuleInv'
<1>1. task'[t] = step /\ \A u \in Loaders \ {t} : task'[u] = task[u]
  BY DEF Turns, RuleInv, RuleTypes
<1>2. RuleTypes'
  BY <1>1, Zenon DEF Turns, RuleInv, RuleTypes
<1>3. ASSUME ~overlapped PROVE LoadsCurrent'
  <2>1. LoadsCurrent
    BY <1>3 DEF RuleInv
  <2>2. \A u \in Loaders \ {t} : task[u] = NoTask
    BY <2>1 DEF LoadsCurrent
  <2>3. \A u \in Loaders \ {t} : task'[u] = NoTask
    BY <1>1, <2>2
  <2>4. \A tenant \in RuleTenants : Expected(tenant)' \/ Refreshing(t, tenant)'
    BY <1>1, <1>3, <2>1 DEF Refreshing
  <2>5. \A u, w \in Loaders : task'[u] # NoTask /\ task'[w] # NoTask => u = w
    BY <2>3
  <2>6. ASSUME NEW u \in Loaders
        PROVE  /\ task'[u].at = "put" => task'[u].version = active'[task'[u].scope]
               /\ task'[u].at = "tenants" =>
                    \A w \in DOMAIN task'[u].read : task'[u].read[w] = active'[w]
    <3>1. CASE u = t
      BY <1>1, <1>3, <2>1, <3>1
    <3>2. CASE u # t
      BY <2>3, <3>2 DEF NoTask
    <3> QED BY <3>1, <3>2
  <2> QED BY <2>4, <2>5, <2>6 DEF LoadsCurrent
<1> QED BY <1>2, <1>3 DEF RuleInv

\* In a load's task only the tenant being refreshed may lag.
LEMMA OthersExpected ==
  ASSUME RuleInv, NEW t \in Loaders, task[t] # NoTask, LoadsCurrent, NEW tenant \in RuleTenants,
         ~Refreshing(t, tenant)
  PROVE  Expected(tenant)
BY DEF LoadsCurrent, Refreshing, NoTask

LEMMA RefreshReadOK ==
  ASSUME RuleInv, NEW t \in Loaders, RefreshRead(t)
  PROVE  RuleInv'
<1>1. task[t] # NoTask /\ task[t].at = "refresh" /\ task[t].scope \in RuleTenants
  BY DEF RefreshRead, NoTask, RuleInv, RuleTypes, LoaderTasks
<1> DEFINE step == [at |-> "put", scope |-> task[t].scope, version |-> active[task[t].scope]]
<1>2. step \in LoaderTasks
  BY <1>1, Zenon DEF LoaderTasks, Scopes, RuleInv, RuleTypes
<1>3. Turns(t, step) /\ UNCHANGED <<kind, active, buckets, overlapped>>
  BY DEF RefreshRead
<1>4. \A tenant \in RuleTenants : Expected(tenant) <=> Expected(tenant)'
  BY <1>3 DEF Expected, Parses
<1>5. LoadsCurrent => \A tenant \in RuleTenants : Expected(tenant)' \/ step.scope = tenant
  BY <1>1, <1>4, OthersExpected DEF Refreshing
<1> QED BY <1>1, <1>2, <1>3, <1>5, LoaderMoves, Zenon

LEMMA RefreshPutOK ==
  ASSUME RuleInv, NEW t \in Loaders, RefreshPut(t)
  PROVE  RuleInv'
<1>1. /\ task[t] # NoTask /\ task[t].at = "put" /\ task[t].scope \in RuleTenants
      /\ NoTask \in LoaderTasks
  BY DEF RefreshPut, NoTask, RuleInv, RuleTypes, LoaderTasks
<1>2. /\ Turns(t, NoTask) /\ kind' = kind /\ active' = active /\ overlapped' = overlapped
      /\ buckets' = Refreshed(buckets, task[t].scope, task[t].version)
  BY DEF RefreshPut
<1>3. ASSUME LoadsCurrent, NEW tenant \in RuleTenants PROVE Expected(tenant)'
  <2>1. task[t].version = active[task[t].scope]
    BY <1>1, <1>3, Zenon DEF LoadsCurrent
  <2>2. CASE tenant = task[t].scope
    BY <1>2, <2>1, <2>2, Zenon DEF Refreshed, SetTo, Unset, Expected, Parses
  <2>3. CASE tenant # task[t].scope
    <3>1. Expected(tenant)
      BY <1>1, <1>3, <2>3, OthersExpected DEF Refreshing
    <3> QED BY <1>2, <2>3, <3>1 DEF Refreshed, SetTo, Unset, Expected, Parses
  <2> QED BY <2>2, <2>3
<1> QED BY <1>1, <1>2, <1>3, LoaderMoves DEF NoTask

LEMMA ReloadGlobalOK ==
  ASSUME RuleInv, NEW t \in Loaders, ReloadGlobal(t)
  PROVE  RuleInv'
<1> DEFINE step == [at |-> "tenants", read |-> NoneLoaded]
<1>1. task[t] # NoTask /\ task[t].at = "global"
  BY DEF ReloadGlobal, NoTask
<1>2. step \in LoaderTasks
  <2>1. NoneLoaded \in [{} -> Versions \cup {0}] /\ {} \in SUBSET RuleTenants
    BY DEF NoneLoaded
  <2> QED BY <2>1, Zenon DEF LoaderTasks
<1>3. Turns(t, step) /\ UNCHANGED <<kind, active, buckets, overlapped>>
  BY DEF ReloadGlobal
<1>4. \A tenant \in RuleTenants : Expected(tenant) <=> Expected(tenant)'
  BY <1>3 DEF Expected, Parses
<1>5. LoadsCurrent => \A tenant \in RuleTenants : Expected(tenant)'
  BY <1>1, <1>4, OthersExpected DEF Refreshing
<1>6. DOMAIN step.read = {}
  BY DEF NoneLoaded
<1> QED BY <1>1, <1>2, <1>3, <1>5, <1>6, LoaderMoves, Zenon

LEMMA ReloadReadOK ==
  ASSUME RuleInv, NEW t \in Loaders, ReloadRead(t)
  PROVE  RuleInv'
<1>1. task[t] # NoTask /\ task[t].at = "tenants"
  BY DEF ReloadRead, NoTask
<1>2. PICK D \in SUBSET RuleTenants : task[t].read \in [D -> Versions \cup {0}]
      /\ task[t] = [at |-> "tenants", read |-> task[t].read]
  BY <1>1 DEF RuleInv, RuleTypes, LoaderTasks, NoTask
<1>3. PICK u \in RuleTenants \ D :
        Turns(t, [task[t] EXCEPT !.read = SetTo(@, u, active[u])])
  BY <1>2, Zenon DEF ReloadRead
<1> DEFINE read == SetTo(task[t].read, u, active[u])
           step == [at |-> "tenants", read |-> read]
<1>4. read \in [D \cup {u} -> Versions \cup {0}]
  BY <1>2, Zenon DEF SetTo, RuleInv, RuleTypes, Scopes
<1>5. step \in LoaderTasks
  <2>1. D \cup {u} \in SUBSET RuleTenants
    OBVIOUS
  <2> HIDE DEF read
  <2> QED BY <1>4, <2>1 DEF LoaderTasks
<1>6. Turns(t, step) /\ UNCHANGED <<kind, active, buckets, overlapped>>
  BY <1>2, <1>3 DEF ReloadRead
<1>7. \A tenant \in RuleTenants : Expected(tenant) <=> Expected(tenant)'
  BY <1>6 DEF Expected, Parses
<1>8. LoadsCurrent => \A tenant \in RuleTenants : Expected(tenant)'
  BY <1>1, <1>7, OthersExpected, Zenon DEF Refreshing
<1>9. LoadsCurrent => \A x \in DOMAIN read : read[x] = active[x]
  BY <1>1, <1>2 DEF LoadsCurrent, SetTo
<1> HIDE DEF read
<1> QED BY <1>1, <1>5, <1>6, <1>8, <1>9, LoaderMoves

LEMMA ReloadPutOK ==
  ASSUME RuleInv, NEW t \in Loaders, ReloadPut(t)
  PROVE  RuleInv'
<1>1. task[t] # NoTask /\ task[t].at = "tenants" /\ NoTask \in LoaderTasks
  BY DEF ReloadPut, NoTask, LoaderTasks
<1>2. /\ Turns(t, NoTask) /\ kind' = kind /\ active' = active /\ overlapped' = overlapped
      /\ buckets' = Loaded(task[t].read) /\ DOMAIN task[t].read = RuleTenants
  BY Zenon DEF ReloadPut
<1>3. ASSUME LoadsCurrent, NEW tenant \in RuleTenants PROVE Expected(tenant)'
  <2>1. task[t].read[tenant] = active[tenant]
    BY <1>1, <1>2, <1>3 DEF LoadsCurrent
  <2> QED BY <1>2, <2>1 DEF Loaded, Expected, Parses
<1> QED BY <1>1, <1>2, <1>3, LoaderMoves DEF NoTask

LEMMA RuleStepOK == RuleInv /\ [RuleNext]_ruleVars => RuleInv'
<1> SUFFICES ASSUME RuleInv, [RuleNext]_ruleVars PROVE RuleInv'
  OBVIOUS
<1>1. ASSUME NEW v \in Versions \cup {0}, EditYaml(v) PROVE RuleInv'
  <2>1. UNCHANGED <<kind, active, buckets, task, overlapped>>
    BY <1>1 DEF EditYaml
  <2> QED BY <2>1 DEF RuleInv, RuleTypes, LoadsCurrent, Refreshing, Expected, Parses
<1>2. ASSUME NEW r \in Requests, NEW tenant \in RuleTenants, Evaluate(r, tenant)
      PROVE  RuleInv'
  BY <1>2, RequestStepOK DEF Evaluate
<1>3. ASSUME NEW r \in Requests, ModifyOnce(r) PROVE RuleInv'
  BY <1>3, RequestStepOK DEF ModifyOnce
<1>4. ASSUME NEW r \in Requests, Return(r) PROVE RuleInv'
  BY <1>4, RequestStepOK, Zenon DEF Return
<1>5. CASE UNCHANGED ruleVars
  BY <1>5 DEF ruleVars, RuleInv, RuleTypes, LoadsCurrent, Refreshing, Expected, Parses
<1> QED
  BY <1>1, <1>2, <1>3, <1>4, <1>5, ActivateOK, RefreshReadOK, RefreshPutOK, ReloadOK,
     ReloadGlobalOK, ReloadReadOK, ReloadPutOK, Zenon DEF RuleNext

\* As long as loads do not overlap, once none is under way every tenant is
\* judged by the version the store has active, for any number of tenants,
\* versions and threads.
THEOREM ActivationsTakeForce == RuleSpec => []SerialActivationInForce
<1>1. RuleInv => SerialActivationInForce
  <2> SUFFICES ASSUME RuleInv, ~overlapped, Loading = {}, NEW tenant \in RuleTenants
               PROVE  Expected(tenant)
    BY DEF SerialActivationInForce
  <2>1. \A t \in Loaders : task[t] = NoTask
    BY DEF Loading
  <2> QED BY <2>1 DEF RuleInv, LoadsCurrent, Refreshing, NoTask
<1> QED BY <1>1, RuleInitOK, RuleStepOK, PTL DEF RuleSpec

(***************************************************************************)
(* No half-open slot leaks, for any thresholds (Upstream).  ProbesAccounted *)
(* alone is not inductive: a half-open circuit of a model without a        *)
(* connector would take a slot that nobody gives back.  ProbeInv adds that *)
(* only models with a connector ever leave the closed state, which in turn *)
(* needs that a call past the registry lookup is on such a model.          *)
(***************************************************************************)
Flying == {"key", "wait", "succeed", "fail"}

OnServed == \A c \in Calls : call[c].pc \in Flying => call[c].todo # <<>> /\ Model(c) \in Served

OpenIsServed == \A m \in Models : circuits[m].state # "Closed" => m \in Served

CallTyped == call \in [Calls -> CallType]

CircuitTyped == circuits \in [Models -> CircuitType]

ProbeInv == CircuitTyped /\ CallTyped /\ OnServed /\ OpenIsServed /\ ProbesAccounted

\* A call that begins, or has ended.
LEMMA FreshCall ==
  /\ \A todo \in Seq(Models) : NewCall("model", todo) \in CallType
  /\ \A todo : NewCall("model", todo).pc = "model"
  /\ Idle \in CallType /\ Idle.pc = "idle"
<1>1. ASSUME NEW pc \in {"idle", "model"}, NEW todo \in Seq(Models)
      PROVE  NewCall(pc, todo) \in CallType
  BY SMTT(30) DEF NewCall, CallType
<1>2. \A pc, todo : NewCall(pc, todo).pc = pc
  BY Zenon DEF NewCall
<1>3. <<>> \in Seq(Models)
  OBVIOUS
<1> QED BY <1>1, <1>2, <1>3, Zenon DEF Idle

\* The calls in flight for a model are a finite number.
LEMMA InFlightFinite ==
  ASSUME NEW m \in Models PROVE IsFiniteSet(InFlight(m)) /\ Cardinality(InFlight(m)) \in Nat
<1>1. InFlight(m) \subseteq Calls
  BY DEF InFlight
<1>2. IsFiniteSet(Calls)
  BY UpstreamAssumption DEF UpstreamAssumption
<1> QED
  BY <1>1, <1>2, FS_Subset, FS_CardinalityType

\* A step that leaves the circuits alone, and the call on its model before or past
\* the registry lookup, changes neither side of the count of half-open slots.
LEMMA QuietStep ==
  ASSUME ProbeInv, NEW c \in Calls, NEW r \in CallType,
         circuits' = circuits, call' = [call EXCEPT ![c] = r],
         r.pc \in Flying <=> call[c].pc \in Flying,
         r.pc \in Flying => r.todo = call[c].todo
  PROVE  ProbeInv'
<1>0. call \in [Calls -> CallType]
  BY DEF ProbeInv, CallTyped
<1>1. CircuitTyped' /\ OpenIsServed'
  BY DEF ProbeInv, CircuitTyped, OpenIsServed
<1>2. CallTyped'
  BY <1>0 DEF CallTyped
<1>3. ASSUME NEW d \in Calls
      PROVE  /\ call'[d].pc \in Flying <=> call[d].pc \in Flying
             /\ call'[d].pc \in Flying => call'[d].todo = call[d].todo
  <2>1. CASE d = c
    BY <1>0, <2>1
  <2>2. CASE d # c
    BY <1>0, <2>2
  <2> QED
    BY <2>1, <2>2
<1>4. OnServed'
  BY <1>3 DEF ProbeInv, OnServed, Model
<1>5. ASSUME NEW m \in Models PROVE InFlight(m)' = InFlight(m)
  BY <1>3 DEF InFlight, Model, Flying
<1>6. ProbesAccounted'
  BY <1>5 DEF ProbeInv, ProbesAccounted
<1> QED
  BY <1>1, <1>2, <1>4, <1>6 DEF ProbeInv

\* The next state s of a call in flight is well typed and in flight for the same model.
Onward(r, s) == s \in CallType /\ s.pc \in Flying /\ s.todo = r.todo

\* What the connector's steps make of the state of a call in flight.
LEMMA ConnectorRecords ==
  ASSUME NEW r \in CallType, r.pc \in Flying, NEW h \in BOOLEAN
  PROVE  /\ Onward(r, Exhausted(r))
         /\ Onward(r, [r EXCEPT !.seen = TRUE])
         /\ Onward(r, [r EXCEPT !.seen = TRUE, !.sent = TRUE])
         /\ Onward(r, [r EXCEPT !.pc = "succeed", !.answered = h])
         /\ Onward(r, [r EXCEPT !.pc = "fail", !.err = "other", !.answered = h])
         /\ Onward(r, [r EXCEPT !.pc = "fail", !.err = "fatal"])
         /\ Onward(r, [r EXCEPT !.pc = "fail", !.err = "other"])
         /\ Onward(r, [r EXCEPT !.status = "http", !.answered = h])
         /\ Onward(r, [r EXCEPT !.status = "transport"])
         /\ Onward(r, [r EXCEPT !.pc = "key"])
<1> USE DEF CallType, Onward, Flying
<1>1. Onward(r, Exhausted(r))
  BY Zenon DEF Exhausted
<1>2. /\ Onward(r, [r EXCEPT !.pc = "fail", !.err = "fatal"])
      /\ Onward(r, [r EXCEPT !.pc = "fail", !.err = "other"])
  BY Zenon
<1>3. Onward(r, [r EXCEPT !.pc = "succeed", !.answered = h])
  BY Zenon
<1>4. Onward(r, [r EXCEPT !.pc = "fail", !.err = "other", !.answered = h])
  BY Zenon
<1>5. Onward(r, [r EXCEPT !.status = "http", !.answered = h])
  BY Zenon
<1>6. Onward(r, [r EXCEPT !.seen = TRUE, !.sent = TRUE]) /\ Onward(r, [r EXCEPT !.seen = TRUE])
  BY Zenon
<1>7. Onward(r, [r EXCEPT !.status = "transport"]) /\ Onward(r, [r EXCEPT !.pc = "key"])
  BY Zenon
<1> QED
  BY <1>1, <1>2, <1>3, <1>4, <1>5, <1>6, <1>7, Zenon

\* A connector's step keeps the invariant.
LEMMA OnwardStep ==
  ASSUME ProbeInv, NEW c \in Calls, call[c].pc \in Flying, circuits' = circuits,
         NEW r, Onward(call[c], r), call' = [call EXCEPT ![c] = r]
  PROVE  ProbeInv'
BY QuietStep, Zenon DEF Onward

\* The steps of a call that touch no circuit keep the invariant.
LEMMA CallSteps ==
  ASSUME ProbeInv, NEW c \in Calls,
         Begin(c) \/ OutOfModels(c) \/ PickKey(c) \/ Line(c) \/ AnswerOk(c)
           \/ AnswerStatus(c) \/ AnswerTransport(c)
  PROVE  ProbeInv'
<1> DEFINE h == c \notin Streaming
<1>0. call[c] \in CallType
  BY DEF ProbeInv, CallTyped
<1>a. h \in BOOLEAN
  OBVIOUS
<1>1. CASE Begin(c)
  <2>1. PICK m \in Models : call' = [call EXCEPT ![c] = NewCall("model", <<m>> \o Chain[m])]
    BY <1>1, UpstreamAssumption, Zenon DEF Begin, Set, UpstreamAssumption
  <2>2. <<m>> \o Chain[m] \in Seq(Models)
    BY UpstreamAssumption DEF UpstreamAssumption
  <2>3. NewCall("model", <<m>> \o Chain[m]) \in CallType
    BY <2>2, FreshCall, Zenon
  <2>4. NewCall("model", <<m>> \o Chain[m]).pc = "model"
    BY FreshCall, Zenon
  <2>5. call[c].pc = "idle" /\ circuits' = circuits
    BY <1>1 DEF Begin
  <2> QED
    BY <2>1, <2>3, <2>4, <2>5, QuietStep, Zenon DEF Flying
<1>2. CASE OutOfModels(c)
  <2>1. Idle \in CallType /\ Idle.pc = "idle"
    BY FreshCall, Zenon
  <2>2. call[c].pc = "model" /\ circuits' = circuits /\ call' = [call EXCEPT ![c] = Idle]
    BY <1>2 DEF OutOfModels, Set
  <2> QED
    BY <2>1, <2>2, QuietStep, ZenonT(30) DEF Flying
<1>3. CASE PickKey(c)
  <2>1. call[c].pc \in Flying /\ circuits' = circuits
    BY <1>3, Zenon DEF PickKey, Flying
  <2>2. PICK key \in KeySet \cup {NoKey} :
          call' = [call EXCEPT ![c] =
            IF key = NoKey \/ key \in call[c].tried \/ Cardinality(call[c].tried) >= MaxAttempts
            THEN Exhausted(call[c])
            ELSE [call[c] EXCEPT !.pc = "wait", !.key = key, !.tried = @ \cup {key}]]
    BY <1>3, Zenon DEF PickKey, Set
  <2>3. CASE key = NoKey \/ key \in call[c].tried \/ Cardinality(call[c].tried) >= MaxAttempts
    <3>1. Onward(call[c], Exhausted(call[c]))
      BY <1>0, <2>1, ConnectorRecords, Zenon
    <3> QED
      BY <2>1, <2>2, <2>3, <3>1, OnwardStep, Zenon
  <2>4. CASE ~ (key = NoKey \/ key \in call[c].tried \/ Cardinality(call[c].tried) >= MaxAttempts)
    <3>1. Onward(call[c], [call[c] EXCEPT !.pc = "wait", !.key = key, !.tried = @ \cup {key}])
      BY <1>0, <2>4, Zenon DEF Onward, CallType, Flying
    <3> QED
      BY <2>1, <2>2, <2>4, <3>1, OnwardStep, Zenon
  <2> QED
    BY <2>3, <2>4
<1>4. CASE Line(c)
  <2>1. call[c].pc \in Flying /\ circuits' = circuits
    BY <1>4 DEF Line, Flying
  <2>2. /\ Onward(call[c], [call[c] EXCEPT !.seen = TRUE])
        /\ Onward(call[c], [call[c] EXCEPT !.seen = TRUE, !.sent = TRUE])
    BY <1>0, <2>1, ConnectorRecords, Zenon
  <2>3. \/ call' = [call EXCEPT ![c] = [call[c] EXCEPT !.seen = TRUE]]
        \/ call' = [call EXCEPT ![c] = [call[c] EXCEPT !.seen = TRUE, !.sent = TRUE]]
    BY <1>4 DEF Line, Set
  <2> QED
    BY <2>1, <2>2, <2>3, OnwardStep, Zenon
<1>5. CASE AnswerOk(c)
  <2>1. call[c].pc \in Flying /\ circuits' = circuits
    BY <1>5, SMTT(30) DEF AnswerOk, Flying
  <2>2. /\ Onward(call[c], [call[c] EXCEPT !.pc = "succeed", !.answered = h])
        /\ Onward(call[c], [call[c] EXCEPT !.pc = "fail", !.err = "other", !.answered = h])
    BY <1>0, <1>a, <2>1, ConnectorRecords, Zenon
  <2>3. \/ call' = [call EXCEPT ![c] = [call[c] EXCEPT !.pc = "succeed", !.answered = h]]
        \/ call' = [call EXCEPT ![c] =
                      [call[c] EXCEPT !.pc = "fail", !.err = "other", !.answered = h]]
    BY <1>5 DEF AnswerOk, Set
  <2> QED
    BY <2>1, <2>2, <2>3, OnwardStep
<1>6. CASE AnswerStatus(c)
  <2> DEFINE r == [call[c] EXCEPT !.status = "http", !.answered = h]
  <2>1. call[c].pc \in Flying /\ circuits' = circuits
    BY <1>6, SMTT(30) DEF AnswerStatus, Flying
  <2>2. Onward(call[c], r)
    BY <1>0, <1>a, <2>1, ConnectorRecords, Zenon
  <2>3. \/ call' = [call EXCEPT ![c] = [r EXCEPT !.pc = "fail", !.err = "fatal"]]
        \/ call' = [call EXCEPT ![c] = Exhausted(r)]
        \/ call' = [call EXCEPT ![c] = [r EXCEPT !.pc = "key"]]
    BY <1>6, Zenon DEF AnswerStatus, Set
  <2>4. r \in CallType /\ r.pc \in Flying /\ r.todo = call[c].todo
    BY <2>2 DEF Onward
  <2> HIDE DEF r
  <2>5. /\ Onward(r, [r EXCEPT !.pc = "fail", !.err = "fatal"])
        /\ Onward(r, Exhausted(r)) /\ Onward(r, [r EXCEPT !.pc = "key"])
    BY <2>4, ConnectorRecords, Zenon
  <2>6. /\ Onward(call[c], [r EXCEPT !.pc = "fail", !.err = "fatal"])
        /\ Onward(call[c], Exhausted(r)) /\ Onward(call[c], [r EXCEPT !.pc = "key"])
    BY <2>4, <2>5 DEF Onward
  <2> QED
    BY <2>1, <2>3, <2>6, OnwardStep
<1>7. CASE AnswerTransport(c)
  <2> DEFINE r == [call[c] EXCEPT !.status = "transport"]
  <2>1. call[c].pc \in Flying /\ circuits' = circuits
    BY <1>7 DEF AnswerTransport, Flying
  <2>2. Onward(call[c], r) /\ Onward(call[c], [call[c] EXCEPT !.pc = "key"])
    BY <1>0, <2>1, ConnectorRecords, Zenon
  <2>3. \/ call' = [call EXCEPT ![c] = [call[c] EXCEPT !.pc = "key"]]
        \/ call' = [call EXCEPT ![c] = [r EXCEPT !.pc = "fail", !.err = "other"]]
        \/ call' = [call EXCEPT ![c] = Exhausted(r)]
        \/ call' = [call EXCEPT ![c] = [r EXCEPT !.pc = "key"]]
    BY <1>7, Zenon DEF AnswerTransport, Set
  <2>4. r \in CallType /\ r.pc \in Flying /\ r.todo = call[c].todo
    BY <2>2 DEF Onward
  <2> HIDE DEF r
  <2>5. /\ Onward(r, [r EXCEPT !.pc = "fail", !.err = "other"])
        /\ Onward(r, Exhausted(r)) /\ Onward(r, [r EXCEPT !.pc = "key"])
    BY <2>4, ConnectorRecords, Zenon
  <2>6. /\ Onward(call[c], [r EXCEPT !.pc = "fail", !.err = "other"])
        /\ Onward(call[c], Exhausted(r)) /\ Onward(call[c], [r EXCEPT !.pc = "key"])
    BY <2>4, <2>5 DEF Onward
  <2> QED
    BY <2>1, <2>2, <2>3, <2>6, OnwardStep, Zenon
<1> QED
  BY <1>1, <1>2, <1>3, <1>4, <1>5, <1>6, <1>7

\* evaluateEffectiveState may only move a circuit from open to half-open, with no
\* slot taken.
LEMMA EffectiveMoves ==
  ASSUME NEW r \in CircuitType
  PROVE  /\ Effective(r) \in CircuitType
         /\ Effective(r).state # "Closed" => r.state # "Closed"
         /\ Effective(r).state = "HalfOpen" =>
              \/ Effective(r).halfOpenCalls = 0
              \/ r.state = "HalfOpen" /\ Effective(r).halfOpenCalls = r.halfOpenCalls
<1>1. CASE r.state = "Open" /\ r.timedOut
  <2>1. Effective(r) = [r EXCEPT !.state = "HalfOpen", !.halfOpenCalls = 0, !.timedOut = FALSE]
    BY <1>1 DEF Effective
  <2>2. 0 \in 0 .. HalfOpenMaxCalls
    BY BreakerAssumption DEF BreakerAssumption
  <2> QED
    BY <1>1, <2>1, <2>2, Zenon DEF CircuitType
<1>2. CASE ~ (r.state = "Open" /\ r.timedOut)
  <2>1. Effective(r) = r
    BY <1>2 DEF Effective
  <2> QED
    BY <2>1
<1> QED
  BY <1>1, <1>2

\* A step on the circuit of one model keeps the invariant if no call enters or
\* leaves the flight and, half-open, the circuit has no more slots taken than before.
LEMMA CircuitStep ==
  ASSUME ProbeInv, NEW m \in Models, NEW r \in CircuitType, CallTyped',
         circuits' = [circuits EXCEPT ![m] = r],
         r.state # "Closed" => circuits[m].state # "Closed",
         r.state = "HalfOpen" => \/ r.halfOpenCalls = 0
                                  \/ /\ circuits[m].state = "HalfOpen"
                                     /\ r.halfOpenCalls = circuits[m].halfOpenCalls,
         \A d \in Calls : /\ call'[d].pc \in Flying <=> call[d].pc \in Flying
                          /\ call'[d].pc \in Flying => call'[d].todo = call[d].todo
  PROVE  ProbeInv'
<1>1. circuits \in [Models -> CircuitType]
  BY DEF ProbeInv, CircuitTyped
<1>2. CircuitTyped' /\ OpenIsServed'
  BY <1>1 DEF ProbeInv, CircuitTyped, OpenIsServed
<1>3. OnServed'
  BY DEF ProbeInv, OnServed, Model
<1>4. ASSUME NEW n \in Models PROVE InFlight(n)' = InFlight(n)
  BY DEF InFlight, Model, Flying
<1>5. ASSUME NEW n \in Models, circuits'[n].state = "HalfOpen"
      PROVE  circuits'[n].halfOpenCalls <= Cardinality(InFlight(n))
  <2>1. CASE n = m
    <3>1. circuits'[n] = r
      BY <1>1, <2>1, Zenon
    <3>2. CASE r.halfOpenCalls = 0
      BY <3>1, <3>2, InFlightFinite
    <3>3. CASE circuits[m].state = "HalfOpen" /\ r.halfOpenCalls = circuits[m].halfOpenCalls
      BY <2>1, <3>1, <3>3, Zenon DEF ProbeInv, ProbesAccounted
    <3> QED
      BY <1>5, <3>1, <3>2, <3>3
  <2>2. CASE n # m
    BY <1>1, <1>5, <2>2, Zenon DEF ProbeInv, ProbesAccounted
  <2> QED
    BY <2>1, <2>2, Zenon
<1>6. ProbesAccounted'
  BY <1>4, <1>5 DEF ProbesAccounted
<1> QED
  BY <1>2, <1>3, <1>6 DEF ProbeInv

\* Asking the circuit breaker and the registry about the next candidate keeps the
\* invariant: the only way to take a slot is to go in flight with it.
LEMMA TryModelStep ==
  ASSUME ProbeInv, NEW c \in Calls, TryModel(c)
  PROVE  ProbeInv'
<1>1. call \in [Calls -> CallType] /\ circuits \in [Models -> CircuitType]
  BY DEF ProbeInv, CallTyped, CircuitTyped
<1>2. call[c].pc = "model" /\ call[c].todo # <<>> /\ call[c].todo \in Seq(Models)
  BY <1>1 DEF TryModel, CallType
<1>3. Model(c) \in Models /\ Tail(call[c].todo) \in Seq(Models)
  BY <1>2 DEF Model
<1>m. PICK m \in Models : m = Model(c)
  BY <1>3
<1> DEFINE r == Effective(circuits[m])
<1>4. /\ r \in CircuitType
      /\ r.state # "Closed" => circuits[m].state # "Closed"
      /\ r.state = "HalfOpen" =>
           \/ r.halfOpenCalls = 0
           \/ circuits[m].state = "HalfOpen" /\ r.halfOpenCalls = circuits[m].halfOpenCalls
  BY <1>1, EffectiveMoves
<1>5. PICK allowed \in BOOLEAN : AllowRequest(m, allowed)
        /\ call' = [call EXCEPT ![c] =
             IF ~ allowed THEN [call[c] EXCEPT !.open = TRUE, !.todo = Tail(@)]
             ELSE IF m \notin Served THEN [call[c] EXCEPT !.todo = Tail(@)]
             ELSE [call[c] EXCEPT !.pc = "key", !.attempted = TRUE]]
  BY <1>m, Zenon DEF TryModel, Set
<1>6. CASE ~ allowed \/ m \notin Served
  <2>1. PICK s \in CallType : call' = [call EXCEPT ![c] = s] /\ s.pc = "model"
    <3>1. /\ [call[c] EXCEPT !.open = TRUE, !.todo = Tail(@)] \in CallType
          /\ [call[c] EXCEPT !.open = TRUE, !.todo = Tail(@)].pc = "model"
          /\ [call[c] EXCEPT !.todo = Tail(@)] \in CallType
          /\ [call[c] EXCEPT !.todo = Tail(@)].pc = "model"
      BY <1>1, <1>2, <1>3, ZenonT(30) DEF CallType
    <3>2. \/ call' = [call EXCEPT ![c] = [call[c] EXCEPT !.open = TRUE, !.todo = Tail(@)]]
          \/ call' = [call EXCEPT ![c] = [call[c] EXCEPT !.todo = Tail(@)]]
      BY <1>5, <1>6, Zenon
    <3> QED
      BY <3>1, <3>2, Zenon
  <2>2. CallTyped'
    BY <1>1, <2>1 DEF CallTyped
  <2>3. circuits' = [circuits EXCEPT ![m] = r]
    <3>1. CASE ~ allowed
      BY <1>5, <3>1 DEF AllowRequest
    <3>2. CASE m \notin Served
      <4>1. circuits[m].state = "Closed"
        BY <3>2 DEF ProbeInv, OpenIsServed
      <4>2. r.state # "HalfOpen"
        BY <1>4, <4>1
      <4> QED
        BY <1>5, <4>2 DEF AllowRequest
    <3> QED
      BY <1>6, <3>1, <3>2
  <2>4. ASSUME NEW d \in Calls
        PROVE  /\ call'[d].pc \in Flying <=> call[d].pc \in Flying
               /\ call'[d].pc \in Flying => call'[d].todo = call[d].todo
    <3>1. CASE d = c
      BY <1>1, <1>2, <2>1, <3>1 DEF Flying
    <3>2. CASE d # c
      BY <1>1, <2>1, <3>2
    <3> QED
      BY <3>1, <3>2
  <2> HIDE DEF r
  <2> QED
    BY <1>4, <2>2, <2>3, <2>4, CircuitStep, Zenon
<1>7. CASE allowed /\ m \in Served
  <2> DEFINE s == [call[c] EXCEPT !.pc = "key", !.attempted = TRUE]
             q == IF r.state = "HalfOpen" THEN [r EXCEPT !.halfOpenCalls = @ + 1] ELSE r
  <2>1. s \in CallType /\ s.pc = "key" /\ s.todo = call[c].todo
    <3>1. ASSUME NEW x \in CallType
          PROVE  LET y == [x EXCEPT !.pc = "key", !.attempted = TRUE] IN
                 y \in CallType /\ y.pc = "key" /\ y.todo = x.todo
      BY Zenon DEF CallType
    <3> QED
      BY <1>1, <3>1, Zenon
  <2>2. call' = [call EXCEPT ![c] = s] /\ circuits' = [circuits EXCEPT ![m] = q] /\ Admits(r)
    BY <1>5, <1>7 DEF AllowRequest
  <2>3. /\ q \in CircuitType /\ q.state = r.state
        /\ r.state = "HalfOpen" => q.halfOpenCalls = r.halfOpenCalls + 1
    <3>1. CASE r.state = "HalfOpen"
      <4>1. r.halfOpenCalls \in 0 .. HalfOpenMaxCalls /\ r.halfOpenCalls < HalfOpenMaxCalls
        BY <1>4, <2>2, <3>1 DEF Admits, CircuitType
      <4>2. r.halfOpenCalls + 1 \in 0 .. HalfOpenMaxCalls
        BY <4>1, BreakerAssumption DEF BreakerAssumption
      <4>3. q = [r EXCEPT !.halfOpenCalls = r.halfOpenCalls + 1]
        BY <3>1
      <4> HIDE DEF r
      <4> QED
        BY <1>4, <4>2, <4>3 DEF CircuitType
    <3>2. CASE r.state # "HalfOpen"
      BY <1>4, <3>2
    <3> QED
      BY <3>1, <3>2
  <2> HIDE DEF s, q, r
  <2>4. CallTyped' /\ CircuitTyped'
    BY <1>1, <2>1, <2>2, <2>3, Zenon DEF CallTyped, CircuitTyped
  <2>5. OpenIsServed'
    BY <1>1, <1>7, <2>2, Zenon DEF ProbeInv, OpenIsServed
  <2>6. OnServed'
    <3>1. ASSUME NEW d \in Calls, call'[d].pc \in Flying
          PROVE  call'[d].todo # <<>> /\ Head(call'[d].todo) \in Served
      <4>1. CASE d = c
        BY <1>1, <1>2, <1>m, <1>7, <2>1, <2>2, <4>1, Zenon DEF Model
      <4>2. CASE d # c
        BY <1>1, <2>2, <3>1, <4>2, Zenon DEF ProbeInv, OnServed, Model
      <4> QED
        BY <4>1, <4>2
    <3> QED
      BY <3>1 DEF OnServed, Model
  <2>7. InFlight(m)' = InFlight(m) \cup {c} /\ c \notin InFlight(m)
    BY <1>1, <1>2, <1>m, <2>1, <2>2, Zenon DEF InFlight, Model
  <2>8. ASSUME NEW n \in Models, n # m PROVE InFlight(n)' = InFlight(n)
    BY <1>1, <1>2, <1>m, <2>1, <2>2, <2>8, Zenon DEF InFlight, Model
  <2>9. IsFiniteSet(InFlight(m)) /\ Cardinality(InFlight(m)) \in Nat
    BY InFlightFinite
  <2>10. Cardinality(InFlight(m) \cup {c}) = Cardinality(InFlight(m)) + 1
    BY <2>7, <2>9, FS_AddElement, Zenon
  <2>11. r.state = "HalfOpen" => r.halfOpenCalls <= Cardinality(InFlight(m))
    BY <1>4, <2>9 DEF ProbeInv, ProbesAccounted
  <2>12. q.state = "HalfOpen" => q.halfOpenCalls <= Cardinality(InFlight(m) \cup {c})
    <3>1. r.halfOpenCalls \in Int
      BY <1>4, BreakerAssumption DEF CircuitType, BreakerAssumption
    <3> QED
      BY <2>3, <2>9, <2>10, <2>11, <3>1
  <2>13. ProbesAccounted'
    <3>1. ASSUME NEW n \in Models, circuits'[n].state = "HalfOpen"
          PROVE  circuits'[n].halfOpenCalls <= Cardinality(InFlight(n)')
      <4>1. CASE n = m
        BY <1>1, <2>2, <2>7, <2>12, <3>1, <4>1, Zenon
      <4>2. CASE n # m
        BY <1>1, <2>2, <2>8, <3>1, <4>2, Zenon DEF ProbeInv, ProbesAccounted
      <4> QED
        BY <4>1, <4>2
    <3> QED
      BY <3>1 DEF ProbesAccounted
  <2> QED
    BY <2>4, <2>5, <2>6, <2>13, SMTT(30) DEF ProbeInv
<1> QED
  BY <1>6, <1>7

\* The end of a call, or of its try of one model, keeps the invariant: the circuit
\* of the model is not half-open after it.
LEMMA EndStep ==
  ASSUME ProbeInv, NEW c \in Calls, Succeed(c) \/ Fail(c)
  PROVE  ProbeInv'
<1>1. call \in [Calls -> CallType] /\ circuits \in [Models -> CircuitType]
  BY Zenon DEF ProbeInv, CallTyped, CircuitTyped
<1>2. call[c].pc \in Flying
  BY DEF Succeed, Fail, Flying
<1>3. call[c].todo # <<>> /\ call[c].todo \in Seq(Models) /\ Model(c) \in Served
  BY <1>1, <1>2 DEF ProbeInv, OnServed, CallType
<1>4. PICK m \in Models : m = Model(c)
  BY <1>3, UpstreamAssumption DEF UpstreamAssumption
<1>5. PICK q \in CircuitType : circuits' = [circuits EXCEPT ![m] = q] /\ q.state # "HalfOpen"
  <2>1. CASE Succeed(c)
    <3> DEFINE r == circuits[m]
               q == [r EXCEPT !.failures = 0, !.state = "Closed", !.timedOut = FALSE]
    <3>1. q \in CircuitType /\ q.state = "Closed"
      <4>1. 0 \in 0 .. FailureThreshold
        BY BreakerAssumption DEF BreakerAssumption
      <4> QED
        BY <1>1, <4>1, Zenon DEF CircuitType
    <3>2. circuits' = [circuits EXCEPT ![m] = q]
      BY <1>1, <1>4, <2>1, Zenon DEF Succeed, RecordSuccess, CircuitType
    <3> QED
      BY <3>1, <3>2, Zenon
  <2>2. CASE Fail(c)
    <3> DEFINE r == circuits[m]
               f == IF r.failures < FailureThreshold THEN r.failures + 1 ELSE FailureThreshold
               st == IF r.state = "HalfOpen" \/ f = FailureThreshold THEN "Open" ELSE r.state
               q == [r EXCEPT !.failures = f, !.timedOut = FALSE, !.state = st]
    <3>1. f \in 0 .. FailureThreshold
      BY <1>1, BreakerAssumption DEF CircuitType, BreakerAssumption
    <3>2. st \in {"Closed", "Open"}
      BY <1>1 DEF CircuitType
    <3>3. circuits' = [circuits EXCEPT ![m] = q]
      BY <1>1, <1>4, <2>2, Zenon DEF Fail, RecordFailure, CircuitType
    <3> HIDE DEF f, st
    <3>4. q \in CircuitType /\ q.state = st
      BY <1>1, <3>1, <3>2, Zenon DEF CircuitType
    <3> QED
      BY <3>2, <3>3, <3>4, Zenon
  <2> QED
    BY <2>1, <2>2
<1>6. PICK s \in CallType : call' = [call EXCEPT ![c] = s] /\ s.pc \in {"idle", "model"}
  <2>1. Idle \in CallType /\ Idle.pc = "idle"
    BY FreshCall, Zenon
  <2>2. ASSUME Fail(c), ~ call[c].sent
        PROVE  NextCandidate(c, call[c]) \in CallType /\ NextCandidate(c, call[c]).pc = "model"
    <3>1. Tail(call[c].todo) \in Seq(Models)
      BY <1>3
    <3>2. ASSUME NEW x \in CallType, Tail(x.todo) \in Seq(Models)
          PROVE  LET y == [x EXCEPT !.pc = "model", !.todo = Tail(@), !.key = NoKey, !.tried = {},
                                    !.status = "none", !.seen = FALSE] IN
                 y \in CallType /\ y.pc = "model"
      BY <3>2, Zenon DEF CallType
    <3>3. ASSUME NEW x \in CallType, NEW b1 \in BOOLEAN, NEW b2 \in BOOLEAN
          PROVE  LET y == [x EXCEPT !.noKeys = b1, !.saw = b2, !.err = "default"] IN
                 y \in CallType /\ y.todo = x.todo
      BY ZenonT(30) DEF CallType
    <3>4. Caught(call[c]) \in CallType /\ Caught(call[c]).todo = call[c].todo
      BY <1>1, <3>3, ZenonT(30) DEF Caught
    <3>5. CASE c \in Streaming
      BY <1>1, <3>1, <3>2, <3>5, ZenonT(30) DEF NextCandidate
    <3>6. CASE c \notin Streaming
      BY <3>1, <3>2, <3>4, <3>6, Zenon DEF NextCandidate
    <3> QED
      BY <3>5, <3>6
  <2>3. CASE Succeed(c) \/ call[c].sent
    BY <2>1, <2>3, Zenon DEF Succeed, Fail, Set
  <2>4. CASE Fail(c) /\ ~ call[c].sent
    BY <2>2, <2>4 DEF Fail, Set
  <2> QED
    BY <2>3, <2>4, Zenon
<1>7. CallTyped' /\ CircuitTyped'
  BY <1>1, <1>5, <1>6, Zenon DEF CallTyped, CircuitTyped
<1>8. OpenIsServed'
  BY <1>1, <1>3, <1>4, <1>5 DEF ProbeInv, OpenIsServed
<1>9. OnServed'
  <2>1. ASSUME NEW d \in Calls, call'[d].pc \in Flying
        PROVE  call'[d].todo # <<>> /\ Head(call'[d].todo) \in Served
    <3>1. d # c
      BY <1>1, <1>6, <2>1, Zenon DEF Flying
    <3> QED
      BY <1>1, <1>6, <2>1, <3>1, Zenon DEF ProbeInv, OnServed, Model
  <2> QED
    BY <2>1, Zenon DEF OnServed, Model
<1>10. ASSUME NEW n \in Models, n # m PROVE InFlight(n)' = InFlight(n)
  BY <1>1, <1>4, <1>6, <1>10, Zenon DEF InFlight, Model
<1>11. ProbesAccounted'
  <2>1. ASSUME NEW n \in Models, circuits'[n].state = "HalfOpen"
        PROVE  circuits'[n].halfOpenCalls <= Cardinality(InFlight(n)')
    <3>1. n # m
      BY <1>1, <1>5, <2>1
    <3> QED
      BY <1>1, <1>5, <1>10, <2>1, <3>1, Zenon DEF ProbeInv, ProbesAccounted
  <2> QED
    BY <2>1 DEF ProbesAccounted
<1> QED
  BY <1>7, <1>8, <1>9, <1>11 DEF ProbeInv

\* What the metrics exporter, the clock and the eviction of circuits do keeps the
\* invariant.
LEMMA AroundStep ==
  ASSUME ProbeInv, Around
  PROVE  ProbeInv'
<1>1. circuits \in [Models -> CircuitType]
  BY DEF ProbeInv, CircuitTyped
<1>2. call' = call
  BY DEF Around
<1>3. CallTyped'
  BY <1>2, Zenon DEF ProbeInv, CallTyped
<1>4. CASE circuits' = circuits
  BY <1>2, <1>4 DEF ProbeInv, CircuitTyped, CallTyped, OnServed, OpenIsServed, ProbesAccounted,
                    InFlight, Model
<1>5. ASSUME NEW m \in Models, ReadState(m) PROVE ProbeInv'
  <2> DEFINE r == Effective(circuits[m])
  <2>1. circuits' = [circuits EXCEPT ![m] = r]
    BY <1>5 DEF ReadState
  <2>2. /\ r \in CircuitType
        /\ r.state # "Closed" => circuits[m].state # "Closed"
        /\ r.state = "HalfOpen" =>
             \/ r.halfOpenCalls = 0
             \/ circuits[m].state = "HalfOpen" /\ r.halfOpenCalls = circuits[m].halfOpenCalls
    BY <1>1, EffectiveMoves
  <2> HIDE DEF r
  <2> QED
    BY <1>2, <1>3, <2>1, <2>2, CircuitStep, Zenon
<1>6. ASSUME NEW m \in Models, ResetTimeoutPasses(m) PROVE ProbeInv'
  <2> DEFINE r == [circuits[m] EXCEPT !.timedOut = TRUE]
  <2>1. r \in CircuitType /\ r.state = "Open" /\ circuits[m].state = "Open"
    BY <1>1, <1>6, Zenon DEF ResetTimeoutPasses, CircuitType
  <2>2. circuits' = [circuits EXCEPT ![m] = r]
    BY <1>1, <1>6 DEF ResetTimeoutPasses, CircuitType
  <2> HIDE DEF r
  <2> QED
    BY <1>2, <1>3, <2>1, <2>2, CircuitStep, Zenon
<1>7. ASSUME NEW m \in Models, Forget(m) PROVE ProbeInv'
  <2>1. Fresh \in CircuitType /\ Fresh.state = "Closed"
    BY BreakerAssumption DEF Fresh, CircuitType, BreakerAssumption
  <2>2. circuits' = [circuits EXCEPT ![m] = Fresh]
    BY <1>7 DEF Forget
  <2> QED
    BY <1>2, <1>3, <2>1, <2>2, CircuitStep, Zenon
<1> QED
  BY <1>4, <1>5, <1>6, <1>7 DEF Around

\* The inductive invariant holds throughout.
THEOREM ProbeCorrect == Spec => []ProbeInv
<1>1. Init => ProbeInv
  <2> SUFFICES ASSUME Init PROVE ProbeInv
    OBVIOUS
  <2>1. Idle \in CallType /\ Idle.pc = "idle"
    BY FreshCall, Zenon
  <2>2. Fresh \in CircuitType /\ Fresh.state = "Closed"
    BY BreakerAssumption DEF Fresh, CircuitType, BreakerAssumption
  <2>3. CallTyped /\ OnServed
    BY <2>1 DEF Init, CallTyped, OnServed, Flying
  <2>4. CircuitTyped /\ OpenIsServed /\ ProbesAccounted
    BY <2>2 DEF Init, BreakerInit, CircuitTyped, OpenIsServed, ProbesAccounted
  <2> QED
    BY <2>3, <2>4, Zenon DEF ProbeInv
<1>2. ProbeInv /\ [Next]_vars => ProbeInv'
  <2> SUFFICES ASSUME ProbeInv, [Next]_vars PROVE ProbeInv'
    OBVIOUS
  <2>1. ASSUME NEW c \in Calls, Begin(c) \/ Step(c) PROVE ProbeInv'
    BY <2>1, CallSteps, TryModelStep, EndStep DEF Step
  <2>2. CASE Around
    BY <2>2, AroundStep, Zenon
  <2>3. CASE UNCHANGED vars
    BY <2>3 DEF vars, ProbeInv, CircuitTyped, CallTyped, OnServed, OpenIsServed, ProbesAccounted,
                InFlight, Model
  <2> QED
    BY <2>1, <2>2, <2>3 DEF Next
<1> QED
  BY <1>1, <1>2, PTL DEF Spec

\* The slots allowRequest hands out in the half-open state are never more than the
\* calls in flight: recordSuccess or recordFailure gives each of them back.
THEOREM NoLeakedProbe == Spec => []ProbesAccounted
<1>1. ProbeInv => ProbesAccounted
  BY Zenon DEF ProbeInv
<1> QED
  BY <1>1, ProbeCorrect, PTL

-----------------------------------------------------------------------------
(***************************************************************************)
(* One source per stream.  A call whose client has seen a delta is past    *)
(* the choice of a key and has the flags set (first_chunk_seen, sent) that *)
(* keep the connector from retrying and the fallback from going on.        *)
(***************************************************************************)
Late == {"wait", "succeed", "fail"}

Committed(c, r) == c \in Streaming /\ r.sent /\ r.seen /\ r.pc \in Late

SourceInv ==
  /\ client = [c \in Calls |-> client[c]]
  /\ \A c \in Calls : client[c] = "streaming" => Committed(c, call[c])

\* What SingleSource says of the call c.
SameSource(c) ==
  client[c] = "streaming" /\ client'[c] = "streaming" =>
    /\ call'[c].pc # "key" /\ call'[c].key = call[c].key
    /\ call'[c].todo = call[c].todo

\* A step of the call c, to the state r, after which its client has seen w.
LEMMA SourceStep ==
  ASSUME CallTyped, SourceInv, NEW c \in Calls, NEW r, NEW w,
         call' = [call EXCEPT ![c] = r], client' = [client EXCEPT ![c] = w],
         w = "streaming" => Committed(c, r),
         w = "streaming" /\ client[c] = "streaming" =>
           r.key = call[c].key /\ r.todo = call[c].todo
  PROVE  SourceInv' /\ \A d \in Calls : SameSource(d)
<1>1. ASSUME NEW d \in Calls
      PROVE  /\ client'[d] = "streaming" => Committed(d, call'[d])
             /\ SameSource(d)
  <2>1. CASE d = c
    <3>1. call'[d] = r /\ client'[d] = w
      BY <2>1, Zenon DEF CallTyped, SourceInv
    <3> QED
      BY <2>1, <3>1, Zenon DEF SameSource, Committed, Late
  <2>2. CASE d # c
    <3>1. call'[d] = call[d] /\ client'[d] = client[d]
      BY <2>2 DEF CallTyped, SourceInv
    <3> QED
      BY <3>1 DEF SameSource, SourceInv, Committed, Late
  <2> QED
    BY <2>1, <2>2, Zenon
<1>2. client' = [d \in Calls |-> client'[d]]
  BY DEF SourceInv
<1> QED
  BY <1>1, <1>2, Zenon DEF SourceInv, Committed

\* A step of a call whose client has seen no delta yet and sees none.
LEMMA SilentStep ==
  ASSUME CallTyped, SourceInv, NEW c \in Calls, NEW r, NEW w,
         call' = [call EXCEPT ![c] = r], client' = [client EXCEPT ![c] = w], w # "streaming"
  PROVE  SourceInv' /\ \A d \in Calls : SameSource(d)
BY SourceStep, Zenon

LEMMA ClientKept ==
  ASSUME SourceInv, NEW c \in Calls, UNCHANGED client
  PROVE  client' = [client EXCEPT ![c] = client[c]]
<1>1. client' = client
  OBVIOUS
<1> QED
  BY <1>1 DEF SourceInv

LEMMA SourceCall ==
  ASSUME CallTyped, SourceInv, NEW c \in Calls, Begin(c) \/ Step(c)
  PROVE  SourceInv' /\ \A d \in Calls : SameSource(d)
<1>0. call[c] \in CallType /\ (client[c] = "streaming" => Committed(c, call[c]))
  BY DEF CallTyped, SourceInv
<1>1. CASE Begin(c) \/ OutOfModels(c) \/ Succeed(c) \/ (Fail(c) /\ call[c].sent)
  <2>1. PICK r, w : /\ call' = [call EXCEPT ![c] = r] /\ client' = [client EXCEPT ![c] = w]
                    /\ w # "streaming"
    BY <1>1, Zenon DEF Begin, OutOfModels, Succeed, Fail, Set, Sees
  <2> QED
    BY <2>1, SilentStep, Zenon
<1>2. CASE TryModel(c) \/ PickKey(c) \/ AnswerStatus(c) \/ (Fail(c) /\ ~ call[c].sent)
  <2>1. client[c] # "streaming"
    BY <1>0, <1>2, Zenon DEF TryModel, PickKey, AnswerStatus, Fail, Committed, Late
  <2>2. UNCHANGED client
    BY <1>2, Zenon DEF TryModel, PickKey, AnswerStatus, Fail
  <2>3. \E r : call' = [call EXCEPT ![c] = r]
    <3>1. CASE TryModel(c)
      BY <3>1, Zenon DEF TryModel, Set
    <3>2. CASE PickKey(c)
      BY <3>2, Zenon DEF PickKey, Set
    <3>3. CASE AnswerStatus(c)
      BY <3>3, Zenon DEF AnswerStatus, Set
    <3>4. CASE Fail(c) /\ ~ call[c].sent
      BY <3>4 DEF Fail, Set
    <3> QED
      BY <1>2, <3>1, <3>2, <3>3, <3>4
  <2>4. PICK r : call' = [call EXCEPT ![c] = r]
    BY <2>3, Zenon
  <2>5. client' = [client EXCEPT ![c] = client[c]]
    BY <2>2, ClientKept
  <2> QED
    BY <2>1, <2>4, <2>5, SilentStep, ZenonT(30)
<1>3. CASE Line(c)
  <2>1. c \in Streaming /\ call[c].pc = "wait"
    BY <1>3 DEF Line
  <2>2. CASE call' = [call EXCEPT ![c] = [call[c] EXCEPT !.seen = TRUE]] /\ UNCHANGED client
    <3> DEFINE r == [call[c] EXCEPT !.seen = TRUE]
    <3>1. /\ r.seen /\ r.pc = call[c].pc /\ r.sent = call[c].sent
          /\ r.key = call[c].key /\ r.todo = call[c].todo
      BY <1>0 DEF CallType
    <3>2. call' = [call EXCEPT ![c] = r]
      BY <2>2, Zenon
    <3> HIDE DEF r
    <3>3. client[c] = "streaming" => Committed(c, r)
      BY <1>0, <3>1 DEF Committed
    <3> QED
      BY <2>2, <3>1, <3>2, <3>3, ClientKept, SourceStep, Zenon
  <2>3. CASE /\ call' = [call EXCEPT ![c] = [call[c] EXCEPT !.seen = TRUE, !.sent = TRUE]]
             /\ client' = [client EXCEPT ![c] = "streaming"]
    <3> DEFINE r == [call[c] EXCEPT !.seen = TRUE, !.sent = TRUE]
    <3>1. r.seen /\ r.sent /\ r.pc = call[c].pc /\ r.key = call[c].key /\ r.todo = call[c].todo
      BY <1>0 DEF CallType
    <3>2. call' = [call EXCEPT ![c] = r]
      BY <2>3, Zenon
    <3> HIDE DEF r
    <3>3. Committed(c, r)
      BY <2>1, <3>1 DEF Committed, Late
    <3> QED
      BY <2>3, <3>1, <3>2, <3>3, SourceStep, Zenon
  <2> QED
    BY <1>3, <2>2, <2>3 DEF Line, Set, Sees
<1>4. CASE AnswerOk(c) \/ AnswerTransport(c)
  <2>0. UNCHANGED client
    BY <1>4, Zenon DEF AnswerOk, AnswerTransport
  <2>1. \E r : /\ call' = [call EXCEPT ![c] = r]
               /\ Committed(c, call[c]) =>
                    Committed(c, r) /\ r.key = call[c].key /\ r.todo = call[c].todo
    <3> DEFINE h == c \notin Streaming
               ok == [call[c] EXCEPT !.pc = "succeed", !.answered = h]
               bad == [call[c] EXCEPT !.pc = "fail", !.err = "other", !.answered = h]
               t == [call[c] EXCEPT !.status = "transport"]
               cut == [t EXCEPT !.pc = "fail", !.err = "other"]
    <3>1. /\ ok.pc = "succeed" /\ ok.sent = call[c].sent /\ ok.seen = call[c].seen
          /\ ok.key = call[c].key /\ ok.todo = call[c].todo
      BY <1>0 DEF CallType
    <3>2. t.seen = call[c].seen
      BY <1>0 DEF CallType
    <3>3. /\ cut.pc = "fail" /\ cut.sent = call[c].sent /\ cut.seen = call[c].seen
          /\ cut.key = call[c].key /\ cut.todo = call[c].todo
      BY <1>0 DEF CallType
    <3>4. CASE AnswerOk(c)
      <4>1. CASE call' = [call EXCEPT ![c] = ok]
        <5> HIDE DEF ok
        <5>1. Committed(c, call[c]) =>
                Committed(c, ok) /\ ok.key = call[c].key /\ ok.todo = call[c].todo
          BY <3>1 DEF Committed, Late
        <5> QED
          BY <4>1, <5>1, Zenon
      <4>2. CASE c \notin Streaming /\ call' = [call EXCEPT ![c] = bad]
        BY <4>2, Zenon DEF Committed
      <4> QED
        BY <3>4, <4>1, <4>2 DEF AnswerOk, Set
    <3>5. CASE AnswerTransport(c)
      <4>1. CASE Committed(c, call[c])
        <5>1. ~ CanRetryStream(t) /\ t.seen /\ c \in Streaming
          BY <3>2, <4>1 DEF CanRetryStream, Committed
        <5>2. call' = [call EXCEPT ![c] = cut]
          BY <3>5, <5>1, Zenon DEF AnswerTransport, Set
        <5> HIDE DEF cut
        <5>3. Committed(c, call[c]) =>
                Committed(c, cut) /\ cut.key = call[c].key /\ cut.todo = call[c].todo
          BY <3>3 DEF Committed, Late
        <5> QED
          BY <5>2, <5>3, Zenon
      <4>2. CASE ~ Committed(c, call[c])
        BY <3>5, <4>2, Zenon DEF AnswerTransport, Set
      <4> QED
        BY <4>1, <4>2
    <3> QED
      BY <1>4, <3>4, <3>5
  <2>2. PICK r : /\ call' = [call EXCEPT ![c] = r]
                 /\ Committed(c, call[c]) =>
                      Committed(c, r) /\ r.key = call[c].key /\ r.todo = call[c].todo
    BY <2>1, Zenon
  <2> QED
    BY <1>0, <2>0, <2>2, ClientKept, SourceStep, Zenon
<1> QED
  BY <1>1, <1>2, <1>3, <1>4 DEF Step

\* Once the client has seen a delta, its stream stays with the model and the key it
\* came from: canRetryStream and the sent flag stop every other attempt.
THEOREM OneSource == Spec => SingleSource
<1>1. Init => SourceInv
  BY DEF Init, SourceInv
<1>2. ASSUME CallTyped, SourceInv, [Next]_vars
      PROVE  SourceInv' /\ [\A c \in Calls : SameSource(c)]_vars
  <2>1. CASE \E c \in Calls : Begin(c) \/ Step(c)
    BY <1>2, <2>1, SourceCall, Zenon
  <2>2. CASE UNCHANGED <<client, call>>
    BY <1>2, <2>2 DEF SourceInv, SameSource, Committed, Late
  <2> QED
    BY <1>2, <2>1, <2>2 DEF Next, Around, vars
<1>3. [\A c \in Calls : SameSource(c)]_vars =>
        [\A c \in Calls : client[c] = "streaming" /\ client'[c] = "streaming" =>
           /\ call'[c].pc # "key" /\ call'[c].key = call[c].key
           /\ call'[c].todo = call[c].todo]_vars
  BY DEF SameSource
<1>4. ProbeInv => CallTyped
  BY DEF ProbeInv
<1> QED
  BY <1>1, <1>2, <1>3, <1>4, ProbeCorrect, PTL DEF Spec, SingleSource
=============================================================================

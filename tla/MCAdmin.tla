------------------------------ MODULE MCAdmin ------------------------------
(***************************************************************************)
(* The administrators' API and the self-healing loops.  They share no      *)
(* state here, so one of them is chosen in the initial state and the other *)
(* stands still: the graph is the disjoint union of theirs.                *)
(*                                                                         *)
(* Two tenants, four users: 1 SuperAdmin and 2 TenantAdmin of tenant 1,    *)
(* 3 TenantAdmin and 4 Viewer of tenant 2.  Every topic starts from the    *)
(* same tables.                                                            *)
(***************************************************************************)
EXTENDS AdminApi, SelfHealing, TLC

VARIABLE part

Topics == {"tenants", "users", "keys", "templates", "rules", "providers",
           "sso", "mfa", "groups"}

MCMaxRequests ==
  [tp \in Topics |-> CASE tp \in {"sso", "mfa"} -> 4
                       [] tp \in {"rules", "providers"} -> 3
                       [] OTHER -> 2]
MCMaxNow == [tp \in Topics |-> IF tp \in {"sso", "mfa"} THEN 2 ELSE 0]

Row(t) == [tenant |-> t]
Session(u, t) == [user |-> u, tenant |-> t, mfa |-> FALSE, created |-> 0,
                  active |-> 0, expires |-> 2 * Window]
User(t, nm, r) == [tenant |-> t, name |-> nm, role |-> r,
                   status |-> "active"]

Tables0 ==
  [tenants   |-> <<[tenant |-> 1, name |-> "t1", status |-> "active"],
                   [tenant |-> 2, name |-> "t2", status |-> "active"]>>,
   users     |-> <<User(1, "root", SuperAdmin), User(1, "tom", TenantAdmin),
                   User(2, "eve", TenantAdmin), User(2, "amy", Viewer)>>,
   keys      |-> <<[user |-> 1, tenant |-> 1, role |-> SuperAdmin,
                    status |-> "active"],
                   [user |-> 4, tenant |-> 2, role |-> Developer,
                    status |-> "active"]>>,
   sessions  |-> <<Session(1, 1), Session(2, 1), Session(3, 2), Session(4, 2)>>,
   templates |-> <<[tenant |-> 1, name |-> "a"], [tenant |-> 2, name |-> "b"]>>,
   rules     |-> <<[versions |-> {1}, active |-> 1],
                   [versions |-> {1}, active |-> 1]>>,
   bucket    |-> <<1, 1>>,
   audits    |-> <<Row(1), Row(2)>>,
   costs     |-> <<Row(1), Row(2)>>,
   sso       |-> <<[tenant |-> 2, enabled |-> TRUE, jit |-> TRUE]>>,
   mappings  |-> [s \in {"amy"} |-> [tenant |-> 2, user |-> 4, login |-> 0]],
   scimMappings |-> <<>>,
   tokens    |-> <<[tenant |-> 1, expires |-> 9], [tenant |-> 2, expires |-> 0]>>,
   groups    |-> <<[tenant |-> 1, members |-> {}], [tenant |-> 2, members |-> {}]>>,
   mfa       |-> <<>>,
   failures  |-> <<>>]

Enrolled0 == [u \in {2} |-> [secret |-> 5, on |-> TRUE, codes |-> {1, 2}]]

SessionCookie(i) == [kind |-> "session", id |-> i]

CookiesOf(tp) ==
  CASE tp = "mfa"    -> {SessionCookie(2)}
    [] tp = "sso"    -> {SessionCookie(4)}
    [] tp \in {"providers", "rules"} -> {SessionCookie(i) : i \in {1, 3}}
    [] tp = "keys"   -> {SessionCookie(i) : i \in 2..4}
    [] tp = "groups" -> {[kind |-> "scim", id |-> k] : k \in {1, 2}}
    [] tp = "users"  -> {SessionCookie(i) : i \in 1..4} \cup
                        {[kind |-> "scim", id |-> k] : k \in {1, 2}}
    [] OTHER         -> {SessionCookie(i) : i \in 1..4}

AdminInit ==
  /\ topic \in Topics
  /\ rbac \in IF topic = "keys" THEN BOOLEAN ELSE {TRUE}
  /\ enforcement \in IF topic = "mfa" THEN {"required", "role_based"}
                     ELSE IF topic = "keys" THEN {"optional", "role_based"}
                     ELSE {"disabled"}
  /\ \E m \in IF topic = "mfa" THEN {<<>>, Enrolled0} ELSE {<<>>} :
       db = [Tables0 EXCEPT !.mfa = m]
  /\ now = 0 /\ nextId = FirstId /\ faults = 0
  /\ jobs = [w \in Workers |-> Idle]
  /\ cookies = CookiesOf(topic)
  /\ pending = <<>>

(***************************************************************************)
(* Self-healing: one rule that needs two signals, a runbook that needs the *)
(* rule and one that needs a metric, bad and empty files among those to    *)
(* reload.                                                                 *)
(***************************************************************************)
Cond(kind, value) == [kind |-> kind, value |-> value]

RcaRule == [id |-> "rca", min |-> 1, per |-> 4, all |-> 9,
            conditions |-> <<Cond("metric", 0), Cond("feedback", 1), Cond("log", 1)>>]

Book(id, triggers, cooldown) ==
  [id |-> id, triggers |-> triggers, actions |-> <<"audit_only">>, cooldown |-> cooldown]

NeedsRca(score) == <<[kind |-> "rca", rule |-> "rca", value |-> score]>>

MCRuleFiles == {<<RcaRule>>, << >>, <<[RcaRule EXCEPT !.conditions = << >>]>>}
MCRunbookDirs == {<<Book("rb1", NeedsRca(8), 2), Book("rb2", <<Cond("metric", 0)>>, 2)>>,
                  <<Book("rb1", <<Cond("feedback", 2)>>, 2)>>,
                  << >>,
                  <<Book("rb2", <<Cond("metric", 0)>>, 1), Book("rb1", << >>, 2)>>}
MCAlertRules == <<[id |-> "a1", threshold |-> 1, cooldown |-> 2, enabled |-> TRUE],
                  [id |-> "a2", threshold |-> 2, cooldown |-> 0, enabled |-> TRUE],
                  [id |-> "a3", threshold |-> 0, cooldown |-> 1, enabled |-> FALSE]>>

(***************************************************************************)
(* The sum.                                                                *)
(***************************************************************************)
Init ==
  /\ part \in {"admin", "healing"}
  /\ AdminInit
  /\ part # "admin" => topic = "tenants"
  /\ HealInit /\ (part # "healing" => strand = "alert")

Next ==
  \/ part = "admin" /\ ApiNext /\ UNCHANGED <<part, hvars>>
  \/ part = "healing" /\ HealNext /\ UNCHANGED <<part, apivars>>

Spec == Init /\ [][Next]_<<part, apivars, hvars>>
=============================================================================

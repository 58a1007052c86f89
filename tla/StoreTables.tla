---------------------------- MODULE StoreTables ----------------------------
(***************************************************************************)
(* What the three PersistentStore backends share: the tables, the calls    *)
(* their callers make (small sets of rows), the clock, and the few shapes  *)
(* a store call has.  A row keeps its keys and the columns a WHERE clause  *)
(* or a constraint looks at; "data" stands for every other column.         *)
(*                                                                         *)
(* `last' is the last call, its argument and what it returned.  A get      *)
(* returns the set of the rows it may return one of: empty for nullopt.    *)
(***************************************************************************)
EXTENDS Naturals, Sequences, FiniteSets, FiniteSetsExt, SequencesExt

CONSTANTS
  MaxLog,     \* rows ever inserted into one log table
  MaxTime     \* last value of the clock, where a day must pass

DayLength == 2   \* clock ticks per calendar day
Window    == 1   \* retention of a prune, and MFA lockout window

VARIABLES
  db,         \* db[table]: the set of its rows
  last,       \* <<call, argument, result>>
  up,         \* db_ is open, a connection can be had, initialized_
  now,        \* wall clock
  focus       \* the group of tables this behaviour calls

storeVars == <<db, last, up, now, focus>>

LogTables == {"audits", "cost_records", "savings_events"}

Tables == LogTables \cup
  { "tenants", "users", "api_keys", "sso_providers", "identity_mappings",
    "sessions", "mfa_secrets", "mfa_failures", "scim_tokens", "scim_groups",
    "scim_group_members", "prompt_templates", "rule_sets",
    "config_versions", "rollouts", "rollout_stage_events",
    "autonomy_proposals" }

Groups ==
  { "audits", "costs", "savings", "tenants", "users", "keys", "sso",
    "mappings", "sessions", "secrets", "mfa", "tokens", "groups", "templates",
    "rules", "configs", "rollouts", "events", "proposals" }

(***************************************************************************)
(* The arguments of the calls.                                             *)
(***************************************************************************)
Ids  == {1, 2}
Data == {"a", "b"}

TenantRows   == [id : {"t1", "t2"}, data : Data]
OneTenant    == [id |-> "t1", data |-> "a"]
TenantIds    == {"t1", "t2"}
OneUser      == [id |-> 1, tenant |-> "t1", name |-> "n1", data |-> "a"]
UserRows     == [id : Ids, tenant : {"t1"}, name : {"n1", "n2"}, data : {"a"}]
KeyRows      == [id : Ids, tenant : {"t1"}, hash : {"h1", "h2"},
                 status : {"active"}, data : {"a"}]
ProviderRows == [id : Ids, tenant : {"t1"}, enabled : BOOLEAN]
MappingRows  == [id : Ids, tenant : {"t1"}, subject : {"s1", "s2"},
                 user : {1}, login : {0}]
SecretRows   == [user : Ids, data : Data]
TokenRows    == [id : Ids, tenant : {"t1"}, hash : {"h1"}]
GroupRows    == [id : Ids, tenant : {"t1"}, name : {"n1"}]
TemplateRows == [id : Ids, tenant : {"t1"}, name : {"n1", "n2"}, data : {"a"}]
RuleRows     == [tenant : {"t1"}, version : 1..3, active : {TRUE}]
EventRows    == [id : Ids, rollout : {1}, at : {0}]
ActiveRollout == {"PENDING", "PROGRESSING", "PAUSED"}
RolloutRows  == [id : Ids, target : {"v1", "v2"},
                 status : {"PROGRESSING", "COMPLETED"}]
ProposalRows == [id : Ids, source : {"x"}, state : {"pending", "approved"}]

(***************************************************************************)
(* Shapes of a call.                                                       *)
(***************************************************************************)
Where(tb, col, v) == {r \in db[tb] : r[col] = v}

\* Two rows that agree on every column of u.
SameOn(r, s, u) == \A c \in u : r[c] = s[c]

Returns(call, arg, res) ==
  /\ last' = <<call, arg, res>>
  /\ UNCHANGED <<up, now, focus>>

\* A call that only reads.
Ask(call, arg, res) == UNCHANGED db /\ Returns(call, arg, res)

\* A call that rewrites one table when `ok', and returns `res'.
Put(call, arg, ok, tb, rows, res) ==
  /\ db' = IF ok THEN [db EXCEPT ![tb] = rows] ELSE db
  /\ Returns(call, arg, res)

\* The reads of the SQL backends: empty when there is no database.
Find(call, arg, S) == Ask(call, arg, IF up THEN S ELSE {})
List(call, arg, s) == Ask(call, arg, IF up THEN s ELSE <<>>)
Number(call, arg, n) == Ask(call, arg, IF up THEN n ELSE 0)

OfTenant(tb, t) == IF t = "" THEN db[tb] ELSE Where(tb, "tenant", t)

NextSeq(tb) == 1 + Max({0} \cup {r.seq : r \in db[tb]})

\* The row r with the columns `cols' taken from s.
Patched(r, s, cols) == [c \in DOMAIN r |-> IF c \in cols THEN s[c] ELSE r[c]]

\* The first `limit' rows of S, the largest value of `col' first.
Newest(S, col, limit) ==
  LET all == SetToSortSeq(S, LAMBDA r, s : r[col] > s[col])
  IN  SubSeq(all, 1, IF Len(all) < limit THEN Len(all) ELSE limit)

\* The rows of S, the smallest value of `col' first.
Oldest(S, col) == SetToSortSeq(S, LAMBDA r, s : r[col] < s[col])

TotalCost(S) == MapThenSumSet(LAMBDA r : r.cost, S)

InPeriod(S, from, to) == {r \in S : from <= r.ts /\ r.ts <= to}

\* Rows whose columns the caller fills in at the time of the call.
LogRow(tb, t, c) ==
  [seq |-> NextSeq(tb), tenant |-> t, cost |-> c, ts |-> now]

SessionRow(i, u) ==
  [id |-> i, user |-> u, mfa |-> FALSE, active |-> now, expires |-> now + 1]

ProposalRow(p) == p @@ [at |-> now]

\* Bounds and arguments of the calls.
Room(tb) == NextSeq(tb) <= MaxLog
Filters == {"", "t1"}
Times == {1, 3}

\* A rule set is inserted with the version after the latest one the caller
\* read, which another caller may have inserted meanwhile.
NextOrOlder(r) == r.version <= 1 + Cardinality(Where("rule_sets", "tenant", r.tenant))

\* The id of a stage event is a new ULID.
Fresh(e) == Where("rollout_stage_events", "id", e.id) = {}

\* One MFA failure at `now': a failure outside the window starts a new
\* count, the max-th inside it (the second here) locks until the window ends.
MaxFailures == 2

AfterFailure(u, rows) ==
  LET old   == {r \in rows : r.user = u /\ now - r.first <= Window}
      was   == {r \in rows : r.user = u}
      count == 1 + MapThenSumSet(LAMBDA r : r.count, old)
      first == IF old = {} THEN now ELSE (CHOOSE r \in old : TRUE).first
      until == IF count >= MaxFailures THEN now + Window
               ELSE MapThenSumSet(LAMBDA r : r.until, was)
  IN  [user |-> u, count |-> count, first |-> first, until |-> until]

\* The groups of tables whose calls read the clock.
TimedGroups == {"audits", "costs", "savings", "mappings", "sessions", "mfa",
                "proposals"}

\* Bound on the failures counted for one user.
MayFail(u) == \A r \in Where("mfa_failures", "user", u) : r.count <= MaxFailures

Tick ==
  /\ now < IF focus = "sessions" THEN MaxTime ELSE MaxTime - 1
  /\ focus \in TimedGroups
  /\ now' = now + 1
  /\ UNCHANGED <<db, last, up, focus>>

StoreInit ==
  /\ db = [t \in Tables |-> {}]
  /\ last = <<"none">>
  /\ up = TRUE
  /\ now = 1
  /\ focus \in Groups
=============================================================================

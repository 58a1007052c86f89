------------------------------ MODULE MCStores ------------------------------
(***************************************************************************)
(* The three PersistentStore backends under one set of callers: Init picks *)
(* a backend, whose calls are then made in any order.  What the callers    *)
(* count on is what SqliteStore does, so the other two are compared with   *)
(* it step by step.  In a fourth kind of behaviour several threads make    *)
(* the multi-statement calls of the PostgreSQL store over its pool.        *)
(***************************************************************************)
EXTENDS StoreTables, PgClients

CONSTANT Cap

VARIABLES backend, pointer

clientVars == <<poolVars, pgVars>>
allVars    == <<storeVars, backend, pointer, clientVars>>

Sqlite == INSTANCE SqliteStore
         WITH db <- db, last <- last, up <- up, now <- now, focus <- focus
Pg     == INSTANCE PgStore
Memory == INSTANCE MemoryStore

Init ==
  /\ StoreInit /\ PgInit
  /\ pointer = 0
  /\ \/ backend \in {"memory", "sqlite", "pg"} /\ table = "config_versions"
     \/ backend = "clients" /\ focus = "configs"

Next ==
  \/ backend = "sqlite" /\ Sqlite!Next /\ UNCHANGED <<backend, pointer, clientVars>>
  \/ backend = "pg" /\ Pg!Next /\ UNCHANGED <<backend, pointer, clientVars>>
  \/ backend = "memory" /\ Memory!Next /\ UNCHANGED <<backend, clientVars>>
  \/ backend = "clients" /\ PgNext /\ UNCHANGED <<storeVars, backend, pointer>>

\* A thread inside a call keeps running it.
Fairness ==
  \A c \in Clients :
    WF_allVars(/\ backend = "clients" /\ Progress(c)
               /\ UNCHANGED <<storeVars, backend, pointer>>)

Spec == Init /\ [][Next]_allVars /\ Fairness

(***************************************************************************)
(* Where the backends are known to differ.                                 *)
(***************************************************************************)
\* PostgreSQL enforces the foreign keys, cascades to group members, and
\* compares a session's expiry with the current day as text.
PgDiffers ==
  /\ backend = "pg"
  /\ \/ /\ last'[1] \in {"insertSsoProvider", "insertIdentityMapping",
                         "insertScimToken", "deleteTenant", "deleteUser"}
        /\ ~last'[3] /\ UNCHANGED db
     \/ /\ last'[1] = "deleteScimGroup"
        /\ \A t \in Tables \ {"scim_groups", "scim_group_members"} :
             db'[t] = db[t]
     \/ /\ last'[1] = "deleteExpiredSessions"
        /\ {r \in db.sessions : r.expires >= now} \subseteq db'.sessions

\* The memory store still answers after close(), has no MFA secrets, checks
\* only ids where SQLite has a second unique key, overwrites whole rows,
\* evicts, and differs in what a failing rule-set call leaves behind.
MemoryDiffers ==
  /\ backend = "memory"
  /\ \/ ~up \/ ~up'
     \/ last'[1] \in {"upsertMfaSecret", "getMfaSecret", "deleteMfaSecret",
                      "deleteScimGroup", "clearMfaFailures"}
     \/ /\ last'[1] \in {"insertIdentityMapping", "updateUser", "updateApiKey"}
        /\ last'[3]
     \/ /\ last'[1] \in {"insertAudit", "insertCostRecord",
                         "insertSavingsEvent"}
        /\ \E t \in LogTables : Cardinality(db[t]) = Cap
     \/ /\ last'[1] \in {"insertRuleSet", "activateRuleSetVersion"}
        /\ ~last'[3]
     \/ /\ last'[1] \in {"listConfigVersions", "listRollouts"}
        /\ last'[2][2] # 0 /\ last'[3] = <<>>
     \/ /\ last'[1] \in {"getActiveConfig", "activateConfig"}
        /\ \A r \in db.config_versions : r.id = pointer => r.status # "ACTIVE"

(***************************************************************************)
(* Properties.                                                             *)
(***************************************************************************)
\* Refinement (memory_persistent_store.cpp and pg_persistent_store.cpp
\* claim to mirror SQLite): every call of either backend changes the tables
\* and answers as the SQLite backend would, outside the listed differences.
MirrorsSqlite ==
  [][\/ backend = "sqlite"
     \/ PgDiffers \/ MemoryDiffers
     \/ Sqlite!Next]_storeVars
=============================================================================

---------------------------- MODULE ConfigStore ----------------------------
(***************************************************************************)
(* The config_versions table of the control plane, as the persistent store *)
(* backends keep it, and the status machine every caller consults.  One    *)
(* store call is one atomic step: the in-memory and SQLite backends hold   *)
(* their mutex for the whole call, PostgreSQL uses a transaction guarded   *)
(* by a partial unique index on ACTIVE.                                    *)
(***************************************************************************)
CONSTANTS
  Versions,       \* ULIDs a submit may allocate
  NoVersion,      \* the empty version_id
  MemoryBackend   \* TRUE: MemoryPersistentStore, FALSE: SQLite / PostgreSQL

ASSUME StoreAssumption ==
  /\ NoVersion \notin Versions
  /\ MemoryBackend \in BOOLEAN

VARIABLES
  status,         \* status[v]: ConfigStatus of v, "ABSENT" before the insert
  activeId        \* active_config_version_id_ of the in-memory backend

storeVars == <<status, activeId>>

ConfigStatuses ==
  {"ABSENT", "PENDING", "APPROVED", "REJECTED", "ACTIVE", "SUPERSEDED"}

\* The statuses a submit's duplicate check looks at.
LiveStatuses == {"PENDING", "APPROVED", "ACTIVE"}

StoreTypeOK ==
  /\ status \in [Versions -> ConfigStatuses]
  /\ activeId \in Versions \cup {NoVersion}

StoreInit ==
  /\ status = [v \in Versions |-> "ABSENT"]
  /\ activeId = NoVersion

(***************************************************************************)
(* StateMachine::next, as the relation its table spells out.               *)
(***************************************************************************)
\* A bug: a rejected version can be approved after all.
TransitionsReopen ==
  { <<"PENDING",    "APPROVE",     "APPROVED">>,
    <<"REJECTED",   "APPROVE",     "APPROVED">>,
    <<"PENDING",    "REJECT",      "REJECTED">>,
    <<"APPROVED",   "ACTIVATE",    "ACTIVE">>,
    <<"APPROVED",   "REJECT",      "REJECTED">>,
    <<"ACTIVE",     "ROLLBACK_TO", "ACTIVE">>,
    <<"SUPERSEDED", "ROLLBACK_TO", "ACTIVE">> }

Transitions ==
  { <<"PENDING",    "APPROVE",     "APPROVED">>,
    <<"PENDING",    "REJECT",      "REJECTED">>,
    <<"APPROVED",   "ACTIVATE",    "ACTIVE">>,
    <<"APPROVED",   "REJECT",      "REJECTED">>,
    <<"ACTIVE",     "ROLLBACK_TO", "ACTIVE">>,
    <<"SUPERSEDED", "ROLLBACK_TO", "ACTIVE">> }

CanMove(from, action, to) == <<from, action, to>> \in Transitions

(***************************************************************************)
(* The store calls.                                                        *)
(***************************************************************************)
ActiveRows == {v \in Versions : status[v] = "ACTIVE"}

\* getActiveConfig: the in-memory backend follows its pointer whatever the
\* status of that row is, the SQL backends select the ACTIVE row.
GetActive ==
  IF MemoryBackend THEN activeId
  ELSE IF ActiveRows = {} THEN NoVersion
  ELSE CHOOSE v \in ActiveRows : TRUE

\* insertConfigVersion of a fresh PENDING row.
InsertVersion(v) ==
  /\ status[v] = "ABSENT"
  /\ status' = [status EXCEPT ![v] = "PENDING"]
  /\ UNCHANGED activeId

\* updateConfigStatus: overwrites the status without looking at it.
UpdateStatus(v, new) ==
  /\ status[v] # "ABSENT"
  /\ status' = [status EXCEPT ![v] = new]
  /\ UNCHANGED activeId

\* A bug: the previously active row keeps its status.
NothingDemoted(v) == {}

\* The rows activateConfig demotes: the pointed one in memory, whatever its
\* status is, every ACTIVE one in SQL.
Demoted(v) ==
  (IF MemoryBackend THEN {activeId} \cap Versions ELSE ActiveRows) \ {v}

\* activateConfig's precondition (an ACTIVE row is a successful no-op).
Activatable(v) ==
  \/ status[v] \in {"APPROVED", "SUPERSEDED"}
  \/ status[v] = "ACTIVE" /\ (MemoryBackend => activeId = v)

\* activateConfig, when it returns true.
ActivateConfig(v) ==
  /\ Activatable(v)
  /\ IF status[v] = "ACTIVE"
     THEN UNCHANGED storeVars
     ELSE /\ status' = [w \in Versions |->
                          IF w = v THEN "ACTIVE"
                          ELSE IF w \in Demoted(v) THEN "SUPERSEDED"
                          ELSE status[w]]
          /\ activeId' = IF MemoryBackend THEN v ELSE activeId

\* A process restart: only the SQL backends keep the table.
RestartStore ==
  IF MemoryBackend
  THEN /\ status' = [v \in Versions |-> "ABSENT"]
       /\ activeId' = NoVersion
  ELSE UNCHANGED storeVars
=============================================================================

SPECIFICATION Spec
CONSTANTS
  HttpThreads = {"h1"}
  Files <- MCFiles
  Settings <- MCSettings
  Callers = {t1, t2}
  RunIds = {r1}
  Workflows <- MCWorkflows
  Deployments <- MCDeployments
  MaxCrashes = 1
  MaxResumes = 2
CHECK_DEADLOCK FALSE
INVARIANTS
  TerminalAgreement
  KeysSettled
  SucceededMeansDone
PROPERTIES
  ExecutionEnds
  BreakerRecovers

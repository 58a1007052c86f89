SPECIFICATION ServiceSpec
CONSTANTS
  Versions = {v1, v2, v3}
  NoVersion = NoVersion
  MemoryBackend = FALSE
  Users = {alice, bob}
  BootstrapActor = BootstrapActor
  NoUser = NoUser
  Contents = {c1, c2}
  NoContent = NoContent
  Threads = {t1, t2}
SYMMETRY Symm
INVARIANTS
  AtMostOneActive
  DualApproval
PROPERTIES
  SerialLifecycle

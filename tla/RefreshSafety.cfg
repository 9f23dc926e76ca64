SPECIFICATION Spec
CONSTANTS
  Source = {s1, s2}
  Worker = {w1, w2}
  Job = {j1, j2, j3}
  NoSource = NoSource
  NoJob = NoJob
  Triggers = {"manual", "manual-profile"}
  Faults = {"crash", "disconnect", "panic"}
SYMMETRY Symmetry
INVARIANTS TypeOK OneRunningRow RegistryExact
PROPERTIES OnlyAbortedHandlerFailsWork SuccessMeansCached
CHECK_DEADLOCK FALSE

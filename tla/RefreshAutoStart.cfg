SPECIFICATION FairSpec
CONSTANTS
  Source = {s1}
  Worker = {w1, w2}
  Job = {j1}
  NoSource = NoSource
  NoJob = NoJob
  Triggers = {"manual"}
  Faults = {"crash"}
PROPERTIES AutoRefreshOnStart
CHECK_DEADLOCK FALSE

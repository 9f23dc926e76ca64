SPECIFICATION FairSpec
CONSTANTS
  Source = {s1}
  Worker = {w1, w2}
  Job = {j1, j2, j3}
  NoSource = NoSource
  NoJob = NoJob
  Triggers = {"manual", "manual-profile"}
  Faults = {"storage", "crash", "disconnect", "panic"}
INVARIANTS NothingForDeletedSource
PROPERTIES VerdictsStand NoZombieRow EveryRowFinishes GuardReleased
CHECK_DEADLOCK FALSE

SPECIFICATION FairSpec
CONSTANTS
  Profile = {p1, p2}
  Source = {s1}
  Reader = {r1}
  Writer = {w1, w2}
  NoProfile = NoProfile
  NoSource = NoSource
  NoEntry = NoEntry
  Ttl = 0
  MaxVersion = 1
INVARIANTS StaleIsExplained
PROPERTIES EventuallyFresh
CHECK_DEADLOCK FALSE

SPECIFICATION Spec
CONSTANTS
  Peer = {p1, p2, p3}
  Worker = {w1, w2}
  NoPeer = NoPeer
  MANAGEMENT_RATE_LIMIT_PER_SECOND = 2
  SUBSCRIPTION_RATE_LIMIT_PER_SECOND = 1
  Window = 2
  AUTH_FAILURE_THRESHOLD = 1
  Cooldown = 2
  Stale = 2
  CleanupInterval = 2
  MAX_TRACKED_KEYS = 2
  Traffics <- MCTraffics
  Configured = FALSE
  MaxTime = 2
  MaxRequests = 4
  MaxRotations = 3
SYMMETRY MCSymmetry
INVARIANTS
  RateBounded
  GuessesBounded
  TokenSurvives
PROPERTIES
  RefusedForCause
CHECK_DEADLOCK FALSE

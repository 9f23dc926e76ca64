SPECIFICATION Spec
CONSTANTS
  Profile = {p1, p2}
  Token = {tc, t1, t2, t3}
  Request = {r1, r2}
  NoProfile = NoProfile
  NoToken = NoToken
  Configurations = {tc}
  tc = tc
  Never = Never
  Grace = 4
  MaxTime = 7
SYMMETRY Symmetry
PROPERTIES ConfiguredTokenActive
CHECK_DEADLOCK FALSE

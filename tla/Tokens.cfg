SPECIFICATION FairSpec
CONSTANTS
  Profile = {p1, p2, p3}
  Token = {tc, t1, t2, t3}
  Request = {r1, r2}
  NoProfile = NoProfile
  NoToken = NoToken
  Configurations = {NoToken, tc}
  tc = tc
  Never = Never
  Grace = 4
  MaxTime = 7
INVARIANTS TypeOK OnePrimary GraceExact
PROPERTIES TokenNeverMoves StartsAgain
CHECK_DEADLOCK FALSE

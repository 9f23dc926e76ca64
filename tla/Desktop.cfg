SPECIFICATION FairSpec
CONSTANTS
  Proc = {c1, c2}
  Task = {t1, t2}
  Mount = {m1}
  LiveMount = m1
  Closer = {tray}
  NoProc = NoProc
  NoTask = NoTask
  NoToken = NoToken
  MaxUpsets = 1
  MaxInbox = 2
INVARIANTS NoOrphan TokenHasOwner
PROPERTIES WindowNotices StreamReturns
CHECK_DEADLOCK FALSE

CONSTANTS
  Threads = {t1, t2, t3}
  BufferSize = 0
  BufArgs = {0, 2, 3}
  MaxMake = 2
  IDLimit = 1
SPECIFICATION FairSpec
INVARIANT TypeOK
INVARIANT PanicNeedsEnd
INVARIANT HandlesReleased
INVARIANT BlockedIsReachable
PROPERTY CloseWakes
CHECK_DEADLOCK FALSE

CONSTANTS
  MaxInt = 99
  Lists <- MCLists
  Requests <- MCRequests
SPECIFICATION ClientSpec
INVARIANT ClientTypeOK
INVARIANT MaxIsHighest
INVARIANT CacheIsRight
CHECK_DEADLOCK FALSE

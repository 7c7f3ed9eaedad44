CONSTANTS
  Unreadable <- MCUnreadable
  Sources <- MCSources
  Foreign <- MCForeign
  Tables <- MCTables
  MaxRenderings = 1
SPECIFICATION Spec
INVARIANT LoadedIsSource
INVARIANT RoundTrip
INVARIANT GateReports
INVARIANT InstancesAreTyped
CHECK_DEADLOCK FALSE

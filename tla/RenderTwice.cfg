CONSTANTS
  Unreadable <- MCUnreadable
  Sources <- MCGenericSources
  Foreign = {}
  Tables <- MCTables
  MaxRenderings = 2
SPECIFICATION Spec
INVARIANT RenderDeterministic
CHECK_DEADLOCK FALSE

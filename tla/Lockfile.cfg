CONSTANTS
  Modules = {1, 2}
  Versions = {1, 2}
  Digests = {"", "a"}
  CapLists <- MCCapLists
  NewPackages <- MCNewPackages
  MaxEdits = 5
SPECIFICATION Spec
INVARIANT TypeOK
INVARIANT CleanIffLocked
INVARIANT RoundTrip
CHECK_DEADLOCK FALSE

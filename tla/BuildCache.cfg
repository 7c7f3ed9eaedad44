CONSTANTS
  Drivers = {d1, d2}
  Modules <- MCModules
  ByName <- MCByName
  Sources = {s1}
  Envs = {e1}
  Missing = Missing
  Partial = Partial
  Mixed = Mixed
  Crashed = Crashed
SPECIFICATION Spec
INVARIANT TypeOK
INVARIANT ManifestLast
INVARIANT HitIsWhole
SYMMETRY MCSymmetry
CHECK_DEADLOCK FALSE

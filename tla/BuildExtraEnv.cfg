CONSTANTS
  Drivers = {d1, d2}
  Modules <- MCModules
  ByName <- MCByName
  Sources = {s1}
  Envs = {e1, e2}
  Missing = Missing
  Partial = Partial
  Mixed = Mixed
  Crashed = Crashed
SPECIFICATION Spec
INVARIANT ExtraEnvApplies
SYMMETRY MCSymmetry
CHECK_DEADLOCK FALSE

CONSTANTS
  Procs = {q1, q2}
  b1 = b1
  b2 = b2
  bad = bad
  Zips <- MCZips
  Texts = {text}
  BadZips <- MCBadZips
  Missing = Missing
SPECIFICATION Spec
INVARIANT TypeOK
INVARIANT DigestAfterZip
INVARIANT SettledPairAgrees
PROPERTY ImplementsRegister
SYMMETRY MCSymmetry
CHECK_DEADLOCK FALSE

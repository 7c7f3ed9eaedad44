CONSTANTS
  Publishers = {p1, p2}
  Roots = {r1, r2}
  Releases <- MCReleases
  Torn = Torn
  MaxCalls = 3
  None = None
SPECIFICATION MCSpec
INVARIANT TypeOK
INVARIANT OneOwner
INVARIANT TagOnBranch
INVARIANT ResultIsRemote
INVARIANT SigMatchesTag
SYMMETRY MCSymmetry
CHECK_DEADLOCK FALSE

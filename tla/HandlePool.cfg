CONSTANTS
  Goroutines = {g1, g2}
  p1 = p1
  p2 = p2
  Pools <- MCPools
  Values = {v1, v2}
  Nil = Nil
  MaxArg <- MCMaxArg
  DefaultMaxHandles = 1
  IDLimit <- MCIDLimit
SPECIFICATION FairSpec
INVARIANT TypeOK
INVARIANT HandlesOwned
INVARIANT ResolveFaithful
INVARIANT PanicOnlyAfterRelease
PROPERTY RefusedOnlyWhenFull
PROPERTY ImplementsSpec
PROPERTY EveryCallReturns
CHECK_DEADLOCK FALSE

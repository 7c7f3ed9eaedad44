CONSTANTS
  Types <- MCTypes
  Surfaces <- MCSurfaces
  MaxDepth = 8
SPECIFICATION Spec
INVARIANT TypeOK
INVARIANT MapIsMeaning
INVARIANT Accounted
CHECK_DEADLOCK FALSE

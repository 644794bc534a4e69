CONSTANTS
  Pairs <- FastPathPairs
  HashBits = 16
SPECIFICATION Spec
INVARIANT
  AutoMappingIsAlphaEquivalence
CHECK_DEADLOCK FALSE

CONSTANTS
  Pairs <- MCPairs
  HashBits = 16
SPECIFICATION Spec
INVARIANTS
  AutoMappingIsAlphaEquivalence
  HashAgreesWithEqual
  RoundTripPreservesSharing
CHECK_DEADLOCK FALSE

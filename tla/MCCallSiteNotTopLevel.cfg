CONSTANTS
  Conversion <- MCConversion
  TensorOps <- MCTensorOps
  Programs <- UnreachedCallPrograms
INIT Init
NEXT Next
INVARIANT CallSitesMatch
CHECK_DEADLOCK FALSE

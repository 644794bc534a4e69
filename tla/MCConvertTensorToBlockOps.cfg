CONSTANTS
  Conversion <- MCConversion
  TensorOps <- MCTensorOps
  Programs <- MCPrograms
SPECIFICATION Spec
INVARIANTS
  NoInternalCheckFailure
  IncoreBlockOpsHolds
  CallSitesMatch
  SemanticsPreserved
  OutputWellTyped
CHECK_DEADLOCK FALSE

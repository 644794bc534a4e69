CONSTANTS
  Conversion <- MCConversion
  TensorOps <- MCTensorOps
  Programs <- NameCollisionPrograms
INIT Init
NEXT Next
INVARIANT SemanticsPreserved
CHECK_DEADLOCK FALSE

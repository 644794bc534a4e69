CONSTANTS
  Conversion <- MCConversion
  TensorOps <- MCTensorOps
  Programs <- EvalTensorOpPrograms
INIT Init
NEXT Next
INVARIANT IncoreBlockOpsHolds
CHECK_DEADLOCK FALSE

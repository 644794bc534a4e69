CONSTANTS
  Conversion <- MCConversion
  TensorOps <- MCTensorOps
  Programs <- ScalarBinaryPrograms
INIT Init
NEXT Next
INVARIANT NoInternalCheckFailure
CHECK_DEADLOCK FALSE

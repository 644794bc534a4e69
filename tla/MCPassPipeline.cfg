CONSTANTS
  Conversion <- MCConversion
  TensorOps <- MCTensorOps
  DefaultFunctionType = "Opaque"
  Properties <- VerifiedProperties
  PassNames = {"Identity", "ConvertTensorToBlockOps"}
  Contract <- MCContract
  Apply <- RunPass
  Verified <- VerifierOk
  Inputs <- MCInputs
  MaxPasses = 3
SPECIFICATION Spec
PROPERTY ImplementsRunPasses
CHECK_DEADLOCK FALSE

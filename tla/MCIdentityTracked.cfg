CONSTANTS
  Conversion <- MCConversion
  TensorOps <- MCTensorOps
  DefaultFunctionType = "Opaque"
  Properties <- VerifiedProperties
  PassNames = {"Identity"}
  Contract <- MCContract
  Apply <- RunPass
  Verified <- VerifierOk
  Inputs <- FlatInputs
  MaxPasses = 3
SPECIFICATION Spec
INVARIANT TrackedSound
CHECK_DEADLOCK FALSE

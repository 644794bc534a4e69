CONSTANTS
  TensorOps <- RegTensorOps
  DefaultFunctionType = "Opaque"
  Properties <- RegProperties
  PassNames = {"ConvertTensorToBlockOps"}
  Contract <- RegContract
  Inputs <- RegInputs
  MaxPasses = 3
  Writes <- RegWrites
SPECIFICATION LateSpec
INVARIANT RegistryTrackedSound
CHECK_DEADLOCK FALSE

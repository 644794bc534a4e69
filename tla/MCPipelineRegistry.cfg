CONSTANTS
  TensorOps <- RegTensorOps
  DefaultFunctionType = "Opaque"
  Properties <- RegProperties
  PassNames = {"ConvertTensorToBlockOps"}
  Contract <- RegContract
  Inputs <- RegInputs
  MaxPasses = 3
  Writes <- RegWrites
SPECIFICATION Spec
INVARIANT RegistryTrackedSound
CHECK_DEADLOCK FALSE

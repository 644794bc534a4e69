------------------------- MODULE MCPipelineRegistry -------------------------
(***************************************************************************)
(* PipelineRegistry with the programs of MCPassPipeline, a pipeline of up  *)
(* to three ConvertTensorToBlockOps passes, and two startup registrations: *)
(* a conversion for tensor.matmul, which the defaults leave unconverted,   *)
(* and an override of tensor.add.                                          *)
(***************************************************************************)
EXTENDS PipelineRegistry, MCPipelinePrograms

(* The TensorOps of the OpRegistry: every default rule's op and matmul.   *)
RegTensorOps == DOMAIN Registry!Defaults \cup {"tensor.matmul"}
RegProperties == PassesUnder([o \in {} |-> "none"])!VerifiedProperties
RegContract(p) == PassesUnder([o \in {} |-> "none"])!PassPropertyTable[p]
RegInputs == SplitInputs \cup {<<MatmulKernel>>}
RegWrites == {<<"tensor.matmul", "block.matmul">>, <<"tensor.add", "block.adds">>}
=============================================================================

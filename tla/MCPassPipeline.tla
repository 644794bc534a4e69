--------------------------- MODULE MCPassPipeline ---------------------------
(***************************************************************************)
(* A PassPipeline of the Identity and ConvertTensorToBlockOps passes, on   *)
(* small programs of InCore kernels and an Orchestration `main'.           *)
(*                                                                         *)
(***************************************************************************)
EXTENDS Passes, PassPipeline, MCPipelinePrograms

MCConversion == ("tensor.add" :> "block.add") @@ ("tensor.mul" :> "block.mul")
MCTensorOps  == {"tensor.add", "tensor.mul", "tensor.matmul"}

ASSUME DOMAIN MCConversion \subseteq MCTensorOps

ASSUME \A P \in MCInputs : TypeCheckOk(P) /\ \A i \in DOMAIN P : FunctionInSSA(P[i])

MCContract(p) == PassPropertyTable[p]
=============================================================================

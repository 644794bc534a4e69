--------------------------- MODULE PipelineRegistry ---------------------------
(***************************************************************************)
(* A PassPipeline whose passes and verifiers read the process-wide         *)
(* OpConversionRegistry.  ConvertTensorToBlockOps looks a rule up when it  *)
(* converts a call (Lookup), and the IncoreBlockOps verifier asks          *)
(* HasConversion when it checks one; both read the registry as it is when *)
(* they run, not as it was when the pipeline was built.                    *)
(*                                                                         *)
(* The registry is written during startup only (static REGISTER_OP_       *)
(* CONVERSION initialisers and the caller's RegisterSimple/RegisterCustom *)
(* calls); then the pipeline is built and Run.                              *)
(***************************************************************************)

CONSTANTS
  TensorOps, DefaultFunctionType,
  Properties, PassNames, Contract(_), Inputs, MaxPasses,
  Writes          (* The <<from_op, to_op>> a startup call may register.  *)

VARIABLES
  conversions,    (* OpConversionRegistry::conversions_                   *)
  passes, mode, initial, input, current, state, next, status,
  startup         (* The registry is still being populated.               *)

pipelineVars == <<passes, mode, initial, input, current, state, next, status>>
vars == <<conversions, startup, pipelineVars>>

Registry == INSTANCE OpConversionRegistry

(* The passes and verifiers, with the registry's table for Conversion.    *)
PassesUnder(conv) == INSTANCE Passes WITH Conversion <- conv

(* The pipeline whose passes see the table pconv and whose verifiers see  *)
(* vconv; a step is taken by the one for the registry as it is now.        *)
Pipeline(pconv, vconv) ==
  INSTANCE PassPipeline
    WITH Apply    <- LAMBDA p, P : PassesUnder(pconv)!RunPass(p, P),
         Verified <- LAMBDA q, P : PassesUnder(vconv)!VerifierOk(q, P)

(* The registry as the pass and the verifier read it now.                 *)
PassView == Registry!LookupTable(TensorOps)
VerifierView == Registry!HasConversionTable(TensorOps)

Init ==
  /\ Registry!Init
  /\ startup = TRUE
  /\ \E pc \in {PassView}, vc \in {VerifierView} : Pipeline(pc, vc)!Init

(* A registration call made while the process starts up.                   *)
StartupWrite ==
  /\ startup
  /\ \E w \in Writes : \/ Registry!RegisterSimple(w[1], w[2])
                         \/ Registry!RegisterCustom(w[1], w[2])
  /\ UNCHANGED <<startup, pipelineVars>>

EndStartup ==
  /\ startup
  /\ startup' = FALSE
  /\ UNCHANGED <<conversions, pipelineVars>>

PipelineStep ==
  /\ ~startup
  /\ \E pc \in {PassView}, vc \in {VerifierView} : Pipeline(pc, vc)!Next
  /\ UNCHANGED <<conversions, startup>>

Next == StartupWrite \/ EndStartup \/ PipelineStep

Spec == Init /\ [][Next]_vars

(* RegisterSimple and RegisterCustom have no guard: a registration may     *)
(* also come after startup, between the pipeline's steps.                  *)
LateWrite ==
  /\ ~startup
  /\ \E w \in Writes : \/ Registry!RegisterSimple(w[1], w[2])
                         \/ Registry!RegisterCustom(w[1], w[2])
  /\ UNCHANGED <<startup, pipelineVars>>

LateSpec == Init /\ [][Next \/ LateWrite]_vars

----------------------------------------------------------------------------
(* Whatever rules were registered at startup, every property Run tracks   *)
(* holds on the program it has reached: the pass converts exactly the ops *)
(* the verifier of the property it produces looks for, because both read  *)
(* the same registry.                                                      *)
RegistryTrackedSound == \E pc \in {PassView}, vc \in {VerifierView} : Pipeline(pc, vc)!TrackedSound
=============================================================================

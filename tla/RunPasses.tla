----------------------------- MODULE RunPasses -----------------------------
(***************************************************************************)
(* PassManager.run_passes (docs/dev/08-pass_manager.md): the passes of a  *)
(* strategy applied in order, each to the previous one's result,          *)
(* Pass3(Pass2(Pass1(program))).  `checked' says whether the caller asked  *)
(* for property verification, which may make the call raise.              *)
(***************************************************************************)
EXTENDS SequencesExt

CONSTANTS
  PassNames,      (* The passes a strategy can list.                       *)
  Apply(_, _),    (* Apply(p, P) = [ok, out]: the pass p called on P.       *)
  Inputs,         (* The programs run_passes may be called on.             *)
  MaxPasses       (* Bound on the length of a strategy.                    *)

VARIABLES
  passes,   (* self.passes                                                 *)
  input,    (* The program run_passes is called on.                        *)
  status,   (* "config", then "running", then "done" or "raised".          *)
  result,   (* The returned program once "done", the input before.         *)
  checked   (* Verification asked for.                                     *)

vars == <<passes, input, status, result, checked>>

(* current = program; for each pass: current = pass(current).  A pass     *)
(* that raises ends the loop.                                              *)
RECURSIVE Compose(_, _)
Compose(ps, P) ==
  IF ps = << >> THEN [ok |-> TRUE, out |-> P]
  ELSE LET r == Apply(Head(ps), P) IN IF r.ok THEN Compose(Tail(ps), r.out) ELSE r

Init ==
  /\ passes = << >>
  /\ input \in Inputs
  /\ status = "config"
  /\ result = input
  /\ checked \in BOOLEAN

(* The strategy's list of passes, one registration at a time.             *)
AddPass(p) ==
  /\ status = "config"
  /\ Len(passes) < MaxPasses
  /\ passes' = Append(passes, p)
  /\ UNCHANGED <<input, status, result, checked>>

SetChecking(b) ==
  /\ status = "config"
  /\ checked' = b
  /\ UNCHANGED <<passes, input, status, result>>

Start ==
  /\ status = "config"
  /\ status' = "running"
  /\ UNCHANGED <<passes, input, result, checked>>

(* The call returns the composition, or raises: when a pass raises, or,   *)
(* with verification asked for, when a check fails.                        *)
Return ==
  /\ status = "running"
  /\ \E r \in {Compose(passes, input)} :
       \/ r.ok /\ status' = "done" /\ result' = r.out
       \/ (checked \/ ~r.ok) /\ status' = "raised" /\ UNCHANGED result
  /\ UNCHANGED <<passes, input, checked>>

Next ==
  \/ \E p \in PassNames : AddPass(p)
  \/ \E b \in BOOLEAN : SetChecking(b)
  \/ Start
  \/ Return

Spec == Init /\ [][Next]_vars
=============================================================================

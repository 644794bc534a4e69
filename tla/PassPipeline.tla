---------------------------- MODULE PassPipeline ----------------------------
(***************************************************************************)
(* PassPipeline (passes.h, class PassPipeline; Run per spec 4.8): an       *)
(* ordered list of passes, a VerificationMode and the initial properties,  *)
(* and Run, which applies the passes in order while it tracks the set of   *)
(* IR properties believed to hold.  Only the produced properties of a pass *)
(* (After) and its required ones (Before) are ever verified; every other   *)
(* property in the tracked set is carried over on the pass's word.         *)
(*                                                                         *)
(* One step of Run is one iteration of its loop over the passes.  The      *)
(* pipeline is configured first (AddPass, SetVerificationMode,             *)
(* SetInitialProperties), then Run is called once.                         *)
(***************************************************************************)
EXTENDS Naturals, Sequences

CONSTANTS
  Properties,     (* The IRProperty values a verifier can check.           *)
  PassNames,      (* The passes that can be added.                         *)
  Contract(_),    (* Contract(p) = [required, produced, invalidated].      *)
  Apply(_, _),    (* Apply(p, P) = [ok, out]: the pass p called on P.       *)
  Verified(_, _), (* Verified(q, P): q's verifier reports no Error on P.   *)
  Inputs,         (* The programs Run may be called on.                    *)
  MaxPasses       (* Bound on the number of passes added.                  *)

ASSUME \A p \in PassNames : Contract(p).produced \subseteq Properties

VerificationModes == {"None", "Before", "After", "BeforeAndAfter"}

VARIABLES
  passes,   (* passes_                                                     *)
  mode,     (* verification_mode_                                          *)
  initial,  (* initial_properties_                                         *)
  input,    (* The program Run is called on.                               *)
  current,  (* Run's `current'.                                            *)
  state,    (* Run's tracked property set.                                 *)
  next,     (* Index of the pass Run applies next.                         *)
  status    (* "config", then "running", then "done" or "raised".          *)

vars == <<passes, mode, initial, input, current, state, next, status>>

(* The caller declares only properties that hold on the input.            *)
HoldsOnInput == {q \in Properties : Verified(q, input)}

(* The constructor is not in this repository; the class comment's usage   *)
(* runs with property tracking only, then enables verification with       *)
(* SetVerificationMode: a new pipeline verifies nothing.                   *)
Init ==
  /\ passes = << >>
  /\ mode = "None"
  /\ initial = {}
  /\ input \in Inputs
  /\ current = input
  /\ state = {}
  /\ next = 1
  /\ status = "config"

AddPass(p) ==
  /\ status = "config"
  /\ Len(passes) < MaxPasses
  /\ passes' = Append(passes, p)
  /\ UNCHANGED <<mode, initial, input, current, state, next, status>>

SetVerificationMode(m) ==
  /\ status = "config"
  /\ mode' = m
  /\ UNCHANGED <<passes, initial, input, current, state, next, status>>

SetInitialProperties(S) ==
  /\ status = "config"
  /\ initial' = S
  /\ UNCHANGED <<passes, mode, input, current, state, next, status>>

(* Run: state <- initial_properties; current <- program.                   *)
Run ==
  /\ status = "config"
  /\ status' = "running"
  /\ state' = initial
  /\ current' = input
  /\ next' = 1
  /\ UNCHANGED <<passes, mode, initial, input>>

----------------------------------------------------------------------------
(* One iteration of Run's loop for pass p = passes[next].  A step that    *)
(* calls the pass sees its return value r = p(current).                    *)

Pass == passes[next]
BeforeOk ==
  mode \in {"Before", "BeforeAndAfter"} =>
    \A q \in Contract(Pass).required : Verified(q, current)
AfterOk(r) ==
  mode \in {"After", "BeforeAndAfter"} =>
    \A q \in Contract(Pass).produced : Verified(q, r.out)
StepEnabled == status = "running" /\ next <= Len(passes)
NewState == (state \ Contract(Pass).invalidated) \cup Contract(Pass).produced

(* a. A required property's verifier reports an Error: Run raises.         *)
RequiredFails ==
  /\ StepEnabled /\ ~BeforeOk
  /\ status' = "raised"
  /\ UNCHANGED <<passes, mode, initial, input, current, state, next>>

(* b. The pass itself raises.                                              *)
PassRaises(r) ==
  /\ ~r.ok
  /\ status' = "raised"
  /\ UNCHANGED <<passes, mode, initial, input, current, state, next>>

(* b-d. The pass returns, the state is updated, and a produced property's *)
(* verifier reports an Error: Run raises.                                  *)
ProducedFails(r) ==
  /\ r.ok /\ ~AfterOk(r)
  /\ current' = r.out
  /\ state' = NewState
  /\ status' = "raised"
  /\ UNCHANGED <<passes, mode, initial, input, next>>

(* Mutant of PassDone: the result is checked and tagged but not kept, so  *)
(* every pass runs on the input.                                           *)
PassDoneKeepsCurrent(r) ==
  /\ r.ok /\ AfterOk(r)
  /\ state' = NewState
  /\ next' = next + 1
  /\ UNCHANGED <<passes, mode, initial, input, current, status>>

(* b-d. The pass returns and every check passes.                           *)
PassDone(r) ==
  /\ r.ok /\ AfterOk(r)
  /\ current' = r.out
  /\ state' = NewState
  /\ next' = next + 1
  /\ UNCHANGED <<passes, mode, initial, input, status>>

(* b. The required properties hold (or are not checked): call the pass.   *)
CallPass ==
  /\ StepEnabled /\ BeforeOk
  /\ \E r \in {Apply(Pass, current)} : PassRaises(r) \/ ProducedFails(r) \/ PassDone(r)

(* 3. Return current.                                                      *)
Return ==
  /\ status = "running"
  /\ next > Len(passes)
  /\ status' = "done"
  /\ UNCHANGED <<passes, mode, initial, input, current, state, next>>

RunStep == RequiredFails \/ CallPass \/ Return

Next ==
  \/ \E p \in PassNames : AddPass(p)
  \/ \E m \in VerificationModes : SetVerificationMode(m)
  \/ \E S \in SUBSET HoldsOnInput : SetInitialProperties(S)
  \/ Run
  \/ RunStep

Spec == Init /\ [][Next]_vars

----------------------------------------------------------------------------
(* Run seen as PassManager.run_passes with verification.                   *)

Abstract == INSTANCE RunPasses
              WITH result  <- IF status = "done" THEN current ELSE input,
                   checked <- mode # "None"

(* Every property Run tracks as holding does hold on the program it has   *)
(* reached: the tags a pass leaves in place (neither produced nor          *)
(* invalidated) are still true after it, so a later pass that relies on    *)
(* them, unverified in every mode but Before, gets what it requires.       *)
TrackedSound ==
  status \in {"running", "done"} => \A q \in state : Verified(q, current)

(* Whatever the mode, a Run that returns returns what run_passes returns:  *)
(* each pass applied to the previous pass's result; verification can only *)
(* make Run raise, and does so only when it is on.                         *)
ImplementsRunPasses == Abstract!Spec
=============================================================================

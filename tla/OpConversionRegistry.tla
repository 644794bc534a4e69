------------------------ MODULE OpConversionRegistry ------------------------
(***************************************************************************)
(* OpConversionRegistry (op_conversion_registry.cpp; declared at the end   *)
(* of passes.h): the process-wide map conversions_ from a tensor op name   *)
(* to its conversion rule.  A rule is what its ConversionFunc does: a      *)
(* simple rule calls OpRegistry::Create(to_op, args, [kwargs,] span); a    *)
(* custom rule is any ConversionFunc, here one that returns a single call  *)
(* of a block op (an empty prologue).  Kwargs and spans are left out.      *)
(***************************************************************************)
EXTENDS Sequences, TLC

VARIABLE conversions   (* conversions_                                     *)

SimpleRule(to) == [style |-> "simple", to |-> to]
CustomRule(f)  == [style |-> "custom", to |-> f]

(* conversions_[from_op] = rule: re-registering replaces the earlier rule. *)
Register(m, from, rule) == (from :> rule) @@ m

(* The constructor: the 13 default RegisterSimple calls, in order.         *)
DefaultPairs ==
  << <<"tensor.add", "block.add">>, <<"tensor.sub", "block.sub">>,
     <<"tensor.mul", "block.mul">>, <<"tensor.div", "block.div">>,
     <<"tensor.maximum", "block.maximum">>,
     <<"tensor.add_scalar", "block.adds">>, <<"tensor.sub_scalar", "block.subs">>,
     <<"tensor.mul_scalar", "block.muls">>, <<"tensor.div_scalar", "block.divs">>,
     <<"tensor.exp", "block.exp">>, <<"tensor.cast", "block.cast">>,
     <<"tensor.reshape", "block.reshape">>, <<"tensor.transpose", "block.transpose">> >>

RECURSIVE RegisterDefaults(_, _)
RegisterDefaults(m, ps) ==
  IF ps = << >> THEN m
  ELSE RegisterDefaults(Register(m, Head(ps)[1], SimpleRule(Head(ps)[2])), Tail(ps))

Defaults == RegisterDefaults([op \in {} |-> SimpleRule("none")], DefaultPairs)

(* GetInstance: the singleton is built on first use.                       *)
Init == conversions = Defaults

RegisterSimple(from_op, to_op) ==
  conversions' = Register(conversions, from_op, SimpleRule(to_op))

RegisterCustom(from_op, func) ==
  conversions' = Register(conversions, from_op, CustomRule(func))

(* Lookup returns the rule, or nullptr (NoRule) for an unregistered op.   *)
NoRule == [style |-> "none", to |-> "none"]
(* A pass that kept the table as it was when the singleton was built.     *)
LookupAtConstruction(op_name) ==
  IF op_name \in DOMAIN Defaults THEN Defaults[op_name] ELSE NoRule
Lookup(op_name) == IF op_name \in DOMAIN conversions THEN conversions[op_name] ELSE NoRule

HasConversion(op_name) == op_name \in DOMAIN conversions

(* What ConvertTensorToBlockOps sees of the ops: for each op Lookup finds *)
(* a rule for, the block op the rule creates.                               *)
LookupTable(ops) == [op \in {o \in ops : Lookup(o) /= NoRule} |-> Lookup(op).to]
(* What the IncoreBlockOps verifier sees: the ops HasConversion reports    *)
(* (the block op names only feed the TypeChecked verifier's OpRegistry).   *)
HasConversionTable(ops) ==
  [op \in {o \in ops : HasConversion(o)} |-> conversions[op].to]
=============================================================================

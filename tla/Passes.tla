------------------------------- MODULE Passes -------------------------------
(***************************************************************************)
(* The passes a PassPipeline runs, as functions on programs, with the      *)
(* property contracts they declare (pass_properties.h) and the property    *)
(* verifiers that check those properties against a program.               *)
(*                                                                         *)
(* A pass result is [ok |-> the call returned, out |-> the new program];   *)
(* ok = FALSE is a raise.                                                  *)
(***************************************************************************)
EXTENDS IR, SequencesExt

CONSTANTS
  Conversion,           (* As in ConvertTensorToBlockOps.                  *)
  TensorOps,
  DefaultFunctionType   (* func_type_ of a Function built without one.     *)

ASSUME DefaultFunctionType \in FunctionTypes

(* The ConvertTensorToBlockOps operators, without the loop state of its    *)
(* state machine.                                                          *)
CT == INSTANCE ConvertTensorToBlockOps
        WITH Programs <- {}, prog <- << >>, phase <- "done", idx <- 1,
             added <- EmptyMap, transformed <- EmptyMap, funcs1 <- << >>,
             funcs2 <- << >>, nextId <- 100, err <- "none"

----------------------------------------------------------------------------
(* IRProperty, and the PassProperties of every built-in pass.             *)

IRProperties ==
  {"TypeChecked", "SSAForm", "NoNestedCalls", "NormalizedStmtStructure",
   "FlattenedSingleStmt", "SplitIncoreOrch", "IncoreBlockOps", "HasMemRefs"}

PassProperties(req, prod, inv) == [required |-> req, produced |-> prod, invalidated |-> inv]

PassPropertyTable ==
  [ConvertToSSA            |-> PassProperties({"TypeChecked"}, {"SSAForm"},
                                               {"NormalizedStmtStructure", "FlattenedSingleStmt"}),
   FlattenCallExpr         |-> PassProperties({"TypeChecked"}, {"NoNestedCalls"},
                                               {"NormalizedStmtStructure", "FlattenedSingleStmt"}),
   NormalizeStmtStructure  |-> PassProperties({"TypeChecked"}, {"NormalizedStmtStructure"},
                                               {"FlattenedSingleStmt"}),
   FlattenSingleStmt       |-> PassProperties({"TypeChecked"}, {"FlattenedSingleStmt"},
                                               {"NormalizedStmtStructure"}),
   OutlineIncoreScopes     |-> PassProperties({"SSAForm"}, {"SplitIncoreOrch"}, {}),
   ConvertTensorToBlockOps |-> PassProperties({"SplitIncoreOrch"}, {"IncoreBlockOps"}, {}),
   InitMemRef              |-> PassProperties({"SSAForm"}, {"HasMemRefs"}, {}),
   BasicMemoryReuse        |-> PassProperties({"HasMemRefs"}, {}, {}),
   InsertSync              |-> PassProperties({"HasMemRefs"}, {}, {}),
   AddAlloc                |-> PassProperties({"HasMemRefs"}, {}, {}),
   Identity                |-> PassProperties({}, {}, {})]

----------------------------------------------------------------------------
(* The passes whose code is in this repository.                            *)

(* CreateFunctionPass: the transform, a function on the functions of P,   *)
(* applied to every function, in order.                                    *)
CreateFunctionPass(transform, P) == [ok |-> TRUE, out |-> [i \in DOMAIN P |-> transform[P[i]]]]

(* The Identity transform: a new Function named name_ + "_identity" built  *)
(* from the old one's params, return types and body, and no func_type.     *)
IdentityFunction(f) ==
  Func(f.name \o "_identity", f.params, f.rets, f.body, DefaultFunctionType)

(* A pointer no Var of P has, for the Vars ConvertTensorToBlockOps makes.  *)
VarIdsOf(P) ==
  UNION {{P[i].params[j].id : j \in DOMAIN P[i].params}
           \cup {v.id : v \in {st.var : st \in {st \in StmtsIn(P[i].body) : st.tag = "Assign"}}}
           \cup {e.id : e \in {e \in UNION {CT!SubExprs(x) : x \in UNION {StmtExprs(st) :
                                  st \in StmtsIn(P[i].body)}} : e.tag = "Var"}} :
         i \in DOMAIN P}
FreshId(P) == Max(VarIdsOf(P) \cup {99}) + 1

RunPass(p, P) ==
  CASE p = "Identity" -> CreateFunctionPass([f \in Range(P) |-> IdentityFunction(f)], P)
    [] p = "ConvertTensorToBlockOps" -> CT!ConvertProgram(P, FreshId(P))

----------------------------------------------------------------------------
(* The property verifiers, as "reports no Error on P".                     *)

(* The ops the OpRegistry knows.                                           *)
RegisteredOps == TensorOps \cup CT!BlockOps \cup {"block.load", "block.store", "tensor.create"}

(* TypeCheck: I2 (every call's op is a registered op or a function of P,  *)
(* called with matching arity and types), I3 and I4.                       *)
TypeCheckOk(P) ==
  \A i \in DOMAIN P :
    /\ FunctionWellTyped(P[i])
    /\ \A e \in UNION {CT!SubExprs(x) : x \in UNION {StmtExprs(st) : st \in StmtsIn(P[i].body)}} :
         e.tag = "Call" => \/ e.op \in RegisteredOps /\ e.op \notin FunctionNames(P)
                           \/ CallMatches(P, e)

(* SplitIncoreOrch: every InCore function has a flat body (spec 4.9).     *)
SplitIncoreOrchOk(P) ==
  \A i \in DOMAIN P : P[i].ftype = "InCore" => \A k \in DOMAIN P[i].body : P[i].body[k].tag # "If"

VerifierOk(q, P) ==
  CASE q = "TypeChecked"     -> TypeCheckOk(P)
    [] q = "SSAForm"         -> \A i \in DOMAIN P : FunctionInSSA(P[i])
    [] q = "SplitIncoreOrch" -> SplitIncoreOrchOk(P)
    [] q = "IncoreBlockOps"  -> CT!IncoreBlockOpsDiagnostics(P) = {}

(* The properties with a verifier here.                                    *)
VerifiedProperties == {"TypeChecked", "SSAForm", "SplitIncoreOrch", "IncoreBlockOps"}
=============================================================================

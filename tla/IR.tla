--------------------------------- MODULE IR ---------------------------------
(***************************************************************************)
(* The typed, flat IR the passes of PyPTO rewrite (spec section 3).        *)
(*                                                                         *)
(* A node is a record.  Var identity is by pointer in the code, so a Var   *)
(* carries an `id' (its pointer) beside its `name'; two Vars may share a   *)
(* name and still be distinct (invariant I5).  Shapes, dtypes, offsets,    *)
(* spans and kwargs are abstracted away: every tensor and tile of a model  *)
(* has the same shape, and no property tells two shapes apart.             *)
(*                                                                         *)
(* Function bodies are SeqStmts, kept as a sequence of statements; a body  *)
(* that is a single statement is the sequence of length one, which is how  *)
(* both pass helpers flatten it (FlattenBody).                             *)
(***************************************************************************)
EXTENDS Integers, Sequences, TLC

----------------------------------------------------------------------------
(* Types: ScalarType, TensorType, TileType and TupleType.                  *)

ScalarT == [k |-> "Scalar", elems |-> << >>]
TensorT == [k |-> "Tensor", elems |-> << >>]
TileT   == [k |-> "Tile",   elems |-> << >>]
TupleT(ts) == [k |-> "Tuple", elems |-> ts]

(* Expressions.  `op' of a Call is an op name, or a function name when the *)
(* callee is a GlobalVar.                                                  *)
VarE(id, name, ty) == [tag |-> "Var", id |-> id, name |-> name, ty |-> ty]
CallE(op, args, ty) == [tag |-> "Call", op |-> op, args |-> args, ty |-> ty]
ConstE == [tag |-> "Const", ty |-> ScalarT]
BinE(l, r) == [tag |-> "Bin", args |-> <<l, r>>, ty |-> ScalarT]

(* Statements.                                                             *)
AssignS(v, e) == [tag |-> "Assign", var |-> v, value |-> e]
EvalS(e) == [tag |-> "Eval", expr |-> e]
ReturnS(vs) == [tag |-> "Return", values |-> vs]
NoStmt == [tag |-> "None"]
(* IfStmt with its then-branch, a sequence of flat statements: the nested *)
(* control flow that SplitIncoreOrch removes from InCore functions only.   *)
IfS(c, body) == [tag |-> "If", cond |-> c, body |-> body]

(* Functions and programs.  A program is the sequence of its functions in *)
(* the order the program's function map iterates them.                     *)
FunctionTypes == {"Opaque", "Orchestration", "InCore"}
Func(name, params, rets, body, ftype) ==
  [name |-> name, params |-> params, rets |-> rets, body |-> body, ftype |-> ftype]

FunctionNames(P) == {P[i].name : i \in DOMAIN P}
FunctionNamed(P, n) == P[CHOOSE i \in DOMAIN P : P[i].name = n]
IsFunctionCall(P, e) == e.tag = "Call" /\ e.op \in FunctionNames(P)

(* A name-keyed map (std::unordered_map<std::string, VarPtr>) and its     *)
(* insertion, which overwrites an existing key.                            *)
EmptyMap == [n \in {} |-> NoStmt]
Put(m, k, v) == (k :> v) @@ m

(* The type of a call to a function returning rets: the single type, or  *)
(* a tuple of them.                                                        *)
CallResultType(rets) ==
  IF Len(rets) = 1 THEN rets[1] ELSE TupleT(rets)

----------------------------------------------------------------------------
(* The IR invariants of spec section 3.5 that a pass must preserve.        *)

(* Every Var read by e is one of the Vars in D (compared by pointer).     *)
RECURSIVE ReadsOnly(_, _)
ReadsOnly(e, D) ==
  CASE e.tag = "Var" -> e \in D
    [] e.tag \in {"Call", "Bin"} -> \A i \in DOMAIN e.args : ReadsOnly(e.args[i], D)
    [] OTHER -> TRUE

(* The Vars a function defines before its k-th statement.                 *)
DefinedBefore(f, k) ==
  {f.params[i] : i \in DOMAIN f.params}
    \cup {f.body[j].var : j \in {j \in 1 .. k - 1 : f.body[j].tag = "Assign"}}

(* The Vars a function defines, in definition order.                       *)
Definitions(f) ==
  LET assigns == SelectSeq(f.body, LAMBDA st : st.tag = "Assign") IN
  f.params \o [j \in DOMAIN assigns |-> assigns[j].var]

(* I3, I4 and the use-after-definition rule for one statement that sees   *)
(* the Vars D: every operand is in D, an assignment's Var has its value's  *)
(* type, the returned values have the declared return types rets, and a   *)
(* branch body sees D and what the branch defined before.                  *)
RECURSIVE StmtWellTyped(_, _, _)
StmtWellTyped(st, D, rets) ==
  CASE st.tag = "Assign" -> ReadsOnly(st.value, D) /\ st.var.ty = st.value.ty
    [] st.tag = "Eval"   -> ReadsOnly(st.expr, D)
    [] st.tag = "Return" -> /\ \A i \in DOMAIN st.values : ReadsOnly(st.values[i], D)
                            /\ [i \in DOMAIN st.values |-> st.values[i].ty] = rets
    [] st.tag = "If"     ->
         /\ ReadsOnly(st.cond, D)
         /\ \A j \in DOMAIN st.body :
              StmtWellTyped(st.body[j], D \cup {st.body[i].var : i \in {i \in 1 .. j - 1 :
                                                  st.body[i].tag = "Assign"}}, rets)
    [] OTHER -> TRUE
FunctionWellTyped(f) ==
  \A k \in DOMAIN f.body : StmtWellTyped(f.body[k], DefinedBefore(f, k), f.rets)

(* I6 by pointer: no Var is defined twice (as a parameter or by an        *)
(* assignment) in one function.                                            *)
FunctionInSSA(f) ==
  LET defs == Definitions(f) IN
  \A i, j \in DOMAIN defs : i # j => defs[i].id # defs[j].id

(* I2 for one call: the callee exists, is given one argument of the right *)
(* type per parameter, and the call has the type the callee returns.       *)
CallMatches(P, e) ==
  /\ e.op \in FunctionNames(P)
  /\ LET g == FunctionNamed(P, e.op) IN
     /\ [i \in DOMAIN e.args |-> e.args[i].ty] = [i \in DOMAIN g.params |-> g.params[i].ty]
     /\ e.ty = CallResultType(g.rets)

(* The statements of a body, those nested in a branch included, and the   *)
(* top-level expressions of a statement and of the statements it nests.    *)
RECURSIVE StmtsIn(_)
StmtsIn(body) ==
  UNION {{body[k]} \cup IF body[k].tag = "If" THEN StmtsIn(body[k].body) ELSE {} :
           k \in DOMAIN body}
RECURSIVE StmtExprs(_)
StmtExprs(st) ==
  CASE st.tag = "Assign" -> {st.value}
    [] st.tag = "Eval"   -> {st.expr}
    [] st.tag = "Return" -> {st.values[i] : i \in DOMAIN st.values}
    [] st.tag = "If"     -> {st.cond} \cup UNION {StmtExprs(s) : s \in StmtsIn(st.body)}
    [] OTHER -> {}
=============================================================================

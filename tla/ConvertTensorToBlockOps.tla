----------------------- MODULE ConvertTensorToBlockOps -----------------------
(***************************************************************************)
(* The ConvertTensorToBlockOps pass                                        *)
(* (src/ir/transforms/convert_tensor_to_block_ops_pass.cpp).               *)
(*                                                                         *)
(* Phase 1 rewrites every InCore function (TransformIncoreFunction): a     *)
(* block.load per tensor parameter, each convertible tensor op replaced by *)
(* its block op through the OpConversionRegistry, a new output parameter   *)
(* and a block.store per tile-typed return value.  Phase 2 rewrites every  *)
(* other function (UpdateCallSites): a tensor.create per added output in   *)
(* front of each call to a rewritten InCore function, and the call given   *)
(* those buffers as extra arguments.  Both helpers key their substitution  *)
(* maps by Var NAME.                                                       *)
(*                                                                         *)
(* One step of the state machine is one iteration of the pass's loop over *)
(* the program's functions; the per-statement loops inside the helpers are *)
(* folds.  An INTERNAL_CHECK failure or a failed OpRegistry::Create ends   *)
(* the pass in phase "aborted" with the reason in `err'.                   *)
(***************************************************************************)
EXTENDS IR, SequencesExt

CONSTANTS
  Conversion,   (* OpConversionRegistry::conversions_ as tensor op name -> *)
                (* block op name (RegisterSimple rules).                   *)
  TensorOps,    (* Ops registered in the OpRegistry with category TensorOp. *)
  Programs      (* The input programs the pass may be run on.              *)
                (* Every op with a conversion is a TensorOp: the MC        *)
                (* modules assume it of the tables they give.              *)

VARIABLES
  prog,           (* The input program.                                    *)
  phase,          (* "phase1", "phase2", "done" or "aborted".             *)
  idx,            (* Index of the function the current loop visits.        *)
  added,          (* incore_added_outputs: function name -> outputs added. *)
  transformed,    (* transformed_incore_funcs: function name -> function.  *)
  funcs1,         (* functions_phase1.                                     *)
  funcs2,         (* functions_phase2; the output program once "done".    *)
  nextId,         (* Next fresh Var pointer.                               *)
  err             (* Why the pass aborted, or "none".                      *)

vars == <<prog, phase, idx, added, transformed, funcs1, funcs2, nextId, err>>

BlockOps == {Conversion[t] : t \in DOMAIN Conversion}

----------------------------------------------------------------------------
(* OpRegistry::Create for the ops this pass builds (the registry's type    *)
(* rules are not in this repository; spec 4.1): a block compute op takes   *)
(* tiles and yields a tile, and fails with TypeMismatch otherwise.         *)
CreateOk(op, args) ==
  op \in BlockOps => \A i \in DOMAIN args : args[i].ty \in {TileT, ScalarT}

(* Result of a conversion: ConversionResult{call} of a simple rule.        *)
Convert(op, args) == CallE(Conversion[op], args, TileT)

(* block.load(param, zeros, shape, target_memory=UB); offsets and shape   *)
(* tuples (MakeZeroOffsets, MakeShapeTuple) are abstracted away.           *)
LoadCall(p) == CallE("block.load", <<p>>, TileT)

(* block.store(tile, zeros, shape, out); its result is the output tensor. *)
StoreCall(t, out) == CallE("block.store", <<t, out>>, TensorT)

(* tensor.create(shape, dtype=...) for one output buffer.                  *)
CreateCall == CallE("tensor.create", << >>, TensorT)

TileName(n) == n \o "_tile"
OutName(k) == "out_" \o ToString(k)

----------------------------------------------------------------------------
(* SubstituteExpr: replace Vars by name.  A Call is rebuilt with its old   *)
(* result type.  BinaryExpr/UnaryExpr are returned as they are; their      *)
(* operands are only checked (SubstituteOk).                               *)
RECURSIVE SubstituteExpr(_, _)
SubstituteExpr(e, m) ==
  CASE e.tag = "Var"  -> IF e.name \in DOMAIN m THEN m[e.name] ELSE e
    [] e.tag = "Call" -> [e EXCEPT !.args = [i \in DOMAIN e.args |-> SubstituteExpr(e.args[i], m)]]
    [] OTHER          -> e

(* The INTERNAL_CHECKs of SubstituteExpr: no operand of a BinaryExpr is   *)
(* changed by the substitution.                                            *)
RECURSIVE SubstituteOk(_, _)
SubstituteOk(e, m) ==
  CASE e.tag = "Bin"  -> \A i \in DOMAIN e.args :
                            SubstituteExpr(e.args[i], m) = e.args[i] /\ SubstituteOk(e.args[i], m)
    [] e.tag = "Call" -> \A i \in DOMAIN e.args : SubstituteOk(e.args[i], m)
    [] OTHER          -> TRUE

----------------------------------------------------------------------------
(* TransformIncoreFunction.  The accumulator of the statement loop holds   *)
(* new_stmts, tensor_to_tile, return_stmt, the next fresh pointer and the  *)
(* abort reason.                                                           *)

Fail(acc, why) == IF acc.err = "none" THEN [acc EXCEPT !.err = why] ELSE acc

(* Mutant of LoadParam: the TensorType guard dropped, so a scalar        *)
(* parameter is loaded and renamed as well.                                *)
LoadParamAllParams(acc, p) ==
  LET tv == VarE(acc.next, TileName(p.name), TileT) IN
  [acc EXCEPT !.stmts = Append(@, AssignS(tv, LoadCall(p))),
              !.map = Put(@, p.name, tv),
              !.next = @ + 1]

(* Phase 1 of the helper: a block.load per TensorType parameter.          *)
LoadParam(acc, p) ==
  IF p.ty # TensorT THEN acc
  ELSE LET tv == VarE(acc.next, TileName(p.name), TileT) IN
       [acc EXCEPT !.stmts = Append(@, AssignS(tv, LoadCall(p))),
                   !.map = Put(@, p.name, tv),
                   !.next = @ + 1]

(* Mutant of KeepAssign: a changed value is rebound to a fresh Var but   *)
(* the name is not remapped, so later statements read the old Var.         *)
KeepAssignNoRemap(acc, st) ==
  LET nv == SubstituteExpr(st.value, acc.map) IN
  IF ~SubstituteOk(st.value, acc.map) THEN Fail(acc, "BinarySubstitution")
  ELSE IF nv = st.value THEN [acc EXCEPT !.stmts = Append(@, st)]
  ELSE LET v == VarE(acc.next, st.var.name, nv.ty) IN
       [acc EXCEPT !.stmts = Append(@, AssignS(v, nv)), !.next = @ + 1]

(* An assignment that is kept: its value is substituted and, when that    *)
(* changed it, bound to a fresh Var of the same name and the new type,     *)
(* which later statements then read.                                       *)
KeepAssign(acc, st) ==
  LET nv == SubstituteExpr(st.value, acc.map) IN
  IF ~SubstituteOk(st.value, acc.map) THEN Fail(acc, "BinarySubstitution")
  ELSE IF nv = st.value THEN [acc EXCEPT !.stmts = Append(@, st)]
  ELSE LET v == VarE(acc.next, st.var.name, nv.ty) IN
       [acc EXCEPT !.stmts = Append(@, AssignS(v, nv)),
                   !.map = Put(@, st.var.name, v),
                   !.next = @ + 1]

(* Mutant of ConvertAssign: the original op is emitted with substituted   *)
(* arguments instead of the conversion's result.                           *)
ConvertAssignKeepOp(acc, st) ==
  LET args == [i \in DOMAIN st.value.args |-> SubstituteExpr(st.value.args[i], acc.map)]
      tv   == VarE(acc.next, TileName(st.var.name), TileT)
  IN
  CASE ~SubstituteOk(st.value, acc.map)        -> Fail(acc, "BinarySubstitution")
    [] ~CreateOk(Conversion[st.value.op], args) -> Fail(acc, "TypeMismatch")
    [] OTHER -> [acc EXCEPT !.stmts = Append(@, AssignS(tv, [st.value EXCEPT !.args = args])),
                            !.map = Put(@, st.var.name, tv),
                            !.next = @ + 1]

(* An assignment of a call to an op with a conversion: the converted call *)
(* is bound to a fresh Var named <var>_tile.                               *)
ConvertAssign(acc, st) ==
  LET args == [i \in DOMAIN st.value.args |-> SubstituteExpr(st.value.args[i], acc.map)]
      tv   == VarE(acc.next, TileName(st.var.name), TileT)
  IN
  CASE ~SubstituteOk(st.value, acc.map)        -> Fail(acc, "BinarySubstitution")
    [] ~CreateOk(Conversion[st.value.op], args) -> Fail(acc, "TypeMismatch")
    [] OTHER -> [acc EXCEPT !.stmts = Append(@, AssignS(tv, Convert(st.value.op, args))),
                            !.map = Put(@, st.var.name, tv),
                            !.next = @ + 1]

(* One iteration of the body loop of TransformIncoreFunction.  The caller *)
(* passes the program so that calls to functions are told from op calls.  *)
TransformStmt(P, acc, st) ==
  CASE acc.err # "none"       -> acc
    [] st.tag = "Return"      -> [acc EXCEPT !.ret = st]
    [] st.tag # "Assign"      -> [acc EXCEPT !.stmts = Append(@, st)]
    [] \/ st.value.tag # "Call"
       \/ IsFunctionCall(P, st.value)
       \/ st.value.op \notin DOMAIN Conversion -> KeepAssign(acc, st)
    [] OTHER -> ConvertAssign(acc, st)

(* One iteration of the return loop: a tile-typed return value gets an    *)
(* output parameter out_k and a block.store into it.                       *)
StoreReturn(f, acc, i) ==
  LET re  == SubstituteExpr(acc.ret.values[i], acc.map)
      k   == acc.added
      out == VarE(acc.next, OutName(k), f.rets[i])
      sv  == VarE(acc.next + 1, OutName(k), TensorT)
  IN
  CASE acc.err # "none" -> acc
    [] ~SubstituteOk(acc.ret.values[i], acc.map) -> Fail(acc, "BinarySubstitution")
    [] re.ty # TileT -> [acc EXCEPT !.rtypes = Append(@, re.ty), !.rexprs = Append(@, re)]
    [] f.rets[i] # TensorT -> Fail(acc, "ReturnNotTensor")
    [] OTHER -> [acc EXCEPT !.params = Append(@, out),
                            !.stmts  = Append(@, AssignS(sv, StoreCall(re, out))),
                            !.rtypes = Append(@, TensorT),
                            !.rexprs = Append(@, sv),
                            !.added  = @ + 1,
                            !.next   = @ + 2]

(* The whole helper: [func, added, next, err].                             *)
TransformIncoreFunction(P, f, next) ==
  LET acc0 == [stmts |-> << >>, map |-> EmptyMap, ret |-> NoStmt, next |-> next,
               err |-> "none", params |-> f.params, rtypes |-> << >>,
               rexprs |-> << >>, added |-> 0]
      acc1 == FoldLeft(LoadParam, acc0, f.params)
      acc2 == FoldLeft(LAMBDA a, st : TransformStmt(P, a, st), acc1, f.body)
      acc3 == CASE acc2.err # "none"  -> acc2
                [] acc2.ret = NoStmt -> Fail(acc2, "NoReturn")
                [] OTHER -> FoldLeft(LAMBDA a, i : StoreReturn(f, a, i), acc2,
                                     [i \in DOMAIN acc2.ret.values |-> i])
  IN [func  |-> Func(f.name, acc3.params, acc3.rtypes,
                     Append(acc3.stmts, ReturnS(acc3.rexprs)), "InCore"),
      added |-> acc3.added, next |-> acc3.next, err |-> acc3.err]

----------------------------------------------------------------------------
(* UpdateCallSites.  The accumulator holds new_stmts, var_map, changed,    *)
(* the next fresh pointer and the abort reason.                            *)

(* A statement kept with substituted value, bound to a fresh Var when the *)
(* substitution changed it.                                                *)
KeepCallSite(acc, st, value) ==
  IF value = st.value THEN [acc EXCEPT !.stmts = Append(@, st)]
  ELSE LET v == VarE(acc.next, st.var.name, value.ty) IN
       [acc EXCEPT !.stmts = Append(@, AssignS(v, value)),
                   !.map = Put(@, st.var.name, v),
                   !.changed = TRUE,
                   !.next = @ + 1]

(* Mutant of RewriteCall: the call is rebuilt with its original         *)
(* arguments only, the output buffers created but not passed.              *)
RewriteCallNoOuts(acc, st, value, g, n) ==
  LET orig  == Len(g.params) - n
      outs  == [i \in 1 .. n |-> VarE(acc.next + i - 1, OutName(i - 1), TensorT)]
      rt    == CallResultType(g.rets)
      nv    == VarE(acc.next + n, st.var.name, rt)
  IN
  IF \E i \in 1 .. n : g.params[orig + i].ty # TensorT THEN Fail(acc, "OutputNotTensor")
  ELSE [acc EXCEPT !.stmts = @ \o [i \in 1 .. n |-> AssignS(outs[i], CreateCall)]
                              \o << AssignS(nv, CallE(value.op, value.args, rt)) >>,
                   !.map = Put(@, st.var.name, nv),
                   !.changed = TRUE,
                   !.next = @ + n + 1]

(* Mutant of RewriteCall: the tensor.create statements emitted after the  *)
(* call that reads them.                                                    *)
RewriteCallCreatesAfter(acc, st, value, g, n) ==
  LET orig  == Len(g.params) - n
      outs  == [i \in 1 .. n |-> VarE(acc.next + i - 1, OutName(i - 1), TensorT)]
      rt    == CallResultType(g.rets)
      nv    == VarE(acc.next + n, st.var.name, rt)
  IN
  IF \E i \in 1 .. n : g.params[orig + i].ty # TensorT THEN Fail(acc, "OutputNotTensor")
  ELSE [acc EXCEPT !.stmts = @ \o << AssignS(nv, CallE(value.op, value.args \o outs, rt)) >>
                              \o [i \in 1 .. n |-> AssignS(outs[i], CreateCall)],
                   !.map = Put(@, st.var.name, nv),
                   !.changed = TRUE,
                   !.next = @ + n + 1]

(* A call to an InCore function that gained n outputs: n tensor.create    *)
(* buffers out_0 .. out_{n-1}, the call with them appended, and its result *)
(* bound to a fresh Var of the rewritten function's return type.           *)
RewriteCall(acc, st, value, g, n) ==
  LET orig  == Len(g.params) - n
      outs  == [i \in 1 .. n |-> VarE(acc.next + i - 1, OutName(i - 1), TensorT)]
      rt    == CallResultType(g.rets)
      nv    == VarE(acc.next + n, st.var.name, rt)
  IN
  IF \E i \in 1 .. n : g.params[orig + i].ty # TensorT THEN Fail(acc, "OutputNotTensor")
  ELSE [acc EXCEPT !.stmts = @ \o [i \in 1 .. n |-> AssignS(outs[i], CreateCall)]
                              \o << AssignS(nv, CallE(value.op, value.args \o outs, rt)) >>,
                   !.map = Put(@, st.var.name, nv),
                   !.changed = TRUE,
                   !.next = @ + n + 1]

(* One iteration of the statement loop of UpdateCallSites.                *)
CallSiteStmt(P, addedOut, trans, acc, st) ==
  LET value == IF acc.map = EmptyMap THEN st.value ELSE SubstituteExpr(st.value, acc.map) IN
  CASE acc.err # "none" -> acc
    [] st.tag = "Return" /\ acc.map = EmptyMap -> [acc EXCEPT !.stmts = Append(@, st)]
    [] st.tag = "Return" /\ \E i \in DOMAIN st.values : ~SubstituteOk(st.values[i], acc.map) ->
         Fail(acc, "BinarySubstitution")
    [] st.tag = "Return" ->
         [acc EXCEPT !.stmts = Append(@, ReturnS([i \in DOMAIN st.values |->
                                             SubstituteExpr(st.values[i], acc.map)]))]
    [] st.tag # "Assign" -> [acc EXCEPT !.stmts = Append(@, st)]
    [] acc.map # EmptyMap /\ ~SubstituteOk(st.value, acc.map) -> Fail(acc, "BinarySubstitution")
    [] \/ value.tag # "Call"
       \/ ~IsFunctionCall(P, value)
       \/ value.op \notin DOMAIN addedOut
       \/ addedOut[value.op] = 0 -> KeepCallSite(acc, st, value)
    [] value.op \notin DOMAIN trans -> Fail(acc, "TransformedMissing")
    [] OTHER -> RewriteCall(acc, st, value, trans[value.op], addedOut[value.op])

(* The whole helper: [func, next, err].                                    *)
UpdateCallSites(P, f, addedOut, trans, next) ==
  LET acc0 == [stmts |-> << >>, map |-> EmptyMap, changed |-> FALSE, next |-> next, err |-> "none"]
      acc  == FoldLeft(LAMBDA a, st : CallSiteStmt(P, addedOut, trans, a, st), acc0, f.body)
  IN [func |-> IF acc.changed THEN [f EXCEPT !.body = acc.stmts] ELSE f,
      next |-> acc.next, err |-> acc.err]

----------------------------------------------------------------------------
(* The pass lambda of ConvertTensorToBlockOps() as one function from a    *)
(* program to [ok, out, next]: the Phase 1 loop and the Phase 2 loop over  *)
(* the functions in order, fresh Var pointers drawn from `next'.  An       *)
(* INTERNAL_CHECK or a TypeMismatch anywhere makes the pass raise.         *)
(* r is the helper's result for function f.                                *)
Phase1Record(acc, f, r) ==
  CASE r.err # "none" -> [acc EXCEPT !.err = r.err]
    [] OTHER -> [acc EXCEPT !.added = Put(@, f.name, r.added),
                            !.trans = Put(@, f.name, r.func),
                            !.funcs = Append(@, r.func), !.next = r.next]
Phase1Iteration(P, acc, f) ==
  CASE acc.err # "none"   -> acc
    [] f.ftype # "InCore" -> [acc EXCEPT !.funcs = Append(@, f)]
    [] OTHER -> Phase1Record(acc, f, TransformIncoreFunction(P, f, acc.next))
Phase2Record(acc, r) ==
  CASE r.err # "none" -> [acc EXCEPT !.err = r.err]
    [] OTHER -> [acc EXCEPT !.funcs = Append(@, r.func), !.next = r.next]
Phase2Iteration(p1, acc, f) ==
  CASE acc.err # "none"   -> acc
    [] f.ftype = "InCore" -> [acc EXCEPT !.funcs = Append(@, f)]
    [] OTHER -> Phase2Record(acc, UpdateCallSites(p1.funcs, f, p1.added, p1.trans, acc.next))
RECURSIVE Phase1Loop(_, _, _), Phase2Loop(_, _, _)
Phase1Loop(P, acc, fs) ==
  IF fs = << >> THEN acc ELSE Phase1Loop(P, Phase1Iteration(P, acc, Head(fs)), Tail(fs))
Phase2Loop(p1, acc, fs) ==
  IF fs = << >> THEN acc ELSE Phase2Loop(p1, Phase2Iteration(p1, acc, Head(fs)), Tail(fs))
Phase2Of(p1) == Phase2Loop(p1, [funcs |-> << >>, next |-> p1.next, err |-> p1.err], p1.funcs)
PassResult(p2) == [ok |-> p2.err = "none", out |-> p2.funcs, next |-> p2.next]
ConvertProgram(P, next) ==
  PassResult(Phase2Of(Phase1Loop(P, [funcs |-> << >>, added |-> EmptyMap, trans |-> EmptyMap,
                                     next |-> next, err |-> "none"], P)))

----------------------------------------------------------------------------
(* The pass: Phase 1 over the program's functions in order, then Phase 2  *)
(* over the Phase 1 result, then the new Program.                          *)

Init ==
  /\ prog \in Programs
  /\ phase = "phase1"
  /\ idx = 1
  /\ added = EmptyMap
  /\ transformed = EmptyMap
  /\ funcs1 = << >>
  /\ funcs2 = << >>
  /\ nextId = 100
  /\ err = "none"

(* One iteration of the Phase 1 loop.                                      *)
Phase1Step ==
  /\ phase = "phase1"
  /\ idx <= Len(prog)
  /\ LET f == prog[idx] IN
     IF f.ftype # "InCore"
     THEN /\ funcs1' = Append(funcs1, f)
          /\ idx' = idx + 1
          /\ UNCHANGED <<phase, added, transformed, nextId, err>>
     ELSE LET r == TransformIncoreFunction(prog, f, nextId) IN
          IF r.err # "none"
          THEN /\ phase' = "aborted"
               /\ err' = r.err
               /\ UNCHANGED <<idx, added, transformed, funcs1, nextId>>
          ELSE /\ added' = Put(added, f.name, r.added)
               /\ transformed' = Put(transformed, f.name, r.func)
               /\ funcs1' = Append(funcs1, r.func)
               /\ nextId' = r.next
               /\ idx' = idx + 1
               /\ UNCHANGED <<phase, err>>
  /\ UNCHANGED <<prog, funcs2>>

EndPhase1 ==
  /\ phase = "phase1"
  /\ idx > Len(prog)
  /\ phase' = "phase2"
  /\ idx' = 1
  /\ UNCHANGED <<prog, added, transformed, funcs1, funcs2, nextId, err>>

(* Mutant of Phase2Step: the rewritten orchestration functions are put    *)
(* before the ones already collected.                                      *)
Phase2StepPrepend ==
  /\ phase = "phase2"
  /\ idx <= Len(funcs1)
  /\ LET f == funcs1[idx] IN
     IF f.ftype = "InCore"
     THEN /\ funcs2' = Append(funcs2, f)
          /\ idx' = idx + 1
          /\ UNCHANGED <<phase, nextId, err>>
     ELSE LET r == UpdateCallSites(funcs1, f, added, transformed, nextId) IN
          IF r.err # "none"
          THEN /\ phase' = "aborted"
               /\ err' = r.err
               /\ UNCHANGED <<idx, funcs2, nextId>>
          ELSE /\ funcs2' = <<r.func>> \o funcs2
               /\ nextId' = r.next
               /\ idx' = idx + 1
               /\ UNCHANGED <<phase, err>>
  /\ UNCHANGED <<prog, added, transformed, funcs1>>

(* One iteration of the Phase 2 loop.                                      *)
Phase2Step ==
  /\ phase = "phase2"
  /\ idx <= Len(funcs1)
  /\ LET f == funcs1[idx] IN
     IF f.ftype = "InCore"
     THEN /\ funcs2' = Append(funcs2, f)
          /\ idx' = idx + 1
          /\ UNCHANGED <<phase, nextId, err>>
     ELSE LET r == UpdateCallSites(funcs1, f, added, transformed, nextId) IN
          IF r.err # "none"
          THEN /\ phase' = "aborted"
               /\ err' = r.err
               /\ UNCHANGED <<idx, funcs2, nextId>>
          ELSE /\ funcs2' = Append(funcs2, r.func)
               /\ nextId' = r.next
               /\ idx' = idx + 1
               /\ UNCHANGED <<phase, err>>
  /\ UNCHANGED <<prog, added, transformed, funcs1>>

(* make_shared<Program>(functions_phase2, ...).                           *)
Finish ==
  /\ phase = "phase2"
  /\ idx > Len(funcs1)
  /\ phase' = "done"
  /\ UNCHANGED <<prog, idx, added, transformed, funcs1, funcs2, nextId, err>>

Next == Phase1Step \/ EndPhase1 \/ Phase2Step \/ Finish

Spec == Init /\ [][Next]_vars

----------------------------------------------------------------------------
(* Properties of the output program.                                       *)

(* Every expression occurring in e, e included.                            *)
RECURSIVE SubExprs(_)
SubExprs(e) ==
  {e} \cup IF e.tag \in {"Call", "Bin"}
           THEN UNION {SubExprs(e.args[i]) : i \in DOMAIN e.args}
           ELSE {}

(* The Calls of a function's statements to functions of program P.        *)
FunctionCallsIn(P, f) ==
  {e \in UNION {SubExprs(x) : x \in UNION {StmtExprs(f.body[k]) : k \in DOMAIN f.body}} :
     IsFunctionCall(P, e)}

(* IncoreBlockOpsPropertyVerifierImpl: the diagnostics it reports, as     *)
(* <<function name, statement>>, for the top-level Call of an Assign or   *)
(* Eval statement of an InCore function, at any depth (IRVisitor), whose  *)
(* op is a TensorOp with a registered conversion.                          *)
TopLevelCall(st) ==
  CASE st.tag = "Assign" -> st.value
    [] st.tag = "Eval"   -> st.expr
    [] OTHER             -> ConstE
ConvertibleTensorCall(P, c) ==
  c.tag = "Call" /\ ~IsFunctionCall(P, c) /\ c.op \in TensorOps /\ c.op \in DOMAIN Conversion
IncoreBlockOpsDiagnostics(P) ==
  UNION {{<<P[i].name, st>> : st \in {st \in StmtsIn(P[i].body) :
                                        ConvertibleTensorCall(P, TopLevelCall(st))}} :
           i \in {i \in DOMAIN P : P[i].ftype = "InCore"}}

(* What a program computes, by symbolic evaluation: a parameter denotes   *)
(* itself, a call to a function denotes the callee's result on the         *)
(* arguments' values, block.load and block.store denote the tensor they    *)
(* read or write, a block op denotes the tensor op it was converted from,  *)
(* and every other op is uninterpreted.  A value is a pair <<tag, payload>> *)
(* whose tag decides the shape of its payload.                             *)
OriginalOp(op) ==
  IF \E t \in DOMAIN Conversion : Conversion[t] = op
  THEN CHOOSE t \in DOMAIN Conversion : Conversion[t] = op
  ELSE op
EmptyEnv == [i \in {} |-> <<"none", 0>>]

RECURSIVE Denote(_, _, _), Apply(_, _, _)
Denote(P, env, e) ==
  LET vals == [i \in DOMAIN e.args |-> Denote(P, env, e.args[i])] IN
  CASE e.tag = "Var"   -> IF e.id \in DOMAIN env THEN env[e.id] ELSE <<"undefined", 0>>
    [] e.tag = "Const" -> <<"const", 0>>
    [] e.tag = "Bin"   -> <<"bin", vals>>
    [] IsFunctionCall(P, e) -> Apply(P, FunctionNamed(P, e.op), vals)
    [] e.op \in {"block.load", "block.store"} -> vals[1]
    [] OTHER -> <<OriginalOp(e.op), vals>>

Apply(P, f, actuals) ==
  LET env0 == FoldLeft(LAMBDA m, i : (f.params[i].id :>
                          IF i \in DOMAIN actuals THEN actuals[i] ELSE <<"missing", 0>>) @@ m,
                       EmptyEnv, [i \in DOMAIN f.params |-> i])
      env  == FoldLeft(LAMBDA m, st : IF st.tag = "Assign"
                                      THEN (st.var.id :> Denote(P, m, st.value)) @@ m
                                      ELSE m,
                       env0, f.body)
      ret  == f.body[Len(f.body)]
      out  == [i \in DOMAIN ret.values |-> Denote(P, env, ret.values[i])]
  IN IF Len(out) = 1 THEN out[1] ELSE <<"tuple", out>>

(* The pass preserves what every function computes: each function of the *)
(* output, given the original parameters as symbols (and any buffer for an *)
(* added out_k), returns what the input function returns.  Broken when a   *)
(* name-keyed substitution map of TransformIncoreFunction or              *)
(* UpdateCallSites sends a Var to the wrong replacement.                   *)
SemanticsPreserved ==
  phase = "done" =>
    \A i \in DOMAIN prog :
      LET f    == prog[i]
          g    == FunctionNamed(funcs2, f.name)
          syms == [j \in DOMAIN f.params |-> <<"param", j>>]
      IN Apply(funcs2, g, syms) = Apply(prog, f, syms)

(* Every call to a function in the output passes one argument of the      *)
(* callee's parameter type per parameter, added out_k buffers included,    *)
(* and has the type the rewritten callee returns: Phase 1 changes the      *)
(* InCore signatures and Phase 2 must follow every call to them.           *)
CallSitesMatch ==
  phase = "done" =>
    \A i \in DOMAIN funcs2 : \A e \in FunctionCallsIn(funcs2, funcs2[i]) : CallMatches(funcs2, e)

(* Every function of the output reads only Vars defined before, binds each *)
(* Var to a value of its type and returns its declared return types: the    *)
(* new loads, creates and stores are placed and typed consistently with    *)
(* the statements around them.                                             *)
OutputWellTyped ==
  phase = "done" => \A i \in DOMAIN funcs2 : FunctionWellTyped(funcs2[i])

(* The pass establishes IncoreBlockOps, the property it declares produced: *)
(* its verifier reports nothing on the output.                             *)
IncoreBlockOpsHolds ==
  phase = "done" => IncoreBlockOpsDiagnostics(funcs2) = {}

(* No INTERNAL_CHECK of the pass fails on a well-formed input: the pass     *)
(* either finishes or stops on a user-level error of OpRegistry::Create.   *)
NoInternalCheckFailure ==
  err \in {"none", "TypeMismatch"}

=============================================================================

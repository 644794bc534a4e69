--------------------- MODULE MCConvertTensorToBlockOps ---------------------
(***************************************************************************)
(* Inputs for model checking ConvertTensorToBlockOps: small programs of an *)
(* Orchestration function `main' calling InCore kernels.  Every input is a *)
(* well-typed SSA program with its return as last statement, the form the  *)
(* pass requires (SplitIncoreOrch, after the flattening passes).           *)
(***************************************************************************)
EXTENDS ConvertTensorToBlockOps

(* Registered ops: tensor.add and tensor.mul have conversions (two of the  *)
(* registry's defaults); tensor.matmul is a TensorOp without one;          *)
(* tensor.dim stands for an op that reads a tensor and yields a scalar.    *)
MCConversion == ("tensor.add" :> "block.add") @@ ("tensor.mul" :> "block.mul")
MCTensorOps  == {"tensor.add", "tensor.mul", "tensor.matmul", "tensor.dim"}

(* Vars of the kernels (ids below 100; fresh Vars start at 100).          *)
a == VarE(1, "a", TensorT)
s == VarE(2, "s", ScalarT)
t == VarE(3, "t", TensorT)
u == VarE(4, "u", TensorT)
k == VarE(5, "k", ScalarT)
j == VarE(6, "j", ScalarT)
(* Vars of main.                                                            *)
x == VarE(11, "x", TensorT)
c == VarE(12, "c", ScalarT)
z == VarE(14, "z", TensorT)
ResultVar(id, ty) == VarE(id, "y", ty)

Ret(vs) == [i \in DOMAIN vs |-> vs[i].ty]

(* Tensor-valued assignments of v over the Vars in D.                     *)
TensorAssigns(v, D) ==
  {AssignS(v, CallE("tensor.add", <<p, q>>, TensorT)) : p, q \in D}
    \cup {AssignS(v, CallE("tensor.matmul", <<p, p>>, TensorT)) : p \in D}
    \cup {AssignS(v, p) : p \in D}

(* Kernel bodies: t, then u, defined from the tensors before them, and a  *)
(* return of one or two of the tensors.                                    *)
TensorKernels ==
  {Func("f", <<a>>, Ret(r), <<s1, s2, ReturnS(r)>>, "InCore") :
     s1 \in TensorAssigns(t, {a}), s2 \in TensorAssigns(u, {a, t}),
     r \in {<<v>> : v \in {a, t, u}} \cup {<<v, w>> : v \in {t, u}, w \in {a, u}}}

(* Kernels with a scalar parameter: a scalar computed from it or from a   *)
(* tensor, and a return that mixes tensors and scalars.                    *)
ScalarKernels ==
  {g \in {Func("f", <<a, s>>, Ret(r), <<s1, ReturnS(r)>>, "InCore") :
           s1 \in {AssignS(t, CallE("tensor.add", <<a, a>>, TensorT)),
                   AssignS(k, BinE(s, ConstE)),
                   AssignS(k, CallE("tensor.dim", <<a>>, ScalarT))},
           r \in {<<t>>, <<k>>, <<t, s>>, <<a, k>>}} :
     FunctionWellTyped(g)}

(* main: y = f(args); optionally z = tensor.add(y, x), or a second call   *)
(* z = f(y); then the result returned.                                      *)
Mains(g) ==
  LET args == IF Len(g.params) = 1 THEN <<x>> ELSE <<x, c>>
      y    == ResultVar(13, CallResultType(g.rets))
      call == AssignS(y, CallE("f", args, y.ty))
      ps   == args
  IN {Func("main", ps, <<y.ty>>, <<call, ReturnS(<<y>>)>>, "Orchestration")}
     \cup IF y.ty # TensorT THEN {}
          ELSE {Func("main", ps, <<TensorT>>,
                     <<call, AssignS(z, CallE("tensor.add", <<y, x>>, TensorT)), ReturnS(<<z>>)>>,
                     "Orchestration")}
               \cup IF g.params # <<a>> THEN {}
                    ELSE {Func("main", ps, <<TensorT>>,
                               <<call, AssignS(z, CallE("f", <<y>>, TensorT)), ReturnS(<<z>>)>>,
                               "Orchestration")}

(* Two kernels f and g of one statement, chained by main, with main placed *)
(* before or after them in the program's function order.                   *)
SmallKernels(name) ==
  {Func(name, <<a>>, Ret(r), <<s1, ReturnS(r)>>, "InCore") :
     s1 \in TensorAssigns(t, {a}), r \in {<<a>>, <<t>>, <<t, a>>}}
Chain(f, g) ==
  LET y  == ResultVar(13, TensorT)
      zt == CallResultType(g.rets)
      zv == VarE(14, "z", zt)
  IN Func("main", <<x>>, <<zt>>,
          <<AssignS(y, CallE("f", <<x>>, TensorT)),
            AssignS(zv, CallE("g", <<y>>, zt)),
            ReturnS(<<zv>>)>>, "Orchestration")
ChainPrograms ==
  UNION {{<<f, g, Chain(f, g)>>, <<Chain(f, g), f, g>>} :
           f \in {h \in SmallKernels("f") : h.rets = <<TensorT>>}, g \in SmallKernels("g")}

MCPrograms ==
  UNION {{<<g, m>> : m \in Mains(g)} : g \in TensorKernels \cup ScalarKernels}
    \cup ChainPrograms

(* The inputs satisfy the pass's precondition.                             *)
ASSUME DOMAIN MCConversion \subseteq MCTensorOps

ASSUME \A P \in MCPrograms : \A i \in DOMAIN P :
         /\ FunctionWellTyped(P[i]) /\ FunctionInSSA(P[i])
         /\ \A e \in FunctionCallsIn(P, P[i]) : CallMatches(P, e)

----------------------------------------------------------------------------
(* Inputs outside the passing run, one per disagreement.                   *)

(* Two distinct Vars named t (distinct pointers, invariant I5), both      *)
(* converted, and the first read after the second is defined.              *)
t2 == VarE(7, "t", TensorT)
NameCollisionPrograms ==
  {<<Func("f", <<a>>, <<TensorT>>,
          <<AssignS(t, CallE("tensor.add", <<a, a>>, TensorT)),
            AssignS(t2, CallE(op, <<a, a>>, TensorT)),
            AssignS(u, CallE("tensor.add", <<t, t2>>, TensorT)),
            ReturnS(<<u>>)>>, "InCore"),
      Func("main", <<x>>, <<TensorT>>,
           <<AssignS(ResultVar(13, TensorT), CallE("f", <<x>>, TensorT)),
             ReturnS(<<ResultVar(13, TensorT)>>)>>, "Orchestration")>> :
     op \in {"tensor.mul", "tensor.add"}}

(* A scalar computed from a tensor parameter, then used in a BinaryExpr.  *)
ScalarBinaryPrograms ==
  {<<Func("f", <<a, s>>, <<ScalarT>>,
          <<AssignS(k, CallE("tensor.dim", <<a>>, ScalarT)),
            AssignS(j, BinE(k, s)),
            ReturnS(<<j>>)>>, "InCore"),
      Func("main", <<x, c>>, <<ScalarT>>,
           <<AssignS(ResultVar(13, ScalarT), CallE("f", <<x, c>>, ScalarT)),
             ReturnS(<<ResultVar(13, ScalarT)>>)>>, "Orchestration")>>}

(* A convertible tensor op evaluated for effect in a kernel.               *)
EvalTensorOpPrograms ==
  {<<Func("f", <<a>>, <<TensorT>>,
          <<EvalS(CallE("tensor.add", <<a, a>>, TensorT)), ReturnS(<<a>>)>>, "InCore"),
      Func("main", <<x>>, <<TensorT>>,
           <<AssignS(ResultVar(13, TensorT), CallE("f", <<x>>, TensorT)),
             ReturnS(<<ResultVar(13, TensorT)>>)>>, "Orchestration")>>}

(* A kernel called for effect by an EvalStmt of main.                      *)
EvalCallPrograms ==
  {<<g, Func("main", <<x>>, <<TensorT>>,
             <<EvalS(CallE("f", <<x>>, TensorT)), ReturnS(<<x>>)>>, "Orchestration")>> :
     g \in {h \in TensorKernels : h.rets = <<TensorT>>}}

(* A kernel called inside an IfStmt of main.  The kernel is flat, so the   *)
(* InCore side of SplitIncoreOrch holds; main keeps its branch.            *)
NestedCallSitePrograms ==
  {<<g, Func("main", <<x, c>>, <<TensorT>>,
             <<IfS(c, <<AssignS(ResultVar(13, TensorT), CallE("f", <<x>>, TensorT))>>),
               ReturnS(<<x>>)>>, "Orchestration")>> :
     g \in {h \in TensorKernels : h.rets = <<TensorT>>}}

(* Kernel calls UpdateCallSites does not reach: not an AssignStmt, or not *)
(* at the top level.                                                       *)
UnreachedCallPrograms == EvalCallPrograms \cup NestedCallSitePrograms

ASSUME \A P \in NameCollisionPrograms \cup ScalarBinaryPrograms \cup EvalTensorOpPrograms
                 \cup EvalCallPrograms \cup NestedCallSitePrograms :
         \A i \in DOMAIN P :
           /\ FunctionWellTyped(P[i]) /\ FunctionInSSA(P[i])
           /\ \A e \in FunctionCallsIn(P, P[i]) : CallMatches(P, e)

=============================================================================

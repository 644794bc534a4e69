------------------------- MODULE MCPipelinePrograms -------------------------
(***************************************************************************)
(* The small programs of InCore kernels and an Orchestration `main' that  *)
(* the pipeline models are checked on.                                      *)
(***************************************************************************)
EXTENDS IR

a == VarE(1, "a", TensorT)
t == VarE(3, "t", TensorT)
u == VarE(4, "u", TensorT)
x == VarE(11, "x", TensorT)
c == VarE(12, "c", ScalarT)
y == VarE(13, "y", TensorT)
z == VarE(14, "z", TensorT)

(* t = tensor.add(a, a); return t                                          *)
AddKernel(name) ==
  Func(name, <<a>>, <<TensorT>>,
       <<AssignS(t, CallE("tensor.add", <<a, a>>, TensorT)), ReturnS(<<t>>)>>, "InCore")
(* t = tensor.matmul(a, a); u = tensor.add(a, t): the kept matmul reads a *)
(* tile with a Tensor result type, and the add's conversion fails.         *)
MismatchKernel ==
  Func("f", <<a>>, <<TensorT>>,
       <<AssignS(t, CallE("tensor.matmul", <<a, a>>, TensorT)),
         AssignS(u, CallE("tensor.add", <<a, t>>, TensorT)), ReturnS(<<u>>)>>, "InCore")
(* t = tensor.matmul(a, a); return t: no default rule converts it.          *)
MatmulKernel ==
  Func("f", <<a>>, <<TensorT>>,
       <<AssignS(t, CallE("tensor.matmul", <<a, a>>, TensorT)), ReturnS(<<t>>)>>, "InCore")
(* A kernel with a branch: not split (SplitIncoreOrch fails), and its     *)
(* nested tensor.add is left unconverted.                                  *)
BranchKernel ==
  Func("f", <<a, c>>, <<TensorT>>,
       <<IfS(c, <<EvalS(CallE("tensor.add", <<a, a>>, TensorT))>>), ReturnS(<<a>>)>>, "InCore")
Main(args) ==
  Func("main", args, <<TensorT>>,
       <<AssignS(y, CallE("f", args, TensorT)), ReturnS(<<y>>)>>, "Orchestration")
ChainMain ==
  Func("main", <<x>>, <<TensorT>>,
       <<AssignS(y, CallE("f", <<x>>, TensorT)), AssignS(z, CallE("g", <<y>>, TensorT)),
         ReturnS(<<z>>)>>, "Orchestration")

(* Programs without a call between functions, on which renaming is safe.  *)
SingleFunctionInputs == {<<AddKernel("f")>>, <<MismatchKernel>>}
(* Flat programs whose main calls its kernels.                             *)
FlatInputs ==
  {<<AddKernel("f"), Main(<<x>>)>>, <<AddKernel("f"), AddKernel("g"), ChainMain>>,
   <<MismatchKernel, Main(<<x>>)>>}
(* Inputs with every InCore body flat (SplitIncoreOrch holds).             *)
SplitInputs == SingleFunctionInputs \cup FlatInputs
MCInputs == SplitInputs \cup {<<BranchKernel, Main(<<x, c>>)>>}
=============================================================================

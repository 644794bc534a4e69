------------------------- MODULE MCStructuralEqual -------------------------
(***************************************************************************)
(* Inputs for StructuralEqual: small expressions, assignments, statement  *)
(* sequences and functions over three Vars a side (two ScalarType, one    *)
(* TensorType).  The two sides (bases 0 and 40) share no pointer, as    *)
(* two separately built programs.  The violation inputs share one.        *)
(***************************************************************************)
EXTENDS Serialization

(* The nodes of one side, a distinct pointer for each distinct node: Vars *)
(* at base+1 .. base+3, the constants 0 and 1 at base+4 and base+5, the   *)
(* additions at base+6 .. base+14, the assignments at base+15 .. base+29, *)
(* the sequence at base+30 and the function at base+31.                   *)
SideVars(base) == {VarN(base + 1, ScalarT), VarN(base + 2, ScalarT), VarN(base + 3, TensorT)}
Atoms(base) == SideVars(base) \cup {ConstN(base + 4 + c, c) : c \in {0, 1}}
Index(base, e) == e.ptr - base - 1
Exprs(base) ==
  Atoms(base) \cup {AddN(base + 6 + 3 * Index(base, a) + Index(base, b), a, b) : a, b \in SideVars(base)}
AssignAt(base, v, e) == AssignN(base + 15 + 5 * Index(base, v) + Index(base, e), v, e)
Assigns(base) == {AssignAt(base, v, e) : v \in SideVars(base), e \in Atoms(base)}
(* In sequences, assignments of a Var: the second may use the first's,    *)
(* or be the same statement again.                                         *)
Copies(base) == {AssignAt(base, v, e) : v, e \in SideVars(base)}
Seqs(base) == {SeqN(base + 30, <<s1, s2>>) : s1, s2 \in Copies(base)}
Funcs(base) ==
  {FuncN(base + 31, nm, <<p>>, b) : nm \in {1, 2}, p \in SideVars(base), b \in Assigns(base)}

SameCategory(S(_)) == {<<l, r>> : l \in S(0), r \in S(40)}

MCPairs ==
  SameCategory(Exprs) \cup SameCategory(Assigns) \cup SameCategory(Seqs) \cup SameCategory(Funcs)

ASSUME \A b \in {0, 40} : \A n \in Exprs(b) \cup Assigns(b) \cup Seqs(b) \cup Funcs(b) : WellShared(n)

(* x + x against x + y, x shared: the pointer fast path at the first Var. *)
SharedX == VarN(1, ScalarT)
FastPathPairs == {<<AddN(0, SharedX, SharedX), AddN(10, SharedX, VarN(12, ScalarT))>>}

=============================================================================

--------------------------- MODULE StructuralEqual ---------------------------
(***************************************************************************)
(* structural_equal and structural_hash (structural_comparison.h; the     *)
(* algorithm as docs/dev/01-structural_comparison.md gives it).            *)
(*                                                                         *)
(* Every node carries its pointer `ptr'.  A node's fields are compared or  *)
(* hashed in the order of its field descriptors, each as an IgnoreField,  *)
(* a UsualField or a DefField.  The comparison threads the two variable   *)
(* maps lhs_to_rhs_var_map_ and rhs_to_lhs_var_map_ through the whole     *)
(* traversal; a DefField is visited with auto-mapping forced on.          *)
(*                                                                         *)
(* The state is one call of each function on a pair of nodes.             *)
(***************************************************************************)
EXTENDS IR, FiniteSets, Functions, Bitwise

CONSTANTS
  Pairs,      (* The <<lhs, rhs>> pairs the functions are called on.       *)
  HashBits    (* Width of the hash words (uint64_t in the code).          *)

----------------------------------------------------------------------------
(* Nodes.  A Var's name is an IgnoreField and is left out; a Function's   *)
(* name is an IgnoreField and is kept, as a small number.                 *)

VarN(ptr, ty) == [kind |-> "Var", ptr |-> ptr, ty |-> ty]
ConstN(ptr, v) == [kind |-> "ConstInt", ptr |-> ptr, value |-> v]
AddN(ptr, l, r) == [kind |-> "Add", ptr |-> ptr, left |-> l, right |-> r]
AssignN(ptr, v, e) == [kind |-> "AssignStmt", ptr |-> ptr, var |-> v, value |-> e]
SeqN(ptr, ss) == [kind |-> "SeqStmts", ptr |-> ptr, stmts |-> ss]
FuncN(ptr, name, ps, body) ==
  [kind |-> "Function", ptr |-> ptr, name |-> name, params |-> ps, body |-> body]

(* GetFieldDescriptors: the fields after span, in order, with the field   *)
(* type and whether the value is a leaf, a node or a sequence of nodes.   *)
Field(name, how, val) == [name |-> name, how |-> how, val |-> val]
Fields(kind) ==
  CASE kind = "ConstInt"   -> <<Field("value", "usual", "leaf")>>
    [] kind = "Add"        -> <<Field("left", "usual", "node"), Field("right", "usual", "node")>>
    [] kind = "AssignStmt" -> <<Field("var", "def", "node"), Field("value", "usual", "node")>>
    [] kind = "SeqStmts"   -> <<Field("stmts", "usual", "nodes")>>
    [] kind = "Function"   -> <<Field("name", "ignore", "leaf"), Field("params", "def", "nodes"),
                                Field("body", "usual", "node")>>

----------------------------------------------------------------------------
(* StructuralEqual.  The comparison state s = [ok, l2r, r2l].             *)

Fail(s) == [s EXCEPT !.ok = FALSE]

EqualType(lt, rt) == lt = rt

(* Mutant of EqualVar: only lhs_to_rhs_var_map_ consulted.               *)
EqualVarNoReverseCheck(s, l, r, auto) ==
  CASE ~auto                       -> [s EXCEPT !.ok = (l.ptr = r.ptr)]
    [] ~EqualType(l.ty, r.ty)      -> Fail(s)
    [] l.ptr \in DOMAIN s.l2r      -> [s EXCEPT !.ok = (s.l2r[l.ptr] = r.ptr)]
    [] OTHER -> [s EXCEPT !.l2r = Put(@, l.ptr, r.ptr), !.r2l = Put(@, r.ptr, l.ptr)]

(* EqualVar: pointer equality without auto-mapping; with it, equal types  *)
(* and a pair consistent with both maps, recorded in both.                *)
EqualVar(s, l, r, auto) ==
  CASE ~auto                       -> [s EXCEPT !.ok = (l.ptr = r.ptr)]
    [] ~EqualType(l.ty, r.ty)      -> Fail(s)
    [] l.ptr \in DOMAIN s.l2r      -> [s EXCEPT !.ok = (s.l2r[l.ptr] = r.ptr)]
    [] r.ptr \in DOMAIN s.r2l /\ s.r2l[r.ptr] # l.ptr -> Fail(s)
    [] OTHER -> [s EXCEPT !.l2r = Put(@, l.ptr, r.ptr), !.r2l = Put(@, r.ptr, l.ptr)]

RECURSIVE Equal(_, _, _, _), EqualFields(_, _, _, _, _), EqualSeq(_, _, _, _)

(* Fast path on pointers, then TypeName, then EqualVar or the fields.     *)
Equal(s, l, r, auto) ==
  CASE ~s.ok            -> s
    [] l.ptr = r.ptr    -> s
    [] l.kind # r.kind  -> Fail(s)
    [] l.kind = "Var"   -> EqualVar(s, l, r, auto)
    [] OTHER            -> EqualFields(s, l, r, Fields(l.kind), auto)

(* Sequences compare by length, then element by element.                  *)
EqualSeq(s, ls, rs, auto) ==
  CASE ~s.ok            -> s
    [] Len(ls) # Len(rs) -> Fail(s)
    [] ls = << >>       -> s
    [] OTHER            -> EqualSeq(Equal(s, Head(ls), Head(rs), auto), Tail(ls), Tail(rs), auto)

EqualValue(s, a, b, val, auto) ==
  CASE val = "leaf" -> [s EXCEPT !.ok = (a = b)]
    [] val = "node" -> Equal(s, a, b, auto)
    [] OTHER        -> EqualSeq(s, a, b, auto)

(* VisitIgnoreField does nothing; VisitDefField swaps auto-mapping on.    *)
VisitField(s, l, r, f, auto) ==
  CASE f.how = "ignore" -> s
    [] f.how = "def"    -> EqualValue(s, l[f.name], r[f.name], f.val, TRUE)
    [] OTHER            -> EqualValue(s, l[f.name], r[f.name], f.val, auto)

EqualFields(s, l, r, fs, auto) ==
  IF ~s.ok \/ fs = << >> THEN s
  ELSE EqualFields(VisitField(s, l, r, Head(fs), auto), l, r, Tail(fs), auto)

StructuralEqualOf(l, r, auto) ==
  Equal([ok |-> TRUE, l2r |-> EmptyMap, r2l |-> EmptyMap], l, r, auto).ok

----------------------------------------------------------------------------
(* structural_hash.  The algorithm is not in the repository; spec 4.5     *)
(* says: combine over the type name, then over each descriptor,          *)
(* IgnoreField skipped, UsualField and DefField folded in; a Var hashes   *)
(* its type only under auto-mapping, else a per-program identity number,  *)
(* here the order in which the traversal first meets the Var.  A child's  *)
(* hash is computed from seed 0 and folded into its parent's.             *)

(* TLC's integers are 32-bit: the words are at most 16 bits wide, and    *)
(* 0x9e3779b9 is reduced from its two halves 0x9e37 and 0x79b9.            *)
ASSUME HashBits \in 1 .. 16
Word == 2 ^ HashBits
Golden == (40503 * (65536 % Word) + 31161) % Word

hash_combine(seed, value) ==
  seed ^^ ((value + Golden + ((seed * 64) % Word) + shiftR(seed, 2)) % Word)

(* Hash codes of the TypeNames, of the types and of the leaf values.      *)
KindCode(kind) ==
  CASE kind = "Var" -> 1 [] kind = "ConstInt" -> 2 [] kind = "Add" -> 3
    [] kind = "AssignStmt" -> 4 [] kind = "SeqStmts" -> 5 [] kind = "Function" -> 6
TypeHash(ty) == IF ty = TensorT THEN 8 ELSE 7

(* The hash state h = [val, ids]: the hash so far and the identity        *)
(* numbers handed out.                                                     *)
HashVar(h, v, auto) ==
  CASE auto -> [h EXCEPT !.val = hash_combine(@, TypeHash(v.ty))]
    [] v.ptr \in DOMAIN h.ids -> [h EXCEPT !.val = hash_combine(@, h.ids[v.ptr])]
    [] OTHER -> [h EXCEPT !.val = hash_combine(@, Cardinality(DOMAIN h.ids)),
                          !.ids = Put(@, v.ptr, Cardinality(DOMAIN h.ids))]

RECURSIVE HashNode(_, _, _), HashFields(_, _, _, _), HashSeq(_, _, _)

(* The hash of node n, from seed 0, with the identity numbers of ids.     *)
HashNode(ids, n, auto) ==
  LET h == [val |-> hash_combine(0, KindCode(n.kind)), ids |-> ids] IN
  IF n.kind = "Var" THEN HashVar(h, n, auto) ELSE HashFields(h, n, Fields(n.kind), auto)

Fold(h, child) == [val |-> hash_combine(h.val, child.val), ids |-> child.ids]

HashSeq(h, ns, auto) ==
  IF ns = << >> THEN h ELSE HashSeq(Fold(h, HashNode(h.ids, Head(ns), auto)), Tail(ns), auto)

HashValue(h, x, val, auto) ==
  CASE val = "leaf" -> [h EXCEPT !.val = hash_combine(@, x)]
    [] val = "node" -> Fold(h, HashNode(h.ids, x, auto))
    [] OTHER        -> HashSeq([h EXCEPT !.val = hash_combine(@, Len(x))], x, auto)

(* Mutant of HashFields: IgnoreFields hashed too.                          *)
HashFieldsKeepIgnored(h, n, fs, auto) ==
  IF fs = << >> THEN h
  ELSE HashFields(HashValue(h, n[Head(fs).name], Head(fs).val, auto), n, Tail(fs), auto)

HashFields(h, n, fs, auto) ==
  CASE fs = << >> -> h
    [] Head(fs).how = "ignore" -> HashFields(h, n, Tail(fs), auto)
    [] OTHER -> HashFields(HashValue(h, n[Head(fs).name], Head(fs).val, auto), n, Tail(fs), auto)

StructuralHashOf(n, auto) == HashNode(EmptyMap, n, auto).val

----------------------------------------------------------------------------
(* One call of each function on a pair of nodes.                           *)

VARIABLES
  lhs, rhs,   (* The nodes compared.                                       *)
  auto,       (* enable_auto_mapping                                       *)
  equal,      (* structural_equal(lhs, rhs, auto)                          *)
  hashes,     (* <<structural_hash(lhs, auto), structural_hash(rhs, auto)>> *)
  raised,     (* assert_structural_equal(lhs, rhs, auto) threw ValueError.   *)
  called      (* The calls have returned.                                   *)

vars == <<lhs, rhs, auto, equal, hashes, raised, called>>

Init ==
  /\ \E p \in Pairs : lhs = p[1] /\ rhs = p[2]
  /\ auto \in BOOLEAN
  /\ equal = FALSE
  /\ hashes = <<0, 0>>
  /\ raised = FALSE
  /\ called = FALSE

(* assert_structural_equal runs the same comparison and throws when it     *)
(* fails; the message is left out.                                        *)
Compare ==
  /\ ~called
  /\ \E e \in {StructuralEqualOf(lhs, rhs, auto)} : equal' = e /\ raised' = ~e
  /\ hashes' = <<StructuralHashOf(lhs, auto), StructuralHashOf(rhs, auto)>>
  /\ called' = TRUE
  /\ UNCHANGED <<lhs, rhs, auto>>

Spec == Init /\ [][Compare]_vars

----------------------------------------------------------------------------
(* Alpha-equivalence, the reference for auto-mapping: some type-preserving *)
(* bijection between the Vars of lhs and those of rhs renames lhs into     *)
(* rhs, pointers of other nodes and IgnoreFields aside.                    *)

RECURSIVE VarsOf(_), Canon(_, _)
VarsOf(n) ==
  CASE n.kind = "Var" -> {n}
    [] OTHER -> UNION {CASE f.val = "node" -> VarsOf(n[f.name])
                         [] f.val = "nodes" -> UNION {VarsOf(n[f.name][i]) : i \in DOMAIN n[f.name]}
                         [] OTHER -> {} : f \in Range(Fields(n.kind))}

(* n with its Var pointers renamed by phi and everything else the         *)
(* comparison ignores erased.                                              *)
Canon(n, phi) ==
  CASE n.kind = "Var" -> [kind |-> "Var", ptr |-> phi[n.ptr], ty |-> n.ty]
    [] OTHER -> [f \in {g.name : g \in {g \in Range(Fields(n.kind)) : g.how # "ignore"}} |->
                   LET d == CHOOSE g \in Range(Fields(n.kind)) : g.name = f IN
                   CASE d.val = "node" -> Canon(n[f], phi)
                     [] d.val = "nodes" -> [i \in DOMAIN n[f] |-> Canon(n[f][i], phi)]
                     [] OTHER -> n[f]] @@ [kind |-> n.kind]

PtrsOf(n) == {v.ptr : v \in VarsOf(n)}
TypeOfPtr(n, p) == (CHOOSE v \in VarsOf(n) : v.ptr = p).ty

AlphaEquivalent(l, r) ==
  \E phi \in Bijection(PtrsOf(l), PtrsOf(r)) :
    /\ \A p \in PtrsOf(l) : TypeOfPtr(l, p) = TypeOfPtr(r, phi[p])
    /\ Canon(l, phi) = Canon(r, [p \in PtrsOf(r) |-> p])

----------------------------------------------------------------------------
(* With auto-mapping, structural_equal is alpha-equivalence: it accepts    *)
(* two nodes exactly when one bijection of their Vars renames one into    *)
(* the other.  The two maps EqualVar keeps must together refuse mapping   *)
(* one Var to two, or two to one, across the whole traversal.             *)
AutoMappingIsAlphaEquivalence ==
  called /\ auto => (equal <=> AlphaEquivalent(lhs, rhs))

(* Nodes structural_equal accepts hash equal in the same mode (the        *)
(* "Hash Consistency Guarantee"): the hash must ignore what the comparison *)
(* ignores and number Vars the way the comparison maps them.              *)
HashAgreesWithEqual ==
  called /\ equal => hashes[1] = hashes[2]
=============================================================================

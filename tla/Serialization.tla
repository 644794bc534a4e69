--------------------------- MODULE Serialization ---------------------------
(***************************************************************************)
(* IRSerializer (serialization/serializer.h) and the deserializer that     *)
(* reads its output back.  The header gives the serializer's mechanism: a  *)
(* reference table of the nodes already serialized, keyed by pointer, and *)
(* a reference emitted for every later occurrence of the same pointer.     *)
(* Every field of a node is written, IgnoreFields included, in the order  *)
(* of its field descriptors.  The MessagePack encoding is left out: an     *)
(* output is a tree of records, a first occurrence carrying its table      *)
(* index `id' and a later one only a reference to it.                      *)
(*                                                                         *)
(* The deserializer is not in the repository; the spec gives its          *)
(* contract (pointer-equal subtrees come back pointer-equal).  It builds a *)
(* node after its fields, gives it a fresh pointer and records it under    *)
(* its id; a reference returns the node recorded.                          *)
(***************************************************************************)
EXTENDS StructuralEqual

(* The fresh pointers of the deserialized nodes start above every input's. *)
FirstFreshPtr == 1000

----------------------------------------------------------------------------
(* Serialization.  r = [table, out]: the reference table (pointer -> id)  *)
(* and the value written.                                                  *)

RECURSIVE Ser(_, _), SerFields(_, _, _, _), SerSeq(_, _, _)

(* Mutant of Ser: no reference table consulted; every occurrence written   *)
(* in full under a new id.                                                 *)
SerNoRefTable(table, n) ==
  LET id == Cardinality(DOMAIN table)
      t0 == Put(table, n.ptr + 10000 * id, id)
      hd == [tag |-> "node", id |-> id, kind |-> n.kind]
  IN IF n.kind = "Var" THEN [table |-> t0, out |-> ("ty" :> n.ty) @@ hd]
     ELSE SerFields(t0, n, Fields(n.kind), hd)

Ser(table, n) ==
  IF n.ptr \in DOMAIN table
  THEN [table |-> table, out |-> [tag |-> "ref", id |-> table[n.ptr]]]
  ELSE LET id == Cardinality(DOMAIN table)
           t0 == Put(table, n.ptr, id)
           hd == [tag |-> "node", id |-> id, kind |-> n.kind]
       IN IF n.kind = "Var" THEN [table |-> t0, out |-> ("ty" :> n.ty) @@ hd]
          ELSE SerFields(t0, n, Fields(n.kind), hd)

SerFields(table, n, fs, acc) ==
  IF fs = << >> THEN [table |-> table, out |-> acc]
  ELSE LET f == Head(fs)
           r == CASE f.val = "leaf" -> [table |-> table, out |-> n[f.name]]
                  [] f.val = "node" -> Ser(table, n[f.name])
                  [] OTHER          -> SerSeq(table, n[f.name], << >>)
       IN SerFields(r.table, n, Tail(fs), (f.name :> r.out) @@ acc)

SerSeq(table, ns, acc) ==
  IF ns = << >> THEN [table |-> table, out |-> acc]
  ELSE LET r == Ser(table, Head(ns)) IN SerSeq(r.table, Tail(ns), Append(acc, r.out))

(* IRSerializer::Serialize, and the free Serialize that builds one.       *)
Serialize(n) == Ser(EmptyMap, n).out

----------------------------------------------------------------------------
(* Deserialization.  d = [nodes, next]: the nodes built, by id, and the    *)
(* next fresh pointer; a result is [d, node].                              *)

RECURSIVE Des(_, _), DesFields(_, _, _, _), DesSeq(_, _, _)

Des(d, t) ==
  IF t.tag = "ref" THEN [d |-> d, node |-> d.nodes[t.id]]
  ELSE LET built == IF t.kind = "Var" THEN [d |-> d, node |-> [kind |-> "Var", ty |-> t.ty]]
                    ELSE DesFields(d, t, Fields(t.kind), [kind |-> t.kind])
           node  == ("ptr" :> built.d.next) @@ built.node
       IN [d |-> [nodes |-> Put(built.d.nodes, t.id, node), next |-> built.d.next + 1],
           node |-> node]

DesFields(d, t, fs, acc) ==
  IF fs = << >> THEN [d |-> d, node |-> acc]
  ELSE LET f == Head(fs)
           r == CASE f.val = "leaf" -> [d |-> d, node |-> t[f.name]]
                  [] f.val = "node" -> Des(d, t[f.name])
                  [] OTHER          -> DesSeq(d, t[f.name], << >>)
       IN DesFields(r.d, t, Tail(fs), (f.name :> r.node) @@ acc)

DesSeq(d, ts, acc) ==
  IF ts = << >> THEN [d |-> d, node |-> acc]
  ELSE LET r == Des(d, Head(ts)) IN DesSeq(r.d, Tail(ts), Append(acc, r.node))

Deserialize(t) == Des([nodes |-> EmptyMap, next |-> FirstFreshPtr], t).node

----------------------------------------------------------------------------
(* The reference: a node's subtrees by path, a path being the positions   *)
(* of the children taken, in field-descriptor order.                     *)

RECURSIVE FieldChildren(_, _)
FieldChildren(n, fs) ==
  IF fs = << >> THEN << >>
  ELSE (CASE Head(fs).val = "node"  -> << n[Head(fs).name] >>
          [] Head(fs).val = "nodes" -> n[Head(fs).name]
          [] OTHER                  -> << >>) \o FieldChildren(n, Tail(fs))
Children(n) == IF n.kind = "Var" THEN << >> ELSE FieldChildren(n, Fields(n.kind))

RECURSIVE Paths(_), At(_, _)
Paths(n) == {<< >>} \cup UNION {{<<i>> \o p : p \in Paths(Children(n)[i])} : i \in DOMAIN Children(n)}
At(n, p) == IF p = << >> THEN n ELSE At(Children(n)[Head(p)], Tail(p))

(* What a node holds besides its pointer and its children.                 *)
Label(n) ==
  [f \in {g \in DOMAIN n : g = "kind" \/ g = "ty" \/
            \E fd \in Range(IF n.kind = "Var" THEN << >> ELSE Fields(n.kind)) :
               fd.name = g /\ fd.val = "leaf"} |-> n[f]]

(* Within one tree, one pointer is one node.                               *)
WellShared(n) == \A p, q \in Paths(n) : At(n, p).ptr = At(n, q).ptr => At(n, p) = At(n, q)

----------------------------------------------------------------------------
(* The pointer-sharing round trip: deserializing what Serialize writes    *)
(* gives back the same tree, and two of its subtrees are pointer-equal    *)
(* exactly when they were before.  The reference table must key on the    *)
(* pointer and the references must resolve to the node of the same id.    *)
RoundTripPreservesSharing ==
  \A n \in {lhs, rhs} :
    LET d == Deserialize(Serialize(n)) IN
    /\ Paths(d) = Paths(n)
    /\ \A p \in Paths(n) : Label(At(d, p)) = Label(At(n, p))
    /\ \A p, q \in Paths(n) : (At(n, p).ptr = At(n, q).ptr) <=> (At(d, p).ptr = At(d, q).ptr)
====

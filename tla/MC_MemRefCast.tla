-------------------------- MODULE MC_MemRefCast ---------------------------
(***************************************************************************)
(* Model-checking instance of MemRefCast: memrefs of rank 1 and 2 with     *)
(* sizes, strides and offsets of 0, 1, 2 or dynamic, against the allocas of   *)
(* vectors of one or two lanes per dimension.                              *)
(***************************************************************************)
EXTENDS MemRefCast

MCRanks == {1, 2}
MCSizes == {0, 1, 2}

(* A layout that is not strided carries no strides: fix them to one value. *)
Canonical(t) == t.strided \/ (t.strides = [i \in 1..t.rank |-> 1] /\ t.offset = 0)

(* Every memref type of the instance, in the given memory spaces.          *)
MemRefsIn(S) == {t \in Types : Canonical(t) /\ t.space \in S}

MCMemRefTypes == MemRefsIn({0})
MCAnySpaceMemRefTypes == MemRefsIn({0, 1})

(* memref<shape x elt>: static shape, identity layout, default space.      *)
MCAllocTypes ==
  { [rank |-> 1, shape |-> <<n>>, strided |-> TRUE, strides |-> <<1>>,
     offset |-> 0, space |-> 0] : n \in MCSizes \ {0} }
  \cup
  { [rank |-> 2, shape |-> <<m, n>>, strided |-> TRUE, strides |-> <<n, 1>>,
     offset |-> 0, space |-> 0] : m, n \in MCSizes \ {0} }
=============================================================================

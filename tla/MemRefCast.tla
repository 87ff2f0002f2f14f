----------------------------- MODULE MemRefCast -----------------------------
(***************************************************************************)
(* getCastCompatibleMemRefType: the memref type both arms of the split's   *)
(* scf.if cast their view to, computed from the transfer's memref type and *)
(* the alloca's type.  A memref type is abstracted to its rank, its shape, *)
(* its strides and offset when the layout is strided, and its memory       *)
(* space; the element type is the same on both sides and left out.         *)
(* memref::CastOp::areCastCompatible is not in this repository: it is      *)
(* modelled from the documented rules of memref.cast.                      *)
(***************************************************************************)
EXTENDS Integers

CONSTANTS
  Ranks,          \* ranks of the memrefs
  Sizes,          \* static sizes, strides and offsets
  Spaces,         \* memory spaces
  DefaultSpace,   \* the memory space of a type built without one
  Dynamic,        \* ShapedType::kDynamic
  NoType,         \* the null MemRefType
  MemRefTypes,    \* types of the transfer's memref
  AllocTypes      \* types of the alloca (static shape, identity layout)

Dim == Sizes \cup {Dynamic}

(* The memref types of rank r.                                             *)
TypesOfRank(r) ==
  [rank : {r}, shape : [1..r -> Dim], strided : BOOLEAN,
   strides : [1..r -> Dim], offset : Dim, space : Spaces]

Types == UNION {TypesOfRank(r) : r \in Ranks}

ASSUME TypesAssumption ==
  /\ Ranks \subseteq Nat
  /\ Sizes \subseteq Nat
  /\ DefaultSpace \in Spaces
  /\ Dynamic \notin Sizes
  /\ NoType \notin Types
  /\ MemRefTypes \subseteq Types
  /\ AllocTypes \subseteq Types

VARIABLES
  a,      \* xferOp.getShapedType()
  b,      \* alloc.getType()
  res,    \* the returned type, NoType for the null MemRefType
  pc      \* "call", "done"

vars == <<a, b, res, pc>>

(* Two sizes, strides or offsets agree unless both are static and differ.  *)
Compatible(x, y) == x = Dynamic \/ y = Dynamic \/ x = y

(***************************************************************************)
(* memref::CastOp::areCastCompatible for ranked memrefs: equal layouts, or *)
(* strided layouts of the same rank whose offsets and strides agree; the   *)
(* same memory space; the same rank; and sizes that agree.                 *)
(***************************************************************************)
AreCastCompatible(x, y) ==
  /\ \/ x.strided = y.strided /\ x.strides = y.strides /\ x.offset = y.offset
     \/ /\ x.strided /\ y.strided /\ x.rank = y.rank
        /\ Compatible(x.offset, y.offset)
        /\ \A i \in 1..x.rank : Compatible(x.strides[i], y.strides[i])
  /\ x.space = y.space
  /\ x.rank = y.rank
  /\ \A i \in 1..x.rank : Compatible(x.shape[i], y.shape[i])

(* A static value kept where both sides agree, kDynamic where they differ. *)
Agree(x, y) == IF x = y THEN x ELSE Dynamic

(* Fault-injection variant: the strided-layout check is dropped.          *)
GetCastCompatibleAnyLayout(x, y) ==
  IF AreCastCompatible(x, y) THEN x
  ELSE IF x.rank # y.rank THEN NoType
  ELSE [rank |-> x.rank,
        shape |-> [i \in 1..x.rank |-> Agree(x.shape[i], y.shape[i])],
        strided |-> TRUE,
        strides |-> [i \in 1..x.rank |-> Agree(x.strides[i], y.strides[i])],
        offset |-> Agree(x.offset, y.offset),
        space |-> DefaultSpace]

(* Fault-injection variant: a differing size keeps the first side's value. *)
GetCastCompatibleKeepFirst(x, y) ==
  IF AreCastCompatible(x, y) THEN x
  ELSE IF x.rank # y.rank \/ ~x.strided \/ ~y.strided THEN NoType
  ELSE [rank |-> x.rank,
        shape |-> x.shape,
        strided |-> TRUE,
        strides |-> [i \in 1..x.rank |-> Agree(x.strides[i], y.strides[i])],
        offset |-> Agree(x.offset, y.offset),
        space |-> DefaultSpace]

(***************************************************************************)
(* getCastCompatibleMemRefType: the first type if the two are cast-        *)
(* compatible; null if the ranks differ or a layout is not strided;        *)
(* otherwise the shape, strides and offset on which both agree, dynamic    *)
(* elsewhere, in a type built without a memory space.                      *)
(***************************************************************************)
GetCastCompatibleMemRefType(x, y) ==
  IF AreCastCompatible(x, y) THEN x
  ELSE IF x.rank # y.rank \/ ~x.strided \/ ~y.strided THEN NoType
  ELSE [rank |-> x.rank,
        shape |-> [i \in 1..x.rank |-> Agree(x.shape[i], y.shape[i])],
        strided |-> TRUE,
        strides |-> [i \in 1..x.rank |-> Agree(x.strides[i], y.strides[i])],
        offset |-> Agree(x.offset, y.offset),
        space |-> DefaultSpace]

Init ==
  /\ a \in MemRefTypes
  /\ b \in AllocTypes
  /\ res = NoType
  /\ pc = "call"

(* The call made after the alloca is placed.                               *)
Unify ==
  /\ pc = "call"
  /\ res' = GetCastCompatibleMemRefType(a, b)
  /\ pc' = "done"
  /\ UNCHANGED <<a, b>>

Next == Unify

Spec == Init /\ [][Next]_vars

-----------------------------------------------------------------------------
TypeOK ==
  /\ a \in MemRefTypes
  /\ b \in AllocTypes
  /\ res \in Types \cup {NoType}
  /\ pc \in {"call", "done"}

(***************************************************************************)
(* The unified type is a legal target of both casts: whenever a type is    *)
(* returned, the memref and the alloca are each cast-compatible with it,   *)
(* so the memref.cast ops the two arms of the scf.if emit verify.          *)
(***************************************************************************)
UnifiedCastCompatible ==
  pc = "done" /\ res # NoType =>
    AreCastCompatible(a, res) /\ AreCastCompatible(b, res)

(***************************************************************************)
(* The unifier fails only where the split cannot proceed: against the      *)
(* alloca's identity layout it returns null exactly when the memref's rank *)
(* differs from the vector's or its layout is not strided; this is the     *)
(* failure after the alloca that SplitRewrite takes for a rank-reduced     *)
(* transfer.                                                               *)
(***************************************************************************)
NullOnlyForRankOrLayout ==
  pc = "done" =>
    (res = NoType <=> (a.rank # b.rank \/ ~a.strided))
=============================================================================

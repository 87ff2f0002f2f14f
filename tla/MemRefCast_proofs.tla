-------------------------- MODULE MemRefCast_proofs -------------------------
(***************************************************************************)
(* Proofs about getCastCompatibleMemRefType for every rank, shape, stride  *)
(* and offset: in the default memory space the type it returns is a legal *)
(* cast target for both the memref and the alloca, and it returns null     *)
(* exactly for a rank mismatch or a layout that is not strided.            *)
(***************************************************************************)
EXTENDS MemRefCast, TLAPS

(* The fields of a memref type.                                            *)
LEMMA TypeFields ==
  ASSUME NEW x \in Types
  PROVE  /\ x.rank \in Ranks
         /\ x.shape \in [1..x.rank -> Dim]
         /\ x.strided \in BOOLEAN
         /\ x.strides \in [1..x.rank -> Dim]
         /\ x.offset \in Dim
         /\ x.space \in Spaces
  <1>1. PICK r \in Ranks : x \in TypesOfRank(r)
    BY DEF Types
  <1>2. x.rank = r
    BY <1>1 DEF TypesOfRank
  <1>. QED
    BY <1>1, <1>2 DEF TypesOfRank

(* Every type is cast-compatible with itself.                              *)
LEMMA CompatibleRefl ==
  ASSUME NEW x \in Types
  PROVE  AreCastCompatible(x, x)
  BY DEF AreCastCompatible, Compatible

(* Cast-compatibility is symmetric.                                        *)
LEMMA CompatibleSym ==
  ASSUME NEW x \in Types, NEW y \in Types, AreCastCompatible(x, y)
  PROVE  AreCastCompatible(y, x)
  BY DEF AreCastCompatible, Compatible

(* A value merged by Agree is compatible with both sides and is a Dim.     *)
LEMMA AgreeCompatible ==
  ASSUME NEW u \in Dim, NEW v \in Dim
  PROVE  /\ Compatible(u, Agree(u, v))
         /\ Compatible(v, Agree(u, v))
         /\ Agree(u, v) \in Dim
  BY DEF Compatible, Agree, Dim

(***************************************************************************)
(* The type built when the two are not cast-compatible: a memref type of   *)
(* their common rank, in the default space, compatible with both.          *)
(***************************************************************************)
LEMMA MergedType ==
  ASSUME NEW x \in Types, NEW y \in Types,
         x.rank = y.rank, x.strided, y.strided,
         x.space = DefaultSpace, y.space = DefaultSpace,
         NEW m,
         m = [rank |-> x.rank,
              shape |-> [i \in 1..x.rank |-> Agree(x.shape[i], y.shape[i])],
              strided |-> TRUE,
              strides |-> [i \in 1..x.rank |-> Agree(x.strides[i], y.strides[i])],
              offset |-> Agree(x.offset, y.offset),
              space |-> DefaultSpace]
  PROVE  /\ m \in Types
         /\ AreCastCompatible(x, m)
         /\ AreCastCompatible(y, m)
  <1>1. /\ x.shape \in [1..x.rank -> Dim] /\ x.strides \in [1..x.rank -> Dim]
        /\ y.shape \in [1..x.rank -> Dim] /\ y.strides \in [1..x.rank -> Dim]
        /\ x.offset \in Dim /\ y.offset \in Dim /\ x.rank \in Ranks
    BY TypeFields
  <1>2. \A i \in 1..x.rank :
          /\ Compatible(x.shape[i], m.shape[i])
          /\ Compatible(y.shape[i], m.shape[i])
          /\ Compatible(x.strides[i], m.strides[i])
          /\ Compatible(y.strides[i], m.strides[i])
          /\ m.shape[i] \in Dim /\ m.strides[i] \in Dim
    BY <1>1, AgreeCompatible
  <1>3. /\ Compatible(x.offset, m.offset) /\ Compatible(y.offset, m.offset)
        /\ m.offset \in Dim
    BY <1>1, AgreeCompatible
  <1>4. m \in TypesOfRank(x.rank)
    BY <1>1, <1>2, <1>3, TypesAssumption DEF TypesOfRank
  <1>5. m \in Types
    BY <1>1, <1>4 DEF Types
  <1>6. AreCastCompatible(x, m) /\ AreCastCompatible(y, m)
    BY <1>2, <1>3 DEF AreCastCompatible
  <1>. QED
    BY <1>5, <1>6

(***************************************************************************)
(* getCastCompatibleMemRefType is sound in the default memory space: when  *)
(* it returns a type, both inputs are cast-compatible with it.             *)
(***************************************************************************)
THEOREM UnifySound ==
  ASSUME NEW x \in Types, NEW y \in Types,
         x.space = DefaultSpace, y.space = DefaultSpace,
         GetCastCompatibleMemRefType(x, y) # NoType
  PROVE  /\ AreCastCompatible(x, GetCastCompatibleMemRefType(x, y))
         /\ AreCastCompatible(y, GetCastCompatibleMemRefType(x, y))
  <1>1. CASE AreCastCompatible(x, y)
    BY <1>1, CompatibleRefl, CompatibleSym DEF GetCastCompatibleMemRefType
  <1>2. CASE ~AreCastCompatible(x, y)
    <2>1. x.rank = y.rank /\ x.strided /\ y.strided
      BY <1>2, TypesAssumption DEF GetCastCompatibleMemRefType
    <2>. QED
      BY <1>2, <2>1, MergedType DEF GetCastCompatibleMemRefType
  <1>. QED
    BY <1>1, <1>2

(***************************************************************************)
(* Against a strided alloca type, getCastCompatibleMemRefType returns null *)
(* exactly when the ranks differ or the memref's layout is not strided.    *)
(***************************************************************************)
THEOREM UnifyNull ==
  ASSUME NEW x \in Types, NEW y \in Types,
         x.space = DefaultSpace, y.space = DefaultSpace, y.strided
  PROVE  GetCastCompatibleMemRefType(x, y) = NoType
           <=> (x.rank # y.rank \/ ~x.strided)
  <1>1. CASE x.rank # y.rank
    <2>1. ~AreCastCompatible(x, y)
      BY <1>1 DEF AreCastCompatible
    <2>. QED
      BY <1>1, <2>1 DEF GetCastCompatibleMemRefType
  <1>2. CASE x.rank = y.rank /\ ~x.strided
    <2>1. x.strided \in BOOLEAN /\ y.strided \in BOOLEAN
      BY TypeFields
    <2>2. ~AreCastCompatible(x, y)
      BY <1>2, <2>1 DEF AreCastCompatible
    <2>. QED
      BY <1>2, <2>2 DEF GetCastCompatibleMemRefType
  <1>3. CASE x.rank = y.rank /\ x.strided
    <2>1. CASE AreCastCompatible(x, y)
      BY <1>3, <2>1, TypesAssumption DEF GetCastCompatibleMemRefType
    <2>2. CASE ~AreCastCompatible(x, y)
      BY <1>3, <2>2, MergedType, TypesAssumption
         DEF GetCastCompatibleMemRefType
    <2>. QED
      BY <2>1, <2>2
  <1>. QED
    BY <1>1, <1>2, <1>3

-----------------------------------------------------------------------------
(* The hypotheses of the runs: memrefs in the default space, strided       *)
(* allocas in the default space.                                           *)
DefaultSpaceTypes ==
  /\ \A t \in MemRefTypes : t.space = DefaultSpace
  /\ \A t \in AllocTypes : t.space = DefaultSpace /\ t.strided

(* The result, once computed, is the function's value on the inputs.      *)
IInv ==
  /\ TypeOK
  /\ pc = "done" => res = GetCastCompatibleMemRefType(a, b)

LEMMA InitIInv == Init => IInv
  BY TypesAssumption DEF Init, IInv, TypeOK

LEMMA NextIInv == IInv /\ [Next]_vars => IInv'
  <1> SUFFICES ASSUME IInv, [Next]_vars PROVE IInv'
    OBVIOUS
  <1>1. CASE Unify
    <2>1. a \in Types /\ b \in Types
      BY TypesAssumption DEF IInv, TypeOK
    <2>2. GetCastCompatibleMemRefType(a, b) \in Types \cup {NoType}
      <3>1. CASE AreCastCompatible(a, b)
        BY <2>1, <3>1 DEF GetCastCompatibleMemRefType
      <3>2. CASE ~AreCastCompatible(a, b) /\ (a.rank # b.rank \/ ~a.strided \/ ~b.strided)
        BY <3>2 DEF GetCastCompatibleMemRefType
      <3>3. CASE ~AreCastCompatible(a, b) /\ a.rank = b.rank /\ a.strided /\ b.strided
        <4>1. a.shape \in [1..a.rank -> Dim] /\ a.strides \in [1..a.rank -> Dim]
              /\ b.shape \in [1..a.rank -> Dim] /\ b.strides \in [1..a.rank -> Dim]
              /\ a.offset \in Dim /\ b.offset \in Dim /\ a.rank \in Ranks
          BY <2>1, <3>3, TypeFields
        <4>2. \A i \in 1..a.rank : Agree(a.shape[i], b.shape[i]) \in Dim
                                  /\ Agree(a.strides[i], b.strides[i]) \in Dim
          BY <4>1, AgreeCompatible
        <4>3. Agree(a.offset, b.offset) \in Dim
          BY <4>1, AgreeCompatible
        <4>4. GetCastCompatibleMemRefType(a, b) \in TypesOfRank(a.rank)
          BY <3>3, <4>2, <4>3, TypesAssumption
             DEF GetCastCompatibleMemRefType, TypesOfRank
        <4>. QED
          BY <4>1, <4>4 DEF Types
      <3>. QED
        BY <3>1, <3>2, <3>3
    <2>. QED
      BY <1>1, <2>2 DEF Unify, IInv, TypeOK
  <1>2. CASE UNCHANGED vars
    BY <1>2 DEF vars, IInv, TypeOK
  <1>. QED
    BY <1>1, <1>2 DEF Next

(***************************************************************************)
(* The runs' invariants hold for every instance whose memrefs and allocas  *)
(* are in the default memory space.                                        *)
(***************************************************************************)
THEOREM UnifyCastsVerify ==
  ASSUME DefaultSpaceTypes
  PROVE  Spec => []UnifiedCastCompatible
  <1>1. IInv => UnifiedCastCompatible
    <2> SUFFICES ASSUME IInv, pc = "done", res # NoType
                 PROVE  AreCastCompatible(a, res) /\ AreCastCompatible(b, res)
      BY DEF UnifiedCastCompatible
    <2>1. a \in Types /\ b \in Types /\ a.space = DefaultSpace
          /\ b.space = DefaultSpace
      BY TypesAssumption DEF IInv, TypeOK, DefaultSpaceTypes
    <2>. QED
      BY <2>1, UnifySound DEF IInv
  <1>. QED
    BY <1>1, InitIInv, NextIInv, PTL DEF Spec

(* The null result of the runs' second invariant, for every instance.      *)
THEOREM UnifyNullOnlyForRankOrLayout ==
  ASSUME DefaultSpaceTypes
  PROVE  Spec => []NullOnlyForRankOrLayout
  <1>1. IInv => NullOnlyForRankOrLayout
    <2> SUFFICES ASSUME IInv, pc = "done"
                 PROVE  res = NoType <=> (a.rank # b.rank \/ ~a.strided)
      BY DEF NullOnlyForRankOrLayout
    <2>1. a \in Types /\ b \in Types /\ a.space = DefaultSpace
          /\ b.space = DefaultSpace /\ b.strided
      BY TypesAssumption DEF IInv, TypeOK, DefaultSpaceTypes
    <2>. QED
      BY <2>1, UnifyNull DEF IInv
  <1>. QED
    BY <1>1, InitIInv, NextIInv, PTL DEF Spec
=============================================================================

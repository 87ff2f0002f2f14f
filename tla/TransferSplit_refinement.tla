--------------------- MODULE TransferSplit_refinement ---------------------
(***************************************************************************)
(* Proofs that the split computes what the original masked transfer       *)
(* computes, for every rank and every bound on extents, and that it        *)
(* implements AtomicTransfer step by step.  They hold for the behaviours   *)
(* of NoCopyBackSpec (the LinalgCopy write copies back to the wrong place) *)
(* with indices that start at most at the memref extent (PastEnd = 0;     *)
(* past it, the LinalgCopy read copies with a negative size): runs         *)
(* write_copy_back and read_past_end show what fails otherwise.            *)
(***************************************************************************)
EXTENDS TransferSplit_proofs

(* The vector the original masked read produces, and the memory the       *)
(* original masked write leaves, from the initial memory.                 *)
RdRef ==
  TransferRead(MemInit(xfer.memShape), xfer.memShape, xfer.indices,
               xfer.vecShape, xfer.inBounds)

WrRef ==
  TransferWrite(MemInit(xfer.memShape), xfer.memShape, xfer.indices,
                VecOperand(xfer.vecShape), xfer.vecShape)

(* Every lane of the transfer lies inside the memref.                     *)
AllFit(x) == \A d \in Dims : x.indices[d] + x.vecShape[d] <= x.memShape[d]

(***************************************************************************)
(* What each stage of the split IR holds.  The memref is untouched until  *)
(* a write's in-bounds clone or copy-back; the ForceInBounds attribute is  *)
(* only ever set on a transfer that fits; the alloca a read yields holds   *)
(* the masked read already, and the one a write yields holds the whole    *)
(* vector operand by the time the copy-back runs.                         *)
(***************************************************************************)
EInv ==
  /\ ~(xfer.kind = "write" /\ options = "LinalgCopy")
  /\ options = "ForceInBounds" => AllFit(xfer)
  /\ xfer.kind = "write" => result = <<>>
  /\ pc \in {"split", "orig", "ifop", "access"} \/ xfer.kind = "read" =>
       mem = MemInit(xfer.memShape)
  /\ pc = "split" => inBounds = xfer.inBounds
  /\ pc = "orig" => inBounds = xfer.inBounds \/ AllFit(xfer)
  /\ pc \in {"ifop", "access", "copyback"} =>
       options \in {"LinalgCopy", "VectorTransfer"}
  /\ pc = "access" /\ view.buf = "alloc" => ~CondHolds
  /\ pc = "access" /\ view.buf = "alloc" /\ xfer.kind = "read" =>
       alloc = RdRef
  /\ pc = "copyback" =>
       \/ CondHolds /\ mem = WrRef
       \/ /\ ~CondHolds /\ mem = MemInit(xfer.memShape)
          /\ alloc = VecOperand(xfer.vecShape)
  /\ pc = "done" =>
       IF xfer.kind = "read" THEN result = RdRef ELSE mem = WrRef

FullInv == IInv /\ SplitInv /\ EInv

-----------------------------------------------------------------------------
(***************************************************************************)
(* Lemmas on the transfer operators.                                       *)
(***************************************************************************)

(* When every lane fits, the in_bounds flags do not matter: the read is   *)
(* the same masked or unmasked.                                            *)
LEMMA FitReadUnmasked ==
  ASSUME NEW x \in Xfers, AllFit(x), NEW buf, NEW f1, NEW f2
  PROVE  TransferRead(buf, x.memShape, x.indices, x.vecShape, f1)
           = TransferRead(buf, x.memShape, x.indices, x.vecShape, f2)
<1>1. \A l \in Box(x.vecShape) : OutDims(x.memShape, x.indices, l) = {}
  BY XferShapes DEF AllFit, OutDims, Box, Pos, Shapes
<1>2. QED
  BY <1>1 DEF TransferRead

(* An unmasked read of a whole one-vector alloca at offsets zero returns  *)
(* its content.                                                            *)
LEMMA AllocRead ==
  ASSUME NEW v \in Shapes, NEW a \in [Box(v) -> Cell]
  PROVE  TransferRead(a, v, Zero, v, AllTrue) = a
<1>1. ASSUME NEW l \in Box(v)
      PROVE  OutDims(v, Zero, l) = {} /\ Plus(Zero, l) = l
  BY DEF OutDims, Box, Pos, Zero, Plus, Shapes
<1>2. QED
  BY <1>1 DEF TransferRead

(* An unmasked write of a whole vector into a one-vector alloca at        *)
(* offsets zero leaves exactly the vector there.                           *)
LEMMA AllocWrite ==
  ASSUME NEW v \in Shapes, NEW a \in [Box(v) -> Cell]
  PROVE  TransferWrite(a, v, Zero, VecOperand(v), v) = VecOperand(v)
<1>1. ASSUME NEW p \in Box(v) PROVE Minus(p, Zero) = p
  BY DEF Box, Pos, Zero, Minus
<1>2. QED
  BY <1>1 DEF TransferWrite, VecOperand

(* The LinalgCopy slow path of a read: filling a one-vector alloca with   *)
(* the pad and copying the intersection of the memref and the vector into *)
(* it gives exactly the masked read, when the indices start at most at    *)
(* the memref extent (so the intersection sizes are not negative).       *)
LEMMA PaddedCopyIsMaskedRead ==
  ASSUME NEW x \in Xfers, \A d \in Dims : x.indices[d] <= x.memShape[d]
  PROVE  CopyOutcomes(MemInit(x.memShape), x.memShape, x.indices,
                      [l \in Box(x.vecShape) |-> Pad], x.vecShape, Zero,
                      OverlapSizes(x))
           = {TransferRead(MemInit(x.memShape), x.memShape, x.indices,
                           x.vecShape, x.inBounds)}
<1> DEFINE M == x.memShape  V == x.vecShape  I == x.indices
           S == OverlapSizes(x)  PadBuf == [l \in Box(V) |-> Pad]
<1> USE DEF M, V, I, S, PadBuf
<1>0. /\ M \in Shapes /\ V \in Shapes /\ I \in Pos
      /\ \A d \in Dims : V[d] >= 1
      /\ x.inBounds \in [Dims -> BOOLEAN]
      /\ \A d \in Dims : x.inBounds[d] => I[d] + V[d] <= M[d]
  <2>1. M \in Shapes /\ V \in Shapes /\ I \in Pos
    BY XferShapes
  <2>2. V \in [Dims -> VecExtents] /\ VecExtents \subseteq 1..MaxExtent
    BY ExtentAssumption DEF Xfers
  <2>3. /\ x.inBounds \in [Dims -> BOOLEAN]
        /\ \A d \in Dims : x.inBounds[d] => I[d] + V[d] <= M[d]
    BY DEF Xfers
  <2>4. ASSUME NEW d \in Dims PROVE V[d] >= 1
    <3>0. V[d] \in VecExtents
      BY <2>2
    <3>1. V[d] \in 1..MaxExtent
      BY <3>0, ExtentAssumption
    <3>2. QED
      BY <3>1, ExtentAssumption
  <2>5. QED
    BY <2>1, <2>3, <2>4
<1>1. \A d \in Dims : S[d] >= 0
  BY <1>0 DEF OverlapSizes, AffineMin, Shapes, Pos
<1>2. ASSUME NEW l \in Box(V)
      PROVE  Copy(MemInit(M), M, I, PadBuf, V, Zero, S)[l]
               = TransferRead(MemInit(M), M, I, V, x.inBounds)[l]
  <2>1. Minus(l, Zero) = l
    BY DEF Box, Pos, Zero, Minus
  <2>2. CASE l \in Box(S)
    <3>1. \A d \in Dims : I[d] + l[d] < M[d]
      BY <1>0, <2>2 DEF Box, Pos, OverlapSizes, AffineMin, Shapes
    <3>2. Plus(I, l) \in Pos
      <4>1. ASSUME NEW d \in Dims PROVE I[d] + l[d] \in 0..MaxExtent
        <5>1. /\ I[d] \in 0..MaxExtent /\ l[d] \in 0..MaxExtent
              /\ M[d] \in 0..MaxExtent
          BY <1>0 DEF Box, Pos, Shapes
        <5>2. QED
          BY <5>1, <3>1, ExtentAssumption
      <4>2. QED
        BY <4>1 DEF Plus, Pos
    <3>3. Plus(I, l) \in Box(M)
      BY <3>1, <3>2 DEF Box, Plus
    <3>5. OutDims(M, I, l) = {}
      BY <1>0, <3>1 DEF OutDims, Box, Pos, Shapes
    <3>4. QED
      BY <2>1, <2>2, <3>3, <3>5 DEF Copy, TransferRead
  <2>3. CASE l \notin Box(S)
    <3>1. PICK d \in Dims : ~(l[d] < S[d])
      BY <2>3, <2>1 DEF Box
    <3>2. d \in OutDims(M, I, l)
      BY <1>0, <3>1 DEF OverlapSizes, AffineMin, Box, Pos, Shapes, OutDims
    <3>3. \A e \in OutDims(M, I, l) : ~x.inBounds[e]
      BY <1>0 DEF OutDims, Box, Pos, Shapes
    <3>4. Copy(MemInit(M), M, I, PadBuf, V, Zero, S)[l] = Pad
      BY <2>1, <2>3 DEF Copy
    <3>5. TransferRead(MemInit(M), M, I, V, x.inBounds)[l] = Pad
      BY <3>2, <3>3 DEF TransferRead
    <3>6. QED
      BY <3>4, <3>5
  <2>4. QED
    BY <2>2, <2>3
<1>3. Copy(MemInit(M), M, I, PadBuf, V, Zero, S)
        = TransferRead(MemInit(M), M, I, V, x.inBounds)
  BY <1>2 DEF Copy, TransferRead
<1>4. QED
  BY <1>1, <1>3 DEF CopyOutcomes


-----------------------------------------------------------------------------
(* The fast path is taken only when every lane fits: the emitted          *)
(* condition covers every dimension that neither in_bounds nor constant   *)
(* folding already vouches for.                                           *)
LEMMA CondHoldsAllFit ==
  ASSUME NEW x \in Xfers, NEW c \in SUBSET Dims, c = InBoundsCond(x),
         \A d \in c : x.indices[d] + x.vecShape[d] <= x.memShape[d]
  PROVE  AllFit(x)
BY OmittedDimsFit DEF AllFit

LEMMA InitFullInv == NoCopyBackInit => FullInv
<1> SUFFICES ASSUME NoCopyBackInit PROVE FullInv
  OBVIOUS
<1>1. IInv /\ SplitInv
  BY InitIInv, InitSplitInv DEF NoCopyBackInit
<1>2. EInv
  BY DEF NoCopyBackInit, Init, EInv, AllFit
<1>3. QED
  BY <1>1, <1>2 DEF FullInv

(* The parts of the state no step changes, and what depends on them only. *)
LEMMA Frame ==
  ASSUME [Next]_vars
  PROVE  /\ xfer' = xfer /\ options' = options
         /\ RdRef' = RdRef /\ WrRef' = WrRef
         /\ AllFit(xfer') = AllFit(xfer)
         /\ MemInit(xfer'.memShape) = MemInit(xfer.memShape)
         /\ VecOperand(xfer'.vecShape) = VecOperand(xfer.vecShape)
<1>1. xfer' = xfer /\ options' = options
  <2>1. CASE SplitNone \/ SplitForceInBounds \/ SplitNoCond \/ SplitEmit
    BY <2>1 DEF SplitNone, SplitForceInBounds, SplitNoCond, SplitEmit
  <2>2. CASE ReadFastPath \/ ReadSlowCopy \/ ReadSlowReissue \/ ReadInBounds
    BY <2>2 DEF ReadFastPath, ReadSlowCopy, ReadSlowReissue, ReadInBounds
  <2>3. CASE WriteLocFast \/ WriteLocSlow \/ WriteInBounds
    BY <2>3 DEF WriteLocFast, WriteLocSlow, WriteInBounds
  <2>4. CASE CopyBackSkip \/ CopyBackLinalg \/ CopyBackReissue
    BY <2>4 DEF CopyBackSkip, CopyBackLinalg, CopyBackReissue
  <2>5. CASE OrigRead \/ OrigWrite
    BY <2>5 DEF OrigRead, OrigWrite
  <2>6. CASE UNCHANGED vars
    BY <2>6 DEF vars
  <2>7. QED
    BY <2>1, <2>2, <2>3, <2>4, <2>5, <2>6 DEF Next
<1>2. QED
  BY <1>1 DEF RdRef, WrRef


(***************************************************************************)
(* The inductive step.  PastEnd = 0 is used once, by the LinalgCopy read: *)
(* its copy then has sizes that are not negative.                          *)
(***************************************************************************)
LEMMA NextFullInv ==
  ASSUME PastEnd = 0
  PROVE  FullInv /\ [Next]_vars => FullInv'
<1> SUFFICES ASSUME FullInv, [Next]_vars PROVE FullInv'
  OBVIOUS
<1>1. IInv' /\ SplitInv'
  BY NextIInv, NextSplitInv DEF FullInv
<1>2. EInv'
  <2>0. IInv /\ SplitInv /\ EInv
    BY DEF FullInv
  <2>1. /\ xfer' = xfer /\ options' = options
        /\ RdRef' = RdRef /\ WrRef' = WrRef
        /\ AllFit(xfer') = AllFit(xfer)
        /\ MemInit(xfer'.memShape) = MemInit(xfer.memShape)
        /\ VecOperand(xfer'.vecShape) = VecOperand(xfer.vecShape)
    BY Frame
  <2>2. /\ xfer \in Xfers
        /\ xfer.memShape \in Shapes /\ xfer.vecShape \in Shapes
        /\ alloc \in {<<>>} \cup [Box(xfer.vecShape) -> Cell]
    BY <2>0, XferShapes DEF IInv, TypeOK
  <2> USE <2>0, <2>1
  <2>3. CASE SplitNone \/ SplitForceInBounds \/ SplitNoCond
    BY <2>3 DEF SplitNone, SplitForceInBounds, SplitNoCond, EInv
  <2>4. CASE SplitEmit
    BY <2>4 DEF SplitEmit, EInv
  <2>5. CASE ReadFastPath \/ WriteLocFast
    BY <2>5 DEF ReadFastPath, WriteLocFast, ToAccess, EInv
  <2>6. CASE WriteLocSlow
    <3>1. CondHolds' = CondHolds
      BY <2>6 DEF WriteLocSlow, CondHolds
    <3>2. QED
      BY <2>6, <3>1 DEF WriteLocSlow, ToAccess, EInv
  <2>7. CASE ReadSlowReissue
    <3>1. CondHolds' = CondHolds
      BY <2>7 DEF ReadSlowReissue, CondHolds
    <3>2. alloc' = RdRef
      BY <2>7 DEF ReadSlowReissue, EInv, RdRef
    <3>3. QED
      BY <2>7, <3>1, <3>2 DEF ReadSlowReissue, ToAccess, EInv
  <2>8. CASE ReadSlowCopy
    <3>1. CondHolds' = CondHolds
      BY <2>8 DEF ReadSlowCopy, CondHolds
    <3>2. /\ mem = MemInit(xfer.memShape)
          /\ alloc \in [Box(xfer.vecShape) -> Cell]
      BY <2>8 DEF ReadSlowCopy, EInv, IInv, AllocExists
    <3>3. \A d \in Dims : xfer.indices[d] <= xfer.memShape[d]
      <4>1. \A d \in Dims : xfer.indices[d] <= xfer.memShape[d] + PastEnd
        BY <2>2 DEF Xfers
      <4>2. \A d \in Dims : xfer.indices[d] \in Nat /\ xfer.memShape[d] \in Nat
        BY <2>2, XferShapes, ExtentAssumption DEF Shapes, Pos
      <4>3. QED
        BY <4>1, <4>2
    <3>4. alloc' \in CopyOutcomes(MemInit(xfer.memShape), xfer.memShape,
                                  xfer.indices,
                                  [l \in Box(xfer.vecShape) |-> Pad],
                                  xfer.vecShape, Zero, OverlapSizes(xfer))
      BY <2>8, <3>2 DEF ReadSlowCopy, SubViewIntersection, ShapeOf
    <3>5. alloc' = RdRef
      BY <2>2, <3>3, <3>4, PaddedCopyIsMaskedRead DEF RdRef
    <3>6. QED
      BY <2>8, <3>1, <3>5 DEF ReadSlowCopy, ToAccess, EInv
  <2>9. CASE ReadInBounds
    <3>1. result' = RdRef
      <4>1. CASE view = [buf |-> "memref", at |-> xfer.indices] /\ CondHolds
        <5>1. AllFit(xfer)
          <6>1. checks = InBoundsCond(xfer) /\ checks \in SUBSET Dims
            BY <2>9 DEF ReadInBounds, SplitInv, IInv, TypeOK
          <6>2. \A d \in checks :
                  xfer.indices[d] + xfer.vecShape[d] <= xfer.memShape[d]
            BY <4>1 DEF CondHolds
          <6>3. QED
            BY <2>2, <6>1, <6>2, CondHoldsAllFit
        <5>2. result' = TransferRead(MemInit(xfer.memShape), xfer.memShape,
                                     xfer.indices, xfer.vecShape, AllTrue)
          BY <2>9, <4>1 DEF ReadInBounds, EInv
        <5>3. QED
          BY <2>2, <5>1, <5>2, FitReadUnmasked DEF RdRef
      <4>2. CASE view = [buf |-> "alloc", at |-> Zero]
        <5>1. alloc = RdRef /\ alloc \in [Box(xfer.vecShape) -> Cell]
          BY <2>9, <4>2 DEF ReadInBounds, EInv, IInv, AllocExists
        <5>2. result' = TransferRead(alloc, xfer.vecShape, Zero,
                                     xfer.vecShape, AllTrue)
          BY <2>9, <4>2 DEF ReadInBounds
        <5>3. QED
          BY <2>2, <5>1, <5>2, AllocRead
      <4>3. QED
        BY <2>9, <4>1, <4>2 DEF ReadInBounds, SplitInv
    <3>2. QED
      BY <2>9, <3>1 DEF ReadInBounds, EInv
  <2>10. CASE WriteInBounds
    <3>1. CondHolds' = CondHolds
      BY <2>10 DEF WriteInBounds, CondHolds
    <3>2. CASE view = [buf |-> "memref", at |-> xfer.indices] /\ CondHolds
      <4>1. mem' = WrRef
        BY <2>10, <3>2 DEF WriteInBounds, EInv, WrRef
      <4>2. QED
        BY <2>10, <3>1, <3>2, <4>1 DEF WriteInBounds, EInv
    <3>3. CASE view = [buf |-> "alloc", at |-> Zero]
      <4>1. alloc \in [Box(xfer.vecShape) -> Cell] /\ ~CondHolds
        BY <2>10, <3>3 DEF WriteInBounds, EInv, IInv, AllocExists
      <4>2. alloc' = TransferWrite(alloc, xfer.vecShape, Zero,
                                   VecOperand(xfer.vecShape), xfer.vecShape)
        BY <2>10, <3>3 DEF WriteInBounds
      <4>3. alloc' = VecOperand(xfer.vecShape)
        BY <2>2, <4>1, <4>2, AllocWrite
      <4>4. mem' = MemInit(xfer.memShape)
        BY <2>10, <3>3 DEF WriteInBounds, EInv
      <4>5. QED
        BY <2>10, <3>1, <4>1, <4>3, <4>4 DEF WriteInBounds, EInv
    <3>4. QED
      BY <2>10, <3>2, <3>3 DEF WriteInBounds, SplitInv
  <2>11. CASE CopyBackSkip
    BY <2>11 DEF CopyBackSkip, EInv, IInv, CopyBackOfWrite
  <2>12. CASE CopyBackLinalg
    BY <2>12 DEF CopyBackLinalg, EInv, IInv, CopyBackOfWrite
  <2>13. CASE CopyBackReissue
    <3>1. mem' = WrRef
      BY <2>13 DEF CopyBackReissue, EInv, WrRef
    <3>2. QED
      BY <2>13, <3>1 DEF CopyBackReissue, EInv, IInv, CopyBackOfWrite
  <2>14. CASE OrigRead
    <3>1. result' = RdRef
      <4>1. result' = TransferRead(MemInit(xfer.memShape), xfer.memShape,
                                   xfer.indices, xfer.vecShape, inBounds)
        BY <2>14 DEF OrigRead, EInv
      <4>2. CASE inBounds = xfer.inBounds
        BY <4>1, <4>2 DEF RdRef
      <4>3. CASE AllFit(xfer)
        BY <2>2, <4>1, <4>3, FitReadUnmasked DEF RdRef
      <4>4. QED
        BY <2>14, <4>2, <4>3 DEF OrigRead, EInv
    <3>2. QED
      BY <2>14, <3>1 DEF OrigRead, EInv
  <2>15. CASE OrigWrite
    <3>1. mem' = WrRef
      BY <2>15 DEF OrigWrite, EInv, WrRef
    <3>2. QED
      BY <2>15, <3>1 DEF OrigWrite, EInv
  <2>16. CASE UNCHANGED vars
    <3>1. CondHolds' = CondHolds
      BY <2>16 DEF vars, CondHolds
    <3>2. QED
      BY <2>16, <3>1 DEF vars, EInv
  <2>17. QED
    BY <2>3, <2>4, <2>5, <2>6, <2>7, <2>8, <2>9, <2>10, <2>11, <2>12,
       <2>13, <2>14, <2>15, <2>16 DEF Next
<1>3. QED
  BY <1>1, <1>2 DEF FullInv


LEMMA FullInvariant ==
  ASSUME PastEnd = 0
  PROVE  NoCopyBackSpec => []FullInv
BY InitFullInv, NextFullInv, PTL DEF NoCopyBackSpec

-----------------------------------------------------------------------------
(***************************************************************************)
(* The split computes what the original transfer computes.                 *)
(***************************************************************************)

(* Run split_semantics's read invariant for every rank and extent: the    *)
(* rewritten read (fast path, LinalgCopy pad-fill-and-copy, or reissued   *)
(* masked read into the alloca) yields the vector of the masked read.     *)
THEOREM ReadEquivalent ==
  ASSUME PastEnd = 0
  PROVE  NoCopyBackSpec => []ReadEquivalence
<1>1. FullInv => ReadEquivalence
  BY DEF FullInv, EInv, ReadEquivalence, RdRef
<1>2. QED
  BY <1>1, FullInvariant, PTL

(* Run split_semantics's write invariant for every rank and extent: the   *)
(* rewritten write (fast path, or the alloca and the masked write-back of *)
(* createFullPartialVectorTransferWrite) leaves the memory of the masked  *)
(* write.                                                                  *)
THEOREM WriteEquivalent ==
  ASSUME PastEnd = 0
  PROVE  NoCopyBackSpec => []WriteEquivalence
<1>1. FullInv => WriteEquivalence
  BY DEF FullInv, EInv, WriteEquivalence, WrRef
<1>2. QED
  BY <1>1, FullInvariant, PTL

(* Run split_semantics's subview invariant for every rank and extent:     *)
(* when indices start at most at the memref extent, the memref.copy that  *)
(* createFullPartialLinalgCopy emits for a read has sizes that are not    *)
(* negative, reads inside the memref and writes inside the alloca.  Its   *)
(* write counterpart is never reached in these behaviours.                 *)
THEOREM SubviewsSafe ==
  ASSUME PastEnd = 0
  PROVE  NoCopyBackSpec => []SubviewsInBounds
<1>1. FullInv => SubviewsInBounds
  <2> SUFFICES ASSUME FullInv, CopyIsNext
               PROVE  LET cp == SubViewIntersection(xfer) IN
                      SubviewFits(cp.src, cp.sizes)
                        /\ SubviewFits(cp.dst, cp.sizes)
    BY DEF SubviewsInBounds
  <2>1. xfer \in Xfers /\ xfer.memShape \in Shapes /\ xfer.vecShape \in Shapes
        /\ xfer.indices \in Pos
    BY XferShapes DEF FullInv, IInv, TypeOK
  <2>2. pc = "ifop" /\ xfer.kind = "read"
    BY DEF CopyIsNext, FullInv, EInv, IInv, CopyBackOfWrite
  <2>3. ASSUME NEW d \in Dims
        PROVE  /\ OverlapSizes(xfer)[d] >= 0
               /\ xfer.indices[d] + OverlapSizes(xfer)[d] <= xfer.memShape[d]
               /\ Zero[d] + OverlapSizes(xfer)[d] <= xfer.vecShape[d]
    <3>1. /\ xfer.indices[d] <= xfer.memShape[d] + PastEnd
          /\ xfer.vecShape[d] \in VecExtents
      BY <2>1 DEF Xfers
    <3>2. /\ xfer.indices[d] \in 0..MaxExtent
          /\ xfer.memShape[d] \in 0..MaxExtent
          /\ xfer.vecShape[d] \in 1..MaxExtent
      BY <2>1, <3>1, ExtentAssumption DEF Shapes, Pos
    <3>3. QED
      BY <3>1, <3>2, ExtentAssumption DEF OverlapSizes, AffineMin, Zero
  <2>4. QED
    BY <2>2, <2>3 DEF SubViewIntersection, SubviewFits, ShapeOf
<1>2. QED
  BY <1>1, FullInvariant, PTL

-----------------------------------------------------------------------------
(***************************************************************************)
(* Refinement.  Under the mapping Atomic of TransferSplit, the split IR   *)
(* starts where the atomic transfer starts, every step before the last is *)
(* a stutter of it, and the last step is its Transfer.  The fairness half *)
(* of RefinesAtomic (the split does reach "done") is left to run          *)
(* split_semantics.                                                        *)
(***************************************************************************)
(* The tuple of the abstract variables under the mapping.                 *)
AtomicVars == Atomic!vars

(* AtomicTransfer and TransferSplit share the semantics of TransferSemantics. *)
LEMMA SharedSemantics ==
  ASSUME NEW b, NEW s, NEW a, NEW v, NEW f, NEW w
  PROVE  /\ Atomic!MemInit(s) = MemInit(s)
         /\ Atomic!VecOperand(s) = VecOperand(s)
         /\ Atomic!TransferRead(b, s, a, v, f) = TransferRead(b, s, a, v, f)
         /\ Atomic!TransferWrite(b, s, a, w, v) = TransferWrite(b, s, a, w, v)
BY DEF Atomic!MemInit, MemInit, Atomic!VecOperand, VecOperand,
       Atomic!TransferRead, TransferRead, Atomic!TransferWrite, TransferWrite,
       Atomic!OutDims, OutDims, Atomic!Box, Box, Atomic!Pos, Pos,
       Atomic!Dims, Dims, Atomic!Plus, Plus, Atomic!Minus, Minus

LEMMA InitRefines == NoCopyBackInit => Atomic!Init
BY SharedSemantics DEF NoCopyBackInit, Init, Atomic!Init, AbstractOps,
                       AbstractOp

LEMMA StepRefines ==
  FullInv /\ FullInv' /\ [Next]_vars => [Atomic!Transfer]_AtomicVars
<1> SUFFICES ASSUME FullInv, FullInv', [Next]_vars
             PROVE  [Atomic!Transfer]_AtomicVars
  OBVIOUS
<1>1. /\ xfer' = xfer
      /\ MemInit(xfer'.memShape) = MemInit(xfer.memShape)
      /\ RdRef' = RdRef /\ WrRef' = WrRef
  BY Frame
<1>2. CASE pc = "done"
  <2>1. UNCHANGED vars
    BY <1>2 DEF Next, SplitNone, SplitForceInBounds, SplitNoCond, SplitEmit,
       ReadFastPath, ReadSlowCopy, ReadSlowReissue, ReadInBounds,
       WriteLocFast, WriteLocSlow, WriteInBounds, CopyBackSkip,
       CopyBackLinalg, CopyBackReissue, OrigRead, OrigWrite
  <2>2. QED
    BY <2>1 DEF vars, AtomicVars, Atomic!vars
<1>3. CASE pc # "done" /\ pc' # "done"
  BY <1>1, <1>3 DEF AtomicVars, Atomic!vars
<1>4. CASE pc # "done" /\ pc' = "done"
  <2>1. CASE xfer.kind = "read"
    <3>1. /\ mem' = MemInit(xfer.memShape) /\ result' = RdRef
      BY <1>1, <1>4, <2>1 DEF FullInv, EInv
    <3>2. QED
      BY <1>1, <1>4, <2>1, <3>1, SharedSemantics
      DEF Atomic!Transfer, AbstractOp, RdRef
  <2>2. CASE xfer.kind # "read"
    <3>1. xfer.kind = "write"
      BY <2>2, KindAssumption DEF FullInv, IInv, TypeOK, Xfers
    <3>2. mem' = WrRef /\ result' = <<>>
      BY <1>1, <1>4, <3>1 DEF FullInv, EInv
    <3>3. QED
      BY <1>1, <1>4, <3>1, <3>2, SharedSemantics
      DEF Atomic!Transfer, AbstractOp, WrRef
  <2>3. QED
    BY <2>1, <2>2
<1>5. QED
  BY <1>2, <1>3, <1>4


(* The safety half of RefinesAtomic (run split_semantics) for every rank  *)
(* and extent: every behaviour of the rewritten IR, its scf.if branches,  *)
(* alloca and copies included, is a behaviour of Init and                 *)
(* [][Transfer]_vars of AtomicTransfer, the original transfer executed in *)
(* one atomic step.                                                        *)
THEOREM SplitRefinesAtomic ==
  ASSUME PastEnd = 0
  PROVE  NoCopyBackSpec => Atomic!Init /\ [][Atomic!Transfer]_AtomicVars
<1>1. NoCopyBackInit => Atomic!Init
  BY InitRefines
<1>2. FullInv /\ FullInv' /\ [Next]_vars => [Atomic!Transfer]_AtomicVars
  BY StepRefines
<1>3. NoCopyBackSpec => []FullInv
  BY FullInvariant
<1>4. QED
  BY <1>1, <1>2, <1>3, PTL DEF NoCopyBackSpec

=============================================================================

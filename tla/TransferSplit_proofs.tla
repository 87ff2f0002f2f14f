----------------------- MODULE TransferSplit_proofs -----------------------
(***************************************************************************)
(* Proofs about TransferSplit for every rank and every bound on extents.   *)
(***************************************************************************)
EXTENDS TransferSplit, TLAPS

(***************************************************************************)
(* Lemmas on the transfer and copy operators: each builds a buffer of the  *)
(* destination's shape whose cells are cells.                              *)
(***************************************************************************)
Shapes == [Dims -> 0..MaxExtent]

LEMMA TransferReadType ==
  ASSUME NEW shape \in Shapes, NEW at \in Pos, NEW vshape \in Shapes,
         NEW buf \in [Box(shape) -> Cell], NEW flags \in [Dims -> BOOLEAN]
  PROVE  TransferRead(buf, shape, at, vshape, flags) \in [Box(vshape) -> Cell]
<1> SUFFICES ASSUME NEW l \in Box(vshape)
             PROVE  /\ OutDims(shape, at, l) = {} => buf[Plus(at, l)] \in Cell
                    /\ {Pad, Garbage} \subseteq Cell
  BY DEF TransferRead
<1>1. OutDims(shape, at, l) = {} => Plus(at, l) \in Box(shape)
  BY ExtentAssumption DEF OutDims, Plus, Box, Pos, Shapes
<1>2. QED
  BY <1>1 DEF Cell

LEMMA TransferWriteType ==
  ASSUME NEW shape \in Shapes, NEW at \in Pos, NEW vshape \in Shapes,
         NEW buf \in [Box(shape) -> Cell], NEW vec \in [Box(vshape) -> Cell]
  PROVE  TransferWrite(buf, shape, at, vec, vshape) \in [Box(shape) -> Cell]
BY DEF TransferWrite

LEMMA CopyType ==
  ASSUME NEW srcShape \in Shapes, NEW dstShape \in Shapes,
         NEW src \in [Box(srcShape) -> Cell], NEW dst \in [Box(dstShape) -> Cell],
         NEW srcOff, NEW dstOff, NEW sizes
  PROVE  CopyOutcomes(src, srcShape, srcOff, dst, dstShape, dstOff, sizes)
           \subseteq [Box(dstShape) -> Cell]
<1>1. Copy(src, srcShape, srcOff, dst, dstShape, dstOff, sizes)
        \in [Box(dstShape) -> Cell]
  BY DEF Copy, Cell
<1>2. [p \in Box(dstShape) |-> IF p = dstOff THEN Garbage ELSE dst[p]]
        \in [Box(dstShape) -> Cell]
  BY DEF Cell
<1>3. QED
  BY <1>1, <1>2 DEF CopyOutcomes

LEMMA ContentType ==
  ASSUME NEW shape \in Shapes
  PROVE  /\ MemInit(shape) \in [Box(shape) -> Cell]
         /\ VecOperand(shape) \in [Box(shape) -> Cell]
BY DEF MemInit, VecOperand, Cell, Box

(* The shapes, indices and offsets of any transfer of the model.          *)
LEMMA XferShapes ==
  ASSUME NEW x \in Xfers
  PROVE  /\ x.memShape \in Shapes
         /\ x.vecShape \in Shapes
         /\ x.indices \in Pos
         /\ Zero \in Pos
<1>1. /\ x.memShape \in [Dims -> Extents]
      /\ x.vecShape \in [Dims -> VecExtents]
      /\ x.indices \in [Dims -> 0..MaxExtent]
  BY DEF Xfers
<1>2. /\ Extents \subseteq 0..MaxExtent
      /\ VecExtents \subseteq 0..MaxExtent
      /\ 0 \in 0..MaxExtent
  BY ExtentAssumption
<1>3. QED
  BY <1>1, <1>2 DEF Shapes, Pos, Zero

-----------------------------------------------------------------------------
(***************************************************************************)
(* Type correctness.  TypeOK alone is not inductive: the slow path fills, *)
(* copies into and reads from the alloca, so the invariant must also say  *)
(* that the alloca exists (has one vector's shape) from the moment the    *)
(* split is emitted.                                                       *)
(***************************************************************************)
AllocExists ==
  pc \in {"ifop", "access", "copyback"} =>
    alloc \in [Box(xfer.vecShape) -> Cell]

(* Only a write reaches the second scf.if, the copy back.                *)
CopyBackOfWrite == pc = "copyback" => xfer.kind = "write"

IInv == TypeOK /\ AllocExists /\ CopyBackOfWrite

LEMMA InitIInv == Init => IInv
<1> SUFFICES ASSUME Init PROVE IInv
  OBVIOUS
<1>1. xfer \in Xfers
  BY DEF Init
<1>2. mem \in [Box(xfer.memShape) -> Cell]
  BY <1>1, XferShapes, ContentType DEF Init
<1>3. view \in [buf : {"memref", "alloc"}, at : Pos]
  BY <1>1, XferShapes DEF Init
<1>4. inBounds \in [Dims -> BOOLEAN]
  BY <1>1 DEF Init, Xfers
<1>5. QED
  BY <1>1, <1>2, <1>3, <1>4 DEF Init, IInv, TypeOK, AllocExists,
                                CopyBackOfWrite

LEMMA NextIInv == IInv /\ [Next]_vars => IInv'
<1> SUFFICES ASSUME IInv, [Next]_vars PROVE IInv'
  OBVIOUS
<1> USE DEF IInv, TypeOK, AllocExists, CopyBackOfWrite
<1>0. /\ xfer.memShape \in Shapes /\ xfer.vecShape \in Shapes
      /\ xfer.indices \in Pos /\ Zero \in Pos
  BY XferShapes
<1>1. CASE SplitNone
  BY <1>1 DEF SplitNone
<1>2. CASE SplitForceInBounds
  BY <1>2 DEF SplitForceInBounds, AllTrue
<1>3. CASE SplitNoCond
  BY <1>3 DEF SplitNoCond
<1>4. CASE SplitEmit
  <2>1. InBoundsCond(xfer) \subseteq Dims
    BY DEF InBoundsCond
  <2>2. [l \in Box(xfer.vecShape) |-> Undef] \in [Box(xfer.vecShape) -> Cell]
    BY DEF Cell
  <2>3. QED
    BY <1>4, <2>1, <2>2 DEF SplitEmit
<1>5. CASE ReadFastPath
  BY <1>0, <1>5 DEF ReadFastPath, ToAccess
<1>6. CASE ReadSlowCopy
  <2> DEFINE cp == SubViewIntersection(xfer)
  <2>1. /\ ShapeOf(cp.src.buf) = xfer.memShape
        /\ ShapeOf(cp.dst.buf) = xfer.vecShape
    BY <1>6 DEF ReadSlowCopy, SubViewIntersection, ShapeOf
  <2>2. [l \in DOMAIN alloc |-> Pad] \in [Box(xfer.vecShape) -> Cell]
    BY <1>6 DEF ReadSlowCopy, Cell
  <2>3. alloc' \in [Box(xfer.vecShape) -> Cell]
    BY <1>0, <1>6, <2>1, <2>2, CopyType DEF ReadSlowCopy
  <2>4. QED
    BY <1>0, <1>6, <2>3 DEF ReadSlowCopy, ToAccess
<1>7. CASE ReadSlowReissue
  <2>1. alloc' \in [Box(xfer.vecShape) -> Cell]
    BY <1>0, <1>7, TransferReadType DEF ReadSlowReissue, Xfers
  <2>2. QED
    BY <1>0, <1>7, <2>1 DEF ReadSlowReissue, ToAccess
<1>8. CASE ReadInBounds
  <2>1. AllTrue \in [Dims -> BOOLEAN]
    BY DEF AllTrue
  <2>2. result' \in [Box(xfer.vecShape) -> Cell]
    BY <1>0, <1>8, <2>1, TransferReadType DEF ReadInBounds
  <2>3. QED
    BY <1>8, <2>1, <2>2 DEF ReadInBounds
<1>9. CASE WriteLocFast
  BY <1>0, <1>9 DEF WriteLocFast, ToAccess
<1>10. CASE WriteLocSlow
  BY <1>0, <1>10 DEF WriteLocSlow, ToAccess
<1>11. CASE WriteInBounds
  <2>1. VecOperand(xfer.vecShape) \in [Box(xfer.vecShape) -> Cell]
    BY <1>0, ContentType
  <2>2. /\ mem' \in [Box(xfer.memShape) -> Cell]
        /\ alloc' \in [Box(xfer.vecShape) -> Cell]
    BY <1>0, <1>11, <2>1, TransferWriteType DEF WriteInBounds
  <2>3. QED
    BY <1>11, <2>2 DEF WriteInBounds
<1>12. CASE CopyBackSkip
  BY <1>12 DEF CopyBackSkip
<1>13. CASE CopyBackLinalg
  <2> DEFINE cp == SubViewIntersection(xfer)
  <2>1. /\ ShapeOf(cp.src.buf) \in Shapes
        /\ ShapeOf(cp.dst.buf) \in Shapes
        /\ alloc \in [Box(ShapeOf(cp.src.buf)) -> Cell]
        /\ mem \in [Box(ShapeOf(cp.dst.buf)) -> Cell]
    BY <1>0, <1>13 DEF CopyBackLinalg, SubViewIntersection, ShapeOf
  <2>2. mem' \in [Box(xfer.memShape) -> Cell]
    BY <1>13, <2>1, CopyType DEF CopyBackLinalg, SubViewIntersection, ShapeOf
  <2>3. QED
    BY <1>13, <2>2 DEF CopyBackLinalg
<1>14. CASE CopyBackReissue
  <2>1. mem' \in [Box(xfer.memShape) -> Cell]
    BY <1>0, <1>14, TransferWriteType DEF CopyBackReissue
  <2>2. QED
    BY <1>14, <2>1 DEF CopyBackReissue
<1>15. CASE OrigRead
  <2>1. result' \in [Box(xfer.vecShape) -> Cell]
    BY <1>0, <1>15, TransferReadType DEF OrigRead
  <2>2. QED
    BY <1>15, <2>1 DEF OrigRead
<1>16. CASE OrigWrite
  <2>1. mem' \in [Box(xfer.memShape) -> Cell]
    BY <1>0, <1>16, ContentType, TransferWriteType DEF OrigWrite
  <2>2. QED
    BY <1>16, <2>1 DEF OrigWrite
<1>17. CASE UNCHANGED vars
  BY <1>17 DEF vars
<1>18. QED
  BY <1>1, <1>2, <1>3, <1>4, <1>5, <1>6, <1>7, <1>8, <1>9, <1>10, <1>11,
     <1>12, <1>13, <1>14, <1>15, <1>16, <1>17 DEF Next

(* The type invariant holds in every reachable state: every buffer keeps  *)
(* its shape and holds cells, whichever path the rewrite and the run take.*)
THEOREM TypeCorrect == Spec => []TypeOK
<1>1. Init => IInv
  BY InitIInv
<1>2. IInv /\ [Next]_vars => IInv'
  BY NextIInv
<1>3. IInv => TypeOK
  BY DEF IInv
<1>4. QED
  BY <1>1, <1>2, <1>3, PTL DEF Spec

-----------------------------------------------------------------------------
(***************************************************************************)
(* The fast path is in bounds.  Strengthening: once the split is emitted  *)
(* the run-time condition compares exactly the dimensions InBoundsCond    *)
(* selected, and the view the first scf.if yields is either the memref at *)
(* the transfer indices, taken only when the condition held, or the       *)
(* alloca at offsets zero.                                                 *)
(***************************************************************************)
SplitInv ==
  /\ pc \in {"ifop", "access", "copyback"} => checks = InBoundsCond(xfer)
  /\ pc = "access" =>
       \/ view = [buf |-> "memref", at |-> xfer.indices] /\ CondHolds
       \/ view = [buf |-> "alloc", at |-> Zero]

LEMMA InitSplitInv == Init => SplitInv
BY DEF Init, SplitInv

LEMMA NextSplitInv == IInv /\ SplitInv /\ [Next]_vars => SplitInv'
<1> SUFFICES ASSUME IInv, SplitInv, [Next]_vars PROVE SplitInv'
  OBVIOUS
<1> USE DEF SplitInv
<1>1. CASE SplitNone \/ SplitForceInBounds \/ SplitNoCond
  BY <1>1 DEF SplitNone, SplitForceInBounds, SplitNoCond
<1>2. CASE SplitEmit
  BY <1>2 DEF SplitEmit
<1>3. CASE ReadFastPath \/ WriteLocFast
  BY <1>3 DEF ReadFastPath, WriteLocFast, ToAccess, CondHolds
<1>4. CASE ReadSlowCopy \/ ReadSlowReissue \/ WriteLocSlow
  BY <1>4 DEF ReadSlowCopy, ReadSlowReissue, WriteLocSlow, ToAccess
<1>5. CASE ReadInBounds \/ WriteInBounds
  BY <1>5 DEF ReadInBounds, WriteInBounds
<1>6. CASE CopyBackSkip \/ CopyBackLinalg \/ CopyBackReissue
  BY <1>6 DEF CopyBackSkip, CopyBackLinalg, CopyBackReissue
<1>7. CASE OrigRead \/ OrigWrite
  BY <1>7 DEF OrigRead, OrigWrite
<1>8. CASE UNCHANGED vars
  BY <1>8 DEF vars, CondHolds
<1>9. QED
  BY <1>1, <1>2, <1>3, <1>4, <1>5, <1>6, <1>7, <1>8 DEF Next

(* Every dimension InBoundsCond leaves out is in bounds by the op's own    *)
(* in_bounds attribute or by constant folding.                            *)
LEMMA OmittedDimsFit ==
  ASSUME NEW x \in Xfers, NEW d \in Dims, d \notin InBoundsCond(x)
  PROVE  x.indices[d] + x.vecShape[d] <= x.memShape[d]
BY DEF Xfers, InBoundsCond

LEMMA FInvFastPath == IInv /\ SplitInv => FastPathInBounds
<1> SUFFICES ASSUME IInv, SplitInv, pc = "access", NEW d \in Dims
             PROVE  view.at[d] + xfer.vecShape[d] <= ShapeOf(view.buf)[d]
  BY DEF FastPathInBounds
<1>1. xfer \in Xfers /\ xfer.vecShape \in Shapes /\ xfer.memShape \in Shapes
  BY XferShapes DEF IInv, TypeOK
<1>2. CASE view = [buf |-> "memref", at |-> xfer.indices] /\ CondHolds
  <2>1. CASE d \in checks
    BY <1>2, <2>1 DEF CondHolds, ShapeOf
  <2>2. CASE d \notin checks
    BY <1>1, <1>2, <2>2, OmittedDimsFit DEF SplitInv, ShapeOf
  <2>3. QED
    BY <2>1, <2>2
<1>3. CASE view = [buf |-> "alloc", at |-> Zero]
  BY <1>1, <1>3 DEF ShapeOf, Zero, Shapes
<1>4. QED
  BY <1>2, <1>3 DEF SplitInv

(* The transfer the rewrite marks all in-bounds never leaves the buffer   *)
(* it is given, for every rank and every extent: the emitted inBoundsCond *)
(* covers every dimension that is neither marked in-bounds nor folded.    *)
THEOREM FastPathSafe == Spec => []FastPathInBounds
<1>1. Init => IInv /\ SplitInv
  BY InitIInv, InitSplitInv
<1>2. IInv /\ SplitInv /\ [Next]_vars => (IInv /\ SplitInv)'
  BY NextIInv, NextSplitInv
<1>3. IInv /\ SplitInv => FastPathInBounds
  BY FInvFastPath
<1>4. QED
  BY <1>1, <1>2, <1>3, PTL DEF Spec

=============================================================================

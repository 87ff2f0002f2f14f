--------------------------- MODULE TransferSplit ---------------------------
(***************************************************************************)
(* One vector.transfer_read or vector.transfer_write rewritten by          *)
(* splitFullAndPartialTransfer (VectorTransferSplitRewritePatterns.cpp)    *)
(* and then executed.                                                      *)
(*                                                                         *)
(* The first step is the rewrite itself (compile time): it either leaves  *)
(* the operation as it is, forces it in-bounds, or emits the scf.if split  *)
(* guarded by the in-bounds condition.  The remaining steps execute the    *)
(* IR the rewrite produced, one step per emitted region: the scf.if that   *)
(* yields the (view, indices) pair, the fully in-bounds transfer, and for  *)
(* writes the scf.if that copies the scratch buffer back.  The original,   *)
(* masked transfer is the reference: the split form must observe the same  *)
(* vector (reads) or leave the same memory (writes).                       *)
(*                                                                         *)
(* Data is abstracted to where it came from: memory cell p initially holds *)
(* [from |-> "mem", at |-> p], lane l of the written vector holds          *)
(* [from |-> "vec", at |-> l], so any misplaced element is visible.        *)
(***************************************************************************)
EXTENDS TransferSemantics, FiniteSets

CONSTANTS
  Extents,     \* memref extents the model enumerates
  VecExtents,  \* vector extents the model enumerates
  PastEnd,     \* how far past the memref extent an index may start
  Kinds,       \* subset of {"read", "write"}
  Strategies   \* subset of VectorTransferSplit values

ASSUME ExtentAssumption ==
  /\ MaxExtent \in Nat
  /\ Extents \subseteq 0..MaxExtent
  /\ VecExtents \subseteq 1..MaxExtent
  /\ PastEnd \in Nat
ASSUME KindAssumption == Kinds \subseteq {"read", "write"}
ASSUME StrategyAssumption ==
  Strategies \subseteq {"None", "ForceInBounds", "LinalgCopy", "VectorTransfer"}

(***************************************************************************)
(* The transfer operations the program can contain: equal ranks, a         *)
(* minor-identity map, no mask, some dimension not marked in-bounds        *)
(* (hasOutOfBoundsDim), and an in_bounds attribute that is true only where *)
(* the access really is in bounds.  Indices start at most PastEnd beyond   *)
(* the memref extent.                                                      *)
(***************************************************************************)
Xfers ==
  {x \in [kind : Kinds, memShape : [Dims -> Extents],
          vecShape : [Dims -> VecExtents], indices : [Dims -> 0..MaxExtent],
          inBounds : [Dims -> BOOLEAN], idxStatic : [Dims -> BOOLEAN],
          dimStatic : [Dims -> BOOLEAN]] :
     /\ \E d \in Dims : ~x.inBounds[d]
     /\ \A d \in Dims :
          /\ x.indices[d] <= x.memShape[d] + PastEnd
          /\ x.inBounds[d] => x.indices[d] + x.vecShape[d] <= x.memShape[d]}

VARIABLES
  xfer,      \* the transfer operation being rewritten (fixed)
  options,   \* options.vectorTransferSplit
  inBounds,  \* the op's in_bounds attribute, as the rewrite leaves it
  checks,    \* dimensions compared at run time by the emitted inBoundsCond
  mem,       \* contents of the transfer's memref
  alloc,     \* contents of the scratch alloca (<<>> before it exists)
  view,      \* the (memref, indices) pair yielded by the first scf.if
  result,    \* the vector a read produces (<<>> before it runs)
  pc         \* which part of the rewritten IR executes next

vars == <<xfer, options, inBounds, checks, mem, alloc, view, result, pc>>

(* memref.copy of a subview (offset srcOff of src) into a subview        *)
(* (offset dstOff of dst), both with unit strides and sizes `sizes`.  A   *)
(* negative size is undefined: nothing is copied, or the element at the   *)
(* destination origin is clobbered.                                       *)
Copy(src, srcShape, srcOff, dst, dstShape, dstOff, sizes) ==
  [p \in Box(dstShape) |->
     IF Minus(p, dstOff) \in Box(sizes)
     THEN IF Plus(srcOff, Minus(p, dstOff)) \in Box(srcShape)
          THEN src[Plus(srcOff, Minus(p, dstOff))] ELSE Garbage
     ELSE dst[p]]

CopyOutcomes(src, srcShape, srcOff, dst, dstShape, dstOff, sizes) ==
  IF \A d \in Dims : sizes[d] >= 0
  THEN {Copy(src, srcShape, srcOff, dst, dstShape, dstOff, sizes)}
  ELSE {dst} \cup
       {[p \in Box(dstShape) |-> IF p = dstOff THEN Garbage ELSE dst[p]]}

(***************************************************************************)
(* createInBoundsCond: the dimensions that get a run-time comparison.  A   *)
(* dimension marked in-bounds is skipped; one whose index and extent are   *)
(* both constants folds away when index + vector size <= extent.           *)
(***************************************************************************)
InBoundsCond(x) ==
  {d \in Dims :
     /\ ~x.inBounds[d]
     /\ ~(x.idxStatic[d] /\ x.dimStatic[d]
          /\ x.indices[d] + x.vecShape[d] <= x.memShape[d])}

(* Fault-injection variant: compares only the first element's index.   *)
CondHoldsIndexOnly ==
  \A d \in checks : xfer.indices[d] < xfer.memShape[d]

(* The value of the emitted conjunction of arith.cmpi sle.                *)
CondHolds ==
  \A d \in checks : xfer.indices[d] + xfer.vecShape[d] <= xfer.memShape[d]

(***************************************************************************)
(* createSubViewIntersection: per dimension                                *)
(* affine_min(dim(memref) - index, dim(alloc)); the copy source is a       *)
(* subview at the transfer indices and the destination one at offsets 0,   *)
(* the memref being the source for a read and the alloca for a write.      *)
(***************************************************************************)
AffineMin(a, b) == IF a <= b THEN a ELSE b

(* Fault-injection variant: the overlap is not bounded by the alloca.    *)
OverlapSizesNoAllocBound(x) ==
  [d \in Dims |-> x.memShape[d] - x.indices[d]]

OverlapSizes(x) ==
  [d \in Dims |-> AffineMin(x.memShape[d] - x.indices[d], x.vecShape[d])]

SubViewIntersection(x) ==
  LET isaWrite == x.kind = "write" IN
  [src   |-> [buf |-> IF isaWrite THEN "alloc" ELSE "memref", off |-> x.indices],
   dst   |-> [buf |-> IF isaWrite THEN "memref" ELSE "alloc", off |-> Zero],
   sizes |-> OverlapSizes(x)]

(* The shape of the memref or of the alloca of one vector.                *)
ShapeOf(buf) == IF buf = "memref" THEN xfer.memShape ELSE xfer.vecShape

-----------------------------------------------------------------------------
Init ==
  /\ xfer \in Xfers
  /\ options \in Strategies
  \* ForceInBounds is the caller's assertion that masking is unnecessary.
  /\ options = "ForceInBounds" =>
       \A d \in Dims : xfer.indices[d] + xfer.vecShape[d] <= xfer.memShape[d]
  /\ inBounds = xfer.inBounds
  /\ checks = {}
  /\ mem = MemInit(xfer.memShape)
  /\ alloc = <<>>
  /\ view = [buf |-> "memref", at |-> xfer.indices]
  /\ result = <<>>
  /\ pc = "split"

(* The rewrite. options None: failure, the op is left alone.              *)
SplitNone ==
  /\ pc = "split" /\ options = "None"
  /\ pc' = "orig"
  /\ UNCHANGED <<xfer, options, inBounds, checks, mem, alloc, view, result>>

(* options ForceInBounds: only the in_bounds attribute is rewritten.      *)
SplitForceInBounds ==
  /\ pc = "split" /\ options = "ForceInBounds"
  /\ inBounds' = AllTrue
  /\ pc' = "orig"
  /\ UNCHANGED <<xfer, options, checks, mem, alloc, view, result>>

(* Every checked dimension folded away: no condition, failure.            *)
SplitNoCond ==
  /\ pc = "split" /\ options \in {"LinalgCopy", "VectorTransfer"}
  /\ InBoundsCond(xfer) = {}
  /\ pc' = "orig"
  /\ UNCHANGED <<xfer, options, inBounds, checks, mem, alloc, view, result>>

(* Fault-injection variant: the alloca takes the memref's shape.         *)
SplitEmitAllocMemShape ==
  /\ pc = "split" /\ options \in {"LinalgCopy", "VectorTransfer"}
  /\ InBoundsCond(xfer) # {}
  /\ checks' = InBoundsCond(xfer)
  /\ alloc' = [l \in Box(xfer.memShape) |-> Undef]
  /\ pc' = "ifop"
  /\ UNCHANGED <<xfer, options, inBounds, mem, view, result>>

(* The split is emitted: condition, alloca of one vector, scf.if(s).      *)
SplitEmit ==
  /\ pc = "split" /\ options \in {"LinalgCopy", "VectorTransfer"}
  /\ InBoundsCond(xfer) # {}
  /\ checks' = InBoundsCond(xfer)
  /\ alloc' = [l \in Box(xfer.vecShape) |-> Undef]
  /\ pc' = "ifop"
  /\ UNCHANGED <<xfer, options, inBounds, mem, view, result>>

(***************************************************************************)
(* Execution of the IR the split produced.                                 *)
(***************************************************************************)
ToAccess(v) == view' = v /\ pc' = "access"

(* First scf.if of a read (both strategies), then-branch: the memref      *)
(* itself, cast to the compatible type, at the original indices.          *)
ReadFastPath ==
  /\ pc = "ifop" /\ xfer.kind = "read" /\ CondHolds
  /\ ToAccess([buf |-> "memref", at |-> xfer.indices])
  /\ UNCHANGED <<xfer, options, inBounds, checks, mem, alloc, result>>

(* Fault-injection variant: the linalg.fill of the pad is missing.       *)
ReadSlowCopyNoFill ==
  /\ pc = "ifop" /\ xfer.kind = "read" /\ ~CondHolds
  /\ options # "VectorTransfer"
  /\ LET cp == SubViewIntersection(xfer) IN
       alloc' \in CopyOutcomes(mem, ShapeOf(cp.src.buf), cp.src.off, alloc,
                               ShapeOf(cp.dst.buf), cp.dst.off, cp.sizes)
  /\ ToAccess([buf |-> "alloc", at |-> Zero])
  /\ UNCHANGED <<xfer, options, inBounds, checks, mem, result>>

(* createFullPartialLinalgCopy (read), else-branch: linalg.fill of the    *)
(* pad, memref.copy of the intersection into the alloca, yield alloca@0.  *)
ReadSlowCopy ==
  /\ pc = "ifop" /\ xfer.kind = "read" /\ ~CondHolds
  /\ options # "VectorTransfer"
  /\ LET cp == SubViewIntersection(xfer) IN
       alloc' \in CopyOutcomes(mem, ShapeOf(cp.src.buf), cp.src.off,
                               [l \in DOMAIN alloc |-> Pad],
                               ShapeOf(cp.dst.buf), cp.dst.off, cp.sizes)
  /\ ToAccess([buf |-> "alloc", at |-> Zero])
  /\ UNCHANGED <<xfer, options, inBounds, checks, mem, result>>

(* createFullPartialVectorTransferRead, else-branch: a clone of the       *)
(* original (masked) read stored into the alloca, yield alloca@0.         *)
ReadSlowReissue ==
  /\ pc = "ifop" /\ xfer.kind = "read" /\ ~CondHolds
  /\ options = "VectorTransfer"
  /\ alloc' = TransferRead(mem, xfer.memShape, xfer.indices, xfer.vecShape,
                           xfer.inBounds)
  /\ ToAccess([buf |-> "alloc", at |-> Zero])
  /\ UNCHANGED <<xfer, options, inBounds, checks, mem, result>>

(* The original read, its operands replaced by the scf.if results and its *)
(* in_bounds attribute set to all true.                                   *)
ReadInBounds ==
  /\ pc = "access" /\ xfer.kind = "read"
  /\ result' = IF view.buf = "memref"
               THEN TransferRead(mem, xfer.memShape, view.at, xfer.vecShape,
                                 AllTrue)
               ELSE TransferRead(alloc, xfer.vecShape, view.at, xfer.vecShape,
                                 AllTrue)
  /\ inBounds' = AllTrue
  /\ pc' = "done"
  /\ UNCHANGED <<xfer, options, checks, mem, alloc, view>>

(* getLocationToWriteFullVec: where the full vector is written.           *)
WriteLocFast ==
  /\ pc = "ifop" /\ xfer.kind = "write" /\ CondHolds
  /\ ToAccess([buf |-> "memref", at |-> xfer.indices])
  /\ UNCHANGED <<xfer, options, inBounds, checks, mem, alloc, result>>

(* Fault-injection variant: the alloca is yielded with the transfer's    *)
(* indices instead of zeros.                                              *)
WriteLocSlowAtIndices ==
  /\ pc = "ifop" /\ xfer.kind = "write" /\ ~CondHolds
  /\ ToAccess([buf |-> "alloc", at |-> xfer.indices])
  /\ UNCHANGED <<xfer, options, inBounds, checks, mem, alloc, result>>

WriteLocSlow ==
  /\ pc = "ifop" /\ xfer.kind = "write" /\ ~CondHolds
  /\ ToAccess([buf |-> "alloc", at |-> Zero])
  /\ UNCHANGED <<xfer, options, inBounds, checks, mem, alloc, result>>

(* The clone of the write against the chosen location, all in-bounds.    *)
WriteInBounds ==
  /\ pc = "access" /\ xfer.kind = "write"
  /\ IF view.buf = "memref"
     THEN /\ mem' = TransferWrite(mem, xfer.memShape, view.at,
                                  VecOperand(xfer.vecShape), xfer.vecShape)
          /\ UNCHANGED alloc
     ELSE /\ alloc' = TransferWrite(alloc, xfer.vecShape, view.at,
                                    VecOperand(xfer.vecShape), xfer.vecShape)
          /\ UNCHANGED mem
  /\ pc' = "copyback"
  /\ UNCHANGED <<xfer, options, inBounds, checks, view, result>>

(* Second scf.if, guarded by xori(inBoundsCond, true): not taken.         *)
CopyBackSkip ==
  /\ pc = "copyback" /\ CondHolds
  /\ pc' = "done"
  /\ UNCHANGED <<xfer, options, inBounds, checks, mem, alloc, view, result>>

(* createFullPartialLinalgCopy (write): memref.copy of the subviews that  *)
(* createSubViewIntersection returns for a write.                         *)
CopyBackLinalg ==
  /\ pc = "copyback" /\ ~CondHolds /\ options # "VectorTransfer"
  /\ LET cp == SubViewIntersection(xfer) IN
       mem' \in CopyOutcomes(alloc, ShapeOf(cp.src.buf), cp.src.off,
                             mem, ShapeOf(cp.dst.buf), cp.dst.off, cp.sizes)
  /\ pc' = "done"
  /\ UNCHANGED <<xfer, options, inBounds, checks, alloc, view, result>>

(* createFullPartialVectorTransferWrite: load the vector from the alloca  *)
(* and reissue the original masked write with it.                         *)
CopyBackReissue ==
  /\ pc = "copyback" /\ ~CondHolds /\ options = "VectorTransfer"
  /\ mem' = TransferWrite(mem, xfer.memShape, xfer.indices, alloc,
                          xfer.vecShape)
  /\ pc' = "done"
  /\ UNCHANGED <<xfer, options, inBounds, checks, alloc, view, result>>

(* The rewrite did not split: the op runs as it now is.                   *)
OrigRead ==
  /\ pc = "orig" /\ xfer.kind = "read"
  /\ result' = TransferRead(mem, xfer.memShape, xfer.indices, xfer.vecShape,
                            inBounds)
  /\ pc' = "done"
  /\ UNCHANGED <<xfer, options, inBounds, checks, mem, alloc, view>>

OrigWrite ==
  /\ pc = "orig" /\ xfer.kind = "write"
  /\ mem' = TransferWrite(mem, xfer.memShape, xfer.indices,
                          VecOperand(xfer.vecShape), xfer.vecShape)
  /\ pc' = "done"
  /\ UNCHANGED <<xfer, options, inBounds, checks, alloc, view, result>>

Next ==
  \/ SplitNone \/ SplitForceInBounds \/ SplitNoCond \/ SplitEmit
  \/ ReadFastPath \/ ReadSlowCopy \/ ReadSlowReissue \/ ReadInBounds
  \/ WriteLocFast \/ WriteLocSlow \/ WriteInBounds
  \/ CopyBackSkip \/ CopyBackLinalg \/ CopyBackReissue
  \/ OrigRead \/ OrigWrite

Spec == Init /\ [][Next]_vars

(***************************************************************************)
(* The emitted IR is straight-line code around two scf.if ops: once the    *)
(* rewrite has run, execution reaches the end, so the whole is weakly      *)
(* fair.                                                                   *)
(***************************************************************************)
FairSpec == Spec /\ WF_vars(Next)

(***************************************************************************)
(* Every op and strategy except a LinalgCopy write, whose copy-back puts   *)
(* the data at the wrong place (run write_copy_back): the behaviours in    *)
(* which the split is meant to compute what the masked transfer computes.  *)
(***************************************************************************)
NoCopyBackInit == Init /\ ~(xfer.kind = "write" /\ options = "LinalgCopy")

NoCopyBackSpec == NoCopyBackInit /\ [][Next]_vars

-----------------------------------------------------------------------------
(***************************************************************************)
(* Refinement mapping to AtomicTransfer: the abstract op is the original   *)
(* transfer with its original in_bounds attribute; the abstract memory and *)
(* vector are the initial ones until the rewritten IR has run to the end,  *)
(* and the final ones after.                                               *)
(***************************************************************************)
AbstractOp(x) ==
  [kind |-> x.kind, memShape |-> x.memShape, vecShape |-> x.vecShape,
   indices |-> x.indices, inBounds |-> x.inBounds]

AbstractOps == {AbstractOp(x) : x \in Xfers}

Atomic == INSTANCE AtomicTransfer WITH
  Ops    <- AbstractOps,
  op     <- AbstractOp(xfer),
  memory <- IF pc = "done" THEN mem ELSE MemInit(xfer.memShape),
  vector <- IF pc = "done" THEN result ELSE <<>>,
  state  <- IF pc = "done" THEN "done" ELSE "pending"

-----------------------------------------------------------------------------
(* Type invariant.                                                        *)
TypeOK ==
  /\ xfer \in Xfers
  /\ options \in Strategies
  /\ inBounds \in [Dims -> BOOLEAN]
  /\ checks \subseteq Dims
  /\ mem \in [Box(xfer.memShape) -> Cell]
  /\ alloc \in {<<>>} \cup [Box(xfer.vecShape) -> Cell]
  /\ view \in [buf : {"memref", "alloc"}, at : Pos]
  /\ result \in {<<>>} \cup [Box(xfer.vecShape) -> Cell]
  /\ pc \in {"split", "orig", "ifop", "access", "copyback", "done"}

-----------------------------------------------------------------------------
(***************************************************************************)
(* Safety properties.                                                      *)
(***************************************************************************)

(* The transfer that the rewrite marks in_bounds = [true ...] (the read   *)
(* reading the scf.if results, the write clone) never accesses outside    *)
(* the buffer it was given: the emitted inBoundsCond, with its folded     *)
(* dimensions and the dimensions already marked in-bounds, is enough to   *)
(* make the unmasked fast path safe, and the slow path's alloca at 0 fits *)
(* one vector.                                                             *)
FastPathInBounds ==
  pc = "access" =>
    \A d \in Dims : view.at[d] + xfer.vecShape[d] <= ShapeOf(view.buf)[d]

(* Both subviews that createSubViewIntersection builds for the slow-path  *)
(* memref.copy have non-negative sizes and lie inside their base buffer,  *)
(* at the moment the copy is about to run.                                *)
CopyIsNext ==
  /\ ~CondHolds /\ options # "VectorTransfer"
  /\ \/ pc = "ifop" /\ xfer.kind = "read"
     \/ pc = "copyback"

SubviewFits(sv, sizes) ==
  \A d \in Dims : sizes[d] >= 0 /\ sv.off[d] + sizes[d] <= ShapeOf(sv.buf)[d]

SubviewsInBounds ==
  CopyIsNext =>
    LET cp == SubViewIntersection(xfer) IN
    SubviewFits(cp.src, cp.sizes) /\ SubviewFits(cp.dst, cp.sizes)

(* Reads: the split form yields exactly the vector the original masked    *)
(* transfer_read (with its pad value) would have produced.                *)
ReadEquivalence ==
  (pc = "done" /\ xfer.kind = "read") =>
    result = TransferRead(MemInit(xfer.memShape), xfer.memShape,
                          xfer.indices, xfer.vecShape, xfer.inBounds)

(* Writes: after the split form ran, the memref holds exactly what the    *)
(* original masked transfer_write would have left: vector lanes inside    *)
(* the window and in bounds, the old contents everywhere else.            *)
WriteEquivalence ==
  (pc = "done" /\ xfer.kind = "write") =>
    mem = TransferWrite(MemInit(xfer.memShape), xfer.memShape, xfer.indices,
                        VecOperand(xfer.vecShape), xfer.vecShape)

(***************************************************************************)
(* The split form implements the original transfer: every behaviour of the *)
(* rewritten IR is a behaviour of one atomic masked transfer (same vector  *)
(* for a read, same memory for a write), and it does complete.             *)
(***************************************************************************)
RefinesAtomic == Atomic!Spec
=============================================================================

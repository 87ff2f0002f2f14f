------------------------- MODULE TransferSemantics -------------------------
(***************************************************************************)
(* What a vector.transfer_read and a vector.transfer_write do to a buffer: *)
(* the semantics of the original, masked operation, shared by the split    *)
(* (TransferSplit) and by the atomic transfer it implements                *)
(* (AtomicTransfer).  Positions are functions from the dimensions to       *)
(* indices; a buffer is a function from the positions of its shape to     *)
(* cells.                                                                  *)
(***************************************************************************)
EXTENDS Integers

CONSTANTS
  Rank,        \* rank of the memref and of the vector (they must be equal)
  MaxExtent,   \* bound on every memref and vector extent
  Pad,         \* the padding operand of a transfer_read
  Undef,       \* content of a freshly allocated, uninitialised buffer
  Garbage      \* what an out-of-bounds unmasked access may observe

ASSUME RankAssumption == Rank \in Nat \ {0}

Dims == 1..Rank

(* Positions of a buffer of shape `shape` (row-major indices).            *)
Pos == [Dims -> 0..MaxExtent]
Box(shape) == {p \in Pos : \A d \in Dims : p[d] < shape[d]}

Plus(p, q) == [d \in Dims |-> p[d] + q[d]]
Minus(p, q) == [d \in Dims |-> p[d] - q[d]]
Zero == [d \in Dims |-> 0]
AllTrue == [d \in Dims |-> TRUE]

Cell == [from : {"mem", "vec"}, at : Pos] \cup {Pad, Undef, Garbage}

(* Initial memory content and the vector operand of a transfer_write.     *)
MemInit(shape) == [p \in Box(shape) |-> [from |-> "mem", at |-> p]]
VecOperand(shape) == [l \in Box(shape) |-> [from |-> "vec", at |-> l]]

(***************************************************************************)
(* Transfer semantics.  A lane that falls outside the buffer along         *)
(* dimensions that are all not in-bounds is padded (read) or dropped       *)
(* (write); one outside along an in-bounds dimension is undefined: a read  *)
(* observes Garbage, a write is dropped here (TransferSplit flags both   *)
(* with its property FastPathInBounds).                                  *)
(***************************************************************************)
OutDims(shape, at, l) == {d \in Dims : at[d] + l[d] >= shape[d]}

TransferRead(buf, shape, at, vshape, flags) ==
  [l \in Box(vshape) |->
     IF OutDims(shape, at, l) = {} THEN buf[Plus(at, l)]
     ELSE IF \A d \in OutDims(shape, at, l) : ~flags[d] THEN Pad
     ELSE Garbage]

TransferWrite(buf, shape, at, vec, vshape) ==
  [p \in Box(shape) |->
     IF Minus(p, at) \in Box(vshape) THEN vec[Minus(p, at)] ELSE buf[p]]

=============================================================================

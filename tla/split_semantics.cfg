\* Reads and writes under every strategy but LinalgCopy for writes, indices
\* at most the memref extent: the split IR is safe, computes what the masked
\* transfer computes, and implements the atomic masked transfer.
CONSTANTS
  Rank <- MCRank
  MaxExtent <- MCMaxExtent
  Extents <- MCExtents
  VecExtents <- MCVecExtents
  PastEnd = 0
  Kinds = {"read", "write"}
  Strategies = {"None", "ForceInBounds", "LinalgCopy", "VectorTransfer"}
  Pad = Pad
  Undef = Undef
  Garbage = Garbage
SPECIFICATION MCSpecNoCopyBack
INVARIANTS SubviewsInBounds ReadEquivalence WriteEquivalence
PROPERTY RefinesAtomic
CHECK_DEADLOCK FALSE

\* Reads and writes, every strategy, indices at most the memref extent:
\* the fast path stays in bounds and the state keeps its shape.
CONSTANTS
  Rank <- MCRank
  MaxExtent <- MCMaxExtent
  Extents <- MCExtents
  VecExtents <- MCVecExtents
  PastEnd = 0
  Kinds = {"read", "write"}
  Strategies = {"None", "ForceInBounds", "LinalgCopy", "VectorTransfer"}
  Pad = Pad
  Undef = Undef
  Garbage = Garbage
INIT Init
NEXT Next
INVARIANTS TypeOK FastPathInBounds
CHECK_DEADLOCK FALSE

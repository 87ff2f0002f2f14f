\* Reads whose index may start one element past the memref extent.
CONSTANTS
  Rank <- MCRank
  MaxExtent <- MCMaxExtent
  Extents <- MCExtents
  VecExtents <- MCVecExtents
  PastEnd = 1
  Kinds = {"read"}
  Strategies = {"LinalgCopy"}
  Pad = Pad
  Undef = Undef
  Garbage = Garbage
INIT Init
NEXT Next
INVARIANTS SubviewsInBounds
CHECK_DEADLOCK FALSE

\* Writes whose slow path copies the alloca back with memref.copy.
CONSTANTS
  Rank <- MCRank
  MaxExtent <- MCMaxExtent
  Extents <- MCExtents
  VecExtents <- MCVecExtents
  PastEnd = 0
  Kinds = {"write"}
  Strategies = {"LinalgCopy"}
  Pad = Pad
  Undef = Undef
  Garbage = Garbage
INIT Init
NEXT Next
INVARIANTS WriteEquivalence
CHECK_DEADLOCK FALSE

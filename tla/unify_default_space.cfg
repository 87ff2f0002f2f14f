\* Memrefs of every shape and layout in the default memory space.
CONSTANTS
  Ranks <- MCRanks
  Sizes <- MCSizes
  Spaces = {0, 1}
  DefaultSpace = 0
  Dynamic = Dynamic
  NoType = NoType
  MemRefTypes <- MCMemRefTypes
  AllocTypes <- MCAllocTypes
INIT Init
NEXT Next
INVARIANTS UnifiedCastCompatible NullOnlyForRankOrLayout
CHECK_DEADLOCK FALSE

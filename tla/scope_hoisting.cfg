\* A transfer in a nest of scf.for and affine.for loops inside a function.
CONSTANTS
  Kinds <- MCKinds
  ScopeKinds <- MCScopeKinds
  LoopKinds <- MCLoopKinds
  Chains <- MCLoopChains
INIT Init
NEXT Next
INVARIANT PlacedAtIntendedScope
CHECK_DEADLOCK FALSE

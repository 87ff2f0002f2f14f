\* A transfer under any structured control flow inside a function.
CONSTANTS
  Kinds <- MCKinds
  ScopeKinds <- MCScopeKinds
  LoopKinds <- MCLoopKinds
  Chains <- MCChains
INIT Init
NEXT Next
INVARIANT PlacedAtIntendedScope
CHECK_DEADLOCK FALSE

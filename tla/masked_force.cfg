\* ForceInBounds on a masked transfer: it is rewritten, not rejected.
CONSTANTS
  UserOps <- MCMaskedOps
  MaxUserOps = 2
  Strategies = {"ForceInBounds"}
  MaxIterations = 3
  MaxNumRewrites = 2
SPECIFICATION Spec
INVARIANTS RejectedUntouched
CHECK_DEADLOCK FALSE

\* A failed application on a rank-reduced transfer is not a no-op.
CONSTANTS
  UserOps <- MCReducedOps
  MaxUserOps = 2
  Strategies = {"LinalgCopy", "VectorTransfer"}
  MaxIterations = 3
  MaxNumRewrites = 2
SPECIFICATION Spec
PROPERTIES FailureIsNoOp
CHECK_DEADLOCK FALSE

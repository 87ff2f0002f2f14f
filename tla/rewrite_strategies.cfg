\* ForceInBounds, LinalgCopy and VectorTransfer on candidates, ops the
\* precondition rejects and rank-reduced ops, one rewrite per iteration.
CONSTANTS
  UserOps <- MCForceOps
  MaxUserOps = 2
  Strategies = {"ForceInBounds", "LinalgCopy", "VectorTransfer"}
  MaxIterations = 3
  MaxNumRewrites = 1
SPECIFICATION Spec
INVARIANTS SplitAtMostOnce
CHECK_DEADLOCK FALSE

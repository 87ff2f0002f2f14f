\* The splitting strategies on functions of up to two transfer ops of every
\* kind; one rewrite per iteration so that the budget is reached.
CONSTANTS
  UserOps <- MCUserOps
  MaxUserOps = 2
  Strategies = {"None", "LinalgCopy", "VectorTransfer"}
  MaxIterations = 3
  MaxNumRewrites = 1
SPECIFICATION Spec
INVARIANTS TypeOK SplitAtMostOnce RejectedUntouched
PROPERTIES Converges
CHECK_DEADLOCK FALSE

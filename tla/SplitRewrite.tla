---------------------------- MODULE SplitRewrite ----------------------------
(***************************************************************************)
(* The full/partial split as a rewrite pattern (VectorTransferFullPartial- *)
(* Rewriter, the only pattern populateVectorTransferFullPartialPatterns    *)
(* adds) applied to a whole function by the greedy rewrite driver.         *)
(*                                                                         *)
(* The IR is abstracted to the bag of its vector.transfer ops: an op is    *)
(* the record of the facts the pattern tests (rank 0, permutation map,     *)
(* memref rank larger than the vector rank, mask, out-of-bounds dims,      *)
(* whether the bounds check folds away, parent scf.if) and whether the     *)
(* user wrote it or a split produced it.  The other ops a split emits      *)
(* (scf.if, alloca, memref.copy, casts) are used and never matched; the    *)
(* ops a failing application leaves behind (the bounds comparisons and the *)
(* alloca, all unused) are counted in dead.                                *)
(*                                                                         *)
(* The driver (GreedyPatternRewriteDriver) is not in this repository: it   *)
(* is modelled from its documented loop.  Each iteration puts every op on  *)
(* the worklist, pops ops in any order, erases trivially dead ops, applies *)
(* the pattern, pushes the ops a rewrite creates or modifies, and stops    *)
(* early after MaxNumRewrites successful rewrites; the loop repeats while  *)
(* an iteration changed the IR and at most MaxIterations times, and the    *)
(* driver reports convergence when the last iteration changed nothing.     *)
(***************************************************************************)
EXTENDS Integers, FiniteSets, Bags

CONSTANTS
  UserOps,          \* transfer ops a function may hold before the pass
  MaxUserOps,       \* at most this many of them in one function
  Strategies,       \* VectorTransformsOptions::vectorTransferSplit values
  MaxIterations,    \* GreedyRewriteConfig::maxIterations
  MaxNumRewrites    \* GreedyRewriteConfig::maxNumRewrites

OpRec == [kind : {"read", "write"}, rank0 : BOOLEAN, permuted : BOOLEAN,
          reduced : BOOLEAN, masked : BOOLEAN, oob : BOOLEAN, folds : BOOLEAN,
          underIf : BOOLEAN, origin : {"user", "split"}]

ASSUME UserOpsAssumption ==
  /\ UserOps \subseteq OpRec
  /\ \A o \in UserOps : o.origin = "user"
  /\ IsFiniteSet(UserOps)
  /\ MaxUserOps \in Nat
ASSUME StrategyAssumption ==
  Strategies \subseteq {"None", "ForceInBounds", "LinalgCopy", "VectorTransfer"}
ASSUME DriverAssumption ==
  /\ MaxIterations \in Nat \ {0}
  /\ MaxNumRewrites \in Nat \ {0}

VARIABLES
  options,      \* the strategy the pattern was populated with
  userOps,      \* the transfer ops of the function before the pass (history)
  ir,           \* bag of the transfer ops currently in the function
  dead,         \* unused ops left behind by failed applications
  worklist,     \* bag of transfer ops still to visit in this iteration
  changed,      \* the current iteration changed the IR
  iteration,    \* iterations started
  numRewrites,  \* successful rewrites in the current iteration
  splits,       \* successful rewrites in the whole run (history)
  result,       \* outcome of the last pattern application (history)
  pc,           \* "iter": loop head, "work": worklist, "finish", "done"
  converged     \* the driver's return value

vars == <<options, userOps, ir, dead, worklist, changed, iteration,
          numRewrites, splits, result, pc, converged>>

One(o) == SetToBag({o})

(* How many copies of op o the bag B holds.                                *)
Copies(o, B) == IF o \in DOMAIN B THEN B[o] ELSE 0

(***************************************************************************)
(* splitFullAndPartialTransferPrecondition: rank > 0, minor identity map,  *)
(* some out-of-bounds dimension, parent op not an scf.if.                  *)
(***************************************************************************)
(* Fault-injection variant: the scf.if parent check is dropped.          *)
PreconditionNoIfCheck(o) ==
  /\ ~o.rank0
  /\ ~o.permuted
  /\ o.oob

Precondition(o) ==
  /\ ~o.rank0
  /\ ~o.permuted
  /\ o.oob
  /\ ~o.underIf

(* The op after its in_bounds attribute is set to all-true.                *)
InBoundsOf(o) == [o EXCEPT !.oob = FALSE, !.origin = "split"]

(* A clone of the op built inside the else-region of an scf.if.            *)
UnderIfOf(o) == [o EXCEPT !.underIf = TRUE, !.origin = "split"]

(* The strategies that build the scf.if, the alloca and the slow path.     *)
Splitting == {"LinalgCopy", "VectorTransfer"}

(***************************************************************************)
(* The checks between the precondition and the alloca that abort a split:  *)
(* an explicit mask, or a bounds condition that folded away entirely.     *)
(***************************************************************************)
(* Fault-injection variant: the mask check is dropped.                     *)
SplitAbortsNoMask(o) == o.folds

SplitAborts(o) == o.masked \/ o.folds

(* The slow-path clone VectorTransfer emits (none for LinalgCopy).         *)
SlowClone(o) == IF options = "VectorTransfer" THEN One(UnderIfOf(o))
                ELSE EmptyBag

-----------------------------------------------------------------------------
(***************************************************************************)
(* Initial state: the pattern populated with one strategy and a function  *)
(* of at most MaxUserOps transfer ops; the driver is at its loop head.     *)
(***************************************************************************)
Init ==
  /\ options \in Strategies
  /\ userOps \in {S \in SUBSET UserOps : Cardinality(S) <= MaxUserOps}
  /\ ir = SetToBag(userOps)
  /\ dead = 0
  /\ worklist = EmptyBag
  /\ changed = FALSE
  /\ iteration = 0
  /\ numRewrites = 0
  /\ splits = 0
  /\ result = "none"
  /\ pc = "iter"
  /\ converged = FALSE

(* Fault-injection variant: the rewrite budget is not checked.            *)
CanProcessNoBudget == pc = "work"

(* The worklist loop may pop another op.                                   *)
CanProcess ==
  /\ pc = "work"
  /\ numRewrites < MaxNumRewrites

Pop(o) == worklist (-) One(o)

(* A successful application: count it and mark the IR changed.            *)
Rewritten ==
  /\ changed' = TRUE
  /\ numRewrites' = numRewrites + 1
  /\ splits' = splits + 1
  /\ result' = "success"

(***************************************************************************)
(* matchAndRewrite fails without touching the IR: the precondition or the  *)
(* strategy None, or, for the splitting strategies, a mask or a bounds     *)
(* check that folds away entirely.                                         *)
(***************************************************************************)
Reject(o) ==
  /\ CanProcess
  /\ o \in BagToSet(worklist)
  /\ \/ ~Precondition(o)
     \/ options = "None"
     \/ options \in Splitting /\ SplitAborts(o)
  /\ worklist' = Pop(o)
  /\ result' = "failure"
  /\ UNCHANGED <<options, userOps, ir, dead, changed, iteration, numRewrites,
                 splits, pc, converged>>

(* Fault-injection variant: success is reported, the attribute is lost.   *)
ForceInBoundsNoAttr(o) ==
  /\ CanProcess
  /\ o \in BagToSet(worklist)
  /\ Precondition(o)
  /\ options = "ForceInBounds"
  /\ Rewritten
  /\ UNCHANGED <<options, userOps, ir, dead, worklist, iteration, pc,
                 converged>>

(* ForceInBounds: set in_bounds to all-true in place and succeed.          *)
ForceInBounds(o) ==
  /\ CanProcess
  /\ o \in BagToSet(worklist)
  /\ Precondition(o)
  /\ options = "ForceInBounds"
  /\ ir' = (ir (-) One(o)) (+) One(InBoundsOf(o))
  /\ worklist' = Pop(o) (+) One(InBoundsOf(o))
  /\ Rewritten
  /\ UNCHANGED <<options, userOps, dead, iteration, pc, converged>>

(***************************************************************************)
(* The bounds comparisons and the alloca are built, then no cast-          *)
(* compatible memref type exists (the memref has a larger rank than the    *)
(* vector) and the pattern returns failure, leaving them in the function.  *)
(***************************************************************************)
FailAfterAlloca(o) ==
  /\ CanProcess
  /\ o \in BagToSet(worklist)
  /\ Precondition(o)
  /\ options \in Splitting
  /\ ~SplitAborts(o)
  /\ o.reduced
  /\ dead' = dead + 1
  /\ worklist' = Pop(o)
  /\ result' = "failure"
  /\ UNCHANGED <<options, userOps, ir, changed, iteration, numRewrites,
                 splits, pc, converged>>

(***************************************************************************)
(* A read is split: it now reads in bounds from the scf.if's view; under   *)
(* VectorTransfer the else-region holds a clone of the original read.      *)
(***************************************************************************)
SplitRead(o) ==
  /\ CanProcess
  /\ o \in BagToSet(worklist)
  /\ Precondition(o)
  /\ options \in Splitting
  /\ ~SplitAborts(o)
  /\ ~o.reduced
  /\ o.kind = "read"
  /\ ir' = (ir (-) One(o)) (+) One(InBoundsOf(o)) (+) SlowClone(o)
  /\ worklist' = Pop(o) (+) One(InBoundsOf(o)) (+) SlowClone(o)
  /\ Rewritten
  /\ UNCHANGED <<options, userOps, dead, iteration, pc, converged>>

(* Fault-injection variant: the in-bounds clone keeps the old attribute.  *)
SplitWriteOutOfBoundsClone(o) ==
  /\ CanProcess
  /\ o \in BagToSet(worklist)
  /\ Precondition(o)
  /\ options \in Splitting
  /\ ~SplitAborts(o)
  /\ ~o.reduced
  /\ o.kind = "write"
  /\ LET clone == [o EXCEPT !.origin = "split"]
     IN  /\ ir' = (ir (-) One(o)) (+) One(clone) (+) SlowClone(o)
         /\ worklist' = Pop(o) (+) One(clone) (+) SlowClone(o)
  /\ Rewritten
  /\ UNCHANGED <<options, userOps, dead, iteration, pc, converged>>

(***************************************************************************)
(* A write is split: an in-bounds clone writes to the chosen location, the *)
(* slow-path scf.if copies back (LinalgCopy) or holds a clone of the       *)
(* original write (VectorTransfer), and the original write is erased.      *)
(***************************************************************************)
SplitWrite(o) ==
  /\ CanProcess
  /\ o \in BagToSet(worklist)
  /\ Precondition(o)
  /\ options \in Splitting
  /\ ~SplitAborts(o)
  /\ ~o.reduced
  /\ o.kind = "write"
  /\ ir' = (ir (-) One(o)) (+) One(InBoundsOf(o)) (+) SlowClone(o)
  /\ worklist' = Pop(o) (+) One(InBoundsOf(o)) (+) SlowClone(o)
  /\ Rewritten
  /\ UNCHANGED <<options, userOps, dead, iteration, pc, converged>>

(* The driver erases an unused op left by a failed application.            *)
EraseDead ==
  /\ CanProcess
  /\ dead > 0
  /\ dead' = dead - 1
  /\ changed' = TRUE
  /\ result' = "none"
  /\ UNCHANGED <<options, userOps, ir, worklist, iteration, numRewrites,
                 splits, pc, converged>>

-----------------------------------------------------------------------------
(* Loop head: start an iteration over every op of the function.            *)
IterStart ==
  /\ pc = "iter"
  /\ iteration + 1 <= MaxIterations
  /\ iteration' = iteration + 1
  /\ worklist' = ir
  /\ changed' = FALSE
  /\ numRewrites' = 0
  /\ pc' = "work"
  /\ UNCHANGED <<options, userOps, ir, dead, splits, result, converged>>

(* Loop head: the iteration limit is reached; the IR was still changing.   *)
IterLimit ==
  /\ pc = "iter"
  /\ iteration + 1 > MaxIterations
  /\ pc' = "finish"
  /\ UNCHANGED <<options, userOps, ir, dead, worklist, changed, iteration,
                 numRewrites, splits, result, converged>>

(* The worklist is empty (or the rewrite budget spent): loop while the     *)
(* iteration changed something.                                            *)
IterEnd ==
  /\ pc = "work"
  /\ \/ worklist = EmptyBag /\ dead = 0
     \/ numRewrites >= MaxNumRewrites
  /\ pc' = IF changed THEN "iter" ELSE "finish"
  /\ UNCHANGED <<options, userOps, ir, dead, worklist, changed, iteration,
                 numRewrites, splits, result, converged>>

(* The driver returns success exactly when the last iteration changed     *)
(* nothing.                                                                 *)
Finish ==
  /\ pc = "finish"
  /\ converged' = ~changed
  /\ pc' = "done"
  /\ UNCHANGED <<options, userOps, ir, dead, worklist, changed, iteration,
                 numRewrites, splits, result>>

Next ==
  \/ \E o \in BagToSet(worklist) :
       \/ Reject(o)
       \/ ForceInBounds(o)
       \/ FailAfterAlloca(o)
       \/ SplitRead(o)
       \/ SplitWrite(o)
  \/ EraseDead
  \/ IterStart
  \/ IterLimit
  \/ IterEnd
  \/ Finish

(***************************************************************************)
(* The driver is one sequential loop that runs until it returns, so it is  *)
(* weakly fair as a whole.                                                 *)
(***************************************************************************)
Spec == Init /\ [][Next]_vars /\ WF_vars(Next)

-----------------------------------------------------------------------------
(* Every variable has its type; the rewrites of one iteration stay within  *)
(* the driver's maxNumRewrites budget.                                     *)
TypeOK ==
  /\ options \in Strategies
  /\ userOps \subseteq UserOps
  /\ IsABag(ir) /\ BagToSet(ir) \subseteq OpRec
  /\ IsABag(worklist) /\ BagToSet(worklist) \subseteq OpRec
  /\ dead \in Nat
  /\ changed \in BOOLEAN
  /\ iteration \in 0..MaxIterations
  /\ numRewrites \in 0..MaxNumRewrites
  /\ splits \in Nat
  /\ result \in {"none", "success", "failure"}
  /\ pc \in {"iter", "work", "finish", "done"}
  /\ converged \in BOOLEAN

(***************************************************************************)
(* At most one split per user op: the pattern succeeds at most once for    *)
(* each op of the function that passes the precondition, however the      *)
(* driver orders the worklist.  The ops a split creates or modifies must   *)
(* never be candidates again (in-bounds, or directly under the scf.if).   *)
(***************************************************************************)
SplitAtMostOnce ==
  splits <= Cardinality({o \in userOps : Precondition(o)})

(***************************************************************************)
(* Rejected ops stay as they are: a transfer of rank 0, with a permuted    *)
(* map, or with a mask is always "not applicable" (spec section 8, item 7) *)
(* and remains in the function exactly once, unmodified.                   *)
(***************************************************************************)
RejectedUntouched ==
  \A o \in userOps :
    (o.rank0 \/ o.permuted \/ o.masked) => Copies(o, ir) = 1

(***************************************************************************)
(* A failed application is a no-op: when matchAndRewrite returns failure,  *)
(* the function is left as it was (the pattern contract; spec section 7).  *)
(***************************************************************************)
FailureIsNoOp ==
  [][result' = "failure" => (ir' = ir /\ dead' = dead)]_vars

(***************************************************************************)
(* The driver converges: it eventually returns success, after an iteration *)
(* that changed nothing; the split's own ops never make the pattern match  *)
(* again.                                                                   *)
(***************************************************************************)
Converges ==
  <>(pc = "done" /\ converged)
=============================================================================

# Formal model of the vector.transfer full/partial split

TLA+ models of `src/mlir/lib/Dialect/Vector/Transforms/VectorTransferSplitRewritePatterns.cpp`
(the rewrite that splits a `vector.transfer_read` / `vector.transfer_write`
into a fully in-bounds fast path and a slow path through a one-vector scratch
buffer), with the pattern applied by the greedy rewrite driver. There are TLC configurations for
small instances and TLAPS proofs that hold for every value of the constants.

## 1. Inventory

### Components (source → state → operations)

| Component | Code | State it reads or changes | Operations | Module |
|---|---|---|---|---|
| Bounds-condition builder | `createInBoundsCond` (43–77) | indices, vector shape, memref shape, `in_bounds` | folds `index + vsize <= dim` when both are constants; otherwise emits `cmpi sle` and `andi` | `TransferSplit` |
| Precondition | `splitFullAndPartialTransferPrecondition` (113–130) | rank, permutation map, `in_bounds`, parent op | rejects rank 0, non-minor-identity maps, all-in-bounds ops, ops directly under `scf.if` | `SplitRewrite` |
| Descriptor unifier | `getCastCompatibleMemRefType` (141–167) | two memref types | first type if cast-compatible; else static fields where they agree, dynamic elsewhere; null on rank mismatch or non-strided layout | `MemRefCast` |
| Intersection view builder | `createSubViewIntersection` (172–210) | shapes, indices | `affine.min(dim - idx, allocDim)`, two unit-stride subviews | `TransferSplit` |
| Slow-path emitters | 230–425 | the alloca, the memref | the `scf.if` yielding (view, indices); `linalg.fill` + `memref.copy` or a cloned masked transfer; the write's copy-back | `TransferSplit` |
| Allocation-scope locator | `getAutomaticAllocationScope` (428–442) | the ancestor chain | walks up through `scf.for`/`affine.for`, remembers the last allocation scope | `ScopeLocator` |
| Orchestrator | `splitFullAndPartialTransfer` (504–618) | the transfer op, the IR | strategy dispatch, mask checks, condition, alloca, unification, read rewritten in place or write cloned twice and erased | `TransferSplit`, `SplitRewrite` |
| Pattern wrapper | `VectorTransferFullPartialRewriter` (620–660) | filter, options | precondition, filter, split | `SplitRewrite` |
| Canonicalizer pass | `Canonicalizer.cpp` 43–64 | driver config, canonicalization patterns | calls the greedy driver with the dialects' canonicalization patterns, which do not include this split | not modelled |
| Transfer semantics | `vector.transfer_read/write` (outside the repository) | memory, vector | the masked transfer | `TransferSemantics`, `AtomicTransfer` |
| Type interface test pass | `TestInterfaces.cpp` | none | prints type-interface results | not modelled |

### How the parts interact

`populateVectorTransferFullPartialPatterns` (656–660) adds the pattern to a
pattern set, which a pass hands to the greedy driver with its
`maxIterations` and `maxNumRewrites`. The canonicalizer pass does not: its
pattern set (`initialize`, 43–53) holds only the canonicalization patterns.
The driver (outside these sources) puts every
op on a worklist, erases trivially dead ops and calls the pattern wrapper on
each transfer op; it repeats while an iteration changed the IR. The wrapper
checks the precondition, then calls the orchestrator. The orchestrator calls
the condition builder, the scope locator (and places the alloca), the
unifier, then the emitters, which call the intersection builder. Everything
is single-threaded; what is hard is:
- IR built at compile time that must behave like the original masked op at
  run time (`TransferSplit`, refinement of `AtomicTransfer`);
- index arithmetic at the boundaries (`==` extent, past the extent, extent 0);
- the order of clones relative to attribute updates and erasure;
- a failure path that returns after the IR has already been changed;
- the driver re-applying the pattern to the ops the pattern created
  (`SplitRewrite`).

### What makes each component correct

- Condition builder: every dimension left out of the run-time condition is in
  bounds, by attribute or by folding (`FastPathInBounds`).
- Intersection builder: both subviews have non-negative sizes and lie inside
  their buffers (`SubviewsInBounds`).
- Orchestrator and emitters: the split read yields the masked read's vector
  (`ReadEquivalence`), the split write leaves the memref as the masked write
  would (`WriteEquivalence`); together, the split implements the atomic
  masked transfer (`RefinesAtomic`).
- Precondition, wrapper and driver: a failing application leaves the IR
  unchanged (`FailureIsNoOp`), no op is split twice (`SplitAtMostOnce`),
  rejected ops stay as they are (`RejectedUntouched`), and the driver
  converges (`Converges`).
- Unifier: both inputs are cast-compatible with the result
  (`UnifiedCastCompatible`), and it is null only where the split cannot
  proceed (`NullOnlyForRankOrLayout`).
- Scope locator: the alloca goes to the closest allocation scope that is not
  a loop (`PlacedAtIntendedScope`).

The hazards, each at its line, are listed in `PROJECT.json` under `hazards`.

## 2. Modules

### `TransferSemantics` and `AtomicTransfer` (the specification)

`TransferSemantics` defines positions, boxes and the masked
`TransferRead`/`TransferWrite` (ops defined outside the repository, modelled
from their documentation): a lane outside the buffer along dimensions that are
all not in-bounds is padded (read) or dropped (write); a lane outside along an
in-bounds dimension is undefined (`Garbage`). Data is abstracted to its
provenance: memory cell `p` holds `[from |-> "mem", at |-> p]`, lane `l` of the
written vector `[from |-> "vec", at |-> l]`, so one initial memory exposes any
misplaced, lost or invented element.

`AtomicTransfer` is what a transfer op promises: from the initial memory, one
step performs the masked transfer (`Transfer`) and the op is done. It is weakly
fair: an op that is reached executes.

### `TransferSplit` (one transfer, rewritten and then executed)

- Variables: `xfer` (kind, shapes, indices, `in_bounds`, which indices and
  extents are constants), `options`, `inBounds` (the attribute as rewritten),
  `checks` (dimensions of the emitted condition), `mem`, `alloc`, `view`,
  `result`, `pc`.
- Rewrite actions: `SplitNone` (507), `SplitForceInBounds` (510–517),
  `SplitNoCond` (538–541), `SplitEmit` (536–566).
- Run-time actions, one per emitted region: `ReadFastPath`, `ReadSlowCopy`,
  `ReadSlowReissue`, `WriteLocFast`, `WriteLocSlow`; `ReadInBounds`,
  `WriteInBounds`; `CopyBackSkip`, `CopyBackLinalg`, `CopyBackReissue`; and
  `OrigRead`, `OrigWrite` for an op left unsplit.
- `memref.copy` with a negative size is undefined: a choice between copying
  nothing and clobbering the element at the destination origin.
- `Init` enumerates the ops a program can contain: equal ranks, no mask, at
  least one dimension not in-bounds, an `in_bounds` attribute true only where
  the access is in bounds, indices at most `PastEnd` past the extent, and
  ForceInBounds only for ops that really are in bounds (the caller's
  assertion).
- Refinement: `Atomic == INSTANCE AtomicTransfer WITH ...` maps the op to its
  abstract fields (`AbstractOp`), and memory, vector and state to the initial
  memory, `<<>>` and `"pending"` until `pc = "done"`, and to `mem`, `result`
  and `"done"` from then on. Every step before the last one is an abstract
  stutter; the last one is the abstract `Transfer`. `FairSpec` adds weak
  fairness of `Next`: the emitted IR is straight-line code with no waits, so
  it runs to the end once started.

### `SplitRewrite` (the pattern under the greedy driver)

The IR is the bag `ir` of its transfer ops. An op is the record of the facts
the pattern tests: rank 0, permutation map, rank-reduced, mask, an
out-of-bounds dimension, whether the bounds check folds away, whether its
parent is an `scf.if`, and whether the user or a split produced it. The other
ops a split emits are never matched; the ops a failing application leaves
behind are counted in `dead`.

- Pattern actions (one per outcome of `matchAndRewrite` on a popped op):
  - `Reject`: precondition, strategy None, a mask, or a folded condition
    (`SplitAborts`) — the IR is unchanged;
  - `ForceInBounds`: the op is marked in-bounds (510–517);
  - `FailAfterAlloca`: a rank-reduced op; the condition ops and the alloca
    are created, then the unifier returns null (543–562);
  - `SplitRead` (568–591): the op becomes in-bounds; with VectorTransfer a
    clone under the `scf.if` is added (`SlowClone`);
  - `SplitWrite` (593–617): an in-bounds clone, the slow-path clone, the
    original erased.
- Driver actions (modelled from its documented loop, `spec_modelled`):
  `IterStart` (every op on the worklist), `EraseDead`, `IterEnd`,
  `IterLimit`; each pattern action needs `CanProcess` (the
  `maxNumRewrites` budget).
- `Init`: the pattern populated with one strategy (656–660), and a function
  of at most `MaxUserOps` ops. `Finish`: the driver returns whether the last
  iteration changed nothing (`spec_modelled`).
- Fairness: `WF_vars(Next)`. The driver is one sequential loop that runs to
  its return; weak fairness of the whole next-state relation only says it
  does not stop in the middle.

### `ScopeLocator`

The chain of the transfer's ancestors, innermost first, is a sequence of op
kinds. `Visit` is one turn of the loop (record the parent if it is an
allocation scope; continue only through `scf.for`/`affine.for`), `ReachRoot`
the null parent, `Check` the assertion. `IntendedScope` is the reference the
comment above the loop states: the closest ancestor that is an allocation
scope and not a loop.

### `MemRefCast`

A memref type is a record of rank, shape, strided flag, strides, offset and
memory space over small size sets and a `Dynamic` sentinel.
`GetCastCompatibleMemRefType` follows lines 141–167; `AreCastCompatible` is
`memref.cast`'s documented rule (not in this repository). `Init` picks the
transfer's memref type and the alloca's type (static shape, identity layout,
default space, lines 546–556); `Unify` is the call at 558–562.

## 3. Runs

| Run | Module | Expect | Properties | What it shows |
|---|---|---|---|---|
| `split_safety` | `MC_TransferSplit` | pass | `TypeOK`, `FastPathInBounds` | reads and writes under every strategy: the state keeps its shape and the fast path stays in bounds |
| `split_semantics` | `MC_TransferSplit` | pass | `SubviewsInBounds`, `ReadEquivalence`, `WriteEquivalence`, `RefinesAtomic` | every op but a LinalgCopy write (finding 1): copies within both buffers, the masked transfer's result, and the atomic transfer implemented |
| `write_copy_back` | `MC_TransferSplit` | violation | `WriteEquivalence` | finding 1 |
| `read_past_end` | `MC_TransferSplit` | violation | `SubviewsInBounds` | finding 2 |
| `rewrite_fixpoint` | `MC_SplitRewrite` | pass | `TypeOK`, `SplitAtMostOnce`, `RejectedUntouched`, `Converges` | no double split, rejected ops untouched, convergence |
| `rewrite_strategies` | `MC_SplitRewrite` | pass | `SplitAtMostOnce` | ForceInBounds, LinalgCopy and VectorTransfer with rejected and rank-reduced ops: no double rewrite |
| `rank_reduced_noop` | `MC_SplitRewrite` | violation | `FailureIsNoOp` | finding 3 |
| `masked_force` | `MC_SplitRewrite` | violation | `RejectedUntouched` | finding 4 |
| `scope_hoisting` | `MC_ScopeLocator` | pass | `PlacedAtIntendedScope` | loops only: the alloca is hoisted to the function |
| `scope_any_parent` | `MC_ScopeLocator` | violation | `PlacedAtIntendedScope` | finding 5 |
| `unify_default_space` | `MC_MemRefCast` | pass | `UnifiedCastCompatible`, `NullOnlyForRankOrLayout` | the unified type verifies as a cast target |
| `unify_memory_space` | `MC_MemRefCast` | violation | `UnifiedCastCompatible` | finding 6 |

Bounds and why they suffice:
- `MC_TransferSplit`: rank 2 (interior and boundary dimensions together, one
  folded while the other is checked), extents 0..3, 1–2 lanes (empty memref,
  window ending exactly at the extent, crossing it, starting at it),
  `PastEnd = 1` for the violation run. Behaviours have at most 4 steps.
- `MC_SplitRewrite`: two ops per function out of eight shapes that take every
  branch of the precondition and the split (plus sets of rank-reduced,
  masked and ForceInBounds ops), `MaxIterations = 3`, `MaxNumRewrites` 1 or 2
  so the budget cuts an iteration short. A split adds at most two ops; two
  user ops already give a split op next to a user op it must not disturb.
- `MC_ScopeLocator`: chains of up to four nested `scf.for`, `affine.for`,
  `scf.if`, `scf.while`, `affine.if` inside a function in a module, and
  loop-only chains that reach the root.
- `MC_MemRefCast`: ranks 1–2, sizes, strides and offsets in {0,1,2} or
  dynamic, strided and non-strided layouts, memory spaces 0 and 1.

`split_semantics` checks `NoCopyBackSpec` (with weak fairness): every op and
strategy except a LinalgCopy write, whose copy-back is finding 1 (`write_copy_back`);
LinalgCopy writes are in `split_safety`. `Converges` is checked where every op
can be rewritten to a fixpoint (`rewrite_fixpoint`). It is not checked with
rank-reduced ops, because each iteration leaves new dead ops behind on them
(finding 3).

Deadlock checking is off in every run: the transfer, the walk, the unifier
and the pass all really stop (`pc = "done"`, `"placed"`, `"failed"`).

## 4. Findings

1. **The LinalgCopy write slow path copies to the wrong place**
   (`createSubViewIntersection`, 205–208). For a write the buffers are swapped
   but the offsets are not: the copy goes from `alloc[idx ..]` to
   `memref[0 ..]` (spec 4.3 and property 6 require it at the indices).
2. **An index past the extent gives a negative overlap** (line 196):
   `memref.subview`/`memref.copy` get a negative size, which is undefined,
   where the masked op would return padding.
3. **A rank-reduced transfer makes the pattern fail after changing the IR**
   (line 561). The precondition's comment lists equal ranks but the code never
   checks them. The condition ops and the alloca are created, then the
   unifier returns null, and the pattern returns failure with the IR
   changed. A failing pattern must leave the IR as it was (`FailureIsNoOp`).
4. **ForceInBounds rewrites masked transfers** (510–517): it returns before
   the mask check at 530–533; spec 8.7 says masked ops are never rewritten.
5. **The scope walk stops at any non-loop parent** (437): under `scf.while`
   or `affine.if` inside a function the scope is null and the assertion at 440
   fires; under `scf.if` inside `scf.for` the alloca goes inside the loop.
6. **The merged type drops the memory space** (164): for a memref outside
   the default space that is not cast-compatible with the alloca, the emitted
   `memref.cast` does not verify.

## 5. Proofs (checked by `tlapm`)

`TransferSplit_proofs`:
- Assumptions: `RankAssumption` (rank ≥ 1), `ExtentAssumption`, and the kind
  and strategy assumptions.
- `TypeCorrect: Spec => []TypeOK`, from `IInv == TypeOK /\ AllocExists /\
  CopyBackOfWrite`. `TypeOK` alone is not inductive: the slow path fills,
  copies into and reads the alloca, so the invariant must say the alloca has
  one vector's shape from `SplitEmit` on, and that only a write reaches the
  copy-back. Lemmas `TransferReadType`, `TransferWriteType`, `CopyType`,
  `ContentType`.
- `FastPathSafe: Spec => []FastPathInBounds`, strengthened by `SplitInv`
  (after the split, `checks = InBoundsCond(xfer)`; the fast view is taken only
  when the condition held), with lemma `OmittedDimsFit`.

`MemRefCast_proofs`:
- `UnifySound`: for any two types in the default space, a non-null result of
  `GetCastCompatibleMemRefType` is cast-compatible with both. Lemmas:
  `CompatibleRefl`, `CompatibleSym`, `AgreeCompatible`, `MergedType`.
- `UnifyNull`: against a strided type it is null exactly on a rank mismatch or
  a non-strided first layout.
- `UnifyCastsVerify` and `UnifyNullOnlyForRankOrLayout`: the two invariants
  of `unify_default_space` for every instance whose memrefs and allocas are in
  the default space (`DefaultSpaceTypes`), from `IInv` (after the call, `res`
  is the function's value). The hypothesis is needed: finding 6 shows the
  invariant is false without it.

`ScopeLocator_proofs`:
- `ScopeFound: ASSUME FirstNonLoopIsScope PROVE Spec => []PlacedAtIntendedScope`
  for chains of any length. The hypothesis says the first ancestor that is not
  `scf.for`/`affine.for` is an allocation scope; `scope_any_parent` shows the
  property fails without it. Inductive invariant `IInv`: every ancestor passed
  is a loop, and once the walk stops it is past the root or on a non-loop
  ancestor that it recorded if that ancestor is a scope. Lemmas
  `IntendedIsFirst` (then that ancestor is the closest non-loop scope) and
  `NoIntendedInLoops` (an all-loop chain has none).

`TransferSplit_refinement` (the equivalence of the split with the original
transfer, for every rank and extent):
- Hypotheses: `PastEnd = 0` and `NoCopyBackSpec` (no LinalgCopy write). They
  are the configuration of `split_semantics`. Findings 2 and 1 show each
  property is false without them.
- Inductive invariant `FullInv == IInv /\ SplitInv /\ EInv`. `EInv` records
  what the emitted code has done so far:
  - memory is untouched until a write's last step;
  - ForceInBounds is only chosen for ops that fit (`AllFit`);
  - the attribute is rewritten only when every dimension fits;
  - when the slow path reads the alloca, the condition failed and the alloca
    holds the masked read of the original op (`RdRef`);
  - at the copy-back, either the condition held and memory is already the
    original write's result (`WrRef`), or it failed and memory is untouched
    with the vector in the alloca;
  - at the end, the result is `RdRef` or memory is `WrRef`.

  The three properties are not inductive alone because each one is only
  about the last state, and the path there goes through the alloca.
- Lemmas:
  - `FitReadUnmasked`: a window that fits reads the same with or without
    masking;
  - `AllocRead` and `AllocWrite`: a full-window access to the alloca is the
    identity;
  - `PaddedCopyIsMaskedRead`: the padding-filled alloca with the
    intersection copied into it is the masked read;
  - `CondHoldsAllFit`;
  - `Frame`: what no step changes.
- `ReadEquivalent`, `WriteEquivalent` and `SubviewsSafe`: the invariants
  `ReadEquivalence`, `WriteEquivalence` and `SubviewsInBounds` of
  `split_semantics`.
- `SplitRefinesAtomic`: `NoCopyBackSpec => Atomic!Init /\
  [][Atomic!Transfer]_AtomicVars`, the safety half of `RefinesAtomic`.
  `InitRefines` maps initial states. `StepRefines` maps each step to a
  stutter or, for the step to `done`, to the atomic transfer (lemma
  `SharedSemantics` identifies the instance's operators with the module's).

`SplitRewrite_proofs` (for every set of user ops, strategy set and driver
bound):
- Assumption: `UserOpsAssumption` now also says `UserOps` is finite. A
  function holds finitely many ops.
- Lemmas on the bag operations: `CopiesSum`, `CopiesOne`, `CopiesEmpty`,
  `CopiesRemove`, `CopiesRemoveOther`, `CopiesNat`, `CopiesMember`,
  `BagSum`, `BagRemove`, `BagOfSet`, `CopiesSetToBag`.
- `TypeCorrect: Spec => []TypeOK` (the invariant is inductive as it stands).
- `RejectedStayUntouched: ASSUME "ForceInBounds" \notin Strategies PROVE
  Spec => []RejectedUntouched`, from `RInv == TypeOK /\ RejectedUntouched`.
  Lemma `SplitKeepsRejected`: a rewrite removes only the op it matched, which
  is unmasked, and adds only ops the split made. Without the hypothesis the
  property is false (finding 4).
- `SplitOnce: Spec => []SplitAtMostOnce`, for every strategy. `SInv` says:
  - a candidate (an op that passes the precondition) is in the function at
    most once;
  - it is on the worklist at most as often as in the function;
  - every candidate in the function is a user op;
  - `splits` is the number of user candidates gone from the function
    (`SplitDone`).

  So every successful rewrite adds its op to `SplitDone`, and lemma
  `NewOpsNotCandidates` shows it adds no new candidate. `SplitAtMostOnce`
  alone is not inductive: it says nothing about which ops can still be
  matched.

TLC only:
- `FailureIsNoOp` is false (finding 3). The `PastEnd > 0` and LinalgCopy-write
  cases are violations (findings 1 and 2), so nothing is proved there;
- liveness (`Converges`, and the fairness part of `RefinesAtomic`): TLAPS
  does not reason about ENABLED and fairness here;
- what a recursive definition computes for every input (no project module
  uses one).

## 6. Not modelled

- The greedy driver's folding, region simplification and top-down order: they
  do not change what the split pattern does.
- The canonicalizer pass (`Canonicalizer.cpp`). It copies its options into
  the driver's configuration and calls the driver with the dialects'
  canonicalization patterns (`initialize`, 43–53). The split pattern is not
  among them, so the pass never applies what this project models.
- The pattern's `filter` (always success as populated at 656–660).
- Permutation maps and rank 0 beyond rejection; rank-reduced transfers beyond
  the failure path (the code cannot split them).
- `TestInterfaces.cpp`: prints type-interface results only.

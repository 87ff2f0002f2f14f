------------------------- MODULE MC_SplitRewrite --------------------------
(***************************************************************************)
(* Model-checking instance of SplitRewrite: transfer ops that exercise     *)
(* each early return of the pattern, at most two per function.             *)
(***************************************************************************)
EXTENDS SplitRewrite

(* An unmasked, minor-identity, equal-rank transfer with a run-time check. *)
Plain(k) ==
  [kind |-> k, rank0 |-> FALSE, permuted |-> FALSE, reduced |-> FALSE,
   masked |-> FALSE, oob |-> TRUE, folds |-> FALSE, underIf |-> FALSE,
   origin |-> "user"]

(* Candidates and every kind of op the pattern rejects.                   *)
MCUserOps ==
  { Plain("read"), Plain("write"),
    [Plain("read") EXCEPT !.rank0 = TRUE],
    [Plain("write") EXCEPT !.permuted = TRUE],
    [Plain("read") EXCEPT !.masked = TRUE],
    [Plain("write") EXCEPT !.folds = TRUE],
    [Plain("read") EXCEPT !.underIf = TRUE],
    [Plain("write") EXCEPT !.oob = FALSE] }

(* Candidates, ops the precondition rejects and rank-reduced ops, without  *)
(* masks: the ops every strategy but None rewrites or fails on.            *)
MCForceOps ==
  { Plain("read"), Plain("write"),
    [Plain("read") EXCEPT !.permuted = TRUE],
    [Plain("write") EXCEPT !.underIf = TRUE],
    [Plain("read") EXCEPT !.reduced = TRUE],
    [Plain("write") EXCEPT !.reduced = TRUE] }

(* Transfers whose memref has a larger rank than the vector.               *)
MCReducedOps ==
  { [Plain("read") EXCEPT !.reduced = TRUE],
    [Plain("write") EXCEPT !.reduced = TRUE],
    Plain("read"), Plain("write") }

(* A masked transfer under the ForceInBounds strategy.                     *)
MCMaskedOps ==
  { [Plain("read") EXCEPT !.masked = TRUE] }
=============================================================================

---------------------------- MODULE ScopeLocator ----------------------------
(***************************************************************************)
(* getAutomaticAllocationScope: the walk up the ancestors of a transfer op *)
(* that chooses where the split's alloca goes.  An op is abstracted to its *)
(* kind; the chain is the sequence of the transfer's ancestors, innermost  *)
(* first.  Which kinds carry the AutomaticAllocationScope trait is a       *)
(* constant: the trait is declared in the op definitions of the dialects,  *)
(* not in this repository.                                                 *)
(***************************************************************************)
EXTENDS Integers, Sequences

CONSTANTS
  Kinds,        \* op kinds that may enclose a transfer
  ScopeKinds,   \* kinds with the AutomaticAllocationScope trait
  LoopKinds,    \* the looping constructs the walk passes: scf.for, affine.for
  Chains        \* ancestor chains of a transfer, innermost first

ASSUME KindsAssumption ==
  /\ ScopeKinds \subseteq Kinds
  /\ LoopKinds \subseteq Kinds
  /\ Chains \subseteq Seq(Kinds)

VARIABLES
  chain,    \* the ancestors of the transfer op, innermost first
  parent,   \* index in chain of the ancestor visited next
  scope,    \* index of the scope found so far, 0 for nullptr
  pc        \* "walk", "check", "placed", or "failed" (the assertion)

vars == <<chain, parent, scope, pc>>

(***************************************************************************)
(* The answer the comment above the loop and the spec describe: the        *)
(* closest ancestor that is an allocation scope and not a looping          *)
(* construct, 0 if there is none.                                          *)
(***************************************************************************)
IntendedScope(c) ==
  LET good == {i \in 1..Len(c) : c[i] \in ScopeKinds \ LoopKinds}
  IN  IF good = {} THEN 0 ELSE CHOOSE i \in good : \A j \in good : i <= j

Init ==
  /\ chain \in Chains
  /\ parent = 1
  /\ scope = 0
  /\ pc = "walk"

(* Fault-injection variant: only the innermost scope is kept.              *)
VisitFirstScope ==
  /\ pc = "walk"
  /\ parent <= Len(chain)
  /\ scope' = IF chain[parent] \in ScopeKinds /\ scope = 0 THEN parent
              ELSE scope
  /\ IF chain[parent] \in LoopKinds
       THEN parent' = parent + 1 /\ pc' = "walk"
       ELSE parent' = parent /\ pc' = "check"
  /\ UNCHANGED chain

(***************************************************************************)
(* One turn of the loop: record the parent if it is an allocation scope,   *)
(* then break unless it is scf.for or affine.for.                          *)
(***************************************************************************)
Visit ==
  /\ pc = "walk"
  /\ parent <= Len(chain)
  /\ scope' = IF chain[parent] \in ScopeKinds THEN parent ELSE scope
  /\ IF chain[parent] \in LoopKinds
       THEN parent' = parent + 1 /\ pc' = "walk"
       ELSE parent' = parent /\ pc' = "check"
  /\ UNCHANGED chain

(* The walk passed the outermost op: getParentOp() is null.                *)
ReachRoot ==
  /\ pc = "walk"
  /\ parent > Len(chain)
  /\ pc' = "check"
  /\ UNCHANGED <<chain, parent, scope>>

(* The assertion: the alloca is placed at the top of the scope's region.   *)
Check ==
  /\ pc = "check"
  /\ pc' = IF scope # 0 THEN "placed" ELSE "failed"
  /\ UNCHANGED <<chain, parent, scope>>

Next == Visit \/ ReachRoot \/ Check

Spec == Init /\ [][Next]_vars

-----------------------------------------------------------------------------
(***************************************************************************)
(* The alloca lands where it is meant to: when the transfer has an         *)
(* ancestor that is an allocation scope and not a loop, the walk ends at   *)
(* the closest such ancestor (spec 4.4 and 8.5: a transfer nested in loops *)
(* inside a function gets its buffer at the top of the function, and the  *)
(* assertion holds whenever such a scope exists).                          *)
(***************************************************************************)
PlacedAtIntendedScope ==
  pc \in {"placed", "failed"} /\ IntendedScope(chain) # 0
    => scope = IntendedScope(chain)
=============================================================================

------------------------- MODULE MC_ScopeLocator --------------------------
(***************************************************************************)
(* Model-checking instance of ScopeLocator: a transfer inside a function,  *)
(* below up to four structured-control-flow ops.                           *)
(***************************************************************************)
EXTENDS ScopeLocator

MCKinds == {"scf.for", "affine.for", "scf.if", "scf.while", "affine.if",
            "func.func", "builtin.module"}

(* scf.for and affine.for are declared AutomaticAllocationScope, as is     *)
(* func.func; the conditionals and scf.while are not.                      *)
MCScopeKinds == {"scf.for", "affine.for", "func.func"}

MCLoopKinds == {"scf.for", "affine.for"}

(* Nests of ops of the set S, innermost first, up to four deep, inside a   *)
(* function of a module.                                                   *)
InFunction(S) ==
  { s \o <<"func.func", "builtin.module">> :
      s \in UNION {[1..n -> S] : n \in 0..4} }

(* Loop nests only: the situation of spec 8.5, and nests whose outermost   *)
(* op is a loop (the driver run on the regions of a loop op).              *)
MCLoopChains ==
  InFunction(MCLoopKinds) \cup UNION {[1..n -> MCLoopKinds] : n \in 1..3}

(* Any structured control flow, except an scf.if as the immediate parent,  *)
(* which the split's precondition rejects.                                 *)
MCChains ==
  { c \in InFunction({"scf.for", "affine.for", "scf.if", "scf.while",
                      "affine.if"}) : c[1] # "scf.if" }
=============================================================================

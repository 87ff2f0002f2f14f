------------------------- MODULE ScopeLocator_proofs ------------------------
(***************************************************************************)
(* A proof, for ancestor chains of any length and any sets of kinds, that  *)
(* getAutomaticAllocationScope finds the closest allocation scope that is  *)
(* not a loop whenever the first ancestor that is not scf.for/affine.for   *)
(* is itself an allocation scope: the break on the first non-loop parent  *)
(* is harmless exactly in that case (run scope_any_parent shows the other  *)
(* case).                                                                  *)
(***************************************************************************)
EXTENDS ScopeLocator, TLAPS

(* The first ancestor that is not a loop, if there is one, carries the     *)
(* AutomaticAllocationScope trait (a function, not an scf.while).          *)
FirstNonLoopIsScope ==
  \A c \in Chains : \A i \in 1..Len(c) :
    (c[i] \notin LoopKinds /\ \A j \in 1..i-1 : c[j] \in LoopKinds)
      => c[i] \in ScopeKinds

(***************************************************************************)
(* The walk so far: every ancestor passed is a loop, and once it stops,    *)
(* either it went past the root or it stopped on a non-loop ancestor,      *)
(* which it recorded if that ancestor is a scope.                          *)
(***************************************************************************)
IInv ==
  /\ chain \in Chains
  /\ parent \in 1..Len(chain) + 1
  /\ \A j \in 1..parent-1 : chain[j] \in LoopKinds
  /\ pc \in {"walk", "check", "placed", "failed"}
  /\ pc # "walk" =>
       \/ parent = Len(chain) + 1
       \/ /\ parent <= Len(chain)
          /\ chain[parent] \notin LoopKinds
          /\ chain[parent] \in ScopeKinds => scope = parent

LEMMA InitIInv == Init => IInv
  <1> SUFFICES ASSUME Init PROVE IInv
    OBVIOUS
  <1>1. chain \in Seq(Kinds)
    BY KindsAssumption DEF Init
  <1>. QED
    BY <1>1 DEF Init, IInv

LEMMA NextIInv == IInv /\ [Next]_vars => IInv'
  <1> SUFFICES ASSUME IInv, [Next]_vars PROVE IInv'
    OBVIOUS
  <1>0. chain \in Seq(Kinds)
    BY KindsAssumption DEF IInv
  <1>1. CASE Visit
    <2>1. parent <= Len(chain) /\ chain' = chain
      BY <1>1 DEF Visit
    <2>2. CASE chain[parent] \in LoopKinds
      BY <1>0, <1>1, <2>1, <2>2 DEF Visit, IInv
    <2>3. CASE chain[parent] \notin LoopKinds
      BY <1>0, <1>1, <2>1, <2>3 DEF Visit, IInv
    <2>. QED
      BY <2>2, <2>3
  <1>2. CASE ReachRoot
    BY <1>0, <1>2 DEF ReachRoot, IInv
  <1>3. CASE Check
    BY <1>0, <1>3 DEF Check, IInv
  <1>4. CASE UNCHANGED vars
    BY <1>4 DEF vars, IInv
  <1>. QED
    BY <1>1, <1>2, <1>3, <1>4 DEF Next

(* The closest non-loop scope of a chain whose first i-1 ancestors are     *)
(* loops and whose i-th is a non-loop scope is the i-th.                   *)
LEMMA IntendedIsFirst ==
  ASSUME NEW c \in Seq(Kinds), NEW i \in 1..Len(c),
         \A j \in 1..i-1 : c[j] \in LoopKinds,
         c[i] \in ScopeKinds \ LoopKinds
  PROVE  IntendedScope(c) = i
  <1> DEFINE good == {k \in 1..Len(c) : c[k] \in ScopeKinds \ LoopKinds}
  <1>1. i \in good /\ \A k \in good : i <= k
    OBVIOUS
  <1>2. \A m \in good : (\A k \in good : m <= k) => m = i
    BY <1>1
  <1>3. (CHOOSE m \in good : \A k \in good : m <= k) = i
    BY <1>1, <1>2
  <1>. QED
    BY <1>1, <1>3 DEF IntendedScope

(* A chain all of whose ancestors are loops has no intended scope.         *)
LEMMA NoIntendedInLoops ==
  ASSUME NEW c \in Seq(Kinds), \A j \in 1..Len(c) : c[j] \in LoopKinds
  PROVE  IntendedScope(c) = 0
  BY DEF IntendedScope

(***************************************************************************)
(* The run's invariant for every chain: when the first non-loop ancestor   *)
(* is an allocation scope, the walk records the closest non-loop scope.    *)
(***************************************************************************)
THEOREM ScopeFound ==
  ASSUME FirstNonLoopIsScope
  PROVE  Spec => []PlacedAtIntendedScope
  <1>1. IInv => PlacedAtIntendedScope
    <2> SUFFICES ASSUME IInv, pc \in {"placed", "failed"},
                        IntendedScope(chain) # 0
                 PROVE  scope = IntendedScope(chain)
      BY DEF PlacedAtIntendedScope
    <2>0. chain \in Seq(Kinds)
      BY KindsAssumption DEF IInv
    <2>1. CASE parent = Len(chain) + 1
      <3>1. \A j \in 1..Len(chain) : chain[j] \in LoopKinds
        BY <2>1 DEF IInv
      <3>. QED
        BY <2>0, <3>1, NoIntendedInLoops
    <2>2. CASE parent # Len(chain) + 1
      <3>1. /\ parent \in 1..Len(chain)
            /\ chain[parent] \notin LoopKinds
            /\ chain[parent] \in ScopeKinds => scope = parent
            /\ \A j \in 1..parent-1 : chain[j] \in LoopKinds
        BY <2>2 DEF IInv
      <3>2. chain[parent] \in ScopeKinds
        BY <3>1 DEF IInv, FirstNonLoopIsScope
      <3>3. IntendedScope(chain) = parent
        BY <2>0, <3>1, <3>2, IntendedIsFirst
      <3>. QED
        BY <3>1, <3>2, <3>3
    <2>. QED
      BY <2>1, <2>2
  <1>. QED
    BY <1>1, InitIInv, NextIInv, PTL DEF Spec
=============================================================================

------------------------- MODULE SplitRewrite_proofs -------------------------
(***************************************************************************)
(* Proofs about the full/partial split pattern under the greedy driver,   *)
(* for every set of user ops, every strategy set and every driver bound.  *)
(***************************************************************************)
EXTENDS SplitRewrite, FiniteSetTheorems, TLAPS

(***************************************************************************)
(* Lemmas on the bag operations the rewrites use.                          *)
(***************************************************************************)
LEMMA CopiesSum ==
  ASSUME NEW e, NEW B1, NEW B2
  PROVE  Copies(e, B1 (+) B2) = Copies(e, B1) + Copies(e, B2)
BY DEF Copies, (+)

LEMMA CopiesOne ==
  ASSUME NEW e, NEW x
  PROVE  Copies(e, One(x)) = IF e = x THEN 1 ELSE 0
BY DEF Copies, One, SetToBag

LEMMA CopiesEmpty ==
  ASSUME NEW e
  PROVE  Copies(e, EmptyBag) = 0
BY DEF Copies, EmptyBag, SetToBag

(* Taking one copy of x out of a bag leaves the copies of any other op.   *)
LEMMA CopiesRemoveOther ==
  ASSUME NEW e, NEW x, NEW B, e # x, Copies(e, B) \in Nat \ {0}
  PROVE  Copies(e, B (-) One(x)) = Copies(e, B)
BY DEF Copies, (-), One, SetToBag

(* Sums, removals, single ops and sets of ops are bags, over the ops      *)
(* their operands hold.                                                    *)
LEMMA BagSum ==
  ASSUME NEW B1, NEW B2, IsABag(B1), IsABag(B2)
  PROVE  IsABag(B1 (+) B2) /\ DOMAIN (B1 (+) B2) = DOMAIN B1 \cup DOMAIN B2
BY DEF IsABag, (+)

LEMMA BagRemove ==
  ASSUME NEW B, NEW x, IsABag(B)
  PROVE  IsABag(B (-) One(x)) /\ DOMAIN (B (-) One(x)) \subseteq DOMAIN B
BY DEF IsABag, (-), One, SetToBag

LEMMA BagOfSet ==
  ASSUME NEW S
  PROVE  /\ IsABag(SetToBag(S)) /\ DOMAIN SetToBag(S) = S
         /\ IsABag(EmptyBag) /\ DOMAIN EmptyBag = {}
BY DEF IsABag, SetToBag, EmptyBag

(* Every op of the initial function is in it once.                         *)
LEMMA CopiesSetToBag ==
  ASSUME NEW e, NEW S, e \in S
  PROVE  Copies(e, SetToBag(S)) = 1
BY DEF Copies, SetToBag

-----------------------------------------------------------------------------
(***************************************************************************)
(* Type correctness: the function and the worklist stay bags of op         *)
(* records, and the counters stay within the driver's bounds.              *)
(***************************************************************************)

(* What a split adds is ops.                                                *)
LEMMA SplitOps ==
  ASSUME NEW x \in OpRec
  PROVE  /\ InBoundsOf(x) \in OpRec /\ UnderIfOf(x) \in OpRec
         /\ IsABag(SlowClone(x)) /\ DOMAIN SlowClone(x) \subseteq OpRec
<1>1. InBoundsOf(x) \in OpRec /\ UnderIfOf(x) \in OpRec
  BY DEF InBoundsOf, UnderIfOf, OpRec
<1>2. QED
  BY <1>1, BagOfSet DEF SlowClone, One

LEMMA InitTypeOK == Init => TypeOK
<1> SUFFICES ASSUME Init PROVE TypeOK
  OBVIOUS
<1>1. userOps \subseteq UserOps /\ options \in Strategies
  BY DEF Init
<1>2. IsABag(ir) /\ BagToSet(ir) \subseteq OpRec
      /\ IsABag(worklist) /\ BagToSet(worklist) \subseteq OpRec
  BY <1>1, BagOfSet, UserOpsAssumption DEF Init, BagToSet
<1>3. iteration \in 0..MaxIterations /\ numRewrites \in 0..MaxNumRewrites
  BY DriverAssumption DEF Init
<1>4. QED
  BY <1>1, <1>2, <1>3 DEF Init, TypeOK

LEMMA NextTypeOK == TypeOK /\ [Next]_vars => TypeOK'
<1> SUFFICES ASSUME TypeOK, [Next]_vars PROVE TypeOK'
  OBVIOUS
<1>0. MaxNumRewrites \in Nat /\ MaxIterations \in Nat
  BY DriverAssumption
<1>1. CASE \E x \in BagToSet(worklist) :
             \/ Reject(x) \/ ForceInBounds(x) \/ FailAfterAlloca(x)
             \/ SplitRead(x) \/ SplitWrite(x)
  <2>1. PICK x \in BagToSet(worklist) :
             \/ Reject(x) \/ ForceInBounds(x) \/ FailAfterAlloca(x)
             \/ SplitRead(x) \/ SplitWrite(x)
    BY <1>1
  <2>2. x \in OpRec /\ IsABag(Pop(x)) /\ BagToSet(Pop(x)) \subseteq OpRec
    BY BagRemove DEF TypeOK, Pop, BagToSet
  <2>3. CASE Reject(x) \/ FailAfterAlloca(x)
    BY <2>2, <2>3 DEF Reject, FailAfterAlloca, TypeOK
  <2>4. CASE ForceInBounds(x) \/ SplitRead(x) \/ SplitWrite(x)
    <3>1. /\ numRewrites' = numRewrites + 1 /\ splits' = splits + 1
          /\ numRewrites < MaxNumRewrites
          /\ changed' = TRUE /\ result' = "success"
          /\ UNCHANGED <<options, userOps, dead, iteration, pc, converged>>
      BY <2>4 DEF ForceInBounds, SplitRead, SplitWrite, Rewritten, CanProcess
    <3>2. /\ InBoundsOf(x) \in OpRec
          /\ IsABag(SlowClone(x)) /\ DOMAIN SlowClone(x) \subseteq OpRec
          /\ IsABag(EmptyBag) /\ DOMAIN EmptyBag \subseteq OpRec
      BY <2>2, SplitOps, BagOfSet
    <3>3. /\ IsABag(ir (-) One(x)) /\ DOMAIN (ir (-) One(x)) \subseteq OpRec
          /\ IsABag(Pop(x)) /\ DOMAIN Pop(x) \subseteq OpRec
          /\ IsABag(One(InBoundsOf(x))) /\ DOMAIN One(InBoundsOf(x)) \subseteq OpRec
      <4>1. IsABag(ir) /\ DOMAIN ir \subseteq OpRec
            /\ IsABag(worklist) /\ DOMAIN worklist \subseteq OpRec
        BY DEF TypeOK, BagToSet
      <4>2. IsABag(ir (-) One(x)) /\ DOMAIN (ir (-) One(x)) \subseteq OpRec
        BY <4>1, BagRemove
      <4>3. IsABag(Pop(x)) /\ DOMAIN Pop(x) \subseteq OpRec
        BY <4>1, BagRemove DEF Pop
      <4>4. IsABag(One(InBoundsOf(x))) /\ DOMAIN One(InBoundsOf(x)) = {InBoundsOf(x)}
        BY BagOfSet DEF One
      <4>5. QED
        BY <3>2, <4>2, <4>3, <4>4
    <3>4. /\ IsABag(ir') /\ BagToSet(ir') \subseteq OpRec
          /\ IsABag(worklist') /\ BagToSet(worklist') \subseteq OpRec
      <4>1. CASE ForceInBounds(x)
        <5>1. /\ ir' = (ir (-) One(x)) (+) One(InBoundsOf(x))
              /\ worklist' = Pop(x) (+) One(InBoundsOf(x))
          BY <4>1 DEF ForceInBounds
        <5>2. QED
          BY <3>3, <5>1, BagSum DEF BagToSet
      <4>2. CASE SplitRead(x) \/ SplitWrite(x)
        <5>1. /\ ir' = (ir (-) One(x)) (+) One(InBoundsOf(x)) (+) SlowClone(x)
              /\ worklist' = Pop(x) (+) One(InBoundsOf(x)) (+) SlowClone(x)
          BY <4>2 DEF SplitRead, SplitWrite
        <5>2. /\ IsABag((ir (-) One(x)) (+) One(InBoundsOf(x)))
              /\ DOMAIN ((ir (-) One(x)) (+) One(InBoundsOf(x))) \subseteq OpRec
              /\ IsABag(Pop(x) (+) One(InBoundsOf(x)))
              /\ DOMAIN (Pop(x) (+) One(InBoundsOf(x))) \subseteq OpRec
          <6>1. IsABag((ir (-) One(x)) (+) One(InBoundsOf(x)))
                /\ DOMAIN ((ir (-) One(x)) (+) One(InBoundsOf(x)))
                     = DOMAIN (ir (-) One(x)) \cup DOMAIN One(InBoundsOf(x))
            BY <3>3, BagSum
          <6>2. IsABag(Pop(x) (+) One(InBoundsOf(x)))
                /\ DOMAIN (Pop(x) (+) One(InBoundsOf(x)))
                     = DOMAIN Pop(x) \cup DOMAIN One(InBoundsOf(x))
            BY <3>3, BagSum
          <6>3. QED
            BY <3>3, <6>1, <6>2
        <5>3. QED
          BY <3>2, <5>1, <5>2, BagSum DEF BagToSet
      <4>3. QED
        BY <2>4, <4>1, <4>2
    <3>5. QED
      BY <1>0, <3>1, <3>4 DEF TypeOK
  <2>5. QED
    BY <2>1, <2>3, <2>4
<1>2. CASE EraseDead
  BY <1>2 DEF EraseDead, TypeOK
<1>3. CASE IterStart
  <2>1. IsABag(worklist') /\ BagToSet(worklist') \subseteq OpRec
    BY <1>3 DEF IterStart, TypeOK
  <2>2. iteration' \in 0..MaxIterations /\ numRewrites' \in 0..MaxNumRewrites
    BY <1>0, <1>3 DEF IterStart, TypeOK
  <2>3. QED
    BY <1>3, <2>1, <2>2 DEF IterStart, TypeOK
<1>4. CASE IterLimit \/ IterEnd \/ Finish
  BY <1>4 DEF IterLimit, IterEnd, Finish, TypeOK
<1>5. CASE UNCHANGED vars
  BY <1>5 DEF vars, TypeOK
<1>6. QED
  BY <1>1, <1>2, <1>3, <1>4, <1>5 DEF Next

(* Run rewrite_fixpoint's and rewrite_strategies's type invariant for     *)
(* every function, strategy set and driver bound: the pattern only ever    *)
(* replaces a transfer by transfers, and the driver never exceeds its      *)
(* maxIterations and maxNumRewrites budgets.                               *)
THEOREM TypeCorrect == Spec => []TypeOK
BY InitTypeOK, NextTypeOK, PTL DEF Spec

-----------------------------------------------------------------------------
(***************************************************************************)
(* Rejected ops stay untouched.  The rewrites take out of the function    *)
(* only the op they matched, which passed the precondition and has no     *)
(* mask, and add only ops the split created; so an op of rank 0, with a   *)
(* permuted map or with a mask keeps its single copy.  This needs the      *)
(* strategy not to be ForceInBounds, which rewrites masked ops too (run   *)
(* masked_force).                                                          *)
(***************************************************************************)
Rejected(o) == o.rank0 \/ o.permuted \/ o.masked

RInv == TypeOK /\ RejectedUntouched

LEMMA InitRInv == Init => RInv
<1> SUFFICES ASSUME Init PROVE RInv
  OBVIOUS
<1>1. RejectedUntouched
  BY CopiesSetToBag DEF Init, RejectedUntouched
<1>2. QED
  BY <1>1, InitTypeOK DEF RInv

(* A split takes out the op it matched and adds only ops the split made.  *)
LEMMA SplitKeepsRejected ==
  ASSUME NEW o \in UserOps, Rejected(o), NEW x \in OpRec, NEW B,
         Copies(o, B) = 1, Precondition(x), ~SplitAborts(x),
         options \in Splitting
  PROVE  Copies(o, (B (-) One(x)) (+) One(InBoundsOf(x)) (+) SlowClone(x))
           = 1
<1>1. o.origin = "user"
  BY UserOpsAssumption
<1>2. o # x
  BY DEF Rejected, Precondition, SplitAborts
<1>3. o # InBoundsOf(x) /\ o # UnderIfOf(x)
  BY <1>1 DEF InBoundsOf, UnderIfOf, OpRec
<1>4. Copies(o, SlowClone(x)) = 0
  BY <1>3, CopiesOne, CopiesEmpty DEF SlowClone
<1>5. Copies(o, B (-) One(x)) = 1
  BY <1>2, CopiesRemoveOther
<1>6. Copies(o, One(InBoundsOf(x))) = 0
  BY <1>3, CopiesOne
<1>7. QED
  BY <1>4, <1>5, <1>6, CopiesSum

LEMMA NextRInv ==
  ASSUME "ForceInBounds" \notin Strategies
  PROVE  RInv /\ [Next]_vars => RInv'
<1> SUFFICES ASSUME RInv, [Next]_vars PROVE RInv'
  OBVIOUS
<1>0. TypeOK'
  BY NextTypeOK DEF RInv
<1>1. CASE \E x \in BagToSet(worklist) :
             \/ Reject(x) \/ ForceInBounds(x) \/ FailAfterAlloca(x)
             \/ SplitRead(x) \/ SplitWrite(x)
  <2>1. PICK x \in BagToSet(worklist) :
             \/ Reject(x) \/ ForceInBounds(x) \/ FailAfterAlloca(x)
             \/ SplitRead(x) \/ SplitWrite(x)
    BY <1>1
  <2>2. CASE Reject(x) \/ FailAfterAlloca(x)
    BY <1>0, <2>2 DEF Reject, FailAfterAlloca, RInv, RejectedUntouched
  <2>3. CASE ForceInBounds(x)
    BY <2>3 DEF ForceInBounds, RInv, TypeOK
  <2>4. CASE SplitRead(x) \/ SplitWrite(x)
    <3>1. /\ ir' = (ir (-) One(x)) (+) One(InBoundsOf(x)) (+) SlowClone(x)
          /\ Precondition(x) /\ ~SplitAborts(x) /\ options \in Splitting
          /\ UNCHANGED <<options, userOps>>
      BY <2>4 DEF SplitRead, SplitWrite
    <3>2. x \in OpRec /\ userOps \subseteq UserOps
      BY DEF RInv, TypeOK, BagToSet
    <3>3. ASSUME NEW o \in userOps, Rejected(o)
          PROVE  Copies(o, ir') = 1
      <4>1. o \in UserOps /\ Copies(o, ir) = 1
        BY <3>2, <3>3 DEF RInv, RejectedUntouched, Rejected
      <4>2. QED
        BY <3>1, <3>2, <3>3, <4>1, SplitKeepsRejected
    <3>4. QED
      BY <1>0, <3>1, <3>3 DEF RInv, RejectedUntouched, Rejected
  <2>5. QED
    BY <2>1, <2>2, <2>3, <2>4
<1>2. CASE EraseDead \/ IterStart \/ IterLimit \/ IterEnd \/ Finish
  BY <1>0, <1>2 DEF EraseDead, IterStart, IterLimit, IterEnd, Finish, RInv,
                    RejectedUntouched
<1>3. CASE UNCHANGED vars
  BY <1>3 DEF vars, RInv, RejectedUntouched, TypeOK
<1>4. QED
  BY <1>1, <1>2, <1>3 DEF Next

(* Run rewrite_fixpoint's invariant for every function and driver bound:  *)
(* under the splitting strategies (and None), a transfer of rank 0, with  *)
(* a permuted map or with a mask is never rewritten, cloned or erased by  *)
(* the pattern, whatever order the driver visits the ops in.              *)
THEOREM RejectedStayUntouched ==
  ASSUME "ForceInBounds" \notin Strategies
  PROVE  Spec => []RejectedUntouched
<1>1. RInv => RejectedUntouched
  BY DEF RInv
<1>2. QED
  BY <1>1, InitRInv, NextRInv, PTL DEF Spec

-----------------------------------------------------------------------------
(***************************************************************************)
(* At most one split per user op.  A candidate (an op that passes the      *)
(* precondition) is in the function at most once, is on the worklist at   *)
(* most as often as in the function, and is a user op: the ops a rewrite   *)
(* makes are in bounds or under the scf.if, never candidates.  So every    *)
(* successful rewrite takes a user candidate out of the function for      *)
(* good, and splits counts the user candidates gone from it.              *)
(***************************************************************************)

(* Taking one copy of x out of a bag.                                      *)
LEMMA CopiesRemove ==
  ASSUME NEW e, NEW x, NEW B, IsABag(B)
  PROVE  Copies(e, B (-) One(x)) =
           IF e = x /\ Copies(x, B) > 0 THEN Copies(x, B) - 1 ELSE Copies(e, B)
BY DEF Copies, (-), One, SetToBag, IsABag

(* A bag holds a natural number of copies of anything.                    *)
LEMMA CopiesNat ==
  ASSUME NEW e, NEW B, IsABag(B)
  PROVE  Copies(e, B) \in Nat
BY DEF Copies, IsABag

(* An op of a bag has a copy in it.                                        *)
LEMMA CopiesMember ==
  ASSUME NEW x, NEW B, IsABag(B), x \in BagToSet(B)
  PROVE  Copies(x, B) \in Nat \ {0}
BY DEF Copies, BagToSet, IsABag

(* The ops a rewrite adds are not candidates.                              *)
LEMMA NewOpsNotCandidates ==
  ASSUME NEW x \in OpRec, NEW e \in OpRec, Precondition(e)
  PROVE  /\ Copies(e, One(InBoundsOf(x))) = 0
         /\ Copies(e, SlowClone(x)) = 0
<1>1. e # InBoundsOf(x) /\ e # UnderIfOf(x)
  BY DEF InBoundsOf, UnderIfOf, OpRec, Precondition
<1>2. QED
  BY <1>1, CopiesOne, CopiesEmpty DEF SlowClone

(* After a rewrite of x, a candidate has the copies it had, less the one  *)
(* the rewrite took out if it is x.                                        *)
LEMMA CopiesAfterRewrite ==
  ASSUME TypeOK, NEW x \in BagToSet(worklist),
         ForceInBounds(x) \/ SplitRead(x) \/ SplitWrite(x),
         NEW e \in OpRec, Precondition(e)
  PROVE  /\ Copies(e, ir') = Copies(e, ir (-) One(x))
         /\ Copies(e, worklist') = Copies(e, Pop(x))
<1>1. x \in OpRec
  BY DEF TypeOK, BagToSet
<1>2. /\ Copies(e, One(InBoundsOf(x))) = 0
      /\ Copies(e, SlowClone(x)) = 0
  BY <1>1, NewOpsNotCandidates
<1>3. CASE ForceInBounds(x)
  <2>1. /\ ir' = (ir (-) One(x)) (+) One(InBoundsOf(x))
        /\ worklist' = Pop(x) (+) One(InBoundsOf(x))
    BY <1>3 DEF ForceInBounds
  <2>2. /\ Copies(e, ir (-) One(x)) \in Nat
        /\ Copies(e, Pop(x)) \in Nat
    BY BagRemove DEF TypeOK, Copies, IsABag, Pop
  <2>3. QED
    BY <1>2, <2>1, <2>2, CopiesSum
<1>4. CASE SplitRead(x) \/ SplitWrite(x)
  <2>1. /\ ir' = (ir (-) One(x)) (+) One(InBoundsOf(x)) (+) SlowClone(x)
        /\ worklist' = Pop(x) (+) One(InBoundsOf(x)) (+) SlowClone(x)
    BY <1>4 DEF SplitRead, SplitWrite
  <2>2. /\ Copies(e, ir (-) One(x)) \in Nat
        /\ Copies(e, Pop(x)) \in Nat
    BY BagRemove DEF TypeOK, Copies, IsABag, Pop
  <2>3. QED
    BY <1>2, <2>1, <2>2, CopiesSum
<1>5. QED
  BY <1>3, <1>4

(* The user candidates the pass has taken out of the function.             *)
SplitDone == {o \in userOps : Precondition(o) /\ Copies(o, ir) = 0}

CandidateInv ==
  \A e \in OpRec : Precondition(e) =>
     /\ Copies(e, worklist) <= Copies(e, ir)
     /\ Copies(e, ir) <= 1
     /\ (Copies(e, ir) = 1 => e \in userOps)

SInv == TypeOK /\ CandidateInv /\ splits = Cardinality(SplitDone)

(* Every set of user ops is finite.                                        *)
LEMMA UserOpsFinite ==
  ASSUME NEW S \in SUBSET UserOps
  PROVE  IsFiniteSet(S) /\ Cardinality(S) \in Nat
<1>1. IsFiniteSet(S)
  BY UserOpsAssumption, FS_Subset
<1>2. QED
  BY <1>1, FS_CardinalityType

LEMMA InitSInv == Init => SInv
<1> SUFFICES ASSUME Init PROVE SInv
  OBVIOUS
<1>1. ASSUME NEW e \in OpRec
      PROVE  Copies(e, ir) = IF e \in userOps THEN 1 ELSE 0
  BY DEF Init, Copies, SetToBag
<1>2. CandidateInv
  BY <1>1, CopiesEmpty DEF Init, CandidateInv
<1>3. SplitDone = {}
  <2>1. userOps \subseteq OpRec
    BY UserOpsAssumption DEF Init
  <2>2. QED
    BY <1>1, <2>1 DEF SplitDone
<1>4. QED
  BY <1>2, <1>3, InitTypeOK, FS_EmptySet DEF Init, SInv

LEMMA NextSInv == SInv /\ [Next]_vars => SInv'
<1> SUFFICES ASSUME SInv, [Next]_vars PROVE SInv'
  OBVIOUS
<1>0. /\ TypeOK /\ TypeOK'
      /\ IsABag(ir) /\ IsABag(worklist)
  BY NextTypeOK DEF SInv, TypeOK
<1>00. \A e : /\ Copies(e, ir) \in Nat /\ Copies(e, worklist) \in Nat
              /\ Copies(e, ir') \in Nat /\ Copies(e, worklist') \in Nat
  BY <1>0, CopiesNat DEF TypeOK
<1>1. CASE \E x \in BagToSet(worklist) : Reject(x) \/ FailAfterAlloca(x)
  <2>1. PICK x \in BagToSet(worklist) : Reject(x) \/ FailAfterAlloca(x)
    BY <1>1
  <2>2. /\ worklist' = Pop(x)
        /\ UNCHANGED <<ir, userOps, splits>>
    BY <2>1 DEF Reject, FailAfterAlloca
  <2>3. ASSUME NEW e \in OpRec
        PROVE  Copies(e, worklist') <= Copies(e, worklist)
    <3>1. Copies(e, worklist) \in Nat
      BY <1>0 DEF Copies, IsABag
    <3>2. QED
      BY <1>0, <2>2, <3>1, CopiesRemove DEF Pop
  <2>4. CandidateInv'
    BY <1>00, <2>2, <2>3 DEF SInv, CandidateInv
  <2>5. QED
    BY <1>0, <2>2, <2>4 DEF SInv, SplitDone
<1>2. CASE \E x \in BagToSet(worklist) :
             ForceInBounds(x) \/ SplitRead(x) \/ SplitWrite(x)
  <2>1. PICK x \in BagToSet(worklist) :
             ForceInBounds(x) \/ SplitRead(x) \/ SplitWrite(x)
    BY <1>2
  <2>2. /\ Precondition(x) /\ splits' = splits + 1
        /\ UNCHANGED userOps
    BY <2>1 DEF ForceInBounds, SplitRead, SplitWrite, Rewritten
  <2>3. x \in OpRec /\ Copies(x, worklist) \in Nat \ {0}
    BY <1>0, CopiesMember DEF TypeOK, BagToSet
  <2>4. Copies(x, ir) = 1 /\ Copies(x, worklist) = 1 /\ x \in userOps
    BY <1>00, <2>2, <2>3 DEF SInv, CandidateInv
  (* What a candidate holds after the rewrite.                             *)
  <2>5. ASSUME NEW e \in OpRec, Precondition(e)
        PROVE  /\ Copies(e, ir') = IF e = x THEN 0 ELSE Copies(e, ir)
               /\ Copies(e, worklist') =
                    IF e = x THEN 0 ELSE Copies(e, worklist)
    <3>1. /\ Copies(e, ir') = Copies(e, ir (-) One(x))
          /\ Copies(e, worklist') = Copies(e, Pop(x))
      BY <1>0, <2>1, <2>5, CopiesAfterRewrite
    <3>2. Copies(e, ir (-) One(x)) = IF e = x THEN 0 ELSE Copies(e, ir)
      BY <1>0, <2>4, CopiesRemove
    <3>3. Copies(e, Pop(x)) = IF e = x THEN 0 ELSE Copies(e, worklist)
      BY <1>0, <2>4, CopiesRemove DEF Pop
    <3>4. QED
      BY <3>1, <3>2, <3>3
  <2>6. CandidateInv'
    BY <2>2, <2>5 DEF SInv, CandidateInv
  <2>7. SplitDone' = SplitDone \cup {x}
    <3>1. userOps \subseteq OpRec
      BY <1>0, UserOpsAssumption DEF TypeOK
    <3>2. QED
      BY <2>2, <2>3, <2>4, <2>5, <3>1 DEF SplitDone
  <2>8. x \notin SplitDone
    BY <2>4 DEF SplitDone
  <2>9. Cardinality(SplitDone') = Cardinality(SplitDone) + 1
    <3>1. IsFiniteSet(SplitDone)
      BY <1>0, UserOpsFinite DEF TypeOK, SplitDone
    <3>2. QED
      BY <2>7, <2>8, <3>1, FS_AddElement
  <2>10. QED
    BY <1>0, <2>2, <2>6, <2>9 DEF SInv
<1>3. CASE IterStart
  <2>1. worklist' = ir /\ UNCHANGED <<ir, userOps, splits>>
    BY <1>3 DEF IterStart
  <2>2. CandidateInv'
    BY <1>00, <2>1 DEF SInv, CandidateInv
  <2>3. QED
    BY <1>0, <2>1, <2>2 DEF SInv, SplitDone
<1>4. CASE EraseDead \/ IterLimit \/ IterEnd \/ Finish \/ UNCHANGED vars
  <2>1. UNCHANGED <<ir, worklist, userOps, splits>>
    BY <1>4 DEF EraseDead, IterLimit, IterEnd, Finish, vars
  <2>2. QED
    BY <1>0, <2>1 DEF SInv, CandidateInv, SplitDone
<1>5. QED
  BY <1>1, <1>2, <1>3, <1>4 DEF Next

(* Run rewrite_fixpoint's and rewrite_strategies's invariant for every     *)
(* function, every strategy (ForceInBounds included) and every driver     *)
(* bound: whatever order the driver pops the worklist in and however many *)
(* iterations it runs, the pattern succeeds at most once per user op that *)
(* passes splitFullAndPartialTransferPrecondition.                        *)
THEOREM SplitOnce == Spec => []SplitAtMostOnce
<1>1. SInv => SplitAtMostOnce
  <2> SUFFICES ASSUME SInv PROVE SplitAtMostOnce
    OBVIOUS
  <2>1. userOps \subseteq UserOps
    BY DEF SInv, TypeOK
  <2>2. IsFiniteSet({o \in userOps : Precondition(o)})
    BY <2>1, UserOpsFinite
  <2>3. SplitDone \subseteq {o \in userOps : Precondition(o)}
    BY DEF SplitDone
  <2>4. QED
    BY <2>2, <2>3, FS_Subset DEF SInv, SplitAtMostOnce
<1>2. QED
  BY <1>1, InitSInv, NextSInv, PTL DEF Spec

=============================================================================

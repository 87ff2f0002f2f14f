------------------------- MODULE MC_TransferSplit -------------------------
(***************************************************************************)
(* Model-checking instance of TransferSplit: small ranks and extents,      *)
(* with indices that reach the last element, the end, and (in the runs     *)
(* that ask for it) one past the end.                                      *)
(***************************************************************************)
EXTENDS TransferSplit


(* Two-dimensional transfers: extents 0..3, vectors of 1 or 2 lanes.      *)
MCRank == 2
MCMaxExtent == 3
MCExtents == 0..3
MCVecExtents == 1..2

(* The instance of split_semantics, weakly fair as FairSpec.              *)
MCSpecNoCopyBack == NoCopyBackSpec /\ WF_vars(Next)
=============================================================================

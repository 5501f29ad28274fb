--------------------------- MODULE MCBidPlacement ---------------------------
(***************************************************************************)
(* Instances of BidPlacement for TLC.  Bidders and amounts are numbers     *)
(* because the scripts order them; only the calls are interchangeable.     *)
(***************************************************************************)
EXTENDS BidPlacement, TLC

CallSymmetry == Permutations(Requests)
=============================================================================

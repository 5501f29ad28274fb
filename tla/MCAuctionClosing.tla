-------------------------- MODULE MCAuctionClosing --------------------------
(***************************************************************************)
(* Instances of AuctionClosing for TLC.  Nothing distinguishes the         *)
(* instances of the service but the workers that they host.                *)
(***************************************************************************)
EXTENDS AuctionClosing, TLC

InstanceSymmetry == Permutations(Instances)
=============================================================================

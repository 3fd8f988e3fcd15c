----------------------------- MODULE MCAnchors -----------------------------
(***************************************************************************)
(* Instances of Anchors for TLC: two heights and at most one               *)
(* reorganisation of each.  Transaction t1 leaves the chain with the first *)
(* block of height 1; t2 moves from height 2 to height 1, or leaves the     *)
(* chain if only height 2 is reorganised.  The blocks have one to five     *)
(* transactions, of which c1 to c4 are the coinbases.                      *)
(***************************************************************************)
EXTENDS Anchors

CONSTANTS t1, t2, c1, c2, c3, c4, o1, o2, o3

MCLeaves ==
  [b \in Blocks |->
    CASE b = <<1, 0>> -> <<c1, o1, t1>>
      [] b = <<2, 0>> -> <<c2, o1, o2, o3, t2>>
      [] b = <<1, 1>> -> <<c3, t2>>
      [] b = <<2, 1>> -> <<c4>>]
=============================================================================

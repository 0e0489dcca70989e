----------------------------- MODULE MCBlockFeed -----------------------------
(* Finite instances of BlockFeed for TLC: two interchangeable pages. *)
EXTENDS BlockFeed, TLC

CONSTANTS p1, p2

PageSymmetry == Permutations({p1, p2})
=============================================================================

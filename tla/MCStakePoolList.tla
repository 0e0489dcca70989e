---------------------------- MODULE MCStakePoolList ----------------------------
(* Finite instances of StakePoolList for TLC. *)
EXTENDS StakePoolList
=============================================================================

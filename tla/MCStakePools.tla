----------------------------- MODULE MCStakePools -----------------------------
(* Finite instances of StakePools for TLC. *)
EXTENDS StakePools
=============================================================================

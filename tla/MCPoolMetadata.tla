---------------------------- MODULE MCPoolMetadata ----------------------------
(* Finite instances of PoolMetadata for TLC. *)
EXTENDS PoolMetadata
=============================================================================

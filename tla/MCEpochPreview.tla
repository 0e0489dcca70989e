---------------------------- MODULE MCEpochPreview ----------------------------
(* Finite instances of EpochPreview for TLC. *)
EXTENDS EpochPreview, TLC

CONSTANTS p1, p2
=============================================================================

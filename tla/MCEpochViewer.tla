---------------------------- MODULE MCEpochViewer ----------------------------
(* Finite instances of EpochViewer for TLC. *)
EXTENDS EpochViewer, TLC
=============================================================================

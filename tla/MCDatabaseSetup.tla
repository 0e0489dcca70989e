--------------------------- MODULE MCDatabaseSetup ---------------------------
(* Finite instances of DatabaseSetup for TLC. *)
EXTENDS DatabaseSetup
=============================================================================

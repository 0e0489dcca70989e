---------------------------- MODULE MCTransactions ----------------------------
(* Finite instances of Transactions for TLC. *)
EXTENDS Transactions, TLC

CONSTANT a
=============================================================================

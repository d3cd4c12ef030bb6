----------------------------- MODULE MCRowLocks -----------------------------
(* A small instance of RowLocks for TLC. *)
EXTENDS RowLocks, TLC

Symmetric == Permutations(Task) \cup Permutations(Attempt) \cup Permutations(Delivery)
=============================================================================

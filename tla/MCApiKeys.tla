----------------------------- MODULE MCApiKeys ------------------------------
(* Small instances of ApiKeys for TLC. *)
EXTENDS ApiKeys, TLC

Symmetric == Permutations(Key) \cup Permutations(Request)
=============================================================================

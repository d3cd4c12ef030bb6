-------------------------- MODULE MCReconcileClock --------------------------
(* Instances of ReconcileClock for TLC: the default configuration scaled   *)
(* down (psp_timeout 3 s, grace 30 s, LEASE 30 s, MAX_BACKOFF 60 s).       *)
EXTENDS ReconcileClock, TLC

(* 1 << 0 to 1 << 3; the last one is above the cap, as 64 s is. *)
Ladder == <<1, 2, 4, 8>>

Symmetric == Permutations(Worker)
=============================================================================

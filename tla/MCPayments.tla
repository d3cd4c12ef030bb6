----------------------------- MODULE MCPayments -----------------------------
(* Small instances of Payments for TLC. *)
EXTENDS Payments, TLC

Symmetric == Permutations(Request) \cup Permutations(Key) \cup Permutations(Worker)
             \cup Permutations(Token)

(***************************************************************************)
(* For liveness, where TLC cannot use symmetry: one request's key is fixed *)
(* (the other choices only rename the keys), and each names an invoice.    *)
(***************************************************************************)
LiveInit ==
    /\ Init
    /\ \A r \in Request : ask[r].inv \in Invoice
    /\ ask[CHOOSE r \in Request : TRUE].key = CHOOSE k \in Key : TRUE

LiveSpec == LiveInit /\ [][Next]_vars /\ Fairness
=============================================================================

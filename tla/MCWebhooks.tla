----------------------------- MODULE MCWebhooks -----------------------------
(* Small instances of Webhooks for TLC. *)
EXTENDS Webhooks, TLC

(* Every endpoint with the same URL. *)
SameUrl == [e \in Endpoint |-> "url"]

Symmetric == Permutations(Event) \cup Permutations(Endpoint)
             \cup Permutations(Worker) \cup Permutations(Client)

=============================================================================

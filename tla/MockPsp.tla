------------------------------ MODULE MockPsp -------------------------------
(***************************************************************************)
(* The harness's PSP (harness/src/mock_psp.rs) with its clock: one entry   *)
(* of the table of charges, the one under the attempt's idempotency key.   *)
(* A charge and its outcome are recorded when the request arrives; what    *)
(* takes time is only saying so.  Whether the outcome is good is the       *)
(* card's business (the token), so both are possible.                      *)
(***************************************************************************)
EXTENDS Naturals

CONSTANT Delays     \* decision_delay and slow_delay

ASSUME DelaysTakeTime == Delays \subseteq Nat \ {0}

VARIABLES now,      \* time since the attempt's created_at
          wire,     \* POST /v1/charges: unsent, flying, received or lost
          charge    \* the entry: its outcome and settles_at

chargeVars == <<wire, charge>>

Outcome == {"succeeded", "failed"}

(* The table has no such key. *)
NoCharge == [outcome |-> "none", settlesAt |-> 0]

Charge == [outcome: Outcome, settlesAt: Nat]

(* GET /v1/charges/{idempotency_key}. *)
Answer == IF charge = NoCharge THEN "none"
          ELSE IF now < charge.settlesAt THEN "processing" ELSE charge.outcome

(* Seeded fault: the table is written without looking, for a repeated key too. *)
FaultInsert(c) == c

(* Get and insert under one lock: a repeated key keeps its first charge. *)
Insert(c) == IF charge = NoCharge THEN c ELSE charge

(* The request arrives, for the first time or once more. *)
CreateCharge ==
    /\ wire \in {"flying", "received"}
    /\ \E o \in Outcome, d \in Delays : charge' = Insert([outcome |-> o, settlesAt |-> now + d])
    /\ wire' = "received"

(* It is lost, or fails at the PSP's edge before anything is recorded. *)
Vanish == wire = "flying" /\ wire' = "lost" /\ UNCHANGED charge

=============================================================================

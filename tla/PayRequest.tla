----------------------------- MODULE PayRequest -----------------------------
(***************************************************************************)
(* POST /v1/invoices/{id}/pay, as payments.rs runs it: claim the invoice   *)
(* in one transaction, call the PSP with no transaction open, and settle   *)
(* in a second transaction if the PSP's answer is definitive.              *)
(*                                                                         *)
(*   idle -> reserve -> begin -> insert -> charge -> await -> settle ...   *)
(*                 \-> replay   \-> explain             \-> pending ...    *)
(***************************************************************************)
EXTENDS PaymentStore, Psp

KeyOf(r) == ask[r].key
InvOf(r) == ask[r].inv
FingerprintOf(r) == [inv |-> ask[r].inv, token |-> ask[r].token]

(* The request passed authentication and validation.  A client has the id  *)
(* of an invoice from the response that created it.                        *)
Start(r) ==
    /\ pc[r] = "idle"
    /\ InvOf(r) \in Invoice => status[InvOf(r)] # "absent"
    /\ Goto(r, "reserve")
    /\ UNCHANGED <<bookVars, lockVars, ask, att, told, reply, pspVars>>

-----------------------------------------------------------------------------
(* idempotency::reserve.  The INSERT waits for a transaction that is       *)
(* inserting the same key; the SELECT after a conflict sees what is        *)
(* committed by then.                                                      *)

(* Seeded fault: a SELECT before a plain write, in place of the INSERT. *)
FaultKeyFree(k) == idem[k] = NoRow

KeyFree(k) == idem[k] = NoRow /\ keyLock[k] = None

Reserve(r) ==
    /\ pc[r] = "reserve"
    /\ KeyFree(KeyOf(r))
    /\ keyLock' = [keyLock EXCEPT ![KeyOf(r)] = r]
    /\ Goto(r, "begin")
    /\ UNCHANGED <<bookVars, invLock, attLock, ask, att, told, reply, pspVars>>

SameRequest(r) == idem[KeyOf(r)].fp = FingerprintOf(r)

KeyReused(r) ==
    /\ pc[r] = "reserve"
    /\ idem[KeyOf(r)] # NoRow
    /\ ~SameRequest(r)
    /\ Finish(r, [code |-> 422, att |-> None, inv |-> "absent"])
    /\ UNCHANGED <<bookVars, lockVars, ask, pspVars>>

KeyReplay(r) ==
    /\ pc[r] = "reserve"
    /\ SameRequest(r)
    /\ idem[KeyOf(r)].resp # NoAnswer
    /\ Finish(r, idem[KeyOf(r)].resp)
    /\ UNCHANGED <<bookVars, lockVars, ask, pspVars>>

KeyAwaiting(r) ==
    /\ pc[r] = "reserve"
    /\ SameRequest(r)
    /\ idem[KeyOf(r)].resp = NoAnswer
    /\ idem[KeyOf(r)].att # None
    /\ att' = [att EXCEPT ![r] = idem[KeyOf(r)].att]
    /\ Goto(r, "pending")
    /\ UNCHANGED <<bookVars, lockVars, ask, told, reply, pspVars>>

-----------------------------------------------------------------------------
(* apply_transition(BeginPayment): an UPDATE guarded by the status, and    *)
(* when it matches no row a separate SELECT that says why.  The UPDATE     *)
(* waits only for a writer of a row it would match.                        *)

(* Seeded fault: the status is checked but not compared-and-set. *)
FaultCanClaim(i) == status[i] = From("begin_payment")

CanClaim(i) == status[i] = From("begin_payment") /\ invLock[i] = None

BeginPayment(r) ==
    /\ pc[r] = "begin"
    /\ CanClaim(InvOf(r))
    /\ invLock' = [invLock EXCEPT ![InvOf(r)] = r]
    /\ Goto(r, "insert")
    /\ UNCHANGED <<bookVars, keyLock, attLock, ask, att, told, reply, pspVars>>

CasMissed(r) ==
    /\ pc[r] = "begin"
    /\ status[InvOf(r)] # From("begin_payment")
    /\ Goto(r, "explain")
    /\ UNCHANGED <<bookVars, lockVars, ask, att, told, reply, pspVars>>

Rejection(current) ==
    [code |-> IF current = "absent" THEN 404 ELSE 409, att |-> None, inv |-> current]

Temporary(current) == current = "processing"

(* The early return drops the transaction, and with it the key. *)
RefuseForNow(r) ==
    /\ pc[r] = "explain"
    /\ Temporary(status[InvOf(r)])
    /\ keyLock' = [keyLock EXCEPT ![KeyOf(r)] = None]
    /\ Finish(r, Rejection(status[InvOf(r)]))
    /\ UNCHANGED <<bookVars, invLock, attLock, ask, pspVars>>

(* Any other status read here is answered for good: the key keeps it. *)
RefuseForGood(r) ==
    /\ pc[r] = "explain"
    /\ ~Temporary(status[InvOf(r)])
    /\ LET answer == Rejection(status[InvOf(r)])
       IN  /\ idem' = [idem EXCEPT ![KeyOf(r)] =
                          [fp |-> FingerprintOf(r), att |-> None, resp |-> answer]]
           /\ Finish(r, answer)
    /\ keyLock' = [keyLock EXCEPT ![KeyOf(r)] = None]
    /\ UNCHANGED <<status, log, attempt, due, aged, invLock, attLock, ask, pspVars>>

-----------------------------------------------------------------------------
(* The key row as the claim commits it: reserve, then attach_attempt. *)
ClaimedRow(r) == [fp |-> FingerprintOf(r), att |-> r, resp |-> NoAnswer]

(* INSERT INTO payment_attempts, attach_attempt, COMMIT. *)
InsertAttempt(r) ==
    /\ pc[r] = "insert"
    /\ attempt' = [attempt EXCEPT ![r] = "pending"]
    /\ status' = [status EXCEPT ![InvOf(r)] = To("begin_payment")]
    /\ idem' = [idem EXCEPT ![KeyOf(r)] = ClaimedRow(r)]
    /\ keyLock' = [keyLock EXCEPT ![KeyOf(r)] = None]
    /\ invLock' = [invLock EXCEPT ![InvOf(r)] = None]
    /\ att' = [att EXCEPT ![r] = r]
    /\ Goto(r, "charge")
    /\ UNCHANGED <<log, due, aged, attLock, ask, told, reply, pspVars>>

(* psp.create_charge *)
SendCharge(r) ==
    /\ pc[r] = "charge"
    /\ Send(r)
    /\ Goto(r, "await")
    /\ UNCHANGED <<bookVars, lockVars, ask, att, told, reply>>

ChargeSettled(r) ==
    /\ pc[r] = "await"
    /\ Definitive(psp[r])
    /\ told' = [told EXCEPT ![r] = psp[r]]
    /\ Goto(r, "settle")
    /\ UNCHANGED <<bookVars, lockVars, ask, att, reply, pspVars>>

(* Seeded fault: the HTTP client has no timeout. *)
FaultChargeIndeterminate(r) ==
    /\ pc[r] = "await" /\ psp[r] = "processing"
    /\ Goto(r, "pending")
    /\ UNCHANGED <<bookVars, lockVars, ask, att, told, reply, pspVars>>

(* Timeout, broken connection, a status other than 200, a body that does   *)
(* not parse, or "still processing".                                       *)
ChargeIndeterminate(r) ==
    /\ pc[r] = "await"
    /\ Goto(r, "pending")
    /\ UNCHANGED <<bookVars, lockVars, ask, att, told, reply, pspVars>>

(* pending_response: two SELECTs, each on what is committed at its time. *)
ReadAttempt(r) ==
    /\ pc[r] = "pending"
    /\ told' = [told EXCEPT ![r] = attempt[att[r]]]
    /\ Goto(r, "invoice")
    /\ UNCHANGED <<bookVars, lockVars, ask, att, reply, pspVars>>

ReadInvoice(r) ==
    /\ pc[r] = "invoice"
    /\ Finish(r, AttemptResponse(att[r], told[r], status[ask[att[r]].inv]))
    /\ UNCHANGED <<bookVars, lockVars, ask, pspVars>>

Settle(r) == /\ SettleClaim(r) \/ SettleLost(r) \/ SettleCommit(r) \/ ReadStored(r)
             /\ UNCHANGED pspVars

(* The request dies where it stands; a charge on the wire stays there. *)
Abandon(r) ==
    /\ pc[r] \notin {"idle", "done", "gone"}
    /\ Rollback(r, "gone")
    /\ UNCHANGED pspVars

Handle(r) ==
    \/ Reserve(r) \/ KeyReused(r) \/ KeyReplay(r) \/ KeyAwaiting(r)
    \/ BeginPayment(r) \/ CasMissed(r) \/ RefuseForNow(r) \/ RefuseForGood(r)
    \/ InsertAttempt(r) \/ SendCharge(r) \/ ChargeSettled(r) \/ ChargeIndeterminate(r)
    \/ ReadAttempt(r) \/ ReadInvoice(r) \/ Settle(r)

PayStep(r) == Start(r) \/ Handle(r) \/ Abandon(r)

=============================================================================

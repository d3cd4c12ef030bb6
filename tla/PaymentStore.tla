---------------------------- MODULE PaymentStore ----------------------------
(***************************************************************************)
(* The Postgres rows payments go through, the row locks that open          *)
(* transactions hold on them, and settle_attempt (payments.rs), the one    *)
(* transaction both the request path and the reconciler run.               *)
(*                                                                         *)
(* Transactions are READ COMMITTED: a statement reads what is committed    *)
(* when it starts, writes become visible at commit, and a writer waits for *)
(* the transaction that holds the row.  So the books below are the         *)
(* committed state; what an open transaction has written is in its         *)
(* process's pc and in the lock it holds until it ends.                    *)
(*                                                                         *)
(*   status   invoices.status ("absent": no such row)                      *)
(*   log      the invoice's rows of events, oldest first                   *)
(*   attempt  payment_attempts.status ("none": no such row)                *)
(*   due      the attempts with reconcile_after <= now()                   *)
(*   aged     the attempts created longer than psp_not_found_grace ago     *)
(*   idem     idempotency_keys                                             *)
(***************************************************************************)
EXTENDS PaymentDomain, Naturals, Sequences

VARIABLES status, log, attempt, due, aged, idem,   \* the committed rows
          keyLock, invLock, attLock,         \* who has the row locked
          ask,      \* the input of each pay request, fixed
          pc,       \* where each handler or worker is
          att,      \* the attempt it is working on
          told,     \* what it was last told of that attempt ("overdue":
                    \* pending, and past the not-found grace)
          reply     \* the HTTP answer of each request

bookVars  == <<status, log, attempt, due, aged, idem>>
lockVars  == <<keyLock, invLock, attLock>>
actorVars == <<ask, pc, att, told, reply>>

AttemptStatus == {"none", "pending", "succeeded", "failed"}
EventType == {"invoice.created", "invoice.paid", "invoice.payment_failed", "invoice.voided"}

(* An event carries the invoice and, if it settles one, the attempt. *)
Event == [type: EventType, att: Request \cup {None}]

Stage == {"idle", "done", "gone",                                   \* not running
          "reserve", "begin", "explain", "insert", "charge", "await", \* the claim
          "pending", "invoice",                              \* pending_response
          "settle", "settling", "stored",                      \* settle_attempt
          "lookup", "reschedule"}                              \* the reconciler

(***************************************************************************)
(* An answer: the HTTP status, the attempt in its body and the invoice     *)
(* status in its body.                                                     *)
(***************************************************************************)
Answer == [code: {0, 200, 202, 402, 404, 409, 422, 500},
           att:  Request \cup {None},
           inv:  InvoiceStatus \cup {"absent"}]

NoAnswer == [code |-> 0, att |-> None, inv |-> "absent"]
InternalError == [code |-> 500, att |-> None, inv |-> "absent"]

IdemRow == [fp: Fingerprint \cup {None}, att: Request \cup {None}, resp: Answer]

NoRow == [fp |-> None, att |-> None, resp |-> NoAnswer]

StoreTypeOK ==
    /\ status  \in [InvoiceId -> InvoiceStatus \cup {"absent"}]
    /\ log     \in [InvoiceId -> Seq(Event)]
    /\ attempt \in [Request -> AttemptStatus]
    /\ due     \in SUBSET Request
    /\ aged    \in SUBSET Request
    /\ idem    \in [Key -> IdemRow]
    /\ keyLock \in [Key -> Request \cup {None}]
    /\ invLock \in [InvoiceId -> Request \cup {None}]
    /\ attLock \in [Request -> Actor \cup {None}]
    /\ ask     \in [Request -> PayInput]
    /\ pc      \in [Actor -> Stage]
    /\ att     \in [Actor -> Request \cup {None}]
    /\ told    \in [Actor -> AttemptStatus \cup {"overdue"}]
    /\ reply   \in [Request -> Answer]

StoreInit ==
    /\ status  = [i \in InvoiceId |-> "absent"]
    /\ log     = [i \in InvoiceId |-> <<>>]
    /\ attempt = [a \in Request |-> "none"]
    /\ due     = {}
    /\ aged    = {}
    /\ idem    = [k \in Key |-> NoRow]
    /\ keyLock = [k \in Key |-> None]
    /\ invLock = [i \in InvoiceId |-> None]
    /\ attLock = [a \in Request |-> None]
    /\ ask     \in [Request -> PayInput]
    /\ pc      = [p \in Actor |-> "idle"]
    /\ att     = [p \in Actor |-> None]
    /\ told    = [p \in Actor |-> "none"]
    /\ reply   = [r \in Request |-> NoAnswer]

-----------------------------------------------------------------------------
(* Control: p goes on to a label, or ends. *)

Goto(p, label) == pc' = [pc EXCEPT ![p] = label]

(* The handler or the pass is over, and its locals with it. *)
End(p, label) == /\ Goto(p, label)
                 /\ att' = [att EXCEPT ![p] = None]
                 /\ told' = [told EXCEPT ![p] = "none"]

(* A request handler returns the answer; a worker drops it. *)
Finish(p, answer) ==
    \/ /\ p \in Request
       /\ End(p, "done")
       /\ reply' = [reply EXCEPT ![p] = answer]
    \/ /\ p \in Worker
       /\ End(p, "idle")
       /\ UNCHANGED reply

(* events::record: one row in the outbox, in the caller's transaction. *)
Record(i, type, a) == log' = [log EXCEPT ![i] = Append(@, [type |-> type, att |-> a])]

(* attempt_response: the HTTP status goes by the attempt alone. *)
AttemptResponse(a, attemptStatus, invoiceStatus) ==
    [code |-> CASE attemptStatus = "succeeded" -> 200
                [] attemptStatus = "failed"    -> 402
                [] OTHER                       -> 202,
     att |-> a, inv |-> invoiceStatus]

(* Seeded fault: only the request path stores the response, in a later step. *)
FaultCompleteForAttempt(a, answer) == idem

(* complete_for_attempt: the rows of a that have no response yet get one. *)
CompleteForAttempt(a, answer) ==
    [k \in Key |-> IF idem[k].att = a /\ idem[k].resp = NoAnswer
                   THEN [idem[k] EXCEPT !.resp = answer] ELSE idem[k]]

-----------------------------------------------------------------------------
(* settle_attempt *)

SettleTransition(outcome) ==
    IF outcome = "succeeded" THEN "payment_succeeded" ELSE "payment_failed"

(* Seeded fault: a declined payment is announced as paid. *)
FaultSettleEvent(outcome) == "invoice.paid"

SettleEvent(outcome) ==
    IF outcome = "succeeded" THEN "invoice.paid" ELSE "invoice.payment_failed"

(* Seeded fault: the attempt is read, then updated by id alone. *)
FaultSettleable(a) == attempt[a] = "pending"

Settleable(a) == attempt[a] = "pending" /\ attLock[a] = None

(* The guarded UPDATE finds the attempt pending and locks its row. *)
SettleClaim(p) ==
    /\ pc[p] = "settle"
    /\ Settleable(att[p])
    /\ attLock' = [attLock EXCEPT ![att[p]] = p]
    /\ Goto(p, "settling")
    /\ UNCHANGED <<bookVars, keyLock, invLock, ask, att, told, reply>>

(* Someone else has settled it: roll back and go for the stored response. *)
SettleLost(p) ==
    /\ pc[p] = "settle"
    /\ attempt[att[p]] # "pending"
    /\ Goto(p, "stored")
    /\ UNCHANGED <<bookVars, lockVars, ask, att, told, reply>>

(* The rest of the transaction, visible at its commit. *)
SettleCommit(p) ==
    LET a == att[p]
        i == ask[a].inv
        t == SettleTransition(told[p])
        answer == AttemptResponse(a, told[p], To(t))
    IN  /\ pc[p] = "settling"
        /\ status[i] = From(t)
        /\ attempt' = [attempt EXCEPT ![a] = told[p]]
        /\ due' = due \ {a}
        /\ status' = [status EXCEPT ![i] = To(t)]
        /\ Record(i, SettleEvent(told[p]), a)
        /\ idem' = CompleteForAttempt(a, answer)
        /\ attLock' = [attLock EXCEPT ![a] = None]
        /\ Finish(p, answer)
        /\ UNCHANGED <<aged, keyLock, invLock, ask>>

(* already_attempt_response: no row with a response is a 500. *)
ReadStored(p) ==
    /\ pc[p] = "stored"
    /\ LET rows == {k \in Key : idem[k].att = att[p] /\ idem[k].resp # NoAnswer}
       IN  IF rows = {} THEN Finish(p, InternalError)
           ELSE \E k \in rows : Finish(p, idem[k].resp)
    /\ UNCHANGED <<bookVars, lockVars, ask>>

(***************************************************************************)
(* The process dies, its client hangs up, or a statement fails: Postgres   *)
(* rolls the open transaction back, which frees every lock p holds.        *)
(***************************************************************************)
Rollback(p, label) ==
    /\ End(p, label)
    /\ keyLock' = [k \in Key |-> IF keyLock[k] = p THEN None ELSE keyLock[k]]
    /\ invLock' = [i \in InvoiceId |-> IF invLock[i] = p THEN None ELSE invLock[i]]
    /\ attLock' = [a \in Request |-> IF attLock[a] = p THEN None ELSE attLock[a]]
    /\ UNCHANGED <<bookVars, ask, reply>>

=============================================================================

------------------------------ MODULE Payments ------------------------------
(***************************************************************************)
(* The payment flow of one business: its clients' pay requests, the        *)
(* reconciler, the PSP, and the other two writers of an invoice's status,  *)
(* create and void (invoices/handlers.rs).                                 *)
(***************************************************************************)
EXTENDS Reconciler

vars == <<bookVars, lockVars, actorVars, pspVars>>

TypeOK == StoreTypeOK /\ PspTypeOK

Init == StoreInit /\ PspInit

(* insert_invoice; the transaction is visible to no one before it commits. *)
CreateInvoice(i) ==
    /\ status[i] = "absent"
    /\ status' = [status EXCEPT ![i] = "open"]
    /\ Record(i, "invoice.created", None)
    /\ UNCHANGED <<attempt, due, aged, idem, lockVars, actorVars, pspVars>>

(* Seeded fault: the void does not wait for a claim that holds the row. *)
FaultVoidIgnoresLock(i) == status[i] = From("void")

CanVoid(i) == status[i] = From("void") /\ invLock[i] = None

(* void_invoice.  A rejected void changes nothing. *)
VoidInvoice(i) ==
    /\ CanVoid(i)
    /\ status' = [status EXCEPT ![i] = To("void")]
    /\ Record(i, "invoice.voided", None)
    /\ UNCHANGED <<attempt, due, aged, idem, lockVars, actorVars, pspVars>>

Network(a) == (PspReceive(a) \/ PspLose(a)) /\ UNCHANGED <<bookVars, lockVars, actorVars>>

Decide(a) == PspDecide(a) /\ UNCHANGED <<bookVars, lockVars, actorVars>>

(* Every client is answered or gone and nothing is left to reconcile. *)
Quiet == /\ \A r \in Request : pc[r] \in {"done", "gone"} /\ attempt[r] # "pending"
         /\ \A w \in Worker : pc[w] = "idle"
         /\ UNCHANGED vars

Next ==
    \/ \E i \in Invoice : CreateInvoice(i) \/ VoidInvoice(i)
    \/ \E r \in Request : PayStep(r)
    \/ \E w \in Worker : Work(w) \/ Crash(w)
    \/ \E a \in Request : Network(a) \/ Decide(a) \/ BecomesDue(a) \/ GraceElapses(a)
    \/ Quiet

Spec == Init /\ [][Next]_vars

(***************************************************************************)
(* What the code's scheduling gives, for the liveness properties: handlers *)
(* and workers that keep running, timeouts that expire, and a PSP that     *)
(* decides what it has received.  The strong conditions say that crashes   *)
(* and inconclusive lookups do not hit the same step for ever.             *)
(***************************************************************************)
Fairness ==
    /\ \A r \in Request :
          /\ WF_vars(Handle(r))
          /\ WF_vars(Network(r)) /\ WF_vars(Decide(r))
          /\ WF_vars(BecomesDue(r)) /\ WF_vars(GraceElapses(r))
          /\ SF_vars(\E w \in Worker : ClaimDue(w, r))
    /\ \A w \in Worker :
          /\ WF_vars(Work(w))
          /\ SF_vars(Lookup(w))
          /\ SF_vars(pc[w] = "settle" /\ Settle(w))
          /\ SF_vars(pc[w] = "settling" /\ Settle(w))

FairSpec == Spec /\ Fairness

-----------------------------------------------------------------------------
(* Safety properties *)

(* The charge for a took money, or still may. *)
MayTakeMoney(a) == MayStillReach(a) \/ psp[a] \in {"processing", "succeeded"}

Settled(a) == attempt[a] \in {"succeeded", "failed"}

(***************************************************************************)
(* However pay requests, retries, workers and crashes interleave, no two   *)
(* attempts of one invoice are ever both able to take money: the guarantee *)
(* of payments.rs (steps 1-3) without help from the partial unique indexes *)
(* of migration 0003, which are not modelled.                              *)
(***************************************************************************)
NoDoubleCharge ==
    \A a, b \in Request :
        MayTakeMoney(a) /\ MayTakeMoney(b) /\ InvOf(a) = InvOf(b) => a = b

(***************************************************************************)
(* Books and money agree, across a crash at any step: a paid invoice was   *)
(* charged, and an invoice that can be paid again, or never, is one for    *)
(* which no charge was made or can still be made ("no crash window that    *)
(* loses or duplicates a charge", payments.rs).                            *)
(***************************************************************************)
MoneyMatchesInvoice ==
    \A i \in Invoice :
        /\ status[i] = "paid" => \E a \in Request : InvOf(a) = i /\ psp[a] = "succeeded"
        /\ status[i] \in {"open", "void"} => \A a \in Request : InvOf(a) = i => ~MayTakeMoney(a)

(* An invoice is processing exactly while one of its attempts is pending,  *)
(* and then only one: what settle_attempt calls its invariant, and what    *)
(* lets its reconciler find every processing invoice.                      *)
InFlightIffProcessing ==
    \A i \in Invoice :
        LET pending == {a \in Request : InvOf(a) = i /\ attempt[a] = "pending"}
        IN  IF status[i] = "processing" THEN \E a \in Request : pending = {a}
                                        ELSE pending = {}

(* Each attempt belongs to the key of the request that started it, and     *)
(* once it is settled, by whomever, that key holds the answer: no retry is *)
(* told to wait for ever, and "settled attempt has no stored response"     *)
(* (already_attempt_response) is never reached.                            *)
SettledHasStoredAnswer ==
    \A a \in Request :
        attempt[a] # "none" =>
            /\ idem[KeyOf(a)].fp = FingerprintOf(a)
            /\ idem[KeyOf(a)].att = a
            /\ idem[KeyOf(a)].resp =
                  IF Settled(a) THEN AttemptResponse(a, attempt[a], To(SettleTransition(attempt[a])))
                                ELSE NoAnswer

(* What a client is told stays true: 200 means charged and paid, 402 means *)
(* not charged and never to be, each about its own invoice and its own     *)
(* key's attempt; nothing is answered with an internal error.              *)
AnswersAreTrue ==
    \A r \in Request :
        LET a == reply[r].att IN
        /\ a # None => KeyOf(a) = KeyOf(r) /\ InvOf(a) = InvOf(r)
        /\ reply[r].code = 200 => psp[a] = "succeeded" /\ status[InvOf(r)] = "paid"
        /\ reply[r].code = 402 => attempt[a] = "failed" /\ ~MayTakeMoney(a)
        /\ reply[r].code # 500

(* A key charges at most once: two requests with one key, even concurrent, *)
(* even after the first has failed, never both start an attempt.           *)
ChargedOncePerKey ==
    \A a, b \in Request :
        attempt[a] # "none" /\ attempt[b] # "none" /\ KeyOf(a) = KeyOf(b) => a = b

(* Retries of one request agree on how it ended and on the attempt, over   *)
(* the fresh, stored and pending_response paths that produce the answer.   *)
RetriesAgree ==
    \A r, s \in Request :
        /\ KeyOf(r) = KeyOf(s)
        /\ reply[r].code \in {200, 402} /\ reply[s].code \in {200, 402}
        => reply[r].code = reply[s].code /\ reply[r].att = reply[s].att

(* The outbox tells the invoice's story: one event per settled attempt, of *)
(* the attempt's outcome, none for a pending one, and the last event is    *)
(* the one that left the invoice in the status it has.                     *)
ToldOf(i, a) == {n \in DOMAIN log[i] : log[i][n].att = a}

OutcomesTold(i) ==
    \A a \in Request : InvOf(a) = i =>
        IF Settled(a) THEN \E n \in DOMAIN log[i] :
                              /\ ToldOf(i, a) = {n}
                              /\ log[i][n].type = (IF attempt[a] = "succeeded" THEN "invoice.paid"
                                                        ELSE "invoice.payment_failed")
                      ELSE ToldOf(i, a) = {}

LastIs(i, type) == log[i] # <<>> /\ log[i][Len(log[i])].type = type

OutboxTellsTheStory ==
    \A i \in Invoice :
        /\ OutcomesTold(i)
        /\ status[i] = "paid" <=> LastIs(i, "invoice.paid")
        /\ status[i] = "void" <=> LastIs(i, "invoice.voided")

(* A key's row never changes hands and its stored answer never changes:    *)
(* whatever a second settler, a late worker or a replay does.              *)
KeysAreForever ==
    [][\A k \in Key :
          idem[k] # NoRow =>
              /\ idem'[k].fp = idem[k].fp /\ idem'[k].att = idem[k].att
              /\ idem[k].resp # NoAnswer => idem'[k].resp = idem[k].resp]_vars

(* The flow implements the ledger: money is taken at most once per invoice *)
(* and only while it is processing, and the status follows the money.      *)
Taken(i) == {a \in Request : InvOf(a) = i /\ psp[a] = "succeeded"}

Ledger == INSTANCE InvoiceLedger
            WITH Charge <- Request,
                 status <- [i \in Invoice |-> status[i]],
                 taken  <- [i \in Invoice |-> Taken(i)]

RefinesLedger == Ledger!LedgerSpec

-----------------------------------------------------------------------------
(* The inductive invariant: why the properties above hold *)

(* A lock is held exactly by the open transaction that wrote the row. *)
LocksInv ==
    /\ \A r \in Request : pc[r] \in {"begin", "explain", "insert"} =>
          keyLock[KeyOf(r)] = r /\ idem[KeyOf(r)] = NoRow
    /\ \A r \in Request : pc[r] = "insert" =>
          invLock[InvOf(r)] = r /\ status[InvOf(r)] = "open"
    /\ \A p \in Actor : pc[p] = "settling" =>
          attLock[att[p]] = p /\ attempt[att[p]] = "pending"

(* A handler past the claim works on an attempt that exists; before the    *)
(* claim commits, its own does not.                                        *)
StagesInv ==
    /\ \A p \in Actor :
          pc[p] \in {"charge", "await", "pending", "invoice", "lookup", "reschedule",
                     "settle", "settling", "stored"} =>
             att[p] \in Request /\ attempt[att[p]] # "none"
    /\ \A r \in Request :
          /\ pc[r] \in {"idle", "reserve", "begin", "explain", "insert"} => attempt[r] = "none"
          /\ pc[r] = "charge" => post[r] = "unsent"
          /\ pc[r] \in {"charge", "await"} => att[r] = r
    /\ status[NoInvoice] = "absent"

(* An invoice is processing for its one pending attempt, and paid by its   *)
(* one succeeded attempt.                                                  *)
InvoicesInv ==
    /\ \A a \in Request :
          /\ attempt[a] = "pending" => status[InvOf(a)] = "processing"
          /\ attempt[a] = "succeeded" => status[InvOf(a)] = "paid"
    /\ \A a, b \in Request :
          /\ attempt[a] \in {"pending", "succeeded"}
          /\ attempt[b] = attempt[a]
          /\ InvOf(a) = InvOf(b)
          => a = b
    /\ \A i \in InvoiceId :
          /\ status[i] = "processing" => \E a \in Request : InvOf(a) = i /\ attempt[a] = "pending"
          /\ status[i] = "paid" => \E a \in Request : InvOf(a) = i /\ attempt[a] = "succeeded"

(* Nobody gives an attempt up as failed, or is about to, while its charge  *)
(* can take money.                                                         *)
MoneyInv ==
    /\ \A a \in Request :
          /\ attempt[a] = "none" => psp[a] = "none" /\ post[a] = "unsent"
          /\ attempt[a] = "succeeded" => psp[a] = "succeeded"
          /\ attempt[a] = "failed" => ~MayTakeMoney(a)
          /\ post[a] \in {"unsent", "flying", "lost"} => psp[a] = "none"
          /\ a \in aged => ~MayStillReach(a) /\ attempt[a] # "none"
    /\ \A p \in Actor :
          /\ pc[p] = "lookup" /\ told[p] = "overdue" => att[p] \in aged
          /\ pc[p] \in {"settle", "settling"} =>
                \/ told[p] = "succeeded" /\ psp[att[p]] = "succeeded"
                \/ told[p] = "failed" /\ ~MayTakeMoney(att[p])

(* A key row names the attempt of a request with that key. *)
KeysInv ==
    /\ SettledHasStoredAnswer
    /\ \A k \in Key : idem[k].att # None => KeyOf(idem[k].att) = k /\ attempt[idem[k].att] # "none"

CoreInv == TypeOK /\ LocksInv /\ StagesInv /\ InvoicesInv /\ MoneyInv /\ KeysInv

(* Answers, from where they are made to where they are given: a handler    *)
(* works for its own key and invoice, what it was told of a settled        *)
(* attempt stays so, it looks for a stored answer only when there is one,  *)
(* and a key without an attempt holds a refusal, or nothing yet.           *)
OwnAttempt ==
    \A r \in Request :
        pc[r] \in {"charge", "await", "pending", "invoice", "settle", "settling", "stored"} =>
            KeyOf(att[r]) = KeyOf(r) /\ InvOf(att[r]) = InvOf(r)

ReadIsTrue ==
    /\ \A r \in Request : pc[r] = "invoice" => told[r] \in {"pending", attempt[att[r]]} \ {"none"}
    /\ \A p \in Actor : pc[p] = "stored" => Settled(att[p])

RefusalsInv ==
    \A k \in Key : idem[k].att = None =>
        idem[k].resp.att = None /\ idem[k].resp.code \in {0, 404, 409}

AnswerIsTrue(r, answer) ==
    /\ answer.att # None => KeyOf(answer.att) = KeyOf(r) /\ InvOf(answer.att) = InvOf(r)
    /\ answer.code = 200 => answer.att # None /\ attempt[answer.att] = "succeeded"
    /\ answer.code = 402 => answer.att # None /\ attempt[answer.att] = "failed"
    /\ answer.code # 500

RepliesInv == \A r \in Request : AnswerIsTrue(r, reply[r])

AnswersInv == OwnAttempt /\ ReadIsTrue /\ RefusalsInv /\ RepliesInv

IInv == CoreInv /\ AnswersInv

-----------------------------------------------------------------------------
(* Liveness properties *)

(* Every attempt is settled, whoever crashes on the way: by its request or *)
(* by the reconciler, also when its charge never reached the PSP.          *)
AttemptsSettle == \A a \in Request : attempt[a] = "pending" ~> Settled(a)

(* Every pay request that is not cut off is answered: waiting for a key,   *)
(* an invoice or an attempt that another transaction holds always ends.    *)
RequestsAreAnswered == \A r \in Request : pc[r] = "reserve" ~> pc[r] \in {"done", "gone"}

-----------------------------------------------------------------------------
(* Claims of the documentation that the code does not keep *)

(* payments.rs, Claim::Rejected: a refusal is stored only if the invoice   *)
(* can never be paid by the key (already paid, void, or missing).          *)
StoredRefusalIsPermanent ==
    \A k \in Key : idem[k].resp.code \in {404, 409} =>
        status[idem[k].fp.inv] \in {"paid", "void", "absent"}

=============================================================================

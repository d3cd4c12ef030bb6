--------------------------- MODULE PaymentsProofs ---------------------------
(***************************************************************************)
(* Proofs about Payments, for any number of requests, workers, invoices,   *)
(* keys and tokens.                                                        *)
(*                                                                         *)
(* CoreInv is inductive (one lemma per conjunct, one step per action); the *)
(* safety properties, the permanence of key rows and the refinement of     *)
(* InvoiceLedger follow from it.                                           *)
(***************************************************************************)
EXTENDS Payments, TLAPS

(* Every answer the handlers build is an HTTP answer of the model: the two *)
(* constants, the 422 of a reused key, the rejections of apply_transition  *)
(* and the responses of attempt_response.                                  *)
LEMMA AnswersTyped ==
  /\ NoAnswer \in Answer /\ InternalError \in Answer
  /\ [code |-> 422, att |-> None, inv |-> "absent"] \in Answer
  /\ \A s \in InvoiceStatus \cup {"absent"} : Rejection(s) \in Answer
  /\ \A a \in Request, s \in InvoiceStatus \cup {"absent"} :
        \A o : AttemptResponse(a, o, s) \in Answer
BY DEF Answer, NoAnswer, InternalError, Rejection, AttemptResponse

(* Every idempotency row that is written is well typed, and so is its      *)
(* response.                                                               *)
LEMMA RowsTyped ==
  /\ NoRow \in IdemRow
  /\ \A f \in Fingerprint, x \in Answer : [fp |-> f, att |-> None, resp |-> x] \in IdemRow
  /\ \A f \in Fingerprint, a \in Request : [fp |-> f, att |-> a, resp |-> NoAnswer] \in IdemRow
  /\ \A row \in IdemRow, x \in Answer : [row EXCEPT !.resp = x] \in IdemRow
  /\ \A row \in IdemRow : row.resp \in Answer /\ row.att \in Request \cup {None}
BY AnswersTyped DEF IdemRow, NoRow

(* complete_for_attempt leaves a well-typed table.                         *)
LEMMA CompletionTyped ==
  ASSUME idem \in [Key -> IdemRow], NEW a, NEW x \in Answer
  PROVE  CompleteForAttempt(a, x) \in [Key -> IdemRow]
BY RowsTyped DEF CompleteForAttempt

(* events::record leaves well-typed logs.                                  *)
LEMMA RecordTyped ==
  ASSUME log \in [InvoiceId -> Seq(Event)], NEW i \in InvoiceId,
         NEW t \in EventType, NEW a \in Request \cup {None}, Record(i, t, a)
  PROVE  log' \in [InvoiceId -> Seq(Event)]
<1>1. [type |-> t, att |-> a] \in Event
  BY DEF Event
<1>q. QED BY <1>1 DEF Record

(* A handler or a pass that ends leaves well-typed locals.                 *)
LEMMA FinishTyped ==
  ASSUME StoreTypeOK, NEW p \in Actor, NEW x \in Answer, Finish(p, x)
  PROVE  /\ pc' \in [Actor -> Stage] /\ att' \in [Actor -> Request \cup {None}]
         /\ told' \in [Actor -> AttemptStatus \cup {"overdue"}] /\ reply' \in [Request -> Answer]
<1> USE DEF StoreTypeOK, Actor
<1>1. ASSUME NEW label \in Stage, End(p, label)
      PROVE  /\ pc' \in [Actor -> Stage] /\ att' \in [Actor -> Request \cup {None}]
             /\ told' \in [Actor -> AttemptStatus \cup {"overdue"}]
  BY <1>1 DEF End, Goto, AttemptStatus
<1>2. "done" \in Stage /\ "idle" \in Stage
  BY DEF Stage
<1>3. CASE p \in Request /\ End(p, "done") /\ reply' = [reply EXCEPT ![p] = x]
  BY <1>1, <1>2, <1>3
<1>4. CASE p \in Worker /\ End(p, "idle") /\ UNCHANGED reply
  BY <1>1, <1>2, <1>4
<1>q. QED BY <1>3, <1>4 DEF Finish

(* The key, invoice and fingerprint of a request are what they should be.  *)
LEMMA AskTyped ==
  ASSUME ask \in [Request -> PayInput], NEW r \in Request
  PROVE  KeyOf(r) \in Key /\ InvOf(r) \in InvoiceId /\ FingerprintOf(r) \in Fingerprint
BY DEF PayInput, KeyOf, InvOf, FingerprintOf, Fingerprint

(* Finish ends p, at "done" if it is a request; a worker answers no one.   *)
LEMMA FinishEffect ==
  ASSUME NEW p \in Actor, NEW x, Finish(p, x)
  PROVE  \E l \in {"done", "idle"} : /\ End(p, l) /\ (p \in Request => l = "done")
                              /\ (p \in Worker => reply' = reply)
BY ActorsAreDistinct DEF Finish

(* What complete_for_attempt does to one key row: only the response of a   *)
(* row of this attempt that has none.                                      *)
LEMMA CompletionEffect ==
  ASSUME idem \in [Key -> IdemRow], NEW a \in Request, NEW x, NEW k \in Key
  PROVE  LET row == CompleteForAttempt(a, x)[k] IN
         /\ row.fp = idem[k].fp /\ row.att = idem[k].att
         /\ idem[k].att # a => row = idem[k]
         /\ idem[k].resp # NoAnswer => row = idem[k]
         /\ idem[k].att = a /\ idem[k].resp = NoAnswer => row.resp = x
BY DEF CompleteForAttempt, IdemRow

(* What settle_attempt commits, given the invariant: its attempt is        *)
(* pending and locked, the invoice is processing, and the outcome is one   *)
(* that the PSP cannot contradict any more.                                *)
LEMMA SettleEffect ==
  ASSUME CoreInv, NEW p \in Actor, SettleCommit(p)
  PROVE  LET a == att[p]
             to == IF told[p] = "succeeded" THEN "paid" ELSE "open"
         IN  /\ a \in Request /\ attempt[a] = "pending" /\ attLock[a] = p
             /\ \/ told[p] = "succeeded" /\ psp[a] = "succeeded"
                \/ told[p] = "failed" /\ ~MayTakeMoney(a)
             /\ InvOf(a) \in InvoiceId /\ status[InvOf(a)] = "processing"
             /\ status' = [status EXCEPT ![InvOf(a)] = to]
             /\ attempt' = [attempt EXCEPT ![a] = told[p]]
             /\ idem' = CompleteForAttempt(a, AttemptResponse(a, told[p], to))
             /\ attLock' = [attLock EXCEPT ![a] = None]
             /\ UNCHANGED <<aged, keyLock, invLock, ask>>
             /\ \E l \in {"done", "idle"} : /\ End(p, l) /\ (p \in Request => l = "done")
                                          /\ (p \in Worker => reply' = reply)
<1> USE DEF CoreInv, TypeOK, StoreTypeOK
<1>1. att[p] \in Request /\ attempt[att[p]] = "pending" /\ attLock[att[p]] = p
  BY DEF SettleCommit, StagesInv, LocksInv
<1>2. \/ told[p] = "succeeded" /\ psp[att[p]] = "succeeded"
      \/ told[p] = "failed" /\ ~MayTakeMoney(att[p])
  BY DEF SettleCommit, MoneyInv
<1>3. InvOf(att[p]) \in InvoiceId
  BY <1>1, AskTyped
<1>4. To(SettleTransition(told[p])) = IF told[p] = "succeeded" THEN "paid" ELSE "open"
  BY <1>2 DEF To, SettleTransition
<1>5. From(SettleTransition(told[p])) = "processing"
  BY DEF From, SettleTransition
<1>6. \E l \in {"done", "idle"} : /\ End(p, l) /\ (p \in Request => l = "done")
                                 /\ (p \in Worker => reply' = reply)
  BY FinishEffect DEF SettleCommit
<1>q. QED BY <1>1, <1>2, <1>3, <1>4, <1>5, <1>6 DEF SettleCommit, InvOf

(* A step is one of the actions below, or a stutter: Next without its      *)
(* nesting, for case splits.                                               *)
LEMMA StepCases ==
  ASSUME [Next]_vars
  PROVE  \/ \E i \in Invoice : CreateInvoice(i) \/ VoidInvoice(i)
         \/ \E r \in Request :
               \/ Start(r) \/ Reserve(r) \/ KeyReused(r) \/ KeyReplay(r) \/ KeyAwaiting(r)
               \/ BeginPayment(r) \/ CasMissed(r) \/ RefuseForNow(r) \/ RefuseForGood(r)
               \/ InsertAttempt(r) \/ SendCharge(r) \/ ChargeSettled(r) \/ ChargeIndeterminate(r)
               \/ ReadAttempt(r) \/ ReadInvoice(r) \/ Abandon(r)
         \/ \E p \in Actor :
               /\ UNCHANGED pspVars
               /\ SettleClaim(p) \/ SettleLost(p) \/ SettleCommit(p) \/ ReadStored(p)
         \/ \E w \in Worker : \E a \in Request : ClaimDue(w, a)
         \/ \E w \in Worker :
               \/ LookupSettled(w) \/ LookupNoRecord(w) \/ LookupInconclusive(w)
               \/ Reschedule(w) \/ Crash(w)
         \/ \E a \in Request :
               /\ UNCHANGED <<bookVars, lockVars, actorVars>>
               /\ PspReceive(a) \/ PspLose(a)
         \/ \E a \in Request : Decide(a) \/ BecomesDue(a) \/ GraceElapses(a)
         \/ UNCHANGED vars
BY DEF Next, PayStep, Handle, Settle, Work, Lookup, Network, Quiet, Actor

(* The invariant, conjunct by conjunct and action by action.  Types first. *)
LEMMA TypeStep == CoreInv /\ [Next]_vars => TypeOK'
<1> USE DEF CoreInv, TypeOK, StoreTypeOK, PspTypeOK, StagesInv, bookVars, lockVars, actorVars,
     pspVars, Actor, Stage, AttemptStatus, EventType, InvoiceStatus, InvoiceId
<1>1. ASSUME CoreInv, NEW i \in Invoice, CreateInvoice(i) PROVE TypeOK'
  BY <1>1, RecordTyped DEF CreateInvoice
<1>2. ASSUME CoreInv, NEW i \in Invoice, VoidInvoice(i) PROVE TypeOK'
  BY <1>2, RecordTyped DEF VoidInvoice, To
<1>3. ASSUME CoreInv, NEW r \in Request, Start(r) PROVE TypeOK'
  BY <1>3 DEF Start, Goto
<1>4. ASSUME CoreInv, NEW r \in Request, Reserve(r) PROVE TypeOK'
  BY <1>4, AskTyped DEF Reserve, KeyFree, Goto
<1>5. ASSUME CoreInv, NEW r \in Request, KeyReused(r) PROVE TypeOK'
  BY <1>5, AnswersTyped, FinishTyped DEF KeyReused
<1>6. ASSUME CoreInv, NEW r \in Request, KeyReplay(r) PROVE TypeOK'
  BY <1>6, RowsTyped, AskTyped, FinishTyped DEF KeyReplay
<1>7. ASSUME CoreInv, NEW r \in Request, KeyAwaiting(r) PROVE TypeOK'
  BY <1>7, RowsTyped, AskTyped DEF KeyAwaiting, Goto
<1>8. ASSUME CoreInv, NEW r \in Request, BeginPayment(r) PROVE TypeOK'
  BY <1>8, AskTyped DEF BeginPayment, Goto, CanClaim, From
<1>9. ASSUME CoreInv, NEW r \in Request, CasMissed(r) PROVE TypeOK'
  BY <1>9 DEF CasMissed, Goto, From
<1>10. ASSUME CoreInv, NEW r \in Request, RefuseForNow(r) PROVE TypeOK'
  BY <1>10, AnswersTyped, AskTyped, NoneIsNobody, FinishTyped DEF RefuseForNow
<1>11. ASSUME CoreInv, NEW r \in Request, RefuseForGood(r) PROVE TypeOK'
  BY <1>11, AnswersTyped, RowsTyped, AskTyped, FinishTyped DEF RefuseForGood
<1>12. ASSUME CoreInv, NEW r \in Request, InsertAttempt(r) PROVE TypeOK'
  BY <1>12, RowsTyped, AskTyped DEF InsertAttempt, Goto, ClaimedRow, To
<1>13. ASSUME CoreInv, NEW r \in Request, SendCharge(r) PROVE TypeOK'
  BY <1>13 DEF SendCharge, Goto, Send
<1>14. ASSUME CoreInv, NEW r \in Request, ChargeSettled(r) PROVE TypeOK'
  BY <1>14 DEF ChargeSettled, Goto, Definitive
<1>15. ASSUME CoreInv, NEW r \in Request, ChargeIndeterminate(r) PROVE TypeOK'
  BY <1>15 DEF ChargeIndeterminate, Goto
<1>16. ASSUME CoreInv, NEW r \in Request, ReadAttempt(r) PROVE TypeOK'
  BY <1>16 DEF ReadAttempt, Goto
<1>17. ASSUME CoreInv, NEW r \in Request, ReadInvoice(r) PROVE TypeOK'
  <2> DEFINE x == AttemptResponse(att[r], told[r], status[ask[att[r]].inv])
  <2>1. att[r] \in Request
    BY <1>17 DEF ReadInvoice
  <2>2. status[ask[att[r]].inv] \in InvoiceStatus \cup {"absent"}
    BY <1>17, <2>1, AskTyped DEF InvOf
  <2>3. x \in Answer
    BY <2>1, <2>2, AnswersTyped
  <2>4. Finish(r, x) /\ UNCHANGED <<bookVars, lockVars, ask, pspVars>>
    BY <1>17 DEF ReadInvoice
  <2> HIDE DEF x
  <2>q. QED BY <1>17, <2>3, <2>4, FinishTyped
<1>18. ASSUME CoreInv, NEW r \in Request, Abandon(r) PROVE TypeOK'
  BY <1>18 DEF Abandon, Rollback, End, Goto
<1>19. ASSUME CoreInv, NEW p \in Actor, UNCHANGED pspVars, SettleClaim(p) PROVE TypeOK'
  BY <1>19 DEF SettleClaim, Settleable, Goto
<1>20. ASSUME CoreInv, NEW p \in Actor, UNCHANGED pspVars, SettleLost(p) PROVE TypeOK'
  BY <1>20 DEF SettleLost, Goto
<1>21. ASSUME CoreInv, NEW p \in Actor, UNCHANGED pspVars, SettleCommit(p) PROVE TypeOK'
  <2> DEFINE a == att[p]
             i == InvOf(a)
             t == SettleTransition(told[p])
             answer == AttemptResponse(a, told[p], To(t))
  <2>1. a \in Request /\ told[p] \in {"succeeded", "failed"}
    BY <1>21 DEF SettleCommit, MoneyInv
  <2>2. /\ i \in InvoiceId /\ t \in {"payment_succeeded", "payment_failed"}
        /\ SettleEvent(told[p]) \in EventType
    BY <1>21, <2>1, AskTyped DEF SettleTransition, SettleEvent
  <2>0. To(t) \in InvoiceStatus \cup {"absent"}
    BY <2>2 DEF To
  <2> HIDE DEF t
  <2>3. answer \in Answer
    BY <2>0, <2>1, <2>2, AnswersTyped
  <2>4. Finish(p, answer) /\ idem' = CompleteForAttempt(a, answer) /\ Record(i, SettleEvent(told[p]), a)
    BY <1>21 DEF SettleCommit, InvOf, t
  <2>5. status' = [status EXCEPT ![i] = To(t)]
    BY <1>21 DEF SettleCommit, InvOf, t
  <2>a. log \in [InvoiceId -> Seq(Event)] /\ idem \in [Key -> IdemRow]
    BY <1>21
  <2>b. log' \in [InvoiceId -> Seq(Event)]
    BY ONLY <2>1, <2>2, <2>4, <2>a, RecordTyped
  <2>c. idem' \in [Key -> IdemRow]
    BY ONLY <2>3, <2>4, <2>a, CompletionTyped
  <2>6. log' \in [InvoiceId -> Seq(Event)] /\ idem' \in [Key -> IdemRow]
    BY <2>b, <2>c
  <2>7. /\ pc' \in [Actor -> Stage] /\ att' \in [Actor -> Request \cup {None}] /\ reply' \in [Request -> Answer]
        /\ told' \in [Actor -> AttemptStatus \cup {"overdue"}]
    BY <2>3, <2>4, <1>21, FinishTyped
  <2>8. status' \in [InvoiceId -> InvoiceStatus \cup {"absent"}]
    BY <1>21, <2>0, <2>5
  <2>9. /\ attempt' \in [Request -> AttemptStatus] /\ due' \in SUBSET Request /\ aged' = aged
        /\ attLock' \in [Request -> Actor \cup {None}]
        /\ UNCHANGED <<keyLock, invLock, ask, pspVars>>
    BY <1>21, <2>1 DEF SettleCommit
  <2>q. QED BY <1>21, <2>6, <2>7, <2>8, <2>9
<1>22. ASSUME CoreInv, NEW p \in Actor, UNCHANGED pspVars, ReadStored(p) PROVE TypeOK'
  <2>1. PICK x \in Answer : Finish(p, x)
    BY <1>22, AnswersTyped, RowsTyped DEF ReadStored
  <2>q. QED BY <1>22, <2>1, FinishTyped DEF ReadStored
<1>23. ASSUME CoreInv, NEW w \in Worker, NEW a \in Request, ClaimDue(w, a) PROVE TypeOK'
  BY <1>23 DEF ClaimDue, Goto
<1>24. ASSUME CoreInv, NEW w \in Worker, LookupSettled(w) PROVE TypeOK'
  BY <1>24 DEF LookupSettled, Goto, Definitive
<1>25. ASSUME CoreInv, NEW w \in Worker, LookupNoRecord(w) PROVE TypeOK'
  BY <1>25 DEF LookupNoRecord, Goto, NeverReachedPsp
<1>26. ASSUME CoreInv, NEW w \in Worker, LookupInconclusive(w) PROVE TypeOK'
  BY <1>26 DEF LookupInconclusive, Goto
<1>27. ASSUME CoreInv, NEW w \in Worker, Reschedule(w) PROVE TypeOK'
  BY <1>27 DEF Reschedule, End, Goto
<1>28. ASSUME CoreInv, NEW w \in Worker, Crash(w) PROVE TypeOK'
  BY <1>28 DEF Crash, Rollback, End, Goto
<1>29. ASSUME CoreInv, NEW a \in Request, UNCHANGED <<bookVars, lockVars, actorVars>>, PspReceive(a)
       PROVE  TypeOK'
  BY <1>29 DEF PspReceive
<1>30. ASSUME CoreInv, NEW a \in Request, UNCHANGED <<bookVars, lockVars, actorVars>>, PspLose(a)
       PROVE  TypeOK'
  BY <1>30 DEF PspLose
<1>31. ASSUME CoreInv, NEW a \in Request, Decide(a) PROVE TypeOK'
  BY <1>31 DEF Decide, PspDecide
<1>32. ASSUME CoreInv, NEW a \in Request, BecomesDue(a) PROVE TypeOK'
  BY <1>32 DEF BecomesDue
<1>33. ASSUME CoreInv, NEW a \in Request, GraceElapses(a) PROVE TypeOK'
  BY <1>33 DEF GraceElapses, MayStillReach
<1>34. ASSUME CoreInv, UNCHANGED vars PROVE TypeOK'
  BY <1>34 DEF vars
<1> HIDE DEF CoreInv, TypeOK, StoreTypeOK, PspTypeOK, StagesInv, bookVars, lockVars, actorVars,
     pspVars, Actor, Stage, AttemptStatus, EventType, InvoiceStatus, InvoiceId
<1>q. QED BY StepCases, <1>1, <1>2, <1>3, <1>4, <1>5, <1>6, <1>7, <1>8, <1>9, <1>10, <1>11,
     <1>12, <1>13, <1>14, <1>15, <1>16, <1>17, <1>18, <1>19, <1>20, <1>21, <1>22, <1>23,
     <1>24, <1>25, <1>26, <1>27, <1>28, <1>29, <1>30, <1>31, <1>32, <1>33, <1>34

(* Row locks: who holds one has its row to itself until it commits.        *)
LEMMA LocksStep == CoreInv /\ [Next]_vars => LocksInv'
<1> USE DEF KeyOf, InvOf, NoRow, CoreInv, TypeOK, StoreTypeOK, PspTypeOK, bookVars, lockVars,
     actorVars, pspVars, Actor, LocksInv
<1>1. ASSUME CoreInv, NEW i \in Invoice, CreateInvoice(i) PROVE LocksInv'
  BY <1>1, NoneIsNobody, ActorsAreDistinct DEF CreateInvoice, Record
<1>2. ASSUME CoreInv, NEW i \in Invoice, VoidInvoice(i) PROVE LocksInv'
  BY <1>2, NoneIsNobody, ActorsAreDistinct DEF VoidInvoice, Record, CanVoid, From, To
<1>3. ASSUME CoreInv, NEW r \in Request, Start(r) PROVE LocksInv'
  BY <1>3, NoneIsNobody, ActorsAreDistinct DEF Start, Goto
<1>4. ASSUME CoreInv, NEW r \in Request, Reserve(r) PROVE LocksInv'
  BY <1>4, NoneIsNobody, ActorsAreDistinct, AskTyped DEF Reserve, KeyFree, Goto
<1>5. ASSUME CoreInv, NEW r \in Request, KeyReused(r) PROVE LocksInv'
  <2>1. PICK l \in {"done", "idle"} : End(r, l) /\ (r \in Request => l = "done")
    BY <1>5, FinishEffect DEF KeyReused
  <2>q. QED BY <1>5, <2>1, NoneIsNobody, ActorsAreDistinct DEF KeyReused, End, Goto
<1>6. ASSUME CoreInv, NEW r \in Request, KeyReplay(r) PROVE LocksInv'
  <2>1. PICK l \in {"done", "idle"} : End(r, l) /\ (r \in Request => l = "done")
    BY <1>6, FinishEffect DEF KeyReplay
  <2>q. QED BY <1>6, <2>1, NoneIsNobody, ActorsAreDistinct, AskTyped DEF KeyReplay, End, Goto
<1>7. ASSUME CoreInv, NEW r \in Request, KeyAwaiting(r) PROVE LocksInv'
  BY <1>7, NoneIsNobody, ActorsAreDistinct DEF KeyAwaiting, Goto
<1>8. ASSUME CoreInv, NEW r \in Request, BeginPayment(r) PROVE LocksInv'
  BY <1>8, NoneIsNobody, ActorsAreDistinct, AskTyped DEF BeginPayment, Goto, CanClaim, From
<1>9. ASSUME CoreInv, NEW r \in Request, CasMissed(r) PROVE LocksInv'
  BY <1>9, NoneIsNobody, ActorsAreDistinct DEF CasMissed, Goto, From
<1>10. ASSUME CoreInv, NEW r \in Request, RefuseForNow(r) PROVE LocksInv'
  <2>1. PICK l \in {"done", "idle"} : End(r, l) /\ (r \in Request => l = "done")
    BY <1>10, FinishEffect DEF RefuseForNow
  <2>q. QED BY <1>10, <2>1, NoneIsNobody, ActorsAreDistinct, AskTyped DEF RefuseForNow, End,
       Goto
<1>11. ASSUME CoreInv, NEW r \in Request, RefuseForGood(r) PROVE LocksInv'
  <2>1. PICK l \in {"done", "idle"} : End(r, l) /\ (r \in Request => l = "done")
    BY <1>11, FinishEffect DEF RefuseForGood
  <2>q. QED BY <1>11, <2>1, NoneIsNobody, ActorsAreDistinct, AskTyped DEF RefuseForGood,
       End, Goto
<1>12. ASSUME CoreInv, NEW r \in Request, InsertAttempt(r) PROVE LocksInv'
  BY <1>12, NoneIsNobody, ActorsAreDistinct, AskTyped DEF InsertAttempt, Goto, ClaimedRow, To
<1>13. ASSUME CoreInv, NEW r \in Request, SendCharge(r) PROVE LocksInv'
  BY <1>13, NoneIsNobody, ActorsAreDistinct DEF SendCharge, Goto, Send
<1>14. ASSUME CoreInv, NEW r \in Request, ChargeSettled(r) PROVE LocksInv'
  BY <1>14, NoneIsNobody, ActorsAreDistinct DEF ChargeSettled, Goto, Definitive
<1>15. ASSUME CoreInv, NEW r \in Request, ChargeIndeterminate(r) PROVE LocksInv'
  BY <1>15, NoneIsNobody, ActorsAreDistinct DEF ChargeIndeterminate, Goto
<1>16. ASSUME CoreInv, NEW r \in Request, ReadAttempt(r) PROVE LocksInv'
  BY <1>16, NoneIsNobody, ActorsAreDistinct DEF ReadAttempt, Goto
<1>17. ASSUME CoreInv, NEW r \in Request, ReadInvoice(r) PROVE LocksInv'
  <2>1. PICK l \in {"done", "idle"} : End(r, l) /\ (r \in Request => l = "done")
    BY <1>17, FinishEffect DEF ReadInvoice
  <2>q. QED BY <1>17, <2>1, NoneIsNobody, ActorsAreDistinct DEF ReadInvoice, End, Goto
<1>18. ASSUME CoreInv, NEW r \in Request, Abandon(r) PROVE LocksInv'
  BY <1>18, NoneIsNobody, ActorsAreDistinct, AskTyped DEF Abandon, Rollback, End, Goto,
       StagesInv
<1>19. ASSUME CoreInv, NEW p \in Actor, UNCHANGED pspVars, SettleClaim(p) PROVE LocksInv'
  BY <1>19, NoneIsNobody, ActorsAreDistinct DEF SettleClaim, Settleable, Goto, StagesInv
<1>20. ASSUME CoreInv, NEW p \in Actor, UNCHANGED pspVars, SettleLost(p) PROVE LocksInv'
  BY <1>20, NoneIsNobody, ActorsAreDistinct DEF SettleLost, Goto
<1>21. ASSUME CoreInv, NEW p \in Actor, UNCHANGED pspVars, SettleCommit(p) PROVE LocksInv'
  <2>1. PICK l \in {"done", "idle"} : End(p, l)
    BY <1>21, SettleEffect
  <2>2. \A k \in Key : idem[k] = NoRow => idem'[k] = NoRow
    BY <1>21, SettleEffect, CompletionEffect, NoneIsNobody
  <2>3. /\ att[p] \in Request /\ attLock[att[p]] = p /\ status[InvOf(att[p])] = "processing"
        /\ attempt' = [attempt EXCEPT ![att[p]] = told[p]]
        /\ attLock' = [attLock EXCEPT ![att[p]] = None]
        /\ UNCHANGED <<keyLock, invLock, ask>>
    BY <1>21, SettleEffect
  <2>4. \A i \in InvoiceId : status[i] = "open" => status'[i] = "open"
    <3>1. status' = [status EXCEPT ![InvOf(att[p])] = IF told[p] = "succeeded" THEN "paid" ELSE "open"]
      BY <1>21, SettleEffect
    <3>q. QED BY <1>21, <2>3, <3>1
  <2>5. ASSUME NEW q \in Actor, pc'[q] = "settling"
        PROVE  attLock'[att'[q]] = q /\ attempt'[att'[q]] = "pending"
    BY <1>21, <2>1, <2>3, <2>5 DEF StagesInv, End, Goto
  <2>6. ASSUME NEW r \in Request, pc'[r] \in {"begin", "explain", "insert"}
        PROVE  pc'[r] = pc[r]
    BY <1>21, <2>1, <2>6 DEF End, Goto
  <2>q. QED BY <1>21, <2>2, <2>3, <2>4, <2>5, <2>6, AskTyped
<1>22. ASSUME CoreInv, NEW p \in Actor, UNCHANGED pspVars, ReadStored(p) PROVE LocksInv'
  <2>1. PICK l \in {"done", "idle"} : End(p, l) /\ (p \in Request => l = "done")
    BY <1>22, FinishEffect DEF ReadStored
  <2>q. QED BY <1>22, <2>1, NoneIsNobody, ActorsAreDistinct DEF ReadStored, End, Goto
<1>23. ASSUME CoreInv, NEW w \in Worker, NEW a \in Request, ClaimDue(w, a) PROVE LocksInv'
  BY <1>23, NoneIsNobody, ActorsAreDistinct DEF ClaimDue, Goto
<1>24. ASSUME CoreInv, NEW w \in Worker, LookupSettled(w) PROVE LocksInv'
  BY <1>24, NoneIsNobody, ActorsAreDistinct DEF LookupSettled, Goto, Definitive
<1>25. ASSUME CoreInv, NEW w \in Worker, LookupNoRecord(w) PROVE LocksInv'
  BY <1>25, NoneIsNobody, ActorsAreDistinct DEF LookupNoRecord, Goto, NeverReachedPsp
<1>26. ASSUME CoreInv, NEW w \in Worker, LookupInconclusive(w) PROVE LocksInv'
  BY <1>26, NoneIsNobody, ActorsAreDistinct DEF LookupInconclusive, Goto
<1>27. ASSUME CoreInv, NEW w \in Worker, Reschedule(w) PROVE LocksInv'
  BY <1>27, NoneIsNobody, ActorsAreDistinct DEF Reschedule, End, Goto
<1>28. ASSUME CoreInv, NEW w \in Worker, Crash(w) PROVE LocksInv'
  BY <1>28, NoneIsNobody, ActorsAreDistinct, AskTyped DEF Crash, Rollback, End, Goto,
       StagesInv
<1>29. ASSUME CoreInv, NEW a \in Request, UNCHANGED <<bookVars, lockVars, actorVars>>, PspReceive(a)
       PROVE  LocksInv'
  BY <1>29, NoneIsNobody, ActorsAreDistinct DEF PspReceive
<1>30. ASSUME CoreInv, NEW a \in Request, UNCHANGED <<bookVars, lockVars, actorVars>>, PspLose(a)
       PROVE  LocksInv'
  BY <1>30, NoneIsNobody, ActorsAreDistinct DEF PspLose
<1>31. ASSUME CoreInv, NEW a \in Request, Decide(a) PROVE LocksInv'
  BY <1>31, NoneIsNobody, ActorsAreDistinct DEF Decide, PspDecide
<1>32. ASSUME CoreInv, NEW a \in Request, BecomesDue(a) PROVE LocksInv'
  BY <1>32, NoneIsNobody, ActorsAreDistinct DEF BecomesDue
<1>33. ASSUME CoreInv, NEW a \in Request, GraceElapses(a) PROVE LocksInv'
  BY <1>33, NoneIsNobody, ActorsAreDistinct DEF GraceElapses, MayStillReach
<1>34. ASSUME CoreInv, UNCHANGED vars PROVE LocksInv'
  BY <1>34 DEF vars
<1> HIDE DEF KeyOf, InvOf, NoRow, CoreInv, TypeOK, StoreTypeOK, PspTypeOK, bookVars, lockVars,
     actorVars, pspVars, Actor, LocksInv
<1>q. QED BY StepCases, <1>1, <1>2, <1>3, <1>4, <1>5, <1>6, <1>7, <1>8, <1>9, <1>10, <1>11,
     <1>12, <1>13, <1>14, <1>15, <1>16, <1>17, <1>18, <1>19, <1>20, <1>21, <1>22, <1>23,
     <1>24, <1>25, <1>26, <1>27, <1>28, <1>29, <1>30, <1>31, <1>32, <1>33, <1>34

(* Control: what each stage of a handler or worker says of its attempt.    *)
LEMMA StagesStep == CoreInv /\ [Next]_vars => StagesInv'
<1> USE DEF KeyOf, InvOf, NoRow, CoreInv, TypeOK, StoreTypeOK, PspTypeOK, bookVars, lockVars,
     actorVars, pspVars, Actor, StagesInv
<1>1. ASSUME CoreInv, NEW i \in Invoice, CreateInvoice(i) PROVE StagesInv'
  BY <1>1, NoneIsNobody, ActorsAreDistinct, NoInvoiceIsNoInvoice DEF CreateInvoice, Record
<1>2. ASSUME CoreInv, NEW i \in Invoice, VoidInvoice(i) PROVE StagesInv'
  BY <1>2, NoneIsNobody, ActorsAreDistinct DEF VoidInvoice, Record, CanVoid, From, To
<1>3. ASSUME CoreInv, NEW r \in Request, Start(r) PROVE StagesInv'
  BY <1>3, NoneIsNobody, ActorsAreDistinct DEF Start, Goto
<1>4. ASSUME CoreInv, NEW r \in Request, Reserve(r) PROVE StagesInv'
  BY <1>4, NoneIsNobody, ActorsAreDistinct DEF Reserve, KeyFree, Goto
<1>5. ASSUME CoreInv, NEW r \in Request, KeyReused(r) PROVE StagesInv'
  <2>1. PICK l \in {"done", "idle"} : End(r, l) /\ (r \in Request => l = "done")
    BY <1>5, FinishEffect DEF KeyReused
  <2>q. QED BY <1>5, <2>1, NoneIsNobody, ActorsAreDistinct DEF KeyReused, End, Goto
<1>6. ASSUME CoreInv, NEW r \in Request, KeyReplay(r) PROVE StagesInv'
  <2>1. PICK l \in {"done", "idle"} : End(r, l) /\ (r \in Request => l = "done")
    BY <1>6, FinishEffect DEF KeyReplay
  <2>q. QED BY <1>6, <2>1, NoneIsNobody, ActorsAreDistinct DEF KeyReplay, End, Goto
<1>7. ASSUME CoreInv, NEW r \in Request, KeyAwaiting(r) PROVE StagesInv'
  BY <1>7, NoneIsNobody, ActorsAreDistinct, AskTyped, RowsTyped DEF KeyAwaiting, Goto, KeysInv
<1>8. ASSUME CoreInv, NEW r \in Request, BeginPayment(r) PROVE StagesInv'
  BY <1>8, NoneIsNobody, ActorsAreDistinct DEF BeginPayment, Goto, CanClaim, From
<1>9. ASSUME CoreInv, NEW r \in Request, CasMissed(r) PROVE StagesInv'
  BY <1>9, NoneIsNobody, ActorsAreDistinct DEF CasMissed, Goto, From
<1>10. ASSUME CoreInv, NEW r \in Request, RefuseForNow(r) PROVE StagesInv'
  <2>1. PICK l \in {"done", "idle"} : End(r, l) /\ (r \in Request => l = "done")
    BY <1>10, FinishEffect DEF RefuseForNow
  <2>q. QED BY <1>10, <2>1, NoneIsNobody, ActorsAreDistinct DEF RefuseForNow, End, Goto
<1>11. ASSUME CoreInv, NEW r \in Request, RefuseForGood(r) PROVE StagesInv'
  <2>1. PICK l \in {"done", "idle"} : End(r, l) /\ (r \in Request => l = "done")
    BY <1>11, FinishEffect DEF RefuseForGood
  <2>q. QED BY <1>11, <2>1, NoneIsNobody, ActorsAreDistinct, AskTyped DEF RefuseForGood,
       End, Goto
<1>12. ASSUME CoreInv, NEW r \in Request, InsertAttempt(r) PROVE StagesInv'
  <2>1. status[InvOf(r)] = "open" /\ attempt[r] = "none"
    BY <1>12 DEF InsertAttempt, LocksInv
  <2>2. /\ attempt' = [attempt EXCEPT ![r] = "pending"] /\ att' = [att EXCEPT ![r] = r]
        /\ pc' = [pc EXCEPT ![r] = "charge"]
        /\ UNCHANGED <<ask, post>>
    BY <1>12 DEF InsertAttempt, Goto
  <2>3. status'[NoInvoice] = "absent"
    BY <1>12, <2>1 DEF InsertAttempt
  <2>4. post[r] = "unsent"
    BY <1>12, <2>1 DEF MoneyInv
  <2>q. QED BY <1>12, <2>1, <2>2, <2>3, <2>4
<1>13. ASSUME CoreInv, NEW r \in Request, SendCharge(r) PROVE StagesInv'
  BY <1>13, NoneIsNobody, ActorsAreDistinct DEF SendCharge, Goto, Send
<1>14. ASSUME CoreInv, NEW r \in Request, ChargeSettled(r) PROVE StagesInv'
  BY <1>14, NoneIsNobody, ActorsAreDistinct DEF ChargeSettled, Goto, Definitive
<1>15. ASSUME CoreInv, NEW r \in Request, ChargeIndeterminate(r) PROVE StagesInv'
  BY <1>15, NoneIsNobody, ActorsAreDistinct DEF ChargeIndeterminate, Goto
<1>16. ASSUME CoreInv, NEW r \in Request, ReadAttempt(r) PROVE StagesInv'
  BY <1>16, NoneIsNobody, ActorsAreDistinct DEF ReadAttempt, Goto
<1>17. ASSUME CoreInv, NEW r \in Request, ReadInvoice(r) PROVE StagesInv'
  <2>1. PICK l \in {"done", "idle"} : End(r, l) /\ (r \in Request => l = "done")
    BY <1>17, FinishEffect DEF ReadInvoice
  <2>2. pc' = [pc EXCEPT ![r] = l] /\ att' = [att EXCEPT ![r] = None]
    BY <1>17, <2>1 DEF End, Goto
  <2>3. UNCHANGED <<attempt, status, ask, post>>
    BY <1>17 DEF ReadInvoice
  <2>q. QED BY <1>17, <2>1, <2>2, <2>3
<1>18. ASSUME CoreInv, NEW r \in Request, Abandon(r) PROVE StagesInv'
  BY <1>18, NoneIsNobody, ActorsAreDistinct DEF Abandon, Rollback, End, Goto
<1>19. ASSUME CoreInv, NEW p \in Actor, UNCHANGED pspVars, SettleClaim(p) PROVE StagesInv'
  BY <1>19, NoneIsNobody, ActorsAreDistinct DEF SettleClaim, Settleable, Goto, LocksInv
<1>20. ASSUME CoreInv, NEW p \in Actor, UNCHANGED pspVars, SettleLost(p) PROVE StagesInv'
  BY <1>20, NoneIsNobody, ActorsAreDistinct DEF SettleLost, Goto
<1>21. ASSUME CoreInv, NEW p \in Actor, UNCHANGED pspVars, SettleCommit(p) PROVE StagesInv'
  <2>1. PICK l \in {"done", "idle"} : End(p, l) /\ (p \in Request => l = "done")
    BY <1>21, SettleEffect
  <2>2. /\ att[p] \in Request /\ status[InvOf(att[p])] = "processing" /\ attempt[att[p]] = "pending"
        /\ status' = [status EXCEPT ![InvOf(att[p])] = IF told[p] = "succeeded" THEN "paid" ELSE "open"]
        /\ attempt' = [attempt EXCEPT ![att[p]] = told[p]]
        /\ told[p] # "none" /\ UNCHANGED <<ask, post>>
    BY <1>21, SettleEffect
  <2>3. pc' = [pc EXCEPT ![p] = l] /\ att' = [att EXCEPT ![p] = None]
    BY <1>21, <2>1 DEF End, Goto
  <2>5. \A b \in Request : attempt'[b] = "none" <=> attempt[b] = "none"
    BY <1>21, <2>2
  <2>7. status'[NoInvoice] = "absent"
    BY <1>21, <2>2
  <2>q. QED BY <1>21, <2>2, <2>1, <2>3, <2>5, <2>7, ActorsAreDistinct
<1>22. ASSUME CoreInv, NEW p \in Actor, UNCHANGED pspVars, ReadStored(p) PROVE StagesInv'
  <2>1. PICK l \in {"done", "idle"} : End(p, l) /\ (p \in Request => l = "done")
    BY <1>22, FinishEffect DEF ReadStored
  <2>2. pc' = [pc EXCEPT ![p] = l] /\ att' = [att EXCEPT ![p] = None]
    BY <1>22, <2>1 DEF End, Goto
  <2>3. UNCHANGED <<attempt, status, ask, post>>
    BY <1>22 DEF ReadStored
  <2>q. QED BY <1>22, <2>1, <2>2, <2>3
<1>23. ASSUME CoreInv, NEW w \in Worker, NEW a \in Request, ClaimDue(w, a) PROVE StagesInv'
  BY <1>23, NoneIsNobody, ActorsAreDistinct DEF ClaimDue, Goto
<1>24. ASSUME CoreInv, NEW w \in Worker, LookupSettled(w) PROVE StagesInv'
  BY <1>24, NoneIsNobody, ActorsAreDistinct DEF LookupSettled, Goto, Definitive
<1>25. ASSUME CoreInv, NEW w \in Worker, LookupNoRecord(w) PROVE StagesInv'
  BY <1>25, NoneIsNobody, ActorsAreDistinct DEF LookupNoRecord, Goto, NeverReachedPsp
<1>26. ASSUME CoreInv, NEW w \in Worker, LookupInconclusive(w) PROVE StagesInv'
  BY <1>26, NoneIsNobody, ActorsAreDistinct DEF LookupInconclusive, Goto
<1>27. ASSUME CoreInv, NEW w \in Worker, Reschedule(w) PROVE StagesInv'
  BY <1>27, NoneIsNobody, ActorsAreDistinct DEF Reschedule, End, Goto
<1>28. ASSUME CoreInv, NEW w \in Worker, Crash(w) PROVE StagesInv'
  BY <1>28, NoneIsNobody, ActorsAreDistinct DEF Crash, Rollback, End, Goto
<1>29. ASSUME CoreInv, NEW a \in Request, UNCHANGED <<bookVars, lockVars, actorVars>>, PspReceive(a)
       PROVE  StagesInv'
  BY <1>29, NoneIsNobody, ActorsAreDistinct DEF PspReceive
<1>30. ASSUME CoreInv, NEW a \in Request, UNCHANGED <<bookVars, lockVars, actorVars>>, PspLose(a)
       PROVE  StagesInv'
  BY <1>30, NoneIsNobody, ActorsAreDistinct DEF PspLose
<1>31. ASSUME CoreInv, NEW a \in Request, Decide(a) PROVE StagesInv'
  BY <1>31, NoneIsNobody, ActorsAreDistinct DEF Decide, PspDecide
<1>32. ASSUME CoreInv, NEW a \in Request, BecomesDue(a) PROVE StagesInv'
  BY <1>32, NoneIsNobody, ActorsAreDistinct DEF BecomesDue
<1>33. ASSUME CoreInv, NEW a \in Request, GraceElapses(a) PROVE StagesInv'
  BY <1>33, NoneIsNobody, ActorsAreDistinct DEF GraceElapses, MayStillReach
<1>34. ASSUME CoreInv, UNCHANGED vars PROVE StagesInv'
  BY <1>34 DEF vars
<1> HIDE DEF KeyOf, InvOf, NoRow, CoreInv, TypeOK, StoreTypeOK, PspTypeOK, bookVars, lockVars,
     actorVars, pspVars, Actor, StagesInv
<1>q. QED BY StepCases, <1>1, <1>2, <1>3, <1>4, <1>5, <1>6, <1>7, <1>8, <1>9, <1>10, <1>11,
     <1>12, <1>13, <1>14, <1>15, <1>16, <1>17, <1>18, <1>19, <1>20, <1>21, <1>22, <1>23,
     <1>24, <1>25, <1>26, <1>27, <1>28, <1>29, <1>30, <1>31, <1>32, <1>33, <1>34

(* Statuses: a processing invoice has one pending attempt, a paid invoice  *)
(* one succeeded attempt.                                                  *)
LEMMA InvoicesStep == CoreInv /\ [Next]_vars => InvoicesInv'
<1> USE DEF InvOf, CoreInv, TypeOK, StoreTypeOK, bookVars, lockVars, actorVars, InvoicesInv
<1>1. ASSUME CoreInv, NEW i \in Invoice, CreateInvoice(i) PROVE InvoicesInv'
  BY <1>1 DEF CreateInvoice
<1>2. ASSUME CoreInv, NEW i \in Invoice, VoidInvoice(i) PROVE InvoicesInv'
  BY <1>2 DEF VoidInvoice, CanVoid, From, To
<1>3. ASSUME CoreInv, NEW r \in Request, Start(r) PROVE InvoicesInv'
  BY <1>3 DEF Start
<1>4. ASSUME CoreInv, NEW r \in Request, Reserve(r) PROVE InvoicesInv'
  BY <1>4 DEF Reserve, KeyFree
<1>5. ASSUME CoreInv, NEW r \in Request, KeyReused(r) PROVE InvoicesInv'
  BY <1>5 DEF KeyReused
<1>6. ASSUME CoreInv, NEW r \in Request, KeyReplay(r) PROVE InvoicesInv'
  BY <1>6 DEF KeyReplay
<1>7. ASSUME CoreInv, NEW r \in Request, KeyAwaiting(r) PROVE InvoicesInv'
  BY <1>7 DEF KeyAwaiting
<1>8. ASSUME CoreInv, NEW r \in Request, BeginPayment(r) PROVE InvoicesInv'
  BY <1>8 DEF BeginPayment
<1>9. ASSUME CoreInv, NEW r \in Request, CasMissed(r) PROVE InvoicesInv'
  BY <1>9 DEF CasMissed
<1>10. ASSUME CoreInv, NEW r \in Request, RefuseForNow(r) PROVE InvoicesInv'
  BY <1>10 DEF RefuseForNow
<1>11. ASSUME CoreInv, NEW r \in Request, RefuseForGood(r) PROVE InvoicesInv'
  BY <1>11 DEF RefuseForGood
<1>12. ASSUME CoreInv, NEW r \in Request, InsertAttempt(r) PROVE InvoicesInv'
  BY <1>12, AskTyped DEF InsertAttempt, To, LocksInv, StagesInv
<1>13. ASSUME CoreInv, NEW r \in Request, SendCharge(r) PROVE InvoicesInv'
  BY <1>13 DEF SendCharge
<1>14. ASSUME CoreInv, NEW r \in Request, ChargeSettled(r) PROVE InvoicesInv'
  BY <1>14 DEF ChargeSettled
<1>15. ASSUME CoreInv, NEW r \in Request, ChargeIndeterminate(r) PROVE InvoicesInv'
  BY <1>15 DEF ChargeIndeterminate
<1>16. ASSUME CoreInv, NEW r \in Request, ReadAttempt(r) PROVE InvoicesInv'
  BY <1>16 DEF ReadAttempt
<1>17. ASSUME CoreInv, NEW r \in Request, ReadInvoice(r) PROVE InvoicesInv'
  BY <1>17 DEF ReadInvoice
<1>18. ASSUME CoreInv, NEW r \in Request, Abandon(r) PROVE InvoicesInv'
  BY <1>18 DEF Abandon, Rollback
<1>19. ASSUME CoreInv, NEW p \in Actor, UNCHANGED pspVars, SettleClaim(p)
       PROVE  InvoicesInv'
  BY <1>19 DEF SettleClaim, Settleable
<1>20. ASSUME CoreInv, NEW p \in Actor, UNCHANGED pspVars, SettleLost(p) PROVE InvoicesInv'
  BY <1>20 DEF SettleLost
<1>21. ASSUME CoreInv, NEW p \in Actor, UNCHANGED pspVars, SettleCommit(p)
       PROVE  InvoicesInv'
  <2>1. /\ att[p] \in Request /\ status[InvOf(att[p])] = "processing" /\ attempt[att[p]] = "pending"
        /\ status' = [status EXCEPT ![InvOf(att[p])] = IF told[p] = "succeeded" THEN "paid" ELSE "open"]
        /\ attempt' = [attempt EXCEPT ![att[p]] = told[p]]
        /\ told[p] \in {"succeeded", "failed"} /\ ask' = ask
        /\ InvOf(att[p]) \in InvoiceId
    BY <1>21, SettleEffect
  <2>q. QED BY <1>21, <2>1
<1>22. ASSUME CoreInv, NEW p \in Actor, UNCHANGED pspVars, ReadStored(p) PROVE InvoicesInv'
  BY <1>22 DEF ReadStored
<1>23. ASSUME CoreInv, NEW w \in Worker, NEW a \in Request, ClaimDue(w, a)
       PROVE  InvoicesInv'
  BY <1>23 DEF ClaimDue
<1>24. ASSUME CoreInv, NEW w \in Worker, LookupSettled(w) PROVE InvoicesInv'
  BY <1>24 DEF LookupSettled
<1>25. ASSUME CoreInv, NEW w \in Worker, LookupNoRecord(w) PROVE InvoicesInv'
  BY <1>25 DEF LookupNoRecord
<1>26. ASSUME CoreInv, NEW w \in Worker, LookupInconclusive(w) PROVE InvoicesInv'
  BY <1>26 DEF LookupInconclusive
<1>27. ASSUME CoreInv, NEW w \in Worker, Reschedule(w) PROVE InvoicesInv'
  BY <1>27 DEF Reschedule
<1>28. ASSUME CoreInv, NEW w \in Worker, Crash(w) PROVE InvoicesInv'
  BY <1>28 DEF Crash, Rollback
<1>29. ASSUME CoreInv, NEW a \in Request, UNCHANGED <<bookVars, lockVars, actorVars>>, PspReceive(a)
       PROVE  InvoicesInv'
  BY <1>29 DEF PspReceive
<1>30. ASSUME CoreInv, NEW a \in Request, UNCHANGED <<bookVars, lockVars, actorVars>>, PspLose(a)
       PROVE  InvoicesInv'
  BY <1>30 DEF PspLose
<1>31. ASSUME CoreInv, NEW a \in Request, Decide(a) PROVE InvoicesInv'
  BY <1>31 DEF Decide, PspDecide
<1>32. ASSUME CoreInv, NEW a \in Request, BecomesDue(a) PROVE InvoicesInv'
  BY <1>32 DEF BecomesDue
<1>33. ASSUME CoreInv, NEW a \in Request, GraceElapses(a) PROVE InvoicesInv'
  BY <1>33 DEF GraceElapses
<1>34. ASSUME CoreInv, UNCHANGED vars PROVE InvoicesInv'
  BY <1>34 DEF vars
<1> HIDE DEF InvOf, CoreInv, TypeOK, StoreTypeOK, bookVars, lockVars, actorVars, InvoicesInv
<1>q. QED BY StepCases, <1>1, <1>2, <1>3, <1>4, <1>5, <1>6, <1>7, <1>8, <1>9, <1>10, <1>11,
     <1>12, <1>13, <1>14, <1>15, <1>16, <1>17, <1>18, <1>19, <1>20, <1>21, <1>22, <1>23,
     <1>24, <1>25, <1>26, <1>27, <1>28, <1>29, <1>30, <1>31, <1>32, <1>33, <1>34

(* Money: an attempt is given up only when its charge cannot succeed.      *)
LEMMA MoneyStep == CoreInv /\ [Next]_vars => MoneyInv'
<1> USE DEF InvOf, CoreInv, TypeOK, StoreTypeOK, PspTypeOK, bookVars, lockVars, actorVars,
     pspVars, MayTakeMoney, MayStillReach, Actor, MoneyInv
<1>1. ASSUME CoreInv, NEW i \in Invoice, CreateInvoice(i) PROVE MoneyInv'
  BY <1>1, NoneIsNobody, ActorsAreDistinct DEF CreateInvoice
<1>2. ASSUME CoreInv, NEW i \in Invoice, VoidInvoice(i) PROVE MoneyInv'
  BY <1>2, NoneIsNobody, ActorsAreDistinct DEF VoidInvoice
<1>3. ASSUME CoreInv, NEW r \in Request, Start(r) PROVE MoneyInv'
  BY <1>3, NoneIsNobody, ActorsAreDistinct DEF Start, Goto
<1>4. ASSUME CoreInv, NEW r \in Request, Reserve(r) PROVE MoneyInv'
  BY <1>4, NoneIsNobody, ActorsAreDistinct DEF Reserve, KeyFree, Goto
<1>5. ASSUME CoreInv, NEW r \in Request, KeyReused(r) PROVE MoneyInv'
  <2>1. PICK l \in {"done", "idle"} : End(r, l) /\ (r \in Request => l = "done")
    BY <1>5, FinishEffect DEF KeyReused
  <2>q. QED BY <1>5, <2>1, NoneIsNobody, ActorsAreDistinct DEF KeyReused, End, Goto
<1>6. ASSUME CoreInv, NEW r \in Request, KeyReplay(r) PROVE MoneyInv'
  <2>1. PICK l \in {"done", "idle"} : End(r, l) /\ (r \in Request => l = "done")
    BY <1>6, FinishEffect DEF KeyReplay
  <2>q. QED BY <1>6, <2>1, NoneIsNobody, ActorsAreDistinct DEF KeyReplay, End, Goto
<1>7. ASSUME CoreInv, NEW r \in Request, KeyAwaiting(r) PROVE MoneyInv'
  BY <1>7, NoneIsNobody, ActorsAreDistinct DEF KeyAwaiting, Goto
<1>8. ASSUME CoreInv, NEW r \in Request, BeginPayment(r) PROVE MoneyInv'
  BY <1>8, NoneIsNobody, ActorsAreDistinct DEF BeginPayment, Goto
<1>9. ASSUME CoreInv, NEW r \in Request, CasMissed(r) PROVE MoneyInv'
  BY <1>9, NoneIsNobody, ActorsAreDistinct DEF CasMissed, Goto
<1>10. ASSUME CoreInv, NEW r \in Request, RefuseForNow(r) PROVE MoneyInv'
  <2>1. PICK l \in {"done", "idle"} : End(r, l) /\ (r \in Request => l = "done")
    BY <1>10, FinishEffect DEF RefuseForNow
  <2>q. QED BY <1>10, <2>1, NoneIsNobody, ActorsAreDistinct DEF RefuseForNow, End, Goto
<1>11. ASSUME CoreInv, NEW r \in Request, RefuseForGood(r) PROVE MoneyInv'
  <2>1. PICK l \in {"done", "idle"} : End(r, l) /\ (r \in Request => l = "done")
    BY <1>11, FinishEffect DEF RefuseForGood
  <2>q. QED BY <1>11, <2>1, NoneIsNobody, ActorsAreDistinct DEF RefuseForGood, End, Goto
<1>12. ASSUME CoreInv, NEW r \in Request, InsertAttempt(r) PROVE MoneyInv'
  BY <1>12, NoneIsNobody, ActorsAreDistinct DEF InsertAttempt, Goto, StagesInv
<1>13. ASSUME CoreInv, NEW r \in Request, SendCharge(r) PROVE MoneyInv'
  BY <1>13, NoneIsNobody, ActorsAreDistinct DEF SendCharge, Goto, Send, StagesInv
<1>14. ASSUME CoreInv, NEW r \in Request, ChargeSettled(r) PROVE MoneyInv'
  BY <1>14, NoneIsNobody, ActorsAreDistinct DEF ChargeSettled, Goto, Definitive, StagesInv
<1>15. ASSUME CoreInv, NEW r \in Request, ChargeIndeterminate(r) PROVE MoneyInv'
  BY <1>15, NoneIsNobody, ActorsAreDistinct DEF ChargeIndeterminate, Goto
<1>16. ASSUME CoreInv, NEW r \in Request, ReadAttempt(r) PROVE MoneyInv'
  BY <1>16, NoneIsNobody, ActorsAreDistinct DEF ReadAttempt, Goto
<1>17. ASSUME CoreInv, NEW r \in Request, ReadInvoice(r) PROVE MoneyInv'
  <2>1. PICK l \in {"done", "idle"} : End(r, l) /\ (r \in Request => l = "done")
    BY <1>17, FinishEffect DEF ReadInvoice
  <2>q. QED BY <1>17, <2>1, NoneIsNobody, ActorsAreDistinct DEF ReadInvoice, End, Goto
<1>18. ASSUME CoreInv, NEW r \in Request, Abandon(r) PROVE MoneyInv'
  BY <1>18, NoneIsNobody, ActorsAreDistinct DEF Abandon, Rollback, End, Goto
<1>19. ASSUME CoreInv, NEW p \in Actor, UNCHANGED pspVars, SettleClaim(p) PROVE MoneyInv'
  BY <1>19, NoneIsNobody, ActorsAreDistinct DEF SettleClaim, Settleable, Goto
<1>20. ASSUME CoreInv, NEW p \in Actor, UNCHANGED pspVars, SettleLost(p) PROVE MoneyInv'
  BY <1>20, NoneIsNobody, ActorsAreDistinct DEF SettleLost, Goto
<1>21. ASSUME CoreInv, NEW p \in Actor, UNCHANGED pspVars, SettleCommit(p) PROVE MoneyInv'
  <2>1. PICK l \in {"done", "idle"} : End(p, l) /\ (p \in Request => l = "done")
    BY <1>21, SettleEffect
  <2>2. /\ att[p] \in Request /\ attempt[att[p]] = "pending"
        /\ attempt' = [attempt EXCEPT ![att[p]] = told[p]]
        /\ \/ told[p] = "succeeded" /\ psp[att[p]] = "succeeded"
           \/ told[p] = "failed" /\ ~MayTakeMoney(att[p])
        /\ aged' = aged
    BY <1>21, SettleEffect
  <2>3. pc' = [pc EXCEPT ![p] = l] /\ att' = [att EXCEPT ![p] = None] /\ told' = [told EXCEPT ![p] = "none"]
    BY <1>21, <2>1 DEF End, Goto
  <2>q. QED BY <1>21, <2>1, <2>2, <2>3
<1>22. ASSUME CoreInv, NEW p \in Actor, UNCHANGED pspVars, ReadStored(p) PROVE MoneyInv'
  <2>1. PICK l \in {"done", "idle"} : End(p, l) /\ (p \in Request => l = "done")
    BY <1>22, FinishEffect DEF ReadStored
  <2>q. QED BY <1>22, <2>1, NoneIsNobody, ActorsAreDistinct DEF ReadStored, End, Goto
<1>23. ASSUME CoreInv, NEW w \in Worker, NEW a \in Request, ClaimDue(w, a) PROVE MoneyInv'
  BY <1>23, NoneIsNobody, ActorsAreDistinct DEF ClaimDue, Goto, StagesInv
<1>24. ASSUME CoreInv, NEW w \in Worker, LookupSettled(w) PROVE MoneyInv'
  BY <1>24, NoneIsNobody, ActorsAreDistinct DEF LookupSettled, Goto, Definitive, StagesInv
<1>25. ASSUME CoreInv, NEW w \in Worker, LookupNoRecord(w) PROVE MoneyInv'
  BY <1>25, NoneIsNobody, ActorsAreDistinct DEF LookupNoRecord, Goto, NeverReachedPsp,
       StagesInv
<1>26. ASSUME CoreInv, NEW w \in Worker, LookupInconclusive(w) PROVE MoneyInv'
  BY <1>26, NoneIsNobody, ActorsAreDistinct DEF LookupInconclusive, Goto
<1>27. ASSUME CoreInv, NEW w \in Worker, Reschedule(w) PROVE MoneyInv'
  BY <1>27, NoneIsNobody, ActorsAreDistinct DEF Reschedule, End, Goto
<1>28. ASSUME CoreInv, NEW w \in Worker, Crash(w) PROVE MoneyInv'
  BY <1>28, NoneIsNobody, ActorsAreDistinct DEF Crash, Rollback, End, Goto
<1>29. ASSUME CoreInv, NEW a \in Request, UNCHANGED <<bookVars, lockVars, actorVars>>, PspReceive(a)
       PROVE  MoneyInv'
  BY <1>29, NoneIsNobody, ActorsAreDistinct DEF PspReceive, StagesInv
<1>30. ASSUME CoreInv, NEW a \in Request, UNCHANGED <<bookVars, lockVars, actorVars>>, PspLose(a)
       PROVE  MoneyInv'
  BY <1>30, NoneIsNobody, ActorsAreDistinct DEF PspLose, StagesInv
<1>31. ASSUME CoreInv, NEW a \in Request, Decide(a) PROVE MoneyInv'
  BY <1>31, NoneIsNobody, ActorsAreDistinct DEF Decide, PspDecide, StagesInv
<1>32. ASSUME CoreInv, NEW a \in Request, BecomesDue(a) PROVE MoneyInv'
  BY <1>32, NoneIsNobody, ActorsAreDistinct DEF BecomesDue
<1>33. ASSUME CoreInv, NEW a \in Request, GraceElapses(a) PROVE MoneyInv'
  BY <1>33, NoneIsNobody, ActorsAreDistinct DEF GraceElapses, StagesInv
<1>34. ASSUME CoreInv, UNCHANGED vars PROVE MoneyInv'
  BY <1>34 DEF vars
<1> HIDE DEF InvOf, CoreInv, TypeOK, StoreTypeOK, PspTypeOK, bookVars, lockVars, actorVars,
     pspVars, MayTakeMoney, MayStillReach, Actor, MoneyInv
<1>q. QED BY StepCases, <1>1, <1>2, <1>3, <1>4, <1>5, <1>6, <1>7, <1>8, <1>9, <1>10, <1>11,
     <1>12, <1>13, <1>14, <1>15, <1>16, <1>17, <1>18, <1>19, <1>20, <1>21, <1>22, <1>23,
     <1>24, <1>25, <1>26, <1>27, <1>28, <1>29, <1>30, <1>31, <1>32, <1>33, <1>34

(* Keys: each attempt has its key row, with the answer once settled.       *)
LEMMA KeysStep == CoreInv /\ [Next]_vars => KeysInv'
<1> USE DEF KeyOf, InvOf, FingerprintOf, CoreInv, TypeOK, StoreTypeOK, bookVars, actorVars,
     pspVars, SettledHasStoredAnswer, Settled, KeysInv
<1>1. ASSUME CoreInv, NEW i \in Invoice, CreateInvoice(i) PROVE KeysInv'
  BY <1>1 DEF CreateInvoice
<1>2. ASSUME CoreInv, NEW i \in Invoice, VoidInvoice(i) PROVE KeysInv'
  BY <1>2 DEF VoidInvoice
<1>3. ASSUME CoreInv, NEW r \in Request, Start(r) PROVE KeysInv'
  BY <1>3 DEF Start
<1>4. ASSUME CoreInv, NEW r \in Request, Reserve(r) PROVE KeysInv'
  BY <1>4 DEF Reserve, KeyFree
<1>5. ASSUME CoreInv, NEW r \in Request, KeyReused(r) PROVE KeysInv'
  BY <1>5 DEF KeyReused
<1>6. ASSUME CoreInv, NEW r \in Request, KeyReplay(r) PROVE KeysInv'
  BY <1>6 DEF KeyReplay
<1>7. ASSUME CoreInv, NEW r \in Request, KeyAwaiting(r) PROVE KeysInv'
  BY <1>7 DEF KeyAwaiting
<1>8. ASSUME CoreInv, NEW r \in Request, BeginPayment(r) PROVE KeysInv'
  BY <1>8 DEF BeginPayment
<1>9. ASSUME CoreInv, NEW r \in Request, CasMissed(r) PROVE KeysInv'
  BY <1>9 DEF CasMissed
<1>10. ASSUME CoreInv, NEW r \in Request, RefuseForNow(r) PROVE KeysInv'
  BY <1>10 DEF RefuseForNow
<1>11. ASSUME CoreInv, NEW r \in Request, RefuseForGood(r) PROVE KeysInv'
  <2>1. /\ KeyOf(r) \in Key /\ idem[KeyOf(r)] = NoRow
        /\ \E x : idem' = [idem EXCEPT ![KeyOf(r)] = [fp |-> FingerprintOf(r), att |-> None, resp |-> x]]
        /\ UNCHANGED <<attempt, ask>>
    BY <1>11, AskTyped DEF RefuseForGood, LocksInv
  <2>2. \A a \in Request : attempt[a] # "none" => KeyOf(a) # KeyOf(r) /\ KeyOf(a) \in Key
    <3>1. \A a \in Request : KeyOf(a) \in Key
      BY <1>11, AskTyped
    <3>2. ASSUME NEW a \in Request, attempt[a] # "none" PROVE idem[KeyOf(a)].att # None
      <4>1. idem[KeyOf(a)].att = a
        BY <1>11, <3>2
      <4>q. QED BY <4>1, NoneIsNobody
    <3>3. NoRow.att = None
      BY DEF NoRow
    <3>q. QED BY <2>1, <3>1, <3>2, <3>3
  <2>q. QED BY <1>11, <2>1, <2>2
<1>12. ASSUME CoreInv, NEW r \in Request, InsertAttempt(r) PROVE KeysInv'
  <2>1. /\ KeyOf(r) \in Key /\ idem[KeyOf(r)] = NoRow /\ attempt[r] = "none"
        /\ idem' = [idem EXCEPT ![KeyOf(r)] = [fp |-> FingerprintOf(r), att |-> r, resp |-> NoAnswer]]
        /\ attempt' = [attempt EXCEPT ![r] = "pending"]
        /\ ask' = ask
    BY <1>12, AskTyped DEF InsertAttempt, LocksInv, StagesInv, ClaimedRow
  <2>2. \A a \in Request : attempt[a] # "none" => KeyOf(a) # KeyOf(r) /\ KeyOf(a) \in Key
    <3>1. \A a \in Request : KeyOf(a) \in Key
      BY <1>12, AskTyped
    <3>2. ASSUME NEW a \in Request, attempt[a] # "none" PROVE idem[KeyOf(a)].att # None
      <4>1. idem[KeyOf(a)].att = a
        BY <1>12, <3>2
      <4>q. QED BY <4>1, NoneIsNobody
    <3>3. NoRow.att = None
      BY DEF NoRow
    <3>q. QED BY <2>1, <3>1, <3>2, <3>3
  <2>q. QED BY <1>12, <2>1, <2>2
<1>13. ASSUME CoreInv, NEW r \in Request, SendCharge(r) PROVE KeysInv'
  BY <1>13 DEF SendCharge
<1>14. ASSUME CoreInv, NEW r \in Request, ChargeSettled(r) PROVE KeysInv'
  BY <1>14 DEF ChargeSettled
<1>15. ASSUME CoreInv, NEW r \in Request, ChargeIndeterminate(r) PROVE KeysInv'
  BY <1>15 DEF ChargeIndeterminate
<1>16. ASSUME CoreInv, NEW r \in Request, ReadAttempt(r) PROVE KeysInv'
  BY <1>16 DEF ReadAttempt
<1>17. ASSUME CoreInv, NEW r \in Request, ReadInvoice(r) PROVE KeysInv'
  BY <1>17 DEF ReadInvoice
<1>18. ASSUME CoreInv, NEW r \in Request, Abandon(r) PROVE KeysInv'
  BY <1>18 DEF Abandon, Rollback
<1>19. ASSUME CoreInv, NEW p \in Actor, UNCHANGED pspVars, SettleClaim(p) PROVE KeysInv'
  BY <1>19 DEF SettleClaim, Settleable
<1>20. ASSUME CoreInv, NEW p \in Actor, UNCHANGED pspVars, SettleLost(p) PROVE KeysInv'
  BY <1>20 DEF SettleLost
<1>21. ASSUME CoreInv, NEW p \in Actor, UNCHANGED pspVars, SettleCommit(p) PROVE KeysInv'
  <2> DEFINE a == att[p]
             x == AttemptResponse(a, told[p], IF told[p] = "succeeded" THEN "paid" ELSE "open")
  <2>1. /\ a \in Request /\ attempt[a] = "pending"
        /\ attempt' = [attempt EXCEPT ![a] = told[p]]
        /\ told[p] \in {"succeeded", "failed"} /\ ask' = ask
        /\ idem' = CompleteForAttempt(a, x)
    BY <1>21, SettleEffect
  <2>2. \A b \in Request : KeyOf(b) \in Key
    BY <1>21, AskTyped
  <2>3. KeyOf(a) \in Key /\ idem[KeyOf(a)].att = a /\ idem[KeyOf(a)].resp = NoAnswer
    BY <1>21, <2>1, <2>2
  <2>4. \A k \in Key : /\ idem'[k].fp = idem[k].fp /\ idem'[k].att = idem[k].att
                       /\ idem[k].att # a => idem'[k] = idem[k]
    BY <1>21, <2>1, CompletionEffect
  <2>5. idem'[KeyOf(a)].resp = x
    BY <1>21, <2>1, <2>3, CompletionEffect
  <2>6. x = AttemptResponse(a, told[p], To(SettleTransition(told[p])))
    BY <2>1 DEF To, SettleTransition
  <2> HIDE DEF x
  <2>7. SettledHasStoredAnswer'
    <3>1. ASSUME NEW b \in Request, attempt'[b] # "none", b # a
          PROVE  attempt'[b] = attempt[b] /\ idem'[KeyOf(b)] = idem[KeyOf(b)]
      <4>1. attempt'[b] = attempt[b]
        BY <1>21, <2>1, <3>1
      <4>2. attempt[b] # "none"
        BY <3>1, <4>1
      <4>3. idem[KeyOf(b)].att = b
        BY <1>21, <4>2
      <4>q. QED BY <2>2, <2>4, <3>1, <4>1, <4>3
    <3>q. QED BY <1>21, <2>1, <2>3, <2>4, <2>5, <2>6, <3>1
  <2>8. ASSUME NEW k \in Key, idem'[k].att # None
        PROVE  KeyOf(idem'[k].att) = k /\ attempt'[idem'[k].att] # "none"
    <3>1. idem'[k].att = idem[k].att /\ idem[k].att \in Request
      BY <1>21, <2>4, <2>8, RowsTyped
    <3>q. QED BY <1>21, <2>1, <2>8, <3>1
  <2>q. QED BY <2>1, <2>7, <2>8
<1>22. ASSUME CoreInv, NEW p \in Actor, UNCHANGED pspVars, ReadStored(p) PROVE KeysInv'
  BY <1>22 DEF ReadStored
<1>23. ASSUME CoreInv, NEW w \in Worker, NEW a \in Request, ClaimDue(w, a) PROVE KeysInv'
  BY <1>23 DEF ClaimDue
<1>24. ASSUME CoreInv, NEW w \in Worker, LookupSettled(w) PROVE KeysInv'
  BY <1>24 DEF LookupSettled
<1>25. ASSUME CoreInv, NEW w \in Worker, LookupNoRecord(w) PROVE KeysInv'
  BY <1>25 DEF LookupNoRecord
<1>26. ASSUME CoreInv, NEW w \in Worker, LookupInconclusive(w) PROVE KeysInv'
  BY <1>26 DEF LookupInconclusive
<1>27. ASSUME CoreInv, NEW w \in Worker, Reschedule(w) PROVE KeysInv'
  BY <1>27 DEF Reschedule
<1>28. ASSUME CoreInv, NEW w \in Worker, Crash(w) PROVE KeysInv'
  BY <1>28 DEF Crash, Rollback
<1>29. ASSUME CoreInv, NEW a \in Request, UNCHANGED <<bookVars, lockVars, actorVars>>, PspReceive(a)
       PROVE  KeysInv'
  BY <1>29 DEF PspReceive
<1>30. ASSUME CoreInv, NEW a \in Request, UNCHANGED <<bookVars, lockVars, actorVars>>, PspLose(a)
       PROVE  KeysInv'
  BY <1>30 DEF PspLose
<1>31. ASSUME CoreInv, NEW a \in Request, Decide(a) PROVE KeysInv'
  BY <1>31 DEF Decide
<1>32. ASSUME CoreInv, NEW a \in Request, BecomesDue(a) PROVE KeysInv'
  BY <1>32 DEF BecomesDue
<1>33. ASSUME CoreInv, NEW a \in Request, GraceElapses(a) PROVE KeysInv'
  BY <1>33 DEF GraceElapses
<1>34. ASSUME CoreInv, UNCHANGED vars PROVE KeysInv'
  BY <1>34 DEF vars
<1> HIDE DEF KeyOf, InvOf, FingerprintOf, CoreInv, TypeOK, StoreTypeOK, bookVars, actorVars,
     pspVars, SettledHasStoredAnswer, Settled, KeysInv
<1>q. QED BY StepCases, <1>1, <1>2, <1>3, <1>4, <1>5, <1>6, <1>7, <1>8, <1>9, <1>10, <1>11,
     <1>12, <1>13, <1>14, <1>15, <1>16, <1>17, <1>18, <1>19, <1>20, <1>21, <1>22, <1>23,
     <1>24, <1>25, <1>26, <1>27, <1>28, <1>29, <1>30, <1>31, <1>32, <1>33, <1>34

-----------------------------------------------------------------------------
(* The theorems *)

(* The invariant holds of the empty books.                                 *)
LEMMA InitIsSafe == Init => CoreInv
<1> SUFFICES ASSUME Init PROVE CoreInv
  OBVIOUS
<1> USE DEF Init, StoreInit, PspInit
<1>1. TypeOK
  BY AnswersTyped, RowsTyped DEF TypeOK, StoreTypeOK, PspTypeOK, Stage, AttemptStatus
<1>2. LocksInv /\ StagesInv /\ MoneyInv
  BY NoInvoiceIsNoInvoice DEF LocksInv, StagesInv, MoneyInv, MayStillReach, MayTakeMoney,
       Actor, InvoiceId
<1>3. InvoicesInv
  BY DEF InvoicesInv
<1>4. KeysInv
  BY DEF KeysInv, SettledHasStoredAnswer, NoRow
<1>q. QED BY <1>1, <1>2, <1>3, <1>4 DEF CoreInv

(* The invariant is inductive.                                             *)
LEMMA StepIsSafe == CoreInv /\ [Next]_vars => CoreInv'
BY TypeStep, LocksStep, StagesStep, InvoicesStep, MoneyStep, KeysStep DEF CoreInv

(* In every reachable state of the payment flow, whatever requests,        *)
(* workers and crashes do, CoreInv holds: locks, stages, statuses, money   *)
(* and keys are in the relation that settle_attempt and the claim of       *)
(* payments.rs keep.                                                       *)
THEOREM CoreInvariance == Spec => []CoreInv
BY InitIsSafe, StepIsSafe, PTL DEF Spec

(* Every variable keeps its type: no handler of payments.rs or pass of     *)
(* reconciler.rs stores anything but the statuses and answers the schema   *)
(* knows.                                                                  *)
THEOREM TypeCorrect == Spec => []TypeOK
<1>1. CoreInv => TypeOK
  BY DEF CoreInv
<1>q. QED BY <1>1, CoreInvariance, PTL

(* A charge that took money, or still may, belongs to the invoice that is  *)
(* processing or paid for it.                                              *)
LEMMA MoneyIsAccountedFor ==
  ASSUME CoreInv, NEW a \in Request, MayTakeMoney(a)
  PROVE  \/ attempt[a] = "pending" /\ status[InvOf(a)] = "processing"
         \/ attempt[a] = "succeeded" /\ status[InvOf(a)] = "paid"
<1> USE DEF CoreInv
<1>1. attempt[a] \in AttemptStatus
  BY DEF TypeOK, StoreTypeOK
<1>2. attempt[a] # "none"
  BY DEF MoneyInv, StagesInv, MayTakeMoney, MayStillReach, Actor
<1>3. attempt[a] # "failed"
  BY DEF MoneyInv
<1>q. QED BY <1>1, <1>2, <1>3 DEF AttemptStatus, InvoicesInv

(* The invariant leaves room for one charge per invoice.                   *)
LEMMA OneChargeAtATime == CoreInv => NoDoubleCharge
<1> SUFFICES ASSUME CoreInv, NEW a \in Request, NEW b \in Request,
                    MayTakeMoney(a), MayTakeMoney(b), InvOf(a) = InvOf(b)
             PROVE  a = b
  BY DEF NoDoubleCharge
<1>1. attempt[a] = attempt[b] /\ attempt[a] \in {"pending", "succeeded"}
  BY MoneyIsAccountedFor
<1>q. QED BY <1>1 DEF CoreInv, InvoicesInv

(* No two attempts of an invoice are ever both able to take money, for any *)
(* number of concurrent pay requests, retries, reconciler workers and      *)
(* crashes: the promise of payments.rs, kept by the compare-and-set on     *)
(* invoices.status and the not-found grace of reconciler.rs alone.         *)
THEOREM NeverChargedTwice == Spec => []NoDoubleCharge
BY CoreInvariance, OneChargeAtATime, PTL

(* The invariant ties the invoice status to the money.                     *)
LEMMA BooksMatchMoney == CoreInv => MoneyMatchesInvoice
<1> SUFFICES ASSUME CoreInv, NEW i \in Invoice
             PROVE  /\ status[i] = "paid" => \E a \in Request : InvOf(a) = i /\ psp[a] = "succeeded"
                    /\ status[i] \in {"open", "void"} =>
                          \A a \in Request : InvOf(a) = i => ~MayTakeMoney(a)
  BY DEF MoneyMatchesInvoice
<1>1. status[i] = "paid" => \E a \in Request : InvOf(a) = i /\ psp[a] = "succeeded"
  BY DEF CoreInv, InvoicesInv, MoneyInv, InvoiceId
<1>2. ASSUME NEW a \in Request, InvOf(a) = i, MayTakeMoney(a)
      PROVE  status[i] \notin {"open", "void"}
  BY <1>2, MoneyIsAccountedFor
<1>q. QED BY <1>1, <1>2

(* A paid invoice was charged, and for an invoice that can be paid again,  *)
(* or is void, no charge exists or can still happen: "no crash window that *)
(* loses or duplicates a charge" (payments.rs).                            *)
THEOREM BooksAlwaysMatchMoney == Spec => []MoneyMatchesInvoice
BY CoreInvariance, BooksMatchMoney, PTL

(* An invoice is processing exactly while it has a pending attempt, and it *)
(* then has one: what settle_attempt relies on when it applies the         *)
(* transition of the attempt it has just locked.                           *)
THEOREM OnePendingAttempt == Spec => []InFlightIffProcessing
<1>1. CoreInv => InFlightIffProcessing
  <2> SUFFICES ASSUME CoreInv, NEW i \in Invoice
               PROVE  LET pending == {a \in Request : InvOf(a) = i /\ attempt[a] = "pending"}
                      IN  IF status[i] = "processing" THEN \E a \in Request : pending = {a}
                                                      ELSE pending = {}
    BY DEF InFlightIffProcessing
  <2> DEFINE pending == {a \in Request : InvOf(a) = i /\ attempt[a] = "pending"}
  <2>1. CASE status[i] = "processing"
    <3>1. PICK a \in Request : InvOf(a) = i /\ attempt[a] = "pending"
      BY <2>1 DEF CoreInv, InvoicesInv, InvoiceId
    <3>2. \A b \in pending : b = a
      BY <3>1 DEF CoreInv, InvoicesInv
    <3>q. QED BY <2>1, <3>1, <3>2
  <2>2. CASE status[i] # "processing"
    BY <2>2 DEF CoreInv, InvoicesInv
  <2>q. QED BY <2>1, <2>2
<1>q. QED BY <1>1, CoreInvariance, PTL

(* A settled attempt has its answer in its key row, whoever settled it, so *)
(* already_attempt_response always finds one.                              *)
THEOREM AnswersAreStored == Spec => []SettledHasStoredAnswer
<1>1. CoreInv => SettledHasStoredAnswer
  BY DEF CoreInv, KeysInv
<1>q. QED BY <1>1, CoreInvariance, PTL

(* Two requests with one Idempotency-Key never both start an attempt: what *)
(* reserve promises by inserting the key in the claim transaction.         *)
THEOREM OneChargePerKey == Spec => []ChargedOncePerKey
<1>1. CoreInv => ChargedOncePerKey
  BY DEF CoreInv, KeysInv, SettledHasStoredAnswer, ChargedOncePerKey
<1>q. QED BY <1>1, CoreInvariance, PTL

-----------------------------------------------------------------------------
(* A key row never changes hands and its answer is never rewritten *)

(* No step gives a key row to another request or rewrites its answer.      *)
LEMMA KeyRowsStep ==
  ASSUME CoreInv, [Next]_vars, NEW k \in Key, idem[k] # NoRow
  PROVE  /\ idem'[k].fp = idem[k].fp /\ idem'[k].att = idem[k].att
         /\ idem[k].resp # NoAnswer => idem'[k].resp = idem[k].resp
<1>1. CASE UNCHANGED idem
  BY <1>1
<1>2. ASSUME NEW r \in Request, RefuseForGood(r) \/ InsertAttempt(r)
      PROVE  idem'[k] = idem[k]
  <2>1. idem[KeyOf(r)] = NoRow
    BY <1>2 DEF CoreInv, LocksInv, RefuseForGood, InsertAttempt
  <2>2. \E row : idem' = [idem EXCEPT ![KeyOf(r)] = row]
    BY <1>2 DEF RefuseForGood, InsertAttempt
  <2>q. QED BY <2>1, <2>2 DEF CoreInv, TypeOK, StoreTypeOK
<1>3. ASSUME NEW p \in Actor, SettleCommit(p)
      PROVE  /\ idem'[k].fp = idem[k].fp /\ idem'[k].att = idem[k].att
             /\ idem[k].resp # NoAnswer => idem'[k].resp = idem[k].resp
  <2> DEFINE x == AttemptResponse(att[p], told[p], IF told[p] = "succeeded" THEN "paid" ELSE "open")
  <2>1. att[p] \in Request /\ idem' = CompleteForAttempt(att[p], x)
    BY <1>3, SettleEffect
  <2>q. QED BY <2>1, CompletionEffect DEF CoreInv, TypeOK, StoreTypeOK
<1>4. \/ UNCHANGED idem
      \/ \E r \in Request : RefuseForGood(r) \/ InsertAttempt(r)
      \/ \E p \in Actor : SettleCommit(p)
  BY StepCases DEF CreateInvoice, VoidInvoice, Start, Reserve, KeyReused, KeyReplay,
       KeyAwaiting,
     BeginPayment, CasMissed, RefuseForNow, SendCharge, ChargeSettled, ChargeIndeterminate,
     ReadAttempt, ReadInvoice, Abandon, Rollback, SettleClaim, SettleLost, ReadStored, ClaimDue,
     LookupSettled, LookupNoRecord, LookupInconclusive, Reschedule, Crash, Decide, BecomesDue,
     GraceElapses, bookVars, vars
<1>q. QED BY <1>1, <1>2, <1>3, <1>4

(* Once written, a row of idempotency_keys keeps its fingerprint, its      *)
(* attempt and its stored response: no second settler, late worker or      *)
(* replay overwrites them.                                                 *)
THEOREM KeysNeverChange == Spec => KeysAreForever
<1>1. CoreInv /\ [Next]_vars =>
        [\A k \in Key :
          idem[k] # NoRow =>
              /\ idem'[k].fp = idem[k].fp /\ idem'[k].att = idem[k].att
              /\ idem[k].resp # NoAnswer => idem'[k].resp = idem[k].resp]_vars
  BY KeyRowsStep
<1>q. QED BY <1>1, CoreInvariance, PTL DEF Spec, KeysAreForever

-----------------------------------------------------------------------------
(* The payment flow implements the ledger *)

(* A charge not yet decided is the only one of a processing invoice.       *)
LEMMA TakenOnlyByOne ==
  ASSUME CoreInv, NEW a \in Request, MayTakeMoney(a), psp[a] # "succeeded"
  PROVE  /\ InvOf(a) \in Invoice /\ status[InvOf(a)] = "processing" /\ Taken(InvOf(a)) = {}
<1>1. attempt[a] = "pending" /\ status[InvOf(a)] = "processing"
  BY MoneyIsAccountedFor DEF CoreInv, MoneyInv
<1>2. InvOf(a) \in Invoice
  BY <1>1, AskTyped DEF CoreInv, TypeOK, StoreTypeOK, StagesInv, InvoiceId
<1>3. ASSUME NEW b \in Request, InvOf(b) = InvOf(a), psp[b] = "succeeded" PROVE FALSE
  BY <1>3, OneChargeAtATime DEF NoDoubleCharge, MayTakeMoney
<1>q. QED BY <1>1, <1>2, <1>3 DEF Taken

(* Each step of the flow is a step of the ledger, or none.                 *)
LEMMA LedgerStep ==
  ASSUME CoreInv, [Next]_vars PROVE [Ledger!LedgerNext]_(Ledger!ledgerVars)
<1> DEFINE st == [i \in Invoice |-> status[i]]
           tk == [i \in Invoice |-> Taken(i)]
<1> USE DEF Ledger!LedgerNext, Ledger!ledgerVars, Ledger!Move, CoreInv, TypeOK, StoreTypeOK
<1>1. ASSUME NEW i \in Invoice, CreateInvoice(i) PROVE Ledger!Issue(i)
  BY <1>1 DEF CreateInvoice, Ledger!Issue, Taken, InvOf, InvoiceId, actorVars, pspVars
<1>2. ASSUME NEW i \in Invoice, VoidInvoice(i) PROVE Ledger!Cancel(i)
  BY <1>2 DEF VoidInvoice, CanVoid, From, To, Ledger!Cancel, Taken, InvOf, InvoiceId,
       actorVars, pspVars
<1>3. ASSUME NEW r \in Request, InsertAttempt(r)
      PROVE  \E i \in Invoice : Ledger!Begin(i)
  <2>1. InvOf(r) \in Invoice /\ status[InvOf(r)] = "open"
    BY <1>3, AskTyped DEF InsertAttempt, LocksInv, StagesInv, InvoiceId
  <2>2. PICK i \in Invoice : i = InvOf(r)
    BY <2>1
  <2>3. Ledger!Begin(i)
    BY <1>3, <2>1, <2>2 DEF InsertAttempt, To, Ledger!Begin, Taken, InvOf, InvoiceId, pspVars
  <2>q. QED BY <2>3
<1>4. ASSUME NEW p \in Actor, SettleCommit(p), UNCHANGED pspVars
      PROVE  \E i \in Invoice : Ledger!Collect(i) \/ Ledger!Decline(i)
  <2> DEFINE a == att[p]
             i == InvOf(a)
  <2>1. /\ a \in Request /\ attempt[a] = "pending" /\ status[i] = "processing" /\ i \in InvoiceId
        /\ status' = [status EXCEPT ![i] = IF told[p] = "succeeded" THEN "paid" ELSE "open"]
        /\ ask' = ask
    BY <1>4, SettleEffect
  <2>2. \/ told[p] = "succeeded" /\ psp[a] = "succeeded"
        \/ told[p] = "failed" /\ ~MayTakeMoney(a)
    BY <1>4, SettleEffect
  <2>3. i \in Invoice
    BY <2>1 DEF StagesInv, InvoiceId
  <2>4. tk' = tk
    BY <1>4, <2>1 DEF Taken, InvOf, pspVars
  <2>5. CASE told[p] = "succeeded" /\ psp[a] = "succeeded"
    <3>1. Taken(i) # {}
      BY <2>1, <2>5 DEF Taken
    <3>q. QED BY <2>1, <2>3, <2>4, <2>5, <3>1 DEF Ledger!Collect, InvoiceId
  <2>6. CASE told[p] = "failed" /\ ~MayTakeMoney(a)
    <3>1. ASSUME NEW b \in Request, InvOf(b) = i, psp[b] = "succeeded" PROVE FALSE
      <4>1. attempt[b] = "pending"
        BY <2>1, <3>1, MoneyIsAccountedFor DEF MayTakeMoney
      <4>2. b = a
        BY <2>1, <3>1, <4>1 DEF InvoicesInv
      <4>q. QED BY <2>6, <3>1, <4>2 DEF MayTakeMoney
    <3>2. Taken(i) = {}
      BY <3>1 DEF Taken
    <3>q. QED BY <2>1, <2>3, <2>4, <2>6, <3>2 DEF Ledger!Decline, InvoiceId
  <2>q. QED BY <2>2, <2>5, <2>6
<1>5. ASSUME NEW a \in Request, Decide(a)
      PROVE  \/ InvOf(a) \in Invoice /\ Ledger!Take(InvOf(a), a)
             \/ UNCHANGED Ledger!ledgerVars
  <2>1. /\ InvOf(a) \in Invoice /\ status[InvOf(a)] = "processing" /\ Taken(InvOf(a)) = {}
        /\ psp[a] = "processing"
    BY <1>5, TakenOnlyByOne DEF Decide, PspDecide, MayTakeMoney
  <2>2. ask' = ask /\ status' = status
    BY <1>5 DEF Decide, bookVars, actorVars
  <2>3. PICK answer \in {"succeeded", "failed"} : psp' = [psp EXCEPT ![a] = answer]
    BY <1>5 DEF Decide, PspDecide
  <2>4. CASE answer = "succeeded"
    <3>1. \A i \in Invoice : Taken(i)' = IF i = InvOf(a) THEN {a} ELSE Taken(i)
      BY <2>1, <2>2, <2>3, <2>4 DEF Taken, InvOf, PspTypeOK
    <3>2. tk' = [tk EXCEPT ![InvOf(a)] = {a}]
      BY <2>1, <3>1
    <3>q. QED BY <2>1, <2>2, <3>2 DEF Ledger!Take
  <2>5. CASE answer = "failed"
    <3>1. \A i \in Invoice : Taken(i)' = Taken(i)
      BY <2>1, <2>2, <2>3, <2>5 DEF Taken, InvOf, PspTypeOK
    <3>q. QED BY <2>2, <3>1
  <2>q. QED BY <2>3, <2>4, <2>5
<1>6. ASSUME UNCHANGED <<status, ask>>,
             \A a \in Request : psp'[a] = "succeeded" <=> psp[a] = "succeeded"
      PROVE  UNCHANGED Ledger!ledgerVars
  BY <1>6 DEF Taken, InvOf
<1>7. ASSUME NEW a \in Request, PspReceive(a), UNCHANGED <<bookVars, lockVars, actorVars>>
      PROVE  UNCHANGED Ledger!ledgerVars
  BY <1>6, <1>7 DEF PspReceive, MoneyInv, PspTypeOK, bookVars, actorVars
<1>8. \/ \E i \in Invoice : CreateInvoice(i) \/ VoidInvoice(i)
      \/ \E r \in Request : InsertAttempt(r)
      \/ \E p \in Actor : SettleCommit(p) /\ UNCHANGED pspVars
      \/ \E a \in Request : Decide(a)
      \/ \E a \in Request : PspReceive(a) /\ UNCHANGED <<bookVars, lockVars, actorVars>>
      \/ UNCHANGED <<status, ask, psp>>
  BY StepCases DEF Start, Reserve, KeyReused, KeyReplay, KeyAwaiting,
     BeginPayment, CasMissed, RefuseForNow, RefuseForGood, SendCharge, Send, ChargeSettled,
     ChargeIndeterminate, ReadAttempt, ReadInvoice, Abandon, Rollback, SettleClaim, SettleLost,
     ReadStored, ClaimDue, LookupSettled, LookupNoRecord, LookupInconclusive, Reschedule, Crash,
     PspLose, BecomesDue, GraceElapses, bookVars, actorVars, pspVars, vars
<1>9. ASSUME UNCHANGED <<status, ask, psp>> PROVE UNCHANGED Ledger!ledgerVars
  BY <1>6, <1>9
<1> HIDE DEF Ledger!ledgerVars, Ledger!Move, CoreInv, TypeOK, StoreTypeOK
<1>10. CASE \E i \in Invoice : CreateInvoice(i) \/ VoidInvoice(i)
  BY <1>1, <1>2, <1>10
<1>11. CASE \E r \in Request : InsertAttempt(r)
  <2>1. \E i \in Invoice : Ledger!Begin(i)
    BY <1>3, <1>11
  <2>q. QED BY <2>1
<1>12. CASE \E p \in Actor : SettleCommit(p) /\ UNCHANGED pspVars
  BY <1>4, <1>12
<1>13. CASE \E a \in Request : Decide(a)
  BY <1>5, <1>13
<1>q. QED BY <1>7, <1>8, <1>9, <1>10, <1>11, <1>12, <1>13

(* The payment flow implements InvoiceLedger: create, void, the claim and  *)
(* the settlement of payments.rs move the status as the ledger allows, and *)
(* the PSP takes money only for a processing invoice, once.                *)
THEOREM ImplementsLedger == Spec => RefinesLedger
<1>1. Init => Ledger!LedgerInit
  BY DEF Init, StoreInit, PspInit, Ledger!LedgerInit, Taken, InvoiceId
<1>2. CoreInv /\ [Next]_vars => [Ledger!LedgerNext]_(Ledger!ledgerVars)
  BY LedgerStep
<1>q. QED BY <1>1, <1>2, CoreInvariance, PTL DEF Spec, RefinesLedger, Ledger!LedgerSpec

====

------------------------ MODULE PaymentAnswersProofs ------------------------
(***************************************************************************)
(* Proofs about what Payments tells the outside: the answers of the pay    *)
(* requests, fresh, stored or read from pending_response, and the outbox.  *)
(* CoreInv, proved in PaymentsProofs, says how the books stand; AnswersInv *)
(* follows an answer from the stage that computes it to the reply.         *)
(***************************************************************************)
EXTENDS PaymentsProofs, SequenceTheorems

(* An attempt that exists goes on existing, and its outcome stays.         *)
LEMMA OutcomesStay ==
  ASSUME CoreInv, [Next]_vars
  PROVE  /\ ask' = ask
         /\ \A a \in Request : /\ attempt[a] # "none" => attempt'[a] # "none"
                               /\ Settled(a) => attempt'[a] = attempt[a]
<1>1. CASE UNCHANGED <<attempt, ask>>
  BY <1>1
<1>2. ASSUME NEW r \in Request, InsertAttempt(r)
      PROVE  /\ ask' = ask
             /\ \A a \in Request : /\ attempt[a] # "none" => attempt'[a] # "none"
                                   /\ Settled(a) => attempt'[a] = attempt[a]
  BY <1>2 DEF InsertAttempt, CoreInv, StagesInv, TypeOK, StoreTypeOK, Settled
<1>3. ASSUME NEW p \in Actor, SettleCommit(p)
      PROVE  /\ ask' = ask
             /\ \A a \in Request : /\ attempt[a] # "none" => attempt'[a] # "none"
                                   /\ Settled(a) => attempt'[a] = attempt[a]
  <2>1. /\ att[p] \in Request /\ attempt[att[p]] = "pending"
        /\ attempt' = [attempt EXCEPT ![att[p]] = told[p]]
        /\ told[p] \in {"succeeded", "failed"} /\ ask' = ask
    BY <1>3, SettleEffect
  <2>q. QED BY <2>1 DEF CoreInv, TypeOK, StoreTypeOK, Settled
<1>4. \/ UNCHANGED <<attempt, ask>>
      \/ \E r \in Request : InsertAttempt(r)
      \/ \E p \in Actor : SettleCommit(p)
  BY StepCases DEF CreateInvoice, VoidInvoice, Start, Reserve, KeyReused, KeyReplay,
     KeyAwaiting, BeginPayment, CasMissed, RefuseForNow, RefuseForGood, SendCharge,
     ChargeSettled, ChargeIndeterminate, ReadAttempt, ReadInvoice, Abandon, Rollback,
     SettleClaim, SettleLost, ReadStored, ClaimDue, LookupSettled, LookupNoRecord,
     LookupInconclusive, Reschedule, Crash, Decide, BecomesDue, GraceElapses, bookVars,
     actorVars, vars
<1>q. QED BY <1>1, <1>2, <1>3, <1>4

-----------------------------------------------------------------------------
(* The parts of AnswersInv *)

(* What a key holds for a request is true for every request that repeats   *)
(* it: the fingerprint is what makes the invoice the same.                 *)
LEMMA StoredAnswerIsTrue ==
  ASSUME CoreInv, RefusalsInv, NEW r \in Request, SameRequest(r)
  PROVE  LET row == idem[KeyOf(r)] IN
         /\ row.att # None => /\ row.att \in Request /\ attempt[row.att] # "none"
                              /\ KeyOf(row.att) = KeyOf(r) /\ InvOf(row.att) = InvOf(r)
         /\ AnswerIsTrue(r, row.resp)
<1> USE DEF CoreInv, TypeOK, StoreTypeOK, KeysInv, SettledHasStoredAnswer
<1> DEFINE row == idem[KeyOf(r)]
<1>1. KeyOf(r) \in Key /\ row.resp \in Answer /\ row.att \in Request \cup {None}
  BY AskTyped, RowsTyped
<1>2. CASE row.att = None
  <2>1. row.resp.att = None /\ row.resp.code \in {0, 404, 409}
    BY <1>1, <1>2 DEF RefusalsInv
  <2>2. AnswerIsTrue(r, row.resp)
    BY ONLY <2>1 DEF AnswerIsTrue
  <2>q. QED BY <1>2, <2>2
<1>3. CASE row.att # None
  <2>1. row.att \in Request /\ attempt[row.att] # "none" /\ KeyOf(row.att) = KeyOf(r)
    BY <1>1, <1>3
  <2>2. row.fp = FingerprintOf(row.att) /\ row.fp = FingerprintOf(r)
    BY <2>1 DEF SameRequest
  <2>3. InvOf(row.att) = InvOf(r)
    BY <2>2 DEF FingerprintOf, InvOf
  <2>4. attempt[row.att] \in AttemptStatus
    BY <2>1
  <2>5. row.resp = IF Settled(row.att)
                   THEN AttemptResponse(row.att, attempt[row.att], To(SettleTransition(attempt[row.att])))
                   ELSE NoAnswer
    BY <2>1
  <2>6. AnswerIsTrue(r, row.resp)
    BY <1>3, <2>1, <2>3, <2>4, <2>5 DEF AnswerIsTrue, AttemptResponse, NoAnswer, Settled, AttemptStatus
  <2>q. QED BY <2>1, <2>3, <2>6
<1>q. QED BY <1>2, <1>3

(* already_attempt_response finds a stored answer, and it is true for any  *)
(* request with the attempt's key and invoice.                             *)
LEMMA FoundAnswerIsTrue ==
  ASSUME CoreInv, NEW a \in Request, Settled(a), NEW r \in Request,
         KeyOf(a) = KeyOf(r), InvOf(a) = InvOf(r)
  PROVE  /\ \E k \in Key : idem[k].att = a /\ idem[k].resp # NoAnswer
         /\ \A k \in Key : idem[k].att = a => AnswerIsTrue(r, idem[k].resp)
<1> USE DEF CoreInv, TypeOK, StoreTypeOK, KeysInv, SettledHasStoredAnswer
<1>1. /\ KeyOf(a) \in Key /\ idem[KeyOf(a)].att = a
      /\ idem[KeyOf(a)].resp = AttemptResponse(a, attempt[a], To(SettleTransition(attempt[a])))
  BY AskTyped DEF Settled
<1>2. idem[KeyOf(a)].resp # NoAnswer
  BY <1>1 DEF Settled, AttemptResponse, NoAnswer
<1>3. \A k \in Key : idem[k].att = a => k = KeyOf(a)
  BY NoneIsNobody
<1>4. AnswerIsTrue(r, idem[KeyOf(a)].resp)
  BY <1>1, NoneIsNobody DEF Settled, AttemptResponse, AnswerIsTrue
<1>q. QED BY <1>1, <1>2, <1>3, <1>4

(* Whoever finishes, no one else's reply changes.                          *)
LEMMA FinishReplies ==
  ASSUME reply \in [Request -> Answer], NEW p \in Actor, NEW x, Finish(p, x), NEW r \in Request
  PROVE  reply'[r] = reply[r] \/ (r = p /\ reply'[r] = x)
BY DEF Finish

(* Every reply is, when it is given, true by the books as they stand then. *)
LEMMA RepliesStep ==
  ASSUME CoreInv, AnswersInv, [Next]_vars
  PROVE  RepliesInv'
<1> USE DEF CoreInv, TypeOK, StoreTypeOK, AnswersInv, Actor
<1>1. \A r \in Request : \A x \in Answer : AnswerIsTrue(r, x) => AnswerIsTrue(r, x)'
  <2>1. \A r \in Request : KeyOf(r)' = KeyOf(r) /\ InvOf(r)' = InvOf(r)
    BY OutcomesStay DEF KeyOf, InvOf
  <2>2. \A a \in Request : Settled(a) => attempt'[a] = attempt[a]
    BY OutcomesStay
  <2>q. QED BY <2>1, <2>2 DEF AnswerIsTrue, Answer, Settled
<1>a. ASSUME NEW r \in Request, NEW x \in Answer, Finish(r, x), AnswerIsTrue(r, x)
      PROVE  RepliesInv'
  <2>1. reply \in [Request -> Answer] /\ \A s \in Request : AnswerIsTrue(s, reply[s])
    BY DEF RepliesInv
  <2>2. AnswerIsTrue(r, x)'
    BY <1>1, <1>a
  <2>3. \A s \in Request : AnswerIsTrue(s, reply[s]) => \A y : y = reply[s] => AnswerIsTrue(s, y)'
    BY <1>1, <2>1
  <2>4. \A s \in Request : reply'[s] = reply[s] \/ (s = r /\ reply'[s] = x)
    BY <1>a, <2>1, FinishReplies
  <2>q. QED BY <2>1, <2>2, <2>3, <2>4 DEF RepliesInv
<1>2. ASSUME NEW r \in Request, KeyReused(r) PROVE RepliesInv'
  <2> DEFINE x == [code |-> 422, att |-> None, inv |-> "absent"]
  <2>1. Finish(r, x) /\ AnswerIsTrue(r, x) /\ x \in Answer
    BY <1>2, AnswersTyped DEF KeyReused, AnswerIsTrue
  <2>q. QED BY <1>a, <2>1
<1>3. ASSUME NEW r \in Request, KeyReplay(r) PROVE RepliesInv'
  <2> DEFINE x == idem[KeyOf(r)].resp
  <2>1. Finish(r, x) /\ AnswerIsTrue(r, x)
    BY <1>3, StoredAnswerIsTrue DEF KeyReplay
  <2>2. x \in Answer
    BY AskTyped, RowsTyped
  <2>q. QED BY <1>a, <2>1, <2>2
<1>4. ASSUME NEW r \in Request, RefuseForNow(r) \/ RefuseForGood(r) PROVE RepliesInv'
  <2> DEFINE x == Rejection(status[InvOf(r)])
  <2>1. Finish(r, x)
    BY <1>4 DEF RefuseForNow, RefuseForGood
  <2>2. x \in Answer /\ AnswerIsTrue(r, x)
    BY AskTyped, AnswersTyped DEF Rejection, AnswerIsTrue
  <2>q. QED BY <1>a, <2>1, <2>2
<1>5. ASSUME NEW r \in Request, ReadInvoice(r) PROVE RepliesInv'
  <2> DEFINE x == AttemptResponse(att[r], told[r], status[ask[att[r]].inv])
  <2>1. att[r] \in Request /\ KeyOf(att[r]) = KeyOf(r) /\ InvOf(att[r]) = InvOf(r)
    BY <1>5 DEF ReadInvoice, StagesInv, OwnAttempt
  <2>2. told[r] \in {"pending", attempt[att[r]]} \ {"none"}
    BY <1>5 DEF ReadInvoice, ReadIsTrue
  <2>3. Finish(r, x)
    BY <1>5 DEF ReadInvoice
  <2>4. x \in Answer
    BY <2>1, AskTyped, AnswersTyped DEF InvOf
  <2>5. AnswerIsTrue(r, x)
    BY <2>1, <2>2, NoneIsNobody DEF AttemptResponse, AnswerIsTrue
  <2>q. QED BY <1>a, <2>3, <2>4, <2>5
<1>6. ASSUME NEW p \in Actor, SettleCommit(p) PROVE RepliesInv'
  <2>1. /\ att[p] \in Request /\ told[p] \in {"succeeded", "failed"}
        /\ attempt' = [attempt EXCEPT ![att[p]] = told[p]]
    BY <1>6, SettleEffect
  <2>2. PICK x : /\ x = AttemptResponse(att[p], told[p], To(SettleTransition(told[p])))
                 /\ Finish(p, x)
    BY <1>6 DEF SettleCommit
  <2>3. x.att = att[p] /\ x.code = IF told[p] = "succeeded" THEN 200 ELSE 402
    BY <2>1, <2>2 DEF AttemptResponse
  <2>4. ASSUME p \in Request PROVE AnswerIsTrue(p, x)'
    <3>1. KeyOf(att[p]) = KeyOf(p) /\ InvOf(att[p]) = InvOf(p)
      BY <1>6, <2>4 DEF SettleCommit, OwnAttempt
    <3>2. attempt'[att[p]] = told[p]
      BY <2>1
    <3>3. \A r \in Request : KeyOf(r)' = KeyOf(r) /\ InvOf(r)' = InvOf(r)
      BY OutcomesStay DEF KeyOf, InvOf
    <3>q. QED BY <2>1, <2>3, <2>4, <3>1, <3>2, <3>3, NoneIsNobody DEF AnswerIsTrue
  <2>5. \A r \in Request : reply'[r] = reply[r] \/ (r = p /\ reply'[r] = x)
    BY <2>2, FinishReplies
  <2>q. QED BY <1>1, <2>4, <2>5 DEF RepliesInv
<1>7. ASSUME NEW p \in Actor, ReadStored(p) PROVE RepliesInv'
  <2>1. Settled(att[p]) /\ att[p] \in Request
    BY <1>7 DEF ReadStored, ReadIsTrue, StagesInv
  <2>2. CASE p \in Worker
    BY <1>1, <1>7, <2>2, ActorsAreDistinct DEF ReadStored, Finish, RepliesInv
  <2>3. CASE p \in Request
    <3>1. KeyOf(att[p]) = KeyOf(p) /\ InvOf(att[p]) = InvOf(p)
      BY <1>7, <2>3 DEF ReadStored, OwnAttempt
    <3>2. PICK k \in Key : idem[k].att = att[p] /\ Finish(p, idem[k].resp)
      BY <1>7, <2>1, <2>3, <3>1, FoundAnswerIsTrue DEF ReadStored
    <3>3. idem[k].resp \in Answer /\ AnswerIsTrue(p, idem[k].resp)
      BY <2>1, <2>3, <3>1, <3>2, FoundAnswerIsTrue, RowsTyped
    <3>q. QED BY <1>a, <2>3, <3>2, <3>3
  <2>q. QED BY <2>2, <2>3
<1>8. ASSUME UNCHANGED reply PROVE RepliesInv'
  BY <1>1, <1>8 DEF RepliesInv
<1>9. \/ \E r \in Request : \/ KeyReused(r) \/ KeyReplay(r) \/ RefuseForNow(r)
                             \/ RefuseForGood(r) \/ ReadInvoice(r)
      \/ \E p \in Actor : SettleCommit(p) \/ ReadStored(p)
      \/ UNCHANGED reply
  BY StepCases DEF CreateInvoice, VoidInvoice, Start, Reserve, KeyAwaiting, BeginPayment,
     CasMissed, InsertAttempt, SendCharge, ChargeSettled, ChargeIndeterminate, ReadAttempt,
     Abandon, Rollback, SettleClaim, SettleLost, ClaimDue, LookupSettled, LookupNoRecord,
     LookupInconclusive, Reschedule, Crash, Decide, BecomesDue, GraceElapses, actorVars, vars
<1> HIDE DEF CoreInv, TypeOK, StoreTypeOK, AnswersInv, Actor
<1>q. QED BY <1>2, <1>3, <1>4, <1>5, <1>6, <1>7, <1>8, <1>9

(* As far as control goes a step ends a handler or a pass, is one of the   *)
(* moves below, or moves no one.                                           *)
LEMMA ControlCases ==
  ASSUME TypeOK, [Next]_vars
  PROVE  \/ UNCHANGED <<pc, att, told>>
         \/ \E p \in Actor, l \in {"done", "idle", "gone"} : End(p, l)
         \/ \E r \in Request :
               \/ Start(r) \/ Reserve(r) \/ KeyAwaiting(r) \/ BeginPayment(r) \/ CasMissed(r)
               \/ InsertAttempt(r) \/ SendCharge(r) \/ ChargeSettled(r)
               \/ ChargeIndeterminate(r) \/ ReadAttempt(r)
         \/ \E p \in Actor : SettleClaim(p) \/ SettleLost(p)
         \/ \E w \in Worker :
               /\ pc'[w] # "stored"
               /\ \A p \in Actor \ {w} : pc'[p] = pc[p] /\ att'[p] = att[p] /\ told'[p] = told[p]
<1> DEFINE Ended == \E p \in Actor, l \in {"done", "idle", "gone"} : End(p, l)
<1>1. ASSUME NEW p \in Actor, NEW x, Finish(p, x) PROVE Ended
  BY <1>1 DEF Finish
<1>2. ASSUME NEW r \in Request, \/ KeyReused(r) \/ KeyReplay(r) \/ RefuseForNow(r)
                                \/ RefuseForGood(r) \/ ReadInvoice(r)
      PROVE  Ended
  BY <1>1, <1>2 DEF KeyReused, KeyReplay, RefuseForNow, RefuseForGood, ReadInvoice, Actor
<1>3. ASSUME NEW p \in Actor, SettleCommit(p) \/ ReadStored(p) PROVE Ended
  BY <1>1, <1>3 DEF SettleCommit, ReadStored
<1>4. ASSUME NEW r \in Request, Abandon(r) PROVE Ended
  BY <1>4 DEF Abandon, Rollback, Actor
<1>5. ASSUME NEW w \in Worker, Reschedule(w) \/ Crash(w) PROVE Ended
  BY <1>5 DEF Reschedule, Crash, Rollback, Actor
<1>6. ASSUME NEW w \in Worker,
             \/ \E a \in Request : ClaimDue(w, a)
             \/ LookupSettled(w) \/ LookupNoRecord(w) \/ LookupInconclusive(w)
      PROVE  /\ pc'[w] # "stored"
             /\ \A p \in Actor \ {w} : pc'[p] = pc[p] /\ att'[p] = att[p] /\ told'[p] = told[p]
  BY <1>6 DEF ClaimDue, LookupSettled, LookupNoRecord, LookupInconclusive, Goto, Actor,
     TypeOK, StoreTypeOK
<1>7. ASSUME \/ \E i \in Invoice : CreateInvoice(i) \/ VoidInvoice(i)
             \/ \E a \in Request : Decide(a) \/ BecomesDue(a) \/ GraceElapses(a)
             \/ UNCHANGED <<bookVars, lockVars, actorVars>> \/ UNCHANGED vars
      PROVE  UNCHANGED <<pc, att, told>>
  BY <1>7 DEF CreateInvoice, VoidInvoice, Decide, BecomesDue, GraceElapses, actorVars, vars
<1> HIDE DEF Ended
<1>8. Ended => \E p \in Actor, l \in {"done", "idle", "gone"} : End(p, l)
  BY DEF Ended
<1>q. QED BY StepCases, <1>2, <1>3, <1>4, <1>5, <1>6, <1>7, <1>8

(* Each handler works on an attempt of its own key and invoice: on its     *)
(* own, or on the one its key names.                                       *)
LEMMA OwnAttemptStep ==
  ASSUME CoreInv, AnswersInv, [Next]_vars
  PROVE  OwnAttempt'
<1> USE DEF CoreInv, TypeOK, StoreTypeOK, AnswersInv, Actor, OwnAttempt, KeyOf, InvOf
<1>1. ask' = ask
  BY OutcomesStay
<1>2. CASE UNCHANGED <<pc, att, told>>
  BY <1>1, <1>2
<1>3. ASSUME NEW p \in Actor, NEW l \in {"done", "idle", "gone"}, End(p, l) PROVE OwnAttempt'
  BY <1>1, <1>3 DEF End, Goto
<1>4. ASSUME NEW r \in Request, Start(r) \/ Reserve(r) \/ BeginPayment(r) \/ CasMissed(r)
      PROVE  OwnAttempt'
  BY <1>1, <1>4 DEF Start, Reserve, BeginPayment, CasMissed, Goto
<1>5. ASSUME NEW r \in Request, KeyAwaiting(r) PROVE OwnAttempt'
  <2>1. /\ pc' = [pc EXCEPT ![r] = "pending"] /\ att' = [att EXCEPT ![r] = idem[KeyOf(r)].att]
        /\ KeyOf(idem[KeyOf(r)].att) = KeyOf(r) /\ InvOf(idem[KeyOf(r)].att) = InvOf(r)
        /\ idem[KeyOf(r)].att \in Request
    BY <1>5, StoredAnswerIsTrue DEF KeyAwaiting, Goto
  <2>q. QED BY <1>1, <2>1 DEF StagesInv
<1>6. ASSUME NEW r \in Request, InsertAttempt(r) PROVE OwnAttempt'
  BY <1>1, <1>6 DEF InsertAttempt, Goto, StagesInv
<1>7. ASSUME NEW r \in Request, SendCharge(r) \/ ChargeSettled(r) \/ ChargeIndeterminate(r)
                                \/ ReadAttempt(r)
      PROVE  OwnAttempt'
  BY <1>1, <1>7 DEF SendCharge, ChargeSettled, ChargeIndeterminate, ReadAttempt, Goto, StagesInv
<1>8. ASSUME NEW p \in Actor, SettleClaim(p) \/ SettleLost(p) PROVE OwnAttempt'
  <2>1. /\ pc[p] = "settle" /\ att' = att
        /\ pc' = [pc EXCEPT ![p] = "settling"] \/ pc' = [pc EXCEPT ![p] = "stored"]
    BY <1>8 DEF SettleClaim, SettleLost, Goto
  <2>q. QED BY <1>1, <2>1 DEF StagesInv
<1>9. ASSUME NEW w \in Worker,
             \A p \in Actor \ {w} : pc'[p] = pc[p] /\ att'[p] = att[p] /\ told'[p] = told[p]
      PROVE  OwnAttempt'
  <2>1. \A r \in Request : r \in Actor \ {w}
    BY ActorsAreDistinct
  <2>2. \A r \in Request : pc'[r] = pc[r] /\ att'[r] = att[r]
    BY <1>9, <2>1
  <2>q. QED BY ONLY <1>1, <2>2, OwnAttempt DEF OwnAttempt, KeyOf, InvOf
<1> HIDE DEF CoreInv, StoreTypeOK, AnswersInv, Actor, OwnAttempt, KeyOf, InvOf
<1>10. TypeOK
  BY DEF CoreInv
<1> HIDE DEF TypeOK
<1>q. QED BY ControlCases, <1>2, <1>3, <1>4, <1>5, <1>6, <1>7, <1>8, <1>9, <1>10

(* What pending_response has read of a settled attempt stays so, and only  *)
(* a settler that found its attempt settled looks for the stored answer.   *)
LEMMA ReadIsTrueStep ==
  ASSUME CoreInv, AnswersInv, [Next]_vars
  PROVE  ReadIsTrue'
<1> USE DEF CoreInv, TypeOK, StoreTypeOK, AnswersInv, Actor, ReadIsTrue, Settled
<1>1. \A a \in Request : /\ attempt[a] # "none" => attempt'[a] # "none"
                         /\ Settled(a) => attempt'[a] = attempt[a]
  BY OutcomesStay
<1>2. \A p \in Actor : pc[p] \in {"invoice", "stored"} => att[p] \in Request /\ attempt[att[p]] # "none"
  BY DEF StagesInv
<1>3. ASSUME NEW p \in Actor,
             pc'[p] = pc[p], att'[p] = att[p], told'[p] = told[p]
      PROVE  /\ p \in Request /\ pc'[p] = "invoice" => told'[p] \in {"pending", attempt'[att'[p]]} \ {"none"}
             /\ pc'[p] = "stored" => attempt'[att'[p]] \in {"succeeded", "failed"}
  <2>1. CASE pc[p] = "stored"
    <3>1. att[p] \in Request /\ Settled(att[p])
      BY <1>2, <2>1
    <3>2. attempt'[att[p]] = attempt[att[p]]
      BY ONLY <1>1, <3>1
    <3>q. QED BY ONLY <1>3, <2>1, <3>1, <3>2 DEF Settled
  <2>2. CASE pc[p] = "invoice" /\ p \in Request
    <3>1. att[p] \in Request /\ told[p] \in {"pending", attempt[att[p]]} \ {"none"}
      BY <1>2, <2>2
    <3>2. told[p] = "pending" \/ Settled(att[p])
      BY <3>1 DEF AttemptStatus
    <3>3. told[p] # "pending" => attempt'[att[p]] = told[p]
      BY ONLY <1>1, <3>1, <3>2 DEF Settled
    <3>q. QED BY ONLY <1>3, <2>2, <3>1, <3>3
  <2>q. QED BY ONLY <1>3, <2>1, <2>2
<1>4. ASSUME NEW p \in Actor,
             \A q \in Actor \ {p} : pc'[q] = pc[q] /\ att'[q] = att[q] /\ told'[q] = told[q],
             pc'[p] \notin {"invoice", "stored"}
      PROVE  ReadIsTrue'
  <2>1. \A q \in Actor : pc'[q] \in {"invoice", "stored"} =>
           pc'[q] = pc[q] /\ att'[q] = att[q] /\ told'[q] = told[q]
    BY <1>4
  <2>2. \A r \in Request : r \in Actor
    OBVIOUS
  <2>q. QED BY ONLY <1>3, <2>1, <2>2 DEF ReadIsTrue, Settled
<1>5. CASE UNCHANGED <<pc, att, told>>
  <2>1. \A r \in Request : r \in Actor
    OBVIOUS
  <2>q. QED BY ONLY <1>3, <1>5, <2>1 DEF ReadIsTrue, Settled
<1>6. ASSUME NEW p \in Actor, NEW l \in {"done", "idle", "gone"}, End(p, l) PROVE ReadIsTrue'
  <2>1. /\ pc'[p] = l
        /\ \A q \in Actor \ {p} : pc'[q] = pc[q] /\ att'[q] = att[q] /\ told'[q] = told[q]
    BY <1>6 DEF End, Goto
  <2>q. QED BY <1>4, <2>1
<1>7. ASSUME NEW r \in Request,
             \/ Start(r) \/ Reserve(r) \/ KeyAwaiting(r) \/ BeginPayment(r) \/ CasMissed(r)
             \/ InsertAttempt(r) \/ SendCharge(r) \/ ChargeSettled(r) \/ ChargeIndeterminate(r)
      PROVE  ReadIsTrue'
  <2>1. /\ pc'[r] \notin {"invoice", "stored"}
        /\ \A q \in Actor \ {r} : pc'[q] = pc[q] /\ att'[q] = att[q] /\ told'[q] = told[q]
    BY <1>7 DEF Start, Reserve, KeyAwaiting, BeginPayment, CasMissed, InsertAttempt, SendCharge,
       ChargeSettled, ChargeIndeterminate, Goto
  <2>q. QED BY <1>4, <2>1
<1>8. ASSUME NEW r \in Request, ReadAttempt(r) PROVE ReadIsTrue'
  <2>1. /\ att[r] \in Request /\ attempt[att[r]] # "none"
        /\ pc' = [pc EXCEPT ![r] = "invoice"] /\ told' = [told EXCEPT ![r] = attempt[att[r]]]
        /\ UNCHANGED <<att, attempt>>
    BY <1>8 DEF ReadAttempt, Goto, StagesInv, bookVars
  <2>q. QED BY <2>1
<1>9. ASSUME NEW p \in Actor, SettleClaim(p) PROVE ReadIsTrue'
  <2>1. /\ pc'[p] = "settling"
        /\ \A q \in Actor \ {p} : pc'[q] = pc[q] /\ att'[q] = att[q] /\ told'[q] = told[q]
    BY <1>9 DEF SettleClaim, Goto
  <2>q. QED BY <1>4, <2>1
<1>10. ASSUME NEW p \in Actor, SettleLost(p) PROVE ReadIsTrue'
  <2>1. /\ att[p] \in Request /\ attempt[att[p]] \notin {"none", "pending"}
        /\ pc' = [pc EXCEPT ![p] = "stored"] /\ UNCHANGED <<att, attempt, told>>
    BY <1>10 DEF SettleLost, Goto, StagesInv, bookVars
  <2>2. Settled(att[p])
    BY <2>1 DEF AttemptStatus
  <2>q. QED BY <2>1, <2>2
<1>11. ASSUME NEW w \in Worker, pc'[w] # "stored",
              \A p \in Actor \ {w} : pc'[p] = pc[p] /\ att'[p] = att[p] /\ told'[p] = told[p]
       PROVE  ReadIsTrue'
  <2>1. w \notin Request
    BY ActorsAreDistinct
  <2>2. \A p \in Actor : pc'[p] \in {"invoice", "stored"} =>
           p = w \/ (pc'[p] = pc[p] /\ att'[p] = att[p] /\ told'[p] = told[p])
    BY <1>11
  <2>3. \A r \in Request : r \in Actor
    OBVIOUS
  <2>q. QED BY ONLY <1>3, <1>11, <2>1, <2>2, <2>3 DEF ReadIsTrue, Settled
<1> HIDE DEF CoreInv, StoreTypeOK, AnswersInv, Actor, ReadIsTrue, Settled
<1>12. TypeOK
  BY DEF CoreInv
<1> HIDE DEF TypeOK
<1>q. QED BY ControlCases, <1>5, <1>6, <1>7, <1>8, <1>9, <1>10, <1>11, <1>12

(* A key without an attempt keeps the refusal it was given.                *)
LEMMA RefusalsStep ==
  ASSUME CoreInv, AnswersInv, [Next]_vars
  PROVE  RefusalsInv'
<1> USE DEF CoreInv, TypeOK, StoreTypeOK, AnswersInv, RefusalsInv
<1>1. CASE UNCHANGED idem
  BY <1>1
<1>2. ASSUME NEW r \in Request, RefuseForGood(r) PROVE RefusalsInv'
  <2>1. PICK x : /\ x = Rejection(status[InvOf(r)])
                 /\ idem' = [idem EXCEPT ![KeyOf(r)] = [fp |-> FingerprintOf(r), att |-> None, resp |-> x]]
    BY <1>2 DEF RefuseForGood
  <2>2. x.att = None /\ x.code \in {404, 409}
    BY <2>1 DEF Rejection
  <2>q. QED BY <2>1, <2>2
<1>3. ASSUME NEW r \in Request, InsertAttempt(r) PROVE RefusalsInv'
  BY <1>3, NoneIsNobody DEF InsertAttempt, ClaimedRow
<1>4. ASSUME NEW p \in Actor, SettleCommit(p) PROVE RefusalsInv'
  <2>1. PICK x : att[p] \in Request /\ idem' = CompleteForAttempt(att[p], x)
    BY <1>4, SettleEffect
  <2>2. \A k \in Key : LET row == idem'[k] IN
           row.att = idem[k].att /\ (idem[k].att # att[p] => row = idem[k])
    BY <2>1, CompletionEffect
  <2>3. att[p] # None
    BY <2>1, NoneIsNobody
  <2>q. QED BY ONLY <2>2, <2>3, RefusalsInv DEF RefusalsInv
<1>5. \/ UNCHANGED idem
      \/ \E r \in Request : RefuseForGood(r) \/ InsertAttempt(r)
      \/ \E p \in Actor : SettleCommit(p)
  BY StepCases DEF CreateInvoice, VoidInvoice, Start, Reserve, KeyReused, KeyReplay,
     KeyAwaiting, BeginPayment, CasMissed, RefuseForNow, SendCharge, ChargeSettled,
     ChargeIndeterminate, ReadAttempt, ReadInvoice, Abandon, Rollback, SettleClaim, SettleLost,
     ReadStored, ClaimDue, LookupSettled, LookupNoRecord, LookupInconclusive, Reschedule, Crash,
     Decide, BecomesDue, GraceElapses, bookVars, vars
<1>q. QED BY <1>1, <1>2, <1>3, <1>4, <1>5

-----------------------------------------------------------------------------
(* The theorems on answers *)

(* IInv is inductive, CoreInv and what it says of the answers together: in *)
(* every reachable state of the payment flow the books are in order and    *)
(* what handlers have read, stored and replied agrees with them.           *)
THEOREM Invariance == Spec => []IInv
<1>1. Init => AnswersInv
  BY DEF Init, StoreInit, AnswersInv, OwnAttempt, ReadIsTrue, RefusalsInv, RepliesInv, AnswerIsTrue,
     NoRow, NoAnswer, Actor
<1>2. IInv /\ [Next]_vars => IInv'
  BY StepIsSafe, OwnAttemptStep, ReadIsTrueStep, RefusalsStep, RepliesStep DEF IInv, AnswersInv
<1>3. Init => IInv
  BY <1>1, InitIsSafe DEF IInv
<1>q. QED BY <1>2, <1>3, PTL DEF Spec

(* What a client is told of its payment stays true, over the fresh, the    *)
(* stored and the pending_response path: 200 means that its own invoice is *)
(* paid and the money taken, 402 that the attempt failed and never takes   *)
(* money; already_attempt_response never ends in a 500.                    *)
THEOREM ClientsAreToldTheTruth == Spec => []AnswersAreTrue
<1>1. ASSUME IInv, NEW r \in Request
      PROVE  LET a == reply[r].att IN
             /\ a # None => KeyOf(a) = KeyOf(r) /\ InvOf(a) = InvOf(r)
             /\ reply[r].code = 200 => psp[a] = "succeeded" /\ status[InvOf(r)] = "paid"
             /\ reply[r].code = 402 => attempt[a] = "failed" /\ ~MayTakeMoney(a)
             /\ reply[r].code # 500
  <2> DEFINE a == reply[r].att
  <2>1. AnswerIsTrue(r, reply[r]) /\ (a # None => a \in Request)
    BY <1>1 DEF IInv, AnswersInv, RepliesInv, CoreInv, TypeOK, StoreTypeOK, Answer
  <2>2. \A b \in Request : /\ attempt[b] = "succeeded" => psp[b] = "succeeded" /\ status[InvOf(b)] = "paid"
                           /\ attempt[b] = "failed" => ~MayTakeMoney(b)
    BY <1>1 DEF IInv, CoreInv, MoneyInv, InvoicesInv
  <2>q. QED BY <2>1, <2>2 DEF AnswerIsTrue
<1>2. IInv => AnswersAreTrue
  BY <1>1 DEF AnswersAreTrue
<1>q. QED BY <1>2, Invariance, PTL

(* Two requests with one Idempotency-Key that are both told an outcome are *)
(* told the same one, of the same attempt, by whichever path.              *)
THEOREM RetriesAlwaysAgree == Spec => []RetriesAgree
<1>1. ASSUME IInv, NEW r \in Request, NEW s \in Request, KeyOf(r) = KeyOf(s),
             reply[r].code \in {200, 402}, reply[s].code \in {200, 402}
      PROVE  reply[r].code = reply[s].code /\ reply[r].att = reply[s].att
  <2> DEFINE a == reply[r].att
             b == reply[s].att
  <2>1. a \in Request /\ KeyOf(a) = KeyOf(r) /\ attempt[a] = IF reply[r].code = 200 THEN "succeeded" ELSE "failed"
    BY <1>1 DEF IInv, AnswersInv, RepliesInv, AnswerIsTrue, CoreInv, TypeOK, StoreTypeOK, Answer
  <2>2. b \in Request /\ KeyOf(b) = KeyOf(s) /\ attempt[b] = IF reply[s].code = 200 THEN "succeeded" ELSE "failed"
    BY <1>1 DEF IInv, AnswersInv, RepliesInv, AnswerIsTrue, CoreInv, TypeOK, StoreTypeOK, Answer
  <2>3. a = b
    BY <1>1, <2>1, <2>2 DEF IInv, CoreInv, KeysInv, SettledHasStoredAnswer
  <2>q. QED BY <1>1, <2>1, <2>2, <2>3
<1>2. IInv => RetriesAgree
  BY <1>1 DEF RetriesAgree
<1>q. QED BY <1>2, Invariance, PTL

-----------------------------------------------------------------------------
(* The theorem on the outbox *)

(* One more event: the earlier ones stay where they are.                   *)
LEMMA OneMoreEvent ==
  ASSUME NEW s \in Seq(Event), NEW e \in Event
  PROVE  LET t == Append(s, e) n == Len(s) + 1 IN
         /\ t # <<>> /\ Len(t) = n /\ t[n] = e
         /\ DOMAIN t = DOMAIN s \cup {n} /\ n \notin DOMAIN s
         /\ \A m \in DOMAIN s : t[m] = s[m]
<1> DEFINE t == Append(s, e)
           n == Len(s) + 1
<1>1. /\ t \in Seq(Event) /\ t # <<>> /\ Len(t) = n /\ t[n] = e
      /\ \A m \in 1..Len(s) : t[m] = s[m]
  BY AppendProperties
<1>2. DOMAIN s = 1..Len(s) /\ Len(s) \in Nat /\ DOMAIN t = 1..Len(t)
  BY <1>1, LenProperties
<1>q. QED BY <1>1, <1>2

(* What an invoice's log says is kept by a step that adds nothing to it,   *)
(* settles no attempt of it and moves it into or out of no final status.   *)
LEMMA StoryStays ==
  ASSUME CoreInv, NEW i \in Invoice, ask' = ask, log'[i] = log[i],
         \A a \in Request : InvOf(a) = i =>
            /\ Settled(a) => attempt'[a] = attempt[a]
            /\ ~Settled(a) => attempt'[a] \notin {"succeeded", "failed"},
         \A s \in Terminal : status'[i] = s <=> status[i] = s,
         OutcomesTold(i),
         status[i] = "paid" <=> LastIs(i, "invoice.paid"),
         status[i] = "void" <=> LastIs(i, "invoice.voided")
  PROVE  /\ OutcomesTold(i)'
         /\ status'[i] = "paid" <=> LastIs(i, "invoice.paid")'
         /\ status'[i] = "void" <=> LastIs(i, "invoice.voided")'
<1>1. \A a \in Request : InvOf(a)' = InvOf(a) /\ ToldOf(i, a)' = ToldOf(i, a)
  BY DEF InvOf, ToldOf
<1>2. OutcomesTold(i)'
  BY <1>1 DEF OutcomesTold, Settled
<1>q. QED BY <1>2 DEF LastIs, Terminal

(* An event that settles a, or no attempt, takes the story one step on.    *)
LEMMA StoryGoesOn ==
  ASSUME CoreInv, NEW i \in Invoice, NEW type \in EventType, NEW a \in Request \cup {None},
         Record(i, type, a), ask' = ask, OutcomesTold(i),
         \A b \in Request : InvOf(b) = i /\ b # a => attempt'[b] = attempt[b],
         a \in Request =>
            /\ ~Settled(a)
            /\ attempt'[a] \in {"succeeded", "failed"}
            /\ type = IF attempt'[a] = "succeeded" THEN "invoice.paid" ELSE "invoice.payment_failed"
  PROVE  OutcomesTold(i)' /\ \A t : LastIs(i, t)' <=> t = type
<1> USE DEF CoreInv, TypeOK, StoreTypeOK, InvoiceId
<1> DEFINE e == [type |-> type, att |-> a]
           n == Len(log[i]) + 1
<1>1. log[i] \in Seq(Event) /\ e \in Event /\ log'[i] = Append(log[i], e)
  BY DEF Record, Event
<1>2. /\ log'[i] # <<>> /\ Len(log'[i]) = n /\ log'[i][n] = e
      /\ DOMAIN log'[i] = DOMAIN log[i] \cup {n} /\ n \notin DOMAIN log[i]
      /\ \A m \in DOMAIN log[i] : log'[i][m] = log[i][m]
  BY <1>1, OneMoreEvent
<1>3. e.type = type /\ e.att = a
  OBVIOUS
<1> HIDE DEF e, n
<1>4. \A t : LastIs(i, t)' <=> t = type
  BY <1>2, <1>3 DEF LastIs
<1>5. \A b \in Request : InvOf(b)' = InvOf(b)
  BY DEF InvOf
<1>6. \A b : b # a => ToldOf(i, b)' = ToldOf(i, b)
  BY ONLY <1>2, <1>3 DEF ToldOf
<1>7. ToldOf(i, a) = {} => ToldOf(i, a)' = {n}
  BY ONLY <1>2, <1>3 DEF ToldOf
<1>8. ASSUME NEW b \in Request, InvOf(b) = i, b # a
      PROVE  IF Settled(b)' THEN \E m \in DOMAIN log'[i] :
                                   /\ ToldOf(i, b)' = {m}
                                   /\ log'[i][m].type = (IF attempt'[b] = "succeeded" THEN "invoice.paid"
                                                         ELSE "invoice.payment_failed")
                           ELSE ToldOf(i, b)' = {}
  <2>1. attempt'[b] = attempt[b] /\ ToldOf(i, b)' = ToldOf(i, b)
    BY <1>6, <1>8
  <2>q. QED BY ONLY <1>2, <1>8, <2>1, OutcomesTold(i) DEF OutcomesTold, Settled
<1>9. ASSUME a \in Request, InvOf(a) = i
      PROVE  Settled(a)' /\ ToldOf(i, a)' = {n} /\ n \in DOMAIN log'[i]
             /\ log'[i][n].type = (IF attempt'[a] = "succeeded" THEN "invoice.paid"
                                   ELSE "invoice.payment_failed")
  BY <1>2, <1>3, <1>7, <1>9 DEF OutcomesTold, Settled
<1>10. OutcomesTold(i)'
  BY ONLY <1>5, <1>8, <1>9 DEF OutcomesTold
<1>q. QED BY <1>4, <1>10

LEMMA OutboxStep ==
  ASSUME CoreInv, OutboxTellsTheStory, [Next]_vars
  PROVE  OutboxTellsTheStory'
<1> DEFINE Kept(i) == /\ log'[i] = log[i]
                      /\ \A a \in Request : InvOf(a) = i =>
                            /\ Settled(a) => attempt'[a] = attempt[a]
                            /\ ~Settled(a) => attempt'[a] \notin {"succeeded", "failed"}
                      /\ \A s \in Terminal : status'[i] = s <=> status[i] = s
           Told(i) == /\ OutcomesTold(i)
                      /\ status[i] = "paid" <=> LastIs(i, "invoice.paid")
                      /\ status[i] = "void" <=> LastIs(i, "invoice.voided")
<1> USE DEF CoreInv, TypeOK, StoreTypeOK, InvoiceId
<1>0. ask' = ask
  BY OutcomesStay
<1>1. \A i \in Invoice : Told(i)
  BY DEF OutboxTellsTheStory
<1>2. \A i \in Invoice : Kept(i) => Told(i)'
  BY <1>0, <1>1, StoryStays
<1>3. ASSUME NEW j \in Invoice, Told(j)', \A i \in Invoice \ {j} : Kept(i)
      PROVE  OutboxTellsTheStory'
  <2>1. \A i \in Invoice : Told(i)'
    BY <1>2, <1>3
  <2>q. QED BY <2>1 DEF OutboxTellsTheStory
<1>4. ASSUME NEW j \in Invoice, CreateInvoice(j) PROVE OutboxTellsTheStory'
  <2>1. Record(j, "invoice.created", None) /\ status' = [status EXCEPT ![j] = "open"] /\ attempt' = attempt
    BY <1>4 DEF CreateInvoice
  <2>2. OutcomesTold(j)' /\ \A t : LastIs(j, t)' <=> t = "invoice.created"
    BY <1>0, <1>1, <2>1, StoryGoesOn, NoneIsNobody DEF EventType
  <2>3. \A i \in Invoice \ {j} : Kept(i)
    BY <2>1 DEF Record, Settled
  <2>4. status'[j] = "open"
    BY <2>1
  <2>5. Told(j)'
    BY ONLY <2>2, <2>4
  <2>q. QED BY <1>3, <2>3, <2>5
<1>5. ASSUME NEW j \in Invoice, VoidInvoice(j) PROVE OutboxTellsTheStory'
  <2>1. Record(j, "invoice.voided", None) /\ status' = [status EXCEPT ![j] = "void"] /\ attempt' = attempt
    BY <1>5 DEF VoidInvoice, To
  <2>2. OutcomesTold(j)' /\ \A t : LastIs(j, t)' <=> t = "invoice.voided"
    BY <1>0, <1>1, <2>1, StoryGoesOn, NoneIsNobody DEF EventType
  <2>3. \A i \in Invoice \ {j} : Kept(i)
    BY <2>1 DEF Record, Settled
  <2>4. status'[j] = "void"
    BY <2>1
  <2>5. Told(j)'
    BY ONLY <2>2, <2>4
  <2>q. QED BY <1>3, <2>3, <2>5
<1>6. ASSUME NEW p \in Actor, SettleCommit(p) PROVE OutboxTellsTheStory'
  <2>0. att[p] \in Request /\ InvOf(att[p]) \in Invoice /\ told[p] \in {"succeeded", "failed"}
    BY <1>6, SettleEffect DEF StagesInv
  <2> PICK a \in Request, j \in Invoice, outcome \in {"succeeded", "failed"} :
           a = att[p] /\ j = InvOf(a) /\ outcome = told[p]
    BY <2>0
  <2> DEFINE type == IF outcome = "succeeded" THEN "invoice.paid" ELSE "invoice.payment_failed"
             to == IF outcome = "succeeded" THEN "paid" ELSE "open"
  <2>1. /\ attempt[a] = "pending" /\ status[j] = "processing"
        /\ status' = [status EXCEPT ![j] = to] /\ attempt' = [attempt EXCEPT ![a] = outcome]
    BY <1>6, SettleEffect
  <2>2. Record(j, type, a)
    BY <1>6 DEF SettleCommit, SettleEvent, InvOf
  <2>3. type \in EventType
    BY DEF EventType
  <2>4. attempt'[a] = outcome /\ ~Settled(a) /\ \A b \in Request : b # a => attempt'[b] = attempt[b]
    BY <2>1 DEF Settled
  <2>5. OutcomesTold(j)' /\ \A t : LastIs(j, t)' <=> t = type
    BY <1>0, <1>1, <2>1, <2>2, <2>3, <2>4, StoryGoesOn
  <2>6. \A i \in Invoice \ {j} : Kept(i)
    <3>1. \A i \in Invoice \ {j} : log'[i] = log[i] /\ status'[i] = status[i]
      BY <2>1, <2>2 DEF Record
    <3>2. \A b \in Request : InvOf(b) # j => b # a
      OBVIOUS
    <3>q. QED BY ONLY <2>4, <3>1, <3>2 DEF Settled, Kept
  <2>7. status'[j] = to
    BY <2>1
  <2>8. Told(j)'
    BY ONLY <2>5, <2>7
  <2>q. QED BY <1>3, <2>1, <2>6, <2>8
<1>7. ASSUME \A i \in Invoice : Kept(i) PROVE OutboxTellsTheStory'
  BY <1>2, <1>7 DEF OutboxTellsTheStory
<1>8. ASSUME NEW r \in Request, InsertAttempt(r) PROVE \A i \in Invoice : Kept(i)
  <2>1. /\ log' = log /\ status[InvOf(r)] = "open" /\ status' = [status EXCEPT ![InvOf(r)] = "processing"]
        /\ attempt[r] = "none" /\ attempt' = [attempt EXCEPT ![r] = "pending"]
    BY <1>8 DEF InsertAttempt, LocksInv, StagesInv, Actor, To
  <2>q. QED BY <2>1 DEF Settled, Terminal
<1>9. ASSUME UNCHANGED <<log, status, attempt>> PROVE \A i \in Invoice : Kept(i)
  BY <1>9 DEF Settled
<1>10. \/ \E i \in Invoice : CreateInvoice(i) \/ VoidInvoice(i)
       \/ \E p \in Actor : SettleCommit(p)
       \/ \E r \in Request : InsertAttempt(r)
       \/ UNCHANGED <<log, status, attempt>>
  BY StepCases DEF Start, Reserve, KeyReused, KeyReplay, KeyAwaiting, BeginPayment, CasMissed,
     RefuseForNow, RefuseForGood, SendCharge, ChargeSettled, ChargeIndeterminate, ReadAttempt,
     ReadInvoice, Abandon, Rollback, SettleClaim, SettleLost, ReadStored, ClaimDue,
     LookupSettled, LookupNoRecord, LookupInconclusive, Reschedule, Crash, Decide, BecomesDue,
     GraceElapses, bookVars, vars
<1>q. QED BY ONLY <1>4, <1>5, <1>6, <1>7, <1>8, <1>9, <1>10

(* The outbox is true of every invoice in every reachable state: each      *)
(* settled attempt is announced exactly once and with its outcome, no      *)
(* other attempt is, and the last event is the one the final status means: *)
(* events::record runs in the transaction of the change, and settle_attempt*)
(* commits once per attempt.                                               *)
THEOREM OutboxIsTrue == Spec => []OutboxTellsTheStory
<1>1. Init => OutboxTellsTheStory
  <2>1. Init => \A i \in Invoice : log[i] = <<>> /\ status[i] = "absent"
    BY DEF Init, StoreInit, InvoiceId
  <2>2. Init => \A a \in Request : ~Settled(a)
    BY DEF Init, StoreInit, Settled
  <2>3. DOMAIN <<>> = {}
    OBVIOUS
  <2>q. QED BY <2>1, <2>2, <2>3 DEF OutboxTellsTheStory, OutcomesTold, ToldOf, LastIs
<1>2. CoreInv /\ OutboxTellsTheStory /\ [Next]_vars => OutboxTellsTheStory'
  BY OutboxStep
<1>q. QED BY <1>1, <1>2, CoreInvariance, PTL DEF Spec

=============================================================================

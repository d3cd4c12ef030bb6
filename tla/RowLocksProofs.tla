--------------------------- MODULE RowLocksProofs ---------------------------
(***************************************************************************)
(* For any number of tasks, attempts, deliveries and connections: the      *)
(* transactions never wait for each other in a circle, because they take   *)
(* their locks in one order, and the index on attempts in flight is never  *)
(* what refuses an attempt.  By the induction of IInv.                     *)
(***************************************************************************)
EXTENDS RowLocks, SequenceTheorems, FiniteSetTheorems, TLAPS

(* Rows of different tables, or of different ids, are different. *)
LEMMA RowsDiffer ==
  /\ Business[1] = "business" /\ Customer[1] = "customer" /\ Invoice[1] = "invoice"
  /\ Endpoint[1] = "endpoint" /\ ApiKey[1] = "api_key"
  /\ \A x : Row(x)[1] = "row" /\ Row(x)[2] = x
  /\ \A x : Key(x)[1] = "idempotency_key" /\ Key(x)[2] = x
BY DEF Business, Customer, Invoice, Endpoint, ApiKey, Row, Key

-----------------------------------------------------------------------------
(* The programs, statement by statement *)

LEMMA CreateInvoiceText ==
  /\ Len(CreateInvoice) = 6 /\ After(CreateInvoice, 0) = CreateInvoice
  /\ CreateInvoice[1] = Begin
  /\ CreateInvoice[2] = References({Business, Customer})
  /\ CreateInvoice[3] = Lock({Business}, "row")
  /\ CreateInvoice[4] = References({Business})
  /\ CreateInvoice[5] = References({Endpoint})
  /\ CreateInvoice[6] = Commit
BY DEF CreateInvoice, Record, After

LEMMA VoidInvoiceText ==
  /\ Len(VoidInvoice) = 6 /\ After(VoidInvoice, 0) = VoidInvoice
  /\ VoidInvoice[1] = Begin
  /\ VoidInvoice[2] = CompareAndSet(Invoice, {"open"}, "void", Always(<<Rollback>>))
  /\ VoidInvoice[3] = Lock({Business}, "row")
  /\ VoidInvoice[4] = References({Business})
  /\ VoidInvoice[5] = References({Endpoint})
  /\ VoidInvoice[6] = Commit
BY DEF VoidInvoice, Record, After

LEMMA ClaimInvoiceText ==
  ASSUME NEW a
  PROVE  /\ Len(ClaimInvoice(a)) = 7 /\ After(ClaimInvoice(a), 0) = ClaimInvoice(a)
         /\ ClaimInvoice(a)[1] = Begin
         /\ ClaimInvoice(a)[2] = Insert(Key(a), {Key(a)})
         /\ ClaimInvoice(a)[3] = References({Business})
         /\ ClaimInvoice(a)[4] = BeginPayment
         /\ ClaimInvoice(a)[5] = Insert(Row(a), AttemptRows)
         /\ ClaimInvoice(a)[6] = References({Business, Invoice})
         /\ ClaimInvoice(a)[7] = Commit
BY DEF ClaimInvoice, After

LEMMA SettleAttemptText ==
  ASSUME NEW a, NEW to
  PROVE  /\ Len(SettleAttempt(a, to)) = 8 /\ After(SettleAttempt(a, to), 0) = SettleAttempt(a, to)
         /\ SettleAttempt(a, to)[1] = Begin
         /\ SettleAttempt(a, to)[2] = CompareAndSet(Row(a), {"pending"}, "settled", Always(AlreadySettled))
         /\ SettleAttempt(a, to)[3] = CompareAndSet(Invoice, {"processing"}, to, Always(<<Rollback>>))
         /\ SettleAttempt(a, to)[4] = Lock({Business}, "row")
         /\ SettleAttempt(a, to)[5] = References({Business})
         /\ SettleAttempt(a, to)[6] = References({Endpoint})
         /\ SettleAttempt(a, to)[7] = Lock({Key(a)}, "row")
         /\ SettleAttempt(a, to)[8] = Commit
BY DEF SettleAttempt, Record, After

LEMMA CreateEndpointText ==
  /\ Len(CreateEndpoint) = 4 /\ After(CreateEndpoint, 0) = CreateEndpoint
  /\ CreateEndpoint[1] = Begin
  /\ CreateEndpoint[2] = Lock({Endpoint}, "insert")
  /\ CreateEndpoint[3] = References({Business})
  /\ CreateEndpoint[4] = Commit
BY DEF CreateEndpoint, After

LEMMA DisableEndpointText ==
  /\ Len(DisableEndpoint) = 4 /\ After(DisableEndpoint, 0) = DisableEndpoint
  /\ DisableEndpoint[1] = Begin
  /\ DisableEndpoint[2] = Lock({Endpoint}, "row")
  /\ DisableEndpoint[3] = Lock(DeliveryRows, "row")
  /\ DisableEndpoint[4] = Commit
BY DEF DisableEndpoint, After

LEMMA RevokeApiKeyText ==
  /\ Len(RevokeApiKey) = 4 /\ After(RevokeApiKey, 0) = RevokeApiKey
  /\ RevokeApiKey[1] = Begin
  /\ RevokeApiKey[2] = Lock({Business}, "row")
  /\ RevokeApiKey[3] = Lock({ApiKey}, "row")
  /\ RevokeApiKey[4] = Commit
BY DEF RevokeApiKey, After

LEMMA AloneText ==
  ASSUME NEW s
  PROVE  /\ Len(Alone(s)) = 3 /\ After(Alone(s), 0) = Alone(s)
         /\ Alone(s)[1] = Begin /\ Alone(s)[2] = s /\ Alone(s)[3] = Commit
BY DEF Alone, After

(* The statements that stand alone. *)
LoneStatements ==
    {References({Business}), SkipLocked(AttemptRows), SkipLocked(DeliveryRows)}
    \cup {CompareAndSet(Row(a), {"pending"}, "pending", Always(<<Rollback>>)) : a \in Attempt}
    \cup {Lock({Row(d)}, "row") : d \in Delivery}

(* Every program is one of these. *)
LEMMA ProgramCases ==
  ASSUME NEW p \in Programs(Attempt)
  PROVE  \/ p = CreateInvoice
         \/ p = VoidInvoice
         \/ \E a \in Attempt : p = ClaimInvoice(a)
         \/ \E a \in Attempt : \E to \in {"open", "paid"} : p = SettleAttempt(a, to)
         \/ p = CreateEndpoint
         \/ p = DisableEndpoint
         \/ p = RevokeApiKey
         \/ \E s \in LoneStatements : p = Alone(s)
<1>2. /\ CreateReference = Alone(References({Business})) /\ References({Business}) \in LoneStatements
      /\ ClaimDue = Alone(SkipLocked(AttemptRows)) /\ SkipLocked(AttemptRows) \in LoneStatements
      /\ LeaseDue = Alone(SkipLocked(DeliveryRows)) /\ SkipLocked(DeliveryRows) \in LoneStatements
  BY DEF CreateReference, ClaimDue, LeaseDue, LoneStatements
<1>3. \A a \in Attempt : \E s \in LoneStatements : Reschedule(a) = Alone(s)
  BY DEF Reschedule, LoneStatements
<1>4. \A d \in Delivery : \E s \in LoneStatements : RecordResult(d) = Alone(s)
  BY DEF RecordResult, LoneStatements
<1>5. \/ p \in {CreateInvoice, CreateReference, VoidInvoice, ClaimDue, LeaseDue,
                CreateEndpoint, DisableEndpoint, RevokeApiKey}
      \/ p \in {ClaimInvoice(a) : a \in Attempt}
      \/ p \in {SettleAttempt(a, to) : a \in Attempt, to \in {"open", "paid"}}
      \/ p \in {Reschedule(a) : a \in Attempt}
      \/ p \in {RecordResult(d) : d \in Delivery}
  BY DEF Programs
<1> QED
  BY ONLY <1>2, <1>3, <1>4, <1>5

-----------------------------------------------------------------------------
(* What is left of a program *)

LEMMA AfterMeans ==
  ASSUME NEW p, Len(p) \in Nat, NEW n \in 0 .. Len(p) - 1
  PROVE /\ After(p, n) # <<>> /\ Head(After(p, n)) = p[n + 1]
        /\ Tail(After(p, n)) = After(p, n + 1)
<1> DEFINE S == {p[i] : i \in 1 .. Len(p)}
           s == After(p, n)
<1>1. s \in [1 .. Len(p) - n -> S] /\ Len(p) - n \in Nat /\ Len(p) - n >= 1
  <2>1. Len(p) - n \in Nat /\ Len(p) - n >= 1 /\ \A i \in 1 .. Len(p) - n : i + n \in 1 .. Len(p)
    OBVIOUS
  <2> QED BY <2>1 DEF After
<1>2. s \in Seq(S) /\ Len(s) = Len(p) - n
  <2> HIDE DEF s, S
  <2> QED BY <1>1
<1>3. Head(s) = s[1] /\ s[1] = p[n + 1] /\ s # <<>>
  <2>1. s[1] = p[n+1]
    BY <1>1 DEF After
  <2> HIDE DEF s, S
  <2> QED BY <1>1, <1>2, <2>1
<1>4. ASSUME n + 1 <= Len(p) PROVE Tail(s) = After(p, n + 1)
  <2>1. After(p, n + 1) \in [1 .. Len(p) - (n + 1) -> S] /\ Len(p) - (n + 1) \in Nat
    <3>1. Len(p) - (n + 1) \in Nat /\ \A i \in 1 .. Len(p) - (n + 1) : i + (n + 1) \in 1 .. Len(p)
      OBVIOUS
    <3> QED BY <3>1 DEF After
  <2>2. \A i \in 1 .. Len(p) - (n + 1) : After(p, n + 1)[i] = s[i + 1]
    <3> SUFFICES ASSUME NEW i \in 1 .. Len(p) - (n + 1) PROVE p[i + (n + 1)] = s[i + 1]
      BY DEF After
    <3>1. i + 1 \in 1 .. Len(p) - n /\ (i + 1) + n = i + (n + 1)
      OBVIOUS
    <3> QED BY <3>1 DEF After
  <2> HIDE DEF s, S
  <2>3. After(p, n + 1) \in Seq(S) /\ Len(After(p, n + 1)) = Len(p) - (n + 1)
    BY <2>1
  <2>4. /\ Tail(s) \in Seq(S) /\ Len(Tail(s)) = Len(s) - 1
        /\ \A i \in 1 .. Len(Tail(s)) : Tail(s)[i] = s[i + 1]
    BY <1>2, <1>3, HeadTailProperties
  <2>5. Len(Tail(s)) = Len(After(p, n + 1))
    BY <1>2, <2>3, <2>4
  <2>6. \A i \in 1 .. Len(Tail(s)) : Tail(s)[i] = After(p, n + 1)[i]
    BY <2>2, <2>3, <2>4, <2>5
  <2> QED BY <2>3, <2>4, <2>5, <2>6, SeqEqual
<1> QED BY <1>3, <1>4

LEMMA NothingAfterTheEnd ==
  ASSUME NEW p, Len(p) \in Nat PROVE After(p, Len(p)) = <<>>
BY DEF After

-----------------------------------------------------------------------------
(* What the statements lock and write *)

LEMMA Begin_Commit ==
  /\ Begin.op = "begin" /\ LocksOf(Begin) = {} /\ WritesOf(Begin) = {}
  /\ Commit.op = "commit" /\ LocksOf(Commit) = {} /\ WritesOf(Commit) = {}
BY DEF Begin, Commit, LocksOf, WritesOf

LEMMA LockMeans ==
  ASSUME NEW rows, NEW mode
  PROVE  /\ Lock(rows, mode).op = "lock" /\ Lock(rows, mode).rows = rows /\ Lock(rows, mode).mode = mode
         /\ LocksOf(Lock(rows, mode)) = rows \X {mode} /\ WritesOf(Lock(rows, mode)) = {}
BY DEF Lock, LocksOf, WritesOf

LEMMA ReferencesMean ==
  ASSUME NEW rows
  PROVE  /\ References(rows).op = "lock" /\ References(rows).rows = rows /\ References(rows).mode = "share"
         /\ LocksOf(References(rows)) = rows \X {"share"} /\ WritesOf(References(rows)) = {}
BY LockMeans DEF References

LEMMA SkipMeans ==
  ASSUME NEW rows
  PROVE  /\ SkipLocked(rows).op = "skip" /\ SkipLocked(rows).rows = rows /\ SkipLocked(rows).mode = "update"
         /\ LocksOf(SkipLocked(rows)) = rows \X {"update"} /\ WritesOf(SkipLocked(rows)) = {}
BY DEF SkipLocked, LocksOf, WritesOf

LEMMA CasMeans ==
  ASSUME NEW row, NEW from, NEW to, NEW next
  PROVE  LET s == CompareAndSet(row, from, to, next)
         IN  /\ s.op = "cas" /\ s.rows = {row} /\ s.mode = "row"
             /\ s.row = row /\ s.from = from /\ s.to = to /\ s.otherwise = next
             /\ LocksOf(s) = {<<row, "row">>} /\ WritesOf(s) = {<<row, to>>}
BY DEF CompareAndSet, LocksOf, WritesOf

LEMMA InsertMeans ==
  ASSUME NEW row, NEW index
  PROVE  LET s == Insert(row, index)
         IN  /\ s.op = "insert" /\ s.rows = index /\ s.mode = "insert" /\ s.row = row /\ s.to = "pending"
             /\ LocksOf(s) = {<<row, "insert">>} /\ WritesOf(s) = {<<row, "pending">>}
BY DEF Insert, LocksOf, WritesOf

LEMMA OtherwiseMeans ==
  /\ \A next : \A v \in Status : Always(next)[v] = next
  /\ \A v \in Status : [Always(<<Commit>>) EXCEPT !["processing"] = <<Rollback>>][v] \in {<<Rollback>>, <<Commit>>}
BY DEF Always

LEMMA BeginPaymentMeans ==
  /\ BeginPayment.op = "cas" /\ BeginPayment.rows = {Invoice} /\ BeginPayment.mode = "row"
  /\ BeginPayment.row = Invoice /\ BeginPayment.from = {"open"} /\ BeginPayment.to = "processing"
  /\ LocksOf(BeginPayment) = {<<Invoice, "row">>} /\ WritesOf(BeginPayment) = {<<Invoice, "processing">>}
BY CasMeans DEF BeginPayment

-----------------------------------------------------------------------------
(* What a statement between Begin and Commit can be *)

Rows  == Valued \cup {Business, Customer, Endpoint, ApiKey}
Modes == {"share", "row", "update", "insert"}

IsStatement(s) ==
    \/ s.op = "lock" /\ s.rows \subseteq Rows /\ s.mode \in {"share", "row", "insert"}
    \/ s.op = "skip" /\ s.rows \subseteq Valued /\ s.mode = "update"
    \/ /\ s.op = "cas" /\ s.rows = {s.row} /\ s.mode = "row"
       /\ s.row \in Valued /\ s.to \in Status
       /\ \A v \in Status : s.otherwise[v] \in {<<Rollback>>, AlreadySettled, <<Commit>>}
    \/ /\ s.op = "insert" /\ s.row \in s.rows /\ s.mode = "insert"
       /\ s.rows \subseteq Valued /\ s.to = "pending"

LEMMA LocksAreStatements ==
  /\ \A rows \in SUBSET Rows, mode \in {"share", "row", "insert"} : IsStatement(Lock(rows, mode))
  /\ \A rows \in SUBSET Rows : IsStatement(References(rows))
  /\ \A rows \in SUBSET Valued : IsStatement(SkipLocked(rows))
  /\ \A rows \in SUBSET Valued : \A row \in rows : IsStatement(Insert(row, rows))
  /\ \A row \in Valued : \A to \in Status : \A next \in {<<Rollback>>, AlreadySettled, <<Commit>>} :
     \A from : IsStatement(CompareAndSet(row, from, to, Always(next)))
BY DEF IsStatement, Lock, References, SkipLocked, Insert, CompareAndSet, Always

LEMMA BeginPaymentIsStatement == IsStatement(BeginPayment)
<1>1. Invoice \in Valued /\ "processing" \in Status
  BY DEF Valued, Status
<1>2. \A v \in Status : [Always(<<Commit>>) EXCEPT !["processing"] = <<Rollback>>][v] \in {<<Rollback>>, <<Commit>>}
  BY DEF Always
<1> QED
  BY <1>1, <1>2 DEF IsStatement, BeginPayment, CompareAndSet

-----------------------------------------------------------------------------
(* Where a program takes what: the facts about the texts that the order of *)
(* locks rests on.                                                         *)

(* A row of an attempt is locked only by comparing it with pending, or by  *)
(* a batch that skips what is not; its insertion is the last thing that a  *)
(* program does that can fail.  A refusal is committed only after writing  *)
(* a key at most.  References are never to rows a batch locks.             *)
IsSafe(p, i) ==
    /\ IsStatement(p[i])
    /\ p[i].op \in {"cas", "insert"} =>
          \A j \in 1 .. i - 1 : \A a \in Attempt : <<Row(a), "insert">> \notin LocksOf(p[j])
    /\ p[i].op = "cas" =>
          \/ \A v \in Status : p[i].otherwise[v] \in {<<Rollback>>, AlreadySettled}
          \/ \A j \in 1 .. i - 1 : WritesOf(p[j]) \subseteq {<<Key(a), "pending">> : a \in Attempt}
    /\ \A a \in Attempt :
          /\ <<Row(a), "row">> \in LocksOf(p[i]) => p[i].op = "cas" /\ p[i].from = {"pending"}
          /\ <<Row(a), "update">> \in LocksOf(p[i]) => p[i].op = "skip"
          /\ <<Key(a), "insert">> \in LocksOf(p[i]) => p[i].op = "insert" /\ p[i].rows = {Key(a)}
          /\ <<Row(a), "insert">> \in LocksOf(p[i]) => p = ClaimInvoice(a) /\ i = 5
          /\ <<Key(a), "row">> \in LocksOf(p[i]) => i = 7 /\ \E to \in {"open", "paid"} : p = SettleAttempt(a, to)
    /\ p[i].mode = "update" => p[i].rows \subseteq AttemptRows \cup DeliveryRows
    /\ p[i].mode = "share" => p[i].rows \subseteq {Business, Customer, Endpoint, Invoice}

HasShape(p) ==
    /\ Len(p) \in Nat /\ Len(p) >= 3 /\ After(p, 0) = p
    /\ p[1] = Begin /\ p[Len(p)] = Commit

LEMMA SafeCreateInvoice == HasShape(CreateInvoice) /\ \A i \in 2 .. 5 : IsSafe(CreateInvoice, i)
<1>1. CreateInvoice[2] = References({Business, Customer}) /\ CreateInvoice[3] = Lock({Business}, "row")
      /\ CreateInvoice[4] = References({Business}) /\ CreateInvoice[5] = References({Endpoint})
  BY CreateInvoiceText
<1>2. IsStatement(References({Business, Customer})) /\ IsStatement(Lock({Business}, "row"))
      /\ IsStatement(References({Business})) /\ IsStatement(References({Endpoint}))
  BY LocksAreStatements DEF Rows
<1>3. \A i \in 2 .. 5 : i = 2 \/ i = 3 \/ i = 4 \/ i = 5
  OBVIOUS
<1>4. ASSUME NEW i \in 2 .. 5 PROVE IsSafe(CreateInvoice, i)
  BY <1>1, <1>2, <1>3, LockMeans, ReferencesMean, RowsDiffer DEF IsSafe
<1> QED
  BY <1>4, CreateInvoiceText DEF HasShape

LEMMA SafeVoidInvoice == HasShape(VoidInvoice) /\ \A i \in 2 .. 5 : IsSafe(VoidInvoice, i)
<1>1. /\ VoidInvoice[2] = CompareAndSet(Invoice, {"open"}, "void", Always(<<Rollback>>))
      /\ VoidInvoice[3] = Lock({Business}, "row")
      /\ VoidInvoice[4] = References({Business}) /\ VoidInvoice[5] = References({Endpoint})
  BY VoidInvoiceText
<1>2. /\ IsStatement(CompareAndSet(Invoice, {"open"}, "void", Always(<<Rollback>>)))
      /\ IsStatement(Lock({Business}, "row"))
      /\ IsStatement(References({Business})) /\ IsStatement(References({Endpoint}))
  BY LocksAreStatements DEF Rows, Valued, Status
<1>3. \A i \in 2 .. 5 : i = 2 \/ i = 3 \/ i = 4 \/ i = 5
  OBVIOUS
<1>4. \A j \in 1 .. 2 - 1 : VoidInvoice[j] = Begin
  BY VoidInvoiceText
<1>5. ASSUME NEW i \in 2 .. 5 PROVE IsSafe(VoidInvoice, i)
  BY <1>1, <1>2, <1>3, <1>4, LockMeans, ReferencesMean, CasMeans, OtherwiseMeans, Begin_Commit, RowsDiffer DEF IsSafe
<1> QED
  BY <1>5, VoidInvoiceText DEF HasShape

LEMMA SafeClaimInvoice ==
  ASSUME NEW a \in Attempt
  PROVE  HasShape(ClaimInvoice(a)) /\ \A i \in 2 .. 6 : IsSafe(ClaimInvoice(a), i)
<1> DEFINE p == ClaimInvoice(a)
<1>1. /\ p[1] = Begin /\ p[2] = Insert(Key(a), {Key(a)}) /\ p[3] = References({Business})
      /\ p[4] = BeginPayment /\ p[5] = Insert(Row(a), AttemptRows) /\ p[6] = References({Business, Invoice})
  BY ClaimInvoiceText
<1>2. /\ IsStatement(Insert(Key(a), {Key(a)})) /\ IsStatement(References({Business}))
      /\ IsStatement(BeginPayment) /\ IsStatement(Insert(Row(a), AttemptRows))
      /\ IsStatement(References({Business, Invoice}))
  BY LocksAreStatements, BeginPaymentIsStatement DEF Rows, Valued, AttemptRows
<1>3. \A i \in 2 .. 6 : i = 2 \/ i = 3 \/ i = 4 \/ i = 5 \/ i = 6
  OBVIOUS
<1>4. \A i \in 1 .. 4 : i = 1 \/ i = 2 \/ i = 3 \/ i = 4
  OBVIOUS
<1>5. \A j \in 1 .. 4 : \A b \in Attempt : <<Row(b), "insert">> \notin LocksOf(p[j])
  BY <1>1, <1>4, Begin_Commit, InsertMeans, ReferencesMean, BeginPaymentMeans, RowsDiffer
<1>6. \A j \in 1 .. 3 : WritesOf(p[j]) \subseteq {<<Key(b), "pending">> : b \in Attempt}
  <2>1. \A i \in 1 .. 3 : i = 1 \/ i = 2 \/ i = 3
    OBVIOUS
  <2> QED BY <1>1, <2>1, Begin_Commit, InsertMeans, ReferencesMean
<1>7. IsSafe(p, 2)
  <2>1. \A j \in 1 .. 2 - 1 : j \in 1 .. 4
    OBVIOUS
  <2>2. /\ IsStatement(p[2]) /\ p[2].op = "insert" /\ p[2].rows = {Key(a)} /\ p[2].mode = "insert"
        /\ LocksOf(p[2]) = {<<Key(a), "insert">>}
    BY <1>1, <1>2, InsertMeans
  <2> HIDE DEF p
  <2> QED BY <1>5, <2>1, <2>2, RowsDiffer DEF IsSafe
<1>8. IsSafe(p, 3) /\ IsSafe(p, 6)
  BY <1>1, <1>2, ReferencesMean DEF IsSafe
<1>9. IsSafe(p, 4)
  <2>1. \A j \in 1 .. 4 - 1 : j \in 1 .. 4 /\ j \in 1 .. 3
    OBVIOUS
  <2> QED BY <1>1, <1>2, <1>5, <1>6, <2>1, BeginPaymentMeans, RowsDiffer DEF IsSafe
<1>10. IsSafe(p, 5)
  <2>1. \A j \in 1 .. 5 - 1 : j \in 1 .. 4
    OBVIOUS
  <2>2. /\ IsStatement(p[5]) /\ p[5].op = "insert" /\ p[5].mode = "insert"
        /\ LocksOf(p[5]) = {<<Row(a), "insert">>}
    BY <1>1, <1>2, InsertMeans
  <2>3. p = ClaimInvoice(a)
    OBVIOUS
  <2>4. \A b \in Attempt :
           /\ {<<Row(b), "row">>, <<Row(b), "update">>, <<Key(b), "insert">>, <<Key(b), "row">>} \cap LocksOf(p[5]) = {}
           /\ <<Row(b), "insert">> \in LocksOf(p[5]) => b = a
    <3> HIDE DEF p
    <3> QED BY <2>2, RowsDiffer
  <2> HIDE DEF p
  <2> QED BY <1>5, <2>1, <2>2, <2>3, <2>4 DEF IsSafe
<1>11. HasShape(p)
  <2>1. Len(p) = 7 /\ After(p, 0) = p /\ p[1] = Begin /\ p[7] = Commit
    BY ClaimInvoiceText
  <2> HIDE DEF p
  <2> QED BY <2>1 DEF HasShape
<1> HIDE DEF p
<1>12. \A i \in 2 .. 6 : IsSafe(p, i)
  BY <1>3, <1>7, <1>8, <1>9, <1>10
<1> QED
  BY <1>11, <1>12 DEF p

LEMMA SafeSettleAttempt ==
  ASSUME NEW a \in Attempt, NEW to \in {"open", "paid"}
  PROVE  HasShape(SettleAttempt(a, to)) /\ \A i \in 2 .. 7 : IsSafe(SettleAttempt(a, to), i)
<1> DEFINE p == SettleAttempt(a, to)
<1>1. /\ p[1] = Begin
      /\ p[2] = CompareAndSet(Row(a), {"pending"}, "settled", Always(AlreadySettled))
      /\ p[3] = CompareAndSet(Invoice, {"processing"}, to, Always(<<Rollback>>))
      /\ p[4] = Lock({Business}, "row") /\ p[5] = References({Business})
      /\ p[6] = References({Endpoint}) /\ p[7] = Lock({Key(a)}, "row")
  BY SettleAttemptText
<1>2. /\ IsStatement(p[2]) /\ IsStatement(p[3]) /\ IsStatement(p[4])
      /\ IsStatement(p[5]) /\ IsStatement(p[6]) /\ IsStatement(p[7])
  BY <1>1, LocksAreStatements DEF Rows, Valued, AttemptRows, Status
<1>3. \A i \in 2 .. 7 : i = 2 \/ i = 3 \/ i = 4 \/ i = 5 \/ i = 6 \/ i = 7
  OBVIOUS
<1>4. \A i \in 1 .. 2 : i = 1 \/ i = 2
  OBVIOUS
<1>5. \A j \in 1 .. 2 : \A b \in Attempt : <<Row(b), "insert">> \notin LocksOf(p[j])
  BY <1>1, <1>4, Begin_Commit, CasMeans
<1>6. IsSafe(p, 2) /\ IsSafe(p, 3)
  <2>1. \A j : (j \in 1 .. 2 - 1 \/ j \in 1 .. 3 - 1) => j \in 1 .. 2
    OBVIOUS
  <2> QED BY <1>1, <1>2, <1>5, <2>1, CasMeans, OtherwiseMeans, RowsDiffer DEF IsSafe
<1>7. IsSafe(p, 4) /\ IsSafe(p, 5) /\ IsSafe(p, 6)
  BY <1>1, <1>2, ReferencesMean, LockMeans, RowsDiffer DEF IsSafe
<1>8. IsSafe(p, 7)
  <2>1. p[7].op = "lock" /\ p[7].mode = "row" /\ LocksOf(p[7]) = {<<Key(a), "row">>}
    BY <1>1, LockMeans
  <2>2. p = SettleAttempt(a, to)
    OBVIOUS
  <2>3. \A b \in Attempt :
           /\ {<<Row(b), "row">>, <<Row(b), "update">>, <<Row(b), "insert">>, <<Key(b), "insert">>} \cap LocksOf(p[7]) = {}
           /\ <<Key(b), "row">> \in LocksOf(p[7]) => b = a
    <3> HIDE DEF p
    <3> QED BY <2>1, RowsDiffer
  <2> HIDE DEF p
  <2> QED BY <1>2, <2>1, <2>2, <2>3 DEF IsSafe
<1>9. HasShape(p)
  <2>1. Len(p) = 8 /\ After(p, 0) = p /\ p[1] = Begin /\ p[8] = Commit
    BY SettleAttemptText
  <2> HIDE DEF p
  <2> QED BY <2>1 DEF HasShape
<1> HIDE DEF p
<1>10. \A i \in 2 .. 7 : IsSafe(p, i)
  BY <1>3, <1>6, <1>7, <1>8
<1> QED
  BY <1>9, <1>10 DEF p

LEMMA SafeEndpoints ==
  /\ HasShape(CreateEndpoint) /\ \A i \in 2 .. 3 : IsSafe(CreateEndpoint, i)
  /\ HasShape(DisableEndpoint) /\ \A i \in 2 .. 3 : IsSafe(DisableEndpoint, i)
  /\ HasShape(RevokeApiKey) /\ \A i \in 2 .. 3 : IsSafe(RevokeApiKey, i)
<1>1. \A i \in 2 .. 3 : i = 2 \/ i = 3
  OBVIOUS
<1>2. /\ IsStatement(Lock({Endpoint}, "insert")) /\ IsStatement(References({Business}))
      /\ IsStatement(Lock({Endpoint}, "row")) /\ IsStatement(Lock(DeliveryRows, "row"))
      /\ IsStatement(Lock({Business}, "row")) /\ IsStatement(Lock({ApiKey}, "row"))
  BY LocksAreStatements DEF Rows, Valued
<1>3. \A a \in Attempt : Row(a) \notin DeliveryRows /\ Key(a) \notin DeliveryRows
  BY RowsDiffer, RowsAreDistinct DEF DeliveryRows
<1>4. IsSafe(CreateEndpoint, 2) /\ IsSafe(CreateEndpoint, 3)
  BY <1>2, CreateEndpointText, LockMeans, ReferencesMean, RowsDiffer DEF IsSafe
<1>5. IsSafe(DisableEndpoint, 2) /\ IsSafe(DisableEndpoint, 3)
  BY <1>2, <1>3, DisableEndpointText, LockMeans, RowsDiffer DEF IsSafe
<1>6. IsSafe(RevokeApiKey, 2) /\ IsSafe(RevokeApiKey, 3)
  BY <1>2, RevokeApiKeyText, LockMeans, RowsDiffer DEF IsSafe
<1>7. HasShape(CreateEndpoint) /\ HasShape(DisableEndpoint) /\ HasShape(RevokeApiKey)
  BY CreateEndpointText, DisableEndpointText, RevokeApiKeyText DEF HasShape
<1> QED
  BY <1>1, <1>4, <1>5, <1>6, <1>7

LEMMA SafeAlone ==
  ASSUME NEW s \in LoneStatements
  PROVE  HasShape(Alone(s)) /\ IsSafe(Alone(s), 2)
<1> DEFINE p == Alone(s)
<1>1. p[2] = s /\ p[1] = Begin
  BY AloneText
<1>2. \A a \in Attempt : Row(a) \notin DeliveryRows /\ Key(a) \notin DeliveryRows
  BY RowsDiffer, RowsAreDistinct DEF DeliveryRows
<1>3. \A a \in Attempt : Key(a) \notin AttemptRows
  BY RowsDiffer DEF AttemptRows
<1>4. \A d \in Delivery : Row(d) \in DeliveryRows
  BY DEF DeliveryRows
<1>5. \A j \in 1 .. 2 - 1 : j = 1
  OBVIOUS
<1>6. ASSUME s = References({Business}) PROVE IsSafe(p, 2)
  <2>1. IsStatement(s)
    BY <1>6, LocksAreStatements DEF Rows
  <2>2. /\ IsStatement(p[2]) /\ p[2].op = "lock" /\ p[2].rows = {Business} /\ p[2].mode = "share"
        /\ LocksOf(p[2]) = {<<Business, "share">>}
    BY <1>1, <1>6, <2>1, ReferencesMean
  <2> HIDE DEF p
  <2> QED BY <2>2 DEF IsSafe
<1>7. ASSUME s \in {SkipLocked(AttemptRows), SkipLocked(DeliveryRows)} PROVE IsSafe(p, 2)
  <2>1. IsStatement(s)
    BY <1>7, LocksAreStatements DEF Valued
  <2>2. /\ IsStatement(p[2]) /\ p[2].op = "skip" /\ p[2].mode = "update"
        /\ p[2].rows \in {AttemptRows, DeliveryRows} /\ LocksOf(p[2]) = p[2].rows \X {"update"}
    BY <1>1, <1>7, <2>1, SkipMeans
  <2> HIDE DEF p
  <2> QED BY <2>2 DEF IsSafe
<1>8. ASSUME NEW a \in Attempt, s = CompareAndSet(Row(a), {"pending"}, "pending", Always(<<Rollback>>))
      PROVE  IsSafe(p, 2)
  <2>1. IsStatement(s)
    BY <1>8, LocksAreStatements DEF Valued, AttemptRows, Status
  <2>2. \A j \in 1 .. 2 - 1 : LocksOf(p[j]) = {} /\ WritesOf(p[j]) = {}
    BY <1>1, <1>5, Begin_Commit
  <2>3. IsStatement(p[2]) /\ p[2].op = "cas" /\ p[2].from = {"pending"} /\ p[2].mode = "row"
        /\ LocksOf(p[2]) = {<<Row(a), "row">>}
    BY <1>1, <1>8, <2>1, CasMeans
  <2> HIDE DEF p
  <2> QED BY <2>2, <2>3, RowsDiffer DEF IsSafe
<1>9. ASSUME NEW d \in Delivery, s = Lock({Row(d)}, "row")
      PROVE  IsSafe(p, 2)
  <2>1. IsStatement(s)
    BY <1>9, <1>4, LocksAreStatements DEF Rows, Valued
  <2>2. IsStatement(p[2]) /\ p[2].op = "lock" /\ p[2].rows = {Row(d)} /\ p[2].mode = "row"
        /\ LocksOf(p[2]) = {<<Row(d), "row">>}
    BY <1>1, <1>9, <2>1, LockMeans
  <2> HIDE DEF p
  <2> QED BY <1>2, <1>4, <2>2 DEF IsSafe
<1>10. HasShape(p)
  BY AloneText DEF HasShape
<1> QED
  BY <1>6, <1>7, <1>8, <1>9, <1>10 DEF LoneStatements

(* So for every program. *)
LEMMA ProgramsAreSafe ==
  ASSUME NEW p \in Programs(Attempt)
  PROVE  HasShape(p) /\ \A i \in 2 .. Len(p) - 1 : IsSafe(p, i)
<1>0. 6 - 1 = 5 /\ 7 - 1 = 6 /\ 8 - 1 = 7 /\ 4 - 1 = 3 /\ 3 - 1 = 2 /\ \A i \in 2 .. 2 : i = 2
  OBVIOUS
<1>1. CASE p \in {CreateInvoice, VoidInvoice}
  BY <1>0, <1>1, SafeCreateInvoice, SafeVoidInvoice, CreateInvoiceText, VoidInvoiceText
<1>2. ASSUME NEW a \in Attempt, p = ClaimInvoice(a)
      PROVE  HasShape(p) /\ \A i \in 2 .. Len(p) - 1 : IsSafe(p, i)
  BY <1>0, <1>2, SafeClaimInvoice, ClaimInvoiceText
<1>3. ASSUME NEW a \in Attempt, NEW to \in {"open", "paid"}, p = SettleAttempt(a, to)
      PROVE  HasShape(p) /\ \A i \in 2 .. Len(p) - 1 : IsSafe(p, i)
  BY <1>0, <1>3, SafeSettleAttempt, SettleAttemptText
<1>4. CASE p \in {CreateEndpoint, DisableEndpoint, RevokeApiKey}
  BY <1>0, <1>4, SafeEndpoints, CreateEndpointText, DisableEndpointText, RevokeApiKeyText
<1>5. ASSUME NEW s \in LoneStatements, p = Alone(s)
      PROVE  HasShape(p) /\ \A i \in 2 .. Len(p) - 1 : IsSafe(p, i)
  BY <1>0, <1>5, SafeAlone, AloneText
<1> QED
  BY <1>1, <1>2, <1>3, <1>4, <1>5, ProgramCases

-----------------------------------------------------------------------------
(* Where a task is *)

LEMMA WayOut ==
  /\ <<Rollback>> # <<>> /\ Head(<<Rollback>>).op = "rollback" /\ Tail(<<Rollback>>) = <<>>
  /\ AlreadySettled # <<>> /\ Head(AlreadySettled).op = "rollback"
  /\ Tail(AlreadySettled) # <<>> /\ Head(Tail(AlreadySettled)).op = "begin"
  /\ Tail(Tail(AlreadySettled)) = <<Commit>>
  /\ <<Commit>> # <<>> /\ Head(<<Commit>>).op = "commit" /\ Tail(<<Commit>>) = <<>>
BY DEF AlreadySettled, Begin, Commit, Rollback

LEMMA LeavingMeans ==
  ASSUME NEW t, Leaves(t)
  PROVE  \/ /\ todo[t] # <<>> /\ Statement(t).op = "rollback"
            /\ Tail(todo[t]) \in {<<>>, Tail(AlreadySettled)} /\ conns[t] = 1
         \/ /\ todo[t] # <<>> /\ Statement(t).op = "begin" /\ Tail(todo[t]) = <<Commit>>
            /\ held[t] = {} /\ wrote[t] = {} /\ conns[t] = 0
         \/ /\ todo[t] # <<>> /\ Statement(t).op = "commit" /\ Tail(todo[t]) = <<>>
            /\ wrote[t] \subseteq {<<Key(a), "pending">> : a \in Attempt} /\ conns[t] = 1
BY WayOut DEF Leaves, At, Statement

LEMMA FollowingMeans ==
  ASSUME NEW t, NEW p \in Programs(Attempt), NEW n \in 0 .. Len(p) - 1, Follows(t, p, n)
  PROVE  /\ HasShape(p) /\ todo[t] # <<>> /\ Statement(t) = p[n + 1] /\ Tail(todo[t]) = After(p, n + 1)
         /\ \/ n = 0 /\ Statement(t).op = "begin"
            \/ /\ n \in 1 .. Len(p) - 2 /\ n + 1 \in 0 .. Len(p) - 1 /\ IsSafe(p, n + 1)
               /\ Statement(t).op \in {"lock", "cas", "skip", "insert"}
            \/ n = Len(p) - 1 /\ n # 0 /\ Statement(t).op = "commit" /\ After(p, n + 1) = <<>>
<1>1. HasShape(p) /\ \A i \in 2 .. Len(p) - 1 : IsSafe(p, i)
  BY ProgramsAreSafe
<1>2. Len(p) \in Nat /\ Len(p) >= 3 /\ p[1] = Begin /\ p[Len(p)] = Commit
  BY <1>1 DEF HasShape
<1>3. todo[t] # <<>> /\ Statement(t) = p[n + 1] /\ Tail(todo[t]) = After(p, n + 1)
  BY <1>2, AfterMeans DEF Follows, Statement
<1>4. CASE n = 0
  BY <1>1, <1>2, <1>3, <1>4, Begin_Commit
<1>5. CASE n = Len(p) - 1
  <2>1. n + 1 = Len(p) /\ n # 0
    BY <1>2, <1>5
  <2>2. After(p, n + 1) = <<>>
    BY <1>2, <2>1, NothingAfterTheEnd
  <2> QED BY <1>1, <1>2, <1>3, <1>5, <2>1, <2>2, Begin_Commit
<1>6. CASE n \in 1 .. Len(p) - 2
  <2>1. n + 1 \in 2 .. Len(p) - 1 /\ n + 1 \in 0 .. Len(p) - 1
    BY <1>2, <1>6
  <2>2. IsSafe(p, n + 1)
    BY <1>1, <2>1
  <2>3. p[n + 1].op \in {"lock", "cas", "skip", "insert"}
    BY <2>2 DEF IsSafe, IsStatement
  <2> QED BY <1>1, <1>3, <1>6, <2>1, <2>2, <2>3
<1>7. n = 0 \/ n = Len(p) - 1 \/ n \in 1 .. Len(p) - 2
  BY <1>2
<1> QED
  BY <1>4, <1>5, <1>6, <1>7

(* Whoever is at a statement between Begin and Commit follows a program. *)
IsDoing(t, p, n) ==
    /\ p \in Programs(Attempt) /\ Len(p) \in Nat /\ n \in 1 .. Len(p) - 2 /\ n + 1 \in 0 .. Len(p) - 1
    /\ Follows(t, p, n) /\ IsSafe(p, n + 1)
    /\ Statement(t) = p[n + 1] /\ Tail(todo[t]) = After(p, n + 1)

LEMMA WhoIsDoing ==
  ASSUME KnowsItsPlace, NEW t \in Task, At(t, {"lock", "cas", "skip", "insert"})
  PROVE  \E p, n : IsDoing(t, p, n)
<1>1. todo[t] # <<>> /\ Statement(t).op \in {"lock", "cas", "skip", "insert"}
  BY DEF At, Statement
<1>2. ~IsIdle(t) /\ ~Leaves(t)
  BY <1>1, LeavingMeans DEF IsIdle
<1>3. PICK p \in Programs(Attempt) : \E n \in 0 .. Len(p) - 1 : Follows(t, p, n)
  BY <1>2 DEF KnowsItsPlace
<1>4. PICK n \in 0 .. Len(p) - 1 : Follows(t, p, n)
  BY <1>3
<1>5. n \in 1 .. Len(p) - 2 /\ n + 1 \in 0 .. Len(p) - 1 /\ IsSafe(p, n + 1)
      /\ HasShape(p) /\ Statement(t) = p[n + 1] /\ Tail(todo[t]) = After(p, n + 1)
  BY <1>1, <1>4, FollowingMeans
<1>6. IsDoing(t, p, n)
  BY <1>4, <1>5 DEF IsDoing, HasShape
<1> QED
  BY <1>6

-----------------------------------------------------------------------------
(* What a step does to the invariant: first to the place of a task *)

HasPlace(t) ==
    \/ IsIdle(t)
    \/ Leaves(t)
    \/ \E p \in Programs(Attempt) : \E n \in 0 .. Len(p) - 1 : Follows(t, p, n)

(* A task that did not step keeps its place if nobody changed a row that   *)
(* it has locked to change it.                                             *)
LEMMA OthersKeepTheirPlace ==
  ASSUME NEW u \in Task, HasPlace(u),
         todo'[u] = todo[u], held'[u] = held[u], wrote'[u] = wrote[u], conns'[u] = conns[u],
         \A row \in Valued : <<row, "row">> \in held[u] => value'[row] = value[row]
  PROVE  HasPlace(u)'
<1>1. CASE IsIdle(u)
  <2>1. IsIdle(u)'
    BY <1>1 DEF IsIdle
  <2> QED BY <2>1 DEF HasPlace
<1>2. CASE Leaves(u)
  <2>1. Leaves(u)'
    BY <1>2 DEF Leaves, At
  <2> QED BY <2>1 DEF HasPlace
<1>3. ASSUME NEW p \in Programs(Attempt), NEW n \in 0 .. Len(p) - 1, Follows(u, p, n)
      PROVE  HasPlace(u)'
  <2>1. HasShape(p) /\ \A i \in 2 .. Len(p) - 1 : IsSafe(p, i)
    BY ProgramsAreSafe
  <2>2. ASSUME NEW i \in 1 .. n, p[i].op = "cas"
        PROVE  p[i].row \in Valued /\ <<p[i].row, "row">> \in held[u]
    <3>1. i # 1 /\ Len(p) \in Nat
      BY <2>1, <2>2, Begin_Commit DEF HasShape
    <3>2. i \in 2 .. Len(p) - 1
      BY <3>1
    <3>3. p[i].rows = {p[i].row} /\ p[i].mode = "row" /\ p[i].row \in Valued
      BY <2>1, <2>2, <3>2 DEF IsSafe, IsStatement
    <3>4. LocksOf(p[i]) = {<<p[i].row, "row">>}
      BY <2>2, <3>3 DEF LocksOf
    <3> QED BY <1>3, <2>2, <3>3, <3>4 DEF Follows
  <2>3. Follows(u, p, n)'
    BY <1>3, <2>2 DEF Follows
  <2> QED BY <2>3 DEF HasPlace
<1> QED
  BY <1>1, <1>2, <1>3 DEF HasPlace

(* A task that did all of a statement is one further. *)
LEMMA Advances ==
  ASSUME NEW t, NEW p, NEW n, IsDoing(t, p, n),
         todo'[t] = Tail(todo[t]), conns'[t] = conns[t], value' = value,
         held[t] \subseteq held'[t], held'[t] \subseteq held[t] \cup LocksOf(p[n + 1]),
         p[n + 1].op # "skip" => LocksOf(p[n + 1]) \subseteq held'[t],
         wrote'[t] = wrote[t] \cup WritesOf(p[n + 1]),
         p[n + 1].op = "cas" => value[p[n + 1].row] \in p[n + 1].from
  PROVE  HasPlace(t)'
<1> USE DEF IsDoing
<1>1. n \in Nat /\ n # 0 /\ n + 1 \in 0 .. Len(p) - 1 /\ n + 1 # 0
  OBVIOUS
<1>2. \A i \in 1 .. n + 1 : i \in 1 .. n \/ i = n + 1
  BY <1>1
<1>3. \A i \in 1 .. n + 1 : i \in 1 .. (n + 1) + 1 /\ i # (n + 1) + 1
  BY <1>1
<1>4. n + 1 \in 1 .. n + 1 /\ \A i \in 1 .. n : i \in 1 .. n + 1
  BY <1>1
<1>5. \A lock \in held'[t] : \E i \in 1 .. (n + 1) + 1 :
          lock \in LocksOf(p[i]) /\ (i = (n + 1) + 1 => p[i].op = "lock")
  <2>1. \A lock \in held'[t] : \E i \in 1 .. n + 1 : lock \in LocksOf(p[i])
    BY <1>4 DEF Follows
  <2> QED BY <1>3, <2>1
<1>6. \A i \in 1 .. n + 1 : p[i].op # "skip" => LocksOf(p[i]) \subseteq held'[t]
  BY <1>2 DEF Follows
<1>7. \A w \in wrote'[t] : \E i \in 1 .. n + 1 : w \in WritesOf(p[i])
  BY <1>4 DEF Follows
<1>8. \A i \in 1 .. n + 1 : WritesOf(p[i]) \subseteq wrote'[t]
  BY <1>2 DEF Follows
<1>9. \A i \in 1 .. n + 1 : p[i].op = "cas" => value'[p[i].row] \in p[i].from
  BY <1>2 DEF Follows
<1>10. todo'[t] = After(p, n + 1) /\ conns'[t] = 1
  BY <1>1 DEF Follows
<1>11. Follows(t, p, n + 1)'
  BY <1>1, <1>5, <1>6, <1>7, <1>8, <1>9, <1>10 DEF Follows
<1> QED
  BY <1>1, <1>11 DEF HasPlace

-----------------------------------------------------------------------------
(* then to the rest of it *)

LEMMA ConflictIsMutual == \A m, n : Conflict(m, n) <=> Conflict(n, m)
BY DEF Conflict

LEMMA TypesAre ==
  TypeOK <=> /\ DOMAIN todo = Task
             /\ held  \in [Task -> SUBSET (Rows \X Modes)]
             /\ wrote \in [Task -> SUBSET (Valued \X Status)]
             /\ conns \in [Task -> {0, 1}]
             /\ value \in [Valued -> Status]
BY DEF TypeOK, Rows, Modes

(* The inductive invariant, with the places by name. *)
LEMMA Parts ==
  IInv <=> /\ TypeOK /\ LocksExclude /\ WritesAreLocked /\ LocksAreGrounded /\ RowsAgree
           /\ \A t \in Task : HasPlace(t)
BY DEF IInv, KnowsItsPlace, HasPlace

(* Only t does anything to its own. *)
OnlyMoves(t) ==
    /\ DOMAIN todo' = Task
    /\ held'  \in [Task -> SUBSET (Rows \X Modes)]
    /\ wrote' \in [Task -> SUBSET (Valued \X Status)]
    /\ conns' \in [Task -> {0, 1}]
    /\ \A u \in Task \ {t} : /\ todo'[u] = todo[u] /\ held'[u] = held[u]
                             /\ wrote'[u] = wrote[u] /\ conns'[u] = conns[u]

(* t takes locks that are free, and writes what it has locked. *)
LEMMA Acquiring ==
  ASSUME IInv, NEW t \in Task, OnlyMoves(t), value' = value, held[t] \subseteq held'[t],
         \A lock \in held'[t] \ held[t] : FreeFor(t, lock[1], lock[2]),
         \A w \in wrote'[t] \ wrote[t] : <<w[1], "row">> \in held'[t] \/ <<w[1], "insert">> \in held'[t],
         \A a \in Attempt :
            /\ \A mode \in {"row", "update"} : <<Row(a), mode>> \in held'[t] \ held[t] => value[Row(a)] = "pending"
            /\ <<Key(a), "insert">> \in held'[t] \ held[t] => value[Key(a)] # "pending",
         HasPlace(t)'
  PROVE  IInv'
<1>1. /\ TypeOK /\ LocksExclude /\ WritesAreLocked /\ LocksAreGrounded /\ RowsAgree
      /\ \A u \in Task : HasPlace(u)
  BY Parts
<1>2. \A u \in Task \ {t} : /\ todo'[u] = todo[u] /\ held'[u] = held[u]
                            /\ wrote'[u] = wrote[u] /\ conns'[u] = conns[u]
  BY DEF OnlyMoves
<1>3. \A u \in Task : held[u] \subseteq held'[u]
  BY <1>2
<1>4. TypeOK'
  BY <1>1, TypesAre DEF OnlyMoves, TypeOK, Rows, Modes
<1>5. \A u \in Task : HasPlace(u)'
  BY <1>1, <1>2, OthersKeepTheirPlace
<1>6. LocksExclude'
  <2> SUFFICES ASSUME NEW u \in Task, NEW v \in Task, u # v,
                      NEW lock \in held'[u], NEW other \in held'[v], lock[1] = other[1]
               PROVE  ~Conflict(lock[2], other[2])
    BY DEF LocksExclude
  <2>1. CASE lock \in held[u] /\ other \in held[v]
    BY <1>1, <2>1 DEF LocksExclude
  <2>2. CASE lock \notin held[u]
    <3>1. u = t /\ other \in held[v] /\ v \in Task \ {t}
      BY <1>2, <2>2
    <3> QED BY <2>2, <3>1, ConflictIsMutual DEF FreeFor, HasAgainst
  <2>3. CASE other \notin held[v]
    <3>1. v = t /\ lock \in held[u] /\ u \in Task \ {t}
      BY <1>2, <2>3
    <3> QED BY <2>3, <3>1, ConflictIsMutual DEF FreeFor, HasAgainst
  <2> QED BY <2>1, <2>2, <2>3
<1>7. WritesAreLocked'
  BY <1>1, <1>2, <1>3 DEF WritesAreLocked
<1>8. LocksAreGrounded'
  BY <1>1, <1>2 DEF LocksAreGrounded
<1>9. RowsAgree'
  BY <1>1 DEF RowsAgree
<1> QED
  BY <1>4, <1>5, <1>6, <1>7, <1>8, <1>9 DEF IInv, KnowsItsPlace, HasPlace

(* t has nothing any more; the rows that change are ones it wrote. *)
LEMMA Ending ==
  ASSUME IInv, NEW t \in Task, OnlyMoves(t), held'[t] = {}, wrote'[t] = {},
         value' \in [Valued -> Status],
         \A row \in Valued : value'[row] # value[row] => \E v \in Status : <<row, v>> \in wrote[t],
         RowsAgree',
         HasPlace(t)'
  PROVE  IInv'
<1>1. /\ TypeOK /\ LocksExclude /\ WritesAreLocked /\ LocksAreGrounded /\ RowsAgree
      /\ \A u \in Task : HasPlace(u)
  BY Parts
<1>3. \A u \in Task \ {t} : /\ todo'[u] = todo[u] /\ held'[u] = held[u]
                            /\ wrote'[u] = wrote[u] /\ conns'[u] = conns[u]
  BY DEF OnlyMoves
<1>4. TypeOK'
  BY <1>1, TypesAre DEF OnlyMoves, TypeOK, Rows, Modes
<1>5. ASSUME NEW u \in Task \ {t}, NEW row \in Valued,
             <<row, "row">> \in held[u] \/ <<row, "update">> \in held[u] \/ <<row, "insert">> \in held[u]
      PROVE  value'[row] = value[row]
  <2> SUFFICES ASSUME NEW v \in Status, <<row, v>> \in wrote[t] PROVE FALSE
    OBVIOUS
  <2>1. <<row, "row">> \in held[t] \/ <<row, "insert">> \in held[t]
    BY <1>1 DEF WritesAreLocked
  <2>2. \A m, n : <<row, m>> \in held[u] /\ <<row, n>> \in held[t] => ~Conflict(m, n)
    BY <1>1 DEF LocksExclude
  <2>3. \A m \in {"row", "update", "insert"}, n \in {"row", "insert"} : Conflict(m, n)
    BY DEF Conflict
  <2> QED BY <1>5, <2>1, <2>2, <2>3
<1>6. \A u \in Task : HasPlace(u)'
  BY <1>1, <1>3, <1>5, OthersKeepTheirPlace
<1>7. LocksExclude'
  BY <1>1, <1>3 DEF LocksExclude
<1>8. WritesAreLocked'
  BY <1>1, <1>3 DEF WritesAreLocked
<1>9. LocksAreGrounded'
  <2>1. \A a \in Attempt : Row(a) \in Valued /\ Key(a) \in Valued
    BY DEF Valued, AttemptRows
  <2> SUFFICES ASSUME NEW u \in Task, NEW a \in Attempt
               PROVE  /\ \A mode \in {"row", "update"} : <<Row(a), mode>> \in held'[u] => value'[Row(a)] = "pending"
                      /\ <<Key(a), "insert">> \in held'[u] => value'[Key(a)] # "pending"
    BY DEF LocksAreGrounded
  <2>2. CASE u = t
    BY <1>3, <2>2
  <2>3. CASE u # t
    <3>1. held'[u] = held[u] /\ u \in Task \ {t}
      BY <1>3, <2>3
    <3>2. /\ \A mode \in {"row", "update"} : <<Row(a), mode>> \in held[u] => value[Row(a)] = "pending"
          /\ <<Key(a), "insert">> \in held[u] => value[Key(a)] # "pending"
      BY <1>1 DEF LocksAreGrounded
    <3> QED BY <1>5, <2>1, <3>1, <3>2
  <2> QED BY <2>2, <2>3
<1> QED
  BY <1>4, <1>6, <1>7, <1>8, <1>9 DEF IInv, KnowsItsPlace, HasPlace

(* t goes on without taking, writing or giving back anything. *)
LEMMA Moving ==
  ASSUME IInv, NEW t \in Task, NEW next, NEW c \in {0, 1},
         todo' = [todo EXCEPT ![t] = next], conns' = [conns EXCEPT ![t] = c],
         UNCHANGED <<held, wrote, value>>
  PROVE  /\ todo'[t] = next /\ conns'[t] = c
         /\ HasPlace(t)' => IInv'
<1>1. /\ DOMAIN todo = Task /\ held \in [Task -> SUBSET (Rows \X Modes)]
      /\ wrote \in [Task -> SUBSET (Valued \X Status)] /\ conns \in [Task -> {0, 1}]
  BY Parts, TypesAre
<1>2. OnlyMoves(t)
  BY <1>1 DEF OnlyMoves
<1> QED
  BY <1>1, <1>2, Acquiring

-----------------------------------------------------------------------------
(* The actions, one by one *)

LEMMA BeginsKeeps ==
  ASSUME IInv, NEW t \in Task, Begins(t)
  PROVE  IInv'
<1>1. TypeOK /\ HasPlace(t)
  BY Parts
<1>2. IsIdle(t)
  BY <1>1, LeavingMeans, FollowingMeans DEF HasPlace, Begins
<1>3. PICK p \in Programs({a \in Attempt : value[Row(a)] # "absent"}) : todo' = [todo EXCEPT ![t] = p]
  BY DEF Begins
<1>4. p \in Programs(Attempt)
  <2>1. {a \in Attempt : value[Row(a)] # "absent"} \subseteq Attempt
    OBVIOUS
  <2>2. \A S \in SUBSET Attempt : Programs(S) \subseteq Programs(Attempt)
    BY DEF Programs
  <2> QED BY <2>1, <2>2
<1>5. HasShape(p)
  BY <1>4, ProgramsAreSafe
<1>6. /\ todo'[t] = p /\ UNCHANGED <<held, wrote, conns, value>>
      /\ conns' = [conns EXCEPT ![t] = 0]
  BY <1>1, <1>2, <1>3, TypesAre DEF Begins, IsIdle
<1>7. Follows(t, p, 0)' /\ 0 \in 0 .. Len(p) - 1
  <2>1. \A i \in 1 .. 0 : FALSE
    OBVIOUS
  <2>2. held'[t] = {} /\ wrote'[t] = {} /\ conns'[t] = 0
    BY <1>2, <1>6 DEF IsIdle
  <2> QED BY <1>5, <1>6, <2>1, <2>2 DEF Follows, HasShape
<1>8. HasPlace(t)'
  BY <1>4, <1>7 DEF HasPlace
<1> QED
  BY <1>3, <1>6, <1>8, Moving

LEMMA ConnectKeeps ==
  ASSUME IInv, NEW t \in Task, Connect(t)
  PROVE  IInv'
<1>1. TypeOK /\ HasPlace(t) /\ conns \in [Task -> {0, 1}]
  BY Parts, TypesAre
<1>2. /\ todo[t] # <<>> /\ Statement(t).op = "begin" /\ todo' = [todo EXCEPT ![t] = Tail(todo[t])]
      /\ conns' = [conns EXCEPT ![t] = conns[t] + 1] /\ UNCHANGED <<held, wrote, value>>
  BY DEF Connect, At, Statement
<1>3. conns[t] = 0 => /\ todo'[t] = Tail(todo[t]) /\ conns'[t] = 1 /\ held'[t] = held[t] /\ wrote'[t] = wrote[t]
                      /\ HasPlace(t)' => IInv'
  <2> SUFFICES ASSUME conns[t] = 0
               PROVE  /\ todo'[t] = Tail(todo[t]) /\ conns'[t] = 1 /\ held'[t] = held[t] /\ wrote'[t] = wrote[t]
                      /\ HasPlace(t)' => IInv'
    OBVIOUS
  <2>1. conns' = [conns EXCEPT ![t] = 1] /\ todo' = [todo EXCEPT ![t] = Tail(todo[t])]
        /\ UNCHANGED <<held, wrote, value>>
    BY <1>2
  <2>2. todo'[t] = Tail(todo[t]) /\ conns'[t] = 1 /\ (HasPlace(t)' => IInv')
    BY <2>1, Moving
  <2> QED BY <2>1, <2>2
<1>5. ~IsIdle(t)
  BY <1>2 DEF IsIdle
<1>6. CASE Leaves(t)
  <2>1. Tail(todo[t]) = <<Commit>> /\ held[t] = {} /\ wrote[t] = {} /\ conns[t] = 0
    BY <1>2, <1>6, LeavingMeans
  <2>2. todo'[t] = <<Commit>> /\ held'[t] = {} /\ wrote'[t] = {} /\ conns'[t] = 1
    BY <1>3, <2>1
  <2>3. Leaves(t)'
    BY <2>2, WayOut DEF Leaves, At
  <2>4. HasPlace(t)'
    BY <2>3 DEF HasPlace
  <2> QED BY <1>3, <2>1, <2>4
<1>7. ASSUME NEW p \in Programs(Attempt), NEW n \in 0 .. Len(p) - 1, Follows(t, p, n)
      PROVE  IInv'
  <2>1. n = 0 /\ HasShape(p) /\ Tail(todo[t]) = After(p, 1)
    <3>1. n = 0 /\ HasShape(p) /\ Tail(todo[t]) = After(p, n + 1)
      BY <1>2, <1>7, FollowingMeans
    <3> QED BY <3>1
  <2>2. Len(p) \in Nat /\ 1 \in 0 .. Len(p) - 1 /\ p[1] = Begin
    BY <2>1 DEF HasShape
  <2>3. \A i : (i \in 1 .. 1 => i = 1) /\ (i \in 1 .. 0 => FALSE) /\ (i \in 1 .. 0 + 1 => i = 1)
    OBVIOUS
  <2>4. LocksOf(p[1]) = {} /\ WritesOf(p[1]) = {} /\ p[1].op = "begin"
    BY <2>2, Begin_Commit
  <2>5. held[t] = {} /\ wrote[t] = {} /\ conns[t] = 0
    BY <1>7, <2>1, <2>3, <2>4 DEF Follows
  <2>6. todo'[t] = After(p, 1) /\ held'[t] = {} /\ wrote'[t] = {} /\ conns'[t] = 1
    BY <1>3, <2>1, <2>5
  <2>7. Follows(t, p, 1)'
    BY <2>3, <2>4, <2>6 DEF Follows
  <2>8. HasPlace(t)'
    BY <2>2, <2>7 DEF HasPlace
  <2> QED BY <1>3, <2>5, <2>8
<1> QED
  BY <1>1, <1>5, <1>6, <1>7 DEF HasPlace

LEMMA LockRowKeeps ==
  ASSUME IInv, NEW t \in Task, LockRow(t)
  PROVE  IInv'
<1>1. /\ DOMAIN todo = Task /\ held \in [Task -> SUBSET (Rows \X Modes)]
      /\ wrote \in [Task -> SUBSET (Valued \X Status)] /\ conns \in [Task -> {0, 1}]
  BY Parts, TypesAre
<1>2. At(t, {"lock", "cas"}) /\ At(t, {"lock", "cas", "skip", "insert"}) /\ Statement(t).op \in {"lock", "cas"}
      /\ UNCHANGED <<conns, value>>
  BY DEF LockRow, At, Statement
<1>3. PICK p, n : IsDoing(t, p, n)
  BY <1>2, WhoIsDoing DEF IInv
<1> DEFINE s == p[n + 1]
           mode == s.mode
<1>4. /\ Statement(t) = s /\ s.op \in {"lock", "cas"} /\ IsStatement(s) /\ IsSafe(p, n + 1)
      /\ Tail(todo[t]) = After(p, n + 1) /\ Follows(t, p, n) /\ p \in Programs(Attempt)
      /\ n \in 0 .. Len(p) - 1
  <2>1. /\ Statement(t) = s /\ IsSafe(p, n + 1) /\ Tail(todo[t]) = After(p, n + 1) /\ Follows(t, p, n)
        /\ p \in Programs(Attempt)
    BY <1>3 DEF IsDoing
  <2>2. n \in 0 .. Len(p) - 1
    BY <1>3 DEF IsDoing
  <2>3. IsStatement(s)
    BY <2>1 DEF IsSafe
  <2> HIDE DEF s
  <2> QED BY <1>2, <2>1, <2>2, <2>3
<1>5. PICK rows \in IF Wanted(t) = {} THEN {{}} ELSE {{row} : row \in Wanted(t)} :
          /\ \A row \in rows : FreeFor(t, row, mode)
          /\ held' = [held EXCEPT ![t] = @ \cup (rows \X {mode})]
          /\ todo' = IF Wanted(t) = rows THEN [todo EXCEPT ![t] = Tail(@)] ELSE todo
  BY <1>4 DEF LockRow
<1>6. wrote' = IF At(t, {"cas"}) THEN [wrote EXCEPT ![t] = @ \cup {<<s.row, s.to>>}] ELSE wrote
  BY <1>4 DEF LockRow
<1>7. rows \subseteq Wanted(t) /\ Wanted(t) \subseteq s.rows /\ s.rows \subseteq Rows /\ mode \in Modes
      /\ LocksOf(s) = s.rows \X {mode}
  BY <1>4, <1>5 DEF Wanted, IsStatement, Rows, Modes, LocksOf
<1>8. At(t, {"cas"}) <=> s.op = "cas"
  BY <1>2, <1>4 DEF At, Statement
<1>9. s.op = "cas" => /\ s.row \in Valued /\ s.to \in Status /\ s.rows = {s.row} /\ mode = "row"
                      /\ value[s.row] \in s.from
  <2>1. Hit(t)
    BY DEF LockRow
  <2> QED BY <1>4, <2>1 DEF IsStatement, Hit
<1>10. /\ held'[t] = held[t] \cup (rows \X {mode}) /\ held' \in [Task -> SUBSET (Rows \X Modes)]
       /\ \A u \in Task \ {t} : held'[u] = held[u]
  <2>1. rows \X {mode} \subseteq Rows \X Modes
    BY <1>7
  <2> HIDE DEF mode, s
  <2> QED BY <1>1, <1>5, <2>1
<1>11. WritesOf(s) = IF s.op = "cas" THEN {<<s.row, s.to>>} ELSE {}
  BY <1>4 DEF WritesOf
<1>12. /\ wrote'[t] = wrote[t] \cup WritesOf(s) /\ wrote' \in [Task -> SUBSET (Valued \X Status)]
       /\ \A u \in Task \ {t} : wrote'[u] = wrote[u]
  <2>1. s.op = "cas" => <<s.row, s.to>> \in Valued \X Status
    BY <1>9
  <2> HIDE DEF mode, s
  <2> QED BY <1>1, <1>6, <1>8, <1>11, <2>1
<1>13. DOMAIN todo' = Task /\ (\A u \in Task \ {t} : todo'[u] = todo[u])
       /\ todo'[t] = IF Wanted(t) = rows THEN Tail(todo[t]) ELSE todo[t]
  BY <1>1, <1>5
<1>14. OnlyMoves(t)
  BY <1>1, <1>2, <1>10, <1>12, <1>13 DEF OnlyMoves
<1>15. s.op = "cas" => Wanted(t) = rows
  <2>1. Wanted(t) \subseteq {s.row} \/ s.op # "cas"
    BY <1>7, <1>9
  <2> HIDE DEF mode, s
  <2> QED BY <1>5, <2>1
<1>16. held[t] \subseteq held'[t] /\ held'[t] \subseteq held[t] \cup LocksOf(s)
  BY <1>7, <1>10
<1>17. HasPlace(t)'
  <2>1. CASE Wanted(t) = rows
    <3>1. LocksOf(s) \subseteq held'[t]
      <4>1. \A row \in s.rows : <<row, mode>> \in held[t] \/ row \in rows
        BY <1>4, <2>1 DEF Wanted
      <4> HIDE DEF mode, s
      <4> QED BY <1>7, <1>10, <4>1
    <3>2. todo'[t] = Tail(todo[t]) /\ conns'[t] = conns[t] /\ value' = value
      BY <1>2, <1>13, <2>1
    <3> QED BY <1>3, <1>9, <1>12, <1>16, <3>1, <3>2, Advances
  <2>2. CASE Wanted(t) # rows
    <3>1. s.op = "lock" /\ wrote'[t] = wrote[t] /\ todo'[t] = todo[t]
          /\ conns'[t] = conns[t] /\ value' = value
      BY <1>2, <1>4, <1>11, <1>12, <1>13, <1>15, <2>2
    <3>2. n + 1 \in 1 .. n + 1 /\ \A i \in 1 .. n : i \in 1 .. n + 1 /\ i # n + 1
      BY <1>3 DEF IsDoing
    <3>3. \A lock \in held'[t] : \E i \in 1 .. n + 1 : lock \in LocksOf(p[i]) /\ (i = n + 1 => p[i].op = "lock")
      <4>1. \A lock \in held[t] : \E i \in 1 .. n + 1 : lock \in LocksOf(p[i]) /\ (i = n + 1 => p[i].op = "lock")
        BY <1>4 DEF Follows
      <4> QED BY <1>16, <3>1, <3>2, <4>1
    <3>4. \A i \in 1 .. n : p[i].op # "skip" => LocksOf(p[i]) \subseteq held'[t]
      BY <1>4, <1>16 DEF Follows
    <3>5. Follows(t, p, n)'
      BY <1>4, <3>1, <3>3, <3>4 DEF Follows
    <3> QED BY <1>4, <3>5 DEF HasPlace
  <2> QED BY <2>1, <2>2
<1>18. \A lock \in held'[t] \ held[t] : FreeFor(t, lock[1], lock[2]) /\ lock \in LocksOf(s)
  BY <1>5, <1>7, <1>10
<1>19. \A w \in wrote'[t] \ wrote[t] : <<w[1], "row">> \in held'[t] \/ <<w[1], "insert">> \in held'[t]
  <2>1. s.op = "cas" => <<s.row, "row">> \in held'[t]
    <3>1. s.op = "cas" => <<s.row, "row">> \in held[t] \/ s.row \in rows
      BY <1>4, <1>9, <1>15 DEF Wanted
    <3> HIDE DEF s
    <3> QED BY <1>9, <1>10, <3>1
  <2> HIDE DEF s
  <2> QED BY <1>11, <1>12, <2>1
<1>20. \A a \in Attempt :
          /\ \A m \in {"row", "update"} : <<Row(a), m>> \in held'[t] \ held[t] => value[Row(a)] = "pending"
          /\ <<Key(a), "insert">> \in held'[t] \ held[t] => value[Key(a)] # "pending"
  <2> SUFFICES ASSUME NEW a \in Attempt
               PROVE  /\ <<Row(a), "row">> \in LocksOf(s) => value[Row(a)] = "pending"
                      /\ <<Row(a), "update">> \notin LocksOf(s)
                      /\ <<Key(a), "insert">> \notin LocksOf(s)
    BY <1>18
  <2>1. <<Row(a), "row">> \in LocksOf(s) => s.op = "cas" /\ s.from = {"pending"} /\ Row(a) \in s.rows
    BY <1>4, <1>7 DEF IsSafe
  <2> QED BY <1>4, <1>9, <2>1 DEF IsSafe
<1> QED
  BY <1>2, <1>14, <1>16, <1>17, <1>18, <1>19, <1>20, Acquiring

(* On the way out t has a connection, and no attempt that it has inserted. *)
LEMMA TurnsBack ==
  ASSUME IInv, NEW t \in Task, NEW p, NEW n, IsDoing(t, p, n), p[n + 1].op \in {"cas", "insert"},
         NEW next \in {<<Rollback>>, AlreadySettled, <<Commit>>},
         next = <<Commit>> => wrote[t] \subseteq {<<Key(a), "pending">> : a \in Attempt},
         todo' = [todo EXCEPT ![t] = next], UNCHANGED <<held, wrote, conns, value>>
  PROVE  IInv'
<1>1. conns[t] = 1 /\ conns \in [Task -> {0, 1}]
  <2>1. conns[t] = IF n = 0 THEN 0 ELSE 1
    BY DEF IsDoing, Follows
  <2>2. n # 0
    BY DEF IsDoing
  <2> QED BY <2>1, <2>2, Parts, TypesAre
<1>2. todo'[t] = next /\ conns'[t] = 1 /\ (HasPlace(t)' => IInv')
  <2>1. conns' = [conns EXCEPT ![t] = 1]
    BY <1>1
  <2> QED BY <2>1, Moving
<1>3. \A a \in Attempt : <<Row(a), "insert">> \notin held[t]
  <2> SUFFICES ASSUME NEW a \in Attempt, <<Row(a), "insert">> \in held[t] PROVE FALSE
    OBVIOUS
  <2>1. PICK i \in 1 .. n + 1 : <<Row(a), "insert">> \in LocksOf(p[i]) /\ (i = n + 1 => p[i].op = "lock")
    BY DEF IsDoing, Follows
  <2>2. i \in 1 .. (n + 1) - 1
    <3>1. i # n + 1
      BY <2>1
    <3> QED BY <3>1 DEF IsDoing
  <2> QED BY <2>1, <2>2 DEF IsDoing, IsSafe
<1>4. Leaves(t)'
  <2>1. next # <<>> /\ Head(next).op # "begin" /\ (Head(next).op = "commit" => next = <<Commit>>)
    BY WayOut
  <2>2. /\ todo'[t] \in {<<Rollback>>, AlreadySettled, Tail(AlreadySettled), <<Commit>>}
        /\ wrote' = wrote /\ held' = held
    BY <1>2
  <2> QED BY <1>2, <1>3, <2>1, <2>2 DEF Leaves, At
<1> QED
  BY <1>2, <1>4 DEF HasPlace

LEMMA MissKeeps ==
  ASSUME IInv, NEW t \in Task, Miss(t)
  PROVE  IInv'
<1>1. /\ At(t, {"lock", "cas", "skip", "insert"}) /\ Statement(t).op = "cas"
      /\ todo' = [todo EXCEPT ![t] = Statement(t).otherwise[value[Statement(t).row]]]
      /\ UNCHANGED <<held, wrote, conns, value>>
  BY DEF Miss, At, Statement
<1>2. PICK p, n : IsDoing(t, p, n)
  BY <1>1, WhoIsDoing DEF IInv
<1> DEFINE s == p[n + 1]
           next == s.otherwise[value[s.row]]
<1>3. Statement(t) = s /\ s.op = "cas" /\ IsSafe(p, n + 1)
  BY <1>1, <1>2 DEF IsDoing
<1>4. s.row \in Valued /\ \A v \in Status : s.otherwise[v] \in {<<Rollback>>, AlreadySettled, <<Commit>>}
  BY <1>3 DEF IsSafe, IsStatement
<1>5. value[s.row] \in Status
  BY <1>4, Parts, TypesAre
<1>6. next \in {<<Rollback>>, AlreadySettled, <<Commit>>}
  BY <1>4, <1>5
<1>7. next = <<Commit>> => wrote[t] \subseteq {<<Key(a), "pending">> : a \in Attempt}
  <2> SUFFICES ASSUME next = <<Commit>>, NEW w \in wrote[t]
               PROVE  w \in {<<Key(a), "pending">> : a \in Attempt}
    OBVIOUS
  <2>1. <<Commit>> \notin {<<Rollback>>, AlreadySettled}
    <3>1. Head(<<Commit>>).op = "commit" /\ Head(<<Rollback>>).op = "rollback" /\ Head(AlreadySettled).op = "rollback"
      BY WayOut
    <3> QED BY <3>1
  <2>2. \A j \in 1 .. (n + 1) - 1 : WritesOf(p[j]) \subseteq {<<Key(a), "pending">> : a \in Attempt}
    BY <1>3, <1>5, <2>1 DEF IsSafe
  <2>3. PICK i \in 1 .. n : w \in WritesOf(p[i])
    BY <1>2 DEF IsDoing, Follows
  <2>4. i \in 1 .. (n + 1) - 1
    BY <1>2 DEF IsDoing
  <2> QED BY <2>2, <2>3, <2>4
<1>8. todo' = [todo EXCEPT ![t] = next]
  BY <1>1, <1>3
<1> HIDE DEF next
<1> QED
  BY <1>1, <1>2, <1>3, <1>6, <1>7, <1>8, TurnsBack

LEMMA InsertRowKeeps ==
  ASSUME IInv, NEW t \in Task, InsertRow(t)
  PROVE  IInv'
<1>1. /\ DOMAIN todo = Task /\ held \in [Task -> SUBSET (Rows \X Modes)]
      /\ wrote \in [Task -> SUBSET (Valued \X Status)] /\ conns \in [Task -> {0, 1}]
  BY Parts, TypesAre
<1>2. /\ At(t, {"lock", "cas", "skip", "insert"}) /\ Statement(t).op = "insert"
      /\ UNCHANGED <<conns, value>>
  BY DEF InsertRow, At, Statement
<1>3. PICK p, n : IsDoing(t, p, n)
  BY <1>2, WhoIsDoing DEF IInv
<1> DEFINE s == p[n + 1]
<1>4. Statement(t) = s /\ s.op = "insert" /\ IsSafe(p, n + 1)
  BY <1>2, <1>3 DEF IsDoing
<1>5. s.row \in s.rows /\ s.rows \subseteq Valued /\ s.to = "pending"
  BY <1>4 DEF IsSafe, IsStatement
<1>6. CASE \E row \in s.rows : value[row] = "pending"
  <2>1. /\ todo' = [todo EXCEPT ![t] = <<Rollback>>] /\ UNCHANGED <<held, wrote, conns, value>>
    BY <1>2, <1>4, <1>6 DEF InsertRow
  <2>2. <<Rollback>> # <<Commit>>
    <3>1. Head(<<Commit>>).op = "commit" /\ Head(<<Rollback>>).op = "rollback"
      BY WayOut
    <3> QED BY <3>1
  <2> QED BY <1>3, <1>4, <2>1, <2>2, TurnsBack
<1>7. CASE \A row \in s.rows : value[row] # "pending"
  <2>1. /\ todo' = [todo EXCEPT ![t] = Tail(todo[t])]
        /\ held' = [held EXCEPT ![t] = @ \cup {<<s.row, "insert">>}]
        /\ wrote' = [wrote EXCEPT ![t] = @ \cup {<<s.row, "pending">>}]
    BY <1>4, <1>7 DEF InsertRow
  <2>2. LocksOf(s) = {<<s.row, "insert">>} /\ WritesOf(s) = {<<s.row, "pending">>}
    BY <1>4, <1>5 DEF LocksOf, WritesOf
  <2>3. <<s.row, "insert">> \in Rows \X Modes /\ <<s.row, "pending">> \in Valued \X Status
    BY <1>5 DEF Rows, Modes, Status
  <2>4. /\ held'[t] = held[t] \cup LocksOf(s) /\ wrote'[t] = wrote[t] \cup WritesOf(s)
        /\ todo'[t] = Tail(todo[t])
    BY <1>1, <2>1, <2>2
  <2>5. OnlyMoves(t)
    <3> HIDE DEF s
    <3> QED BY <1>1, <1>2, <2>1, <2>3 DEF OnlyMoves
  <2>6. HasPlace(t)'
    BY <1>2, <1>3, <1>4, <2>4, Advances
  <2>7. FreeFor(t, s.row, "insert")
    BY <1>4, <1>5 DEF InsertRow
  <2>8. \A a \in Attempt :
           /\ \A m \in {"row", "update"} : <<Row(a), m>> \in held'[t] \ held[t] => value[Row(a)] = "pending"
           /\ <<Key(a), "insert">> \in held'[t] \ held[t] => value[Key(a)] # "pending"
    BY <1>5, <1>7, <2>2, <2>4
  <2> QED BY <1>2, <2>2, <2>4, <2>5, <2>6, <2>7, <2>8, Acquiring
<1> QED
  BY <1>6, <1>7

LEMMA LockUnlockedKeeps ==
  ASSUME IInv, NEW t \in Task, LockUnlocked(t)
  PROVE  IInv'
<1>1. /\ DOMAIN todo = Task /\ held \in [Task -> SUBSET (Rows \X Modes)]
      /\ wrote \in [Task -> SUBSET (Valued \X Status)] /\ conns \in [Task -> {0, 1}]
  BY Parts, TypesAre
<1>2. /\ At(t, {"lock", "cas", "skip", "insert"}) /\ Statement(t).op = "skip"
      /\ todo' = [todo EXCEPT ![t] = Tail(todo[t])] /\ UNCHANGED <<wrote, conns, value>>
  BY DEF LockUnlocked, At, Statement
<1>3. PICK p, n : IsDoing(t, p, n)
  BY <1>2, WhoIsDoing DEF IInv
<1> DEFINE s == p[n + 1]
<1>4. Statement(t) = s /\ s.op = "skip" /\ IsSafe(p, n + 1)
  BY <1>2, <1>3 DEF IsDoing
<1>5. PICK rows \in SUBSET {row \in s.rows : value[row] = "pending" /\ FreeFor(t, row, "update")} :
          held' = [held EXCEPT ![t] = @ \cup (rows \X {"update"})]
  BY <1>4 DEF LockUnlocked
<1>6. s.rows \subseteq Valued /\ LocksOf(s) = s.rows \X {"update"} /\ WritesOf(s) = {}
  BY <1>4 DEF IsSafe, IsStatement, LocksOf, WritesOf
<1>7. rows \X {"update"} \subseteq Rows \X Modes /\ rows \X {"update"} \subseteq LocksOf(s)
  BY <1>5, <1>6 DEF Rows, Modes
<1>8. /\ held'[t] = held[t] \cup (rows \X {"update"}) /\ wrote'[t] = wrote[t]
      /\ todo'[t] = Tail(todo[t])
  BY <1>1, <1>2, <1>5
<1>9. OnlyMoves(t)
  BY <1>1, <1>2, <1>5, <1>7 DEF OnlyMoves
<1>10. HasPlace(t)'
  BY <1>2, <1>3, <1>4, <1>6, <1>7, <1>8, Advances
<1>11. \A lock \in held'[t] \ held[t] :
          lock[2] = "update" /\ value[lock[1]] = "pending" /\ FreeFor(t, lock[1], lock[2])
  BY <1>5, <1>8
<1>12. \A a \in Attempt :
          /\ \A m \in {"row", "update"} : <<Row(a), m>> \in held'[t] \ held[t] => value[Row(a)] = "pending"
          /\ <<Key(a), "insert">> \in held'[t] \ held[t] => value[Key(a)] # "pending"
  BY <1>11
<1> QED
  BY <1>2, <1>8, <1>9, <1>10, <1>11, <1>12, Acquiring

-----------------------------------------------------------------------------
(* What is committed *)

(* The programs that write a status; the others write none. *)
LEMMA WhoWrites ==
  ASSUME NEW p \in Programs(Attempt)
  PROVE  \/ \A i \in 1 .. Len(p) - 1 : WritesOf(p[i]) = {}
         \/ p = VoidInvoice
         \/ \E a \in Attempt : p = ClaimInvoice(a)
         \/ \E a \in Attempt : \E to \in {"open", "paid"} : p = SettleAttempt(a, to)
         \/ \E a \in Attempt : p = Alone(CompareAndSet(Row(a), {"pending"}, "pending", Always(<<Rollback>>)))
<1>1. CASE p = CreateInvoice
  <2>1. \A i \in 1 .. 6 - 1 : i = 1 \/ i = 2 \/ i = 3 \/ i = 4 \/ i = 5
    OBVIOUS
  <2> QED BY <1>1, <2>1, CreateInvoiceText, Begin_Commit, LockMeans, ReferencesMean
<1>2. CASE p \in {CreateEndpoint, DisableEndpoint, RevokeApiKey}
  <2>1. \A i \in 1 .. 4 - 1 : i = 1 \/ i = 2 \/ i = 3
    OBVIOUS
  <2>2. Len(p) = 4 /\ WritesOf(p[1]) = {} /\ WritesOf(p[2]) = {} /\ WritesOf(p[3]) = {}
    BY <1>2, CreateEndpointText, DisableEndpointText, RevokeApiKeyText, Begin_Commit, LockMeans, ReferencesMean
  <2> QED BY <2>1, <2>2
<1>3. ASSUME NEW s \in LoneStatements, p = Alone(s)
      PROVE  \/ \A i \in 1 .. Len(p) - 1 : WritesOf(p[i]) = {}
             \/ \E a \in Attempt : p = Alone(CompareAndSet(Row(a), {"pending"}, "pending", Always(<<Rollback>>)))
  <2>1. \A i \in 1 .. 3 - 1 : i = 1 \/ i = 2
    OBVIOUS
  <2>2. \/ WritesOf(s) = {}
        \/ \E a \in Attempt : s = CompareAndSet(Row(a), {"pending"}, "pending", Always(<<Rollback>>))
    <3>1. \A rows : WritesOf(References(rows)) = {} /\ WritesOf(SkipLocked(rows)) = {} /\ WritesOf(Lock(rows, "row")) = {}
      BY LockMeans, ReferencesMean, SkipMeans
    <3> QED BY <3>1 DEF LoneStatements
  <2>3. WritesOf(s) = {} => \A i \in 1 .. Len(p) - 1 : WritesOf(p[i]) = {}
    BY <1>3, <2>1, AloneText, Begin_Commit
  <2> QED BY <1>3, <2>2, <2>3
<1> QED
  BY <1>1, <1>2, <1>3, ProgramCases

LEMMA CommitsAgree ==
  ASSUME IInv, NEW t \in Task, NEW p \in Programs(Attempt), Follows(t, p, Len(p) - 1),
         \A row \in Valued : value'[row] = value[row] \/ <<row, value'[row]>> \in wrote[t],
         \A row \in Valued, v \in Status : <<row, v>> \in wrote[t] => <<row, value'[row]>> \in wrote[t]
  PROVE  RowsAgree'
<1> DEFINE n == Len(p) - 1
<1>1. /\ \A w \in wrote[t] : \E i \in 1 .. n : w \in WritesOf(p[i])
      /\ \A i \in 1 .. n : WritesOf(p[i]) \subseteq wrote[t]
      /\ \A i \in 1 .. n : p[i].op = "cas" => value[p[i].row] \in p[i].from
  BY DEF Follows
<1> HIDE DEF n
<1>2. RowsAgree
  BY DEF IInv
<1>3. /\ Invoice \in Valued /\ \A a \in Attempt : Row(a) \in Valued /\ Key(a) \in Valued
      /\ \A a \in Attempt : Row(a) # Invoice /\ Key(a) # Invoice
      /\ \A a, b \in Attempt : Row(a) # Key(b) /\ (Row(a) = Row(b) => a = b) /\ (Key(a) = Key(b) => a = b)
  BY RowsDiffer DEF Valued, AttemptRows
<1>4. CASE \A i \in 1 .. n : WritesOf(p[i]) = {}
  <2>1. \A row \in Valued : value'[row] = value[row]
    BY <1>1, <1>4
  <2> QED BY <1>2, <1>3, <2>1 DEF RowsAgree
<1>5. CASE p = VoidInvoice
  <2>1. /\ n = 5 /\ p[1] = Begin /\ p[2] = CompareAndSet(Invoice, {"open"}, "void", Always(<<Rollback>>))
        /\ p[3] = Lock({Business}, "row") /\ p[4] = References({Business}) /\ p[5] = References({Endpoint})
    BY <1>5, VoidInvoiceText DEF n
  <2>2. 2 \in 1 .. 5 /\ \A i \in 1 .. 5 : i = 1 \/ i = 2 \/ i = 3 \/ i = 4 \/ i = 5
    OBVIOUS
  <2>3. p[2].op = "cas" /\ p[2].row = Invoice /\ p[2].from = {"open"} /\ WritesOf(p[2]) = {<<Invoice, "void">>}
    BY <2>1, CasMeans
  <2>4. value[Invoice] = "open"
    BY <1>1, <2>1, <2>2, <2>3
  <2>5. \A w \in wrote[t] : w = <<Invoice, "void">>
    <3>1. \A i \in 1 .. 5 : i # 2 => WritesOf(p[i]) = {}
      BY <2>1, <2>2, Begin_Commit, LockMeans, ReferencesMean
    <3> QED BY <1>1, <2>1, <2>3, <3>1
  <2>6. \A a \in Attempt : value'[Row(a)] = value[Row(a)] /\ value'[Key(a)] = value[Key(a)]
    BY <1>3, <2>5
  <2>7. \A a \in Attempt : value[Row(a)] # "pending"
    BY <1>2, <2>4 DEF RowsAgree
  <2> QED BY <1>2, <2>6, <2>7 DEF RowsAgree
<1>6. ASSUME NEW a \in Attempt, p = ClaimInvoice(a) PROVE RowsAgree'
  <2>1. /\ n = 6 /\ p[1] = Begin /\ p[2] = Insert(Key(a), {Key(a)}) /\ p[3] = References({Business})
        /\ p[4] = BeginPayment /\ p[5] = Insert(Row(a), AttemptRows) /\ p[6] = References({Business, Invoice})
    <3>1. Len(p) = 7
      BY <1>6, ClaimInvoiceText
    <3>2. n = 6
      BY <3>1 DEF n
    <3> QED BY <1>6, <3>2, ClaimInvoiceText
  <2>2. /\ 2 \in 1 .. 6 /\ 4 \in 1 .. 6 /\ 5 \in 1 .. 6
        /\ \A i \in 1 .. 6 : i = 1 \/ i = 2 \/ i = 3 \/ i = 4 \/ i = 5 \/ i = 6
    OBVIOUS
  <2>3. /\ WritesOf(p[2]) = {<<Key(a), "pending">>} /\ WritesOf(p[4]) = {<<Invoice, "processing">>}
        /\ WritesOf(p[5]) = {<<Row(a), "pending">>}
        /\ p[4].op = "cas" /\ p[4].row = Invoice /\ p[4].from = {"open"}
    BY <2>1, InsertMeans, BeginPaymentMeans
  <2>4. value[Invoice] = "open"
    BY <1>1, <2>1, <2>2, <2>3
  <2>5. /\ \A w \in wrote[t] : w \in {<<Key(a), "pending">>, <<Invoice, "processing">>, <<Row(a), "pending">>}
        /\ {<<Key(a), "pending">>, <<Invoice, "processing">>, <<Row(a), "pending">>} \subseteq wrote[t]
    <3>1. \A i \in 1 .. 6 : i \notin {2, 4, 5} => WritesOf(p[i]) = {}
      BY <2>1, <2>2, Begin_Commit, ReferencesMean
    <3>2. \A w \in wrote[t] : w \in WritesOf(p[2]) \/ w \in WritesOf(p[4]) \/ w \in WritesOf(p[5])
      BY <1>1, <2>1, <3>1
    <3>3. WritesOf(p[2]) \subseteq wrote[t] /\ WritesOf(p[4]) \subseteq wrote[t] /\ WritesOf(p[5]) \subseteq wrote[t]
      BY <1>1, <2>1, <2>2
    <3> QED BY <2>3, <3>2, <3>3
  <2>6. "processing" \in Status /\ "pending" \in Status
    BY DEF Status
  <2>7. value'[Invoice] = "processing" /\ value'[Row(a)] = "pending" /\ value'[Key(a)] = "pending"
    <3>1. <<Invoice, value'[Invoice]>> \in wrote[t] /\ <<Row(a), value'[Row(a)]>> \in wrote[t]
          /\ <<Key(a), value'[Key(a)]>> \in wrote[t]
      BY <1>3, <2>5, <2>6
    <3> QED BY <1>3, <2>5, <3>1
  <2>8. \A b \in Attempt \ {a} : value'[Row(b)] = value[Row(b)] /\ value'[Key(b)] = value[Key(b)]
    <3> SUFFICES ASSUME NEW b \in Attempt \ {a}
                 PROVE  value'[Row(b)] = value[Row(b)] /\ value'[Key(b)] = value[Key(b)]
      OBVIOUS
    <3>1. /\ Row(b) \in Valued /\ Row(b) # Invoice /\ Row(b) # Row(a) /\ Row(b) # Key(a)
          /\ Key(b) \in Valued /\ Key(b) # Invoice /\ Key(b) # Row(a) /\ Key(b) # Key(a)
      BY <1>3
    <3>2. \A w \in wrote[t] : w[1] # Row(b) /\ w[1] # Key(b)
      BY <2>5, <3>1
    <3> QED BY <3>1, <3>2
  <2>9. \A b \in Attempt : value[Row(b)] # "pending"
    BY <1>2, <2>4 DEF RowsAgree
  <2> QED BY <1>2, <2>7, <2>8, <2>9 DEF RowsAgree
<1>7. ASSUME NEW a \in Attempt, NEW to \in {"open", "paid"}, p = SettleAttempt(a, to) PROVE RowsAgree'
  <2>1. /\ n = 7 /\ p[1] = Begin
        /\ p[2] = CompareAndSet(Row(a), {"pending"}, "settled", Always(AlreadySettled))
        /\ p[3] = CompareAndSet(Invoice, {"processing"}, to, Always(<<Rollback>>))
        /\ p[4] = Lock({Business}, "row") /\ p[5] = References({Business})
        /\ p[6] = References({Endpoint}) /\ p[7] = Lock({Key(a)}, "row")
    <3>1. Len(p) = 8
      BY <1>7, SettleAttemptText
    <3>2. n = 7
      BY <3>1 DEF n
    <3> QED BY <1>7, <3>2, SettleAttemptText
  <2>2. /\ 2 \in 1 .. 7 /\ 3 \in 1 .. 7
        /\ \A i \in 1 .. 7 : i = 1 \/ i = 2 \/ i = 3 \/ i = 4 \/ i = 5 \/ i = 6 \/ i = 7
    OBVIOUS
  <2>3. /\ WritesOf(p[2]) = {<<Row(a), "settled">>} /\ WritesOf(p[3]) = {<<Invoice, to>>}
        /\ p[2].op = "cas" /\ p[2].row = Row(a) /\ p[2].from = {"pending"}
    BY <2>1, CasMeans
  <2>4. value[Row(a)] = "pending"
    BY <1>1, <2>1, <2>2, <2>3
  <2>5. /\ \A w \in wrote[t] : w \in {<<Row(a), "settled">>, <<Invoice, to>>}
        /\ <<Row(a), "settled">> \in wrote[t] /\ "settled" \in Status
    <3>1. \A i \in 1 .. 7 : i \notin {2, 3} => WritesOf(p[i]) = {}
      BY <2>1, <2>2, Begin_Commit, LockMeans, ReferencesMean
    <3>2. \A w \in wrote[t] : w \in WritesOf(p[2]) \/ w \in WritesOf(p[3])
      BY <1>1, <2>1, <3>1
    <3>3. WritesOf(p[2]) \subseteq wrote[t]
      BY <1>1, <2>1, <2>2
    <3> QED BY <2>3, <3>2, <3>3 DEF Status
  <2>6. value'[Row(a)] = "settled"
    <3>1. <<Row(a), value'[Row(a)]>> \in wrote[t]
      BY <1>3, <2>5
    <3> QED BY <1>3, <2>5, <3>1
  <2>7. /\ \A b \in Attempt : value'[Key(b)] = value[Key(b)]
        /\ \A b \in Attempt \ {a} : value'[Row(b)] = value[Row(b)]
    <3>1. \A w \in wrote[t] : w[1] = Row(a) \/ w[1] = Invoice
      BY <2>5
    <3>2. \A row \in Valued : row # Row(a) /\ row # Invoice => value'[row] = value[row]
      BY <3>1
    <3> QED BY <1>3, <3>2
  <2>8. value[Key(a)] = "pending" /\ \A b \in Attempt \ {a} : value[Row(b)] # "pending"
    BY <1>2, <2>4 DEF RowsAgree
  <2> QED BY <1>2, <2>6, <2>7, <2>8 DEF RowsAgree
<1>8. ASSUME NEW a \in Attempt,
             p = Alone(CompareAndSet(Row(a), {"pending"}, "pending", Always(<<Rollback>>)))
      PROVE  RowsAgree'
  <2>1. /\ n = 2 /\ p[1] = Begin
        /\ p[2] = CompareAndSet(Row(a), {"pending"}, "pending", Always(<<Rollback>>))
    <3>1. Len(p) = 3
      BY <1>8, AloneText
    <3>2. n = 2
      BY <3>1 DEF n
    <3> QED BY <1>8, <3>2, AloneText
  <2>2. 2 \in 1 .. 2 /\ \A i \in 1 .. 2 : i = 1 \/ i = 2
    OBVIOUS
  <2>3. /\ WritesOf(p[2]) = {<<Row(a), "pending">>}
        /\ p[2].op = "cas" /\ p[2].row = Row(a) /\ p[2].from = {"pending"}
    BY <2>1, CasMeans
  <2>4. value[Row(a)] = "pending"
    BY <1>1, <2>1, <2>2, <2>3
  <2>5. \A w \in wrote[t] : w = <<Row(a), "pending">>
    BY <1>1, <2>1, <2>2, <2>3, Begin_Commit
  <2>6. \A row \in Valued : value'[row] = value[row]
    BY <2>4, <2>5
  <2> QED BY <1>2, <1>3, <2>6 DEF RowsAgree
<1> QED
  BY <1>4, <1>5, <1>6, <1>7, <1>8, WhoWrites DEF n

LEMMA AbortsKeeps ==
  ASSUME IInv, NEW t \in Task, Aborts(t)
  PROVE  IInv'
<1>1. /\ DOMAIN todo = Task /\ held \in [Task -> SUBSET (Rows \X Modes)]
      /\ wrote \in [Task -> SUBSET (Valued \X Status)] /\ conns \in [Task -> {0, 1}]
      /\ value \in [Valued -> Status]
  BY Parts, TypesAre
<1>2. /\ held' = [held EXCEPT ![t] = {}] /\ wrote' = [wrote EXCEPT ![t] = {}]
      /\ conns' = [conns EXCEPT ![t] = 0] /\ todo' = [todo EXCEPT ![t] = <<>>] /\ value' = value
  BY DEF Aborts, Release
<1>3. OnlyMoves(t)
  BY <1>1, <1>2 DEF OnlyMoves
<1>4. HasPlace(t)'
  BY <1>1, <1>2 DEF HasPlace, IsIdle
<1>5. RowsAgree'
  BY <1>2 DEF IInv, RowsAgree
<1> QED
  BY <1>1, <1>2, <1>3, <1>4, <1>5, Ending

LEMMA EndsKeeps ==
  ASSUME IInv, NEW t \in Task, Ends(t)
  PROVE  IInv'
<1>1. /\ DOMAIN todo = Task /\ held \in [Task -> SUBSET (Rows \X Modes)]
      /\ wrote \in [Task -> SUBSET (Valued \X Status)] /\ conns \in [Task -> {0, 1}]
      /\ value \in [Valued -> Status] /\ HasPlace(t)
  BY Parts, TypesAre
<1>2. /\ held' = [held EXCEPT ![t] = {}] /\ wrote' = [wrote EXCEPT ![t] = {}]
      /\ conns' = [conns EXCEPT ![t] = conns[t] - 1] /\ todo' = [todo EXCEPT ![t] = Tail(todo[t])]
      /\ todo[t] # <<>> /\ Statement(t).op \in {"commit", "rollback"}
      /\ value' = [row \in DOMAIN value |->
                      IF At(t, {"commit"}) /\ \E v \in Status : <<row, v>> \in wrote[t]
                      THEN CHOOSE v \in Status : <<row, v>> \in wrote[t] ELSE value[row]]
  BY DEF Ends, Release, At, Statement
<1>3. \A row \in Valued :
         IF At(t, {"commit"}) /\ \E v \in Status : <<row, v>> \in wrote[t]
         THEN value'[row] \in Status /\ <<row, value'[row]>> \in wrote[t]
         ELSE value'[row] = value[row]
  <2> SUFFICES ASSUME NEW row \in Valued
               PROVE  IF At(t, {"commit"}) /\ \E v \in Status : <<row, v>> \in wrote[t]
                      THEN value'[row] \in Status /\ <<row, value'[row]>> \in wrote[t]
                      ELSE value'[row] = value[row]
    OBVIOUS
  <2>1. value'[row] = IF At(t, {"commit"}) /\ \E v \in Status : <<row, v>> \in wrote[t]
                      THEN CHOOSE v \in Status : <<row, v>> \in wrote[t] ELSE value[row]
    BY <1>1, <1>2
  <2>2. (\E v \in Status : <<row, v>> \in wrote[t]) =>
            LET c == CHOOSE v \in Status : <<row, v>> \in wrote[t] IN c \in Status /\ <<row, c>> \in wrote[t]
    OBVIOUS
  <2> QED BY <2>1, <2>2
<1>4. value' \in [Valued -> Status]
  <2>1. \A row \in Valued : value'[row] \in Status
    BY <1>1, <1>3
  <2>2. DOMAIN value' = Valued /\ value' = [row \in Valued |-> value'[row]]
    BY <1>1, <1>2
  <2> QED BY <2>1, <2>2
<1>5. /\ \A row \in Valued : value'[row] # value[row] => \E v \in Status : <<row, v>> \in wrote[t]
      /\ \A row \in Valued : value'[row] = value[row] \/ <<row, value'[row]>> \in wrote[t]
  BY <1>3
<1>6. At(t, {"commit"}) => \A row \in Valued, v \in Status : <<row, v>> \in wrote[t] => <<row, value'[row]>> \in wrote[t]
  BY <1>3
<1>7. ASSUME conns[t] = 1, Tail(todo[t]) \in {<<>>, Tail(AlreadySettled)}, RowsAgree'
      PROVE  IInv'
  <2>1. /\ held'[t] = {} /\ wrote'[t] = {} /\ conns'[t] = 0 /\ conns' = [conns EXCEPT ![t] = 0]
        /\ todo'[t] = Tail(todo[t])
    BY <1>1, <1>2, <1>7
  <2>2. OnlyMoves(t)
    BY <1>1, <1>2, <2>1 DEF OnlyMoves
  <2>3. CASE Tail(todo[t]) = <<>>
    <3>1. IsIdle(t)'
      BY <2>1, <2>3 DEF IsIdle
    <3>2. HasPlace(t)'
      BY <3>1 DEF HasPlace
    <3> QED BY <1>4, <1>5, <1>7, <2>1, <2>2, <3>2, Ending
  <2>4. CASE Tail(todo[t]) = Tail(AlreadySettled)
    <3>1. Leaves(t)'
      BY <2>1, <2>4, WayOut DEF Leaves, At
    <3>2. HasPlace(t)'
      BY <3>1 DEF HasPlace
    <3> QED BY <1>4, <1>5, <1>7, <2>1, <2>2, <3>2, Ending
  <2> QED BY <1>7, <2>3, <2>4
<1>8. RowsAgree /\ ~IsIdle(t)
  BY <1>2 DEF IInv, IsIdle
<1>9. CASE Leaves(t)
  <2>1. conns[t] = 1 /\ Tail(todo[t]) \in {<<>>, Tail(AlreadySettled)}
        /\ (Statement(t).op = "commit" => wrote[t] \subseteq {<<Key(a), "pending">> : a \in Attempt})
    BY <1>2, <1>9, LeavingMeans
  <2>2. \A a \in Attempt : value'[Key(a)] = value[Key(a)] \/ value'[Key(a)] = "pending"
    <3> SUFFICES ASSUME NEW a \in Attempt, value'[Key(a)] # value[Key(a)] PROVE value'[Key(a)] = "pending"
      OBVIOUS
    <3>1. Key(a) \in Valued
      BY DEF Valued
    <3>2. Statement(t).op = "commit" /\ <<Key(a), value'[Key(a)]>> \in wrote[t]
      BY <1>3, <3>1 DEF At, Statement
    <3> QED BY <2>1, <3>2
  <2>3. value'[Invoice] = value[Invoice] /\ \A a \in Attempt : value'[Row(a)] = value[Row(a)]
    <3> SUFFICES ASSUME NEW row \in {Invoice} \cup AttemptRows, value'[row] # value[row] PROVE FALSE
      BY DEF AttemptRows
    <3>1. row \in Valued /\ \A a \in Attempt : row # Key(a)
      BY RowsDiffer DEF Valued, AttemptRows
    <3>2. Statement(t).op = "commit" /\ <<row, value'[row]>> \in wrote[t]
      BY <1>3, <3>1 DEF At, Statement
    <3> QED BY <2>1, <3>1, <3>2
  <2>4. RowsAgree'
    BY <1>8, <2>2, <2>3 DEF RowsAgree
  <2> QED BY <1>7, <2>1, <2>4
<1>10. ASSUME NEW p \in Programs(Attempt), NEW n \in 0 .. Len(p) - 1, Follows(t, p, n)
       PROVE  IInv'
  <2>1. n = Len(p) - 1 /\ n # 0 /\ Statement(t).op = "commit" /\ Tail(todo[t]) = <<>>
    BY <1>2, <1>10, FollowingMeans
  <2>2. conns[t] = 1 /\ Follows(t, p, Len(p) - 1)
    BY <1>10, <2>1 DEF Follows
  <2>3. At(t, {"commit"})
    BY <1>2, <2>1 DEF At, Statement
  <2>4. RowsAgree'
    BY <1>5, <1>6, <2>2, <2>3, CommitsAgree
  <2> QED BY <1>7, <2>1, <2>2, <2>4
<1> QED
  BY <1>1, <1>8, <1>9, <1>10 DEF HasPlace

-----------------------------------------------------------------------------
LEMMA InitEstablishes == Init => IInv
<1> SUFFICES ASSUME Init PROVE IInv
  OBVIOUS
<1> USE DEF Init
<1>1. FirstValue \in [Valued -> Status]
  BY DEF FirstValue, Status
<1>2. \A a \in Attempt : FirstValue[Row(a)] = "absent"
  <2> SUFFICES ASSUME NEW a \in Attempt PROVE FirstValue[Row(a)] = "absent"
    OBVIOUS
  <2>1. Row(a) \in Valued /\ Row(a) # Invoice /\ Row(a) \notin DeliveryRows
    BY RowsDiffer, RowsAreDistinct DEF Valued, AttemptRows, DeliveryRows
  <2> QED BY <2>1 DEF FirstValue
<1>3. TypeOK
  BY <1>1, TypesAre
<1>4. \A t \in Task : HasPlace(t)
  BY DEF HasPlace, IsIdle
<1>5. LocksExclude /\ WritesAreLocked /\ LocksAreGrounded
  BY DEF LocksExclude, WritesAreLocked, LocksAreGrounded
<1>6. RowsAgree
  BY <1>2 DEF RowsAgree
<1> QED
  BY <1>3, <1>4, <1>5, <1>6, Parts

LEMMA StutterKeeps == IInv /\ UNCHANGED vars => IInv'
<1> SUFFICES ASSUME IInv, UNCHANGED vars PROVE IInv'
  OBVIOUS
<1>1. todo' = todo /\ held' = held /\ wrote' = wrote /\ conns' = conns /\ value' = value
  BY DEF vars
<1>2. \A t \in Task : HasPlace(t)'
  BY <1>1, Parts, OthersKeepTheirPlace
<1>3. TypeOK'
  BY <1>1 DEF IInv, TypeOK
<1>4. LocksExclude' /\ WritesAreLocked' /\ LocksAreGrounded' /\ RowsAgree'
  BY <1>1 DEF IInv, LocksExclude, WritesAreLocked, LocksAreGrounded, RowsAgree
<1> QED
  BY <1>2, <1>3, <1>4 DEF IInv, KnowsItsPlace, HasPlace

(* The inductive invariant: every task is at a place of its program with   *)
(* the locks and writes of what it has done, locks exclude each other, and *)
(* what they guard has not moved (db.rs, payments.rs, webhooks, events.rs).*)
THEOREM Invariance == Spec => []IInv
<1>1. IInv /\ [Next]_vars => IInv'
  <2> SUFFICES ASSUME IInv, Next PROVE IInv'
    BY StutterKeeps
  <2>1. PICK t \in Task : \/ Begins(t) \/ Connect(t) \/ LockRow(t) \/ Miss(t) \/ InsertRow(t)
                         \/ LockUnlocked(t) \/ Ends(t) \/ Aborts(t)
    BY DEF Next
  <2> QED BY <2>1, BeginsKeeps, ConnectKeeps, LockRowKeeps, MissKeeps, InsertRowKeeps,
             LockUnlockedKeeps, EndsKeeps, AbortsKeeps
<1> QED
  BY <1>1, InitEstablishes, PTL DEF Spec

-----------------------------------------------------------------------------
(* Who has a lock *)

LEMMA HeldMeans ==
  ASSUME NEW t, NEW p \in Programs(Attempt), NEW n \in 0 .. Len(p) - 1, Follows(t, p, n), NEW lock \in held[t]
  PROVE  \E i \in 2 .. Len(p) - 1 :
            /\ lock \in LocksOf(p[i]) /\ IsSafe(p, i)
            /\ i \in 1 .. n \/ (i = n + 1 /\ p[i].op = "lock")
<1>1. HasShape(p) /\ \A i \in 2 .. Len(p) - 1 : IsSafe(p, i)
  BY ProgramsAreSafe
<1>2. PICK i \in 1 .. n + 1 : lock \in LocksOf(p[i]) /\ (i = n + 1 => p[i].op = "lock")
  BY DEF Follows
<1>3. i # 1 /\ i # Len(p)
  BY <1>1, <1>2, Begin_Commit DEF HasShape
<1>4. Len(p) \in Nat
  BY <1>1 DEF HasShape
<1>5. i \in 2 .. Len(p) - 1 /\ (i \in 1 .. n \/ i = n + 1)
  BY <1>3, <1>4
<1> QED
  BY <1>1, <1>2, <1>5

(* Who has inserted an attempt has the invoice. *)
LEMMA InserterHasInvoice ==
  ASSUME KnowsItsPlace, NEW u \in Task, NEW a \in Attempt, <<Row(a), "insert">> \in held[u]
  PROVE  <<Invoice, "row">> \in held[u]
<1>1. ~IsIdle(u) /\ ~Leaves(u)
  BY DEF IsIdle, Leaves
<1>2. PICK p \in Programs(Attempt) : \E n \in 0 .. Len(p) - 1 : Follows(u, p, n)
  BY <1>1 DEF KnowsItsPlace
<1>3. PICK n \in 0 .. Len(p) - 1 : Follows(u, p, n)
  BY <1>2
<1>4. PICK i \in 2 .. Len(p) - 1 :
          /\ <<Row(a), "insert">> \in LocksOf(p[i]) /\ IsSafe(p, i)
          /\ i \in 1 .. n \/ (i = n + 1 /\ p[i].op = "lock")
  BY <1>3, HeldMeans
<1>5. p = ClaimInvoice(a) /\ i = 5
  BY <1>4 DEF IsSafe
<1>6. p[4] = BeginPayment /\ p[5].op = "insert"
  <2>1. ClaimInvoice(a)[4] = BeginPayment /\ ClaimInvoice(a)[5] = Insert(Row(a), AttemptRows)
    BY ClaimInvoiceText
  <2> QED BY <1>5, <2>1, InsertMeans
<1>7. 4 \in 1 .. n
  <2>1. 5 \in 1 .. n
    BY <1>4, <1>5, <1>6
  <2> QED BY <2>1
<1> QED
  BY <1>3, <1>6, <1>7, BeginPaymentMeans DEF Follows

(* Attempts are inserted by whoever has moved the invoice from open, so    *)
(* that none is pending; and whoever has one inserted, uncommitted, would  *)
(* have the invoice too.                                                   *)
LEMMA InsertIsAlone == IInv => BackstopStandsIdle
<1> SUFFICES ASSUME IInv, NEW t \in Task, At(t, {"insert"}), Statement(t).row \in AttemptRows,
                    NEW row \in AttemptRows
             PROVE  FreeFor(t, row, "row") /\ value[row] # "pending"
  BY DEF BackstopStandsIdle
<1>1. KnowsItsPlace /\ LocksExclude /\ LocksAreGrounded /\ RowsAgree /\ held \in [Task -> SUBSET (Rows \X Modes)]
  BY TypesAre DEF IInv
<1>2. At(t, {"lock", "cas", "skip", "insert"}) /\ Statement(t).op = "insert"
  BY DEF At, Statement
<1>3. PICK p, n : IsDoing(t, p, n)
  BY <1>1, <1>2, WhoIsDoing
<1>4. PICK a \in Attempt : Statement(t).row = Row(a)
  BY DEF AttemptRows
<1>5. p = ClaimInvoice(a) /\ n + 1 = 5
  <2>1. LocksOf(p[n + 1]) = {<<Row(a), "insert">>}
    BY <1>2, <1>3, <1>4 DEF IsDoing, LocksOf
  <2> QED BY <1>3, <2>1 DEF IsDoing, IsSafe
<1>6. n = 4 /\ 4 \in 1 .. n /\ p[4] = BeginPayment
  <2>1. n = 4
    BY <1>3, <1>5 DEF IsDoing
  <2>2. 4 \in 1 .. 4
    OBVIOUS
  <2>3. ClaimInvoice(a)[4] = BeginPayment
    BY ClaimInvoiceText
  <2> QED BY <1>5, <2>1, <2>2, <2>3
<1>7. <<Invoice, "row">> \in held[t] /\ value[Invoice] = "open"
  BY <1>3, <1>6, BeginPaymentMeans DEF IsDoing, Follows
<1>8. \A b \in Attempt : value[Row(b)] # "pending"
  BY <1>1, <1>7 DEF RowsAgree
<1>9. FreeFor(t, row, "row")
  <2> SUFFICES ASSUME NEW u \in Task \ {t}, NEW lock \in held[u], lock[1] = row, Conflict(lock[2], "row")
               PROVE  FALSE
    BY DEF FreeFor, HasAgainst
  <2>1. PICK b \in Attempt : row = Row(b)
    BY DEF AttemptRows
  <2>2. lock[2] \in {"row", "update", "insert"} /\ lock = <<Row(b), lock[2]>>
    <3>1. lock \in Rows \X Modes
      BY <1>1
    <3> QED BY <2>1, <3>1 DEF Modes, Conflict
  <2>3. lock[2] = "insert"
    <3> SUFFICES ASSUME lock[2] \in {"row", "update"} PROVE FALSE
      BY <2>2
    <3>1. <<Row(b), lock[2]>> \in held[u]
      BY <2>2
    <3>2. value[Row(b)] = "pending"
      BY <1>1, <3>1 DEF LocksAreGrounded
    <3> QED BY <1>8, <3>2
  <2>4. <<Invoice, "row">> \in held[u]
    BY <1>1, <2>2, <2>3, InserterHasInvoice
  <2>5. ~Conflict("row", "row")
    BY <1>1, <1>7, <2>4 DEF LocksExclude
  <2> QED BY <2>5 DEF Conflict
<1> QED
  BY <1>8, <1>9 DEF AttemptRows

(* BackstopStandsIdle: the unique indexes on attempts in flight never      *)
(* refuse an attempt or make one wait (migrations/0003; claim_invoice).    *)
THEOREM BackstopIsNeverNeeded == Spec => []BackstopStandsIdle
BY Invariance, InsertIsAlone, PTL

-----------------------------------------------------------------------------
(* The order of the locks.  Whoever waits for a row is on one of these     *)
(* levels, by what it wants and by what it has, shares aside, and each is  *)
(* waited for only from the levels before it; or it never waits.           *)

HasOnly(t, rows) == \A lock \in held[t] : lock[2] = "share" \/ lock[1] \in rows

KeyRows == {Key(a) : a \in Attempt}

HasNothing(t)     == HasOnly(t, {})
WantsInvoice(t)   == Statement(t).rows = {Invoice} /\ HasOnly(t, AttemptRows \cup KeyRows)
WantsBusiness(t)  == Statement(t).rows = {Business} /\ HasOnly(t, AttemptRows \cup {Invoice})
WantsApiKey(t)    == Statement(t).rows = {ApiKey} /\ HasOnly(t, {Business})
WantsDelivery(t)  == /\ Statement(t).rows = DeliveryRows /\ <<Endpoint, "row">> \in held[t]
                     /\ HasOnly(t, DeliveryRows \cup {Endpoint})
(* These find their rows free. *)
WantsShare(t)     == Statement(t).mode = "share" /\ Statement(t).rows \subseteq {Business, Customer, Endpoint, Invoice}
WantsAttempt(t)   == /\ Statement(t).op = "insert" /\ Statement(t).mode = "insert"
                     /\ Statement(t).row \in AttemptRows /\ Statement(t).rows = AttemptRows
WantsUsedKey(t)   == \E a \in Attempt : /\ Statement(t).rows = {Key(a)} /\ Statement(t).mode = "row"
                                        /\ <<Row(a), "row">> \in held[t]

OnLevel(t) == \/ HasNothing(t) \/ WantsInvoice(t) \/ WantsBusiness(t) \/ WantsApiKey(t) \/ WantsDelivery(t)
              \/ WantsShare(t) \/ WantsAttempt(t) \/ WantsUsedKey(t)

(* Whoever lacks the one row of its statement has only what it locked      *)
(* before.                                                                 *)
LEMMA EarlierLocks ==
  ASSUME NEW t, NEW p, NEW n, IsDoing(t, p, n), Wanted(t) # {}, NEW row, p[n + 1].rows = {row}
  PROVE  \A lock \in held[t] : \E i \in 2 .. n : lock \in LocksOf(p[i])
<1> SUFFICES ASSUME NEW lock \in held[t] PROVE \E i \in 2 .. n : lock \in LocksOf(p[i])
  OBVIOUS
<1>1. Len(p) \in Nat /\ p \in Programs(Attempt) /\ Follows(t, p, n) /\ n \in 0 .. Len(p) - 1
  BY DEF IsDoing
<1>2. PICK i \in 2 .. Len(p) - 1 :
          /\ lock \in LocksOf(p[i]) /\ IsSafe(p, i)
          /\ i \in 1 .. n \/ (i = n + 1 /\ p[i].op = "lock")
  BY ONLY <1>1, HeldMeans, lock \in held[t]
<1>3. CASE i \in 1 .. n
  BY <1>1, <1>2, <1>3
<1>4. CASE i = n + 1 /\ p[i].op = "lock"
  <2>1. lock = <<row, p[n + 1].mode>>
    BY <1>2, <1>4 DEF LocksOf
  <2>2. <<row, p[n + 1].mode>> \notin held[t]
    BY DEF IsDoing, Wanted
  <2> QED BY <2>1, <2>2
<1> QED
  BY <1>2, <1>3, <1>4

LEMMA EveryoneIsOnALevel ==
  ASSUME NEW t, NEW p, NEW n, IsDoing(t, p, n), Wanted(t) # {}, Statement(t).op # "skip"
  PROVE  OnLevel(t)
<1> DEFINE s == p[n + 1]
<1>1. /\ p \in Programs(Attempt) /\ Len(p) \in Nat /\ n \in 1 .. Len(p) - 2 /\ n \in 0 .. Len(p) - 1
      /\ Follows(t, p, n) /\ Statement(t) = s /\ IsSafe(p, n + 1)
  BY DEF IsDoing
<1>2. ASSUME s.mode = "share" PROVE OnLevel(t)
  BY <1>1, <1>2 DEF IsSafe, OnLevel, WantsShare
(* the first statement of a program finds it without locks *)
<1>3. ASSUME NEW row, n = 1, s.rows = {row} PROVE OnLevel(t)
  <2>1. \A i \in 2 .. 1 : FALSE
    OBVIOUS
  <2>2. held[t] = {}
    BY <1>3, <2>1, EarlierLocks
  <2> QED BY <2>2 DEF OnLevel, HasNothing, HasOnly
<1>4. n = 2 => \A row : s.rows = {row} => held[t] \subseteq LocksOf(p[2])
  <2> SUFFICES ASSUME n = 2, NEW row, s.rows = {row}, NEW lock \in held[t] PROVE lock \in LocksOf(p[2])
    OBVIOUS
  <2>1. \E i \in 2 .. n : lock \in LocksOf(p[i])
    BY EarlierLocks
  <2>2. \A i \in 2 .. 2 : i = 2
    OBVIOUS
  <2> QED BY <2>1, <2>2
<1>5. n = 3 => \A row : s.rows = {row} => held[t] \subseteq LocksOf(p[2]) \cup LocksOf(p[3])
  <2> SUFFICES ASSUME n = 3, NEW row, s.rows = {row}, NEW lock \in held[t]
               PROVE  lock \in LocksOf(p[2]) \cup LocksOf(p[3])
    OBVIOUS
  <2>1. \E i \in 2 .. n : lock \in LocksOf(p[i])
    BY EarlierLocks
  <2>2. \A i \in 2 .. 3 : i = 2 \/ i = 3
    OBVIOUS
  <2> QED BY <2>1, <2>2
<1>6. CASE p = CreateInvoice
  <2>1. n = 1 \/ n = 2 \/ n = 3 \/ n = 4
    BY <1>1, <1>6, CreateInvoiceText
  <2>2. /\ p[2] = References({Business, Customer}) /\ p[3] = Lock({Business}, "row")
        /\ p[4] = References({Business}) /\ p[5] = References({Endpoint})
    BY <1>6, CreateInvoiceText
  <2>3. CASE n = 2
    <3>1. s.rows = {Business} /\ LocksOf(p[2]) = {Business, Customer} \X {"share"}
      BY <2>2, <2>3, LockMeans, ReferencesMean
    <3> QED BY <1>1, <1>4, <2>3, <3>1 DEF OnLevel, WantsBusiness, HasOnly
  <2>4. CASE n # 2
    <3>1. s.mode = "share"
      BY <2>1, <2>2, <2>4, ReferencesMean
    <3> QED BY <1>2, <3>1
  <2> QED BY <2>3, <2>4
<1>7. CASE p = VoidInvoice
  <2>1. n = 1 \/ n = 2 \/ n = 3 \/ n = 4
    BY <1>1, <1>7, VoidInvoiceText
  <2>2. /\ p[2] = CompareAndSet(Invoice, {"open"}, "void", Always(<<Rollback>>)) /\ p[3] = Lock({Business}, "row")
        /\ p[4] = References({Business}) /\ p[5] = References({Endpoint})
    BY <1>7, VoidInvoiceText
  <2>3. CASE n = 1
    <3>1. s.rows = {Invoice}
      BY <2>2, <2>3, CasMeans
    <3> QED BY <1>3, <2>3, <3>1
  <2>4. CASE n = 2
    <3>1. s.rows = {Business} /\ LocksOf(p[2]) = {<<Invoice, "row">>}
      BY <2>2, <2>4, LockMeans, CasMeans
    <3>2. held[t] \subseteq {<<Invoice, "row">>}
      BY <1>4, <2>4, <3>1
    <3>3. HasOnly(t, AttemptRows \cup {Invoice})
      BY <3>2 DEF HasOnly
    <3> QED BY <1>1, <3>1, <3>3 DEF OnLevel, WantsBusiness
  <2>5. CASE n \in {3, 4}
    <3>1. s.mode = "share"
      BY <2>2, <2>5, ReferencesMean
    <3> QED BY <1>2, <3>1
  <2> QED BY <2>1, <2>3, <2>4, <2>5
<1>8. ASSUME NEW a \in Attempt, p = ClaimInvoice(a) PROVE OnLevel(t)
  <2>1. /\ p[2] = Insert(Key(a), {Key(a)}) /\ p[3] = References({Business}) /\ p[4] = BeginPayment
        /\ p[5] = Insert(Row(a), AttemptRows) /\ p[6] = References({Business, Invoice}) /\ Len(p) = 7
    BY <1>8, ClaimInvoiceText
  <2>2. n = 1 \/ n = 2 \/ n = 3 \/ n = 4 \/ n = 5
    BY <1>1, <2>1
  <2>3. CASE n = 1
    <3>1. s.rows = {Key(a)}
      BY <2>1, <2>3, InsertMeans
    <3> QED BY <1>3, <2>3, <3>1
  <2>4. CASE n \in {2, 5}
    <3>1. s.mode = "share"
      BY <2>1, <2>4, ReferencesMean
    <3> QED BY <1>2, <3>1
  <2>5. CASE n = 3
    <3>1. s.rows = {Invoice} /\ LocksOf(p[2]) = {<<Key(a), "insert">>} /\ LocksOf(p[3]) = {Business} \X {"share"}
      BY <2>1, <2>5, InsertMeans, ReferencesMean, BeginPaymentMeans
    <3> QED BY <1>1, <1>5, <2>5, <3>1 DEF OnLevel, WantsInvoice, HasOnly, KeyRows
  <2>6. CASE n = 4
    <3>1. s.op = "insert" /\ s.row = Row(a) /\ s.mode = "insert" /\ s.rows = AttemptRows
      BY <2>1, <2>6, InsertMeans
    <3> QED BY <1>1, <3>1 DEF OnLevel, WantsAttempt, AttemptRows
  <2> QED BY <2>2, <2>3, <2>4, <2>5, <2>6
<1>9. ASSUME NEW a \in Attempt, NEW to \in {"open", "paid"}, p = SettleAttempt(a, to) PROVE OnLevel(t)
  <2>1. /\ p[2] = CompareAndSet(Row(a), {"pending"}, "settled", Always(AlreadySettled))
        /\ p[3] = CompareAndSet(Invoice, {"processing"}, to, Always(<<Rollback>>))
        /\ p[4] = Lock({Business}, "row") /\ p[5] = References({Business}) /\ p[6] = References({Endpoint})
        /\ p[7] = Lock({Key(a)}, "row") /\ Len(p) = 8
    BY <1>9, SettleAttemptText
  <2>2. n = 1 \/ n = 2 \/ n = 3 \/ n = 4 \/ n = 5 \/ n = 6
    BY <1>1, <2>1
  <2>3. CASE n = 1
    <3>1. s.rows = {Row(a)}
      BY <2>1, <2>3, CasMeans
    <3> QED BY <1>3, <2>3, <3>1
  <2>4. LocksOf(p[2]) = {<<Row(a), "row">>} /\ LocksOf(p[3]) = {<<Invoice, "row">>} /\ p[2].op = "cas"
    BY <2>1, CasMeans
  <2>5. CASE n = 2
    <3>1. s.rows = {Invoice}
      BY <2>1, <2>5, CasMeans
    <3>2. held[t] \subseteq {<<Row(a), "row">>}
      BY <1>4, <2>4, <2>5, <3>1
    <3>3. HasOnly(t, AttemptRows \cup KeyRows)
      BY <3>2 DEF HasOnly, AttemptRows
    <3> QED BY <1>1, <3>1, <3>3 DEF OnLevel, WantsInvoice
  <2>6. CASE n = 3
    <3>1. s.rows = {Business}
      BY <2>1, <2>6, LockMeans
    <3> QED BY <1>1, <1>5, <2>4, <2>6, <3>1 DEF OnLevel, WantsBusiness, HasOnly, AttemptRows
  <2>7. CASE n \in {4, 5}
    <3>1. s.mode = "share"
      BY <2>1, <2>7, ReferencesMean
    <3> QED BY <1>2, <3>1
  <2>8. CASE n = 6
    <3>1. s.rows = {Key(a)} /\ s.mode = "row"
      BY <2>1, <2>8, LockMeans
    <3>2. <<Row(a), "row">> \in held[t]
      <4>1. 2 \in 1 .. n
        BY <2>8
      <4> QED BY <1>1, <2>4, <4>1 DEF Follows
    <3> QED BY <1>1, <3>1, <3>2 DEF OnLevel, WantsUsedKey
  <2> QED BY <2>2, <2>3, <2>5, <2>6, <2>7, <2>8
<1>10. CASE p = CreateEndpoint
  <2>1. n = 1 \/ n = 2
    BY <1>1, <1>10, CreateEndpointText
  <2>2. n = 1 => s.rows = {Endpoint}
    BY <1>10, CreateEndpointText, LockMeans
  <2>3. n = 2 => s.mode = "share"
    BY <1>10, CreateEndpointText, ReferencesMean
  <2> QED BY <1>2, <1>3, <2>1, <2>2, <2>3
<1>11. CASE p = DisableEndpoint
  <2>1. n = 1 \/ n = 2
    BY <1>1, <1>11, DisableEndpointText
  <2>2. p[2] = Lock({Endpoint}, "row") /\ p[3] = Lock(DeliveryRows, "row") /\ Len(p) = 4
    BY <1>11, DisableEndpointText
  <2>3. CASE n = 1
    <3>1. s.rows = {Endpoint}
      BY <2>2, <2>3, LockMeans
    <3> QED BY <1>3, <2>3, <3>1
  <2>4. CASE n = 2
    <3>1. s.rows = DeliveryRows /\ p[2].op = "lock"
          /\ LocksOf(p[2]) = {<<Endpoint, "row">>} /\ LocksOf(p[3]) = DeliveryRows \X {"row"}
      BY <2>2, <2>4, LockMeans
    <3>2. <<Endpoint, "row">> \in held[t]
      <4>1. 2 \in 1 .. n
        BY <2>4
      <4> QED BY <1>1, <3>1, <4>1 DEF Follows
    <3>3. \A lock \in held[t] : lock \in LocksOf(p[2]) \cup LocksOf(p[3])
      <4>1. \A i \in 2 .. 4 - 1 : i = 2 \/ i = 3
        OBVIOUS
      <4>2. \A lock \in held[t] : \E i \in 2 .. 4 - 1 : lock \in LocksOf(p[i])
        BY <1>1, <2>2, HeldMeans
      <4> QED BY <4>1, <4>2
    <3> QED BY <1>1, <3>1, <3>2, <3>3 DEF OnLevel, WantsDelivery, HasOnly
  <2> QED BY <2>1, <2>3, <2>4
<1>12. CASE p = RevokeApiKey
  <2>1. n = 1 \/ n = 2
    BY <1>1, <1>12, RevokeApiKeyText
  <2>2. p[2] = Lock({Business}, "row") /\ p[3] = Lock({ApiKey}, "row")
    BY <1>12, RevokeApiKeyText
  <2>3. CASE n = 1
    <3>1. s.rows = {Business}
      BY <2>2, <2>3, LockMeans
    <3> QED BY <1>3, <2>3, <3>1
  <2>4. CASE n = 2
    <3>1. s.rows = {ApiKey} /\ LocksOf(p[2]) = {<<Business, "row">>}
      BY <2>2, <2>4, LockMeans
    <3>2. held[t] \subseteq {<<Business, "row">>}
      BY <1>4, <2>4, <3>1
    <3>3. HasOnly(t, {Business})
      BY <3>2 DEF HasOnly
    <3> QED BY <1>1, <3>1, <3>3 DEF OnLevel, WantsApiKey
  <2> QED BY <2>1, <2>3, <2>4
<1>13. ASSUME NEW lone \in LoneStatements, p = Alone(lone) PROVE OnLevel(t)
  <2>1. p[2] = lone /\ Len(p) = 3
    BY <1>13, AloneText
  <2>2. n = 1 /\ s = lone
    BY <1>1, <2>1
  <2>3. lone.op # "skip"
    BY <1>1, <2>2
  <2>4. \/ lone.mode = "share"
        \/ \E row : lone.rows = {row}
    <3>1. \/ lone = References({Business}) \/ (\E rows : lone = SkipLocked(rows))
          \/ (\E a \in Attempt : lone = CompareAndSet(Row(a), {"pending"}, "pending", Always(<<Rollback>>)))
          \/ (\E d \in Delivery : lone = Lock({Row(d)}, "row"))
      BY DEF LoneStatements
    <3>2. ASSUME NEW rows, lone = SkipLocked(rows) PROVE FALSE
      BY <2>3, <3>2, SkipMeans
    <3>3. ASSUME lone = References({Business}) PROVE lone.mode = "share"
      BY <3>3, ReferencesMean
    <3>4. ASSUME NEW a \in Attempt, lone = CompareAndSet(Row(a), {"pending"}, "pending", Always(<<Rollback>>))
          PROVE  lone.rows = {Row(a)}
      BY <3>4, CasMeans
    <3>5. ASSUME NEW d \in Delivery, lone = Lock({Row(d)}, "row") PROVE lone.rows = {Row(d)}
      BY <3>5, LockMeans
    <3> QED BY <3>1, <3>2, <3>3, <3>4, <3>5
  <2> QED BY <1>2, <1>3, <2>2, <2>4
<1> QED
  BY <1>1, <1>6, <1>7, <1>8, <1>9, <1>10, <1>11, <1>12, <1>13, ProgramCases

-----------------------------------------------------------------------------
(* Nobody waits for each other *)

LEMMA WaitingMeans ==
  ASSUME IInv, NEW t \in Task, NEW u \in Task, WaitsFor(t, u)
  PROVE  /\ u # t /\ OnLevel(t) /\ \E p, n : IsDoing(t, p, n)
         /\ At(t, {"lock", "cas", "insert"})
         /\ \E lock \in held[u] : /\ lock[1] \in Statement(t).rows /\ Conflict(lock[2], Statement(t).mode)
                               /\ lock = <<lock[1], lock[2]>> /\ lock[2] \in Modes
<1>1. /\ At(t, {"lock", "cas", "skip", "insert"}) /\ Statement(t).op # "skip" /\ Wanted(t) # {}
      /\ At(t, {"lock", "cas", "insert"}) /\ u # t
  BY DEF WaitsFor, At, Statement
<1>2. PICK p, n : IsDoing(t, p, n)
  BY <1>1, WhoIsDoing DEF IInv
<1>3. OnLevel(t)
  BY <1>1, <1>2, EveryoneIsOnALevel
<1>4. PICK lock \in held[u] : lock[1] \in Statement(t).rows /\ Conflict(lock[2], Statement(t).mode)
  BY DEF WaitsFor, Wanted, HasAgainst
<1>5. lock \in Rows \X Modes
  BY TypesAre DEF IInv
<1> QED
  BY <1>1, <1>2, <1>3, <1>4, <1>5

LEMMA AttemptsAreFree ==
  ASSUME IInv, NEW t \in Task, NEW u \in Task, WaitsFor(t, u)
  PROVE  ~WantsAttempt(t)
<1> SUFFICES ASSUME WantsAttempt(t) PROVE FALSE
  OBVIOUS
<1>1. PICK lock \in held[u] : /\ lock[1] \in AttemptRows /\ Conflict(lock[2], "insert") /\ lock[2] \in Modes
  BY WaitingMeans DEF WantsAttempt
<1>2. u # t /\ At(t, {"insert"})
  BY WaitingMeans DEF WantsAttempt, At, Statement
<1>3. FreeFor(t, lock[1], "row")
  BY <1>1, <1>2, InsertIsAlone DEF BackstopStandsIdle, WantsAttempt
<1> QED
  BY <1>1, <1>2, <1>3 DEF FreeFor, HasAgainst, Conflict, Modes

(* What the one waited for has, being in its program itself. *)
LEMMA WaitedForMeans ==
  ASSUME IInv, NEW u \in Task, NEW v \in Task, WaitsFor(u, v), NEW lock \in held[u]
  PROVE  \E p, n, i : /\ IsDoing(u, p, n) /\ i \in 2 .. Len(p) - 1 /\ lock \in LocksOf(p[i]) /\ IsSafe(p, i)
                      /\ i \in 1 .. n \/ i = n + 1
<1>1. PICK p, n : IsDoing(u, p, n)
  BY WaitingMeans
<1>2. p \in Programs(Attempt) /\ n \in 0 .. Len(p) - 1 /\ Follows(u, p, n)
  BY <1>1 DEF IsDoing
<1>3. PICK i \in 2 .. Len(p) - 1 :
          /\ lock \in LocksOf(p[i]) /\ IsSafe(p, i)
          /\ i \in 1 .. n \/ (i = n + 1 /\ p[i].op = "lock")
  BY <1>2, HeldMeans
<1> QED
  BY <1>1, <1>3

LEMMA SharesAreFree ==
  ASSUME IInv, NEW t \in Task, NEW u \in Task, NEW v \in Task, WaitsFor(t, u), WaitsFor(u, v)
  PROVE  ~WantsShare(t)
<1> SUFFICES ASSUME WantsShare(t) PROVE FALSE
  OBVIOUS
<1>1. PICK lock \in held[u] : /\ lock[1] \in {Business, Customer, Endpoint, Invoice}
                            /\ Conflict(lock[2], "share") /\ lock = <<lock[1], lock[2]>>
  BY WaitingMeans DEF WantsShare
<1>2. lock[2] = "update"
  BY <1>1 DEF Conflict
<1>3. PICK p, n, i : lock \in LocksOf(p[i]) /\ IsSafe(p, i)
  BY WaitedForMeans
<1>4. lock[1] \in p[i].rows /\ p[i].mode = "update"
  <2>1. p[i].op # "insert" => LocksOf(p[i]) = p[i].rows \X {p[i].mode} \/ LocksOf(p[i]) = {}
    BY DEF LocksOf
  <2>2. p[i].op = "insert" => LocksOf(p[i]) = {<<p[i].row, "insert">>}
    BY DEF LocksOf
  <2> QED BY <1>2, <1>3, <2>1, <2>2
<1>5. lock[1] \in AttemptRows \cup DeliveryRows
  BY <1>3, <1>4 DEF IsSafe
<1> QED
  BY <1>1, <1>5, RowsDiffer DEF AttemptRows, DeliveryRows

LEMMA UsedKeysAreFree ==
  ASSUME IInv, NEW t \in Task, NEW u \in Task, NEW v \in Task, WaitsFor(t, u), WaitsFor(u, v)
  PROVE  ~WantsUsedKey(t)
<1> SUFFICES ASSUME WantsUsedKey(t) PROVE FALSE
  OBVIOUS
<1>1. PICK a \in Attempt : /\ Statement(t).rows = {Key(a)} /\ Statement(t).mode = "row"
                         /\ <<Row(a), "row">> \in held[t]
  BY DEF WantsUsedKey
<1>2. PICK lock \in held[u] : /\ lock[1] = Key(a) /\ Conflict(lock[2], "row")
                            /\ lock = <<lock[1], lock[2]>> /\ lock[2] \in Modes
  BY <1>1, WaitingMeans
<1>3. u # t /\ LocksExclude /\ LocksAreGrounded /\ RowsAgree
  BY WaitingMeans DEF IInv
<1>4. value[Row(a)] = "pending" /\ value[Key(a)] = "pending"
  BY <1>1, <1>3 DEF LocksAreGrounded, RowsAgree
<1>5. lock[2] # "insert"
  BY <1>2, <1>3, <1>4 DEF LocksAreGrounded
<1>6. PICK p, n, i : /\ IsDoing(u, p, n) /\ i \in 2 .. Len(p) - 1 /\ lock \in LocksOf(p[i]) /\ IsSafe(p, i)
                     /\ i \in 1 .. n \/ i = n + 1
  BY WaitedForMeans
<1>7. lock[2] # "update"
  <2> SUFFICES ASSUME lock[2] = "update" PROVE FALSE
    OBVIOUS
  <2>1. lock[1] \in p[i].rows /\ p[i].mode = "update"
    <3>1. p[i].op # "insert" => LocksOf(p[i]) = p[i].rows \X {p[i].mode} \/ LocksOf(p[i]) = {}
      BY DEF LocksOf
    <3>2. p[i].op = "insert" => LocksOf(p[i]) = {<<p[i].row, "insert">>}
      BY DEF LocksOf
    <3> QED BY <1>6, <3>1, <3>2
  <2>2. lock[1] \in AttemptRows \cup DeliveryRows
    BY <1>6, <2>1 DEF IsSafe
  <2> QED BY <1>2, <2>2, RowsDiffer DEF AttemptRows, DeliveryRows
<1>8. lock = <<Key(a), "row">>
  BY <1>2, <1>5, <1>7 DEF Modes, Conflict
<1>9. PICK to \in {"open", "paid"} : p = SettleAttempt(a, to) /\ i = 7
  BY <1>6, <1>8 DEF IsSafe
<1>10. 2 \in 1 .. n
  BY <1>6, <1>9 DEF IsDoing
<1>11. p[2].op = "cas" /\ LocksOf(p[2]) = {<<Row(a), "row">>}
  <2>1. SettleAttempt(a, to)[2] = CompareAndSet(Row(a), {"pending"}, "settled", Always(AlreadySettled))
    BY SettleAttemptText
  <2> QED BY <1>9, <2>1, CasMeans
<1>12. <<Row(a), "row">> \in held[u]
  BY <1>6, <1>10, <1>11 DEF IsDoing, Follows
<1>13. ~Conflict("row", "row")
  BY <1>1, <1>3, <1>12 DEF LocksExclude
<1> QED
  BY <1>13 DEF Conflict

(* A circle would have to go up from level to level for ever. *)
LEMMA NoCircle ==
  ASSUME IInv, NEW W \in SUBSET Task, \A t \in W : \E u \in W : WaitsFor(t, u)
  PROVE  W = {}
<1>1. ASSUME NEW t \in W
      PROVE  \/ HasNothing(t) \/ WantsInvoice(t) \/ WantsBusiness(t) \/ WantsApiKey(t) \/ WantsDelivery(t)
  <2>1. PICK u \in W : WaitsFor(t, u)
    OBVIOUS
  <2>2. PICK v \in W : WaitsFor(u, v)
    OBVIOUS
  <2>3. OnLevel(t) /\ ~WantsAttempt(t) /\ ~WantsShare(t) /\ ~WantsUsedKey(t)
    BY <2>1, <2>2, WaitingMeans, AttemptsAreFree, SharesAreFree, UsedKeysAreFree
  <2> QED BY <2>3 DEF OnLevel
<1>2. ASSUME NEW t \in W
      PROVE  \E u \in W : u # t /\ \E lock \in held[u] : lock[1] \in Statement(t).rows /\ lock[2] # "share"
  <2>1. PICK u \in W : WaitsFor(t, u)
    OBVIOUS
  <2>2. PICK v \in W : WaitsFor(u, v)
    OBVIOUS
  <2>3. PICK p, n : IsDoing(t, p, n)
    BY <2>1, WaitingMeans
  <2>4. IsSafe(p, n + 1) /\ Statement(t) = p[n + 1] /\ Statement(t).op \in {"lock", "cas", "insert"}
    BY <2>1, <2>3, WaitingMeans DEF IsDoing, At, Statement
  <2>5. Statement(t).mode \in {"share", "row", "insert"}
    BY <2>4 DEF IsSafe, IsStatement
  <2>6. Statement(t).mode # "share"
    <3>1. ~WantsShare(t)
      BY <2>1, <2>2, SharesAreFree
    <3> QED BY <2>4, <3>1 DEF IsSafe, WantsShare
  <2>7. PICK lock \in held[u] : lock[1] \in Statement(t).rows /\ Conflict(lock[2], Statement(t).mode)
    BY <2>1, WaitingMeans
  <2>8. u # t
    BY <2>1, WaitingMeans
  <2> QED BY <2>5, <2>6, <2>7, <2>8 DEF Conflict
<1>3. /\ \A r \in AttemptRows \cup DeliveryRows : r[1] = "row"
      /\ \A r \in KeyRows : r[1] = "idempotency_key"
  BY RowsDiffer DEF AttemptRows, DeliveryRows, KeyRows
<1>4. AttemptRows \cap DeliveryRows = {}
  BY RowsDiffer, RowsAreDistinct DEF AttemptRows, DeliveryRows
<1>5. ASSUME NEW t \in W PROVE ~WantsApiKey(t)
  <2> SUFFICES ASSUME WantsApiKey(t) PROVE FALSE
    OBVIOUS
  <2>1. PICK u \in W : \E lock \in held[u] : lock[1] = ApiKey /\ lock[2] # "share"
    BY <1>2 DEF WantsApiKey
  <2> QED BY <1>1, <1>3, <2>1, RowsDiffer
          DEF HasNothing, WantsInvoice, WantsBusiness, WantsApiKey, WantsDelivery, HasOnly
<1>6. ASSUME NEW t \in W PROVE ~WantsDelivery(t)
  <2> SUFFICES ASSUME WantsDelivery(t) PROVE FALSE
    OBVIOUS
  <2>1. PICK u \in W : u # t /\ \E lock \in held[u] : lock[1] \in DeliveryRows /\ lock[2] # "share"
    BY <1>2 DEF WantsDelivery
  <2>2. WantsDelivery(u)
    BY <1>1, <1>3, <1>4, <2>1, RowsDiffer
    DEF HasNothing, WantsInvoice, WantsBusiness, WantsApiKey, HasOnly
  <2>3. <<Endpoint, "row">> \in held[t] /\ <<Endpoint, "row">> \in held[u]
    BY <2>2 DEF WantsDelivery
  <2>4. ~Conflict("row", "row")
    BY <2>1, <2>3 DEF IInv, LocksExclude
  <2> QED BY <2>4 DEF Conflict
<1>7. ASSUME NEW t \in W PROVE ~WantsBusiness(t)
  <2> SUFFICES ASSUME WantsBusiness(t) PROVE FALSE
    OBVIOUS
  <2>1. PICK u \in W : \E lock \in held[u] : lock[1] = Business /\ lock[2] # "share"
    BY <1>2 DEF WantsBusiness
  <2> QED BY <1>1, <1>3, <1>5, <1>6, <2>1, RowsDiffer DEF HasNothing, WantsInvoice, WantsBusiness, HasOnly
<1>8. ASSUME NEW t \in W PROVE ~WantsInvoice(t)
  <2> SUFFICES ASSUME WantsInvoice(t) PROVE FALSE
    OBVIOUS
  <2>1. PICK u \in W : \E lock \in held[u] : lock[1] = Invoice /\ lock[2] # "share"
    BY <1>2 DEF WantsInvoice
  <2> QED BY <1>1, <1>3, <1>5, <1>6, <1>7, <2>1, RowsDiffer DEF HasNothing, WantsInvoice, HasOnly
<1>9. ASSUME NEW t \in W PROVE FALSE
  <2>1. PICK u \in W : \E lock \in held[u] : lock[2] # "share"
    BY <1>2
  <2> QED BY <1>1, <1>5, <1>6, <1>7, <1>8, <2>1 DEF HasNothing, HasOnly
<1> QED
  BY <1>9

(* Who is about to ask for a connection has neither one nor a lock. *)
LEMMA AskerHasNothing ==
  ASSUME KnowsItsPlace, NEW t \in Task, At(t, {"begin"})
  PROVE  held[t] = {} /\ conns[t] = 0
<1>1. todo[t] # <<>> /\ Statement(t).op = "begin"
  BY DEF At, Statement
<1>2. CASE Leaves(t)
  BY <1>1, <1>2, LeavingMeans
<1>3. ASSUME NEW p \in Programs(Attempt), NEW n \in 0 .. Len(p) - 1, Follows(t, p, n)
      PROVE  held[t] = {} /\ conns[t] = 0
  <2>1. n = 0 /\ HasShape(p)
    BY <1>1, <1>3, FollowingMeans
  <2>2. \A lock \in held[t] : \E i \in 1 .. 0 + 1 : lock \in LocksOf(p[i])
    BY <1>3, <2>1 DEF Follows
  <2>3. \A i \in 1 .. 0 + 1 : i = 1
    OBVIOUS
  <2>4. held[t] = {}
    BY <2>1, <2>2, <2>3, Begin_Commit DEF HasShape
  <2> QED BY <1>3, <2>1, <2>4 DEF Follows
<1> QED
  BY <1>1, <1>2, <1>3 DEF KnowsItsPlace, IsIdle

(* If nobody has a connection, none is in use. *)
LEMMA NoneInUse ==
  ASSUME \A t \in Task : conns[t] = 0
  PROVE  InUse # Connections
<1>1. UNION {{t} \X (1 .. conns[t]) : t \in Task} = {}
  <2>1. \A t \in Task : {t} \X (1 .. conns[t]) = {}
    OBVIOUS
  <2> QED BY <2>1
<1>2. InUse = 0
  BY <1>1, FS_EmptySet DEF InUse
<1> QED
  BY <1>2, ConnectionsExist

LEMMA SomeoneGoesOn == IInv => NoDeadlock
<1> SUFFICES ASSUME IInv, NEW S \in SUBSET Task, S # {},
                    \A t \in S : \/ \E u \in S : WaitsFor(t, u)
                                 \/ NoConnection(t) /\ \A u \in Task \ S : ~(conns[u] > 0)
             PROVE  FALSE
  BY DEF NoDeadlock
<1> DEFINE W == {t \in S : \E u \in S : WaitsFor(t, u)}
<1>1. KnowsItsPlace /\ conns \in [Task -> {0, 1}]
  BY TypesAre DEF IInv
<1>2. ASSUME NEW t \in W PROVE \E u \in W : WaitsFor(t, u)
  <2>1. PICK u \in S : WaitsFor(t, u)
    OBVIOUS
  <2>2. held[u] # {}
    BY <2>1, WaitingMeans
  <2>3. ~NoConnection(u)
    BY <1>1, <2>2, AskerHasNothing DEF NoConnection
  <2> QED BY <2>1, <2>3
<1>3. W = {}
  <2>1. W \in SUBSET Task
    OBVIOUS
  <2> HIDE DEF W
  <2> QED BY <1>2, <2>1, NoCircle
<1>4. \A t \in S : NoConnection(t) /\ \A u \in Task \ S : ~(conns[u] > 0)
  BY <1>3
<1>5. \A t \in S : conns[t] = 0
  BY <1>1, <1>4, AskerHasNothing DEF NoConnection
<1>6. \A t \in Task : conns[t] = 0
  <2>1. \A t \in Task \ S : ~(conns[t] > 0) /\ conns[t] \in {0, 1}
    BY <1>1, <1>4
  <2> QED BY <1>5, <2>1
<1> QED
  BY <1>4, <1>6, NoneInUse DEF NoConnection

(* NoDeadlock: the transactions and the pool never end in a circle of      *)
(* tasks that wait for each other, so that every transaction can end       *)
(* (events.rs record, payments.rs settle_attempt and claim_invoice).       *)
THEOREM TransactionsNeverDeadlock == Spec => []NoDeadlock
BY Invariance, SomeoneGoesOn, PTL

=============================================================================

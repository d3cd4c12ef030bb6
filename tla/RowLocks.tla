------------------------------ MODULE RowLocks ------------------------------
(***************************************************************************)
(* Every transaction of the service as the locks it takes, in the order    *)
(* its statements take them: who can wait for whom, in PostgreSQL and at   *)
(* the connection pool.  One business, one of its customers, invoices and  *)
(* endpoints; rows of different ones are never wanted together.            *)
(*                                                                         *)
(* A lock is held to the end of its transaction.  A row is locked FOR KEY  *)
(* SHARE by a foreign key that refers to it, FOR NO KEY UPDATE by the      *)
(* UPDATEs (none of them changes a key), FOR UPDATE by the batches that    *)
(* skip what is locked; an INSERT waits for whoever has an uncommitted     *)
(* version of a row that its unique index holds against it.                *)
(***************************************************************************)
EXTENDS Integers, Sequences, FiniteSets

CONSTANTS Task,         \* requests and worker passes, over all processes
          Attempt,      \* payment attempts of the invoice
          Delivery,     \* pending deliveries to the endpoint
          Connections   \* max_connections

ASSUME ConnectionsExist == Connections \in Nat \ {0}
ASSUME RowsAreDistinct == Attempt \cap Delivery = {}

VARIABLES todo,    \* the statements a task has left; none: it is idle
          held,    \* the locks it has: <<row, mode>>
          wrote,   \* what it has written: <<row, value>>
          conns,   \* the connections it has out of the pool
          value    \* committed status of the rows that are compared and set

vars == <<todo, held, wrote, conns, value>>

Business == <<"business">>
Customer == <<"customer">>
Invoice  == <<"invoice">>
Endpoint == <<"endpoint">>
ApiKey   == <<"api_key">>
Key(a)   == <<"idempotency_key", a>>    \* that a's request carries
Row(x)   == <<"row", x>>                \* of an attempt or a delivery

AttemptRows  == {Row(a) : a \in Attempt}
DeliveryRows == {Row(d) : d \in Delivery}

(* Committed statuses; a delivery counts as pending, a used key too. *)
Valued     == {Invoice} \cup AttemptRows \cup DeliveryRows \cup {Key(a) : a \in Attempt}
FirstValue == [r \in Valued |->
                  IF r = Invoice THEN "open" ELSE IF r \in DeliveryRows THEN "pending" ELSE "absent"]

Init == /\ todo  = [t \in Task |-> <<>>]
        /\ held  = [t \in Task |-> {}]
        /\ wrote = [t \in Task |-> {}]
        /\ conns = [t \in Task |-> 0]
        /\ value = FirstValue

Conflict(m, n) == IF "share" \in {m, n} THEN "update" \in {m, n} ELSE TRUE

-----------------------------------------------------------------------------
(* Statements *)

Begin    == [op |-> "begin"]
Commit   == [op |-> "commit"]
Rollback == [op |-> "rollback"]

Lock(rows, mode) == [op |-> "lock", rows |-> rows, mode |-> mode]

SkipLocked(rows) == [op |-> "skip", rows |-> rows, mode |-> "update"]

(* UPDATE .. WHERE status = .., which neither waits for nor locks a row    *)
(* with another status; what follows then is otherwise[status].            *)
CompareAndSet(row, from, to, otherwise) ==
    [op |-> "cas", rows |-> {row}, mode |-> "row", row |-> row, from |-> from, to |-> to,
     otherwise |-> otherwise]

(* INSERT of a row: it waits for the unsettled ones among the rows of the  *)
(* unique index, and fails if one of them is there for good.               *)
Insert(row, index) ==
    [op |-> "insert", rows |-> index, mode |-> "insert", row |-> row, to |-> "pending"]

Status == {"absent", "pending", "settled", "open", "processing", "paid", "void"}

Always(program) == [status \in Status |-> program]

-----------------------------------------------------------------------------
(* The transactions.  A statement outside a transaction is one by itself.  *)

Alone(statement) == <<Begin, statement, Commit>>

References(rows) == Lock(rows, "share")

(* Seeded fault: the business is locked FOR UPDATE. *)
FaultRecord == <<Lock({Business}, "update"), References({Business}), References({Endpoint})>>

(* record: the lock, the event, the fan-out. *)
Record == <<Lock({Business}, "row"), References({Business}), References({Endpoint})>>

CreateInvoice == <<Begin, References({Business, Customer})>> \o Record \o <<Commit>>

(* create_customer; create_api_key. *)
CreateReference == Alone(References({Business}))

VoidInvoice == <<Begin, CompareAndSet(Invoice, {"open"}, "void", Always(<<Rollback>>))>>
               \o Record \o <<Commit>>

(* Seeded fault: the status is compared in the handler, not in the UPDATE. *)
FaultBeginPayment == CompareAndSet(Invoice, {"open", "processing"}, "processing", Always(<<Commit>>))

(* A refusal is stored, unless the invoice is processing. *)
BeginPayment == CompareAndSet(Invoice, {"open"}, "processing",
                              [Always(<<Commit>>) EXCEPT !["processing"] = <<Rollback>>])

(* claim_invoice: reserve, apply_transition, the attempt with its index of *)
(* attempts in flight, attach_attempt (a row of its own).                  *)
ClaimInvoice(a) ==
    <<Begin,
      Insert(Key(a), {Key(a)}),
      References({Business}),
      BeginPayment,
      Insert(Row(a), AttemptRows),
      References({Business, Invoice}),
      Commit>>

(* Seeded fault: the losing settler asks for a connection while it has one. *)
FaultAlreadySettled == <<Begin, Commit, Rollback>>

(* The losing settler: drop(tx), then already_attempt_response. *)
AlreadySettled == <<Rollback, Begin, Commit>>

SettleAttempt(a, to) ==
    <<Begin,
      CompareAndSet(Row(a), {"pending"}, "settled", Always(AlreadySettled)),
      CompareAndSet(Invoice, {"processing"}, to, Always(<<Rollback>>))>>
    \o Record \o <<Lock({Key(a)}, "row"), Commit>>

(* claim_due and reschedule; lease_due and record_result. *)
ClaimDue         == Alone(SkipLocked(AttemptRows))
Reschedule(a)    == Alone(CompareAndSet(Row(a), {"pending"}, "pending", Always(<<Rollback>>)))
LeaseDue         == Alone(SkipLocked(DeliveryRows))
RecordResult(d)  == Alone(Lock({Row(d)}, "row"))

(* create_webhook_endpoint waits for a disable of the URL's endpoint.      *)
CreateEndpoint  == <<Begin, Lock({Endpoint}, "insert"), References({Business}), Commit>>
DisableEndpoint == <<Begin, Lock({Endpoint}, "row"), Lock(DeliveryRows, "row"), Commit>>

RevokeApiKey == <<Begin, Lock({Business}, "row"), Lock({ApiKey}, "row"), Commit>>

Programs(claimed) ==
    {CreateInvoice, CreateReference, VoidInvoice, ClaimDue, LeaseDue,
     CreateEndpoint, DisableEndpoint, RevokeApiKey}
    \cup {ClaimInvoice(a) : a \in Attempt}
    \cup {SettleAttempt(a, to) : a \in claimed, to \in {"open", "paid"}}
    \cup {Reschedule(a) : a \in claimed}
    \cup {RecordResult(d) : d \in Delivery}

-----------------------------------------------------------------------------
(* Running them *)

At(t, ops) == todo[t] # <<>> /\ Head(todo[t]).op \in ops

Statement(t) == Head(todo[t])

(* The connections out, each by whose it is. *)
InUse == Cardinality(UNION {{t} \X (1 .. conns[t]) : t \in Task})

HasAgainst(u, row, mode) == \E lock \in held[u] : lock[1] = row /\ Conflict(lock[2], mode)

FreeFor(t, row, mode) == \A u \in Task \ {t} : ~HasAgainst(u, row, mode)

(* The rows a statement has yet to lock. *)
Wanted(t) == {row \in Statement(t).rows : <<row, Statement(t).mode>> \notin held[t]}

Hit(t) == Statement(t).op = "cas" => value[Statement(t).row] \in Statement(t).from

(* Whoever settles an attempt has seen it committed. *)
Begins(t) ==
    /\ todo[t] = <<>>
    /\ \E program \in Programs({a \in Attempt : value[Row(a)] # "absent"}) : todo' = [todo EXCEPT ![t] = program]
    /\ UNCHANGED <<held, wrote, conns, value>>

(* A connection out of the pool, and a transaction on it. *)
Connect(t) ==
    /\ At(t, {"begin"})
    /\ InUse < Connections
    /\ conns' = [conns EXCEPT ![t] = @ + 1]
    /\ todo' = [todo EXCEPT ![t] = Tail(@)]
    /\ UNCHANGED <<held, wrote, value>>

(* One row after another, in whatever order the statement comes by them;   *)
(* none if the transaction has the locks already.                          *)
LockRow(t) ==
    /\ At(t, {"lock", "cas"}) /\ Hit(t)
    /\ \E rows \in IF Wanted(t) = {} THEN {{}} ELSE {{row} : row \in Wanted(t)} :
          /\ \A row \in rows : FreeFor(t, row, Statement(t).mode)
          /\ held' = [held EXCEPT ![t] = @ \cup (rows \X {Statement(t).mode})]
          /\ todo' = IF Wanted(t) = rows THEN [todo EXCEPT ![t] = Tail(@)] ELSE todo
    /\ wrote' = IF At(t, {"cas"}) THEN [wrote EXCEPT ![t] = @ \cup {<<Statement(t).row, Statement(t).to>>}]
                ELSE wrote
    /\ UNCHANGED <<conns, value>>

Miss(t) ==
    /\ At(t, {"cas"}) /\ ~Hit(t)
    /\ todo' = [todo EXCEPT ![t] = Statement(t).otherwise[value[Statement(t).row]]]
    /\ UNCHANGED <<held, wrote, conns, value>>

InsertRow(t) ==
    /\ At(t, {"insert"})
    /\ \A row \in Statement(t).rows : FreeFor(t, row, "insert")
    /\ IF \E row \in Statement(t).rows : value[row] = "pending"
       THEN todo' = [todo EXCEPT ![t] = <<Rollback>>] /\ UNCHANGED <<held, wrote>>
       ELSE /\ todo' = [todo EXCEPT ![t] = Tail(@)]
            /\ held' = [held EXCEPT ![t] = @ \cup {<<Statement(t).row, "insert">>}]
            /\ wrote' = [wrote EXCEPT ![t] = @ \cup {<<Statement(t).row, "pending">>}]
    /\ UNCHANGED <<conns, value>>

(* What is locked is skipped, and not all that is pending is due. *)
LockUnlocked(t) ==
    /\ At(t, {"skip"})
    /\ \E rows \in SUBSET {row \in Statement(t).rows : value[row] = "pending" /\ FreeFor(t, row, "update")} :
          held' = [held EXCEPT ![t] = @ \cup (rows \X {"update"})]
    /\ todo' = [todo EXCEPT ![t] = Tail(@)]
    /\ UNCHANGED <<wrote, conns, value>>

Release(t) == held' = [held EXCEPT ![t] = {}] /\ wrote' = [wrote EXCEPT ![t] = {}]

Ends(t) ==
    /\ At(t, {"commit", "rollback"})
    /\ value' = [row \in DOMAIN value |->
                    IF At(t, {"commit"}) /\ \E v \in Status : <<row, v>> \in wrote[t]
                    THEN CHOOSE v \in Status : <<row, v>> \in wrote[t] ELSE value[row]]
    /\ Release(t)
    /\ conns' = [conns EXCEPT ![t] = @ - 1]
    /\ todo' = [todo EXCEPT ![t] = Tail(@)]

(* An early return, a statement or an acquire that times out, a crash. *)
Aborts(t) ==
    /\ todo[t] # <<>>
    /\ Release(t)
    /\ conns' = [conns EXCEPT ![t] = 0]
    /\ todo' = [todo EXCEPT ![t] = <<>>]
    /\ UNCHANGED value

Next == \E t \in Task : \/ Begins(t) \/ Connect(t) \/ LockRow(t) \/ Miss(t) \/ InsertRow(t)
                        \/ LockUnlocked(t) \/ Ends(t) \/ Aborts(t)

Spec == Init /\ [][Next]_vars

-----------------------------------------------------------------------------
(* Properties *)

(* t may have to wait for u: for a row, or for a connection it has. *)
WaitsFor(t, u) ==
    /\ At(t, {"lock", "cas", "insert"}) /\ Hit(t)
    /\ t # u
    /\ \E row \in Wanted(t) : HasAgainst(u, row, Statement(t).mode)

NoConnection(t) == At(t, {"begin"}) /\ InUse = Connections

(* No tasks wait for each other in a circle, neither for rows nor for      *)
(* connections: every transaction can end without one of them being        *)
(* aborted (events.rs: NO KEY UPDATE, not UPDATE).                         *)
NoDeadlock ==
    \A S \in SUBSET Task : S # {} =>
        \E t \in S :
            /\ \A u \in S : ~WaitsFor(t, u)
            /\ NoConnection(t) => \E u \in Task \ S : conns[u] > 0

(* The indexes on attempts in flight are backstops (0003): an attempt is   *)
(* inserted only where they neither refuse it nor make it wait.            *)
BackstopStandsIdle ==
    \A t \in Task : At(t, {"insert"}) /\ Statement(t).row \in AttemptRows =>
        \A row \in AttemptRows : FreeFor(t, row, "row") /\ value[row] # "pending"

-----------------------------------------------------------------------------
(* The inductive invariant *)

LocksOf(statement) ==
    IF statement.op \in {"lock", "cas", "skip"} THEN statement.rows \X {statement.mode}
    ELSE IF statement.op = "insert" THEN {<<statement.row, "insert">>} ELSE {}

WritesOf(statement) ==
    IF statement.op \in {"cas", "insert"} THEN {<<statement.row, statement.to>>} ELSE {}

After(program, n) == [i \in 1 .. Len(program) - n |-> program[i + n]]

(* t is n statements into a program: it has the locks of these, perhaps    *)
(* some of the next one, and has written what they write; and what they    *)
(* compared is still so.                                                   *)
Follows(t, program, n) ==
    /\ todo[t] = After(program, n)
    /\ \A lock \in held[t] : \E i \in 1 .. n + 1 :
          lock \in LocksOf(program[i]) /\ (i = n + 1 => program[i].op = "lock")
    /\ \A i \in 1 .. n : program[i].op # "skip" => LocksOf(program[i]) \subseteq held[t]
    /\ \A w \in wrote[t] : \E i \in 1 .. n : w \in WritesOf(program[i])
    /\ \A i \in 1 .. n : WritesOf(program[i]) \subseteq wrote[t]
    /\ \A i \in 1 .. n : program[i].op = "cas" => value[program[i].row] \in program[i].from
    /\ conns[t] = IF n = 0 THEN 0 ELSE 1

(* t has found a row changed or a key used, and is on its way out; all it  *)
(* may commit is the key with its refusal.                                 *)
Leaves(t) ==
    /\ todo[t] \in {<<Rollback>>, AlreadySettled, Tail(AlreadySettled), <<Commit>>}
    /\ At(t, {"commit"}) => wrote[t] \subseteq {<<Key(a), "pending">> : a \in Attempt}
    /\ At(t, {"begin"}) => held[t] = {} /\ wrote[t] = {}
    /\ \A a \in Attempt : <<Row(a), "insert">> \notin held[t]
    /\ conns[t] = IF At(t, {"begin"}) THEN 0 ELSE 1

IsIdle(t) == todo[t] = <<>> /\ held[t] = {} /\ wrote[t] = {} /\ conns[t] = 0

KnowsItsPlace ==
    \A t \in Task :
        \/ IsIdle(t)
        \/ Leaves(t)
        \/ \E program \in Programs(Attempt) : \E n \in 0 .. Len(program) - 1 : Follows(t, program, n)

TypeOK ==
    /\ DOMAIN todo = Task
    /\ held  \in [Task -> SUBSET ((Valued \cup {Business, Customer, Endpoint, ApiKey}) \X {"share", "row", "update", "insert"})]
    /\ wrote \in [Task -> SUBSET (Valued \X Status)]
    /\ conns \in [Task -> {0, 1}]
    /\ value \in [Valued -> Status]

LocksExclude ==
    \A t, u \in Task : t # u =>
        \A lock \in held[t], other \in held[u] : lock[1] = other[1] => ~Conflict(lock[2], other[2])

(* Nobody but its holder can commit a change of a row. *)
WritesAreLocked ==
    \A t \in Task : \A w \in wrote[t] : <<w[1], "row">> \in held[t] \/ <<w[1], "insert">> \in held[t]

(* A lock on an attempt's row that is there is one on an attempt that is   *)
(* pending; a key that is being inserted is not there.                     *)
LocksAreGrounded ==
    \A t \in Task : \A a \in Attempt :
        /\ \A mode \in {"row", "update"} : <<Row(a), mode>> \in held[t] => value[Row(a)] = "pending"
        /\ <<Key(a), "insert">> \in held[t] => value[Key(a)] # "pending"

(* One attempt is pending, and then the invoice is processing; who has an  *)
(* attempt has used its key.                                               *)
RowsAgree ==
    \A a \in Attempt :
        /\ value[Row(a)] = "pending" =>
              /\ value[Invoice] = "processing"
              /\ \A b \in Attempt \ {a} : value[Row(b)] # "pending"
        /\ value[Row(a)] # "absent" => value[Key(a)] = "pending"

IInv == TypeOK /\ KnowsItsPlace /\ LocksExclude /\ WritesAreLocked /\ LocksAreGrounded /\ RowsAgree

=============================================================================

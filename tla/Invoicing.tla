----------------------------- MODULE Invoicing ------------------------------
(***************************************************************************)
(* The customers and invoices of one business as its clients see them:     *)
(* created, listed page by page, read in detail, while invoices are paid   *)
(* and voided and other requests create more.  The events of these         *)
(* transactions are in Payments and EventLog, their locks in RowLocks.     *)
(***************************************************************************)
EXTENDS Pricing, Pagination, InvoiceState

CONSTANTS Customer,     \* create_customer requests, and the rows they insert
          Creation,     \* create_invoice requests, and the invoices they insert
          Asks,         \* what they may ask for: functions on both
          Client,       \* each walks a list to its end, or gets an invoice
          Id,           \* uuids, in their order
          MaxAttempts   \* bound: attempts at paying, all together

ASSUME IdsAreOrdered == Id \subseteq Int
ASSUME RowsAreFinite == IsFiniteSet(Customer) /\ IsFiniteSet(Creation)
ASSUME TablesAreDisjoint == Customer \cap Creation = {}

(* serde has parsed what arrives here. *)
Parsed(asks) == \A c \in Creation :
    asks[c] # Null => asks[c].usd \in BOOLEAN /\ asks[c].items \in Seq(LineItemInput)

ASSUME AsksAreParsed == \A asks \in Asks : Parsed(asks)

VARIABLES ask,        \* [usd, customer, items], or of a customer "valid" or not,
                      \* Null if it is never sent
          stage,      \* of each creation
          quote,      \* what it was priced at
          uid,        \* the id of each customer and invoice, Null before
          status,     \* of each invoice
          attempts,   \* the statuses of its attempts, in their order
          walk,       \* each client's walk
          due,        \* history: rows there from the walk's start, matching all along
          view        \* what get_invoice has read

createVars == <<ask, stage, quote>>
rowVars    == <<uid, status, attempts>>
clientVars == <<walk, due, view>>
vars       == <<createVars, rowVars, clientVars>>

NoWalk == [phase |-> "idle", table |-> Null, status |-> Null, limit |-> 0,
           cursor |-> Null, pages |-> <<>>]

NoView == [invoice |-> Null, read |-> <<>>, status |-> Null, attempts |-> <<>>]

Init ==
    /\ ask \in Asks
    /\ stage = [c \in Creation |-> "asked"]
    /\ quote = [c \in Creation |-> Empty]
    /\ uid = [x \in Customer \cup Creation |-> Null]
    /\ status = [c \in Creation |-> "absent"]
    /\ attempts = [c \in Creation |-> <<>>]
    /\ walk = [w \in Client |-> NoWalk]
    /\ due = [w \in Client |-> {}]
    /\ view = [v \in Client |-> NoView]

(* now_v7: another id each time, in each table.  The clocks of two         *)
(* processes differ, and of two transactions either may commit first.      *)
FreshId(table) == Id \ {uid[x] : x \in table}

-----------------------------------------------------------------------------
(* create_customer: one INSERT; a request that is not valid does nothing *)

CreateCustomer(k) ==
    /\ ask[k] = "valid"
    /\ uid[k] = Null
    /\ \E id \in FreshId(Customer) : uid' = [uid EXCEPT ![k] = id]
    /\ UNCHANGED <<createVars, status, attempts, clientVars>>

-----------------------------------------------------------------------------
(* create_invoice *)

Advance(c, from, to) == stage[c] = from /\ stage' = [stage EXCEPT ![c] = to]

(* The currency, then the price, before any connection is taken. *)
RefuseInvoice(c) ==
    /\ Advance(c, "asked", "refused")
    /\ ask[c] # Null
    /\ ask[c].usd => Price(ask[c].items).error # NoError
    /\ UNCHANGED <<ask, quote, rowVars, clientVars>>

CustomerNotFound(c) ==
    /\ Advance(c, "asked", "not_found")
    /\ ask[c] # Null /\ ask[c].usd
    /\ Price(ask[c].items).error = NoError
    /\ uid[ask[c].customer] = Null
    /\ UNCHANGED <<ask, quote, rowVars, clientVars>>

(* The customer exists; the id; insert_invoice, not yet committed. *)
InsertInvoice(c) ==
    /\ stage[c] = "asked"
    /\ ask[c] # Null /\ ask[c].usd
    /\ uid[ask[c].customer] # Null
    /\ LET priced == Price(ask[c].items) IN
          /\ priced.error = NoError
          /\ quote' = [quote EXCEPT ![c] = priced]
          /\ Advance(c, "asked", IF Checked(priced) THEN "inserted" ELSE "failed")
    /\ \E id \in FreshId(Creation) : uid' = [uid EXCEPT ![c] = id]
    /\ UNCHANGED <<ask, status, attempts, clientVars>>

(* After load_detail and the event: the invoice and its lines appear. *)
CommitInvoice(c) ==
    /\ Advance(c, "inserted", "created")
    /\ status' = [status EXCEPT ![c] = "open"]
    /\ UNCHANGED <<ask, quote, uid, attempts, clientVars>>

(* A statement fails, or the process dies. *)
RollBackInvoice(c) ==
    /\ Advance(c, "inserted", "cut_off")
    /\ uid' = [uid EXCEPT ![c] = Null]
    /\ UNCHANGED <<ask, quote, status, attempts, clientVars>>

-----------------------------------------------------------------------------
(* Transitions, with what they do to the attempts *)

Matches(c, filter) == status[c] # "absent" /\ filter \in {Null, status[c]}

(* apply_transition on a row that has the transition's source. *)
ApplyTransition(c, transition) ==
    /\ status[c] = From(transition)
    /\ status' = [status EXCEPT ![c] = To(transition)]
    /\ due' = [w \in Client |-> IF walk[w].status \in {Null, To(transition)} THEN due[w]
                              ELSE due[w] \ {uid[c]}]
    /\ UNCHANGED <<createVars, uid, walk, view>>

VoidInvoice(c) == ApplyTransition(c, "void") /\ UNCHANGED attempts

ClaimInvoice(c) ==
    /\ MapThenSumSet(LAMBDA x : Len(attempts[x]), Creation) < MaxAttempts
    /\ ApplyTransition(c, "begin_payment")
    /\ attempts' = [attempts EXCEPT ![c] = Append(@, "pending")]

SettleAttempt(c) ==
    \E succeeded \in BOOLEAN :
        /\ ApplyTransition(c, IF succeeded THEN "payment_succeeded" ELSE "payment_failed")
        /\ attempts' = [attempts EXCEPT ![c][Len(attempts[c])] = IF succeeded THEN "succeeded" ELSE "failed"]

-----------------------------------------------------------------------------
(* list_customers, list_invoices, and a client that follows has_more *)

Ids(table, filter) ==
    IF table = "customers" THEN {uid[k] : k \in {k \in Customer : uid[k] # Null}}
    ELSE {uid[c] : c \in {c \in Creation : Matches(c, filter)}}

Filters(table) == IF table = "customers" THEN {Null} ELSE {Null} \cup InvoiceStatus

(* The parameters stay the same from page to page. *)
StartWalk(w) ==
    /\ walk[w] = NoWalk /\ view[w] = NoView
    /\ \E table \in {"customers", "invoices"}, requested \in {Null} \cup 0 .. MaxLimit + 1 :
       \E filter \in Filters(table) :
          LET limit == ResolveLimit(requested) IN
          IF limit = {}
          THEN walk' = [walk EXCEPT ![w].phase = "refused"] /\ UNCHANGED due
          ELSE /\ walk' = [walk EXCEPT ![w] =
                              [phase |-> "walking", table |-> table, status |-> filter,
                               limit |-> CHOOSE n \in limit : TRUE, cursor |-> Null, pages |-> <<>>]]
               /\ due' = [due EXCEPT ![w] = Ids(table, filter)]
    /\ UNCHANGED <<createVars, rowVars, view>>

(* The last row of a page is the next cursor; without one the walk ends. *)
NextPage(w) ==
    LET page == Page(Ids(walk[w].table, walk[w].status), walk[w].cursor, walk[w].limit) IN
    /\ walk[w].phase = "walking"
    /\ \E last \in page.data \cup (IF page.data = {} THEN {Null} ELSE {}) :
          /\ \A i \in page.data : last <= i
          /\ walk' = [walk EXCEPT ![w].pages  = Append(@, page.data),
                                  ![w].cursor = last,
                                  ![w].phase  = IF page.hasMore /\ last # Null THEN "walking" ELSE "over"]
    /\ UNCHANGED <<createVars, rowVars, due, view>>

-----------------------------------------------------------------------------
(* get_invoice: load_detail in autocommit, a snapshot for each SELECT.     *)
(* The lines never change once they are there.                             *)

(* Seeded fault: the attempts are read first. *)
FaultSelects == <<"attempts", "invoice", "line_items">>

Selects == <<"invoice", "line_items", "attempts">>

StartView(v) ==
    /\ walk[v] = NoWalk /\ view[v] = NoView
    /\ \E c \in Creation : status[c] # "absent" /\ view' = [view EXCEPT ![v].invoice = c]
    /\ UNCHANGED <<createVars, rowVars, walk, due>>

Select(v, what) ==
    LET c == view[v].invoice IN
    /\ c # Null
    /\ Len(view[v].read) < Len(Selects)
    /\ what = Selects[Len(view[v].read) + 1]
    /\ view' = [view EXCEPT ![v].read     = Append(@, what),
                            ![v].status   = IF what = "invoice" THEN status[c] ELSE @,
                            ![v].attempts = IF what = "attempts" THEN attempts[c] ELSE @]
    /\ UNCHANGED <<createVars, rowVars, walk, due>>

-----------------------------------------------------------------------------
Create(c) == \/ RefuseInvoice(c) \/ CustomerNotFound(c) \/ InsertInvoice(c)
             \/ CommitInvoice(c) \/ RollBackInvoice(c)

Next ==
    \/ \E k \in Customer : CreateCustomer(k)
    \/ \E c \in Creation : \/ Create(c) \/ VoidInvoice(c) \/ ClaimInvoice(c) \/ SettleAttempt(c)
    \/ \E w \in Client : StartWalk(w) \/ NextPage(w)
    \/ \E v \in Client : StartView(v) \/ \E what \in Range(Selects) : Select(v, what)

Spec == Init /\ [][Next]_vars

-----------------------------------------------------------------------------
(* Properties *)

(* A request is refused exactly if, over the integers, it may not be paid; *)
(* what is inserted has the exact total of the lines asked for, and the    *)
(* CHECKs of the schema never have to catch it (pricing.rs, 0002).         *)
PricedExactly ==
    \A c \in Creation : ask[c] # Null =>
        /\ stage[c] # "failed"
        /\ stage[c] = "refused" => ~(ask[c].usd /\ Payable(ask[c].items))
        /\ stage[c] = "not_found" => Payable(ask[c].items)
        /\ stage[c] \in {"inserted", "created"} =>
              /\ ask[c].usd /\ Payable(ask[c].items)
              /\ quote[c].total = Sum(ask[c].items)
              /\ quote[c].total = Sum(quote[c].lines)
              /\ Len(quote[c].lines) = Len(ask[c].items)

(* A walk goes from newer to older ids and has no row on two pages,        *)
(* whatever is inserted, paid or voided between the pages (pagination.rs). *)
NoRowTwice ==
    \A w \in Client : \A m, n \in DOMAIN walk[w].pages : m < n =>
        \A i \in walk[w].pages[m], j \in walk[w].pages[n] : j < i

(* When has_more is false the walk has been at every row that was there    *)
(* when it began and has matched its filter ever since.                    *)
WalkIsComplete ==
    \A w \in Client : walk[w].phase = "over" => due[w] \subseteq UNION Range(walk[w].pages)

(* What is shown as paid is shown with the one attempt that succeeded, and *)
(* what is shown as processing with an attempt at it.                      *)
Explained(seen) ==
    LET succeeded == {n \in DOMAIN seen.attempts : seen.attempts[n] = "succeeded"} IN
    /\ seen.status = "paid" => Cardinality(succeeded) = 1
    /\ seen.status = "processing" => seen.attempts # <<>>
    /\ seen.status = "void" => \A n \in DOMAIN seen.attempts : seen.attempts[n] = "failed"

(* get_invoice reads the attempts after the invoice: whatever happens in   *)
(* between, the attempts it shows explain the status it shows, of a void   *)
(* invoice only failed ones (load_detail).                                 *)
DetailExplainsStatus ==
    \A v \in Client : Len(view[v].read) = Len(Selects) => Explained(view[v])

WalkRecord ==
    [phase  : {"idle", "refused", "walking", "over"},
     table  : {"customers", "invoices", Null},
     status : {Null} \cup InvoiceStatus,
     limit  : Int,
     cursor : Id \cup {Null},
     pages  : Seq(SUBSET Id)]

TypeOK ==
    /\ uid \in [Customer \cup Creation -> Id \cup {Null}]
    /\ stage \in [Creation -> {"asked", "refused", "not_found", "failed", "inserted", "cut_off", "created"}]
    /\ status \in [Creation -> {"absent"} \cup InvoiceStatus]
    /\ walk \in [Client -> WalkRecord]

ListedHasId ==
    \A c \in Creation : stage[c] = "inserted" \/ status[c] # "absent" => uid[c] # Null

ListedIsCreated == \A c \in Creation : status[c] # "absent" => stage[c] = "created"

CursorIsLast ==
    \A w \in Client : \A n \in DOMAIN walk[w].pages : \A i \in walk[w].pages[n] :
        walk[w].phase = "walking" => walk[w].cursor # Null /\ walk[w].cursor <= i

(* What a walk still has to find is listed, and before its cursor. *)
DueIsAhead ==
    /\ due \in [Client -> SUBSET Id]
    /\ \A w \in Client : walk[w].phase = "walking" =>
          /\ walk[w].limit > 0
          /\ due[w] \subseteq Ids(walk[w].table, walk[w].status)
          /\ \A i \in due[w] :
                i \in UNION Range(walk[w].pages) \/ walk[w].cursor = Null \/ i < walk[w].cursor

(* An invoice in flight or paid has one attempt that is not failed, its    *)
(* last; any other has none.                                               *)
LastOf(c) == attempts[c][Len(attempts[c])]

AttemptsMatch ==
    /\ attempts \in [Creation -> Seq({"pending", "succeeded", "failed"})]
    /\ \A c \in Creation :
        /\ \A n \in 1 .. Len(attempts[c]) - 1 : attempts[c][n] = "failed"
        /\ attempts[c] # <<>> => LastOf(c) = CASE status[c] = "processing" -> "pending"
                                             [] status[c] = "paid" -> "succeeded"
                                             [] OTHER -> "failed"
        /\ status[c] \in {"processing", "paid"} => attempts[c] # <<>>

ViewRecord ==
    [invoice  : Creation \cup {Null},
     read     : Seq({"invoice", "line_items", "attempts"}),
     status   : {Null} \cup InvoiceStatus,
     attempts : Seq({"pending", "succeeded", "failed"})]

(* What get_invoice has read of the invoice is final if it is paid or      *)
(* void, and if it is processing there is an attempt by now.               *)
ViewIsCurrent ==
    /\ view \in [Client -> ViewRecord]
    /\ \A v \in Client :
        /\ Len(view[v].read) <= Len(Selects)
        /\ view[v].invoice # Null => status[view[v].invoice] # "absent"
        /\ Len(view[v].read) > 0 =>
              LET c == view[v].invoice IN
              /\ c # Null
              /\ view[v].status \in Terminal => status[c] = view[v].status
              /\ view[v].status = "processing" => attempts[c] # <<>>

(* What has become of a creation is what its price says, and nothing the   *)
(* schema's CHECKs would catch.                                            *)
PriceInv ==
    /\ Parsed(ask) /\ DOMAIN quote = Creation
    /\ \A c \in Creation :
        LET priced == Price(ask[c].items) IN
        /\ stage[c] # "failed"
        /\ stage[c] = "refused" => ask[c] # Null /\ (ask[c].usd => priced.error # NoError)
        /\ stage[c] = "not_found" => ask[c] # Null /\ priced.error = NoError
        /\ stage[c] \in {"inserted", "created"} =>
              ask[c] # Null /\ ask[c].usd /\ priced.error = NoError /\ quote[c] = priced

ListsInv == TypeOK /\ ListedHasId /\ ListedIsCreated /\ CursorIsLast /\ NoRowTwice

DueInv == DueIsAhead /\ WalkIsComplete

DetailInv == AttemptsMatch /\ ViewIsCurrent /\ DetailExplainsStatus

(* The inductive invariant: what is inserted is what was priced; what is   *)
(* listed has an id, and nothing a walk has listed is before its cursor;   *)
(* what is due to it is listed or still ahead; and the attempts say what   *)
(* the status says.                                                        *)
IInv == PriceInv /\ ListsInv /\ DueInv /\ DetailInv

=============================================================================

# Verification of the invoicing service

TLA+ models, TLC runs and TLAPS proofs for the service under `src/invoicing`
(Rust, Axum, sqlx, Postgres). The service issues invoices, collects them
through a payment service provider (PSP), and tells its clients what happened
through an events API and webhooks. Money moves outside the database, so most
of what can go wrong happens between two transactions, or between a transaction
and a call to the PSP or a receiver. That is what the project is about.

`PROJECT.json` lists components, runs, mutants, the map from definitions to
source lines, hazards, findings and theorems in machine-readable form.

    tlc -workers 2 -config MCPaymentsFlow.cfg MCPayments
    tlapm PaymentsProofs.tla

## 1. The system

| Component | Source | State | Operations |
|---|---|---|---|
| Invoice state machine | `invoices/state.rs`, `mod.rs`, `handlers.rs` | `invoices.status`: open, processing, paid, void | create, void, `apply_transition` (a compare-and-set on the status, and a second read that explains a miss) |
| Payment requests | `payments.rs` | `payment_attempts` | `POST /pay`: claim, charge, settle; `pending_response` |
| Idempotency keys | `idempotency.rs` | `idempotency_keys`: fingerprint, attempt, stored response | reserve, resolve, attach, complete |
| Reconciler | `reconciler.rs` | `reconcile_after`, `reconcile_count` | lease due attempts, look each up, settle or reschedule |
| PSP client | `psp.rs` | none | charge, look up: a definitive answer or nothing |
| Event log | `events.rs` | `events` with `seq` | record (inside the caller's transaction), list from a cursor |
| Webhook endpoints | `webhooks/endpoints.rs` | `webhook_endpoints` | create, disable, list |
| Webhook dispatcher | `webhooks/dispatcher.rs` | `webhook_deliveries` | lease, POST, record the result |
| API keys | `api_keys.rs`, `auth.rs`, `businesses.rs` | `api_keys` | issue, revoke, authenticate |
| Invoice pricing | `invoices/pricing.rs` | line items and totals, which never change | `price`: checked sums with caps |
| Customers, pagination | `customers.rs`, `pagination.rs` | `customers` | create; pages of customers and invoices |
| Configuration | `config.rs` | none | the rules between timeouts, grace window and leases |
| Test harness | `harness/src/mock_psp.rs` | the mock PSP's table of charges | create, look up |
| Signatures, HTTP surface | the remaining files | none | validation, pure functions |

How they interact:

* A pay request and the reconciler both end in `settle_attempt`, which changes
  the attempt, the invoice, the key's stored response and the event log in one
  transaction. They share nothing but the tables.
* Creating, voiding and settling an invoice call `events::record` in their own
  transaction; it locks the business's row until the commit, takes a `seq`,
  and inserts one delivery per active endpoint.
* The dispatcher and the reconciler poll their tables with `FOR UPDATE SKIP
  LOCKED` and a lease, in any number of processes.
* Everything is READ COMMITTED: a statement sees what is committed when it
  starts, a writer waits for the transaction that holds the row.

What is hard: two requests or two workers on one row; a request cut off at any
`await`; a charge that is lost, or made and its answer lost; a late result after
a lease ran out; two statements that read different states; one order of `seq`
and another of commits. `PROJECT.json` has the full list ("hazards"), each at
its line with the properties that would catch it.

What makes each part correct:

* payments: an invoice is charged at most once, and its status, its attempts,
  its stored answers and its events agree with the money, across crashes;
* keys: a key starts one attempt, and all answers given with it are true and
  agree with one another;
* reconciler: every attempt is settled, and "the PSP has no record" is
  concluded only when no charge can follow;
* event log: a consumer with a checkpoint misses nothing;
* deliveries: each URL gets an event's delivery from one row, one worker at a
  time while leases last, within its budget of attempts, and it always ends;
* API keys: a business cannot lock itself out;
* time: what the PSP has decided is settled within a bound, and no two workers
  have one attempt;
* locks: no two transactions wait for each other, for rows or connections;
* pricing: a total is exact, or the request is refused; never a wrapped sum;
* lists: a client that follows `has_more` gets no row twice and misses none
  that was there from the start.

## 2. Modules

| Module | Models | Is used by |
|---|---|---|
| `InvoiceState` | statuses and transitions of `state.rs` | `PaymentDomain` |
| `PaymentDomain` | the sets: requests, workers, invoices, keys, tokens | `Psp`, `PaymentStore` |
| `Psp` | the PSP and the network to it (external) | `PayRequest` |
| `PaymentStore` | tables, row locks, `settle_attempt` | `PayRequest` |
| `PayRequest` | `pay_invoice` from key to answer | `Reconciler` |
| `Reconciler` | the reconciler's workers | `Payments` |
| `InvoiceLedger` | abstract: status and money, nothing else | `Payments` (refinement) |
| `Payments` | the composition, its properties and invariant | `MCPayments`, `PaymentsProofs`, `PaymentAnswersProofs` |
| `WebhookStore` | tables and locks of migration 0004 | the next three |
| `EventLog` | `events::record`, `list_events` | `Webhooks` |
| `Endpoints` | create and disable | `Webhooks` |
| `Dispatcher` | the dispatcher's workers | `Webhooks` |
| `EventFeed` | abstract: one log, read by prefixes | `Webhooks` (refinement) |
| `Webhooks` | the composition, its properties and invariant | `MCWebhooks`, `WebhooksProofs`, `EventFeedProofs` |
| `ApiKeys` | issue, revoke and authenticate | `MCApiKeys`, `ApiKeysProofs` |
| `MockPsp` | the harness's PSP with its clock: one charge, one outcome, told later | `ReconcileClock` |
| `ReconcileClock` | grace window, lease, backoff and timeouts of one attempt | `MCReconcileClock`, `ReconcileClockProofs` |
| `RowLocks` | every transaction as the locks and connections it takes | `MCRowLocks`, `RowLocksProofs` |
| `Pricing` | `price` over integers of a fixed width | `Invoicing` |
| `Pagination` | keyset pages, newest first | `Invoicing` |
| `Invoicing` | customers and invoices as clients create, list and read them | `MCInvoicing`, `InvoicingProofs` |

`Payments` and `Webhooks` are separate on purpose. All they share is that
`events::record` runs in the caller's transaction; `Payments` writes the event
at the caller's commit, `Webhooks` has an unspecified caller that may roll back
after any statement.

### Transactions

The tables are variables that hold what is *committed*. What an open
transaction has written is in its process's stage and in the lock it holds: the
key row it is inserting (`keyLock`), the invoice it has updated (`invLock`),
the attempt it is settling (`attLock`), the business row (`bizLock`), the
deliveries it is cancelling (`held`). One action is one statement that other
transactions can come before or after; statements of a transaction that nobody
can come between, because a lock taken earlier keeps everybody else out, are
one action (the rest of `settle_attempt` after its guarded UPDATE is
`SettleCommit`). A crash, a client that hangs up (Axum drops the handler) and a
failed statement are one action, possible in every stage, which frees the locks
and leaves the tables: `Abandon`, `Crash`, `AbortEvent`, `AbortDisable`,
`WorkerDies`, `CutOff`.

### Payments

One `Request` is one HTTP request; a retry is another request with the same
key. A request inserts at most one attempt, so the attempt, and the charge at
the PSP, carry the request's name. `pc` follows the code:

    idle -> reserve -> begin -> insert -> charge -> await -> settle -> settling
                |         \-> explain               \-> pending -> invoice
                \-> replay, reused, pending         settle -> stored (lost)

* `Reserve`, `KeyReused`, `KeyReplay`, `KeyAwaiting` are the outcomes of
  `reserve` and `resolve`. The INSERT waits for a transaction that inserts the
  same key.
* `BeginPayment` and `CasMissed` are the UPDATE of `apply_transition`,
  `RefuseForNow` and `RefuseForGood` its explaining SELECT and what
  `claim_invoice` makes of it, on the status as it is *then*.
* `SendCharge`, `ChargeSettled`, `ChargeIndeterminate` are the PSP call. The
  request on the wire (`post`) lives on after its caller has given up, and the
  PSP (`psp`) decides when it likes.
* `SettleClaim`, `SettleLost`, `SettleCommit`, `ReadStored` are
  `settle_attempt`, for requests and workers alike.
* `ReadAttempt`, `ReadInvoice` are the two reads of `pending_response`.
* `ClaimDue`, `LookupSettled`, `LookupNoRecord`, `LookupInconclusive`,
  `Reschedule` are a worker. `due` is `reconcile_after <= now()`: `BecomesDue`
  is that moment passing, so it covers the first look, the backoff and a lease
  that runs out while its worker is alive. `aged` is the grace window being
  over; that it is never over while the charge may still arrive is an
  assumption in this module (`GraceElapses`), and `ReconcileClock` examines it.

Left out because no state can tell: the branches of `settle_attempt` for a
missing or non-processing invoice and of `resolve` for a row with neither
response nor attempt (`StagesInv`, `InvoicesInv` and `KeysInv` show they are
never taken), and the partial unique indexes of migration 0003. The indexes are
backstops by their own comment; the properties hold without them, and
`RowLocks` shows that they never have to refuse (`BackstopStandsIdle`).

### Webhooks

`RecordStep` is `events::record` and its caller's commit: `LockBusiness`,
`InsertEvent`, `FanOut`, `CommitEvent`. The foreign key's KEY SHARE lock on an
endpoint does not conflict with the update that disables it, so a disable can
come between `FanOut` and `CommitEvent`. `ListEvents` is one page and the
client's new checkpoint; `seq` never changes, so the two reads of `list_events`
are one step. An endpoint is one row, so registering a URL anew is another
`Endpoint` with the same `UrlOf`. A `Worker` is one place in a batch; `Lease`
is `lease_due` for one row, and the order of a batch is abstracted: any row
that is due may be next. `next` is what a row's `next_attempt_at` waits for, and
`delay` the entry of `RETRY_SCHEDULE` that set it.
A disable of an endpoint that is disabled already goes through the same
statements, as in the code.

### API keys

The rows of one business. Authentication and the handler are separate
steps: the key a request came with can be revoked in between. The checks of
`revoke_api_key` are one step: while the lock is held, only an issue can come
between its two SELECTs, and that cannot turn a yes into a no.

### ReconcileClock

One attempt, on a clock that starts at its `created_at`. The handler sends the
charge up to `SendLag` later and waits `Timeout`; workers claim the attempt when
`reconcile_after` (`dueAt`) has passed, which sets it to the end of a lease, and
settle or reschedule with the capped backoff. What `claim_due` returns is
computed once, so a worker remembers whether the window was past (`past`) and
how many checks there were. `WorkTime` bounds a worker's pass and `Pickup` the
wait of a due attempt; `SendLag`, `WorkTime` and `Pickup` are bounds on the
environment, not in the code. `trouble` is a history variable: the last time a
worker failed although the PSP had an outcome to tell. The PSP is the
harness's (`MockPsp`): it decides when the request arrives and takes its time
to say so, and a repeated key keeps its first charge.

`Doublings` is `1 << exponent` as a table, so that the shift and its clamp
(`reconciler.rs:132`) are an index and its clamp.

### RowLocks

A task is a request or a worker's pass, and runs one transaction of the service
as a program of statements: `Record`, `CreateInvoice`, `VoidInvoice`,
`ClaimInvoice`, `SettleAttempt`, `ClaimDue` and so on, each with the rows it
locks in the order of the code. Locks have PostgreSQL's modes as far as they
differ here: `share` is FOR KEY SHARE, taken on the row a foreign key refers to;
`row` is FOR NO KEY UPDATE, which every UPDATE takes, since none changes a key;
`update` is FOR UPDATE, of the batches with SKIP LOCKED; `insert` is an INSERT
that waits on its unique index. `share` goes with `share`, `row` and `insert`,
and nothing else goes with anything. A statement that locks several rows takes
them in any order, and passes over those its transaction has in that mode.
Values are kept only for the rows that are compared and set (`CompareAndSet`),
whose outcome decides what follows. `Aborts` is any early return, timeout or
crash, at any statement.

`NoDeadlock` does not rely on it: in every set of tasks there is one that waits
for no other of the set, and if it wants a connection, one outside the set has
one.

### Invoicing

`Price` is `price` of `pricing.rs`: `Turns` is the quote after each turn of its
loop, as a recursive function, and `PriceItem` is one turn; an Option is a set
of at most one amount, and amounts have `Bits` bits. The five reasons to refuse
an item are tried in the order of the code. `Sum` and `Payable` are what it
should come to, over the integers. What a client may ask for has been parsed
(`AsksAreParsed`): quantities and prices are amounts of that width.

Ids are UUIDv7s of several processes: their order is that of their clocks, not
of their commits, so `FreshId` is any id not used in the table. A list is one
SELECT in autocommit per page: newest `limit + 1` rows before the cursor, the
extra row being `has_more`. A client's walk keeps its parameters and takes the
last row of a page as the next cursor. `get_invoice` is three SELECTs with a
snapshot each. Meanwhile invoices are created, paid and voided. The history
variable `due` has the rows that were there when a walk began and have matched
its filter since; the code promises nothing about the others.

## 3. Runs

Every invariant is checked in all reachable states of the instance. States are
distinct states under symmetry.

| Run | Properties | Bounds | States |
|---|---|---|---|
| `flow` | `TypeOK` `NoDoubleCharge` `MoneyMatchesInvoice` `InFlightIffProcessing` `OutboxTellsTheStory` `SettledHasStoredAnswer` `AnswersAreTrue` `ChargedOncePerKey` `RetriesAgree` `KeysAreForever` `RefinesLedger` | 3 requests, 2 keys, 1 invoice and 1 unknown id, 1 worker | 784,548 |
| `workers` | `IInv` | 2 requests, 2 workers | 257,244 |
| `live` | `AttemptsSettle` `RequestsAreAnswered` | 2 requests, 1 worker, fair | 64,295 |
| `feed` | `NothingBehindCheckpoint` `RefinesFeed` | 4 events, 2 clients, pages of 2 | 480 |
| `delivery` | `OneDeliveryPerUrl` `NoOverlapWithinLease` `AttemptBudget` `OutcomesAreEarned` `BackoffFollowsSchedule` `IInv` `OverIsOver` `DeliveriesEnd` | 1 event, 2 endpoints of one URL, 2 workers, 2 attempts, 2 interruptions, fair | 99,488 |
| `apikeys` | `NeverLockedOut` `IInv` | 4 requests, 3 keys | 2,305 |
| `clock` | `NoRecordMeansNoCharge` `OneWorkerAtATime` `SettledInTime` `SettledAsDecided` `IInv` `ImplementsPsp` | 2 workers, timeout 1, grace 2, lease 3, delays 1, 2, 4, 8 capped at 3, lag 1, pass 2, pickup 1, PSP delays 1 and 8, clock to 20 | 250,652 |
| `locks` | `NoDeadlock` `BackstopStandsIdle` `IInv` | 3 tasks, 2 attempts of 1 invoice, 2 deliveries, 3 connections | 333,626 |
| `invoices` | `PricedExactly` `NoRowTwice` `WalkIsComplete` `DetailExplainsStatus` `IInv` | 4-bit amounts, total to 5, lists of up to 3 items where 2 are allowed; 3 customers, 3 invoices, 1 client, pages of 1 or 2, 2 attempts | 768,866 |
| `refusal`, `disabled`, `slowsend` | one claim each, violated (section 6) | small | |

Why the bounds suffice. Three requests over two keys give a retry of one key
beside a rival with another key, and a third attempt after a failed one; one
invoice is enough because invoices share nothing but keys, and the unknown id
makes a key be used for two invoices. A second worker is needed only for
overlapping leases, the case of `workers`. Four events with pages of two let a
client checkpoint twice around events that overlap or roll back. Two endpoints
of one URL are needed for a URL registered anew; one event is enough there,
since deliveries of different events share only locks, and the locks are in
`feed`. The bound `Interruptions` counts crashes and leases that run out in
mid-call, the only ways to exceed `MaxAttempts`.

`clock` is the default configuration scaled down (3 s, 30 s, 30 s, 60 s) with
every inequality kept as tight as `validate` and the theorems allow: a lease one
longer than a pass, a window of just lag and timeout. A PSP delay of 8 makes
the backoff reach and pass its cap, and the clock runs on beyond that.
`locks` needs three tasks for a circle through a third row and a pool that three
can exhaust when one of them wants a second connection; two attempts are
rivals for the invoice, two deliveries can be locked in opposite orders.
`invoices` has three kinds of start in one run (`SmallAsks`): one creation with
every list of up to two items out of all, and some of three; three creations;
three customers. Four bits make both the product and the sum overflow where the
cap would not; three rows and pages of one or two make a walk of two or three
pages with room for an insert and a void between them.

Nothing else is cut: the sequences, counters and clocks are bounded by the sets
above (`Horizon` for the clock, whose last tick is beyond every window).

`CHECK_DEADLOCK FALSE` is used where the instance really comes to a stop: all
events recorded and read (`feed`), all API requests done (`apikeys`), everything
created and walked (`invoices`), the clock at its bound (`clock`, `slowsend`).
In `locks` an idle task can always begin again. `Payments` ends in an explicit `Quiet`
state instead, so that a stuck request is still a deadlock; in `delivery` and
`disabled` endpoints can always be disabled again.

Mutants: operators named `Fault...` are seeded faults. Put in the place of the
operator that follows them they must break a property, which shows that the
property says something about that line of the code: a compare-and-set without
its compare, a missing row lock, an UPDATE without its `status = 'pending'`, an
off-by-one in the attempts, a timeout that never fires, a product that wraps
around, a lock in a stronger mode, a page that fetches no extra row.

### Fairness

`live`: handlers and workers keep running (`WF` on `Handle` and `Work`), the
network delivers or loses a request, the PSP decides what it has received, and
time passes (`WF`). Strong fairness on claiming, on a lookup that finds
something and on the two steps of settling says that crashes and inconclusive
lookups do not hit the same step for ever. The code justifies it by polling for
ever, a timeout on every call, and leases that give a dead worker's rows back.
Nothing obliges a request to be cut off, a worker to crash, or an invoice to be
voided. `delivery` is the same for the dispatcher; that a disabling
transaction ends one way or the other is weakly fair, because it waits for
nobody but a statement on a row that a worker holds for one statement.

## 4. Refinements

* `Payments` implements `InvoiceLedger` (`RefinesLedger`): an invoice's status,
  and the set of charges that took money for it, mapped from the PSP's record.
  In the ledger money is taken only while the invoice is processing, at most
  once, and the status leaves processing for paid exactly if it was taken.
* `Webhooks` implements `EventFeed` (`RefinesFeed`): the committed events in
  `seq` order are a log that only grows at its end, and what a client has read
  is always a prefix of it.
* `ReconcileClock` implements `Psp` (`ImplementsPsp`): the harness's table of
  charges with its clock, seen through what a lookup answers and where the
  request is, is the PSP that the payment flow is checked and proved against.
  That a charge is decided is there the moment from which it is told.

## 5. Proofs

TLC's results are for the instances above; the theorems are for every number of
requests, workers, keys, events, endpoints and clients. All proofs are checked
by `tlapm` down to the last leaf.

| Module | Theorems |
|---|---|
| `PaymentsProofs` | `CoreInvariance`, `TypeCorrect`, `NeverChargedTwice`, `BooksAlwaysMatchMoney`, `OnePendingAttempt`, `AnswersAreStored`, `OneChargePerKey`, `KeysNeverChange`, `ImplementsLedger` |
| `PaymentAnswersProofs` | `Invariance`, `ClientsAreToldTheTruth`, `RetriesAlwaysAgree`, `OutboxIsTrue` |
| `WebhooksProofs` | `Invariance`, `TypeCorrect`, `FeedHasNoGaps`, `UrlGetsEventOnce`, `LeasesExclude`, `OutcomesHaveGrounds`, `BudgetIsKept`, `ScheduleIsFollowed`, `OverIsForEver` |
| `EventFeedProofs` | `ImplementsFeed` |
| `ApiKeysProofs` | `Invariance`, `AKeyIsAlwaysLeft` |
| `ReconcileClockProofs` | `Invariance`, `TypeCorrectness`, `GraceIsLongEnough`, `LeaseIsLongEnough`, `SettlesInTime`, `SettledByTheDecision`, `PspIsImplemented` |
| `InvoicingProofs` | `Invariance`, `PricesAreExact`, `WalksGoForward`, `WalksAreComplete`, `DetailIsConsistent` |
| `RowLocksProofs` | `Invariance`, `BackstopIsNeverNeeded`, `TransactionsNeverDeadlock` |

**Payments.** None of the properties is inductive. `CoreInv` adds: a lock is held
exactly by the open transaction that wrote the row (`LocksInv`); a handler past
its claim works on an attempt that exists, one before it has none
(`StagesInv`); an invoice is processing for its one pending attempt and paid by
its one succeeded attempt (`InvoicesInv`); nobody gives an attempt up as
failed, or is about to, while its charge can take money (`MoneyInv`); a key row
names the attempt of a request with that key and has its answer once it is
settled (`KeysInv`). `MoneyInv` is the heart: it links a worker that has read
"no record, past grace" some steps ago to what the PSP may still do. There is
one lemma per conjunct and one step per action in it. `ImplementsLedger` shows
that each action is a ledger action or leaves both mapped variables alone.

`IInv` is `CoreInv` and `AnswersInv`, which follows an answer from where it is
made to where it is given: a handler works for its own key and invoice
(`OwnAttempt`), what it was told of a settled attempt stays so and it looks for
a stored answer only when there is one (`ReadIsTrue`), and a key without an
attempt holds a refusal or nothing (`RefusalsInv`). That an answer stays true
once given is that outcomes stay (`OutcomesStay`); `RetriesAlwaysAgree` then is
that both answers name an attempt of the same key, and a key has one
(`ChargedOncePerKey`). `OutboxIsTrue` needs no more than `CoreInv`: a step either
appends the one event of the settlement, voiding or creation it commits
(`StoryGoesOn`) or changes no outcome and no final status (`StoryStays`).

**Webhooks.** For the feed: an open transaction has the business row, so at
most one is open and its `seq` is above every committed one; a checkpoint is a
committed event's. A page is a prefix of what lies behind the checkpoint, by
counting (`PageIsPrefix`). For deliveries: lease numbers are given out once per
row, a worker whose lease has not run out has the row's current number, and a
row that a disabling transaction holds is pending and not recorded on by a
worker. That the schedule is followed needs this: only the holder of the current
lease sets a delay, so the delay it sets is the row's own count. The budget is a
count: the requests sent and the workers still about to send are at most the
leases given (`PostsAreLeased`), and a lease beyond the schedule is paid for by
a crash or by a lease that ran out in mid-call, because otherwise the worker
that had the row has recorded a result (`LeasesAreBudgeted`). `hitches` counts
those interruptions.

`ImplementsFeed` takes the refinement step by step. First about rows in order of
their numbers, whatever the rows: the order is a sequence in which every row is
at the place its number gives it (`RowsAtTheirPlaces`), a row with a number
above all others goes to the end, and a prefix is the rows up to a number. Then
a commit is a publication, since the `seq` of the open transaction is above
every committed one, and a page is a read of a longer prefix (`ReadsInv`).

**API keys.** Whoever is about to revoke has the lock and another key was
active when it looked; nobody else can revoke meanwhile.

**The clock.** `IInv` has three parts, each under the inequality it needs.
`ChargeInv` needs none. Under `SendLag + Timeout <= Grace` (`WindowInv`), a
lookup past the window that finds no record means the request is lost, or too
late to be sent or to arrive (`TooLate`), and stays so: `GraceIsLongEnough`.
Under `WorkTime < Lease`, a worker is done before its lease is
(`LeaseIsLongEnough`), so the attempt's `reconcile_after` is always its own
worker's, which bounds the pause between two looks (`PauseInv`,
`SettlesInTime`): one pause of at most the longest of first look, lease and cap,
with a pass before it and a pass after it, from the decision or from the last
failure of a worker. `PspIsImplemented` maps each step to a step of `Psp` or a
stutter; the tick that reaches `settlesAt` is the PSP's decision.

**Prices.** One turn of the loop either finds the item in order, adds exactly
its quantity times its unit price, and appends the line that the schema's
CHECKs expect, or it ends the loop, because the item is invalid or the exact sum
is above the cap (`OneTurn`): a product or sum that does not fit into `Bits` is
above the cap as well, since the cap fits. That every turn does so
(`EveryTurnIsExact`), and that the quotes and sums are those that their
recursive definitions describe (`TurnsAre`, `SumsAre`), is by induction over the
number of items. The library's induction theorem takes an operator and cannot be
used; `Induction` is its form for sets, from the least element that well-founded
orders have (`WFMin`, a theorem about sets). After an error the sum only grows,
because it goes on over valid items or the list is refused for an invalid one,
so it never comes back below the cap (`PriceIsExact`). `PriceInv` carries this
through a creation: what has become of it is what its price says, and the
CHECKs never refuse an insert.

**Lists.** `NoRowTwice` follows from the cursor being at or below everything a
walk has listed (`CursorIsLast`) and the next page being strictly below it.
`WalkIsComplete` needs that what is due to a walk is listed already or below its
cursor (`DueIsAhead`), and that a page leaves out only rows older than its last
and, without `has_more`, none (`PageTakesTheNewest`): of finitely many ids every
count of newer ones occurs, so a short page is all there is. For the detail:
the attempts say what the status says (`AttemptsMatch`), and between two of the
three SELECTs a final status stays and an attempt is never taken away
(`ViewIsCurrent`).

**Locks.** `IInv` says where every task is: n statements into one of the
programs, with the locks of these and perhaps some of the next one, or on its
way out of it, or idle (`KnowsItsPlace`). Locks exclude each other, a write is
of a row that its writer has locked, and the rows agree as the payment flow
leaves them. `BackstopIsNeverNeeded`: who inserts an attempt has moved the
invoice from open, so none is pending, and a rival's uncommitted one would mean
that the rival has the invoice locked. `TransactionsNeverDeadlock`: whoever
waits is on a level, by the row it wants and the locks it has beside shares: it
has none; it wants the invoice, with an attempt or a new key; it wants the
business, with an attempt or the invoice; it wants an API key or deliveries,
which come last in their programs. Shares, attempts to insert and keys that are
in use are never waited for. Each level is waited for only from the levels
before it, so in every set of tasks there is one that waits for nobody in it.
Who asks for a connection has no lock and no connection, so a pool that is used
up is used by tasks that can go on.

Assumptions: those declared in the modules (requests and workers are distinct,
attempts and deliveries are, customers and invoices are, `Nothing` and `None`
are not elements, `Event`, `Customer` and `Creation` are finite, ids are
integers, bounds are naturals, the pool has a connection, `MaxTotal` fits into
`Bits`, requests are parsed, `DefaultLimit` is a limit, `Config::validate`'s inequalities), and the
two inequalities above, which are premises of the theorems that name them.

Only model-checked: liveness (`AttemptsSettle`, `RequestsAreAnswered`,
`DeliveriesEnd`), since the prover treats neither fairness nor `ENABLED`. Every
other property of a passing run is a theorem.

## 6. Where code and documents differ

Each of these has a run that shows it; the quotes are in `PROJECT.json`.

1. **A refusal that is not permanent is stored** (`refusal`). The
   compare-and-set misses an invoice that is processing; before the SELECT that
   explains the miss, the attempt fails and the invoice is open. The 409 for
   "an invoice that is open" is stored against the key for good, although
   `payments.rs` stores refusals because "the invoice can never be paid by it".
2. **"No record" and a charge after all** (`slowsend`). The grace window starts
   at `created_at`; nothing bounds the time from there to the request being
   sent, so a window that only exceeds the timeout is not enough.
   `GraceIsLongEnough` says what is.
3. **A disabled endpoint gets a delivery** (`disabled`). An event whose fan-out
   found the endpoint active can commit after the disable has cancelled what
   was pending.

Remarks without a run:

* `pending_response` (`payments.rs:332`) reads attempt and invoice in two
  statements, so a 202 can come with an invoice that is not processing any more,
  and a 402 that it builds for an attempt that failed long ago shows the invoice
  as it is now, not "back to open".
* A lease counts as an attempt even if its worker dies before the POST, so a
  delivery can be given up after fewer than eight requests (`AttemptBudget`
  bounds the requests from above only).
* `validate` compares a lease with the timeout of the call inside it
  (`config.rs:60`). What `OneWorkerAtATime` needs is a lease longer than the
  whole pass, from `claim_due` to the last statement (`LeaseIsLongEnough`).
  `NoDoubleCharge` and the other properties of `Payments` hold without it.

## 7. Not modelled, and why

Signatures are cryptography and text, without state. Of the HTTP surface only
which handlers there are is modelled: routing, extraction, error bodies and the
validation of text keep no state. Start-up, shutdown and migrations: a shutdown
is a crash to the tables. The seconds and the jitter of `RETRY_SCHEDULE`: which
entry is used is modelled, and time in `Webhooks` is what has come due. Text:
a description, name or email is valid or not. Currency is USD or not. Logging,
escalation and error texts have no effect on state. Amounts do not occur in
`Payments`: an attempt charges its invoice's total, which never changes. The
webhook sink of the harness is a receiver that may answer anything.

## 8. Plan

Done: the payment flow, the event log and webhooks, API keys, the clock of the
reconciler, locks and connections, pricing and lists, with the proofs above.
Left: the tolerance of signatures (a retry signed anew is always within it).

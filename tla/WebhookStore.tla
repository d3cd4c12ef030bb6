---------------------------- MODULE WebhookStore ----------------------------
(***************************************************************************)
(* The tables of migration 0004 for one business, and what the processes   *)
(* that use them keep in memory: transactions that record an event,        *)
(* transactions that disable an endpoint, dispatcher workers, and clients  *)
(* that tail GET /v1/events.  READ COMMITTED, as in PaymentStore: the      *)
(* tables hold what is committed, an open transaction's writes are in its  *)
(* stage and its locks.                                                    *)
(***************************************************************************)
EXTENDS Naturals, FiniteSets

CONSTANTS
    Event,          \* events the business's transactions record
    Endpoint,       \* rows of webhook_endpoints
    UrlOf,          \* the URL each is registered with
    Worker,         \* dispatcher slots, over all processes
    Client,         \* consumers of the events API
    PageLimit,      \* the limit of their pages
    MaxAttempts,    \* RETRY_SCHEDULE.len() + 1
    Interruptions,  \* bound: worker crashes plus leases that run out mid-call
    Nothing         \* no event, no lock holder, no delivery

ASSUME EventsAreFinite == IsFiniteSet(Event)
ASSUME PageLimitIsPositive == PageLimit \in Nat \ {0}
ASSUME MaxAttemptsIsPositive == MaxAttempts \in Nat \ {0}
ASSUME InterruptionsIsNat == Interruptions \in Nat
ASSUME NothingIsNothing == Nothing \notin Event \cup (Event \X Endpoint)

VARIABLES
    txn,        \* the transaction that records an event
    seq,        \* events.seq (0: none taken yet)
    nextSeq,    \* the identity generator; a rollback does not give back
    bizLock,    \* whose transaction has the business row, NO KEY UPDATE
    target,     \* the endpoints an event's fan-out found active
    seen,       \* what each client has read of the feed
    cursor,     \* the last event it has read
    endpoint,   \* webhook_endpoints: absent, active or disabled
    disabling,  \* the transaction that disables it
    held,       \* the deliveries that transaction has updated and locked
    delivery,   \* webhook_deliveries.status ("none": no such row)
    count,      \* attempt_count
    next,       \* what next_attempt_at waits for, or that it has passed
    delay,      \* the entry of RETRY_SCHEDULE it was set by (0: by none)
    slot,       \* per worker: its stage, delivery, lease number, response
    lapsed,     \* workers whose lease ran out while they were busy
    hitches,    \* interruptions so far
    posts,      \* requests sent to the receiver, per delivery
    received    \* deliveries the receiver has seen

eventVars    == <<txn, seq, nextSeq, bizLock, target>>
feedVars     == <<seen, cursor>>
endpointVars == <<endpoint, disabling, held>>
clockVars    == <<count, next, delay>>
rowVars      == <<delivery, clockVars>>
workerVars   == <<slot, lapsed, hitches, posts, received>>

(* The primary key of webhook_deliveries. *)
Delivery == Event \X Endpoint

Slot == [stage: {"idle", "post", "record"}, row: Delivery \cup {Nothing},
         lease: Nat, ok: BOOLEAN]

IdleSlot == [stage |-> "idle", row |-> Nothing, lease |-> 0, ok |-> FALSE]

StoreTypeOK ==
    /\ txn       \in [Event -> {"none", "locked", "inserted", "fanned", "committed", "aborted"}]
    /\ seq       \in [Event -> Nat]
    /\ nextSeq   \in Nat \ {0}
    /\ bizLock   \in Event \cup {Nothing}
    /\ target    \in [Event -> SUBSET Endpoint]
    /\ seen      \in [Client -> SUBSET Event]
    /\ cursor    \in [Client -> Event \cup {Nothing}]
    /\ endpoint  \in [Endpoint -> {"absent", "active", "disabled"}]
    /\ disabling \in [Endpoint -> {"no", "marked", "cancelled"}]
    /\ held      \in [Endpoint -> SUBSET Delivery]
    /\ delivery  \in [Delivery -> {"none", "pending", "delivered", "exhausted", "cancelled"}]
    /\ count     \in [Delivery -> Nat]
    /\ next      \in [Delivery -> {"due", "lease", "backoff"}]
    /\ delay     \in [Delivery -> Nat]
    /\ slot      \in [Worker -> Slot]
    /\ lapsed    \in SUBSET Worker
    /\ hitches   \in 0..Interruptions
    /\ posts     \in [Delivery -> Nat]
    /\ received  \in SUBSET Delivery

StoreInit ==
    /\ txn       = [v \in Event |-> "none"]
    /\ seq       = [v \in Event |-> 0]
    /\ nextSeq   = 1
    /\ bizLock   = Nothing
    /\ target    = [v \in Event |-> {}]
    /\ seen      = [c \in Client |-> {}]
    /\ cursor    = [c \in Client |-> Nothing]
    /\ endpoint  = [e \in Endpoint |-> "absent"]
    /\ disabling = [e \in Endpoint |-> "no"]
    /\ held      = [e \in Endpoint |-> {}]
    /\ delivery  = [d \in Delivery |-> "none"]
    /\ count     = [d \in Delivery |-> 0]
    /\ next      = [d \in Delivery |-> "due"]
    /\ delay     = [d \in Delivery |-> 0]
    /\ slot      = [w \in Worker |-> IdleSlot]
    /\ lapsed    = {}
    /\ hitches   = 0
    /\ posts     = [d \in Delivery |-> 0]
    /\ received  = {}

=============================================================================

--------------------------- MODULE WebhooksProofs ---------------------------
(***************************************************************************)
(* Proofs about Webhooks, for any number of events, endpoints, workers and *)
(* clients.  IInv is inductive: the transactions that record an event, the *)
(* clients, the endpoint transactions and the dispatcher each have a lemma *)
(* for the feed and one for the deliveries.                                *)
(***************************************************************************)
EXTENDS Webhooks, FiniteSetTheorems, TLAPS

USE EventsAreFinite, PageLimitIsPositive, MaxAttemptsIsPositive,
    InterruptionsIsNat, NothingIsNothing

(* No event, no endpoint, no delivery. *)
LEMMA InitIsSafe == Init => IInv
  <1>1. Init => BudgetInv
    <2>1. Init => /\ lapsed = {} /\ hitches = 0 /\ \A d \in Delivery : Posting(d) = {}
                  /\ \A d \in Delivery : count[d] = 0 /\ posts[d] = 0
      BY DEF Init, StoreInit, IdleSlot, Posting
    <2> QED BY <2>1, FS_EmptySet DEF BudgetInv, PostsAreLeased, LeasesAreBudgeted, OnlyBusyLapse
  <1> QED BY <1>1 DEF Init, StoreInit, IInv, TypeOK, StoreTypeOK, Slot, IdleSlot,
         ScheduleInv, BackoffFollowsSchedule, NewAreDue, LeasesAreCounted,
         FeedInv, OpenHasLock, SeqIsTaken, CommittedComeFirst, CursorIsCommitted,
         NothingBehindCheckpoint, Committed, ReadsInv, SeqsAreDistinct,
         SeenIsBehindCheckpoint, DeliveryInv, OneActivePerUrl,
         OneTargetPerUrl, DeliveriesAreTargets, HeldArePending, BusyHasLease,
         IdleHasNoRow, LeasesAreDistinct, OutcomesAreEarned, Delivery

-----------------------------------------------------------------------------
(* Types *)

(* record and its caller write values of the columns' types. *)
LEMMA RecordTypes ==
  ASSUME TypeOK, NEW v \in Event, RecordStep(v) \/ AbortEvent(v)
  PROVE  TypeOK'
  <1> USE DEF TypeOK, StoreTypeOK, eventVars, feedVars, endpointVars, rowVars, clockVars, workerVars
  <1>1. CASE LockBusiness(v)   BY <1>1 DEF LockBusiness
  <1>2. CASE InsertEvent(v)    BY <1>2 DEF InsertEvent
  <1>3. CASE FanOut(v)         BY <1>3 DEF FanOut
  <1>4. CASE CommitEvent(v)    BY <1>4 DEF CommitEvent, Unlock
  <1>5. CASE AbortEvent(v)     BY <1>5 DEF AbortEvent, Unlock
  <1> QED BY <1>1, <1>2, <1>3, <1>4, <1>5 DEF RecordStep

(* So does a client that moves its cursor. *)
LEMMA ClientTypes ==
  ASSUME TypeOK, NEW c \in Client, ListEvents(c)
  PROVE  TypeOK'
  BY DEF TypeOK, StoreTypeOK, ListEvents, FirstPage, After, Committed,
         eventVars, endpointVars, rowVars, clockVars, workerVars

(* So does a transaction on an endpoint. *)
LEMMA EndpointTypes ==
  ASSUME TypeOK, NEW e \in Endpoint, EndpointStep(e)
  PROVE  TypeOK'
  <1> USE DEF TypeOK, StoreTypeOK, eventVars, feedVars, rowVars, clockVars, workerVars
  <1>1. CASE CommitDisable(e) /\ UNCHANGED <<eventVars, feedVars, clockVars, workerVars>>
    BY <1>1 DEF CommitDisable
  <1>2. CASE UNCHANGED <<eventVars, feedVars, rowVars, workerVars>>
    <2>1. CASE CreateEndpoint(e) BY <1>2, <2>1 DEF CreateEndpoint
    <2>2. CASE MarkDisabled(e)   BY <1>2, <2>2 DEF MarkDisabled
    <2>3. CASE CancelPending(e)  BY <1>2, <2>3 DEF CancelPending, Delivery
    <2>4. CASE AbortDisable(e)   BY <1>2, <2>4 DEF AbortDisable
    <2>5. CASE CommitDisable(e)  BY <1>2, <2>5 DEF CommitDisable
    <2> QED BY <2>1, <2>2, <2>3, <2>4, <2>5 DEF EndpointStep
  <1> QED BY <1>1, <1>2 DEF EndpointStep

(* A slot with a response in it is a slot. *)
LEMMA ResponseTypes ==
  ASSUME NEW s \in Slot, NEW ok \in BOOLEAN
  PROVE  [s EXCEPT !.stage = "record", !.ok = ok] \in Slot
  BY DEF Slot

(* So does the dispatcher, whose busy slots have a delivery. *)
LEMMA DispatcherTypes ==
  ASSUME TypeOK, BusyHasLease, DispatcherStep
  PROVE  TypeOK'
  <1> USE DEF TypeOK, StoreTypeOK, Alone, eventVars, feedVars, endpointVars, rowVars, clockVars, workerVars
  <1>1. ASSUME NEW w \in Worker, NEW d \in Delivery, Alone(Lease(w, d)) PROVE TypeOK'
    BY <1>1 DEF Lease, Slot
  <1>2. ASSUME NEW w \in Worker, Alone(Post(w)) PROVE TypeOK'
    <2>1. slot[w].row \in Delivery
      BY <1>2 DEF Post, BusyHasLease
    <2>2. PICK ok \in BOOLEAN, arrived \in BOOLEAN :
             /\ slot' = [slot EXCEPT ![w].stage = "record", ![w].ok = ok]
             /\ received' = IF arrived THEN received \cup {slot[w].row} ELSE received
      BY <1>2 DEF Post
    <2>3. slot' \in [Worker -> Slot]
      <3>1. [slot[w] EXCEPT !.stage = "record", !.ok = ok] \in Slot
        BY ResponseTypes
      <3>2. slot' = [slot EXCEPT ![w] = [slot[w] EXCEPT !.stage = "record", !.ok = ok]]
        BY <2>2
      <3> QED BY <3>1, <3>2
    <2> QED BY <1>2, <2>1, <2>2, <2>3 DEF Post
  <1>3. ASSUME NEW w \in Worker, Alone(RecordResult(w)) PROVE TypeOK'
    <2>1. slot' \in [Worker -> Slot] /\ lapsed' \in SUBSET Worker
      BY <1>3 DEF RecordResult, Leave, IdleSlot, Slot
    <2>2. Outcome(w) \in {"delivered", "exhausted", "pending"}
      BY <1>3 DEF Outcome
    <2>3. delivery' \in [Delivery -> {"none", "pending", "delivered", "exhausted", "cancelled"}]
      BY <1>3, <2>2 DEF RecordResult
    <2>4. next' \in [Delivery -> {"due", "lease", "backoff"}]
      BY <1>3 DEF RecordResult
    <2>5. delay' \in [Delivery -> Nat]
      <3>1. slot[w].lease \in Nat
        BY DEF Slot
      <3>2. RetryDelay(slot[w].lease) \in Nat
        BY <3>1 DEF RetryDelay
      <3> QED BY <1>3, <3>2 DEF RecordResult
    <2> QED BY <1>3, <2>1, <2>3, <2>4, <2>5 DEF RecordResult
  <1>4. ASSUME NEW w \in Worker, Alone(WorkerDies(w)) PROVE TypeOK'
    BY <1>4 DEF WorkerDies, Leave, IdleSlot, Slot
  <1>5. ASSUME NEW d \in Delivery, Alone(ComesDue(d)) PROVE TypeOK'
    BY <1>5 DEF ComesDue
  <1> QED BY <1>1, <1>2, <1>3, <1>4, <1>5 DEF DispatcherStep, Dispatch, Alone

-----------------------------------------------------------------------------
(* The feed *)

(* The feed's conjuncts speak of the events' and the clients' columns only. *)
LEMMA FeedIsElsewhere ==
  ASSUME FeedInv, UNCHANGED <<eventVars, feedVars>>
  PROVE  FeedInv'
  BY DEF FeedInv, OpenHasLock, SeqIsTaken, CommittedComeFirst, CursorIsCommitted,
         NothingBehindCheckpoint, Committed, Checkpoint, eventVars, feedVars

(* So do what clients have read and the order of the committed events.     *)
LEMMA ReadsAreElsewhere ==
  ASSUME ReadsInv, UNCHANGED <<eventVars, feedVars>>
  PROVE  ReadsInv'
  BY DEF ReadsInv, SeqsAreDistinct, SeenIsBehindCheckpoint, Committed, Checkpoint, eventVars, feedVars

(* A commit comes with a seq above all that are committed. *)
LEMMA RecordKeepsReads ==
  ASSUME TypeOK, FeedInv, ReadsInv, NEW v \in Event, RecordStep(v) \/ AbortEvent(v)
  PROVE  ReadsInv'
  <1> USE DEF TypeOK, StoreTypeOK
  <1>1. \A u \in Committed : u \in Committed' /\ seq'[u] = seq[u]
    BY DEF RecordStep, LockBusiness, InsertEvent, FanOut, CommitEvent, AbortEvent, Committed
  <1>2. \A u \in Committed' : u \in Committed \/ (u = v /\ txn[v] = "fanned" /\ seq' = seq)
    BY DEF RecordStep, LockBusiness, InsertEvent, FanOut, CommitEvent, AbortEvent, Committed
  <1>3. UNCHANGED feedVars
    BY DEF RecordStep, LockBusiness, InsertEvent, FanOut, CommitEvent, AbortEvent, feedVars
  <1>4. SeqsAreDistinct'
    BY <1>1, <1>2 DEF ReadsInv, SeqsAreDistinct, FeedInv, CommittedComeFirst, Committed
  <1>5. \A c \in Client : Checkpoint(c)' = Checkpoint(c)
    BY <1>1, <1>3 DEF FeedInv, CursorIsCommitted, Checkpoint, feedVars
  <1>6. SeenIsBehindCheckpoint'
    BY <1>1, <1>3, <1>5 DEF ReadsInv, SeenIsBehindCheckpoint, feedVars
  <1> QED BY <1>4, <1>6 DEF ReadsInv

(* A checkpoint is below the seq of any open transaction. *)
LEMMA CheckpointIsCommitted ==
  ASSUME TypeOK, FeedInv, NEW c \in Client, NEW v \in Event,
         txn[v] \in {"inserted", "fanned"}
  PROVE  Checkpoint(c) < seq[v]
  BY DEF TypeOK, StoreTypeOK, FeedInv, SeqIsTaken, CommittedComeFirst,
         CursorIsCommitted, Checkpoint, Committed

(* Recording an event appends to the feed, behind no checkpoint. *)
LEMMA RecordKeepsFeed ==
  ASSUME TypeOK, FeedInv, NEW v \in Event, RecordStep(v) \/ AbortEvent(v)
  PROVE  FeedInv'
  <1> USE DEF TypeOK, StoreTypeOK, FeedInv, feedVars
  <1>1. CASE LockBusiness(v)
    BY <1>1 DEF LockBusiness, BusinessFree, OpenHasLock, SeqIsTaken, CommittedComeFirst,
                CursorIsCommitted, NothingBehindCheckpoint, Committed, Checkpoint
  <1>2. CASE InsertEvent(v)
    <2>1. \A u \in Event : txn'[u] = "committed" <=> txn[u] = "committed"
      BY <1>2 DEF InsertEvent
    <2>2. \A u \in Event : txn[u] \in {"inserted", "fanned"} => u = v
      BY <1>2 DEF InsertEvent, OpenHasLock
    <2>3. \A u \in Event : u # v => seq'[u] = seq[u]
      BY <1>2 DEF InsertEvent
    <2>4. OpenHasLock' /\ SeqIsTaken' /\ CommittedComeFirst'
      BY <1>2, <2>1, <2>2, <2>3 DEF InsertEvent, OpenHasLock, SeqIsTaken, CommittedComeFirst
    <2>5. CursorIsCommitted'
      BY <1>2, <2>1 DEF InsertEvent, CursorIsCommitted, Committed
    <2>6. NothingBehindCheckpoint'
      BY <1>2, <2>1, <2>3 DEF InsertEvent, NothingBehindCheckpoint, CursorIsCommitted,
                              Committed, Checkpoint
    <2> QED BY <2>4, <2>5, <2>6
  <1>3. CASE FanOut(v)
    BY <1>3 DEF FanOut, OpenHasLock, SeqIsTaken, CommittedComeFirst,
                CursorIsCommitted, NothingBehindCheckpoint, Committed, Checkpoint
  <1>4. CASE CommitEvent(v)
    <2>1. \A u \in Event : txn[u] \in {"locked", "inserted", "fanned"} => u = v
      BY <1>4 DEF CommitEvent, OpenHasLock
    <2>2. OpenHasLock' /\ SeqIsTaken' /\ CommittedComeFirst' /\ CursorIsCommitted'
      BY <1>4, <2>1 DEF CommitEvent, OpenHasLock, SeqIsTaken, CommittedComeFirst,
                        CursorIsCommitted, Committed
    <2>3. \A c \in Client : Checkpoint(c)' = Checkpoint(c) /\ Checkpoint(c) < seq[v]
      BY <1>4, CheckpointIsCommitted DEF CommitEvent, Checkpoint
    <2>4. NothingBehindCheckpoint'
      BY <1>4, <2>3 DEF CommitEvent, NothingBehindCheckpoint, Committed, Checkpoint
    <2> QED BY <2>2, <2>4
  <1>5. CASE AbortEvent(v)
    <2>1. \A u \in Event : txn[u] \in {"locked", "inserted", "fanned"} => u = v
      BY <1>5 DEF AbortEvent, OpenHasLock
    <2> QED BY <1>5, <2>1 DEF AbortEvent, OpenHasLock, SeqIsTaken, CommittedComeFirst,
                              CursorIsCommitted, NothingBehindCheckpoint, Committed, Checkpoint
  <1> QED BY <1>1, <1>2, <1>3, <1>4, <1>5 DEF RecordStep

(* What sorts before a row of the first page is in the first page. *)
LEMMA PageIsPrefix ==
  ASSUME TypeOK, NEW rows \in SUBSET Event, NEW last \in FirstPage(rows),
         NEW v \in rows, seq[v] <= seq[last]
  PROVE  v \in FirstPage(rows)
  <1> DEFINE Below(u) == {x \in rows : seq[x] < seq[u]}
  <1>1. Below(v) \subseteq Below(last)
    BY DEF FirstPage, TypeOK, StoreTypeOK
  <1>2. IsFiniteSet(Below(last)) /\ IsFiniteSet(Below(v))
    BY FS_Subset
  <1>3. Cardinality(Below(v)) <= Cardinality(Below(last))
    BY <1>1, <1>2, FS_Subset
  <1>4. Cardinality(Below(v)) \in Nat /\ Cardinality(Below(last)) \in Nat
    BY <1>2, FS_CardinalityType
  <1>5. Cardinality(Below(last)) < PageLimit
    BY DEF FirstPage
  <1> QED BY <1>3, <1>4, <1>5 DEF FirstPage

(* A page takes a client to its last row, over nothing it has not read. *)
LEMMA ReadingKeepsFeed ==
  ASSUME TypeOK, FeedInv, NEW c \in Client, ListEvents(c)
  PROVE  FeedInv'
  <1> USE DEF TypeOK, StoreTypeOK, FeedInv, eventVars
  <1> DEFINE page == FirstPage(After(c))
  <1>1. PICK last \in page :
           /\ cursor' = [cursor EXCEPT ![c] = last]
           /\ seen' = [seen EXCEPT ![c] = @ \cup page]
           /\ UNCHANGED eventVars
    BY DEF ListEvents
  <1>2. page \subseteq After(c) /\ After(c) \subseteq Committed /\ Committed \subseteq Event
    BY DEF FirstPage, After, Committed
  <1>3. OpenHasLock' /\ SeqIsTaken' /\ CommittedComeFirst' /\ CursorIsCommitted'
    BY <1>1, <1>2 DEF OpenHasLock, SeqIsTaken, CommittedComeFirst, CursorIsCommitted, Committed
  <1>4. ASSUME NEW v \in Committed, seq[v] <= seq[last]
        PROVE  v \in seen[c] \cup page
    <2>1. CASE seq[v] <= Checkpoint(c)
      BY <2>1 DEF NothingBehindCheckpoint
    <2>2. CASE v \in After(c)
      BY <1>2, <1>4, <2>2, PageIsPrefix
    <2>3. Checkpoint(c) \in Nat /\ seq[v] \in Nat
      BY <1>2 DEF Checkpoint, CursorIsCommitted, Committed
    <2> QED BY <2>1, <2>2, <2>3 DEF After
  <1>5. last \in Event /\ last # Nothing
    BY <1>2
  <1>6. Checkpoint(c)' = seq[last]
    BY <1>1, <1>5 DEF Checkpoint
  <1>7. \A b \in Client \ {c} : Checkpoint(b)' = Checkpoint(b) /\ seen'[b] = seen[b]
    BY <1>1 DEF Checkpoint
  <1>8. Committed' = Committed /\ seq' = seq /\ seen'[c] = seen[c] \cup page
    BY <1>1 DEF Committed
  <1>9. NothingBehindCheckpoint'
    <2> SUFFICES ASSUME NEW b \in Client, NEW v \in Committed', seq'[v] <= Checkpoint(b)'
                 PROVE  v \in seen'[b]
      BY DEF NothingBehindCheckpoint
    <2>1. CASE b = c
      BY <1>4, <1>6, <1>8, <2>1
    <2>2. CASE b # c
      BY <1>7, <1>8, <2>2 DEF NothingBehindCheckpoint
    <2> QED BY <2>1, <2>2
  <1> QED BY <1>3, <1>9

(* The last row of a page is the new checkpoint: what the client has read  *)
(* is what is not above it.                                                *)
LEMMA ReadingKeepsReads ==
  ASSUME TypeOK, FeedInv, ReadsInv, NEW c \in Client, ListEvents(c)
  PROVE  ReadsInv'
  <1> USE DEF TypeOK, StoreTypeOK, eventVars
  <1> DEFINE page == FirstPage(After(c))
  <1>1. PICK last \in page :
           /\ \A v \in page : seq[v] <= seq[last]
           /\ cursor' = [cursor EXCEPT ![c] = last]
           /\ seen' = [seen EXCEPT ![c] = @ \cup page]
           /\ UNCHANGED <<txn, seq>>
    BY DEF ListEvents
  <1>2. page \subseteq After(c) /\ After(c) \subseteq Committed /\ Committed \subseteq Event
    BY DEF FirstPage, After, Committed
  <1>3. Committed' = Committed
    BY <1>1 DEF Committed
  <1>4. Checkpoint(c)' = seq[last] /\ Checkpoint(c) < seq[last]
        /\ \A b \in Client \ {c} : Checkpoint(b)' = Checkpoint(b)
    BY <1>1, <1>2 DEF Checkpoint, After
  <1>5. \A v \in Committed : seq[v] \in Nat
    BY <1>2
  <1>6. Checkpoint(c) \in Nat
    BY <1>5 DEF Checkpoint, FeedInv, CursorIsCommitted
  <1>7. ASSUME NEW v \in seen[c] \cup page PROVE v \in Committed /\ seq[v] <= seq[last]
    <2>1. CASE v \in seen[c]
      <3>1. v \in Committed /\ seq[v] <= Checkpoint(c)
        BY <2>1 DEF ReadsInv, SeenIsBehindCheckpoint
      <3> QED BY <1>1, <1>2, <1>4, <1>5, <1>6, <3>1
    <2>2. CASE v \in page
      BY <1>1, <1>2, <2>2
    <2> QED BY <2>1, <2>2
  <1>8. seen'[c] = seen[c] \cup page /\ \A b \in Client \ {c} : seen'[b] = seen[b]
    BY <1>1
  <1>9. SeenIsBehindCheckpoint'
    BY ONLY <1>1, <1>3, <1>4, <1>7, <1>8, ReadsInv DEF ReadsInv, SeenIsBehindCheckpoint
  <1>10. SeqsAreDistinct'
    BY <1>1, <1>3 DEF ReadsInv, SeqsAreDistinct
  <1> QED BY <1>9, <1>10 DEF ReadsInv

-----------------------------------------------------------------------------
(* Deliveries *)

(* The deliveries' conjuncts do not speak of the clients, nor of seq.      *)
LEMMA DeliveriesAreElsewhere ==
  ASSUME DeliveryInv, UNCHANGED <<txn, target, endpointVars, rowVars, workerVars>>
  PROVE  DeliveryInv'
  BY DEF DeliveryInv, OneActivePerUrl, OneTargetPerUrl, DeliveriesAreTargets, HeldArePending,
         BusyHasLease, IdleHasNoRow, LeasesAreDistinct, OutcomesAreEarned,
         endpointVars, rowVars, clockVars, workerVars

(* Where the status of a row that somebody is busy with, or holds, does    *)
(* not change, the other conjuncts about rows stand.                       *)
LEMMA CommitKeepsDeliveries ==
  ASSUME TypeOK, DeliveryInv, NEW v \in Event, CommitEvent(v)
  PROVE  DeliveryInv'
  <1> USE DEF TypeOK, StoreTypeOK, DeliveryInv, CommitEvent, endpointVars, clockVars, workerVars
  <1>1. \A d \in Delivery : delivery[d] # "none" => delivery'[d] = delivery[d]
    <2> SUFFICES ASSUME NEW d \in Delivery, delivery[d] # "none"
                 PROVE  delivery'[d] = delivery[d]
      OBVIOUS
    <2>0. PICK u \in Event, e \in Endpoint : d = <<u, e>>
      BY DEF Delivery
    <2>1. u # v
      BY <2>0 DEF DeliveriesAreTargets
    <2>2. d \notin {v} \X target[v]
      BY <2>0, <2>1
    <2> QED BY <2>2
  <1>2. \A d \in Delivery : delivery[d] = "none" => delivery'[d] \in {"none", "pending"}
    OBVIOUS
  <1>3. OneActivePerUrl' /\ OneTargetPerUrl' /\ IdleHasNoRow' /\ LeasesAreDistinct'
    BY DEF OneActivePerUrl, OneTargetPerUrl, IdleHasNoRow, LeasesAreDistinct
  <1>4. DeliveriesAreTargets'
    <2> SUFFICES ASSUME NEW u \in Event, NEW e \in Endpoint, delivery'[<<u, e>>] # "none"
                 PROVE  txn'[u] = "committed" /\ e \in target'[u]
      BY DEF DeliveriesAreTargets
    <2>1. <<u, e>> \in Delivery
      BY DEF Delivery
    <2>2. CASE <<u, e>> \in {v} \X target[v]
      BY <2>2
    <2>3. CASE <<u, e>> \notin {v} \X target[v]
      BY <2>1, <2>3 DEF DeliveriesAreTargets
    <2> QED BY <2>2, <2>3
  <1>5. HeldArePending'
    BY <1>1 DEF HeldArePending, Delivery
  <1>6. BusyHasLease'
    BY <1>1 DEF BusyHasLease
  <1>7. OutcomesAreEarned'
    BY <1>1, <1>2 DEF OutcomesAreEarned
  <1> QED BY <1>3, <1>4, <1>5, <1>6, <1>7

(* The fan-out finds one active endpoint per URL. *)
LEMMA RecordKeepsDeliveries ==
  ASSUME TypeOK, DeliveryInv, NEW v \in Event, RecordStep(v) \/ AbortEvent(v)
  PROVE  DeliveryInv'
  <1> USE DEF TypeOK, StoreTypeOK, DeliveryInv, endpointVars, rowVars, clockVars, workerVars
  <1>1. CASE CommitEvent(v)
    BY <1>1, CommitKeepsDeliveries
  <1>2. CASE FanOut(v)
    <2>1. OneActivePerUrl' /\ OneTargetPerUrl'
      BY <1>2 DEF FanOut, OneActivePerUrl, OneTargetPerUrl
    <2>2. DeliveriesAreTargets'
      BY <1>2 DEF FanOut, DeliveriesAreTargets
    <2> QED BY <1>2, <2>1, <2>2 DEF FanOut, HeldArePending, BusyHasLease, IdleHasNoRow,
                                    LeasesAreDistinct, OutcomesAreEarned
  <1>3. CASE LockBusiness(v) \/ InsertEvent(v) \/ AbortEvent(v)
    <2>1. UNCHANGED <<target, endpointVars, rowVars, workerVars>>
      BY <1>3 DEF LockBusiness, InsertEvent, AbortEvent
    <2>2. \A u \in Event : txn[u] = "committed" => txn'[u] = "committed"
      BY <1>3 DEF LockBusiness, InsertEvent, AbortEvent
    <2>3. DeliveriesAreTargets'
      BY <2>1, <2>2 DEF DeliveriesAreTargets
    <2> QED BY <2>1, <2>3 DEF OneActivePerUrl, OneTargetPerUrl, HeldArePending, BusyHasLease,
                              IdleHasNoRow, LeasesAreDistinct, OutcomesAreEarned
  <1> QED BY <1>1, <1>2, <1>3 DEF RecordStep

(* A transaction on an endpoint keeps its URL unique among the active ones *)
(* and cancels what it holds, which is pending and not another endpoint's. *)
LEMMA EndpointKeepsDeliveries ==
  ASSUME TypeOK, DeliveryInv, NEW e \in Endpoint, EndpointStep(e)
  PROVE  DeliveryInv'
  <1> USE DEF TypeOK, StoreTypeOK, DeliveryInv, eventVars, rowVars, clockVars, workerVars
  <1>1. CASE CommitDisable(e) /\ UNCHANGED <<eventVars, feedVars, clockVars, workerVars>>
    <2> USE <1>1 DEF CommitDisable
    <2>1. OneActivePerUrl' /\ OneTargetPerUrl' /\ IdleHasNoRow' /\ LeasesAreDistinct'
      BY DEF OneActivePerUrl, OneTargetPerUrl, IdleHasNoRow, LeasesAreDistinct
    <2>2. \A d \in Delivery : delivery'[d] # delivery[d] =>
             d \in held[e] /\ delivery[d] = "pending" /\ delivery'[d] = "cancelled"
      BY DEF HeldArePending
    <2>3. DeliveriesAreTargets'
      <3> SUFFICES ASSUME NEW v \in Event, NEW f \in Endpoint, delivery'[<<v, f>>] # "none"
                   PROVE  txn[v] = "committed" /\ f \in target[v]
        BY DEF DeliveriesAreTargets
      <3>1. <<v, f>> \in Delivery
        BY DEF Delivery
      <3>2. delivery[<<v, f>>] # "none"
        BY <2>2, <3>1
      <3> QED BY <3>2 DEF DeliveriesAreTargets
    <2>4. HeldArePending'
      BY <2>2 DEF HeldArePending, Delivery
    <2>5. BusyHasLease' /\ OutcomesAreEarned'
      BY <2>2 DEF BusyHasLease, OutcomesAreEarned
    <2> QED BY <2>1, <2>3, <2>4, <2>5
  <1>2. CASE UNCHANGED <<eventVars, feedVars, rowVars, workerVars>>
    <2>1. OneTargetPerUrl' /\ DeliveriesAreTargets' /\ BusyHasLease' /\ IdleHasNoRow'
          /\ LeasesAreDistinct' /\ OutcomesAreEarned'
      BY <1>2 DEF OneTargetPerUrl, DeliveriesAreTargets, BusyHasLease, IdleHasNoRow,
                  LeasesAreDistinct, OutcomesAreEarned
    <2>2. OneActivePerUrl'
      BY <1>2 DEF EndpointStep, CreateEndpoint, UrlFree, MarkDisabled, CancelPending,
                  AbortDisable, CommitDisable, OneActivePerUrl
    <2>3. HeldArePending'
      <3>1. CASE CancelPending(e)
        BY <1>2, <3>1 DEF CancelPending, HeldArePending, Delivery
      <3>2. CASE held' = held \/ held' = [held EXCEPT ![e] = {}]
        BY <1>2, <3>2 DEF HeldArePending, Delivery
      <3> QED BY <3>1, <3>2 DEF EndpointStep, CreateEndpoint, MarkDisabled, AbortDisable, CommitDisable
    <2> QED BY <2>1, <2>2, <2>3
  <1> QED BY <1>1, <1>2 DEF EndpointStep

(* Every lease is a new number, and a result is recorded by the worker     *)
(* whose number is the row's: nobody else's claim on the row is current.   *)
LEMMA LeaseKeepsDeliveries ==
  ASSUME TypeOK, DeliveryInv, NEW w \in Worker, NEW d \in Delivery, Alone(Lease(w, d))
  PROVE  DeliveryInv'
  <1> USE DEF TypeOK, StoreTypeOK, DeliveryInv, Alone, Lease, eventVars, feedVars, endpointVars
  <1>1. slot'[w] = [stage |-> "post", row |-> d, lease |-> count[d] + 1, ok |-> FALSE]
        /\ \A x \in Worker \ {w} : slot'[x] = slot[x]
    OBVIOUS
  <1>2. count'[d] = count[d] + 1 /\ next'[d] = "lease"
        /\ \A e \in Delivery \ {d} : count'[e] = count[e] /\ next'[e] = next[e]
    OBVIOUS
  <1>3. \A x \in Worker \ {w} : slot[x].stage # "idle" /\ slot[x].row = d => x \in lapsed
    BY DEF BusyHasLease, Leasable
  <1>4. OneActivePerUrl' /\ OneTargetPerUrl' /\ DeliveriesAreTargets' /\ HeldArePending'
    BY DEF OneActivePerUrl, OneTargetPerUrl, DeliveriesAreTargets, HeldArePending
  <1>5. BusyHasLease'
    <2> SUFFICES ASSUME NEW x \in Worker, slot'[x].stage # "idle"
                 PROVE  /\ slot'[x].row \in Delivery
                        /\ delivery'[slot'[x].row] # "none"
                        /\ slot'[x].lease <= count'[slot'[x].row]
                        /\ x \notin lapsed' => /\ slot'[x].lease = count'[slot'[x].row]
                                               /\ next'[slot'[x].row] = "lease"
                        /\ slot'[x].ok => slot'[x].row \in received'
      BY DEF BusyHasLease
    <2>1. CASE x = w
      BY <1>1, <1>2, <2>1 DEF Leasable
    <2>2. CASE x # w
      <3>1. slot[x] \in Slot
        OBVIOUS
      <3>2. slot[x].lease \in Nat
        BY <3>1 DEF Slot
      <3> QED BY <1>1, <1>2, <1>3, <2>2, <3>2 DEF BusyHasLease
    <2> QED BY <2>1, <2>2
  <1>6. IdleHasNoRow'
    BY <1>1 DEF IdleHasNoRow
  <1>7. LeasesAreDistinct'
    <2>1. \A x \in Worker : slot[x].stage # "idle" /\ slot[x].row = d => slot[x].lease # count[d] + 1
      <3> SUFFICES ASSUME NEW x \in Worker, slot[x].stage # "idle", slot[x].row = d
                   PROVE  slot[x].lease # count[d] + 1
        OBVIOUS
      <3>1. slot[x] \in Slot
        OBVIOUS
      <3>2. slot[x].lease \in Nat /\ count[d] \in Nat
        BY <3>1 DEF Slot
      <3> QED BY <3>2 DEF BusyHasLease
    <2> QED BY <1>1, <2>1 DEF LeasesAreDistinct
  <1>8. OutcomesAreEarned'
    BY <1>2 DEF OutcomesAreEarned, Leasable
  <1> QED BY <1>4, <1>5, <1>6, <1>7, <1>8

(* A slot that is left has no row; the others are as they were. *)
LEMMA LeavingKeepsDeliveries ==
  ASSUME TypeOK, DeliveryInv, NEW w \in Worker, Leave(w),
         UNCHANGED <<txn, target, endpointVars, rowVars, received>>
  PROVE  DeliveryInv'
  <1> USE DEF TypeOK, StoreTypeOK, DeliveryInv, Leave, endpointVars, rowVars, clockVars
  <1>1. slot'[w] = IdleSlot /\ \A x \in Worker \ {w} : slot'[x] = slot[x]
    OBVIOUS
  <1>2. \A x \in Worker : slot'[x].stage # "idle" => x # w /\ (x \in lapsed' <=> x \in lapsed)
    BY <1>1 DEF IdleSlot
  <1>3. OneActivePerUrl' /\ OneTargetPerUrl' /\ DeliveriesAreTargets' /\ HeldArePending'
        /\ OutcomesAreEarned'
    BY DEF OneActivePerUrl, OneTargetPerUrl, DeliveriesAreTargets, HeldArePending, OutcomesAreEarned
  <1>4. BusyHasLease' /\ LeasesAreDistinct'
    BY <1>1, <1>2 DEF BusyHasLease, LeasesAreDistinct
  <1>5. IdleHasNoRow'
    BY <1>1 DEF IdleHasNoRow, IdleSlot
  <1> QED BY <1>3, <1>4, <1>5

(* record_result, if the lease is the current one: the row's other workers *)
(* have lapsed, and no disabling transaction holds it.                     *)
LEMMA ResultKeepsDeliveries ==
  ASSUME TypeOK, DeliveryInv, NEW w \in Worker, Alone(RecordResult(w)), HoldsLease(w)
  PROVE  DeliveryInv'
  <1> USE DEF TypeOK, StoreTypeOK, DeliveryInv, Alone, RecordResult, Leave,
              eventVars, feedVars, endpointVars
  <1> DEFINE row == slot[w].row
  <1>1. slot'[w] = IdleSlot /\ \A x \in Worker \ {w} : slot'[x] = slot[x]
    OBVIOUS
  <1>2. row \in Delivery /\ delivery[row] = "pending" /\ count[row] = slot[w].lease
    BY DEF BusyHasLease, HoldsLease
  <1>3. \A x \in Worker \ {w} : slot[x].stage # "idle" /\ slot[x].row = row => x \in lapsed
    BY <1>2 DEF BusyHasLease, LeasesAreDistinct
  <1>4. /\ delivery'[row] = Outcome(w)
        /\ \A d \in Delivery \ {row} : delivery'[d] = delivery[d] /\ next'[d] = next[d]
    BY <1>2
  <1>5. Outcome(w) \in {"delivered", "exhausted", "pending"}
    BY DEF Outcome
  <1>6. OneActivePerUrl' /\ OneTargetPerUrl'
    BY DEF OneActivePerUrl, OneTargetPerUrl
  <1>7. DeliveriesAreTargets'
    <2> SUFFICES ASSUME NEW v \in Event, NEW e \in Endpoint, delivery'[<<v, e>>] # "none"
                 PROVE  txn[v] = "committed" /\ e \in target[v]
      BY DEF DeliveriesAreTargets
    <2>1. <<v, e>> \in Delivery
      BY DEF Delivery
    <2>2. delivery[<<v, e>>] # "none"
      BY <1>2, <1>4, <2>1
    <2> QED BY <2>2 DEF DeliveriesAreTargets
  <1>8. HeldArePending'
    <2> SUFFICES ASSUME NEW e \in Endpoint, NEW d \in held[e]
                 PROVE  d \in Event \X {e} /\ delivery'[d] = "pending"
      BY DEF HeldArePending
    <2>1. d # row
      BY DEF RowLocked
    <2>2. d \in Event \X {e} /\ delivery[d] = "pending" /\ d \in Delivery
      BY DEF HeldArePending, Delivery
    <2> QED BY <1>4, <2>1, <2>2
  <1>9. \A x \in Worker : slot'[x].stage # "idle" => x # w /\ (x \in lapsed' <=> x \in lapsed)
    BY <1>1 DEF IdleSlot
  <1>10. BusyHasLease'
    BY <1>1, <1>2, <1>3, <1>4, <1>5, <1>9 DEF BusyHasLease
  <1>11. IdleHasNoRow' /\ LeasesAreDistinct'
    BY <1>1, <1>9 DEF IdleHasNoRow, LeasesAreDistinct, IdleSlot
  <1>12. OutcomesAreEarned'
    <2>1. Outcome(w) = "exhausted" => slot[w].lease >= MaxAttempts
      BY DEF Outcome
    <2>2. Outcome(w) = "delivered" => row \in received
      BY DEF Outcome, BusyHasLease
    <2> QED BY <1>2, <1>4, <2>1, <2>2 DEF OutcomesAreEarned
  <1> QED BY <1>6, <1>7, <1>8, <1>10, <1>11, <1>12

(* The dispatcher's other steps change no status and no lease. *)
LEMMA DispatcherKeepsDeliveries ==
  ASSUME TypeOK, DeliveryInv, DispatcherStep
  PROVE  DeliveryInv'
  <1> USE DEF TypeOK, StoreTypeOK, Alone, eventVars, feedVars, endpointVars, rowVars, clockVars, workerVars
  <1>1. ASSUME NEW w \in Worker, NEW d \in Delivery, Alone(Lease(w, d)) PROVE DeliveryInv'
    BY <1>1, LeaseKeepsDeliveries
  <1>2. ASSUME NEW w \in Worker, Alone(Post(w)) PROVE DeliveryInv'
    <2> USE <1>2 DEF Post, DeliveryInv
    <2>1. PICK ok \in BOOLEAN, arrived \in BOOLEAN :
             /\ ok => arrived
             /\ slot' = [slot EXCEPT ![w].stage = "record", ![w].ok = ok]
             /\ received' = IF arrived THEN received \cup {slot[w].row} ELSE received
      OBVIOUS
    <2>2. /\ slot'[w].stage = "record" /\ slot'[w].ok = ok
          /\ slot'[w].row = slot[w].row /\ slot'[w].lease = slot[w].lease
          /\ \A x \in Worker \ {w} : slot'[x] = slot[x]
      BY <2>1 DEF Slot
    <2>3. OneActivePerUrl' /\ OneTargetPerUrl' /\ DeliveriesAreTargets' /\ HeldArePending'
      BY DEF OneActivePerUrl, OneTargetPerUrl, DeliveriesAreTargets, HeldArePending
    <2>4. BusyHasLease'
      BY <2>1, <2>2 DEF BusyHasLease
    <2>5. IdleHasNoRow' /\ OutcomesAreEarned'
      BY <2>1, <2>2 DEF IdleHasNoRow, OutcomesAreEarned
    <2>6. LeasesAreDistinct'
      BY <2>2, SMTT(30) DEF LeasesAreDistinct
    <2> QED BY <2>3, <2>4, <2>5, <2>6
  <1>3. ASSUME NEW w \in Worker, Alone(RecordResult(w)) PROVE DeliveryInv'
    <2>1. CASE HoldsLease(w)
      BY <1>3, <2>1, ResultKeepsDeliveries
    <2>2. CASE ~HoldsLease(w)
      BY <1>3, <2>2, LeavingKeepsDeliveries DEF RecordResult
    <2> QED BY <2>1, <2>2
  <1>4. ASSUME NEW w \in Worker, Alone(WorkerDies(w)) PROVE DeliveryInv'
    BY <1>4, LeavingKeepsDeliveries DEF WorkerDies
  <1>5. ASSUME NEW d \in Delivery, Alone(ComesDue(d)) PROVE DeliveryInv'
    <2> USE <1>5 DEF ComesDue, DeliveryInv
    <2>1. \A x \in Worker : slot[x].row = d /\ next[d] = "lease" => x \in lapsed'
      OBVIOUS
    <2>2. BusyHasLease'
      BY <2>1 DEF BusyHasLease
    <2> QED BY <2>2 DEF OneActivePerUrl, OneTargetPerUrl, DeliveriesAreTargets, HeldArePending,
                        IdleHasNoRow, LeasesAreDistinct, OutcomesAreEarned
  <1> QED BY <1>1, <1>2, <1>3, <1>4, <1>5 DEF DispatcherStep, Dispatch, Alone

-----------------------------------------------------------------------------
(* The schedule *)

(* It is about the rows and the leases alone. *)
LEMMA ScheduleIsElsewhere ==
  ASSUME ScheduleInv, UNCHANGED <<rowVars, workerVars>>
  PROVE  ScheduleInv'
  BY DEF ScheduleInv, BackoffFollowsSchedule, NewAreDue, LeasesAreCounted,
         rowVars, clockVars, workerVars

(* A new row is due; a row that is cancelled does not wait any more. *)
LEMMA TransactionsKeepSchedule ==
  ASSUME TypeOK, DeliveryInv, ScheduleInv,
         (\E v \in Event : RecordStep(v) \/ AbortEvent(v)) \/ (\E e \in Endpoint : EndpointStep(e))
  PROVE  ScheduleInv'
  <1> USE DEF TypeOK, StoreTypeOK, ScheduleInv
  <1>1. ASSUME NEW v \in Event, CommitEvent(v) PROVE ScheduleInv'
    <2>1. UNCHANGED <<count, next, delay, slot>>
      BY <1>1 DEF CommitEvent, clockVars, workerVars
    <2>2. \A d \in Delivery : /\ delivery'[d] = "pending" => delivery[d] = "pending" \/ next[d] = "due"
                              /\ delivery'[d] = "none" => delivery[d] = "none"
      <3> SUFFICES ASSUME NEW d \in Delivery
                   PROVE  /\ delivery'[d] = "pending" => delivery[d] = "pending" \/ next[d] = "due"
                          /\ delivery'[d] = "none" => delivery[d] = "none"
        OBVIOUS
      <3>1. CASE d \in {v} \X target[v]
        <4>1. PICK e \in target[v] : d = <<v, e>>
          BY <3>1
        <4>2. e \in Endpoint /\ txn[v] # "committed"
          BY <1>1, <4>1 DEF CommitEvent
        <4>3. delivery[d] = "none"
          BY <4>1, <4>2 DEF DeliveryInv, DeliveriesAreTargets
        <4> QED BY <1>1, <3>1, <4>3 DEF CommitEvent, NewAreDue
      <3>2. CASE d \notin {v} \X target[v]
        BY <1>1, <3>2 DEF CommitEvent
      <3> QED BY <3>1, <3>2
    <2> QED BY <2>1, <2>2 DEF BackoffFollowsSchedule, NewAreDue, LeasesAreCounted
  <1>2. ASSUME NEW e \in Endpoint, CommitDisable(e), UNCHANGED <<clockVars, workerVars>>
        PROVE  ScheduleInv'
    BY <1>2 DEF CommitDisable, BackoffFollowsSchedule, NewAreDue, LeasesAreCounted, clockVars, workerVars
  <1>3. CASE UNCHANGED <<rowVars, workerVars>>
    BY <1>3, ScheduleIsElsewhere
  <1> QED BY <1>1, <1>2, <1>3
          DEF RecordStep, LockBusiness, InsertEvent, FanOut, AbortEvent, EndpointStep

(* A failure that is recorded has the lease, and so the number of the row. *)
LEMMA DispatcherKeepsSchedule ==
  ASSUME TypeOK, DeliveryInv, ScheduleInv, DispatcherStep
  PROVE  ScheduleInv'
  <1> USE DEF TypeOK, StoreTypeOK, ScheduleInv, Alone
  <1>1. ASSUME NEW w \in Worker, NEW d \in Delivery, Lease(w, d) PROVE ScheduleInv'
    BY <1>1 DEF Lease, Leasable, BackoffFollowsSchedule, NewAreDue, LeasesAreCounted
  <1>2. ASSUME NEW w \in Worker, Post(w) PROVE ScheduleInv'
    <2>1. \A x \in Worker : slot'[x].lease = slot[x].lease /\ (slot'[x].stage = "idle" <=> slot[x].stage = "idle")
      BY <1>2 DEF Post, Slot
    <2> QED BY <1>2, <2>1 DEF Post, BackoffFollowsSchedule, NewAreDue, LeasesAreCounted,
                              rowVars, clockVars
  <1>3. ASSUME NEW w \in Worker, RecordResult(w) PROVE ScheduleInv'
    <2> DEFINE d == slot[w].row
    <2>1. d \in Delivery /\ delivery[d] # "none" /\ slot[w].lease > 0 /\ slot[w].lease \in Nat
      BY <1>3 DEF RecordResult, DeliveryInv, BusyHasLease, LeasesAreCounted, Slot
    <2>2. LeasesAreCounted'
      BY <1>3 DEF RecordResult, Leave, IdleSlot, LeasesAreCounted
    <2>3. NewAreDue'
      BY <1>3, <2>1 DEF RecordResult, NewAreDue, Outcome
    <2>4. CASE HoldsLease(w) /\ ~slot[w].ok
      <3>1. Outcome(w) = "pending" => /\ RetryDelay(slot[w].lease) = slot[w].lease
                                     /\ slot[w].lease \in 1..(MaxAttempts - 1)
        BY <2>1, <2>4 DEF Outcome, RetryDelay
      <3>2. delivery'[d] = Outcome(w) /\ delay'[d] = RetryDelay(slot[w].lease) /\ count'[d] = slot[w].lease
        BY <1>3, <2>1, <2>4 DEF RecordResult, HoldsLease
      <3>3. \A x \in Delivery \ {d} : /\ delivery'[x] = delivery[x] /\ delay'[x] = delay[x]
                                       /\ next'[x] = next[x] /\ count'[x] = count[x]
        BY <1>3, <2>1, <2>4 DEF RecordResult
      <3> QED BY <2>2, <2>3, <3>1, <3>2, <3>3 DEF BackoffFollowsSchedule
    <2>5. CASE HoldsLease(w) /\ slot[w].ok
      <3>1. delivery'[d] = "delivered"
        BY <1>3, <2>1, <2>5 DEF RecordResult, Outcome
      <3>2. \A x \in Delivery : /\ x # d => delivery'[x] = delivery[x]
                                /\ delay'[x] = delay[x] /\ next'[x] = next[x] /\ count'[x] = count[x]
        BY <1>3, <2>1, <2>5 DEF RecordResult
      <3> QED BY <2>2, <2>3, <3>1, <3>2 DEF BackoffFollowsSchedule
    <2>6. CASE ~HoldsLease(w)
      BY <1>3, <2>2, <2>3, <2>6 DEF RecordResult, BackoffFollowsSchedule
    <2> QED BY <2>4, <2>5, <2>6
  <1>4. ASSUME NEW w \in Worker, WorkerDies(w) PROVE ScheduleInv'
    BY <1>4 DEF WorkerDies, Leave, IdleSlot, BackoffFollowsSchedule, NewAreDue, LeasesAreCounted,
                rowVars, clockVars
  <1>5. ASSUME NEW d \in Delivery, ComesDue(d) PROVE ScheduleInv'
    BY <1>5 DEF ComesDue, BackoffFollowsSchedule, NewAreDue, LeasesAreCounted
  <1> QED BY <1>1, <1>2, <1>3, <1>4, <1>5 DEF DispatcherStep, Dispatch

-----------------------------------------------------------------------------
(* The budget *)

(* It is about the rows and the leases alone. *)
LEMMA BudgetIsElsewhere ==
  ASSUME BudgetInv, UNCHANGED <<rowVars, workerVars>>
  PROVE  BudgetInv'
  BY DEF BudgetInv, PostsAreLeased, Posting, LeasesAreBudgeted, Unattended, OnlyBusyLapse,
         rowVars, clockVars, workerVars

(* No transaction makes a row that is over pending again. *)
LEMMA TransactionsKeepBudget ==
  ASSUME TypeOK, DeliveryInv, BudgetInv,
         (\E v \in Event : RecordStep(v) \/ AbortEvent(v)) \/ (\E e \in Endpoint : EndpointStep(e))
  PROVE  BudgetInv'
  <1> USE DEF TypeOK, StoreTypeOK
  <1>a. ASSUME UNCHANGED <<clockVars, workerVars>>,
               \A d \in Delivery : delivery'[d] \in {"none", "pending"} => delivery[d] \in {"none", "pending"}
        PROVE  BudgetInv'
    BY <1>a DEF BudgetInv, PostsAreLeased, Posting, LeasesAreBudgeted, Unattended, OnlyBusyLapse,
                clockVars, workerVars
  <1>1. ASSUME NEW v \in Event, CommitEvent(v) PROVE BudgetInv'
    <2> SUFFICES ASSUME NEW d \in Delivery, delivery[d] \notin {"none", "pending"}
                 PROVE  delivery'[d] = delivery[d]
      BY <1>1, <1>a DEF CommitEvent
    <2>1. d \notin {v} \X target[v]
      BY <1>1 DEF CommitEvent, DeliveryInv, DeliveriesAreTargets
    <2> QED BY <1>1, <2>1 DEF CommitEvent
  <1>2. ASSUME NEW e \in Endpoint, CommitDisable(e), UNCHANGED <<clockVars, workerVars>>
        PROVE  BudgetInv'
    BY <1>2, <1>a DEF CommitDisable
  <1>3. CASE UNCHANGED <<rowVars, workerVars>>
    BY <1>3, BudgetIsElsewhere
  <1> QED BY <1>1, <1>2, <1>3
          DEF RecordStep, LockBusiness, InsertEvent, FanOut, AbortEvent, EndpointStep

(* A lease is one POST more to come, and has the delivery attended.        *)
LEMMA LeaseKeepsBudget ==
  ASSUME TypeOK, DeliveryInv, BudgetInv, NEW w \in Worker, NEW d \in Delivery, Lease(w, d)
  PROVE  BudgetInv'
  <1> USE DEF TypeOK, StoreTypeOK, BudgetInv, Lease
  <1>1. /\ slot[w].stage = "idle" /\ slot'[w].stage = "post" /\ slot'[w].row = d
        /\ \A x \in Worker \ {w} : slot'[x] = slot[x]
    OBVIOUS
  <1>2. count'[d] = count[d] + 1 /\ \A x \in Delivery \ {d} : count'[x] = count[x]
    OBVIOUS
  <1>3. slot[w].row = Nothing /\ d # Nothing
    BY <1>1 DEF DeliveryInv, IdleHasNoRow, Delivery
  <1>4. PostsAreLeased'
    <2>1. w \notin Posting(d) /\ Posting(d)' = Posting(d) \cup {w}
      BY <1>1 DEF Posting
    <2>2. \A x \in Delivery \ {d} : Posting(x)' = Posting(x)
      BY <1>1 DEF Posting
    <2>3. /\ IsFiniteSet(Posting(d)) /\ Cardinality(Posting(d)) \in Nat
          /\ posts[d] + Cardinality(Posting(d)) <= count[d]
      BY FS_CardinalityType DEF PostsAreLeased
    <2>4. IsFiniteSet(Posting(d)') /\ Cardinality(Posting(d)') = Cardinality(Posting(d)) + 1
      BY <2>1, <2>3, FS_AddElement
    <2>5. posts' = posts /\ posts[d] \in Nat /\ count[d] \in Nat
      OBVIOUS
    <2>6. posts'[d] + Cardinality(Posting(d)') <= count'[d]
      BY ONLY <1>2, <2>3, <2>4, <2>5
    <2> QED BY ONLY <1>2, <2>2, <2>4, <2>5, <2>6, PostsAreLeased DEF PostsAreLeased
  <1>5. OnlyBusyLapse'
    BY <1>1 DEF OnlyBusyLapse
  <1>6. Unattended(d)
    BY <1>3 DEF Unattended, DeliveryInv, BusyHasLease, IdleHasNoRow, Leasable
  <1>7. w \notin lapsed
    BY <1>1 DEF OnlyBusyLapse
  <1>8. count[d] < MaxAttempts + hitches
    BY <1>6 DEF LeasesAreBudgeted, Leasable
  <1>9. ~Unattended(d)'
    BY <1>1, <1>7 DEF Unattended
  <1>10. \A x \in Delivery \ {d} : Unattended(x)' => Unattended(x)
    BY <1>1, <1>3 DEF Unattended, Delivery
  <1>11. LeasesAreBudgeted'
    <2>1. hitches' = hitches /\ delivery' = delivery /\ count[d] \in Nat /\ hitches \in Nat
      OBVIOUS
    <2>2. count'[d] <= MaxAttempts + hitches'
      BY <1>2, <1>8, <2>1
    <2> QED BY ONLY <1>2, <1>9, <1>10, <2>1, <2>2, LeasesAreBudgeted DEF LeasesAreBudgeted
  <1> QED BY <1>4, <1>5, <1>11

(* A POST spends its lease. *)
LEMMA PostKeepsBudget ==
  ASSUME TypeOK, DeliveryInv, BudgetInv, NEW w \in Worker, Post(w)
  PROVE  BudgetInv'
  <1> USE DEF TypeOK, StoreTypeOK, BudgetInv
  <1> DEFINE d == slot[w].row
  <1>1. /\ slot[w].stage = "post" /\ slot'[w].stage = "record" /\ slot'[w].row = d
        /\ \A x \in Worker \ {w} : slot'[x] = slot[x]
    BY DEF Post, Slot
  <1>2. d \in Delivery
    BY <1>1 DEF DeliveryInv, BusyHasLease
  <1>3. /\ posts' = [posts EXCEPT ![d] = @ + 1]
        /\ UNCHANGED <<delivery, count, lapsed, hitches>>
    BY DEF Post, rowVars, clockVars
  <1>4. PostsAreLeased'
    <2>0. PICK e \in Delivery : e = d
      BY <1>2
    <2>1. w \in Posting(e) /\ Posting(e)' = Posting(e) \ {w}
      BY <1>1, <2>0 DEF Posting
    <2>2. \A x \in Delivery \ {e} : Posting(x)' = Posting(x)
      BY <1>1, <2>0 DEF Posting
    <2>3. /\ IsFiniteSet(Posting(e)) /\ Cardinality(Posting(e)) \in Nat
          /\ posts[e] + Cardinality(Posting(e)) <= count[e]
      BY FS_CardinalityType DEF PostsAreLeased
    <2>4. IsFiniteSet(Posting(e)') /\ Cardinality(Posting(e)') = Cardinality(Posting(e)) - 1
      BY <2>1, <2>3, FS_RemoveElement
    <2>5. posts'[e] = posts[e] + 1 /\ posts[e] \in Nat /\ count[e] \in Nat
          /\ \A x \in Delivery \ {e} : posts'[x] = posts[x]
      BY <1>3, <2>0
    <2>6. posts'[e] + Cardinality(Posting(e)') <= count'[e]
      BY ONLY <1>3, <2>3, <2>4, <2>5
    <2> QED BY ONLY <1>3, <2>2, <2>4, <2>5, <2>6, PostsAreLeased DEF PostsAreLeased
  <1>5. \A x \in Worker : slot'[x].row = slot[x].row /\ (slot'[x].stage = "idle" <=> slot[x].stage = "idle")
    BY <1>1
  <1>6. OnlyBusyLapse'
    BY <1>3, <1>5 DEF OnlyBusyLapse
  <1>7. LeasesAreBudgeted'
    BY <1>3, <1>5 DEF LeasesAreBudgeted, Unattended
  <1> QED BY <1>4, <1>6, <1>7

(* A slot that is left posts no more, and has not lapsed. *)
LEMMA LeavingKeepsBudget ==
  ASSUME TypeOK, BudgetInv, NEW w \in Worker, Leave(w), UNCHANGED <<count, posts>>
  PROVE  /\ PostsAreLeased' /\ OnlyBusyLapse'
         /\ \A d \in Delivery : Unattended(d)' => Unattended(d) \/ (slot[w].row = d /\ w \notin lapsed)
  <1> USE DEF TypeOK, StoreTypeOK, BudgetInv
  <1>1. /\ slot'[w].stage = "idle" /\ slot'[w].row = Nothing
        /\ \A x \in Worker \ {w} : slot'[x] = slot[x]
        /\ lapsed' = lapsed \ {w}
    BY DEF Leave, IdleSlot
  <1>2. ASSUME NEW d \in Delivery
        PROVE  IsFiniteSet(Posting(d)') /\ posts[d] + Cardinality(Posting(d)') <= count[d]
    <2>1. Posting(d)' \subseteq Posting(d)
      BY <1>1 DEF Posting
    <2>2. IsFiniteSet(Posting(d)) /\ posts[d] + Cardinality(Posting(d)) <= count[d]
      BY DEF PostsAreLeased
    <2>3. IsFiniteSet(Posting(d)') /\ Cardinality(Posting(d)') <= Cardinality(Posting(d))
      BY <2>1, <2>2, FS_Subset
    <2>4. Cardinality(Posting(d)') \in Nat /\ Cardinality(Posting(d)) \in Nat
      BY <2>2, <2>3, FS_CardinalityType
    <2>5. posts[d] \in Nat /\ count[d] \in Nat
      OBVIOUS
    <2> QED BY ONLY <2>2, <2>3, <2>4, <2>5
  <1>3. PostsAreLeased'
    BY <1>2 DEF PostsAreLeased
  <1>4. OnlyBusyLapse'
    BY <1>1 DEF OnlyBusyLapse
  <1>5. \A d \in Delivery : Unattended(d)' => Unattended(d) \/ (slot[w].row = d /\ w \notin lapsed)
    BY <1>1 DEF Unattended
  <1> QED BY <1>3, <1>4, <1>5

(* A worker that leaves a pending delivery with its lease in hand, and     *)
(* without a crash, has recorded a failure that is not the last.           *)
LEMMA ResultKeepsBudget ==
  ASSUME TypeOK, DeliveryInv, BudgetInv, NEW w \in Worker, RecordResult(w)
  PROVE  BudgetInv'
  <1> USE DEF TypeOK, StoreTypeOK
  <1> DEFINE row == slot[w].row
  <1>1. UNCHANGED <<count, hitches, posts>> /\ Leave(w) /\ slot[w].stage = "record"
    BY DEF RecordResult
  <1>2. /\ row \in Delivery /\ delivery[row] # "none" /\ slot[w].lease \in Nat
        /\ w \notin lapsed => slot[w].lease = count[row]
    BY <1>1 DEF DeliveryInv, BusyHasLease, Slot
  <1>3. ASSUME NEW d \in Delivery, delivery'[d] \in {"none", "pending"}
        PROVE  /\ delivery[d] \in {"none", "pending"}
               /\ d = row /\ w \notin lapsed => count[d] < MaxAttempts
    <2>1. CASE HoldsLease(w)
      <3>1. delivery' = [delivery EXCEPT ![row] = Outcome(w)] /\ delivery[row] = "pending"
            /\ count[row] = slot[w].lease
        BY <2>1 DEF RecordResult, HoldsLease
      <3>2. d = row => Outcome(w) \notin {"delivered", "exhausted"}
        BY <1>2, <1>3, <3>1
      <3>3. Outcome(w) \notin {"delivered", "exhausted"} => slot[w].lease < MaxAttempts
        BY <1>2 DEF Outcome
      <3> QED BY <1>2, <1>3, <3>1, <3>2, <3>3
    <2>2. CASE ~HoldsLease(w)
      <3>1. delivery' = delivery
        BY <2>2 DEF RecordResult
      <3>2. w \notin lapsed => delivery[row] # "pending"
        BY <1>2, <2>2 DEF HoldsLease
      <3> QED BY <1>2, <1>3, <3>1, <3>2
    <2> QED BY <2>1, <2>2
  <1>4. \A d \in Delivery : Unattended(d)' => Unattended(d) \/ (row = d /\ w \notin lapsed)
    BY <1>1, LeavingKeepsBudget
  <1>5. LeasesAreBudgeted'
    <2>1. hitches \in Nat /\ \A d \in Delivery : count[d] \in Nat
      OBVIOUS
    <2>2. LeasesAreBudgeted /\ count' = count /\ hitches' = hitches
      BY <1>1 DEF BudgetInv
    <2> QED BY ONLY <1>3, <1>4, <2>1, <2>2, MaxAttemptsIsPositive DEF LeasesAreBudgeted
  <1>6. PostsAreLeased' /\ OnlyBusyLapse'
    BY <1>1, LeavingKeepsBudget
  <1> QED BY <1>5, <1>6 DEF BudgetInv

(* An interruption pays for the lease that makes up for it. *)
LEMMA DispatcherKeepsBudget ==
  ASSUME TypeOK, DeliveryInv, ScheduleInv, BudgetInv, DispatcherStep
  PROVE  BudgetInv'
  <1> USE DEF TypeOK, StoreTypeOK
  <1>1. ASSUME NEW w \in Worker, NEW d \in Delivery, Lease(w, d) PROVE BudgetInv'
    BY <1>1, LeaseKeepsBudget
  <1>2. ASSUME NEW w \in Worker, Post(w) PROVE BudgetInv'
    BY <1>2, PostKeepsBudget
  <1>3. ASSUME NEW w \in Worker, RecordResult(w) PROVE BudgetInv'
    BY <1>3, ResultKeepsBudget
  <1>4. ASSUME NEW w \in Worker, WorkerDies(w) PROVE BudgetInv'
    <2>1. Leave(w) /\ UNCHANGED <<count, posts, delivery>> /\ hitches' = hitches + 1
      BY <1>4 DEF WorkerDies, rowVars, clockVars
    <2>2. PostsAreLeased' /\ OnlyBusyLapse'
      BY <2>1, LeavingKeepsBudget
    <2>3. LeasesAreBudgeted'
      BY <2>1 DEF BudgetInv, LeasesAreBudgeted
    <2> QED BY <2>2, <2>3 DEF BudgetInv
  <1>5. ASSUME NEW d \in Delivery, ComesDue(d) PROVE BudgetInv'
    <2> DEFINE busy == {w \in Worker : slot[w].row = d} \ lapsed
               surprised == next[d] = "lease" /\ busy # {}
    <2>1. UNCHANGED <<delivery, count, slot, posts>> /\ delivery[d] = "pending" /\ next[d] # "due"
      BY <1>5 DEF ComesDue
    <2>2. PostsAreLeased'
      BY <2>1 DEF BudgetInv, PostsAreLeased, Posting
    <2>3. CASE surprised
      <3>1. hitches' = hitches + 1 /\ lapsed' = lapsed \cup busy
        BY <1>5, <2>3 DEF ComesDue
      <3>2. OnlyBusyLapse'
        BY <2>1, <3>1 DEF BudgetInv, OnlyBusyLapse, DeliveryInv, IdleHasNoRow, Delivery
      <3>3. LeasesAreBudgeted'
        BY <2>1, <3>1 DEF BudgetInv, LeasesAreBudgeted
      <3> QED BY <2>2, <3>2, <3>3 DEF BudgetInv
    <2>4. CASE ~surprised
      BY <1>5, <2>1, <2>2, <2>4
         DEF ComesDue, BudgetInv, OnlyBusyLapse, LeasesAreBudgeted, Unattended
    <2> QED BY <2>3, <2>4
  <1> QED BY <1>1, <1>2, <1>3, <1>4, <1>5 DEF DispatcherStep, Dispatch, Alone

-----------------------------------------------------------------------------
(* The theorems *)

(* The invariant is inductive: every step of Next preserves it. *)
LEMMA StepIsSafe == IInv /\ [Next]_vars => IInv'
  <1> SUFFICES ASSUME IInv, [Next]_vars PROVE IInv'
    OBVIOUS
  <1> USE DEF IInv
  <1>1. ASSUME NEW v \in Event, RecordStep(v) \/ AbortEvent(v) PROVE IInv'
    BY <1>1, RecordTypes, RecordKeepsFeed, RecordKeepsReads, RecordKeepsDeliveries, TransactionsKeepSchedule,
       TransactionsKeepBudget
  <1>2. ASSUME NEW c \in Client, ListEvents(c) PROVE IInv'
    <2>1. UNCHANGED <<txn, target, endpointVars, rowVars, workerVars>>
      BY <1>2 DEF ListEvents, eventVars
    <2> QED BY <1>2, <2>1, ClientTypes, ReadingKeepsFeed, ReadingKeepsReads, DeliveriesAreElsewhere, ScheduleIsElsewhere,
              BudgetIsElsewhere
  <1>3. ASSUME NEW e \in Endpoint, EndpointStep(e) PROVE IInv'
    <2>1. UNCHANGED <<eventVars, feedVars>>
      BY <1>3 DEF EndpointStep
    <2> QED BY <1>3, <2>1, EndpointTypes, FeedIsElsewhere, ReadsAreElsewhere, EndpointKeepsDeliveries,
              TransactionsKeepSchedule, TransactionsKeepBudget
  <1>4. CASE DispatcherStep
    <2>1. UNCHANGED <<eventVars, feedVars>>
      BY <1>4 DEF DispatcherStep, Alone
    <2> QED BY <1>4, <2>1, DispatcherTypes, FeedIsElsewhere, ReadsAreElsewhere, DispatcherKeepsDeliveries,
              DispatcherKeepsSchedule, DispatcherKeepsBudget DEF DeliveryInv
  <1>5. CASE UNCHANGED vars
    <2>1. TypeOK'
      BY <1>5 DEF TypeOK, StoreTypeOK, vars, eventVars, feedVars, endpointVars, rowVars, clockVars, workerVars
    <2>2. UNCHANGED <<eventVars, feedVars>> /\ UNCHANGED <<txn, target, endpointVars, rowVars, workerVars>>
      BY <1>5 DEF vars, eventVars
    <2> QED BY <2>1, <2>2, FeedIsElsewhere, ReadsAreElsewhere, DeliveriesAreElsewhere, ScheduleIsElsewhere,
              BudgetIsElsewhere
  <1> QED BY <1>1, <1>2, <1>3, <1>4, <1>5 DEF Next

(* The inductive invariant holds in every reachable state. *)
THEOREM Invariance == Spec => []IInv
  <1>1. Init => IInv
    BY InitIsSafe
  <1>2. IInv /\ [Next]_vars => IInv'
    BY StepIsSafe
  <1> QED BY <1>1, <1>2, PTL DEF Spec

(* Every column, lock and slot keeps the values it is meant to have. *)
THEOREM TypeCorrect == Spec => []TypeOK
  <1>1. IInv => TypeOK
    BY DEF IInv
  <1> QED BY <1>1, Invariance, PTL

(* A client that tails the feed by seq misses no committed event, whatever *)
(* transactions overlap or roll back (events.rs, record).                  *)
THEOREM FeedHasNoGaps == Spec => []NothingBehindCheckpoint
  <1>1. IInv => NothingBehindCheckpoint
    BY DEF IInv, FeedInv
  <1> QED BY <1>1, Invariance, PTL

(* A URL gets one delivery of an event, whatever endpoints have had it.    *)
THEOREM UrlGetsEventOnce == Spec => []OneDeliveryPerUrl
  <1>1. IInv => OneDeliveryPerUrl
    BY DEF IInv, DeliveryInv, OneTargetPerUrl, DeliveriesAreTargets, OneDeliveryPerUrl
  <1> QED BY <1>1, Invariance, PTL

(* Workers whose leases have not run out never send the same delivery.     *)
THEOREM LeasesExclude == Spec => []NoOverlapWithinLease
  <1>1. IInv => NoOverlapWithinLease
    <2> SUFFICES ASSUME IInv, NEW w \in Worker \ lapsed, NEW x \in Worker \ lapsed,
                        slot[w].row = slot[x].row, slot[w].row # Nothing
                 PROVE  w = x
      BY DEF NoOverlapWithinLease
    <2>1. slot[w].stage # "idle" /\ slot[x].stage # "idle"
      BY DEF IInv, DeliveryInv, IdleHasNoRow
    <2>2. slot[w].lease = slot[x].lease
      BY <2>1 DEF IInv, DeliveryInv, BusyHasLease
    <2> QED BY <2>1, <2>2 DEF IInv, DeliveryInv, LeasesAreDistinct
  <1> QED BY <1>1, Invariance, PTL

(* A delivery is given up only after all its leases, and reported as       *)
(* delivered only if the receiver has it.                                  *)
THEOREM OutcomesHaveGrounds == Spec => []OutcomesAreEarned
  <1>1. IInv => OutcomesAreEarned
    BY DEF IInv, DeliveryInv
  <1> QED BY <1>1, Invariance, PTL

(* A delivery is sent at most MaxAttempts times, and once more for each    *)
(* crash or lease that ran out under a busy worker: every POST has a lease *)
(* of its own, and a lease past MaxAttempts needs an interruption          *)
(* (dispatcher.rs, lease_due and record_result).                           *)
THEOREM BudgetIsKept == Spec => []AttemptBudget
  <1>1. IInv => AttemptBudget
    <2> SUFFICES ASSUME IInv, NEW d \in Delivery
                 PROVE  posts[d] <= count[d] /\ count[d] <= MaxAttempts + hitches
      BY DEF AttemptBudget
    <2>1. IsFiniteSet(Posting(d)) /\ posts[d] + Cardinality(Posting(d)) <= count[d]
      BY DEF IInv, BudgetInv, PostsAreLeased
    <2>2. Cardinality(Posting(d)) \in Nat
      BY <2>1, FS_CardinalityType
    <2>3. posts[d] \in Nat /\ count[d] \in Nat
      BY DEF IInv, TypeOK, StoreTypeOK
    <2> QED BY <2>1, <2>2, <2>3 DEF IInv, BudgetInv, LeasesAreBudgeted
  <1> QED BY <1>1, Invariance, PTL

(* A delivery waits the entry of the schedule that belongs to the attempts *)
(* it has had: only the holder of the current lease sets it                *)
(* (dispatcher.rs, record_result and retry_delay).                         *)
THEOREM ScheduleIsFollowed == Spec => []BackoffFollowsSchedule
  <1>1. IInv => BackoffFollowsSchedule
    BY DEF IInv, ScheduleInv
  <1> QED BY <1>1, Invariance, PTL

(* No step changes the status of a delivery that is over: a fan-out makes  *)
(* new rows, a disable cancels what it holds, which is pending, and a      *)
(* worker records on a pending row.                                        *)
THEOREM OverIsForEver == Spec => OverIsOver
  <1> DEFINE Kept == \A d \in Delivery :
                        delivery[d] \in {"delivered", "exhausted", "cancelled"} =>
                            delivery'[d] = delivery[d]
  <1>1. IInv /\ [Next]_vars => Kept
    <2> SUFFICES ASSUME IInv, [Next]_vars, NEW d \in Delivery,
                        delivery[d] \in {"delivered", "exhausted", "cancelled"}
                 PROVE  delivery'[d] = delivery[d]
      OBVIOUS
    <2> USE DEF IInv, DeliveryInv, TypeOK, StoreTypeOK
    <2>1. ASSUME NEW v \in Event, RecordStep(v) \/ AbortEvent(v) PROVE delivery'[d] = delivery[d]
      <3>1. CASE CommitEvent(v)
        <4>1. d \notin {v} \X target[v]
          BY <3>1 DEF CommitEvent, DeliveriesAreTargets
        <4> QED BY <3>1, <4>1 DEF CommitEvent
      <3> QED BY <2>1, <3>1 DEF RecordStep, LockBusiness, InsertEvent, FanOut, AbortEvent, rowVars, clockVars
    <2>2. ASSUME NEW e \in Endpoint, EndpointStep(e) PROVE delivery'[d] = delivery[d]
      <3>1. d \notin held[e]
        BY DEF HeldArePending
      <3> QED BY <2>2, <3>1 DEF EndpointStep, CommitDisable, rowVars, clockVars
    <2>3. CASE DispatcherStep
      <3>1. ASSUME NEW w \in Worker, NEW x \in Delivery, Alone(Lease(w, x))
            PROVE  delivery'[d] = delivery[d]
        BY <3>1 DEF Alone, Lease
      <3>2. ASSUME NEW w \in Worker, Alone(Post(w) \/ WorkerDies(w))
            PROVE  delivery'[d] = delivery[d]
        BY <3>2 DEF Alone, Post, WorkerDies, rowVars
      <3>3. ASSUME NEW w \in Worker, Alone(RecordResult(w))
            PROVE  delivery'[d] = delivery[d]
        BY <3>3 DEF Alone, RecordResult, HoldsLease
      <3>4. ASSUME NEW x \in Delivery, Alone(ComesDue(x))
            PROVE  delivery'[d] = delivery[d]
        BY <3>4 DEF Alone, ComesDue
      <3> QED BY <2>3, <3>1, <3>2, <3>3, <3>4 DEF DispatcherStep, Dispatch, Alone
    <2>4. ASSUME NEW c \in Client, ListEvents(c) PROVE delivery'[d] = delivery[d]
      BY <2>4 DEF ListEvents, rowVars, clockVars
    <2>5. CASE UNCHANGED vars
      BY <2>5 DEF vars, rowVars, clockVars
    <2> QED BY <2>1, <2>2, <2>3, <2>4, <2>5 DEF Next
  <1> QED BY <1>1, Invariance, PTL DEF Spec, OverIsOver

=============================================================================

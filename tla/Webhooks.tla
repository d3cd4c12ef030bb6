------------------------------ MODULE Webhooks ------------------------------
(***************************************************************************)
(* Events and their delivery, for one business: the transactions that      *)
(* record events, the clients that tail the feed, the requests that        *)
(* register and disable endpoints, and the dispatcher.                     *)
(***************************************************************************)
EXTENDS EventLog, Endpoints, Dispatcher

vars == <<eventVars, feedVars, endpointVars, rowVars, workerVars>>

TypeOK == StoreTypeOK

Init == StoreInit

Next ==
    \/ \E v \in Event : RecordStep(v) \/ AbortEvent(v)
    \/ \E c \in Client : ListEvents(c)
    \/ \E e \in Endpoint : EndpointStep(e)
    \/ DispatcherStep

Spec == Init /\ [][Next]_vars

(***************************************************************************)
(* Workers keep polling, HTTP calls time out, time passes, and a disable   *)
(* that holds row locks ends, one way or the other.                        *)
(***************************************************************************)
Fairness ==
    /\ \A w \in Worker : WF_vars(Alone(Dispatch(w))) /\ SF_vars(Alone(RecordResult(w)))
    /\ \A d \in Delivery : /\ WF_vars(Alone(ComesDue(d)))
                           /\ SF_vars(Alone(\E w \in Worker : Lease(w, d)))
    /\ \A e \in Endpoint : WF_vars(disabling[e] # "no" /\ EndpointStep(e))

FairSpec == Spec /\ Fairness

-----------------------------------------------------------------------------
(* Safety properties *)

(* No committed event is behind a client's checkpoint unread: seq order is *)
(* commit order, whatever transactions overlap or roll back (0004, events).*)
NothingBehindCheckpoint ==
    \A c \in Client : \A v \in Committed : seq[v] <= Checkpoint(c) => v \in seen[c]

(* A URL gets an event once, also while its endpoint is disabled and       *)
(* registered anew around the event's fan-out (0004, active_url_idx).      *)
OneDeliveryPerUrl ==
    \A v \in Event, e, f \in Endpoint :
        /\ delivery[<<v, e>>] # "none" /\ delivery[<<v, f>>] # "none"
        /\ UrlOf[e] = UrlOf[f]
        => e = f

(* Two workers send one delivery at a time only if a lease has run out     *)
(* (dispatcher.rs: never double-send in normal operation).                 *)
NoOverlapWithinLease ==
    \A w, x \in Worker \ lapsed :
        slot[w].row = slot[x].row /\ slot[w].row # Nothing => w = x

(* A delivery is sent MaxAttempts times at most, and once more for each    *)
(* crash or lease that ran out, however results and leases interleave.     *)
AttemptBudget == \A d \in Delivery : posts[d] <= count[d] /\ count[d] <= MaxAttempts + hitches

(* A delivery is given up only after MaxAttempts leases, and one is        *)
(* recorded as delivered only if the receiver has it.                      *)
OutcomesAreEarned ==
    \A d \in Delivery : /\ delivery[d] = "exhausted" => count[d] >= MaxAttempts
                        /\ delivery[d] = "delivered" => d \in received

(* Between two attempts a delivery waits the entry of the schedule that    *)
(* belongs to the number of attempts made, never one past its end, also    *)
(* when a crash or a late worker has come between (dispatcher.rs,          *)
(* retry_delay and record_result).                                         *)
BackoffFollowsSchedule ==
    \A d \in Delivery : delivery[d] = "pending" /\ next[d] = "backoff" =>
        delay[d] = count[d] /\ delay[d] \in 1..(MaxAttempts - 1)

(* What is delivered, exhausted or cancelled stays so: a worker's late     *)
(* result does not undo a cancellation, nor a cancellation a result.       *)
OverIsOver ==
    [][\A d \in Delivery : delivery[d] \in {"delivered", "exhausted", "cancelled"} =>
           delivery'[d] = delivery[d]]_vars

(* The place of v when the rows are put in the order of f, from 1, and the *)
(* rows in that order.  (SetToSortSeq sorts by a permutation of which the  *)
(* provers know nothing.)                                                  *)
Place(rows, f, v) == Cardinality({u \in rows : f[u] <= f[v]})

InOrder(rows, f) == [n \in 1..Cardinality(rows) |-> CHOOSE v \in rows : Place(rows, f, v) = n]

(* The events API implements the feed: one growing log, read by prefixes.  *)
Feed == INSTANCE EventFeed WITH log <- InOrder(Committed, seq), got <- seen

RefinesFeed == Feed!FeedSpec

-----------------------------------------------------------------------------
(***************************************************************************)
(* The inductive invariant.  For the feed: an open transaction has the     *)
(* business row, so its seq is above every committed one.  For deliveries: *)
(* a lease number belongs to one worker, and to the row's current lease    *)
(* unless the lease ran out; a row under a disabling transaction is        *)
(* pending.                                                                *)
(***************************************************************************)
OpenHasLock ==
    \A v \in Event : txn[v] \in {"locked", "inserted", "fanned"} => bizLock = v

SeqIsTaken ==
    \A v \in Event : txn[v] \in {"inserted", "fanned", "committed"} => 0 < seq[v] /\ seq[v] < nextSeq

CommittedComeFirst ==
    \A u, v \in Event : txn[u] = "committed" /\ txn[v] \in {"inserted", "fanned"} => seq[u] < seq[v]

CursorIsCommitted == \A c \in Client : cursor[c] \in Committed \cup {Nothing}

OneActivePerUrl ==
    \A e, f \in Endpoint : endpoint[e] = "active" /\ endpoint[f] = "active" /\ UrlOf[e] = UrlOf[f] => e = f

OneTargetPerUrl ==
    \A v \in Event : \A e, f \in target[v] : UrlOf[e] = UrlOf[f] => e = f

DeliveriesAreTargets ==
    \A v \in Event, e \in Endpoint :
        delivery[<<v, e>>] # "none" => txn[v] = "committed" /\ e \in target[v]

HeldArePending ==
    \A e \in Endpoint : \A d \in held[e] : d \in Event \X {e} /\ delivery[d] = "pending"

BusyHasLease ==
    \A w \in Worker : slot[w].stage # "idle" =>
        /\ slot[w].row \in Delivery
        /\ delivery[slot[w].row] # "none"
        /\ slot[w].lease <= count[slot[w].row]
        /\ w \notin lapsed => slot[w].lease = count[slot[w].row] /\ next[slot[w].row] = "lease"
        /\ slot[w].ok => slot[w].row \in received

IdleHasNoRow == \A w \in Worker : slot[w].stage = "idle" => slot[w].row = Nothing

LeasesAreDistinct ==
    \A w, x \in Worker :
        /\ slot[w].stage # "idle" /\ slot[x].stage # "idle"
        /\ slot[w].row = slot[x].row /\ slot[w].lease = slot[x].lease
        => w = x

(* Two committed events have different seqs, and a client has read nothing *)
(* that is not behind its checkpoint.                                      *)
SeqsAreDistinct == \A u, v \in Committed : seq[u] = seq[v] => u = v

SeenIsBehindCheckpoint ==
    \A c \in Client : \A v \in seen[c] : v \in Committed /\ seq[v] <= Checkpoint(c)

ReadsInv == SeqsAreDistinct /\ SeenIsBehindCheckpoint

FeedInv == OpenHasLock /\ SeqIsTaken /\ CommittedComeFirst /\ CursorIsCommitted
           /\ NothingBehindCheckpoint

DeliveryInv == /\ OneActivePerUrl /\ OneTargetPerUrl /\ DeliveriesAreTargets
               /\ HeldArePending /\ BusyHasLease /\ IdleHasNoRow /\ LeasesAreDistinct
               /\ OutcomesAreEarned

NewAreDue == \A d \in Delivery : delivery[d] = "none" => next[d] = "due"

LeasesAreCounted == \A w \in Worker : slot[w].stage # "idle" => slot[w].lease > 0

ScheduleInv == BackoffFollowsSchedule /\ NewAreDue /\ LeasesAreCounted

(* The budget: a lease pays for one POST, a lease over MaxAttempts is paid *)
(* for by an interruption, and one more is affordable whenever no worker   *)
(* has the delivery under a lease that has not run out.                    *)
Posting(d) == {w \in Worker : slot[w].stage = "post" /\ slot[w].row = d}

PostsAreLeased ==
    \A d \in Delivery : IsFiniteSet(Posting(d)) /\ posts[d] + Cardinality(Posting(d)) <= count[d]

Unattended(d) == \A w \in Worker \ lapsed : slot[w].row # d

LeasesAreBudgeted ==
    \A d \in Delivery :
        /\ count[d] <= MaxAttempts + hitches
        /\ delivery[d] \in {"none", "pending"} /\ Unattended(d) => count[d] < MaxAttempts + hitches

OnlyBusyLapse == \A w \in lapsed : slot[w].stage # "idle"

BudgetInv == PostsAreLeased /\ LeasesAreBudgeted /\ OnlyBusyLapse

IInv == TypeOK /\ FeedInv /\ ReadsInv /\ DeliveryInv /\ ScheduleInv /\ BudgetInv

-----------------------------------------------------------------------------
(* Liveness *)

(* Every delivery ends: delivered, exhausted, or cancelled; a crash leaves *)
(* none pending for ever.                                                  *)
DeliveriesEnd ==
    \A d \in Delivery : delivery[d] = "pending" ~> delivery[d] \in {"delivered", "exhausted", "cancelled"}

-----------------------------------------------------------------------------
(* Claims of the documentation that the code does not keep *)

(* DESIGN.md, section 4: disabling an endpoint marks its pending           *)
(* deliveries cancelled.                                                   *)
DisabledHasNothingPending ==
    \A v \in Event, e \in Endpoint :
        endpoint[e] = "disabled" => delivery[<<v, e>>] # "pending"

=============================================================================

----------------------------- MODULE Dispatcher -----------------------------
(***************************************************************************)
(* The webhook dispatcher (webhooks/dispatcher.rs): lease a due delivery,  *)
(* POST it with no transaction open, record the result if the lease is     *)
(* still the current one.  A slot is one delivery's place in a batch.      *)
(***************************************************************************)
EXTENDS WebhookStore

(* A disabling transaction has updated the row and not ended yet. *)
RowLocked(d) == \E e \in Endpoint : d \in held[e]

(* Seeded fault: a delivery whose attempts are used up is not leased. *)
FaultLeasable(d) == /\ delivery[d] = "pending" /\ next[d] = "due" /\ ~RowLocked(d)
                    /\ count[d] < MaxAttempts

Leasable(d) == delivery[d] = "pending" /\ next[d] = "due" /\ ~RowLocked(d)

(* lease_due: FOR UPDATE SKIP LOCKED and the lease, in one statement. *)
Lease(w, d) ==
    /\ slot[w].stage = "idle"
    /\ Leasable(d)
    /\ count' = [count EXCEPT ![d] = @ + 1]
    /\ next' = [next EXCEPT ![d] = "lease"]
    /\ delay' = [delay EXCEPT ![d] = 0]
    /\ slot' = [slot EXCEPT ![w] = [stage |-> "post", row |-> d, lease |-> count[d] + 1, ok |-> FALSE]]
    /\ UNCHANGED <<delivery, lapsed, hitches, posts, received>>

(* deliver: a 2xx is a success; an error, a timeout or another status is   *)
(* not, and says nothing of what the receiver got.                         *)
Post(w) ==
    /\ slot[w].stage = "post"
    /\ \E ok \in BOOLEAN, arrived \in BOOLEAN :
          /\ ok => arrived
          /\ slot' = [slot EXCEPT ![w].stage = "record", ![w].ok = ok]
          /\ received' = IF arrived THEN received \cup {slot[w].row} ELSE received
    /\ posts' = [posts EXCEPT ![slot[w].row] = @ + 1]
    /\ UNCHANGED <<rowVars, lapsed, hitches>>

(* The slot is free again. *)
Leave(w) == slot' = [slot EXCEPT ![w] = IdleSlot] /\ lapsed' = lapsed \ {w}

(* Seeded fault: a result is recorded whoever has the lease by now. *)
FaultHoldsLease(w) == delivery[slot[w].row] = "pending"

(* Seeded fault: a result is recorded whatever became of the delivery. *)
FaultIgnoresStatus(w) == count[slot[w].row] = slot[w].lease

(* The WHERE of record_result. *)
HoldsLease(w) == delivery[slot[w].row] = "pending" /\ count[slot[w].row] = slot[w].lease

(* Seeded fault: an off-by-one gives the last retry away. *)
FaultOutcome(w) ==
    CASE slot[w].ok -> "delivered"
      [] ~slot[w].ok /\ slot[w].lease + 1 >= MaxAttempts -> "exhausted"
      [] OTHER -> "pending"

(* Seeded fault: an off-by-one grants one retry more. *)
FaultOneMore(w) ==
    CASE slot[w].ok -> "delivered"
      [] ~slot[w].ok /\ slot[w].lease > MaxAttempts -> "exhausted"
      [] OTHER -> "pending"

Outcome(w) ==
    CASE slot[w].ok -> "delivered"
      [] ~slot[w].ok /\ slot[w].lease >= MaxAttempts -> "exhausted"
      [] OTHER -> "pending"

(* Seeded fault: the schedule is indexed by the attempt, not by one less. *)
FaultRetryDelay(n) == IF n + 1 < MaxAttempts THEN n + 1 ELSE 0

(* retry_delay: the n-th failure waits the n-th entry of RETRY_SCHEDULE,   *)
(* which has MaxAttempts - 1 of them; past its end, no time at all.        *)
RetryDelay(n) == IF n < MaxAttempts THEN n ELSE 0

(* record_result, once the row is free.  It finds no row if another worker *)
(* has leased the delivery since, or the delivery is over.                 *)
RecordResult(w) ==
    /\ slot[w].stage = "record"
    /\ ~RowLocked(slot[w].row)
    /\ IF HoldsLease(w)
       THEN /\ delivery' = [delivery EXCEPT ![slot[w].row] = Outcome(w)]
            /\ next' = [next EXCEPT ![slot[w].row] = IF slot[w].ok THEN @ ELSE "backoff"]
            /\ delay' = [delay EXCEPT ![slot[w].row] = IF slot[w].ok THEN @ ELSE RetryDelay(slot[w].lease)]
       ELSE UNCHANGED <<delivery, next, delay>>
    /\ Leave(w)
    /\ UNCHANGED <<count, hitches, posts, received>>

(* A crash, or an error that loses the result: the lease brings it back. *)
WorkerDies(w) ==
    /\ slot[w].stage # "idle"
    /\ hitches < Interruptions /\ hitches' = hitches + 1
    /\ Leave(w)
    /\ UNCHANGED <<rowVars, posts, received>>

(* next_attempt_at passes: after the backoff, or when the lease runs out;  *)
(* the bound is spent when that happens to a worker that is still busy.    *)
ComesDue(d) ==
    LET busy == {w \in Worker : slot[w].row = d} \ lapsed
        surprised == next[d] = "lease" /\ busy # {}
    IN  /\ delivery[d] = "pending" /\ next[d] # "due"
        /\ next' = [next EXCEPT ![d] = "due"]
        /\ IF surprised THEN /\ hitches < Interruptions /\ hitches' = hitches + 1
                             /\ lapsed' = lapsed \cup busy
                        ELSE UNCHANGED <<hitches, lapsed>>
        /\ UNCHANGED <<delivery, count, delay, slot, posts, received>>

Dispatch(w) == (\E d \in Delivery : Lease(w, d)) \/ Post(w) \/ RecordResult(w)

(* The dispatcher writes delivery rows and nothing else of the store. *)
Alone(A) == A /\ UNCHANGED <<eventVars, feedVars, endpointVars>>

DispatcherStep == \/ \E w \in Worker : Alone(Dispatch(w) \/ WorkerDies(w))
                  \/ \E d \in Delivery : Alone(ComesDue(d))

=============================================================================

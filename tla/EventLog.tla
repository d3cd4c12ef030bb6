------------------------------ MODULE EventLog ------------------------------
(***************************************************************************)
(* The event log (events.rs): record, which runs inside the transaction of *)
(* the state change it describes, and list_events, with which a business   *)
(* tails the log from a checkpoint.                                        *)
(***************************************************************************)
EXTENDS WebhookStore

(* Seeded fault: seq is taken without the business row lock. *)
FaultBusinessFree(v) == TRUE

BusinessFree(v) == bizLock = Nothing

(* SELECT .. FOR NO KEY UPDATE, held until the transaction ends. *)
LockBusiness(v) ==
    /\ txn[v] = "none"
    /\ BusinessFree(v)
    /\ txn' = [txn EXCEPT ![v] = "locked"]
    /\ bizLock' = v
    /\ UNCHANGED <<seq, nextSeq, target, feedVars, endpointVars, rowVars, workerVars>>

(* INSERT INTO events takes the next seq. *)
InsertEvent(v) ==
    /\ txn[v] = "locked"
    /\ txn' = [txn EXCEPT ![v] = "inserted"]
    /\ seq' = [seq EXCEPT ![v] = nextSeq]
    /\ nextSeq' = nextSeq + 1
    /\ UNCHANGED <<bizLock, target, feedVars, endpointVars, rowVars, workerVars>>

(* INSERT INTO webhook_deliveries SELECT: the endpoints committed as active *)
(* now.  The foreign key's KEY SHARE lock does not stop a disable.          *)
FanOut(v) ==
    /\ txn[v] = "inserted"
    /\ txn' = [txn EXCEPT ![v] = "fanned"]
    /\ target' = [target EXCEPT ![v] = {e \in Endpoint : endpoint[e] = "active"}]
    /\ UNCHANGED <<seq, nextSeq, bizLock, feedVars, endpointVars, rowVars, workerVars>>

(* The business row is free again, for whoever waits for it. *)
Unlock(v) == bizLock' = IF bizLock = v THEN Nothing ELSE bizLock

(* The caller commits: the event and its deliveries appear together. *)
CommitEvent(v) ==
    /\ txn[v] = "fanned"
    /\ txn' = [txn EXCEPT ![v] = "committed"]
    /\ delivery' = [d \in Delivery |-> IF d \in {v} \X target[v] THEN "pending" ELSE delivery[d]]
    /\ Unlock(v)
    /\ UNCHANGED <<seq, nextSeq, target, feedVars, endpointVars, clockVars, workerVars>>

(* A later statement of the caller fails, or its process dies. *)
AbortEvent(v) ==
    /\ txn[v] \in {"locked", "inserted", "fanned"}
    /\ txn' = [txn EXCEPT ![v] = "aborted"]
    /\ Unlock(v)
    /\ UNCHANGED <<seq, nextSeq, target, feedVars, endpointVars, rowVars, workerVars>>

-----------------------------------------------------------------------------
Committed == {v \in Event : txn[v] = "committed"}

(* The seq of a client's cursor, 0 without one. *)
Checkpoint(c) == IF cursor[c] = Nothing THEN 0 ELSE seq[cursor[c]]

After(c) == {v \in Committed : seq[v] > Checkpoint(c)}

(* ORDER BY seq LIMIT n *)
FirstPage(rows) == {v \in rows : Cardinality({u \in rows : seq[u] < seq[v]}) < PageLimit}

(* list_events, and a client that takes the page and moves its cursor to   *)
(* the last event of it.  An empty page changes nothing.                   *)
ListEvents(c) ==
    LET page == FirstPage(After(c)) IN
    \E last \in page :
        /\ \A v \in page : seq[v] <= seq[last]
        /\ cursor' = [cursor EXCEPT ![c] = last]
        /\ seen' = [seen EXCEPT ![c] = @ \cup page]
        /\ UNCHANGED <<eventVars, endpointVars, rowVars, workerVars>>

RecordStep(v) == \/ LockBusiness(v) \/ InsertEvent(v) \/ FanOut(v)
                 \/ CommitEvent(v)

=============================================================================

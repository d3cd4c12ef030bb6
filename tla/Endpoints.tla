----------------------------- MODULE Endpoints ------------------------------
(***************************************************************************)
(* Registering and disabling webhook endpoints (webhooks/endpoints.rs).    *)
(***************************************************************************)
EXTENDS WebhookStore

(* Seeded fault: no unique index on the URLs of active endpoints. *)
FaultUrlFree(e) == TRUE

(* webhook_endpoints_active_url_idx: an INSERT waits for the end of a      *)
(* transaction that is disabling the URL's endpoint, and otherwise is 409. *)
UrlFree(e) == \A f \in Endpoint : UrlOf[f] = UrlOf[e] => endpoint[f] # "active"

CreateEndpoint(e) ==
    /\ endpoint[e] = "absent"
    /\ UrlFree(e)
    /\ endpoint' = [endpoint EXCEPT ![e] = "active"]
    /\ UNCHANGED <<disabling, held>>

(* UPDATE webhook_endpoints; a second request for e waits on its row.  An  *)
(* endpoint that is disabled already goes through the same statements.     *)
MarkDisabled(e) ==
    /\ endpoint[e] # "absent"
    /\ disabling[e] = "no"
    /\ disabling' = [disabling EXCEPT ![e] = "marked"]
    /\ UNCHANGED <<endpoint, held>>

(* UPDATE webhook_deliveries: the rows committed as pending by now. *)
CancelPending(e) ==
    /\ disabling[e] = "marked"
    /\ disabling' = [disabling EXCEPT ![e] = "cancelled"]
    /\ held' = [held EXCEPT ![e] = {d \in Event \X {e} : delivery[d] = "pending"}]
    /\ UNCHANGED endpoint

CommitDisable(e) ==
    /\ disabling[e] = "cancelled"
    /\ endpoint' = [endpoint EXCEPT ![e] = "disabled"]
    /\ delivery' = [d \in Delivery |-> IF d \in held[e] THEN "cancelled" ELSE delivery[d]]
    /\ disabling' = [disabling EXCEPT ![e] = "no"]
    /\ held' = [held EXCEPT ![e] = {}]

(* The request is cut off, or a statement fails. *)
AbortDisable(e) ==
    /\ disabling[e] # "no"
    /\ disabling' = [disabling EXCEPT ![e] = "no"]
    /\ held' = [held EXCEPT ![e] = {}]
    /\ UNCHANGED endpoint

EndpointStep(e) ==
    \/ /\ CreateEndpoint(e) \/ MarkDisabled(e) \/ CancelPending(e) \/ AbortDisable(e)
       /\ UNCHANGED <<eventVars, feedVars, rowVars, workerVars>>
    \/ CommitDisable(e) /\ UNCHANGED <<eventVars, feedVars, clockVars, workerVars>>

=============================================================================

-------------------------------- MODULE Psp ---------------------------------
(***************************************************************************)
(* The payment service provider and the network to it.  It is not part of  *)
(* the service: this is what psp.rs relies on, with the behaviours the     *)
(* harness's mock_psp.rs produces on purpose.                              *)
(*                                                                         *)
(*   psp[a]   what the PSP has on record under attempt a's id              *)
(*   post[a]  the POST /v1/charges for a: not sent, on its way (also after *)
(*            the caller gave up on it), received, or lost for good        *)
(***************************************************************************)
EXTENDS PaymentDomain

VARIABLES psp, post

pspVars == <<psp, post>>

PspTypeOK == /\ psp  \in [Request -> {"none", "processing", "succeeded", "failed"}]
             /\ post \in [Request -> {"unsent", "flying", "received", "lost"}]

PspInit == /\ psp  = [a \in Request |-> "none"]
           /\ post = [a \in Request |-> "unsent"]

(* Seeded fault: "still processing" is taken for an outcome. *)
FaultDefinitive(answer) == answer # "none"

Definitive(answer) == answer \in {"succeeded", "failed"}

(* The client puts the charge on the wire. *)
Send(a) == /\ post[a] = "unsent"
           /\ post' = [post EXCEPT ![a] = "flying"]
           /\ UNCHANGED psp

(* The PSP records the charge the moment the request reaches it. *)
PspReceive(a) == /\ post[a] = "flying"
                 /\ post' = [post EXCEPT ![a] = "received"]
                 /\ psp' = [psp EXCEPT ![a] = "processing"]

(* The request never arrives, or fails at the PSP's edge unrecorded. *)
PspLose(a) == /\ post[a] = "flying"
              /\ post' = [post EXCEPT ![a] = "lost"]
              /\ UNCHANGED psp

(* The card is charged ("succeeded") or refused. *)
PspDecide(a) == /\ psp[a] = "processing"
                /\ \E answer \in {"succeeded", "failed"} :
                      psp' = [psp EXCEPT ![a] = answer]
                /\ UNCHANGED post

(* The PSP and the network by themselves. *)
PspNext == \E a \in Request : Send(a) \/ PspReceive(a) \/ PspLose(a) \/ PspDecide(a)

PspSpec == PspInit /\ [][PspNext]_pspVars

=============================================================================

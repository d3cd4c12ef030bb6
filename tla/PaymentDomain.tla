--------------------------- MODULE PaymentDomain ----------------------------
(***************************************************************************)
(* The sets the payment modules range over, for one business.              *)
(*                                                                         *)
(* A Request is one HTTP POST /v1/invoices/{id}/pay: a client retry is     *)
(* another Request with the same key.  A request inserts at most one       *)
(* payment attempt, so the attempt is named after the request, and so is   *)
(* the charge at the PSP, whose idempotency key is the attempt id.         *)
(* A Worker is one attempt's place in a reconciler batch.                  *)
(***************************************************************************)
EXTENDS InvoiceState

CONSTANTS
    Request,      \* pay requests, and the attempts and charges they start
    Worker,       \* reconciler slots, over all processes
    Invoice,      \* invoices of the business
    NoInvoice,    \* an id that names no invoice of the business
    Key,          \* Idempotency-Key header values
    Token,        \* card tokens
    None          \* SQL NULL

ASSUME ActorsAreDistinct == Request \cap Worker = {}
ASSUME NoneIsNobody == None \notin Request \cup Worker
ASSUME NoInvoiceIsNoInvoice == NoInvoice \notin Invoice

Actor == Request \cup Worker
InvoiceId == Invoice \cup {NoInvoice}

(* What the client sent: header, path and body of one pay request. *)
PayInput == [key: Key, inv: InvoiceId, token: Token]

(* RequestFingerprint::for_payment hashes the invoice id and the token. *)
Fingerprint == [inv: InvoiceId, token: Token]

=============================================================================

---------------------------- MODULE InvoiceState ----------------------------
(***************************************************************************)
(* The invoice state machine of invoices/state.rs.  A transition has one   *)
(* legal source and one target, which is what lets the service enforce it  *)
(* by a compare-and-set on the status column.                              *)
(*                                                                         *)
(* "absent" stands for an id under which the business has no invoice: the  *)
(* SELECT that explains a rejection then finds no row.                     *)
(***************************************************************************)

InvoiceStatus == {"open", "processing", "paid", "void"}

InvoiceTransition ==
    {"begin_payment", "payment_succeeded", "payment_failed", "void"}

Terminal == {"paid", "void"}

From(t) == IF t \in {"begin_payment", "void"} THEN "open" ELSE "processing"

To(t) == CASE t = "begin_payment"     -> "processing"
           [] t = "payment_succeeded" -> "paid"
           [] t = "payment_failed"    -> "open"
           [] t = "void"              -> "void"

=============================================================================

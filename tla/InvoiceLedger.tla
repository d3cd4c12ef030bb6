---------------------------- MODULE InvoiceLedger ---------------------------
(***************************************************************************)
(* What the payment flow promises, with no request, key, lock, lease or    *)
(* retry in it: an invoice's status and the money actually taken for it.   *)
(* Money moves only while the invoice is processing, at most once, and     *)
(* the invoice leaves that state as paid exactly when it has been taken.   *)
(***************************************************************************)
CONSTANTS Invoice, Charge

VARIABLES status,   \* status[i]
          taken     \* taken[i]: the charges that took money for i

ledgerVars == <<status, taken>>

Move(i, from, to) == /\ status[i] = from
                     /\ status' = [status EXCEPT ![i] = to]
                     /\ UNCHANGED taken

Issue(i)   == Move(i, "absent", "open")
Cancel(i)  == Move(i, "open", "void")
Begin(i)   == Move(i, "open", "processing")
Collect(i) == taken[i] # {} /\ Move(i, "processing", "paid")
Decline(i) == taken[i] = {} /\ Move(i, "processing", "open")

Take(i, c) == /\ status[i] = "processing"
              /\ taken[i] = {}
              /\ taken' = [taken EXCEPT ![i] = {c}]
              /\ UNCHANGED status

LedgerInit == /\ status = [i \in Invoice |-> "absent"]
              /\ taken = [i \in Invoice |-> {}]

LedgerNext == \E i \in Invoice :
                 \/ Issue(i) \/ Cancel(i) \/ Begin(i) \/ Collect(i) \/ Decline(i)
                 \/ \E c \in Charge : Take(i, c)

LedgerSpec == LedgerInit /\ [][LedgerNext]_ledgerVars

=============================================================================

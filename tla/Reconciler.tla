----------------------------- MODULE Reconciler -----------------------------
(***************************************************************************)
(* The reconciler (reconciler.rs): claims attempts that are due, looks     *)
(* each up at the PSP, and settles or reschedules it.  Any number of       *)
(* workers run, in this process and in others.                             *)
(*                                                                         *)
(* Time is abstract.  BecomesDue is reconcile_after passing, whoever set   *)
(* it: the claim of the invoice, a lease that runs out while its worker is *)
(* still busy or is dead, or the backoff.  GraceElapses is created_at      *)
(* falling psp_not_found_grace behind; it assumes what config.rs asks for, *)
(* a grace window that outlasts any charge request that could still arrive.*)
(***************************************************************************)
EXTENDS PayRequest

(* The charge for a is not sent yet, or still on the wire. *)
MayStillReach(a) == post[a] = "flying" \/ pc[a] = "charge"

BecomesDue(a) ==
    /\ attempt[a] = "pending" /\ a \notin due
    /\ due' = due \cup {a}
    /\ UNCHANGED <<status, log, attempt, aged, idem, lockVars, actorVars, pspVars>>

GraceElapses(a) ==
    /\ attempt[a] = "pending" /\ a \notin aged
    /\ ~MayStillReach(a)
    /\ aged' = aged \cup {a}
    /\ UNCHANGED <<status, log, attempt, due, idem, lockVars, actorVars, pspVars>>

(* claim_due: FOR UPDATE SKIP LOCKED, and a lease, in one statement. *)
ClaimDue(w, a) ==
    /\ pc[w] = "idle"
    /\ attempt[a] = "pending" /\ a \in due /\ attLock[a] = None
    /\ due' = due \ {a}
    /\ att' = [att EXCEPT ![w] = a]
    /\ told' = [told EXCEPT ![w] = IF a \in aged THEN "overdue" ELSE "pending"]
    /\ Goto(w, "lookup")
    /\ UNCHANGED <<status, log, attempt, aged, idem, lockVars, ask, reply, pspVars>>

LookupSettled(w) ==
    /\ pc[w] = "lookup"
    /\ Definitive(psp[att[w]])
    /\ told' = [told EXCEPT ![w] = psp[att[w]]]
    /\ Goto(w, "settle")
    /\ UNCHANGED <<bookVars, lockVars, ask, att, reply, pspVars>>

(* Seeded fault: a lookup without a record fails the attempt at once. *)
FaultFailsAtOnce(w) == psp[att[w]] = "none"

(* Seeded fault: a lookup without a record is always tried again. *)
FaultNeverGivesUp(w) == FALSE

NeverReachedPsp(w) == psp[att[w]] = "none" /\ told[w] = "overdue"

(* psp_no_record: no charge after the grace window, so there will be none. *)
LookupNoRecord(w) ==
    /\ pc[w] = "lookup"
    /\ NeverReachedPsp(w)
    /\ told' = [told EXCEPT ![w] = "failed"]
    /\ Goto(w, "settle")
    /\ UNCHANGED <<bookVars, lockVars, ask, att, reply, pspVars>>

(* Not found within the window, still processing, or no usable answer. *)
LookupInconclusive(w) ==
    /\ pc[w] = "lookup"
    /\ Goto(w, "reschedule")
    /\ UNCHANGED <<bookVars, lockVars, ask, att, told, reply, pspVars>>

(* The UPDATE waits for a settling transaction and then matches nothing. *)
Reschedule(w) ==
    /\ pc[w] = "reschedule"
    /\ attempt[att[w]] = "pending" => attLock[att[w]] = None
    /\ due' = due \ {att[w]}
    /\ End(w, "idle")
    /\ UNCHANGED <<status, log, attempt, aged, idem, lockVars, ask, reply, pspVars>>

(* A crash, a restart, or a failed statement: the lease brings it back. *)
Crash(w) ==
    /\ pc[w] # "idle"
    /\ Rollback(w, "idle")
    /\ UNCHANGED pspVars

Lookup(w) == LookupSettled(w) \/ LookupNoRecord(w)

Work(w) == \/ \E a \in Request : ClaimDue(w, a)
           \/ Lookup(w) \/ LookupInconclusive(w)
           \/ Reschedule(w) \/ Settle(w)

=============================================================================

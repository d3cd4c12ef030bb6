--------------------------- MODULE ReconcileClock ---------------------------
(***************************************************************************)
(* The clock behind a payment attempt: the grace window, the lease, the    *)
(* backoff and the timeouts that Payments has as facts that come true.     *)
(*                                                                         *)
(* One attempt.  created_at is now() of the claim transaction; its handler *)
(* sends the charge some time after and gives up psp_timeout later; the    *)
(* workers of any number of replicas look it up when reconcile_after says  *)
(* so, each time with the PSP's answer at that moment.                     *)
(***************************************************************************)
EXTENDS MockPsp, Sequences

CONSTANTS Worker,      \* reconciler slots, over all replicas
          Timeout,     \* psp_timeout
          Grace,       \* psp_not_found_grace
          Lease,       \* LEASE
          MaxBackoff,  \* MAX_BACKOFF
          Doublings,   \* 1 << exponent, for exponents 0 to 6 in the code
          SendLag,     \* longest time from created_at to the request being sent
          WorkTime,    \* longest time from claim_due to the end of its pass
          Pickup,      \* longest time a due attempt waits for a worker
          Horizon      \* bound on the clock

(* What Config::validate enforces. *)
ASSUME ConfigIsValid == /\ Timeout \in Nat \ {0} /\ Grace \in Nat /\ Lease \in Nat
                        /\ Grace > Timeout
                        /\ Timeout < Lease
ASSUME BoundsAreNat == /\ MaxBackoff \in Nat \ {0}
                       /\ Doublings \in Seq(Nat \ {0}) /\ Len(Doublings) > 0
                       /\ SendLag \in Nat /\ WorkTime \in Nat /\ Pickup \in Nat
                       /\ Horizon \in Nat

VARIABLES attempt,  \* pending, or how it was settled
          dueAt,    \* reconcile_after
          checks,   \* reconcile_count
          handler,  \* the pay request: claimed, waiting, settling or gone
          sentAt,   \* when it sent the charge
          slot,     \* slot[w]: the pass of worker w
          trouble   \* history: when a worker last failed although it could know

attemptVars == <<attempt, dueAt, checks>>
vars == <<now, chargeVars, attemptVars, handler, sentAt, slot, trouble>>

Settlement == Outcome \cup {"no_record"}

Idle == [stage |-> "idle", since |-> 0, past |-> FALSE, checks |-> 0, told |-> "none"]

Slot == [stage: {"idle", "lookup", "settle", "reschedule"}, since: Nat,
         past: BOOLEAN, checks: Nat, told: Settlement \cup {"none"}]

TypeOK == /\ now \in 0..Horizon
          /\ wire \in {"unsent", "flying", "received", "lost"}
          /\ charge \in Charge \cup {NoCharge}
          /\ attempt \in Settlement \cup {"pending"}
          /\ dueAt \in Nat /\ checks \in Nat /\ sentAt \in Nat /\ trouble \in Nat
          /\ handler \in {"claimed", "waiting", "settle", "gone"}
          /\ slot \in [Worker -> Slot]

Busy(w) == slot[w].stage # "idle"

(* first_reconcile_in: just after the request path would have given up. *)
FirstLook == Timeout + 1

Init == /\ now = 0 /\ wire = "unsent" /\ charge = NoCharge
        /\ attempt = "pending" /\ dueAt = FirstLook /\ checks = 0
        /\ handler = "claimed" /\ sentAt = 0
        /\ slot = [w \in Worker |-> Idle] /\ trouble = 0

-----------------------------------------------------------------------------
(* The request *)

(* Nothing in the code bounds the time from the claim's now() to here. *)
SendCharge ==
    /\ handler = "claimed" /\ now <= SendLag
    /\ handler' = "waiting" /\ sentAt' = now
    /\ wire' = "flying"
    /\ UNCHANGED <<now, charge, attemptVars, slot, trouble>>

(* The network: a request is on its way no longer than its caller waits. *)
Network ==
    /\ (now <= sentAt + Timeout /\ CreateCharge) \/ Vanish
    /\ UNCHANGED <<now, attemptVars, handler, sentAt, slot, trouble>>

ChargeSettled ==
    /\ handler = "waiting" /\ now <= sentAt + Timeout
    /\ wire = "received" /\ Answer \in Outcome
    /\ handler' = "settle"
    /\ UNCHANGED <<now, chargeVars, attemptVars, sentAt, slot, trouble>>

(* The UPDATE of settle_attempt. *)
SettleAs(how) == attempt' = IF attempt = "pending" THEN how ELSE attempt

HandlerSettles ==
    /\ handler = "settle"
    /\ SettleAs(charge.outcome)
    /\ handler' = "gone"
    /\ UNCHANGED <<now, chargeVars, dueAt, checks, sentAt, slot, trouble>>

(* The call times out or is of no use, or the handler is cut off. *)
HandlerGone ==
    /\ handler # "gone"
    /\ handler' = "gone"
    /\ UNCHANGED <<now, chargeVars, attemptVars, sentAt, slot, trouble>>

-----------------------------------------------------------------------------
(* The reconciler *)

(* Seeded fault: the window is measured to its edge, not past it. *)
FaultPastGrace == now + 1 >= Grace

PastGrace == now > Grace

(* Seeded fault: the lease covers the call and nothing else. *)
FaultLeaseUntil == now + Timeout

LeaseUntil == now + Lease

ClaimDue(w) ==
    /\ ~Busy(w)
    /\ attempt = "pending" /\ dueAt <= now
    /\ dueAt' = LeaseUntil
    /\ checks' = checks + 1
    /\ slot' = [slot EXCEPT ![w] = [stage |-> "lookup", since |-> now, past |-> PastGrace,
                                    checks |-> checks + 1, told |-> "none"]]
    /\ UNCHANGED <<now, chargeVars, attempt, handler, sentAt, trouble>>

Conclude(w, how) ==
    /\ slot' = [slot EXCEPT ![w].stage = "settle", ![w].told = how]
    /\ UNCHANGED <<now, chargeVars, attemptVars, handler, sentAt, trouble>>

LookupSettled(w) == /\ slot[w].stage = "lookup"
                    /\ Answer \in Outcome
                    /\ Conclude(w, Answer)

(* No charge, and past the window when the pass began: psp_no_record. *)
LookupNoRecord(w) == /\ slot[w].stage = "lookup"
                     /\ Answer = "none" /\ slot[w].past
                     /\ Conclude(w, "no_record")

(* Not found within the window, still processing; or no usable answer,     *)
(* which is trouble if there was an outcome to be had.                     *)
LookupInconclusive(w) ==
    /\ slot[w].stage = "lookup"
    /\ slot' = [slot EXCEPT ![w].stage = "reschedule"]
    /\ trouble' = IF Answer \in Outcome THEN now ELSE trouble
    /\ UNCHANGED <<now, chargeVars, attemptVars, handler, sentAt>>

WorkerSettles(w) ==
    /\ slot[w].stage = "settle"
    /\ SettleAs(slot[w].told)
    /\ slot' = [slot EXCEPT ![w] = Idle]
    /\ UNCHANGED <<now, chargeVars, dueAt, checks, handler, sentAt, trouble>>

(* Seeded fault: the delay doubles without the cap. *)
FaultBackoff(n) == Doublings[IF n < Len(Doublings) THEN n ELSE Len(Doublings)]

(* The delay after the n-th check; counts go on past the last doubling. *)
Backoff(n) == LET delay == Doublings[IF n < Len(Doublings) THEN n ELSE Len(Doublings)]
              IN  IF delay < MaxBackoff THEN delay ELSE MaxBackoff

(* Whoever has the lease by now: the UPDATE does not ask. *)
Reschedule(w) ==
    /\ slot[w].stage = "reschedule"
    /\ dueAt' = IF attempt = "pending" THEN now + Backoff(slot[w].checks) ELSE dueAt
    /\ slot' = [slot EXCEPT ![w] = Idle]
    /\ UNCHANGED <<now, chargeVars, attempt, checks, handler, sentAt, trouble>>

(* A crash, or a statement that fails: the lease brings the attempt back. *)
WorkerDies(w) ==
    /\ Busy(w)
    /\ slot' = [slot EXCEPT ![w] = Idle]
    /\ trouble' = now
    /\ UNCHANGED <<now, chargeVars, attemptVars, handler, sentAt>>

-----------------------------------------------------------------------------
(* Time passes as far as those whose time is bounded let it: a pass takes  *)
(* WorkTime at most, and a due attempt waits Pickup at most.               *)
Tick ==
    /\ now < Horizon
    /\ \A w \in Worker : Busy(w) => now < slot[w].since + WorkTime
    /\ attempt = "pending" => now < dueAt + Pickup
    /\ now' = now + 1
    /\ UNCHANGED <<chargeVars, attemptVars, handler, sentAt, slot, trouble>>

Next == \/ Tick
        \/ SendCharge \/ Network \/ ChargeSettled \/ HandlerSettles \/ HandlerGone
        \/ \E w \in Worker : \/ ClaimDue(w)
                             \/ LookupSettled(w) \/ LookupNoRecord(w) \/ LookupInconclusive(w)
                             \/ WorkerSettles(w) \/ Reschedule(w) \/ WorkerDies(w)

Spec == Init /\ [][Next]_vars

-----------------------------------------------------------------------------
(* Properties *)

(* An attempt that is failed as psp_no_record is never charged, neither    *)
(* before nor after (reconciler.rs: nothing was charged; the invoice is    *)
(* open for another attempt from then on).                                 *)
NoRecordMeansNoCharge == attempt = "no_record" => charge = NoCharge

(* While a worker has the attempt no other worker picks it up, so that its *)
(* reschedule moves nobody's lease but its own (reconciler.rs, LEASE).     *)
OneWorkerAtATime == \A w, x \in Worker : Busy(w) /\ Busy(x) => w = x

(* The longest pause between two looks at a pending attempt. *)
Later(s, t) == IF s < t THEN t ELSE s
LongestPause == Later(FirstLook, Later(Lease, MaxBackoff))

(* What the PSP has decided is settled after one pause and the passes on   *)
(* either side of it, counted from the decision or from the last time a    *)
(* worker failed: the backoff never outgrows its cap (reconciler.rs,       *)
(* backoff).                                                               *)
SettledInTime ==
    attempt = "pending" /\ Answer \in Outcome =>
        now <= Later(charge.settlesAt, trouble) + WorkTime + LongestPause + Pickup + WorkTime

(* The attempt is settled by the outcome that the PSP has, and one a       *)
(* repeated request cannot change (psp.rs: re-sending never charges twice).*)
SettledAsDecided == attempt \in Outcome => charge.outcome = attempt /\ charge.settlesAt <= now

(***************************************************************************)
(* The inductive invariant.  TooLate is what a worker knows once a lookup  *)
(* past the window found no record: the request is sent, or arrives, no    *)
(* more.  It needs a window that covers the send lag and the timeout; the  *)
(* lease and the pauses need a lease that outlasts a pass.                 *)
(***************************************************************************)
TooLate == /\ charge = NoCharge
           /\ \/ wire = "lost"
              \/ wire = "unsent" /\ (handler # "claimed" \/ now > SendLag)
              \/ wire = "flying" /\ now > sentAt + Timeout

Decided == attempt = "pending" /\ Answer \in Outcome

(* Nothing has stood in the way since. *)
Clear == Later(charge.settlesAt, trouble)

ChargeInv ==
    /\ sentAt <= SendLag /\ trouble <= now
    /\ (wire = "received") = (charge # NoCharge)
    /\ handler = "claimed" => wire = "unsent"
    /\ handler = "settle" => Answer \in Outcome
    /\ \A w \in Worker : Busy(w) => slot[w].checks > 0
    /\ \A w \in Worker : slot[w].stage = "settle" =>
          slot[w].told = "no_record" \/ (slot[w].told = Answer /\ Answer \in Outcome)
    /\ SettledAsDecided

WindowInv ==
    /\ \A w \in Worker : slot[w].past => now > Grace
    /\ \A w \in Worker : slot[w].told = "no_record" => TooLate
    /\ attempt = "no_record" => TooLate

LeaseInv ==
    /\ \A w \in Worker : Busy(w) =>
          /\ slot[w].since <= now /\ now <= slot[w].since + WorkTime
          /\ attempt = "pending" => dueAt = slot[w].since + Lease
    /\ OneWorkerAtATime

PauseInv ==
    /\ attempt = "pending" => now <= dueAt + Pickup
    /\ attempt = "pending" /\ (\A w \in Worker : ~Busy(w)) => dueAt <= now + LongestPause
    /\ Decided =>
          /\ (\A w \in Worker : ~Busy(w)) => dueAt <= Clear + WorkTime + LongestPause
          /\ \A w \in Worker : slot[w].stage \in {"lookup", "settle"} =>
                slot[w].since <= Clear + WorkTime + LongestPause + Pickup
          /\ \A w \in Worker : slot[w].stage = "reschedule" => slot[w].since <= Clear

IInv == /\ TypeOK /\ ChargeInv
        /\ SendLag + Timeout <= Grace => WindowInv
        /\ WorkTime < Lease => LeaseInv /\ PauseInv

-----------------------------------------------------------------------------
(* The timed PSP is the Psp that the payment flow runs against: a decision *)
(* is the moment from which it is told.                                    *)
Untimed == INSTANCE Psp WITH
    Request <- {"a"}, Worker <- {}, Invoice <- {"i"}, NoInvoice <- "none",
    Key <- {"k"}, Token <- {"tok"}, None <- "null",
    psp <- [a \in {"a"} |-> Answer], post <- [a \in {"a"} |-> wire]

ImplementsPsp == Untimed!PspSpec

=============================================================================

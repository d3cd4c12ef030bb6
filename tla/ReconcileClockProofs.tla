------------------------ MODULE ReconcileClockProofs ------------------------
(***************************************************************************)
(* What the durations have to be for the reconciler to be right, at any    *)
(* scale of the clock: the grace window covers the time to send a charge   *)
(* and the timeout, the lease outlasts a worker's pass.  Then an attempt   *)
(* failed as psp_no_record is never charged, one worker at a time has an   *)
(* attempt, and what the PSP has decided is settled within a fixed time.   *)
(***************************************************************************)
EXTENDS ReconcileClock, TLAPS

(* The delay is a duration, and never above the cap. *)
LEMMA BackoffIsCapped ==
  ASSUME NEW n \in Nat \ {0}
  PROVE  Backoff(n) \in Nat /\ Backoff(n) <= MaxBackoff
  <1> DEFINE i == IF n < Len(Doublings) THEN n ELSE Len(Doublings)
  <1>1. i \in 1..Len(Doublings)
    BY BoundsAreNat
  <1>2. Doublings[i] \in Nat \ {0}
    BY <1>1, BoundsAreNat
  <1> QED BY <1>2, BoundsAreNat DEF Backoff

(* No pause between two looks is longer than the longest one. *)
LEMMA PauseCoversAll ==
  /\ LongestPause \in Nat
  /\ FirstLook \in Nat /\ FirstLook <= LongestPause
  /\ Lease <= LongestPause /\ MaxBackoff <= LongestPause
  BY ConfigIsValid, BoundsAreNat DEF LongestPause, Later, FirstLook

(* What a recorded charge looks like, and what it answers. *)
LEMMA AnswerOfCharge ==
  ASSUME charge \in Charge \cup {NoCharge}
  PROVE  /\ charge = NoCharge <=> Answer = "none"
         /\ Answer \in Outcome => /\ charge # NoCharge /\ charge \in Charge
                                  /\ Answer = charge.outcome
                                  /\ ~(now < charge.settlesAt)
         /\ charge # NoCharge /\ ~(now < charge.settlesAt) => Answer \in Outcome
  BY DEF Charge, NoCharge, Answer, Outcome

(* Inserting keeps the first charge, and makes one that decides later. *)
LEMMA InsertKeeps ==
  ASSUME now \in Nat, charge \in Charge \cup {NoCharge}, CreateCharge
  PROVE  /\ charge' \in Charge /\ charge' # NoCharge
         /\ charge # NoCharge => charge' = charge
         /\ charge = NoCharge => now < charge'.settlesAt
  BY DelaysTakeTime DEF CreateCharge, Insert, Charge, NoCharge, Outcome

-----------------------------------------------------------------------------
(* Every step of one worker, by name. *)
WorkerStep(w) == \/ ClaimDue(w)
                 \/ LookupSettled(w) \/ LookupNoRecord(w) \/ LookupInconclusive(w)
                 \/ WorkerSettles(w) \/ Reschedule(w) \/ WorkerDies(w)

(* What a lookup makes of a slot is a slot. *)
LEMMA SlotsAreTyped ==
  ASSUME slot \in [Worker -> Slot], NEW w \in Worker, NEW told \in Settlement
  PROVE  /\ [slot EXCEPT ![w].stage = "settle", ![w].told = told] \in [Worker -> Slot]
         /\ [slot EXCEPT ![w].stage = "reschedule"] \in [Worker -> Slot]
  <1>1. [slot EXCEPT ![w].stage = "settle", ![w].told = told] \in [Worker -> Slot]
    BY ZenonT(30) DEF Slot
  <1>2. [slot EXCEPT ![w].stage = "reschedule"] \in [Worker -> Slot]
    BY ZenonT(30) DEF Slot
  <1> QED BY <1>1, <1>2

LEMMA InitIsTyped == Init => TypeOK
  BY ConfigIsValid, BoundsAreNat DEF Init, TypeOK, FirstLook, Idle, Slot, Settlement, Charge

LEMMA StepIsTyped == TypeOK /\ ChargeInv /\ [Next]_vars => TypeOK'
  <1> SUFFICES ASSUME TypeOK, ChargeInv, [Next]_vars PROVE TypeOK'
    OBVIOUS
  <1> USE ConfigIsValid, BoundsAreNat
  <1>1. CASE Tick
    BY <1>1 DEF Tick, TypeOK, chargeVars, attemptVars
  <1>2. CASE SendCharge
    BY <1>2 DEF SendCharge, TypeOK, attemptVars
  <1>3. CASE Network
    <2>1. charge' \in Charge \cup {NoCharge} /\ wire' \in {"received", "lost"}
      <3>1. CASE CreateCharge
        BY <3>1, InsertKeeps DEF TypeOK, CreateCharge
      <3>2. CASE Vanish
        BY <3>2 DEF TypeOK, Vanish
      <3> QED BY <1>3, <3>1, <3>2 DEF Network
    <2> QED BY <1>3, <2>1 DEF Network, TypeOK, attemptVars
  <1>4. CASE ChargeSettled
    BY <1>4 DEF ChargeSettled, TypeOK, chargeVars, attemptVars
  <1>5. CASE HandlerSettles
    <2>1. charge.outcome \in Settlement
      BY <1>5, AnswerOfCharge DEF HandlerSettles, TypeOK, ChargeInv, Settlement
    <2> QED BY <1>5, <2>1 DEF HandlerSettles, SettleAs, TypeOK, chargeVars
  <1>6. CASE HandlerGone
    BY <1>6 DEF HandlerGone, TypeOK, chargeVars, attemptVars
  <1>7. ASSUME NEW w \in Worker, WorkerStep(w) PROVE TypeOK'
    <2>1. CASE ClaimDue(w)
      BY <2>1 DEF ClaimDue, LeaseUntil, PastGrace, TypeOK, Slot, chargeVars
    <2>3. CASE LookupSettled(w)
      <3>1. Answer \in Settlement
        BY <2>3 DEF LookupSettled, Settlement
      <3> QED BY <2>3, <3>1, SlotsAreTyped DEF LookupSettled, Conclude, TypeOK, chargeVars, attemptVars
    <2>4. CASE LookupNoRecord(w)
      <3>1. "no_record" \in Settlement
        BY DEF Settlement
      <3> QED BY <2>4, <3>1, SlotsAreTyped DEF LookupNoRecord, Conclude, TypeOK, chargeVars, attemptVars
    <2>5. CASE LookupInconclusive(w)
      <3>1. trouble' \in Nat
        BY <2>5 DEF LookupInconclusive, TypeOK
      <3>2. slot' \in [Worker -> Slot]
        BY <2>5, SlotsAreTyped DEF LookupInconclusive, TypeOK, Settlement
      <3> QED BY <2>5, <3>1, <3>2 DEF LookupInconclusive, TypeOK, chargeVars, attemptVars
    <2>6. CASE WorkerSettles(w)
      <3>1. slot[w].told \in Settlement
        BY <2>6 DEF WorkerSettles, TypeOK, ChargeInv, Settlement
      <3> QED BY <2>6, <3>1 DEF WorkerSettles, SettleAs, TypeOK, Slot, Idle, chargeVars
    <2>7. CASE Reschedule(w)
      <3>1. Backoff(slot[w].checks) \in Nat
        BY <2>7, BackoffIsCapped DEF Reschedule, TypeOK, Slot, ChargeInv, Busy
      <3>2. slot' \in [Worker -> Slot]
        BY <2>7 DEF Reschedule, TypeOK, Slot, Idle
      <3> QED BY <2>7, <3>1, <3>2 DEF Reschedule, TypeOK, chargeVars
    <2>8. CASE WorkerDies(w)
      BY <2>8 DEF WorkerDies, TypeOK, Slot, Idle, chargeVars, attemptVars
    <2> QED BY <1>7, <2>1, <2>3, <2>4, <2>5, <2>6, <2>7, <2>8 DEF WorkerStep
  <1>8. CASE UNCHANGED vars
    BY <1>8 DEF vars, TypeOK, chargeVars, attemptVars
  <1> QED BY <1>1, <1>2, <1>3, <1>4, <1>5, <1>6, <1>7, <1>8 DEF Next, WorkerStep

-----------------------------------------------------------------------------
(* What is told of a charge, and kept, is what the PSP has. *)
LEMMA InitIsCharged == Init => ChargeInv
  BY ConfigIsValid, BoundsAreNat
     DEF Init, ChargeInv, Busy, Idle, SettledAsDecided, NoCharge, Outcome

(* An answer with an outcome stays: the entry does not change, and time    *)
(* only goes on.                                                           *)
LEMMA AnswerStays ==
  ASSUME TypeOK, [Next]_vars, Answer \in Outcome
  PROVE  Answer' = Answer /\ charge' = charge /\ now <= now'
  <1> charge \in Charge /\ charge # NoCharge /\ ~(now < charge.settlesAt)
    BY AnswerOfCharge DEF TypeOK
  <1>1. charge' = charge
    <2>1. CASE Network
      BY <2>1, InsertKeeps DEF Network, Vanish, TypeOK
    <2>2. CASE UNCHANGED charge
      BY <2>2
    <2> QED BY <2>1, <2>2 DEF Next, vars, chargeVars, Tick, SendCharge, ChargeSettled, HandlerSettles,
                        HandlerGone, ClaimDue, LookupSettled, LookupNoRecord, Conclude,
                        LookupInconclusive, WorkerSettles, Reschedule, WorkerDies
  <1>2. now' \in Nat /\ now <= now'
    <2>1. CASE Tick
      BY <2>1 DEF Tick, TypeOK
    <2>2. CASE UNCHANGED now
      BY <2>2 DEF TypeOK
    <2> QED BY <2>1, <2>2 DEF Next, vars, SendCharge, Network, ChargeSettled, HandlerSettles,
                        HandlerGone, ClaimDue, LookupSettled, LookupNoRecord, Conclude,
                        LookupInconclusive, WorkerSettles, Reschedule, WorkerDies
  <1>3. charge.settlesAt \in Nat /\ now \in Nat
    BY DEF Charge, TypeOK
  <1> QED BY <1>1, <1>2, <1>3 DEF Answer

LEMMA StepIsCharged == TypeOK /\ ChargeInv /\ [Next]_vars => ChargeInv'
  <1> SUFFICES ASSUME TypeOK, ChargeInv, [Next]_vars PROVE ChargeInv'
    OBVIOUS
  <1> USE ConfigIsValid, BoundsAreNat, AnswerOfCharge
  <1>a. Answer \in Outcome => Answer' = Answer /\ charge' = charge /\ now <= now'
    BY AnswerStays
  <1>1. CASE Tick
    <2>1. /\ trouble' <= now' /\ sentAt' <= SendLag
          /\ attempt' \in Outcome => charge'.settlesAt <= now'
      <3>1. attempt \in Outcome => charge.settlesAt \in Nat
        BY DEF ChargeInv, SettledAsDecided, TypeOK, Charge, NoCharge
      <3> QED BY <1>1, <3>1 DEF Tick, TypeOK, ChargeInv, SettledAsDecided, chargeVars, attemptVars
    <2> QED BY <1>1, <1>a, <2>1 DEF Tick, ChargeInv, Busy, SettledAsDecided, chargeVars, attemptVars
  <1>2. CASE SendCharge
    BY <1>2, <1>a DEF SendCharge, TypeOK, ChargeInv, Busy, SettledAsDecided, attemptVars
  <1>3. CASE Network
    <2>1. (wire' = "received") = (charge' # NoCharge) /\ wire # "unsent" /\ wire' # "unsent"
      <3>1. CASE CreateCharge
        BY <3>1, InsertKeeps DEF CreateCharge, TypeOK
      <3>2. CASE Vanish
        BY <3>2 DEF Vanish, ChargeInv
      <3> QED BY <1>3, <3>1, <3>2 DEF Network
    <2>2. handler # "claimed"
      BY <2>1 DEF ChargeInv
    <2>3. attempt \in Outcome => charge # NoCharge
      BY DEF ChargeInv, SettledAsDecided, NoCharge, Outcome
    <2>4. charge # NoCharge => charge' = charge
      <3>1. CASE CreateCharge
        BY <3>1, InsertKeeps DEF TypeOK
      <3>2. CASE Vanish
        BY <3>2 DEF Vanish
      <3> QED BY <1>3, <3>1, <3>2 DEF Network
    <2> QED BY <1>3, <1>a, <2>1, <2>2, <2>3, <2>4
            DEF Network, ChargeInv, Busy, SettledAsDecided, attemptVars
  <1>4. CASE ChargeSettled
    BY <1>4, <1>a DEF ChargeSettled, ChargeInv, Busy, SettledAsDecided, chargeVars, attemptVars
  <1>5. CASE HandlerSettles
    <2>1. charge.settlesAt <= now
      BY <1>5 DEF HandlerSettles, ChargeInv, Charge, TypeOK
    <2> QED BY <1>5, <1>a, <2>1
            DEF HandlerSettles, SettleAs, ChargeInv, Busy, SettledAsDecided, chargeVars
  <1>6. CASE HandlerGone
    BY <1>6, <1>a DEF HandlerGone, ChargeInv, Busy, SettledAsDecided, chargeVars, attemptVars
  <1>7. ASSUME NEW w \in Worker, WorkerStep(w) PROVE ChargeInv'
    <2>1. CASE ClaimDue(w)
      BY <2>1, <1>a DEF ClaimDue, ChargeInv, Busy, SettledAsDecided, TypeOK, chargeVars
    <2>2. CASE LookupSettled(w)
      <3>0. slot' = [slot EXCEPT ![w].stage = "settle", ![w].told = Answer]
        BY <2>2 DEF LookupSettled, Conclude
      <3>1. /\ Answer \in Outcome /\ slot[w].stage = "lookup"
            /\ UNCHANGED <<now, wire, charge, attempt, dueAt, checks, handler, sentAt, trouble>>
        BY <2>2 DEF LookupSettled, Conclude, chargeVars, attemptVars
      <3>2. /\ slot'[w].stage = "settle" /\ slot'[w].told = Answer
            /\ slot'[w].checks = slot[w].checks
            /\ \A x \in Worker \ {w} : slot'[x] = slot[x]
        BY <3>0 DEF TypeOK, Slot
      <3>3. \A x \in Worker : slot'[x].stage = "settle" =>
               slot'[x].told = "no_record" \/ (slot'[x].told = Answer /\ Answer \in Outcome)
        BY <3>1, <3>2 DEF ChargeInv
      <3>4. \A x \in Worker : Busy(x)' => slot'[x].checks > 0
        BY <3>1, <3>2 DEF ChargeInv, Busy
      <3>5. Answer' = Answer
        BY <3>1 DEF Answer
      <3> QED BY <3>1, <3>3, <3>4, <3>5 DEF ChargeInv, SettledAsDecided
    <2>3. CASE LookupNoRecord(w)
      BY <2>3, <1>a DEF LookupNoRecord, Conclude, ChargeInv, Busy, SettledAsDecided, TypeOK, Slot,
                        chargeVars, attemptVars
    <2>4. CASE LookupInconclusive(w)
      BY <2>4, <1>a DEF LookupInconclusive, ChargeInv, Busy, SettledAsDecided, TypeOK, Slot,
                        chargeVars, attemptVars
    <2>5. CASE WorkerSettles(w)
      <3>1. slot[w].told \in Outcome => charge.outcome = slot[w].told /\ charge.settlesAt <= now
        BY <2>5 DEF WorkerSettles, ChargeInv, Charge, TypeOK, Outcome
      <3> QED BY <2>5, <1>a, <3>1 DEF WorkerSettles, SettleAs, ChargeInv, Busy, SettledAsDecided,
                        TypeOK, Slot, Idle, chargeVars
    <2>6. CASE Reschedule(w)
      BY <2>6, <1>a DEF Reschedule, ChargeInv, Busy, SettledAsDecided, TypeOK, Slot, Idle, chargeVars
    <2>7. CASE WorkerDies(w)
      BY <2>7, <1>a DEF WorkerDies, ChargeInv, Busy, SettledAsDecided, TypeOK, Slot, Idle,
                        chargeVars, attemptVars
    <2> QED BY <1>7, <2>1, <2>2, <2>3, <2>4, <2>5, <2>6, <2>7 DEF WorkerStep
  <1>8. CASE UNCHANGED vars
    BY <1>8, <1>a DEF vars, ChargeInv, Busy, SettledAsDecided, chargeVars, attemptVars
  <1> QED BY <1>1, <1>2, <1>3, <1>4, <1>5, <1>6, <1>7, <1>8 DEF Next, WorkerStep

-----------------------------------------------------------------------------
(* The window: what is too late stays too late. *)
LEMMA TooLateStays ==
  ASSUME TypeOK, ChargeInv, [Next]_vars, TooLate
  PROVE  TooLate'
  <1> USE ConfigIsValid, BoundsAreNat
  <1>1. CASE Tick
    BY <1>1 DEF Tick, TooLate, TypeOK, chargeVars
  <1>2. CASE SendCharge
    BY <1>2 DEF SendCharge, TooLate, ChargeInv, TypeOK
  <1>3. CASE Network
    <2>1. ~CreateCharge \/ ~(now <= sentAt + Timeout)
      BY DEF CreateCharge, TooLate, ChargeInv, TypeOK
    <2> QED BY <1>3, <2>1 DEF Network, Vanish, TooLate
  <1>4. CASE /\ UNCHANGED <<now, chargeVars, sentAt>>
             /\ handler' = handler \/ handler' # "claimed"
    BY <1>4 DEF TooLate, chargeVars
  <1> QED BY <1>1, <1>2, <1>3, <1>4
          DEF Next, vars, ChargeSettled, HandlerSettles, HandlerGone, ClaimDue, LookupSettled,
              LookupNoRecord, Conclude, LookupInconclusive, WorkerSettles, Reschedule, WorkerDies,
              attemptVars

LEMMA InitIsInWindow == Init => WindowInv
  BY DEF Init, WindowInv, Idle

LEMMA StepKeepsWindow ==
  ASSUME SendLag + Timeout <= Grace
  PROVE  TypeOK /\ ChargeInv /\ WindowInv /\ [Next]_vars => WindowInv'
  <1> SUFFICES ASSUME TypeOK, ChargeInv, WindowInv, [Next]_vars PROVE WindowInv'
    OBVIOUS
  <1> USE ConfigIsValid, BoundsAreNat
  <1>a. TooLate => TooLate'
    BY TooLateStays
  <1>1. CASE Tick
    BY <1>1, <1>a DEF Tick, WindowInv, TypeOK, attemptVars
  <1>2. CASE SendCharge \/ Network \/ ChargeSettled \/ HandlerGone
    BY <1>2, <1>a DEF SendCharge, Network, ChargeSettled, HandlerGone, WindowInv, attemptVars
  <1>3. CASE HandlerSettles
    <2>1. charge.outcome # "no_record"
      BY <1>3, AnswerOfCharge DEF HandlerSettles, ChargeInv, TypeOK, Outcome
    <2> QED BY <1>3, <1>a, <2>1 DEF HandlerSettles, SettleAs, WindowInv
  <1>4. ASSUME NEW w \in Worker, WorkerStep(w) PROVE WindowInv'
    <2>1. CASE ClaimDue(w)
      BY <2>1, <1>a DEF ClaimDue, PastGrace, WindowInv, TypeOK
    <2>2. CASE LookupSettled(w)
      BY <2>2, <1>a DEF LookupSettled, Conclude, WindowInv, TypeOK, Slot, Outcome, attemptVars
    <2>3. CASE LookupNoRecord(w)
      <3>1. now > Grace
        BY <2>3 DEF LookupNoRecord, WindowInv
      <3>2. charge = NoCharge
        BY <2>3, AnswerOfCharge DEF LookupNoRecord, TypeOK
      <3>3. TooLate
        BY <3>1, <3>2 DEF TooLate, ChargeInv, TypeOK
      <3> QED BY <2>3, <1>a, <3>3 DEF LookupNoRecord, Conclude, WindowInv, TypeOK, Slot, attemptVars
    <2>4. CASE LookupInconclusive(w)
      BY <2>4, <1>a DEF LookupInconclusive, WindowInv, TypeOK, Slot, attemptVars
    <2>5. CASE WorkerSettles(w)
      BY <2>5, <1>a DEF WorkerSettles, SettleAs, WindowInv, TypeOK, Slot, Idle
    <2>6. CASE Reschedule(w)
      BY <2>6, <1>a DEF Reschedule, WindowInv, TypeOK, Slot, Idle
    <2>7. CASE WorkerDies(w)
      BY <2>7, <1>a DEF WorkerDies, WindowInv, TypeOK, Slot, Idle, attemptVars
    <2> QED BY <1>4, <2>1, <2>2, <2>3, <2>4, <2>5, <2>6, <2>7 DEF WorkerStep
  <1>5. CASE UNCHANGED vars
    BY <1>5, <1>a DEF vars, WindowInv, attemptVars
  <1> QED BY <1>1, <1>2, <1>3, <1>4, <1>5 DEF Next, WorkerStep

-----------------------------------------------------------------------------
(* A lookup that concludes leaves its slot otherwise as it was. *)
LEMMA ConcludeKeeps ==
  ASSUME TypeOK, NEW w \in Worker, LookupSettled(w) \/ LookupNoRecord(w)
  PROVE  /\ slot[w].stage = "lookup" /\ slot'[w].stage = "settle"
         /\ slot'[w].since = slot[w].since
         /\ \A x \in Worker \ {w} : slot'[x] = slot[x]
         /\ UNCHANGED <<now, attempt, dueAt, trouble>>
  <1>1. slot[w] \in Slot
    BY DEF TypeOK
  <1>2. PICK how \in Settlement : Conclude(w, how)
    BY DEF LookupSettled, LookupNoRecord, Settlement
  <1>3. slot'[w] = [slot[w] EXCEPT !.stage = "settle", !.told = how]
    BY <1>2 DEF Conclude, TypeOK
  <1>4. slot'[w].stage = "settle" /\ slot'[w].since = slot[w].since
    BY <1>1, <1>3 DEF Slot
  <1>5. \A x \in Worker \ {w} : slot'[x] = slot[x]
    BY <1>2 DEF Conclude, TypeOK
  <1> QED BY <1>2, <1>4, <1>5 DEF LookupSettled, LookupNoRecord, Conclude, attemptVars

(* The lease: it outlasts the pass, so nothing is due while one runs. *)
LEMMA InitIsLeased == Init => LeaseInv
  BY DEF Init, LeaseInv, OneWorkerAtATime, Busy, Idle

LEMMA StepKeepsLease ==
  ASSUME WorkTime < Lease
  PROVE  TypeOK /\ LeaseInv /\ [Next]_vars => LeaseInv'
  <1> SUFFICES ASSUME TypeOK, LeaseInv, [Next]_vars PROVE LeaseInv'
    OBVIOUS
  <1> USE ConfigIsValid, BoundsAreNat DEF LeaseInv, OneWorkerAtATime, Busy
  <1>1. CASE Tick
    BY <1>1 DEF Tick, TypeOK, Slot, attemptVars
  <1>2. CASE SendCharge \/ Network \/ ChargeSettled \/ HandlerGone
    BY <1>2 DEF SendCharge, Network, ChargeSettled, HandlerGone, attemptVars
  <1>3. CASE HandlerSettles
    BY <1>3 DEF HandlerSettles, SettleAs
  <1>4. ASSUME NEW w \in Worker, WorkerStep(w) PROVE LeaseInv'
    <2>1. CASE ClaimDue(w)
      <3>1. \A x \in Worker : ~Busy(x)
        BY <2>1 DEF ClaimDue, TypeOK, Slot
      <3> QED BY <2>1, <3>1 DEF ClaimDue, LeaseUntil, TypeOK
    <2>2. CASE LookupSettled(w) \/ LookupNoRecord(w)
      BY <2>2, ConcludeKeeps
    <2>3. CASE LookupInconclusive(w)
      <3>1. /\ slot[w].stage = "lookup" /\ slot'[w].stage = "reschedule"
            /\ slot'[w].since = slot[w].since
            /\ \A x \in Worker \ {w} : slot'[x] = slot[x]
        BY <2>3 DEF LookupInconclusive, TypeOK, Slot
      <3>2. UNCHANGED <<now, attempt, dueAt>>
        BY <2>3 DEF LookupInconclusive, attemptVars
      <3> QED BY <3>1, <3>2, SMTT(30)
    <2>4. CASE WorkerSettles(w)
      BY <2>4, SMTT(30) DEF WorkerSettles, SettleAs, TypeOK, Slot, Idle
    <2>5. CASE Reschedule(w)
      BY <2>5 DEF Reschedule, TypeOK, Slot, Idle
    <2>6. CASE WorkerDies(w)
      BY <2>6 DEF WorkerDies, TypeOK, Slot, Idle, attemptVars
    <2> QED BY <1>4, <2>1, <2>2, <2>3, <2>4, <2>5, <2>6 DEF WorkerStep
  <1>5. CASE UNCHANGED vars
    BY <1>5 DEF vars, attemptVars
  <1> QED BY <1>1, <1>2, <1>3, <1>4, <1>5 DEF Next, WorkerStep

-----------------------------------------------------------------------------
(* The pauses.  A decision becomes one by the passing of time alone. *)
LEMMA DecidedInTime ==
  ASSUME TypeOK, [Next]_vars, Decided', attempt = "pending"
  PROVE  /\ charge' = charge /\ charge \in Charge
         /\ ~Decided => Tick /\ now < charge.settlesAt /\ charge.settlesAt = now'
  <1> USE ConfigIsValid, BoundsAreNat
  <1>1. charge' \in Charge \cup {NoCharge} => /\ charge' # NoCharge
                                              /\ ~(now' < charge'.settlesAt)
    BY DEF Decided, Answer, NoCharge, Charge, Outcome
  <1>2. charge' = charge
    <2>1. CASE Network
      BY <1>1, <2>1, InsertKeeps DEF Network, Vanish, TypeOK
    <2>2. CASE UNCHANGED charge
      BY <2>2
    <2> QED BY <2>1, <2>2 DEF Next, vars, chargeVars, Tick, SendCharge, ChargeSettled, HandlerSettles,
                        HandlerGone, ClaimDue, LookupSettled, LookupNoRecord, Conclude,
                        LookupInconclusive, WorkerSettles, Reschedule, WorkerDies
  <1>3. charge \in Charge /\ charge # NoCharge
    BY <1>1, <1>2 DEF TypeOK
  <1>4. charge.settlesAt \in Nat /\ now \in Nat
    BY <1>3 DEF Charge, TypeOK
  <1>5. Tick \/ now' = now
    BY DEF Next, vars, SendCharge, Network, ChargeSettled, HandlerSettles,
           HandlerGone, ClaimDue, LookupSettled, LookupNoRecord, Conclude,
           LookupInconclusive, WorkerSettles, Reschedule, WorkerDies
  <1>6. ASSUME ~Decided PROVE Tick /\ now < charge.settlesAt /\ charge.settlesAt = now'
    <2>1. now < charge.settlesAt
      BY <1>3, <1>6, AnswerOfCharge DEF Decided, TypeOK
    <2>2. ~(now' < charge.settlesAt)
      BY <1>1, <1>2, <1>3
    <2> QED BY <1>4, <1>5, <2>1, <2>2 DEF Tick
  <1> QED BY <1>2, <1>3, <1>6

(* Arithmetic: a later start and a longer pause end later. *)
LEMMA LaterEnd ==
  ASSUME NEW d \in Nat, NEW s \in Nat, NEW t \in Nat, NEW m \in Nat, NEW l \in Nat,
         d <= s + l, s <= t
  PROVE  d <= t + m + l
  OBVIOUS

(* Arithmetic: a pause that begins within a pass ends one pause after it. *)
LEMMA PauseEnd ==
  ASSUME NEW n \in Nat, NEW b \in Nat, NEW s \in Nat, NEW c \in Nat,
         n <= s + WorkTime, s <= c, b <= MaxBackoff
  PROVE  n + b <= c + WorkTime + LongestPause
  BY PauseCoversAll, BoundsAreNat

LEMMA ClearIsTime ==
  ASSUME TypeOK, charge \in Charge
  PROVE  Clear \in Nat /\ charge.settlesAt <= Clear /\ trouble <= Clear
  BY DEF Clear, Later, TypeOK, Charge

LEMMA InitPauses == Init => PauseInv
  <1> SUFFICES ASSUME Init PROVE PauseInv
    OBVIOUS
  <1>1. ~Decided
    BY DEF Decided, Init, Answer, Outcome
  <1> QED BY <1>1, PauseCoversAll, BoundsAreNat DEF Init, PauseInv

LEMMA StepKeepsPauses ==
  ASSUME WorkTime < Lease
  PROVE  TypeOK /\ ChargeInv /\ LeaseInv /\ PauseInv /\ [Next]_vars => PauseInv'
  <1> SUFFICES ASSUME TypeOK, ChargeInv, LeaseInv, PauseInv, [Next]_vars PROVE PauseInv'
    OBVIOUS
  <1> USE ConfigIsValid, BoundsAreNat, PauseCoversAll
  <1>a. LongestPause' = LongestPause
    BY DEF LongestPause, Later, FirstLook
  <1>1. CASE Tick
    <2>1. /\ attempt' = "pending" => now' <= dueAt' + Pickup
          /\ attempt' = "pending" /\ (\A w \in Worker : ~Busy(w)') => dueAt' <= now' + LongestPause
      BY <1>1 DEF Tick, PauseInv, TypeOK, Busy, attemptVars
    <2>2. ASSUME Decided' PROVE Clear' \in Nat /\ (~Decided => now <= Clear') /\ (Decided => Clear' = Clear)
      <3>1. attempt = "pending"
        BY <1>1, <2>2 DEF Tick, Decided, attemptVars
      <3>2. charge' = charge /\ charge \in Charge /\ (~Decided => now < charge.settlesAt)
        BY <2>2, <3>1, DecidedInTime
      <3>3. Clear' = Clear
        BY <1>1, <3>2 DEF Tick, Clear
      <3>4. charge.settlesAt \in Nat /\ now \in Nat
        BY <3>2 DEF Charge, TypeOK
      <3> QED BY <3>2, <3>3, <3>4, ClearIsTime
    <2>3. ASSUME Decided', Decided PROVE PauseInv'
      BY <1>1, <1>a, <2>1, <2>2, <2>3 DEF Tick, PauseInv, TypeOK, Busy, attemptVars
    <2>4. ASSUME Decided', ~Decided PROVE PauseInv'
      <3>1. attempt = "pending"
        BY <1>1, <2>4 DEF Tick, Decided, attemptVars
      <3>2. \A w \in Worker : Busy(w) => slot[w].since \in Nat /\ slot[w].since <= now
        BY DEF LeaseInv, TypeOK, Slot
      <3>3. (\A w \in Worker : ~Busy(w)) => dueAt <= now + LongestPause
        BY <3>1 DEF PauseInv
      <3>4. \A w \in Worker : slot[w].stage \in {"lookup", "settle", "reschedule"} => Busy(w)
        BY DEF Busy
      <3>5. now \in Nat /\ dueAt \in Nat /\ dueAt' = dueAt /\ slot' = slot
        BY <1>1 DEF Tick, TypeOK, attemptVars
      <3>6. Clear' \in Nat /\ now <= Clear'
        BY <2>2, <2>4
      <3>7. (\A w \in Worker : ~Busy(w)) => dueAt <= Clear' + WorkTime + LongestPause
        <4> SUFFICES ASSUME \A w \in Worker : ~Busy(w)
                     PROVE  dueAt <= Clear' + WorkTime + LongestPause
          OBVIOUS
        <4>1. dueAt <= now + LongestPause
          BY <3>3
        <4> QED BY <3>5, <3>6, <4>1, LaterEnd
      <3>8. \A w \in Worker : Busy(w) => /\ slot[w].since <= Clear'
                                        /\ slot[w].since <= Clear' + WorkTime + LongestPause + Pickup
        <4> SUFFICES ASSUME NEW w \in Worker, Busy(w)
                     PROVE  /\ slot[w].since <= Clear'
                            /\ slot[w].since <= Clear' + WorkTime + LongestPause + Pickup
          OBVIOUS
        <4>1. slot[w].since \in Nat /\ slot[w].since <= now
          BY <3>2
        <4>2. slot[w].since <= Clear'
          BY <3>5, <3>6, <4>1
        <4>3. WorkTime \in Nat /\ LongestPause \in Nat /\ Pickup \in Nat
          OBVIOUS
        <4> QED BY ONLY <3>6, <4>1, <4>2, <4>3
      <3> QED BY <1>a, <2>1, <3>4, <3>5, <3>7, <3>8 DEF PauseInv, Busy
    <2>5. ASSUME ~Decided' PROVE PauseInv'
      BY <1>a, <2>1, <2>5 DEF PauseInv
    <2> QED BY <2>3, <2>4, <2>5
  <1>b. ASSUME attempt' = "pending", attempt = "pending", Decided', ~Tick
        PROVE  Decided /\ charge' = charge /\ charge \in Charge
    BY <1>b, DecidedInTime
  <1>2. CASE SendCharge \/ Network \/ ChargeSettled \/ HandlerGone \/ UNCHANGED vars
    <2>1. UNCHANGED <<now, attempt, dueAt, slot, trouble>>
      BY <1>2 DEF SendCharge, Network, ChargeSettled, HandlerGone, vars, attemptVars
    <2>2. Decided' /\ ~Tick => Decided /\ Clear' = Clear
      BY <1>b, <2>1 DEF Decided, Clear
    <2>3. ~Tick
      BY <2>1 DEF Tick, TypeOK
    <2> QED BY <1>a, <2>1, <2>2, <2>3 DEF PauseInv, Busy
  <1>3. CASE HandlerSettles
    <2>1. attempt' # "pending"
      BY <1>3, AnswerOfCharge DEF HandlerSettles, SettleAs, ChargeInv, TypeOK, Outcome
    <2> QED BY <2>1 DEF PauseInv, Decided
  <1>4. ASSUME NEW w \in Worker, WorkerStep(w) PROVE PauseInv'
    <2>a. now \in Nat /\ now' = now /\ UNCHANGED charge /\ ~Tick
      <3>1. now' = now /\ UNCHANGED charge
        BY <1>4 DEF WorkerStep, ClaimDue, LookupSettled, LookupNoRecord, Conclude,
                    LookupInconclusive, WorkerSettles, Reschedule, WorkerDies, chargeVars
      <3> QED BY <3>1 DEF Tick, TypeOK
    <2>b. slot[w] \in Slot /\ dueAt \in Nat /\ trouble \in Nat
      BY DEF TypeOK
    <2>1. CASE ClaimDue(w)
      <3>1. \A x \in Worker : ~Busy(x)
        BY <2>1 DEF ClaimDue, LeaseInv, Busy, TypeOK, Slot
      <3>2. now <= dueAt + Pickup /\ attempt = "pending" /\ dueAt' = now + Lease
        BY <2>1 DEF ClaimDue, LeaseUntil, PauseInv
      <3>3. slot'[w].stage = "lookup" /\ slot'[w].since = now
        BY <2>1 DEF ClaimDue, TypeOK
      <3>4. \A x \in Worker \ {w} : slot'[x] = slot[x]
        BY <2>1 DEF ClaimDue, TypeOK
      <3>5. ASSUME Decided' PROVE /\ Clear' = Clear /\ Clear \in Nat
                                  /\ now <= Clear + WorkTime + LongestPause + Pickup
        <4>1. attempt' = attempt
          BY <2>1 DEF ClaimDue
        <4>2. Decided /\ charge \in Charge /\ Clear' = Clear
          BY <1>b, <2>1, <2>a, <3>2, <3>5, <4>1 DEF ClaimDue, Clear
        <4>3. dueAt <= Clear + WorkTime + LongestPause /\ Clear \in Nat
          BY <3>1, <4>2, ClearIsTime DEF PauseInv
        <4> QED BY <2>a, <2>b, <3>2, <4>2, <4>3
      <3>6. now' <= dueAt' + Pickup
        BY <2>a, <3>2
      <3>7. /\ \A x \in Worker : slot'[x].stage \in {"lookup", "settle"} => slot'[x].since = now
            /\ \A x \in Worker : slot'[x].stage # "reschedule"
            /\ ~(\A x \in Worker : ~Busy(x)')
        BY <3>1, <3>3, <3>4 DEF Busy
      <3> QED BY <1>a, <3>5, <3>6, <3>7 DEF PauseInv
    <2>2. CASE LookupSettled(w) \/ LookupNoRecord(w)
      <3>1. UNCHANGED <<attempt, dueAt, trouble>>
        BY <2>2, ConcludeKeeps
      <3>2. /\ slot[w].stage = "lookup" /\ slot'[w].stage = "settle"
            /\ slot'[w].since = slot[w].since
            /\ \A x \in Worker \ {w} : slot'[x] = slot[x]
        BY <2>2, ConcludeKeeps
      <3>3. Decided' => Decided /\ Clear' = Clear
        BY <1>b, <2>a, <3>1 DEF Decided, Clear
      <3> QED BY <1>a, <2>a, <3>1, <3>2, <3>3 DEF PauseInv, Busy
    <2>3. CASE LookupInconclusive(w)
      <3>1. UNCHANGED <<attempt, dueAt>>
        BY <2>3 DEF LookupInconclusive, attemptVars
      <3>2. /\ slot[w].stage = "lookup" /\ slot'[w].stage = "reschedule"
            /\ slot'[w].since = slot[w].since
            /\ \A x \in Worker \ {w} : slot'[x] = slot[x]
        BY <2>3 DEF LookupInconclusive, TypeOK, Slot
      <3>3. \A x \in Worker \ {w} : ~Busy(x)
        BY <3>2 DEF LeaseInv, OneWorkerAtATime, Busy
      <3>4. slot[w].since <= now /\ slot[w].since \in Nat
        BY <2>b, <3>2 DEF LeaseInv, Busy, Slot
      <3>5. ASSUME Decided' PROVE slot[w].since <= Clear'
        <4>1. Decided /\ charge \in Charge
          BY <1>b, <2>a, <3>1, <3>5 DEF Decided
        <4>2. trouble' = now
          BY <2>3, <4>1 DEF LookupInconclusive, Decided
        <4>3. now <= Clear'
          BY <2>a, <4>1, <4>2 DEF Clear, Later, Charge
        <4>4. Clear' \in Nat
          BY <2>a, <4>1, <4>2 DEF Clear, Later, Charge
        <4> QED BY <2>a, <3>4, <4>3, <4>4
      <3> QED BY <1>a, <2>a, <3>1, <3>2, <3>3, <3>5 DEF PauseInv, Busy
    <2>4. CASE WorkerSettles(w)
      <3>1. attempt' # "pending"
        BY <2>4 DEF WorkerSettles, SettleAs, ChargeInv, TypeOK, Outcome
      <3> QED BY <3>1 DEF PauseInv, Decided
    <2>5. CASE Reschedule(w)
      <3>1. /\ slot'[w].stage = "idle" /\ slot[w].stage = "reschedule"
            /\ \A x \in Worker \ {w} : slot'[x] = slot[x]
            /\ UNCHANGED <<attempt, trouble>>
        BY <2>5 DEF Reschedule, TypeOK, Idle
      <3>2. Backoff(slot[w].checks) \in Nat /\ Backoff(slot[w].checks) <= MaxBackoff
        BY <2>b, <3>1, BackoffIsCapped DEF ChargeInv, Busy, Slot
      <3>3. \A x \in Worker : ~Busy(x)'
        BY <3>1 DEF LeaseInv, OneWorkerAtATime, Busy
      <3>4. attempt = "pending" => dueAt' = now + Backoff(slot[w].checks)
        BY <2>5 DEF Reschedule
      <3>5. now <= slot[w].since + WorkTime /\ slot[w].since \in Nat
        BY <2>b, <3>1 DEF LeaseInv, Busy, Slot
      <3>6. ASSUME Decided' PROVE dueAt' <= Clear' + WorkTime + LongestPause
        <4>1. Decided /\ charge \in Charge /\ Clear' = Clear /\ attempt = "pending"
          BY <1>b, <2>a, <3>1, <3>6 DEF Decided, Clear
        <4>2. slot[w].since <= Clear /\ Clear \in Nat
          BY <3>1, <4>1, ClearIsTime DEF PauseInv
        <4>3. dueAt' = now + Backoff(slot[w].checks) /\ Clear' = Clear
          BY <3>4, <4>1
        <4>4. now + Backoff(slot[w].checks) <= Clear + WorkTime + LongestPause
          BY <2>a, <3>2, <3>5, <4>2, PauseEnd
        <4> QED BY ONLY <4>3, <4>4
      <3>7. attempt' = "pending" => now' <= dueAt' + Pickup /\ dueAt' <= now' + LongestPause
        <4>1. attempt' = "pending" => dueAt' = now + Backoff(slot[w].checks)
          BY <3>1, <3>4
        <4>2. Backoff(slot[w].checks) <= LongestPause
          BY <3>2
        <4> QED BY <2>a, <3>2, <4>1, <4>2
      <3> QED BY <1>a, <2>a, <3>1, <3>3, <3>6, <3>7 DEF PauseInv, Busy
    <2>6. CASE WorkerDies(w)
      <3>1. /\ slot'[w].stage = "idle" /\ Busy(w)
            /\ \A x \in Worker \ {w} : slot'[x] = slot[x]
            /\ UNCHANGED <<attempt, dueAt>> /\ trouble' = now
        BY <2>6 DEF WorkerDies, TypeOK, Idle, attemptVars
      <3>2. \A x \in Worker : ~Busy(x)'
        BY <3>1 DEF LeaseInv, OneWorkerAtATime, Busy
      <3>3. attempt = "pending" => dueAt <= now + LongestPause
        <4>1. slot[w].since \in Nat
          BY <2>b DEF Slot
        <4>2. slot[w].since <= now /\ (attempt = "pending" => dueAt = slot[w].since + Lease)
          BY <3>1 DEF LeaseInv
        <4> QED BY <2>a, <4>1, <4>2
      <3>4. ASSUME Decided' PROVE now <= Clear' /\ Clear' \in Nat
        <4>1. charge \in Charge
          BY <1>b, <2>a, <3>1, <3>4 DEF Decided
        <4>2. charge.settlesAt \in Nat
          BY <4>1 DEF Charge
        <4> QED BY <2>a, <3>1, <4>2 DEF Clear, Later
      <3>5. Decided' => dueAt' <= Clear' + WorkTime + LongestPause
        BY <2>a, <2>b, <3>1, <3>3, <3>4 DEF Decided
      <3> QED BY <1>a, <2>a, <3>1, <3>2, <3>3, <3>5 DEF PauseInv, Busy
    <2> QED BY <1>4, <2>1, <2>2, <2>3, <2>4, <2>5, <2>6 DEF WorkerStep
  <1> QED BY <1>1, <1>2, <1>3, <1>4 DEF Next, WorkerStep

-----------------------------------------------------------------------------
(* Types, and the inductive invariant of ReconcileClock.tla. *)
THEOREM TypeCorrectness == Spec => []TypeOK
  <1>1. Init => TypeOK /\ ChargeInv
    BY InitIsTyped, InitIsCharged
  <1>2. TypeOK /\ ChargeInv /\ [Next]_vars => TypeOK' /\ ChargeInv'
    BY StepIsTyped, StepIsCharged
  <1> QED BY <1>1, <1>2, PTL DEF Spec

THEOREM Invariance == Spec => []IInv
  <1>1. Init => IInv
    BY InitIsTyped, InitIsCharged, InitIsInWindow, InitIsLeased, InitPauses DEF IInv
  <1>2. IInv /\ [Next]_vars => IInv'
    <2> SUFFICES ASSUME IInv, [Next]_vars PROVE IInv'
      OBVIOUS
    <2>1. TypeOK' /\ ChargeInv'
      BY StepIsTyped, StepIsCharged DEF IInv
    <2>2. SendLag + Timeout <= Grace => WindowInv'
      BY StepKeepsWindow DEF IInv
    <2>3. WorkTime < Lease => LeaseInv' /\ PauseInv'
      BY StepKeepsLease, StepKeepsPauses DEF IInv
    <2> QED BY <2>1, <2>2, <2>3 DEF IInv
  <1> QED BY <1>1, <1>2, PTL DEF Spec

(* A window that covers the send lag and the timeout is long enough: an    *)
(* attempt failed as psp_no_record is never charged (reconciler.rs:75,94). *)
THEOREM GraceIsLongEnough ==
  ASSUME SendLag + Timeout <= Grace
  PROVE  Spec => []NoRecordMeansNoCharge
  <1>1. IInv => NoRecordMeansNoCharge
    BY DEF IInv, WindowInv, TooLate, NoRecordMeansNoCharge
  <1> QED BY <1>1, Invariance, PTL

(* A lease that outlasts a pass keeps every other worker off the attempt,  *)
(* so that a reschedule, which checks no lease, moves only its own         *)
(* (reconciler.rs:72,118).                                                 *)
THEOREM LeaseIsLongEnough ==
  ASSUME WorkTime < Lease
  PROVE  Spec => []OneWorkerAtATime
  <1>1. IInv => OneWorkerAtATime
    BY DEF IInv, LeaseInv
  <1> QED BY <1>1, Invariance, PTL

(* A decision is settled within the longest pause and the passes around    *)
(* it: the backoff is capped however long the PSP took (reconciler.rs:130).*)
THEOREM SettlesInTime ==
  ASSUME WorkTime < Lease
  PROVE  Spec => []SettledInTime
  <1>1. IInv => SettledInTime
    <2> SUFFICES ASSUME IInv, attempt = "pending", Answer \in Outcome
                 PROVE  now <= Clear + WorkTime + LongestPause + Pickup + WorkTime
      BY DEF SettledInTime, Clear
    <2> USE ConfigIsValid, BoundsAreNat
    <2>1. TypeOK /\ LeaseInv /\ PauseInv /\ Decided
      BY DEF IInv, Decided
    <2>2. charge \in Charge
      BY <2>1, AnswerOfCharge DEF TypeOK
    <2>3. Clear \in Nat /\ LongestPause \in Nat /\ now \in Nat /\ dueAt \in Nat
      BY <2>1, <2>2, ClearIsTime, PauseCoversAll DEF TypeOK
    <2>4. CASE \A w \in Worker : ~Busy(w)
      <3>1. now <= dueAt + Pickup /\ dueAt <= Clear + WorkTime + LongestPause
        BY <2>1, <2>4 DEF PauseInv, Decided
      <3> QED BY <2>3, <3>1
    <2>5. ASSUME NEW w \in Worker, Busy(w)
          PROVE  now <= Clear + WorkTime + LongestPause + Pickup + WorkTime
      <3>1. slot[w].since \in Nat /\ now <= slot[w].since + WorkTime
        BY <2>1, <2>5 DEF LeaseInv, TypeOK, Slot
      <3>2. CASE slot[w].stage = "reschedule"
        <4>1. slot[w].since <= Clear
          BY <2>1, <3>2 DEF PauseInv
        <4> QED BY <2>3, <3>1, <4>1
      <3>3. CASE slot[w].stage \in {"lookup", "settle"}
        <4>1. slot[w].since <= Clear + WorkTime + LongestPause + Pickup
          BY <2>1, <3>3 DEF PauseInv
        <4> QED BY <2>3, <3>1, <4>1
      <3> QED BY <2>1, <2>5, <3>2, <3>3 DEF Busy, TypeOK, Slot
    <2> QED BY <2>4, <2>5
  <1> QED BY <1>1, Invariance, PTL

(* However often the charge is sent, the attempt is settled by the one     *)
(* outcome the PSP has (mock_psp.rs:119; psp.rs: idempotent).              *)
THEOREM SettledByTheDecision == Spec => []SettledAsDecided
  <1>1. IInv => SettledAsDecided
    BY DEF IInv, ChargeInv
  <1> QED BY <1>1, Invariance, PTL

-----------------------------------------------------------------------------
(* Every step of the clocked PSP is a step of Psp, as Payments has it: a   *)
(* repeated request is answered by its first charge, and a decision is     *)
(* told from its time on.                                                  *)
THEOREM PspIsImplemented == Spec => ImplementsPsp
  <1>1. Init => Untimed!PspInit
    BY DEF Init, Untimed!PspInit, Answer, NoCharge
  <1>2. TypeOK /\ ChargeInv /\ [Next]_vars => [Untimed!PspNext]_(Untimed!pspVars)
    <2> SUFFICES ASSUME TypeOK, ChargeInv, [Next]_vars
                 PROVE  [Untimed!PspNext]_(Untimed!pspVars)
      OBVIOUS
    <2> USE DEF Untimed!PspNext, Untimed!pspVars
    <2>1. CASE Tick
      <3>1. wire' = wire /\ charge' = charge
        BY <2>1 DEF Tick, chargeVars
      <3>2. Answer' = Answer \/ (Answer = "processing" /\ Answer' \in Outcome)
        <4>1. CASE charge = NoCharge
          BY <3>1, <4>1 DEF Answer
        <4>2. CASE charge # NoCharge
          <5>1. charge \in Charge /\ charge.settlesAt \in Nat /\ charge.outcome \in Outcome
            BY <4>2 DEF TypeOK, Charge
          <5>2. now \in Nat /\ now' = now + 1
            BY <2>1 DEF Tick, TypeOK
          <5> QED BY <3>1, <4>2, <5>1, <5>2 DEF Answer
        <4> QED BY <4>1, <4>2
      <3>3. CASE Answer' = Answer
        BY <3>1, <3>3
      <3>4. CASE Answer = "processing" /\ Answer' \in Outcome
        <4>1. Untimed!PspDecide("a")
          BY <3>1, <3>4 DEF Untimed!PspDecide, Outcome
        <4> QED BY <4>1
      <3> QED BY <3>2, <3>3, <3>4
    <2>2. CASE SendCharge
      <3>1. wire = "unsent" /\ wire' = "flying" /\ Answer' = Answer
        BY <2>2 DEF SendCharge, ChargeInv, Answer
      <3>2. Untimed!Send("a")
        BY <3>1 DEF Untimed!Send
      <3> QED BY <3>2
    <2>3. CASE Network
      <3>1. CASE CreateCharge /\ wire = "flying"
        <4>1. wire' = "received" /\ Answer = "none" /\ now' = now
          BY <2>3, <3>1 DEF Network, CreateCharge, Vanish, ChargeInv, Answer
        <4>2. charge' # NoCharge /\ now < charge'.settlesAt
          BY <3>1, InsertKeeps DEF TypeOK, ChargeInv
        <4>3. Answer' = "processing"
          BY <4>1, <4>2 DEF Answer, NoCharge
        <4>4. Untimed!PspReceive("a")
          BY <3>1, <4>1, <4>3 DEF Untimed!PspReceive
        <4> QED BY <4>4
      <3>2. CASE CreateCharge /\ wire = "received"
        <4>1. UNCHANGED <<now, wire, charge>>
          BY <2>3, <3>2, InsertKeeps DEF Network, CreateCharge, TypeOK, ChargeInv
        <4> QED BY <4>1 DEF Answer
      <3>3. CASE Vanish
        <4>1. wire = "flying" /\ wire' = "lost" /\ Answer' = Answer
          BY <2>3, <3>3 DEF Network, Vanish, Answer
        <4>2. Untimed!PspLose("a")
          BY <4>1 DEF Untimed!PspLose
        <4> QED BY <4>2
      <3> QED BY <2>3, <3>1, <3>2, <3>3 DEF Network, CreateCharge
    <2>4. CASE UNCHANGED <<now, wire, charge>>
      BY <2>4 DEF Answer
    <2> QED BY <2>1, <2>2, <2>3, <2>4
            DEF Next, vars, chargeVars, ChargeSettled, HandlerSettles, HandlerGone, ClaimDue,
                LookupSettled, LookupNoRecord, Conclude, LookupInconclusive, WorkerSettles,
                Reschedule, WorkerDies
  <1>3. Spec => [](TypeOK /\ ChargeInv)
    <2>1. IInv => TypeOK /\ ChargeInv
      BY DEF IInv
    <2> QED BY <2>1, Invariance, PTL
  <1> QED BY <1>1, <1>2, <1>3, PTL DEF Spec, ImplementsPsp, Untimed!PspSpec

=============================================================================

--------------------------- MODULE ApiKeysProofs ----------------------------
(***************************************************************************)
(* A business never locks itself out, for any number of keys and requests. *)
(* IInv is inductive: its third conjunct makes the holder of the business  *)
(* row the only request that is about to revoke, its fourth keeps what     *)
(* that request's check found.                                             *)
(***************************************************************************)
EXTENDS ApiKeys, TLAPS

(* create_business issues the first key, so a business starts with one. *)
LEMMA InitIsSafe == Init => IInv
  BY DEF Init, IInv, TypeOK, NeverLockedOut, Active

(* A revocation leaves the key that its check saw, whatever was issued or  *)
(* refused since.                                                          *)
LEMMA RevokeIsSafe ==
  ASSUME IInv, NEW r \in Request, Revoke(r)
  PROVE  IInv'
  <1> USE DEF IInv, TypeOK
  <1>1. bizLock = r /\ AnotherActive(target[r])
    BY DEF Revoke
  <1>2. TypeOK'
    BY NobodyIsNobody DEF Revoke, Release, Goto
  <1>3. NeverLockedOut'
    BY <1>1 DEF Revoke, NeverLockedOut, Active, AnotherActive
  <1>4. \A q \in Request : pc[q] \in {"locked", "checked"} => q = r
    BY <1>1
  <1>5. \A q \in Request : pc'[q] \notin {"locked", "checked"}
    BY <1>4 DEF Revoke, Goto
  <1> QED BY <1>2, <1>3, <1>5

(* Whoever ends without writing gives up the business row if it has it,    *)
(* and takes nobody else's.                                                *)
LEMMA EndingIsSafe ==
  ASSUME IInv, NEW r \in Request, Refuse(r) \/ CutOff(r)
  PROVE  IInv'
  <1> USE DEF IInv, TypeOK
  <1>1. UNCHANGED <<key, target>> /\ pc' = [pc EXCEPT ![r] = "done"] /\ Release(r)
    BY DEF Refuse, CutOff, Goto
  <1>2. TypeOK' /\ NeverLockedOut'
    BY <1>1, NobodyIsNobody DEF Release, NeverLockedOut, Active
  <1>3. \A q \in Request : pc'[q] \in {"locked", "checked"} => bizLock' = q
    BY <1>1 DEF Release
  <1>4. \A q \in Request : pc'[q] = "checked" => AnotherActive(target[q])'
    BY <1>1 DEF AnotherActive, Active
  <1> QED BY <1>2, <1>3, <1>4

(* Every other step takes no key away. *)
LEMMA OtherStepsAreSafe ==
  ASSUME IInv, NEW r \in Request,
         Authenticate(r) \/ Issue(r) \/ LockBusiness(r) \/ MayRevoke(r)
  PROVE  IInv'
  <1> USE DEF IInv, TypeOK
  <1>1. CASE Authenticate(r)
    BY <1>1 DEF Authenticate, NeverLockedOut, AnotherActive, Active
  <1>2. CASE Issue(r)
    BY <1>2 DEF Issue, Goto, NeverLockedOut, AnotherActive, Active
  <1>3. CASE LockBusiness(r)
    BY <1>3, NobodyIsNobody DEF LockBusiness, BusinessFree, Goto, NeverLockedOut, AnotherActive, Active
  <1>4. CASE MayRevoke(r)
    BY <1>4 DEF MayRevoke, Goto, NeverLockedOut, AnotherActive, Active
  <1> QED BY <1>1, <1>2, <1>3, <1>4

(* The invariant is inductive: every step of Next preserves it. *)
LEMMA StepIsSafe == IInv /\ [Next]_vars => IInv'
  <1> SUFFICES ASSUME IInv, [Next]_vars PROVE IInv'
    OBVIOUS
  <1>1. CASE UNCHANGED vars
    BY <1>1 DEF vars, IInv, TypeOK, NeverLockedOut, AnotherActive, Active
  <1>2. ASSUME NEW r \in Request, Revoke(r) PROVE IInv'
    BY <1>2, RevokeIsSafe
  <1>3. ASSUME NEW r \in Request, Refuse(r) \/ CutOff(r) PROVE IInv'
    BY <1>3, EndingIsSafe
  <1>4. ASSUME NEW r \in Request,
               Authenticate(r) \/ Issue(r) \/ LockBusiness(r) \/ MayRevoke(r)
        PROVE  IInv'
    BY <1>4, OtherStepsAreSafe
  <1> QED BY <1>1, <1>2, <1>3, <1>4 DEF Next

(* The inductive invariant holds in every reachable state. *)
THEOREM Invariance == Spec => []IInv
  <1>1. Init => IInv
    BY InitIsSafe
  <1>2. IInv /\ [Next]_vars => IInv'
    BY StepIsSafe
  <1> QED BY <1>1, <1>2, PTL DEF Spec

(* Revocations that race, each with a key the other revokes, leave the     *)
(* business an active key (api_keys.rs, revoke_api_key).                   *)
THEOREM AKeyIsAlwaysLeft == Spec => []NeverLockedOut
  <1>1. IInv => NeverLockedOut
    BY DEF IInv
  <1> QED BY <1>1, Invariance, PTL

=============================================================================

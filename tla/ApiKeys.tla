------------------------------ MODULE ApiKeys -------------------------------
(***************************************************************************)
(* The API keys of one business (api_keys.rs, auth.rs): a request          *)
(* authenticates with an active key and then issues a key or revokes one,  *)
(* while other requests do the same, possibly to the key it came with.     *)
(***************************************************************************)
CONSTANTS Key,      \* rows of api_keys
          Request,  \* authenticated requests
          Nobody

ASSUME NobodyIsNobody == Nobody \notin Request

VARIABLES key,      \* absent, active (revoked_at IS NULL) or revoked
          bizLock,  \* whose transaction has the business row, NO KEY UPDATE
          pc,       \* where each request is
          target    \* the key a request issues or revokes

vars == <<key, bizLock, pc, target>>

TypeOK == /\ key \in [Key -> {"absent", "active", "revoked"}]
          /\ bizLock \in Request \cup {Nobody}
          /\ pc \in [Request -> {"idle", "issue", "revoke", "locked", "checked", "done"}]
          /\ target \in [Request -> Key]

(* create_business issues the first key along with the business. *)
Init == /\ \E first \in Key : key = [k \in Key |-> IF k = first THEN "active" ELSE "absent"]
        /\ bizLock = Nobody
        /\ pc = [r \in Request |-> "idle"]
        /\ target \in [Request -> Key]

Active == {k \in Key : key[k] = "active"}

(* A request is let in by a key that is active now; what it asks for is    *)
(* carried out later.                                                      *)
Authenticate(r) ==
    /\ pc[r] = "idle"
    /\ Active # {}
    /\ \E op \in {"issue", "revoke"} : pc' = [pc EXCEPT ![r] = op]
    /\ UNCHANGED <<key, bizLock, target>>

Goto(r, label) == pc' = [pc EXCEPT ![r] = label]

(* create_api_key; the new row's foreign key takes KEY SHARE on the        *)
(* business, which a revocation's lock does not block.                     *)
Issue(r) ==
    /\ pc[r] = "issue"
    /\ key[target[r]] = "absent"
    /\ key' = [key EXCEPT ![target[r]] = "active"]
    /\ Goto(r, "done")
    /\ UNCHANGED <<bizLock, target>>

-----------------------------------------------------------------------------
(* revoke_api_key *)

(* Seeded fault: revocations are not serialized. *)
FaultBusinessFree(r) == TRUE

BusinessFree(r) == bizLock = Nobody

LockBusiness(r) ==
    /\ pc[r] = "revoke"
    /\ BusinessFree(r)
    /\ bizLock' = r
    /\ Goto(r, "locked")
    /\ UNCHANGED <<key, target>>

(* Seeded fault: a revoked key counts as another key. *)
FaultAnotherActive(k) == \E other \in Key \ {k} : key[other] # "absent"

AnotherActive(k) == Active \ {k} # {}

MayRevoke(r) ==
    /\ pc[r] = "locked"
    /\ key[target[r]] = "active"
    /\ AnotherActive(target[r])
    /\ Goto(r, "checked")
    /\ UNCHANGED <<key, bizLock, target>>

Release(r) == bizLock' = IF bizLock = r THEN Nobody ELSE bizLock

(* 404, already revoked, or the only active key: nothing is written. *)
Refuse(r) ==
    /\ pc[r] = "locked"
    /\ key[target[r]] = "active" => ~AnotherActive(target[r])
    /\ Release(r)
    /\ Goto(r, "done")
    /\ UNCHANGED <<key, target>>

Revoke(r) ==
    /\ pc[r] = "checked"
    /\ key' = [key EXCEPT ![target[r]] = "revoked"]
    /\ Release(r)
    /\ Goto(r, "done")
    /\ UNCHANGED target

(* The request is cut off; its transaction rolls back. *)
CutOff(r) ==
    /\ pc[r] \notin {"idle", "done"}
    /\ Release(r)
    /\ Goto(r, "done")
    /\ UNCHANGED <<key, target>>

Next == \E r \in Request :
           \/ Authenticate(r) \/ Issue(r)
           \/ LockBusiness(r) \/ MayRevoke(r) \/ Refuse(r) \/ Revoke(r)
           \/ CutOff(r)

Spec == Init /\ [][Next]_vars

-----------------------------------------------------------------------------
(* A business never locks itself out: however revocations race, each with  *)
(* a key the other one revokes, an active key is left ("two concurrent     *)
(* requests could each see the other key as still active", api_keys.rs).   *)
NeverLockedOut == Active # {}

(***************************************************************************)
(* Why a key is left: only the holder of the business lock revokes, so     *)
(* what its check found still holds when it does.                          *)
(***************************************************************************)
IInv == /\ TypeOK
        /\ NeverLockedOut
        /\ \A r \in Request : pc[r] \in {"locked", "checked"} => bizLock = r
        /\ \A r \in Request : pc[r] = "checked" => AnotherActive(target[r])

=============================================================================

--------------------------- MODULE CardStateMachine ---------------------------
(***************************************************************************)
(* The life cycle of a card as the header of cards.service.ts and the      *)
(* CardStatus enumeration promise it: one status per student and one       *)
(* indivisible transition per operation.  The expiry job can overtake a    *)
(* staff request that has already checked the card, so an EXPIRED card can *)
(* still be suspended.                                                     *)
(***************************************************************************)
CONSTANT Students
VARIABLE status   \* status[s]: "NONE" while the student has no card

Set(s, v) == status' = [status EXCEPT ![s] = v]

Issue(s)      == status[s] # "ACTIVE" /\ Set(s, "ACTIVE")
Suspend(s)    == status[s] \in {"ACTIVE", "EXPIRED"} /\ Set(s, "SUSPENDED")
Reactivate(s) == status[s] = "SUSPENDED" /\ Set(s, "ACTIVE")
Revoke(s)     == status[s] \notin {"NONE", "REVOKED"} /\ Set(s, "REVOKED")
Erase(s)      == Set(s, "NONE")
Expire(due)   ==
    /\ \A s \in due : status[s] = "ACTIVE"
    /\ status' = [s \in Students |-> IF s \in due THEN "EXPIRED" ELSE status[s]]

Init == status = [s \in Students |-> "NONE"]

Next ==
    \/ \E s \in Students :
        Issue(s) \/ Suspend(s) \/ Reactivate(s) \/ Revoke(s) \/ Erase(s)
    \/ \E due \in SUBSET Students : Expire(due)

Spec == Init /\ [][Next]_status
=============================================================================

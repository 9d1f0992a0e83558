---------------------------- MODULE LockoutPolicy ----------------------------
(***************************************************************************)
(* What the dashboard promises about wrong passwords: they are counted one *)
(* by one, MaxFailed of them without a success lock the account, a locked  *)
(* account is not tried, and time or an administrator opens it again.      *)
(***************************************************************************)
EXTENDS Naturals

CONSTANTS Users, MaxFailed

VARIABLES
    fails,   \* fails[u]: failures since the last success, MaxFailed at most
    locked   \* locked[u]: logins are refused

policyVars == <<fails, locked>>

Init ==
    /\ fails = [u \in Users |-> 0]
    /\ locked = [u \in Users |-> FALSE]

Fail(u) ==
    /\ ~locked[u]
    /\ fails' = [fails EXCEPT ![u] = IF @ < MaxFailed THEN @ + 1 ELSE @]
    /\ locked' = [locked EXCEPT ![u] = fails'[u] = MaxFailed]

Succeed(u) ==
    /\ ~locked[u]
    /\ fails' = [fails EXCEPT ![u] = 0]
    /\ UNCHANGED locked

LockRunsOut(u) ==
    /\ locked' = [locked EXCEPT ![u] = FALSE]
    /\ UNCHANGED fails

Reset(u) ==
    /\ fails' = [fails EXCEPT ![u] = 0]
    /\ locked' = [locked EXCEPT ![u] = FALSE]

Next == \E u \in Users : Fail(u) \/ Succeed(u) \/ LockRunsOut(u) \/ Reset(u)

Spec == Init /\ [][Next]_policyVars
=============================================================================

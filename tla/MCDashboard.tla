------------------------------ MODULE MCDashboard ------------------------------
\* The dashboard on small instances: the session of a page and the cache behind
\* the pages.  They share no variable; in every behaviour one of them, `part`,
\* leaves its initial state, as in MCRecords.
EXTENDS DashboardClient, DashboardViews, TLC

VARIABLE part

dashboard == <<part, vars, viewVars>>

\* Each query alone, and one that `me` enables.  One write, but two where two
\* that wait, two that do not, or one that misses the query and one that reaches
\* it can meet.
Sets == {{q} : q \in Queries} \union {{"me", "universities"}}
Twice == {{"enquiries"}, {"university"}, {"student"}}
Bounds == [Q \in Sets |-> IF Cardinality(Q) = 2 THEN 0 ELSE IF Q \in Twice THEN 2 ELSE 1]

DashboardInit ==
    /\ part \in {"session", "views"}
    /\ Init /\ ViewsInit
    /\ part # "views" => watched = {"me"}

DashboardNext ==
    /\ UNCHANGED part
    /\ \/ part = "session" /\ Next /\ UNCHANGED viewVars
       \/ part = "views" /\ ViewsNext /\ UNCHANGED vars

DashboardSpec == DashboardInit /\ [][DashboardNext]_dashboard

FairDashboardSpec == DashboardSpec /\ Fairness /\ ViewsFairness

\* What the parts hold, and what ties their variables together.
DashboardTypeOK == ClientTypeOK /\ ViewsTypeOK

Interchangeable == Permutations(Requests)
=============================================================================

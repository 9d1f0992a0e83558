\* Two requests and two pairs of tokens; each query of the pages with one write
\* that changes it, or two.
SPECIFICATION FairDashboardSpec
CONSTANTS
    Requests = {r1, r2}
    MaxPairs = 2
    Followed <- Sets
    Clicks = {c1, c2}
    MaxWrites <- Bounds
INVARIANTS DashboardTypeOK SessionInStep OwnChangesShown
PROPERTIES PresentedOnce RequestsEnd EveryButtonComesBack
CHECK_DEADLOCK FALSE

\* Two accounts sign in one after the other in one tab.
SPECIFICATION DashboardSpec
CONSTANTS
    Requests = {r1, r2}
    MaxPairs = 2
    Followed <- Sets
    Clicks = {c1, c2}
    MaxWrites <- Bounds
SYMMETRY Interchangeable
INVARIANTS MeIsTheViewer
CHECK_DEADLOCK FALSE

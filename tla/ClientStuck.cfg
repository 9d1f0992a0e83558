\* A request that met a 401 before the login.
SPECIFICATION DashboardSpec
CONSTANTS
    Requests = {r1, r2}
    MaxPairs = 2
    Followed <- Sets
    Clicks = {c1, c2}
    MaxWrites <- Bounds
SYMMETRY Interchangeable
PROPERTIES RefreshTriedOn401
CHECK_DEADLOCK FALSE

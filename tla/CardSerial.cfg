\* Two cards, one request per card at a time, against the documented life cycle.
SPECIFICATION SerialSpec
CONSTANTS
    Students = {s1, s2}
    Uids = {u1, u2}
    Handlers = {h1, h2}
    Operations = {"issue", "revoke", "suspend", "reactivate"}
    Expiries = {0, 2}
    Horizon = 1
    WalletConfigured = FALSE
    None = None
SYMMETRY Sym
PROPERTY FollowsLifecycle

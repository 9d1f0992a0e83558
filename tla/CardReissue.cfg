\* A card issued again after a revocation, one request at a time.
SPECIFICATION CardSpec
CONSTANTS
    Students = {s1}
    Uids = {u1}
    Handlers = {h1}
    Operations = {"issue", "revoke"}
    Expiries = {0}
    Horizon = 0
    WalletConfigured = FALSE
    None = None
INVARIANT ActiveCardUsable

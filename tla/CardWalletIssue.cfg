\* The wallet request of a student whose card is suspended.
SPECIFICATION CardSpec
CONSTANTS
    Students = {s1}
    Uids = {u1}
    Handlers = {h1}
    Operations = {"walletIssue", "suspend"}
    Expiries = {0}
    Horizon = 0
    WalletConfigured = FALSE
    None = None
PROPERTY SuspensionHolds

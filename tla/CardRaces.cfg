\* Two requests in flight on one card, every operation, wallet configured, and the fairness of Node and of the nightly job.
SPECIFICATION FairCardSpec
CONSTANTS
    Students = {s1}
    Uids = {u1, u2}
    Handlers = {h1, h2}
    Operations = {"issue", "walletIssue", "revoke", "suspend", "reactivate"}
    Expiries = {0, 2}
    Horizon = 1
    WalletConfigured = TRUE
    None = None
INVARIANTS RevocationIsFinal ErasedStaysErased
PROPERTIES RequestsAnswered LapsedCardsExpire

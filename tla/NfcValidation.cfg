\* One student; see MCNfcValidation for the two scenes.  A time window of one
\* unit on each side and a nonce key of two, on a clock of three units.
SPECIFICATION SceneSpec
CONSTANTS
    Students = {s1}
    Uids = {u1, u2}
    Handlers = {h1, h2}
    Operations = {"issue", "revoke", "suspend", "reactivate"}
    Expiries = {0, 9}
    Horizon = 3
    WalletConfigured = FALSE
    None = None
    Nonces = {n1}
    Verified = {n1}
    Validations = {v1, v2}
    Skew = 1
    NonceTtl = 2
    OnlyUid = u1
    OnlyHandler = h1
    OnlyValidation = v1
INVARIANTS TypeOK OneGrantPerTap GrantsAreRecorded BlockedCardsRefused
PROPERTIES NonceOutlivesWindow ValidationsAnswered
CHECK_DEADLOCK FALSE

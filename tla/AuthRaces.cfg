\* Two requests at a time on one account, every operation, two pairs of tokens.
SPECIFICATION AuthSpec
CONSTANTS
    Users = {u1}
    Handlers = {h1, h2}
    Passwords = {p1, p2}
    Jtis = {j1, j2}
    Challenges = {c1}
    MaxSetups = 1
    MaxFailed = 2
    None = None
    Operations = {"create", "login", "mfa", "refresh", "logout", "setup", "confirm",
                  "block", "unblock", "change", "reset"}
SYMMETRY Interchangeable
INVARIANTS AuthTypeOK MfaGate LoggedOutStaysOut LockIsFirm ResetForcesChange OneLivePerSession
PROPERTIES BlockedOnlyByChallenge FollowsLockoutPolicy
CHECK_DEADLOCK FALSE

---------------------------- MODULE MCNfcValidation ----------------------------
\* NfcValidation on two small instances in one run, chosen by `scene`:
\* "requests" has one validation beside two staff requests of every kind while
\* the clock stands still, "retries" two validations and a moving clock beside
\* one request that issues or revokes.
EXTENDS NfcValidation

CONSTANTS
    OnlyUid, OnlyHandler,   \* those of "retries"
    OnlyValidation          \* that of "requests"

VARIABLE scene

RequestsOnly ==
    /\ clock' = 0 /\ \A n \in Nonces : tap'[n].ts = 0
    /\ \A s \in Students : card'[s].expires = 0
    /\ \A v \in Validations \ {OnlyValidation} : val'[v] = Rest

RetriesOnly ==
    /\ \A n \in Nonces : tap'[n].uid \in {OnlyUid, None}
    /\ \A s \in Students : card'[s].uid \in {OnlyUid, None}
    /\ \A h \in Handlers : job'[h] # Idle => h = OnlyHandler /\ job'[h].op \in {"issue", "revoke"}

SceneInit == Init /\ scene \in {"requests", "retries"}

SceneNext ==
    /\ Next
    /\ UNCHANGED scene
    /\ IF scene = "requests" THEN RequestsOnly ELSE RetriesOnly

SceneSpec ==
    /\ SceneInit /\ [][SceneNext]_<<vars, scene>>
    /\ \A v \in Validations : WF_vars(ValidationStep(v))
=============================================================================

---------------------------- MODULE NfcValidation ----------------------------
(***************************************************************************)
(* POST /api/v1/nfc/validate (nfc.service.ts) running beside the card      *)
(* requests of CardLifecycle.  A reader signs one message per tap - nonce, *)
(* card uid, its own timestamp - and may send it more than once, so several*)
(* validations of one message can be in flight, each a handler of its own  *)
(* that gives way at every await: SET NX of the nonce, read of the card    *)
(* row, EXISTS of the marker, INSERT of the CardValidation row, UPDATE of  *)
(* lastUsedAt, answer.                                                     *)
(*                                                                         *)
(* The answers the handler gives before it has changed anything (unknown   *)
(* reader, wrong signature, timestamp out of tolerance) leave the state as *)
(* it is and are not actions.                                              *)
(***************************************************************************)
EXTENDS CardLifecycle

CONSTANTS
    Nonces,       \* nonces, each naming the one message signed with it
    Verified,     \* those signed by a registered, active reader
    Validations,  \* validation requests the API instances process at one time
    Skew,         \* NFC_TIMESTAMP_SKEW_MS, in clock units
    NonceTtl      \* NFC_NONCE_SECONDS, in clock units

ASSUME VerifiedAssumption == Verified \subseteq Nonces
ASSUME SkewAssumption     == Skew \in Nat
ASSUME NonceTtlAssumption == NonceTtl = 2 * Skew

VARIABLES
    tap,       \* tap[n]: the message of nonce n once a card was presented
    nonceKey,  \* nonceKey[n]: last instant the Redis key nfc:nonce:n exists
    log,       \* CardValidation rows
    val,       \* val[v]: the message validation v is working on
    grants,    \* history: times nonce n was answered "granted" for student s
    claimed,   \* history: nonces a SET NX was answered OK for
    late,      \* history: <<v, s>>, v began after the retirement of the card it names
    caught     \* history: <<v, s>>, v had read the card of s when its blocking was answered

nfcVars == <<tap, nonceKey, log, val, grants, claimed, late, caught>>
vars    == <<cardVars, nfcVars>>

NoTap   == [uid |-> None, ts |-> 0]
Message == [uid : Uids, ts : Clock]
Absent  == -1
Rest    == [pc |-> "idle", nonce |-> None, student |-> None, status |-> "NONE", expires |-> 0]
Working == [pc : {"claim", "lookup", "screen", "accept", "refuse", "touch"},
            nonce : Nonces, student : Students \union {None},
            status : Status \union {"NONE"}, expires : Nat]

TypeOK ==
    /\ CardTypeOK
    /\ tap \in [Nonces -> Message \union {NoTap}]
    /\ nonceKey \in [Nonces -> {Absent} \union Nat]
    /\ log \subseteq [nonce : Nonces, student : Students, success : BOOLEAN]
    /\ val \in [Validations -> Working \union {Rest}]
    /\ grants \in [Nonces -> [Students -> 0..2]]
    /\ claimed \subseteq Nonces
    /\ late \subseteq Validations \X Students
    /\ caught \subseteq Validations \X Students

Init ==
    /\ CardInit
    /\ tap = [n \in Nonces |-> NoTap]
    /\ nonceKey = [n \in Nonces |-> Absent]
    /\ log = {}
    /\ val = [v \in Validations |-> Rest]
    /\ grants = [n \in Nonces |-> [s \in Students |-> 0]]
    /\ claimed = {}
    /\ late = {}
    /\ caught = {}

\* A reader whose clock shows ts reads uid from a phone or a card.
Tap(n) ==
    /\ tap[n] = NoTap
    /\ \E uid \in Uids, ts \in Clock : tap' = [tap EXCEPT ![n] = [uid |-> uid, ts |-> ts]]
    /\ UNCHANGED <<cardVars, nonceKey, log, val, grants, claimed, late, caught>>

-----------------------------------------------------------------------------
Proceed(v, pc) == val' = [val EXCEPT ![v].pc = pc]

\* The answer is out: v is free for the next request.
Reply(v) ==
    /\ val' = [val EXCEPT ![v] = Rest]
    /\ late' = {p \in late : p[1] # v}
    /\ caught' = {p \in caught : p[1] # v}

InWindow(ts) == clock - ts <= Skew /\ ts - clock <= Skew

\* A (re)transmission reaches the API; reader, signature and timestamp are
\* checked after a single await.
Receive(v, n) ==
    /\ val[v] = Rest
    /\ tap[n] # NoTap
    /\ n \in Verified
    /\ InWindow(tap[n].ts)
    /\ val' = [val EXCEPT ![v] = [Rest EXCEPT !.pc = "claim", !.nonce = n]]
    /\ late' = late \union {<<v, s>> : s \in {t \in retired : card[t].uid = tap[n].uid}}
    /\ UNCHANGED <<cardVars, tap, nonceKey, log, grants, claimed, caught>>

\* Redis drops a key once the clock has passed its expiry.
KeyAlive(n) == nonceKey[n] >= clock

\* Fault: the key lives one unit less than the window.
ClaimNonceShort(v) ==
    LET n == val[v].nonce IN
    /\ val[v].pc = "claim"
    /\ ~KeyAlive(n)
    /\ nonceKey' = [nonceKey EXCEPT ![n] = clock + NonceTtl - 1]
    /\ claimed' = claimed \union {n}
    /\ Proceed(v, "lookup")
    /\ UNCHANGED <<cardVars, tap, log, grants, late, caught>>

\* SET nonce EX NonceTtl NX answered OK.
ClaimNonce(v) ==
    LET n == val[v].nonce IN
    /\ val[v].pc = "claim"
    /\ ~KeyAlive(n)
    /\ nonceKey' = [nonceKey EXCEPT ![n] = clock + NonceTtl]
    /\ claimed' = claimed \union {n}
    /\ Proceed(v, "lookup")
    /\ UNCHANGED <<cardVars, tap, log, grants, late, caught>>

\* nonce_replay
ReplayDenied(v) ==
    /\ val[v].pc = "claim"
    /\ KeyAlive(val[v].nonce)
    /\ Reply(v)
    /\ UNCHANGED <<cardVars, tap, nonceKey, log, grants, claimed>>

\* card.findUnique by uid: what is read here is not read again.
LookupCard(v) ==
    /\ val[v].pc = "lookup"
    /\ \E s \in Students :
        /\ card[s].uid = tap[val[v].nonce].uid
        /\ val' = [val EXCEPT ![v].pc = "screen", ![v].student = s,
                              ![v].status = card[s].status, ![v].expires = card[s].expires]
    /\ UNCHANGED <<cardVars, tap, nonceKey, log, grants, claimed, late, caught>>

\* card_not_found: denied without a CardValidation row.
CardUnknown(v) ==
    /\ val[v].pc = "lookup"
    /\ \A s \in Students : card[s].uid # tap[val[v].nonce].uid
    /\ Reply(v)
    /\ UNCHANGED <<cardVars, tap, nonceKey, log, grants, claimed>>

\* Fault: the marker alone decides whether the card is blocked.
AdmissibleByMarker(v) ==
    /\ ~marker[val[v].student]
    /\ val[v].expires >= clock

\* Fault: the marker is not consulted.
AdmissibleByRow(v) ==
    /\ val[v].status = "ACTIVE"
    /\ val[v].expires >= clock

\* The row as it was read is ACTIVE and unexpired by the present clock, and
\* Redis holds no marker for it now.
Admissible(v) ==
    /\ ~marker[val[v].student]
    /\ val[v].status = "ACTIVE"
    /\ val[v].expires >= clock

\* EXISTS of the marker, then the checks on the row.
ScreenCard(v) ==
    /\ val[v].pc = "screen"
    /\ Proceed(v, IF Admissible(v) THEN "accept" ELSE "refuse")
    /\ UNCHANGED <<cardVars, tap, nonceKey, log, grants, claimed, late, caught>>

\* Fault: the nonce of CardValidation is not unique.
InsertableTwice(v) == HasCard(val[v].student)

\* INSERT into CardValidation: nonce is unique and the card must exist.
Insertable(v) ==
    /\ \A e \in log : e.nonce # val[v].nonce
    /\ HasCard(val[v].student)

Entry(v, success) ==
    [nonce |-> val[v].nonce, student |-> val[v].student, success |-> success]

\* Fault: the INSERT of a grant is not awaited, so its failure goes unnoticed.
PersistGrantedUnawaited(v) ==
    /\ val[v].pc = "accept"
    /\ log' = IF Insertable(v) THEN log \union {Entry(v, TRUE)} ELSE log
    /\ Proceed(v, "touch")
    /\ UNCHANGED <<cardVars, tap, nonceKey, grants, claimed, late, caught>>

PersistDenied(v) ==
    /\ val[v].pc = "refuse"
    /\ Insertable(v)
    /\ log' = log \union {Entry(v, FALSE)}
    /\ Reply(v)
    /\ UNCHANGED <<cardVars, tap, nonceKey, grants, claimed>>

PersistGranted(v) ==
    /\ val[v].pc = "accept"
    /\ Insertable(v)
    /\ log' = log \union {Entry(v, TRUE)}
    /\ Proceed(v, "touch")
    /\ UNCHANGED <<cardVars, tap, nonceKey, grants, claimed, late, caught>>

\* Fault: the exception is only caught on the refusing path.
PersistFailsRefusing(v) ==
    /\ val[v].pc = "refuse"
    /\ ~Insertable(v)
    /\ Reply(v)
    /\ UNCHANGED <<cardVars, tap, nonceKey, log, grants, claimed>>

\* The INSERT throws and the request is answered 500.
PersistFails(v) ==
    /\ val[v].pc \in {"accept", "refuse"}
    /\ ~Insertable(v)
    /\ Reply(v)
    /\ UNCHANGED <<cardVars, tap, nonceKey, log, grants, claimed>>

\* lastUsedAt is written, then "granted" goes out.
Grant(v) ==
    LET n == val[v].nonce  s == val[v].student IN
    /\ val[v].pc = "touch"
    /\ HasCard(s)
    /\ grants' = [grants EXCEPT ![n][s] = IF @ < 2 THEN @ + 1 ELSE 2]
    /\ Reply(v)
    /\ UNCHANGED <<cardVars, tap, nonceKey, log, claimed>>

\* The card was erased between the INSERT and the UPDATE: 500.
TouchFails(v) ==
    /\ val[v].pc = "touch"
    /\ ~HasCard(val[v].student)
    /\ Reply(v)
    /\ UNCHANGED <<cardVars, tap, nonceKey, log, grants, claimed>>

\* Crash of the instance, or an error of Redis or Postgres.
AbortValidation(v) ==
    /\ val[v] # Rest
    /\ Reply(v)
    /\ UNCHANGED <<cardVars, tap, nonceKey, log, grants, claimed>>

-----------------------------------------------------------------------------
\* A staff request that set the marker of s leaves its last step.
BlockAnswered(s) ==
    \E h \in Handlers :
        /\ job[h].pc = "pass" /\ job[h].student = s /\ job[h].op # "reactivate"
        /\ job'[h] = Idle

\* A step of the card component.  Deleting a card row deletes its validations
\* (onDelete: Cascade).
CardStep ==
    /\ CardNext
    /\ log' = {e \in log : e.student \in enrolled'}
    /\ late' = {p \in late : p[2] \in retired'}
    /\ caught' = {p \in caught \union
                        {q \in Validations \X Students :
                            /\ val[q[1]].pc = "screen" /\ val[q[1]].student = q[2]
                            /\ BlockAnswered(q[2])} : marker'[p[2]]}
    /\ UNCHANGED <<tap, nonceKey, val, grants, claimed>>

ValidationStep(v) ==
    \/ ClaimNonce(v) \/ ReplayDenied(v)
    \/ LookupCard(v) \/ CardUnknown(v)
    \/ ScreenCard(v)
    \/ PersistDenied(v) \/ PersistGranted(v) \/ PersistFails(v)
    \/ Grant(v) \/ TouchFails(v)

Next ==
    \/ CardStep
    \/ \E n \in Nonces : Tap(n)
    \/ \E v \in Validations :
        \/ \E n \in Nonces : Receive(v, n)
        \/ ValidationStep(v)
        \/ AbortValidation(v)

Spec == Init /\ [][Next]_vars

\* A request the API accepted is carried on until it is answered.
FairSpec == Spec /\ \A v \in Validations : WF_vars(ValidationStep(v))

-----------------------------------------------------------------------------
(* Properties                                                              *)

\* One tap opens a given card's door once at most, however often the reader
\* sends the message and whatever becomes of the Redis nonce key: beyond its
\* expiry the unique nonce of CardValidation still stands in the way.
OneGrantPerTap == \A n \in Nonces, s \in Students : grants[n][s] <= 1

\* The log is what happened: a "granted" answer has its success row in
\* CardValidation for as long as the student exists, a tap recorded as denied is
\* granted for no student who is still enrolled, and no row is of an erased
\* student, those of validations still in flight at the erasure included.
GrantsAreRecorded ==
    /\ \A n \in Nonces, s \in enrolled :
          grants[n][s] > 0 => [nonce |-> n, student |-> s, success |-> TRUE] \in log
    /\ \A e \in log, s \in enrolled : ~e.success => grants[e.nonce][s] = 0
    /\ \A e \in log : e.student \in enrolled

\* A validation that begins after a final revocation is refused for as long as
\* that card is not issued again - even when the marker has left Redis - and
\* one that had already read the row ACTIVE when the revocation or suspension
\* was answered is refused as long as the marker is there.
BlockedCardsRefused ==
    \A p \in late \union caught : val[p[1]].pc \notin {"accept", "touch"}

\* The nonce key outlives the time window in which its message is accepted: a
\* nonce is claimed a second time only by a handler that stalled until after
\* the window had closed (NONCE 60 s = 2 x 30 s of tolerance, bounds included).
NonceOutlivesWindow ==
    [][\A n \in claimed : nonceKey'[n] # nonceKey[n] => clock > tap[n].ts + Skew]_vars

\* Every validation is answered.
ValidationsAnswered == \A v \in Validations : val[v] # Rest ~> val[v] = Rest
=============================================================================

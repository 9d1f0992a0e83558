---------------------------- MODULE CardLifecycle ----------------------------
(***************************************************************************)
(* The life of a student card in apps/api: the Card row in Postgres, the   *)
(* rev:card marker in Redis that online readers consult, and the state of  *)
(* the Google Wallet pass.  Staff requests (issue, revoke, suspend,        *)
(* reactivate) and the student's "add to wallet" request are handlers of   *)
(* one or several Node instances: every `await` of cards.service.ts ends a *)
(* step here, so handlers on the same card interleave between their read,  *)
(* their write, their Redis call and their wallet call.  No transaction    *)
(* and no status condition in the UPDATE ties these steps together.        *)
(*                                                                         *)
(* A card row keeps its id when the card is issued again (the row is       *)
(* updated), and a student has at most one row, so the student stands for  *)
(* the card id.  A deleted student never comes back: ids are never reused. *)
(***************************************************************************)
EXTENDS Integers, FiniteSets

CONSTANTS
    Students,          \* students, and through studentId @unique their card ids
    Uids,              \* NFC identifiers a card can carry (cardUid @unique)
    Handlers,          \* requests the API instances can process at one time
    Operations,        \* which requests this instance of the model receives
    Expiries,          \* expiresAt values an issue request can ask for
    Horizon,           \* bound of the clock
    WalletConfigured,  \* GOOGLE_WALLET_ISSUER_ID and its key are set
    None

IssueOps == {"issue", "walletIssue"}
StaffOps == {"revoke", "suspend", "reactivate"}
Status   == {"ACTIVE", "SUSPENDED", "REVOKED", "EXPIRED"}
Clock    == 0..Horizon

ASSUME HorizonAssumption    == Horizon \in Nat
ASSUME NoneAssumption       == None \notin Uids \union Students
ASSUME OperationsAssumption == Operations \subseteq IssueOps \union StaffOps
ASSUME ExpiriesAssumption   == Expiries \subseteq Nat
ASSUME WalletAssumption     == WalletConfigured \in BOOLEAN

VARIABLES
    clock,     \* wall clock, in units of NFC_TIMESTAMP_SKEW_MS
    enrolled,  \* students whose row exists
    card,      \* card[s]: the Card row of s, NoCard when there is none
    marker,    \* marker[s]: the Redis key rev:card:<id> exists
    pass,      \* pass[s]: state of the Google Wallet object, "absent" before it is saved
    linked,    \* students holding a "save to wallet" link
    job,       \* job[h]: the request handler h is processing
    retired    \* history: revoked, with no other status write pending at that moment

cardVars == <<clock, enrolled, card, marker, pass, linked, job, retired>>

NoCard  == [status |-> "NONE", uid |-> None, expires |-> 0]
CardRow == [status : Status, uid : Uids, expires : Nat]
Idle    == [pc |-> "idle", op |-> "none", student |-> None]
Job     == [pc : {"read", "create", "update", "write", "mark", "pass", "link"},
            op : IssueOps \union StaffOps, student : Students]

CardTypeOK ==
    /\ clock \in Clock
    /\ enrolled \subseteq Students
    /\ card \in [Students -> CardRow \union {NoCard}]
    /\ marker \in [Students -> BOOLEAN]
    /\ pass \in [Students -> {"absent", "ACTIVE", "INACTIVE", "EXPIRED"}]
    /\ linked \subseteq Students
    /\ job \in [Handlers -> Job \union {Idle}]
    /\ retired \subseteq Students

CardInit ==
    /\ clock = 0
    /\ enrolled = Students
    /\ card = [s \in Students |-> NoCard]
    /\ marker = [s \in Students |-> FALSE]
    /\ pass = [s \in Students |-> "absent"]
    /\ linked = {}
    /\ job = [h \in Handlers |-> Idle]
    /\ retired = {}

HasCard(s) == card[s].status # "NONE"

\* The unique index on cardUid accepts uid u in the row of s.
UidFree(u, s) == \A t \in Students \ {s} : card[t].uid # u

Goto(h, pc) == job' = [job EXCEPT ![h].pc = pc]
Answer(h)   == job' = [job EXCEPT ![h] = Idle]

\* Where a handler goes once issueCard returned or threw: the wallet request
\* swallows the exception and builds the link, the staff request answers.
AfterIssue(h) == IF job[h].op = "walletIssue" THEN Goto(h, "link") ELSE Answer(h)

-----------------------------------------------------------------------------
(* A request arrives.  The tenant check reads immutable data only (the     *)
(* university of a student), so it is not a step of its own.               *)

Begin(h, o, s) ==
    /\ job[h] = Idle
    /\ job' = [job EXCEPT ![h] = [pc |-> "read", op |-> o, student |-> s]]
    /\ UNCHANGED <<clock, enrolled, card, marker, pass, linked, retired>>

-----------------------------------------------------------------------------
(* issueCard                                                               *)

IssueReads(h) ==
    LET s == job[h].student IN
    /\ job[h].pc = "read" /\ job[h].op \in IssueOps
    /\ s \in enrolled
    /\ card[s].status # "ACTIVE"
    /\ Goto(h, IF HasCard(s) THEN "update" ELSE "create")
    /\ UNCHANGED <<clock, enrolled, card, marker, pass, linked, retired>>

\* 404 for an unknown student, 409 when the card is ACTIVE.
IssueRefused(h) ==
    LET s == job[h].student IN
    /\ job[h].pc = "read" /\ job[h].op \in IssueOps
    /\ s \notin enrolled \/ card[s].status = "ACTIVE"
    /\ AfterIssue(h)
    /\ UNCHANGED <<clock, enrolled, card, marker, pass, linked, retired>>

\* Fault: the INSERT does not need the student (no foreign key).
WritableNoForeignKey(h) ==
    LET s == job[h].student IN
    \/ job[h].pc = "create" /\ ~HasCard(s)
    \/ job[h].pc = "update" /\ HasCard(s)

\* The row the branch chosen at the read can be written: an INSERT needs the
\* student (foreign key) and no row, an UPDATE needs the row.
Writable(h) ==
    LET s == job[h].student IN
    \/ job[h].pc = "create" /\ s \in enrolled /\ ~HasCard(s)
    \/ job[h].pc = "update" /\ HasCard(s)

\* The row becomes ACTIVE under a new uid and expiry.  The Redis marker and
\* the wallet pass are left as they are.
IssueWrites(h) ==
    LET s == job[h].student IN
    /\ job[h].pc \in {"create", "update"}
    /\ Writable(h)
    /\ \E u \in Uids, e \in Expiries :
        /\ UidFree(u, s)
        /\ card' = [card EXCEPT ![s] = [status |-> "ACTIVE", uid |-> u, expires |-> e]]
    /\ retired' = retired \ {s}
    /\ AfterIssue(h)
    /\ UNCHANGED <<clock, enrolled, marker, pass, linked>>

\* The database rejects the statement: row or student gone, second row for
\* the student, or a uid another card carries.
IssueRejected(h) ==
    LET s == job[h].student IN
    /\ job[h].pc \in {"create", "update"}
    /\ ~Writable(h) \/ \E u \in Uids : ~UidFree(u, s)
    /\ AfterIssue(h)
    /\ UNCHANGED <<clock, enrolled, card, marker, pass, linked, retired>>

\* buildGoogleWalletSaveUrl: a link for whatever card row exists, its status
\* is not looked at; the appearance patch does not touch the pass state.
BuildLink(h) ==
    LET s == job[h].student IN
    /\ job[h].pc = "link"
    /\ linked' = IF WalletConfigured /\ HasCard(s) THEN linked \union {s} ELSE linked
    /\ Answer(h)
    /\ UNCHANGED <<clock, enrolled, card, marker, pass, retired>>

-----------------------------------------------------------------------------
(* revokeCard, suspendCard, reactivateCard: read, write, marker, pass.     *)

\* Fault: reactivateCard accepts a revoked card too.
PermittedFromRevoked(op, status) ==
    \/ op = "revoke" /\ status \notin {"NONE", "REVOKED"}
    \/ op = "suspend" /\ status = "ACTIVE"
    \/ op = "reactivate" /\ status \in {"SUSPENDED", "REVOKED"}

\* Fault: suspendCard does not look at the status.
PermittedSuspendAny(op, status) ==
    \/ op = "revoke" /\ status \notin {"NONE", "REVOKED"}
    \/ op = "suspend" /\ status # "NONE"
    \/ op = "reactivate" /\ status = "SUSPENDED"

\* The precondition each function checks on the row it read.
Permitted(op, status) ==
    \/ op = "revoke" /\ status \notin {"NONE", "REVOKED"}
    \/ op = "suspend" /\ status = "ACTIVE"
    \/ op = "reactivate" /\ status = "SUSPENDED"

NewStatus == [revoke |-> "REVOKED", suspend |-> "SUSPENDED", reactivate |-> "ACTIVE"]
PassState == [revoke |-> "EXPIRED", suspend |-> "INACTIVE", reactivate |-> "ACTIVE"]

StaffReads(h) ==
    /\ job[h].pc = "read" /\ job[h].op \in StaffOps
    /\ Permitted(job[h].op, card[job[h].student].status)
    /\ Goto(h, "write")
    /\ UNCHANGED <<clock, enrolled, card, marker, pass, linked, retired>>

\* 404, 409 or 400.
StaffRefused(h) ==
    /\ job[h].pc = "read" /\ job[h].op \in StaffOps
    /\ ~Permitted(job[h].op, card[job[h].student].status)
    /\ Answer(h)
    /\ UNCHANGED <<clock, enrolled, card, marker, pass, linked, retired>>

\* Another handler is about to write the status of s on the strength of an
\* earlier read.
WritePending(h, s) == \E g \in Handlers \ {h} : job[g].pc = "write" /\ job[g].student = s

\* Fault: the status is written as an upsert, row or no row.
StaffUpserts(h) ==
    /\ job[h].pc = "write"
    /\ card' = [card EXCEPT ![job[h].student].status = NewStatus[job[h].op]]
    /\ Goto(h, "mark")
    /\ UNCHANGED <<clock, enrolled, marker, pass, linked, retired>>

\* UPDATE ... WHERE id: the status read before is not part of the condition.
StaffWrites(h) ==
    LET s == job[h].student IN
    /\ job[h].pc = "write"
    /\ HasCard(s)
    /\ card' = [card EXCEPT ![s].status = NewStatus[job[h].op]]
    /\ retired' = IF job[h].op = "revoke" /\ ~WritePending(h, s)
                  THEN retired \union {s} ELSE retired
    /\ Goto(h, "mark")
    /\ UNCHANGED <<clock, enrolled, marker, pass, linked>>

\* Fault: the error of the UPDATE is swallowed and nothing answers.
StaffRejectedSilently(h) ==
    /\ job[h].pc = "write"
    /\ ~HasCard(job[h].student)
    /\ UNCHANGED cardVars

\* The row disappeared after it was read.
StaffRejected(h) ==
    /\ job[h].pc = "write"
    /\ ~HasCard(job[h].student)
    /\ Answer(h)
    /\ UNCHANGED <<clock, enrolled, card, marker, pass, linked, retired>>

\* SETEX for revoke and suspend, DEL for reactivate.
StaffMarks(h) ==
    /\ job[h].pc = "mark"
    /\ marker' = [marker EXCEPT ![job[h].student] = job[h].op # "reactivate"]
    /\ Goto(h, "pass")
    /\ UNCHANGED <<clock, enrolled, card, pass, linked, retired>>

\* updateGoogleWalletPassState is best effort: the PATCH reaches Google or is
\* lost, and the request answers 200 either way.
StaffPatchesPass(h) ==
    LET s == job[h].student IN
    /\ job[h].pc = "pass"
    /\ \/ UNCHANGED pass
       \/ /\ WalletConfigured /\ pass[s] # "absent"
          /\ pass' = [pass EXCEPT ![s] = PassState[job[h].op]]
    /\ Answer(h)
    /\ UNCHANGED <<clock, enrolled, card, marker, linked, retired>>

\* The instance stops, or Postgres or Redis answers with an error: the steps
\* already taken stay, the others never happen.
Abort(h) ==
    /\ job[h] # Idle
    /\ Answer(h)
    /\ UNCHANGED <<clock, enrolled, card, marker, pass, linked, retired>>

-----------------------------------------------------------------------------
(* What happens to cards outside the staff requests.                       *)

\* Fault: the job compares with the start of the previous day.
ExpireCardsLate ==
    LET due == {s \in Students : card[s].status = "ACTIVE" /\ card[s].expires < clock - 1} IN
    /\ due # {}
    /\ card' = [s \in Students |->
                  IF s \in due THEN [card[s] EXCEPT !.status = "EXPIRED"] ELSE card[s]]
    /\ UNCHANGED <<clock, enrolled, marker, pass, linked, job, retired>>

\* The nightly job: one UPDATE over every ACTIVE card past its expiry.
ExpireCards ==
    LET due == {s \in Students : card[s].status = "ACTIVE" /\ card[s].expires < clock} IN
    /\ due # {}
    /\ card' = [s \in Students |->
                  IF s \in due THEN [card[s] EXCEPT !.status = "EXPIRED"] ELSE card[s]]
    /\ UNCHANGED <<clock, enrolled, marker, pass, linked, job, retired>>

\* gdprDeleteStudent: the student row goes, the card row with it (cascade).
EraseStudent(s) ==
    /\ s \in enrolled
    /\ enrolled' = enrolled \ {s}
    /\ card' = [card EXCEPT ![s] = NoCard]
    /\ retired' = retired \ {s}
    /\ UNCHANGED <<clock, marker, pass, linked, job>>

\* REVOKED_CARD_SECONDS (24 h) after SETEX, a delay far longer than the clock
\* of the model: it may end at any moment.
MarkerExpires(s) ==
    /\ marker[s]
    /\ marker' = [marker EXCEPT ![s] = FALSE]
    /\ UNCHANGED <<clock, enrolled, card, pass, linked, job, retired>>

\* The student opens the link: Google creates the object with the state
\* ACTIVE written in the link, whenever that happens.
SavePass(s) ==
    /\ s \in linked /\ pass[s] = "absent"
    /\ pass' = [pass EXCEPT ![s] = "ACTIVE"]
    /\ UNCHANGED <<clock, enrolled, card, marker, linked, job, retired>>

Tick ==
    /\ clock < Horizon
    /\ clock' = clock + 1
    /\ UNCHANGED <<enrolled, card, marker, pass, linked, job, retired>>

-----------------------------------------------------------------------------
HandlerStep(h) ==
    \/ IssueReads(h) \/ IssueRefused(h) \/ IssueWrites(h) \/ IssueRejected(h)
    \/ BuildLink(h)
    \/ StaffReads(h) \/ StaffRefused(h) \/ StaffWrites(h) \/ StaffRejected(h)
    \/ StaffMarks(h) \/ StaffPatchesPass(h)

CardNext ==
    \/ \E h \in Handlers :
        \/ \E o \in Operations, s \in Students : Begin(h, o, s)
        \/ HandlerStep(h)
        \/ Abort(h)
    \/ \E s \in Students : EraseStudent(s) \/ MarkerExpires(s) \/ SavePass(s)
    \/ ExpireCards
    \/ Tick

CardSpec == CardInit /\ [][CardNext]_cardVars

\* Node resumes every handler whose promise settled and the cron job fires
\* every night; nobody is obliged to send a request.
FairCardSpec ==
    /\ CardSpec
    /\ \A h \in Handlers : WF_cardVars(HandlerStep(h))
    /\ WF_cardVars(ExpireCards)

-----------------------------------------------------------------------------
(* One request at a time per card: the schedule the documented life cycle  *)
(* presumes.                                                               *)
OnePerCard ==
    \A g, h \in Handlers : job[g] # Idle /\ job[g].student = job[h].student => g = h

SerialSpec == CardInit /\ [][CardNext /\ OnePerCard']_cardVars

Documented ==
    INSTANCE CardStateMachine WITH status <- [s \in Students |-> card[s].status]

-----------------------------------------------------------------------------
(* Properties                                                              *)

\* A revocation that lands while no other status write on the card is pending
\* is final: whatever requests arrive afterwards, together or not, the row
\* stays REVOKED until a card is issued again or the student is erased
\* (cards.service.ts: "revoke: definitif").
RevocationIsFinal == \A s \in retired : card[s].status = "REVOKED"

\* Erasing a student is not undone by a request that read the student before:
\* no handler brings back a card row for a student who is gone.
ErasedStaysErased == \A s \in Students \ enrolled : card[s] = NoCard

\* With one request per card at a time, every change of a card's status is one
\* the documented life cycle allows.
FollowsLifecycle == Documented!Spec

\* Every request is answered, and a lapsed ACTIVE card does not stay so: the
\* nightly job (or a staff request) moves it.
RequestsAnswered  == \A h \in Handlers : job[h] # Idle ~> job[h] = Idle
LapsedCardsExpire ==
    \A s \in Students :
        (card[s].status = "ACTIVE" /\ card[s].expires < clock)
            ~> ~(card[s].status = "ACTIVE" /\ card[s].expires < clock)

\* What shared/enums.ts says of ACTIVE: valid and usable.  At rest, no ACTIVE
\* unexpired card is refused by the online readers because of a marker.
ActiveCardUsable ==
    \A s \in Students :
        (/\ \A h \in Handlers : job[h] = Idle
         /\ card[s].status = "ACTIVE" /\ card[s].expires >= clock)
            => ~marker[s]

\* What cards.service.ts says of a suspended card: it becomes ACTIVE again
\* through reactivate (the rows issueCard updates are revoked or expired ones).
SuspensionHolds ==
    [][\A s \in Students :
        card[s].status = "SUSPENDED" /\ card'[s].status = "ACTIVE" =>
            \E h \in Handlers :
                job[h].student = s /\ job[h].pc = "write" /\ job[h].op = "reactivate"]_cardVars
=============================================================================

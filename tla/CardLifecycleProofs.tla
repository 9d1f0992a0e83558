-------------------------- MODULE CardLifecycleProofs --------------------------
(***************************************************************************)
(* Theorems about CardLifecycle, for any number of students, uids and      *)
(* concurrent handlers.                                                    *)
(***************************************************************************)
EXTENDS CardLifecycle, TLAPS

\* The step a handler has reached determines which kind of request it serves.
JobsConsistent ==
    \A h \in Handlers :
        /\ job[h].pc \in {"write", "mark", "pass"} => job[h].op \in StaffOps
        /\ job[h].pc \in {"create", "update", "link"} => job[h].op \in IssueOps

CardTyped == CardTypeOK /\ JobsConsistent

LEMMA TypedInit == CardInit => CardTyped
BY HorizonAssumption
   DEF CardInit, CardTyped, CardTypeOK, JobsConsistent, Clock, Idle, NoCard

\* A handler that only moves on, or answers, keeps the job table typed.
LEMMA TypedJobs ==
    ASSUME CardTyped, NEW h \in Handlers, job[h] # Idle,
           \/ Answer(h)
           \/ \E pc \in {"create", "update", "link"} : job[h].op \in IssueOps /\ Goto(h, pc)
           \/ \E pc \in {"write", "mark", "pass"} : job[h].op \in StaffOps /\ Goto(h, pc)
    PROVE  job' \in [Handlers -> Job \union {Idle}] /\ JobsConsistent'
BY DEF CardTyped, CardTypeOK, JobsConsistent, Answer, Goto, Job, Idle, IssueOps, StaffOps

LEMMA TypedStep == CardTyped /\ [CardNext]_cardVars => CardTyped'
<1> SUFFICES ASSUME CardTyped, [CardNext]_cardVars PROVE CardTyped'
  OBVIOUS
<1> USE DEF CardTyped
<1>1. ASSUME NEW h \in Handlers, NEW o \in Operations, NEW s \in Students, Begin(h, o, s)
      PROVE  CardTyped'
  BY <1>1, OperationsAssumption DEF Begin, CardTypeOK, JobsConsistent, Job, Idle
<1>2. ASSUME NEW h \in Handlers, HandlerStep(h) \/ Abort(h)
      PROVE  CardTyped'
  <2>1. job[h] # Idle
    BY <1>2 DEF HandlerStep, IssueReads, IssueRefused, IssueWrites, IssueRejected, BuildLink,
                StaffReads, StaffRefused, StaffWrites, StaffRejected, StaffMarks,
                StaffPatchesPass, Abort, Idle
  <2>2. job[h].student \in Students /\ job[h].op \in IssueOps \union StaffOps
    BY <2>1 DEF CardTypeOK, Job
  <2>3. job' \in [Handlers -> Job \union {Idle}] /\ JobsConsistent'
    <3>1. \/ Answer(h)
          \/ \E pc \in {"create", "update", "link"} : job[h].op \in IssueOps /\ Goto(h, pc)
          \/ \E pc \in {"write", "mark", "pass"} : job[h].op \in StaffOps /\ Goto(h, pc)
      BY <1>2 DEF HandlerStep, IssueReads, IssueRefused, IssueWrites, IssueRejected, BuildLink,
                  StaffReads, StaffRefused, StaffWrites, StaffRejected, StaffMarks,
                  StaffPatchesPass, Abort, AfterIssue, JobsConsistent
    <3>2. QED  BY <2>1, <3>1, TypedJobs
  <2>4. CASE IssueWrites(h)
    BY <2>2, <2>3, <2>4, ExpiriesAssumption DEF IssueWrites, CardTypeOK, CardRow, Status
  <2>5. CASE StaffWrites(h)
    <3>1. NewStatus[job[h].op] \in Status
      BY <2>5 DEF StaffWrites, JobsConsistent, NewStatus, StaffOps, Status
    <3>2. card[job[h].student] \in CardRow
      BY <2>2, <2>5 DEF StaffWrites, CardTypeOK, HasCard, NoCard
    <3>3. card' \in [Students -> CardRow \union {NoCard}]
      BY <2>2, <2>5, <3>1, <3>2 DEF StaffWrites, CardTypeOK, CardRow
    <3>4. QED  BY <2>2, <2>3, <2>5, <3>3 DEF StaffWrites, CardTypeOK
  <2>6. CASE StaffPatchesPass(h)
    <3>1. PassState[job[h].op] \in {"ACTIVE", "INACTIVE", "EXPIRED"}
      BY <2>6 DEF StaffPatchesPass, JobsConsistent, PassState, StaffOps
    <3>2. QED  BY <2>2, <2>3, <2>6, <3>1 DEF StaffPatchesPass, CardTypeOK
  <2>7. CASE BuildLink(h)
    BY <2>2, <2>3, <2>7 DEF BuildLink, CardTypeOK
  <2>8. CASE StaffMarks(h)
    BY <2>2, <2>3, <2>8 DEF StaffMarks, CardTypeOK
  <2>9. CASE \/ IssueReads(h) \/ IssueRefused(h) \/ IssueRejected(h)
             \/ StaffReads(h) \/ StaffRefused(h) \/ StaffRejected(h) \/ Abort(h)
    BY <2>3, <2>9 DEF IssueReads, IssueRefused, IssueRejected, StaffReads, StaffRefused,
                      StaffRejected, Abort, CardTypeOK
  <2>10. QED  BY <1>2, <2>4, <2>5, <2>6, <2>7, <2>8, <2>9 DEF HandlerStep
<1>3. ASSUME NEW s \in Students, EraseStudent(s) \/ MarkerExpires(s) \/ SavePass(s)
      PROVE  CardTyped'
  BY <1>3 DEF EraseStudent, MarkerExpires, SavePass, CardTypeOK, JobsConsistent
<1>4. CASE ExpireCards
  <2>1. card' \in [Students -> CardRow \union {NoCard}]
    BY <1>4 DEF ExpireCards, CardTypeOK, CardRow, NoCard, Status
  <2>2. QED  BY <1>4, <2>1 DEF ExpireCards, CardTypeOK, JobsConsistent
<1>5. CASE Tick
  BY <1>5, HorizonAssumption DEF Tick, CardTypeOK, Clock, JobsConsistent
<1>6. CASE UNCHANGED cardVars
  BY <1>6 DEF cardVars, CardTypeOK, JobsConsistent
<1>7. QED  BY <1>1, <1>2, <1>3, <1>4, <1>5, <1>6 DEF CardNext

LEMMA CardTypedInvariant == CardSpec => []CardTyped
BY TypedInit, TypedStep, PTL DEF CardSpec

\* Every reachable state of the card component is well typed.
THEOREM CardTypeCorrect == CardSpec => []CardTypeOK
<1>1. CardTyped => CardTypeOK
  BY DEF CardTyped
<1>2. QED  BY <1>1, CardTypedInvariant, PTL

-----------------------------------------------------------------------------
(* Final revocations.  RevocationIsFinal alone is not inductive: it needs   *)
(* that no handler is left with a status write decided before the          *)
(* revocation.                                                             *)

FinalInv ==
    /\ RevocationIsFinal
    /\ \A h \in Handlers : job[h].pc = "write" => job[h].student \notin retired

LEMMA FinalInit == CardInit => FinalInv
BY DEF CardInit, FinalInv, RevocationIsFinal

\* A step that leaves cards and history alone and starts no status write.
LEMMA FinalQuiet ==
    ASSUME FinalInv, UNCHANGED <<card, retired>>,
           \A g \in Handlers : job'[g].pc = "write" => job'[g] = job[g]
    PROVE  FinalInv'
BY DEF FinalInv, RevocationIsFinal

LEMMA FinalStep == CardTyped /\ FinalInv /\ [CardNext]_cardVars => FinalInv'
<1> SUFFICES ASSUME CardTyped, FinalInv, [CardNext]_cardVars PROVE FinalInv'
  OBVIOUS
<1> USE DEF FinalInv, RevocationIsFinal
<1>1. ASSUME NEW h \in Handlers, NEW o \in Operations, NEW s \in Students, Begin(h, o, s)
      PROVE  FinalInv'
  <2>1. \A g \in Handlers : job'[g].pc = "write" => job'[g] = job[g]
    BY <1>1 DEF Begin, CardTyped, CardTypeOK
  <2>2. QED  BY <1>1, <2>1, FinalQuiet DEF Begin
<1>2. ASSUME NEW h \in Handlers, IssueReads(h) \/ IssueRefused(h) \/ IssueRejected(h)
                                 \/ BuildLink(h) \/ StaffRefused(h) \/ StaffRejected(h)
                                 \/ StaffMarks(h) \/ StaffPatchesPass(h) \/ Abort(h)
      PROVE  FinalInv'
  <2>1. \A g \in Handlers : job'[g].pc = "write" => job'[g] = job[g]
    <3>1. Answer(h) \/ \E pc \in {"create", "update", "link", "pass"} : Goto(h, pc)
      BY <1>2 DEF IssueReads, IssueRefused, IssueRejected, BuildLink, StaffRefused,
                  StaffRejected, StaffMarks, StaffPatchesPass, Abort, AfterIssue
    <3>2. QED  BY <3>1 DEF Answer, Goto, Idle, Job, CardTyped, CardTypeOK
  <2>2. UNCHANGED <<card, retired>>
    BY <1>2 DEF IssueReads, IssueRefused, IssueRejected, BuildLink, StaffRefused,
                StaffRejected, StaffMarks, StaffPatchesPass, Abort
  <2>3. QED  BY <2>1, <2>2, FinalQuiet
<1>3. ASSUME NEW h \in Handlers, IssueWrites(h)
      PROVE  FinalInv'
  <2> DEFINE s == job[h].student
  <2>1. \A g \in Handlers : job'[g].pc = "write" => job'[g] = job[g]
    <3>1. Answer(h) \/ Goto(h, "link")
      BY <1>3 DEF IssueWrites, AfterIssue
    <3>2. QED  BY <3>1 DEF Answer, Goto, Idle, Job, CardTyped, CardTypeOK
  <2>2. retired' = retired \ {s} /\ \A t \in Students \ {s} : card'[t] = card[t]
    BY <1>3 DEF IssueWrites, CardTyped, CardTypeOK
  <2>3. QED  BY <2>1, <2>2 DEF CardTyped, CardTypeOK
<1>4. ASSUME NEW h \in Handlers, StaffReads(h)
      PROVE  FinalInv'
  <2>1. job[h].student \notin retired
    BY <1>4 DEF StaffReads, Permitted
  <2>2. QED  BY <1>4, <2>1 DEF StaffReads, Goto, CardTyped, CardTypeOK
<1>5. ASSUME NEW h \in Handlers, StaffWrites(h)
      PROVE  FinalInv'
  <2> DEFINE s == job[h].student
  <2>1. s \notin retired /\ s \in Students
    BY <1>5 DEF StaffWrites, CardTyped, CardTypeOK, Job, Idle
  <2>2. job'[h].pc = "mark" /\ \A g \in Handlers \ {h} : job'[g] = job[g]
    BY <1>5 DEF StaffWrites, Goto, CardTyped, CardTypeOK
  <2>3. \A t \in Students \ {s} : card'[t] = card[t]
    BY <1>5, <2>1 DEF StaffWrites, CardTyped, CardTypeOK
  <2>4. \A t \in retired' : card'[t].status = "REVOKED"
    <3>1. job[h].op = "revoke" => card'[s].status = "REVOKED"
      BY <1>5, <2>1 DEF StaffWrites, NewStatus, CardTyped, CardTypeOK, CardRow, NoCard
    <3>2. QED  BY <1>5, <2>1, <2>3, <3>1 DEF StaffWrites, CardTyped, CardTypeOK
  <2>5. \A g \in Handlers : job'[g].pc = "write" => job'[g].student \notin retired'
    BY <1>5, <2>2 DEF StaffWrites, WritePending
  <2>6. QED  BY <2>4, <2>5
<1>6. ASSUME NEW s \in Students, EraseStudent(s) \/ MarkerExpires(s) \/ SavePass(s)
      PROVE  FinalInv'
  BY <1>6 DEF EraseStudent, MarkerExpires, SavePass, CardTyped, CardTypeOK
<1>7. CASE ExpireCards
  BY <1>7 DEF ExpireCards, CardTyped, CardTypeOK
<1>8. CASE Tick \/ UNCHANGED cardVars
  BY <1>8 DEF Tick, cardVars
<1>9. QED
  BY <1>1, <1>2, <1>3, <1>4, <1>5, <1>6, <1>7, <1>8 DEF CardNext, HandlerStep

LEMMA FinalInvariant == CardSpec => []FinalInv
BY CardTypedInvariant, FinalInit, FinalStep, PTL DEF CardSpec

\* A revocation that met no pending status write is final until the card is
\* issued again or the student erased, however many requests overlap.
THEOREM RevocationFinal == CardSpec => []RevocationIsFinal
<1>1. FinalInv => RevocationIsFinal
  BY DEF FinalInv
<1>2. QED  BY <1>1, FinalInvariant, PTL

-----------------------------------------------------------------------------
(* Erasure.  An UPDATE needs a row and an INSERT needs the student, so the *)
(* property carries itself once the rows are typed.                        *)

LEMMA ErasedStep == CardTyped /\ ErasedStaysErased /\ [CardNext]_cardVars => ErasedStaysErased'
<1> SUFFICES ASSUME CardTyped, ErasedStaysErased, [CardNext]_cardVars
             PROVE  ErasedStaysErased'
  OBVIOUS
<1> USE DEF ErasedStaysErased
<1>1. ASSUME NEW h \in Handlers, IssueWrites(h) \/ StaffWrites(h)
      PROVE  ErasedStaysErased'
  <2>1. job[h].student \in enrolled
    BY <1>1 DEF IssueWrites, StaffWrites, Writable, HasCard, NoCard, CardTyped, CardTypeOK, Job, Idle
  <2>2. \A t \in Students : t # job[h].student => card'[t] = card[t]
    BY <1>1 DEF IssueWrites, StaffWrites, CardTyped, CardTypeOK
  <2>3. QED  BY <1>1, <2>1, <2>2 DEF IssueWrites, StaffWrites
<1>2. ASSUME NEW s \in Students, EraseStudent(s)
      PROVE  ErasedStaysErased'
  BY <1>2 DEF EraseStudent, CardTyped, CardTypeOK
<1>3. CASE ExpireCards
  BY <1>3 DEF ExpireCards, NoCard
<1>4. CASE UNCHANGED <<card, enrolled>>
  BY <1>4
<1>5. QED
  BY <1>1, <1>2, <1>3, <1>4
     DEF CardNext, HandlerStep, Begin, IssueReads, IssueRefused, IssueRejected, BuildLink,
         StaffReads, StaffRefused, StaffRejected, StaffMarks, StaffPatchesPass, Abort,
         MarkerExpires, SavePass, Tick, cardVars

\* No request in flight brings a card back for a student who was erased.
THEOREM ErasedForGood == CardSpec => []ErasedStaysErased
<1>1. CardInit => ErasedStaysErased
  BY DEF CardInit, ErasedStaysErased
<1>2. QED  BY <1>1, ErasedStep, CardTypedInvariant, PTL DEF CardSpec

-----------------------------------------------------------------------------
(* The unique index on cardUid, seen from the handlers: no two cards share *)
(* a uid, although issueCard neither reads the uids in use nor coordinates  *)
(* with other issuing handlers.                                            *)

UidsDistinct ==
    \A s, t \in Students :
        s # t /\ HasCard(s) /\ HasCard(t) => card[s].uid # card[t].uid

LEMMA UidStep == CardTyped /\ UidsDistinct /\ [CardNext]_cardVars => UidsDistinct'
<1> SUFFICES ASSUME CardTyped, UidsDistinct, [CardNext]_cardVars PROVE UidsDistinct'
  OBVIOUS
<1> USE DEF UidsDistinct, HasCard
<1>1. ASSUME NEW h \in Handlers, IssueWrites(h)
      PROVE  UidsDistinct'
  <2> DEFINE s == job[h].student
  <2>1. PICK u \in Uids, e \in Expiries :
          /\ UidFree(u, s)
          /\ card' = [card EXCEPT ![s] = [status |-> "ACTIVE", uid |-> u, expires |-> e]]
    BY <1>1 DEF IssueWrites
  <2>2. \A t \in Students \ {s} : card'[t] = card[t] /\ card[t].uid # u
    BY <2>1 DEF UidFree, CardTyped, CardTypeOK
  <2>3. s \in Students => card'[s].uid = u
    BY <2>1 DEF CardTyped, CardTypeOK
  <2>4. QED  BY <2>2, <2>3
<1>2. ASSUME NEW h \in Handlers, StaffWrites(h)
      PROVE  UidsDistinct'
  <2>1. \A t \in Students : card'[t].uid = card[t].uid
    BY <1>2 DEF StaffWrites, CardTyped, CardTypeOK, CardRow, NoCard
  <2>2. \A t \in Students : HasCard(t)' => HasCard(t)
    BY <1>2 DEF StaffWrites, CardTyped, CardTypeOK
  <2>3. QED  BY <2>1, <2>2
<1>3. ASSUME NEW s \in Students, EraseStudent(s)
      PROVE  UidsDistinct'
  BY <1>3 DEF EraseStudent, NoCard, CardTyped, CardTypeOK
<1>4. CASE ExpireCards
  <2>1. \A t \in Students : card'[t].uid = card[t].uid /\ (HasCard(t)' => HasCard(t))
    BY <1>4 DEF ExpireCards, CardTyped, CardTypeOK, CardRow, NoCard
  <2>2. QED  BY <2>1
<1>5. CASE UNCHANGED card
  BY <1>5
<1>6. QED
  BY <1>1, <1>2, <1>3, <1>4, <1>5
     DEF CardNext, HandlerStep, Begin, IssueReads, IssueRefused, IssueRejected, BuildLink,
         StaffReads, StaffRefused, StaffRejected, StaffMarks, StaffPatchesPass, Abort,
         MarkerExpires, SavePass, Tick, cardVars

LEMMA UidInvariant == CardSpec => []UidsDistinct
<1>1. CardInit => UidsDistinct
  BY DEF CardInit, UidsDistinct, HasCard, NoCard
<1>2. QED  BY <1>1, UidStep, CardTypedInvariant, PTL DEF CardSpec

-----------------------------------------------------------------------------
(* With one request per card at a time the component implements the        *)
(* documented life cycle: what a handler read is still true, up to the     *)
(* expiry job and to an erasure, when it writes.                           *)

ReadStillTrue(h) ==
    LET status == card[job[h].student].status IN
    /\ job[h].pc \in {"create", "update"} => status # "ACTIVE"
    /\ job[h].pc = "write" =>
         \/ job[h].op = "revoke" /\ status # "REVOKED"
         \/ job[h].op = "suspend" /\ status \in {"ACTIVE", "EXPIRED", "NONE"}
         \/ job[h].op = "reactivate" /\ status \in {"SUSPENDED", "NONE"}

SerialInv == OnePerCard /\ \A h \in Handlers : ReadStillTrue(h)

LEMMA SerialInit == CardInit => SerialInv
BY DEF CardInit, SerialInv, OnePerCard, ReadStillTrue, Idle

LEMMA SerialStep ==
    CardTyped /\ SerialInv /\ [CardNext /\ OnePerCard']_cardVars => SerialInv'
<1> SUFFICES ASSUME CardTyped, SerialInv, [CardNext /\ OnePerCard']_cardVars
             PROVE  SerialInv'
  OBVIOUS
<1>1. CASE UNCHANGED cardVars
  BY <1>1 DEF cardVars, SerialInv, OnePerCard, ReadStillTrue
<1> SUFFICES ASSUME CardNext, OnePerCard' PROVE \A g \in Handlers : ReadStillTrue(g)'
  BY <1>1 DEF SerialInv
<1> SUFFICES ASSUME NEW g \in Handlers PROVE ReadStillTrue(g)'
  OBVIOUS
<1> DEFINE t == job[g].student
<1>2. ReadStillTrue(g)
  BY DEF SerialInv
<1>3. ASSUME NEW h \in Handlers, HandlerStep(h) \/ Abort(h), h # g
      PROVE  ReadStillTrue(g)'
  <2>1. job'[g] = job[g]
    BY <1>3 DEF HandlerStep, IssueReads, IssueRefused, IssueWrites, IssueRejected, BuildLink,
                StaffReads, StaffRefused, StaffWrites, StaffRejected, StaffMarks,
                StaffPatchesPass, Abort, AfterIssue, Answer, Goto, CardTyped, CardTypeOK
  <2>2. CASE job[g] = Idle
    BY <2>1, <2>2 DEF ReadStillTrue, Idle
  <2>3. CASE job[g] # Idle
    <3>1. t # job[h].student /\ t \in Students
      BY <1>3, <2>3 DEF SerialInv, OnePerCard, CardTyped, CardTypeOK, Job
    <3>2. card'[t] = card[t]
      BY <1>3, <3>1 DEF HandlerStep, IssueReads, IssueRefused, IssueWrites, IssueRejected,
                BuildLink, StaffReads, StaffRefused, StaffWrites, StaffRejected, StaffMarks,
                StaffPatchesPass, Abort, CardTyped, CardTypeOK
    <3>3. QED  BY <1>2, <2>1, <3>2 DEF ReadStillTrue
  <2>4. QED  BY <2>2, <2>3
<1>4. CASE IssueReads(g)
  BY <1>4 DEF IssueReads, Goto, ReadStillTrue, CardTyped, CardTypeOK, Job, Idle
<1>5. CASE StaffReads(g)
  BY <1>5 DEF StaffReads, Goto, Permitted, ReadStillTrue, CardTyped, CardTypeOK, Job, Idle
<1>6. CASE \/ IssueRefused(g) \/ IssueWrites(g) \/ IssueRejected(g) \/ BuildLink(g)
           \/ StaffRefused(g) \/ StaffWrites(g) \/ StaffRejected(g) \/ StaffMarks(g)
           \/ StaffPatchesPass(g) \/ Abort(g)
  <2>1. Answer(g) \/ \E pc \in {"link", "mark", "pass"} : Goto(g, pc)
    BY <1>6 DEF IssueRefused, IssueWrites, IssueRejected, BuildLink, StaffRefused, StaffWrites,
                StaffRejected, StaffMarks, StaffPatchesPass, Abort, AfterIssue
  <2>2. job'[g].pc \notin {"create", "update", "write"}
    BY <2>1 DEF Answer, Goto, Idle, Job, CardTyped, CardTypeOK
  <2>3. QED  BY <2>2 DEF ReadStillTrue
<1>7. ASSUME NEW h \in Handlers, NEW o \in Operations, NEW s \in Students, Begin(h, o, s)
      PROVE  ReadStillTrue(g)'
  <2>1. job'[g] = job[g] \/ job'[g].pc = "read"
    BY <1>7 DEF Begin, CardTyped, CardTypeOK
  <2>2. QED  BY <1>2, <1>7, <2>1 DEF Begin, ReadStillTrue
<1>8. ASSUME NEW s \in Students, EraseStudent(s)
      PROVE  ReadStillTrue(g)'
  <2>1. card'[s].status = "NONE" /\ \A r \in Students \ {s} : card'[r] = card[r]
    BY <1>8 DEF EraseStudent, NoCard, CardTyped, CardTypeOK
  <2>2. job[g] # Idle => t \in Students
    BY DEF CardTyped, CardTypeOK, Job
  <2>3. job' = job
    BY <1>8 DEF EraseStudent
  <2>4. CASE job[g] = Idle
    BY <2>3, <2>4 DEF ReadStillTrue, Idle
  <2>5. CASE job[g] # Idle
    <3>1. job[g].op \in StaffOps \/ job[g].pc # "write"
      BY DEF CardTyped, JobsConsistent
    <3>2. QED  BY <1>2, <2>1, <2>2, <2>3, <2>5, <3>1 DEF ReadStillTrue, StaffOps
  <2>6. QED  BY <2>4, <2>5
<1>9. CASE ExpireCards
  <2>1. job' = job
    BY <1>9 DEF ExpireCards
  <2>2. CASE job[g] = Idle
    BY <2>1, <2>2 DEF ReadStillTrue, Idle
  <2>3. CASE job[g] # Idle
    <3>1. t \in Students
      BY <2>3 DEF CardTyped, CardTypeOK, Job
    <3>2. \/ card'[t] = card[t]
          \/ card[t].status = "ACTIVE" /\ card'[t].status = "EXPIRED"
      BY <1>9, <3>1 DEF ExpireCards, CardTyped, CardTypeOK, CardRow, NoCard
    <3>3. QED  BY <1>2, <2>1, <3>2 DEF ReadStillTrue
  <2>4. QED  BY <2>2, <2>3
<1>10. CASE Tick \/ \E s \in Students : MarkerExpires(s) \/ SavePass(s)
  BY <1>2, <1>10 DEF Tick, MarkerExpires, SavePass, ReadStillTrue
<1>11. QED
  BY <1>3, <1>4, <1>5, <1>6, <1>7, <1>8, <1>9, <1>10 DEF CardNext, HandlerStep

\* A step that writes the status of one card, or of none, is a step of the
\* documented life cycle or leaves it where it is.
LEMMA SerialMapsStep ==
    CardTyped /\ SerialInv /\ [CardNext /\ OnePerCard']_cardVars
        => [Documented!Next]_([s \in Students |-> card[s].status])
<1> SUFFICES ASSUME CardTyped, SerialInv, [CardNext /\ OnePerCard']_cardVars
             PROVE  [Documented!Next]_([s \in Students |-> card[s].status])
  OBVIOUS
<1> DEFINE status == [s \in Students |-> card[s].status]
<1>1. CASE UNCHANGED card
  BY <1>1
<1>2. ASSUME NEW h \in Handlers, IssueWrites(h)
      PROVE  Documented!Next
  <2> DEFINE s == job[h].student
  <2>1. s \in Students /\ card[s].status # "ACTIVE"
    BY <1>2 DEF IssueWrites, SerialInv, ReadStillTrue, CardTyped, CardTypeOK, Job, Idle
  <2>2. status' = [status EXCEPT ![s] = "ACTIVE"]
    <3>1. card'[s].status = "ACTIVE" /\ \A r \in Students \ {s} : card'[r] = card[r]
      BY <1>2, <2>1 DEF IssueWrites, CardTyped, CardTypeOK
    <3>2. QED  BY <2>1, <3>1
  <2>3. QED
    BY <2>1, <2>2 DEF Documented!Next, Documented!Issue, Documented!Set
<1>3. ASSUME NEW h \in Handlers, StaffWrites(h)
      PROVE  Documented!Next
  <2> DEFINE s == job[h].student
  <2>1. s \in Students /\ card[s] \in CardRow /\ card[s].status # "NONE"
    BY <1>3 DEF StaffWrites, HasCard, CardTyped, CardTypeOK, Job, Idle, NoCard
  <2>2. status' = [status EXCEPT ![s] = NewStatus[job[h].op]]
    <3>1. /\ card'[s].status = NewStatus[job[h].op]
          /\ \A r \in Students \ {s} : card'[r] = card[r]
      BY <1>3, <2>1 DEF StaffWrites, CardTyped, CardTypeOK, CardRow
    <3>2. QED  BY <2>1, <3>1
  <2>3. \/ status[s] # "REVOKED" /\ status[s] # "NONE" /\ NewStatus[job[h].op] = "REVOKED"
        \/ status[s] \in {"ACTIVE", "EXPIRED"} /\ NewStatus[job[h].op] = "SUSPENDED"
        \/ status[s] = "SUSPENDED" /\ NewStatus[job[h].op] = "ACTIVE"
    BY <1>3, <2>1 DEF StaffWrites, SerialInv, ReadStillTrue, NewStatus
  <2>4. QED
    BY <2>1, <2>2, <2>3
       DEF Documented!Next, Documented!Revoke, Documented!Suspend, Documented!Reactivate,
           Documented!Set
<1>4. ASSUME NEW s \in Students, EraseStudent(s)
      PROVE  Documented!Next
  <2>1. status' = [status EXCEPT ![s] = "NONE"]
    <3>1. card'[s].status = "NONE" /\ \A r \in Students \ {s} : card'[r] = card[r]
      BY <1>4 DEF EraseStudent, NoCard, CardTyped, CardTypeOK
    <3>2. QED  BY <3>1
  <2>2. QED  BY <2>1 DEF Documented!Next, Documented!Erase, Documented!Set
<1>5. CASE ExpireCards
  <2> DEFINE due == {s \in Students : card[s].status = "ACTIVE" /\ card[s].expires < clock}
  <2>1. \A s \in Students : card'[s].status = IF s \in due THEN "EXPIRED" ELSE card[s].status
    BY <1>5 DEF ExpireCards, CardTyped, CardTypeOK, CardRow, NoCard
  <2>2. /\ \A s \in due : status[s] = "ACTIVE"
        /\ status' = [s \in Students |-> IF s \in due THEN "EXPIRED" ELSE status[s]]
    BY <2>1
  <2>3. QED  BY <2>2 DEF Documented!Next, Documented!Expire
<1>6. QED
  BY <1>1, <1>2, <1>3, <1>4, <1>5
     DEF CardNext, HandlerStep, Begin, IssueReads, IssueRefused, IssueRejected, BuildLink,
         StaffReads, StaffRefused, StaffRejected, StaffMarks, StaffPatchesPass, Abort,
         MarkerExpires, SavePass, Tick, cardVars

\* Handled one request per card at a time, cards live the documented life, for
\* any number of cards handled side by side.
THEOREM SerialImplementsDocumented == SerialSpec => FollowsLifecycle
<1>1. CardInit => Documented!Init
  BY DEF CardInit, NoCard, Documented!Init
<1>2. CardTyped /\ [CardNext /\ OnePerCard']_cardVars => CardTyped'
  BY TypedStep
<1>3. SerialSpec => [](CardTyped /\ SerialInv)
  BY TypedInit, <1>2, SerialInit, SerialStep, PTL DEF SerialSpec
<1>4. QED
  BY <1>1, <1>3, SerialMapsStep, PTL DEF SerialSpec, FollowsLifecycle, Documented!Spec
=============================================================================

------------------------ MODULE StudentAccountProofs ------------------------
(***************************************************************************)
(* Theorems about StudentAccount, for any number of establishments,        *)
(* students, links and concurrent handlers, and files of any length.       *)
(***************************************************************************)
EXTENDS StudentAccount, TLAPS

-----------------------------------------------------------------------------
(* Type correctness                                                        *)

InsertJob == [pc : {"insert"}, tenant : Tenants, number : Numbers, email : Emails, left : Left]
CheckJob  == [pc : {"check"}, tenant : Tenants, number : Numbers, email : Emails,
              left : 0..MaxRows]
InviteJob == [pc : {"invite"}, id : Ids, tenant : Tenants, left : Left]
MailJob   == [pc : {"mail"}, id : Ids, tenant : Tenants, left : Left, token : Tokens]
RowJob    == [pc : {"row"}, tenant : Tenants, left : 0..MaxRows]
AmendJob  == [pc : {"amend"}, id : Ids, tenant : Tenants, left : 0..MaxRows]
ActJob    == [pc : {"activate"}, id : Ids, token : Tokens, password : Passwords]
IdJob     == [pc : {"put", "hash", "delete"}, id : Ids]

\* What a handler remembers is settled by where it stands.
LEMMA JobShapes ==
    ASSUME StudentTypeOK, NEW h \in Handlers
    PROVE  /\ At(h, "insert") => job[h] \in InsertJob
           /\ At(h, "check") => job[h] \in CheckJob
           /\ At(h, "invite") => job[h] \in InviteJob
           /\ At(h, "mail") => job[h] \in MailJob
           /\ At(h, "row") => job[h] \in RowJob
           /\ At(h, "amend") => job[h] \in AmendJob
           /\ At(h, "activate") => job[h] \in ActJob
           /\ At(h, "put") \/ At(h, "hash") \/ At(h, "delete") => job[h] \in IdJob
BY DEF StudentTypeOK, Job, Idle, At, InsertJob, CheckJob, InviteJob, MailJob, RowJob, AmendJob,
       ActJob, IdJob

LEMMA JobUnion ==
    Job = InsertJob \union CheckJob \union InviteJob \union MailJob \union RowJob
            \union AmendJob \union ActJob \union IdJob
BY DEF Job, InsertJob, CheckJob, InviteJob, MailJob, RowJob, AmendJob, ActJob, IdJob

LEMMA TypedStart ==
    ASSUME StudentTypeOK, NEW h \in Handlers, NEW j \in Job, Start(h, j)
    PROVE  job' \in [Handlers -> Job \union {Idle}]
BY DEF StudentTypeOK, Start

LEMMA TypedAnswer ==
    ASSUME StudentTypeOK, NEW h \in Handlers, Answer(h)
    PROVE  job' \in [Handlers -> Job \union {Idle}]
BY DEF StudentTypeOK, Answer

\* Dealing with the next row of a file, or answering, keeps the jobs typed.
LEMMA TypedRowDone ==
    ASSUME StudentTypeOK, NEW h \in Handlers, job[h].tenant \in Tenants, job[h].left \in Left,
           RowDone(h)
    PROVE  job' \in [Handlers -> Job \union {Idle}]
<1>1. CASE job[h].left >= 0
  <2>1. [pc |-> "row", tenant |-> job[h].tenant, left |-> job[h].left] \in RowJob
    BY <1>1, MaxRowsAssumption DEF RowJob, Left
  <2>2. QED  BY <1>1, <2>1, JobUnion, TypedStart DEF RowDone
<1>2. CASE ~(job[h].left >= 0)
  BY <1>2, TypedAnswer DEF RowDone
<1>3. QED  BY <1>1, <1>2

LEMMA TypedInit == Init => StudentTypeOK
BY DEF Init, StudentTypeOK, NoRow, Idle

LEMMA TypedRequest ==
    ASSUME StudentTypeOK, NEW h \in Handlers, Request(h)
    PROVE  StudentTypeOK'
<1>1. ASSUME NEW t \in Tenants, NEW n \in Numbers, NEW e \in Emails, CreateReads(h, t, n, e)
      PROVE  StudentTypeOK'
  <2>1. [pc |-> "insert", tenant |-> t, number |-> n, email |-> e, left |-> -1] \in InsertJob
    BY MaxRowsAssumption DEF InsertJob, Left
  <2>2. QED  BY <1>1, <2>1, JobUnion, TypedStart DEF CreateReads, StudentTypeOK
<1>2. ASSUME NEW t \in Tenants, ImportStarts(h, t)
      PROVE  StudentTypeOK'
  <2>1. [pc |-> "row", tenant |-> t, left |-> MaxRows] \in RowJob
    BY MaxRowsAssumption DEF RowJob
  <2>2. QED  BY <1>2, <2>1, JobUnion, TypedStart DEF ImportStarts, StudentTypeOK
<1>3. ASSUME NEW k \in Tokens, NEW p \in Passwords, ActivateReads(h, k, p)
      PROVE  StudentTypeOK'
  <2>1. PICK i \in Ids : Start(h, [pc |-> "activate", id |-> i, token |-> k, password |-> p])
    BY <1>3 DEF ActivateReads
  <2>2. [pc |-> "activate", id |-> i, token |-> k, password |-> p] \in ActJob
    BY DEF ActJob
  <2>3. QED  BY <1>3, <2>1, <2>2, JobUnion, TypedStart DEF ActivateReads, StudentTypeOK
<1>4. ASSUME NEW i \in Ids, ResendReads(h, i)
      PROVE  StudentTypeOK'
  <2>1. [pc |-> "invite", id |-> i, tenant |-> row[i].tenant, left |-> -1] \in InviteJob
    BY <1>4, MaxRowsAssumption DEF ResendReads, Exists, StudentTypeOK, Row, InviteJob, Left
  <2>2. QED  BY <1>4, <2>1, JobUnion, TypedStart DEF ResendReads, StudentTypeOK
<1>5. ASSUME NEW i \in Ids, UploadReads(h, i) \/ EraseReads(h, i)
      PROVE  StudentTypeOK'
  <2>1. [pc |-> "put", id |-> i] \in IdJob /\ [pc |-> "delete", id |-> i] \in IdJob
    BY DEF IdJob
  <2>2. QED  BY <1>5, <2>1, JobUnion, TypedStart DEF UploadReads, EraseReads, StudentTypeOK
<1>6. QED  BY <1>1, <1>2, <1>3, <1>4, <1>5 DEF Request

\* The steps of a handler that has read an import's row or inserts one.
LEMMA TypedRowStep ==
    ASSUME StudentTypeOK, NEW h \in Handlers,
           \/ \E i \in Ids : Insert(h, i)
           \/ \E k \in Tokens : Invite(h, k)
           \/ \E n \in Numbers, e \in Emails : ImportFinds(h, n, e) \/ ImportMisses(h, n, e)
           \/ InsertRejected(h) \/ InviteRejected(h) \/ Mail(h)
           \/ ImportAmends(h) \/ ImportRejected(h) \/ ImportChecks(h) \/ ImportEnds(h)
    PROVE  StudentTypeOK'
<1>1. ASSUME NEW i \in Ids, Insert(h, i)
      PROVE  StudentTypeOK'
  <2>1. job[h] \in InsertJob
    BY <1>1, JobShapes DEF Insert
  <2>2. [pc |-> "invite", id |-> i, tenant |-> job[h].tenant, left |-> job[h].left] \in InviteJob
    BY <2>1 DEF InsertJob, InviteJob
  <2>3. [tenant |-> job[h].tenant, writer |-> job[h].tenant, number |-> job[h].number,
         email |-> job[h].email, password |-> None, token |-> None,
         fresh |-> FALSE, photo |-> FALSE] \in Row
    BY <2>1 DEF InsertJob, Row
  <2>4. job' \in [Handlers -> Job \union {Idle}]
    BY <1>1, <2>2, JobUnion, TypedStart DEF Insert
  <2>5. row' \in [Ids -> Row \union {NoRow}]
    BY <1>1, <2>3 DEF Insert, StudentTypeOK
  <2>6. QED  BY <1>1, <2>4, <2>5 DEF Insert, StudentTypeOK
<1>2. ASSUME NEW k \in Tokens, Invite(h, k)
      PROVE  StudentTypeOK'
  <2>1. job[h] \in InviteJob
    BY <1>2, JobShapes DEF Invite
  <2>2. [pc |-> "mail", id |-> job[h].id, tenant |-> job[h].tenant, left |-> job[h].left,
         token |-> k] \in MailJob
    BY <2>1 DEF InviteJob, MailJob
  <2>3. row[job[h].id] \in Row
    BY <1>2, <2>1 DEF Invite, Exists, StudentTypeOK, InviteJob
  <2>4. row' \in [Ids -> Row \union {NoRow}]
    BY <1>2, <2>1, <2>3 DEF Invite, StudentTypeOK, InviteJob, Row
  <2>5. job' \in [Handlers -> Job \union {Idle}]
    BY <1>2, <2>2, JobUnion, TypedStart DEF Invite
  <2>6. QED  BY <1>2, <2>4, <2>5 DEF Invite, StudentTypeOK
<1>3. ASSUME NEW n \in Numbers, NEW e \in Emails, ImportFinds(h, n, e)
      PROVE  StudentTypeOK'
  <2>1. job[h] \in RowJob
    BY <1>3, JobShapes DEF ImportFinds
  <2>2. PICK i \in Ids :
          Start(h, [pc |-> "amend", id |-> i, tenant |-> job[h].tenant, left |-> job[h].left - 1])
    BY <1>3 DEF ImportFinds, Matches
  <2>3. [pc |-> "amend", id |-> i, tenant |-> job[h].tenant, left |-> job[h].left - 1] \in AmendJob
    BY <1>3, <2>1, MaxRowsAssumption DEF ImportFinds, RowJob, AmendJob
  <2>4. QED  BY <1>3, <2>2, <2>3, JobUnion, TypedStart DEF ImportFinds, StudentTypeOK
<1>4. ASSUME NEW n \in Numbers, NEW e \in Emails, ImportMisses(h, n, e)
      PROVE  StudentTypeOK'
  <2>1. job[h] \in RowJob
    BY <1>4, JobShapes DEF ImportMisses
  <2>2. [pc |-> "check", tenant |-> job[h].tenant, number |-> n, email |-> e,
         left |-> job[h].left - 1] \in CheckJob
    BY <1>4, <2>1, MaxRowsAssumption DEF ImportMisses, RowJob, CheckJob
  <2>3. QED  BY <1>4, <2>2, JobUnion, TypedStart DEF ImportMisses, StudentTypeOK
<1>5. ASSUME InsertRejected(h) \/ InviteRejected(h) \/ Mail(h) \/ ImportRejected(h)
      PROVE  StudentTypeOK'
  <2>1. job[h].tenant \in Tenants /\ job[h].left \in Left
    BY <1>5, JobShapes, MaxRowsAssumption
       DEF InsertRejected, InviteRejected, Mail, ImportRejected, InsertJob, InviteJob, MailJob,
           AmendJob, Left
  <2>2. Mail(h) => job[h].token \in Tokens
    BY JobShapes DEF Mail, MailJob
  <2>3. job' \in [Handlers -> Job \union {Idle}]
    BY <1>5, <2>1, TypedRowDone DEF InsertRejected, InviteRejected, Mail, ImportRejected
  <2>4. QED  BY <1>5, <2>2, <2>3
             DEF InsertRejected, InviteRejected, Mail, ImportRejected, StudentTypeOK
<1>6. CASE ImportAmends(h)
  <2>1. job[h] \in AmendJob
    BY <1>6, JobShapes DEF ImportAmends
  <2>2. row[job[h].id] \in Row
    BY <1>6, <2>1 DEF ImportAmends, Exists, StudentTypeOK, AmendJob
  <2>3. row' \in [Ids -> Row \union {NoRow}]
    BY <1>6, <2>1, <2>2 DEF ImportAmends, StudentTypeOK, AmendJob, Row
  <2>4. job[h].tenant \in Tenants /\ job[h].left \in Left
    BY <2>1, MaxRowsAssumption DEF AmendJob, Left
  <2>5. job' \in [Handlers -> Job \union {Idle}]
    BY <1>6, <2>4, TypedRowDone DEF ImportAmends
  <2>6. QED  BY <1>6, <2>3, <2>5 DEF ImportAmends, StudentTypeOK
<1>7. CASE ImportChecks(h)
  <2>1. job[h] \in CheckJob
    BY <1>7, JobShapes DEF ImportChecks
  <2>2. [job[h] EXCEPT !.pc = "insert"] \in InsertJob
    BY <2>1, MaxRowsAssumption DEF CheckJob, InsertJob, Left
  <2>3. job[h].tenant \in Tenants /\ job[h].left \in Left
    BY <2>1, MaxRowsAssumption DEF CheckJob, Left
  <2>4. job' \in [Handlers -> Job \union {Idle}]
    BY <1>7, <2>2, <2>3, JobUnion, TypedStart, TypedRowDone DEF ImportChecks
  <2>5. QED  BY <1>7, <2>4 DEF ImportChecks, StudentTypeOK
<1>8. CASE ImportEnds(h)
  BY <1>8, TypedAnswer DEF ImportEnds, StudentTypeOK
<1>9. QED  BY <1>1, <1>2, <1>3, <1>4, <1>5, <1>6, <1>7, <1>8

\* Activation, photo and erasure.
LEMMA TypedAccountStep ==
    ASSUME StudentTypeOK, NEW h \in Handlers,
           \/ ActivateWrites(h) \/ ActivateRejected(h)
           \/ UploadPuts(h) \/ UploadRecords(h) \/ UploadRejected(h)
           \/ EraseDeletes(h) \/ EraseRejected(h)
    PROVE  StudentTypeOK'
<1>1. CASE ActivateWrites(h)
  <2>1. job[h] \in ActJob
    BY <1>1, JobShapes DEF ActivateWrites
  <2>2. row[job[h].id] \in Row
    BY <1>1, <2>1 DEF ActivateWrites, Exists, StudentTypeOK, ActJob
  <2>3. row' \in [Ids -> Row \union {NoRow}]
    BY <1>1, <2>1, <2>2 DEF ActivateWrites, StudentTypeOK, ActJob, Row
  <2>4. job' \in [Handlers -> Job \union {Idle}]
    BY <1>1, TypedAnswer DEF ActivateWrites
  <2>5. spent' \subseteq Tokens /\ settled' \in [Ids -> Passwords \union {None}]
    BY <1>1, <2>1 DEF ActivateWrites, StudentTypeOK, ActJob
  <2>6. QED  BY <1>1, <2>3, <2>4, <2>5 DEF ActivateWrites, StudentTypeOK
<1>2. CASE UploadPuts(h)
  <2>1. job[h] \in IdJob
    BY <1>2, JobShapes DEF UploadPuts
  <2>2. [job[h] EXCEPT !.pc = "hash"] \in IdJob
    BY <2>1 DEF IdJob
  <2>3. job' \in [Handlers -> Job \union {Idle}]
    BY <1>2, <2>2, JobUnion, TypedStart DEF UploadPuts
  <2>4. stored' \subseteq Ids
    BY <1>2, <2>1 DEF UploadPuts, StudentTypeOK, IdJob
  <2>5. QED  BY <1>2, <2>3, <2>4 DEF UploadPuts, StudentTypeOK
<1>3. CASE UploadRecords(h)
  <2>1. job[h] \in IdJob
    BY <1>3, JobShapes DEF UploadRecords
  <2>2. row[job[h].id] \in Row
    BY <1>3, <2>1 DEF UploadRecords, Exists, StudentTypeOK, IdJob
  <2>3. row' \in [Ids -> Row \union {NoRow}]
    BY <1>3, <2>1, <2>2 DEF UploadRecords, StudentTypeOK, IdJob, Row
  <2>4. QED  BY <1>3, <2>3, TypedAnswer DEF UploadRecords, StudentTypeOK
<1>4. CASE EraseDeletes(h)
  BY <1>4, TypedAnswer DEF EraseDeletes, StudentTypeOK
<1>5. CASE ActivateRejected(h) \/ UploadRejected(h) \/ EraseRejected(h)
  BY <1>5, TypedAnswer DEF ActivateRejected, UploadRejected, EraseRejected, StudentTypeOK
<1>6. QED  BY <1>1, <1>2, <1>3, <1>4, <1>5

LEMMA TypedAbort ==
    ASSUME StudentTypeOK, NEW h \in Handlers, Abort(h)
    PROVE  StudentTypeOK'
<1>1. At(h, "invite") => job[h].id \in Ids
  BY JobShapes DEF InviteJob
<1>2. QED  BY <1>1, TypedAnswer DEF Abort, StudentTypeOK

LEMMA TypedLapse ==
    ASSUME StudentTypeOK, NEW i \in Ids, LinkLapses(i)
    PROVE  StudentTypeOK'
<1>1. row[i] \in Row
  BY DEF LinkLapses, Exists, StudentTypeOK
<1>2. row' \in [Ids -> Row \union {NoRow}]
  BY <1>1 DEF LinkLapses, StudentTypeOK, Row
<1>3. QED  BY <1>2 DEF LinkLapses, StudentTypeOK

LEMMA TypedStep == StudentTypeOK /\ [Next]_vars => StudentTypeOK'
<1> SUFFICES ASSUME StudentTypeOK, [Next]_vars PROVE StudentTypeOK'
  OBVIOUS
<1>1. ASSUME NEW h \in Handlers, Request(h) \/ HandlerStep(h) \/ Abort(h)
      PROVE  StudentTypeOK'
  BY <1>1, TypedRequest, TypedRowStep, TypedAccountStep, TypedAbort DEF HandlerStep
<1>2. ASSUME NEW i \in Ids, LinkLapses(i)
      PROVE  StudentTypeOK'
  BY <1>2, TypedLapse
<1>3. CASE UNCHANGED vars
  BY <1>3 DEF vars, StudentTypeOK
<1>4. QED  BY <1>1, <1>2, <1>3 DEF Next

\* Every reachable state of the student accounts is well typed: no handler of
\* students.service.ts or student-auth.service.ts leaves half a row.
THEOREM StudentTypeCorrect == Spec => []StudentTypeOK
BY TypedInit, TypedStep, PTL DEF Spec

-----------------------------------------------------------------------------
(* Links                                                                   *)

\* Tokens in rows were drawn, and each is in one row only: a link leads to one
\* account, and the token of an activation in flight is in no other row.
LinkInv ==
    /\ \A i \in Ids : Exists(i) => i \in drawn /\ row[i].token \in drawn \union {None}
    /\ spent \subseteq drawn
    /\ \A i, j \in Ids :
         Exists(i) /\ Exists(j) /\ i # j /\ row[i].token # None => row[i].token # row[j].token
    /\ \A h \in Handlers : At(h, "activate") =>
         /\ job[h].token \in drawn
         /\ \A j \in Ids \ {job[h].id} : Exists(j) => row[j].token # job[h].token
    /\ SpentLinksStayDead

LEMMA LinkInit == Init => LinkInv
BY DEF Init, LinkInv, SpentLinksStayDead, Exists, At, NoRow, Idle

\* Only ActivateReads puts a handler at "activate".
LEMMA NoNewActivation ==
    ASSUME StudentTypeOK, NEW h \in Handlers,
           HandlerStep(h) \/ Abort(h)
             \/ (\E t \in Tenants, n \in Numbers, e \in Emails : CreateReads(h, t, n, e))
             \/ (\E t \in Tenants : ImportStarts(h, t))
             \/ (\E i \in Ids : ResendReads(h, i) \/ UploadReads(h, i) \/ EraseReads(h, i)),
           NEW g \in Handlers, At(g, "activate")'
    PROVE  job'[g] = job[g] /\ At(g, "activate")
<1> USE DEF At, Start, Answer, RowDone, Idle, StudentTypeOK
<1>1. CASE \E t \in Tenants, n \in Numbers, e \in Emails : CreateReads(h, t, n, e)
  BY <1>1 DEF CreateReads
<1>2. CASE \E t \in Tenants : ImportStarts(h, t)
  BY <1>2 DEF ImportStarts
<1>3. CASE \E i \in Ids : ResendReads(h, i) \/ UploadReads(h, i) \/ EraseReads(h, i)
  BY <1>3 DEF ResendReads, UploadReads, EraseReads
<1>4. CASE Abort(h)
  BY <1>4 DEF Abort
<1>5. CASE \E i \in Ids : Insert(h, i)
  BY <1>5 DEF Insert
<1>6. CASE InsertRejected(h) \/ InviteRejected(h) \/ Mail(h)
  BY <1>6 DEF InsertRejected, InviteRejected, Mail
<1>7. CASE \E k \in Tokens : Invite(h, k)
  BY <1>7 DEF Invite
<1>8. CASE \E n \in Numbers, e \in Emails : ImportFinds(h, n, e) \/ ImportMisses(h, n, e)
  BY <1>8 DEF ImportFinds, ImportMisses
<1>9. CASE ImportAmends(h) \/ ImportRejected(h) \/ ImportEnds(h)
  BY <1>9 DEF ImportAmends, ImportRejected, ImportEnds
<1>10. CASE ImportChecks(h)
  <2>1. job[h] \in CheckJob
    BY <1>10, JobShapes DEF ImportChecks
  <2>2. [job[h] EXCEPT !.pc = "insert"].pc = "insert"
    BY <2>1 DEF CheckJob
  <2>3. CASE Matches(job[h].tenant, job[h].number, job[h].email) = {}
    BY <1>10, <2>2, <2>3 DEF ImportChecks
  <2>4. CASE Matches(job[h].tenant, job[h].number, job[h].email) # {}
    BY <1>10, <2>4 DEF ImportChecks
  <2>5. QED  BY <2>3, <2>4
<1>11. CASE ActivateWrites(h) \/ ActivateRejected(h) \/ UploadRecords(h) \/ UploadRejected(h)
              \/ EraseDeletes(h) \/ EraseRejected(h)
  BY <1>11 DEF ActivateWrites, ActivateRejected, UploadRecords, UploadRejected, EraseDeletes,
               EraseRejected
<1>12. CASE UploadPuts(h)
  <2>1. job[h] \in IdJob
    BY <1>12, JobShapes DEF UploadPuts
  <2>2. [job[h] EXCEPT !.pc = "hash"].pc = "hash"
    BY <2>1 DEF IdJob
  <2>3. QED  BY <1>12, <2>2 DEF UploadPuts
<1>13. QED  BY <1>1, <1>2, <1>3, <1>4, <1>5, <1>6, <1>7, <1>8, <1>9, <1>10, <1>11, <1>12
            DEF HandlerStep

\* A step that writes no token into a row, spends none and starts no activation
\* keeps the links in order.
LEMMA LinkFrame ==
    ASSUME StudentTypeOK, StudentTypeOK', LinkInv, drawn \subseteq drawn', spent' = spent,
           \A i \in Ids : Exists(i)' =>
              /\ i \in drawn'
              /\ row'[i].token = None \/ (Exists(i) /\ row'[i].token = row[i].token),
           \A g \in Handlers : At(g, "activate")' => job'[g] = job[g] /\ At(g, "activate")
    PROVE  LinkInv'
<1>1. \A h \in Handlers : At(h, "activate") => job[h].token # None
  BY JobShapes, NoneUnusedAssumption DEF ActJob
<1>2. None \notin spent
  BY NoneUnusedAssumption DEF StudentTypeOK
<1>3. \A i \in Ids : Exists(i)' => i \in drawn' /\ row'[i].token \in drawn' \union {None}
  BY DEF LinkInv
<1>4. spent' \subseteq drawn'
  BY DEF LinkInv
<1>5. ASSUME NEW i \in Ids, NEW j \in Ids, Exists(i)', Exists(j)', i # j, row'[i].token # None
      PROVE  row'[i].token # row'[j].token
  BY <1>5 DEF LinkInv
<1>6. ASSUME NEW h \in Handlers, At(h, "activate")'
      PROVE  /\ job'[h].token \in drawn'
             /\ \A j \in Ids \ {job'[h].id} : Exists(j)' => row'[j].token # job'[h].token
  BY <1>1, <1>6 DEF LinkInv
<1>7. SpentLinksStayDead'
  BY <1>2 DEF LinkInv, SpentLinksStayDead
<1>8. QED  BY <1>3, <1>4, <1>5, <1>6, <1>7 DEF LinkInv

LEMMA LinkInsert ==
    ASSUME StudentTypeOK, StudentTypeOK', LinkInv, NEW h \in Handlers, NEW i \in Ids, Insert(h, i)
    PROVE  LinkInv'
<1>1. \A g \in Handlers : At(g, "activate")' => job'[g] = job[g] /\ At(g, "activate")
  BY NoNewActivation DEF HandlerStep
<1>2. row'[i].token = None /\ \A j \in Ids \ {i} : row'[j] = row[j]
  BY DEF Insert, StudentTypeOK
<1>3. \A j \in Ids : Exists(j)' =>
         /\ j \in drawn'
         /\ row'[j].token = None \/ (Exists(j) /\ row'[j].token = row[j].token)
  BY <1>2 DEF Exists, Insert, LinkInv
<1>4. QED  BY <1>1, <1>3, LinkFrame DEF Insert

\* A new link is a new token: no row and no activation has it.
LEMMA LinkInvite ==
    ASSUME StudentTypeOK, StudentTypeOK', LinkInv, NEW h \in Handlers, NEW k \in Tokens,
           Invite(h, k)
    PROVE  LinkInv'
<1> DEFINE i == job[h].id
<1>1. \A g \in Handlers : At(g, "activate")' => job'[g] = job[g] /\ At(g, "activate")
  BY NoNewActivation DEF HandlerStep
<1>2. i \in Ids /\ Exists(i) /\ k \notin drawn /\ k # None
  BY JobShapes, NoneUnusedAssumption DEF Invite, InviteJob
<1>3. row[i] \in Row
  BY <1>2 DEF Exists, StudentTypeOK
<1>4. row'[i].token = k /\ \A j \in Ids \ {i} : row'[j] = row[j]
  BY <1>2, <1>3 DEF Invite, StudentTypeOK, Row
<1>5. drawn' = drawn \union {k} /\ spent' = spent
  BY DEF Invite
<1>6. k \notin spent
  BY <1>2 DEF LinkInv
<1> HIDE DEF i
<1>7. \A j \in Ids : Exists(j)' => j \in drawn' /\ row'[j].token \in drawn' \union {None}
  BY <1>2, <1>4, <1>5 DEF LinkInv, Exists
<1>8. \A j \in Ids \ {i} : Exists(j)' => row'[j].token # k
  BY <1>2, <1>4 DEF LinkInv, Exists
<1>9. ASSUME NEW j \in Ids, NEW l \in Ids, Exists(j)', Exists(l)', j # l, row'[j].token # None
      PROVE  row'[j].token # row'[l].token
  BY <1>4, <1>8, <1>9 DEF LinkInv, Exists
<1>10. ASSUME NEW g \in Handlers, At(g, "activate")'
       PROVE  /\ job'[g].token \in drawn'
              /\ \A j \in Ids \ {job'[g].id} : Exists(j)' => row'[j].token # job'[g].token
  <2>1. job'[g] = job[g] /\ job[g].token \in drawn /\ job[g].token # k
    BY <1>1, <1>2, <1>10 DEF LinkInv
  <2>2. \A j \in Ids \ {job[g].id} : Exists(j) => row[j].token # job[g].token
    BY <1>1, <1>10 DEF LinkInv
  <2>3. QED  BY <1>4, <1>5, <2>1, <2>2 DEF Exists
<1>11. SpentLinksStayDead'
  BY <1>4, <1>5, <1>6 DEF LinkInv, SpentLinksStayDead, Exists
<1>12. spent' \subseteq drawn'
  BY <1>5 DEF LinkInv
<1>13. QED  BY <1>7, <1>9, <1>10, <1>11, <1>12 DEF LinkInv

\* The activation that begins has the token of the row it found.
LEMMA LinkActivateReads ==
    ASSUME StudentTypeOK, LinkInv, NEW h \in Handlers, NEW k \in Tokens, NEW p \in Passwords,
           ActivateReads(h, k, p)
    PROVE  LinkInv'
<1>1. PICK i \in Ids : /\ Exists(i) /\ row[i].token = k
                       /\ Start(h, [pc |-> "activate", id |-> i, token |-> k, password |-> p])
  BY DEF ActivateReads
<1>2. k # None /\ k \in drawn
  BY <1>1, NoneUnusedAssumption DEF LinkInv
<1>3. \A j \in Ids \ {i} : Exists(j) => row[j].token # k
  BY <1>1, <1>2 DEF LinkInv
<1>4. job'[h].id = i /\ job'[h].token = k /\ \A g \in Handlers \ {h} : job'[g] = job[g]
  BY <1>1 DEF Start, StudentTypeOK
<1>5. ASSUME NEW g \in Handlers, At(g, "activate")'
      PROVE  /\ job'[g].token \in drawn
             /\ \A j \in Ids \ {job'[g].id} : Exists(j) => row[j].token # job'[g].token
  BY <1>2, <1>3, <1>4, <1>5 DEF LinkInv, At
<1>6. row' = row /\ drawn' = drawn /\ spent' = spent
  BY DEF ActivateReads
<1>7. QED  BY <1>5, <1>6 DEF LinkInv, SpentLinksStayDead, Exists

\* The token that is spent is in no other row, and the row's own is cleared,
\* whichever it has by now.
LEMMA LinkActivateWrites ==
    ASSUME StudentTypeOK, LinkInv, NEW h \in Handlers, ActivateWrites(h)
    PROVE  LinkInv'
<1> DEFINE i == job[h].id
           k == job[h].token
<1>1. \A g \in Handlers : At(g, "activate")' => job'[g] = job[g] /\ At(g, "activate")
  BY NoNewActivation DEF HandlerStep
<1>2. At(h, "activate") /\ i \in Ids /\ Exists(i) /\ k \in Tokens
  BY JobShapes DEF ActivateWrites, ActJob
<1>3. row[i] \in Row
  BY <1>2 DEF Exists, StudentTypeOK
<1>4. row'[i].token = None /\ \A j \in Ids \ {i} : row'[j] = row[j]
  BY <1>2, <1>3 DEF ActivateWrites, StudentTypeOK, Row
<1>5. drawn' = drawn /\ spent' = spent \union {k}
  BY DEF ActivateWrites
<1>6. k \in drawn /\ \A j \in Ids \ {i} : Exists(j) => row[j].token # k
  BY <1>2 DEF LinkInv
<1>7. None \notin spent' /\ \A g \in Handlers : At(g, "activate") => job[g].token # None
  BY <1>2, <1>5, JobShapes, NoneUnusedAssumption DEF StudentTypeOK, ActJob
<1> HIDE DEF i, k
<1>8. \A j \in Ids : Exists(j)' => j \in drawn' /\ row'[j].token \in drawn' \union {None}
  BY <1>2, <1>4, <1>5 DEF LinkInv, Exists
<1>9. ASSUME NEW j \in Ids, NEW l \in Ids, Exists(j)', Exists(l)', j # l, row'[j].token # None
      PROVE  row'[j].token # row'[l].token
  BY <1>4, <1>9 DEF LinkInv, Exists
<1>10. ASSUME NEW g \in Handlers, At(g, "activate")'
       PROVE  /\ job'[g].token \in drawn'
              /\ \A j \in Ids \ {job'[g].id} : Exists(j)' => row'[j].token # job'[g].token
  <2>1. job'[g] = job[g] /\ job[g].token \in drawn /\ job[g].token # None
    BY <1>1, <1>7, <1>10 DEF LinkInv
  <2>2. \A j \in Ids \ {job[g].id} : Exists(j) => row[j].token # job[g].token
    BY <1>1, <1>10 DEF LinkInv
  <2>3. QED  BY <1>4, <1>5, <2>1, <2>2 DEF Exists
<1>11. SpentLinksStayDead'
  BY <1>4, <1>5, <1>6, <1>7 DEF LinkInv, SpentLinksStayDead, Exists
<1>12. spent' \subseteq drawn'
  BY <1>5, <1>6 DEF LinkInv
<1>13. QED  BY <1>8, <1>9, <1>10, <1>11, <1>12 DEF LinkInv

\* Amending, recording a photo, erasing and lapsing: no token is written.
LEMMA LinkRowKept ==
    ASSUME StudentTypeOK, StudentTypeOK', LinkInv, NEW h \in Handlers,
           ImportAmends(h) \/ UploadRecords(h) \/ EraseDeletes(h)
    PROVE  LinkInv'
<1> DEFINE i == job[h].id
<1>1. \A g \in Handlers : At(g, "activate")' => job'[g] = job[g] /\ At(g, "activate")
  BY NoNewActivation DEF HandlerStep
<1>2. i \in Ids /\ Exists(i)
  BY JobShapes DEF ImportAmends, UploadRecords, EraseDeletes, AmendJob, IdJob
<1>3. row[i] \in Row
  BY <1>2 DEF Exists, StudentTypeOK
<1>4. row'[i] # NoRow => row'[i].token = row[i].token
  BY <1>2, <1>3 DEF ImportAmends, UploadRecords, EraseDeletes, Exists, StudentTypeOK, Row
<1>5. \A j \in Ids \ {i} : row'[j] = row[j]
  BY DEF ImportAmends, UploadRecords, EraseDeletes, StudentTypeOK
<1>6. drawn' = drawn /\ spent' = spent
  BY DEF ImportAmends, UploadRecords, EraseDeletes
<1> HIDE DEF i
<1>7. \A j \in Ids : Exists(j)' =>
         /\ j \in drawn'
         /\ row'[j].token = None \/ (Exists(j) /\ row'[j].token = row[j].token)
  BY <1>2, <1>4, <1>5, <1>6 DEF Exists, LinkInv
<1>8. QED  BY <1>1, <1>6, <1>7, LinkFrame

LEMMA LinkLapse ==
    ASSUME StudentTypeOK, StudentTypeOK', LinkInv, NEW i \in Ids, LinkLapses(i)
    PROVE  LinkInv'
<1>1. row[i] \in Row
  BY DEF LinkLapses, Exists, StudentTypeOK
<1>2. \A j \in Ids : Exists(j)' => Exists(j) /\ row'[j].token = row[j].token
  BY <1>1 DEF LinkLapses, StudentTypeOK, Row, Exists
<1>3. \A g \in Handlers : At(g, "activate")' => job'[g] = job[g] /\ At(g, "activate")
  BY DEF LinkLapses, At
<1>4. QED  BY <1>2, <1>3, LinkFrame DEF LinkLapses, LinkInv

\* The steps that write no row.
LEMMA LinkQuiet ==
    ASSUME StudentTypeOK, StudentTypeOK', LinkInv, row' = row, drawn' = drawn, spent' = spent,
           \A g \in Handlers : At(g, "activate")' => job'[g] = job[g] /\ At(g, "activate")
    PROVE  LinkInv'
BY LinkFrame DEF LinkInv, Exists

LEMMA LinkStep == StudentTypeOK /\ LinkInv /\ [Next]_vars => LinkInv'
<1> SUFFICES ASSUME StudentTypeOK, LinkInv, [Next]_vars PROVE LinkInv'
  OBVIOUS
<1>1. StudentTypeOK'
  BY TypedStep
<1>2. ASSUME NEW h \in Handlers, Request(h)
      PROVE  LinkInv'
  <2>1. ASSUME NEW k \in Tokens, NEW p \in Passwords, ActivateReads(h, k, p)
        PROVE  LinkInv'
    BY <2>1, LinkActivateReads
  <2>2. CASE \E t \in Tenants, n \in Numbers, e \in Emails : CreateReads(h, t, n, e)
    BY <1>1, <2>2, NoNewActivation, LinkQuiet DEF CreateReads
  <2>3. CASE \E t \in Tenants : ImportStarts(h, t)
    BY <1>1, <2>3, NoNewActivation, LinkQuiet DEF ImportStarts
  <2>4. CASE \E i \in Ids : ResendReads(h, i) \/ UploadReads(h, i) \/ EraseReads(h, i)
    BY <1>1, <2>4, NoNewActivation, LinkQuiet DEF ResendReads, UploadReads, EraseReads
  <2>5. QED  BY <1>2, <2>1, <2>2, <2>3, <2>4 DEF Request
<1>3. ASSUME NEW h \in Handlers, HandlerStep(h)
      PROVE  LinkInv'
  <2> DEFINE Kept == \A g \in Handlers :
                        At(g, "activate")' => job'[g] = job[g] /\ At(g, "activate")
  <2>1. Kept
    BY <1>3, NoNewActivation
  <2>2. CASE \E i \in Ids : Insert(h, i)
    BY <1>1, <2>2, LinkInsert
  <2>3. CASE \E k \in Tokens : Invite(h, k)
    BY <1>1, <2>3, LinkInvite
  <2>4. CASE ActivateWrites(h)
    BY <2>4, LinkActivateWrites
  <2>5. CASE ImportAmends(h) \/ UploadRecords(h) \/ EraseDeletes(h)
    BY <1>1, <2>5, LinkRowKept
  <2>6. CASE \/ InsertRejected(h) \/ InviteRejected(h) \/ Mail(h)
             \/ ImportRejected(h) \/ ImportChecks(h) \/ ImportEnds(h)
             \/ ActivateRejected(h) \/ UploadPuts(h) \/ UploadRejected(h) \/ EraseRejected(h)
    <3>1. row' = row /\ drawn' = drawn /\ spent' = spent
      BY <2>6 DEF InsertRejected, InviteRejected, Mail, ImportRejected, ImportChecks, ImportEnds,
                  ActivateRejected, UploadPuts, UploadRejected, EraseRejected
    <3>2. QED  BY <1>1, <2>1, <3>1, LinkQuiet
  <2>7. CASE \E n \in Numbers, e \in Emails : ImportFinds(h, n, e) \/ ImportMisses(h, n, e)
    BY <1>1, <2>1, <2>7, LinkQuiet DEF ImportFinds, ImportMisses
  <2>8. QED  BY <1>3, <2>2, <2>3, <2>4, <2>5, <2>6, <2>7 DEF HandlerStep
<1>4. ASSUME NEW h \in Handlers, Abort(h)
      PROVE  LinkInv'
  BY <1>1, <1>4, NoNewActivation, LinkQuiet DEF Abort
<1>5. ASSUME NEW i \in Ids, LinkLapses(i)
      PROVE  LinkInv'
  BY <1>1, <1>5, LinkLapse
<1>6. CASE UNCHANGED vars
  BY <1>6 DEF vars, LinkInv, SpentLinksStayDead, Exists, At
<1>7. QED  BY <1>2, <1>3, <1>4, <1>5, <1>6 DEF Next

\* However activations, new links and imports overlap, a link that served an
\* activation opens the account no more (student-auth.service.ts, activate).
THEOREM SpentLinksDead == Spec => []SpentLinksStayDead
<1>1. StudentTypeOK /\ LinkInv /\ [Next]_vars => StudentTypeOK' /\ LinkInv'
  BY TypedStep, LinkStep
<1>2. LinkInv => SpentLinksStayDead
  BY DEF LinkInv
<1>3. QED  BY <1>1, <1>2, TypedInit, LinkInit, PTL DEF Spec

-----------------------------------------------------------------------------
(* Accounts and their establishments                                       *)

\* An import about to amend has found a row of its own establishment, and an
\* upload about to record the hash has put the object.
AccountInv ==
    /\ OneAccountPerPerson /\ TenantsKeepTheirOwn /\ PhotoHasObject
    /\ \A h \in Handlers : At(h, "amend") =>
         /\ job[h].id \in drawn
         /\ Exists(job[h].id) => row[job[h].id].tenant = job[h].tenant
    /\ \A h \in Handlers : At(h, "hash") => job[h].id \in stored

LEMMA AccountInit == Init => AccountInv
BY DEF Init, AccountInv, OneAccountPerPerson, TenantsKeepTheirOwn, PhotoHasObject, Exists, At,
       NoRow, Idle

\* Only ImportFinds leads to "amend", and only UploadPuts to "hash".
LEMMA NoNewWrite ==
    ASSUME StudentTypeOK, NEW h \in Handlers, Request(h) \/ HandlerStep(h) \/ Abort(h),
           NEW g \in Handlers, At(g, "amend")' \/ At(g, "hash")'
    PROVE  \/ job'[g] = job[g]
           \/ g = h /\ \E n \in Numbers, e \in Emails : ImportFinds(h, n, e)
           \/ g = h /\ UploadPuts(h)
<1> USE DEF At, Start, Answer, RowDone, Idle, StudentTypeOK
<1>1. CASE Request(h)
  BY <1>1 DEF Request, CreateReads, ImportStarts, ActivateReads, ResendReads, UploadReads, EraseReads
<1>2. CASE Abort(h)
  BY <1>2 DEF Abort
<1>3. CASE \E i \in Ids : Insert(h, i)
  BY <1>3 DEF Insert
<1>4. CASE InsertRejected(h) \/ InviteRejected(h) \/ Mail(h)
  BY <1>4 DEF InsertRejected, InviteRejected, Mail
<1>5. CASE \E k \in Tokens : Invite(h, k)
  BY <1>5 DEF Invite
<1>6. CASE \E n \in Numbers, e \in Emails : ImportFinds(h, n, e)
  BY <1>6 DEF ImportFinds
<1>7. CASE \E n \in Numbers, e \in Emails : ImportMisses(h, n, e)
  BY <1>7 DEF ImportMisses
<1>8. CASE ImportAmends(h) \/ ImportRejected(h) \/ ImportEnds(h)
  BY <1>8 DEF ImportAmends, ImportRejected, ImportEnds
<1>9. CASE ImportChecks(h)
  <2>1. job[h] \in CheckJob
    BY <1>9, JobShapes DEF ImportChecks
  <2>2. [job[h] EXCEPT !.pc = "insert"].pc = "insert"
    BY <2>1 DEF CheckJob
  <2>3. CASE Matches(job[h].tenant, job[h].number, job[h].email) = {}
    BY <1>9, <2>2, <2>3 DEF ImportChecks
  <2>4. CASE Matches(job[h].tenant, job[h].number, job[h].email) # {}
    BY <1>9, <2>4 DEF ImportChecks
  <2>5. QED  BY <2>3, <2>4
<1>10. CASE ActivateWrites(h) \/ ActivateRejected(h) \/ UploadRecords(h) \/ UploadRejected(h)
              \/ EraseDeletes(h) \/ EraseRejected(h)
  BY <1>10 DEF ActivateWrites, ActivateRejected, UploadRecords, UploadRejected, EraseDeletes,
               EraseRejected
<1>11. CASE UploadPuts(h)
  BY <1>11 DEF UploadPuts
<1>12. QED  BY <1>1, <1>2, <1>3, <1>4, <1>5, <1>6, <1>7, <1>8, <1>9, <1>10, <1>11
            DEF HandlerStep

\* A step that moves no row to another place, neither writes on another's
\* behalf nor records a photo, keeps the accounts in order.
LEMMA AccountFrame ==
    ASSUME AccountInv, drawn \subseteq drawn', stored \subseteq stored',
           \A i \in Ids : Exists(i)' =>
              /\ Exists(i)
              /\ row'[i].tenant = row[i].tenant /\ row'[i].writer = row[i].writer
              /\ row'[i].number = row[i].number /\ row'[i].email = row[i].email
              /\ row'[i].photo => row[i].photo \/ i \in stored',
           \A g \in Handlers : At(g, "amend")' => job'[g].id \in Ids,
           \A g \in Handlers : At(g, "amend")' \/ At(g, "hash")' => job'[g] = job[g]
    PROVE  AccountInv'
<1>1. OneAccountPerPerson'
  BY DEF AccountInv, OneAccountPerPerson
<1>2. TenantsKeepTheirOwn'
  BY DEF AccountInv, TenantsKeepTheirOwn
<1>3. PhotoHasObject'
  BY DEF AccountInv, PhotoHasObject
<1>4. ASSUME NEW h \in Handlers, At(h, "amend")'
      PROVE  /\ job'[h].id \in drawn'
             /\ row'[job'[h].id] # NoRow => row'[job'[h].id].tenant = job'[h].tenant
  BY <1>4 DEF AccountInv, At, Exists
<1>5. ASSUME NEW h \in Handlers, At(h, "hash")'
      PROVE  job'[h].id \in stored'
  BY <1>5 DEF AccountInv, At
<1>6. QED  BY <1>1, <1>2, <1>3, <1>4, <1>5 DEF AccountInv, Exists

\* The unique indexes let in the first of two that overlap, and a new id is
\* none an import has in hand.
LEMMA AccountInsert ==
    ASSUME StudentTypeOK, StudentTypeOK', LinkInv, AccountInv, NEW h \in Handlers, NEW i \in Ids,
           Insert(h, i)
    PROVE  AccountInv'
<1>1. ~Exists(i) /\ i \notin drawn
  BY DEF Insert, LinkInv
<1>2. row'[i] = [tenant |-> job[h].tenant, writer |-> job[h].tenant, number |-> job[h].number,
                 email |-> job[h].email, password |-> None, token |-> None,
                 fresh |-> FALSE, photo |-> FALSE]
  BY DEF Insert, StudentTypeOK
<1>3. \A j \in Ids \ {i} : row'[j] = row[j]
  BY DEF Insert, StudentTypeOK
<1>4. \A j \in Ids \ {i} : Exists(j) /\ row[j].tenant = job[h].tenant =>
         row[j].number # job[h].number /\ row[j].email # job[h].email
  BY DEF Insert, Matches
<1>5. OneAccountPerPerson'
  <2>1. SUFFICES ASSUME NEW a \in Ids, NEW b \in Ids, Exists(a)', Exists(b)',
                        row'[a].tenant = row'[b].tenant,
                        row'[a].number = row'[b].number \/ row'[a].email = row'[b].email
                 PROVE  a = b
    BY DEF OneAccountPerPerson
  <2>2. CASE a # i /\ b # i
    BY <1>3, <2>1, <2>2 DEF AccountInv, OneAccountPerPerson, Exists
  <2>3. CASE a = i /\ b # i
    BY <1>2, <1>3, <1>4, <2>1, <2>3 DEF Exists
  <2>4. CASE a # i /\ b = i
    BY <1>2, <1>3, <1>4, <2>1, <2>4 DEF Exists
  <2>5. QED  BY <2>2, <2>3, <2>4
<1>6. TenantsKeepTheirOwn'
  BY <1>2, <1>3 DEF AccountInv, TenantsKeepTheirOwn, Exists
<1>7. PhotoHasObject'
  BY <1>2, <1>3 DEF AccountInv, PhotoHasObject, Exists, Insert
<1>8. ASSUME NEW g \in Handlers, At(g, "amend")' \/ At(g, "hash")'
      PROVE  job'[g] = job[g]
  BY <1>8 DEF Insert, Start, At, StudentTypeOK
<1>9. ASSUME NEW g \in Handlers, At(g, "amend")'
      PROVE  /\ job'[g].id \in drawn'
             /\ row'[job'[g].id] # NoRow => row'[job'[g].id].tenant = job'[g].tenant
  <2>1. job'[g] = job[g] /\ At(g, "amend") /\ job[g].id \in Ids
    BY <1>8, <1>9, JobShapes DEF At, AmendJob
  <2>2. job[g].id \in drawn /\ job[g].id # i
    BY <1>1, <2>1 DEF AccountInv
  <2>3. QED  BY <1>3, <2>1, <2>2 DEF AccountInv, Insert, Exists
<1>10. ASSUME NEW g \in Handlers, At(g, "hash")'
       PROVE  job'[g].id \in stored'
  BY <1>8, <1>10 DEF AccountInv, At, Insert
<1>11. QED  BY <1>5, <1>6, <1>7, <1>9, <1>10 DEF AccountInv, Exists

\* A step writes the row its handler has in hand, which an import's amendment
\* found in its own establishment.
LEMMA AccountWrite ==
    ASSUME StudentTypeOK, StudentTypeOK', LinkInv, AccountInv, NEW h \in Handlers,
           \/ \E k \in Tokens : Invite(h, k)
           \/ ImportAmends(h) \/ ActivateWrites(h) \/ UploadRecords(h) \/ EraseDeletes(h)
    PROVE  AccountInv'
<1> DEFINE i == job[h].id
<1>1. i \in Ids /\ Exists(i)
  BY JobShapes DEF Invite, ImportAmends, ActivateWrites, UploadRecords, EraseDeletes, InviteJob,
                   AmendJob, ActJob, IdJob
<1>2. row[i] \in Row
  BY <1>1 DEF Exists, StudentTypeOK
<1>3. /\ \A j \in Ids \ {i} : row'[j] = row[j]
      /\ row'[i] # NoRow =>
           /\ row'[i].tenant = row[i].tenant /\ row'[i].writer \in {row[i].writer, row[i].tenant}
           /\ row'[i].number = row[i].number /\ row'[i].email = row[i].email
           /\ row'[i].photo => row[i].photo \/ i \in stored
  <2>1. CASE \E k \in Tokens : Invite(h, k)
    BY <1>1, <1>2, <2>1 DEF Invite, StudentTypeOK, Row
  <2>2. CASE ImportAmends(h)
    <3>1. job[h].tenant = row[i].tenant
      BY <1>1, <2>2 DEF ImportAmends, AccountInv
    <3>2. QED  BY <1>1, <1>2, <2>2, <3>1 DEF ImportAmends, StudentTypeOK, Row
  <2>3. CASE ActivateWrites(h)
    BY <1>1, <1>2, <2>3 DEF ActivateWrites, StudentTypeOK, Row
  <2>4. CASE UploadRecords(h)
    <3>1. i \in stored
      BY <2>4 DEF UploadRecords, AccountInv
    <3>2. QED  BY <1>1, <1>2, <2>4, <3>1 DEF UploadRecords, StudentTypeOK, Row
  <2>5. CASE EraseDeletes(h)
    BY <1>1, <2>5 DEF EraseDeletes, StudentTypeOK
  <2>6. QED  BY <2>1, <2>2, <2>3, <2>4, <2>5
<1>4. row[i].writer = row[i].tenant
  BY <1>1 DEF AccountInv, TenantsKeepTheirOwn
<1>5. drawn \subseteq drawn' /\ stored' = stored
  BY DEF Invite, ImportAmends, ActivateWrites, UploadRecords, EraseDeletes
<1>6. \A g \in Handlers : At(g, "amend")' \/ At(g, "hash")' => job'[g] = job[g]
  <2>1. HandlerStep(h) /\ ~UploadPuts(h)
          /\ ~ \E n \in Numbers, e \in Emails : ImportFinds(h, n, e)
    BY DEF HandlerStep, Invite, ImportAmends, ActivateWrites, UploadRecords, EraseDeletes,
           UploadPuts, ImportFinds, At
  <2>2. QED  BY <2>1, NoNewWrite
<1>7. \A g \in Handlers : At(g, "amend")' => job'[g].id \in Ids
  BY <1>6, JobShapes DEF At, AmendJob
<1> HIDE DEF i
<1>8. \A j \in Ids : Exists(j)' =>
         /\ Exists(j)
         /\ row'[j].tenant = row[j].tenant /\ row'[j].writer = row[j].writer
         /\ row'[j].number = row[j].number /\ row'[j].email = row[j].email
         /\ row'[j].photo => row[j].photo \/ j \in stored'
  BY <1>1, <1>3, <1>4, <1>5 DEF Exists
<1>9. QED  BY <1>5, <1>6, <1>7, <1>8, AccountFrame

LEMMA AccountQuiet ==
    ASSUME StudentTypeOK, AccountInv, row' = row, drawn' = drawn, stored \subseteq stored',
           \A g \in Handlers : At(g, "amend")' \/ At(g, "hash")' => job'[g] = job[g]
    PROVE  AccountInv'
<1>1. \A g \in Handlers : At(g, "amend")' => job'[g].id \in Ids
  BY JobShapes DEF At, AmendJob
<1>2. QED  BY <1>1, AccountFrame DEF Exists

\* What an import finds is a row of its establishment, drawn long since.
LEMMA AccountFinds ==
    ASSUME StudentTypeOK, LinkInv, AccountInv, NEW h \in Handlers, NEW n \in Numbers,
           NEW e \in Emails, ImportFinds(h, n, e)
    PROVE  AccountInv'
<1>1. PICK i \in Matches(job[h].tenant, n, e) :
         Start(h, [pc |-> "amend", id |-> i, tenant |-> job[h].tenant, left |-> job[h].left - 1])
  BY DEF ImportFinds
<1>2. i \in Ids /\ i \in drawn /\ row[i].tenant = job[h].tenant
  BY <1>1 DEF Matches, LinkInv
<1>3. /\ job'[h].pc = "amend" /\ job'[h].id = i /\ job'[h].tenant = job[h].tenant
      /\ \A g \in Handlers \ {h} : job'[g] = job[g]
  BY <1>1 DEF Start, StudentTypeOK
<1>4. row' = row /\ drawn' = drawn /\ stored' = stored
  BY DEF ImportFinds
<1>5. ASSUME NEW g \in Handlers, At(g, "amend")'
      PROVE  /\ job'[g].id \in drawn'
             /\ row'[job'[g].id] # NoRow => row'[job'[g].id].tenant = job'[g].tenant
  BY <1>2, <1>3, <1>4, <1>5 DEF AccountInv, At, Exists
<1>6. ASSUME NEW g \in Handlers, At(g, "hash")'
      PROVE  job'[g].id \in stored'
  BY <1>3, <1>4, <1>6 DEF AccountInv, At
<1>7. QED  BY <1>4, <1>5, <1>6 DEF AccountInv, OneAccountPerPerson, TenantsKeepTheirOwn,
                                   PhotoHasObject, Exists

LEMMA AccountPuts ==
    ASSUME StudentTypeOK, AccountInv, NEW h \in Handlers, UploadPuts(h)
    PROVE  AccountInv'
<1>1. job[h] \in IdJob
  BY JobShapes DEF UploadPuts
<1>2. /\ job'[h].pc = "hash" /\ job'[h].id = job[h].id
      /\ \A g \in Handlers \ {h} : job'[g] = job[g]
  BY <1>1 DEF UploadPuts, Start, StudentTypeOK, IdJob
<1>3. row' = row /\ drawn' = drawn /\ stored' = stored \union {job[h].id}
  BY DEF UploadPuts
<1>4. ASSUME NEW g \in Handlers, At(g, "hash")'
      PROVE  job'[g].id \in stored'
  BY <1>2, <1>3, <1>4 DEF AccountInv, At
<1>5. ASSUME NEW g \in Handlers, At(g, "amend")'
      PROVE  job'[g] = job[g]
  BY <1>2, <1>5 DEF At
<1>6. QED  BY <1>3, <1>4, <1>5 DEF AccountInv, OneAccountPerPerson, TenantsKeepTheirOwn,
                                   PhotoHasObject, Exists, At

LEMMA AccountStep ==
    StudentTypeOK /\ LinkInv /\ AccountInv /\ [Next]_vars => AccountInv'
<1> SUFFICES ASSUME StudentTypeOK, LinkInv, AccountInv, [Next]_vars PROVE AccountInv'
  OBVIOUS
<1>1. StudentTypeOK'
  BY TypedStep
<1>2. ASSUME NEW h \in Handlers, Request(h) \/ Abort(h)
      PROVE  AccountInv'
  <2>1. row' = row /\ drawn' = drawn /\ stored' = stored
    BY <1>2 DEF Request, Abort, CreateReads, ImportStarts, ActivateReads, ResendReads,
                UploadReads, EraseReads
  <2>2. ~UploadPuts(h) /\ ~ \E n \in Numbers, e \in Emails : ImportFinds(h, n, e)
    <3>1. CASE Request(h)
      <4>1. Free(h)
        BY <3>1 DEF Request, CreateReads, ImportStarts, ActivateReads, ResendReads, UploadReads,
                    EraseReads
      <4>2. QED  BY <4>1 DEF UploadPuts, ImportFinds, Free, At, Idle
    <3>2. CASE Abort(h)
      <4>1. job'[h] = Idle
        BY <3>2 DEF Abort, Answer, StudentTypeOK
      <4>2. ~UploadPuts(h)
        BY <4>1, JobShapes DEF UploadPuts, Start, StudentTypeOK, Idle, IdJob
      <4>3. ~ \E n \in Numbers, e \in Emails : ImportFinds(h, n, e)
        BY <4>1 DEF ImportFinds, Start, StudentTypeOK, Idle
      <4>4. QED  BY <4>2, <4>3
    <3>3. QED  BY <1>2, <3>1, <3>2
  <2>3. QED  BY <1>2, <2>1, <2>2, NoNewWrite, AccountQuiet
<1>3. ASSUME NEW h \in Handlers, HandlerStep(h)
      PROVE  AccountInv'
  <2>1. CASE \E i \in Ids : Insert(h, i)
    BY <1>1, <2>1, AccountInsert
  <2>2. CASE \/ \E k \in Tokens : Invite(h, k)
             \/ ImportAmends(h) \/ ActivateWrites(h) \/ UploadRecords(h) \/ EraseDeletes(h)
    BY <1>1, <2>2, AccountWrite
  <2>3. CASE \E n \in Numbers, e \in Emails : ImportFinds(h, n, e)
    BY <2>3, AccountFinds
  <2>4. CASE UploadPuts(h)
    BY <2>4, AccountPuts
  <2>5. CASE \/ InsertRejected(h) \/ InviteRejected(h) \/ Mail(h)
             \/ \E n \in Numbers, e \in Emails : ImportMisses(h, n, e)
             \/ ImportRejected(h) \/ ImportChecks(h) \/ ImportEnds(h)
             \/ ActivateRejected(h) \/ UploadRejected(h) \/ EraseRejected(h)
    <3>1. CASE UploadPuts(h) \/ \E n \in Numbers, e \in Emails : ImportFinds(h, n, e)
      BY <2>3, <2>4, <3>1
    <3>2. CASE ~UploadPuts(h) /\ ~ \E n \in Numbers, e \in Emails : ImportFinds(h, n, e)
      <4>1. row' = row /\ drawn' = drawn /\ stored' = stored
        BY <2>5 DEF InsertRejected, InviteRejected, Mail, ImportMisses, ImportRejected,
                    ImportChecks, ImportEnds, ActivateRejected, UploadRejected, EraseRejected
      <4>2. QED  BY <1>3, <3>2, <4>1, NoNewWrite, AccountQuiet
    <3>3. QED  BY <3>1, <3>2
  <2>6. QED  BY <1>3, <2>1, <2>2, <2>3, <2>4, <2>5 DEF HandlerStep
<1>4. ASSUME NEW i \in Ids, LinkLapses(i)
      PROVE  AccountInv'
  <2>1. row[i] \in Row
    BY <1>4 DEF LinkLapses, Exists, StudentTypeOK
  <2>2. \A j \in Ids : Exists(j)' =>
           /\ Exists(j)
           /\ row'[j].tenant = row[j].tenant /\ row'[j].writer = row[j].writer
           /\ row'[j].number = row[j].number /\ row'[j].email = row[j].email
           /\ row'[j].photo = row[j].photo
    BY <1>4, <2>1 DEF LinkLapses, StudentTypeOK, Row, Exists
  <2>3. \A g \in Handlers : At(g, "amend")' => job'[g].id \in Ids
    BY <1>4, JobShapes DEF LinkLapses, At, AmendJob
  <2>4. job' = job /\ drawn' = drawn /\ stored' = stored
    BY <1>4 DEF LinkLapses
  <2>5. QED  BY <2>2, <2>3, <2>4, AccountFrame
<1>5. CASE UNCHANGED vars
  BY <1>5 DEF vars, AccountInv, OneAccountPerPerson, TenantsKeepTheirOwn, PhotoHasObject,
              Exists, At
<1>6. QED  BY <1>2, <1>3, <1>4, <1>5 DEF Next

LEMMA AccountsInOrder == Spec => [](StudentTypeOK /\ LinkInv /\ AccountInv)
<1>1. Init => StudentTypeOK /\ LinkInv /\ AccountInv
  BY TypedInit, LinkInit, AccountInit
<1>2. StudentTypeOK /\ LinkInv /\ AccountInv /\ [Next]_vars =>
        StudentTypeOK' /\ LinkInv' /\ AccountInv'
  BY TypedStep, LinkStep, AccountStep
<1>3. QED  BY <1>1, <1>2, PTL DEF Spec

\* Whatever creations and imports overlap, an establishment has one account per
\* number and one per address (the unique indexes of the Student table).
THEOREM OnePerPerson == Spec => []OneAccountPerPerson
<1>1. AccountInv => OneAccountPerPerson
  BY DEF AccountInv
<1>2. QED  BY <1>1, AccountsInOrder, PTL

\* An import writes accounts of its own establishment only, although it looks
\* for the row in one step and amends it by id in another (importStudents).
THEOREM TenantsApart == Spec => []TenantsKeepTheirOwn
<1>1. AccountInv => TenantsKeepTheirOwn
  BY DEF AccountInv
<1>2. QED  BY <1>1, AccountsInOrder, PTL

\* The two together: one account per person, in the hands of its establishment.
THEOREM AccountsApart == Spec => []AccountsStayApart
<1>1. OneAccountPerPerson /\ TenantsKeepTheirOwn => AccountsStayApart
  BY DEF AccountsStayApart
<1>2. QED  BY <1>1, OnePerPerson, TenantsApart, PTL

\* The hash of a photo is recorded after its object, and no request takes the
\* object away (storeStudentPhoto).
THEOREM PhotosAreThere == Spec => []PhotoHasObject
<1>1. AccountInv => PhotoHasObject
  BY DEF AccountInv
<1>2. QED  BY <1>1, AccountsInOrder, PTL

-----------------------------------------------------------------------------
(* Entering an account                                                     *)

\* The password of an activation is recorded for a row that was drawn.
EntryInv ==
    /\ AccountsReachable /\ SettledPasswordsHold
    /\ \A i \in Ids : settled[i] # None => i \in drawn

LEMMA EntryInit == Init => EntryInv
BY DEF Init, EntryInv, AccountsReachable, SettledPasswordsHold, Exists, NoRow

\* A handler about to write a link stays there until it wrote it, found the
\* account gone, or was cut short.
LEMMA InviteStays ==
    ASSUME StudentTypeOK, NEW h \in Handlers, Request(h) \/ HandlerStep(h),
           NEW g \in Handlers, At(g, "invite")
    PROVE  \/ job'[g] = job[g]
           \/ g = h /\ InviteRejected(h)
           \/ g = h /\ \E k \in Tokens : Invite(h, k)
<1> USE DEF At, Start, Answer, RowDone, StudentTypeOK
<1>1. CASE Request(h)
  BY <1>1 DEF Request, CreateReads, ImportStarts, ActivateReads, ResendReads, UploadReads,
              EraseReads, Free, Idle
<1>2. CASE \/ \E i \in Ids : Insert(h, i)
           \/ InsertRejected(h) \/ Mail(h)
  BY <1>2 DEF Insert, InsertRejected, Mail
<1>3. CASE \E n \in Numbers, e \in Emails : ImportFinds(h, n, e) \/ ImportMisses(h, n, e)
  BY <1>3 DEF ImportFinds, ImportMisses
<1>4. CASE ImportAmends(h) \/ ImportRejected(h) \/ ImportChecks(h) \/ ImportEnds(h)
  BY <1>4 DEF ImportAmends, ImportRejected, ImportChecks, ImportEnds
<1>5. CASE ActivateWrites(h) \/ ActivateRejected(h) \/ UploadPuts(h) \/ UploadRecords(h)
             \/ UploadRejected(h) \/ EraseDeletes(h) \/ EraseRejected(h)
  BY <1>5 DEF ActivateWrites, ActivateRejected, UploadPuts, UploadRecords, UploadRejected,
              EraseDeletes, EraseRejected
<1>6. CASE InviteRejected(h) \/ \E k \in Tokens : Invite(h, k)
  BY <1>6 DEF InviteRejected, Invite
<1>7. QED  BY <1>1, <1>2, <1>3, <1>4, <1>5, <1>6 DEF HandlerStep

\* A step that withdraws neither password nor link, and leaves no handler's
\* "invite" undone, keeps the accounts open.
LEMMA EntryFrame ==
    ASSUME EntryInv, drawn \subseteq drawn', settled' = settled, stranded \subseteq stranded',
           \A i \in Ids : Exists(i)' =>
              /\ Exists(i) /\ row'[i].password = row[i].password
              /\ row'[i].token = None => row[i].token = None,
           \A g \in Handlers : At(g, "invite") =>
              \/ job'[g] = job[g]
              \/ job[g].id \in stranded'
              \/ row[job[g].id] = NoRow
              \/ row'[job[g].id].token # None
    PROVE  EntryInv'
<1>1. SettledPasswordsHold'
  BY DEF EntryInv, SettledPasswordsHold
<1>2. \A i \in Ids : settled'[i] # None => i \in drawn'
  BY DEF EntryInv
<1>3. ASSUME NEW i \in Ids, Exists(i)', row'[i].password = None, row'[i].token = None
      PROVE  i \in stranded' \/ \E h \in Handlers : At(h, "invite")' /\ job'[h].id = i
  <2>1. Exists(i) /\ (i \in stranded \/ \E h \in Handlers : At(h, "invite") /\ job[h].id = i)
    BY <1>3 DEF EntryInv, AccountsReachable
  <2>2. ASSUME NEW h \in Handlers, At(h, "invite"), job[h].id = i
        PROVE  job'[h] = job[h] \/ i \in stranded'
    BY <1>3, <2>1, <2>2 DEF Exists
  <2>3. QED  BY <2>1, <2>2 DEF At
<1>4. QED  BY <1>1, <1>2, <1>3 DEF EntryInv, AccountsReachable

LEMMA EntryInsert ==
    ASSUME StudentTypeOK, LinkInv, EntryInv, NEW h \in Handlers, NEW i \in Ids, Insert(h, i)
    PROVE  EntryInv'
<1>1. ~Exists(i) /\ i \notin drawn /\ settled[i] = None
  BY DEF Insert, LinkInv, EntryInv
<1>2. /\ \A j \in Ids \ {i} : row'[j] = row[j]
      /\ job'[h].pc = "invite" /\ job'[h].id = i
      /\ \A g \in Handlers \ {h} : job'[g] = job[g]
  BY DEF Insert, Start, StudentTypeOK
<1>3. At(h, "insert") /\ drawn' = drawn \union {i} /\ settled' = settled /\ stranded' = stranded
  BY DEF Insert
<1>4. SettledPasswordsHold'
  BY <1>1, <1>2, <1>3 DEF EntryInv, SettledPasswordsHold, Exists
<1>5. ASSUME NEW j \in Ids, Exists(j)', row'[j].password = None, row'[j].token = None
      PROVE  j \in stranded' \/ \E g \in Handlers : At(g, "invite")' /\ job'[g].id = j
  <2>1. CASE j = i
    BY <1>2, <2>1 DEF At
  <2>2. CASE j # i
    <3>1. j \in stranded \/ \E g \in Handlers : At(g, "invite") /\ job[g].id = j
      BY <1>2, <1>5, <2>2 DEF EntryInv, AccountsReachable, Exists
    <3>2. QED  BY <1>2, <1>3, <3>1 DEF At
  <2>3. QED  BY <2>1, <2>2
<1>6. QED  BY <1>3, <1>4, <1>5 DEF EntryInv, AccountsReachable

\* An activation leaves a password, and settles it when it met no other.
LEMMA EntryActivateWrites ==
    ASSUME StudentTypeOK, LinkInv, EntryInv, NEW h \in Handlers, ActivateWrites(h)
    PROVE  EntryInv'
<1> DEFINE i == job[h].id
           p == job[h].password
<1>1. i \in Ids /\ Exists(i) /\ p \in Passwords
  BY JobShapes DEF ActivateWrites, ActJob
<1>2. row[i] \in Row /\ i \in drawn
  BY <1>1 DEF Exists, StudentTypeOK, LinkInv
<1>3. /\ \A j \in Ids \ {i} : row'[j] = row[j] /\ settled'[j] = settled[j]
      /\ row'[i].password = p /\ settled'[i] \in {None, p}
  BY <1>1, <1>2 DEF ActivateWrites, StudentTypeOK, Row
<1>4. At(h, "activate") /\ stranded' = stranded /\ drawn' = drawn
        /\ \A g \in Handlers \ {h} : job'[g] = job[g]
  BY DEF ActivateWrites, Answer, StudentTypeOK
<1>5. p # None
  BY <1>1, NoneUnusedAssumption
<1> HIDE DEF i, p
<1>6. SettledPasswordsHold' /\ \A j \in Ids : settled'[j] # None => j \in drawn'
  BY <1>2, <1>3, <1>4 DEF EntryInv, SettledPasswordsHold, Exists
<1>7. ASSUME NEW j \in Ids, Exists(j)', row'[j].password = None, row'[j].token = None
      PROVE  j \in stranded' \/ \E g \in Handlers : At(g, "invite")' /\ job'[g].id = j
  <2>1. j # i /\ row'[j] = row[j]
    BY <1>3, <1>5, <1>7
  <2>2. j \in stranded \/ \E g \in Handlers : At(g, "invite") /\ job[g].id = j
    BY <1>7, <2>1 DEF EntryInv, AccountsReachable, Exists
  <2>3. QED  BY <1>4, <2>2 DEF At
<1>8. QED  BY <1>6, <1>7 DEF EntryInv, AccountsReachable

\* Amending, recording a photo, erasing and a new link: no password is touched.
LEMMA EntryWrite ==
    ASSUME StudentTypeOK, EntryInv, NEW h \in Handlers,
           \/ \E k \in Tokens : Invite(h, k)
           \/ ImportAmends(h) \/ UploadRecords(h) \/ EraseDeletes(h)
    PROVE  EntryInv'
<1> DEFINE i == job[h].id
<1>1. i \in Ids /\ Exists(i)
  BY JobShapes DEF Invite, ImportAmends, UploadRecords, EraseDeletes, InviteJob, AmendJob, IdJob
<1>2. row[i] \in Row
  BY <1>1 DEF Exists, StudentTypeOK
<1>3. /\ \A j \in Ids \ {i} : row'[j] = row[j]
      /\ row'[i] # NoRow => /\ row'[i].password = row[i].password
                            /\ row'[i].token = None => row[i].token = None
      /\ (\E k \in Tokens : Invite(h, k)) => row'[i].token # None
  <2>1. CASE \E k \in Tokens : Invite(h, k)
    BY <1>1, <1>2, <2>1, NoneUnusedAssumption DEF Invite, StudentTypeOK, Row
  <2>2. CASE ImportAmends(h) \/ UploadRecords(h) \/ EraseDeletes(h)
    <3>1. ~ \E k \in Tokens : Invite(h, k)
      BY <2>2 DEF Invite, ImportAmends, UploadRecords, EraseDeletes, At
    <3>2. QED  BY <1>1, <1>2, <2>2, <3>1 DEF ImportAmends, UploadRecords, EraseDeletes,
                                             StudentTypeOK, Row
  <2>3. QED  BY <2>1, <2>2
<1>4. drawn \subseteq drawn' /\ settled' = settled /\ stranded' = stranded
  BY DEF Invite, ImportAmends, UploadRecords, EraseDeletes
<1>5. \A g \in Handlers : At(g, "invite") => job'[g] = job[g] \/ row'[job[g].id].token # None
  <2>1. HandlerStep(h) /\ ~InviteRejected(h)
    BY <1>1 DEF HandlerStep, Invite, ImportAmends, UploadRecords, EraseDeletes, InviteRejected, At
  <2>2. QED  BY <1>3, <2>1, InviteStays
<1> HIDE DEF i
<1>6. \A j \in Ids : Exists(j)' =>
         /\ Exists(j) /\ row'[j].password = row[j].password
         /\ row'[j].token = None => row[j].token = None
  BY <1>1, <1>3 DEF Exists
<1>7. QED  BY <1>4, <1>5, <1>6, EntryFrame

\* The steps that write no row.
LEMMA EntryQuiet ==
    ASSUME StudentTypeOK, EntryInv, NEW h \in Handlers,
           \/ Request(h)
           \/ InsertRejected(h) \/ InviteRejected(h) \/ Mail(h)
           \/ \E n \in Numbers, e \in Emails : ImportFinds(h, n, e) \/ ImportMisses(h, n, e)
           \/ ImportRejected(h) \/ ImportChecks(h) \/ ImportEnds(h)
           \/ ActivateRejected(h) \/ UploadPuts(h) \/ UploadRejected(h) \/ EraseRejected(h)
    PROVE  EntryInv'
<1>1. row' = row /\ drawn' = drawn /\ settled' = settled /\ stranded' = stranded
  BY DEF Request, CreateReads, ImportStarts, ActivateReads, ResendReads, UploadReads, EraseReads,
         InsertRejected, InviteRejected, Mail, ImportFinds, ImportMisses, ImportRejected,
         ImportChecks, ImportEnds, ActivateRejected, UploadPuts, UploadRejected, EraseRejected
<1>2. \A g \in Handlers : At(g, "invite") => job'[g] = job[g] \/ row[job[g].id] = NoRow
  <2>1. ASSUME NEW k \in Tokens, Invite(h, k)
        PROVE  \A g \in Handlers : At(g, "invite") => job'[g] = job[g] \/ row[job[g].id] = NoRow
    <3>1. /\ job[h].id \in Ids /\ Exists(job[h].id) /\ row[job[h].id] \in Row
      BY <2>1, JobShapes DEF Invite, InviteJob, Exists, StudentTypeOK
    <3>2. row'[job[h].id].token = k /\ k \notin drawn /\ drawn' = drawn \union {k}
      BY <2>1, <3>1 DEF Invite, StudentTypeOK, Row
    <3>3. QED  BY <1>1, <3>2
  <2>2. CASE InviteRejected(h)
    BY <2>2 DEF InviteRejected, Exists, RowDone, Start, Answer, StudentTypeOK
  <2>3. CASE ~InviteRejected(h) /\ ~ \E k \in Tokens : Invite(h, k)
    <3>1. Request(h) \/ HandlerStep(h)
      BY DEF HandlerStep
    <3>2. QED  BY <2>3, <3>1, InviteStays
  <2>4. QED  BY <2>1, <2>2, <2>3
<1>3. QED  BY <1>1, <1>2, EntryFrame DEF Exists

LEMMA EntryStep == StudentTypeOK /\ LinkInv /\ EntryInv /\ [Next]_vars => EntryInv'
<1> SUFFICES ASSUME StudentTypeOK, LinkInv, EntryInv, [Next]_vars PROVE EntryInv'
  OBVIOUS
<1>1. ASSUME NEW h \in Handlers, Request(h)
      PROVE  EntryInv'
  BY <1>1, EntryQuiet
<1>2. ASSUME NEW h \in Handlers, HandlerStep(h)
      PROVE  EntryInv'
  <2>1. CASE \E i \in Ids : Insert(h, i)
    BY <2>1, EntryInsert
  <2>2. CASE ActivateWrites(h)
    BY <2>2, EntryActivateWrites
  <2>3. CASE \/ \E k \in Tokens : Invite(h, k)
             \/ ImportAmends(h) \/ UploadRecords(h) \/ EraseDeletes(h)
    BY <2>3, EntryWrite
  <2>4. CASE \/ InsertRejected(h) \/ InviteRejected(h) \/ Mail(h)
             \/ \E n \in Numbers, e \in Emails : ImportFinds(h, n, e) \/ ImportMisses(h, n, e)
             \/ ImportRejected(h) \/ ImportChecks(h) \/ ImportEnds(h)
             \/ ActivateRejected(h) \/ UploadPuts(h) \/ UploadRejected(h) \/ EraseRejected(h)
    BY <2>4, EntryQuiet
  <2>5. QED  BY <1>2, <2>1, <2>2, <2>3, <2>4 DEF HandlerStep
<1>3. ASSUME NEW h \in Handlers, Abort(h)
      PROVE  EntryInv'
  <2>1. row' = row /\ drawn' = drawn /\ settled' = settled /\ stranded \subseteq stranded'
    BY <1>3 DEF Abort
  <2>2. \A g \in Handlers : At(g, "invite") => job'[g] = job[g] \/ job[g].id \in stranded'
    BY <1>3 DEF Abort, Answer, StudentTypeOK
  <2>3. QED  BY <2>1, <2>2, EntryFrame DEF Exists
<1>4. ASSUME NEW i \in Ids, LinkLapses(i)
      PROVE  EntryInv'
  <2>1. row[i] \in Row
    BY <1>4 DEF LinkLapses, Exists, StudentTypeOK
  <2>2. \A j \in Ids : Exists(j)' =>
           /\ Exists(j) /\ row'[j].password = row[j].password
           /\ row'[j].token = None => row[j].token = None
    BY <1>4, <2>1 DEF LinkLapses, StudentTypeOK, Row, Exists
  <2>3. job' = job /\ drawn' = drawn /\ settled' = settled /\ stranded' = stranded
    BY <1>4 DEF LinkLapses
  <2>4. QED  BY <2>2, <2>3, EntryFrame
<1>5. CASE UNCHANGED vars
  BY <1>5 DEF vars, EntryInv, AccountsReachable, SettledPasswordsHold, Exists, At
<1>6. QED  BY <1>1, <1>2, <1>3, <1>4, <1>5 DEF Next

LEMMA AccountsOpen == Spec => [](StudentTypeOK /\ LinkInv /\ EntryInv)
<1>1. Init => StudentTypeOK /\ LinkInv /\ EntryInv
  BY TypedInit, LinkInit, EntryInit
<1>2. StudentTypeOK /\ LinkInv /\ EntryInv /\ [Next]_vars =>
        StudentTypeOK' /\ LinkInv' /\ EntryInv'
  BY TypedStep, LinkStep, EntryStep
<1>3. QED  BY <1>1, <1>2, PTL DEF Spec

\* No account is left that nobody can enter, save where a creation was cut
\* short before its link (createStudent, issueActivation).
THEOREM NoAccountLockedAway == Spec => []AccountsReachable
<1>1. EntryInv => AccountsReachable
  BY DEF EntryInv
<1>2. QED  BY <1>1, AccountsOpen, PTL

\* A password chosen without a rival activation is replaced by the next
\* activation only, whatever links, imports and photos come between.
THEOREM SettledPasswordsStay == Spec => []SettledPasswordsHold
<1>1. EntryInv => SettledPasswordsHold
  BY DEF EntryInv
<1>2. QED  BY <1>1, AccountsOpen, PTL
=============================================================================

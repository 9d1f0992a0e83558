----------------------------- MODULE StudentAccount -----------------------------
(***************************************************************************)
(* The students of the establishments: creation one by one and by CSV      *)
(* import, activation links, passwords, the identity photo and erasure, as *)
(* students.service.ts and student-auth.service.ts carry them out on the   *)
(* Student rows of Postgres, the mail server and the MinIO bucket.         *)
(*                                                                         *)
(* As in CardLifecycle an `await` ends a step, and a request that its      *)
(* first read refuses changes nothing and is not an action.  A file to     *)
(* import shows its rows one at a time: the next one is any row.           *)
(* The card an activation issues is the "issue" request of CardLifecycle.  *)
(***************************************************************************)
EXTENDS Integers, FiniteSets

CONSTANTS
    Ids,         \* ids of Student rows; never drawn twice
    Tenants,     \* establishments, all with authMode ACCELYO_PASSWORD
    Numbers,     \* student numbers
    Emails,
    Tokens,      \* activation tokens; never drawn twice
    Passwords,
    Handlers,    \* requests the API instances can process at one time
    MaxRows,     \* bound: rows of a file to import
    None

ASSUME MaxRowsAssumption   == MaxRows \in Nat
ASSUME NoneUnusedAssumption == None \notin Ids \union Tenants \union Tokens \union Passwords

VARIABLES
    row,       \* row[i]: the Student row i, NoRow when there is none
    drawn,     \* ids and tokens that were drawn
    mailed,    \* tokens whose link reached the student
    stored,    \* ids whose object photos/<id> is in the bucket
    job,       \* job[h]: the request handler h is processing
    spent,     \* history: tokens an activation was carried out with
    settled,   \* history: the password chosen by an activation that met no other
    stranded   \* history: rows whose creation stopped before the link was written

vars == <<row, drawn, mailed, stored, job, spent, settled, stranded>>

\* writer: the establishment on whose behalf the name was last written.
\* fresh: activationTokenExpiresAt lies in the future.
Row == [tenant : Tenants, writer : Tenants, number : Numbers, email : Emails,
        password : Passwords \union {None}, token : Tokens \union {None},
        fresh : BOOLEAN, photo : BOOLEAN]
NoRow == [tenant |-> None]

\* left: rows of the import still to read after this one; -1 outside an import.
Left == -1..MaxRows
Idle == [pc |-> "idle"]
Job  ==
         [pc : {"insert"}, tenant : Tenants, number : Numbers, email : Emails, left : Left]
  \union [pc : {"check"}, tenant : Tenants, number : Numbers, email : Emails, left : 0..MaxRows]
  \union [pc : {"invite"}, id : Ids, tenant : Tenants, left : Left]
  \union [pc : {"mail"}, id : Ids, tenant : Tenants, left : Left, token : Tokens]
  \union [pc : {"row"}, tenant : Tenants, left : 0..MaxRows]
  \union [pc : {"amend"}, id : Ids, tenant : Tenants, left : 0..MaxRows]
  \union [pc : {"activate"}, id : Ids, token : Tokens, password : Passwords]
  \union [pc : {"put", "hash", "delete"}, id : Ids]

StudentTypeOK ==
    /\ row \in [Ids -> Row \union {NoRow}]
    /\ drawn \subseteq Ids \union Tokens
    /\ mailed \subseteq Tokens
    /\ stored \subseteq Ids
    /\ job \in [Handlers -> Job \union {Idle}]
    /\ spent \subseteq Tokens
    /\ settled \in [Ids -> Passwords \union {None}]
    /\ stranded \subseteq Ids

Init ==
    /\ row = [i \in Ids |-> NoRow]
    /\ drawn = {} /\ mailed = {} /\ stored = {}
    /\ job = [h \in Handlers |-> Idle]
    /\ spent = {} /\ stranded = {}
    /\ settled = [i \in Ids |-> None]

Exists(i) == row[i] # NoRow
At(h, pc) == job[h].pc = pc
Free(h)   == job[h] = Idle

\* Rows of an establishment with this number or this e-mail address; as a
\* condition on an INSERT, its two unique indexes.
Matches(t, n, e) ==
    {i \in Ids : Exists(i) /\ row[i].tenant = t /\ (row[i].number = n \/ row[i].email = e)}

Start(h, j) == job' = [job EXCEPT ![h] = j]
Answer(h)   == job' = [job EXCEPT ![h] = Idle]

\* Where a handler goes when a row was dealt with or threw: the import goes on
\* with the next row, a request for one student answers.
RowDone(h) ==
    IF job[h].left >= 0
      THEN Start(h, [pc |-> "row", tenant |-> job[h].tenant, left |-> job[h].left])
      ELSE Answer(h)

-----------------------------------------------------------------------------
(* createStudent: look for the number and the address, INSERT, then        *)
(* issueActivation.                                                        *)

CreateReads(h, t, n, e) ==
    /\ Free(h) /\ Matches(t, n, e) = {}
    /\ Start(h, [pc |-> "insert", tenant |-> t, number |-> n, email |-> e, left |-> -1])
    /\ UNCHANGED <<row, drawn, mailed, stored, spent, settled, stranded>>

\* Fault: the table has no unique index.
InsertAny(h, i) ==
    /\ At(h, "insert") /\ i \notin drawn
    /\ drawn' = drawn \union {i}
    /\ row' = [row EXCEPT ![i] =
          [tenant |-> job[h].tenant, writer |-> job[h].tenant, number |-> job[h].number,
           email |-> job[h].email, password |-> None, token |-> None,
           fresh |-> FALSE, photo |-> FALSE]]
    /\ Start(h, [pc |-> "invite", id |-> i, tenant |-> job[h].tenant, left |-> job[h].left])
    /\ UNCHANGED <<mailed, stored, spent, settled, stranded>>

Insert(h, i) ==
    /\ At(h, "insert") /\ i \notin drawn
    /\ Matches(job[h].tenant, job[h].number, job[h].email) = {}
    /\ drawn' = drawn \union {i}
    /\ row' = [row EXCEPT ![i] =
          [tenant |-> job[h].tenant, writer |-> job[h].tenant, number |-> job[h].number,
           email |-> job[h].email, password |-> None, token |-> None,
           fresh |-> FALSE, photo |-> FALSE]]
    /\ Start(h, [pc |-> "invite", id |-> i, tenant |-> job[h].tenant, left |-> job[h].left])
    /\ UNCHANGED <<mailed, stored, spent, settled, stranded>>

InsertRejected(h) ==
    /\ At(h, "insert")
    /\ Matches(job[h].tenant, job[h].number, job[h].email) # {}
    /\ RowDone(h)
    /\ UNCHANGED <<row, drawn, mailed, stored, spent, settled, stranded>>

-----------------------------------------------------------------------------
(* issueActivation: a new token takes the place of the old one, then the   *)
(* e-mail, best effort.  Staff may ask for it again at any time.           *)

ResendReads(h, i) ==
    /\ Free(h) /\ Exists(i)
    /\ Start(h, [pc |-> "invite", id |-> i, tenant |-> row[i].tenant, left |-> -1])
    /\ UNCHANGED <<row, drawn, mailed, stored, spent, settled, stranded>>

\* Fault: a new link withdraws the password in force.
InviteWithdraws(h, k) ==
    LET i == job[h].id IN
    /\ At(h, "invite") /\ Exists(i) /\ k \notin drawn
    /\ drawn' = drawn \union {k}
    /\ row' = [row EXCEPT ![i].token = k, ![i].fresh = TRUE, ![i].password = None]
    /\ Start(h, [pc |-> "mail", id |-> i, tenant |-> job[h].tenant, left |-> job[h].left,
                 token |-> k])
    /\ UNCHANGED <<mailed, stored, spent, settled, stranded>>

Invite(h, k) ==
    LET i == job[h].id IN
    /\ At(h, "invite") /\ Exists(i) /\ k \notin drawn
    /\ drawn' = drawn \union {k}
    /\ row' = [row EXCEPT ![i].token = k, ![i].fresh = TRUE]
    /\ Start(h, [pc |-> "mail", id |-> i, tenant |-> job[h].tenant, left |-> job[h].left,
                 token |-> k])
    /\ UNCHANGED <<mailed, stored, spent, settled, stranded>>

\* The row was erased meanwhile.
InviteRejected(h) ==
    /\ At(h, "invite") /\ ~Exists(job[h].id)
    /\ RowDone(h)
    /\ UNCHANGED <<row, drawn, mailed, stored, spent, settled, stranded>>

Mail(h) ==
    /\ At(h, "mail")
    /\ \/ mailed' = mailed \union {job[h].token}
       \/ UNCHANGED mailed
    /\ RowDone(h)
    /\ UNCHANGED <<row, drawn, stored, spent, settled, stranded>>

-----------------------------------------------------------------------------
(* importStudents: row by row, each on its own.                            *)

ImportStarts(h, t) ==
    /\ Free(h)
    /\ Start(h, [pc |-> "row", tenant |-> t, left |-> MaxRows])
    /\ UNCHANGED <<row, drawn, mailed, stored, spent, settled, stranded>>

ImportEnds(h) ==
    /\ At(h, "row")
    /\ Answer(h)
    /\ UNCHANGED <<row, drawn, mailed, stored, spent, settled, stranded>>

\* Fault: the number and the address are looked for in every establishment.
ImportFindsAny(h, n, e) ==
    /\ At(h, "row") /\ job[h].left > 0
    /\ \E i \in UNION {Matches(t, n, e) : t \in Tenants} :
          Start(h, [pc |-> "amend", id |-> i, tenant |-> job[h].tenant, left |-> job[h].left - 1])
    /\ UNCHANGED <<row, drawn, mailed, stored, spent, settled, stranded>>

\* findFirst: any one of the rows that have the number or the address.
ImportFinds(h, n, e) ==
    /\ At(h, "row") /\ job[h].left > 0
    /\ \E i \in Matches(job[h].tenant, n, e) :
          Start(h, [pc |-> "amend", id |-> i, tenant |-> job[h].tenant, left |-> job[h].left - 1])
    /\ UNCHANGED <<row, drawn, mailed, stored, spent, settled, stranded>>

\* Fault: one row too many is read.
ImportMissesOneMore(h, n, e) ==
    /\ At(h, "row") /\ job[h].left >= 0
    /\ Matches(job[h].tenant, n, e) = {}
    /\ Start(h, [pc |-> "check", tenant |-> job[h].tenant, number |-> n, email |-> e,
                 left |-> job[h].left - 1])
    /\ UNCHANGED <<row, drawn, mailed, stored, spent, settled, stranded>>

ImportMisses(h, n, e) ==
    /\ At(h, "row") /\ job[h].left > 0
    /\ Matches(job[h].tenant, n, e) = {}
    /\ Start(h, [pc |-> "check", tenant |-> job[h].tenant, number |-> n, email |-> e,
                 left |-> job[h].left - 1])
    /\ UNCHANGED <<row, drawn, mailed, stored, spent, settled, stranded>>

\* Name, year and programme are written; number, address and access are kept.
ImportAmends(h) ==
    LET i == job[h].id IN
    /\ At(h, "amend") /\ Exists(i)
    /\ row' = [row EXCEPT ![i].writer = job[h].tenant]
    /\ RowDone(h)
    /\ UNCHANGED <<drawn, mailed, stored, spent, settled, stranded>>

ImportRejected(h) ==
    /\ At(h, "amend") /\ ~Exists(job[h].id)
    /\ RowDone(h)
    /\ UNCHANGED <<row, drawn, mailed, stored, spent, settled, stranded>>

\* createStudent looks again before it inserts.
ImportChecks(h) ==
    /\ At(h, "check")
    /\ IF Matches(job[h].tenant, job[h].number, job[h].email) = {}
         THEN Start(h, [job[h] EXCEPT !.pc = "insert"])
         ELSE RowDone(h)
    /\ UNCHANGED <<row, drawn, mailed, stored, spent, settled, stranded>>

-----------------------------------------------------------------------------
(* activate                                                                *)

ActivateReads(h, k, p) ==
    /\ Free(h) /\ k \in mailed
    /\ \E i \in Ids :
        /\ Exists(i) /\ row[i].token = k /\ row[i].fresh
        /\ Start(h, [pc |-> "activate", id |-> i, token |-> k, password |-> p])
    /\ UNCHANGED <<row, drawn, mailed, stored, spent, settled, stranded>>

\* Another activation of account i is about to write.
OtherActivation(h, i) == \E g \in Handlers \ {h} : At(g, "activate") /\ job[g].id = i

\* Fault: the token is not cleared.
ActivateKeepsToken(h) ==
    LET i == job[h].id IN
    /\ At(h, "activate") /\ Exists(i)
    /\ row' = [row EXCEPT ![i].password = job[h].password]
    /\ spent' = spent \union {job[h].token}
    /\ settled' = [settled EXCEPT ![i] = IF OtherActivation(h, i) THEN None ELSE job[h].password]
    /\ Answer(h)
    /\ UNCHANGED <<drawn, mailed, stored, stranded>>

\* Fault: the token is cleared on its own, and the password written later.
ActivateClearsOnly(h) ==
    LET i == job[h].id IN
    /\ At(h, "activate") /\ Exists(i)
    /\ row' = [row EXCEPT ![i].token = None, ![i].fresh = FALSE]
    /\ spent' = spent \union {job[h].token}
    /\ Answer(h)
    /\ UNCHANGED <<drawn, mailed, stored, settled, stranded>>

\* UPDATE by id: whatever token the row has by now is cleared with the one
\* that was used.
ActivateWrites(h) ==
    LET i == job[h].id IN
    /\ At(h, "activate") /\ Exists(i)
    /\ row' = [row EXCEPT ![i].password = job[h].password, ![i].token = None,
                          ![i].fresh = FALSE]
    /\ spent' = spent \union {job[h].token}
    /\ settled' = [settled EXCEPT ![i] = IF OtherActivation(h, i) THEN None ELSE job[h].password]
    /\ Answer(h)
    /\ UNCHANGED <<drawn, mailed, stored, stranded>>

ActivateRejected(h) ==
    /\ At(h, "activate") /\ ~Exists(job[h].id)
    /\ Answer(h)
    /\ UNCHANGED <<row, drawn, mailed, stored, spent, settled, stranded>>

LinkLapses(i) ==
    /\ Exists(i) /\ row[i].fresh
    /\ row' = [row EXCEPT ![i].fresh = FALSE]
    /\ UNCHANGED <<drawn, mailed, stored, job, spent, settled, stranded>>

-----------------------------------------------------------------------------
(* storeStudentPhoto: the object, then its hash.  The student or staff.    *)

UploadReads(h, i) ==
    /\ Free(h) /\ Exists(i)
    /\ Start(h, [pc |-> "put", id |-> i])
    /\ UNCHANGED <<row, drawn, mailed, stored, spent, settled, stranded>>

\* Fault: an error of the bucket is ignored.
UploadPutsOrNot(h) ==
    /\ At(h, "put")
    /\ stored' \in {stored, stored \union {job[h].id}}
    /\ Start(h, [job[h] EXCEPT !.pc = "hash"])
    /\ UNCHANGED <<row, drawn, mailed, spent, settled, stranded>>

UploadPuts(h) ==
    /\ At(h, "put")
    /\ stored' = stored \union {job[h].id}
    /\ Start(h, [job[h] EXCEPT !.pc = "hash"])
    /\ UNCHANGED <<row, drawn, mailed, spent, settled, stranded>>

UploadRecords(h) ==
    LET i == job[h].id IN
    /\ At(h, "hash") /\ Exists(i)
    /\ row' = [row EXCEPT ![i].photo = TRUE]
    /\ Answer(h)
    /\ UNCHANGED <<drawn, mailed, stored, spent, settled, stranded>>

UploadRejected(h) ==
    /\ At(h, "hash") /\ ~Exists(job[h].id)
    /\ Answer(h)
    /\ UNCHANGED <<row, drawn, mailed, stored, spent, settled, stranded>>

-----------------------------------------------------------------------------
(* gdprDeleteStudent: the row goes, with what hangs on it in the database. *)

EraseReads(h, i) ==
    /\ Free(h) /\ Exists(i)
    /\ Start(h, [pc |-> "delete", id |-> i])
    /\ UNCHANGED <<row, drawn, mailed, stored, spent, settled, stranded>>

EraseDeletes(h) ==
    /\ At(h, "delete") /\ Exists(job[h].id)
    /\ row' = [row EXCEPT ![job[h].id] = NoRow]
    /\ Answer(h)
    /\ UNCHANGED <<drawn, mailed, stored, spent, settled, stranded>>

EraseRejected(h) ==
    /\ At(h, "delete") /\ ~Exists(job[h].id)
    /\ Answer(h)
    /\ UNCHANGED <<row, drawn, mailed, stored, spent, settled, stranded>>

\* The instance stops, or a store answers with an error.
Abort(h) ==
    /\ ~Free(h)
    /\ stranded' = IF At(h, "invite") THEN stranded \union {job[h].id} ELSE stranded
    /\ Answer(h)
    /\ UNCHANGED <<row, drawn, mailed, stored, spent, settled>>

-----------------------------------------------------------------------------
Request(h) ==
    \/ \E t \in Tenants, n \in Numbers, e \in Emails : CreateReads(h, t, n, e)
    \/ \E t \in Tenants : ImportStarts(h, t)
    \/ \E k \in Tokens, p \in Passwords : ActivateReads(h, k, p)
    \/ \E i \in Ids : ResendReads(h, i) \/ UploadReads(h, i) \/ EraseReads(h, i)

HandlerStep(h) ==
    \/ \E i \in Ids : Insert(h, i)
    \/ InsertRejected(h)
    \/ \E k \in Tokens : Invite(h, k)
    \/ InviteRejected(h) \/ Mail(h)
    \/ \E n \in Numbers, e \in Emails : ImportFinds(h, n, e) \/ ImportMisses(h, n, e)
    \/ ImportAmends(h) \/ ImportRejected(h) \/ ImportChecks(h) \/ ImportEnds(h)
    \/ ActivateWrites(h) \/ ActivateRejected(h)
    \/ UploadPuts(h) \/ UploadRecords(h) \/ UploadRejected(h)
    \/ EraseDeletes(h) \/ EraseRejected(h)

Next ==
    \/ \E h \in Handlers : Request(h) \/ HandlerStep(h) \/ Abort(h)
    \/ \E i \in Ids : LinkLapses(i)

Spec == Init /\ [][Next]_vars

-----------------------------------------------------------------------------
(* Properties                                                              *)

\* Whatever creations and imports overlap, an establishment has one account
\* per number and one per address.
OneAccountPerPerson ==
    \A i, j \in Ids :
        Exists(i) /\ Exists(j) /\ row[i].tenant = row[j].tenant
            /\ (row[i].number = row[j].number \/ row[i].email = row[j].email) => i = j

\* Every account can be entered: it has a password, or a link was written for
\* it, or its creation is about to write one or was cut short there.
AccountsReachable ==
    \A i \in Ids :
        Exists(i) /\ row[i].password = None /\ row[i].token = None =>
            i \in stranded \/ \E h \in Handlers : At(h, "invite") /\ job[h].id = i

\* A link that served is dead, even when others were written meanwhile.
SpentLinksStayDead == \A i \in Ids : Exists(i) => row[i].token \notin spent

\* The password chosen by an activation that met no other one stays: no
\* import, no new link and no other request replaces it, short of the next
\* activation.
SettledPasswordsHold ==
    \A i \in Ids : Exists(i) /\ settled[i] # None => row[i].password = settled[i]

\* An import touches accounts of its own establishment only, although numbers
\* and addresses exist in several.
TenantsKeepTheirOwn == \A i \in Ids : Exists(i) => row[i].writer = row[i].tenant

\* Both: one account per person in each establishment, and only in its hands.
AccountsStayApart == OneAccountPerPerson /\ TenantsKeepTheirOwn

\* A recorded photo can be shown: its object is in the bucket.
PhotoHasObject == \A i \in Ids : Exists(i) /\ row[i].photo => i \in stored

\* RGPD_POSTURE.md: erasing a student erases the data and the photo.  At rest,
\* no object is left of a student who is gone.
ErasedPhotosGone ==
    (\A h \in Handlers : Free(h)) => \A i \in stored : Exists(i)
=============================================================================

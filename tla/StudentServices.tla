---------------------------- MODULE StudentServices ----------------------------
(***************************************************************************)
(* What an establishment publishes and lends: announcements, schedule      *)
(* slots, library loans and deals, as the dashboard's content routes       *)
(* (content.controller.ts, content.service.ts) write them and the student  *)
(* portal (student-portal.service.ts) shows them and renews the loans.     *)
(*                                                                         *)
(* An `await` ends a step, and a request that its first read refuses       *)
(* changes nothing and is not an action.  The four kinds of row share one  *)
(* shape of handler: read by id and compare the establishment, look a      *)
(* student up when one is named, write by id.                              *)
(*                                                                         *)
(* Abstractions: titles, authors and places are left out; publication      *)
(* dates, program and the window of the schedule are whether the portal's  *)
(* filters let the row through (shown); a loan's dueAt is counted in       *)
(* renewal periods of RENEWAL_DAYS from the date it was made with.         *)
(* The additional read by which a super admin's request finds the row's    *)
(* own establishment decides the same as the read that follows, for a row  *)
(* never changes establishment.                                            *)
(***************************************************************************)
EXTENDS Tenancy

CONSTANTS
    Rows,        \* ids of content rows; never drawn twice
    MaxDue,      \* bound: latest due date, in renewal periods
    MaxCount,    \* bound: renewals a loan may have or be allowed
    Super        \* the super admin, who acts for every establishment

ASSUME BoundsAssumption == MaxDue \in Nat /\ MaxCount \in Nat
ASSUME SuperAssumption  == Super \notin Universities

VARIABLES
    home,      \* home[s]: the establishment of student s, None once erased
    row,       \* row[i]: the content row i, NoRow before and Gone after it exists
    job,       \* job[h]: the request handler h is processing
    ledger,    \* history: what the staff last left of a loan with no renewal in flight
    settled    \* history: loans recorded as returned with no renewal in flight

stores      == <<home, row>>
serviceVars == <<home, row, job, ledger, settled>>

Staff == Universities \union {Super}

Announcement == [kind : {"announcement"}, tenant : Universities, shown : BOOLEAN]
Deal         == [kind : {"deal"}, tenant : Universities \union {None}, shown : BOOLEAN]
Slot         == [kind : {"schedule"}, tenant : Universities, shown : BOOLEAN,
                 student : Students \union {None}]
Loan         == [kind : {"loan"}, tenant : Universities, student : Students, due : 0..MaxDue,
                 count : 0..MaxCount, max : 0..MaxCount, returned : BOOLEAN]
Content      == Announcement \union Deal \union Slot \union Loan

NoRow == [kind |-> "none"]
Gone  == [kind |-> "gone"]

\* A PATCH names the fields it changes; one at a time is enough.
LoanPatch == [returned : BOOLEAN] \union [due : 0..MaxDue]
                \union [count : 0..MaxCount] \union [max : 0..MaxCount]
SlotPatch == [student : Students \union {None}] \union [shown : BOOLEAN]
Patch     == LoanPatch \union SlotPatch

Patches(kind) ==
    CASE kind = "loan"     -> LoanPatch
      [] kind = "schedule" -> SlotPatch
      [] OTHER             -> [shown : BOOLEAN]

Idle == [pc |-> "idle"]
Job  ==
         [pc : {"vet", "insert"}, row : Rows, new : Content]
  \union [pc : {"examine", "update"}, actor : Staff, tenant : Universities, row : Rows, patch : Patch]
  \union [pc : {"remove"}, actor : Staff, row : Rows]
  \union [pc : {"renew"}, row : Rows, due : 0..MaxDue, count : 0..MaxCount]

NoLedger == [kept |-> FALSE, base |-> 0, within |-> FALSE]
Ledger   == [kept : BOOLEAN, base : Int, within : BOOLEAN]

ServicesTypeOK ==
    /\ home \in [Students -> Universities \union {None}]
    /\ row \in [Rows -> Content \union {NoRow, Gone}]
    /\ job \in [Handlers -> Job \union {Idle}]
    /\ ledger \in [Rows -> Ledger]
    /\ settled \subseteq Rows

\* Deals for every establishment come from no route.
GlobalDeal == [kind : {"deal"}, tenant : {None}, shown : {TRUE}]

ServicesInit ==
    /\ home \in [Students -> Universities]
    /\ row \in [Rows -> {NoRow} \union GlobalDeal]
    /\ job = [h \in Handlers |-> Idle]
    /\ ledger = [i \in Rows |-> NoLedger]
    /\ settled = {}

Exists(i)  == row[i] \notin {NoRow, Gone}
IsLoan(i)  == row[i].kind = "loan"
Free(h)    == job[h] = Idle
At(h, pc)  == job[h].pc = pc

Start(h, j) == job' = [job EXCEPT ![h] = j]
Answer(h)   == job' = [job EXCEPT ![h] = Idle]

\* The row after an UPDATE that names some of its fields.
Merged(r, patch) ==
    [f \in DOMAIN r |-> IF f \in DOMAIN patch THEN patch[f] ELSE r[f]]

\* The student a row or a patch names, None when it names none.
Named(r) == IF "student" \in DOMAIN r THEN r.student ELSE None

-----------------------------------------------------------------------------
(* assertStudentInTenant                                                   *)

\* Fault: the student is looked up, its establishment is not compared.
InTenantAny(s, u) == s # None => home[s] # None

InTenant(s, u) == s # None => home[s] = u

-----------------------------------------------------------------------------
(* The routes of the staff.  The establishment of a new row is the one of  *)
(* the token, whatever the request says, or the one a super admin names.   *)

\* postAnnouncement, postSchedule, postLoan, postDeal
PostReads(h, i, new) ==
    /\ Free(h) /\ row[i] = NoRow
    /\ new.tenant # None
    /\ new.kind = "loan" => new.due = 0 /\ new.count = 0 /\ ~new.returned
    /\ Start(h, [pc |-> IF Named(new) = None THEN "insert" ELSE "vet", row |-> i, new |-> new])
    /\ UNCHANGED <<stores, ledger, settled>>

PostVets(h) ==
    /\ At(h, "vet")
    /\ IF InTenant(Named(job[h].new), job[h].new.tenant)
         THEN Start(h, [job[h] EXCEPT !.pc = "insert"])
         ELSE Answer(h)
    /\ UNCHANGED <<stores, ledger, settled>>

\* The foreign key on the student holds.
Referenced(s) == s # None => home[s] # None

LedgerOf(r) == [kept |-> TRUE, base |-> r.due - r.count, within |-> r.count <= r.max]

PostInserts(h) ==
    LET i == job[h].row  new == job[h].new IN
    /\ At(h, "insert")
    /\ row[i] = NoRow /\ Referenced(Named(new))
    /\ row' = [row EXCEPT ![i] = new]
    /\ ledger' = IF new.kind = "loan" THEN [ledger EXCEPT ![i] = LedgerOf(new)] ELSE ledger
    /\ Answer(h)
    /\ UNCHANGED <<home, settled>>

\* A row of no establishment is not found by a super admin either.
Owned(actor, i) == Exists(i) /\ row[i].tenant # None /\ actor \in {Super, row[i].tenant}

\* patchAnnouncement, patchSchedule, patchLoan, patchDeal
PatchReads(h, actor, i, patch) ==
    /\ Free(h) /\ Owned(actor, i)
    /\ Start(h, [pc |-> IF Named(patch) = None THEN "update" ELSE "examine",
                 actor |-> actor, tenant |-> row[i].tenant, row |-> i, patch |-> patch])
    /\ UNCHANGED <<stores, ledger, settled>>

\* The establishment is that of the row as it was read.
PatchVets(h) ==
    /\ At(h, "examine")
    /\ IF InTenant(Named(job[h].patch), job[h].tenant)
         THEN Start(h, [job[h] EXCEPT !.pc = "update"])
         ELSE Answer(h)
    /\ UNCHANGED <<stores, ledger, settled>>

Renewing(i) == \E h \in Handlers : At(h, "renew") /\ job[h].row = i

\* An UPDATE by id.  The history: with no renewal in flight the loan is as the
\* staff left it; with one in flight nothing is known of the fields it writes.
PatchWrites(h) ==
    LET i == job[h].row
        new == Merged(row[i], job[h].patch) IN
    /\ At(h, "update") /\ Exists(i) /\ Referenced(Named(job[h].patch))
    /\ row' = [row EXCEPT ![i] = new]
    /\ ledger' = IF ~IsLoan(i) THEN ledger
                 ELSE [ledger EXCEPT ![i] = IF Renewing(i) THEN NoLedger ELSE LedgerOf(new)]
    /\ settled' = IF ~IsLoan(i) THEN settled
                  ELSE IF ~new.returned THEN settled \ {i}
                  ELSE IF Renewing(i) THEN settled ELSE settled \union {i}
    /\ Answer(h)
    /\ UNCHANGED home

\* deleteAnnouncementCtrl, deleteScheduleCtrl, deleteLoanCtrl, deleteDealCtrl
DeleteReads(h, actor, i) ==
    /\ Free(h) /\ Owned(actor, i)
    /\ Start(h, [pc |-> "remove", actor |-> actor, row |-> i])
    /\ UNCHANGED <<stores, ledger, settled>>

DeleteWrites(h) ==
    /\ At(h, "remove") /\ Exists(job[h].row)
    /\ row' = [row EXCEPT ![job[h].row] = Gone]
    /\ ledger' = [ledger EXCEPT ![job[h].row] = NoLedger]
    /\ settled' = settled \ {job[h].row}
    /\ Answer(h)
    /\ UNCHANGED home

-----------------------------------------------------------------------------
(* The portal.                                                             *)

\* getSchedule, getNews, getLoans, getDeals: what student s is shown.
ShownTo(s) ==
    {i \in Rows :
        \/ /\ row[i].kind = "announcement"
           /\ row[i].shown /\ row[i].tenant = home[s]
        \/ /\ row[i].kind = "schedule"
           /\ row[i].shown /\ row[i].tenant = home[s] /\ row[i].student \in {None, s}
        \/ IsLoan(i) /\ row[i].student = s
        \/ /\ row[i].kind = "deal"
           /\ row[i].shown /\ row[i].tenant \in {None, home[s]}}

CanRenew(r) == ~r.returned /\ r.count < r.max

\* renewLoan: the loan is read and its renewal permitted.
RenewReads(h, i) ==
    /\ Free(h) /\ IsLoan(i) /\ home[row[i].student] # None
    /\ CanRenew(row[i])
    /\ row[i].due < MaxDue
    /\ Start(h, [pc |-> "renew", row |-> i, due |-> row[i].due, count |-> row[i].count])
    /\ UNCHANGED <<stores, ledger, settled>>

\* Fault: the date is prolonged in the database, the count from what was read.
RenewWritesMixed(h) ==
    LET i == job[h].row IN
    /\ At(h, "renew") /\ IsLoan(i) /\ row[i].due < MaxDue
    /\ row' = [row EXCEPT ![i].due = @ + 1, ![i].count = job[h].count + 1]
    /\ Answer(h)
    /\ UNCHANGED <<home, ledger, settled>>

\* The date and the count as they were read, plus one period and plus one.
RenewWrites(h) ==
    LET i == job[h].row IN
    /\ At(h, "renew") /\ IsLoan(i)
    /\ row' = [row EXCEPT ![i].due = job[h].due + 1, ![i].count = job[h].count + 1]
    /\ Answer(h)
    /\ UNCHANGED <<home, ledger, settled>>

-----------------------------------------------------------------------------
\* Erasure deletes the student's loans and slots (onDelete: Cascade).
EraseStudent(s) ==
    LET lost == {i \in Rows : row[i] \notin {NoRow, Gone} /\ Named(row[i]) = s} IN
    /\ home[s] # None
    /\ home' = [home EXCEPT ![s] = None]
    /\ row' = [i \in Rows |-> IF i \in lost THEN Gone ELSE row[i]]
    /\ ledger' = [i \in Rows |-> IF i \in lost THEN NoLedger ELSE ledger[i]]
    /\ settled' = settled \ lost
    /\ UNCHANGED job

\* An INSERT or UPDATE the database refuses, an error of Postgres, or the
\* instance stops: the row is as it was.
Abort(h) ==
    /\ ~Free(h)
    /\ Answer(h)
    /\ UNCHANGED <<stores, ledger, settled>>

HandlerStep(h) ==
    \/ PostVets(h) \/ PostInserts(h)
    \/ PatchVets(h) \/ PatchWrites(h)
    \/ DeleteWrites(h) \/ RenewWrites(h) \/ Abort(h)

Request(h) ==
    \E i \in Rows :
        \/ \E new \in Content : PostReads(h, i, new)
        \/ \E actor \in Staff :
            \/ \E patch \in Patches(row[i].kind) : PatchReads(h, actor, i, patch)
            \/ DeleteReads(h, actor, i)
        \/ RenewReads(h, i)

ServicesNext ==
    \/ \E h \in Handlers : Request(h) \/ HandlerStep(h)
    \/ \E s \in Students : EraseStudent(s)

ServicesSpec == ServicesInit /\ [][ServicesNext]_serviceVars

-----------------------------------------------------------------------------
(* Properties                                                              *)

\* A slot or a loan names a student that exists and belongs to the row's own
\* establishment, across the awaits between the check, the write and an
\* erasure ("Etudiant hors perimetre", content.service.ts:126).
StudentsOfTheTenant ==
    \A i \in Rows :
        Exists(i) /\ Named(row[i]) # None => home[row[i].student] = row[i].tenant

\* No student is shown a row of another establishment - the loans included,
\* which getLoans selects by student alone (student-portal.service.ts: "un
\* etudiant ne voit que ses propres donnees et celles de son tenant").
PortalStaysHome ==
    \A s \in Students : home[s] # None =>
        \A i \in ShownTo(s) : row[i].tenant \in {None, home[s]}

\* The staff of an establishment is never about to change or delete a row of
\* another one, whatever happened to the row since it was read.
StaffKeepToTheirOwn ==
    \A h \in Handlers :
        job[h].pc \in {"examine", "update", "remove"} /\ Exists(job[h].row) =>
            job[h].actor \in {Super, row[job[h].row].tenant}

\* The three together: whatever requests and erasures overlap, no content of an
\* establishment names, reaches or is changed by people of another one.
ContentStaysInTenant == StudentsOfTheTenant /\ PortalStaysHome /\ StaffKeepToTheirOwn

\* However many renewals of one loan overlap, its due date is the date the
\* staff gave plus one period for each renewal it counts, and it counts no more
\* than it allows: a change by the staff is only lost to a renewal that was in
\* flight when it was made.
PeriodsAddUp ==
    \A i \in Rows : ledger[i].kept =>
        /\ row[i].due - row[i].count = ledger[i].base
        /\ ledger[i].within => row[i].count <= row[i].max

\* A loan recorded as returned while no renewal of it was in flight is renewed
\* no more, until the staff says that it was not returned.
ReturnedIsReturned ==
    \A h \in Handlers : At(h, "renew") => job[h].row \notin settled

\* Both: the terms of a loan are the staff's, but for the renewals it counts.
LoansKeepTheirTerms == PeriodsAddUp /\ ReturnedIsReturned
=============================================================================

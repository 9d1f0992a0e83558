------------------------- MODULE StudentServicesProofs -------------------------
(***************************************************************************)
(* Proofs about StudentServices: rows, students and staff stay within      *)
(* their establishment, and a loan's dates and renewals add up, for any    *)
(* number of establishments, students, rows and overlapping requests.      *)
(***************************************************************************)
EXTENDS StudentServices, TLAPS

-----------------------------------------------------------------------------
(* The inductive invariant: what a request j knows between its steps, and  *)
(* what the history says of the loans.                                     *)

\* The row a POST is about to insert; its student has been looked up by then.
NewRowFits(j) ==
    j.pc \in {"vet", "insert"} =>
        /\ j.new.tenant # None
        /\ j.new.kind = "loan" => ~j.new.returned
        /\ j.pc = "insert" /\ Named(j.new) # None => home[Named(j.new)] \in {j.new.tenant, None}

\* The row of a PATCH or DELETE was there, and the patch has the row's shape;
\* the row may be gone by now, but no other row takes its id.
TargetFits(j) ==
    /\ j.pc \in {"examine", "update"} =>
          /\ row[j.row] # NoRow
          /\ j.tenant # None /\ j.actor \in {Super, j.tenant}
          /\ Exists(j.row) => /\ row[j.row].tenant = j.tenant
                              /\ j.patch \in Patches(row[j.row].kind)
          /\ j.pc = "update" /\ Named(j.patch) # None => home[Named(j.patch)] \in {j.tenant, None}
    /\ j.pc = "remove" =>
          /\ row[j.row] # NoRow
          /\ Exists(j.row) => j.actor \in {Super, row[j.row].tenant}

\* What a renewal read: a loan that could be renewed and was not settled.
RenewalFits(j) ==
    j.pc = "renew" =>
        /\ row[j.row] # NoRow
        /\ Exists(j.row) => IsLoan(j.row)
        /\ j.due < MaxDue /\ j.count < MaxCount
        /\ j.row \notin settled
        /\ ledger[j.row].kept =>
              /\ j.due - j.count = ledger[j.row].base
              /\ ledger[j.row].within => j.count + 1 <= row[j.row].max

LedgerFits(i) ==
    /\ ledger[i].kept =>
          /\ IsLoan(i)
          /\ row[i].due - row[i].count = ledger[i].base
          /\ ledger[i].within => row[i].count <= row[i].max
    /\ i \in settled => IsLoan(i) /\ row[i].returned

IInv ==
    /\ ServicesTypeOK
    /\ \A h \in Handlers : NewRowFits(job[h])
    /\ \A h \in Handlers : TargetFits(job[h])
    /\ \A h \in Handlers : RenewalFits(job[h])
    /\ \A i \in Rows : LedgerFits(i)
    /\ StudentsOfTheTenant

-----------------------------------------------------------------------------
(* Shapes: what the kind of a row and the pc of a job say of their fields. *)

LEMMA ContentShapes ==
    ASSUME NEW r \in Content
    PROVE  /\ r # NoRow /\ r # Gone
           /\ r.kind \in {"announcement", "deal", "schedule", "loan"}
           /\ r.kind = "announcement" => r \in Announcement
           /\ r.kind = "deal" => r \in Deal
           /\ r.kind = "schedule" => r \in Slot
           /\ r.kind = "loan" => r \in Loan
  BY DEF Content, Announcement, Deal, Slot, Loan, NoRow, Gone

LEMMA RowShapes ==
    ASSUME ServicesTypeOK, NEW i \in Rows
    PROVE  /\ row[i] \in Content \union {NoRow, Gone}
           /\ Exists(i) => row[i] \in Content
           /\ IsLoan(i) => row[i] \in Loan /\ Exists(i)
  BY ContentShapes DEF ServicesTypeOK, Exists, IsLoan, NoRow, Gone

LEMMA JobShapes ==
    ASSUME NEW j \in Job \union {Idle}
    PROVE  /\ j.pc \in {"vet", "insert"} => j.row \in Rows /\ j.new \in Content
           /\ j.pc \in {"examine", "update"} =>
                 /\ j.row \in Rows /\ j.actor \in Staff
                 /\ j.tenant \in Universities /\ j.patch \in Patch
           /\ j.pc = "remove" => j.row \in Rows /\ j.actor \in Staff
           /\ j.pc = "renew" => j.row \in Rows /\ j.due \in 0..MaxDue /\ j.count \in 0..MaxCount
           /\ j.pc = "idle" => j = Idle
           /\ j.pc \in {"idle", "vet", "insert", "examine", "update", "remove", "renew"}
  BY DEF Job, Idle

\* A row names a student when it is a loan, or a slot for one student.
LEMMA NamedShapes ==
    ASSUME NEW r \in Content
    PROVE  /\ Named(r) \in Students \union {None}
           /\ Named(r) # None => Named(r) = r.student
           /\ r.kind \in {"announcement", "deal"} => Named(r) = None
           /\ r.kind \in {"schedule", "loan"} => Named(r) = r.student
  <1>1. CASE r \in Announcement \union Deal
    <2>1. "student" \notin DOMAIN r
      BY <1>1 DEF Announcement, Deal
    <2> QED  BY <2>1, <1>1 DEF Named, Announcement, Deal
  <1>2. CASE r \in Slot \union Loan
    <2>1. "student" \in DOMAIN r
      BY <1>2 DEF Slot, Loan
    <2> QED  BY <2>1, <1>2 DEF Named, Slot, Loan
  <1> QED  BY <1>1, <1>2 DEF Content

-----------------------------------------------------------------------------
(* An UPDATE of some fields.                                               *)

LEMMA MergedLoan ==
    ASSUME NEW r \in Loan, NEW patch \in LoanPatch
    PROVE  /\ Merged(r, patch) \in Loan
           /\ Merged(r, patch).tenant = r.tenant /\ Merged(r, patch).student = r.student
           /\ Named(patch) = None
  <1>1. "student" \notin DOMAIN patch
    BY DEF LoanPatch
  <1> QED  BY <1>1 DEF Merged, Loan, LoanPatch, Named

LEMMA MergedSlot ==
    ASSUME NEW r \in Slot, NEW patch \in SlotPatch
    PROVE  /\ Merged(r, patch) \in Slot
           /\ Merged(r, patch).tenant = r.tenant
           /\ Named(patch) = None => Merged(r, patch).student \in {None, r.student}
           /\ Named(patch) # None => Merged(r, patch).student = Named(patch)
  <1>1. CASE patch \in [student : Students \union {None}]
    <2>1. "student" \in DOMAIN patch
      BY <1>1
    <2> QED  BY <2>1, <1>1 DEF Merged, Slot, Named
  <1>2. CASE patch \in [shown : BOOLEAN]
    <2>1. "student" \notin DOMAIN patch
      BY <1>2
    <2> QED  BY <2>1, <1>2 DEF Merged, Slot, Named
  <1> QED  BY <1>1, <1>2 DEF SlotPatch

LEMMA MergedOther ==
    ASSUME NEW r \in Announcement \union Deal, NEW patch \in [shown : BOOLEAN]
    PROVE  /\ Merged(r, patch) \in Announcement \union Deal
           /\ Merged(r, patch).tenant = r.tenant /\ Merged(r, patch).kind = r.kind
           /\ Named(patch) = None
  <1>1. "student" \notin DOMAIN patch
    OBVIOUS
  <1> QED  BY <1>1 DEF Merged, Announcement, Deal, Named

\* An UPDATE keeps the kind and the establishment of a row, and the student it
\* names is the one the patch names, or the one of the row, or none.
LEMMA MergedFits ==
    ASSUME NEW r \in Content, NEW patch \in Patches(r.kind)
    PROVE  /\ Merged(r, patch) \in Content
           /\ Merged(r, patch).kind = r.kind /\ Merged(r, patch).tenant = r.tenant
           /\ Named(patch) \in Students \union {None}
           /\ Named(Merged(r, patch)) \in {None, Named(r), Named(patch)}
  <1>1. CASE r.kind = "loan"
    <2>1. r \in Loan /\ patch \in LoanPatch
      BY <1>1, ContentShapes DEF Patches
    <2>2. Merged(r, patch) \in Loan /\ Merged(r, patch).tenant = r.tenant
            /\ Merged(r, patch).student = r.student /\ Named(patch) = None
      BY <2>1, MergedLoan
    <2>3. Merged(r, patch) \in Content /\ Merged(r, patch).kind = "loan"
      BY <2>2 DEF Content, Loan
    <2> QED  BY <1>1, <2>2, <2>3, NamedShapes
  <1>2. CASE r.kind = "schedule"
    <2>1. r \in Slot /\ patch \in SlotPatch
      BY <1>2, ContentShapes DEF Patches
    <2>2. /\ Merged(r, patch) \in Slot /\ Merged(r, patch).tenant = r.tenant
          /\ Named(patch) = None => Merged(r, patch).student \in {None, r.student}
          /\ Named(patch) # None => Merged(r, patch).student = Named(patch)
      BY <2>1, MergedSlot
    <2>3. Merged(r, patch) \in Content /\ Merged(r, patch).kind = "schedule"
      BY <2>2 DEF Content, Slot
    <2>4. Named(Merged(r, patch)) = Merged(r, patch).student
      BY <2>3, NamedShapes
    <2>5. Merged(r, patch).student \in Students \union {None}
      BY <2>2 DEF Slot
    <2> QED  BY <1>2, <2>2, <2>3, <2>4, <2>5, NamedShapes
  <1>3. CASE r.kind \in {"announcement", "deal"}
    <2>1. r \in Announcement \union Deal /\ patch \in [shown : BOOLEAN]
      BY <1>3, ContentShapes DEF Patches
    <2>2. /\ Merged(r, patch) \in Announcement \union Deal
          /\ Merged(r, patch).tenant = r.tenant /\ Merged(r, patch).kind = r.kind
          /\ Named(patch) = None
      BY <2>1, MergedOther
    <2>3. Merged(r, patch) \in Content
      BY <2>2 DEF Content
    <2> QED  BY <1>3, <2>2, <2>3, NamedShapes
  <1> QED  BY <1>1, <1>2, <1>3, ContentShapes

\* A patch that fits a row is one the types allow.
LEMMA PatchShapes ==
    ASSUME NEW r \in Content, NEW patch \in Patches(r.kind)
    PROVE  patch \in Patch
  BY ContentShapes DEF Patches, Patch, LoanPatch, SlotPatch

-----------------------------------------------------------------------------
(* Steps that change the request only.                                     *)

LEMMA JobStep ==
    ASSUME IInv, NEW h \in Handlers, NEW j \in Job \union {Idle},
           Start(h, j), UNCHANGED <<stores, ledger, settled>>,
           NewRowFits(j), TargetFits(j), RenewalFits(j)
    PROVE  IInv'
  <1> USE DEF IInv, stores
  <1>1. job' \in [Handlers -> Job \union {Idle}] /\ \A g \in Handlers : job'[g] = IF g = h THEN j ELSE job[g]
    BY DEF ServicesTypeOK, Start
  <1>2. ServicesTypeOK'
    BY <1>1 DEF ServicesTypeOK
  <1>3. ASSUME NEW g \in Handlers
        PROVE  NewRowFits(job[g])' /\ TargetFits(job[g])' /\ RenewalFits(job[g])'
    <2>1. NewRowFits(job'[g]) /\ TargetFits(job'[g]) /\ RenewalFits(job'[g])
      BY <1>1
    <2>2. NewRowFits(job[g])'
      BY <2>1 DEF NewRowFits, Named
    <2>3. TargetFits(job[g])'
      BY <2>1 DEF TargetFits, Exists, Named, Patches, LoanPatch, SlotPatch
    <2>4. RenewalFits(job[g])'
      BY <2>1 DEF RenewalFits, Exists, IsLoan
    <2> QED  BY <2>2, <2>3, <2>4
  <1>4. (\A i \in Rows : LedgerFits(i))'
    BY DEF LedgerFits, IsLoan
  <1>5. StudentsOfTheTenant'
    BY DEF StudentsOfTheTenant, Exists, Named
  <1> QED  BY <1>2, <1>3, <1>4, <1>5

LEMMA IdleFits == NewRowFits(Idle) /\ TargetFits(Idle) /\ RenewalFits(Idle)
  BY DEF NewRowFits, TargetFits, RenewalFits, Idle

LEMMA PostReadsKeeps ==
    ASSUME IInv, NEW h \in Handlers, NEW i \in Rows, NEW new \in Content, PostReads(h, i, new)
    PROVE  IInv'
  <1> DEFINE j == [pc |-> IF Named(new) = None THEN "insert" ELSE "vet", row |-> i, new |-> new]
  <1>1. j \in Job
    BY DEF Job
  <1>2. NewRowFits(j) /\ TargetFits(j) /\ RenewalFits(j)
    BY DEF PostReads, NewRowFits, TargetFits, RenewalFits
  <1>3. Start(h, j) /\ UNCHANGED <<stores, ledger, settled>>
    BY DEF PostReads
  <1> HIDE DEF j
  <1> QED  BY <1>1, <1>2, <1>3, JobStep

LEMMA PostVetsKeeps ==
    ASSUME IInv, NEW h \in Handlers, PostVets(h)
    PROVE  IInv'
  <1>1. job[h] \in Job \union {Idle} /\ At(h, "vet") /\ UNCHANGED <<stores, ledger, settled>>
    BY DEF IInv, ServicesTypeOK, PostVets
  <1>2. CASE InTenant(Named(job[h].new), job[h].new.tenant)
    <2> DEFINE j == [job[h] EXCEPT !.pc = "insert"]
    <2>1. job[h] \in [pc : {"vet", "insert"}, row : Rows, new : Content]
      BY <1>1 DEF Job, Idle, At
    <2>2. j \in Job /\ j.pc = "insert" /\ j.new = job[h].new
      BY <2>1 DEF Job
    <2>3. NewRowFits(job[h])
      BY DEF IInv
    <2>4. NewRowFits(j)
      BY <1>1, <1>2, <2>2, <2>3 DEF NewRowFits, InTenant, At
    <2>5. TargetFits(j) /\ RenewalFits(j)
      BY <2>2 DEF TargetFits, RenewalFits
    <2>6. Start(h, j)
      BY <1>2 DEF PostVets
    <2> HIDE DEF j
    <2> QED  BY <1>1, <2>2, <2>4, <2>5, <2>6, JobStep
  <1>3. CASE ~InTenant(Named(job[h].new), job[h].new.tenant)
    <2>1. Start(h, Idle)
      BY <1>3 DEF PostVets, Answer, Start
    <2> QED  BY <1>1, <2>1, IdleFits, JobStep
  <1> QED  BY <1>2, <1>3

LEMMA PatchReadsKeeps ==
    ASSUME IInv, NEW h \in Handlers, NEW actor \in Staff, NEW i \in Rows,
           NEW patch \in Patches(row[i].kind), PatchReads(h, actor, i, patch)
    PROVE  IInv'
  <1> DEFINE j == [pc |-> IF Named(patch) = None THEN "update" ELSE "examine",
                   actor |-> actor, tenant |-> row[i].tenant, row |-> i, patch |-> patch]
  <1>1. /\ Exists(i) /\ row[i].tenant # None /\ actor \in {Super, row[i].tenant}
        /\ row[i] \in Content
    BY RowShapes DEF PatchReads, Owned, IInv
  <1>2. patch \in Patch
    BY <1>1, PatchShapes
  <1>3. row[i].tenant \in Universities
    BY <1>1 DEF Content, Announcement, Deal, Slot, Loan
  <1>4. j \in Job
    BY <1>2, <1>3 DEF Job
  <1>5. NewRowFits(j) /\ RenewalFits(j)
    BY DEF NewRowFits, RenewalFits
  <1>6. TargetFits(j)
    BY <1>1 DEF TargetFits, Exists
  <1>7. Start(h, j) /\ UNCHANGED <<stores, ledger, settled>>
    BY DEF PatchReads
  <1> HIDE DEF j
  <1> QED  BY <1>4, <1>5, <1>6, <1>7, JobStep

LEMMA PatchVetsKeeps ==
    ASSUME IInv, NEW h \in Handlers, PatchVets(h)
    PROVE  IInv'
  <1>1. job[h] \in Job \union {Idle} /\ At(h, "examine") /\ UNCHANGED <<stores, ledger, settled>>
    BY DEF IInv, ServicesTypeOK, PatchVets
  <1>2. CASE InTenant(Named(job[h].patch), job[h].tenant)
    <2> DEFINE j == [job[h] EXCEPT !.pc = "update"]
    <2>1. job[h] \in [pc : {"examine", "update"}, actor : Staff, tenant : Universities,
                      row : Rows, patch : Patch]
      BY <1>1 DEF Job, Idle, At
    <2>2. /\ j \in Job /\ j.pc = "update" /\ j.row = job[h].row /\ j.patch = job[h].patch
          /\ j.tenant = job[h].tenant /\ j.actor = job[h].actor
      BY <2>1 DEF Job
    <2>3. TargetFits(job[h])
      BY DEF IInv
    <2>4. TargetFits(j)
      BY <1>1, <1>2, <2>2, <2>3 DEF TargetFits, InTenant, At
    <2>5. NewRowFits(j) /\ RenewalFits(j)
      BY <2>2 DEF NewRowFits, RenewalFits
    <2>6. Start(h, j)
      BY <1>2 DEF PatchVets
    <2> HIDE DEF j
    <2> QED  BY <1>1, <2>2, <2>4, <2>5, <2>6, JobStep
  <1>3. CASE ~InTenant(Named(job[h].patch), job[h].tenant)
    <2>1. Start(h, Idle)
      BY <1>3 DEF PatchVets, Answer, Start
    <2> QED  BY <1>1, <2>1, IdleFits, JobStep
  <1> QED  BY <1>2, <1>3

LEMMA DeleteReadsKeeps ==
    ASSUME IInv, NEW h \in Handlers, NEW actor \in Staff, NEW i \in Rows, DeleteReads(h, actor, i)
    PROVE  IInv'
  <1> DEFINE j == [pc |-> "remove", actor |-> actor, row |-> i]
  <1>1. Exists(i) /\ actor \in {Super, row[i].tenant}
    BY DEF DeleteReads, Owned
  <1>2. j \in Job
    BY DEF Job
  <1>3. NewRowFits(j) /\ TargetFits(j) /\ RenewalFits(j)
    BY <1>1 DEF NewRowFits, TargetFits, RenewalFits, Exists
  <1>4. Start(h, j) /\ UNCHANGED <<stores, ledger, settled>>
    BY DEF DeleteReads
  <1> HIDE DEF j
  <1> QED  BY <1>2, <1>3, <1>4, JobStep

LEMMA RenewReadsKeeps ==
    ASSUME IInv, NEW h \in Handlers, NEW i \in Rows, RenewReads(h, i)
    PROVE  IInv'
  <1> DEFINE j == [pc |-> "renew", row |-> i, due |-> row[i].due, count |-> row[i].count]
  <1>1. row[i] \in Loan /\ Exists(i) /\ IsLoan(i)
    BY RowShapes DEF RenewReads, IInv
  <1>2. /\ row[i].due \in 0..MaxDue /\ row[i].count \in 0..MaxCount /\ row[i].max \in 0..MaxCount
        /\ ~row[i].returned /\ row[i].count < row[i].max /\ row[i].due < MaxDue
    BY <1>1 DEF Loan, RenewReads, CanRenew
  <1>3. j \in Job
    BY <1>2 DEF Job
  <1>4. NewRowFits(j) /\ TargetFits(j)
    BY DEF NewRowFits, TargetFits
  <1>5. LedgerFits(i)
    BY DEF IInv
  <1>6. RenewalFits(j)
    BY <1>1, <1>2, <1>5, BoundsAssumption DEF RenewalFits, LedgerFits, Exists
  <1>7. Start(h, j) /\ UNCHANGED <<stores, ledger, settled>>
    BY DEF RenewReads
  <1> HIDE DEF j
  <1> QED  BY <1>3, <1>4, <1>6, <1>7, JobStep

LEMMA AbortKeeps ==
    ASSUME IInv, NEW h \in Handlers, Abort(h)
    PROVE  IInv'
  <1>1. Start(h, Idle) /\ UNCHANGED <<stores, ledger, settled>>
    BY DEF Abort, Answer, Start
  <1> QED  BY <1>1, IdleFits, JobStep

-----------------------------------------------------------------------------
(* Steps that write the row i.  `new` is what it becomes: Gone, or a row   *)
(* of the kind and establishment of the old one.                           *)

LEMMA JobsAfterAnswer ==
    ASSUME ServicesTypeOK, NEW h \in Handlers, Answer(h)
    PROVE  /\ job' \in [Handlers -> Job \union {Idle}]
           /\ \A g \in Handlers : job'[g] = IF g = h THEN Idle ELSE job[g]
  BY DEF ServicesTypeOK, Answer

\* What the history notes of a loan.
LEMMA LedgerShapes ==
    ASSUME NEW r \in Loan
    PROVE  /\ LedgerOf(r) \in Ledger
           /\ LedgerOf(r).base = r.due - r.count
           /\ LedgerOf(r).within => r.count <= r.max
  <1> DEFINE fits == r.count <= r.max
  <1>1. r.due - r.count \in Int /\ fits \in BOOLEAN
    BY DEF Loan
  <1>2. LedgerOf(r) = [kept |-> TRUE, base |-> r.due - r.count, within |-> fits]
    BY DEF LedgerOf
  <1>3. LedgerOf(r).base = r.due - r.count
    BY <1>2
  <1>4. LedgerOf(r).within = fits
    <2>1. CASE fits = TRUE
      BY <1>1, <1>2, <2>1 DEF Ledger
    <2>2. CASE fits = FALSE
      BY <1>1, <1>2, <2>2 DEF Ledger
    <2> QED  BY <1>1, <2>1, <2>2
  <1> HIDE DEF fits
  <1>5. LedgerOf(r) \in Ledger
    BY <1>1, <1>2 DEF Ledger
  <1> QED  BY <1>3, <1>4, <1>5 DEF fits

\* The requests about other rows, and what a POST or PATCH knows of students.
LEMMA RowStepTargets ==
    ASSUME IInv, NEW h \in Handlers, NEW i \in Rows, NEW new \in Content \union {Gone},
           Answer(h), home' = home, row' = [row EXCEPT ![i] = new],
           Exists(i) /\ new # Gone => new.kind = row[i].kind /\ new.tenant = row[i].tenant,
           ~Exists(i) => row[i] = NoRow
    PROVE  \A g \in Handlers : NewRowFits(job[g])' /\ TargetFits(job[g])'
  <1> SUFFICES ASSUME NEW g \in Handlers
               PROVE  NewRowFits(job[g])' /\ TargetFits(job[g])'
    OBVIOUS
  <1>1. job'[g] = IF g = h THEN Idle ELSE job[g]
    BY JobsAfterAnswer DEF IInv
  <1>2. CASE g = h
    BY <1>1, <1>2 DEF NewRowFits, TargetFits, Idle
  <1>3. CASE g # h
    <2>1. NewRowFits(job[g]) /\ TargetFits(job[g]) /\ job'[g] = job[g] /\ job[g] \in Job \union {Idle}
      BY <1>1, <1>3 DEF IInv, ServicesTypeOK
    <2>2. NewRowFits(job[g])'
      BY <2>1 DEF NewRowFits, Named
    <2>3. \A k \in Rows : row'[k] = IF k = i THEN new ELSE row[k]
      BY DEF IInv, ServicesTypeOK
    <2>4. new # NoRow
      BY ContentShapes DEF NoRow, Gone
    <2>5. CASE job[g].pc \in {"examine", "update"}
      <3>1. job[g].row \in Rows /\ row[job[g].row] # NoRow
        BY <2>1, <2>5, JobShapes DEF TargetFits
      <3>2. row'[job[g].row] # NoRow
        BY <2>3, <2>4, <3>1
      <3>3. ASSUME Exists(job[g].row)'
            PROVE  /\ row'[job[g].row].tenant = job[g].tenant
                   /\ job[g].patch \in Patches(row'[job[g].row].kind)
        <4>1. Exists(job[g].row)
          BY <2>1, <2>3, <3>1, <3>3 DEF Exists
        <4>2. /\ row'[job[g].row].tenant = row[job[g].row].tenant
              /\ row'[job[g].row].kind = row[job[g].row].kind
          BY <2>1, <2>3, <3>1, <3>3, <4>1 DEF Exists
        <4> QED  BY <2>1, <2>5, <4>1, <4>2 DEF TargetFits
      <3> QED  BY <2>1, <2>2, <2>5, <3>2, <3>3 DEF TargetFits, Patches, LoanPatch, SlotPatch, Exists, Named
    <2>6. CASE job[g].pc = "remove"
      <3>1. job[g].row \in Rows /\ row[job[g].row] # NoRow
        BY <2>1, <2>6, JobShapes DEF TargetFits
      <3> QED  BY <2>1, <2>2, <2>3, <2>4, <2>6, <3>1 DEF TargetFits, Exists
    <2>7. CASE job[g].pc \notin {"examine", "update", "remove"}
      BY <2>1, <2>2, <2>7 DEF TargetFits
    <2> QED  BY <2>5, <2>6, <2>7
  <1> QED  BY <1>2, <1>3

LEMMA PostInsertsKeeps ==
    ASSUME IInv, NEW h \in Handlers, PostInserts(h)
    PROVE  IInv'
  <1> DEFINE i == job[h].row
             new == job[h].new
  <1>1. /\ At(h, "insert") /\ row[i] = NoRow /\ Referenced(Named(new)) /\ home' = home
        /\ row' = [row EXCEPT ![i] = new] /\ Answer(h) /\ settled' = settled
        /\ ledger' = IF new.kind = "loan" THEN [ledger EXCEPT ![i] = LedgerOf(new)] ELSE ledger
    BY DEF PostInserts
  <1>2. i \in Rows /\ new \in Content
    BY <1>1, JobShapes DEF IInv, ServicesTypeOK, At
  <1>3. NewRowFits(job[h]) /\ ServicesTypeOK
    BY DEF IInv
  <1> HIDE DEF i, new
  <1>4. /\ new.kind = "loan" => new \in Loan /\ ~new.returned
        /\ Named(new) # None => home[Named(new)] = new.tenant /\ Named(new) = new.student
    BY <1>1, <1>2, <1>3, ContentShapes, NamedShapes DEF NewRowFits, At, Referenced, new
  <1>5. /\ new.kind = "loan" =>
            /\ LedgerOf(new) \in Ledger
            /\ LedgerOf(new).base = new.due - new.count
            /\ LedgerOf(new).within => new.count <= new.max
    BY <1>4, LedgerShapes
  <1>6. \A k \in Rows : /\ row'[k] = IF k = i THEN new ELSE row[k]
                        /\ ledger'[k] = IF k = i /\ new.kind = "loan" THEN LedgerOf(new) ELSE ledger[k]
    BY <1>1, <1>2, <1>3 DEF ServicesTypeOK
  <1>7. ServicesTypeOK'
    BY <1>1, <1>2, <1>3, <1>5, JobsAfterAnswer DEF ServicesTypeOK
  <1>8. \A g \in Handlers : NewRowFits(job[g])' /\ TargetFits(job[g])'
    <2>1. ~Exists(i)
      BY <1>1 DEF Exists
    <2> QED  BY <1>1, <1>2, <2>1, RowStepTargets
  <1>9. \A g \in Handlers : RenewalFits(job[g])'
    <2> SUFFICES ASSUME NEW g \in Handlers
                 PROVE  RenewalFits(job[g])'
      OBVIOUS
    <2>1. job'[g] = IF g = h THEN Idle ELSE job[g]
      BY <1>1, <1>3, JobsAfterAnswer
    <2>2. RenewalFits(job[g]) /\ job[g] \in Job \union {Idle}
      BY DEF IInv, ServicesTypeOK
    <2>3. CASE g = h
      BY <2>1, <2>3 DEF RenewalFits, Idle
    <2>4. CASE g # h /\ job[g].pc = "renew"
      <3>1. job[g].row \in Rows /\ job[g].row # i
        BY <1>1, <2>2, <2>4, JobShapes DEF RenewalFits
      <3> QED  BY <1>1, <1>6, <2>1, <2>2, <2>4, <3>1 DEF RenewalFits, Exists, IsLoan
    <2>5. CASE g # h /\ job[g].pc # "renew"
      BY <2>1, <2>5 DEF RenewalFits
    <2> QED  BY <2>3, <2>4, <2>5
  <1>10. (\A k \in Rows : LedgerFits(k))'
    <2> SUFFICES ASSUME NEW k \in Rows
                 PROVE  LedgerFits(k)'
      OBVIOUS
    <2>1. LedgerFits(k)
      BY DEF IInv
    <2>2. CASE k # i
      BY <1>1, <1>6, <2>1, <2>2 DEF LedgerFits, IsLoan
    <2>3. CASE k = i
      <3>1. ~ledger[i].kept /\ i \notin settled
        BY <1>1, <2>1, <2>3 DEF LedgerFits, IsLoan, NoRow
      <3> QED  BY <1>1, <1>2, <1>5, <1>6, <2>3, <3>1 DEF LedgerFits, IsLoan
    <2> QED  BY <2>2, <2>3
  <1>11. StudentsOfTheTenant'
    BY <1>1, <1>4, <1>6 DEF StudentsOfTheTenant, IInv, Exists, Named
  <1> QED  BY <1>7, <1>8, <1>9, <1>10, <1>11 DEF IInv

LEMMA DeleteWritesKeeps ==
    ASSUME IInv, NEW h \in Handlers, DeleteWrites(h)
    PROVE  IInv'
  <1> DEFINE i == job[h].row
  <1>1. /\ At(h, "remove") /\ Exists(i) /\ home' = home /\ Answer(h)
        /\ row' = [row EXCEPT ![i] = Gone]
        /\ ledger' = [ledger EXCEPT ![i] = NoLedger] /\ settled' = settled \ {i}
    BY DEF DeleteWrites
  <1>2. i \in Rows /\ ServicesTypeOK
    BY <1>1, JobShapes DEF IInv, ServicesTypeOK, At
  <1> HIDE DEF i
  <1>3. NoLedger \in Ledger /\ ~NoLedger.kept
    BY DEF NoLedger, Ledger
  <1>4. \A k \in Rows : /\ row'[k] = IF k = i THEN Gone ELSE row[k]
                        /\ ledger'[k] = IF k = i THEN NoLedger ELSE ledger[k]
    BY <1>1, <1>2 DEF ServicesTypeOK
  <1>5. ServicesTypeOK'
    BY <1>1, <1>2, <1>3, JobsAfterAnswer DEF ServicesTypeOK
  <1>6. \A g \in Handlers : NewRowFits(job[g])' /\ TargetFits(job[g])'
    BY <1>1, <1>2, RowStepTargets
  <1>7. \A g \in Handlers : RenewalFits(job[g])'
    <2> SUFFICES ASSUME NEW g \in Handlers
                 PROVE  RenewalFits(job[g])'
      OBVIOUS
    <2>1. job'[g] = IF g = h THEN Idle ELSE job[g]
      BY <1>1, <1>2, JobsAfterAnswer
    <2>2. RenewalFits(job[g]) /\ job[g] \in Job \union {Idle}
      BY DEF IInv, ServicesTypeOK
    <2>3. CASE g = h \/ job[g].pc # "renew"
      BY <2>1, <2>3 DEF RenewalFits, Idle
    <2>4. CASE g # h /\ job[g].pc = "renew"
      <3>1. job[g].row \in Rows
        BY <2>2, <2>4, JobShapes
      <3>2. Gone # NoRow
        BY DEF Gone, NoRow
      <3> QED  BY <1>1, <1>3, <1>4, <2>1, <2>2, <2>4, <3>1, <3>2 DEF RenewalFits, Exists, IsLoan
    <2> QED  BY <2>3, <2>4
  <1>8. (\A k \in Rows : LedgerFits(k))'
    BY <1>1, <1>3, <1>4 DEF LedgerFits, IsLoan, IInv
  <1>9. StudentsOfTheTenant'
    BY <1>1, <1>4 DEF StudentsOfTheTenant, IInv, Exists, Named
  <1> QED  BY <1>5, <1>6, <1>7, <1>8, <1>9 DEF IInv

LEMMA RenewWritesKeeps ==
    ASSUME IInv, NEW h \in Handlers, RenewWrites(h)
    PROVE  IInv'
  <1> DEFINE i == job[h].row
             new == [row[i] EXCEPT !.due = job[h].due + 1, !.count = job[h].count + 1]
  <1>1. /\ At(h, "renew") /\ IsLoan(i) /\ home' = home /\ Answer(h)
        /\ row' = [row EXCEPT ![i].due = job[h].due + 1, ![i].count = job[h].count + 1]
        /\ ledger' = ledger /\ settled' = settled
    BY DEF RenewWrites
  <1>2. /\ i \in Rows /\ ServicesTypeOK /\ RenewalFits(job[h])
        /\ job[h].due \in 0..MaxDue /\ job[h].count \in 0..MaxCount
    BY <1>1, JobShapes DEF IInv, ServicesTypeOK, At
  <1>3. row' = [row EXCEPT ![i] = new]
    BY <1>1, <1>2 DEF ServicesTypeOK
  <1>4. row[i] \in Loan /\ Exists(i)
    BY <1>1, <1>2, RowShapes
  <1>5. job[h].due + 1 \in 0..MaxDue /\ job[h].count + 1 \in 0..MaxCount
    BY <1>1, <1>2, BoundsAssumption DEF RenewalFits, At
  <1>6. /\ new \in Loan /\ new.due = job[h].due + 1 /\ new.count = job[h].count + 1
        /\ new.kind = row[i].kind /\ new.tenant = row[i].tenant /\ new.student = row[i].student
        /\ new.max = row[i].max /\ new.returned = row[i].returned /\ new.kind = "loan"
    BY <1>4, <1>5 DEF Loan
  <1>7. new \in Content
    BY <1>6 DEF Content
  <1>8. Named(new) = Named(row[i])
    BY <1>4, <1>6, <1>7, NamedShapes, RowShapes, <1>2 DEF IsLoan
  <1> HIDE DEF new
  <1>9. \A k \in Rows : row'[k] = IF k = i THEN new ELSE row[k]
    BY <1>2, <1>3 DEF ServicesTypeOK
  <1>10. ServicesTypeOK'
    BY <1>1, <1>2, <1>3, <1>7, JobsAfterAnswer DEF ServicesTypeOK
  <1>11. \A g \in Handlers : NewRowFits(job[g])' /\ TargetFits(job[g])'
    BY <1>1, <1>2, <1>3, <1>4, <1>6, <1>7, RowStepTargets
  <1>12. \A g \in Handlers : RenewalFits(job[g])'
    <2> SUFFICES ASSUME NEW g \in Handlers
                 PROVE  RenewalFits(job[g])'
      OBVIOUS
    <2>1. job'[g] = IF g = h THEN Idle ELSE job[g]
      BY <1>1, <1>2, JobsAfterAnswer
    <2>2. RenewalFits(job[g]) /\ job[g] \in Job \union {Idle}
      BY DEF IInv, ServicesTypeOK
    <2>3. CASE g = h \/ job[g].pc # "renew"
      BY <2>1, <2>3 DEF RenewalFits, Idle
    <2>4. CASE g # h /\ job[g].pc = "renew"
      <3>1. job[g].row \in Rows
        BY <2>2, <2>4, JobShapes
      <3>2. new # NoRow /\ new # Gone
        BY <1>7, ContentShapes
      <3> QED  BY <1>1, <1>6, <1>9, <2>1, <2>2, <2>4, <3>1, <3>2 DEF RenewalFits, Exists, IsLoan
    <2> QED  BY <2>3, <2>4
  <1>13. (\A k \in Rows : LedgerFits(k))'
    <2> SUFFICES ASSUME NEW k \in Rows
                 PROVE  LedgerFits(k)'
      OBVIOUS
    <2>1. LedgerFits(k)
      BY DEF IInv
    <2>2. CASE k # i
      BY <1>1, <1>9, <2>1, <2>2 DEF LedgerFits, IsLoan
    <2>3. CASE k = i
      <3>1. ledger[i].kept =>
               /\ (job[h].due + 1) - (job[h].count + 1) = ledger[i].base
               /\ ledger[i].within => job[h].count + 1 <= row[i].max
        BY <1>1, <1>2 DEF RenewalFits, At
      <3> QED  BY <1>1, <1>6, <1>9, <2>1, <2>3, <3>1 DEF LedgerFits, IsLoan
    <2> QED  BY <2>2, <2>3
  <1>14. StudentsOfTheTenant'
    <2> SUFFICES ASSUME NEW k \in Rows, Exists(k)', Named(row[k])' # None
                 PROVE  home'[row'[k].student] = row'[k].tenant
      BY DEF StudentsOfTheTenant
    <2>1. CASE k # i
      BY <1>1, <1>9, <2>1 DEF StudentsOfTheTenant, IInv, Exists, Named
    <2>2. CASE k = i
      <3>1. row'[i] = new /\ Named(row[i]) # None /\ row[i].student = Named(row[i])
        BY <1>2, <1>4, <1>8, <1>9, <2>2, RowShapes, NamedShapes DEF Named
      <3>2. home[row[i].student] = row[i].tenant
        BY <1>2, <1>4, <3>1 DEF StudentsOfTheTenant, IInv
      <3> QED  BY <1>1, <1>6, <2>2, <3>1, <3>2
    <2> QED  BY <2>1, <2>2
  <1> QED  BY <1>10, <1>11, <1>12, <1>13, <1>14 DEF IInv

\* An UPDATE: with no renewal of the loan in flight the ledger starts anew.
LEMMA PatchWritesKeeps ==
    ASSUME IInv, NEW h \in Handlers, PatchWrites(h)
    PROVE  IInv'
  <1> DEFINE i == job[h].row
             patch == job[h].patch
             new == Merged(row[i], patch)
  <1>1. /\ At(h, "update") /\ Exists(i) /\ Referenced(Named(patch)) /\ home' = home /\ Answer(h)
        /\ row' = [row EXCEPT ![i] = new]
        /\ ledger' = IF ~IsLoan(i) THEN ledger
                     ELSE [ledger EXCEPT ![i] = IF Renewing(i) THEN NoLedger ELSE LedgerOf(new)]
        /\ settled' = IF ~IsLoan(i) THEN settled
                      ELSE IF ~new.returned THEN settled \ {i}
                      ELSE IF Renewing(i) THEN settled ELSE settled \union {i}
    BY DEF PatchWrites
  <1>2. i \in Rows /\ ServicesTypeOK /\ TargetFits(job[h])
    BY <1>1, JobShapes DEF IInv, ServicesTypeOK, At
  <1>3. row[i] \in Content /\ patch \in Patches(row[i].kind) /\ row[i].tenant = job[h].tenant
    BY <1>1, <1>2, RowShapes DEF TargetFits, At
  <1>4. /\ new \in Content /\ new.kind = row[i].kind /\ new.tenant = row[i].tenant
        /\ Named(patch) \in Students \union {None}
        /\ Named(new) \in {None, Named(row[i]), Named(patch)}
    BY <1>3, MergedFits
  <1>5. Named(patch) # None => home[Named(patch)] = row[i].tenant
    BY <1>1, <1>2, <1>3 DEF TargetFits, At, Referenced
  <1> HIDE DEF new, patch, i
  <1>6. new # NoRow /\ new # Gone
    BY <1>4, ContentShapes
  <1>7. IsLoan(i) =>
           /\ new \in Loan /\ LedgerOf(new) \in Ledger
           /\ LedgerOf(new).base = new.due - new.count
           /\ LedgerOf(new).within => new.count <= new.max
    BY <1>4, ContentShapes, LedgerShapes DEF IsLoan
  <1>8. NoLedger \in Ledger /\ ~NoLedger.kept
    BY DEF NoLedger, Ledger
  <1>9. \A k \in Rows :
           /\ row'[k] = IF k = i THEN new ELSE row[k]
           /\ ledger'[k] = IF k # i \/ ~IsLoan(i) THEN ledger[k]
                           ELSE IF Renewing(i) THEN NoLedger ELSE LedgerOf(new)
    BY <1>1, <1>2 DEF ServicesTypeOK
  <1>10. ServicesTypeOK'
    BY <1>1, <1>2, <1>4, <1>7, <1>8, JobsAfterAnswer DEF ServicesTypeOK
  <1>11. \A g \in Handlers : NewRowFits(job[g])' /\ TargetFits(job[g])'
    BY <1>1, <1>2, <1>4, RowStepTargets
  <1>12. \A g \in Handlers : RenewalFits(job[g])'
    <2> SUFFICES ASSUME NEW g \in Handlers
                 PROVE  RenewalFits(job[g])'
      OBVIOUS
    <2>1. job'[g] = IF g = h THEN Idle ELSE job[g]
      BY <1>1, <1>2, JobsAfterAnswer
    <2>2. RenewalFits(job[g]) /\ job[g] \in Job \union {Idle}
      BY DEF IInv, ServicesTypeOK
    <2>3. CASE g = h \/ job[g].pc # "renew"
      BY <2>1, <2>3 DEF RenewalFits, Idle
    <2>4. CASE g # h /\ job[g].pc = "renew"
      <3>1. job[g].row \in Rows
        BY <2>2, <2>4, JobShapes
      <3>2. CASE job[g].row # i
        BY <1>1, <1>9, <2>1, <2>2, <2>4, <3>1, <3>2 DEF RenewalFits, Exists, IsLoan
      <3>3. CASE job[g].row = i
        <4>1. IsLoan(i) /\ Renewing(i)
          BY <1>1, <2>2, <2>4, <3>3 DEF RenewalFits, Renewing, At
        <4>2. ~ledger'[i].kept /\ i \notin settled'
          BY <1>1, <1>2, <1>8, <1>9, <2>2, <2>4, <3>3, <4>1 DEF RenewalFits
        <4>3. row'[i] # NoRow /\ row'[i].kind = "loan"
          BY <1>2, <1>4, <1>6, <1>9, <4>1 DEF IsLoan
        <4> QED  BY <2>1, <2>2, <2>4, <3>3, <4>2, <4>3 DEF RenewalFits, IsLoan
      <3> QED  BY <3>2, <3>3
    <2> QED  BY <2>3, <2>4
  <1>13. (\A k \in Rows : LedgerFits(k))'
    <2> SUFFICES ASSUME NEW k \in Rows
                 PROVE  LedgerFits(k)'
      OBVIOUS
    <2>1. LedgerFits(k)
      BY DEF IInv
    <2>2. CASE k # i
      BY <1>1, <1>9, <2>1, <2>2 DEF LedgerFits, IsLoan
    <2>3. CASE k = i /\ ~IsLoan(i)
      <3>1. ~ledger[i].kept /\ i \notin settled
        BY <2>1, <2>3 DEF LedgerFits
      <3> QED  BY <1>1, <1>2, <1>9, <2>3, <3>1 DEF LedgerFits
    <2>4. CASE k = i /\ IsLoan(i)
      <3>1. row'[i] = new /\ new.kind = "loan"
        BY <1>2, <1>4, <1>9, <2>4 DEF IsLoan
      <3>2. i \in settled' => new.returned
        BY <1>1, <2>4
      <3>3. ledger'[i].kept =>
              /\ new.due - new.count = ledger'[i].base
              /\ ledger'[i].within => new.count <= new.max
        BY <1>2, <1>7, <1>8, <1>9, <2>4
      <3> QED  BY <2>4, <3>1, <3>2, <3>3 DEF LedgerFits, IsLoan
    <2> QED  BY <2>2, <2>3, <2>4
  <1>14. StudentsOfTheTenant'
    <2> SUFFICES ASSUME NEW k \in Rows, Exists(k)', Named(row[k])' # None
                 PROVE  home'[row'[k].student] = row'[k].tenant
      BY DEF StudentsOfTheTenant
    <2>1. CASE k # i
      BY <1>1, <1>9, <2>1 DEF StudentsOfTheTenant, IInv, Exists, Named
    <2>2. CASE k = i
      <3>1. row'[i] = new
        BY <1>2, <1>9
      <3>2. Named(new) # None
        BY <2>2, <3>1 DEF Named
      <3>3. new.student = Named(new)
        BY <1>4, <3>2, NamedShapes
      <3>4. Named(row[i]) # None => home[Named(row[i])] = row[i].tenant
        BY <1>1, <1>2, <1>3, NamedShapes DEF StudentsOfTheTenant, IInv
      <3> QED  BY <1>1, <1>4, <1>5, <2>2, <3>1, <3>2, <3>3, <3>4
    <2> QED  BY <2>1, <2>2
  <1> QED  BY <1>10, <1>11, <1>12, <1>13, <1>14 DEF IInv

LEMMA EraseStudentKeeps ==
    ASSUME IInv, NEW s \in Students, EraseStudent(s)
    PROVE  IInv'
  <1> DEFINE lost == {i \in Rows : row[i] \notin {NoRow, Gone} /\ Named(row[i]) = s}
  <1>1. /\ home' = [home EXCEPT ![s] = None] /\ job' = job /\ settled' = settled \ lost
        /\ row' = [i \in Rows |-> IF i \in lost THEN Gone ELSE row[i]]
        /\ ledger' = [i \in Rows |-> IF i \in lost THEN NoLedger ELSE ledger[i]]
    BY DEF EraseStudent
  <1>2. ServicesTypeOK /\ NoLedger \in Ledger /\ ~NoLedger.kept /\ Gone # NoRow
    BY DEF IInv, NoLedger, Ledger, Gone, NoRow
  <1>3. \A k \in Rows : k \in lost <=> Exists(k) /\ Named(row[k]) = s
    BY DEF Exists
  <1>4. \A t \in Students : home'[t] = IF t = s THEN None ELSE home[t]
    BY <1>1, <1>2 DEF ServicesTypeOK
  <1> HIDE DEF lost
  <1>5. ServicesTypeOK'
    BY <1>1, <1>2 DEF ServicesTypeOK
  <1>6. ASSUME NEW g \in Handlers
        PROVE  NewRowFits(job[g])' /\ TargetFits(job[g])' /\ RenewalFits(job[g])'
    <2>1. /\ NewRowFits(job[g]) /\ TargetFits(job[g]) /\ RenewalFits(job[g])
          /\ job[g] \in Job \union {Idle} /\ job'[g] = job[g]
      BY <1>1 DEF IInv, ServicesTypeOK
    <2>2. NewRowFits(job[g])'
      <3>1. job[g].pc = "insert" => job[g].new \in Content
        BY <2>1, JobShapes
      <3>2. job[g].pc = "insert" /\ Named(job[g].new) # None => Named(job[g].new) \in Students
        BY <3>1, NamedShapes
      <3> QED  BY <1>4, <2>1, <3>2 DEF NewRowFits, Named
    <2>3. TargetFits(job[g])'
      <3>1. CASE job[g].pc \in {"examine", "update"}
        <4>1. job[g].row \in Rows /\ job[g].patch \in Patch
          BY <2>1, <3>1, JobShapes
        <4>2. Named(job[g].patch) \in Students \union {None}
          BY <4>1 DEF Patch, LoanPatch, SlotPatch, Named
        <4>3. row'[job[g].row] # NoRow
          BY <1>1, <1>2, <2>1, <3>1, <4>1 DEF TargetFits
        <4>4. Exists(job[g].row)' => Exists(job[g].row) /\ row'[job[g].row] = row[job[g].row]
          BY <1>1, <4>1 DEF Exists
        <4> QED  BY <1>4, <2>1, <3>1, <4>2, <4>3, <4>4 DEF TargetFits, Named, Patches, LoanPatch, SlotPatch
      <3>2. CASE job[g].pc = "remove"
        <4>1. job[g].row \in Rows
          BY <2>1, <3>2, JobShapes
        <4> QED  BY <1>1, <1>2, <2>1, <3>2, <4>1 DEF TargetFits, Exists
      <3>3. CASE job[g].pc \notin {"examine", "update", "remove"}
        BY <2>1, <3>3 DEF TargetFits
      <3> QED  BY <3>1, <3>2, <3>3
    <2>4. RenewalFits(job[g])'
      <3>1. CASE job[g].pc = "renew"
        <4>1. job[g].row \in Rows
          BY <2>1, <3>1, JobShapes
        <4> QED  BY <1>1, <1>2, <2>1, <3>1, <4>1 DEF RenewalFits, Exists, IsLoan
      <3>2. CASE job[g].pc # "renew"
        BY <2>1, <3>2 DEF RenewalFits
      <3> QED  BY <3>1, <3>2
    <2> QED  BY <2>2, <2>3, <2>4
  <1>7. (\A k \in Rows : LedgerFits(k))'
    BY <1>1, <1>2 DEF IInv, LedgerFits, IsLoan
  <1>8. StudentsOfTheTenant'
    <2> SUFFICES ASSUME NEW k \in Rows, Exists(k)', Named(row[k])' # None
                 PROVE  home'[row'[k].student] = row'[k].tenant
      BY DEF StudentsOfTheTenant
    <2>1. row'[k] = row[k] /\ Exists(k) /\ Named(row[k]) # None /\ Named(row[k]) # s
      BY <1>1, <1>3 DEF Exists, Named
    <2>2. Named(row[k]) = row[k].student /\ Named(row[k]) \in Students
      BY <1>2, <2>1, RowShapes, NamedShapes
    <2> QED  BY <1>4, <2>1, <2>2 DEF StudentsOfTheTenant, IInv
  <1> QED  BY <1>5, <1>6, <1>7, <1>8 DEF IInv

-----------------------------------------------------------------------------
(* The theorems.                                                           *)

LEMMA InitHolds == ServicesInit => IInv
  <1> SUFFICES ASSUME ServicesInit
               PROVE  IInv
    OBVIOUS
  <1>1. \A i \in Rows : row[i] \in {NoRow} \union GlobalDeal
    BY DEF ServicesInit
  <1>2. GlobalDeal \subseteq Deal
    BY DEF GlobalDeal, Deal
  <1>3. ServicesTypeOK
    BY <1>2 DEF ServicesInit, ServicesTypeOK, Content, NoLedger, Ledger
  <1>4. \A h \in Handlers : NewRowFits(job[h]) /\ TargetFits(job[h]) /\ RenewalFits(job[h])
    BY IdleFits DEF ServicesInit
  <1>5. \A i \in Rows : LedgerFits(i)
    BY DEF ServicesInit, LedgerFits, NoLedger
  <1>6. StudentsOfTheTenant
    <2> SUFFICES ASSUME NEW i \in Rows, Exists(i)
                 PROVE  Named(row[i]) = None
      BY DEF StudentsOfTheTenant
    <2>1. row[i] \in Deal
      BY <1>1, <1>2 DEF Exists
    <2>2. "student" \notin DOMAIN row[i]
      BY <2>1 DEF Deal
    <2> QED  BY <2>2 DEF Named
  <1> QED  BY <1>3, <1>4, <1>5, <1>6 DEF IInv

LEMMA NextKeeps == IInv /\ [ServicesNext]_serviceVars => IInv'
  <1> SUFFICES ASSUME IInv, [ServicesNext]_serviceVars
               PROVE  IInv'
    OBVIOUS
  <1>1. ASSUME NEW h \in Handlers, Request(h)
        PROVE  IInv'
    BY <1>1, PostReadsKeeps, PatchReadsKeeps, DeleteReadsKeeps, RenewReadsKeeps DEF Request
  <1>2. ASSUME NEW h \in Handlers, HandlerStep(h)
        PROVE  IInv'
    BY <1>2, PostVetsKeeps, PostInsertsKeeps, PatchVetsKeeps, PatchWritesKeeps,
       DeleteWritesKeeps, RenewWritesKeeps, AbortKeeps DEF HandlerStep
  <1>3. ASSUME NEW s \in Students, EraseStudent(s)
        PROVE  IInv'
    BY <1>3, EraseStudentKeeps
  <1>4. CASE UNCHANGED serviceVars
    <2>1. ServicesTypeOK'
      BY <1>4 DEF serviceVars, IInv, ServicesTypeOK
    <2>2. \A h \in Handlers : NewRowFits(job[h])' /\ TargetFits(job[h])' /\ RenewalFits(job[h])'
      BY <1>4 DEF serviceVars, IInv, NewRowFits, TargetFits, RenewalFits, Exists, IsLoan, Named,
                  Patches, LoanPatch, SlotPatch
    <2>3. (\A i \in Rows : LedgerFits(i))' /\ StudentsOfTheTenant'
      BY <1>4 DEF serviceVars, IInv, LedgerFits, StudentsOfTheTenant, Exists, IsLoan, Named
    <2> QED  BY <2>1, <2>2, <2>3 DEF IInv
  <1> QED  BY <1>1, <1>2, <1>3, <1>4 DEF ServicesNext

\* The inductive invariant holds of every behaviour of the services.
THEOREM Inductive == ServicesSpec => []IInv
  BY InitHolds, NextKeeps, PTL DEF ServicesSpec

\* Rows, requests and histories keep their types (StudentServices).
THEOREM ServicesTypeCorrect == ServicesSpec => []ServicesTypeOK
  <1>1. IInv => ServicesTypeOK
    BY DEF IInv
  <1> QED  BY <1>1, Inductive, PTL

\* A slot or a loan names a student of its own establishment.
THEOREM NamedStudentsInScope == ServicesSpec => []StudentsOfTheTenant
  <1>1. IInv => StudentsOfTheTenant
    BY DEF IInv
  <1> QED  BY <1>1, Inductive, PTL

\* The portal shows a student the rows of the own establishment: the filters of
\* getSchedule, getNews and getDeals say so, and for the loans, which getLoans
\* selects by student, StudentsOfTheTenant does.
THEOREM PortalInScope == ServicesSpec => []PortalStaysHome
  <1>1. IInv => PortalStaysHome
    <2> SUFFICES ASSUME IInv, NEW s \in Students, NEW i \in ShownTo(s)
                 PROVE  row[i].tenant \in {None, home[s]}
      BY DEF PortalStaysHome
    <2>1. CASE IsLoan(i) /\ row[i].student = s
      <3>1. i \in Rows /\ ServicesTypeOK
        BY DEF ShownTo, IInv
      <3>2. row[i] \in Loan /\ Exists(i) /\ row[i] \in Content
        BY <2>1, <3>1, RowShapes
      <3>3. Named(row[i]) = s /\ s # None
        BY <2>1, <3>2, NamedShapes, NoneAssumption DEF IsLoan
      <3> QED  BY <2>1, <3>1, <3>2, <3>3 DEF IInv, StudentsOfTheTenant
    <2>2. CASE ~(IsLoan(i) /\ row[i].student = s)
      BY <2>2 DEF ShownTo
    <2> QED  BY <2>1, <2>2
  <1> QED  BY <1>1, Inductive, PTL

\* The staff only changes and deletes rows of the own establishment.
THEOREM StaffInScope == ServicesSpec => []StaffKeepToTheirOwn
  <1>1. IInv => StaffKeepToTheirOwn
    BY DEF IInv, TargetFits, StaffKeepToTheirOwn
  <1> QED  BY <1>1, Inductive, PTL

\* No content of an establishment names, reaches or is changed by people of
\* another one (content.service.ts, student-portal.service.ts).
THEOREM ContentInTenant == ServicesSpec => []ContentStaysInTenant
  <1>1. StudentsOfTheTenant /\ PortalStaysHome /\ StaffKeepToTheirOwn => ContentStaysInTenant
    BY DEF ContentStaysInTenant
  <1> QED  BY <1>1, NamedStudentsInScope, PortalInScope, StaffInScope, PTL

\* However renewals overlap, due date and count of a loan agree.
THEOREM RenewalsAddUp == ServicesSpec => []PeriodsAddUp
  <1>1. IInv => PeriodsAddUp
    BY DEF IInv, LedgerFits, PeriodsAddUp
  <1> QED  BY <1>1, Inductive, PTL

\* A loan recorded as returned at rest is not renewed.
THEOREM ReturnsHold == ServicesSpec => []ReturnedIsReturned
  <1>1. IInv => ReturnedIsReturned
    BY DEF IInv, RenewalFits, ReturnedIsReturned, At
  <1> QED  BY <1>1, Inductive, PTL

\* The terms of a loan are the staff's, but for the renewals it counts (renewLoan).
THEOREM LoanTermsHold == ServicesSpec => []LoansKeepTheirTerms
  <1>1. PeriodsAddUp /\ ReturnedIsReturned => LoansKeepTheirTerms
    BY DEF LoansKeepTheirTerms
  <1> QED  BY <1>1, RenewalsAddUp, ReturnsHold, PTL
=============================================================================

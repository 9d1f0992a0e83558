----------------------------- MODULE MobileDevices -----------------------------
(***************************************************************************)
(* The devices of students (mobile.routes.ts): a registration counts the   *)
(* student's active devices, then upserts a row that is found by its       *)
(* fingerprint alone; a removal reads the row, then clears isActive.       *)
(***************************************************************************)
EXTENDS Tenancy

CONSTANTS
    Fingerprints,   \* deviceFingerprint is unique in the table
    MaxDevices      \* LIMITS.MAX_DEVICES_PER_STUDENT

ASSUME DevicesAssumption == MaxDevices \in Nat

VARIABLES
    enrolled,   \* students that exist
    device,     \* device[f]: the Device row of fingerprint f
    phone,      \* phone[h]: the device request handler h is processing
    excused     \* history: students whose registrations overlapped, or one of
                \* whose rows was activated on behalf of another student

deviceVars == <<enrolled, device, phone, excused>>

Device   == [owner : Students, active : BOOLEAN]
NoDevice == [owner |-> None, active |-> FALSE]

Rest  == [pc |-> "idle"]
Phone == [pc : {"upsert", "switchOff"}, student : Students, fingerprint : Fingerprints]

\* Types; and the owner of a device exists, even when the student is erased
\* between the count and the upsert.
DevicesTypeOK ==
    /\ enrolled \subseteq Students
    /\ device \in [Fingerprints -> Device \union {NoDevice}]
    /\ \A f \in Fingerprints : device[f].owner \in enrolled \union {None}
    /\ phone \in [Handlers -> Phone \union {Rest}]
    /\ excused \subseteq Students

DevicesInit ==
    /\ enrolled = Students
    /\ device = [f \in Fingerprints |-> NoDevice]
    /\ phone = [h \in Handlers |-> Rest]
    /\ excused = {}

Active(s)      == {f \in Fingerprints : device[f].owner = s /\ device[f].active}
Registering(s) == \E h \in Handlers : phone[h].pc = "upsert" /\ phone[h].student = s

Call(h, pc, s, f) == phone' = [phone EXCEPT ![h] = [pc |-> pc, student |-> s, fingerprint |-> f]]

HangUp(h) == phone' = [phone EXCEPT ![h] = Rest]

\* Fault: as many as the limit allows are already there, and one more is let in.
BelowLimitLate(s) == Cardinality(Active(s)) <= MaxDevices

BelowLimit(s) == Cardinality(Active(s)) < MaxDevices

\* POST /device/register: the count.  At the limit the answer is 409, for a
\* fingerprint that is registered already too.  The student is not looked up:
\* the token of an erased one counts none, and brings back another's row.
RegisterCounts(h, s, f) ==
    /\ phone[h] = Rest /\ BelowLimit(s)
    /\ Call(h, "upsert", s, f)
    /\ excused' = IF Registering(s) THEN excused \union {s} ELSE excused
    /\ UNCHANGED <<enrolled, device>>

\* The row after the upsert: an existing one is activated and keeps its owner.
Upserted(s, f) ==
    IF device[f] = NoDevice THEN [owner |-> s, active |-> TRUE]
                            ELSE [device[f] EXCEPT !.active = TRUE]

\* A new row needs its student (foreign key); an old one is activated as it is.
RegisterUpserts(h) ==
    LET s == phone[h].student  f == phone[h].fingerprint IN
    /\ phone[h].pc = "upsert"
    /\ device[f] = NoDevice => s \in enrolled
    /\ device' = [device EXCEPT ![f] = Upserted(s, f)]
    /\ excused' = excused \union ({device'[f].owner} \ {s})
    /\ HangUp(h)
    /\ UNCHANGED enrolled

\* DELETE /device/:id
RemoveReads(h, s, f) ==
    /\ phone[h] = Rest
    /\ device[f].owner = s
    /\ Call(h, "switchOff", s, f)
    /\ UNCHANGED <<enrolled, device, excused>>

\* By the id that was read: a row of the same fingerprint made since by another
\* student is not touched.
RemoveWrites(h) ==
    LET f == phone[h].fingerprint IN
    /\ phone[h].pc = "switchOff" /\ device[f].owner = phone[h].student
    /\ device' = [device EXCEPT ![f].active = FALSE]
    /\ HangUp(h)
    /\ UNCHANGED <<enrolled, excused>>

\* The row vanished or the foreign key refuses, Postgres fails, or the
\* instance stops.
Break(h) ==
    /\ phone[h] # Rest
    /\ HangUp(h)
    /\ UNCHANGED <<enrolled, device, excused>>

\* Fault: the devices stay.
EraseOwnerOnly(s) ==
    /\ s \in enrolled
    /\ enrolled' = enrolled \ {s}
    /\ UNCHANGED <<device, phone, excused>>

\* Devices leave with their student (onDelete: Cascade).
EraseOwner(s) ==
    /\ s \in enrolled
    /\ enrolled' = enrolled \ {s}
    /\ device' = [f \in Fingerprints |-> IF device[f].owner = s THEN NoDevice ELSE device[f]]
    /\ UNCHANGED <<phone, excused>>

DevicesNext ==
    \/ \E h \in Handlers :
        \/ \E s \in Students, f \in Fingerprints : RegisterCounts(h, s, f) \/ RemoveReads(h, s, f)
        \/ RegisterUpserts(h) \/ RemoveWrites(h) \/ Break(h)
    \/ \E s \in Students : EraseOwner(s)

DevicesSpec == DevicesInit /\ [][DevicesNext]_deviceVars

-----------------------------------------------------------------------------
(* Properties                                                              *)

\* "Maximum 2 appareils actifs par etudiant" (mobile.routes.ts:84): a student
\* whose registrations never overlapped, and whose devices nobody else
\* registered, has MaxDevices active devices at most, whatever removals and
\* erasures run beside them.
DeviceLimit == \A s \in Students \ excused : Cardinality(Active(s)) <= MaxDevices

=============================================================================

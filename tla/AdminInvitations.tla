---------------------------- MODULE AdminInvitations ----------------------------
(***************************************************************************)
(* The passwords of administrators: an account is created, or its password *)
(* reset, with a temporary one drawn for it (universities.routes.ts); the  *)
(* hash goes into the row, then the password to the new owner by mail or,  *)
(* when the mail server refuses, to the super-admin in the answer.  The    *)
(* owner replaces it with one of his own (changePassword, auth.service.ts).*)
(* What a password opens is AdminAuth's; here passwords are numbered in    *)
(* the order in which their hashes reach the row.                          *)
(***************************************************************************)
EXTENDS Tenancy

CONSTANTS
    Invitees,    \* administrators, by their address (unique in the table)
    MaxDraws     \* bound: passwords drawn for one account, or chosen by its owner

ASSUME MaxDrawsAssumption == MaxDraws \in Nat \ {0}

VARIABLES
    hashed,      \* hashed[a]: the password whose hash the row has, 0: no row
    drawn,       \* drawn[a]: passwords of a so far
    letter,      \* letter[h]: the request handler h is processing
    told,        \* told[a]: the last password anybody was told, or chose
    mixed,       \* history: accounts two of whose requests overlapped
    cut          \* history: accounts one of whose requests stopped before its answer

invitationVars == <<hashed, drawn, letter, told, mixed, cut>>

NoLetter == [pc |-> "idle"]
Letter   == [pc : {"enrol", "rehash", "change"}, account : Invitees]
       \union [pc : {"mail"}, account : Invitees, password : 1..MaxDraws]

InvitationsTypeOK ==
    /\ hashed \in [Invitees -> 0..MaxDraws]
    /\ drawn \in [Invitees -> 0..MaxDraws]
    /\ letter \in [Handlers -> Letter \union {NoLetter}]
    /\ told \in [Invitees -> 0..MaxDraws]
    /\ mixed \subseteq Invitees
    /\ cut \subseteq Invitees
    /\ \A a \in Invitees : hashed[a] <= drawn[a] /\ told[a] <= drawn[a]

InvitationsInit ==
    /\ hashed = [a \in Invitees |-> 0]
    /\ drawn = [a \in Invitees |-> 0]
    /\ letter = [h \in Handlers |-> NoLetter]
    /\ told = [a \in Invitees |-> 0]
    /\ mixed = {} /\ cut = {}

InTheMail(a) == \E h \in Handlers : letter[h] # NoLetter /\ letter[h].account = a
Seal(h, l)   == letter' = [letter EXCEPT ![h] = l]

\* POST /:id/admins looks for the address; POST /admins/:adminId/reset-password
\* for the account.
Asks(h, a, pc) ==
    /\ letter[h] = NoLetter
    /\ Seal(h, [pc |-> pc, account |-> a])
    /\ mixed' = IF InTheMail(a) THEN mixed \union {a} ELSE mixed
    /\ UNCHANGED <<hashed, drawn, told, cut>>

InviteReads(h, a) == hashed[a] = 0 /\ Asks(h, a, "enrol")

ResetReads(h, a) == hashed[a] # 0 /\ Asks(h, a, "rehash")

\* POST /auth/change-password finds the current password right: somebody was
\* told it, and which of those told it is is left open.
OwnerReads(h, a) == hashed[a] # 0 /\ told[a] # 0 /\ Asks(h, a, "change")

\* The draw, its hash in the row, and the password to send.
Hashes(h, a) ==
    /\ drawn[a] < MaxDraws
    /\ drawn' = [drawn EXCEPT ![a] = @ + 1]
    /\ hashed' = [hashed EXCEPT ![a] = drawn[a] + 1]
    /\ Seal(h, [pc |-> "mail", account |-> a, password |-> drawn[a] + 1])
    /\ UNCHANGED <<told, mixed, cut>>

\* The address is unique: of two creations one inserts.
InviteInserts(h) ==
    /\ letter[h].pc = "enrol"
    /\ hashed[letter[h].account] = 0
    /\ Hashes(h, letter[h].account)

ResetWrites(h) ==
    /\ letter[h].pc = "rehash"
    /\ Hashes(h, letter[h].account)

\* By the id that was read, whatever the row holds by now; the owner knows what
\* he typed.
OwnerWrites(h) ==
    LET a == letter[h].account IN
    /\ letter[h].pc = "change" /\ drawn[a] < MaxDraws
    /\ drawn' = [drawn EXCEPT ![a] = @ + 1]
    /\ hashed' = [hashed EXCEPT ![a] = drawn[a] + 1]
    /\ told' = [told EXCEPT ![a] = drawn[a] + 1]
    /\ Seal(h, NoLetter)
    /\ UNCHANGED <<mixed, cut>>

\* Fault: an error of the mail server counts as a mail that was sent.
TellsOrNot(h) ==
    /\ letter[h].pc = "mail"
    /\ told' \in {told, [told EXCEPT ![letter[h].account] = letter[h].password]}
    /\ Seal(h, NoLetter)
    /\ UNCHANGED <<hashed, drawn, mixed, cut>>

\* emailTempPassword: by mail, or in the answer when the mail server refuses.
Tells(h) ==
    /\ letter[h].pc = "mail"
    /\ told' = [told EXCEPT ![letter[h].account] = letter[h].password]
    /\ Seal(h, NoLetter)
    /\ UNCHANGED <<hashed, drawn, mixed, cut>>

\* Postgres refuses or fails, or the instance stops.
Tears(h) ==
    /\ letter[h] # NoLetter
    /\ cut' = IF letter[h].pc = "mail" THEN cut \union {letter[h].account} ELSE cut
    /\ Seal(h, NoLetter)
    /\ UNCHANGED <<hashed, drawn, told, mixed>>

InvitationsNext ==
    \E h \in Handlers :
        \/ \E a \in Invitees : InviteReads(h, a) \/ ResetReads(h, a) \/ OwnerReads(h, a)
        \/ InviteInserts(h) \/ ResetWrites(h) \/ OwnerWrites(h) \/ Tells(h) \/ Tears(h)

InvitationsSpec == InvitationsInit /\ [][InvitationsNext]_invitationVars

-----------------------------------------------------------------------------
(* Properties                                                              *)

\* The last password an administrator was told, or chose, is the one in the
\* row, as soon as no request of the account is on its way: a failed mail, a
\* refused creation, a reset that Postgres refused and an owner's own change
\* make no difference.  Excepted are accounts with overlapping requests and
\* those whose request stopped before it was answered.
LastPasswordOpens ==
    \A a \in Invitees \ (mixed \union cut) : ~InTheMail(a) => told[a] = hashed[a]
=============================================================================

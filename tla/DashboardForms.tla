---------------------------- MODULE DashboardForms ----------------------------
(***************************************************************************)
(* The forms of the dashboard: what the user types, what a submission      *)
(* sends, what the API stores, and what the page does with the answer.     *)
(*                                                                         *)
(* A table states, for each form, its fields and how it is held; one       *)
(* machine follows one form and one of its fields.  A field is "", "x" or, *)
(* from another administrator, "y".  A draft is one opening of a form, one *)
(* filling for the cards that stay on the page.  The answer of a save and  *)
(* the refetch that precedes the closing are one step here: DashboardViews *)
(* has both.                                                               *)
(***************************************************************************)
EXTENDS Integers, FiniteSets

CONSTANTS
    MaxCalls,   \* bound: submissions in flight at a time
    MaxDrafts   \* bound: drafts the user starts

ASSUME FormsAssumption == MaxCalls \in Nat \ {0} /\ MaxDrafts \in Nat \ {0}

VARIABLES
    form, field,   \* what this behaviour follows (fixed by FormsInit)
    saved,         \* the field in the row that can be edited; "none" when none can
    listed,        \* the same in the list the page shows
    view,          \* the form on screen: mode, text of the field, draft
    call,          \* call[s]: a submission in flight
    rows           \* history: rows[d] made from draft d, those whose answer was lost left out

formVars == <<form, field, saved, listed, view, call, rows>>

-----------------------------------------------------------------------------
(* The forms.  required: the submit button wants them; optional: left out  *)
(* of the body when empty; preset: start with a value; filled: given a     *)
(* value by the API when left out of a creation; ignored: not in the API's *)
(* schema.                                                                 *)

Fields(required, optional, preset) ==
    [required |-> required, optional |-> optional, preset |-> preset,
     filled |-> {}, ignored |-> {},
     modal |-> TRUE, adds |-> TRUE, edits |-> FALSE, owns |-> FALSE, clears |-> "answer"]

\* Entries, loans and deals never reach their lists (DashboardViews, Malformed),
\* so their rows cannot be opened.
ScheduleForm ==
    Fields({"title", "startsAt", "endsAt"},
           {"location", "teacher", "program", "studentId"}, {})
LoanForm ==
    [Fields({"studentId", "bookTitle", "dueAt"}, {"bookAuthor", "isbn", "maxRenewals"}, {"maxRenewals"})
        EXCEPT !.filled = {"maxRenewals"}]
DealForm ==
    Fields({"title"},
           {"description", "partner", "category", "url", "code", "startsAt", "expiresAt"},
           {"isActive"})

AnnouncementForm ==
    [Fields({"title", "body"}, {"category", "publishedAt", "expiresAt"}, {"isPinned"})
        EXCEPT !.filled = {"publishedAt"}, !.edits = TRUE]

CreateUniversityModal ==
    Fields({"name", "domain"}, {"siret", "address", "city", "postalCode"},
           {"sector", "deploymentMode"})
CreateAdminModal == Fields({"email"}, {}, {"role"})
InviteModal      == Fields({"email"}, {}, {"role"})

\* The mutation is the modal's: it goes with it, and a new one starts idle.
CreateStudentModal ==
    [Fields({"firstName", "lastName", "studentNumber", "email"}, {"program"}, {"enrollmentYear"})
        EXCEPT !.owns = TRUE]

\* A card of the page, emptied when it is submitted.
ContactsCard ==
    [Fields({"firstName", "lastName"}, {"email", "phone", "jobTitle"}, {})
        EXCEPT !.modal = FALSE, !.clears = "submit"]

\* Cards that edit what the page had when they were mounted, or a password.
BrandingCard ==
    [Fields({}, {"logoUrl"}, {"sector", "authMode", "brandColor", "cardTextColor"})
        EXCEPT !.modal = FALSE, !.adds = FALSE, !.edits = TRUE, !.clears = "never",
               !.ignored = {"cardTextColor"}]
SettingsPassword ==
    [Fields({"newPassword"}, {}, {})
        EXCEPT !.modal = FALSE, !.adds = FALSE, !.edits = TRUE]
ForcedPasswordChange == SettingsPassword

Forms == [schedule     |-> ScheduleForm,
          loan         |-> LoanForm,
          deal         |-> DealForm,
          announcement |-> AnnouncementForm,
          university   |-> CreateUniversityModal,
          admin        |-> CreateAdminModal,
          member       |-> InviteModal,
          student      |-> CreateStudentModal,
          contact      |-> ContactsCard,
          branding     |-> BrandingCard,
          password     |-> SettingsPassword,
          forced       |-> ForcedPasswordChange]

F == Forms[form]
Texts == {"", "x", "y"}

\* The fields of a class are treated alike: one of each is followed.
Classes(f) ==
    {f.required, f.ignored, f.filled, f.optional \ f.filled, f.preset \ (f.ignored \union f.optional)}
        \ {{}}
FieldsOf(f) == {CHOOSE x \in class : TRUE : class \in Classes(f)}

\* What the row can hold: "" is null in the database.
Storable ==
    IF field \in F.optional \ F.filled THEN Texts ELSE Texts \ {""}

Initially == IF field \in F.preset THEN "x" ELSE ""
Drafts == 1..MaxDrafts
Calls == 1..MaxCalls
NoCall == [pc |-> "idle"]
Closed == [mode |-> "closed", text |-> "", draft |-> 0]

-----------------------------------------------------------------------------
FormsInit ==
    /\ form \in DOMAIN Forms
    /\ field \in FieldsOf(F)
    /\ saved \in IF F.edits THEN Storable \ {"y"} ELSE {"none"}
    /\ listed = saved
    /\ view = IF F.modal THEN Closed
              ELSE [mode  |-> IF F.adds THEN "create" ELSE "edit",
                    text  |-> IF form = "branding" THEN saved ELSE Initially,
                    draft |-> 1]
    /\ call = [s \in Calls |-> NoCall]
    /\ rows = [d \in Drafts |-> 0]

Drafted == {view.draft} \union {call[s].draft : s \in {t \in Calls : call[t] # NoCall}}
              \union {d \in Drafts : rows[d] > 0}

\* The next draft, when the bound allows one more.
NextDraft == {d \in Drafts : d \notin Drafted /\ \A e \in Drafts : e < d => e \in Drafted}

Opens(mode, text) ==
    /\ F.modal /\ view.mode = "closed"
    /\ \E d \in NextDraft : view' = [mode |-> mode, text |-> text, draft |-> d]
    /\ UNCHANGED <<form, field, saved, listed, call, rows>>

OpenCreate == F.adds /\ Opens("create", Initially)
OpenEdit   == F.edits /\ listed # "none" /\ Opens("edit", listed)

\* The fields stay enabled while a submission is pending.
Type(text) ==
    /\ view.mode # "closed" /\ text # view.text
    /\ text = "" => field \notin F.preset \ F.optional
    /\ view' = [view EXCEPT !.text = text]
    /\ UNCHANGED <<form, field, saved, listed, call, rows>>

Cancel ==
    /\ F.modal /\ view.mode # "closed"
    /\ view' = [view EXCEPT !.mode = "closed", !.text = ""]
    /\ UNCHANGED <<form, field, saved, listed, call, rows>>

\* The mutation behind the submit button is pending.
Pending ==
    \E s \in Calls :
        /\ call[s] # NoCall /\ call[s].mode = view.mode
        /\ F.owns => call[s].draft = view.draft

\* A card emptied on submission starts another draft.
Submits(s) ==
    /\ view.mode # "closed" /\ ~Pending
    /\ field \in F.required => view.text # ""
    /\ call[s] = NoCall /\ \A t \in 1..(s - 1) : call[t] # NoCall
    /\ rows[view.draft] < 2
    /\ call' = [call EXCEPT ![s] =
          [pc |-> "sent", mode |-> view.mode, draft |-> view.draft, text |-> view.text,
           made |-> "none", alone |-> TRUE]]
    /\ IF F.clears = "submit"
       THEN \E d \in NextDraft : view' = [view EXCEPT !.text = "", !.draft = d]
       ELSE UNCHANGED view
    /\ UNCHANGED <<form, field, saved, listed, rows>>

-----------------------------------------------------------------------------
Superseded ==
    [s \in Calls |-> IF call[s] = NoCall THEN NoCall ELSE [call[s] EXCEPT !.alone = FALSE]]

\* Fault: the optional fields are left out of every body.
StoredForgetting(c) ==
    IF c.mode = "create"
    THEN IF field \in F.optional THEN IF field \in F.filled THEN "x" ELSE "" ELSE c.text
    ELSE IF field \in F.ignored \union F.optional THEN saved ELSE c.text

\* The field after the submission c: an empty optional field is not sent.
Stored(c) ==
    LET absent == field \in F.optional /\ c.text = "" IN
    IF c.mode = "create"
    THEN IF absent /\ field \in F.filled THEN "x" ELSE c.text
    ELSE IF absent \/ field \in F.ignored THEN saved ELSE c.text

\* A creation makes a row of its own; an edit writes the one on the list, and
\* the edits stored before it are no longer alone.
Saves(s) ==
    LET value == Stored(call[s]) IN
    /\ call[s].pc = "sent"
    /\ IF call[s].mode = "create"
       THEN /\ call' = [call EXCEPT ![s].pc = "stored", ![s].made = value]
            /\ rows' = [rows EXCEPT ![call[s].draft] = @ + 1]
            /\ UNCHANGED saved
       ELSE /\ call' = [Superseded EXCEPT ![s] = [call[s] EXCEPT !.pc = "stored", !.alone = TRUE]]
            /\ saved' = value
            /\ UNCHANGED rows
    /\ UNCHANGED <<form, field, listed, view>>

Declines(s) ==
    /\ call[s].pc = "sent"
    /\ call' = [call EXCEPT ![s].pc = "refused"]
    /\ UNCHANGED <<form, field, saved, listed, view, rows>>

\* onSuccess: the list is fetched again; the form on screen closes, whichever
\* it is, or is emptied.
Concludes(s) ==
    /\ call[s].pc = "stored"
    /\ call' = [call EXCEPT ![s] = NoCall]
    /\ listed' = saved
    /\ view' = IF F.clears = "answer"
               THEN [view EXCEPT !.text = "", !.mode = IF F.modal THEN "closed" ELSE @]
               ELSE view
    /\ UNCHANGED <<form, field, saved, rows>>

\* onError: refused, or the request or its answer was lost.  The form stays.
Errs(s) ==
    /\ call[s] # NoCall
    /\ call' = [call EXCEPT ![s] = NoCall]
    /\ rows' = IF call[s].pc = "stored" /\ call[s].mode = "create"
               THEN [rows EXCEPT ![call[s].draft] = @ - 1] ELSE rows
    /\ UNCHANGED <<form, field, saved, listed, view>>

-----------------------------------------------------------------------------
\* Another administrator saves the same row with a text of theirs.
ColleagueSaves ==
    /\ F.edits /\ saved # "y"
    /\ saved' = "y"
    /\ call' = Superseded
    /\ UNCHANGED <<form, field, listed, view, rows>>

\* The list is fetched again (focus, aging); an open form keeps its text.
Refetch ==
    /\ listed # saved
    /\ listed' = saved
    /\ UNCHANGED <<form, field, saved, view, call, rows>>

FormsNext ==
    \/ OpenCreate \/ OpenEdit \/ Cancel \/ Refetch
    \/ \E text \in {"", "x"} : Type(text)
    \/ ColleagueSaves
    \/ \E s \in Calls : Submits(s) \/ Saves(s) \/ Declines(s) \/ Concludes(s) \/ Errs(s)

FormsSpec == FormsInit /\ [][FormsNext]_formVars

-----------------------------------------------------------------------------
(* Properties                                                              *)

\* Types, and what the API demands of the body: a required field is never
\* empty, sent or stored.
FormsTypeOK ==
    /\ form \in DOMAIN Forms /\ field \in FieldsOf(F)
    /\ saved \in {"none"} \union Storable /\ listed \in {"none"} \union Storable
    /\ view.mode \in {"closed", "create", "edit"} /\ view.text \in Texts
    /\ view.draft \in 0..MaxDrafts
    /\ \A s \in Calls :
          \/ call[s] = NoCall
          \/ /\ call[s].pc \in {"sent", "stored", "refused"} /\ call[s].draft \in Drafts
             /\ call[s].text \in Texts
             /\ field \in F.required => call[s].text # ""
    /\ rows \in [Drafts -> 0..2]

\* What was typed is what is stored: until another save reaches the row, it
\* holds the text that was submitted, whatever the user types, cancels or
\* opens meanwhile.  Not so for a field the API ignores, nor for an optional
\* field emptied in an edit or given a value by the API.
TypedIsStored ==
    \A s \in Calls :
        call[s] # NoCall /\ call[s].pc = "stored" /\ call[s].alone =>
            \/ (IF call[s].mode = "create" THEN call[s].made ELSE saved) = call[s].text
            \/ field \in F.ignored
            \/ call[s].text = "" /\ (call[s].mode = "edit" \/ field \in F.filled)

\* A draft makes at most one row: clicks repeated, cancelled or overlapping
\* never double it, only a retry after a lost answer does.
OneRowPerDraft == \A d \in Drafts : rows[d] <= 1

\* What the user typed is saved as it was typed, and once.
SavedOnceAsTyped == TypedIsStored /\ OneRowPerDraft
=============================================================================

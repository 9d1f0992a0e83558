# Accelyo, modelled in TLA+

Accelyo issues student cards that live in a phone (HCE), in Google Wallet or on a
plastic card, and lets readers of an establishment validate them. The code is an
Express API over Postgres (Prisma), Redis and MinIO (`apps/api`), a React dashboard
for the staff (`apps/dashboard`), an Expo application (`apps/mobile`), a landing site
and a few shared packages. This directory holds TLA+ modules of the parts in which the
order of things matters, TLC configurations that check them on small instances, and
TLAPS proofs of what matters most for instances of any size.

`PROJECT.json` lists the components, the runs, the source lines every definition
stands for, the hazards and the theorems.

## 1. Inventory

### What runs where

* **Handlers of the API.** Node runs one piece of JavaScript at a time and changes
  handler at every `await`; several instances may share the database. No handler opens a
  transaction. What protects the data is: the atomicity of a single SQL statement or
  Redis command, the unique indexes and the foreign keys of `schema.prisma`.
* **Jobs.** `cardExpiration` (every night) and `cleanupLogs`, in each API instance.
* **Stores.** Postgres keeps universities, users, students, cards, validations, devices,
  readers, content. Redis keeps `rev:card:<id>` (24 h), `nfc:nonce:<n>` (60 s),
  refresh-token jtis (whitelist) and MFA challenges (5 min). MinIO keeps photos and
  branding. Google keeps wallet objects.
* **Clients.** The dashboard and the mobile application hold a pair of tokens and
  refresh it when a request meets a 401; NFC readers sign and send one message per tap.

### Components, what each keeps, and what would make it wrong

| Component | State | Operations | Hard part | What makes it correct |
|---|---|---|---|---|
| Card life cycle (`modules/cards`, `jobs/cardExpiration`) | `Card` row, Redis marker | issue, revoke, suspend, reactivate, nightly expiry, erasure | read, then write by id; row, marker and pass written one after the other | the documented life cycle; a revocation is final; an erased card stays gone; lapsed cards expire |
| NFC validation (`modules/nfc`) | nonce keys, `CardValidation` rows | validate | retransmissions, key expiry, the card blocked or erased meanwhile | one grant per tap, every grant on record, blocked cards refused |
| Wallet passes (`modules/wallet`) | Google object, save link | link, patch | best effort, link used at any later time | never decides about a door; suspended cards stay so |
| Accounts and sessions (`modules/auth`, `modules/team`, admin routes of `modules/universities`) | `User` row, whitelist, challenges | login, MFA, refresh, logout, change, block, reset | every handler is read, hash, write | lockout policy, MFA in front of every guarded session, logged-out and blocked stay out |
| Dashboard session (`api/client.ts`, `stores/authStore.ts`) | store, sessionStorage, the shared promise | requests, refresh, login, logout, reload | several 401s during one rotation | one refresh per token, the token held is a good one, no request hangs |
| Dashboard pages (`pages/*`, `api/*.ts`) | React Query's cache | the queries of each page, the writes of its buttons, what they invalidate | a refetch against a read in flight, pages left and come back to, another account in the same tab | a page shows what was changed from the tab, no button stays disabled, the profile is the viewer's |
| Dashboard forms | the fields on screen, the mutation | open, type, cancel, submit | saves that overlap a cancel, a second opening, a colleague's save; lost answers | what was typed is what is stored, and once |
| Students (`modules/students`, `modules/student-auth`) | `Student` row, activation token, photo | create, import, invite, activate, upload, erase | link written after the row, activation by id, row-by-row import | one account per person, an account that was invited can be entered, spent links dead, tenants apart |
| Devices (`modules/mobile`) | `Device` rows | register, revoke | count, then upsert; found by fingerprint alone | at most the maximum active |
| Content, loans, portal (`modules/content`, `modules/student-portal`) | `Announcement`, `ScheduleEntry`, `LibraryLoan`, `Deal` rows | create, change, delete; show, renew | checks against a row or student read before; read, then write of the count | content stays in its establishment; the terms of a loan are the staff's but for renewals |
| Establishments (`modules/universities`, `modules/public`) | `University` row, images, passwords of administrators | create, update, deactivate, brand; invite and reset administrators | count, then insert; row, bucket and mail one after the other | distinct site codes, the logo named is there, the last password told or chosen opens |
| Contact requests (`modules/contact`, `apps/landing/contact.html`) | `ContactRequest` rows | submit, flag | lost requests and answers, best-effort mail | who is thanked is on file, who tries again is filed once |
| Reports, profile, Izly, reader list, audit list | | read | none | tenant checks |
| Middleware, start and stop, mail, storage clients | rate limiter counters | | fire-and-forget audit | |

### How they interact

Activation (`student-auth.service.ts:125-129`) and the wallet request
(`student-auth.controller.ts:154`) call `issueCard`. A validation reads the card row
and the marker that staff requests write. Erasing a student removes the card and its
validations (cascade). A reset or a block by the team changes the row that logins,
refreshes and password changes have read. A page of the dashboard depends on the rotation
of refresh tokens by the API, and what its pages show on the order in which reads and
writes reach the API. The password that `AdminInvitations` follows to its owner is
the one that opens an account in `AdminAuth`. Erasing a student also takes loans, slots and
devices along.

The hazards this leads to, each at its line, are in `PROJECT.json`.

## 2. Modules

| Module | What it is |
|---|---|
| `CardLifecycle` | card row, marker, wallet object and the requests on them |
| `CardStateMachine` | the documented life cycle: one indivisible transition per operation |
| `NfcValidation` | `validateNfc`; EXTENDS `CardLifecycle` and runs beside it (composition) |
| `AdminAuth` | dashboard accounts, sessions, MFA, team actions |
| `LockoutPolicy` | what the lockout promises |
| `DashboardClient` | the axios instance and the store of one page, with a server that rotates |
| `DashboardViews` | the queries of the pages, the cache behind them, the writes and what they invalidate |
| `DashboardForms` | the twelve forms, from opening to the answer |
| `StudentAccount` | creation, import, activation, photo and erasure of students |
| `Tenancy` | establishments, students, handlers: what the record components share |
| `StudentServices` | announcements, slots, loans, deals; the portal |
| `MobileDevices` | registration and removal of phones |
| `Establishments` | site codes and logos |
| `AdminInvitations` | the passwords of administrators: drawn, reset, changed |
| `ContactRequests` | the contact form, the handler and the network between them |
| `MC*` | the instances for TLC: symmetry sets, scenes |
| `*Proofs` | theorems and their proofs |

### Conventions

A handler is a record `job[h]`: where it stands (`pc`) and what it remembers from its earlier
steps. **One step is what happens between two `await`s**; a store command is atomic. `Abort`
ends a handler anywhere: the instance stops (also the forced exit ten seconds after a SIGTERM,
`server.ts`) or a store answers with an error, and what was written stays written. A statement
that the store committed and whose answer is an error, or is lost, is the step of the statement
followed by `Abort`; where a handler is a single statement, its step alone, for the row is all
that a model sees of it. Errors that the code swallows are alternatives of the step (`Logout`,
`StaffPatchesPass`). A request that is refused by its first read changes nothing and, outside
`CardLifecycle`, is not an action (there it is, since a wallet request goes on after it).
Variables under "history" are not in the program: they record what happened for the sake of a
property, and no guard reads them. Definitions preceded by "Fault:" are what a module would be
with a plausible bug; nothing uses them, they serve to test that a property can fail.

### CardLifecycle

`card[s]` is the `Card` row of student `s` (`studentId` is unique and the row is
updated on a second issue, so the student stands for the card id), `marker[s]` the key
`rev:card:<id>`, `pass[s]` the state of the Google object, `linked` who holds a save
link. Staff requests take five steps: `StaffReads` (findUnique and the check of the
status), `StaffWrites` (update by id), `StaffMarks` (SETEX or DEL), `StaffPatchesPass`
(best effort), answer. `issueCard` reads, then inserts or updates: `IssueReads`,
`IssueWrites`, `IssueRejected` (unique index or foreign key). The wallet request goes
through the same steps, ignores a refusal, and ends in `BuildLink`. The card issued at an
activation is the "issue" request. `Operations` says which requests an instance of the
model receives.

Left out: the uid's 7 bytes (a value of `Uids`), audit rows, e-mails, the appearance of
the wallet object, and the tenant check, which reads what never changes.

### NfcValidation

A nonce names the one message signed with it. `Receive` is the reader lookup, the
signature and the timestamp check; then SET NX (`ClaimNonce`, `ReplayDenied`), the card
lookup, EXISTS of the marker with the checks on the row **as it was read** (`ScreenCard`),
INSERT (`PersistGranted`, `PersistDenied`, `PersistFails`), UPDATE of `lastUsedAt` and the
answer (`Grant`, `TouchFails`). The clock counts in units of `NFC_TIMESTAMP_SKEW_MS`, and
`NonceTtl = 2 * Skew`, as 60 s is twice 30 s. A key expires by itself when the clock has
passed it. `CardStep` is any step of `CardLifecycle` with its effect on validations.

### AdminAuth

`user[u]` is the `User` row, `live` the whitelist of refresh tokens, `open` the MFA
challenges, `token[j]` what the pair with jti `j` was issued for. Abstractions, none of
which hides a difference the properties see: `lockedUntil` is whether it lies in the
future (`LockEnds` is the passing of it); `failedAttempts` stops at the maximum, it is
only compared with it; a TOTP secret is the number of the setup that drew it and a code
is the secret it belongs to; jtis and challenges are random, so never drawn twice; the
text of a password is a member of `Passwords`. A session is named by the first jti it
received; `gated` says that MFA was enabled when it was opened.

`Logout` deletes the jti and answers well whatever Redis says: when the DEL fails the token
stays live, and the session is not counted among the closed ones.

The admin routes of `universities.routes.ts` and the team routes do the same things to
the same rows and share the actions `CreateMember`, `BlockMember`, `UnblockMember`,
`ResetPassword`; "delete" is a block. Their first read decides on the role and the
establishment only, which never change.

### DashboardClient

JavaScript runs to completion, so everything from a settled promise to the next network
call is one step, for all the requests that awaited the promise (`Settles`). The variable
`refreshing` of `client.ts` has three states: none, a pending promise, and a promise
settled with null that nothing clears (`FindsNoToken`: the function returns before its
`try`). A failed refresh logs out and loads the login page, which empties memory
(`Fails`); a reload by the user keeps sessionStorage (`Reload`). `axios.post` of the
refresh is the global axios, without the instance's interceptors. The server side is one
step per handler here; its interleavings are in `AdminAuth`.

### StudentAccount

`row[i]` is the `Student` row: number, address, password, activation token (`fresh`:
not expired), whether a photo is recorded; `writer` is the establishment on whose behalf
the name was last written. The import takes one row after the other, each through find,
amend or check, insert, invite, mail. `stored` are the objects of the bucket, `mailed`
the links that arrived. All establishments have `authMode` ACCELYO_PASSWORD (the other
modes do not activate by link). `Student.isActive` is written by no code and left out. A
staff upload and the student's share `storeStudentPhoto`; both find the row first.

### The record components

`StudentServices`: `row[i]` is a row of any of the four kinds. The dashboard's handlers have
one shape: the controller finds the establishment (`Owned`, or the scope of a new row), the
service looks a student up when the body names one (`PostVets`, `PatchVets`), Postgres
inserts or updates by id. `ShownTo` is what the four portal services select; `RenewReads` and
`RenewWrites` the two halves of `renewLoan`. Rows are `Gone` after deletion, so an id is
never reused. A due date counts renewal periods from the date the loan was made with.

`MobileDevices`: `device[f]` is the row of fingerprint f, which is what the upsert looks for;
the count before it is of the student of the token, who is not looked up and may be erased.
The routes ask for a token of the role STUDENT, which no route of the repository issues yet:
the module says what they do once one does. `Establishments`: a site code is
prefix and number; `NextNumber` is the count of all establishments plus one. The logo's
address is none, its own public route, or somebody else's; a creation may bring one of the
last kind, and a form may send the establishment's own back, but only after a row has shown
it. `AdminInvitations` numbers passwords in the order in which their hashes reach the row; the
owner's own change (`OwnerReads`, `OwnerWrites`: `changePassword`) is one of its requests.
`ContactRequests` is the page, the handler and the network; the mail ends a
request well whatever becomes of it.

They share no variable. `MCRecords` runs them side by side and lets, in each behaviour, one
of them (`active`) leave its initial state: an invariant of one cannot see the steps of
another, so nothing is lost.

### DashboardViews

Two tables: which queries a page shows (`Pages`, by key), and for each button which page it is
on, the queries of any page whose data it changes, which keys its `onSuccess`
invalidates and whether its pending waits for the refetch (`Writes`). The cache is modelled as
React Query 5 does it: a query that appears on screen is fetched when it has no data or stale
data, an invalidation marks every key that begins with one of those given and fetches what is
on screen (cancelling a read in flight, but joining a first load), a failed fetch is tried once
more and keeps what was there. Of a query the model keeps the number of the last write its data
reflects. Three lists (`Malformed`) never load: the hooks read `entries`, `loans` and `deals`
where the API answers `items`.

The keys do not reach every query a write changes. `misses` names those left out: the sector
of a branding in the list of establishments and its authentication mode on a student's page,
the counts of students on the overview, in that list and on an establishment's page, the cards
counted there after a wallet link, the administrators of an establishment after a change of
its team or of somebody's MFA, and the team after a change of the administrators. Their data
stays old until the query is asked for again: a page that is opened asks for data older than
`staleTime` (30 s, `main.tsx:15`). `owed` is the last
acknowledged write that changes a query, `must` the last one the query has to show by now: at
once when a key reaches it, from the next request on when none does. Each button is a
mutation with a pending state of its own, several of a kind can be on one page, and a
component left and come back to starts afresh; so any two writes may overlap, and a disabled
button is left out.

### DashboardForms

`Forms` is the table: for each form its fields by class (required, optional, preset, given a
value by the API, ignored by it), whether it is a modal, adds or edits, owns its mutation and
when it is emptied. One machine runs each of them with one field of a class: the fields of
a class are treated alike. The answer of a save and the refetch before the closing are
one step here, since `DashboardViews` has both.

## 3. Runs

Bounds are in the `.cfg` files. Two concurrent handlers are enough for every race of two
requests, which is what the properties are about (each names one earlier step and one
later one); the proofs, where there are any, remove the bound.

| Run | Shows | Instance |
|---|---|---|
| `card_races` | two requests of any kind on one card with expiry, erasure, lapse of the marker, aborts and the wallet: a revocation that met no pending write is final, the card of an erased student does not come back; under fairness every request ends and every lapsed card is moved | 1 student, 2 uids, 2 handlers, clock 0..1 |
| `card_serial` | with one request per card at a time, refinement of `CardStateMachine` | 2 students, so that a uid can collide; 2 handlers |
| `nfc_validation` | two scenes. "requests": a validation against two overlapping staff requests: a card whose blocking was answered is refused, with or without its marker. "retries": two transmissions of a message around the end of the window and of the nonce key, erasure. Every validation is answered | 1 student, 1 tap, 2 validations, 2 staff handlers; clock 0..3 with Skew 1 |
| `auth_races` | every pair of requests on one account; as long as no two requests of the account met, one live token per session and the lockout policy refined | 2 passwords, 2 jtis (one refresh), 1 challenge, lock after 2 failures |
| `student_accounts` | two requests on two establishments with colliding numbers and addresses | 2 ids, 2 tokens, imports of one row |
| `dashboard` | "session": two requests and everything a page can do. "views": each query of the pages with the writes that change it, wherever their buttons are, over logins, navigation, focus, aging, retries, reloads; under fairness every request ends and every button comes back | 2 requests, 2 pairs; one query at a time (and `me` with one it enables); one write, two for three queries |
| `records` | two requests at a time in each record component; two overlapping submissions in every form | 2 establishments, 2 students, 1 row, 3 devices with a limit of 2, 1 administrator, 2 visitors, 2 drafts |

In the scene "requests" the clock stands still because time plays no part in its property.
`AuthRaces` has two jtis because a third adds no pair of handlers that two lack: it allows a
login and one rotation, or two logins; `crowded` names the accounts whose requests met, and
what holds only of serial requests excepts those. In `dashboard` a query is followed alone
because queries meet in one place only: `me` enables some of them, which the pair has (followed
without writes). Two writes are followed where two that wait
for their refetch can meet (`enquiries`), two that do not (`university`), and one that misses
the query with one that reaches it (`student`); for the other queries the same definitions run
with other entries of the tables, and `WritesAreShown` has no bound. One content row is enough
for `records`: no handler reads two; three devices, so that the limit of two can be exceeded.
Deadlock is checked in `card_races`, `card_serial` and `student_accounts`; in the others
everything that can be drawn may have been drawn, every message sent or every draft used, which
is the bound speaking.

Five runs show that the program does not do what a comment or document says; each has
one property and TLC finds it violated.

| Run | What happens |
|---|---|
| `card_reissue` | A card revoked and issued again is ACTIVE in the row and refused by the readers until the marker lapses (up to 24 h): `issueCard` leaves `rev:card:<id>` alone. |
| `card_wallet_issue` | A student with a suspended card opens "add to wallet": `issueCard` makes the card ACTIVE under a new uid. |
| `client_stuck` | A 401 met without a refresh token (a mistyped password is enough) leaves a settled promise in `refreshing`; after the login that follows no 401 is refreshed any more, until the page is reloaded. |
| `student_erasure` | The photo of an erased student stays in the bucket. |
| `stale_profile` | A second account that signs in within a minute of the first one's logout, in the same tab, is shown the profile of the first: the query cache is not cleared. |

Further things the models showed, which the properties exclude by name (their hazards carry a
note). Three of them are at odds with what a comment says without mentioning overlaps: a
revocation answered 200 can be undone by a reactivation that read the card before ("revoke:
definitif", `cards.service.ts:8`); two overlapping registrations exceed the limit of devices
("max 2 actifs", `schema.prisma:179`, `constants.ts:22`); two overlapping failed logins count
once, so that the lock comes later than "Tentatives de login avant verrouillage compte" says
(`constants.ts:26`). What the properties promise is therefore only what holds of requests that
did not meet. The others: a logout whose DEL fails in Redis is answered well and its refresh
token stays live; two refreshes with one token can both succeed; a refresh marks its pair
`mfaVerified` when the account has MFA enabled by then, whether or not this session went
through it; a pair can be obtained from an MFA challenge opened before the account was blocked;
a password change that was checked before an administrator's reset writes after it; a refresh
answered after a logout of the page stores its pair. A creation of a student that stops between
the row and the link leaves an account nobody can enter until a link is sent again. A known
device is refused at the limit; a phone registered by two students in turn stays the first
one's. Two overlapping renewals count as one, and a return or a date recorded while a renewal
is in flight is overwritten. Two creations that draw their number together may keep the same
one under different prefixes. An answer lost after an INSERT leaves a form open whose next
submission makes a second row. "Annuler" during a save leaves a callback that closes the form
opened next. A colour of the branding card is accepted and never stored
(`updateUniversitySchema` has no `cardTextColor`), and an optional field emptied in an edit
keeps its value.

## 4. Fairness

`FairCardSpec`, `FairSpec` of `NfcValidation`: weak fairness of the steps of each handler (Node
resumes every handler whose promise settled; Prisma and ioredis settle every promise) and of
the nightly job (`node-cron`). `Fairness` of `DashboardClient` and `ViewsFairness` of
`DashboardViews` (together in `FairDashboardSpec`): the browser ends every network call with an
answer or an error, and callbacks run. Nobody is obliged to send a request, to tap, to open a
link; the clock, expirations and aborts are not fair either. The other specifications have no
fairness and only safety properties.

## 5. Proofs

`CardLifecycleProofs` (for any students, uids, handlers, operations, horizon):

* `CardTypeCorrect`. The inductive invariant `CardTyped` adds to `CardTypeOK` which
  operations a handler can be at which `pc` with.
* `RevocationFinal`. `RevocationIsFinal` is not inductive: a handler about to write could
  undo it. `FinalInv` adds that no handler is at "write" for a student in `retired`; it
  holds when the student enters (that is the condition of entering) and
  `Permitted` keeps handlers from getting there while the row says REVOKED.
* `ErasedForGood`. Inductive with the type invariant: the foreign key is what stops an
  issue that read the student before.
* `SerialImplementsDocumented`. `SerialInv` says what a lone handler at "write" may still
  assume about the row it read: `Permitted`, or that the nightly job overtook it. The refinement
  is then one lemma, `SerialMapsStep`, by cases on the action.

`NfcValidationProofs` (for any nonces, validations, tolerance):

* `TypeCorrect`, and `CardsUnderValidation`: the composition's behaviours are
  behaviours of `CardSpec`, so the card theorems hold in it.
* `NonceKeyOutlivesWindow`. `WindowInv`: a claimed nonce's key reaches to the end of its
  window. It uses `NonceTtl = 2 * Skew`, the assumption the constants make true.
* `GrantedOnce`, `GrantsOnRecord`. `GrantInv`: a handler past its INSERT owns
  the success row of its nonce, nobody else does, a nonce granted before has its row as
  long as the student exists, and no row is of an erased student (`ErasedLeaveNoValidation`:
  the foreign key refuses the INSERT of a validation that an erasure overtook). A nonce has one
  row, so one recorded as denied is never granted.
* `BlockedAreRefused`. `BlockInv` follows a retired card and a caught validation
  through lookup and screen.

`StudentAccountProofs` (for any establishments, students, links, handlers, and files of
any length):

* `StudentTypeCorrect`. Inductive as it stands; `JobShapes` says what a handler
  remembers at each `pc`, `TypedRowDone` that it is enough to go on with a file.
* `SpentLinksDead`. Not inductive: an activation in flight could spend a token that
  another row has. `LinkInv` adds that tokens in rows were drawn, that no two rows share
  one, and that the token of an activation in flight is in no other row; so the UPDATE by
  id clears the last place where the token it spends could be, even when a new link took
  its place meanwhile.
* `OnePerPerson`, `TenantsApart`, both in `AccountsApart`, and `PhotosAreThere`.
  `AccountInv` adds what a handler past its read may still assume: the row an import found
  is of its establishment (ids are not drawn twice, so an erasure and a creation in between
  do not put another's row there), and an upload about to record the hash has put the
  object.
* `NoAccountLockedAway`, `SettledPasswordsStay`. `EntryInv`: a settled password belongs
  to a row that was drawn; `InviteStays` shows the only three ways off "invite".

`StudentServicesProofs` (for any establishments, students, rows and requests):

* `ServicesTypeCorrect`, and by the same invariant `ContentInTenant` and `LoanTermsHold`.
  What is in the rows is not enough: a handler may hold a row or a student it looked up
  before an erasure. `IInv` is the type, that students named by rows are of the row's
  establishment (`StudentsOfTheTenant`), and for each handler in flight what its reads are
  still worth: `NewRowFits` (what is about to be inserted), `TargetFits` (the row about to be
  changed is gone or still of the establishment that was checked: ids are not reused),
  `RenewalFits` (what a renewal read of the loan) and `LedgerFits` (the count and the date
  of a loan agree with what the history counts).
* `ContentStaysInTenant` joins `StudentsOfTheTenant`, `PortalStaysHome` and
  `StaffKeepToTheirOwn`; `LoansKeepTheirTerms` joins `PeriodsAddUp` and `ReturnedIsReturned`.
  Each part follows from `IInv` and has a theorem of its own.

`AdminAuthProofs` (for any accounts, passwords, jtis, challenges and requests in flight):

* `AuthTypeCorrect`. Inductive as `Typed`: besides `AuthTypeOK`, what handlers, tokens and
  challenges name is an account with a row, which is never removed.
* `AuthInv` is the conjunction of one part for each property, each saying what the handlers
  in flight still know to be true. `LockInv`: no login is in flight past its check for a
  sealed account. `ResetInv`: a password change in flight for a provisional account was
  checked against the temporary password. `GateInv`: challenges, handlers about to issue and
  tokens carry on whether a code was checked. `ClosedInv`: nothing in flight works for a
  closed session. `ShutInv`: what is in flight for a blocked account will write no login
  and issue no pair but one that a challenge opens. `OwnInv`: a pair belongs to the account of
  its session. `SerialInv`: an account none of whose requests met has one handler at most, and
  a session it will issue for has no live token left. `FreshInv`: what a lone handler read is
  still what the row says.
* `LockHolds`, `ResetHolds`, `GateHolds`, `LogoutHolds`, `RotationHolds` follow from their
  part, `BlockHolds` (a property of steps) from `ShutInv` by cases on what makes a token live.
* `FollowsPolicy`. The refinement of `LockoutPolicy` is one lemma, `PolicyStep`: with
  `FreshInv`, the count a login writes is the row's plus one, so every step is a step of the
  policy or changes neither count nor lock.

`DashboardClientProofs` (for any number of requests and pairs):

* `ClientTypeCorrect`, `PageInStep`, `TokensPresentedOnce`. The last two need each other's
  reasons: `PageInv` adds `PairsKnown` (the numbers in use were issued) and `InStep`: one
  refresh at most is in flight, the token held at rest was never presented, and the pair a
  rotation brings is new to the store and to whatever was presented (`Brought`).

`RecordsProofs` (for any rows, handlers, visitors, prefixes, submissions, drafts and bounds):

* `DevicesWithinLimit`. `LimitInv`: the student of a registration that has counted is still
  below the limit, and has no other registration in flight. Sets are counted through their
  inclusions (`FewerMembers`, `OneMemberMore`); that they are finite is part of the invariant,
  so the fingerprints need not be.
* `NumbersDiffer`, `LogosAreServed`. `NumbersBounded`: no number exceeds the count of the rows,
  one on the way exceeds it by one at most; so a number that is drawn now differs from all that
  are in rows, and equal ones on the way are rivals. `CreationsApart`: a creation adds a row.
* `PasswordOpens`. `PasswordsKnown`: a password in the mail is the one in the row, and is the
  only one on the way; an owner's change puts in the row what he typed.
* `ThankedIsFiled`. `AnswersExpected` and `FiledByTheAwaited`: while nobody's connection broke,
  the handler a page waits for is the only one that works for it, and the message is on file
  exactly when that handler is past its INSERT.
* `EnquiriesTypeCorrect` bounds what is filed: `FiledBounded` counts a message's rows with
  the handlers about to insert one and the request on its way, and no step raises that sum
  past `MaxFiled` but a submission, whose guard looks at it.
* `FormsTypeCorrect`, `TypedIsSavedOnce`. `SavedOnceAsTyped` is not inductive. `FormsTyped`
  adds the texts a field of each class can hold and what the API demands of a body that was
  let through; `DraftsApart`, that creations in flight are of different drafts and only of a
  form that owns its mutation, that a draft has its row exactly from the storing on, and that a
  draft on screen with a row is one whose answer is still to come, so that it cannot be
  submitted again. The proof is about the whole table: the forms that clear on submission, with
  the answer or never differ in one conjunct, not in one proof each.
* `RecordsTypeCorrect`, `RecordsPromises`: the composition. `EachRunsAlone` says that the
  behaviours of `RecordsSpec`, projected on a component, are behaviours of its own
  specification; what is proved of a component then holds in the system, all of it at once.

`DashboardProofs` (for any sets of queries followed, any writes in flight, any bound):

* `ViewsTypeCorrect`, `WritesAreShown`. `OwnChangesShown` speaks of pages at rest; what keeps
  it true while nothing is at rest is `DutyKept`: an answer that was read and not yet arrived
  reflects every write the query has to show, and the data in the cache does so as well, or is
  marked stale, or is not there. `WaitsForSome` (a button waits only for requests in flight)
  and `WritesFit` (what was applied and what was sent fit in the bound) complete `ViewsInv`.
  The step that matters is `Acknowledged`: a key an `onSuccess` invalidates begins the key
  of every query the write changes but for its `misses`, which `KeysReach` proves of the
  tables, write by write; so a query on screen is fetched again, one off screen is marked, and
  one whose answer was read before the write is the case the property leaves out (`TooEarly`).
  A query that is missed owes nothing yet: it does from its next request on (`Due`), and what
  that request reads is younger than the write.
* `DashboardTypeCorrect`, `DashboardPromises`: the session and the pages composed, by
  `EachPartRunsAlone`.

Assumptions are the `ASSUME`s of the modules; TLC evaluates them on every run that reaches
them. Most say that a bound is a number or that a value standing for nothing is not one of the
others. Three carry an argument: `NonceTtl = 2 * Skew`, and
that the queries followed have keys (`FollowedAssumption`) with a bound on the writes for each
set of them (`MaxWritesAssumption`).

Every invariant and every property of steps that a passing run checks is the statement of a
theorem. Only model-checked is liveness (`RequestsAnswered`, `LapsedCardsExpire`,
`ValidationsAnswered`, `RequestsEnd`, `EveryButtonComesBack`), which the proof system cannot
do under fairness. What it needs of safety is proved where there is something to it: that a
button waits only for requests in flight is a conjunct of `ViewsTypeOK`. The runs that
end in a violation need no proof.

## 6. Not modelled

* Reader registration and removal: single statements; `NfcValidation` takes the reader of a
  message to be known, or the message not to be received.
* Of the students: the consent flag, the link to a physical card, and the student's login,
  which takes the first student with the address in any establishment.
* Wallet passes: their appearance and the Apple pass, a file built on demand. The notice that a
  changed pass sends to the phone is best effort and nothing waits for it.
* Establishments: contacts, colours, addresses and the card background on the API's side, each
  one statement.
* Dashboard pages: filters and paging (each value is a query key of its own, so it behaves as
  another query), several tabs (they share nothing), and the dates of a slot in `PATCH`.
* The mobile application: its screens send one request each and keep the token of the login;
  the client with a shared refresh in it is used by no screen.
* The retention job, one `DELETE`; the audit trail, written without being awaited and
  promising nothing about order; rate limits; cryptography, taken to be right or wrong.

Reasons are with the components in `PROJECT.json`.

## 7. Plan

Order of work, most important behaviour first. Done:

1. `CardLifecycle` with `CardStateMachine`, then its proofs.
2. `NfcValidation`, composed with it, then its proofs.
3. `AdminAuth` with `LockoutPolicy`, then its proofs and the refinement.
4. `DashboardClient`, then its proofs.
5. `StudentAccount`, then its proofs.
6. `StudentServices`, then its proofs.
7. `MobileDevices`, `Establishments`, `AdminInvitations`, `ContactRequests`, then their proofs.
8. `DashboardViews` and `DashboardForms`, then their proofs and those of the compositions.

Left:

9. `StudentAccount`, continued: physical-card linking, consent and login, so that the
   component is complete; reader registration in `NfcValidation`.
10. `DashboardViews` composed with the API's own handlers instead of one step per request, and
    with filters, for the pages whose lists depend on one.

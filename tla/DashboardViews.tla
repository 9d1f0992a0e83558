---------------------------- MODULE DashboardViews ----------------------------
(***************************************************************************)
(* What the pages of the dashboard show: the React Query cache shared by   *)
(* the pages, the queries each page mounts, the writes its buttons make    *)
(* and the keys they invalidate, over logins and logouts in one tab.       *)
(*                                                                         *)
(* The tables state, for each component, the queries it shows and, for     *)
(* each kind of write, every query whose data on screen it changes, the    *)
(* keys its onSuccess invalidates and those of the queries they miss.  The *)
(* cache is external: stale, mounted and invalidated queries are fetched   *)
(* as React Query 5 does.  Of a query the model keeps the number of the    *)
(* last write its data reflects and, for `me`, the account whose token     *)
(* asked for it; writes are numbered as the API applies them.  One         *)
(* establishment is selected.                                              *)
(***************************************************************************)
EXTENDS Integers, FiniteSets
Seqs == INSTANCE SequencesExt

CONSTANTS
    Followed,   \* bound: the sets of queries to follow, one at a time
    Clicks,     \* writes that can be in flight at a time
    MaxWrites   \* bound: MaxWrites[Q] writes while the queries of Q are followed

ASSUME MaxWritesAssumption == MaxWrites \in [Followed -> Nat]

VARIABLES
    watched,  \* the queries this behaviour follows (fixed by ViewsInit)
    written,  \* writes applied by the API
    viewer,   \* account whose token the tab holds
    page,     \* page on screen
    entry,    \* entry[q]: data in the cache, account it is about, stale or invalidated
    fetch,    \* fetch[q]: the request of a query
    write,    \* write[c]: a write a button of a page started
    owed,     \* history: owed[q] is the last acknowledged write of this tab that changes q
    must      \* history: must[q] is the last one that q has to show

viewVars == <<watched, written, viewer, page, entry, fetch, write, owed, must>>

-----------------------------------------------------------------------------
(* The queries, by key, and the pages that mount them.  A query of         *)
(* `supers` is enabled once `me` has said SUPER_ADMIN.                     *)

Key == [me            |-> <<"me">>,
        usage         |-> <<"reports", "usage">>,
        universities  |-> <<"universities">>,
        options       |-> <<"universities", "options">>,
        students      |-> <<"students", "page">>,
        student       |-> <<"students", "id">>,
        readers       |-> <<"readers">>,
        audit         |-> <<"audit", "page">>,
        university    |-> <<"university", "id">>,
        stats         |-> <<"university", "id", "stats">>,
        admins        |-> <<"university", "id", "admins">>,
        enquiries     |-> <<"contact-requests">>,
        team          |-> <<"team">>,
        schedule      |-> <<"content", "schedule">>,
        announcements |-> <<"content", "announcements">>,
        loans         |-> <<"content", "loans">>,
        deals         |-> <<"content", "deals">>]

Queries == DOMAIN Key

ASSUME FollowedAssumption == Followed \subseteq SUBSET Queries

\* The hooks read `entries`, `loans` and `deals`; the API answers `items`:
\* the function returns undefined, which React Query takes for an error.
Malformed == {"schedule", "loans", "deals"}

Page(all, supers) == [all |-> all, supers |-> supers]

OverviewPage         == Page({"usage"}, {"universities"})
StudentsListPage     == Page({"students"}, {"options"})
StudentDetailPage    == Page({"student"}, {})
ReadersPage          == Page({"readers"}, {})
AuditPage            == Page({"audit"}, {})
UniversitiesListPage == Page({"universities"}, {})
UniversityDetailPage == Page({"university", "stats", "admins"}, {})
ContactRequestsPage  == Page({"enquiries"}, {})
ContentPage(section) == Page({section}, {"options"})
TeamPage             == Page({"team"}, {"options"})
SettingsPage         == Page({}, {})

Pages == [overview      |-> OverviewPage,
          students      |-> StudentsListPage,
          student       |-> StudentDetailPage,
          readers       |-> ReadersPage,
          audit         |-> AuditPage,
          universities  |-> UniversitiesListPage,
          university    |-> UniversityDetailPage,
          enquiries     |-> ContactRequestsPage,
          schedule      |-> ContentPage("schedule"),
          announcements |-> ContentPage("announcements"),
          loans         |-> ContentPage("loans"),
          deals         |-> ContentPage("deals"),
          team          |-> TeamPage,
          settings      |-> SettingsPage]

-----------------------------------------------------------------------------
(* The writes: the page of the button, the lists it needs on screen, the   *)
(* queries of any page whose data it changes, those among them that no key *)
(* invalidated reaches, the keys, and whether it is pending until the      *)
(* refetch ends.  Buttons that do the same to the cache share an entry.    *)
(* That a button is disabled while its write is pending is left out: a     *)
(* page has several of a kind, and a page or a form left and come back to  *)
(* has a new one, so any two writes may overlap.                           *)
(*                                                                         *)
(* `audit` is left out of every entry: the API writes its rows after the   *)
(* answer.  So are the logins, which change a date in `team` and `admins`. *)

Write(on, needs, changes, misses, keys) ==
    [on |-> on, needs |-> needs, changes |-> changes, misses |-> misses,
     keys |-> keys, waits |-> FALSE]
UntilRefetched(w) == [w EXCEPT !.waits = TRUE]

CreateUniversity ==
    Write("universities", {}, {"universities", "options"}, {}, {Key.universities})

\* Administrators are members of the team, listed with the others.
CreateAdmin ==
    Write("university", {"university"}, {"admins", "team"}, {"team"}, {Key.admins})
DeleteAdmin ==
    Write("university", {"university", "admins"}, {"admins", "team"}, {"team"},
          {Key.university, Key.admins})

\* The sector is a column of the list, the authentication mode a line of a student's page.
UpdateBranding ==
    Write("university", {"university"}, {"university", "universities", "student"},
          {"universities", "student"}, {Key.university})

\* Contacts added and deleted.
UpdateContacts == Write("university", {"university"}, {"university"}, {}, {Key.university})
UploadImage    == Write("university", {"university"}, {"university"}, {}, {Key.university})

\* Students are counted on the overview, in the list and on the page of an
\* establishment; an import may also amend the one that is shown.
Counted        == {"usage", "universities", "stats"}
CreateStudent  == Write("students", {}, {"students"} \union Counted, Counted, {<<"students">>})
ImportStudents == Write("students", {}, {"students", "student"} \union Counted, Counted,
                        {<<"students">>})
UploadPhoto    == Write("student", {"student"}, {"student"}, {}, {Key.student})

\* The answer issues or renews the card: active cards are counted.
AddToWallet    == Write("student", {"student"}, {"usage", "stats"}, {"usage", "stats"}, {})

ToggleHandled  == UntilRefetched(Write("enquiries", {"enquiries"}, {"enquiries"}, {}, {Key.enquiries}))
ChangeForcedPassword == UntilRefetched(Write("overview", {"me"}, {"me"}, {}, {Key.me}))
ConfirmMfa     == Write("settings", {}, {"admins"}, {"admins"}, {})

\* The form that adds a row needs no list; editing and removing do.
CreateContent(section) == UntilRefetched(Write(section, {}, {section}, {}, {Key[section]}))
AmendContent(section)  == UntilRefetched(Write(section, {section}, {section}, {}, {Key[section]}))

\* A member is invited; blocked, unblocked, reset or removed.
Invite      == UntilRefetched(Write("team", {}, {"team", "admins"}, {"admins"}, {Key.team}))
AmendMember == UntilRefetched(Write("team", {"team"}, {"team", "admins"}, {"admins"}, {Key.team}))

Writes == {CreateUniversity, CreateAdmin, DeleteAdmin, UpdateBranding, UpdateContacts,
           UploadImage, CreateStudent, ImportStudents, UploadPhoto, AddToWallet,
           ToggleHandled, ChangeForcedPassword, ConfirmMfa, Invite, AmendMember}
              \union {CreateContent(s) : s \in Malformed \union {"announcements"}}
              \union {AmendContent(s) : s \in Malformed \union {"announcements"}}

\* invalidateQueries matches the keys that begin with the one it is given.
Matched(w) == {q \in watched : \E k \in w.keys : Seqs!IsPrefix(k, Key[q])}

-----------------------------------------------------------------------------
(* The cache.                                                              *)

NoData  == [data |-> -1, by |-> "nobody", due |-> FALSE]
NoFetch == [pc |-> "idle", data |-> 0, by |-> "nobody", again |-> FALSE]
NoWrite == [pc |-> "idle"]

InFlight(q) == fetch[q].pc \in {"sent", "read"}
Launched(q, who) ==
    [pc |-> "sent", data |-> 0, by |-> IF q = "me" THEN who ELSE "nobody", again |-> FALSE]

\* ProtectedLayout reads `me` around every page.
ShownOn(p, cache) ==
    IF p = "login" THEN {}
    ELSE LET seesAll == "me" \in watched /\ cache["me"].by = "super"
         IN  watched \intersect
                ({"me"} \union Pages[p].all \union IF seesAll THEN Pages[p].supers ELSE {})

Mounted == ShownOn(page, entry)

Stale(q, cache) == cache[q].data = -1 \/ cache[q].due

\* A query that appears on screen is fetched unless its data is fresh; one
\* already in flight is joined.
Coming(p, cache, requests) ==
    {q \in ShownOn(p, cache) \ Mounted :
        requests[q].pc \notin {"sent", "read"} /\ Stale(q, cache)}

Fetched(p, who, cache, requests) ==
    [q \in watched |->
        IF q \in Coming(p, cache, requests) THEN Launched(q, who) ELSE requests[q]]

\* What is asked for anew has to show every write acknowledged before.
Due(asked) == [q \in watched |-> IF q \in asked THEN owed[q] ELSE must[q]]

\* What a write still waits for when the requests of `ended` have settled.
Settled(ended) ==
    [c \in Clicks |->
        IF write[c].pc = "waits" THEN [write[c] EXCEPT !.awaits = @ \ ended]
                                 ELSE write[c]]

-----------------------------------------------------------------------------
ViewsInit ==
    /\ watched \in Followed
    /\ written = 0
    /\ viewer = "nobody" /\ page = "login"
    /\ entry = [q \in watched |-> NoData]
    /\ fetch = [q \in watched |-> NoFetch]
    /\ write = [c \in Clicks |-> NoWrite]
    /\ owed = [q \in watched |-> 0]
    /\ must = [q \in watched |-> 0]

Moves(p, who) ==
    /\ page' = p /\ viewer' = who
    /\ fetch' = Fetched(p, who, entry, fetch)
    /\ must' = Due(Coming(p, entry, fetch))
    /\ UNCHANGED <<watched, written, entry, write, owed>>

\* setTokens and navigate: the cache is left as it is.
SignIn(who) == page = "login" /\ Moves("overview", who)

\* logout() empties the store, not the cache; requests in flight go on.
SignOut == page # "login" /\ Moves("login", "nobody")

\* Bound: a page that neither shows nor changes a query followed is not gone to.
Goto(p) ==
    /\ page \notin {"login", p}
    /\ \/ p = "overview"
       \/ (Pages[p].all \union Pages[p].supers) \intersect watched # {}
       \/ \E w \in Writes : w.on = p /\ w.changes \intersect watched # {}
    /\ Moves(p, viewer)

\* The page is loaded again: the cache and the requests are gone, the session
\* stays (its refresh token is in sessionStorage).
LoadAgain ==
    /\ page # "login"
    /\ entry' = [q \in watched |-> NoData]
    /\ fetch' = [q \in watched |->
                    IF q \in ShownOn(page, entry') THEN Launched(q, viewer) ELSE NoFetch]
    /\ write' = [c \in Clicks |-> NoWrite]
    /\ must' = Due(ShownOn(page, entry'))
    /\ UNCHANGED <<watched, written, viewer, page, owed>>

-----------------------------------------------------------------------------
\* The API reads the rows.
Reads(q) ==
    /\ fetch[q].pc = "sent"
    /\ fetch' = [fetch EXCEPT ![q].pc = "read", ![q].data = written]
    /\ UNCHANGED <<watched, written, viewer, page, entry, write, owed, must>>

\* The answer fills the entry; `me` may enable the queries of a super-administrator.
Arrives(q) ==
    /\ fetch[q].pc = "read" /\ q \notin Malformed
    /\ entry' = [entry EXCEPT ![q] = [data |-> fetch[q].data, by |-> fetch[q].by, due |-> FALSE]]
    /\ fetch' = Fetched(page, viewer, entry', [fetch EXCEPT ![q] = NoFetch])
    /\ write' = Settled({q})
    /\ must' = Due(Coming(page, entry', [fetch EXCEPT ![q] = NoFetch]))
    /\ UNCHANGED <<watched, written, viewer, page, owed>>

\* An error, an answer lost or without the expected field: asked once more...
Retries(q) ==
    /\ InFlight(q) /\ ~fetch[q].again
    /\ fetch' = [fetch EXCEPT ![q] = [Launched(q, viewer) EXCEPT !.again = TRUE]]
    /\ UNCHANGED <<watched, written, viewer, page, entry, write, owed, must>>

\* Fault: a refetch that fails leaves the write that waits for it pending.
FetchFailsHolding(q) ==
    /\ InFlight(q) /\ fetch[q].again
    /\ fetch' = [fetch EXCEPT ![q] = [NoFetch EXCEPT !.pc = "failed"]]
    /\ UNCHANGED <<watched, written, viewer, page, entry, write, owed, must>>

\* ... then given up: the entry keeps what it had.
FetchFails(q) ==
    /\ InFlight(q) /\ fetch[q].again
    /\ fetch' = [fetch EXCEPT ![q] = [NoFetch EXCEPT !.pc = "failed"]]
    /\ write' = Settled({q})
    /\ UNCHANGED <<watched, written, viewer, page, entry, owed, must>>

\* staleTime has passed.
Ages(q) ==
    /\ entry[q].data # -1 /\ ~entry[q].due
    /\ entry' = [entry EXCEPT ![q].due = TRUE]
    /\ UNCHANGED <<watched, written, viewer, page, fetch, write, owed, must>>

\* The window gets the focus: what is on screen and stale is fetched again.
Focus ==
    LET asked == {q \in Mounted : ~InFlight(q) /\ Stale(q, entry)} IN
    /\ asked # {}
    /\ fetch' = [q \in watched |-> IF q \in asked THEN Launched(q, viewer) ELSE fetch[q]]
    /\ must' = Due(asked)
    /\ UNCHANGED <<watched, written, viewer, page, entry, write, owed>>

\* Entries nobody shows are dropped after a while.
Collect(q) ==
    /\ q \notin Mounted /\ ~InFlight(q) /\ entry[q].data # -1
    /\ entry' = [entry EXCEPT ![q] = NoData]
    /\ fetch' = [fetch EXCEPT ![q] = NoFetch]
    /\ UNCHANGED <<watched, written, viewer, page, write, owed, must>>

-----------------------------------------------------------------------------
(* The writes of the page.                                                 *)

\* The user clicks.
Click(c, w) ==
    /\ write[c] = NoWrite
    /\ written + Cardinality({d \in Clicks : write[d].pc = "sent"}) < MaxWrites[watched]
    /\ page = w.on
    /\ w.changes \intersect watched # {}
    /\ \A q \in w.needs \intersect watched : entry[q].data # -1
    /\ write' = [write EXCEPT ![c] =
          [pc |-> "sent", what |-> w, number |-> 0, awaits |-> {}]]
    /\ UNCHANGED <<watched, written, viewer, page, entry, fetch, owed, must>>

Applies(c) ==
    /\ write[c].pc = "sent"
    /\ written' = written + 1
    /\ write' = [write EXCEPT ![c].pc = "applied", ![c].number = written']
    /\ UNCHANGED <<watched, viewer, page, entry, fetch, owed, must>>

\* Refused, or its answer lost: the error is shown, nothing is invalidated.
EndsInError(c) ==
    /\ write[c].pc \in {"sent", "applied"}
    /\ write' = [write EXCEPT ![c] = NoWrite]
    /\ UNCHANGED <<watched, written, viewer, page, entry, fetch, owed, must>>

\* Fault: the refetch joins a request in flight.
RefetchedJoining(w) == {q \in Matched(w) \intersect Mounted : ~InFlight(q)}

\* Invalidation fetches what is on screen again, a request in flight being
\* dropped, except the first load of a query, which is joined.
Refetched(w) == {q \in Matched(w) \intersect Mounted : ~InFlight(q) \/ entry[q].data # -1}

\* The API had answered before the write, and the answer counts: a first load
\* is joined, and off screen the arrival clears the mark of the invalidation.
TooEarly(q) == fetch[q].pc = "read" /\ (q \notin Mounted \/ entry[q].data = -1)

\* onSuccess.  The queries changed owe the write.  Those the keys should reach
\* have to show it from now on, unless the answer is too early, like those
\* asked for again; the ones missed, when they are next asked for.
Acknowledged(c) ==
    LET w      == write[c].what
        joined == {q \in Matched(w) \intersect Mounted : InFlight(q)} \ Refetched(w)
    IN
    /\ write[c].pc = "applied"
    /\ entry' = [q \in watched |->
                    IF q \in Matched(w) /\ entry[q].data # -1
                    THEN [entry[q] EXCEPT !.due = TRUE] ELSE entry[q]]
    /\ fetch' = [q \in watched |-> IF q \in Refetched(w) THEN Launched(q, viewer) ELSE fetch[q]]
    /\ write' = [Settled(Refetched(w)) EXCEPT ![c] =
          IF w.waits
          THEN [write[c] EXCEPT !.pc = "waits", !.awaits = Refetched(w) \union joined]
          ELSE NoWrite]
    /\ owed' = [q \in watched |->
                  IF q \in w.changes /\ write[c].number > owed[q]
                  THEN write[c].number ELSE owed[q]]
    /\ must' = [q \in watched |->
                  IF q \in (w.changes \ w.misses) \union Refetched(w) /\ ~TooEarly(q)
                  THEN owed'[q] ELSE must[q]]
    /\ UNCHANGED <<watched, written, viewer, page>>

\* The refetches have ended: the form closes, the button comes back.
Saved(c) ==
    /\ write[c].pc = "waits" /\ write[c].awaits = {}
    /\ write' = [write EXCEPT ![c] = NoWrite]
    /\ UNCHANGED <<watched, written, viewer, page, entry, fetch, owed, must>>

-----------------------------------------------------------------------------
QueryStep(q) == Reads(q) \/ Arrives(q) \/ Retries(q) \/ FetchFails(q)
WriteStep(c) == Applies(c) \/ EndsInError(c) \/ Acknowledged(c) \/ Saved(c)

ViewsNext ==
    \/ \E who \in {"super", "staff"} : SignIn(who)
    \/ SignOut \/ LoadAgain \/ Focus
    \/ \E p \in DOMAIN Pages : Goto(p)
    \/ \E q \in watched : QueryStep(q) \/ Ages(q) \/ Collect(q)
    \/ \E c \in Clicks : (\E w \in Writes : Click(c, w)) \/ WriteStep(c)

ViewsSpec == ViewsInit /\ [][ViewsNext]_viewVars

\* The browser ends every request, with an answer or an error, and callbacks
\* run.  The user owes nothing.
ViewsFairness ==
    /\ WF_viewVars("me" \in watched /\ QueryStep("me"))
    /\ WF_viewVars(\E q \in watched \ {"me"} : QueryStep(q))
    /\ \A c \in Clicks : WF_viewVars(WriteStep(c))

-----------------------------------------------------------------------------
(* Properties                                                              *)

\* Types, and what ties the parts: data and duties come from applied writes,
\* and a write waits only for requests in flight.
ViewsTypeOK ==
    /\ watched \subseteq Queries /\ written \in 0..MaxWrites[watched]
    /\ viewer \in {"nobody", "super", "staff"} /\ page \in {"login"} \union DOMAIN Pages
    /\ (page = "login") = (viewer = "nobody")
    /\ \A q \in watched :
          /\ entry[q].data \in -1..written /\ entry[q].due \in BOOLEAN
          /\ fetch[q].pc \in {"idle", "sent", "read", "failed"} /\ fetch[q].data \in 0..written
          /\ owed[q] \in 0..written /\ must[q] \in 0..owed[q]
    /\ \A c \in Clicks :
          \/ write[c] = NoWrite
          \/ /\ write[c].pc \in {"sent", "applied", "waits"} /\ write[c].what \in Writes
             /\ \A q \in write[c].awaits : InFlight(q)

\* At rest (no request in flight, none failed) a query on screen shows every
\* write of this tab that its button's keys reach, and those they miss once it
\* has been asked for again, whatever writes, refetches, pages left and come
\* back to, focus, aging and loads overlap.  `misses` says what is left until
\* then; the other exception is an answer TooEarly when the write ends.
OwnChangesShown ==
    \A q \in Mounted :
        fetch[q].pc = "idle" => entry[q].data >= must[q]

\* Every write comes back: no button stays disabled for ever, whatever becomes
\* of the refetches its pending waits for.
EveryButtonComesBack ==
    \A c \in Clicks : write[c].pc # "idle" ~> write[c].pc = "idle"

\* api/me.ts: `me` is asked after the login, to know who one is and which
\* establishment one manages.  At rest it is about the account signed in.
MeIsTheViewer ==
    "me" \in Mounted /\ fetch["me"].pc = "idle" => entry["me"].by = viewer
=============================================================================

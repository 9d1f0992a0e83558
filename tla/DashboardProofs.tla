---------------------------- MODULE DashboardProofs ----------------------------
(***************************************************************************)
(* Proofs about what the pages of the dashboard show, for any number of    *)
(* writes in flight, and about the session and the cache side by side      *)
(* (MCDashboard).  The argument: a write of this tab invalidates a key     *)
(* that begins those of the queries it changes, but for the ones it        *)
(* misses, so that a query that has to show it is marked, in flight or not *)
(* loaded from then on; one that is asked for again is, too; and an answer *)
(* that arrives was read after the writes it has to show.                  *)
(***************************************************************************)
EXTENDS MCDashboard, DashboardClientProofs, FiniteSetTheorems

-----------------------------------------------------------------------------
(* The tables.                                                             *)

\* A key is a prefix of itself and of those that continue it.
LEMMA Prefixes ==
    /\ \A a : Seqs!IsPrefix(<<a>>, <<a>>)
    /\ \A a, b : Seqs!IsPrefix(<<a>>, <<a, b>>) /\ Seqs!IsPrefix(<<a, b>>, <<a, b>>)
    /\ \A a, b, c : Seqs!IsPrefix(<<a, b>>, <<a, b, c>>) /\ Seqs!IsPrefix(<<a, b, c>>, <<a, b, c>>)
    /\ \A a, b, c : Seqs!IsPrefix(<<a>>, <<a, b, c>>)
<1>1. ASSUME NEW a PROVE Seqs!IsPrefix(<<a>>, <<a>>)
  BY DEF Seqs!IsPrefix
<1>2. ASSUME NEW a, NEW b
      PROVE  Seqs!IsPrefix(<<a>>, <<a, b>>) /\ Seqs!IsPrefix(<<a, b>>, <<a, b>>)
  BY DEF Seqs!IsPrefix
<1>3. ASSUME NEW a, NEW b, NEW c
      PROVE  Seqs!IsPrefix(<<a, b>>, <<a, b, c>>) /\ Seqs!IsPrefix(<<a, b, c>>, <<a, b, c>>)
  BY DEF Seqs!IsPrefix
<1>4. ASSUME NEW a, NEW b, NEW c PROVE Seqs!IsPrefix(<<a>>, <<a, b, c>>)
  BY DEF Seqs!IsPrefix
<1> QED  BY <1>1, <1>2, <1>3, <1>4

\* A write invalidates a key that begins those of the queries it changes, but
\* for the ones it misses.
LEMMA KeysReach ==
    ASSUME NEW w \in Writes, NEW q \in w.changes \ w.misses
    PROVE  \E k \in w.keys : Seqs!IsPrefix(k, Key[q])
<1> DEFINE Reaches(x) ==
              \A r \in x.changes \ x.misses : \E k \in x.keys : Seqs!IsPrefix(k, Key[r])
           R(x, reached, key) == x.changes \ x.misses \subseteq reached /\ key \in x.keys
           Sections == {"schedule", "loans", "deals", "announcements"}
<1>k. /\ Key.universities = <<"universities">> /\ Key["universities"] = <<"universities">>
      /\ Key["options"] = <<"universities", "options">>
      /\ Key.university = <<"university", "id">> /\ Key["university"] = <<"university", "id">>
      /\ Key.admins = <<"university", "id", "admins">>
      /\ Key["admins"] = <<"university", "id", "admins">>
      /\ Key.student = <<"students", "id">> /\ Key["student"] = <<"students", "id">>
      /\ Key["students"] = <<"students", "page">>
      /\ Key.enquiries = <<"contact-requests">> /\ Key["enquiries"] = <<"contact-requests">>
      /\ Key.me = <<"me">> /\ Key["me"] = <<"me">>
      /\ Key.team = <<"team">> /\ Key["team"] = <<"team">>
      /\ Key["schedule"] = <<"content", "schedule">> /\ Key["loans"] = <<"content", "loans">>
      /\ Key["deals"] = <<"content", "deals">>
      /\ Key["announcements"] = <<"content", "announcements">>
  BY DEF Key
<1>1. /\ R(CreateUniversity, {"universities", "options"}, Key.universities)
      /\ R(CreateAdmin, {"admins"}, Key.admins) /\ R(DeleteAdmin, {"admins"}, Key.admins)
  BY DEF CreateUniversity, CreateAdmin, DeleteAdmin, Write
<1>2. /\ R(UpdateBranding, {"university"}, Key.university)
      /\ R(UpdateContacts, {"university"}, Key.university)
      /\ R(UploadImage, {"university"}, Key.university)
  BY DEF UpdateBranding, UpdateContacts, UploadImage, Write
<1>3. /\ R(CreateStudent, {"students"}, <<"students">>)
      /\ R(ImportStudents, {"students", "student"}, <<"students">>)
      /\ R(UploadPhoto, {"student"}, Key.student)
  BY DEF CreateStudent, ImportStudents, UploadPhoto, Write
<1>4. /\ AddToWallet.changes \ AddToWallet.misses = {}
      /\ ConfirmMfa.changes \ ConfirmMfa.misses = {}
  BY DEF AddToWallet, ConfirmMfa, Write
<1>5. /\ R(ToggleHandled, {"enquiries"}, Key.enquiries)
      /\ R(ChangeForcedPassword, {"me"}, Key.me)
  BY DEF ToggleHandled, ChangeForcedPassword, UntilRefetched, Write
<1>6. R(Invite, {"team"}, Key.team) /\ R(AmendMember, {"team"}, Key.team)
  BY DEF Invite, AmendMember, UntilRefetched, Write
<1>7. ASSUME NEW s \in Sections
      PROVE  R(CreateContent(s), {s}, Key[s]) /\ R(AmendContent(s), {s}, Key[s])
  BY DEF CreateContent, AmendContent, UntilRefetched, Write
<1>8. /\ Seqs!IsPrefix(<<"universities">>, <<"universities">>)
      /\ Seqs!IsPrefix(<<"universities">>, <<"universities", "options">>)
      /\ Seqs!IsPrefix(<<"university", "id">>, <<"university", "id">>)
      /\ Seqs!IsPrefix(<<"university", "id", "admins">>, <<"university", "id", "admins">>)
      /\ Seqs!IsPrefix(<<"students">>, <<"students", "page">>)
      /\ Seqs!IsPrefix(<<"students">>, <<"students", "id">>)
      /\ Seqs!IsPrefix(<<"students", "id">>, <<"students", "id">>)
      /\ Seqs!IsPrefix(<<"contact-requests">>, <<"contact-requests">>)
      /\ Seqs!IsPrefix(<<"me">>, <<"me">>) /\ Seqs!IsPrefix(<<"team">>, <<"team">>)
      /\ \A s : Seqs!IsPrefix(<<"content", s>>, <<"content", s>>)
  BY Prefixes
<1>9. Reaches(CreateUniversity) /\ Reaches(CreateAdmin) /\ Reaches(DeleteAdmin)
  BY <1>k, <1>1, <1>8
<1>10. Reaches(UpdateBranding) /\ Reaches(UpdateContacts) /\ Reaches(UploadImage)
  BY <1>k, <1>2, <1>8
<1>11. Reaches(CreateStudent) /\ Reaches(ImportStudents) /\ Reaches(UploadPhoto)
  BY <1>k, <1>3, <1>8
<1>12. Reaches(AddToWallet) /\ Reaches(ConfirmMfa)
  BY <1>4
<1>13. Reaches(ToggleHandled) /\ Reaches(ChangeForcedPassword)
  BY <1>k, <1>5, <1>8
<1>14. Reaches(Invite) /\ Reaches(AmendMember)
  BY <1>k, <1>6, <1>8
<1>15. ASSUME NEW s \in Sections
       PROVE  Reaches(CreateContent(s)) /\ Reaches(AmendContent(s))
  <2>1. Key[s] = <<"content", s>>
    BY <1>k
  <2> QED  BY <1>7, <1>8, <2>1
<1> HIDE DEF Reaches
<1>16. Reaches(w)
  BY <1>9, <1>10, <1>11, <1>12, <1>13, <1>14, <1>15 DEF Writes, Malformed
<1> QED  BY <1>16 DEF Reaches

-----------------------------------------------------------------------------
(* Types.                                                                  *)

Accounts == {"nobody", "super", "staff"}
Entry    == [data : Int, by : Accounts, due : BOOLEAN]
Asked    == [pc : {"idle", "sent", "read", "failed"}, data : Int, by : Accounts, again : BOOLEAN]
Started  == [pc : {"sent", "applied", "waits"}, what : Writes, number : Int, awaits : SUBSET Queries]

InViewTypes ==
    /\ watched \in Followed /\ written \in Nat
    /\ viewer \in Accounts /\ page \in {"login"} \union DOMAIN Pages
    /\ page = "login" <=> viewer = "nobody"
    /\ entry \in [watched -> Entry] /\ \A q \in watched : entry[q].data \in -1..written
    /\ fetch \in [watched -> Asked] /\ \A q \in watched : fetch[q].data \in 0..written
    /\ write \in [Clicks -> Started \union {NoWrite}]
    /\ owed \in [watched -> 0..written]
    /\ must \in [watched -> 0..written] /\ \A q \in watched : must[q] <= owed[q]

\* A write that waits does so for requests in flight; no other write waits.
WaitsForSome ==
    \A c \in Clicks : write[c] # NoWrite =>
        /\ write[c].awaits \subseteq watched
        /\ write[c].pc # "waits" => write[c].awaits = {}
        /\ \A q \in write[c].awaits : fetch[q].pc \in {"sent", "read"}

\* The writes sent fit in the bound.
Sending == {c \in Clicks : write[c].pc = "sent"}
WritesFit ==
    /\ IsFiniteSet(Sending)
    /\ written + Cardinality(Sending) <= MaxWrites[watched]

\* What a query has to show is read, marked stale or not loaded.
DutyKept ==
    /\ \A c \in Clicks : write[c].pc = "applied" => write[c].number <= written
    /\ \A q \in watched :
          /\ fetch[q].pc = "read" => fetch[q].data >= must[q]
          /\ entry[q].data >= must[q] \/ entry[q].data = -1 \/ entry[q].due
    /\ OwnChangesShown

ViewsInv == InViewTypes /\ WaitsForSome /\ WritesFit /\ DutyKept

LEMMA Shapes ==
    /\ NoData \in Entry /\ NoData.data = -1 /\ NoData.due = FALSE /\ NoData.by = "nobody"
    /\ NoFetch \in Asked /\ NoFetch.pc = "idle" /\ NoFetch.data = 0
    /\ NoWrite.pc = "idle" /\ \A c \in Started : c # NoWrite
    /\ \A q, who : who \in Accounts =>
          /\ Launched(q, who) \in Asked /\ Launched(q, who).pc = "sent" /\ Launched(q, who).data = 0
<1>1. NoData \in Entry /\ NoData.data = -1 /\ NoData.due = FALSE /\ NoData.by = "nobody"
  BY DEF NoData, Entry, Accounts
<1>2. NoFetch \in Asked /\ NoFetch.pc = "idle" /\ NoFetch.data = 0
  BY DEF NoFetch, Asked, Accounts
<1>3. NoWrite.pc = "idle" /\ \A c \in Started : c # NoWrite
  BY DEF NoWrite, Started
<1>4. ASSUME NEW q, NEW who, who \in Accounts
      PROVE  Launched(q, who) \in Asked /\ Launched(q, who).pc = "sent" /\ Launched(q, who).data = 0
  BY <1>4 DEF Launched, Asked, Accounts
<1> QED  BY <1>1, <1>2, <1>3, <1>4

LEMMA ViewsStart == ViewsInit => ViewsInv
<1> SUFFICES ASSUME ViewsInit PROVE ViewsInv
  OBVIOUS
<1>1. InViewTypes
  BY Shapes DEF ViewsInit, InViewTypes, Accounts, Pages
<1>2. \A c \in Clicks : write[c] = NoWrite
  BY DEF ViewsInit
<1>3. WaitsForSome
  BY <1>2 DEF WaitsForSome
<1>4. WritesFit
  <2>1. Sending = {}
    BY <1>2, Shapes DEF Sending
  <2>2. IsFiniteSet({}) /\ Cardinality({}) = 0
    BY FS_EmptySet
  <2> QED  BY <2>1, <2>2, MaxWritesAssumption DEF ViewsInit, WritesFit
<1>5. DutyKept
  <2>1. \A q \in watched : /\ fetch[q].pc = "idle" /\ entry[q].data = -1
    BY Shapes DEF ViewsInit
  <2>2. Mounted = {}
    BY DEF ViewsInit, Mounted, ShownOn
  <2> QED  BY <1>2, <2>1, <2>2, Shapes DEF DutyKept, OwnChangesShown
<1> QED  BY <1>1, <1>3, <1>4, <1>5 DEF ViewsInv

-----------------------------------------------------------------------------
(* What the steps have in common.                                          *)

\* What is on screen depends on the page and on whose account `me` says it is.
LEMMA SameScreen ==
    ASSUME watched' = watched, page' = page,
           "me" \in watched => entry'["me"].by = entry["me"].by
    PROVE  Mounted' = Mounted
  BY DEF Mounted, ShownOn

\* `me` is mounted everywhere but on the login page, which mounts nothing.
LEMMA MeOnScreen ==
    /\ Mounted \subseteq watched
    /\ page = "login" => Mounted = {}
    /\ page # "login" /\ "me" \in watched => "me" \in Mounted
  BY DEF Mounted, ShownOn

\* The queries that come on screen are in flight or fresh, and what a query has
\* to show changes only when it is asked for.
LEMMA FetchedFits ==
    ASSUME watched' = watched, viewer' \in Accounts, NEW requests \in [watched -> Asked],
           InViewTypes, fetch' = Fetched(page', viewer', entry', requests),
           must' = Due(Coming(page', entry', requests))
    PROVE  /\ fetch' \in [watched -> Asked]
           /\ must' \in [watched -> 0..written] /\ \A q \in watched : must'[q] <= owed[q]
           /\ \A q \in watched :
                 \/ /\ fetch'[q].pc = "sent" /\ fetch'[q].data = 0
                    /\ entry'[q].data = -1 \/ entry'[q].due
                 \/ /\ fetch'[q] = requests[q] /\ must'[q] = must[q]
                    /\ q \in Mounted' /\ q \notin Mounted /\ requests[q].pc \notin {"sent", "read"} =>
                          entry'[q].data # -1 /\ ~entry'[q].due
<1> DEFINE Comes(q) == /\ q \in ShownOn(page', entry') \ Mounted
                       /\ requests[q].pc \notin {"sent", "read"}
                       /\ entry'[q].data = -1 \/ entry'[q].due
<1>1. /\ fetch' = [q \in watched |-> IF Comes(q) THEN Launched(q, viewer') ELSE requests[q]]
      /\ must' = [q \in watched |-> IF Comes(q) THEN owed[q] ELSE must[q]]
  BY DEF Fetched, Coming, Stale, Due
<1>2. Mounted' = ShownOn(page', entry')
  BY DEF Mounted, ShownOn
<1>3. \A q \in watched : /\ Launched(q, viewer') \in Asked /\ Launched(q, viewer').pc = "sent"
                         /\ Launched(q, viewer').data = 0
  BY Shapes
<1>4. \A q \in watched : /\ owed[q] \in 0..written /\ must[q] \in 0..written
                         /\ must[q] <= owed[q] /\ owed[q] <= owed[q]
  BY DEF InViewTypes
<1>5. /\ fetch' \in [watched -> Asked]
      /\ must' \in [watched -> 0..written] /\ \A q \in watched : must'[q] <= owed[q]
  BY <1>1, <1>3, <1>4
<1>6. ASSUME NEW q \in watched
      PROVE  \/ /\ fetch'[q].pc = "sent" /\ fetch'[q].data = 0
                /\ entry'[q].data = -1 \/ entry'[q].due
             \/ /\ fetch'[q] = requests[q] /\ must'[q] = must[q]
                /\ q \in Mounted' /\ q \notin Mounted /\ requests[q].pc \notin {"sent", "read"} =>
                      entry'[q].data # -1 /\ ~entry'[q].due
  <2>1. CASE Comes(q)
    BY <1>1, <1>3, <2>1
  <2>2. CASE ~Comes(q)
    BY <1>1, <1>2, <2>2
  <2> QED  BY <2>1, <2>2
<1> QED  BY <1>5, <1>6

LEMMA BoundOfWrites ==
    ASSUME InViewTypes
    PROVE  MaxWrites[watched] \in Nat /\ watched \subseteq Queries
  BY MaxWritesAssumption, FollowedAssumption DEF InViewTypes

LEMMA WritesFitKeeps ==
    ASSUME InViewTypes, WritesFit, watched' = watched, written' = written,
           \A c \in Clicks : write'[c].pc = "sent" => write[c].pc = "sent"
    PROVE  WritesFit'
<1>1. Sending' \subseteq Sending
  BY DEF Sending
<1>2. IsFiniteSet(Sending) /\ IsFiniteSet(Sending') /\ Cardinality(Sending') <= Cardinality(Sending)
      /\ Cardinality(Sending') \in Nat /\ Cardinality(Sending) \in Nat
  BY <1>1, FS_Subset, FS_CardinalityType DEF WritesFit
<1> QED  BY <1>2, BoundOfWrites DEF WritesFit, InViewTypes

\* A write goes on waiting while its requests are in flight.
LEMMA WaitsKeep ==
    ASSUME WaitsForSome, watched' = watched,
           \A c \in Clicks : write'[c] = write[c] \/ write'[c] = NoWrite,
           \A q \in watched : fetch[q].pc \in {"sent", "read"} => fetch'[q].pc \in {"sent", "read"}
    PROVE  WaitsForSome'
  BY DEF WaitsForSome

\* Writes that settle with the requests in `settled`.
LEMMA SettledFits ==
    ASSUME InViewTypes, NEW settled
    PROVE  /\ Settled(settled) \in [Clicks -> Started \union {NoWrite}]
           /\ \A c \in Clicks :
                 /\ Settled(settled)[c].pc = write[c].pc
                 /\ Settled(settled)[c] = NoWrite <=> write[c] = NoWrite
                 /\ write[c] # NoWrite =>
                       /\ Settled(settled)[c].number = write[c].number
                       /\ Settled(settled)[c].awaits =
                             IF write[c].pc = "waits" THEN write[c].awaits \ settled ELSE write[c].awaits
<1>1. ASSUME NEW c \in Clicks
      PROVE  /\ Settled(settled)[c] \in Started \union {NoWrite}
             /\ Settled(settled)[c].pc = write[c].pc
             /\ Settled(settled)[c] = NoWrite <=> write[c] = NoWrite
             /\ write[c] # NoWrite =>
                   /\ Settled(settled)[c].number = write[c].number
                   /\ Settled(settled)[c].awaits =
                         IF write[c].pc = "waits" THEN write[c].awaits \ settled ELSE write[c].awaits
  <2>1. write[c] \in Started \union {NoWrite}
    BY DEF InViewTypes
  <2>2. CASE write[c].pc # "waits"
    BY <2>1, <2>2 DEF Settled
  <2>3. CASE write[c].pc = "waits"
    <3> DEFINE s == [write[c] EXCEPT !.awaits = @ \ settled]
    <3>1. write[c] \in Started
      BY <2>1, <2>3, Shapes
    <3>2. /\ s \in Started /\ s.pc = write[c].pc /\ s.number = write[c].number
          /\ s.awaits = write[c].awaits \ settled
      BY <3>1 DEF Started
    <3>3. Settled(settled)[c] = s
      BY <2>3 DEF Settled
    <3> HIDE DEF s
    <3> QED  BY <2>3, <3>1, <3>2, <3>3, Shapes
  <2> QED  BY <2>2, <2>3
<1>2. Settled(settled) = [c \in Clicks |-> Settled(settled)[c]]
  BY DEF Settled
<1> QED  BY <1>1, <1>2

\* The duties while the writes do not change: answers that are read stay,
\* entries are kept, marked, dropped or filled with what was read, a query that
\* is new on screen is in flight or fresh, and one that has more to show is
\* asked for.
LEMMA DutyKeeps ==
    ASSUME DutyKept, InViewTypes, watched' = watched, written' = written,
           \A q \in watched :
               \/ must'[q] = must[q]
               \/ fetch'[q].pc = "sent" /\ (entry'[q].data = -1 \/ entry'[q].due),
           \A c \in Clicks : write'[c].pc = "applied" => write'[c] = write[c],
           \A q \in watched : fetch'[q].pc = "read" => fetch'[q] = fetch[q],
           \A q \in watched :
               \/ entry'[q].data = -1
               \/ entry'[q].data = entry[q].data /\ (entry'[q].due = entry[q].due \/ entry'[q].due)
               \/ fetch[q].pc = "read" /\ entry'[q].data = fetch[q].data,
           \A q \in Mounted' : fetch'[q].pc = "idle" =>
               \/ entry'[q].data # -1 /\ ~entry'[q].due
               \/ q \in Mounted /\ fetch[q].pc = "idle" /\ entry'[q].data = entry[q].data
               \/ fetch[q].pc = "read" /\ entry'[q].data = fetch[q].data
    PROVE  DutyKept'
<1>1. \A q \in watched : must[q] \in Nat /\ entry[q].data \in Int /\ fetch[q].data \in Int
  BY DEF InViewTypes, Entry, Asked
<1>2. ASSUME NEW q \in watched
      PROVE  entry'[q].data >= must'[q] \/ entry'[q].data = -1 \/ entry'[q].due
  <2>1. CASE must'[q] = must[q]
    BY <1>1, <2>1 DEF DutyKept
  <2>2. CASE must'[q] # must[q]
    BY <2>2
  <2> QED  BY <2>1, <2>2
<1>3. \A q \in Mounted' : q \in watched
  BY DEF Mounted, ShownOn
<1>4. OwnChangesShown'
  <2> SUFFICES ASSUME NEW q \in Mounted', fetch'[q].pc = "idle"
               PROVE  entry'[q].data >= must'[q]
    BY DEF OwnChangesShown
  <2>0. q \in watched /\ must'[q] = must[q]
    BY <1>3
  <2>1. CASE entry'[q].data # -1 /\ ~entry'[q].due
    BY <1>2, <1>3, <2>1
  <2>2. CASE q \in Mounted /\ fetch[q].pc = "idle" /\ entry'[q].data = entry[q].data
    BY <2>0, <2>2 DEF DutyKept, OwnChangesShown
  <2>3. CASE fetch[q].pc = "read" /\ entry'[q].data = fetch[q].data
    BY <2>0, <2>3 DEF DutyKept
  <2> QED  BY <2>1, <2>2, <2>3
<1>5. ASSUME NEW q \in watched, fetch'[q].pc = "read"
      PROVE  fetch'[q].data >= must'[q]
  <2>1. must'[q] = must[q] /\ fetch'[q] = fetch[q]
    BY <1>5
  <2> QED  BY <1>5, <2>1 DEF DutyKept
<1> QED  BY <1>1, <1>2, <1>4, <1>5 DEF DutyKept

\* The request of q is answered by the API, asked again or given up.
LEMMA RequestStep ==
    ASSUME ViewsInv, NEW q \in watched, NEW f \in Asked, fetch' = [fetch EXCEPT ![q] = f],
           f.pc # "idle", f.data \in 0..written, f.pc = "read" => f.data = written,
           UNCHANGED <<watched, written, viewer, page, entry, owed, must>>,
           write' = Settled({q}) \/ (write' = write /\ f.pc \in {"sent", "read"})
    PROVE  ViewsInv'
<1>1. InViewTypes /\ WaitsForSome /\ WritesFit /\ DutyKept
  BY DEF ViewsInv
<1>2. /\ fetch' \in [watched -> Asked] /\ fetch'[q] = f
      /\ \A r \in watched : r # q => fetch'[r] = fetch[r]
  BY <1>1 DEF InViewTypes
<1>3. /\ write' \in [Clicks -> Started \union {NoWrite}]
      /\ \A c \in Clicks : write'[c].pc = write[c].pc
      /\ \A c \in Clicks : write[c] = NoWrite => write'[c] = NoWrite
      /\ \A c \in Clicks : write[c] # NoWrite => write'[c].number = write[c].number
      /\ \A c \in Clicks : write[c] # NoWrite => write'[c].awaits \subseteq write[c].awaits
      /\ \A c \in Clicks : write[c] # NoWrite =>
            f.pc \in {"sent", "read"} \/ q \notin write'[c].awaits
  <2>1. CASE write' = write /\ f.pc \in {"sent", "read"}
    BY <1>1, <2>1 DEF InViewTypes
  <2>2. CASE write' = Settled({q})
    <3> DEFINE S == Settled({q})
    <3>1. S \in [Clicks -> Started \union {NoWrite}]
      BY <1>1, SettledFits
    <3>2. ASSUME NEW c \in Clicks
          PROVE  /\ S[c].pc = write[c].pc
                 /\ write[c] = NoWrite => S[c] = NoWrite
                 /\ write[c] # NoWrite => S[c].number = write[c].number
                 /\ write[c] # NoWrite => S[c].awaits \subseteq write[c].awaits
                 /\ write[c] # NoWrite => q \notin S[c].awaits
      <4>1. /\ S[c].pc = write[c].pc /\ (S[c] = NoWrite <=> write[c] = NoWrite)
            /\ (write[c] # NoWrite =>
                  /\ S[c].number = write[c].number
                  /\ S[c].awaits = IF write[c].pc = "waits" THEN write[c].awaits \ {q}
                                                           ELSE write[c].awaits)
        BY <1>1, SettledFits
      <4>2. write[c] # NoWrite /\ write[c].pc # "waits" => write[c].awaits = {}
        BY <1>1 DEF WaitsForSome
      <4> HIDE DEF S
      <4> QED  BY <4>1, <4>2
    <3>3. write' = S
      BY <2>2
    <3> HIDE DEF S
    <3> QED  BY <3>1, <3>2, <3>3
  <2> QED  BY <2>1, <2>2
<1>4. InViewTypes'
  BY <1>1, <1>2, <1>3 DEF InViewTypes
<1>5. WaitsForSome'
  <2> SUFFICES ASSUME NEW c \in Clicks, write'[c] # NoWrite
               PROVE  /\ write'[c].awaits \subseteq watched
                      /\ write'[c].pc # "waits" => write'[c].awaits = {}
                      /\ \A r \in write'[c].awaits : fetch'[r].pc \in {"sent", "read"}
    BY DEF WaitsForSome
  <2>1. /\ write[c] # NoWrite /\ write'[c].pc = write[c].pc
        /\ write'[c].awaits \subseteq write[c].awaits
        /\ f.pc \in {"sent", "read"} \/ q \notin write'[c].awaits
    BY <1>3
  <2>2. /\ write[c].awaits \subseteq watched
        /\ write[c].pc # "waits" => write[c].awaits = {}
        /\ \A r \in write[c].awaits : fetch[r].pc \in {"sent", "read"}
    BY <1>1, <2>1 DEF WaitsForSome
  <2> QED  BY <1>2, <2>1, <2>2
<1>6. WritesFit'
  BY <1>1, <1>3, WritesFitKeeps
<1>7. DutyKept'
  <2>1. Mounted' = Mounted /\ Mounted \subseteq watched
    BY SameScreen, MeOnScreen
  <2>2. OwnChangesShown'
    BY <1>1, <1>2, <2>1 DEF DutyKept, OwnChangesShown
  <2>3. \A c \in Clicks : write'[c].pc = "applied" => write'[c].number <= written'
    <3> SUFFICES ASSUME NEW c \in Clicks, write'[c].pc = "applied"
                 PROVE  write'[c].number <= written
      OBVIOUS
    <3>1. write[c].pc = "applied" /\ write[c] # NoWrite /\ write'[c].number = write[c].number
      BY <1>3, Shapes
    <3> QED  BY <1>1, <3>1 DEF DutyKept
  <2>4. \A r \in watched : fetch'[r].pc = "read" => fetch'[r].data >= must[r]
    BY <1>1, <1>2 DEF DutyKept, InViewTypes
  <2> QED  BY <1>1, <2>2, <2>3, <2>4 DEF DutyKept
<1> QED  BY <1>4, <1>5, <1>6, <1>7 DEF ViewsInv

\* The writes change, and nothing they would have to show.
LEMMA WriteStarts ==
    ASSUME ViewsInv, UNCHANGED <<watched, viewer, page, entry, fetch, owed, must>>,
           written' \in Nat, written' >= written,
           write' \in [Clicks -> Started \union {NoWrite}],
           \A c \in Clicks : write'[c].pc = "applied" => write'[c].number <= written',
           WaitsForSome', WritesFit'
    PROVE  ViewsInv'
<1>1. InViewTypes /\ DutyKept
  BY DEF ViewsInv
<1>2. InViewTypes'
  BY <1>1 DEF InViewTypes
<1>3. Mounted' = Mounted
  BY SameScreen
<1>4. DutyKept'
  BY <1>1, <1>3 DEF DutyKept, OwnChangesShown
<1> QED  BY <1>2, <1>4 DEF ViewsInv

-----------------------------------------------------------------------------
(* The steps.                                                              *)

LEMMA ViewsStep == ViewsInv /\ [ViewsNext]_viewVars => ViewsInv'
<1> SUFFICES ASSUME ViewsInv, [ViewsNext]_viewVars PROVE ViewsInv'
  OBVIOUS
<1>a. InViewTypes /\ WaitsForSome /\ WritesFit /\ DutyKept
  BY DEF ViewsInv
<1>1. ASSUME NEW p \in {"login"} \union DOMAIN Pages, NEW who \in Accounts, Moves(p, who),
             p = "login" <=> who = "nobody"
      PROVE  ViewsInv'
  <2>1. /\ page' = p /\ viewer' = who
        /\ fetch' = Fetched(page', viewer', entry', fetch)
        /\ must' = Due(Coming(page', entry', fetch))
        /\ UNCHANGED <<watched, written, entry, write, owed>>
    BY <1>1 DEF Moves
  <2>2. /\ fetch' \in [watched -> Asked]
        /\ must' \in [watched -> 0..written] /\ \A q \in watched : must'[q] <= owed[q]
        /\ \A q \in watched :
              \/ /\ fetch'[q].pc = "sent" /\ fetch'[q].data = 0
                 /\ entry'[q].data = -1 \/ entry'[q].due
              \/ /\ fetch'[q] = fetch[q] /\ must'[q] = must[q]
                 /\ q \in Mounted' /\ q \notin Mounted /\ fetch[q].pc \notin {"sent", "read"} =>
                       entry'[q].data # -1 /\ ~entry'[q].due
    <3>1. fetch \in [watched -> Asked] /\ viewer' \in Accounts
      BY <1>1, <1>a, <2>1 DEF InViewTypes
    <3> QED  BY <1>a, <2>1, <3>1, FetchedFits
  <2>3. InViewTypes'
    BY <1>1, <1>a, <2>1, <2>2 DEF InViewTypes
  <2>4. WaitsForSome'
    BY <1>a, <2>1, <2>2, WaitsKeep
  <2>5. WritesFit'
    BY <1>a, <2>1, WritesFitKeeps
  <2>6. \A q \in Mounted' : q \in watched
    BY <2>1 DEF Mounted, ShownOn
  <2>7. DutyKept'
    BY <1>a, <2>1, <2>2, <2>6, DutyKeeps
  <2> QED  BY <2>3, <2>4, <2>5, <2>7 DEF ViewsInv
<1>2. ASSUME NEW who \in {"super", "staff"}, SignIn(who)
      PROVE  ViewsInv'
  BY <1>1, <1>2 DEF SignIn, Accounts, Pages
<1>3. CASE SignOut
  BY <1>1, <1>3 DEF SignOut, Accounts
<1>4. ASSUME NEW p \in DOMAIN Pages, Goto(p)
      PROVE  ViewsInv'
  <2>1. viewer \in Accounts /\ viewer # "nobody" /\ p # "login" /\ Moves(p, viewer)
    BY <1>4, <1>a DEF Goto, InViewTypes, Pages
  <2> QED  BY <1>1, <1>4, <2>1
<1>5. CASE LoadAgain
  <2>1. /\ entry' = [q \in watched |-> NoData]
        /\ fetch' = [q \in watched |->
                        IF q \in ShownOn(page, entry') THEN Launched(q, viewer) ELSE NoFetch]
        /\ write' = [c \in Clicks |-> NoWrite]
        /\ must' = [q \in watched |-> IF q \in ShownOn(page, entry') THEN owed[q] ELSE must[q]]
        /\ UNCHANGED <<watched, written, viewer, page, owed>>
    BY <1>5 DEF LoadAgain, Due
  <2>2. Mounted' = ShownOn(page, entry')
    BY <2>1 DEF Mounted, ShownOn
  <2>3. viewer \in Accounts
    BY <1>a DEF InViewTypes
  <2>4. /\ fetch' \in [watched -> Asked]
        /\ \A q \in watched : /\ fetch'[q].data = 0
                              /\ fetch'[q].pc = IF q \in Mounted' THEN "sent" ELSE "idle"
    BY <2>1, <2>2, <2>3, Shapes
  <2>5. entry' \in [watched -> Entry] /\ \A q \in watched : entry'[q].data = -1
    BY <2>1, Shapes
  <2>6. InViewTypes'
    <3>1. \A q \in watched : /\ owed[q] \in 0..written /\ must[q] \in 0..written
                             /\ must[q] <= owed[q] /\ owed[q] <= owed[q]
      BY <1>a DEF InViewTypes
    <3>2. must' \in [watched -> 0..written] /\ \A q \in watched : must'[q] <= owed[q]
      BY <2>1, <3>1
    <3> QED  BY <1>a, <2>1, <2>4, <2>5, <3>2 DEF InViewTypes
  <2>7. WaitsForSome'
    BY <2>1 DEF WaitsForSome
  <2>8. WritesFit'
    BY <1>a, <2>1, WritesFitKeeps, Shapes
  <2>9. DutyKept'
    <3>1. \A q \in Mounted' : q \in watched
      BY <2>1 DEF Mounted, ShownOn
    <3>2. \A q \in watched : fetch'[q].pc # "read"
      BY <2>4
    <3>3. OwnChangesShown'
      BY <2>4, <3>1 DEF OwnChangesShown
    <3> QED  BY <2>1, <2>5, <3>2, <3>3, Shapes DEF DutyKept
  <2> QED  BY <2>6, <2>7, <2>8, <2>9 DEF ViewsInv
<1>6. CASE Focus
  <2> DEFINE asked == {q \in Mounted : ~InFlight(q) /\ Stale(q, entry)}
  <2>1. /\ fetch' = [q \in watched |-> IF q \in asked THEN Launched(q, viewer) ELSE fetch[q]]
        /\ must' = [q \in watched |-> IF q \in asked THEN owed[q] ELSE must[q]]
        /\ UNCHANGED <<watched, written, viewer, page, entry, write, owed>>
    BY <1>6 DEF Focus, Due
  <2>2. \A q \in asked : entry[q].data = -1 \/ entry[q].due
    BY DEF Stale
  <2> HIDE DEF asked
  <2>3. viewer \in Accounts
    BY <1>a DEF InViewTypes
  <2>4. /\ fetch' \in [watched -> Asked]
        /\ \A q \in watched :
              \/ fetch'[q] = fetch[q] /\ must'[q] = must[q]
              \/ /\ fetch'[q].pc = "sent" /\ fetch'[q].data = 0
                 /\ entry[q].data = -1 \/ entry[q].due
    BY <1>a, <2>1, <2>2, <2>3, Shapes DEF InViewTypes
  <2>5. InViewTypes'
    <3>1. \A q \in watched : /\ owed[q] \in 0..written /\ must[q] \in 0..written
                             /\ must[q] <= owed[q] /\ owed[q] <= owed[q]
      BY <1>a DEF InViewTypes
    <3>2. must' \in [watched -> 0..written] /\ \A q \in watched : must'[q] <= owed[q]
      BY <2>1, <3>1
    <3> QED  BY <1>a, <2>1, <2>4, <3>2 DEF InViewTypes
  <2>6. WaitsForSome'
    BY <1>a, <2>1, <2>4, WaitsKeep
  <2>7. WritesFit'
    BY <1>a, <2>1, WritesFitKeeps
  <2>8. Mounted' = Mounted /\ Mounted \subseteq watched
    BY <2>1, SameScreen, MeOnScreen
  <2>9. DutyKept'
    BY <1>a, <2>1, <2>4, <2>8, DutyKeeps
  <2> QED  BY <2>5, <2>6, <2>7, <2>9 DEF ViewsInv
<1>7. ASSUME NEW q \in watched, Reads(q)
      PROVE  ViewsInv'
  <2>0. PICK n \in Nat : n = written
    BY <1>a DEF InViewTypes
  <2> DEFINE f == [fetch[q] EXCEPT !.pc = "read", !.data = n]
  <2>1. fetch[q] \in Asked
    BY <1>a DEF InViewTypes
  <2>2. f \in Asked /\ f.pc = "read" /\ f.data = n
    <3>1. n \in Int
      OBVIOUS
    <3>2. f \in Asked
      BY <2>1, <3>1 DEF Asked
    <3>3. f.pc = "read" /\ f.data = n
      BY <2>1, <3>1 DEF Asked
    <3> QED  BY <3>2, <3>3
  <2>3. /\ fetch' = [fetch EXCEPT ![q] = f]
        /\ UNCHANGED <<watched, written, viewer, page, entry, write, owed, must>>
    BY <1>7, <1>a, <2>0 DEF Reads, InViewTypes
  <2> HIDE DEF f
  <2>4. f.data \in 0..written /\ f.data = written
    BY <2>0, <2>2
  <2> QED  BY <2>2, <2>3, <2>4, RequestStep
<1>8. ASSUME NEW q \in watched, Arrives(q)
      PROVE  ViewsInv'
  <2> DEFINE filled == [data |-> fetch[q].data, by |-> fetch[q].by, due |-> FALSE]
             requests == [fetch EXCEPT ![q] = NoFetch]
  <2>1. /\ fetch[q].pc = "read" /\ fetch[q] \in Asked /\ fetch[q].data \in 0..written
        /\ entry' = [entry EXCEPT ![q] = filled]
        /\ fetch' = Fetched(page', viewer', entry', requests)
        /\ must' = Due(Coming(page', entry', requests))
        /\ write' = Settled({q})
        /\ UNCHANGED <<watched, written, viewer, page, owed>>
    BY <1>8, <1>a DEF Arrives, InViewTypes
  <2>2. filled \in Entry /\ filled.data = fetch[q].data /\ filled.due = FALSE
    BY <2>1 DEF Entry, Asked
  <2> HIDE DEF filled
  <2>3. /\ entry' \in [watched -> Entry] /\ entry'[q] = filled
        /\ \A r \in watched : r # q => entry'[r] = entry[r]
    BY <1>a, <2>1, <2>2 DEF InViewTypes
  <2>4. /\ requests \in [watched -> Asked] /\ requests[q] = NoFetch
        /\ \A r \in watched : r # q => requests[r] = fetch[r]
    BY <1>a, Shapes DEF InViewTypes
  <2> HIDE DEF requests
  <2>5. /\ fetch' \in [watched -> Asked]
        /\ must' \in [watched -> 0..written] /\ \A r \in watched : must'[r] <= owed[r]
        /\ \A r \in watched :
              \/ /\ fetch'[r].pc = "sent" /\ fetch'[r].data = 0
                 /\ entry'[r].data = -1 \/ entry'[r].due
              \/ /\ fetch'[r] = requests[r] /\ must'[r] = must[r]
                 /\ r \in Mounted' /\ r \notin Mounted /\ requests[r].pc \notin {"sent", "read"} =>
                       entry'[r].data # -1 /\ ~entry'[r].due
    <3>1. viewer' \in Accounts
      BY <1>a, <2>1 DEF InViewTypes
    <3> QED  BY <1>a, <2>1, <2>4, <3>1, FetchedFits
  <2>6. \A r \in watched :
            \/ /\ fetch'[r].pc = "sent" /\ fetch'[r].data = 0
               /\ entry'[r].data = -1 \/ entry'[r].due
            \/ r = q /\ fetch'[r].pc = "idle" /\ fetch'[r].data = 0 /\ must'[r] = must[r]
            \/ /\ r # q /\ fetch'[r] = fetch[r] /\ must'[r] = must[r]
               /\ r \in Mounted' /\ r \notin Mounted /\ fetch[r].pc \notin {"sent", "read"} =>
                     entry'[r].data # -1 /\ ~entry'[r].due
    BY <2>4, <2>5, Shapes
  <2>7. /\ write' \in [Clicks -> Started \union {NoWrite}]
        /\ \A c \in Clicks :
              /\ write'[c].pc = write[c].pc
              /\ write'[c] = NoWrite <=> write[c] = NoWrite
              /\ write[c] # NoWrite =>
                    /\ write'[c].number = write[c].number
                    /\ write'[c].awaits = IF write[c].pc = "waits" THEN write[c].awaits \ {q}
                                                                  ELSE write[c].awaits
    BY <1>a, <2>1, SettledFits
  <2>8. InViewTypes'
    <3>1. \A r \in watched : entry'[r].data \in -1..written
      BY <1>a, <2>1, <2>2, <2>3 DEF InViewTypes
    <3>2. \A r \in watched : fetch'[r].data \in 0..written
      BY <1>a, <2>6 DEF InViewTypes
    <3> QED  BY <1>a, <2>1, <2>3, <2>5, <2>7, <3>1, <3>2 DEF InViewTypes
  <2>9. WaitsForSome'
    <3> SUFFICES ASSUME NEW c \in Clicks, write'[c] # NoWrite
                 PROVE  /\ write'[c].awaits \subseteq watched
                        /\ write'[c].pc # "waits" => write'[c].awaits = {}
                        /\ \A r \in write'[c].awaits : fetch'[r].pc \in {"sent", "read"}
      BY <2>1 DEF WaitsForSome
    <3>1. /\ write[c] # NoWrite /\ write'[c].pc = write[c].pc
          /\ write'[c].awaits = IF write[c].pc = "waits" THEN write[c].awaits \ {q}
                                                         ELSE write[c].awaits
      BY <2>7
    <3>2. /\ write[c].awaits \subseteq watched
          /\ write[c].pc # "waits" => write[c].awaits = {}
          /\ \A r \in write[c].awaits : fetch[r].pc \in {"sent", "read"}
      BY <1>a, <3>1 DEF WaitsForSome
    <3>3. q \notin write'[c].awaits
      BY <3>1, <3>2
    <3> QED  BY <2>6, <3>1, <3>2, <3>3
  <2>10. WritesFit'
    BY <1>a, <2>1, <2>7, WritesFitKeeps
  <2>11. DutyKept'
    <3>1. \A r \in Mounted' : r \in watched
      BY <2>1 DEF Mounted, ShownOn
    <3>2. \A r \in watched : fetch'[r].pc = "read" => fetch'[r].data >= must'[r]
      BY <1>a, <2>6 DEF DutyKept
    <3>3. ASSUME NEW r \in watched
          PROVE  entry'[r].data >= must'[r] \/ entry'[r].data = -1 \/ entry'[r].due
      <4>1. CASE must'[r] = must[r] /\ r = q
        BY <1>a, <2>1, <2>2, <2>3, <4>1 DEF DutyKept
      <4>2. CASE must'[r] = must[r] /\ r # q
        BY <1>a, <2>3, <4>2 DEF DutyKept
      <4>3. CASE must'[r] # must[r]
        BY <2>6, <4>3
      <4> QED  BY <4>1, <4>2, <4>3
    <3>4. OwnChangesShown'
      <4> SUFFICES ASSUME NEW r \in Mounted', fetch'[r].pc = "idle"
                   PROVE  entry'[r].data >= must'[r]
        BY <2>1 DEF OwnChangesShown
      <4>0. r \in watched /\ must'[r] = must[r]
        BY <2>6, <3>1
      <4>1. CASE r = q
        BY <1>a, <2>1, <2>2, <2>3, <4>0, <4>1 DEF DutyKept
      <4>2. CASE r # q /\ r \in Mounted
        <5>1. fetch[r].pc = "idle" /\ entry'[r] = entry[r]
          BY <2>3, <2>6, <3>1, <4>2
        <5> QED  BY <1>a, <4>0, <4>2, <5>1 DEF DutyKept, OwnChangesShown
      <4>3. CASE r # q /\ r \notin Mounted
        <5>1. entry'[r].data # -1 /\ ~entry'[r].due
          BY <2>6, <3>1, <4>3
        <5> QED  BY <3>1, <3>3, <5>1
      <4> QED  BY <4>1, <4>2, <4>3
    <3>5. \A c \in Clicks : write'[c].pc = "applied" => write'[c].number <= written'
      BY <1>a, <2>1, <2>7, Shapes DEF DutyKept
    <3> QED  BY <2>1, <3>2, <3>3, <3>4, <3>5 DEF DutyKept
  <2> QED  BY <2>8, <2>9, <2>10, <2>11 DEF ViewsInv
<1>9. ASSUME NEW q \in watched, Retries(q)
      PROVE  ViewsInv'
  <2> DEFINE f == [Launched(q, viewer) EXCEPT !.again = TRUE]
  <2>1. Launched(q, viewer) \in Asked /\ Launched(q, viewer).pc = "sent" /\ Launched(q, viewer).data = 0
    BY <1>a, Shapes DEF InViewTypes
  <2>2. f \in Asked /\ f.pc = "sent" /\ f.data = 0
    BY <2>1 DEF Asked
  <2>3. /\ fetch' = [fetch EXCEPT ![q] = f]
        /\ UNCHANGED <<watched, written, viewer, page, entry, write, owed, must>>
    BY <1>9 DEF Retries
  <2> HIDE DEF f
  <2>4. 0 \in 0..written
    BY <1>a DEF InViewTypes
  <2> QED  BY <2>2, <2>3, <2>4, RequestStep
<1>10. ASSUME NEW q \in watched, FetchFails(q)
      PROVE  ViewsInv'
  <2> DEFINE f == [NoFetch EXCEPT !.pc = "failed"]
  <2>1. f \in Asked /\ f.pc = "failed" /\ f.data = 0
    BY Shapes DEF Asked
  <2>2. /\ fetch' = [fetch EXCEPT ![q] = f] /\ write' = Settled({q})
        /\ UNCHANGED <<watched, written, viewer, page, entry, owed, must>>
    BY <1>10 DEF FetchFails
  <2> HIDE DEF f
  <2>4. 0 \in 0..written
    BY <1>a DEF InViewTypes
  <2> QED  BY <2>1, <2>2, <2>4, RequestStep
<1>11. ASSUME NEW q \in watched, Ages(q)
      PROVE  ViewsInv'
  <2> DEFINE e == [entry[q] EXCEPT !.due = TRUE]
  <2>1. /\ entry' = [entry EXCEPT ![q] = e]
        /\ UNCHANGED <<watched, written, viewer, page, fetch, write, owed, must>>
    BY <1>11 DEF Ages
  <2>2. e \in Entry /\ e.data = entry[q].data /\ e.by = entry[q].by /\ e.due = TRUE
    BY <1>a DEF InViewTypes, Entry
  <2> HIDE DEF e
  <2>3. /\ entry' \in [watched -> Entry] /\ entry'[q] = e
        /\ \A r \in watched : r # q => entry'[r] = entry[r]
    BY <1>a, <2>1, <2>2 DEF InViewTypes
  <2>4. InViewTypes'
    BY <1>a, <2>1, <2>2, <2>3 DEF InViewTypes
  <2>5. WaitsForSome'
    BY <1>a, <2>1, WaitsKeep
  <2>6. WritesFit'
    BY <1>a, <2>1, WritesFitKeeps
  <2>7. Mounted' = Mounted /\ Mounted \subseteq watched
    BY <2>1, <2>2, <2>3, SameScreen, MeOnScreen
  <2>8. DutyKept'
    BY <1>a, <2>1, <2>2, <2>3, <2>7 DEF DutyKept, OwnChangesShown
  <2> QED  BY <2>4, <2>5, <2>6, <2>8 DEF ViewsInv
<1>12. ASSUME NEW q \in watched, Collect(q)
      PROVE  ViewsInv'
  <2>1. /\ entry' = [entry EXCEPT ![q] = NoData] /\ fetch' = [fetch EXCEPT ![q] = NoFetch]
        /\ q \notin Mounted /\ fetch[q].pc \notin {"sent", "read"}
        /\ UNCHANGED <<watched, written, viewer, page, write, owed, must>>
    BY <1>12 DEF Collect, InFlight
  <2>2. /\ entry' \in [watched -> Entry] /\ entry'[q] = NoData
        /\ \A r \in watched : r # q => entry'[r] = entry[r]
        /\ fetch' \in [watched -> Asked] /\ fetch'[q] = NoFetch
        /\ \A r \in watched : r # q => fetch'[r] = fetch[r]
    BY <1>a, <2>1, Shapes DEF InViewTypes
  <2>3. InViewTypes'
    BY <1>a, <2>1, <2>2, Shapes DEF InViewTypes
  <2>4. WaitsForSome'
    BY <1>a, <2>1, <2>2, WaitsKeep
  <2>5. WritesFit'
    BY <1>a, <2>1, WritesFitKeeps
  <2>6. Mounted' = Mounted /\ Mounted \subseteq watched
    <3>1. CASE q = "me"
      <4>1. page = "login"
        BY <2>1, <3>1, MeOnScreen
      <4> QED  BY <2>1, <4>1 DEF Mounted, ShownOn
    <3>2. CASE q # "me"
      BY <2>1, <2>2, <3>2, SameScreen, MeOnScreen
    <3> QED  BY <3>1, <3>2
  <2>7. DutyKept'
    BY <1>a, <2>1, <2>2, <2>6, Shapes DEF DutyKept, OwnChangesShown
  <2> QED  BY <2>3, <2>4, <2>5, <2>7 DEF ViewsInv
<1>13. ASSUME NEW c \in Clicks, NEW w \in Writes, Click(c, w)
      PROVE  ViewsInv'
  <2> DEFINE s == [pc |-> "sent", what |-> w, number |-> 0, awaits |-> {}]
  <2>1. /\ write[c] = NoWrite /\ write' = [write EXCEPT ![c] = s]
        /\ written + Cardinality(Sending) < MaxWrites[watched]
        /\ UNCHANGED <<watched, written, viewer, page, entry, fetch, owed, must>>
    BY <1>13 DEF Click, Sending
  <2>2. s \in Started /\ s.pc = "sent" /\ s.awaits = {}
    BY DEF Started
  <2> HIDE DEF s
  <2>3. /\ write' \in [Clicks -> Started \union {NoWrite}] /\ write'[c] = s
        /\ \A d \in Clicks : d # c => write'[d] = write[d]
    BY <1>a, <2>1, <2>2 DEF InViewTypes
  <2>4. WaitsForSome'
    BY <1>a, <2>1, <2>2, <2>3 DEF WaitsForSome
  <2>5. WritesFit'
    <3>1. Sending' \subseteq Sending \union {c}
      BY <2>3 DEF Sending
    <3>2. /\ IsFiniteSet(Sending \union {c})
          /\ Cardinality(Sending \union {c}) =
                IF c \in Sending THEN Cardinality(Sending) ELSE Cardinality(Sending) + 1
      BY <1>a, FS_AddElement DEF WritesFit
    <3>3. /\ IsFiniteSet(Sending') /\ Cardinality(Sending') <= Cardinality(Sending \union {c})
          /\ Cardinality(Sending') \in Nat /\ Cardinality(Sending) \in Nat
      BY <1>a, <3>1, <3>2, FS_Subset, FS_CardinalityType DEF WritesFit
    <3> QED  BY <1>a, <2>1, <3>2, <3>3, BoundOfWrites DEF WritesFit, InViewTypes
  <2>6. \A d \in Clicks : write'[d].pc = "applied" => write'[d].number <= written'
    BY <1>a, <2>1, <2>2, <2>3 DEF DutyKept
  <2> QED  BY <1>a, <2>1, <2>3, <2>4, <2>5, <2>6, WriteStarts DEF InViewTypes
<1>14. ASSUME NEW c \in Clicks, Applies(c)
      PROVE  ViewsInv'
  <2>0. PICK n \in Nat : n = written'
    BY <1>14, <1>a DEF Applies, InViewTypes
  <2> DEFINE s == [write[c] EXCEPT !.pc = "applied", !.number = n]
  <2>1. /\ write[c].pc = "sent" /\ write[c] \in Started /\ written' = written + 1 /\ written \in Nat
        /\ UNCHANGED <<watched, viewer, page, entry, fetch, owed, must>>
    BY <1>14, <1>a, Shapes DEF Applies, InViewTypes
  <2>2. write' = [write EXCEPT ![c] = s]
    BY <1>14, <1>a, <2>0 DEF Applies, InViewTypes
  <2>3. /\ s \in Started /\ s.pc = "applied" /\ s.number = written' /\ s.awaits = write[c].awaits
    <3>1. n \in Int /\ write[c] \in Started
      BY <2>0, <2>1
    <3>2. s \in Started
      BY <3>1 DEF Started
    <3>3. s.pc = "applied" /\ s.number = n /\ s.awaits = write[c].awaits
      BY <3>1 DEF Started
    <3> QED  BY <2>0, <3>2, <3>3
  <2> HIDE DEF s
  <2>4. /\ write' \in [Clicks -> Started \union {NoWrite}] /\ write'[c] = s
        /\ \A d \in Clicks : d # c => write'[d] = write[d]
    BY <1>a, <2>2, <2>3 DEF InViewTypes
  <2>5. WaitsForSome'
    BY <1>a, <2>1, <2>3, <2>4, Shapes DEF WaitsForSome
  <2>6. WritesFit'
    <3>1. c \in Sending /\ Sending' = Sending \ {c}
      BY <2>1, <2>3, <2>4 DEF Sending
    <3>2. IsFiniteSet(Sending') /\ Cardinality(Sending') = Cardinality(Sending) - 1
      BY <1>a, <3>1, FS_RemoveElement DEF WritesFit
    <3>3. Cardinality(Sending) \in Nat
      BY <1>a, FS_CardinalityType DEF WritesFit
    <3> QED  BY <1>a, <2>1, <3>2, <3>3, BoundOfWrites DEF WritesFit
  <2>7. \A d \in Clicks : write'[d].pc = "applied" => write'[d].number <= written'
    <3> SUFFICES ASSUME NEW d \in Clicks, write'[d].pc = "applied"
                 PROVE  write'[d].number <= written'
      OBVIOUS
    <3>1. CASE d = c
      BY <2>1, <2>3, <2>4, <3>1
    <3>2. CASE d # c
      <4>1. write'[d] = write[d] /\ write[d] \in Started /\ write[d].number <= written
        BY <1>a, <2>4, <3>2, Shapes DEF DutyKept, InViewTypes
      <4> QED  BY <2>1, <4>1 DEF Started
    <3> QED  BY <3>1, <3>2
  <2> QED  BY <2>1, <2>4, <2>5, <2>6, <2>7, WriteStarts
<1>15. ASSUME NEW c \in Clicks, EndsInError(c) \/ Saved(c)
      PROVE  ViewsInv'
  <2>1. /\ write' = [write EXCEPT ![c] = NoWrite]
        /\ UNCHANGED <<watched, written, viewer, page, entry, fetch, owed, must>>
    BY <1>15 DEF EndsInError, Saved
  <2>2. /\ write' \in [Clicks -> Started \union {NoWrite}] /\ write'[c] = NoWrite
        /\ \A d \in Clicks : d # c => write'[d] = write[d]
    BY <1>a, <2>1 DEF InViewTypes
  <2>3. WaitsForSome'
    BY <1>a, <2>1, <2>2, WaitsKeep
  <2>4. WritesFit'
    BY <1>a, <2>1, <2>2, WritesFitKeeps, Shapes
  <2>5. \A d \in Clicks : write'[d].pc = "applied" => write'[d].number <= written'
    BY <1>a, <2>1, <2>2, Shapes DEF DutyKept
  <2> QED  BY <1>a, <2>1, <2>2, <2>3, <2>4, <2>5, WriteStarts DEF InViewTypes
<1>16. ASSUME NEW c \in Clicks, Acknowledged(c)
      PROVE  ViewsInv'
  <2>0. PICK w \in Writes : w = write[c].what
    BY <1>16, <1>a, Shapes DEF Acknowledged, InViewTypes, Started
  <2>00. PICK n \in Int : n = write[c].number
    BY <1>16, <1>a, Shapes DEF Acknowledged, InViewTypes, Started
  <2> DEFINE joined == {q \in Matched(w) \intersect Mounted : InFlight(q)} \ Refetched(w)
             waiting == [write[c] EXCEPT !.pc = "waits", !.awaits = Refetched(w) \union joined]
             marked(q) == [entry[q] EXCEPT !.due = TRUE]
  <2>1. /\ write[c].pc = "applied" /\ write[c] \in Started /\ n <= written /\ viewer \in Accounts
        /\ entry' = [q \in watched |->
                        IF q \in Matched(w) /\ entry[q].data # -1 THEN marked(q) ELSE entry[q]]
        /\ fetch' = [q \in watched |-> IF q \in Refetched(w) THEN Launched(q, viewer) ELSE fetch[q]]
        /\ write' = [Settled(Refetched(w)) EXCEPT ![c] = IF w.waits THEN waiting ELSE NoWrite]
        /\ owed' = [q \in watched |->
                      IF q \in w.changes /\ n > owed[q] THEN n ELSE owed[q]]
        /\ must' = [q \in watched |->
                      IF q \in (w.changes \ w.misses) \union Refetched(w) /\ ~TooEarly(q)
                      THEN owed'[q] ELSE must[q]]
        /\ UNCHANGED <<watched, written, viewer, page>>
    BY <1>16, <1>a, <2>0, <2>00, Shapes DEF Acknowledged, InViewTypes, DutyKept
  <2>2. /\ Matched(w) \subseteq watched
        /\ \A q \in watched : q \in w.changes \ w.misses => q \in Matched(w)
    BY KeysReach DEF Matched
  <2>3. /\ Refetched(w) \subseteq Matched(w) /\ joined \subseteq Matched(w)
        /\ \A q \in Matched(w) \intersect Mounted : q \notin Refetched(w) =>
              entry[q].data = -1 /\ fetch[q].pc \in {"sent", "read"}
        /\ \A q \in joined : fetch[q].pc \in {"sent", "read"} /\ q \notin Refetched(w)
    BY DEF Refetched, InFlight
  <2>4. /\ entry' \in [watched -> Entry]
        /\ \A q \in watched : /\ entry'[q].data = entry[q].data /\ entry'[q].by = entry[q].by
                              /\ entry'[q].due = entry[q].due \/ entry'[q].due
                              /\ q \in Matched(w) => entry'[q].data = -1 \/ entry'[q].due
    <3>1. ASSUME NEW q \in watched
          PROVE  /\ marked(q) \in Entry /\ entry[q] \in Entry /\ marked(q).due = TRUE
                 /\ marked(q).data = entry[q].data /\ marked(q).by = entry[q].by
      BY <1>a DEF InViewTypes, Entry
    <3> HIDE DEF marked
    <3> QED  BY <2>1, <3>1
  <2>5. /\ fetch' \in [watched -> Asked]
        /\ \A q \in watched : IF q \in Refetched(w)
                              THEN fetch'[q].pc = "sent" /\ fetch'[q].data = 0
                              ELSE fetch'[q] = fetch[q]
    <3>1. \A q \in watched : fetch[q] \in Asked
      BY <1>a DEF InViewTypes
    <3> QED  BY <2>1, <3>1, Shapes
  <2>6. ASSUME NEW q \in watched
        PROVE  /\ owed'[q] \in 0..written /\ must'[q] \in 0..written /\ must'[q] <= owed'[q]
               /\ must'[q] # must[q] => q \in Matched(w) /\ ~TooEarly(q)
    <3>1. /\ owed[q] \in 0..written /\ must[q] \in 0..written /\ must[q] <= owed[q]
          /\ written \in Nat
      BY <1>a DEF InViewTypes
    <3>2. owed'[q] = IF q \in w.changes /\ n > owed[q] THEN n ELSE owed[q]
      BY <2>1
    <3>3. owed'[q] \in 0..written /\ owed[q] <= owed'[q]
      BY <2>1, <3>1, <3>2
    <3>4. must'[q] = IF q \in (w.changes \ w.misses) \union Refetched(w) /\ ~TooEarly(q)
                     THEN owed'[q] ELSE must[q]
      BY <2>1
    <3>5. must'[q] # must[q] => q \in Matched(w) /\ ~TooEarly(q)
      BY <2>2, <2>3, <3>4
    <3> QED  BY <3>1, <3>3, <3>4, <3>5
  <2>7. waiting \in Started /\ waiting.pc = "waits" /\ waiting.awaits = Refetched(w) \union joined
    <3>1. Refetched(w) \union joined \in SUBSET Queries
      BY <1>a, <2>2, <2>3, BoundOfWrites
    <3> HIDE DEF joined
    <3> QED  BY <2>1, <3>1 DEF Started
  <2> HIDE DEF joined, waiting, marked
  <2>8. /\ write' \in [Clicks -> Started \union {NoWrite}]
        /\ write'[c] = IF w.waits THEN waiting ELSE NoWrite
        /\ \A d \in Clicks : d # c => write'[d] = Settled(Refetched(w))[d]
    BY <1>a, <2>1, <2>7, SettledFits
  <2>8a. ASSUME NEW d \in Clicks, d # c
         PROVE  /\ write'[d].pc = write[d].pc
                /\ write[d] = NoWrite => write'[d] = NoWrite
                /\ write[d] # NoWrite => write'[d].number = write[d].number
                /\ write[d] # NoWrite => write'[d].awaits \subseteq write[d].awaits
    <3> DEFINE S == Settled(Refetched(w))
    <3>1. /\ S[d].pc = write[d].pc /\ (S[d] = NoWrite <=> write[d] = NoWrite)
          /\ (write[d] # NoWrite =>
                /\ S[d].number = write[d].number
                /\ S[d].awaits = IF write[d].pc = "waits" THEN write[d].awaits \ Refetched(w)
                                                         ELSE write[d].awaits)
      BY <1>a, SettledFits
    <3>2. write'[d] = S[d]
      BY <2>8, <2>8a
    <3> HIDE DEF S
    <3> QED  BY <3>1, <3>2
  <2>9. InViewTypes'
    <3>1. /\ owed' \in [watched -> 0..written] /\ must' \in [watched -> 0..written]
          /\ \A q \in watched : must'[q] <= owed'[q]
      BY <2>1, <2>6
    <3>2. \A q \in watched : entry'[q].data \in -1..written /\ fetch'[q].data \in 0..written
      BY <1>a, <2>4, <2>5 DEF InViewTypes
    <3> QED  BY <1>a, <2>1, <2>4, <2>5, <2>8, <3>1, <3>2 DEF InViewTypes
  <2>10. WaitsForSome'
    <3> SUFFICES ASSUME NEW d \in Clicks, write'[d] # NoWrite
                 PROVE  /\ write'[d].awaits \subseteq watched
                        /\ write'[d].pc # "waits" => write'[d].awaits = {}
                        /\ \A r \in write'[d].awaits : fetch'[r].pc \in {"sent", "read"}
      BY <2>1 DEF WaitsForSome
    <3>1. CASE d = c
      <4>1. write'[c] = waiting
        BY <2>8, <3>1
      <4> QED  BY <2>2, <2>3, <2>5, <2>7, <3>1, <4>1
    <3>2. CASE d # c
      <4>1. /\ write[d] # NoWrite /\ write'[d].pc = write[d].pc
            /\ write'[d].awaits \subseteq write[d].awaits
        BY <2>8a, <3>2
      <4>2. /\ write[d].awaits \subseteq watched
            /\ write[d].pc # "waits" => write[d].awaits = {}
            /\ \A r \in write[d].awaits : fetch[r].pc \in {"sent", "read"}
        BY <1>a, <4>1 DEF WaitsForSome
      <4>3. \A r \in watched : fetch[r].pc \in {"sent", "read"} => fetch'[r].pc \in {"sent", "read"}
        BY <2>5
      <4> QED  BY <4>1, <4>2, <4>3
    <3> QED  BY <3>1, <3>2
  <2>11. \A d \in Clicks : write'[d].pc \in {"sent", "applied"} =>
             /\ d # c /\ write[d] # NoWrite /\ write'[d].pc = write[d].pc
             /\ write'[d].number = write[d].number
    <3> SUFFICES ASSUME NEW d \in Clicks, write'[d].pc \in {"sent", "applied"}
                 PROVE  /\ d # c /\ write[d] # NoWrite /\ write'[d].pc = write[d].pc
                        /\ write'[d].number = write[d].number
      OBVIOUS
    <3>1. d # c
      BY <2>7, <2>8, Shapes
    <3> QED  BY <2>8a, <3>1, Shapes
  <2>12. WritesFit'
    BY <1>a, <2>1, <2>11, WritesFitKeeps
  <2>13. DutyKept'
    <3>1. Mounted' = Mounted /\ Mounted \subseteq watched
      BY <2>1, <2>4, SameScreen, MeOnScreen
    <3>2. \A d \in Clicks : write'[d].pc = "applied" => write'[d].number <= written'
      BY <1>a, <2>1, <2>11 DEF DutyKept
    <3>3. ASSUME NEW q \in watched
          PROVE  entry'[q].data >= must'[q] \/ entry'[q].data = -1 \/ entry'[q].due
      BY <1>a, <2>4, <2>6, <3>3 DEF DutyKept
    <3>4. ASSUME NEW q \in watched, fetch'[q].pc = "read"
          PROVE  fetch'[q].data >= must'[q]
      <4>1. q \notin Refetched(w) /\ fetch'[q] = fetch[q]
        BY <2>5, <3>4
      <4>2. q \in Matched(w) => TooEarly(q)
        BY <2>3, <3>4, <4>1 DEF TooEarly
      <4>3. must'[q] = must[q]
        BY <2>6, <4>2
      <4> QED  BY <1>a, <3>4, <4>1, <4>3 DEF DutyKept
    <3>5. OwnChangesShown'
      <4> SUFFICES ASSUME NEW q \in Mounted, fetch'[q].pc = "idle"
                   PROVE  entry'[q].data >= must'[q]
        BY <3>1 DEF OwnChangesShown
      <4>1. q \in watched /\ q \notin Refetched(w) /\ fetch'[q] = fetch[q]
        BY <2>5, <3>1
      <4>2. q \notin Matched(w)
        BY <2>3, <4>1
      <4>3. must'[q] = must[q] /\ entry'[q].data = entry[q].data
        BY <2>4, <2>6, <4>1, <4>2
      <4> QED  BY <1>a, <4>1, <4>3 DEF DutyKept, OwnChangesShown
    <3> QED  BY <2>1, <3>2, <3>3, <3>4, <3>5 DEF DutyKept
  <2> QED  BY <2>9, <2>10, <2>12, <2>13 DEF ViewsInv
<1>17. CASE UNCHANGED viewVars
  <2>1. UNCHANGED <<watched, written, viewer, page, entry, fetch, write, owed, must>>
    BY <1>17 DEF viewVars
  <2>2. WaitsForSome' /\ WritesFit'
    BY <1>a, <2>1 DEF WaitsForSome, WritesFit, Sending
  <2> QED  BY <1>a, <2>1, <2>2, WriteStarts DEF InViewTypes, DutyKept
<1> QED
  BY <1>2, <1>3, <1>4, <1>5, <1>6, <1>7, <1>8, <1>9, <1>10, <1>11, <1>12, <1>13, <1>14, <1>15,
     <1>16, <1>17 DEF ViewsNext, QueryStep, WriteStep

-----------------------------------------------------------------------------
(* What follows, in every behaviour.                                       *)

LEMMA ViewsHold == ViewsInv => ViewsTypeOK /\ OwnChangesShown
<1> SUFFICES ASSUME ViewsInv PROVE ViewsTypeOK /\ OwnChangesShown
  OBVIOUS
<1>1. InViewTypes /\ WaitsForSome /\ WritesFit /\ OwnChangesShown
  BY DEF ViewsInv, DutyKept
<1>2. watched \subseteq Queries /\ written \in 0..MaxWrites[watched]
  BY <1>1, BoundOfWrites, FS_CardinalityType DEF WritesFit, InViewTypes
<1>3. /\ viewer \in {"nobody", "super", "staff"} /\ page \in {"login"} \union DOMAIN Pages
      /\ (page = "login") = (viewer = "nobody")
  BY <1>1 DEF InViewTypes, Accounts
<1>4. ASSUME NEW q \in watched
      PROVE  /\ entry[q].data \in -1..written /\ entry[q].due \in BOOLEAN
             /\ fetch[q].pc \in {"idle", "sent", "read", "failed"} /\ fetch[q].data \in 0..written
             /\ owed[q] \in 0..written /\ must[q] \in 0..owed[q]
  <2>1. entry[q] \in Entry /\ fetch[q] \in Asked
    BY <1>1 DEF InViewTypes
  <2>2. /\ entry[q].data \in -1..written /\ fetch[q].data \in 0..written
        /\ owed[q] \in 0..written /\ must[q] \in 0..owed[q]
    BY <1>1 DEF InViewTypes
  <2>3. entry[q].due \in BOOLEAN
    BY <2>1 DEF Entry
  <2>4. fetch[q].pc \in {"idle", "sent", "read", "failed"}
    BY <2>1 DEF Asked
  <2> QED  BY <2>2, <2>3, <2>4
<1>5. ASSUME NEW c \in Clicks, write[c] # NoWrite
      PROVE  /\ write[c].pc \in {"sent", "applied", "waits"} /\ write[c].what \in Writes
             /\ \A q \in write[c].awaits : InFlight(q)
  <2>1. write[c] \in Started
    BY <1>1, <1>5 DEF InViewTypes
  <2>2. write[c].pc \in {"sent", "applied", "waits"} /\ write[c].what \in Writes
    BY <2>1 DEF Started
  <2>3. \A q \in write[c].awaits : InFlight(q)
    BY <1>1, <1>5 DEF WaitsForSome, InFlight
  <2> QED  BY <2>2, <2>3
<1>6. \A c \in Clicks :
          \/ write[c] = NoWrite
          \/ /\ write[c].pc \in {"sent", "applied", "waits"} /\ write[c].what \in Writes
             /\ \A q \in write[c].awaits : InFlight(q)
  BY <1>5
<1>7. ViewsTypeOK
  BY <1>2, <1>3, <1>4, <1>6 DEF ViewsTypeOK
<1> QED  BY <1>1, <1>7

\* For any set of queries followed, and any number of writes: the cache, the
\* requests and the writes keep their types, nothing is newer than the writes
\* the API applied, and a button waits only for requests in flight.
THEOREM ViewsTypeCorrect == ViewsSpec => []ViewsTypeOK
<1>1. ViewsInv => ViewsTypeOK
  BY ViewsHold
<1> QED  BY <1>1, ViewsStart, ViewsStep, PTL DEF ViewsSpec

\* For any set of queries followed, any number of writes in flight and any
\* overlap: a page at rest shows the writes of its tab that the keys of their
\* buttons reach, but for an answer TooEarly, and those the keys miss (`misses`
\* lists them; KeysReach proves that there is no other) once they have been
\* asked for again.
THEOREM WritesAreShown == ViewsSpec => []OwnChangesShown
<1>1. ViewsInv => OwnChangesShown
  BY ViewsHold
<1> QED  BY <1>1, ViewsStart, ViewsStep, PTL DEF ViewsSpec

\* The session and the cache of MCDashboard each behave as their own
\* specification says, so that what is proved of each holds there.
LEMMA EachPartRunsAlone == DashboardSpec => Spec /\ ViewsSpec
<1>1. DashboardInit => Init /\ ViewsInit
  BY DEF DashboardInit
<1>2. [DashboardNext]_dashboard => [Next]_vars
  BY DEF DashboardNext, dashboard
<1>3. [DashboardNext]_dashboard => [ViewsNext]_viewVars
  BY DEF DashboardNext, dashboard
<1> QED  BY <1>1, <1>2, <1>3, PTL DEF DashboardSpec, Spec, ViewsSpec

\* The store and the refreshes of the session, the cache, the requests and the
\* writes of the pages keep their types in the composed system.
THEOREM DashboardTypeCorrect == DashboardSpec => []DashboardTypeOK
<1>1. ClientTypeOK /\ ViewsTypeOK => DashboardTypeOK
  BY DEF DashboardTypeOK
<1> QED  BY <1>1, EachPartRunsAlone, ClientTypeCorrect, ViewsTypeCorrect, PTL

\* What the session and the pages promise, side by side: at rest the page holds
\* a refresh token the server accepts and presents none twice, and it shows of
\* its own writes what WritesAreShown says.
THEOREM DashboardPromises ==
    DashboardSpec => [](SessionInStep /\ OwnChangesShown) /\ PresentedOnce
  BY EachPartRunsAlone, PageInStep, TokensPresentedOnce, WritesAreShown, PTL
=============================================================================

----------------------------- MODULE Establishments -----------------------------
(***************************************************************************)
(* The establishments as universities.routes.ts keeps them: creation with  *)
(* a site code drawn from a count, and the address of the logo with the    *)
(* object behind it, which public.routes.ts serves.                        *)
(*                                                                         *)
(* An `await` ends a step, and a request that its first read refuses       *)
(* changes nothing and is not an action.  A site code is its prefix (two   *)
(* digits of the postal code) and its number.  Names, colours, sector,     *)
(* authMode, addresses and persons to contact are written by one statement *)
(* each and left out.                                                      *)
(***************************************************************************)
EXTENDS Tenancy

CONSTANTS
    Domains,     \* unique in the table
    Prefixes     \* of postal codes

VARIABLES
    site,        \* site[e]: the University row e, NoSite before it is created
    objects,     \* establishments whose object branding/<id>/logo is in the bucket
    task,        \* task[h]: the request handler h is processing
    published,   \* history: establishments whose row has shown the logo's own address
    rivals       \* history: creations that drew their number beside another one

siteVars == <<site, objects, task, published, rivals>>

\* number 0: created without postal code.  logo "own": the public route.
Site      == [domain : Domains, prefix : Prefixes \union {None}, number : Nat,
              logo : {"none", "own", "external"}, isActive : BOOLEAN]
NoSite    == [domain |-> None]

NoTask == [pc |-> "idle"]
Task   ==
         [pc : {"count"}, site : Universities, domain : Domains, prefix : Prefixes]
  \union [pc : {"create"}, site : Universities, domain : Domains,
          prefix : Prefixes \union {None}, number : Nat]
  \union [pc : {"put", "record"}, site : Universities]

SitesTypeOK ==
    /\ site \in [Universities -> Site \union {NoSite}]
    /\ objects \subseteq Universities
    /\ task \in [Handlers -> Task \union {NoTask}]
    /\ published \subseteq Universities
    /\ rivals \subseteq Universities

SitesInit ==
    /\ site = [e \in Universities |-> NoSite]
    /\ objects = {}
    /\ task = [h \in Handlers |-> NoTask]
    /\ published = {} /\ rivals = {}

Opened(e)      == site[e] # NoSite
Sites          == {e \in Universities : Opened(e)}
Resting(h)     == task[h] = NoTask
Doing(h, pc)   == task[h].pc = pc
Proceed(h, t)  == task' = [task EXCEPT ![h] = t]
Finish(h)      == task' = [task EXCEPT ![h] = NoTask]
RowsUnchanged  == UNCHANGED <<site, objects>>
HistoryUnchanged == UNCHANGED <<published, rivals>>

-----------------------------------------------------------------------------
(* POST /: look for the domain, count the establishments, INSERT.          *)

Coming(e) == \E h \in Handlers : task[h].pc \in {"count", "create"} /\ task[h].site = e

CreateReads(h, e, d, p) ==
    /\ Resting(h) /\ ~Opened(e) /\ ~Coming(e)
    /\ \A f \in Sites : site[f].domain # d
    /\ Proceed(h, IF p = None
                    THEN [pc |-> "create", site |-> e, domain |-> d, prefix |-> None, number |-> 0]
                    ELSE [pc |-> "count", site |-> e, domain |-> d, prefix |-> p])
    /\ RowsUnchanged /\ HistoryUnchanged

\* Fault: only the establishments of the same department are counted.
NextNumberByPrefix(p) == Cardinality({e \in Sites : site[e].prefix = p}) + 1

NextNumber(p) == Cardinality(Sites) + 1

\* Every creation that has drawn a number, and whose row is not there yet.
Drawing == {g \in Handlers : task[g].pc = "create" /\ task[g].number # 0}

CreateCounts(h) ==
    LET t == task[h] IN
    /\ Doing(h, "count")
    /\ Proceed(h, [pc |-> "create", site |-> t.site, domain |-> t.domain,
                   prefix |-> t.prefix, number |-> NextNumber(t.prefix)])
    /\ rivals' = rivals \union
         (IF Drawing = {} THEN {} ELSE {t.site} \union {task[g].site : g \in Drawing})
    /\ RowsUnchanged /\ UNCHANGED published

\* siteCode is unique in the table.
CodeFree(p, n) ==
    n # 0 => \A f \in Sites : site[f].number = n => site[f].prefix # p

\* The body may carry the address of a logo: not the establishment's own, which
\* has no id yet.
CreateInserts(h, l) ==
    LET t == task[h] IN
    /\ Doing(h, "create")
    /\ \A f \in Sites : site[f].domain # t.domain
    /\ CodeFree(t.prefix, t.number)
    /\ site' = [site EXCEPT ![t.site] =
          [domain |-> t.domain, prefix |-> t.prefix, number |-> t.number,
           logo |-> l, isActive |-> TRUE]]
    /\ Finish(h)
    /\ UNCHANGED objects /\ HistoryUnchanged

\* DELETE /:id keeps the row.
Deactivate(e) ==
    /\ Opened(e)
    /\ site' = [site EXCEPT ![e].isActive = FALSE]
    /\ UNCHANGED <<objects, task>> /\ HistoryUnchanged

-----------------------------------------------------------------------------
(* The logo.                                                               *)

\* PUT /:id with a logoUrl: somebody else's address, or an address that the
\* form once read from the row.
PutLogo(e, l) ==
    /\ Opened(e)
    /\ l = "own" => e \in published
    /\ site' = [site EXCEPT ![e].logo = l]
    /\ UNCHANGED <<objects, task>> /\ HistoryUnchanged

UploadStarts(h, e) ==
    /\ Resting(h) /\ Opened(e)
    /\ Proceed(h, [pc |-> "put", site |-> e])
    /\ RowsUnchanged /\ HistoryUnchanged

\* Fault: the bucket's error is not awaited.
UploadPutsOrNot(h) ==
    /\ Doing(h, "put")
    /\ objects' \in {objects, objects \union {task[h].site}}
    /\ Proceed(h, [task[h] EXCEPT !.pc = "record"])
    /\ UNCHANGED site /\ HistoryUnchanged

UploadPuts(h) ==
    /\ Doing(h, "put")
    /\ objects' = objects \union {task[h].site}
    /\ Proceed(h, [task[h] EXCEPT !.pc = "record"])
    /\ UNCHANGED site /\ HistoryUnchanged

UploadRecords(h) ==
    LET e == task[h].site IN
    /\ Doing(h, "record") /\ Opened(e)
    /\ site' = [site EXCEPT ![e].logo = "own"]
    /\ published' = published \union {e}
    /\ Finish(h)
    /\ UNCHANGED <<objects, rivals>>

\* A unique index or a missing row, an error of Postgres or MinIO, or the
\* instance stops.
Abandon(h) ==
    /\ ~Resting(h)
    /\ Finish(h)
    /\ RowsUnchanged /\ HistoryUnchanged

-----------------------------------------------------------------------------
TaskStep(h) ==
    \/ CreateCounts(h)
    \/ \E l \in {"none", "external"} : CreateInserts(h, l)
    \/ UploadPuts(h) \/ UploadRecords(h)
    \/ Abandon(h)

TaskStarts(h) ==
    \E e \in Universities :
        \/ \E d \in Domains, p \in Prefixes \union {None} : CreateReads(h, e, d, p)
        \/ UploadStarts(h, e)

SitesNext ==
    \/ \E h \in Handlers : TaskStarts(h) \/ TaskStep(h)
    \/ \E e \in Universities :
        \/ Deactivate(e)
        \/ \E l \in {"own", "external"} : PutLogo(e, l)

SitesSpec == SitesInit /\ [][SitesNext]_siteVars

-----------------------------------------------------------------------------
(* Properties                                                              *)

\* "Numero de site: prefixe code postal (2 chiffres) + compteur global"
\* (universities.routes.ts:105): the numbers of two establishments differ
\* unless their creations drew them side by side, and the codes always do,
\* for all that creations without a postal code, refusals and deactivations
\* happen in between.
SiteNumbersDiffer ==
    \A e, f \in Sites : e # f /\ site[e].number # 0 /\ site[e].number = site[f].number =>
        {e, f} \subseteq rivals /\ site[e].prefix # site[f].prefix

\* An establishment whose row names the public address of its logo has the
\* image, whatever uploads, refusals and old forms it took to get there.
LogoIsServed == \A e \in Sites : site[e].logo = "own" => e \in objects
=============================================================================

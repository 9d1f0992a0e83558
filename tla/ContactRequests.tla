---------------------------- MODULE ContactRequests ----------------------------
(***************************************************************************)
(* The contact form of the public site (contact.html), the handler behind  *)
(* it (contact.service.ts: INSERT, then a best-effort mail) and the flag   *)
(* the super admin sets.  The page sends one request at a time and keeps   *)
(* what was typed until the API answers with a success; the network may    *)
(* lose the request or the answer.                                         *)
(***************************************************************************)
EXTENDS Tenancy

CONSTANTS
    Visitors,   \* pages of the public site, each with one message to send
    MaxFiled    \* bound: rows of one message

ASSUME FiledAssumption == MaxFiled \in Nat /\ None \notin Visitors

VARIABLES
    page,      \* page[v]: what the visitor's page is doing
    visit,     \* visit[h]: the request handler h is processing
    filed,     \* filed[v]: ContactRequest rows that hold the message of v
    handled,   \* messages whose rows are flagged
    unheard    \* history: visitors whose answer was lost after the INSERT

enquiryVars == <<page, visit, filed, handled, unheard>>

\* heard: the page still waits for the answer.
NoVisit == [pc |-> "idle", visitor |-> None, heard |-> FALSE]
Visit   == [pc : {"insert", "notify"}, visitor : Visitors, heard : BOOLEAN]

EnquiriesTypeOK ==
    /\ page \in [Visitors -> {"writing", "posted", "waiting", "thanked"}]
    /\ visit \in [Handlers -> Visit \union {NoVisit}]
    /\ filed \in [Visitors -> 0..MaxFiled]
    /\ handled \subseteq Visitors
    /\ unheard \subseteq Visitors

EnquiriesInit ==
    /\ page = [v \in Visitors |-> "writing"]
    /\ visit = [h \in Handlers |-> NoVisit]
    /\ filed = [v \in Visitors |-> 0]
    /\ handled = {} /\ unheard = {}

Turn(v, what) == page' = [page EXCEPT ![v] = what]

Leave(h)   == visit' = [visit EXCEPT ![h] = NoVisit]
Serving(v) == {h \in Handlers : visit[h].visitor = v}

\* The answer of h, if anybody waits for it.
Hear(h, what) ==
    page' = IF visit[h].heard THEN [page EXCEPT ![visit[h].visitor] = what] ELSE page

\* submit: the button is disabled until the answer.
Submit(v) ==
    /\ page[v] = "writing" /\ filed[v] + Cardinality(Serving(v)) < MaxFiled
    /\ Turn(v, "posted")
    /\ UNCHANGED <<visit, filed, handled, unheard>>

\* postContact
Arrives(h, v) ==
    /\ page[v] = "posted" /\ visit[h] = NoVisit
    /\ visit' = [visit EXCEPT ![h] = [pc |-> "insert", visitor |-> v, heard |-> TRUE]]
    /\ Turn(v, "waiting")
    /\ UNCHANGED <<filed, handled, unheard>>

\* Fault: the INSERT is not awaited.
StoresOrNot(h) ==
    LET v == visit[h].visitor IN
    /\ visit[h].pc = "insert"
    /\ filed' \in {filed, [filed EXCEPT ![v] = @ + 1]}
    /\ visit' = [visit EXCEPT ![h].pc = "notify"]
    /\ UNCHANGED <<page, handled, unheard>>

Stores(h) ==
    LET v == visit[h].visitor IN
    /\ visit[h].pc = "insert"
    /\ filed' = [filed EXCEPT ![v] = @ + 1]
    /\ visit' = [visit EXCEPT ![h].pc = "notify"]
    /\ UNCHANGED <<page, handled, unheard>>

\* Mail sent, refused or not configured: the visitor is thanked.
Notifies(h) ==
    /\ visit[h].pc = "notify"
    /\ Hear(h, "thanked")
    /\ Leave(h)
    /\ UNCHANGED <<filed, handled, unheard>>

\* Postgres fails before the INSERT: the page shows the error.
Fails(h) ==
    /\ visit[h].pc = "insert"
    /\ Hear(h, "writing")
    /\ Leave(h)
    /\ UNCHANGED <<filed, handled, unheard>>

\* The request is lost on its way.
RequestLost(v) ==
    /\ page[v] = "posted"
    /\ Turn(v, "writing")
    /\ UNCHANGED <<visit, filed, handled, unheard>>

\* The connection breaks while the API works; the handler goes on, or stops
\* with its instance.
AnswerLost(h) ==
    LET v == visit[h].visitor IN
    /\ visit[h].heard
    /\ Turn(v, "writing")
    /\ unheard' = unheard \union {v}
    /\ visit' \in {[visit EXCEPT ![h].heard = FALSE], [visit EXCEPT ![h] = NoVisit]}
    /\ UNCHANGED <<filed, handled>>

\* markContactHandled
MarkHandled(v, done) ==
    /\ filed[v] > 0
    /\ handled' = IF done THEN handled \union {v} ELSE handled \ {v}
    /\ UNCHANGED <<page, visit, filed, unheard>>

EnquiriesNext ==
    \/ \E v \in Visitors :
        \/ Submit(v) \/ RequestLost(v)
        \/ \E h \in Handlers : Arrives(h, v)
        \/ \E done \in BOOLEAN : MarkHandled(v, done)
    \/ \E h \in Handlers : Stores(h) \/ Notifies(h) \/ Fails(h) \/ AnswerLost(h)

EnquiriesSpec == EnquiriesInit /\ [][EnquiriesNext]_enquiryVars

-----------------------------------------------------------------------------
(* Properties                                                              *)

\* A visitor who is thanked has the message on file, and one who is asked to
\* try again does not - the mail being best effort, "ne bloque jamais la
\* reponse au visiteur" - so that trying again files it once.  Excepted is a
\* visitor whose connection broke while the API was at work.
FiledOnceThanked ==
    \A v \in Visitors :
        /\ page[v] = "thanked" => filed[v] > 0
        /\ v \notin unheard => filed[v] <= 1
        /\ v \notin unheard /\ page[v] = "writing" => filed[v] = 0
=============================================================================

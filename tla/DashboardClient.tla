--------------------------- MODULE DashboardClient ---------------------------
(***************************************************************************)
(* One page of the dashboard and the session it holds: the axios instance  *)
(* of api/client.ts with its request and response interceptors, the        *)
(* Zustand store, the login and logout of the pages, and the server's      *)
(* rotation of refresh tokens (each server handler is one step here;       *)
(* AdminAuth models how they interleave).  A request whose own answer can  *)
(* be 401 for another reason than the token (a wrong password) is of kind  *)
(* "badLogin".                                                             *)
(*                                                                         *)
(* JavaScript runs to completion: what follows a settled promise up to the *)
(* next network call is one step, for every request that awaited it.       *)
(* Pairs of tokens are numbered in the order the server issues them; 0 is  *)
(* no token.  sessionStorage always holds the refresh token of the store.  *)
(***************************************************************************)
EXTENDS Integers, FiniteSets

CONSTANTS
    Requests,   \* requests the page can have outstanding
    MaxPairs    \* bound: pairs of tokens issued

ASSUME MaxPairsAssumption == MaxPairs \in Nat

VARIABLES
    \* the server
    issued,      \* pairs issued so far
    live,        \* refresh tokens in the whitelist
    valid,       \* access tokens that have not expired
    active,      \* the account is not blocked
    \* the page
    access,      \* access token of the store
    refresh,     \* refresh token of the store and of sessionStorage
    refreshing,  \* the variable of client.ts: no promise, a pending one, or one settled with null
    calls,       \* POST /auth/refresh in flight: the token sent, and the reply
    req,         \* req[r]: a request made through the axios instance
    \* history
    presented,   \* refresh tokens sent by this page
    ended,       \* refresh tokens the server let expire or refused
    torn         \* the page was loaded again while a refresh or a logout was in flight

server  == <<issued, live, valid, active>>
store   == <<access, refresh>>
history == <<presented, ended, torn>>
vars    == <<server, store, refreshing, calls, req, history>>

Pairs == 1..MaxPairs
NoRequest == [pc |-> "idle", kind |-> "none", access |-> 0, retried |-> FALSE]
Request == [pc : {"sent", "waiting"}, kind : {"api", "login", "badLogin", "logout"},
            access : Pairs \union {0}, retried : BOOLEAN]

\* reply: "none" while the server has not answered, then "refused" or the pair.
Call == [by : Requests, token : Pairs, reply : {"none", "refused", "pair"}, pair : Pairs \union {0}]

ClientTypeOK ==
    /\ issued \in 0..MaxPairs
    /\ live \subseteq 1..issued /\ valid \subseteq 1..issued
    /\ active \in BOOLEAN
    /\ access \in 0..issued /\ refresh \in 0..issued
    /\ refreshing \in {"none", "pending", "null"}
    /\ calls \subseteq Call
    /\ req \in [Requests -> Request \union {NoRequest}]
    /\ presented \subseteq Pairs /\ ended \subseteq Pairs
    /\ torn \in BOOLEAN

Init ==
    /\ issued = 0 /\ live = {} /\ valid = {} /\ active = TRUE
    /\ access = 0 /\ refresh = 0
    /\ refreshing = "none"
    /\ calls = {}
    /\ req = [r \in Requests |-> NoRequest]
    /\ presented = {} /\ ended = {} /\ torn = FALSE

-----------------------------------------------------------------------------
(* Requests of the page.  The request interceptor writes the store's       *)
(* access token in the header; POST /auth/logout carries the refresh token *)
(* of the page, kept in the field access here.                             *)

Send(r, kind) ==
    /\ req[r] = NoRequest
    /\ kind = "logout" => refresh # 0
    /\ req' = [req EXCEPT ![r] =
          [pc |-> "sent", kind |-> kind, retried |-> FALSE,
           access |-> IF kind = "logout" THEN refresh ELSE access]]
    /\ UNCHANGED <<server, store, refreshing, calls, history>>

Unauthorized(r) ==
    /\ req[r].pc = "sent"
    /\ \/ req[r].kind = "api" /\ req[r].access \notin valid
       \/ req[r].kind = "badLogin"
       \/ req[r].kind = "login" /\ ~active

\* 200, or an error that is not 401: the caller gets it.
Succeeds(r) ==
    /\ req[r].pc = "sent" /\ req[r].kind = "api" /\ ~Unauthorized(r)
    /\ req' = [req EXCEPT ![r] = NoRequest]
    /\ UNCHANGED <<server, store, refreshing, calls, history>>

\* The login page stores the pair of the answer.
LogsIn(r) ==
    /\ req[r].pc = "sent" /\ req[r].kind = "login" /\ active
    /\ issued < MaxPairs
    /\ issued' = issued + 1
    /\ live' = live \union {issued'} /\ valid' = valid \union {issued'}
    /\ access' = issued' /\ refresh' = issued'
    /\ req' = [req EXCEPT ![r] = NoRequest]
    /\ UNCHANGED <<active, refreshing, calls, history>>

\* onLogout: the whitelist entry goes, then the store is emptied whatever the
\* server said.
LogsOut(r) ==
    /\ req[r].pc = "sent" /\ req[r].kind = "logout"
    /\ \/ live' = live \ {req[r].access}
       \/ UNCHANGED live
    /\ access' = 0 /\ refresh' = 0
    /\ req' = [req EXCEPT ![r] = NoRequest]
    /\ UNCHANGED <<issued, valid, active, refreshing, calls, history>>

-----------------------------------------------------------------------------
(* The response interceptor, on a 401.                                     *)

\* Fault: the refresh token is not looked at before the call.
StartsRefreshAny(r) ==
    /\ Unauthorized(r) /\ ~req[r].retried
    /\ refreshing = "none"
    /\ refreshing' = "pending"
    /\ calls' = calls \union {[by |-> r, token |-> refresh, reply |-> "none", pair |-> 0]}
    /\ presented' = presented \union {refresh}
    /\ req' = [req EXCEPT ![r].pc = "waiting", ![r].retried = TRUE]
    /\ UNCHANGED <<server, store, ended, torn>>

\* Fault: a request that meets a 401 starts a refresh of its own.
StartsRefreshEach(r) ==
    /\ Unauthorized(r) /\ ~req[r].retried /\ refresh # 0
    /\ refreshing' = "pending"
    /\ calls' = calls \union {[by |-> r, token |-> refresh, reply |-> "none", pair |-> 0]}
    /\ presented' = presented \union {refresh}
    /\ req' = [req EXCEPT ![r].pc = "waiting", ![r].retried = TRUE]
    /\ UNCHANGED <<server, store, ended, torn>>

\* The first 401 starts the refresh.
StartsRefresh(r) ==
    /\ Unauthorized(r) /\ ~req[r].retried
    /\ refreshing = "none" /\ refresh # 0
    /\ refreshing' = "pending"
    /\ calls' = calls \union {[by |-> r, token |-> refresh, reply |-> "none", pair |-> 0]}
    /\ presented' = presented \union {refresh}
    /\ req' = [req EXCEPT ![r].pc = "waiting", ![r].retried = TRUE]
    /\ UNCHANGED <<server, store, ended, torn>>

\* Others wait for the one in flight.
JoinsRefresh(r) ==
    /\ Unauthorized(r) /\ ~req[r].retried /\ refreshing = "pending"
    /\ req' = [req EXCEPT ![r].pc = "waiting", ![r].retried = TRUE]
    /\ UNCHANGED <<server, store, refreshing, calls, history>>

\* No refresh token: the function returns null before its `try`, and with it
\* before the `finally` that would clear the variable.
FindsNoToken(r) ==
    /\ Unauthorized(r) /\ ~req[r].retried
    /\ refreshing = "none" /\ refresh = 0
    /\ refreshing' = "null"
    /\ req' = [req EXCEPT ![r] = NoRequest]
    /\ UNCHANGED <<server, store, calls, history>>

\* The caller gets the 401: a second one, or the promise in place gave null.
GivesUp(r) ==
    /\ Unauthorized(r)
    /\ req[r].retried \/ refreshing = "null"
    /\ req' = [req EXCEPT ![r] = NoRequest]
    /\ UNCHANGED <<server, store, refreshing, calls, history>>

\* Network error or timeout: there is no status, the caller gets the error.
Breaks(r) ==
    /\ req[r].pc = "sent" /\ req[r].kind # "logout"
    /\ req' = [req EXCEPT ![r] = NoRequest]
    /\ UNCHANGED <<server, store, refreshing, calls, history>>

-----------------------------------------------------------------------------
(* POST /auth/refresh.                                                     *)

Reply(c, reply, pair) ==
    calls' = (calls \ {c}) \union {[c EXCEPT !.reply = reply, !.pair = pair]}

Rotates(c) ==
    /\ c.reply = "none" /\ c.token \in live /\ active
    /\ issued < MaxPairs
    /\ issued' = issued + 1
    /\ live' = (live \ {c.token}) \union {issued'}
    /\ valid' = valid \union {issued'}
    /\ Reply(c, "pair", issued')
    /\ UNCHANGED <<active, store, refreshing, req, history>>

\* Token unknown, or account blocked: then the token is already deleted.
Refuses(c) ==
    /\ c.reply = "none"
    /\ c.token \notin live \/ ~active
    /\ live' = live \ {c.token}
    /\ ended' = ended \union {c.token}
    /\ Reply(c, "refused", 0)
    /\ UNCHANGED <<issued, valid, active, store, refreshing, req, presented, torn>>

Waiting == {r \in Requests : req[r].pc = "waiting"}

Resend(rs, n) ==
    req' = [r \in Requests |->
              IF r \in rs THEN [req[r] EXCEPT !.pc = "sent", !.access = n] ELSE req[r]]

\* Fault: the store keeps the refresh token it has.
SettlesAccessOnly(c) ==
    /\ c.reply = "pair"
    /\ access' = c.pair
    /\ refreshing' = "none"
    /\ calls' = calls \ {c}
    /\ Resend(Waiting, c.pair)
    /\ UNCHANGED <<server, refresh, history>>

\* Fault: only the request that started the refresh is sent again.
SettlesFirst(c) ==
    /\ c.reply = "pair"
    /\ access' = c.pair /\ refresh' = c.pair
    /\ refreshing' = "none"
    /\ calls' = calls \ {c}
    /\ Resend({c.by}, c.pair)
    /\ UNCHANGED <<server, history>>

\* setTokens, the `finally`, and every waiting request is sent again.
Settles(c) ==
    /\ c.reply = "pair"
    /\ access' = c.pair /\ refresh' = c.pair
    /\ refreshing' = "none"
    /\ calls' = calls \ {c}
    /\ Resend(Waiting, c.pair)
    /\ UNCHANGED <<server, history>>

\* 401, network error or lost reply: logout(), and the browser loads
\* /app/login, a new page.
Fails(c) ==
    /\ access' = 0 /\ refresh' = 0
    /\ refreshing' = "none"
    /\ calls' = {}
    /\ req' = [r \in Requests |-> NoRequest]
    /\ presented' = {}
    /\ UNCHANGED <<server, ended, torn>>

-----------------------------------------------------------------------------
\* Refresh tokens the server may be deleting for a request in flight.
InTransit ==
    {c.token : c \in calls}
        \union {req[r].access : r \in {q \in Requests : req[q].kind = "logout"}}

\* The user reloads the page: memory goes, sessionStorage stays.  What was in
\* flight reached the server or not.
Reload ==
    /\ \E gone \in SUBSET InTransit : live' = live \ gone
    /\ access' = 0 /\ refreshing' = "none"
    /\ calls' = {}
    /\ req' = [r \in Requests |-> NoRequest]
    /\ presented' = {}
    /\ torn' = (torn \/ InTransit # {})
    /\ UNCHANGED <<issued, valid, active, refresh, ended>>

AccessExpires(n) ==
    /\ n \in valid
    /\ valid' = valid \ {n}
    /\ UNCHANGED <<issued, live, active, store, refreshing, calls, req, history>>

RefreshExpires(n) ==
    /\ n \in live
    /\ live' = live \ {n} /\ ended' = ended \union {n}
    /\ UNCHANGED <<issued, valid, active, store, refreshing, calls, req, presented, torn>>

BlockAccount ==
    /\ active
    /\ active' = FALSE
    /\ UNCHANGED <<issued, live, valid, store, refreshing, calls, req, history>>

-----------------------------------------------------------------------------
Kinds == {"api", "login", "badLogin", "logout"}

Answered(r) ==
    \/ Succeeds(r) \/ LogsIn(r) \/ LogsOut(r)
    \/ StartsRefresh(r) \/ JoinsRefresh(r) \/ FindsNoToken(r) \/ GivesUp(r) \/ Breaks(r)

RefreshStep == \E c \in calls : Rotates(c) \/ Refuses(c) \/ Settles(c) \/ Fails(c)

Next ==
    \/ \E r \in Requests : (\E k \in Kinds : Send(r, k)) \/ Answered(r)
    \/ RefreshStep
    \/ \E n \in Pairs : AccessExpires(n) \/ RefreshExpires(n)
    \/ Reload \/ BlockAccount

Spec == Init /\ [][Next]_vars

\* The browser ends every network call, with an answer or with an error.  The
\* user, the clock and the administrators owe nothing.
Fairness ==
    /\ \A r \in Requests : WF_vars(Answered(r))
    /\ WF_vars(RefreshStep)

-----------------------------------------------------------------------------
(* Properties                                                              *)

\* Rotation makes a refresh token worthless once it was presented, so a page
\* that meets several 401s at a time presents each token once.
PresentedOnce ==
    [][\A c \in calls' \ calls : c.reply = "none" => c.token \notin presented]_vars

\* Whatever overlaps (logins, logouts, several 401s), the refresh token a page
\* holds at rest is one the server accepts, unless the server ended it or the
\* page was reloaded in the middle of an exchange.
SessionInStep ==
    calls = {} /\ refresh # 0 /\ refresh \notin ended /\ ~torn => refresh \in live

\* Every request is answered: none waits for ever on a refresh.
RequestsEnd == \A r \in Requests : req[r].pc # "idle" ~> req[r].pc = "idle"

\* client.ts: on a 401, one refresh is tried and the request is sent again.
\* No request gives up on its first 401 while the page holds a refresh token.
RefreshTriedOn401 ==
    [][\A r \in Requests : GivesUp(r) /\ ~req[r].retried => refresh = 0]_vars
=============================================================================

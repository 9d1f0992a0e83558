------------------------- MODULE DashboardClientProofs -------------------------
(***************************************************************************)
(* Proofs about DashboardClient, for any number of requests and pairs: the *)
(* page holds a refresh token the server accepts, and presents none twice. *)
(***************************************************************************)
EXTENDS DashboardClient, TLAPS

\* Next with its choices named, so that each action is a case.
LEMMA PageActions ==
    ASSUME Next
    PROVE  \/ \E r \in Requests, k \in Kinds : Send(r, k)
           \/ \E r \in Requests : Succeeds(r) \/ GivesUp(r) \/ Breaks(r)
           \/ \E r \in Requests : LogsIn(r)
           \/ \E r \in Requests : LogsOut(r)
           \/ \E r \in Requests : StartsRefresh(r)
           \/ \E r \in Requests : JoinsRefresh(r)
           \/ \E r \in Requests : FindsNoToken(r)
           \/ \E c \in calls : Rotates(c)
           \/ \E c \in calls : Refuses(c)
           \/ \E c \in calls : Settles(c)
           \/ \E c \in calls : Fails(c)
           \/ \E n \in Pairs : AccessExpires(n)
           \/ \E n \in Pairs : RefreshExpires(n)
           \/ Reload
           \/ BlockAccount
  BY DEF Next, Answered, RefreshStep

\* A number noted by a request, a call or the page is one the server issued.
PairsKnown ==
    /\ \A c \in calls : c.pair \in 0..issued
    /\ \A r \in Requests : req[r].access \in 0..issued
    /\ presented \subseteq 1..issued

LEMMA RequestMoves ==
    ASSUME ClientTypeOK, NEW r \in Requests, req[r].pc # "idle"
    PROVE  /\ req[r] \in Request
           /\ [req[r] EXCEPT !.pc = "waiting", !.retried = TRUE] \in Request
           /\ \A n \in Pairs \union {0} : [req[r] EXCEPT !.pc = "sent", !.access = n] \in Request
  <1>1. req[r] \in Request
    BY DEF ClientTypeOK, NoRequest
  <1>2. [req[r] EXCEPT !.pc = "waiting", !.retried = TRUE] \in Request
    BY <1>1 DEF Request
  <1>3. ASSUME NEW n \in Pairs \union {0}
        PROVE  [req[r] EXCEPT !.pc = "sent", !.access = n] \in Request
    BY <1>1 DEF Request
  <1> QED  BY <1>1, <1>2, <1>3

LEMMA ClientTyped ==
    ASSUME ClientTypeOK, PairsKnown, [Next]_vars
    PROVE  ClientTypeOK'
  <1>1. CASE UNCHANGED vars
    BY <1>1 DEF vars, server, store, history, ClientTypeOK
  <1>2. ASSUME NEW r \in Requests, NEW k \in Kinds, Send(r, k)
        PROVE  ClientTypeOK'
    <2>1. [pc |-> "sent", kind |-> k, retried |-> FALSE,
           access |-> IF k = "logout" THEN refresh ELSE access] \in Request
      <3>1. access \in Pairs \union {0} /\ refresh \in Pairs \union {0}
        BY MaxPairsAssumption DEF ClientTypeOK, Pairs
      <3> QED  BY <3>1 DEF Request, Kinds
    <2> QED  BY <1>2, <2>1 DEF Send, server, store, history, ClientTypeOK
  <1>3. ASSUME NEW r \in Requests, Succeeds(r) \/ GivesUp(r) \/ Breaks(r)
        PROVE  ClientTypeOK'
    BY <1>3 DEF Succeeds, GivesUp, Breaks, server, store, history, ClientTypeOK
  <1>4. ASSUME NEW r \in Requests, LogsIn(r)
        PROVE  ClientTypeOK'
    <2>1. issued' = issued + 1 /\ issued' \in 0..MaxPairs /\ 1..issued \subseteq 1..issued'
          /\ issued' \in 1..issued'
      BY <1>4, MaxPairsAssumption DEF LogsIn, ClientTypeOK
    <2>2. live' \subseteq 1..issued' /\ valid' \subseteq 1..issued'
      BY <1>4, <2>1 DEF LogsIn, ClientTypeOK
    <2>3. access' \in 0..issued' /\ refresh' \in 0..issued'
      BY <1>4, <2>1 DEF LogsIn
    <2>4. req' \in [Requests -> Request \union {NoRequest}]
      BY <1>4 DEF LogsIn, ClientTypeOK
    <2> QED  BY <1>4, <2>1, <2>2, <2>3, <2>4 DEF LogsIn, history, ClientTypeOK
  <1>5. ASSUME NEW r \in Requests, LogsOut(r)
        PROVE  ClientTypeOK'
    <2>1. 0 \in 0..issued
      BY MaxPairsAssumption DEF ClientTypeOK
    <2>2. live' \subseteq 1..issued
      BY <1>5 DEF LogsOut, ClientTypeOK
    <2>3. req' \in [Requests -> Request \union {NoRequest}]
      BY <1>5 DEF LogsOut, ClientTypeOK
    <2> QED  BY <1>5, <2>1, <2>2, <2>3 DEF LogsOut, history, ClientTypeOK
  <1>6. ASSUME NEW r \in Requests, StartsRefresh(r)
        PROVE  ClientTypeOK'
    <2>1. refresh \in Pairs
      BY <1>6, MaxPairsAssumption DEF StartsRefresh, ClientTypeOK, Pairs
    <2>2. [by |-> r, token |-> refresh, reply |-> "none", pair |-> 0] \in Call
      BY <2>1 DEF Call
    <2>3. req' \in [Requests -> Request \union {NoRequest}]
      BY <1>6, RequestMoves DEF StartsRefresh, Unauthorized, ClientTypeOK
    <2> QED  BY <1>6, <2>1, <2>2, <2>3 DEF StartsRefresh, server, store, ClientTypeOK
  <1>7. ASSUME NEW r \in Requests, JoinsRefresh(r)
        PROVE  ClientTypeOK'
    <2>1. req' \in [Requests -> Request \union {NoRequest}]
      BY <1>7, RequestMoves DEF JoinsRefresh, Unauthorized, ClientTypeOK
    <2> QED  BY <1>7, <2>1 DEF JoinsRefresh, server, store, history, ClientTypeOK
  <1>8. ASSUME NEW r \in Requests, FindsNoToken(r)
        PROVE  ClientTypeOK'
    BY <1>8 DEF FindsNoToken, server, store, history, ClientTypeOK
  <1>9. ASSUME NEW c \in calls, Rotates(c)
        PROVE  ClientTypeOK'
    <2>1. issued' \in Pairs /\ issued' = issued + 1
      BY <1>9, MaxPairsAssumption DEF Rotates, ClientTypeOK, Pairs
    <2>2. [c EXCEPT !.reply = "pair", !.pair = issued'] \in Call
      BY <2>1 DEF Call, ClientTypeOK
    <2> QED  BY <1>9, <2>1, <2>2 DEF Rotates, Reply, store, history, ClientTypeOK, Pairs
  <1>10. ASSUME NEW c \in calls, Refuses(c)
         PROVE  ClientTypeOK'
    <2>1. [c EXCEPT !.reply = "refused", !.pair = 0] \in Call /\ c.token \in Pairs
      BY DEF Call, ClientTypeOK
    <2> QED  BY <1>10, <2>1 DEF Refuses, Reply, store, ClientTypeOK
  <1>11. ASSUME NEW c \in calls, Settles(c)
         PROVE  ClientTypeOK'
    <2>1. c.pair \in 0..issued /\ c.pair \in Pairs \union {0}
      BY DEF ClientTypeOK, PairsKnown, Call
    <2>2. \A r \in Waiting : [req[r] EXCEPT !.pc = "sent", !.access = c.pair] \in Request
      BY <2>1, RequestMoves DEF Waiting
    <2>3. req' \in [Requests -> Request \union {NoRequest}]
      BY <1>11, <2>2 DEF Settles, Resend, ClientTypeOK
    <2> QED  BY <1>11, <2>1, <2>3 DEF Settles, server, history, ClientTypeOK
  <1>12. ASSUME NEW c \in calls, Fails(c)
         PROVE  ClientTypeOK'
    BY <1>12 DEF Fails, server, ClientTypeOK
  <1>13. ASSUME \/ \E n \in Pairs : AccessExpires(n) \/ RefreshExpires(n)
                \/ BlockAccount
         PROVE  ClientTypeOK'
    BY <1>13 DEF AccessExpires, RefreshExpires, BlockAccount, store, history, ClientTypeOK
  <1>14. CASE Reload
    <2>1. 0 \in 0..issued
      BY MaxPairsAssumption DEF ClientTypeOK
    <2>2. torn' \in BOOLEAN
      BY <1>14, Zenon DEF Reload
    <2>3. live' \subseteq 1..issued
      BY <1>14 DEF Reload, ClientTypeOK
    <2> QED  BY <1>14, <2>1, <2>2, <2>3 DEF Reload, ClientTypeOK
  <1> QED  BY <1>1, <1>2, <1>3, <1>4, <1>5, <1>6, <1>7, <1>8, <1>9, <1>10, <1>11, <1>12, <1>13,
              <1>14, PageActions

\* Whatever number the page or the server has noted is one it issued.
LEMMA PairsKnownStep ==
    ASSUME ClientTypeOK, ClientTypeOK', PairsKnown, [Next]_vars
    PROVE  PairsKnown'
  <1>1. issued <= issued' /\ issued \in Nat /\ issued' \in Nat
    <2>1. issued' = issued \/ issued' = issued + 1
      BY DEF Next, Answered, RefreshStep, Send, Succeeds, LogsIn, LogsOut, StartsRefresh,
             JoinsRefresh, FindsNoToken, GivesUp, Breaks, Rotates, Refuses, Settles, Fails,
             AccessExpires, RefreshExpires, Reload, BlockAccount, vars, server
    <2> QED  BY <2>1, MaxPairsAssumption DEF ClientTypeOK
  <1>2. ASSUME UNCHANGED <<calls, presented>>, \A r \in Requests : req'[r].access \in 0..issued'
        PROVE  PairsKnown'
    BY <1>1, <1>2 DEF PairsKnown
  <1>3. \A n : n \in 0..issued => n \in 0..issued'
    BY <1>1
  <1>4. ASSUME NEW r \in Requests, NEW k \in Kinds, Send(r, k)
        PROVE  PairsKnown'
    <2>1. \A q \in Requests : req'[q].access = req[q].access
                              \/ req'[q].access = access \/ req'[q].access = refresh
      BY <1>4 DEF Send, ClientTypeOK
    <2> QED  BY <1>2, <1>3, <1>4, <2>1 DEF Send, history, PairsKnown, ClientTypeOK
  <1>5. ASSUME NEW r \in Requests,
               Succeeds(r) \/ GivesUp(r) \/ Breaks(r) \/ LogsIn(r) \/ LogsOut(r) \/ FindsNoToken(r)
        PROVE  PairsKnown'
    <2>1. req' = [req EXCEPT ![r] = NoRequest] /\ UNCHANGED <<calls, presented>>
      BY <1>5 DEF Succeeds, GivesUp, Breaks, LogsIn, LogsOut, FindsNoToken, history
    <2>2. \A q \in Requests : req'[q].access = req[q].access \/ req'[q].access = 0
      BY <2>1 DEF NoRequest, ClientTypeOK
    <2> QED  BY <1>1, <1>2, <1>3, <2>1, <2>2 DEF PairsKnown
  <1>6. ASSUME NEW r \in Requests, StartsRefresh(r) \/ JoinsRefresh(r)
        PROVE  PairsKnown'
    <2>1. \A q \in Requests : req'[q].access = req[q].access
      <3>1. req' = [req EXCEPT ![r].pc = "waiting", ![r].retried = TRUE] /\ req[r].pc = "sent"
        BY <1>6 DEF StartsRefresh, JoinsRefresh, Unauthorized
      <3>2. req[r] \in Request
        BY <3>1, RequestMoves
      <3>3. [req[r] EXCEPT !.pc = "waiting", !.retried = TRUE].access = req[r].access
        BY <3>2 DEF Request
      <3> QED  BY <3>1, <3>3 DEF ClientTypeOK
    <2>2. \A c \in calls' : c \in calls \/ c.pair = 0
      BY <1>6 DEF StartsRefresh, JoinsRefresh
    <2>3. presented' \subseteq 1..issued
      BY <1>6 DEF StartsRefresh, JoinsRefresh, history, PairsKnown, ClientTypeOK
    <2> QED  BY <1>1, <1>3, <2>1, <2>2, <2>3 DEF PairsKnown
  <1>7. ASSUME NEW c \in calls, Rotates(c) \/ Refuses(c)
        PROVE  PairsKnown'
    <2>1. \A d \in calls' : d \in calls \/ d.pair = issued' \/ d.pair = 0
      <3>1. c \in Call
        BY DEF ClientTypeOK
      <3>2. CASE Rotates(c)
        <4>1. [c EXCEPT !.reply = "pair", !.pair = issued'].pair = issued'
          BY <3>1 DEF Call
        <4> QED  BY <3>2, <4>1 DEF Rotates, Reply
      <3>3. CASE Refuses(c)
        <4>1. [c EXCEPT !.reply = "refused", !.pair = 0].pair = 0
          BY <3>1 DEF Call
        <4> QED  BY <3>3, <4>1 DEF Refuses, Reply
      <3> QED  BY <1>7, <3>2, <3>3
    <2>2. 0 \in 0..issued' /\ issued' \in 0..issued' /\ 1..issued \subseteq 1..issued'
      BY <1>1
    <2>3. UNCHANGED <<req, presented>>
      BY <1>7 DEF Rotates, Refuses, history
    <2>4. \A d \in calls' : d.pair \in 0..issued'
      BY <1>3, <2>1, <2>2 DEF PairsKnown
    <2> QED  BY <1>3, <2>2, <2>3, <2>4 DEF PairsKnown
  <1>8. ASSUME NEW c \in calls, Settles(c)
        PROVE  PairsKnown'
    <2>1. \A q \in Requests : req'[q].access = req[q].access \/ req'[q].access = c.pair
      BY <1>8, RequestMoves DEF Settles, Resend, Waiting, ClientTypeOK, Request
    <2> QED  BY <1>1, <1>3, <1>8, <2>1 DEF Settles, history, PairsKnown
  <1>9. ASSUME Reload \/ \E c \in calls : Fails(c)
        PROVE  PairsKnown'
    BY <1>1, <1>9 DEF Reload, Fails, PairsKnown, NoRequest
  <1>10. ASSUME \/ \E n \in Pairs : AccessExpires(n) \/ RefreshExpires(n)
                \/ BlockAccount
                \/ UNCHANGED vars
         PROVE  PairsKnown'
    BY <1>10 DEF AccessExpires, RefreshExpires, BlockAccount, vars, server, history, PairsKnown
  <1> QED  BY <1>4, <1>5, <1>6, <1>7, <1>8, <1>9, <1>10, PageActions

-----------------------------------------------------------------------------
(* One refresh at a time: while one is in flight the store's token is not  *)
(* presented again, and the pair it brings back is known to nobody else.   *)

Brought(c) ==
    c.reply = "pair" =>
        /\ c.pair # 0
        /\ c.pair \in live \union ended
        /\ c.pair # refresh /\ c.pair \notin presented
        /\ \A r \in Requests : req[r].kind = "logout" => req[r].access # c.pair

InStep ==
    /\ refreshing # "pending" => calls = {}
    /\ \A c, d \in calls : c = d
    /\ \A c \in calls : Brought(c)
    /\ calls = {} /\ refresh # 0 => refresh \notin presented
    /\ SessionInStep

LEMMA InStepStep ==
    ASSUME ClientTypeOK, ClientTypeOK', PairsKnown, InStep, [Next]_vars
    PROVE  InStep'
  <1>1. issued \in Nat /\ issued + 1 \notin 0..issued
    BY MaxPairsAssumption DEF ClientTypeOK
  <1>2. ASSUME NEW r \in Requests, NEW k \in Kinds, Send(r, k)
        PROVE  InStep'
    <2>1. /\ UNCHANGED <<live, ended, refresh, presented, refreshing, calls, torn>>
          /\ \A q \in Requests : req'[q] = req[q] \/ req'[q].kind # "logout"
                                 \/ req'[q].access = refresh
      BY <1>2 DEF Send, server, store, history, ClientTypeOK
    <2> QED  BY <2>1 DEF InStep, Brought, SessionInStep
  <1>3. ASSUME UNCHANGED <<live, ended, refresh, presented, calls, torn>>,
               refreshing' = refreshing \/ calls = {},
               \A q \in Requests : req'[q] = req[q] \/ req'[q].kind # "logout"
        PROVE  InStep'
    BY <1>3 DEF InStep, Brought, SessionInStep
  <1>4. ASSUME NEW r \in Requests,
               Succeeds(r) \/ GivesUp(r) \/ Breaks(r) \/ FindsNoToken(r)
        PROVE  InStep'
    <2>1. \A q \in Requests : req'[q] = req[q] \/ req'[q].kind # "logout"
      BY <1>4 DEF Succeeds, GivesUp, Breaks, FindsNoToken, ClientTypeOK, NoRequest
    <2>2. refreshing' = refreshing \/ calls = {}
      BY <1>4 DEF Succeeds, GivesUp, Breaks, FindsNoToken, InStep
    <2> QED  BY <1>3, <1>4, <2>1, <2>2 DEF Succeeds, GivesUp, Breaks, FindsNoToken, server, store,
                history
  <1>5. ASSUME NEW r \in Requests, LogsIn(r)
        PROVE  InStep'
    <2>1. /\ issued' = issued + 1 /\ live' = live \union {issued'} /\ refresh' = issued'
          /\ UNCHANGED <<refreshing, calls, ended, presented, torn>>
          /\ \A q \in Requests : req'[q] = req[q] \/ req'[q].kind # "logout"
      BY <1>5 DEF LogsIn, history, ClientTypeOK, NoRequest
    <2>2. issued' \notin presented /\ \A c \in calls : c.pair # issued'
      BY <1>1, <2>1 DEF PairsKnown
    <2> QED  BY <2>1, <2>2 DEF InStep, Brought, SessionInStep
  <1>6. ASSUME NEW r \in Requests, LogsOut(r)
        PROVE  InStep'
    <2>1. /\ live \ {req[r].access} \subseteq live' /\ refresh' = 0 /\ req[r].kind = "logout"
          /\ UNCHANGED <<refreshing, calls, ended, presented, torn>>
          /\ \A q \in Requests : req'[q] = req[q] \/ req'[q].kind # "logout"
      BY <1>6 DEF LogsOut, history, ClientTypeOK, NoRequest
    <2> QED  BY <2>1 DEF InStep, Brought, SessionInStep
  <1>7. ASSUME NEW r \in Requests, StartsRefresh(r)
        PROVE  InStep'
    <2>1. /\ calls = {} /\ refreshing' = "pending"
          /\ calls' = {[by |-> r, token |-> refresh, reply |-> "none", pair |-> 0]}
      BY <1>7 DEF StartsRefresh, InStep
    <2>2. \A d, e \in calls' : d = e /\ d.reply = "none"
      BY <2>1
    <2>3. calls' # {}
      BY <2>1
    <2> QED  BY <2>1, <2>2, <2>3 DEF InStep, Brought, SessionInStep
  <1>8. ASSUME NEW r \in Requests, JoinsRefresh(r)
        PROVE  InStep'
    <2>1. req' = [req EXCEPT ![r].pc = "waiting", ![r].retried = TRUE] /\ req[r].pc = "sent"
          /\ req[r].kind # "logout"
      BY <1>8 DEF JoinsRefresh, Unauthorized
    <2>2. req[r] \in Request
      BY <2>1, RequestMoves
    <2>3. [req[r] EXCEPT !.pc = "waiting", !.retried = TRUE].kind = req[r].kind
      BY <2>2 DEF Request
    <2>4. \A q \in Requests : req'[q] = req[q] \/ req'[q].kind # "logout"
      BY <2>1, <2>3 DEF ClientTypeOK
    <2> QED  BY <1>3, <1>8, <2>4 DEF JoinsRefresh, server, store, history
  <1>9. ASSUME NEW c \in calls, Rotates(c)
        PROVE  InStep'
    <2> DEFINE d == [c EXCEPT !.reply = "pair", !.pair = issued']
    <2>1. c \in Call /\ calls = {c}
      BY DEF ClientTypeOK, InStep
    <2>2. /\ issued' = issued + 1 /\ live' = (live \ {c.token}) \union {issued'}
          /\ calls' = {d} /\ UNCHANGED <<refreshing, refresh, req, ended, presented, torn>>
      BY <1>9, <2>1 DEF Rotates, Reply, store, history
    <2>3. d.pair = issued' /\ d.reply = "pair"
      BY <2>1 DEF Call
    <2>4. /\ issued' # refresh /\ issued' \notin presented /\ issued' # 0
          /\ \A r \in Requests : req[r].access # issued'
      BY <1>1, <2>2 DEF PairsKnown, ClientTypeOK
    <2> HIDE DEF d
    <2>5. calls' # {} /\ \A e, f \in calls' : e = f /\ e.pair = issued' /\ e.reply = "pair"
      BY <2>2, <2>3
    <2>6. \A e \in calls' : Brought(e)'
      BY <2>2, <2>4, <2>5 DEF Brought
    <2> QED  BY <2>1, <2>2, <2>5, <2>6 DEF InStep, SessionInStep
  <1>10. ASSUME NEW c \in calls, Refuses(c)
         PROVE  InStep'
    <2> DEFINE d == [c EXCEPT !.reply = "refused", !.pair = 0]
    <2>1. c \in Call /\ calls = {c}
      BY DEF ClientTypeOK, InStep
    <2>2. calls' = {d} /\ UNCHANGED refreshing
      BY <1>10, <2>1 DEF Refuses, Reply
    <2>3. d.reply = "refused"
      BY <2>1 DEF Call
    <2> HIDE DEF d
    <2> QED  BY <2>1, <2>2, <2>3 DEF InStep, Brought, SessionInStep
  <1>11. ASSUME NEW c \in calls, Settles(c)
         PROVE  InStep'
    <2>1. calls = {c} /\ Brought(c)
      BY DEF InStep
    <2>2. /\ refresh' = c.pair /\ calls' = {} /\ c.reply = "pair"
          /\ UNCHANGED <<live, ended, presented, torn>>
      BY <1>11, <2>1 DEF Settles, server, history
    <2> QED  BY <2>1, <2>2 DEF InStep, Brought, SessionInStep
  <1>12. ASSUME NEW c \in calls, Fails(c)
         PROVE  InStep'
    BY <1>12 DEF Fails, InStep, SessionInStep
  <1>13. ASSUME NEW n \in Pairs, AccessExpires(n) \/ BlockAccount
         PROVE  InStep'
    BY <1>3, <1>13 DEF AccessExpires, BlockAccount, store, history
  <1>14. ASSUME NEW n \in Pairs, RefreshExpires(n)
         PROVE  InStep'
    <2>1. /\ live' = live \ {n} /\ ended' = ended \union {n}
          /\ UNCHANGED <<refresh, refreshing, calls, req, presented, torn>>
      BY <1>14 DEF RefreshExpires, store
    <2> QED  BY <2>1 DEF InStep, Brought, SessionInStep
  <1>15. CASE Reload
    <2>1. /\ calls' = {} /\ presented' = {} /\ UNCHANGED <<refresh, ended>>
          /\ torn' = (torn \/ InTransit # {})
          /\ InTransit = {} => live' = live
      BY <1>15 DEF Reload
    <2>2. calls # {} => InTransit # {}
      BY DEF InTransit
    <2>3. ~torn' => ~torn /\ InTransit = {}
      BY <2>1
    <2> QED  BY <2>1, <2>2, <2>3 DEF InStep, SessionInStep
  <1>16. CASE BlockAccount
    BY <1>3, <1>16 DEF BlockAccount, store, history
  <1>17. CASE UNCHANGED vars
    BY <1>3, <1>17 DEF vars, server, store, history
  <1> QED  BY <1>2, <1>4, <1>5, <1>6, <1>7, <1>8, <1>9, <1>10, <1>11, <1>12, <1>13, <1>14, <1>15,
              <1>16, <1>17, PageActions

PageInv == ClientTypeOK /\ PairsKnown /\ InStep

LEMMA PageInvInit == Init => PageInv
  <1> SUFFICES ASSUME Init  PROVE PageInv
    OBVIOUS
  <1>1. ClientTypeOK
    <2>1. 0 \in 0..MaxPairs /\ 0 \in 0..0
      BY MaxPairsAssumption
    <2>2. req \in [Requests -> Request \union {NoRequest}]
      BY DEF Init
    <2> QED  BY <2>1, <2>2 DEF Init, ClientTypeOK
  <1>2. PairsKnown
    BY DEF Init, PairsKnown, NoRequest
  <1>3. InStep
    BY DEF Init, InStep, SessionInStep
  <1> QED  BY <1>1, <1>2, <1>3 DEF PageInv

LEMMA PageInvStep == PageInv /\ [Next]_vars => PageInv'
  BY ClientTyped, PairsKnownStep, InStepStep DEF PageInv

\* The store, the requests and the refreshes of a page keep their types, and
\* no pair is numbered past those the server issued.
THEOREM ClientTypeCorrect == Spec => []ClientTypeOK
  <1>1. PageInv => ClientTypeOK
    BY DEF PageInv
  <1> QED  BY <1>1, PageInvInit, PageInvStep, PTL DEF Spec

\* client.ts: at rest the page holds a refresh token the server accepts, for
\* any number of overlapping logins, logouts and 401s.
THEOREM PageInStep == Spec => []SessionInStep
  <1>1. PageInv => SessionInStep
    BY DEF PageInv, InStep
  <1> QED  BY <1>1, PageInvInit, PageInvStep, PTL DEF Spec

\* client.ts: the `refreshing` promise makes a page present a refresh token
\* once, however many of its requests meet a 401.
THEOREM TokensPresentedOnce == Spec => PresentedOnce
  <1> DEFINE Once == \A c \in calls' \ calls : c.reply = "none" => c.token \notin presented
  <1>1. ASSUME PageInv, Next
        PROVE  Once
    <2>1. ASSUME NEW r \in Requests, StartsRefresh(r)
          PROVE  Once
      <3> DEFINE d == [by |-> r, token |-> refresh, reply |-> "none", pair |-> 0]
      <3>1. calls = {} /\ calls' = {d} /\ refresh \notin presented
        BY <1>1, <2>1 DEF StartsRefresh, PageInv, InStep
      <3>2. d.token = refresh
        OBVIOUS
      <3> HIDE DEF d
      <3> QED  BY <3>1, <3>2
    <2>2. ASSUME NEW c \in calls, Rotates(c) \/ Refuses(c)
          PROVE  Once
      <3>1. c \in Call
        BY <1>1 DEF PageInv, ClientTypeOK
      <3>2. /\ [c EXCEPT !.reply = "pair", !.pair = issued'].reply = "pair"
            /\ [c EXCEPT !.reply = "refused", !.pair = 0].reply = "refused"
        BY <3>1 DEF Call
      <3> QED  BY <2>2, <3>2 DEF Rotates, Refuses, Reply
    <2>3. ASSUME calls' \subseteq calls
          PROVE  Once
      BY <2>3
    <2> QED  BY <1>1, <2>1, <2>2, <2>3, PageActions DEF Send, Succeeds, GivesUp, Breaks, LogsIn,
                LogsOut, JoinsRefresh, FindsNoToken, Settles, Fails, AccessExpires,
                RefreshExpires, Reload, BlockAccount
  <1>2. PageInv /\ [Next]_vars => [Once]_vars
    BY <1>1
  <1> QED  BY <1>2, PageInvInit, PageInvStep, PTL DEF Spec, PresentedOnce
=============================================================================

---------------------------- MODULE AdminAuthProofs ----------------------------
(***************************************************************************)
(* Proofs about AdminAuth, for any accounts, handlers, tokens, challenges  *)
(* and overlapping requests: types, MFA in front of gated sessions,        *)
(* lockout, resets, logouts and blocks.                                    *)
(***************************************************************************)
EXTENDS AdminAuth, TLAPS

-----------------------------------------------------------------------------
(* Types.  AuthTypeOK is not inductive: a handler writes a row it has read *)
(* before, and reads what its token or challenge stands for.               *)

Known(u) == user[u] \in UserRow

\* What a request j relies on: its account has a row, its token was issued.
Grounded(j) ==
    /\ j.pc # "idle" => Known(j.user)
    /\ j.pc \in {"revoke", "reload"} => token[j.jti] # NoToken /\ token[j.jti].user = j.user

Typed ==
    /\ AuthTypeOK
    /\ \A h \in Handlers : Grounded(job[h])
    /\ \A j \in Jtis : token[j] # NoToken => Known(token[j].user)
    /\ \A c \in Challenges : challenge[c] # None => Known(challenge[c])
    /\ \A c \in open : challenge[c] # None
    /\ \A j \in live : token[j] # NoToken

LEMMA JobShapes ==
    ASSUME NEW j \in Job \union {Idle}
    PROVE  /\ j.pc = "count" => j.user \in Users /\ j.failed \in 1..MaxFailed
           /\ j.pc \in {"clear", "challenge"} => j.user \in Users /\ j.mfaEnabled \in BOOLEAN
           /\ j.pc = "verify" => j.user \in Users /\ j.challenge \in Challenges
           /\ j.pc = "consume" => /\ j.user \in Users /\ j.challenge \in Challenges
                                  /\ j.checked \in BOOLEAN
           /\ j.pc \in {"revoke", "reload"} => j.user \in Users /\ j.jti \in Jtis
           /\ j.pc = "issue" => /\ j.user \in Users /\ j.session \in Jtis \union {None}
                                /\ j.gated \in BOOLEAN /\ j.checked \in BOOLEAN
                                /\ j.mfaVerified \in BOOLEAN
           /\ j.pc = "enable" => j.user \in Users /\ j.session \in Jtis
           /\ j.pc = "rehash" => j.user \in Users /\ j.old \in Passwords /\ j.new \in Passwords
           /\ (j.pc = "idle") <=> (j = Idle)
           /\ j.pc # "idle" => j.user \in Users
           /\ j.pc \in {"idle", "count", "clear", "challenge", "verify", "consume", "revoke",
                        "reload", "issue", "enable", "rehash"}
  BY DEF Job, Idle

LEMMA UserShapes ==
    ASSUME Typed, NEW u \in Users
    PROVE  /\ Exists(u) <=> Known(u)
           /\ ~Known(u) => user[u] = NoUser
           /\ user[u].isActive => Known(u)
           /\ user[u].locked => Known(u)
           /\ user[u].mfaEnabled => Known(u)
  <1>1. user[u] \in UserRow \union {NoUser}
    BY DEF Typed, AuthTypeOK
  <1>2. NoUser \notin UserRow
    BY NoneFreshAssumption DEF NoUser, UserRow
  <1>3. CASE user[u] \in UserRow
    BY <1>2, <1>3 DEF Exists, Known
  <1>4. CASE user[u] = NoUser
    <2>1. ~user[u].isActive /\ ~user[u].locked /\ ~user[u].mfaEnabled
      BY <1>4 DEF NoUser
    <2> QED  BY <1>2, <1>4, <2>1 DEF Exists, Known
  <1> QED  BY <1>1, <1>3, <1>4

LEMMA TokenShapes ==
    ASSUME Typed, NEW j \in Jtis, token[j] # NoToken
    PROVE  /\ token[j] \in Token /\ token[j].user \in Users /\ token[j].session \in Jtis
           /\ Known(token[j].user)
  BY DEF Typed, AuthTypeOK, Token

\* A step that only changes the request of h.
LEMMA TypedJobStep ==
    ASSUME Typed, NEW h \in Handlers, NEW j \in Job \union {Idle}, Start(h, j),
           Grounded(j), UNCHANGED <<stores, history>>, crowded' \subseteq Users
    PROVE  Typed'
  <1>1. job' \in [Handlers -> Job \union {Idle}] /\ \A g \in Handlers : job'[g] = IF g = h THEN j ELSE job[g]
    BY DEF Typed, AuthTypeOK, Start
  <1>2. AuthTypeOK'
    BY <1>1 DEF Typed, AuthTypeOK, stores, history
  <1>3. \A g \in Handlers : Grounded(job[g])'
    BY <1>1 DEF Typed, Grounded, Known, stores
  <1> QED  BY <1>2, <1>3 DEF Typed, Known, stores

\* A step that writes a row.
LEMMA TypedRowStep ==
    ASSUME Typed, NEW u \in Users, NEW r \in UserRow, NEW j \in Job \union {Idle},
           user' = [user EXCEPT ![u] = r],
           UNCHANGED job \/ \E h \in Handlers : Start(h, j), Grounded(j), UNCHANGED <<token, live, challenge, open>>,
           sealed' \subseteq Users, provisional' \subseteq Users, shut' \subseteq Users,
           closed' \subseteq Jtis, proved' \subseteq Jtis, crowded' \subseteq Users
    PROVE  Typed'
  <1>1. /\ job' \in [Handlers -> Job \union {Idle}]
        /\ \A g \in Handlers : job'[g] = job[g] \/ job'[g] = j
    BY DEF Typed, AuthTypeOK, Start
  <1>2. /\ user' \in [Users -> UserRow \union {NoUser}]
        /\ \A v \in Users : Known(v) => Known(v)'
    BY DEF Typed, AuthTypeOK, Known
  <1>3. AuthTypeOK'
    BY <1>1, <1>2 DEF Typed, AuthTypeOK
  <1>4. \A g \in Handlers : job'[g] \in Job \union {Idle} /\ Grounded(job'[g])
    BY <1>1, <1>3 DEF Typed, AuthTypeOK
  <1>5. \A g \in Handlers : Grounded(job[g])'
    BY <1>2, <1>4, JobShapes DEF Grounded
  <1>6. \A k \in Jtis : token'[k] # NoToken => Known(token[k].user)'
    BY <1>2, TokenShapes DEF Typed
  <1>7. \A c \in Challenges : challenge'[c] # None => Known(challenge[c])'
    BY <1>2 DEF Typed, AuthTypeOK
  <1> QED  BY <1>3, <1>5, <1>6, <1>7 DEF Typed

\* A request that begins or goes on without touching a store.
LEMMA TypedRequests ==
    ASSUME Typed, NEW h \in Handlers, Request(h), crowded' \subseteq Users
    PROVE  Typed'
  <1>1. ASSUME NEW u \in Users, NEW p \in Passwords, LoginFails(h, u, p)
        PROVE  Typed'
    <2> DEFINE j == [pc |-> "count", user |-> u, failed |-> CapFailed(user[u].failedAttempts + 1)]
    <2>1. Known(u)
      BY <1>1, UserShapes DEF LoginFails, Admitted
    <2>2. CapFailed(user[u].failedAttempts + 1) \in 1..MaxFailed
      BY <2>1, MaxFailedAssumption DEF Known, UserRow, CapFailed
    <2>3. j \in Job /\ Grounded(j)
      BY <2>1, <2>2 DEF Job, Grounded
    <2>4. Start(h, j) /\ UNCHANGED <<stores, history>>
      BY <1>1 DEF LoginFails
    <2> HIDE DEF j
    <2> QED  BY <2>3, <2>4, TypedJobStep
  <1>2. ASSUME NEW u \in Users, NEW p \in Passwords, LoginPasses(h, u, p)
        PROVE  Typed'
    <2> DEFINE j == [pc |-> "clear", user |-> u, mfaEnabled |-> user[u].mfaEnabled]
    <2>1. Known(u)
      BY <1>2, UserShapes DEF LoginPasses, Admitted
    <2>2. user[u].mfaEnabled \in BOOLEAN
      BY <2>1 DEF Known, UserRow
    <2>3. j \in Job /\ Grounded(j)
      BY <2>1, <2>2 DEF Job, Grounded
    <2>4. Start(h, j) /\ UNCHANGED <<stores, history>>
      BY <1>2 DEF LoginPasses
    <2> HIDE DEF j
    <2> QED  BY <2>3, <2>4, TypedJobStep
  <1>3. ASSUME NEW c \in Challenges, VerifyGets(h, c)
        PROVE  Typed'
    <2> DEFINE j == [pc |-> "verify", user |-> challenge[c], challenge |-> c]
    <2>1. challenge[c] \in Users /\ Known(challenge[c])
      BY <1>3 DEF VerifyGets, Typed, AuthTypeOK
    <2>2. j \in Job /\ Grounded(j)
      BY <2>1 DEF Job, Grounded
    <2>3. Start(h, j) /\ UNCHANGED <<stores, history>>
      BY <1>3 DEF VerifyGets
    <2> HIDE DEF j
    <2> QED  BY <2>2, <2>3, TypedJobStep
  <1>4. ASSUME NEW k \in Jtis, RefreshGets(h, k)
        PROVE  Typed'
    <2> DEFINE j == [pc |-> "revoke", user |-> token[k].user, jti |-> k]
    <2>1. token[k] # NoToken
      BY <1>4 DEF RefreshGets, Typed
    <2>2. token[k].user \in Users /\ Known(token[k].user)
      BY <2>1, TokenShapes
    <2>3. j \in Job /\ Grounded(j)
      BY <2>1, <2>2 DEF Job, Grounded
    <2>4. Start(h, j) /\ UNCHANGED <<stores, history>>
      BY <1>4 DEF RefreshGets
    <2> HIDE DEF j
    <2> QED  BY <2>3, <2>4, TypedJobStep
  <1>5. ASSUME NEW k \in Jtis, NEW code \in Codes, ConfirmReads(h, k, code)
        PROVE  Typed'
    <2> DEFINE j == [pc |-> "enable", user |-> token[k].user, session |-> token[k].session]
    <2>1. token[k].user \in Users /\ Known(token[k].user) /\ token[k].session \in Jtis
      BY <1>5, TokenShapes DEF ConfirmReads
    <2>2. j \in Job /\ Grounded(j)
      BY <2>1 DEF Job, Grounded
    <2>3. Start(h, j) /\ UNCHANGED <<stores, history>>
      BY <1>5 DEF ConfirmReads
    <2> HIDE DEF j
    <2> QED  BY <2>2, <2>3, TypedJobStep
  <1>6. ASSUME NEW u \in Users, NEW old \in Passwords, NEW new \in Passwords,
               ChangeReads(h, u, old, new)
        PROVE  Typed'
    <2> DEFINE j == [pc |-> "rehash", user |-> u, old |-> old, new |-> new]
    <2>1. PICK k \in Jtis : token[k].user = u
      BY <1>6 DEF ChangeReads, SignedIn
    <2>2. token[k] # NoToken
      BY <2>1, NoneFreshAssumption DEF NoToken
    <2>3. j \in Job /\ Grounded(j)
      BY <2>1, <2>2, TokenShapes DEF Job, Grounded
    <2>4. Start(h, j) /\ UNCHANGED <<stores, history>>
      BY <1>6 DEF ChangeReads
    <2> HIDE DEF j
    <2> QED  BY <2>3, <2>4, TypedJobStep
  <1> QED  BY <1>1, <1>2, <1>3, <1>4, <1>5, <1>6 DEF Request

LEMMA CountedRow ==
    ASSUME NEW r \in UserRow, NEW n \in 0..MaxFailed, NEW b \in BOOLEAN
    PROVE  [r EXCEPT !.failedAttempts = n, !.locked = b] \in UserRow
  BY DEF UserRow

LEMMA IdleGrounded == Idle \in Job \union {Idle} /\ Grounded(Idle)
  BY DEF Idle, Grounded

\* The row of a handler that is about to write one.
LEMMA JobRow ==
    ASSUME Typed, NEW h \in Handlers, job[h].pc # "idle"
    PROVE  /\ job[h] \in Job \union {Idle} /\ job[h].user \in Users
           /\ user[job[h].user] \in UserRow /\ Known(job[h].user)
  BY JobShapes DEF Typed, AuthTypeOK, Grounded, Known

LEMMA TypedLogins ==
    ASSUME Typed, NEW h \in Handlers, crowded' \subseteq Users,
           LoginCounts(h) \/ LoginClears(h) \/ LoginChallenges(h)
    PROVE  Typed'
  <1> DEFINE u == job[h].user
  <1>1. /\ job[h] \in Job \union {Idle} /\ u \in Users /\ user[u] \in UserRow /\ Known(u)
    BY JobRow DEF LoginCounts, LoginClears, LoginChallenges, At
  <1>2. CASE LoginCounts(h)
    <2> DEFINE lock == job[h].failed >= MaxFailed
    <2> DEFINE r == [user[u] EXCEPT !.failedAttempts = job[h].failed, !.locked = lock]
    <2>1. job[h].failed \in 1..MaxFailed
      BY <1>1, <1>2, JobShapes DEF LoginCounts, At
    <2>2. r \in UserRow
      <3>1. job[h].failed \in 0..MaxFailed /\ lock \in BOOLEAN
        BY <2>1, MaxFailedAssumption
      <3> HIDE DEF lock, u
      <3> QED  BY <1>1, <3>1, CountedRow
    <2>3. user' = [user EXCEPT ![u] = r] /\ Start(h, Idle)
      BY <1>1, <1>2 DEF LoginCounts, Start, Answer, Typed, AuthTypeOK
    <2>4. sealed' \subseteq Users
      BY <1>1, <1>2 DEF LoginCounts, Typed, AuthTypeOK
    <2>5. UNCHANGED <<token, live, challenge, open, provisional, shut, closed, proved>>
      BY <1>2 DEF LoginCounts
    <2>6. /\ sealed' \subseteq Users /\ provisional' \subseteq Users /\ shut' \subseteq Users
          /\ closed' \subseteq Jtis /\ proved' \subseteq Jtis
      BY <2>4, <2>5 DEF Typed, AuthTypeOK
    <2>7. UNCHANGED <<token, live, challenge, open>>
      BY <2>5
    <2> HIDE DEF r, u
    <2> QED  BY <1>1, <2>2, <2>3, <2>6, <2>7, IdleGrounded, TypedRowStep
  <1>3. CASE LoginClears(h)
    <2> DEFINE r == [user[u] EXCEPT !.failedAttempts = 0, !.locked = FALSE]
    <2> DEFINE j == IF job[h].mfaEnabled THEN [job[h] EXCEPT !.pc = "challenge"]
                                         ELSE NewSession(u, FALSE, FALSE, FALSE)
    <2>1. job[h].pc = "clear" /\ job[h].mfaEnabled \in BOOLEAN
      BY <1>1, <1>3, JobShapes DEF LoginClears, At
    <2>2. job[h] \in [pc : {"clear", "challenge"}, user : Users, mfaEnabled : BOOLEAN]
      BY <1>1, <2>1 DEF Job, Idle
    <2>3. [job[h] EXCEPT !.pc = "challenge"] \in Job /\ NewSession(u, FALSE, FALSE, FALSE) \in Job
      BY <1>1, <2>2 DEF Job, NewSession
    <2>4. j \in Job /\ j.user = u /\ j.pc \in {"challenge", "issue"}
      BY <2>2, <2>3 DEF NewSession
    <2>5. Grounded(j)
      BY <1>1, <2>4 DEF Grounded
    <2>6. r \in UserRow
      <3>1. 0 \in 0..MaxFailed
        BY MaxFailedAssumption
      <3> HIDE DEF u
      <3> QED  BY <1>1, <3>1, CountedRow
    <2>7. user' = [user EXCEPT ![u] = r] /\ Start(h, j)
      BY <1>1, <1>3 DEF LoginClears, Start, Typed, AuthTypeOK
    <2>8. UNCHANGED <<token, live, challenge, open, sealed, provisional, shut, closed, proved>>
      BY <1>3 DEF LoginClears
    <2> HIDE DEF r, j
    <2>9. /\ sealed' \subseteq Users /\ provisional' \subseteq Users /\ shut' \subseteq Users
          /\ closed' \subseteq Jtis /\ proved' \subseteq Jtis
          /\ UNCHANGED <<token, live, challenge, open>>
      BY <2>8 DEF Typed, AuthTypeOK
    <2> HIDE DEF u
    <2> QED  BY <1>1, <2>4, <2>5, <2>6, <2>7, <2>9, TypedRowStep
  <1>4. CASE LoginChallenges(h)
    <2>1. PICK c \in Challenges : /\ challenge[c] = None
                                  /\ challenge' = [challenge EXCEPT ![c] = u]
                                  /\ open' = open \union {c}
      BY <1>4 DEF LoginChallenges
    <2>2. /\ \A g \in Handlers : job'[g] = IF g = h THEN Idle ELSE job[g]
          /\ UNCHANGED <<user, token, live, sealed, provisional, shut, closed, proved>>
      BY <1>4 DEF LoginChallenges, Answer, history, Typed, AuthTypeOK
    <2>3. AuthTypeOK'
      BY <1>1, <1>4, <2>1, <2>2 DEF LoginChallenges, Answer, Typed, AuthTypeOK
    <2>4. \A g \in Handlers : Grounded(job[g])'
      BY <2>2, IdleGrounded DEF Typed, Grounded, Known
    <2>5. \A d \in Challenges : challenge'[d] # None => Known(challenge[d])'
      BY <1>1, <2>1, <2>2 DEF Typed, AuthTypeOK, Known
    <2>6. \A d \in open' : challenge'[d] # None
      BY <1>1, <2>1, NoneFreshAssumption DEF Typed, AuthTypeOK
    <2> QED  BY <2>2, <2>3, <2>4, <2>5, <2>6 DEF Typed, Known
  <1> QED  BY <1>2, <1>3, <1>4

LEMMA TypedMfa ==
    ASSUME Typed, NEW h \in Handlers, crowded' \subseteq Users,
           (\E code \in Codes : VerifyChecks(h, code)) \/ VerifyRefused(h) \/ VerifyConsumes(h)
    PROVE  Typed'
  <1>1. /\ job[h].pc # "idle" /\ job[h] \in Job \union {Idle} /\ job[h].user \in Users
        /\ Known(job[h].user)
    BY JobRow DEF VerifyChecks, VerifyRefused, VerifyConsumes, At
  <1>2. ASSUME NEW code \in Codes, VerifyChecks(h, code)
        PROVE  Typed'
    <2> DEFINE j == [pc |-> "consume", user |-> job[h].user, challenge |-> job[h].challenge,
                     checked |-> code = user[job[h].user].mfaSecret]
    <2>1. job[h].challenge \in Challenges
      BY <1>1, <1>2, JobShapes DEF VerifyChecks, At
    <2>2. j \in Job /\ Grounded(j)
      BY <1>1, <2>1 DEF Job, Grounded
    <2>3. Start(h, j) /\ UNCHANGED <<stores, history>>
      BY <1>2 DEF VerifyChecks
    <2> HIDE DEF j
    <2> QED  BY <2>2, <2>3, TypedJobStep
  <1>3. CASE VerifyRefused(h)
    BY <1>3, IdleGrounded, TypedJobStep DEF VerifyRefused, Answer, Start
  <1>4. CASE VerifyConsumes(h)
    <2> DEFINE j == NewSession(job[h].user, TRUE, job[h].checked, TRUE)
    <2>1. job[h].checked \in BOOLEAN
      BY <1>1, <1>4, JobShapes DEF VerifyConsumes, At
    <2>2. j \in Job /\ Grounded(j)
      BY <1>1, <2>1 DEF Job, Grounded, NewSession
    <2>3. /\ job' = [job EXCEPT ![h] = j] /\ open' \subseteq open
          /\ UNCHANGED <<user, token, live, challenge, history>>
      BY <1>4 DEF VerifyConsumes, Start
    <2> HIDE DEF j
    <2>4. AuthTypeOK'
      BY <2>2, <2>3 DEF Typed, AuthTypeOK, history
    <2>5. \A g \in Handlers : Grounded(job[g])'
      BY <2>2, <2>3 DEF Typed, AuthTypeOK, Grounded, Known
    <2> QED  BY <2>3, <2>4, <2>5 DEF Typed, Known
  <1> QED  BY <1>2, <1>3, <1>4

LEMMA TypedRefreshes ==
    ASSUME Typed, NEW h \in Handlers, crowded' \subseteq Users,
           RefreshRevokes(h) \/ RefreshReloads(h) \/ RefreshRefused(h)
    PROVE  Typed'
  <1>1. /\ job[h].pc \in {"revoke", "reload"} /\ job[h] \in Job \union {Idle}
        /\ job[h].user \in Users /\ Known(job[h].user) /\ user[job[h].user] \in UserRow
        /\ job[h].jti \in Jtis /\ token[job[h].jti] # NoToken
        /\ token[job[h].jti].user = job[h].user
    BY JobRow, JobShapes DEF RefreshRevokes, RefreshReloads, RefreshRefused, At, Typed, Grounded
  <1>2. CASE RefreshRevokes(h)
    <2> DEFINE j == [job[h] EXCEPT !.pc = "reload"]
    <2>1. job[h] \in [pc : {"revoke", "reload"}, user : Users, jti : Jtis]
      BY <1>1 DEF Job, Idle
    <2>2. j \in Job /\ Grounded(j)
      BY <1>1, <2>1 DEF Job, Grounded
    <2>3. /\ job' = [job EXCEPT ![h] = j] /\ live' \subseteq live
          /\ UNCHANGED <<user, token, challenge, open, history>>
      BY <1>2 DEF RefreshRevokes, Start
    <2> HIDE DEF j
    <2>4. AuthTypeOK'
      BY <2>2, <2>3 DEF Typed, AuthTypeOK, history
    <2>5. \A g \in Handlers : Grounded(job[g])'
      BY <2>2, <2>3 DEF Typed, AuthTypeOK, Grounded, Known
    <2> QED  BY <2>3, <2>4, <2>5 DEF Typed, Known
  <1>3. CASE RefreshReloads(h)
    <2> DEFINE old == token[job[h].jti]
    <2> DEFINE j == [pc |-> "issue", user |-> job[h].user, session |-> old.session,
                     gated |-> old.gated, checked |-> FALSE,
                     mfaVerified |-> user[job[h].user].mfaEnabled]
    <2>1. old \in Token
      BY <1>1, TokenShapes
    <2>2. old.session \in Jtis /\ old.gated \in BOOLEAN /\ user[job[h].user].mfaEnabled \in BOOLEAN
      BY <1>1, <2>1 DEF Token, UserRow
    <2>3. j \in Job /\ Grounded(j)
      BY <1>1, <2>2 DEF Job, Grounded
    <2>4. Start(h, j) /\ UNCHANGED <<stores, history>>
      BY <1>3 DEF RefreshReloads
    <2> HIDE DEF j
    <2> QED  BY <2>3, <2>4, TypedJobStep
  <1>4. CASE RefreshRefused(h)
    BY <1>4, IdleGrounded, TypedJobStep DEF RefreshRefused, Answer, Start
  <1> QED  BY <1>2, <1>3, <1>4

LEMMA TypedIssue ==
    ASSUME Typed, NEW h \in Handlers, crowded' \subseteq Users, IssueTokens(h)
    PROVE  Typed'
  <1> DEFINE a == job[h]
  <1>1. /\ a \in Job \union {Idle} /\ a.pc = "issue" /\ a.user \in Users /\ Known(a.user)
        /\ a.session \in Jtis \union {None} /\ a.gated \in BOOLEAN /\ a.mfaVerified \in BOOLEAN
    BY JobRow, JobShapes DEF IssueTokens, At
  <1> DEFINE pair(j) == [user |-> a.user, session |-> IF a.session = None THEN j ELSE a.session,
                         gated |-> a.gated, mfaVerified |-> a.mfaVerified]
  <1>2. PICK j \in Jtis : /\ token[j] = NoToken
                          /\ token' = [token EXCEPT ![j] = pair(j)]
                          /\ live' = live \union {j}
                          /\ proved' \subseteq proved \union {j}
    BY DEF IssueTokens
  <1>3. pair(j) \in Token /\ pair(j) # NoToken /\ pair(j).user = a.user
    BY <1>1, NoneFreshAssumption DEF Token, NoToken
  <1> HIDE DEF pair
  <1>4. /\ \A g \in Handlers : job'[g] = IF g = h THEN Idle ELSE job[g]
        /\ job' \in [Handlers -> Job \union {Idle}]
        /\ UNCHANGED <<user, challenge, open, sealed, provisional, shut, closed>>
    BY DEF IssueTokens, Answer, Typed, AuthTypeOK
  <1>5. \A k \in Jtis : token'[k] = IF k = j THEN pair(j) ELSE token[k]
    BY <1>2 DEF Typed, AuthTypeOK
  <1>6. AuthTypeOK'
    BY <1>2, <1>3, <1>4 DEF Typed, AuthTypeOK
  <1>7. \A g \in Handlers : Grounded(job[g])'
    <2> SUFFICES ASSUME NEW g \in Handlers  PROVE Grounded(job[g])'
      OBVIOUS
    <2>1. CASE g = h
      BY <1>4, <2>1 DEF Grounded, Idle
    <2>2. CASE g # h
      <3>1. job'[g] = job[g] /\ Grounded(job[g]) /\ job[g] \in Job \union {Idle}
        BY <1>4, <2>2 DEF Typed, AuthTypeOK
      <3>2. job[g].pc \in {"revoke", "reload"} => token'[job[g].jti] = token[job[g].jti]
        BY <1>2, <1>5, <3>1, JobShapes DEF Grounded
      <3> QED  BY <1>4, <3>1, <3>2 DEF Grounded, Known
    <2> QED  BY <2>1, <2>2
  <1>8. \A k \in Jtis : token'[k] # NoToken => Known(token[k].user)'
    BY <1>1, <1>3, <1>4, <1>5 DEF Typed, Known
  <1>9. \A k \in live' : token'[k] # NoToken
    BY <1>2, <1>3, <1>5 DEF Typed, AuthTypeOK
  <1> QED  BY <1>4, <1>6, <1>7, <1>8, <1>9 DEF Typed, Known

LEMMA EditedRow ==
    ASSUME NEW r \in UserRow, NEW p \in Passwords, NEW b \in BOOLEAN, NEW n \in 0..MaxSetups
    PROVE  /\ [r EXCEPT !.password = p, !.mustChange = b] \in UserRow
           /\ [r EXCEPT !.mfaEnabled = b] \in UserRow
           /\ [r EXCEPT !.locked = b] \in UserRow
           /\ [r EXCEPT !.isActive = b] \in UserRow
           /\ [r EXCEPT !.mfaSecret = n] \in UserRow
  BY DEF UserRow

LEMMA TypedWrites ==
    ASSUME Typed, NEW h \in Handlers, crowded' \subseteq Users,
           ConfirmEnables(h) \/ ChangeWrites(h)
    PROVE  Typed'
  <1> DEFINE u == job[h].user
  <1>1. /\ job[h] \in Job \union {Idle} /\ u \in Users /\ user[u] \in UserRow /\ Known(u)
    BY JobRow DEF ConfirmEnables, ChangeWrites, At
  <1>2. ASSUME ConfirmEnables(h)
        PROVE  Typed'
    <2> DEFINE r == [user[u] EXCEPT !.mfaEnabled = TRUE]
    <2>1. user' = [user EXCEPT ![u] = r] /\ Start(h, Idle)
      BY <1>1, <1>2 DEF ConfirmEnables, Start, Answer, Typed, AuthTypeOK
    <2>2. job[h].session \in Jtis
      BY <1>1, <1>2, JobShapes DEF ConfirmEnables, At
    <2>3. /\ proved' \subseteq Jtis /\ UNCHANGED <<token, live, challenge, open>>
          /\ sealed' \subseteq Users /\ provisional' \subseteq Users /\ shut' \subseteq Users
          /\ closed' \subseteq Jtis
      BY <1>2, <2>2 DEF ConfirmEnables, Typed, AuthTypeOK
    <2> HIDE DEF u
    <2>4. r \in UserRow
      BY <1>1, MaxSetupsAssumption DEF UserRow
    <2> HIDE DEF r
    <2> QED  BY <1>1, <2>1, <2>3, <2>4, IdleGrounded, TypedRowStep
  <1>3. ASSUME ChangeWrites(h)
        PROVE  Typed'
    <2> DEFINE r == [user[u] EXCEPT !.password = job[h].new, !.mustChange = FALSE]
    <2>1. user' = [user EXCEPT ![u] = r] /\ Start(h, Idle)
      BY <1>1, <1>3 DEF ChangeWrites, Start, Answer, Typed, AuthTypeOK
    <2>2. job[h].new \in Passwords
      BY <1>1, <1>3, JobShapes DEF ChangeWrites, At
    <2>3. /\ provisional' \subseteq Users /\ UNCHANGED <<token, live, challenge, open>>
          /\ sealed' \subseteq Users /\ shut' \subseteq Users
          /\ closed' \subseteq Jtis /\ proved' \subseteq Jtis
      BY <1>3 DEF ChangeWrites, Typed, AuthTypeOK
    <2> HIDE DEF u
    <2>4. r \in UserRow
      BY <1>1, <2>2 DEF UserRow
    <2> HIDE DEF r
    <2> QED  BY <1>1, <2>1, <2>3, <2>4, IdleGrounded, TypedRowStep
  <1> QED  BY <1>2, <1>3

\* A step of no handler that only takes tokens or challenges away.
LEMMA TypedLosses ==
    ASSUME Typed, crowded' \subseteq Users,
           \/ \E j \in Jtis : Logout(j) \/ TokenExpires(j)
           \/ \E c \in Challenges : ChallengeExpires(c)
    PROVE  Typed'
  <1>1. /\ UNCHANGED <<user, token, challenge, job>> /\ live' \subseteq live /\ open' \subseteq open
        /\ sealed' = sealed /\ provisional' = provisional /\ shut' = shut /\ proved' = proved
    BY DEF Logout, TokenExpires, ChallengeExpires, history
  <1>2. closed' \subseteq Jtis
    <2>1. ASSUME NEW j \in Jtis, Logout(j)  PROVE closed' \subseteq Jtis
      BY <2>1, TokenShapes DEF Logout, Typed, AuthTypeOK
    <2> QED  BY <2>1 DEF TokenExpires, ChallengeExpires, history, Typed, AuthTypeOK
  <1>3. AuthTypeOK'
    BY <1>1, <1>2 DEF Typed, AuthTypeOK
  <1>4. \A g \in Handlers : Grounded(job[g])'
    BY <1>1 DEF Typed, Grounded, Known
  <1> QED  BY <1>1, <1>3, <1>4 DEF Typed, Known

LEMMA TypedAccounts ==
    ASSUME Typed, NEW u \in Users, crowded' \subseteq Users, AccountStep(u)
    PROVE  Typed'
  <1>1. /\ UNCHANGED <<token, live, challenge, open, job>>
        /\ sealed' \subseteq Users /\ provisional' \subseteq Users /\ shut' \subseteq Users
        /\ closed' \subseteq Jtis /\ proved' \subseteq Jtis
    BY DEF AccountStep, SetupMfa, LockEnds, CreateMember, BlockMember, UnblockMember,
           ResetPassword, history, Typed, AuthTypeOK
  <1>2. ASSUME NEW r \in UserRow, user' = [user EXCEPT ![u] = r]
        PROVE  Typed'
    BY <1>1, <1>2, IdleGrounded, TypedRowStep
  <1>3. ASSUME SetupMfa(u)
        PROVE  Typed'
    <2> DEFINE r == [user[u] EXCEPT !.mfaSecret = @ + 1]
    <2>1. PICK j \in Jtis : token[j].user = u
      BY <1>3 DEF SetupMfa, SignedIn
    <2>2. token[j] # NoToken
      BY <2>1, NoneFreshAssumption DEF NoToken
    <2>3. user[u] \in UserRow
      BY <2>1, <2>2, TokenShapes DEF Known
    <2>4. user[u].mfaSecret + 1 \in 0..MaxSetups
      BY <1>3, <2>3, MaxSetupsAssumption DEF SetupMfa, UserRow
    <2>5. r \in UserRow
      BY <2>3, <2>4 DEF UserRow
    <2>6. user' = [user EXCEPT ![u] = r]
      BY <1>3 DEF SetupMfa, Typed, AuthTypeOK
    <2> HIDE DEF r
    <2> QED  BY <1>2, <2>5, <2>6
  <1>4. ASSUME LockEnds(u)
        PROVE  Typed'
    <2> DEFINE r == [user[u] EXCEPT !.locked = FALSE]
    <2>1. user[u] \in UserRow
      BY <1>4, UserShapes DEF LockEnds, Known
    <2>2. r \in UserRow
      BY <2>1 DEF UserRow
    <2>3. user' = [user EXCEPT ![u] = r]
      BY <1>4 DEF LockEnds, Typed, AuthTypeOK
    <2> HIDE DEF r
    <2> QED  BY <1>2, <2>2, <2>3
  <1>5. ASSUME CreateMember(u)
        PROVE  Typed'
    <2>1. PICK p \in Passwords :
             user' = [user EXCEPT ![u] = [NoUser EXCEPT !.isActive = TRUE, !.password = p,
                                                        !.mustChange = TRUE]]
      BY <1>5 DEF CreateMember
    <2> DEFINE r == [NoUser EXCEPT !.isActive = TRUE, !.password = p, !.mustChange = TRUE]
    <2>2. r \in UserRow
      <3> DEFINE blank == [isActive : BOOLEAN, failedAttempts : 0..MaxFailed, locked : BOOLEAN,
                           mfaEnabled : BOOLEAN, mfaSecret : 0..MaxSetups,
                           password : {None}, mustChange : BOOLEAN]
      <3>1. 0 \in 0..MaxFailed /\ 0 \in 0..MaxSetups
        BY MaxFailedAssumption, MaxSetupsAssumption
      <3>2. NoUser \in blank
        BY <3>1 DEF NoUser
      <3> QED  BY <3>1, <3>2 DEF UserRow
    <2>3. user' = [user EXCEPT ![u] = r]
      BY <2>1
    <2> HIDE DEF r
    <2> QED  BY <1>2, <2>2, <2>3
  <1>6. ASSUME BlockMember(u) \/ UnblockMember(u)
        PROVE  Typed'
    <2>1. PICK b \in BOOLEAN : user' = [user EXCEPT ![u].isActive = b]
      BY <1>6 DEF BlockMember, UnblockMember
    <2> DEFINE r == [user[u] EXCEPT !.isActive = b]
    <2>2. user[u] \in UserRow
      BY <1>6, UserShapes DEF BlockMember, UnblockMember, Known
    <2>3. r \in UserRow
      BY <2>2 DEF UserRow
    <2>4. user' = [user EXCEPT ![u] = r]
      BY <2>1 DEF Typed, AuthTypeOK
    <2> HIDE DEF r
    <2> QED  BY <1>2, <2>3, <2>4
  <1>7. ASSUME ResetPassword(u)
        PROVE  Typed'
    <2>1. PICK p \in Passwords :
             user' = [user EXCEPT ![u].password = p, ![u].mustChange = TRUE,
                                  ![u].failedAttempts = 0, ![u].locked = FALSE]
      BY <1>7 DEF ResetPassword
    <2> DEFINE r == [user[u] EXCEPT !.password = p, !.mustChange = TRUE,
                                    !.failedAttempts = 0, !.locked = FALSE]
    <2>2. user[u] \in UserRow
      BY <1>7, UserShapes DEF ResetPassword, Known
    <2>3. r \in UserRow
      <3>1. 0 \in 0..MaxFailed /\ 0 \in 0..MaxSetups
        BY MaxFailedAssumption, MaxSetupsAssumption
      <3>2. r = [[user[u] EXCEPT !.password = p, !.mustChange = TRUE]
                    EXCEPT !.failedAttempts = 0, !.locked = FALSE]
        BY <2>2 DEF UserRow
      <3> HIDE DEF r
      <3> QED  BY <2>2, <3>1, <3>2, CountedRow, EditedRow
    <2>4. user' = [user EXCEPT ![u] = r]
      BY <2>1 DEF Typed, AuthTypeOK
    <2> HIDE DEF r
    <2> QED  BY <1>2, <2>3, <2>4
  <1> QED  BY <1>3, <1>4, <1>5, <1>6, <1>7 DEF AccountStep

\* The types are inductive together with what handlers, tokens and challenges
\* stand for.
LEMMA TypedStep ==
    ASSUME Typed, [AuthNext]_vars
    PROVE  Typed'
  <1>1. CASE UNCHANGED vars
    BY <1>1 DEF vars, stores, history, Typed, AuthTypeOK, Grounded, Known
  <1>2. CASE AuthNext
    <2>1. crowded' \subseteq Users
      BY <1>2 DEF AuthNext, Typed, AuthTypeOK
    <2>2. ASSUME NEW h \in Handlers, Request(h) \/ HandlerStep(h) \/ Abort(h)
          PROVE  Typed'
      <3>1. CASE Abort(h)
        BY <2>1, <3>1, IdleGrounded, TypedJobStep DEF Abort, Answer, Start
      <3> QED  BY <2>1, <2>2, <3>1, TypedRequests, TypedLogins, TypedMfa, TypedRefreshes,
                  TypedIssue, TypedWrites DEF HandlerStep
    <2>3. ASSUME NEW u \in Users, AccountStep(u)
          PROVE  Typed'
      BY <2>1, <2>3, TypedAccounts
    <2> QED  BY <1>2, <2>1, <2>2, <2>3, TypedLosses DEF AuthNext
  <1> QED  BY <1>1, <1>2

LEMMA TypedInit == AuthInit => Typed
  BY DEF AuthInit, Typed, AuthTypeOK, Grounded, Idle, NoUser, NoToken

\* The stores keep their types, and a handler, a token or a challenge only
\* names accounts that have a row: no request of auth.service.ts or
\* team.controller.ts invents one.
THEOREM AuthTypeCorrect == AuthSpec => []AuthTypeOK
  <1>1. Typed => AuthTypeOK
    BY DEF Typed
  <1> QED  BY <1>1, TypedInit, TypedStep, PTL DEF AuthSpec

-----------------------------------------------------------------------------
(* A handler moves alone, and the rest of the model leaves handlers alone. *)

LEMMA OthersWait ==
    ASSUME Typed, NEW h \in Handlers, Request(h) \/ HandlerStep(h) \/ Abort(h)
    PROVE  \A g \in Handlers \ {h} : job'[g] = job[g]
  <1>1. CASE Request(h)
    <2>1. \E j : Start(h, j)
      BY <1>1 DEF Request, LoginFails, LoginPasses, VerifyGets, RefreshGets, ConfirmReads,
                  ChangeReads
    <2> QED  BY <2>1 DEF Start, Typed, AuthTypeOK
  <1>2. CASE HandlerStep(h)
    <2>1. \E j : Start(h, j)
      <3>1. (LoginCounts(h) \/ LoginClears(h) \/ LoginChallenges(h)) => \E j : Start(h, j)
        BY DEF LoginCounts, LoginClears, LoginChallenges, Start, Answer
      <3>2. ((\E code \in Codes : VerifyChecks(h, code)) \/ VerifyRefused(h) \/ VerifyConsumes(h))
                 => \E j : Start(h, j)
        BY DEF VerifyChecks, VerifyRefused, VerifyConsumes, Start, Answer
      <3>3. (RefreshRevokes(h) \/ RefreshReloads(h) \/ RefreshRefused(h)) => \E j : Start(h, j)
        BY DEF RefreshRevokes, RefreshReloads, RefreshRefused, Start, Answer
      <3>4. (IssueTokens(h) \/ ConfirmEnables(h) \/ ChangeWrites(h)) => \E j : Start(h, j)
        BY DEF IssueTokens, ConfirmEnables, ChangeWrites, Start, Answer
      <3> QED  BY <1>2, <3>1, <3>2, <3>3, <3>4 DEF HandlerStep
    <2> QED  BY <2>1 DEF Start, Typed, AuthTypeOK
  <1>3. CASE Abort(h)
    BY <1>3 DEF Abort, Answer, Typed, AuthTypeOK
  <1> QED  BY <1>1, <1>2, <1>3

LEMMA AllWait ==
    ASSUME \/ \E j \in Jtis : Logout(j) \/ TokenExpires(j)
           \/ \E c \in Challenges : ChallengeExpires(c)
           \/ \E u \in Users : AccountStep(u)
    PROVE  UNCHANGED job
  BY DEF Logout, TokenExpires, ChallengeExpires, AccountStep, SetupMfa, LockEnds, CreateMember,
         BlockMember, UnblockMember, ResetPassword

\* Which columns of a row each step writes; a row that is not named stays.
AsBefore(u)    == user'[u] = user[u]
KeepsLock(u)   == /\ user'[u].locked = user[u].locked
                  /\ user'[u].failedAttempts = user[u].failedAttempts
KeepsGate(u)   == user'[u].mfaEnabled = user[u].mfaEnabled
KeepsSecret(u) == /\ user'[u].password = user[u].password
                  /\ user'[u].mustChange = user[u].mustChange
KeepsState(u)  == user'[u].isActive = user[u].isActive
OthersKeep(u)  == \A v \in Users \ {u} : AsBefore(v)

LEMMA CountsRow ==
    ASSUME Typed, NEW h \in Handlers, LoginCounts(h)
    PROVE  LET u == job[h].user IN
           /\ u \in Users /\ OthersKeep(u) /\ KeepsGate(u) /\ KeepsSecret(u) /\ KeepsState(u)
           /\ user'[u].failedAttempts = job[h].failed
           /\ user'[u].locked = (job[h].failed >= MaxFailed)
           /\ job[h].failed \in 1..MaxFailed
  <1>1. job[h] \in Job \union {Idle} /\ job[h].user \in Users /\ user[job[h].user] \in UserRow
    BY JobRow DEF LoginCounts, At
  <1>2. job[h].failed \in 1..MaxFailed
    BY <1>1, JobShapes DEF LoginCounts, At
  <1> QED  BY <1>1, <1>2 DEF LoginCounts, OthersKeep, AsBefore, KeepsGate, KeepsSecret,
                             KeepsState, UserRow, Typed, AuthTypeOK

LEMMA ClearsRow ==
    ASSUME Typed, NEW h \in Handlers, LoginClears(h)
    PROVE  LET u == job[h].user IN
           /\ u \in Users /\ OthersKeep(u) /\ KeepsGate(u) /\ KeepsSecret(u) /\ KeepsState(u)
           /\ user'[u].failedAttempts = 0
           /\ ~user'[u].locked
  <1>1. job[h] \in Job \union {Idle} /\ job[h].user \in Users /\ user[job[h].user] \in UserRow
    BY JobRow DEF LoginClears, At
  <1> QED  BY <1>1 DEF LoginClears, OthersKeep, AsBefore, KeepsGate, KeepsSecret,
                       KeepsState, UserRow, Typed, AuthTypeOK

LEMMA EnablesRow ==
    ASSUME Typed, NEW h \in Handlers, ConfirmEnables(h)
    PROVE  LET u == job[h].user IN
           /\ u \in Users /\ OthersKeep(u) /\ KeepsLock(u) /\ KeepsSecret(u) /\ KeepsState(u)
           /\ user'[u].mfaEnabled
  <1>1. job[h].user \in Users /\ user[job[h].user] \in UserRow
    BY JobRow DEF ConfirmEnables, At
  <1> QED  BY <1>1 DEF ConfirmEnables, OthersKeep, AsBefore, KeepsLock, KeepsSecret,
                       KeepsState, UserRow, Typed, AuthTypeOK

LEMMA ChangesRow ==
    ASSUME Typed, NEW h \in Handlers, ChangeWrites(h)
    PROVE  LET u == job[h].user IN
           /\ u \in Users /\ OthersKeep(u) /\ KeepsLock(u) /\ KeepsGate(u) /\ KeepsState(u)
           /\ user'[u].password = job[h].new
           /\ ~user'[u].mustChange
  <1>1. job[h].user \in Users /\ user[job[h].user] \in UserRow
    BY JobRow DEF ChangeWrites, At
  <1> QED  BY <1>1 DEF ChangeWrites, OthersKeep, AsBefore, KeepsLock, KeepsGate,
                       KeepsState, UserRow, Typed, AuthTypeOK

LEMMA AccountRows ==
    ASSUME Typed, NEW u \in Users, AccountStep(u)
    PROVE  /\ OthersKeep(u)
           /\ SetupMfa(u) => KeepsLock(u) /\ KeepsGate(u) /\ KeepsSecret(u) /\ KeepsState(u)
           /\ LockEnds(u) => /\ KeepsGate(u) /\ KeepsSecret(u) /\ KeepsState(u)
                             /\ ~user'[u].locked
                             /\ user'[u].failedAttempts = user[u].failedAttempts
           /\ CreateMember(u) => /\ KeepsLock(u) /\ KeepsGate(u)
                                 /\ user'[u].mustChange /\ user'[u].isActive
                                 /\ user[u] = NoUser
           /\ BlockMember(u) => /\ KeepsLock(u) /\ KeepsGate(u) /\ KeepsSecret(u)
                                /\ ~user'[u].isActive /\ Known(u)
           /\ UnblockMember(u) => /\ KeepsLock(u) /\ KeepsGate(u) /\ KeepsSecret(u)
                                  /\ user'[u].isActive
           /\ ResetPassword(u) => /\ KeepsGate(u) /\ KeepsState(u)
                                  /\ user'[u].mustChange /\ ~user'[u].locked
                                  /\ user'[u].failedAttempts = 0
  <1> USE DEF Typed, AuthTypeOK
  <1>1. OthersKeep(u)
    BY DEF AccountStep, SetupMfa, LockEnds, CreateMember, BlockMember, UnblockMember,
           ResetPassword, OthersKeep, AsBefore
  <1>2. ASSUME SetupMfa(u)
        PROVE  KeepsLock(u) /\ KeepsGate(u) /\ KeepsSecret(u) /\ KeepsState(u)
    <2>1. PICK j \in Jtis : token[j].user = u
      BY <1>2 DEF SetupMfa, SignedIn
    <2>2. user[u] \in UserRow
      BY <2>1, NoneFreshAssumption, TokenShapes DEF NoToken, Known
    <2> QED  BY <1>2, <2>2 DEF SetupMfa, KeepsLock, KeepsGate, KeepsSecret, KeepsState, UserRow
  <1>3. ASSUME LockEnds(u)
        PROVE  /\ KeepsGate(u) /\ KeepsSecret(u) /\ KeepsState(u) /\ ~user'[u].locked
               /\ user'[u].failedAttempts = user[u].failedAttempts
    <2>1. user[u] \in UserRow
      BY <1>3, UserShapes DEF LockEnds, Known
    <2> QED  BY <1>3, <2>1 DEF LockEnds, KeepsGate, KeepsSecret, KeepsState, UserRow
  <1>4. ASSUME CreateMember(u)
        PROVE  /\ KeepsLock(u) /\ KeepsGate(u) /\ user'[u].mustChange /\ user'[u].isActive
               /\ user[u] = NoUser
    <2>1. user[u] = NoUser
      BY <1>4 DEF CreateMember, Exists
    <2>2. PICK p \in Passwords :
             user' = [user EXCEPT ![u] = [NoUser EXCEPT !.isActive = TRUE, !.password = p,
                                                        !.mustChange = TRUE]]
      BY <1>4 DEF CreateMember
    <2> DEFINE blank == [isActive : {FALSE}, failedAttempts : {0}, locked : {FALSE},
                         mfaEnabled : {FALSE}, mfaSecret : {0}, password : {None},
                         mustChange : {FALSE}]
    <2>3. NoUser \in blank
      BY DEF NoUser
    <2> QED  BY <2>1, <2>2, <2>3 DEF KeepsLock, KeepsGate
  <1>5. ASSUME BlockMember(u)
        PROVE  /\ KeepsLock(u) /\ KeepsGate(u) /\ KeepsSecret(u)
               /\ ~user'[u].isActive /\ Known(u)
    <2>1. user[u] \in UserRow
      BY <1>5, UserShapes DEF BlockMember, Known
    <2> QED  BY <1>5, <2>1 DEF BlockMember, KeepsLock, KeepsGate, KeepsSecret, Known, UserRow
  <1>6. ASSUME UnblockMember(u)
        PROVE  KeepsLock(u) /\ KeepsGate(u) /\ KeepsSecret(u) /\ user'[u].isActive
    <2>1. user[u] \in UserRow
      BY <1>6, UserShapes DEF UnblockMember, Known
    <2> QED  BY <1>6, <2>1 DEF UnblockMember, KeepsLock, KeepsGate, KeepsSecret, UserRow
  <1>7. ASSUME ResetPassword(u)
        PROVE  /\ KeepsGate(u) /\ KeepsState(u) /\ user'[u].mustChange /\ ~user'[u].locked
               /\ user'[u].failedAttempts = 0
    <2>1. user[u] \in UserRow
      BY <1>7, UserShapes DEF ResetPassword, Known
    <2> QED  BY <1>7, <2>1 DEF ResetPassword, KeepsGate, KeepsState, UserRow
  <1> QED  BY <1>1, <1>2, <1>3, <1>4, <1>5, <1>6, <1>7

-----------------------------------------------------------------------------
(* Lockout.  A lock stays because no login that read the account before it *)
(* is left to write: only those write over lockedUntil.                    *)

LockInv == \A u \in sealed : user[u].locked /\ ~InFlight(LoginPcs, u)

\* A step that leaves sealed accounts their locks and brings no login forward.
LEMMA LockQuiet ==
    ASSUME Typed, LockInv, sealed' \subseteq sealed,
           \A u \in sealed' : user'[u].locked = user[u].locked,
           \A g \in Handlers : job'[g] = job[g] \/ job'[g].pc \notin LoginPcs
    PROVE  LockInv'
  BY DEF LockInv, InFlight, Busy

LEMMA LockRequests ==
    ASSUME Typed, LockInv, NEW h \in Handlers, Request(h)
    PROVE  LockInv'
  <1>1. \A g \in Handlers \ {h} : job'[g] = job[g]
    BY OthersWait
  <1>2. UNCHANGED <<user, sealed>>
    BY DEF Request, LoginFails, LoginPasses, VerifyGets, RefreshGets, ConfirmReads, ChangeReads,
           stores, history
  <1>3. ASSUME NEW u \in Users, NEW p \in Passwords, LoginFails(h, u, p) \/ LoginPasses(h, u, p)
        PROVE  LockInv'
    <2>1. u \notin sealed /\ job'[h].user = u
      BY <1>3 DEF LoginFails, LoginPasses, Admitted, LockInv, Start, Typed, AuthTypeOK
    <2> QED  BY <1>1, <1>2, <2>1 DEF LockInv, InFlight, Busy
  <1>4. CASE job'[h].pc \notin LoginPcs
    BY <1>1, <1>2, <1>4, LockQuiet
  <1>5. job'[h].pc \notin LoginPcs
        \/ \E u \in Users, p \in Passwords : LoginFails(h, u, p) \/ LoginPasses(h, u, p)
    BY DEF Request, VerifyGets, RefreshGets, ConfirmReads, ChangeReads, Start, LoginPcs, Typed,
           AuthTypeOK
  <1> QED  BY <1>3, <1>4, <1>5

LEMMA LockHandlers ==
    ASSUME Typed, LockInv, NEW h \in Handlers, HandlerStep(h) \/ Abort(h)
    PROVE  LockInv'
  <1> DEFINE u == job[h].user
  <1>1. \A g \in Handlers \ {h} : job'[g] = job[g]
    BY OthersWait
  <1>2. job'[h].pc \notin LoginPcs
    <2>1. LoginCounts(h) \/ LoginClears(h) \/ LoginChallenges(h) => job'[h].pc \notin LoginPcs
      <3>1. job[h].pc = "clear" =>
               job[h] \in [pc : {"clear", "challenge"}, user : Users, mfaEnabled : BOOLEAN]
        BY DEF Job, Idle, Typed, AuthTypeOK
      <3> QED  BY <3>1 DEF LoginCounts, LoginClears, LoginChallenges, At, Start, Answer, Idle,
                           NewSession, LoginPcs, Typed, AuthTypeOK
    <2>2. (\E code \in Codes : VerifyChecks(h, code)) \/ VerifyRefused(h) \/ VerifyConsumes(h)
             => job'[h].pc \notin LoginPcs
      BY DEF VerifyChecks, VerifyRefused, VerifyConsumes, Start, Answer, Idle, NewSession,
             LoginPcs, Typed, AuthTypeOK
    <2>3. RefreshRevokes(h) \/ RefreshReloads(h) \/ RefreshRefused(h)
             => job'[h].pc \notin LoginPcs
      <3>1. job[h].pc = "revoke" => job[h] \in [pc : {"revoke", "reload"}, user : Users, jti : Jtis]
        BY DEF Job, Idle, Typed, AuthTypeOK
      <3> QED  BY <3>1 DEF RefreshRevokes, RefreshReloads, RefreshRefused, At, Start, Answer,
                           Idle, LoginPcs, Typed, AuthTypeOK
    <2>4. IssueTokens(h) \/ ConfirmEnables(h) \/ ChangeWrites(h) \/ Abort(h)
             => job'[h].pc \notin LoginPcs
      BY DEF IssueTokens, ConfirmEnables, ChangeWrites, Abort, Answer, Idle, LoginPcs, Typed,
             AuthTypeOK
    <2> QED  BY <2>1, <2>2, <2>3, <2>4 DEF HandlerStep
  <1>3. ASSUME LoginCounts(h)
        PROVE  LockInv'
    <2>1. u \in Users /\ u \notin sealed
      <3>1. job[h].pc = "count" /\ u \in Users
        BY <1>3, CountsRow DEF LoginCounts, At
      <3>2. job[h] # Idle
        BY <3>1 DEF Idle
      <3> QED  BY <3>1, <3>2 DEF LockInv, InFlight, Busy, LoginPcs
    <2>2. \A v \in sealed : user'[v] = user[v]
      BY <1>3, <2>1, CountsRow DEF OthersKeep, AsBefore, Typed, AuthTypeOK
    <2>3. u \in sealed' =>
             user'[u].locked /\ \A g \in Handlers \ {h} : ~(Busy(g, u) /\ job[g].pc \in LoginPcs)
      BY <1>3, <2>1, CountsRow DEF LoginCounts
    <2>4. sealed' \subseteq sealed \union {u}
      BY <1>3 DEF LoginCounts
    <2> QED  BY <1>1, <1>2, <2>1, <2>2, <2>3, <2>4 DEF LockInv, InFlight, Busy
  <1>4. ASSUME LoginClears(h)
        PROVE  LockInv'
    <2>1. u \in Users /\ u \notin sealed /\ sealed' = sealed
      <3>1. job[h].pc = "clear" /\ u \in Users /\ sealed' = sealed
        BY <1>4, ClearsRow DEF LoginClears, At
      <3>2. job[h] # Idle
        BY <3>1 DEF Idle
      <3> QED  BY <3>1, <3>2 DEF LockInv, InFlight, Busy, LoginPcs
    <2>2. \A v \in sealed : user'[v] = user[v]
      BY <1>4, <2>1, ClearsRow DEF OthersKeep, AsBefore, Typed, AuthTypeOK
    <2> QED  BY <1>1, <1>2, <2>1, <2>2, LockQuiet
  <1>5. ASSUME ConfirmEnables(h) \/ ChangeWrites(h)
        PROVE  LockInv'
    <2>1. sealed' = sealed /\ \A v \in sealed : user'[v].locked = user[v].locked
      BY <1>5, EnablesRow, ChangesRow DEF ConfirmEnables, ChangeWrites, OthersKeep, AsBefore,
         KeepsLock, Typed, AuthTypeOK
    <2> QED  BY <1>1, <1>2, <2>1, LockQuiet
  <1>6. ASSUME UNCHANGED <<user, sealed>>
        PROVE  LockInv'
    BY <1>1, <1>2, <1>6, LockQuiet
  <1> QED  BY <1>3, <1>4, <1>5, <1>6 DEF HandlerStep, Abort, LoginChallenges, VerifyChecks,
              VerifyRefused, VerifyConsumes, RefreshRevokes, RefreshReloads, RefreshRefused,
              IssueTokens, stores, history

LEMMA LockStep ==
    ASSUME Typed, LockInv, [AuthNext]_vars
    PROVE  LockInv'
  <1>1. CASE UNCHANGED vars
    BY <1>1 DEF vars, stores, history, LockInv, InFlight, Busy
  <1>2. ASSUME \/ \E j \in Jtis : Logout(j) \/ TokenExpires(j)
               \/ \E c \in Challenges : ChallengeExpires(c)
        PROVE  LockInv'
    <2>1. UNCHANGED <<user, sealed, job>>
      BY <1>2 DEF Logout, TokenExpires, ChallengeExpires, history
    <2> QED  BY <2>1, LockQuiet
  <1>3. ASSUME NEW u \in Users, AccountStep(u)
        PROVE  LockInv'
    <2>1. UNCHANGED job
      BY <1>3, AllWait
    <2>2. sealed' \subseteq sealed /\ (u \in sealed' => KeepsLock(u))
      BY <1>3, AccountRows DEF AccountStep, SetupMfa, LockEnds, CreateMember, BlockMember,
         UnblockMember, ResetPassword, history
    <2> QED  BY <1>3, <2>1, <2>2, AccountRows, LockQuiet DEF OthersKeep, AsBefore, KeepsLock,
                Typed, AuthTypeOK
  <1> QED  BY <1>1, <1>2, <1>3, LockRequests, LockHandlers DEF AuthNext

-----------------------------------------------------------------------------
(* Password resets.  The flag stays because a password change in flight    *)
(* was checked against the temporary password or met the reset.            *)

ResetInv ==
    \A u \in provisional :
        /\ user[u].mustChange
        /\ \A h \in Handlers : Busy(h, u) /\ At(h, "rehash") => job[h].old = user[u].password

LEMMA ResetQuiet ==
    ASSUME Typed, ResetInv, provisional' \subseteq provisional,
           \A u \in provisional' : KeepsSecret(u),
           \A g \in Handlers : job'[g] = job[g] \/ job'[g].pc # "rehash"
    PROVE  ResetInv'
  BY DEF ResetInv, Busy, At, KeepsSecret

LEMMA ResetRequests ==
    ASSUME Typed, ResetInv, NEW h \in Handlers, Request(h)
    PROVE  ResetInv'
  <1>1. \A g \in Handlers \ {h} : job'[g] = job[g]
    BY OthersWait
  <1>2. UNCHANGED <<user, provisional>>
    BY DEF Request, LoginFails, LoginPasses, VerifyGets, RefreshGets, ConfirmReads, ChangeReads,
           stores, history
  <1>3. ASSUME NEW u \in Users, NEW old \in Passwords, NEW new \in Passwords,
               ChangeReads(h, u, old, new)
        PROVE  ResetInv'
    <2>1. job'[h].user = u /\ job'[h].old = user[u].password
      BY <1>3 DEF ChangeReads, Start, Typed, AuthTypeOK
    <2> QED  BY <1>1, <1>2, <2>1 DEF ResetInv, Busy, At
  <1>4. CASE job'[h].pc # "rehash"
    BY <1>1, <1>2, <1>4, ResetQuiet DEF KeepsSecret
  <1>5. \/ job'[h].pc # "rehash"
        \/ \E u \in Users, old, new \in Passwords : ChangeReads(h, u, old, new)
    BY DEF Request, LoginFails, LoginPasses, VerifyGets, RefreshGets, ConfirmReads, Start, Typed,
           AuthTypeOK
  <1> QED  BY <1>3, <1>4, <1>5

\* What a handler is at after each of its steps.
LEMMA NextPc ==
    ASSUME Typed, NEW h \in Handlers
    PROVE  /\ LoginCounts(h) => job'[h] = Idle
           /\ LoginClears(h) => job'[h].pc \in {"challenge", "issue"}
           /\ LoginChallenges(h) => job'[h] = Idle
           /\ (\E code \in Codes : VerifyChecks(h, code)) => job'[h].pc = "consume"
           /\ VerifyRefused(h) => job'[h] = Idle
           /\ VerifyConsumes(h) => job'[h].pc = "issue"
           /\ RefreshRevokes(h) => job'[h].pc = "reload"
           /\ RefreshReloads(h) => job'[h].pc = "issue"
           /\ RefreshRefused(h) => job'[h] = Idle
           /\ IssueTokens(h) \/ ConfirmEnables(h) \/ ChangeWrites(h) \/ Abort(h) => job'[h] = Idle
           /\ job'[h] = Idle => job'[h].pc = "idle"
  <1>1. job[h].pc = "clear" =>
           job[h] \in [pc : {"clear", "challenge"}, user : Users, mfaEnabled : BOOLEAN]
    BY DEF Job, Idle, Typed, AuthTypeOK
  <1>2. job[h].pc = "revoke" => job[h] \in [pc : {"revoke", "reload"}, user : Users, jti : Jtis]
    BY DEF Job, Idle, Typed, AuthTypeOK
  <1>3. LoginCounts(h) => job'[h] = Idle
    BY DEF LoginCounts, Answer, Typed, AuthTypeOK
  <1>4. LoginClears(h) => job'[h].pc \in {"challenge", "issue"}
    BY <1>1 DEF LoginClears, At, Start, NewSession, Typed, AuthTypeOK
  <1>5. LoginChallenges(h) => job'[h] = Idle
    BY DEF LoginChallenges, Answer, Typed, AuthTypeOK
  <1>6. (\E code \in Codes : VerifyChecks(h, code)) => job'[h].pc = "consume"
    BY DEF VerifyChecks, Start, Typed, AuthTypeOK
  <1>7. /\ VerifyRefused(h) => job'[h] = Idle
        /\ VerifyConsumes(h) => job'[h].pc = "issue"
    BY DEF VerifyRefused, VerifyConsumes, Start, Answer, NewSession, Typed, AuthTypeOK
  <1>8. /\ RefreshRevokes(h) => job'[h].pc = "reload"
        /\ RefreshReloads(h) => job'[h].pc = "issue"
        /\ RefreshRefused(h) => job'[h] = Idle
    BY <1>2 DEF RefreshRevokes, RefreshReloads, RefreshRefused, At, Start, Answer, Typed, AuthTypeOK
  <1>9. IssueTokens(h) \/ ConfirmEnables(h) \/ ChangeWrites(h) \/ Abort(h) => job'[h] = Idle
    BY DEF IssueTokens, ConfirmEnables, ChangeWrites, Abort, Answer, Typed, AuthTypeOK
  <1> QED  BY <1>3, <1>4, <1>5, <1>6, <1>7, <1>8, <1>9 DEF Idle

LEMMA ResetHandlers ==
    ASSUME Typed, ResetInv, NEW h \in Handlers, HandlerStep(h) \/ Abort(h)
    PROVE  ResetInv'
  <1>1. \A g \in Handlers \ {h} : job'[g] = job[g]
    BY OthersWait
  <1>2. job'[h].pc # "rehash"
    BY NextPc DEF HandlerStep
  <1>3. ASSUME ChangeWrites(h)
        PROVE  ResetInv'
    <2> DEFINE u == job[h].user
    <2>1. u \in Users /\ OthersKeep(u)
      BY <1>3, ChangesRow
    <2>2. u \in provisional => job[h].old = user[u].password
      <3>1. job[h] # Idle /\ At(h, "rehash")
        BY <1>3 DEF ChangeWrites, At, Idle
      <3> QED  BY <3>1 DEF ResetInv, Busy
    <2>3. provisional' \subseteq provisional /\ u \notin provisional'
      BY <1>3, <2>2 DEF ChangeWrites
    <2> QED  BY <1>1, <1>2, <2>1, <2>3, ResetQuiet DEF OthersKeep, AsBefore, KeepsSecret, Typed,
                AuthTypeOK
  <1>4. ASSUME provisional' = provisional, \A u \in provisional : KeepsSecret(u)
        PROVE  ResetInv'
    BY <1>1, <1>2, <1>4, ResetQuiet
  <1>5. ASSUME LoginCounts(h) \/ LoginClears(h) \/ ConfirmEnables(h)
        PROVE  provisional' = provisional /\ \A u \in provisional : KeepsSecret(u)
    BY <1>5, CountsRow, ClearsRow, EnablesRow DEF LoginCounts, LoginClears, ConfirmEnables,
       OthersKeep, AsBefore, KeepsSecret, Typed, AuthTypeOK
  <1>6. ASSUME UNCHANGED <<user, provisional>>
        PROVE  provisional' = provisional /\ \A u \in provisional : KeepsSecret(u)
    BY <1>6 DEF KeepsSecret
  <1> QED  BY <1>3, <1>4, <1>5, <1>6 DEF HandlerStep, Abort, LoginChallenges, VerifyChecks,
              VerifyRefused, VerifyConsumes, RefreshRevokes, RefreshReloads, RefreshRefused,
              IssueTokens, stores, history

LEMMA ResetStep ==
    ASSUME Typed, ResetInv, [AuthNext]_vars
    PROVE  ResetInv'
  <1>1. CASE UNCHANGED vars
    BY <1>1, ResetQuiet DEF vars, stores, history, KeepsSecret
  <1>2. ASSUME \/ \E j \in Jtis : Logout(j) \/ TokenExpires(j)
               \/ \E c \in Challenges : ChallengeExpires(c)
        PROVE  ResetInv'
    <2>1. UNCHANGED <<user, provisional, job>>
      BY <1>2 DEF Logout, TokenExpires, ChallengeExpires, history
    <2> QED  BY <2>1, ResetQuiet DEF KeepsSecret
  <1>3. ASSUME NEW u \in Users, AccountStep(u)
        PROVE  ResetInv'
    <2>1. UNCHANGED job /\ OthersKeep(u)
      BY <1>3, AllWait, AccountRows
    <2>2. CASE ResetPassword(u)
      <3>1. user'[u].mustChange /\ provisional' \subseteq provisional \union {u}
        BY <1>3, <2>2, AccountRows DEF ResetPassword
      <3>2. u \in provisional' => ~InFlight({"rehash"}, u)
        BY <2>2 DEF ResetPassword
      <3>3. \A v \in provisional' \ {u} : v \in provisional /\ user'[v] = user[v]
        BY <2>1, <3>1 DEF OthersKeep, AsBefore, Typed, AuthTypeOK
      <3> QED  BY <2>1, <3>1, <3>2, <3>3 DEF ResetInv, Busy, At, InFlight
    <2>3. CASE CreateMember(u)
      <3>1. user[u] = NoUser /\ provisional' = provisional
        BY <1>3, <2>3, AccountRows DEF CreateMember, history
      <3>2. ~NoUser.mustChange
        BY DEF NoUser
      <3>3. u \notin provisional
        BY <3>1, <3>2 DEF ResetInv
      <3> QED  BY <2>1, <3>1, <3>3, ResetQuiet DEF OthersKeep, AsBefore, KeepsSecret, Typed,
                  AuthTypeOK
    <2>4. CASE SetupMfa(u) \/ LockEnds(u) \/ BlockMember(u) \/ UnblockMember(u)
      <3>1. KeepsSecret(u) /\ provisional' = provisional
        BY <1>3, <2>4, AccountRows DEF SetupMfa, LockEnds, BlockMember, UnblockMember, history
      <3> QED  BY <2>1, <3>1, ResetQuiet DEF OthersKeep, AsBefore, KeepsSecret, Typed, AuthTypeOK
    <2> QED  BY <1>3, <2>2, <2>3, <2>4 DEF AccountStep
  <1> QED  BY <1>1, <1>2, <1>3, ResetRequests, ResetHandlers DEF AuthNext

-----------------------------------------------------------------------------
(* The MFA gate.  A handler that is about to open a gated session has seen *)
(* a right code, and one that renews it finds MFA still enabled.           *)

GateToken(t) ==
    t.gated => t.session \in proved /\ t.mfaVerified /\ user[t.user].mfaEnabled
GateJob(a) ==
    /\ a.pc = "consume" => a.checked /\ user[a.user].mfaEnabled
    /\ a.pc = "issue" /\ a.gated =>
          /\ a.mfaVerified /\ user[a.user].mfaEnabled
          /\ a.session = None => a.checked
          /\ a.session # None => a.session \in proved
GateInv ==
    /\ \A j \in Jtis : token[j] # NoToken => GateToken(token[j])
    /\ \A h \in Handlers : GateJob(job[h])

\* Nothing disables MFA, and a session in which a code was entered remains so.
LEMMA GateGrows ==
    ASSUME Typed, AuthNext
    PROVE  /\ \A u \in Users : user[u].mfaEnabled => user'[u].mfaEnabled
           /\ proved \subseteq proved'
  <1>1. ASSUME NEW h \in Handlers, Request(h) \/ HandlerStep(h) \/ Abort(h)
        PROVE  /\ \A u \in Users : user[u].mfaEnabled => user'[u].mfaEnabled
               /\ proved \subseteq proved'
    <2>1. CASE Request(h) \/ Abort(h)
      BY <2>1 DEF Request, Abort, LoginFails, LoginPasses, VerifyGets, RefreshGets, ConfirmReads,
         ChangeReads, stores, history
    <2>2. CASE LoginCounts(h) \/ LoginClears(h) \/ ChangeWrites(h)
      <3>1. LET u == job[h].user IN u \in Users /\ OthersKeep(u) /\ KeepsGate(u)
        BY <2>2, CountsRow, ClearsRow, ChangesRow
      <3> QED  BY <2>2, <3>1 DEF LoginCounts, LoginClears, ChangeWrites, OthersKeep, AsBefore,
                  KeepsGate
    <2>3. CASE ConfirmEnables(h)
      BY <2>3, EnablesRow DEF ConfirmEnables, OthersKeep, AsBefore
    <2>4. CASE IssueTokens(h)
      BY <2>4 DEF IssueTokens
    <2> QED  BY <1>1, <2>1, <2>2, <2>3, <2>4 DEF HandlerStep, LoginChallenges, VerifyChecks,
                VerifyRefused, VerifyConsumes, RefreshRevokes, RefreshReloads, RefreshRefused,
                stores, history
  <1>2. ASSUME \/ \E j \in Jtis : Logout(j) \/ TokenExpires(j)
               \/ \E c \in Challenges : ChallengeExpires(c)
        PROVE  UNCHANGED <<user, proved>>
    BY <1>2 DEF Logout, TokenExpires, ChallengeExpires, history
  <1>3. ASSUME NEW u \in Users, AccountStep(u)
        PROVE  OthersKeep(u) /\ KeepsGate(u) /\ proved' = proved
    BY <1>3, AccountRows DEF AccountStep, SetupMfa, LockEnds, CreateMember, BlockMember,
       UnblockMember, ResetPassword, history
  <1> QED  BY <1>1, <1>2, <1>3 DEF AuthNext, OthersKeep, AsBefore, KeepsGate

LEMMA GateQuiet ==
    ASSUME Typed, Typed', GateInv, UNCHANGED token,
           \A u \in Users : user[u].mfaEnabled => user'[u].mfaEnabled,
           proved \subseteq proved',
           \A g \in Handlers : job'[g] = job[g] \/ job'[g].pc \notin {"consume", "issue"}
    PROVE  GateInv'
  <1>1. \A j \in Jtis : token'[j] # NoToken => GateToken(token[j])'
    BY TokenShapes DEF GateInv, GateToken
  <1>2. ASSUME NEW g \in Handlers  PROVE GateJob(job[g])'
    <2>1. job[g] \in Job \union {Idle} /\ GateJob(job[g])
      BY DEF GateInv, Typed, AuthTypeOK
    <2>2. CASE job'[g] = job[g]
      BY <2>1, <2>2, JobShapes DEF GateJob
    <2> QED  BY <2>2 DEF GateJob
  <1> QED  BY <1>1, <1>2 DEF GateInv

\* A step of h that only changes its request.
LEMMA GateJobStep ==
    ASSUME Typed, Typed', GateInv, NEW h \in Handlers, UNCHANGED <<token, user, proved>>,
           \A g \in Handlers \ {h} : job'[g] = job[g], GateJob(job[h])'
    PROVE  GateInv'
  BY DEF GateInv, GateToken, GateJob

LEMMA GateIssues ==
    ASSUME Typed, Typed', GateInv, NEW h \in Handlers, IssueTokens(h)
    PROVE  GateInv'
  <1> DEFINE a == job[h]
  <1>1. /\ a \in Job \union {Idle} /\ a.pc = "issue" /\ a.user \in Users
        /\ a.session \in Jtis \union {None} /\ a.gated \in BOOLEAN
        /\ a.checked \in BOOLEAN /\ a.mfaVerified \in BOOLEAN /\ GateJob(a)
    BY JobRow, JobShapes DEF IssueTokens, At, GateInv
  <1> DEFINE s(j) == IF a.session = None THEN j ELSE a.session
  <1>2. PICK j \in Jtis :
           /\ token' = [token EXCEPT ![j] = [user |-> a.user, session |-> s(j),
                                             gated |-> a.gated, mfaVerified |-> a.mfaVerified]]
           /\ proved' = IF a.checked THEN proved \union {j} ELSE proved
    BY DEF IssueTokens
  <1>3. a.gated => s(j) \in proved' /\ a.mfaVerified /\ user[a.user].mfaEnabled
    BY <1>1, <1>2 DEF GateJob
  <1>4. UNCHANGED user /\ job'[h] = Idle /\ \A g \in Handlers \ {h} : job'[g] = job[g]
    BY NextPc DEF IssueTokens, Answer, Typed, AuthTypeOK
  <1>5. token'[j] = [user |-> a.user, session |-> s(j), gated |-> a.gated,
                     mfaVerified |-> a.mfaVerified]
        /\ \A k \in Jtis \ {j} : token'[k] = token[k]
    BY <1>2 DEF Typed, AuthTypeOK
  <1> HIDE DEF s, a
  <1>6. GateToken(token[j])'
    BY <1>3, <1>4, <1>5 DEF GateToken
  <1>7. \A k \in Jtis \ {j} : token'[k] # NoToken => GateToken(token[k])'
    BY <1>2, <1>4, <1>5 DEF GateInv, GateToken
  <1>8. \A g \in Handlers : GateJob(job[g])'
    <2>1. GateJob(job[h])'
      BY <1>4 DEF GateJob, Idle
    <2>2. proved \subseteq proved'
      BY <1>2
    <2> QED  BY <1>4, <2>1, <2>2 DEF GateInv, GateJob
  <1> QED  BY <1>6, <1>7, <1>8 DEF GateInv

LEMMA GateHandlers ==
    ASSUME Typed, Typed', GateInv, NEW h \in Handlers, AuthNext,
           Request(h) \/ HandlerStep(h) \/ Abort(h)
    PROVE  GateInv'
  <1>1. \A g \in Handlers \ {h} : job'[g] = job[g]
    BY OthersWait
  <1>2. /\ \A u \in Users : user[u].mfaEnabled => user'[u].mfaEnabled
        /\ proved \subseteq proved'
    BY GateGrows
  <1>3. ASSUME Request(h) \/ Abort(h)
        PROVE  GateInv'
    <2>1. UNCHANGED token /\ job'[h].pc \notin {"consume", "issue"}
      <3>1. CASE Request(h)
        BY <3>1 DEF Request, LoginFails, LoginPasses, VerifyGets, RefreshGets,
           ConfirmReads, ChangeReads, Start, stores, Typed, AuthTypeOK
      <3>2. CASE Abort(h)
        BY <3>2, NextPc DEF Abort, stores
      <3> QED  BY <1>3, <3>1, <3>2
    <2> QED  BY <1>1, <1>2, <2>1, GateQuiet
  <1>4. CASE LoginCounts(h) \/ LoginChallenges(h) \/ VerifyRefused(h) \/ RefreshRevokes(h)
             \/ RefreshRefused(h) \/ ConfirmEnables(h) \/ ChangeWrites(h)
    <2>1. UNCHANGED token /\ job'[h].pc \notin {"consume", "issue"}
      BY <1>4, NextPc DEF LoginCounts, LoginChallenges, VerifyRefused, RefreshRevokes,
         RefreshRefused, ConfirmEnables, ChangeWrites, stores
    <2> QED  BY <1>1, <1>2, <2>1, GateQuiet
  <1>5. CASE LoginClears(h)
    <2>1. UNCHANGED <<token, proved>>
          /\ \/ job'[h].pc = "challenge"
             \/ job'[h] = NewSession(job[h].user, FALSE, FALSE, FALSE)
      <3>1. job[h].pc = "clear" =>
               job[h] \in [pc : {"clear", "challenge"}, user : Users, mfaEnabled : BOOLEAN]
        BY DEF Job, Idle, Typed, AuthTypeOK
      <3> QED  BY <1>5, <3>1 DEF LoginClears, At, Start, Typed, AuthTypeOK
    <2>2. GateJob(job[h])'
      BY <2>1 DEF GateJob, NewSession
    <2>3. \A j \in Jtis : token'[j] # NoToken => GateToken(token[j])'
      BY <1>2, <2>1, TokenShapes DEF GateInv, GateToken
    <2>4. ASSUME NEW g \in Handlers \ {h}  PROVE GateJob(job[g])'
      <3>1. job[g] \in Job \union {Idle} /\ GateJob(job[g]) /\ job'[g] = job[g]
        BY <1>1 DEF GateInv, Typed, AuthTypeOK
      <3> QED  BY <1>2, <3>1, JobShapes DEF GateJob
    <2> QED  BY <2>2, <2>3, <2>4 DEF GateInv
  <1>6. ASSUME NEW code \in Codes, VerifyChecks(h, code)
        PROVE  GateInv'
    <2>1. /\ UNCHANGED <<token, user, proved>>
          /\ job'[h] = [pc |-> "consume", user |-> job[h].user, challenge |-> job[h].challenge,
                        checked |-> code = user[job[h].user].mfaSecret]
          /\ code = user[job[h].user].mfaSecret /\ user[job[h].user].mfaEnabled
      BY <1>6 DEF VerifyChecks, Start, stores, history, Typed, AuthTypeOK
    <2>2. /\ job'[h].checked = (code = user[job[h].user].mfaSecret)
          /\ job'[h].user = job[h].user /\ job'[h].pc = "consume"
      BY <2>1
    <2>3. job'[h].checked
      BY <2>1, <2>2
    <2>4. GateJob(job[h])'
      BY <2>1, <2>2, <2>3 DEF GateJob
    <2> QED  BY <1>1, <2>1, <2>4, GateJobStep
  <1>7. CASE VerifyConsumes(h)
    <2>1. /\ UNCHANGED <<token, user, proved>>
          /\ job'[h] = NewSession(job[h].user, TRUE, job[h].checked, TRUE)
          /\ job[h].pc = "consume"
      BY <1>7 DEF VerifyConsumes, At, Start, history, Typed, AuthTypeOK
    <2>2. GateJob(job[h])'
      BY <2>1 DEF GateInv, GateJob, NewSession
    <2> QED  BY <1>1, <2>1, <2>2, GateJobStep
  <1>8. CASE RefreshReloads(h)
    <2> DEFINE old == token[job[h].jti]
    <2>1. /\ job[h] \in Job \union {Idle} /\ job[h].pc = "reload" /\ Grounded(job[h])
          /\ job[h].jti \in Jtis
      BY <1>8, JobShapes DEF RefreshReloads, At, Typed, AuthTypeOK
    <2>2. old # NoToken /\ old.user = job[h].user /\ old.session \in Jtis
      BY <2>1, TokenShapes DEF Grounded
    <2>3. GateToken(old)
      BY <2>1, <2>2 DEF GateInv
    <2>4. /\ UNCHANGED <<token, user, proved>>
          /\ job'[h] = [pc |-> "issue", user |-> job[h].user, session |-> old.session,
                        gated |-> old.gated, checked |-> FALSE,
                        mfaVerified |-> user[job[h].user].mfaEnabled]
      BY <1>8 DEF RefreshReloads, Start, stores, history, Typed, AuthTypeOK
    <2>5. old.session # None
      BY <2>2, NoneFreshAssumption
    <2> HIDE DEF old
    <2>6. GateJob(job[h])'
      BY <2>2, <2>3, <2>4, <2>5 DEF GateJob, GateToken
    <2> QED  BY <1>1, <2>4, <2>6, GateJobStep
  <1>9. CASE IssueTokens(h)
    BY <1>9, GateIssues
  <1> QED  BY <1>3, <1>4, <1>5, <1>6, <1>7, <1>8, <1>9 DEF HandlerStep

LEMMA GateStep ==
    ASSUME Typed, Typed', GateInv, [AuthNext]_vars
    PROVE  GateInv'
  <1>1. CASE UNCHANGED vars
    BY <1>1, GateQuiet DEF vars, stores, history
  <1>2. ASSUME AuthNext,
               \/ \E j \in Jtis : Logout(j) \/ TokenExpires(j)
               \/ \E c \in Challenges : ChallengeExpires(c)
               \/ \E u \in Users : AccountStep(u)
        PROVE  GateInv'
    <2>1. UNCHANGED <<token, job>>
      BY <1>2, AllWait DEF Logout, TokenExpires, ChallengeExpires, AccountStep, SetupMfa, LockEnds,
         CreateMember, BlockMember, UnblockMember, ResetPassword
    <2> QED  BY <1>2, <2>1, GateGrows, GateQuiet
  <1> QED  BY <1>1, <1>2, GateHandlers DEF AuthNext

-----------------------------------------------------------------------------
(* Logging out.  The session of a logged-out last token has no token and   *)
(* no handler left to come back from, and its name is never drawn again.   *)

\* The handler with request a is at work on session s.
WorksOn(a, s) ==
    \/ a.pc \in {"revoke", "reload"} /\ token[a.jti].session = s
    \/ a.pc = "issue" /\ a.session = s

Named(a) == a.pc = "issue" /\ a.session # None => token[a.session] # NoToken

ClosedInv ==
    /\ \A j \in live : token[j].session \notin closed
    /\ \A j \in Jtis : token[j] # NoToken => token[token[j].session] # NoToken
    /\ \A h \in Handlers : Named(job[h])
    /\ \A s \in closed : token[s] # NoToken /\ \A h \in Handlers : ~WorksOn(job[h], s)

\* A step that issues and closes nothing, and whose handler h, if any, ends up
\* at work on no closed session.
LEMMA ClosedQuiet ==
    ASSUME Typed, ClosedInv, UNCHANGED <<token, closed>>, live' \subseteq live,
           \A g \in Handlers : \/ job'[g] = job[g]
                               \/ Named(job'[g]) /\ \A s \in closed : ~WorksOn(job'[g], s)
    PROVE  ClosedInv'
  BY DEF ClosedInv, Named, WorksOn

LEMMA ClosedRequests ==
    ASSUME Typed, ClosedInv, NEW h \in Handlers, Request(h)
    PROVE  ClosedInv'
  <1>1. \A g \in Handlers \ {h} : job'[g] = job[g]
    BY OthersWait
  <1>2. UNCHANGED <<token, live, closed>>
    BY DEF Request, LoginFails, LoginPasses, VerifyGets, RefreshGets, ConfirmReads, ChangeReads,
           stores, history
  <1>3. ASSUME NEW j \in Jtis, RefreshGets(h, j)
        PROVE  Named(job'[h]) /\ \A s \in closed : ~WorksOn(job'[h], s)
    BY <1>3 DEF RefreshGets, Start, ClosedInv, Named, WorksOn, Typed, AuthTypeOK
  <1>4. ASSUME job'[h].pc \notin {"revoke", "reload", "issue"}
        PROVE  Named(job'[h]) /\ \A s \in closed : ~WorksOn(job'[h], s)
    BY <1>4 DEF Named, WorksOn
  <1>5. \/ job'[h].pc \notin {"revoke", "reload", "issue"}
        \/ \E j \in Jtis : RefreshGets(h, j)
    BY DEF Request, LoginFails, LoginPasses, VerifyGets, ConfirmReads, ChangeReads, Start, Typed,
           AuthTypeOK
  <1> QED  BY <1>1, <1>2, <1>3, <1>4, <1>5, ClosedQuiet

LEMMA ClosedIssues ==
    ASSUME Typed, Typed', ClosedInv, NEW h \in Handlers, IssueTokens(h)
    PROVE  ClosedInv'
  <1> DEFINE a == job[h]
  <1>1. /\ a \in Job \union {Idle} /\ a.pc = "issue" /\ a.session \in Jtis \union {None}
        /\ Named(a)
    BY JobRow, JobShapes DEF IssueTokens, At, ClosedInv
  <1> DEFINE s(j) == IF a.session = None THEN j ELSE a.session
  <1>2. PICK j \in Jtis :
           /\ token[j] = NoToken
           /\ token' = [token EXCEPT ![j] = [user |-> a.user, session |-> s(j),
                                             gated |-> a.gated, mfaVerified |-> a.mfaVerified]]
           /\ live' = live \union {j}
    BY DEF IssueTokens
  <1>3. /\ UNCHANGED closed /\ job'[h] = Idle /\ \A g \in Handlers \ {h} : job'[g] = job[g]
        /\ token'[j].session = s(j) /\ token'[j] # NoToken
        /\ \A k \in Jtis \ {j} : token'[k] = token[k]
    <2>1. a.user # None
      BY <1>1, JobShapes, NoneFreshAssumption
    <2> QED  BY <1>2, <2>1, NextPc DEF IssueTokens, Answer, NoToken, Typed, AuthTypeOK
  <1>4. s(j) \notin closed /\ token'[s(j)] # NoToken
    <2>1. CASE a.session = None
      BY <1>2, <1>3, <2>1 DEF ClosedInv
    <2>2. CASE a.session # None
      <3>1. token[a.session] # NoToken /\ a.session \in Jtis \ {j}
        BY <1>1, <1>2, <2>2 DEF Named
      <3>2. a.session \notin closed
        BY <1>1 DEF ClosedInv, WorksOn
      <3> QED  BY <1>3, <2>2, <3>1, <3>2
    <2> QED  BY <2>1, <2>2
  <1> HIDE DEF s, a
  <1>5. \A k \in live' : token'[k].session \notin closed'
    BY <1>2, <1>3, <1>4 DEF ClosedInv, Typed, AuthTypeOK
  <1>6. \A k \in Jtis : token'[k] # NoToken => token'[token'[k].session] # NoToken
    <2> SUFFICES ASSUME NEW k \in Jtis \ {j}, token[k] # NoToken
                 PROVE  token'[token[k].session] # NoToken
      BY <1>3, <1>4
    <2>1. token[k].session \in Jtis /\ token[token[k].session] # NoToken
      BY TokenShapes DEF ClosedInv
    <2> QED  BY <1>2, <1>3, <2>1
  <1>7. ASSUME NEW g \in Handlers  PROVE Named(job[g])'
    <2>1. CASE g = h
      BY <1>3, <2>1 DEF Named, Idle
    <2>2. CASE g # h
      <3>1. Named(job[g]) /\ job[g] \in Job \union {Idle} /\ job'[g] = job[g]
        BY <1>3, <2>2 DEF ClosedInv, Typed, AuthTypeOK
      <3> QED  BY <1>2, <1>3, <3>1, JobShapes DEF Named
    <2> QED  BY <2>1, <2>2
  <1>8. ASSUME NEW t \in closed'
        PROVE  token'[t] # NoToken /\ \A g \in Handlers : ~WorksOn(job[g], t)'
    <2>1. t \in closed /\ t \in Jtis \ {j} /\ token'[t] = token[t]
      BY <1>2, <1>3 DEF ClosedInv, Typed, AuthTypeOK
    <2>2. ASSUME NEW g \in Handlers \ {h}  PROVE ~WorksOn(job[g], t)'
      <3>1. /\ ~WorksOn(job[g], t) /\ job[g] \in Job \union {Idle} /\ job'[g] = job[g]
            /\ Grounded(job[g])
        BY <1>3, <2>1 DEF ClosedInv, Typed, AuthTypeOK
      <3>2. job[g].pc \in {"revoke", "reload"} => token'[job[g].jti] = token[job[g].jti]
        BY <1>2, <1>3, <3>1, JobShapes DEF Grounded
      <3> QED  BY <3>1, <3>2 DEF WorksOn
    <2>3. ~WorksOn(job[h], t)'
      BY <1>3 DEF WorksOn, Idle
    <2> QED  BY <2>1, <2>2, <2>3 DEF ClosedInv
  <1> QED  BY <1>5, <1>6, <1>7, <1>8 DEF ClosedInv

LEMMA ClosedHandlers ==
    ASSUME Typed, Typed', ClosedInv, NEW h \in Handlers, HandlerStep(h) \/ Abort(h)
    PROVE  ClosedInv'
  <1>1. \A g \in Handlers \ {h} : job'[g] = job[g]
    BY OthersWait
  <1>2. CASE IssueTokens(h)
    BY <1>2, ClosedIssues
  <1>3. ASSUME ~IssueTokens(h)
        PROVE  UNCHANGED <<token, closed>> /\ live' \subseteq live
    <2>1. LoginCounts(h) \/ LoginClears(h) \/ LoginChallenges(h) \/ ConfirmEnables(h)
          \/ ChangeWrites(h) \/ Abort(h) => UNCHANGED <<token, closed, live>>
      BY DEF LoginCounts, LoginClears, LoginChallenges, ConfirmEnables, ChangeWrites, Abort,
             stores, history
    <2>2. (\E code \in Codes : VerifyChecks(h, code)) \/ VerifyRefused(h) \/ VerifyConsumes(h)
          \/ RefreshReloads(h) \/ RefreshRefused(h) => UNCHANGED <<token, closed, live>>
      BY DEF VerifyChecks, VerifyRefused, VerifyConsumes, RefreshReloads, RefreshRefused,
             stores, history
    <2>3. RefreshRevokes(h) => UNCHANGED <<token, closed>> /\ live' \subseteq live
      BY DEF RefreshRevokes, history
    <2> QED  BY <1>3, <2>1, <2>2, <2>3 DEF HandlerStep
  <1>4. ASSUME job'[h].pc \notin {"revoke", "reload", "issue"}
        PROVE  Named(job'[h]) /\ \A s \in closed : ~WorksOn(job'[h], s)
    BY <1>4 DEF Named, WorksOn
  <1>5. ASSUME job'[h].pc = "issue", job'[h].session = None
        PROVE  Named(job'[h]) /\ \A s \in closed : ~WorksOn(job'[h], s)
    BY <1>5, NoneFreshAssumption DEF Named, WorksOn, Typed, AuthTypeOK
  <1>6. ASSUME LoginClears(h)
        PROVE  job'[h].pc = "challenge" \/ (job'[h].pc = "issue" /\ job'[h].session = None)
    <2>1. job[h] \in [pc : {"clear", "challenge"}, user : Users, mfaEnabled : BOOLEAN]
      BY <1>6 DEF LoginClears, At, Job, Idle, Typed, AuthTypeOK
    <2> QED  BY <1>6, <2>1 DEF LoginClears, Start, NewSession, Typed, AuthTypeOK
  <1>7. VerifyConsumes(h) => job'[h].pc = "issue" /\ job'[h].session = None
    BY DEF VerifyConsumes, Start, NewSession, Typed, AuthTypeOK
  <1>8. ASSUME RefreshRevokes(h)
        PROVE  Named(job'[h]) /\ \A s \in closed : ~WorksOn(job'[h], s)
    <2>1. job[h].pc = "revoke" /\ job[h] \in [pc : {"revoke", "reload"}, user : Users, jti : Jtis]
      BY <1>8 DEF RefreshRevokes, At, Job, Idle, Typed, AuthTypeOK
    <2>2. job'[h].pc = "reload" /\ job'[h].jti = job[h].jti
      BY <1>8, <2>1 DEF RefreshRevokes, Start, Typed, AuthTypeOK
    <2> QED  BY <2>1, <2>2 DEF ClosedInv, Named, WorksOn
  <1>9. ASSUME RefreshReloads(h)
        PROVE  Named(job'[h]) /\ \A s \in closed : ~WorksOn(job'[h], s)
    <2> DEFINE j == job[h].jti
    <2>1. job[h].pc = "reload" /\ j \in Jtis /\ token[j] # NoToken
      BY <1>9, JobShapes DEF RefreshReloads, At, Typed, AuthTypeOK, Grounded
    <2>2. job'[h].pc = "issue" /\ job'[h].session = token[j].session
      BY <1>9 DEF RefreshReloads, Start, Typed, AuthTypeOK
    <2>3. token[token[j].session] # NoToken /\ \A s \in closed : token[j].session # s
      BY <2>1 DEF ClosedInv, WorksOn
    <2> QED  BY <2>2, <2>3 DEF Named, WorksOn
  <1>10. ASSUME ~IssueTokens(h)
         PROVE  Named(job'[h]) /\ \A s \in closed : ~WorksOn(job'[h], s)
    <2>1. CASE LoginCounts(h) \/ LoginClears(h) \/ LoginChallenges(h)
      BY <2>1, <1>4, <1>5, <1>6, NextPc
    <2>2. CASE (\E code \in Codes : VerifyChecks(h, code)) \/ VerifyRefused(h)
               \/ VerifyConsumes(h)
      BY <2>2, <1>4, <1>5, <1>7, NextPc
    <2>3. CASE RefreshRevokes(h) \/ RefreshReloads(h) \/ RefreshRefused(h)
      BY <2>3, <1>4, <1>8, <1>9, NextPc
    <2>4. CASE ConfirmEnables(h) \/ ChangeWrites(h) \/ Abort(h)
      BY <2>4, <1>4, NextPc
    <2> QED  BY <1>10, <2>1, <2>2, <2>3, <2>4 DEF HandlerStep
  <1> QED  BY <1>1, <1>2, <1>3, <1>10, ClosedQuiet

LEMMA ClosedStep ==
    ASSUME Typed, Typed', ClosedInv, [AuthNext]_vars
    PROVE  ClosedInv'
  <1>1. CASE UNCHANGED vars
    BY <1>1, ClosedQuiet DEF vars, stores, history
  <1>2. ASSUME NEW j \in Jtis, Logout(j)
        PROVE  ClosedInv'
    <2> DEFINE s == token[j].session
    <2>0. CASE UNCHANGED <<live, closed>>
      BY <1>2, <2>0, ClosedQuiet DEF Logout
    <2>1. /\ UNCHANGED <<token, job>> /\ token[j] # NoToken
          /\ \/ UNCHANGED <<live, closed>>
             \/ /\ live' = live \ {j}
                /\ closed' = IF LastToken(j) THEN closed \union {s} ELSE closed
      BY <1>2 DEF Logout
    <2>2. CASE ~LastToken(j)
      BY <2>1, <2>2, ClosedQuiet
    <2>3. CASE LastToken(j) /\ ~UNCHANGED <<live, closed>>
      <3>1. token[s] # NoToken
        BY <2>1 DEF ClosedInv
      <3>2. \A h \in Handlers : ~WorksOn(job[h], s)
        BY <2>3 DEF LastToken, SessionInFlight, WorksOn
      <3>3. \A i \in live' : token[i].session # s
        BY <2>1, <2>3 DEF LastToken
      <3> QED  BY <2>1, <2>3, <3>1, <3>2, <3>3 DEF ClosedInv, Named, WorksOn
    <2> QED  BY <2>0, <2>2, <2>3
  <1>3. ASSUME \/ \E j \in Jtis : TokenExpires(j)
               \/ \E c \in Challenges : ChallengeExpires(c)
               \/ \E u \in Users : AccountStep(u)
        PROVE  ClosedInv'
    <2>1. UNCHANGED <<token, job, closed>> /\ live' \subseteq live
      BY <1>3, AllWait DEF TokenExpires, ChallengeExpires, AccountStep, SetupMfa, LockEnds,
         CreateMember, BlockMember, UnblockMember, ResetPassword, history
    <2> QED  BY <2>1, ClosedQuiet
  <1> QED  BY <1>1, <1>2, <1>3, ClosedRequests, ClosedHandlers DEF AuthNext

-----------------------------------------------------------------------------
(* Blocked accounts.  With no handler busy when the block is written, every *)
(* later request but the MFA challenge meets the isActive test.             *)

\* A row once created is never taken away.
LEMMA KnownStays ==
    ASSUME Typed, Typed', AuthNext, NEW u \in Users, Known(u)
    PROVE  Known(u)'
  <1>1. user'[u] \in UserRow \union {NoUser} /\ NoUser.password = None /\ ~NoUser.mustChange
    BY DEF Typed, AuthTypeOK, NoUser
  <1>2. user[u].password \in Passwords /\ None \notin Passwords
    BY NoneFreshAssumption DEF Known, UserRow
  <1>3. user'[u].password \in Passwords \/ user'[u].mustChange
    <2>1. ASSUME NEW h \in Handlers, Request(h) \/ HandlerStep(h) \/ Abort(h)
          PROVE  user'[u].password \in Passwords
      <3>1. ASSUME UNCHANGED user  PROVE user'[u].password \in Passwords
        BY <1>2, <3>1
      <3>2. CASE LoginCounts(h) \/ LoginClears(h) \/ ConfirmEnables(h)
        <4>1. LET v == job[h].user IN v \in Users /\ OthersKeep(v) /\ KeepsSecret(v)
          BY <3>2, CountsRow, ClearsRow, EnablesRow
        <4> QED  BY <1>2, <4>1 DEF OthersKeep, AsBefore, KeepsSecret
      <3>3. CASE ChangeWrites(h)
        <4>1. job[h].new \in Passwords
          BY <3>3, JobShapes DEF ChangeWrites, At, Typed, AuthTypeOK
        <4> QED  BY <1>2, <3>3, <4>1, ChangesRow DEF OthersKeep, AsBefore
      <3> QED  BY <2>1, <3>1, <3>2, <3>3 DEF Request, Abort, HandlerStep, LoginFails, LoginPasses,
                  VerifyGets, RefreshGets, ConfirmReads, ChangeReads, LoginChallenges,
                  VerifyChecks, VerifyRefused, VerifyConsumes, RefreshRevokes, RefreshReloads,
                  RefreshRefused, IssueTokens, stores
    <2>2. ASSUME \/ \E j \in Jtis : Logout(j) \/ TokenExpires(j)
                 \/ \E c \in Challenges : ChallengeExpires(c)
          PROVE  UNCHANGED user
      BY <2>2 DEF Logout, TokenExpires, ChallengeExpires
    <2>3. ASSUME NEW v \in Users, AccountStep(v)
          PROVE  user'[u].password \in Passwords \/ user'[u].mustChange
      BY <1>2, <2>3, AccountRows DEF AccountStep, OthersKeep, AsBefore, KeepsSecret
    <2> QED  BY <1>2, <2>1, <2>2, <2>3 DEF AuthNext
  <1> QED  BY <1>1, <1>2, <1>3 DEF Known

\* What a handler may be doing for a blocked account.
Harmless(a) == a.pc # "clear" /\ (a.pc = "issue" => a.session = None /\ a.gated)

ShutInv ==
    \A u \in shut :
        /\ Known(u) /\ ~user[u].isActive
        /\ \A h \in Handlers : Busy(h, u) => Harmless(job[h])

LEMMA ShutQuiet ==
    ASSUME Typed, Typed', ShutInv, AuthNext, shut' \subseteq shut,
           \A u \in shut' : KeepsState(u),
           \A g \in Handlers : job'[g] = job[g] \/ job'[g] = Idle
                               \/ job'[g].user \notin shut \/ Harmless(job'[g])
    PROVE  ShutInv'
  <1>1. ASSUME NEW u \in shut'  PROVE Known(u)' /\ ~user'[u].isActive
    BY <1>1, KnownStays DEF ShutInv, KeepsState, Typed, AuthTypeOK
  <1> QED  BY <1>1 DEF ShutInv, Busy

LEMMA ShutHandlers ==
    ASSUME Typed, Typed', ShutInv, AuthNext, NEW h \in Handlers,
           Request(h) \/ HandlerStep(h) \/ Abort(h)
    PROVE  ShutInv'
  <1>1. \A g \in Handlers \ {h} : job'[g] = job[g]
    BY OthersWait
  <1>2. shut' = shut
    BY DEF Request, HandlerStep, Abort, LoginFails, LoginPasses, VerifyGets, RefreshGets,
       ConfirmReads, ChangeReads, LoginCounts, LoginClears, LoginChallenges, VerifyChecks,
       VerifyRefused, VerifyConsumes, RefreshRevokes, RefreshReloads, RefreshRefused,
       IssueTokens, ConfirmEnables, ChangeWrites, history
  <1>3. \A u \in Users : KeepsState(u)
    <2>1. CASE LoginCounts(h) \/ LoginClears(h) \/ ConfirmEnables(h) \/ ChangeWrites(h)
      <3>1. LET v == job[h].user IN v \in Users /\ OthersKeep(v) /\ KeepsState(v)
        BY <2>1, CountsRow, ClearsRow, EnablesRow, ChangesRow
      <3> QED  BY <3>1 DEF OthersKeep, AsBefore, KeepsState
    <2>2. CASE UNCHANGED user
      BY <2>2 DEF KeepsState
    <2> QED  BY <2>1, <2>2 DEF Request, Abort, HandlerStep, LoginFails, LoginPasses, VerifyGets,
                RefreshGets, ConfirmReads, ChangeReads, LoginChallenges, VerifyChecks,
                VerifyRefused, VerifyConsumes, RefreshRevokes, RefreshReloads, RefreshRefused,
                IssueTokens, stores
  <1>4. \/ job'[h] = Idle \/ job'[h].user \notin shut \/ Harmless(job'[h])
    <2>1. ASSUME job'[h].pc \notin {"clear", "issue"}  PROVE Harmless(job'[h])
      BY <2>1 DEF Harmless
    <2>2. CASE Request(h)
      <3>1. ASSUME NEW u \in Users, NEW p \in Passwords, LoginPasses(h, u, p)
            PROVE  job'[h].user \notin shut
        BY <3>1 DEF LoginPasses, Admitted, ShutInv, Start, Typed, AuthTypeOK
      <3>2. \/ job'[h].pc \notin {"clear", "issue"}
            \/ \E u \in Users, p \in Passwords : LoginPasses(h, u, p)
        BY <2>2 DEF Request, LoginFails, VerifyGets, RefreshGets, ConfirmReads, ChangeReads,
           Start, Typed, AuthTypeOK
      <3> QED  BY <2>1, <3>1, <3>2
    <2>3. CASE LoginClears(h)
      <3>1. job[h].pc = "clear" /\ job[h] # Idle
            /\ job[h] \in [pc : {"clear", "challenge"}, user : Users, mfaEnabled : BOOLEAN]
        BY <2>3 DEF LoginClears, At, Job, Idle, Typed, AuthTypeOK
      <3>2. job[h].user \notin shut
        BY <3>1 DEF ShutInv, Busy, Harmless
      <3>3. job'[h].user = job[h].user
        BY <2>3, <3>1 DEF LoginClears, Start, NewSession, Typed, AuthTypeOK
      <3> QED  BY <3>2, <3>3
    <2>4. CASE VerifyConsumes(h)
      BY <2>4 DEF VerifyConsumes, Start, NewSession, Harmless, Typed, AuthTypeOK
    <2>5. CASE RefreshReloads(h)
      BY <2>5 DEF RefreshReloads, Start, ShutInv, Typed, AuthTypeOK
    <2>6. CASE \/ LoginCounts(h) \/ LoginChallenges(h)
               \/ \E code \in Codes : VerifyChecks(h, code)
               \/ VerifyRefused(h) \/ RefreshRevokes(h) \/ RefreshRefused(h) \/ IssueTokens(h)
               \/ ConfirmEnables(h) \/ ChangeWrites(h) \/ Abort(h)
      BY <2>1, <2>6, NextPc
    <2> QED  BY <2>2, <2>3, <2>4, <2>5, <2>6 DEF HandlerStep
  <1> QED  BY <1>1, <1>2, <1>3, <1>4, ShutQuiet DEF Typed, AuthTypeOK

LEMMA ShutStep ==
    ASSUME Typed, Typed', ShutInv, [AuthNext]_vars
    PROVE  ShutInv'
  <1>1. CASE UNCHANGED vars
    BY <1>1 DEF vars, stores, history, ShutInv, Known, Busy
  <1>2. ASSUME AuthNext,
               \/ \E j \in Jtis : Logout(j) \/ TokenExpires(j)
               \/ \E c \in Challenges : ChallengeExpires(c)
        PROVE  ShutInv'
    <2>1. UNCHANGED <<user, shut, job>>
      BY <1>2 DEF Logout, TokenExpires, ChallengeExpires, history
    <2> QED  BY <1>2, <2>1, ShutQuiet DEF KeepsState
  <1>3. ASSUME AuthNext, NEW u \in Users, AccountStep(u)
        PROVE  ShutInv'
    <2>1. UNCHANGED job /\ OthersKeep(u)
      BY <1>3, AllWait, AccountRows
    <2>2. CASE BlockMember(u)
      <3>1. ~user'[u].isActive /\ Known(u)'
        BY <1>3, <2>2, AccountRows, KnownStays
      <3>2. ASSUME NEW v \in shut', v # u
            PROVE  v \in shut /\ Known(v)' /\ user'[v] = user[v]
        BY <1>3, <2>1, <2>2, <3>2, KnownStays DEF BlockMember, ShutInv, OthersKeep, AsBefore,
           Typed, AuthTypeOK
      <3>3. u \in shut' => u \in shut \/ ~\E h \in Handlers : Busy(h, u)
        BY <2>2 DEF BlockMember
      <3> QED  BY <2>1, <3>1, <3>2, <3>3 DEF ShutInv, Busy
    <2>3. CASE CreateMember(u)
      <3>1. u \notin shut /\ shut' = shut
        BY <1>3, <2>3, UserShapes DEF CreateMember, ShutInv, history
      <3> QED  BY <1>3, <2>1, <3>1, ShutQuiet DEF OthersKeep, AsBefore, KeepsState, Typed,
                  AuthTypeOK
    <2>4. CASE UnblockMember(u)
      <3>1. shut' = shut \ {u}
        BY <2>4 DEF UnblockMember
      <3> QED  BY <1>3, <2>1, <3>1, ShutQuiet DEF OthersKeep, AsBefore, KeepsState, Typed,
                  AuthTypeOK
    <2>5. CASE SetupMfa(u) \/ LockEnds(u) \/ ResetPassword(u)
      <3>1. KeepsState(u) /\ shut' = shut
        BY <1>3, <2>5, AccountRows DEF SetupMfa, LockEnds, ResetPassword, history
      <3> QED  BY <1>3, <2>1, <3>1, ShutQuiet DEF OthersKeep, AsBefore, KeepsState, Typed,
                  AuthTypeOK
    <2> QED  BY <1>3, <2>2, <2>3, <2>4, <2>5 DEF AccountStep
  <1> QED  BY <1>1, <1>2, <1>3, ShutHandlers DEF AuthNext

-----------------------------------------------------------------------------
(* Rotation.  While no two requests of an account meet, whoever renews a   *)
(* session has taken its only live token away before issuing the next.     *)

Owned(a) == a.pc = "issue" /\ a.session # None => token[a.session].user = a.user

\* A session and everything issued for it belong to one account.
OwnInv ==
    /\ \A j \in Jtis : token[j] # NoToken => token[token[j].session].user = token[j].user
    /\ \A h \in Handlers : Owned(job[h])

LEMMA OwnQuiet ==
    ASSUME Typed, OwnInv, UNCHANGED token,
           \A g \in Handlers : job'[g] = job[g] \/ Owned(job'[g])
    PROVE  OwnInv'
  BY DEF OwnInv, Owned

LEMMA OwnIssues ==
    ASSUME Typed, ClosedInv, OwnInv, NEW h \in Handlers, IssueTokens(h)
    PROVE  OwnInv'
  <1> DEFINE a == job[h]
  <1>1. /\ a \in Job \union {Idle} /\ a.pc = "issue" /\ a.session \in Jtis \union {None}
        /\ Named(a) /\ Owned(a)
    BY JobRow, JobShapes DEF IssueTokens, At, ClosedInv, OwnInv
  <1> DEFINE s(j) == IF a.session = None THEN j ELSE a.session
  <1>2. PICK j \in Jtis :
           /\ token[j] = NoToken
           /\ token' = [token EXCEPT ![j] = [user |-> a.user, session |-> s(j),
                                             gated |-> a.gated, mfaVerified |-> a.mfaVerified]]
    BY DEF IssueTokens
  <1>3. /\ job'[h] = Idle /\ \A g \in Handlers \ {h} : job'[g] = job[g]
        /\ token'[j].session = s(j) /\ token'[j].user = a.user
        /\ \A k \in Jtis \ {j} : token'[k] = token[k]
    BY <1>2, NextPc DEF IssueTokens, Answer, Typed, AuthTypeOK
  <1>4. token'[s(j)].user = a.user
    <2>1. CASE a.session = None
      BY <1>3, <2>1
    <2>2. CASE a.session # None
      <3>1. a.session \in Jtis \ {j} /\ token[a.session].user = a.user
        BY <1>1, <1>2, <2>2 DEF Named, Owned
      <3> QED  BY <1>3, <2>2, <3>1
    <2> QED  BY <2>1, <2>2
  <1> HIDE DEF s, a
  <1>5. ASSUME NEW k \in Jtis \ {j}, token[k] # NoToken
        PROVE  token'[token[k].session].user = token[k].user
    <2>1. token[k].session \in Jtis /\ token[token[k].session] # NoToken
      BY <1>5, TokenShapes DEF ClosedInv
    <2> QED  BY <1>2, <1>3, <1>5, <2>1 DEF OwnInv
  <1>6. ASSUME NEW g \in Handlers  PROVE Owned(job[g])'
    <2>1. CASE g = h
      BY <1>3, <2>1 DEF Owned, Idle
    <2>2. CASE g # h
      <3>1. Named(job[g]) /\ Owned(job[g]) /\ job[g] \in Job \union {Idle} /\ job'[g] = job[g]
        BY <1>3, <2>2 DEF ClosedInv, OwnInv, Typed, AuthTypeOK
      <3> QED  BY <1>2, <1>3, <3>1, JobShapes DEF Named, Owned
    <2> QED  BY <2>1, <2>2
  <1> QED  BY <1>3, <1>4, <1>5, <1>6 DEF OwnInv

LEMMA OwnStep ==
    ASSUME Typed, ClosedInv, OwnInv, [AuthNext]_vars
    PROVE  OwnInv'
  <1>1. CASE UNCHANGED vars
    BY <1>1, OwnQuiet DEF vars, stores
  <1>2. ASSUME \/ \E j \in Jtis : Logout(j) \/ TokenExpires(j)
               \/ \E c \in Challenges : ChallengeExpires(c)
               \/ \E u \in Users : AccountStep(u)
        PROVE  OwnInv'
    <2>1. UNCHANGED <<token, job>>
      BY <1>2, AllWait DEF Logout, TokenExpires, ChallengeExpires, AccountStep, SetupMfa, LockEnds,
         CreateMember, BlockMember, UnblockMember, ResetPassword
    <2> QED  BY <2>1, OwnQuiet
  <1>3. ASSUME NEW h \in Handlers, Request(h) \/ HandlerStep(h) \/ Abort(h)
        PROVE  OwnInv'
    <2>1. \A g \in Handlers \ {h} : job'[g] = job[g]
      BY <1>3, OthersWait
    <2>2. CASE IssueTokens(h)
      BY <2>2, OwnIssues
    <2>3. CASE Request(h)
      <3>1. UNCHANGED token /\ job'[h].pc # "issue"
        BY <2>3 DEF Request, LoginFails, LoginPasses, VerifyGets, RefreshGets, ConfirmReads,
           ChangeReads, Start, stores, Typed, AuthTypeOK
      <3> QED  BY <2>1, <3>1, OwnQuiet DEF Owned
    <2>4. CASE LoginClears(h)
      <3>1. job[h] \in [pc : {"clear", "challenge"}, user : Users, mfaEnabled : BOOLEAN]
        BY <2>4 DEF LoginClears, At, Job, Idle, Typed, AuthTypeOK
      <3>2. job'[h].pc = "challenge" \/ job'[h].session = None
        BY <2>4, <3>1 DEF LoginClears, Start, NewSession, Typed, AuthTypeOK
      <3> QED  BY <2>1, <2>4, <3>2, OwnQuiet DEF LoginClears, Owned
    <2>5. CASE VerifyConsumes(h)
      <3>1. UNCHANGED token /\ job'[h].session = None
        BY <2>5 DEF VerifyConsumes, Start, NewSession, Typed, AuthTypeOK
      <3> QED  BY <2>1, <3>1, OwnQuiet DEF Owned
    <2>6. CASE RefreshReloads(h)
      <3> DEFINE j == job[h].jti
      <3>1. j \in Jtis /\ token[j] # NoToken /\ token[j].user = job[h].user
        BY <2>6, JobShapes DEF RefreshReloads, At, Typed, AuthTypeOK, Grounded
      <3>2. /\ UNCHANGED token /\ job'[h].session = token[j].session
            /\ job'[h].user = job[h].user
        BY <2>6 DEF RefreshReloads, Start, stores, Typed, AuthTypeOK
      <3>3. Owned(job'[h])
        BY <3>1, <3>2 DEF OwnInv, Owned
      <3> QED  BY <2>1, <3>2, <3>3, OwnQuiet
    <2>7. CASE \/ LoginCounts(h) \/ LoginChallenges(h)
               \/ \E code \in Codes : VerifyChecks(h, code)
               \/ VerifyRefused(h) \/ RefreshRevokes(h) \/ RefreshRefused(h)
               \/ ConfirmEnables(h) \/ ChangeWrites(h) \/ Abort(h)
      <3>1. job'[h].pc # "issue"
        BY <2>7, NextPc
      <3>2. UNCHANGED token
        BY <2>7 DEF LoginCounts, LoginChallenges, VerifyChecks, VerifyRefused, RefreshRevokes,
           RefreshRefused, ConfirmEnables, ChangeWrites, Abort, stores
      <3> QED  BY <2>1, <3>1, <3>2, OwnQuiet DEF Owned
    <2> QED  BY <1>3, <2>2, <2>3, <2>4, <2>5, <2>6, <2>7 DEF HandlerStep
  <1> QED  BY <1>1, <1>2, <1>3 DEF AuthNext

Alone ==
    \A u \in Users \ crowded, g, h \in Handlers : Busy(g, u) /\ Busy(h, u) => g = h

\* Of the session it works on, a handler has at most the token it is about to
\* revoke left in the whitelist.
Emptied(a) ==
    a # Idle /\ a.user \notin crowded =>
        \A i \in live : WorksOn(a, token[i].session) => a.pc = "revoke" /\ i = a.jti

SerialInv ==
    /\ Alone
    /\ \A h \in Handlers : Emptied(job[h])
    /\ OneLivePerSession

LEMMA CrowdGrows ==
    ASSUME Typed, AuthNext, Alone
    PROVE  crowded \subseteq crowded' /\ Alone'
  <1>1. crowded \subseteq crowded'
    BY DEF AuthNext
  <1>2. ASSUME crowded' = crowded \union {u \in Users : Meets(u)'}
        PROVE  Alone'
    BY <1>2 DEF Alone, Meets
  <1>3. ASSUME NEW u \in Users, AccountStep(u)
        PROVE  Alone'
    BY <1>1, <1>3, AllWait DEF Alone, Busy
  <1> QED  BY <1>1, <1>2, <1>3 DEF AuthNext

\* A step that issues nothing, and whose handler h, if any, ends up with
\* nothing left of the session it works on.
LEMMA SerialQuiet ==
    ASSUME Typed, AuthNext, SerialInv, UNCHANGED token, live' \subseteq live,
           \A g \in Handlers : job'[g] = job[g] \/ Emptied(job[g])'
    PROVE  SerialInv'
  <1>1. crowded \subseteq crowded' /\ Alone'
    BY CrowdGrows DEF SerialInv
  <1>2. \A g \in Handlers : Emptied(job[g])'
    BY <1>1 DEF SerialInv, Emptied, WorksOn
  <1>3. OneLivePerSession'
    BY <1>1 DEF SerialInv, OneLivePerSession
  <1> QED  BY <1>1, <1>2, <1>3 DEF SerialInv

LEMMA SerialRequests ==
    ASSUME Typed, OwnInv, SerialInv, AuthNext, NEW h \in Handlers, Request(h)
    PROVE  SerialInv'
  <1>1. \A g \in Handlers \ {h} : job'[g] = job[g]
    BY OthersWait
  <1>2. UNCHANGED <<token, live>> /\ crowded \subseteq crowded'
    BY CrowdGrows DEF Request, LoginFails, LoginPasses, VerifyGets, RefreshGets, ConfirmReads,
       ChangeReads, stores, SerialInv
  <1>3. ASSUME NEW j \in Jtis, RefreshGets(h, j)
        PROVE  Emptied(job[h])'
    <2>1. job'[h] = [pc |-> "revoke", user |-> token[j].user, jti |-> j] /\ j \in live
      BY <1>3 DEF RefreshGets, Start, Typed, AuthTypeOK
    <2>2. ASSUME token[j].user \notin crowded, NEW i \in live,
                 token[i].session = token[j].session
          PROVE  i = j
      <3>1. token[i].user = token[j].user
        BY <2>1, <2>2 DEF OwnInv, Typed, AuthTypeOK
      <3> QED  BY <2>1, <2>2, <3>1 DEF SerialInv, OneLivePerSession
    <2> QED  BY <1>2, <2>1, <2>2 DEF Emptied, WorksOn
  <1>4. ASSUME job'[h].pc \notin {"revoke", "reload", "issue"}
        PROVE  Emptied(job[h])'
    BY <1>4 DEF Emptied, WorksOn
  <1>5. \/ job'[h].pc \notin {"revoke", "reload", "issue"}
        \/ \E j \in Jtis : RefreshGets(h, j)
    BY DEF Request, LoginFails, LoginPasses, VerifyGets, ConfirmReads, ChangeReads, Start, Typed,
           AuthTypeOK
  <1> QED  BY <1>1, <1>2, <1>3, <1>4, <1>5, SerialQuiet

LEMMA SerialIssues ==
    ASSUME Typed, Typed', ClosedInv, OwnInv, SerialInv, AuthNext, NEW h \in Handlers,
           IssueTokens(h)
    PROVE  SerialInv'
  <1> DEFINE a == job[h]
  <1>1. /\ a \in Job \union {Idle} /\ a.pc = "issue" /\ a.session \in Jtis \union {None}
        /\ Named(a) /\ Owned(a) /\ Emptied(a) /\ a.user \in Users /\ a # Idle
    BY JobRow, JobShapes DEF IssueTokens, At, ClosedInv, OwnInv, SerialInv, Idle
  <1> DEFINE s(j) == IF a.session = None THEN j ELSE a.session
  <1>2. PICK j \in Jtis :
           /\ token[j] = NoToken
           /\ token' = [token EXCEPT ![j] = [user |-> a.user, session |-> s(j),
                                             gated |-> a.gated, mfaVerified |-> a.mfaVerified]]
           /\ live' = live \union {j}
    BY DEF IssueTokens
  <1>3. /\ job'[h] = Idle /\ \A g \in Handlers \ {h} : job'[g] = job[g]
        /\ token'[j].session = s(j) /\ token'[j].user = a.user
        /\ \A k \in Jtis \ {j} : token'[k] = token[k]
    BY <1>2, NextPc DEF IssueTokens, Answer, Typed, AuthTypeOK
  <1>4. crowded \subseteq crowded' /\ Alone' /\ Alone
    BY CrowdGrows DEF SerialInv
  <1>5. /\ live \subseteq Jtis \ {j} /\ \A i \in live : token'[i] = token[i] /\ token[i] # NoToken
    BY <1>2, <1>3 DEF Typed, AuthTypeOK
  \* The live tokens of the session, if it was open before.
  <1>6. ASSUME NEW i \in live, token[i].session = s(j)
        PROVE  token[i].user = a.user /\ a.user \in crowded
    <2>1. a.session # None
      <3>1. token[token[i].session] # NoToken
        BY <1>5 DEF ClosedInv, Typed, AuthTypeOK
      <3> QED  BY <1>2, <1>6, <3>1
    <2>2. token[i].user = a.user
      BY <1>1, <1>5, <1>6, <2>1 DEF OwnInv, Owned, Typed, AuthTypeOK
    <2>3. a.user \in crowded
      BY <1>1, <1>6, <2>1 DEF Emptied, WorksOn
    <2> QED  BY <2>2, <2>3
  <1>7. token[s(j)] # NoToken => token[s(j)].user = a.user
    BY <1>1, <1>2 DEF Owned
  <1> HIDE DEF s
  <1>8. OneLivePerSession'
    <2> SUFFICES ASSUME NEW i \in live', NEW k \in live',
                        token'[i].session = token'[k].session, i # k
                 PROVE  token'[i].user \in crowded'
      BY DEF OneLivePerSession
    <2>1. CASE i \in live /\ k \in live
      BY <1>4, <1>5, <2>1 DEF SerialInv, OneLivePerSession
    <2>2. CASE i \notin live
      <3>1. i = j /\ k \in live
        BY <1>2, <2>2
      <3>2. token[k].session = s(j)
        BY <1>3, <1>5, <3>1
      <3> QED  BY <1>3, <1>4, <1>6, <3>1, <3>2
    <2>3. CASE k \notin live
      <3>1. k = j /\ i \in live
        BY <1>2, <2>3
      <3>2. token[i].session = s(j)
        BY <1>3, <1>5, <3>1
      <3> QED  BY <1>4, <1>5, <1>6, <3>1, <3>2
    <2> QED  BY <2>1, <2>2, <2>3
  <1>9. ASSUME NEW g \in Handlers
        PROVE  Emptied(job[g])'
    <2>1. CASE g = h
      BY <1>3, <2>1 DEF Emptied
    <2>2. CASE g # h
      <3> DEFINE b == job[g]
      <3>1. /\ job'[g] = b /\ b \in Job \union {Idle} /\ Emptied(b) /\ Grounded(b) /\ Named(b)
            /\ Owned(b)
        BY <1>3, <2>2 DEF SerialInv, ClosedInv, OwnInv, Typed, AuthTypeOK
      <3> SUFFICES ASSUME b # Idle, b.user \notin crowded', NEW i \in live',
                          WorksOn(b, token[i].session)'
                   PROVE  b.pc = "revoke" /\ i = b.jti
        BY <3>1 DEF Emptied, WorksOn
      <3>2. b.user \in Users /\ b.user # a.user
        BY <1>1, <1>3, <1>4, <2>2, <3>1, JobShapes DEF Alone, Busy, SerialInv
      <3>3. b.pc \in {"revoke", "reload"} => /\ b.jti \in Jtis /\ token[b.jti] # NoToken
                                             /\ token[b.jti].user = b.user
                                             /\ token'[b.jti] = token[b.jti]
        BY <1>2, <1>3, <3>1, JobShapes DEF Grounded
      <3>4. i # j
        <4>1. ASSUME WorksOn(b, s(j))  PROVE FALSE
          <5>1. CASE b.pc \in {"revoke", "reload"}
            <6>1. token[b.jti].session = s(j) /\ token[s(j)] # NoToken
              BY <3>3, <4>1, <5>1 DEF WorksOn, ClosedInv
            <6>2. token[s(j)].user = b.user
              BY <3>3, <5>1, <6>1 DEF OwnInv
            <6> QED  BY <1>7, <3>2, <6>1, <6>2
          <5>2. CASE b.pc = "issue"
            <6>1. b.session = s(j) /\ s(j) # None
              <7>1. s(j) \in Jtis
                BY <1>1 DEF s
              <7> QED  BY <4>1, <5>2, <7>1, NoneFreshAssumption DEF WorksOn
            <6>2. token[s(j)] # NoToken /\ token[s(j)].user = b.user
              BY <3>1, <5>2, <6>1 DEF Named, Owned
            <6> QED  BY <1>7, <3>2, <6>2
          <5> QED  BY <4>1, <5>1, <5>2 DEF WorksOn
        <4> QED  BY <1>3, <3>1, <3>3, <4>1 DEF WorksOn
      <3>5. i \in live /\ token'[i] = token[i] /\ WorksOn(b, token[i].session)
        BY <1>2, <1>5, <3>1, <3>3, <3>4 DEF WorksOn
      <3> QED  BY <1>4, <3>1, <3>5 DEF Emptied
    <2> QED  BY <2>1, <2>2
  <1> QED  BY <1>4, <1>8, <1>9 DEF SerialInv

LEMMA SerialHandlers ==
    ASSUME Typed, Typed', ClosedInv, OwnInv, SerialInv, AuthNext, NEW h \in Handlers,
           HandlerStep(h) \/ Abort(h)
    PROVE  SerialInv'
  <1>1. \A g \in Handlers \ {h} : job'[g] = job[g]
    BY OthersWait
  <1>2. crowded \subseteq crowded'
    BY CrowdGrows DEF SerialInv
  <1>3. ASSUME UNCHANGED token, live' \subseteq live, Emptied(job[h])'
        PROVE  SerialInv'
    BY <1>1, <1>3, SerialQuiet
  <1>4. ASSUME job'[h].pc \notin {"revoke", "reload", "issue"}
        PROVE  Emptied(job[h])'
    BY <1>4 DEF Emptied, WorksOn
  <1>5. ASSUME UNCHANGED token, live' \subseteq live, job'[h].pc = "issue", job'[h].session = None
        PROVE  Emptied(job[h])'
    <2>1. ASSUME NEW i \in live'  PROVE ~WorksOn(job[h], token[i].session)'
      <3>1. token[i].session \in Jtis
        BY <1>5, <2>1, TokenShapes DEF Typed, AuthTypeOK
      <3> QED  BY <1>5, <3>1, NoneFreshAssumption DEF WorksOn
    <2> QED  BY <2>1 DEF Emptied
  <1>6. CASE LoginClears(h)
    <2>1. job[h] \in [pc : {"clear", "challenge"}, user : Users, mfaEnabled : BOOLEAN]
      BY <1>6 DEF LoginClears, At, Job, Idle, Typed, AuthTypeOK
    <2>2. \/ job'[h].pc = "challenge"
          \/ job'[h].pc = "issue" /\ job'[h].session = None
      BY <1>6, <2>1 DEF LoginClears, Start, NewSession, Typed, AuthTypeOK
    <2>3. UNCHANGED <<token, live>>
      BY <1>6 DEF LoginClears
    <2> QED  BY <1>3, <1>4, <1>5, <2>2, <2>3
  <1>7. CASE VerifyConsumes(h)
    <2>1. job'[h].pc = "issue" /\ job'[h].session = None /\ UNCHANGED <<token, live>>
      BY <1>7 DEF VerifyConsumes, Start, NewSession, Typed, AuthTypeOK
    <2> QED  BY <1>3, <1>5, <2>1
  <1>8. CASE RefreshRevokes(h)
    <2>1. /\ job[h].pc = "revoke" /\ job[h] # Idle
          /\ job[h] \in [pc : {"revoke", "reload"}, user : Users, jti : Jtis]
      BY <1>8 DEF RefreshRevokes, At, Job, Idle, Typed, AuthTypeOK
    <2>2. /\ job'[h].pc = "reload" /\ job'[h].jti = job[h].jti /\ job'[h].user = job[h].user
          /\ UNCHANGED token /\ live' = live \ {job[h].jti}
      BY <1>8, <2>1 DEF RefreshRevokes, Start, Typed, AuthTypeOK
    <2>3. ASSUME job[h].user \notin crowded, NEW i \in live'
          PROVE  token[i].session # token[job[h].jti].session
      BY <2>1, <2>2, <2>3 DEF SerialInv, Emptied, WorksOn
    <2>4. Emptied(job[h])'
      BY <1>2, <2>2, <2>3 DEF Emptied, WorksOn
    <2> QED  BY <1>3, <2>2, <2>4
  <1>9. CASE RefreshReloads(h)
    <2>1. job[h].pc = "reload" /\ job[h] # Idle
      BY <1>9 DEF RefreshReloads, At, Idle
    <2>2. /\ job'[h].pc = "issue" /\ job'[h].session = token[job[h].jti].session
          /\ job'[h].user = job[h].user /\ UNCHANGED <<token, live>>
      BY <1>9 DEF RefreshReloads, Start, stores, Typed, AuthTypeOK
    <2>3. ASSUME job[h].user \notin crowded, NEW i \in live
          PROVE  token[i].session # token[job[h].jti].session
      BY <2>1, <2>3 DEF SerialInv, Emptied, WorksOn
    <2>4. Emptied(job[h])'
      BY <1>2, <2>2, <2>3 DEF Emptied, WorksOn
    <2> QED  BY <1>3, <2>2, <2>4
  <1>10. CASE IssueTokens(h)
    BY <1>10, SerialIssues
  <1>11. CASE \/ LoginCounts(h) \/ LoginChallenges(h)
              \/ \E code \in Codes : VerifyChecks(h, code)
              \/ VerifyRefused(h) \/ RefreshRefused(h)
              \/ ConfirmEnables(h) \/ ChangeWrites(h) \/ Abort(h)
    <2>1. job'[h].pc \notin {"revoke", "reload", "issue"}
      BY <1>11, NextPc
    <2>2. UNCHANGED <<token, live>>
      BY <1>11 DEF LoginCounts, LoginChallenges, VerifyChecks, VerifyRefused, RefreshRefused,
         ConfirmEnables, ChangeWrites, Abort, stores
    <2> QED  BY <1>3, <1>4, <2>1, <2>2
  <1> QED  BY <1>6, <1>7, <1>8, <1>9, <1>10, <1>11 DEF HandlerStep

LEMMA SerialStep ==
    ASSUME Typed, Typed', ClosedInv, OwnInv, SerialInv, [AuthNext]_vars
    PROVE  SerialInv'
  <1>1. CASE UNCHANGED vars
    BY <1>1 DEF vars, stores, SerialInv, Alone, Busy, Emptied, WorksOn, OneLivePerSession
  <1>2. ASSUME AuthNext,
               \/ \E j \in Jtis : Logout(j) \/ TokenExpires(j)
               \/ \E c \in Challenges : ChallengeExpires(c)
               \/ \E u \in Users : AccountStep(u)
        PROVE  SerialInv'
    <2>1. UNCHANGED <<token, job>> /\ live' \subseteq live
      BY <1>2, AllWait DEF Logout, TokenExpires, ChallengeExpires, AccountStep, SetupMfa, LockEnds,
         CreateMember, BlockMember, UnblockMember, ResetPassword, history
    <2> QED  BY <1>2, <2>1, SerialQuiet
  <1> QED  BY <1>1, <1>2, SerialRequests, SerialHandlers DEF AuthNext

-----------------------------------------------------------------------------
(* The lockout policy.  What a lonely login read still holds when it       *)
(* writes: the count it adds one to, and that the account was not locked.  *)

Fresh(a) ==
    a.pc \in LoginPcs /\ a.user \notin crowded =>
        /\ ~user[a.user].locked
        /\ a.pc = "count" => a.failed = CapFailed(user[a.user].failedAttempts + 1)

FreshInv == \A h \in Handlers : Fresh(job[h])

\* A step that changes the lock of one account only, no other handler being
\* busy with it.
LEMMA FreshOthers ==
    ASSUME Typed, AuthNext, FreshInv, Alone, NEW u \in Users,
           \A v \in Users \ {u} : KeepsLock(v), NEW g \in Handlers, UNCHANGED job[g],
           KeepsLock(u) \/ (Busy(g, u) => u \in crowded')
    PROVE  Fresh(job[g])'
  <1>1. job[g].pc \in LoginPcs => job[g].user \in Users /\ job[g] # Idle
    BY JobShapes DEF Typed, AuthTypeOK, LoginPcs, Idle
  <1>2. crowded \subseteq crowded'
    BY CrowdGrows
  <1> QED  BY <1>1, <1>2 DEF FreshInv, Fresh, Busy, KeepsLock

LEMMA FreshHandlers ==
    ASSUME Typed, AuthNext, FreshInv, Alone, NEW h \in Handlers,
           Request(h) \/ HandlerStep(h) \/ Abort(h)
    PROVE  FreshInv'
  <1>1. \A g \in Handlers \ {h} : job'[g] = job[g]
    BY OthersWait
  <1>2. crowded \subseteq crowded' /\ Alone'
    BY CrowdGrows
  <1>3. CASE Request(h)
    <2>1. UNCHANGED user
      BY <1>3 DEF Request, LoginFails, LoginPasses, VerifyGets, RefreshGets, ConfirmReads,
         ChangeReads, stores
    <2>2. Fresh(job[h])'
      <3>1. ASSUME NEW u \in Users, NEW p \in Passwords, LoginFails(h, u, p)
            PROVE  Fresh(job[h])'
        BY <2>1, <3>1 DEF LoginFails, Admitted, Start, Fresh, CapFailed, Typed, AuthTypeOK
      <3>2. ASSUME NEW u \in Users, NEW p \in Passwords, LoginPasses(h, u, p)
            PROVE  Fresh(job[h])'
        BY <2>1, <3>2 DEF LoginPasses, Admitted, Start, Fresh, Typed, AuthTypeOK
      <3>3. \/ job'[h].pc \notin LoginPcs
            \/ \E u \in Users, p \in Passwords : LoginFails(h, u, p) \/ LoginPasses(h, u, p)
        BY <1>3 DEF Request, VerifyGets, RefreshGets, ConfirmReads, ChangeReads, Start, LoginPcs,
           Typed, AuthTypeOK
      <3> QED  BY <3>1, <3>2, <3>3 DEF Fresh
    <2>3. \A g \in Handlers \ {h} : Fresh(job[g])'
      BY <1>1, <1>2, <2>1 DEF FreshInv, Fresh
    <2> QED  BY <2>2, <2>3 DEF FreshInv
  <1>4. CASE LoginCounts(h) \/ LoginClears(h)
    <2> DEFINE u == job[h].user
    <2>1. u \in Users /\ job[h] # Idle /\ \A v \in Users \ {u} : KeepsLock(v)
      <3>1. u \in Users /\ OthersKeep(u)
        BY <1>4, CountsRow, ClearsRow
      <3>2. job[h].pc \in {"count", "clear"}
        BY <1>4 DEF LoginCounts, LoginClears, At
      <3>3. job[h] # Idle
        BY <3>2 DEF Idle
      <3> QED  BY <3>1, <3>3 DEF OthersKeep, AsBefore, KeepsLock
    <2>2. ASSUME NEW g \in Handlers \ {h}  PROVE Fresh(job[g])'
      <3>1. Busy(g, u) => u \in crowded'
        BY <1>2, <2>1, <2>2 DEF Alone, Busy
      <3> QED  BY <1>1, <2>1, <3>1, FreshOthers
    <2>3. job'[h].pc \notin LoginPcs
      BY <1>4, NextPc DEF LoginPcs
    <2> QED  BY <2>2, <2>3 DEF FreshInv, Fresh
  <1>5. ASSUME \A u \in Users : KeepsLock(u), job'[h].pc \notin LoginPcs
        PROVE  FreshInv'
    <2>1. ASSUME NEW g \in Handlers \ {h}  PROVE Fresh(job[g])'
      <3>1. job[g].pc \in LoginPcs => job[g].user \in Users
        BY <2>1, JobShapes DEF Typed, AuthTypeOK, LoginPcs
      <3> QED  BY <1>1, <1>2, <1>5, <3>1 DEF FreshInv, Fresh, KeepsLock
    <2> QED  BY <1>5, <2>1 DEF FreshInv, Fresh
  <1>6. CASE ConfirmEnables(h) \/ ChangeWrites(h)
    <2>1. \A u \in Users : KeepsLock(u)
      <3>1. LET v == job[h].user IN v \in Users /\ OthersKeep(v) /\ KeepsLock(v)
        BY <1>6, EnablesRow, ChangesRow
      <3> QED  BY <3>1 DEF OthersKeep, AsBefore, KeepsLock
    <2> QED  BY <1>5, <1>6, <2>1, NextPc DEF LoginPcs
  <1>7. CASE \/ LoginChallenges(h) \/ \E code \in Codes : VerifyChecks(h, code)
             \/ VerifyRefused(h) \/ VerifyConsumes(h) \/ RefreshRevokes(h)
             \/ RefreshReloads(h) \/ RefreshRefused(h) \/ IssueTokens(h) \/ Abort(h)
    <2>1. UNCHANGED user
      BY <1>7 DEF LoginChallenges, VerifyChecks, VerifyRefused, VerifyConsumes, RefreshRevokes,
         RefreshReloads, RefreshRefused, IssueTokens, Abort, stores
    <2>2. job'[h].pc \notin LoginPcs
      BY <1>7, NextPc DEF LoginPcs
    <2> QED  BY <1>5, <2>1, <2>2 DEF KeepsLock
  <1> QED  BY <1>3, <1>4, <1>6, <1>7 DEF HandlerStep

LEMMA FreshStep ==
    ASSUME Typed, FreshInv, Alone, [AuthNext]_vars
    PROVE  FreshInv'
  <1>1. CASE UNCHANGED vars
    BY <1>1 DEF vars, stores, FreshInv, Fresh
  <1>2. ASSUME AuthNext,
               \/ \E j \in Jtis : Logout(j) \/ TokenExpires(j)
               \/ \E c \in Challenges : ChallengeExpires(c)
        PROVE  FreshInv'
    <2>1. UNCHANGED <<user, job>> /\ crowded \subseteq crowded'
      BY <1>2, CrowdGrows DEF Logout, TokenExpires, ChallengeExpires
    <2> QED  BY <2>1 DEF FreshInv, Fresh
  <1>3. ASSUME AuthNext, NEW u \in Users, AccountStep(u),
               crowded' = IF \E h \in Handlers : Busy(h, u) THEN crowded \union {u} ELSE crowded
        PROVE  FreshInv'
    <2>1. \A v \in Users \ {u} : KeepsLock(v)
      BY <1>3, AccountRows DEF OthersKeep, AsBefore, KeepsLock
    <2>2. ASSUME NEW g \in Handlers  PROVE Fresh(job[g])'
      BY <1>3, <2>1, AllWait, FreshOthers
    <2> QED  BY <2>2 DEF FreshInv
  <1>4. ASSUME AuthNext
        PROVE  FreshInv'
    BY <1>2, <1>3, <1>4, FreshHandlers DEF AuthNext
  <1> QED  BY <1>1, <1>4

\* As long as no two requests of an account met, each step is a step of the
\* policy or leaves counts and locks alone.
LEMMA PolicyStep ==
    ASSUME Typed, FreshInv, [AuthNext]_vars, crowded' = {}
    PROVE  [Lockout!Next]_(Lockout!policyVars)
  <1> DEFINE fails == [u \in Users |-> user[u].failedAttempts]
             locked == [u \in Users |-> user[u].locked]
  <1> SUFFICES ~(UNCHANGED <<fails, locked>>) => Lockout!Next
    BY DEF Lockout!policyVars
  <1>1. ASSUME \A u \in Users : KeepsLock(u)
        PROVE  UNCHANGED <<fails, locked>>
    BY <1>1 DEF KeepsLock
  <1>2. ASSUME NEW h \in Handlers, LoginCounts(h), AuthNext
        PROVE  Lockout!Next
    <2> DEFINE u == job[h].user
    <2>1. /\ u \in Users /\ \A v \in Users \ {u} : KeepsLock(v)
          /\ user'[u].failedAttempts = job[h].failed
          /\ user'[u].locked = (job[h].failed >= MaxFailed)
      BY <1>2, CountsRow DEF OthersKeep, AsBefore, KeepsLock
    <2>2. crowded = {}
      BY <1>2 DEF AuthNext
    <2>3. job[h].pc = "count" /\ ~user[u].locked
          /\ job[h].failed = CapFailed(user[u].failedAttempts + 1)
      BY <1>2, <2>2 DEF LoginCounts, At, FreshInv, Fresh, LoginPcs
    <2>4. user[u].failedAttempts \in 0..MaxFailed
      BY <1>2, JobRow DEF LoginCounts, At, UserRow
    <2> HIDE DEF u
    <2>5. user'[u].failedAttempts = IF user[u].failedAttempts < MaxFailed
                                    THEN user[u].failedAttempts + 1 ELSE user[u].failedAttempts
      BY <2>1, <2>3, <2>4, MaxFailedAssumption DEF CapFailed
    <2>6. (job[h].failed >= MaxFailed) = (user'[u].failedAttempts = MaxFailed)
      BY <2>1, <2>3, <2>4, MaxFailedAssumption DEF CapFailed
    <2>7. fails' = [fails EXCEPT ![u] = IF @ < MaxFailed THEN @ + 1 ELSE @]
      BY <2>1, <2>5 DEF KeepsLock
    <2>8. fails'[u] = user'[u].failedAttempts /\ locked'[u] = user'[u].locked
      BY <2>1
    <2>9. locked'[u] = (fails'[u] = MaxFailed)
      BY <2>1, <2>6, <2>8
    <2>10. \A v \in Users \ {u} : locked'[v] = locked[v]
      BY <2>1 DEF KeepsLock
    <2> DEFINE lock == fails'[u] = MaxFailed
    <2>11. locked' = [locked EXCEPT ![u] = lock]
      <3> HIDE DEF lock
      <3>1. locked'[u] = lock
        BY <2>9 DEF lock
      <3> QED  BY <2>1, <2>10, <3>1
    <2>12. ~locked[u]
      BY <2>1, <2>3
    <2> QED  BY <2>1, <2>7, <2>11, <2>12 DEF Lockout!Next, Lockout!Fail
  <1>3. ASSUME NEW h \in Handlers, LoginClears(h), AuthNext
        PROVE  Lockout!Next
    <2> DEFINE u == job[h].user
    <2>1. /\ u \in Users /\ \A v \in Users \ {u} : KeepsLock(v)
          /\ user'[u].failedAttempts = 0 /\ ~user'[u].locked
      BY <1>3, ClearsRow DEF OthersKeep, AsBefore, KeepsLock
    <2>2. crowded = {}
      BY <1>3 DEF AuthNext
    <2>3. ~user[u].locked
      BY <1>3, <2>2 DEF LoginClears, At, FreshInv, Fresh, LoginPcs
    <2>4. user[u].locked \in BOOLEAN /\ user'[u].locked \in BOOLEAN
      BY <1>3, JobRow DEF LoginClears, At, UserRow, Typed, AuthTypeOK
    <2> HIDE DEF u
    <2>5. fails' = [fails EXCEPT ![u] = 0]
      BY <2>1 DEF KeepsLock
    <2>6. user'[u].locked = user[u].locked
      BY <2>1, <2>3, <2>4
    <2>7. locked' = locked
      BY <2>1, <2>6 DEF KeepsLock
    <2> QED  BY <2>1, <2>3, <2>5, <2>7 DEF Lockout!Next, Lockout!Succeed
  <1>4. ASSUME NEW h \in Handlers, Request(h) \/ HandlerStep(h) \/ Abort(h),
               ~LoginCounts(h), ~LoginClears(h)
        PROVE  \A u \in Users : KeepsLock(u)
    <2>1. CASE ConfirmEnables(h) \/ ChangeWrites(h)
      <3>1. LET v == job[h].user IN v \in Users /\ OthersKeep(v) /\ KeepsLock(v)
        BY <2>1, EnablesRow, ChangesRow
      <3> QED  BY <3>1 DEF OthersKeep, AsBefore, KeepsLock
    <2>2. CASE UNCHANGED user
      BY <2>2 DEF KeepsLock
    <2> QED  BY <1>4, <2>1, <2>2 DEF Request, Abort, HandlerStep, LoginFails, LoginPasses,
                VerifyGets, RefreshGets, ConfirmReads, ChangeReads, LoginChallenges,
                VerifyChecks, VerifyRefused, VerifyConsumes, RefreshRevokes, RefreshReloads,
                RefreshRefused, IssueTokens, stores
  <1>5. ASSUME \/ \E j \in Jtis : Logout(j) \/ TokenExpires(j)
               \/ \E c \in Challenges : ChallengeExpires(c)
        PROVE  \A u \in Users : KeepsLock(u)
    BY <1>5 DEF Logout, TokenExpires, ChallengeExpires, KeepsLock
  <1>6. ASSUME NEW u \in Users, AccountStep(u)
        PROVE  (\A v \in Users : KeepsLock(v)) \/ Lockout!Next
    <2>1. \A v \in Users \ {u} : KeepsLock(v)
      BY <1>6, AccountRows DEF OthersKeep, AsBefore, KeepsLock
    <2>2. CASE KeepsLock(u)
      BY <2>1, <2>2
    <2>3. CASE LockEnds(u)
      <3>1. user'[u].locked = FALSE /\ user'[u].failedAttempts = user[u].failedAttempts
        <4>1. user[u] \in UserRow
          BY <2>3, UserShapes DEF LockEnds, Known
        <4> QED  BY <2>3, <4>1 DEF LockEnds, UserRow, Typed, AuthTypeOK
      <3>2. fails' = fails /\ locked' = [locked EXCEPT ![u] = FALSE]
        BY <2>1, <3>1 DEF KeepsLock
      <3> QED  BY <3>2 DEF Lockout!Next, Lockout!LockRunsOut
    <2>4. CASE ResetPassword(u)
      <3>1. user'[u].locked = FALSE /\ user'[u].failedAttempts = 0
        <4>1. user[u] \in UserRow
          BY <2>4, UserShapes DEF ResetPassword, Known
        <4> QED  BY <2>4, <4>1 DEF ResetPassword, UserRow, Typed, AuthTypeOK
      <3>2. fails' = [fails EXCEPT ![u] = 0] /\ locked' = [locked EXCEPT ![u] = FALSE]
        BY <2>1, <3>1 DEF KeepsLock
      <3> QED  BY <3>2 DEF Lockout!Next, Lockout!Reset
    <2> QED  BY <1>6, <2>2, <2>3, <2>4, AccountRows DEF AccountStep
  <1>7. CASE UNCHANGED vars
    BY <1>1, <1>7 DEF vars, stores, KeepsLock
  <1>8. CASE AuthNext
    BY <1>1, <1>2, <1>3, <1>4, <1>5, <1>6, <1>8 DEF AuthNext
  <1> QED  BY <1>7, <1>8

-----------------------------------------------------------------------------
(* The theorems.                                                           *)

\* The inductive invariant: what each handler still knows to be true of the
\* rows it read, next to the property that depends on it.
AuthInv ==
    /\ Typed /\ LockInv /\ ResetInv /\ GateInv /\ ClosedInv /\ ShutInv /\ OwnInv
    /\ SerialInv /\ FreshInv

LEMMA AuthInvInit == AuthInit => AuthInv
  <1> SUFFICES ASSUME AuthInit  PROVE AuthInv
    OBVIOUS
  <1>1. Typed
    BY TypedInit
  <1>2. LockInv /\ ResetInv /\ ClosedInv /\ ShutInv /\ OwnInv
    BY DEF AuthInit, LockInv, ResetInv, ClosedInv, Named, ShutInv, OwnInv, Owned, Idle
  <1>3. GateInv
    BY DEF AuthInit, GateInv, GateJob, Idle
  <1>4. SerialInv
    BY DEF AuthInit, SerialInv, Alone, Busy, Emptied, OneLivePerSession
  <1>5. FreshInv
    BY DEF AuthInit, FreshInv, Fresh, Idle, LoginPcs
  <1> QED  BY <1>1, <1>2, <1>3, <1>4, <1>5 DEF AuthInv

LEMMA AuthInvStep == AuthInv /\ [AuthNext]_vars => AuthInv'
  <1> SUFFICES ASSUME AuthInv, [AuthNext]_vars  PROVE AuthInv'
    OBVIOUS
  <1> USE DEF AuthInv
  <1>1. Typed'
    BY TypedStep
  <1>2. LockInv' /\ ResetInv'
    BY LockStep, ResetStep
  <1>3. GateInv' /\ ClosedInv' /\ ShutInv'
    BY <1>1, GateStep, ClosedStep, ShutStep
  <1>4. OwnInv' /\ SerialInv'
    BY <1>1, OwnStep, SerialStep
  <1>5. FreshInv'
    BY FreshStep DEF SerialInv
  <1> QED  BY <1>1, <1>2, <1>3, <1>4, <1>5

\* auth.service.ts: a lock written while no other login of the account was in
\* flight is not lifted by any login, whatever the number of instances.
THEOREM LockHolds == AuthSpec => []LockIsFirm
  <1>1. AuthInv => LockIsFirm
    BY DEF AuthInv, LockInv, LockIsFirm
  <1> QED  BY <1>1, AuthInvInit, AuthInvStep, PTL DEF AuthSpec

\* universities.routes.ts, team.controller.ts: after a reset that met no
\* password change, mustChangePassword stays until the temporary password was
\* typed.
THEOREM ResetHolds == AuthSpec => []ResetForcesChange
  <1>1. AuthInv => ResetForcesChange
    BY DEF AuthInv, ResetInv, ResetForcesChange
  <1> QED  BY <1>1, AuthInvInit, AuthInvStep, PTL DEF AuthSpec

\* Every pair of a session opened under MFA, refreshed or not, stems from a
\* right code and carries the mfaVerified claim.
THEOREM GateHolds == AuthSpec => []MfaGate
  <1>1. AuthInv => MfaGate
    <2> SUFFICES ASSUME AuthInv, NEW j \in Jtis, token[j].gated
                 PROVE  token[j].session \in proved /\ token[j].mfaVerified
      BY DEF MfaGate
    <2>1. token[j] # NoToken
      BY DEF NoToken
    <2> QED  BY <2>1 DEF AuthInv, GateInv, GateToken
  <1> QED  BY <1>1, AuthInvInit, AuthInvStep, PTL DEF AuthSpec

\* A session whose last token a logout deleted with nothing in flight never has
\* a live refresh token again.
THEOREM LogoutHolds == AuthSpec => []LoggedOutStaysOut
  <1>1. AuthInv => LoggedOutStaysOut
    BY DEF AuthInv, ClosedInv, LoggedOutStaysOut
  <1> QED  BY <1>1, AuthInvInit, AuthInvStep, PTL DEF AuthSpec

\* tokens.ts: rotation leaves a session one live refresh token, for as long as
\* its account never had two requests at work at once.
THEOREM RotationHolds == AuthSpec => []OneLivePerSession
  <1>1. AuthInv => OneLivePerSession
    BY DEF AuthInv, SerialInv
  <1> QED  BY <1>1, AuthInvInit, AuthInvStep, PTL DEF AuthSpec

\* A blocked account obtains no pair from a password or a refresh token: only
\* an MFA challenge, which does not look at isActive, still opens a session.
THEOREM BlockHolds == AuthSpec => BlockedOnlyByChallenge
  <1> DEFINE Answered == \A u \in shut, j \in live' \ live :
                            token'[j].user = u => token'[j].session = j /\ token'[j].gated
  <1>1. ASSUME AuthInv, AuthNext
        PROVE  Answered
    <2>1. ASSUME NEW h \in Handlers, IssueTokens(h)
          PROVE  Answered
      <3>1. PICK j \in Jtis :
               /\ token' = [token EXCEPT ![j] =
                     [user |-> job[h].user,
                      session |-> IF job[h].session = None THEN j ELSE job[h].session,
                      gated |-> job[h].gated, mfaVerified |-> job[h].mfaVerified]]
               /\ live' = live \union {j}
        BY <2>1 DEF IssueTokens
      <3>2. job[h].pc = "issue" /\ job[h] # Idle
        BY <2>1 DEF IssueTokens, At, Idle
      <3>3. job[h].user \in shut => job[h].session = None /\ job[h].gated
        BY <1>1, <3>2 DEF AuthInv, ShutInv, Busy, Harmless
      <3>4. token'[j].user = job[h].user /\ token'[j].gated = job[h].gated
            /\ token'[j].session = IF job[h].session = None THEN j ELSE job[h].session
        BY <1>1, <3>1 DEF AuthInv, Typed, AuthTypeOK
      <3> QED  BY <3>1, <3>3, <3>4
    <2>2. (\E h \in Handlers : IssueTokens(h)) \/ live' \subseteq live
      <3>1. ASSUME NEW h \in Handlers, Request(h) \/ Abort(h)  PROVE live' = live
        BY <3>1 DEF Request, Abort, LoginFails, LoginPasses, VerifyGets, RefreshGets,
           ConfirmReads, ChangeReads, stores
      <3>2. ASSUME NEW h \in Handlers, HandlerStep(h), ~IssueTokens(h)
            PROVE  live' \subseteq live
        BY <3>2 DEF HandlerStep, LoginCounts, LoginClears, LoginChallenges, VerifyChecks,
           VerifyRefused, VerifyConsumes, RefreshRevokes, RefreshReloads, RefreshRefused,
           ConfirmEnables, ChangeWrites, stores
      <3>3. ASSUME \/ \E j \in Jtis : Logout(j) \/ TokenExpires(j)
                   \/ \E c \in Challenges : ChallengeExpires(c)
                   \/ \E u \in Users : AccountStep(u)
            PROVE  live' \subseteq live
        BY <3>3 DEF Logout, TokenExpires, ChallengeExpires, AccountStep, SetupMfa, LockEnds,
           CreateMember, BlockMember, UnblockMember, ResetPassword
      <3> QED  BY <1>1, <3>1, <3>2, <3>3 DEF AuthNext
    <2> QED  BY <2>1, <2>2
  <1>2. AuthInv /\ [AuthNext]_vars => [Answered]_vars
    BY <1>1
  <1> QED  BY <1>2, AuthInvInit, AuthInvStep, PTL DEF AuthSpec, BlockedOnlyByChallenge

\* Accounts none of whose requests met implement the lockout policy, aborted
\* requests, challenges and resets included.
THEOREM FollowsPolicy == AuthSpec => FollowsLockoutPolicy
  <1>1. AuthInit => Lockout!Init
    BY DEF AuthInit, NoUser, Lockout!Init
  <1>2. AuthInv /\ [AuthNext]_vars => (crowded' = {} => [Lockout!Next]_(Lockout!policyVars))
    BY PolicyStep DEF AuthInv
  <1> QED  BY <1>1, <1>2, AuthInvInit, AuthInvStep, PTL DEF AuthSpec, FollowsLockoutPolicy
=============================================================================

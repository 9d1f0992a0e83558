------------------------------ MODULE AdminAuth ------------------------------
(***************************************************************************)
(* Dashboard accounts and their sessions: the User row in Postgres, the    *)
(* whitelist of refresh tokens and the MFA challenges in Redis, and the    *)
(* handlers of auth.service.ts, team.controller.ts and the admin routes of *)
(* universities.routes.ts that read and write them.                        *)
(*                                                                         *)
(* As in CardLifecycle an `await` ends a step.  The first step of a        *)
(* handler is its first read: a request that is refused there changes      *)
(* nothing and is not an action.                                           *)
(*                                                                         *)
(* Abstractions that lose nothing the properties tell apart: lockedUntil   *)
(* is whether it lies in the future; failedAttempts stops at MaxFailed,    *)
(* only compared with it; a TOTP secret is the number of the setup that    *)
(* drew it (0: none) and a code is the secret it was computed from; jtis   *)
(* and challenges are random, so never drawn twice.                        *)
(***************************************************************************)
EXTENDS Integers, FiniteSets

CONSTANTS
    Users,       \* dashboard accounts, one per e-mail address
    Handlers,    \* requests the API instances can process at one time
    Operations,  \* which requests this instance of the model receives
    Passwords,   \* passwords accounts can have and people can type
    Jtis,        \* refresh tokens that can be drawn
    Challenges,  \* MFA challenges that can be drawn
    MaxSetups,   \* bound: MFA setups per account
    MaxFailed,   \* LIMITS.MAX_LOGIN_FAILED_ATTEMPTS
    None

ASSUME MaxFailedAssumption  == MaxFailed \in Nat \ {0}
ASSUME MaxSetupsAssumption  == MaxSetups \in Nat
ASSUME NoneFreshAssumption  == None \notin Users \union Passwords \union Jtis \union Challenges
ASSUME OperationsKnown ==
    Operations \subseteq {"create", "login", "mfa", "refresh", "logout", "setup",
                          "confirm", "change", "block", "unblock", "reset"}

VARIABLES
    user,         \* user[u]: the User row, NoUser before it is created
    token,        \* token[j]: what the pair with refresh token j was issued for
    live,         \* refresh tokens in the Redis whitelist
    challenge,    \* challenge[c]: the user id stored under the MFA challenge c
    open,         \* challenges still in Redis
    job,          \* job[h]: the request handler h is processing
    sealed,       \* history: locked with no other login of the account in flight
    provisional,  \* history: password reset with no password change in flight
    shut,         \* history: blocked with nothing in flight for the account
    closed,       \* history: sessions whose last token a logout deleted, nothing in flight
    proved,       \* history: sessions in which a right MFA code was entered
    crowded       \* history: accounts with two requests in flight at once, or a
                  \* team action beside one

stores  == <<user, token, live, challenge, open>>
history == <<sealed, provisional, shut, closed, proved>>
vars    == <<stores, job, history, crowded>>

Secrets == 1..MaxSetups
Codes   == Secrets \union {0}     \* 0: a code of no secret
UserRow == [isActive : BOOLEAN, failedAttempts : 0..MaxFailed, locked : BOOLEAN,
            mfaEnabled : BOOLEAN, mfaSecret : 0..MaxSetups,
            password : Passwords, mustChange : BOOLEAN]
NoUser  == [isActive |-> FALSE, failedAttempts |-> 0, locked |-> FALSE,
            mfaEnabled |-> FALSE, mfaSecret |-> 0, password |-> None, mustChange |-> FALSE]

\* A pair of tokens: whose, in which session (named by its first jti), whether
\* MFA was enabled when the session was opened, and the mfaVerified claim of
\* the access token.
Token   == [user : Users, session : Jtis, gated : BOOLEAN, mfaVerified : BOOLEAN]
NoToken == [user |-> None, session |-> None, gated |-> FALSE, mfaVerified |-> FALSE]

Idle == [pc |-> "idle"]
Job  ==
         [pc : {"count"}, user : Users, failed : 1..MaxFailed]
  \union [pc : {"clear", "challenge"}, user : Users, mfaEnabled : BOOLEAN]
  \union [pc : {"verify"}, user : Users, challenge : Challenges]
  \union [pc : {"consume"}, user : Users, challenge : Challenges, checked : BOOLEAN]
  \union [pc : {"revoke", "reload"}, user : Users, jti : Jtis]
  \union [pc : {"issue"}, user : Users, session : Jtis \union {None}, gated : BOOLEAN,
          checked : BOOLEAN, mfaVerified : BOOLEAN]
  \union [pc : {"enable"}, user : Users, session : Jtis]
  \union [pc : {"rehash"}, user : Users, old : Passwords, new : Passwords]

AuthTypeOK ==
    /\ user \in [Users -> UserRow \union {NoUser}]
    /\ token \in [Jtis -> Token \union {NoToken}]
    /\ live \subseteq Jtis
    /\ challenge \in [Challenges -> Users \union {None}]
    /\ open \subseteq Challenges
    /\ job \in [Handlers -> Job \union {Idle}]
    /\ sealed \subseteq Users
    /\ provisional \subseteq Users
    /\ shut \subseteq Users
    /\ closed \subseteq Jtis
    /\ proved \subseteq Jtis
    /\ crowded \subseteq Users

AuthInit ==
    /\ user = [u \in Users |-> NoUser]
    /\ token = [j \in Jtis |-> NoToken]
    /\ live = {}
    /\ challenge = [c \in Challenges |-> None]
    /\ open = {}
    /\ job = [h \in Handlers |-> Idle]
    /\ sealed = {} /\ provisional = {} /\ shut = {} /\ closed = {} /\ proved = {}
    /\ crowded = {}

Accepts(op) == op \in Operations
Exists(u)   == user[u] # NoUser
SignedIn(u) == \E j \in Jtis : token[j].user = u
Free(h)     == job[h] = Idle
Busy(h, u)  == job[h] # Idle /\ job[h].user = u
At(h, pc)   == job[h].pc = pc

Start(h, j) == job' = [job EXCEPT ![h] = j]
Answer(h)   == job' = [job EXCEPT ![h] = Idle]

LoginPcs == {"count", "clear"}
InFlight(pcs, u) == \E h \in Handlers : Busy(h, u) /\ job[h].pc \in pcs

-----------------------------------------------------------------------------
(* login: one read, then the write its outcome calls for, then (when the   *)
(* password was right) a challenge or a pair of tokens.                    *)

\* Fault: the lock is not looked at.
AdmittedLocked(u) == Exists(u) /\ user[u].isActive

Admitted(u) == Exists(u) /\ user[u].isActive /\ ~user[u].locked

CapFailed(n) == IF n > MaxFailed THEN MaxFailed ELSE n

LoginFails(h, u, p) ==
    /\ Accepts("login") /\ Free(h)
    /\ Admitted(u) /\ p # user[u].password
    /\ Start(h, [pc |-> "count", user |-> u, failed |-> CapFailed(user[u].failedAttempts + 1)])
    /\ UNCHANGED <<stores, history>>

LoginPasses(h, u, p) ==
    /\ Accepts("login") /\ Free(h)
    /\ Admitted(u) /\ p = user[u].password
    /\ Start(h, [pc |-> "clear", user |-> u, mfaEnabled |-> user[u].mfaEnabled])
    /\ UNCHANGED <<stores, history>>

\* Fault: the threshold is compared with the count before this attempt.
LoginCountsLate(h) ==
    LET u == job[h].user IN
    /\ At(h, "count")
    /\ user' = [user EXCEPT ![u].failedAttempts = job[h].failed,
                            ![u].locked = user[u].failedAttempts = MaxFailed]
    /\ Answer(h)
    /\ UNCHANGED <<token, live, challenge, open, sealed, provisional, shut, closed, proved>>

\* The count read before plus one; lockedUntil is written either way, to a
\* date or to null.
LoginCounts(h) ==
    LET u == job[h].user
        lock == job[h].failed >= MaxFailed
        alone == \A g \in Handlers \ {h} : ~(Busy(g, u) /\ job[g].pc \in LoginPcs) IN
    /\ At(h, "count")
    /\ user' = [user EXCEPT ![u].failedAttempts = job[h].failed, ![u].locked = lock]
    /\ sealed' = IF lock /\ alone THEN sealed \union {u} ELSE sealed
    /\ Answer(h)
    /\ UNCHANGED <<token, live, challenge, open, provisional, shut, closed, proved>>

NewSession(u, gated, checked, verified) ==
    [pc |-> "issue", user |-> u, session |-> None, gated |-> gated,
     checked |-> checked, mfaVerified |-> verified]

\* Fault: the account's MFA is not looked at.
LoginClearsToTokens(h) ==
    LET u == job[h].user IN
    /\ At(h, "clear")
    /\ user' = [user EXCEPT ![u].failedAttempts = 0, ![u].locked = FALSE]
    /\ Start(h, NewSession(u, job[h].mfaEnabled, FALSE, FALSE))
    /\ UNCHANGED <<token, live, challenge, open, sealed, provisional, shut, closed, proved>>

LoginClears(h) ==
    LET u == job[h].user IN
    /\ At(h, "clear")
    /\ user' = [user EXCEPT ![u].failedAttempts = 0, ![u].locked = FALSE]
    /\ Start(h, IF job[h].mfaEnabled THEN [job[h] EXCEPT !.pc = "challenge"]
                                     ELSE NewSession(u, FALSE, FALSE, FALSE))
    /\ UNCHANGED <<token, live, challenge, open, sealed, provisional, shut, closed, proved>>

LoginChallenges(h) ==
    /\ At(h, "challenge")
    /\ \E c \in Challenges :
        /\ challenge[c] = None
        /\ challenge' = [challenge EXCEPT ![c] = job[h].user]
        /\ open' = open \union {c}
    /\ Answer(h)
    /\ UNCHANGED <<user, token, live, history>>

-----------------------------------------------------------------------------
(* verifyMfaChallenge: GET, read the account and check the code, DEL, issue. *)

\* Fault: the answer of the GET is used without looking whether it is null.
VerifyGetsAny(h, c) ==
    /\ Accepts("mfa") /\ Free(h)
    /\ Start(h, [pc |-> "verify", user |-> challenge[c], challenge |-> c])
    /\ UNCHANGED <<stores, history>>

VerifyGets(h, c) ==
    /\ Accepts("mfa") /\ Free(h) /\ c \in open
    /\ Start(h, [pc |-> "verify", user |-> challenge[c], challenge |-> c])
    /\ UNCHANGED <<stores, history>>

\* Fault: the code is not compared.
VerifyChecksNothing(h, code) ==
    LET u == job[h].user IN
    /\ At(h, "verify")
    /\ user[u].mfaEnabled /\ user[u].mfaSecret # 0
    /\ Start(h, [pc |-> "consume", user |-> u, challenge |-> job[h].challenge,
                 checked |-> code = user[u].mfaSecret])
    /\ UNCHANGED <<stores, history>>

\* isActive is not part of the condition.
VerifyChecks(h, code) ==
    LET u == job[h].user IN
    /\ At(h, "verify")
    /\ user[u].mfaEnabled /\ user[u].mfaSecret # 0 /\ code = user[u].mfaSecret
    /\ Start(h, [pc |-> "consume", user |-> u, challenge |-> job[h].challenge,
                 checked |-> code = user[u].mfaSecret])
    /\ UNCHANGED <<stores, history>>

\* A wrong code: 401, the challenge stays.
VerifyRefused(h) ==
    /\ At(h, "verify")
    /\ Answer(h)
    /\ UNCHANGED <<stores, history>>

VerifyConsumes(h) ==
    /\ At(h, "consume")
    /\ open' = open \ {job[h].challenge}
    /\ Start(h, NewSession(job[h].user, TRUE, job[h].checked, TRUE))
    /\ UNCHANGED <<user, token, live, challenge, history>>

-----------------------------------------------------------------------------
(* refreshTokens: GET, DEL, read the account, issue.                       *)

\* Fault: a signed token is enough, the whitelist is not read.
RefreshGetsUnlisted(h, j) ==
    /\ Accepts("refresh") /\ Free(h) /\ token[j] # NoToken
    /\ Start(h, [pc |-> "revoke", user |-> token[j].user, jti |-> j])
    /\ UNCHANGED <<stores, history>>

RefreshGets(h, j) ==
    /\ Accepts("refresh") /\ Free(h) /\ j \in live
    /\ Start(h, [pc |-> "revoke", user |-> token[j].user, jti |-> j])
    /\ UNCHANGED <<stores, history>>

\* Fault: the old token is not deleted.
RefreshRevokesNothing(h) ==
    /\ At(h, "revoke")
    /\ Start(h, [job[h] EXCEPT !.pc = "reload"])
    /\ UNCHANGED <<stores, history>>

RefreshRevokes(h) ==
    /\ At(h, "revoke")
    /\ live' = live \ {job[h].jti}
    /\ Start(h, [job[h] EXCEPT !.pc = "reload"])
    /\ UNCHANGED <<user, token, challenge, open, history>>

\* Fault: isActive is not read again.
RefreshReloadsAny(h) ==
    LET u == job[h].user  old == token[job[h].jti] IN
    /\ At(h, "reload")
    /\ Start(h, [pc |-> "issue", user |-> u, session |-> old.session, gated |-> old.gated,
                 checked |-> FALSE, mfaVerified |-> user[u].mfaEnabled])
    /\ UNCHANGED <<stores, history>>

\* The new access token claims mfaVerified when the account has MFA enabled.
RefreshReloads(h) ==
    LET u == job[h].user  old == token[job[h].jti] IN
    /\ At(h, "reload")
    /\ user[u].isActive
    /\ Start(h, [pc |-> "issue", user |-> u, session |-> old.session, gated |-> old.gated,
                 checked |-> FALSE, mfaVerified |-> user[u].mfaEnabled])
    /\ UNCHANGED <<stores, history>>

RefreshRefused(h) ==
    /\ At(h, "reload") /\ ~user[job[h].user].isActive
    /\ Answer(h)
    /\ UNCHANGED <<stores, history>>

\* issueAndStoreTokens: a new jti enters the whitelist.
IssueTokens(h) ==
    /\ At(h, "issue")
    /\ \E j \in Jtis :
        /\ token[j] = NoToken
        /\ token' = [token EXCEPT ![j] =
              [user |-> job[h].user,
               session |-> IF job[h].session = None THEN j ELSE job[h].session,
               gated |-> job[h].gated, mfaVerified |-> job[h].mfaVerified]]
        /\ live' = live \union {j}
        /\ proved' = IF job[h].checked THEN proved \union {j} ELSE proved
    /\ Answer(h)
    /\ UNCHANGED <<user, challenge, open, sealed, provisional, shut, closed>>

-----------------------------------------------------------------------------
(* logout, and what Redis forgets by itself.                               *)

\* A handler is at work on session s.
SessionInFlight(s) ==
    \E h \in Handlers :
        \/ job[h].pc \in {"revoke", "reload"} /\ token[job[h].jti].session = s
        \/ job[h].pc = "issue" /\ job[h].session = s

\* The last live token of the session, and no request about to issue another.
LastToken(j) ==
    /\ ~SessionInFlight(token[j].session)
    /\ \A i \in live \ {j} : token[i].session # token[j].session

\* The answer is 204 either way: an error of Redis on the DEL is ignored, and
\* then the token stays in the whitelist and the session is not logged out.
Logout(j) ==
    /\ Accepts("logout") /\ token[j] # NoToken
    /\ \/ /\ live' = live \ {j}
          /\ closed' = IF LastToken(j) THEN closed \union {token[j].session} ELSE closed
       \/ UNCHANGED <<live, closed>>
    /\ UNCHANGED <<user, token, challenge, open, job, sealed, provisional, shut, proved>>

TokenExpires(j) ==
    /\ j \in live
    /\ live' = live \ {j}
    /\ UNCHANGED <<user, token, challenge, open, job, history>>

ChallengeExpires(c) ==
    /\ c \in open
    /\ open' = open \ {c}
    /\ UNCHANGED <<user, token, live, challenge, job, history>>

\* LOCKOUT_DURATION_MINUTES later lockedUntil lies in the past.
LockEnds(u) ==
    /\ user[u].locked
    /\ user' = [user EXCEPT ![u].locked = FALSE]
    /\ sealed' = sealed \ {u}
    /\ UNCHANGED <<token, live, challenge, open, job, provisional, shut, closed, proved>>

-----------------------------------------------------------------------------
(* setupMfa, confirmMfa, changePassword: requests of a signed-in account.  *)

\* A new secret takes the place of the old one; mfaEnabled is left alone.
SetupMfa(u) ==
    /\ Accepts("setup") /\ SignedIn(u)
    /\ user[u].mfaSecret < MaxSetups
    /\ user' = [user EXCEPT ![u].mfaSecret = @ + 1]
    /\ UNCHANGED <<token, live, challenge, open, job, history>>

\* Sent with the access token of pair j.
ConfirmReads(h, j, code) ==
    LET u == token[j].user IN
    /\ Accepts("confirm") /\ Free(h) /\ token[j] # NoToken
    /\ user[u].mfaSecret # 0 /\ code = user[u].mfaSecret
    /\ Start(h, [pc |-> "enable", user |-> u, session |-> token[j].session])
    /\ UNCHANGED <<stores, history>>

ConfirmEnables(h) ==
    /\ At(h, "enable")
    /\ user' = [user EXCEPT ![job[h].user].mfaEnabled = TRUE]
    /\ proved' = proved \union {job[h].session}
    /\ Answer(h)
    /\ UNCHANGED <<token, live, challenge, open, sealed, provisional, shut, closed>>

\* Fault: the current password is not asked for.
ChangeReadsAny(h, u, old, new) ==
    /\ Accepts("change") /\ Free(h) /\ SignedIn(u) /\ old # new
    /\ Start(h, [pc |-> "rehash", user |-> u, old |-> old, new |-> new])
    /\ UNCHANGED <<stores, history>>

ChangeReads(h, u, old, new) ==
    /\ Accepts("change") /\ Free(h) /\ SignedIn(u) /\ old # new
    /\ old = user[u].password
    /\ Start(h, [pc |-> "rehash", user |-> u, old |-> old, new |-> new])
    /\ UNCHANGED <<stores, history>>

\* UPDATE by id: the password that was checked is not part of the condition.
ChangeWrites(h) ==
    LET u == job[h].user IN
    /\ At(h, "rehash")
    /\ user' = [user EXCEPT ![u].password = job[h].new, ![u].mustChange = FALSE]
    /\ provisional' = IF job[h].old = user[u].password THEN provisional \ {u} ELSE provisional
    /\ Answer(h)
    /\ UNCHANGED <<token, live, challenge, open, sealed, shut, closed, proved>>

-----------------------------------------------------------------------------
(* The team page and the admin routes of a university.  The row read first *)
(* decides on the role and the university only, which never change.        *)

CreateMember(u) ==
    /\ Accepts("create") /\ ~Exists(u)
    /\ \E p \in Passwords :
        user' = [user EXCEPT ![u] = [NoUser EXCEPT !.isActive = TRUE, !.password = p,
                                                   !.mustChange = TRUE]]
    /\ UNCHANGED <<token, live, challenge, open, job, history>>

BlockMember(u) ==
    /\ Accepts("block") /\ Exists(u)
    /\ user' = [user EXCEPT ![u].isActive = FALSE]
    /\ shut' = IF \E h \in Handlers : Busy(h, u) THEN shut ELSE shut \union {u}
    /\ UNCHANGED <<token, live, challenge, open, job, sealed, provisional, closed, proved>>

UnblockMember(u) ==
    /\ Accepts("unblock") /\ Exists(u)
    /\ user' = [user EXCEPT ![u].isActive = TRUE]
    /\ shut' = shut \ {u}
    /\ UNCHANGED <<token, live, challenge, open, job, sealed, provisional, closed, proved>>

\* A random temporary password, and the lock is lifted.
ResetPassword(u) ==
    /\ Accepts("reset") /\ Exists(u)
    /\ \E p \in Passwords \ {user[u].password} :
        user' = [user EXCEPT ![u].password = p, ![u].mustChange = TRUE,
                             ![u].failedAttempts = 0, ![u].locked = FALSE]
    /\ sealed' = sealed \ {u}
    /\ provisional' = IF InFlight({"rehash"}, u) THEN provisional \ {u}
                      ELSE provisional \union {u}
    /\ UNCHANGED <<token, live, challenge, open, job, shut, closed, proved>>

\* The instance stops, or Postgres or Redis answers with an error.
Abort(h) ==
    /\ ~Free(h)
    /\ Answer(h)
    /\ UNCHANGED <<stores, history>>

-----------------------------------------------------------------------------
HandlerStep(h) ==
    \/ LoginCounts(h) \/ LoginClears(h) \/ LoginChallenges(h)
    \/ \E code \in Codes : VerifyChecks(h, code)
    \/ VerifyRefused(h) \/ VerifyConsumes(h)
    \/ RefreshRevokes(h) \/ RefreshReloads(h) \/ RefreshRefused(h)
    \/ IssueTokens(h)
    \/ ConfirmEnables(h) \/ ChangeWrites(h)

Request(h) ==
    \/ \E u \in Users, p \in Passwords : LoginFails(h, u, p) \/ LoginPasses(h, u, p)
    \/ \E c \in Challenges : VerifyGets(h, c)
    \/ \E j \in Jtis : RefreshGets(h, j)
    \/ \E j \in Jtis, code \in Codes : ConfirmReads(h, j, code)
    \/ \E u \in Users, old, new \in Passwords : ChangeReads(h, u, old, new)

AccountStep(u) ==
    \/ SetupMfa(u) \/ LockEnds(u)
    \/ CreateMember(u) \/ BlockMember(u) \/ UnblockMember(u) \/ ResetPassword(u)

\* Two requests of an account meet when the second one starts.
Meets(u) == \E g, h \in Handlers : g # h /\ Busy(g, u) /\ Busy(h, u)

AuthNext ==
    \/ /\ \/ \E h \in Handlers : Request(h) \/ HandlerStep(h) \/ Abort(h)
          \/ \E j \in Jtis : Logout(j) \/ TokenExpires(j)
          \/ \E c \in Challenges : ChallengeExpires(c)
       /\ crowded' = crowded \union {u \in Users : Meets(u)'}
    \/ \E u \in Users :
        /\ AccountStep(u)
        /\ crowded' = IF \E h \in Handlers : Busy(h, u) THEN crowded \union {u} ELSE crowded

AuthSpec == AuthInit /\ [][AuthNext]_vars

Lockout ==
    INSTANCE LockoutPolicy WITH
        fails  <- [u \in Users |-> user[u].failedAttempts],
        locked <- [u \in Users |-> user[u].locked]

-----------------------------------------------------------------------------
(* Properties                                                              *)

\* A lock put on an account while no other login of it was in flight holds
\* until it runs out or the password is reset: no login, whatever it read,
\* lifts it (auth.service.ts: "Le compte se verrouille").
LockIsFirm == \A u \in sealed : user[u].locked

\* After a reset that met no password change in flight, the account must
\* change its password until somebody who typed the temporary one did.
ResetForcesChange == \A u \in provisional : user[u].mustChange

\* Every pair of a session opened under MFA, refreshed pairs included, belongs
\* to a session in which a right code was entered, and says so.
MfaGate ==
    \A j \in Jtis : token[j].gated => token[j].session \in proved /\ token[j].mfaVerified

\* A session whose last refresh token a logout deleted, nothing being in flight
\* for it, never has a live refresh token again.  (A logout whose DEL failed has
\* answered the same and closed nothing.)
LoggedOutStaysOut == \A j \in live : token[j].session \notin closed

\* Once an account was blocked with nothing in flight for it, the only pair it
\* can still obtain is the one that opens a session from an MFA challenge:
\* neither a password nor a refresh token gives one.
BlockedOnlyByChallenge ==
    [][\A u \in shut, j \in live' \ live :
        token'[j].user = u => token'[j].session = j /\ token'[j].gated]_vars

\* As long as no two requests of an account met, failures and locks follow
\* the lockout policy, aborted requests and MFA logins included.
FollowsLockoutPolicy ==
    /\ Lockout!Init
    /\ [][crowded' = {} => [Lockout!Next]_(Lockout!policyVars)]_vars

\* tokens.ts: "ROTATIF (a chaque refresh, on revoque l'ancien)".  A session
\* none of whose requests ever met another request of its account never has
\* two live refresh tokens.
OneLivePerSession ==
    \A i, j \in live :
        token[i].session = token[j].session => i = j \/ token[i].user \in crowded
=============================================================================

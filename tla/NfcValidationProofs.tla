-------------------------- MODULE NfcValidationProofs --------------------------
(***************************************************************************)
(* Theorems about NfcValidation: any number of readers' messages, cards,   *)
(* concurrent validations and concurrent card requests.                    *)
(***************************************************************************)
EXTENDS NfcValidation, CardLifecycleProofs

\* Seen from the cards, a validation changes nothing: what is proved of the
\* card component holds beside the validations.
LEMMA CardStepOrNot == [Next]_vars => [CardNext]_cardVars
BY DEF Next, CardStep, ValidationStep, Tap, Receive, ClaimNonce, ReplayDenied, LookupCard,
       CardUnknown, ScreenCard, PersistDenied, PersistGranted, PersistFails, Grant, TouchFails,
       AbortValidation, vars

LEMMA CardsUnderValidation == Spec => CardSpec
<1>1. Init => CardInit
  BY DEF Init
<1>2. QED  BY <1>1, CardStepOrNot, PTL DEF Spec, CardSpec

CardFacts == CardTyped /\ FinalInv /\ ErasedStaysErased /\ UidsDistinct

LEMMA CardFactsHold == Spec => []CardFacts
<1>1. CardTyped /\ FinalInv /\ ErasedStaysErased /\ UidsDistinct => CardFacts
  BY DEF CardFacts
<1>2. QED
  BY <1>1, CardsUnderValidation, CardTypedInvariant, FinalInvariant, ErasedForGood, UidInvariant,
     PTL

-----------------------------------------------------------------------------
(* Typing.  From the screening on, a validation knows the card it works on. *)

KnowsCard ==
    \A v \in Validations :
        val[v].pc \in {"screen", "accept", "refuse", "touch"} => val[v].student \in Students

Typed == TypeOK /\ KnowsCard

LEMMA TypedNfcInit == Init => Typed
BY TypedInit DEF Init, Typed, TypeOK, KnowsCard, CardTyped, Rest, NoTap, Absent

LEMMA TypedReply ==
    ASSUME Typed, NEW v \in Validations, Reply(v)
    PROVE  /\ val' \in [Validations -> Working \union {Rest}]
           /\ KnowsCard'
           /\ late' \subseteq Validations \X Students
           /\ caught' \subseteq Validations \X Students
BY DEF Typed, TypeOK, KnowsCard, Reply, Rest

LEMMA TypedNfcStep == Typed /\ CardTyped' /\ [Next]_vars => Typed'
<1> SUFFICES ASSUME Typed, CardTyped', [Next]_vars PROVE Typed'
  OBVIOUS
<1>0. CardTypeOK'
  BY DEF CardTyped
<1>1. CASE CardStep
  BY <1>0, <1>1 DEF CardStep, Typed, TypeOK, KnowsCard
<1>2. ASSUME NEW n \in Nonces, Tap(n)
      PROVE  Typed'
  BY <1>0, <1>2 DEF Tap, Typed, TypeOK, KnowsCard, Message
<1>3. ASSUME NEW v \in Validations, NEW n \in Nonces, Receive(v, n)
      PROVE  Typed'
  <2>1. val' \in [Validations -> Working \union {Rest}] /\ KnowsCard'
    BY <1>3 DEF Receive, Typed, TypeOK, KnowsCard, Working, Rest
  <2>2. late' \subseteq Validations \X Students
    BY <1>3 DEF Receive, Typed, TypeOK, CardTypeOK
  <2>3. QED  BY <1>0, <1>3, <2>1, <2>2 DEF Receive, Typed, TypeOK
<1>4. ASSUME NEW v \in Validations, ClaimNonce(v)
      PROVE  Typed'
  <2>1. val[v] \in Working
    BY <1>4 DEF ClaimNonce, Typed, TypeOK, Rest
  <2>2. clock + NonceTtl \in Nat
    BY HorizonAssumption, SkewAssumption, NonceTtlAssumption DEF Typed, TypeOK, CardTypeOK, Clock
  <2>3. val' \in [Validations -> Working \union {Rest}] /\ KnowsCard'
    BY <1>4, <2>1 DEF ClaimNonce, Proceed, Typed, TypeOK, KnowsCard, Working
  <2>4. QED  BY <1>0, <1>4, <2>1, <2>2, <2>3 DEF ClaimNonce, Typed, TypeOK, Working
<1>5. ASSUME NEW v \in Validations, LookupCard(v)
      PROVE  Typed'
  <2>1. val[v] \in Working
    BY <1>5 DEF LookupCard, Typed, TypeOK, Rest
  <2>2. PICK s \in Students :
          val' = [val EXCEPT ![v].pc = "screen", ![v].student = s,
                             ![v].status = card[s].status, ![v].expires = card[s].expires]
    BY <1>5 DEF LookupCard
  <2>3. card[s].status \in Status \union {"NONE"} /\ card[s].expires \in Nat
    BY DEF Typed, TypeOK, CardTypeOK, CardRow, NoCard
  <2>4. val' \in [Validations -> Working \union {Rest}] /\ KnowsCard'
    BY <2>1, <2>2, <2>3 DEF Typed, TypeOK, KnowsCard, Working
  <2>5. QED  BY <1>0, <1>5, <2>4 DEF LookupCard, Typed, TypeOK
<1>6. ASSUME NEW v \in Validations, ScreenCard(v)
      PROVE  Typed'
  <2>1. val[v] \in Working
    BY <1>6 DEF ScreenCard, Typed, TypeOK, Rest
  <2>2. val' \in [Validations -> Working \union {Rest}] /\ KnowsCard'
    BY <1>6, <2>1 DEF ScreenCard, Proceed, Typed, TypeOK, KnowsCard, Working
  <2>3. QED  BY <1>0, <1>6, <2>2 DEF ScreenCard, Typed, TypeOK
<1>7. ASSUME NEW v \in Validations, PersistGranted(v)
      PROVE  Typed'
  <2>1. val[v] \in Working /\ val[v].student \in Students
    BY <1>7 DEF PersistGranted, Typed, TypeOK, KnowsCard, Rest
  <2>2. val' \in [Validations -> Working \union {Rest}] /\ KnowsCard'
    BY <1>7, <2>1 DEF PersistGranted, Proceed, Typed, TypeOK, KnowsCard, Working
  <2>3. log' \subseteq [nonce : Nonces, student : Students, success : BOOLEAN]
    <3>1. val[v].nonce \in Nonces
      BY <2>1 DEF Working
    <3>2. Entry(v, TRUE) \in [nonce : Nonces, student : Students, success : BOOLEAN]
      BY <2>1, <3>1 DEF Entry
    <3>3. QED  BY <1>7, <3>2 DEF PersistGranted, Typed, TypeOK
  <2>4. QED  BY <1>0, <1>7, <2>2, <2>3 DEF PersistGranted, Typed, TypeOK
<1>8. ASSUME NEW v \in Validations, PersistDenied(v)
      PROVE  Typed'
  <2>1. val[v] \in Working /\ val[v].student \in Students
    BY <1>8 DEF PersistDenied, Typed, TypeOK, KnowsCard, Rest
  <2>2. log' \subseteq [nonce : Nonces, student : Students, success : BOOLEAN]
    <3>1. val[v].nonce \in Nonces
      BY <2>1 DEF Working
    <3>2. Entry(v, FALSE) \in [nonce : Nonces, student : Students, success : BOOLEAN]
      BY <2>1, <3>1 DEF Entry
    <3>3. QED  BY <1>8, <3>2 DEF PersistDenied, Typed, TypeOK
  <2>3. QED  BY <1>0, <1>8, <2>2, TypedReply DEF PersistDenied, Typed, TypeOK
<1>9. ASSUME NEW v \in Validations, Grant(v)
      PROVE  Typed'
  <2>1. val[v].nonce \in Nonces /\ val[v].student \in Students
    BY <1>9 DEF Grant, Typed, TypeOK, KnowsCard, Rest, Working
  <2>2. grants' \in [Nonces -> [Students -> 0..2]]
    BY <1>9, <2>1 DEF Grant, Typed, TypeOK
  <2>3. QED  BY <1>0, <1>9, <2>2, TypedReply DEF Grant, Typed, TypeOK
<1>10. ASSUME NEW v \in Validations,
              ReplayDenied(v) \/ CardUnknown(v) \/ PersistFails(v) \/ TouchFails(v)
              \/ AbortValidation(v)
       PROVE  Typed'
  BY <1>0, <1>10, TypedReply
     DEF ReplayDenied, CardUnknown, PersistFails, TouchFails, AbortValidation, Typed, TypeOK
<1>11. CASE UNCHANGED vars
  BY <1>0, <1>11 DEF vars, nfcVars, Typed, TypeOK, KnowsCard
<1>12. QED
  BY <1>1, <1>2, <1>3, <1>4, <1>5, <1>6, <1>7, <1>8, <1>9, <1>10, <1>11 DEF Next, ValidationStep

LEMMA TypedInvariant == Spec => []Typed
<1>1. CardFacts => CardTyped
  BY DEF CardFacts
<1>2. QED  BY <1>1, TypedNfcInit, TypedNfcStep, CardFactsHold, PTL DEF Spec

\* Every reachable state of the validation protocol is well typed.
THEOREM TypeCorrect == Spec => []TypeOK
<1>1. Typed => TypeOK
  BY DEF Typed
<1>2. QED  BY <1>1, TypedInvariant, PTL

-----------------------------------------------------------------------------
(* The nonce key and the window.  A key written while its message was in   *)
(* the window outlives the window: NonceTtl = 2 * Skew is just enough.     *)

WindowInv ==
    /\ \A v \in Validations :
        val[v].pc = "claim" =>
            tap[val[v].nonce] # NoTap /\ clock >= tap[val[v].nonce].ts - Skew
    /\ \A n \in claimed : tap[n] # NoTap /\ nonceKey[n] >= tap[n].ts + Skew

LEMMA WindowStep == Typed /\ Typed' /\ WindowInv /\ [Next]_vars => WindowInv'
<1> SUFFICES ASSUME Typed, Typed', WindowInv, [Next]_vars PROVE WindowInv'
  OBVIOUS
<1> USE SkewAssumption, NonceTtlAssumption, HorizonAssumption
<1>0. /\ clock \in Int /\ clock' \in Int
      /\ \A n \in Nonces : tap[n].ts \in Int /\ nonceKey[n] \in Int
  BY DEF Typed, TypeOK, CardTypeOK, Clock, Message, NoTap, Absent
<1>1. CASE CardStep \/ UNCHANGED vars
  <2>1. UNCHANGED <<tap, nonceKey, val, claimed>>
    BY <1>1 DEF CardStep, vars, nfcVars
  <2>2. clock' >= clock
    <3>1. clock' = clock \/ Tick
      BY <1>1
         DEF CardStep, CardNext, HandlerStep, Begin, IssueReads, IssueRefused, IssueWrites,
             IssueRejected, BuildLink, StaffReads, StaffRefused, StaffWrites, StaffRejected,
             StaffMarks, StaffPatchesPass, Abort, EraseStudent, MarkerExpires, SavePass,
             ExpireCards, vars, cardVars
    <3>2. QED  BY <1>0, <3>1 DEF Tick
  <2>3. \A v \in Validations : val[v].pc = "claim" => val[v].nonce \in Nonces
    BY DEF Typed, TypeOK, Working, Rest
  <2>4. QED  BY <1>0, <2>1, <2>2, <2>3 DEF WindowInv
<1>2. ASSUME NEW n \in Nonces, Tap(n)
      PROVE  WindowInv'
  BY <1>2 DEF Tap, WindowInv, Typed, TypeOK, cardVars
<1>3. ASSUME NEW v \in Validations, NEW n \in Nonces, Receive(v, n)
      PROVE  WindowInv'
  BY <1>0, <1>3 DEF Receive, InWindow, WindowInv, Typed, TypeOK, Rest, cardVars
<1>4. ASSUME NEW v \in Validations, ClaimNonce(v)
      PROVE  WindowInv'
  <2>1. val[v].nonce \in Nonces /\ val'[v].pc = "lookup"
    BY <1>4 DEF ClaimNonce, Proceed, Typed, TypeOK, Working, Rest
  <2>2. \A w \in Validations \ {v} : val'[w] = val[w]
    BY <1>4 DEF ClaimNonce, Proceed, Typed, TypeOK
  <2>3. nonceKey'[val[v].nonce] >= tap[val[v].nonce].ts + Skew
    BY <1>0, <1>4, <2>1 DEF ClaimNonce, WindowInv, Typed, TypeOK
  <2>4. QED
    BY <1>4, <2>1, <2>2, <2>3 DEF ClaimNonce, WindowInv, Typed, TypeOK, cardVars
<1>5. ASSUME NEW v \in Validations,
             \/ ReplayDenied(v) \/ LookupCard(v) \/ CardUnknown(v) \/ ScreenCard(v)
             \/ PersistDenied(v) \/ PersistGranted(v) \/ PersistFails(v) \/ Grant(v)
             \/ TouchFails(v) \/ AbortValidation(v)
      PROVE  WindowInv'
  <2>1. UNCHANGED <<clock, tap, nonceKey, claimed>>
    BY <1>5 DEF ReplayDenied, LookupCard, CardUnknown, ScreenCard, PersistDenied,
                PersistGranted, PersistFails, Grant, TouchFails, AbortValidation, cardVars
  <2>2. \/ val' = [val EXCEPT ![v] = Rest]
        \/ \E pc \in {"accept", "refuse", "touch"} : val' = [val EXCEPT ![v].pc = pc]
        \/ LookupCard(v)
    BY <1>5 DEF ReplayDenied, CardUnknown, ScreenCard, PersistDenied, PersistGranted,
                PersistFails, Grant, TouchFails, AbortValidation, Reply, Proceed
  <2>3. \A w \in Validations : val'[w].pc = "claim" => val'[w] = val[w]
    <3>1. val \in [Validations -> Working \union {Rest}]
      BY DEF Typed, TypeOK
    <3>2. CASE val' = [val EXCEPT ![v] = Rest]
      BY <3>1, <3>2 DEF Rest
    <3>3. CASE \E pc \in {"accept", "refuse", "touch"} : val' = [val EXCEPT ![v].pc = pc]
      BY <3>1, <3>3 DEF Rest, Working
    <3>4. CASE LookupCard(v)
      BY <3>1, <3>4 DEF LookupCard, Rest, Working
    <3>5. QED  BY <2>2, <3>2, <3>3, <3>4
  <2>4. QED  BY <2>1, <2>3 DEF WindowInv
<1>6. QED  BY <1>1, <1>2, <1>3, <1>4, <1>5 DEF Next, ValidationStep

LEMMA WindowInvariant == Spec => []WindowInv
<1>1. Init => WindowInv
  BY DEF Init, WindowInv, Rest
<1>2. QED  BY <1>1, WindowStep, TypedInvariant, PTL DEF Spec

\* A nonce is only claimed again after the window of its message has closed,
\* for every tolerance and every stall of every handler.
THEOREM NonceKeyOutlivesWindow == Spec => NonceOutlivesWindow
<1>1. Typed /\ WindowInv /\ [Next]_vars =>
        [\A n \in claimed : nonceKey'[n] # nonceKey[n] => clock > tap[n].ts + Skew]_vars
  <2> SUFFICES ASSUME Typed, WindowInv, Next, NEW n \in claimed, nonceKey'[n] # nonceKey[n]
               PROVE  clock > tap[n].ts + Skew
    BY DEF vars
  <2>1. PICK v \in Validations : ClaimNonce(v)
    BY DEF Next, CardStep, ValidationStep, Tap, Receive, ReplayDenied, LookupCard, CardUnknown,
           ScreenCard, PersistDenied, PersistGranted, PersistFails, Grant, TouchFails,
           AbortValidation
  <2>2. val[v].nonce = n /\ n \in Nonces
    BY <2>1 DEF ClaimNonce, Typed, TypeOK
  <2>3. nonceKey[n] < clock
    BY <2>1, <2>2, HorizonAssumption
       DEF ClaimNonce, KeyAlive, Typed, TypeOK, CardTypeOK, Clock, Absent
  <2>4. nonceKey[n] >= tap[n].ts + Skew
    BY DEF WindowInv
  <2>5. clock \in Int /\ nonceKey[n] \in Int /\ tap[n].ts \in Int
    BY <2>2, HorizonAssumption DEF Typed, TypeOK, CardTypeOK, Clock, Message, NoTap, Absent
  <2>6. QED  BY <2>3, <2>4, <2>5, SkewAssumption
<1>2. QED  BY <1>1, TypedInvariant, WindowInvariant, PTL DEF Spec, NonceOutlivesWindow

-----------------------------------------------------------------------------
(* One grant per tap.  The unique nonce of CardValidation carries the       *)
(* argument: a validation about to answer "granted" owns the log row of its *)
(* nonce, and a grant already given left one behind.                        *)

Granted(n, s) == [nonce |-> n, student |-> s, success |-> TRUE]

OneRowPerNonce == \A e, f \in log : e.nonce = f.nonce => e = f

GrantsLogged ==
    \A n \in Nonces, s \in Students :
        grants[n][s] <= 1 /\ (s \in enrolled /\ grants[n][s] > 0 => Granted(n, s) \in log)

Touching(v, n, s) == val[v].pc = "touch" /\ val[v].nonce = n /\ val[v].student = s

TouchLogged ==
    \A v \in Validations, n \in Nonces, s \in enrolled :
        Touching(v, n, s) => Granted(n, s) \in log /\ grants[n][s] = 0

TouchAlone ==
    \A v, w \in Validations, n \in Nonces, s \in enrolled :
        Touching(v, n, s) /\ Touching(w, n, s) => v = w

\* Validations leave with their student.
ErasedLeaveNoValidation == \A e \in log : e.student \in enrolled

GrantInv == OneRowPerNonce /\ ErasedLeaveNoValidation /\ GrantsLogged /\ TouchLogged /\ TouchAlone

LEMMA GrantInit == Init => GrantInv
<1> SUFFICES ASSUME Init PROVE GrantInv
  OBVIOUS
<1>1. log = {} /\ \A n \in Nonces, s \in Students : grants[n][s] = 0
  BY DEF Init
<1>2. \A v \in Validations : val[v].pc = "idle"
  BY DEF Init, Rest
<1>3. GrantsLogged
  BY <1>1 DEF GrantsLogged
<1>4. TouchLogged /\ TouchAlone
  BY <1>2 DEF TouchLogged, TouchAlone, Touching
<1>5. OneRowPerNonce /\ ErasedLeaveNoValidation
  BY <1>1 DEF OneRowPerNonce, ErasedLeaveNoValidation
<1>6. QED  BY <1>3, <1>4, <1>5 DEF GrantInv

\* A step that leaves log, grants and students alone and lets no validation
\* begin to grant.
LEMMA GrantQuiet ==
    ASSUME GrantInv, UNCHANGED <<log, grants, enrolled>>,
           \A v \in Validations : val'[v].pc = "touch" => val'[v] = val[v]
    PROVE  GrantInv'
<1>1. \A v \in Validations : \A n, s : Touching(v, n, s)' => Touching(v, n, s)
  BY DEF Touching
<1>2. OneRowPerNonce' /\ ErasedLeaveNoValidation'
  BY DEF GrantInv, OneRowPerNonce, ErasedLeaveNoValidation
<1>3. GrantsLogged'
  BY DEF GrantInv, GrantsLogged, Granted
<1>4. TouchLogged'
  BY <1>1 DEF GrantInv, TouchLogged, Granted
<1>5. TouchAlone'
  BY <1>1 DEF GrantInv, TouchAlone
<1>6. QED  BY <1>2, <1>3, <1>4, <1>5 DEF GrantInv

\* The INSERT of a row whose nonce is new.
LEMMA NewRow ==
    ASSUME OneRowPerNonce, NEW row, log' = log \union {row},
           \A e \in log : e.nonce # row.nonce
    PROVE  OneRowPerNonce'
<1> SUFFICES ASSUME NEW e \in log', NEW f \in log', e.nonce = f.nonce PROVE e = f
  BY DEF OneRowPerNonce
<1>1. CASE e \in log /\ f \in log
  BY <1>1 DEF OneRowPerNonce
<1>2. CASE e = row \/ f = row
  BY <1>2
<1>3. QED  BY <1>1, <1>2

LEMMA GrantStep ==
    Typed /\ Typed' /\ CardFacts /\ GrantInv /\ [Next]_vars => GrantInv'
<1> SUFFICES ASSUME Typed, Typed', CardFacts, GrantInv, [Next]_vars PROVE GrantInv'
  OBVIOUS
<1>0. val \in [Validations -> Working \union {Rest}]
  BY DEF Typed, TypeOK
<1>1. CASE CardStep
  <2>1. UNCHANGED <<val, grants>> /\ log' = {e \in log : e.student \in enrolled'}
    BY <1>1 DEF CardStep
  <2>2. enrolled' \subseteq enrolled
    BY <1>1 DEF CardStep, CardNext, HandlerStep, Begin, IssueReads, IssueRefused, IssueWrites,
             IssueRejected, BuildLink, StaffReads, StaffRefused, StaffWrites, StaffRejected,
             StaffMarks, StaffPatchesPass, Abort, EraseStudent, MarkerExpires, SavePass,
             ExpireCards, Tick
  <2>3. \A n, s : s \in enrolled' /\ Granted(n, s) \in log => Granted(n, s) \in log'
    BY <2>1 DEF Granted
  <2>4. \A v, n, s : Touching(v, n, s)' = Touching(v, n, s)
    BY <2>1 DEF Touching
  <2>5. OneRowPerNonce' /\ ErasedLeaveNoValidation'
    BY <2>1 DEF GrantInv, OneRowPerNonce, ErasedLeaveNoValidation
  <2>6. GrantsLogged'
    BY <2>1, <2>2, <2>3 DEF GrantInv, GrantsLogged, Granted
  <2>7. TouchLogged'
    BY <2>1, <2>2, <2>3, <2>4 DEF GrantInv, TouchLogged, Granted
  <2>8. TouchAlone'
    BY <2>2, <2>4 DEF GrantInv, TouchAlone
  <2>9. QED  BY <2>5, <2>6, <2>7, <2>8 DEF GrantInv
<1>2. ASSUME NEW v \in Validations, PersistGranted(v)
      PROVE  GrantInv'
  <2> DEFINE n == val[v].nonce  s == val[v].student
  <2>1. n \in Nonces /\ s \in Students
    BY <1>2 DEF PersistGranted, Typed, TypeOK, KnowsCard, Rest, Working
  <2>2. s \in enrolled
    BY <1>2, <2>1 DEF PersistGranted, Insertable, HasCard, CardFacts, ErasedStaysErased, NoCard
  <2>3. log' = log \union {Granted(n, s)} /\ \A e \in log : e.nonce # n
    BY <1>2 DEF PersistGranted, Insertable, Entry, Granted
  <2>4. UNCHANGED <<grants, enrolled>>
    BY <1>2 DEF PersistGranted, cardVars
  <2>5. \A t \in enrolled : grants[n][t] = 0
    <3> SUFFICES ASSUME NEW t \in enrolled PROVE grants[n][t] = 0
      OBVIOUS
    <3>1. t \in Students /\ grants[n][t] \in 0..2
      BY <2>1 DEF Typed, TypeOK, CardTypeOK
    <3>2. Granted(n, t) \notin log
      BY <2>3 DEF Granted
    <3>3. ~(grants[n][t] > 0)
      BY <2>1, <3>1, <3>2 DEF GrantInv, GrantsLogged
    <3>4. QED  BY <3>1, <3>3
  <2>6. \A w \in Validations \ {v} : \A m, t : Touching(w, m, t)' = Touching(w, m, t)
    BY <1>0, <1>2 DEF PersistGranted, Proceed, Touching
  <2>7. \A m, t : Touching(v, m, t)' => m = n /\ t = s
    BY <1>0, <1>2 DEF PersistGranted, Proceed, Working, Rest, Touching
  <2>8. \A w \in Validations, t \in enrolled : ~Touching(w, n, t)
    BY <2>1, <2>3 DEF GrantInv, TouchLogged, Granted
  <2>9. OneRowPerNonce'
    <3>1. Granted(n, s).nonce = n
      BY DEF Granted
    <3>2. QED  BY <2>3, <3>1, NewRow DEF GrantInv
  <2>10. ErasedLeaveNoValidation'
    BY <2>2, <2>3, <2>4 DEF GrantInv, ErasedLeaveNoValidation, Granted
  <2>11. GrantsLogged'
    BY <2>3, <2>4 DEF GrantInv, GrantsLogged, Granted
  <2>12. TouchLogged'
    <3> SUFFICES ASSUME NEW w \in Validations, NEW m \in Nonces, NEW t \in enrolled',
                        Touching(w, m, t)'
                 PROVE  Granted(m, t)' \in log' /\ grants'[m][t] = 0
      BY DEF TouchLogged
    <3>1. CASE w = v
      BY <2>2, <2>3, <2>4, <2>5, <2>7, <3>1 DEF Granted
    <3>2. CASE w # v
      BY <2>3, <2>4, <2>6, <3>2 DEF GrantInv, TouchLogged, Granted
    <3>3. QED  BY <3>1, <3>2
  <2>13. TouchAlone'
    <3> SUFFICES ASSUME NEW w \in Validations, NEW u \in Validations, NEW m \in Nonces,
                        NEW t \in enrolled', Touching(w, m, t)', Touching(u, m, t)'
                 PROVE  w = u
      BY DEF TouchAlone
    <3>1. CASE w # v /\ u # v
      BY <2>4, <2>6, <3>1 DEF GrantInv, TouchAlone
    <3>2. CASE w = v \/ u = v
      BY <2>4, <2>6, <2>7, <2>8, <3>2
    <3>3. QED  BY <3>1, <3>2
  <2>14. QED  BY <2>9, <2>10, <2>11, <2>12, <2>13 DEF GrantInv
<1>3. ASSUME NEW v \in Validations, PersistDenied(v)
      PROVE  GrantInv'
  <2>1. \A w \in Validations : \A m, t : Touching(w, m, t)' => Touching(w, m, t)
    BY <1>0, <1>3 DEF PersistDenied, Reply, Rest, Touching
  <2>2. val[v].student \in enrolled
    BY <1>3 DEF PersistDenied, Insertable, HasCard, CardFacts, ErasedStaysErased, NoCard,
                Typed, TypeOK, KnowsCard
  <2>3. log' = log \union {Entry(v, FALSE)} /\ UNCHANGED <<grants, enrolled>>
    BY <1>3 DEF PersistDenied, cardVars
  <2>4. OneRowPerNonce'
    <3>1. Entry(v, FALSE).nonce = val[v].nonce
      BY DEF Entry
    <3>2. \A e \in log : e.nonce # val[v].nonce
      BY <1>3 DEF PersistDenied, Insertable
    <3>3. QED  BY <2>3, <3>1, <3>2, NewRow DEF GrantInv
  <2>5. ErasedLeaveNoValidation'
    BY <2>2, <2>3 DEF GrantInv, ErasedLeaveNoValidation, Entry
  <2>6. GrantsLogged'
    BY <2>3 DEF GrantInv, GrantsLogged, Granted
  <2>7. TouchLogged'
    BY <2>1, <2>3 DEF GrantInv, TouchLogged, Granted
  <2>8. TouchAlone'
    BY <2>1, <2>3 DEF GrantInv, TouchAlone
  <2>9. QED  BY <2>4, <2>5, <2>6, <2>7, <2>8 DEF GrantInv
<1>4. ASSUME NEW v \in Validations, Grant(v)
      PROVE  GrantInv'
  <2> DEFINE n == val[v].nonce  s == val[v].student
  <2>1. n \in Nonces /\ s \in Students
    BY <1>4 DEF Grant, Typed, TypeOK, KnowsCard, Rest, Working
  <2>2. s \in enrolled
    BY <1>4, <2>1 DEF Grant, HasCard, CardFacts, ErasedStaysErased, NoCard
  <2>3. Touching(v, n, s) /\ grants[n][s] = 0 /\ Granted(n, s) \in log
    BY <1>4, <2>1, <2>2 DEF Grant, GrantInv, TouchLogged, Touching
  <2>4. /\ grants'[n][s] = 1
        /\ \A m \in Nonces, t \in Students :
             ~(m = n /\ t = s) => grants'[m][t] = grants[m][t]
    BY <1>4, <2>1, <2>3 DEF Grant, Typed, TypeOK
  <2>5. \A w \in Validations : \A m, t : Touching(w, m, t)' => Touching(w, m, t) /\ w # v
    BY <1>0, <1>4 DEF Grant, Reply, Rest, Touching
  <2>6. \A w \in Validations \ {v} : ~Touching(w, n, s)
    BY <2>1, <2>2, <2>3 DEF GrantInv, TouchAlone
  <2>7. UNCHANGED <<log, enrolled>> /\ enrolled \subseteq Students
    BY <1>4 DEF Grant, cardVars, Typed, TypeOK, CardTypeOK
  <2>8. GrantsLogged'
    <3> SUFFICES ASSUME NEW m \in Nonces, NEW t \in Students
                 PROVE  /\ grants'[m][t] <= 1
                        /\ t \in enrolled /\ grants'[m][t] > 0 => Granted(m, t) \in log
      BY <2>7 DEF GrantsLogged, Granted
    <3>1. CASE m = n /\ t = s
      BY <2>3, <2>4, <3>1
    <3>2. CASE ~(m = n /\ t = s)
      BY <2>4, <3>2 DEF GrantInv, GrantsLogged
    <3>3. QED  BY <3>1, <3>2
  <2>9. TouchLogged'
    <3> SUFFICES ASSUME NEW w \in Validations, NEW m \in Nonces, NEW t \in enrolled,
                        Touching(w, m, t), w # v
                 PROVE  Granted(m, t) \in log /\ grants'[m][t] = 0
      BY <2>5, <2>7 DEF TouchLogged, Granted
    <3>1. ~(m = n /\ t = s)
      BY <2>6
    <3>2. QED  BY <2>4, <2>7, <3>1 DEF GrantInv, TouchLogged
  <2>10. TouchAlone'
    BY <2>5, <2>7 DEF GrantInv, TouchAlone
  <2>11. OneRowPerNonce' /\ ErasedLeaveNoValidation'
    BY <2>7 DEF GrantInv, OneRowPerNonce, ErasedLeaveNoValidation
  <2>12. QED  BY <2>8, <2>9, <2>10, <2>11 DEF GrantInv
<1>5. ASSUME NEW v \in Validations,
             \/ ClaimNonce(v) \/ ReplayDenied(v) \/ LookupCard(v) \/ CardUnknown(v)
             \/ ScreenCard(v) \/ PersistFails(v) \/ TouchFails(v) \/ AbortValidation(v)
             \/ \E n \in Nonces : Receive(v, n)
      PROVE  GrantInv'
  <2>1. UNCHANGED <<log, grants, enrolled>>
    BY <1>5 DEF ClaimNonce, ReplayDenied, LookupCard, CardUnknown, ScreenCard, PersistFails,
                TouchFails, AbortValidation, Receive, cardVars
  <2>2. \A w \in Validations : val'[w].pc = "touch" => val'[w] = val[w]
    <3>1. CASE LookupCard(v)
      BY <1>0, <3>1 DEF LookupCard, Working, Rest
    <3>2. CASE ClaimNonce(v) \/ ScreenCard(v)
      BY <1>0, <3>2 DEF ClaimNonce, ScreenCard, Proceed, Working, Rest
    <3>3. CASE \E n \in Nonces : Receive(v, n)
      BY <1>0, <3>3 DEF Receive, Rest
    <3>4. CASE ReplayDenied(v) \/ CardUnknown(v) \/ PersistFails(v) \/ TouchFails(v)
               \/ AbortValidation(v)
      BY <1>0, <3>4 DEF ReplayDenied, CardUnknown, PersistFails, TouchFails, AbortValidation,
                        Reply, Rest
    <3>5. QED  BY <1>5, <3>1, <3>2, <3>3, <3>4
  <2>3. QED  BY <2>1, <2>2, GrantQuiet
<1>6. CASE UNCHANGED vars \/ \E n \in Nonces : Tap(n)
  <2>1. UNCHANGED <<log, grants, enrolled, val>>
    BY <1>6 DEF Tap, vars, nfcVars, cardVars
  <2>2. QED  BY <2>1, GrantQuiet
<1>7. QED  BY <1>1, <1>2, <1>3, <1>4, <1>5, <1>6 DEF Next, ValidationStep

LEMMA GrantInvariant == Spec => []GrantInv
BY GrantInit, GrantStep, TypedInvariant, CardFactsHold, PTL DEF Spec

\* However often a message is sent again, crashes, stalls and expired nonce
\* keys included, its tap is granted once at most for a card.
THEOREM GrantedOnce == Spec => []OneGrantPerTap
<1>1. GrantInv => OneGrantPerTap
  BY DEF GrantInv, GrantsLogged, OneGrantPerTap
<1>2. QED  BY <1>1, GrantInvariant, PTL

\* A grant never outlives its trace: the success row stays until the student
\* is erased, and as a nonce has one row, none recorded as denied is granted.
THEOREM GrantsOnRecord == Spec => []GrantsAreRecorded
<1>1. ASSUME Typed, GrantInv PROVE GrantsAreRecorded
  <2>1. ASSUME NEW n \in Nonces, NEW s \in enrolled
        PROVE  /\ s \in Students /\ grants[n][s] \in 0..2
               /\ grants[n][s] > 0 => Granted(n, s) \in log
    BY <1>1 DEF Typed, TypeOK, CardTypeOK, GrantInv, GrantsLogged
  <2>2. ASSUME NEW e \in log, NEW s \in enrolled, ~e.success
        PROVE  grants[e.nonce][s] = 0
    <3>1. e.nonce \in Nonces
      BY <1>1 DEF Typed, TypeOK
    <3>2. Granted(e.nonce, s) # e /\ Granted(e.nonce, s).nonce = e.nonce
      BY <2>2 DEF Granted
    <3>3. Granted(e.nonce, s) \notin log
      BY <1>1, <3>2 DEF GrantInv, OneRowPerNonce
    <3>4. QED  BY <2>1, <3>1, <3>3
  <2>3. QED  BY <1>1, <2>1, <2>2
               DEF GrantsAreRecorded, Granted, GrantInv, ErasedLeaveNoValidation
<1>2. QED  BY <1>1, TypedInvariant, GrantInvariant, PTL

-----------------------------------------------------------------------------
(* Blocked cards.  A validation that began after a final revocation can     *)
(* only ever read a REVOKED row; one that had read its row when the         *)
(* blocking was answered meets the marker, or has been turned away by it.   *)

LateOk(v, s) ==
    /\ s \in retired
    /\ val[v].pc \in {"claim", "lookup", "screen", "refuse"}
    /\ val[v].pc \in {"claim", "lookup"} => tap[val[v].nonce].uid = card[s].uid
    /\ val[v].pc = "screen" => val[v].status = "REVOKED"

CaughtOk(v, s) ==
    /\ marker[s]
    /\ val[v].pc \in {"screen", "refuse"}
    /\ val[v].pc = "screen" => val[v].student = s

BlockInv ==
    /\ \A v \in Validations, s \in Students : <<v, s>> \in late => LateOk(v, s)
    /\ \A v \in Validations, s \in Students : <<v, s>> \in caught => CaughtOk(v, s)

LEMMA BlockImplies == Typed /\ BlockInv => BlockedCardsRefused
<1> SUFFICES ASSUME Typed, BlockInv, NEW p \in late \union caught
             PROVE  val[p[1]].pc \notin {"accept", "touch"}
  BY DEF BlockedCardsRefused
<1>1. p[1] \in Validations /\ p[2] \in Students /\ p = <<p[1], p[2]>>
  BY DEF Typed, TypeOK
<1>2. QED  BY <1>1 DEF BlockInv, LateOk, CaughtOk

\* A card that was and is finally revoked kept its uid.
LEMMA RetiredKeepsUid ==
    ASSUME CardTyped, [CardNext]_cardVars, NEW s \in retired, s \in retired'
    PROVE  card'[s].uid = card[s].uid
<1>0. s \in Students
  BY DEF CardTyped, CardTypeOK
<1>1. ASSUME NEW h \in Handlers, IssueWrites(h)
      PROVE  card'[s].uid = card[s].uid
  <2>1. s # job[h].student
    BY <1>1 DEF IssueWrites
  <2>2. QED  BY <1>0, <1>1, <2>1 DEF IssueWrites, CardTyped, CardTypeOK
<1>2. ASSUME NEW h \in Handlers, StaffWrites(h)
      PROVE  card'[s].uid = card[s].uid
  BY <1>0, <1>2 DEF StaffWrites, CardTyped, CardTypeOK, CardRow, NoCard
<1>3. ASSUME NEW t \in Students, EraseStudent(t)
      PROVE  card'[s].uid = card[s].uid
  BY <1>0, <1>3 DEF EraseStudent, CardTyped, CardTypeOK
<1>4. CASE ExpireCards
  BY <1>0, <1>4 DEF ExpireCards, CardTyped, CardTypeOK, CardRow, NoCard
<1>5. CASE UNCHANGED card
  BY <1>5
<1>6. QED
  BY <1>1, <1>2, <1>3, <1>4, <1>5
     DEF CardNext, HandlerStep, Begin, IssueReads, IssueRefused, IssueRejected, BuildLink,
         StaffReads, StaffRefused, StaffRejected, StaffMarks, StaffPatchesPass, Abort,
         MarkerExpires, SavePass, Tick, cardVars

\* The answer to v drops v from both histories.
LEMMA BlockReply ==
    ASSUME Typed, BlockInv, NEW v \in Validations, Reply(v), UNCHANGED <<cardVars, tap>>
    PROVE  BlockInv'
<1>1. ASSUME NEW w \in Validations, NEW s \in Students, <<w, s>> \in late' \union caught'
      PROVE  w # v /\ val'[w] = val[w] /\ (<<w, s>> \in late' => <<w, s>> \in late)
             /\ (<<w, s>> \in caught' => <<w, s>> \in caught)
  BY <1>1 DEF Reply, Typed, TypeOK
<1>2. QED  BY <1>1 DEF BlockInv, LateOk, CaughtOk, cardVars

LEMMA BlockStep == Typed /\ Typed' /\ CardFacts /\ BlockInv /\ [Next]_vars => BlockInv'
<1> SUFFICES ASSUME Typed, Typed', CardFacts, BlockInv, [Next]_vars PROVE BlockInv'
  OBVIOUS
<1>0. val \in [Validations -> Working \union {Rest}]
  BY DEF Typed, TypeOK
<1>1. CASE CardStep
  <2>1. UNCHANGED <<val, tap>>
    BY <1>1 DEF CardStep
  <2>2. ASSUME NEW v \in Validations, NEW s \in Students, <<v, s>> \in late'
        PROVE  LateOk(v, s)'
    <3>1. <<v, s>> \in late /\ s \in retired'
      BY <1>1, <2>2 DEF CardStep
    <3>2. LateOk(v, s)
      BY <3>1 DEF BlockInv
    <3>3. card'[s].uid = card[s].uid
      <4>1. s \in retired
        BY <3>2 DEF LateOk
      <4>2. [CardNext]_cardVars
        BY <1>1 DEF CardStep
      <4>3. QED  BY <3>1, <4>1, <4>2, RetiredKeepsUid DEF CardFacts
    <3>4. QED  BY <2>1, <3>1, <3>2, <3>3 DEF LateOk
  <2>3. ASSUME NEW v \in Validations, NEW s \in Students, <<v, s>> \in caught'
        PROVE  CaughtOk(v, s)'
    <3>1. /\ marker'[s]
          /\ \/ <<v, s>> \in caught
             \/ val[v].pc = "screen" /\ val[v].student = s
      BY <1>1, <2>3 DEF CardStep
    <3>2. <<v, s>> \in caught => CaughtOk(v, s)
      BY DEF BlockInv
    <3>3. QED  BY <2>1, <3>1, <3>2 DEF CaughtOk
  <2>4. QED  BY <2>2, <2>3 DEF BlockInv
<1>2. ASSUME NEW n \in Nonces, Tap(n)
      PROVE  BlockInv'
  <2>1. UNCHANGED <<cardVars, val, late, caught>>
    BY <1>2 DEF Tap
  <2>2. ASSUME NEW v \in Validations, NEW s \in Students, LateOk(v, s)
        PROVE  LateOk(v, s)'
    <3>1. CASE val[v].pc \in {"claim", "lookup"}
      <4>1. tap[val[v].nonce].uid # None
        BY <2>2, <3>1, NoneAssumption
           DEF LateOk, CardFacts, FinalInv, RevocationIsFinal, CardTyped, CardTypeOK, CardRow,
               NoCard
      <4>2. val[v].nonce # n
        BY <1>2, <4>1 DEF Tap, NoTap
      <4>3. tap'[val[v].nonce] = tap[val[v].nonce]
        BY <1>2, <4>2 DEF Tap, Typed, TypeOK
      <4>4. QED  BY <2>1, <2>2, <4>3 DEF LateOk, cardVars
    <3>2. CASE val[v].pc \notin {"claim", "lookup"}
      BY <2>1, <2>2, <3>2 DEF LateOk, cardVars
    <3>3. QED  BY <3>1, <3>2
  <2>3. QED  BY <2>1, <2>2 DEF BlockInv, CaughtOk, cardVars
<1>3. ASSUME NEW v \in Validations, NEW n \in Nonces, Receive(v, n)
      PROVE  BlockInv'
  <2>1. /\ val'[v].pc = "claim" /\ val'[v].nonce = n
        /\ \A w \in Validations \ {v} : val'[w] = val[w]
        /\ UNCHANGED <<cardVars, tap, caught>>
    BY <1>0, <1>3 DEF Receive, Rest
  <2>2. ASSUME NEW s \in Students PROVE <<v, s>> \notin late /\ <<v, s>> \notin caught
    BY <1>3 DEF Receive, Rest, BlockInv, LateOk, CaughtOk
  <2>3. ASSUME NEW w \in Validations, NEW s \in Students, <<w, s>> \in late'
        PROVE  LateOk(w, s)'
    <3>1. CASE <<w, s>> \in late
      BY <2>1, <2>2, <3>1 DEF BlockInv, LateOk, cardVars
    <3>2. CASE <<w, s>> \notin late
      <4>1. w = v /\ s \in retired /\ card[s].uid = tap[n].uid
        BY <1>3, <2>3, <3>2 DEF Receive
      <4>2. QED  BY <2>1, <4>1 DEF LateOk, cardVars
    <3>3. QED  BY <3>1, <3>2
  <2>4. ASSUME NEW w \in Validations, NEW s \in Students, <<w, s>> \in caught'
        PROVE  CaughtOk(w, s)'
    BY <2>1, <2>2, <2>4 DEF BlockInv, CaughtOk, cardVars
  <2>5. QED  BY <2>3, <2>4 DEF BlockInv
<1>4. ASSUME NEW v \in Validations,
             ClaimNonce(v) \/ LookupCard(v) \/ ScreenCard(v) \/ PersistGranted(v)
      PROVE  BlockInv'
  <2>1. /\ \A w \in Validations \ {v} : val'[w] = val[w]
        /\ UNCHANGED <<cardVars, tap, late, caught>>
    BY <1>0, <1>4 DEF ClaimNonce, LookupCard, ScreenCard, PersistGranted, Proceed
  <2>2. ASSUME NEW s \in Students, <<v, s>> \in late
        PROVE  LateOk(v, s)'
    <3>1. LateOk(v, s)
      BY <2>2 DEF BlockInv
    <3>2. CASE ClaimNonce(v)
      BY <1>0, <2>1, <3>1, <3>2 DEF ClaimNonce, Proceed, LateOk, cardVars, Working, Rest
    <3>3. CASE LookupCard(v)
      <4>1. PICK t \in Students :
              /\ card[t].uid = tap[val[v].nonce].uid
              /\ val' = [val EXCEPT ![v].pc = "screen", ![v].student = t,
                                    ![v].status = card[t].status, ![v].expires = card[t].expires]
        BY <3>3 DEF LookupCard
      <4>2. card[s].status = "REVOKED" /\ card[t].uid = card[s].uid
        BY <3>1, <3>3, <4>1
           DEF LookupCard, LateOk, CardFacts, FinalInv, RevocationIsFinal
      <4>3. card[s].uid # None
        BY <4>2, NoneAssumption DEF CardFacts, CardTyped, CardTypeOK, CardRow, NoCard
      <4>4. HasCard(t) /\ HasCard(s)
        BY <4>2, <4>3 DEF HasCard, CardFacts, CardTyped, CardTypeOK, CardRow, NoCard, Status
      <4>5. t = s
        BY <4>2, <4>4 DEF CardFacts, UidsDistinct
      <4>6. val'[v].pc = "screen" /\ val'[v].status = "REVOKED"
        BY <1>0, <3>3, <4>1, <4>2, <4>5 DEF LookupCard, Working, Rest
      <4>7. QED  BY <2>1, <3>1, <4>6 DEF LateOk, cardVars
    <3>4. CASE ScreenCard(v)
      <4>1. ~Admissible(v)
        BY <3>1, <3>4 DEF ScreenCard, LateOk, Admissible
      <4>2. val'[v].pc = "refuse"
        BY <1>0, <3>4, <4>1 DEF ScreenCard, Proceed, Working, Rest
      <4>3. QED  BY <2>1, <3>1, <4>2 DEF LateOk, cardVars
    <3>5. CASE PersistGranted(v)
      BY <3>1, <3>5 DEF PersistGranted, LateOk
    <3>6. QED  BY <1>4, <3>2, <3>3, <3>4, <3>5
  <2>3. ASSUME NEW s \in Students, <<v, s>> \in caught
        PROVE  CaughtOk(v, s)'
    <3>1. CaughtOk(v, s)
      BY <2>3 DEF BlockInv
    <3>2. ScreenCard(v)
      BY <1>4, <3>1 DEF CaughtOk, ClaimNonce, LookupCard, PersistGranted
    <3>3. ~Admissible(v)
      BY <3>1, <3>2 DEF ScreenCard, CaughtOk, Admissible
    <3>4. val'[v].pc = "refuse"
      BY <1>0, <3>2, <3>3 DEF ScreenCard, Proceed, Working, Rest
    <3>5. QED  BY <2>1, <3>1, <3>4 DEF CaughtOk, cardVars
  <2>4. QED  BY <2>1, <2>2, <2>3 DEF BlockInv, LateOk, CaughtOk, cardVars
<1>5. ASSUME NEW v \in Validations,
             \/ ReplayDenied(v) \/ CardUnknown(v) \/ PersistDenied(v) \/ PersistFails(v)
             \/ Grant(v) \/ TouchFails(v) \/ AbortValidation(v)
      PROVE  BlockInv'
  <2>1. Reply(v) /\ UNCHANGED <<cardVars, tap>>
    BY <1>5 DEF ReplayDenied, CardUnknown, PersistDenied, PersistFails, Grant, TouchFails,
                AbortValidation
  <2>2. QED  BY <2>1, BlockReply
<1>6. CASE UNCHANGED vars
  BY <1>6 DEF vars, nfcVars, cardVars, BlockInv, LateOk, CaughtOk
<1>7. QED  BY <1>1, <1>2, <1>3, <1>4, <1>5, <1>6 DEF Next, ValidationStep

\* No validation that begins after a final revocation, and none that had read
\* its row when a blocking request was answered while the marker stands, ever
\* comes to be granted.
THEOREM BlockedAreRefused == Spec => []BlockedCardsRefused
<1>1. Init => BlockInv
  BY DEF Init, BlockInv
<1>2. Spec => []BlockInv
  BY <1>1, BlockStep, TypedInvariant, CardFactsHold, PTL DEF Spec
<1>3. QED  BY <1>2, BlockImplies, TypedInvariant, PTL
=============================================================================

------------------------ MODULE SessionRotationProofs ------------------------
(***************************************************************************)
(* Proofs about SessionRotation, for every set of tokens, requests and     *)
(* users.                                                                  *)
(***************************************************************************)
EXTENDS SessionRotation, TLAPS

-----------------------------------------------------------------------------
(* The inductive invariant *)

\* A handler that will try to claim the rotation of its token.
Stale(r) == req[r].pc \in {"user", "claim"} /\ req[r].seen = "live"

\* A handler that has won the claim and not yet finished the rotation.
Winner(r) == req[r].pc \in {"revoke", "create"}

\* A handler works on a token exactly when its control point says so, and
\* that token has a row; a handler that read it as revoked never claims.
RequestShape ==
    \A r \in Requests :
       /\ req[r].pc \in {"idle", "login", "delete"} <=> req[r].token = None
       /\ req[r].token # None => Persisted(req[r].token) /\ req[r].seen # "none"
       /\ req[r].pc \in {"claim", "revoke", "create"} => req[r].seen = "live"
       /\ req[r].pc \in {"login", "delete"} => req[r].user \in Users
       /\ Winner(r) => req[r].next \in minted

\* Rows, their families and cached replacements are tokens generated before.
SessionShape ==
    /\ \A t \in Tokens :
          /\ Persisted(t) => /\ t \in minted
                             /\ sessions[t].family \in Tokens
                             /\ Persisted(sessions[t].family)
                             /\ sessions[t].user \in Users
          /\ ~Persisted(t) => sessions[t] = NoSession
          /\ grace[t] # None => grace[t] \in minted
    /\ \A a, b \in Tokens : grace[a] = grace[b] /\ grace[a] # None => a = b

\* While the request that set an entry is alive, the entry outlives every
\* request on its token.
WatchShape ==
    \A t \in Tokens :
       /\ grace[t] = None => watch[t] = {} /\ claimer[t] = None
       /\ \A r \in watch[t] : req[r].token = t
       /\ claimer[t] # None => On(t) \subseteq watch[t] /\ claimer[t] \in On(t)

\* What holds of every reachable state, early eviction or not.
Shape == TypeOK /\ RequestShape /\ SessionShape /\ WatchShape

\* The replacement of a winner is its own and not yet in the table.
Fresh ==
    \A r \in Requests : Winner(r) =>
       /\ req[r].next \in Tokens
       /\ ~Persisted(req[r].next)
       /\ \A q \in Requests : Winner(q) /\ req[q].next = req[r].next => q = r

\* A winner's replacement is in the cache and not yet in the table, and the
\* old session is revoked before the new one is inserted.
WinnerInv ==
    \A r \in Requests : Winner(r) =>
       /\ req[r].next \in Tokens
       /\ grace[req[r].token] = req[r].next
       /\ claimer[req[r].token] = r
       /\ ~Persisted(req[r].next)
       /\ req[r].pc = "create" => ~Live(req[r].token)

\* The tokens from which a live session of the family can still come.
Potential(t) ==
    /\ Persisted(t)
    /\ \/ Live(t)
       \/ \E r \in On(t) : Winner(r) \/ (Stale(r) /\ r \notin watch[t])

OnePotential ==
    \A a, b \in Tokens : Potential(a) /\ Potential(b) /\ SameFamily(a, b) => a = b

RotationInv == Shape /\ WinnerInv /\ OnePotential /\ IdempotentReplay

-----------------------------------------------------------------------------
(* Type correctness *)

\* Every step of Next, by name: the case split of the proofs below.
LEMMA NextCases ==
    ASSUME Next
    PROVE  \/ \E r \in Requests, u \in Users : BeginLogin(r, u)
           \/ \E r \in Requests, u \in Users : MarkDeleted(r, u)
           \/ \E r \in Requests, t \in Tokens : LoadSession(r, t)
           \/ \E r \in Requests, t \in Tokens : BeginLogout(r, t)
           \/ \E r \in Requests, n \in Tokens : CreateLoginSession(r, n)
           \/ \E r \in Requests : CheckUser(r)
           \/ \E r \in Requests : ReplayFromGrace(r)
           \/ \E r \in Requests, n \in Tokens, heard \in BOOLEAN :
                 ClaimRotation(r, n, heard)
           \/ \E r \in Requests : LoseClaim(r)
           \/ \E r \in Requests : ReadWinner(r)
           \/ \E r \in Requests : RevokeFamily(r)
           \/ \E r \in Requests : RevokeOld(r)
           \/ \E r \in Requests : CreateReplacement(r)
           \/ \E r \in Requests : LogoutRevoke(r)
           \/ \E r \in Requests : RevokeByUser(r)
           \/ \E r \in Requests : Fail(r)
           \/ \E t \in Tokens : ExpireGrace(t)
           \/ \E t \in Tokens : ExpireSession(t)
  BY Zenon DEF Next, Continue

\* What ending a handler does.
LEMMA FinishFacts ==
    ASSUME TypeOK, NEW r \in Requests, Finish(r)
    PROVE  /\ req' \in [Requests -> Request]
           /\ claimer' \in [Tokens -> Requests \cup {None}]
           /\ watch' \in [Tokens -> SUBSET Requests]
           /\ req'[r] = Idle
           /\ \A q \in Requests \ {r} : req'[q] = req[q]
           /\ \A t \in Tokens :
                 /\ claimer'[t] = IF claimer[t] = r THEN None ELSE claimer[t]
                 /\ watch'[t] = watch[t] \ {r}
  BY DEF TypeOK, Finish, Idle, Handler, Request, PC

\* What moving a handler to its next await does.
LEMMA GotoFacts ==
    ASSUME TypeOK, NEW r \in Requests, NEW pc \in PC, Goto(r, pc)
    PROVE  /\ req' \in [Requests -> Request]
           /\ req'[r].pc = pc
           /\ req'[r].token = req[r].token
           /\ req'[r].seen = req[r].seen
           /\ req'[r].next = req[r].next
           /\ req'[r].user = req[r].user
           /\ \A q \in Requests \ {r} : req'[q] = req[q]
           /\ UNCHANGED <<claimer, watch>>
  BY DEF TypeOK, Goto, Request

\* What starting a handler on a persisted token does.
LEMMA StartFacts ==
    ASSUME TypeOK, NEW r \in Requests, NEW t \in Tokens, NEW pc \in PC,
           Persisted(t), Start(r, t, pc)
    PROVE  /\ req' \in [Requests -> Request]
           /\ req[r].pc = "idle"
           /\ req'[r] = Handler(pc, t, sessions[t].state, None, None)
           /\ \A q \in Requests \ {r} : req'[q] = req[q]
           /\ watch' \in [Tokens -> SUBSET Requests]
           /\ \A x \in Tokens \ {t} : watch'[x] = watch[x]
           /\ watch'[t] = IF claimer[t] # None THEN watch[t] \cup {r} ELSE watch[t]
           /\ UNCHANGED claimer
  BY DEF TypeOK, Start, Handler, Request, Session, Persisted

\* What returning a replacement does.
LEMMA AnswerFacts ==
    ASSUME TypeOK, NEW r \in Requests, NEW n \in Tokens, Answer(r, n)
    PROVE  /\ Finish(r)
           /\ answered' \in [Tokens -> SUBSET Tokens]
           /\ \A t \in Tokens : answered'[t] =
                 IF t = req[r].token THEN answered[t] \cup {n} ELSE answered[t]
  BY DEF TypeOK, Answer

\* What revoking the rows of S does.
LEMMA RevokedFacts ==
    ASSUME TypeOK, NEW S, S \subseteq {t \in Tokens : Persisted(t)},
           sessions' = Revoked(S)
    PROVE  /\ sessions' \in [Tokens -> Session]
           /\ \A t \in Tokens :
                 /\ sessions'[t].family = sessions[t].family
                 /\ sessions'[t].user = sessions[t].user
                 /\ sessions'[t].state = IF t \in S THEN "revoked" ELSE sessions[t].state
                 /\ t \notin S => sessions'[t] = sessions[t]
                 /\ sessions'[t].state # "absent" <=> sessions[t].state # "absent"
                 /\ sessions'[t].state = "live" => sessions[t].state = "live"
  BY DEF TypeOK, Revoked, Session, Persisted

\* A finished handler leaves requests and grace entries well-formed.
LEMMA FinishShape ==
    ASSUME Shape, NEW r \in Requests, Finish(r), UNCHANGED grace,
           minted \subseteq minted',
           \A t \in Tokens : Persisted(t) => Persisted(t)'
    PROVE  RequestShape' /\ WatchShape'
  <1> USE ConstantsAssumption, FinishFacts DEF Shape, TypeOK
  <1>1. RequestShape'
    BY DEF RequestShape, Winner, Idle, Handler, Request, Persisted
  <1>2. WatchShape'
    BY DEF WatchShape, On, Idle, Handler
  <1> QED
    BY <1>1, <1>2

\* So does a handler that moves on with the token it presented.
LEMMA GotoShape ==
    ASSUME Shape, NEW r \in Requests, NEW pc \in PC, Goto(r, pc),
           pc \notin {"idle", "login", "delete"},
           req[r].pc \notin {"idle", "login", "delete"},
           pc \in {"claim", "revoke", "create"} => req[r].seen = "live",
           pc \in {"revoke", "create"} => req[r].next \in minted,
           UNCHANGED <<grace, minted>>,
           \A t \in Tokens : Persisted(t) => Persisted(t)'
    PROVE  RequestShape' /\ WatchShape'
  <1> USE ConstantsAssumption, GotoFacts DEF Shape, TypeOK
  <1>1. RequestShape'
    BY DEF RequestShape, Winner, Request, Persisted
  <1>2. WatchShape'
    BY DEF WatchShape, On
  <1> QED
    BY <1>1, <1>2

\* And one that starts on a persisted token.
LEMMA StartShape ==
    ASSUME Shape, NEW r \in Requests, NEW t \in Tokens, NEW pc \in {"user", "logout"},
           Persisted(t), Start(r, t, pc), UNCHANGED <<grace, minted, sessions>>
    PROVE  RequestShape' /\ WatchShape'
  <1>0. TypeOK
    BY DEF Shape
  <1>1. pc \in PC
    BY DEF PC
  <1>2. /\ req[r].pc = "idle"
        /\ req'[r] = Handler(pc, t, sessions[t].state, None, None)
        /\ \A q \in Requests \ {r} : req'[q] = req[q]
        /\ \A x \in Tokens \ {t} : watch'[x] = watch[x]
        /\ watch'[t] = IF claimer[t] # None THEN watch[t] \cup {r} ELSE watch[t]
        /\ UNCHANGED claimer
    BY <1>0, <1>1, StartFacts
  <1> USE ConstantsAssumption DEF Shape, TypeOK
  <1>3. sessions[t].state \in {"live", "revoked"}
    BY DEF Session, Persisted
  <1>4. req[r].token = None
    BY <1>2 DEF RequestShape
  <1>5. RequestShape'
    BY <1>2, <1>3 DEF RequestShape, Winner, Handler, Persisted
  <1>6. WatchShape'
    BY <1>2, <1>4 DEF WatchShape, On, Handler
  <1> QED
    BY <1>5, <1>6

\* Rows only change state: SessionShape survives a revocation.
LEMMA RevokedShape ==
    ASSUME Shape, NEW S, S \subseteq {t \in Tokens : Persisted(t)},
           sessions' = Revoked(S), UNCHANGED <<grace, minted>>
    PROVE  /\ SessionShape'
           /\ \A t \in Tokens : Persisted(t) => Persisted(t)'
  BY RevokedFacts DEF Shape, TypeOK, SessionShape, Persisted, Session

\* Every step keeps the shape of the state, one action at a time.
LEMMA ShapeStep ==
    ASSUME Shape, [Next]_vars
    PROVE  Shape'
  <1> USE ConstantsAssumption
  <1>1. ASSUME NEW r \in Requests, NEW u \in Users, BeginLogin(r, u)
        PROVE  Shape'
    <2>1. TypeOK'
      BY <1>1 DEF Shape, TypeOK, Handler, Request, PC, BeginLogin
    <2>2. SessionShape'
      BY <1>1 DEF Shape, SessionShape, Persisted, BeginLogin
    <2>3. RequestShape' /\ WatchShape'
      BY <1>1 DEF Shape, TypeOK, Request, RequestShape, WatchShape, On, Winner, Handler,
           Persisted, BeginLogin
    <2> QED
      BY <2>1, <2>2, <2>3 DEF Shape
  <1>2. ASSUME NEW r \in Requests, NEW u \in Users, MarkDeleted(r, u)
        PROVE  Shape'
    <2>1. TypeOK'
      BY <1>2 DEF Shape, TypeOK, Handler, Request, PC, MarkDeleted
    <2>2. SessionShape'
      BY <1>2 DEF Shape, SessionShape, Persisted, MarkDeleted
    <2>3. RequestShape' /\ WatchShape'
      BY <1>2 DEF Shape, TypeOK, Request, RequestShape, WatchShape, On, Winner, Handler,
           Persisted, MarkDeleted
    <2> QED
      BY <2>1, <2>2, <2>3 DEF Shape
  <1>3. ASSUME NEW r \in Requests, NEW t \in Tokens, LoadSession(r, t)
        PROVE  Shape'
    <2>0. Persisted(t) /\ Start(r, t, "user") /\ UNCHANGED <<sessions, grace, minted>>
      BY <1>3 DEF LoadSession
    <2>1. TypeOK'
      BY <1>3, <2>0, StartFacts DEF Shape, TypeOK, PC, LoadSession
    <2>2. SessionShape'
      BY <2>0 DEF Shape, SessionShape, Persisted
    <2>3. RequestShape' /\ WatchShape'
      BY <2>0, StartShape
    <2> QED
      BY <2>1, <2>2, <2>3 DEF Shape
  <1>4. ASSUME NEW r \in Requests, NEW t \in Tokens, BeginLogout(r, t)
        PROVE  Shape'
    <2>0. Persisted(t) /\ Start(r, t, "logout") /\ UNCHANGED <<sessions, grace, minted>>
      BY <1>4 DEF BeginLogout
    <2>1. TypeOK'
      BY <1>4, <2>0, StartFacts DEF Shape, TypeOK, PC, BeginLogout
    <2>2. SessionShape'
      BY <2>0 DEF Shape, SessionShape, Persisted
    <2>3. RequestShape' /\ WatchShape'
      BY <2>0, StartShape
    <2> QED
      BY <2>1, <2>2, <2>3 DEF Shape
  <1>5. ASSUME NEW r \in Requests, NEW n \in Tokens, CreateLoginSession(r, n)
        PROVE  Shape'
    <2>1. TypeOK'
      BY <1>5, FinishFacts DEF Shape, TypeOK, RequestShape, Session, CreateLoginSession
    <2>2. SessionShape'
      BY <1>5 DEF Shape, TypeOK, RequestShape, SessionShape, Persisted, NoSession, CreateLoginSession
    <2>a. \A t \in Tokens : Persisted(t) => Persisted(t)'
      BY <1>5 DEF Shape, TypeOK, Persisted, CreateLoginSession
    <2>3. RequestShape' /\ WatchShape'
      BY <1>5, <2>a, FinishShape DEF CreateLoginSession
    <2> QED
      BY <2>1, <2>2, <2>3 DEF Shape
  <1>6. ASSUME NEW r \in Requests, CheckUser(r)
        PROVE  Shape'
    <2>1. TypeOK'
      BY <1>6, FinishFacts, GotoFacts DEF Shape, TypeOK, PC, PathOf, CheckUser
    <2>2. SessionShape'
      BY <1>6 DEF Shape, SessionShape, Persisted, CheckUser
    <2>3. RequestShape' /\ WatchShape'
      <3>1. CASE Finish(r)
        BY <1>6, <3>1, FinishShape DEF Persisted, CheckUser
      <3>2. CASE Goto(r, "replay")
        BY <1>6, <3>2, GotoShape DEF Persisted, PC, CheckUser
      <3>3. CASE Goto(r, "claim") /\ req[r].seen = "live"
        BY <1>6, <3>3, GotoShape DEF Persisted, PC, CheckUser
      <3>4. req[r].seen \in {"live", "revoked"}
        BY <1>6 DEF Shape, TypeOK, Request, RequestShape, CheckUser
      <3> QED
        BY <1>6, <3>1, <3>2, <3>3, <3>4 DEF CheckUser, PathOf
    <2> QED
      BY <2>1, <2>2, <2>3 DEF Shape
  <1>7. ASSUME NEW r \in Requests, ReplayFromGrace(r)
        PROVE  Shape'
    <2>0. UNCHANGED <<sessions, lapsed, deleted, grace, minted>> /\ req[r].pc = "replay"
      BY <1>7 DEF ReplayFromGrace
    <2>a. SessionShape'
      BY <2>0 DEF Shape, SessionShape, Persisted
    <2>1. CASE grace[req[r].token] # None
      <3>1. req[r].token \in Tokens
        BY <2>0 DEF Shape, TypeOK, Request, RequestShape
      <3>2. grace[req[r].token] \in Tokens
        BY <2>1, <3>1 DEF Shape, TypeOK
      <3>3. Answer(r, grace[req[r].token])
        BY <1>7, <2>1 DEF ReplayFromGrace
      <3>4. TypeOK'
        BY <2>0, <3>2, <3>3, AnswerFacts, FinishFacts DEF Shape, TypeOK
      <3>5. RequestShape' /\ WatchShape'
        BY <2>0, <3>3, FinishShape DEF Answer, Persisted
      <3> QED
        BY <2>a, <3>4, <3>5 DEF Shape
    <2>2. CASE grace[req[r].token] = None
      <3>1. Goto(r, "reuse") /\ UNCHANGED answered
        BY <1>7, <2>2 DEF ReplayFromGrace
      <3>2. TypeOK'
        BY <2>0, <3>1, GotoFacts DEF Shape, TypeOK, PC
      <3>3. RequestShape' /\ WatchShape'
        BY <2>0, <3>1, GotoShape DEF PC, Persisted
      <3> QED
        BY <2>a, <3>2, <3>3 DEF Shape
    <2> QED
      BY <2>1, <2>2
  <1>8. ASSUME NEW r \in Requests, NEW n \in Tokens, NEW heard \in BOOLEAN, ClaimRotation(r, n, heard)
        PROVE  Shape'
    <2>0. req[r].token \in Tokens /\ req[r].seen = "live"
      BY <1>8 DEF Shape, TypeOK, Request, RequestShape, ClaimRotation
    <2>1. TypeOK'
      <3> DEFINE pc == IF heard THEN "revoke" ELSE "missed"
      <3>0. pc \in PC
        BY DEF PC
      <3>a. req' = [req EXCEPT ![r] = Handler(pc, req[r].token, req[r].seen, n, None)]
        BY <1>8 DEF ClaimRotation
      <3> HIDE DEF pc
      <3>b. Handler(pc, req[r].token, req[r].seen, n, None) \in Request
        BY <3>0 DEF Shape, TypeOK, Request, Handler
      <3>1. req' \in [Requests -> Request]
        BY <3>a, <3>b DEF Shape, TypeOK
      <3> QED
        BY <1>8, <2>0, <3>1 DEF Shape, TypeOK, On, ClaimRotation
    <2>2. SessionShape'
      BY <1>8, <2>0 DEF Shape, TypeOK, SessionShape, Persisted, NoSession, ClaimRotation, KeyAbsent
    <2>3. RequestShape'
      BY <1>8, <2>0 DEF Shape, TypeOK, Request, RequestShape, Winner, Persisted, Handler, ClaimRotation
    <2>4. WatchShape'
      BY <1>8, <2>0 DEF Shape, TypeOK, Request, WatchShape, On, Handler, ClaimRotation, KeyAbsent
    <2> QED
      BY <2>1, <2>2, <2>3, <2>4 DEF Shape
  <1>9. ASSUME NEW r \in Requests, LoseClaim(r)
        PROVE  Shape'
    <2>0. Goto(r, "missed") /\ UNCHANGED <<grace, minted>>
      BY <1>9 DEF LoseClaim
    <2>1. TypeOK'
      BY <1>9, <2>0, GotoFacts DEF Shape, TypeOK, PC, LoseClaim
    <2>2. SessionShape'
      BY <1>9 DEF Shape, SessionShape, Persisted, LoseClaim
    <2>3. RequestShape' /\ WatchShape'
      BY <1>9, <2>0, GotoShape DEF PC, Persisted, LoseClaim
    <2> QED
      BY <2>1, <2>2, <2>3 DEF Shape
  <1>10. ASSUME NEW r \in Requests, ReadWinner(r)
        PROVE  Shape'
    <2>0. UNCHANGED <<sessions, lapsed, deleted, grace, minted>> /\ req[r].pc = "missed"
      BY <1>10 DEF ReadWinner
    <2>a. SessionShape'
      BY <2>0 DEF Shape, SessionShape, Persisted
    <2>1. CASE grace[req[r].token] # None
      <3>1. req[r].token \in Tokens
        BY <2>0 DEF Shape, TypeOK, Request, RequestShape
      <3>2. grace[req[r].token] \in Tokens
        BY <2>1, <3>1 DEF Shape, TypeOK
      <3>3. Answer(r, grace[req[r].token])
        BY <1>10, <2>1 DEF ReadWinner
      <3>4. TypeOK'
        BY <2>0, <3>2, <3>3, AnswerFacts, FinishFacts DEF Shape, TypeOK
      <3>5. RequestShape' /\ WatchShape'
        BY <2>0, <3>3, FinishShape DEF Answer, Persisted
      <3> QED
        BY <2>a, <3>4, <3>5 DEF Shape
    <2>2. CASE grace[req[r].token] = None
      <3>1. Goto(r, "reuse") /\ UNCHANGED answered
        BY <1>10, <2>2 DEF ReadWinner
      <3>2. TypeOK'
        BY <2>0, <3>1, GotoFacts DEF Shape, TypeOK, PC
      <3>3. RequestShape' /\ WatchShape'
        BY <2>0, <3>1, GotoShape DEF PC, Persisted
      <3> QED
        BY <2>a, <3>2, <3>3 DEF Shape
    <2> QED
      BY <2>1, <2>2
  <1>11. ASSUME NEW r \in Requests, RevokeFamily(r)
        PROVE  Shape'
    <2> DEFINE S == {t \in Tokens : Live(t) /\ sessions[t].family = sessions[req[r].token].family}
    <2>0. sessions' = Revoked(S) /\ Finish(r) /\ UNCHANGED <<lapsed, deleted, grace, minted, answered>>
      BY <1>11 DEF RevokeFamily
    <2>a. S \subseteq {t \in Tokens : Persisted(t)}
      BY <1>11 DEF Shape, TypeOK, Request, RequestShape, Persisted, Live, RevokeFamily
    <2> HIDE DEF S
    <2>1. TypeOK'
      BY <2>0, <2>a, RevokedFacts, FinishFacts DEF Shape, TypeOK
    <2>2. SessionShape' /\ \A t \in Tokens : Persisted(t) => Persisted(t)'
      BY <2>0, <2>a, RevokedShape
    <2>3. RequestShape' /\ WatchShape'
      BY <1>11, <2>0, <2>2, FinishShape DEF RevokeFamily
    <2> QED
      BY <2>1, <2>2, <2>3 DEF Shape
  <1>12. ASSUME NEW r \in Requests, RevokeOld(r)
        PROVE  Shape'
    <2> DEFINE S == {req[r].token}
    <2>0. sessions' = Revoked(S) /\ Goto(r, "create") /\ UNCHANGED <<lapsed, deleted, grace, minted, answered>>
      BY <1>12 DEF RevokeOld
    <2>a. S \subseteq {t \in Tokens : Persisted(t)}
      BY <1>12 DEF Shape, TypeOK, Request, RequestShape, Persisted, Live, RevokeOld
    <2> HIDE DEF S
    <2>1. TypeOK'
      BY <2>0, <2>a, RevokedFacts, GotoFacts DEF Shape, TypeOK, PC
    <2>2. SessionShape' /\ \A t \in Tokens : Persisted(t) => Persisted(t)'
      BY <2>0, <2>a, RevokedShape
    <2>3. RequestShape' /\ WatchShape'
      BY <1>12, <2>0, <2>2, GotoShape DEF Shape, RequestShape, Winner, PC, RevokeOld
    <2> QED
      BY <2>1, <2>2, <2>3 DEF Shape
  <1>13. ASSUME NEW r \in Requests, CreateReplacement(r)
        PROVE  Shape'
    <2> DEFINE n == req[r].next
               o == sessions[req[r].token]
    <2>0. /\ sessions' = [sessions EXCEPT ![n] =
                 [state |-> "live", family |-> o.family, user |-> o.user]]
          /\ Answer(r, n)
          /\ UNCHANGED <<lapsed, deleted, grace, minted>>
      BY <1>13 DEF CreateReplacement
    <2>a. req[r].token \in Tokens /\ Persisted(req[r].token) /\ n \in Tokens /\ n \in minted
      BY <1>13 DEF Shape, TypeOK, Request, RequestShape, Winner, CreateReplacement
    <2>b. o.family \in Tokens /\ o.user \in Users /\ Persisted(o.family)
      BY <2>a DEF Shape, SessionShape
    <2> HIDE DEF n, o
    <2>1. TypeOK'
      BY <2>0, <2>a, <2>b, AnswerFacts, FinishFacts DEF Shape, TypeOK, Session
    <2>2. SessionShape'
      BY <2>0, <2>a, <2>b DEF Shape, TypeOK, SessionShape, Persisted, NoSession
    <2>c. \A t \in Tokens : Persisted(t) => Persisted(t)'
      BY <2>0 DEF Shape, TypeOK, Persisted
    <2>3. RequestShape' /\ WatchShape'
      BY <2>0, <2>c, FinishShape DEF Answer
    <2> QED
      BY <2>1, <2>2, <2>3 DEF Shape
  <1>14. ASSUME NEW r \in Requests, LogoutRevoke(r)
        PROVE  Shape'
    <2> DEFINE S == {req[r].token}
    <2>0. sessions' = Revoked(S) /\ Finish(r) /\ UNCHANGED <<lapsed, deleted, grace, minted, answered>>
      BY <1>14 DEF LogoutRevoke
    <2>a. S \subseteq {t \in Tokens : Persisted(t)}
      BY <1>14 DEF Shape, TypeOK, Request, RequestShape, Persisted, Live, LogoutRevoke
    <2> HIDE DEF S
    <2>1. TypeOK'
      BY <2>0, <2>a, RevokedFacts, FinishFacts DEF Shape, TypeOK
    <2>2. SessionShape' /\ \A t \in Tokens : Persisted(t) => Persisted(t)'
      BY <2>0, <2>a, RevokedShape
    <2>3. RequestShape' /\ WatchShape'
      BY <1>14, <2>0, <2>2, FinishShape DEF LogoutRevoke
    <2> QED
      BY <2>1, <2>2, <2>3 DEF Shape
  <1>15. ASSUME NEW r \in Requests, RevokeByUser(r)
        PROVE  Shape'
    <2> DEFINE S == {t \in Tokens : Live(t) /\ sessions[t].user = req[r].user}
    <2>0. sessions' = Revoked(S) /\ Finish(r) /\ UNCHANGED <<lapsed, deleted, grace, minted, answered>>
      BY <1>15 DEF RevokeByUser
    <2>a. S \subseteq {t \in Tokens : Persisted(t)}
      BY <1>15 DEF Shape, TypeOK, Request, RequestShape, Persisted, Live, RevokeByUser
    <2> HIDE DEF S
    <2>1. TypeOK'
      BY <2>0, <2>a, RevokedFacts, FinishFacts DEF Shape, TypeOK
    <2>2. SessionShape' /\ \A t \in Tokens : Persisted(t) => Persisted(t)'
      BY <2>0, <2>a, RevokedShape
    <2>3. RequestShape' /\ WatchShape'
      BY <1>15, <2>0, <2>2, FinishShape DEF RevokeByUser
    <2> QED
      BY <2>1, <2>2, <2>3 DEF Shape
  <1>16. ASSUME NEW r \in Requests, Fail(r)
        PROVE  Shape'
    <2>1. TypeOK'
      BY <1>16, FinishFacts DEF Shape, TypeOK, Fail
    <2>2. SessionShape'
      BY <1>16 DEF Shape, SessionShape, Persisted, Fail
    <2>3. RequestShape' /\ WatchShape'
      BY <1>16, FinishShape DEF Persisted, Fail
    <2> QED
      BY <2>1, <2>2, <2>3 DEF Shape
  <1>17. ASSUME NEW t \in Tokens, ExpireGrace(t)
        PROVE  Shape'
    <2>1. TypeOK'
      BY <1>17 DEF Shape, TypeOK, ExpireGrace
    <2>2. SessionShape'
      BY <1>17 DEF Shape, TypeOK, SessionShape, Persisted, ExpireGrace
    <2>3. RequestShape' /\ WatchShape'
      BY <1>17 DEF Shape, TypeOK, RequestShape, WatchShape, On, Winner, Persisted, ExpireGrace
    <2> QED
      BY <2>1, <2>2, <2>3 DEF Shape
  <1>18. ASSUME NEW t \in Tokens, ExpireSession(t)
        PROVE  Shape'
    <2>1. TypeOK'
      BY <1>18 DEF Shape, TypeOK, ExpireSession
    <2>2. SessionShape'
      BY <1>18 DEF Shape, SessionShape, Persisted, ExpireSession
    <2>3. RequestShape' /\ WatchShape'
      BY <1>18 DEF Shape, RequestShape, WatchShape, On, Winner, Persisted, ExpireSession
    <2> QED
      BY <2>1, <2>2, <2>3 DEF Shape
  <1>19. CASE UNCHANGED vars
    BY <1>19 DEF vars, Shape, TypeOK, RequestShape, SessionShape, WatchShape,
         Persisted, Winner, On
  <1> QED
    BY NextCases, <1>1, <1>2, <1>3, <1>4, <1>5, <1>6, <1>7, <1>8, <1>9, <1>10, <1>11, <1>12, <1>13, <1>14, <1>15, <1>16, <1>17, <1>18, <1>19

LEMMA ShapeInit == Init => Shape
  BY ConstantsAssumption DEF Init, Shape, TypeOK, RequestShape, SessionShape, WatchShape,
       Session, Request, PC, NoSession, Idle, Handler, Persisted, Winner, On

\* The state stays well-formed for every choice of the constants, whether or
\* not handlers fail and Redis evicts entries early.
THEOREM ShapeCorrect == Spec => []Shape
  <1>1. Init => Shape
    BY ShapeInit
  <1>2. Shape /\ [Next]_vars => Shape'
    BY ShapeStep
  <1> QED
    BY <1>1, <1>2, PTL DEF Spec

\* Type correctness of SessionRotation: the values every handler, row and
\* cache entry can take.
THEOREM TypeCorrect == Spec => []TypeOK
  <1>1. Shape => TypeOK
    BY DEF Shape
  <1> QED
    BY <1>1, ShapeCorrect, PTL

-----------------------------------------------------------------------------
(* Revocation is final *)

\* What a step may do to a handler: keep its token and what it read, end it,
\* or start it on a row in the state that row has now.
LEMMA HandlerStep ==
    ASSUME Shape, Next, NEW r \in Requests
    PROVE  \/ req'[r].token = req[r].token /\ req'[r].seen = req[r].seen
           \/ req'[r].token = None
           \/ /\ req'[r].token \in Tokens
              /\ Persisted(req'[r].token)
              /\ req'[r].seen = sessions[req'[r].token].state
  <1> DEFINE Q == \/ req'[r].token = req[r].token /\ req'[r].seen = req[r].seen
                  \/ req'[r].token = None
                  \/ /\ req'[r].token \in Tokens
                     /\ Persisted(req'[r].token)
                     /\ req'[r].seen = sessions[req'[r].token].state
  <1>1. ASSUME NEW q \in Requests, Finish(q) PROVE Q
    BY <1>1, FinishFacts DEF Shape, Idle, Handler
  <1>2. ASSUME NEW q \in Requests, NEW pc \in PC, Goto(q, pc) PROVE Q
    BY <1>2, GotoFacts DEF Shape
  <1>3. ASSUME NEW q \in Requests, NEW t \in Tokens, NEW pc \in PC, Persisted(t),
               Start(q, t, pc)
        PROVE  Q
    <2>1. /\ req'[q] = Handler(pc, t, sessions[t].state, None, None)
          /\ \A x \in Requests \ {q} : req'[x] = req[x]
      BY <1>3, StartFacts DEF Shape
    <2>2. CASE r = q
      BY <1>3, <2>1, <2>2 DEF Handler
    <2>3. CASE r # q
      BY <2>1, <2>3
    <2> QED
      BY <2>2, <2>3
  <1>4. ASSUME NEW q \in Requests, NEW u \in Users, BeginLogin(q, u) \/ MarkDeleted(q, u)
        PROVE  Q
    BY <1>4 DEF Shape, TypeOK, BeginLogin, MarkDeleted, Handler
  <1>5. ASSUME NEW q \in Requests, NEW n \in Tokens, NEW heard \in BOOLEAN,
               ClaimRotation(q, n, heard)
        PROVE  Q
    BY <1>5 DEF Shape, TypeOK, ClaimRotation, Handler
  <1>6. ASSUME UNCHANGED req PROVE Q
    BY <1>6
  <1> HIDE DEF Q
  <1>7. ASSUME NEW q \in Requests, NEW t \in Tokens, LoadSession(q, t) \/ BeginLogout(q, t)
        PROVE  Q
    BY <1>3, <1>7 DEF LoadSession, BeginLogout, PC
  <1>8. ASSUME NEW q \in Requests, CheckUser(q)
        PROVE  Q
    BY <1>1, <1>2, <1>8 DEF CheckUser, PathOf, PC
  <1>9. ASSUME NEW q \in Requests, ReplayFromGrace(q) \/ ReadWinner(q) \/ LoseClaim(q)
        PROVE  Q
    BY <1>1, <1>2, <1>9 DEF ReplayFromGrace, ReadWinner, LoseClaim, Answer, PC
  <1>10. ASSUME NEW q \in Requests, RevokeOld(q)
         PROVE  Q
    BY <1>2, <1>10 DEF RevokeOld, PC
  <1>11. ASSUME NEW q \in Requests,
                \/ CreateReplacement(q) \/ RevokeFamily(q) \/ LogoutRevoke(q)
                \/ RevokeByUser(q) \/ Fail(q) \/ (\E n \in Tokens : CreateLoginSession(q, n))
         PROVE  Q
    BY <1>1, <1>11 DEF CreateReplacement, RevokeFamily, LogoutRevoke, RevokeByUser, Fail,
       CreateLoginSession, Answer
  <1>12. ASSUME NEW t \in Tokens, ExpireGrace(t) \/ ExpireSession(t)
         PROVE  Q
    BY <1>6, <1>12 DEF ExpireGrace, ExpireSession
  <1>13. Q
    BY <1>4, <1>5, <1>7, <1>8, <1>9, <1>10, <1>11, <1>12, NextCases
  <1> QED
    BY <1>13 DEF Q

\* What a step may do to a row: leave it, revoke it, or insert it for a login
\* or for the winner of a rotation.
LEMMA RowStep ==
    ASSUME Shape, Next, NEW t \in Tokens
    PROVE  \/ sessions'[t] = sessions[t]
           \/ /\ Persisted(t)
              /\ sessions'[t].state = "revoked"
              /\ sessions'[t].family = sessions[t].family
              /\ sessions'[t].user = sessions[t].user
           \/ \E r \in Requests : CreateLoginSession(r, t)
           \/ \E r \in Requests : CreateReplacement(r) /\ t = req[r].next
  <1> DEFINE Q == \/ sessions'[t] = sessions[t]
                  \/ /\ Persisted(t)
                     /\ sessions'[t].state = "revoked"
                     /\ sessions'[t].family = sessions[t].family
                     /\ sessions'[t].user = sessions[t].user
                  \/ \E r \in Requests : CreateLoginSession(r, t)
                  \/ \E r \in Requests : CreateReplacement(r) /\ t = req[r].next
  <1>1. ASSUME NEW r \in Requests, NEW n \in Tokens, CreateLoginSession(r, n)
        PROVE  Q
    <2>1. CASE n = t
      BY <1>1, <2>1
    <2>2. CASE n # t
      BY <1>1, <2>2 DEF Shape, TypeOK, CreateLoginSession
    <2> QED
      BY <2>1, <2>2
  <1>2. ASSUME NEW r \in Requests, CreateReplacement(r)
        PROVE  Q
    <2>1. CASE req[r].next = t
      BY <1>2, <2>1
    <2>2. CASE req[r].next # t
      BY <1>2, <2>2 DEF Shape, TypeOK, CreateReplacement
    <2> QED
      BY <2>1, <2>2
  <1>3. ASSUME NEW S, S \subseteq {x \in Tokens : Persisted(x)}, sessions' = Revoked(S)
        PROVE  Q
    BY <1>3, RevokedFacts DEF Shape
  <1>4. ASSUME UNCHANGED sessions PROVE Q
    BY <1>4
  <1>5. ASSUME NEW r \in Requests, RevokeFamily(r) \/ RevokeByUser(r)
        PROVE  Q
    BY <1>3, <1>5 DEF RevokeFamily, RevokeByUser, Persisted, Live
  <1>6. ASSUME NEW r \in Requests, RevokeOld(r) \/ LogoutRevoke(r)
        PROVE  Q
    <2>1. {req[r].token} \subseteq {x \in Tokens : Persisted(x)}
      BY <1>6 DEF Shape, TypeOK, Request, RequestShape, RevokeOld, LogoutRevoke
    <2> QED
      BY <1>3, <1>6, <2>1 DEF RevokeOld, LogoutRevoke
  <1> HIDE DEF Q
  <1>7. ASSUME NEW r \in Requests,
               \/ CheckUser(r) \/ ReplayFromGrace(r) \/ LoseClaim(r) \/ ReadWinner(r)
               \/ Fail(r)
               \/ \E n \in Tokens, heard \in BOOLEAN : ClaimRotation(r, n, heard)
               \/ \E u \in Users : BeginLogin(r, u) \/ MarkDeleted(r, u)
               \/ \E x \in Tokens : LoadSession(r, x) \/ BeginLogout(r, x)
        PROVE  Q
    <2>1. UNCHANGED sessions
      BY <1>7 DEF BeginLogin, MarkDeleted, LoadSession, BeginLogout, CheckUser,
         ReplayFromGrace, ClaimRotation, LoseClaim, ReadWinner, Fail
    <2> QED
      BY <1>4, <2>1
  <1>8. ASSUME NEW x \in Tokens, ExpireGrace(x) \/ ExpireSession(x)
        PROVE  Q
    BY <1>4, <1>8 DEF ExpireGrace, ExpireSession
  <1>9. Q
    BY <1>1, <1>2, <1>5, <1>6, <1>7, <1>8, NextCases
  <1> QED
    BY <1>9 DEF Q

\* Once a family is dead no interleaving of refreshes, logouts, failures and
\* expiries revives it, even if the cache misbehaves.
THEOREM DeadFamilyCorrect == Spec => DeadFamilyStaysDead
  <1>1. ASSUME Shape, Next, NEW f \in Tokens, Dead(f)
        PROVE  Dead(f)'
    <2>1. ASSUME NEW t \in Tokens, NEW r \in Requests, CreateLoginSession(r, t)
          PROVE  sessions'[t].family # f
      BY <1>1, <2>1 DEF Shape, TypeOK, SessionShape, Dead, CreateLoginSession
    <2>2. ASSUME NEW t \in Tokens, NEW r \in Requests, CreateReplacement(r), t = req[r].next
          PROVE  sessions'[t].family # f
      <3>1. /\ req[r].token \in Tokens
            /\ Persisted(req[r].token)
            /\ req[r].seen = "live"
            /\ r \in On(req[r].token)
        BY <2>2, <1>1 DEF Shape, TypeOK, Request, RequestShape, On, CreateReplacement
      <3>2. sessions[req[r].token].family # f
        BY <3>1, <1>1 DEF Dead
      <3> QED
        BY <2>2, <3>2, <1>1 DEF Shape, TypeOK, CreateReplacement
    <2>3. Persisted(f)'
      <3>1. Persisted(f)
        BY <1>1 DEF Dead
      <3>2. ASSUME NEW r \in Requests, CreateLoginSession(r, f)
            PROVE  sessions'[f].state = "live"
        BY <1>1, <3>2 DEF Shape, TypeOK, CreateLoginSession
      <3>3. ASSUME NEW r \in Requests, CreateReplacement(r), f = req[r].next
            PROVE  sessions'[f].state = "live"
        BY <1>1, <3>3 DEF Shape, TypeOK, CreateReplacement
      <3> QED
        BY <3>1, <3>2, <3>3, <1>1, RowStep DEF Persisted
    <2>4. ASSUME NEW t \in Tokens, Persisted(t)', sessions'[t].family = f
          PROVE  /\ Persisted(t) /\ sessions[t].family = f
                 /\ ~Live(t)'
      <3>1. Persisted(t) /\ sessions[t].family = f
        BY <1>1, <2>1, <2>2, <2>4, RowStep DEF Persisted
      <3>2. ~Live(t)
        BY <1>1, <3>1 DEF Dead
      <3> QED
        BY <1>1, <2>1, <2>2, <2>4, <3>1, <3>2, RowStep DEF Live
    <2>5. ASSUME NEW t \in Tokens, Persisted(t)', sessions'[t].family = f,
                 NEW r \in On(t)'
          PROVE  req'[r].seen = "revoked"
      <3>1. r \in Requests /\ req'[r].token = t
        BY <2>5 DEF On
      <3>2. /\ Persisted(t) /\ sessions[t].family = f
            /\ ~Live(t)
            /\ \A q \in On(t) : req[q].seen = "revoked"
        BY <1>1, <2>4, <2>5 DEF Dead
      <3>3. sessions[t].state = "revoked"
        BY <1>1, <3>2 DEF Shape, TypeOK, Session, Persisted, Live
      <3>4. t # None
        BY ConstantsAssumption
      <3> QED
        BY <1>1, <3>1, <3>2, <3>3, <3>4, HandlerStep DEF On
    <2> QED
      BY <2>3, <2>4, <2>5 DEF Dead
  <1>2. ASSUME NEW f \in Tokens, Dead(f), UNCHANGED vars
        PROVE  Dead(f)'
    BY <1>2 DEF vars, Dead, Persisted, Live, On
  <1>3. Shape /\ [Next]_vars => [\A f \in Tokens : Dead(f) => Dead(f)']_vars
    BY <1>1, <1>2
  <1> QED
    BY <1>3, ShapeCorrect, PTL DEF Spec, DeadFamilyStaysDead

-----------------------------------------------------------------------------
(* Replacements are fresh *)

\* A step that leaves a handler between its claim and its insert found it
\* there with the same replacement, or is its claim with a new token.
LEMMA WinnerOrigin ==
    ASSUME Shape, Next, NEW r \in Requests, Winner(r)'
    PROVE  \/ Winner(r) /\ req'[r].next = req[r].next
           \/ /\ req'[r].next \in Tokens \ minted
              /\ req[r].pc = "claim"
              /\ UNCHANGED sessions
              /\ \A q \in Requests \ {r} : req'[q] = req[q]
  <1> DEFINE Q == \/ Winner(r) /\ req'[r].next = req[r].next
                  \/ /\ req'[r].next \in Tokens \ minted
                     /\ req[r].pc = "claim"
                     /\ UNCHANGED sessions
                     /\ \A q \in Requests \ {r} : req'[q] = req[q]
  <1>1. ASSUME NEW q \in Requests, Finish(q) PROVE Q
    BY <1>1, FinishFacts DEF Shape, Idle, Handler, Winner
  <1>2. ASSUME NEW q \in Requests, NEW pc \in PC, Goto(q, pc),
               pc \in {"revoke", "create"} => Winner(q)
        PROVE  Q
    BY <1>2, GotoFacts DEF Shape, Winner
  <1>3. ASSUME NEW q \in Requests, NEW t \in Tokens, NEW pc \in PC \ {"revoke", "create"},
               Persisted(t), Start(q, t, pc)
        PROVE  Q
    <2>1. /\ req'[q] = Handler(pc, t, sessions[t].state, None, None)
          /\ \A x \in Requests \ {q} : req'[x] = req[x]
      BY <1>3, StartFacts DEF Shape
    <2>2. CASE r = q
      BY <1>3, <2>1, <2>2 DEF Winner, Handler
    <2>3. CASE r # q
      BY <2>1, <2>3 DEF Winner
    <2> QED
      BY <2>2, <2>3
  <1>4. ASSUME NEW q \in Requests, NEW u \in Users, BeginLogin(q, u) \/ MarkDeleted(q, u)
        PROVE  Q
    BY <1>4 DEF BeginLogin, MarkDeleted, Shape, TypeOK, Winner, Handler
  <1>5. ASSUME NEW q \in Requests, NEW t \in Tokens, LoadSession(q, t) \/ BeginLogout(q, t)
        PROVE  Q
    BY <1>3, <1>5 DEF LoadSession, BeginLogout, PC
  <1>6. ASSUME NEW q \in Requests, NEW n \in Tokens, NEW heard \in BOOLEAN,
               ClaimRotation(q, n, heard)
        PROVE  Q
    <2>1. CASE q = r
      BY <1>6, <2>1 DEF ClaimRotation, Shape, TypeOK, Winner, Handler
    <2>2. CASE q # r
      BY <1>6, <2>2 DEF ClaimRotation, Shape, TypeOK, Winner
    <2> QED
      BY <2>1, <2>2
  <1>7. ASSUME NEW q \in Requests,
               CheckUser(q) \/ ReplayFromGrace(q) \/ LoseClaim(q) \/ ReadWinner(q)
        PROVE  Q
    BY <1>1, <1>2, <1>7 DEF CheckUser, ReplayFromGrace, LoseClaim, ReadWinner, Answer,
       PathOf, PC
  <1>8. ASSUME NEW q \in Requests, RevokeOld(q)
        PROVE  Q
    BY <1>2, <1>8 DEF RevokeOld, PC, Winner
  <1>9. ASSUME NEW q \in Requests,
               \/ CreateReplacement(q) \/ RevokeFamily(q) \/ LogoutRevoke(q)
               \/ RevokeByUser(q) \/ Fail(q) \/ (\E n \in Tokens : CreateLoginSession(q, n))
        PROVE  Q
    BY <1>1, <1>9 DEF CreateReplacement, RevokeFamily, LogoutRevoke, RevokeByUser, Fail,
       CreateLoginSession, Answer
  <1>10. ASSUME NEW t \in Tokens, ExpireGrace(t) \/ ExpireSession(t)
         PROVE  Q
    BY <1>10 DEF ExpireGrace, ExpireSession, Winner
  <1> HIDE DEF Q
  <1>11. Q
    BY <1>4, <1>5, <1>6, <1>7, <1>8, <1>9, <1>10, NextCases
  <1> QED
    BY <1>11 DEF Q

\* A step keeps replacements fresh and apart.
LEMMA FreshStep ==
    ASSUME Shape, Fresh, Next
    PROVE  Fresh'
  <1>1. ASSUME NEW r \in Requests, Winner(r)'
        PROVE  req'[r].next \in Tokens /\ ~Persisted(req[r].next)'
    <2>1. CASE Winner(r) /\ req'[r].next = req[r].next
      <3> DEFINE n == req[r].next
      <3>1. n \in Tokens /\ ~Persisted(n) /\ n \in minted
        BY <2>1 DEF Fresh, Shape, RequestShape
      <3>2. ASSUME NEW q \in Requests, CreateLoginSession(q, n) PROVE FALSE
        BY <3>1, <3>2 DEF CreateLoginSession
      <3>3. ASSUME NEW q \in Requests, CreateReplacement(q), n = req[q].next PROVE FALSE
        <4>1. Winner(q)
          BY <3>3 DEF CreateReplacement, Winner
        <4>2. q = r
          BY <2>1, <3>3, <4>1 DEF Fresh
        <4>3. req'[q].pc = "idle"
          BY <3>3, FinishFacts DEF CreateReplacement, Answer, Shape, Idle, Handler
        <4> QED
          BY <1>1, <4>2, <4>3 DEF Winner
      <3>4. sessions'[n] = sessions[n]
        BY <3>1, <3>2, <3>3, RowStep
      <3> QED
        BY <2>1, <3>1, <3>4 DEF Persisted
    <2>2. CASE req'[r].next \in Tokens \ minted /\ UNCHANGED sessions
      BY <2>2 DEF Shape, SessionShape, Persisted
    <2> QED
      BY <1>1, <2>1, <2>2, WinnerOrigin
  <1>2. ASSUME NEW r \in Requests, NEW q \in Requests, Winner(r)', Winner(q)',
               req'[r].next = req'[q].next
        PROVE  r = q
    <2>1. \A x \in Requests : Winner(x) => req[x].next \in minted
      BY DEF Shape, RequestShape
    <2>2. \A x \in Requests : Winner(x)' =>
             \/ Winner(x) /\ req'[x].next = req[x].next
             \/ /\ req'[x].next \notin minted
                /\ \A y \in Requests \ {x} : req'[y] = req[y]
      BY WinnerOrigin
    <2> QED
      BY <1>2, <2>1, <2>2 DEF Fresh, Winner
  <1> QED
    BY <1>1, <1>2 DEF Fresh

\* Every rotation has a replacement of its own, early eviction or not: two
\* winners never insert the same token.
THEOREM FreshCorrect == Spec => []Fresh
  <1>1. Init => Fresh
    BY DEF Init, Fresh, Winner, Idle, Handler
  <1>2. Shape /\ Fresh /\ [Next]_vars => Fresh'
    <2>1. ASSUME Shape, Fresh, UNCHANGED vars PROVE Fresh'
      BY <2>1 DEF Fresh, Winner, Persisted, vars
    <2> QED
      BY <2>1, FreshStep
  <1> QED
    BY <1>1, <1>2, ShapeCorrect, PTL DEF Spec

-----------------------------------------------------------------------------
(* delete_account stops logins and refreshes *)

\* The user of a row never changes.
LEMMA UserKept ==
    ASSUME Shape, Fresh, Next, NEW t \in Tokens, Persisted(t)
    PROVE  sessions'[t].user = sessions[t].user
  <1>1. ASSUME NEW r \in Requests, CreateLoginSession(r, t) PROVE FALSE
    BY <1>1 DEF CreateLoginSession, Shape, SessionShape
  <1>2. ASSUME NEW r \in Requests, CreateReplacement(r), t = req[r].next PROVE FALSE
    BY <1>2 DEF CreateReplacement, Fresh, Winner
  <1> QED
    BY <1>1, <1>2, RowStep

\* No handler gets past the check of a deleted account.
LEMMA PastCheckShrinks ==
    ASSUME Shape, Fresh, Next, NEW u \in deleted, NEW r \in Requests,
           r \in PastCheck(u)'
    PROVE  r \in PastCheck(u)
  <1> DEFINE Past == {"claim", "revoke", "create"}
  <1> DEFINE Kept == /\ req[r].pc \in Past
                     /\ req'[r].pc \in Past
                     /\ req'[r].token = req[r].token
  <1>1. CASE Kept
    <2>1. req[r].token \in Tokens /\ Persisted(req[r].token)
      BY <1>1 DEF Shape, TypeOK, Request, RequestShape
    <2>2. sessions'[req'[r].token].user = u
      BY <1>1 DEF PastCheck
    <2>3. sessions[req[r].token].user = u
      BY <1>1, <2>1, <2>2, UserKept
    <2> QED
      BY <1>1, <2>3 DEF PastCheck
  <1>2. CASE req'[r] = req[r]
    <2>1. CASE req[r].pc = "login"
      BY <1>2, <2>1 DEF PastCheck
    <2>2. CASE req[r].pc # "login"
      BY <1>1, <1>2, <2>2 DEF PastCheck
    <2> QED
      BY <2>1, <2>2
  <1>3. req'[r].pc \in Past \cup {"login"}
    BY DEF PastCheck
  <1> DEFINE Q == r \in PastCheck(u)
  <1> HIDE DEF Q
  <1> USE <1>1, <1>2 DEF Q
  <1>4. ASSUME NEW q \in Requests, Finish(q) PROVE Q
    BY <1>3, <1>4, FinishFacts DEF Shape, Idle, Handler
  <1>5. ASSUME NEW q \in Requests, NEW pc \in PC, Goto(q, pc),
               pc \in Past \cup {"login"} => pc \in Past /\ req[q].pc \in Past
        PROVE  Q
    BY <1>3, <1>5, GotoFacts DEF Shape
  <1>6. ASSUME NEW q \in Requests, NEW t \in Tokens,
               NEW pc \in PC \ (Past \cup {"login"}), Persisted(t), Start(q, t, pc)
        PROVE  Q
    <2>1. /\ req'[q] = Handler(pc, t, sessions[t].state, None, None)
          /\ \A x \in Requests \ {q} : req'[x] = req[x]
      BY <1>6, StartFacts DEF Shape
    <2>2. CASE r = q
      BY <1>3, <1>6, <2>1, <2>2 DEF Handler
    <2>3. CASE r # q
      BY <2>1, <2>3
    <2> QED
      BY <2>2, <2>3
  <1>7. ASSUME NEW q \in Requests, NEW v \in Users, BeginLogin(q, v)
        PROVE  Q
    <2>1. CASE q = r
      <3>1. req'[r].pc = "login" /\ req'[r].user = v /\ v \notin deleted
        BY <1>7, <2>1 DEF BeginLogin, Shape, TypeOK, Handler
      <3> QED
        BY <3>1 DEF PastCheck
    <2>2. CASE q # r
      BY <1>7, <2>2 DEF BeginLogin, Shape, TypeOK
    <2> QED
      BY <2>1, <2>2
  <1>8. ASSUME NEW q \in Requests, NEW v \in Users, MarkDeleted(q, v)
        PROVE  Q
    BY <1>3, <1>8 DEF MarkDeleted, Shape, TypeOK, Handler
  <1>9. ASSUME NEW q \in Requests, NEW t \in Tokens, LoadSession(q, t) \/ BeginLogout(q, t)
        PROVE  Q
    BY <1>6, <1>9 DEF LoadSession, BeginLogout, PC
  <1>10. ASSUME NEW q \in Requests, CheckUser(q)
         PROVE  Q
    <2>1. CASE q # r \/ Finish(q)
      <3>1. ASSUME q # r PROVE req'[r] = req[r]
        BY <1>10, <3>1 DEF CheckUser, Finish, Goto, Shape, TypeOK
      <3> QED
        BY <1>4, <2>1, <3>1
    <2>2. CASE q = r /\ sessions[req[r].token].user \notin deleted /\ Goto(r, PathOf(r))
      <3>1. req'[r].token = req[r].token /\ req'[r].pc # "login"
        BY <2>2, GotoFacts DEF Shape, PathOf, PC
      <3>2. sessions'[req[r].token].user = u
        BY <3>1 DEF PastCheck
      <3>3. sessions' = sessions
        BY <1>10 DEF CheckUser
      <3> QED
        BY <2>2, <3>2, <3>3
    <2> QED
      BY <1>10, <2>1, <2>2 DEF CheckUser
  <1>11. ASSUME NEW q \in Requests, NEW n \in Tokens, NEW heard \in BOOLEAN,
                ClaimRotation(q, n, heard)
         PROVE  Q
    <2>1. CASE q = r
      <3>1. /\ req[r].pc = "claim"
            /\ req'[r].token = req[r].token
            /\ req'[r].pc \in {"revoke", "missed"}
        BY <1>11, <2>1 DEF ClaimRotation, Shape, TypeOK, Handler
      <3> QED
        BY <1>3, <3>1
    <2>2. CASE q # r
      BY <1>11, <2>2 DEF ClaimRotation, Shape, TypeOK
    <2> QED
      BY <2>1, <2>2
  <1>12. ASSUME NEW q \in Requests, ReplayFromGrace(q) \/ LoseClaim(q) \/ ReadWinner(q)
         PROVE  Q
    BY <1>4, <1>5, <1>12 DEF ReplayFromGrace, LoseClaim, ReadWinner, Answer, PC
  <1>13. ASSUME NEW q \in Requests, RevokeOld(q)
         PROVE  Q
    BY <1>5, <1>13 DEF RevokeOld, PC
  <1>14. ASSUME NEW q \in Requests,
                \/ CreateReplacement(q) \/ RevokeFamily(q) \/ LogoutRevoke(q)
                \/ RevokeByUser(q) \/ Fail(q) \/ (\E n \in Tokens : CreateLoginSession(q, n))
         PROVE  Q
    BY <1>4, <1>14 DEF CreateReplacement, RevokeFamily, LogoutRevoke, RevokeByUser, Fail,
       CreateLoginSession, Answer
  <1>15. ASSUME NEW t \in Tokens, ExpireGrace(t) \/ ExpireSession(t)
         PROVE  Q
    BY <1>15 DEF ExpireGrace, ExpireSession
  <1>16. Q
    BY <1>7, <1>8, <1>9, <1>10, <1>11, <1>12, <1>13, <1>14, <1>15, NextCases
  <1> QED
    BY <1>16

\* After delete_account has marked a user, no handler passes the check of the
\* account any more, and a session appears only through one that had passed it
\* before, even if the cache misbehaves.
THEOREM DeletedUserCorrect == Spec => DeletedUserGetsNoSession
  <1> DEFINE P == \A u \in deleted :
                     /\ PastCheck(u)' \subseteq PastCheck(u)
                     /\ PastCheck(u) = {} =>
                           \A t \in Tokens : sessions'[t].user = u => sessions[t].user = u
  <1>1. ASSUME Shape, Fresh, [Next]_vars
        PROVE  [P]_vars
    <2> SUFFICES ASSUME Next PROVE P
      BY <1>1
    <2> SUFFICES ASSUME NEW u \in deleted
                 PROVE  /\ PastCheck(u)' \subseteq PastCheck(u)
                        /\ PastCheck(u) = {} =>
                              \A t \in Tokens : sessions'[t].user = u => sessions[t].user = u
      OBVIOUS
    <2>1. PastCheck(u)' \subseteq PastCheck(u)
      <3>1. PastCheck(u)' \subseteq Requests
        BY DEF PastCheck
      <3> QED
        BY <1>1, <3>1, PastCheckShrinks
    <2>2. ASSUME PastCheck(u) = {}, NEW t \in Tokens, sessions'[t].user = u
          PROVE  sessions[t].user = u
      <3>1. ASSUME NEW r \in Requests, CreateLoginSession(r, t)
            PROVE  sessions[t].user = u
        BY <1>1, <2>2, <3>1 DEF Shape, TypeOK, PastCheck, CreateLoginSession
      <3>2. ASSUME NEW r \in Requests, CreateReplacement(r), t = req[r].next
            PROVE  sessions[t].user = u
        BY <1>1, <2>2, <3>2 DEF Shape, TypeOK, PastCheck, CreateReplacement
      <3> QED
        BY <1>1, <2>2, <3>1, <3>2, RowStep
    <2> QED
      BY <2>1, <2>2
  <1> QED
    BY <1>1, ShapeCorrect, FreshCorrect, PTL DEF Spec, DeletedUserGetsNoSession

-----------------------------------------------------------------------------
(* At most one live session per family *)

\* The winners' bookkeeping survives every step: here the grace entry must
\* outlive the winner, so early eviction is excluded.
LEMMA WinnerStep ==
    ASSUME RotationInv, ~Evicts, Next
    PROVE  WinnerInv'
  <1> SUFFICES ASSUME NEW r \in Requests, Winner(r)'
               PROVE  /\ req'[r].next \in Tokens
                      /\ grace'[req'[r].token] = req'[r].next
                      /\ claimer'[req'[r].token] = r
                      /\ sessions'[req'[r].next].state # "absent"  => FALSE
                      /\ req'[r].pc = "create" => sessions'[req'[r].token].state # "live"
    BY DEF WinnerInv, Persisted, Live
  <1> USE ConstantsAssumption
  <1>0. Shape /\ WinnerInv
    BY DEF RotationInv
  <1> DEFINE tok == req[r].token
             nxt == req[r].next
  \* A winner that this step does not touch.
  <1>1. ASSUME Winner(r), req'[r] = req[r]
        PROVE  /\ tok \in Tokens /\ nxt \in Tokens /\ tok \in minted /\ nxt \in minted
               /\ Persisted(tok) /\ ~Persisted(nxt)
               /\ grace[tok] = nxt /\ claimer[tok] = r
               /\ r \in watch[tok]
               /\ req[r].pc = "create" => ~Live(tok)
    BY <1>0, <1>1 DEF WinnerInv, Winner, Shape, TypeOK, Request, RequestShape, SessionShape,
       WatchShape
  <1>2. ASSUME Winner(r), req'[r] = req[r]
        PROVE  /\ sessions'[nxt].state = "absent"
               /\ req[r].pc = "create" => sessions'[tok].state # "live"
    <2> HIDE DEF tok, nxt
    <2>1. ASSUME NEW q \in Requests, NEW n \in Tokens, CreateLoginSession(q, n)
          PROVE  n # tok /\ n # nxt
      BY <1>1, <1>2, <2>1 DEF CreateLoginSession
    <2>2. ASSUME NEW q \in Requests, CreateReplacement(q)
          PROVE  req[q].next # tok /\ req[q].next # nxt
      <3>1. q # r
        BY <1>0, <1>2, <2>2, FinishFacts DEF Shape, CreateReplacement, Answer, Winner, Idle,
           Handler
      <3>2. /\ req[q].next \in Tokens /\ req[q].token \in Tokens
            /\ ~Persisted(req[q].next)
            /\ grace[req[q].token] = req[q].next
            /\ claimer[req[q].token] = q
        BY <1>0, <2>2 DEF WinnerInv, Winner, Shape, TypeOK, Request, RequestShape,
           CreateReplacement
      <3>3. req[q].next # tok
        BY <1>1, <1>2, <3>2
      <3>4. req[q].token # tok
        BY <1>1, <1>2, <3>1, <3>2
      <3>5. req[q].next # nxt
        BY <1>0, <1>1, <1>2, <3>2, <3>4 DEF Shape, SessionShape
      <3> QED
        BY <3>3, <3>5
    <2>3. nxt \in Tokens /\ tok \in Tokens
      BY <1>1, <1>2
    <2>4. sessions'[nxt].state = "absent"
      BY <1>0, <1>1, <1>2, <2>1, <2>2, <2>3, RowStep DEF Persisted
    <2>5. ASSUME req[r].pc = "create" PROVE sessions'[tok].state # "live"
      BY <1>0, <1>1, <1>2, <2>1, <2>2, <2>3, <2>5, RowStep DEF Live
    <2> QED
      BY <2>4, <2>5
  <1> DEFINE Q == /\ req'[r].next \in Tokens
                  /\ grace'[req'[r].token] = req'[r].next
                  /\ claimer'[req'[r].token] = r
                  /\ sessions'[req'[r].next].state # "absent"  => FALSE
                  /\ req'[r].pc = "create" => sessions'[req'[r].token].state # "live"
  <1>3. ASSUME Winner(r), req'[r] = req[r], grace'[tok] = grace[tok], claimer'[tok] = claimer[tok]
        PROVE  Q
    BY <1>1, <1>2, <1>3 DEF Persisted, Live
  <1>4. ASSUME NEW q \in Requests, Finish(q), UNCHANGED grace
        PROVE  Q
    <2>1. q # r /\ req'[r] = req[r]
      BY <1>0, <1>4, FinishFacts DEF Shape, Winner, Idle, Handler
    <2>2. Winner(r)
      BY <2>1 DEF Winner
    <2>3. claimer'[tok] = claimer[tok]
      BY <1>0, <1>1, <1>4, <2>1, <2>2, FinishFacts DEF Shape
    <2> QED
      BY <1>3, <1>4, <2>1, <2>2, <2>3
  <1>5. ASSUME NEW q \in Requests, NEW pc \in PC \ {"revoke", "create"}, Goto(q, pc),
               UNCHANGED grace
        PROVE  Q
    <2>1. q # r /\ req'[r] = req[r] /\ UNCHANGED claimer
      BY <1>0, <1>5, GotoFacts DEF Shape, Winner
    <2>2. Winner(r)
      BY <2>1 DEF Winner
    <2> QED
      BY <1>3, <1>5, <2>1, <2>2
  <1>6. ASSUME NEW q \in Requests, NEW t \in Tokens, NEW pc \in PC \ {"revoke", "create"},
               Persisted(t), Start(q, t, pc), UNCHANGED grace
        PROVE  Q
    <2>1. /\ req'[q] = Handler(pc, t, sessions[t].state, None, None)
          /\ \A x \in Requests \ {q} : req'[x] = req[x]
          /\ UNCHANGED claimer
      BY <1>0, <1>6, StartFacts DEF Shape
    <2>2. q # r /\ req'[r] = req[r]
      BY <2>1, <1>6 DEF Winner, Handler
    <2>3. Winner(r)
      BY <2>2 DEF Winner
    <2> QED
      BY <1>3, <1>6, <2>1, <2>2, <2>3
  <1>7. ASSUME NEW q \in Requests, NEW u \in Users, BeginLogin(q, u) \/ MarkDeleted(q, u)
        PROVE  Q
    <2>1. q # r /\ req'[r] = req[r] /\ UNCHANGED <<claimer, grace>>
      BY <1>0, <1>7 DEF Shape, TypeOK, Winner, BeginLogin, MarkDeleted, Handler
    <2>2. Winner(r)
      BY <2>1 DEF Winner
    <2> QED
      BY <1>3, <2>1, <2>2
  <1>8. ASSUME NEW q \in Requests, NEW n \in Tokens, NEW heard \in BOOLEAN,
               ClaimRotation(q, n, heard)
        PROVE  Q
    <2>1. req[q].token \in Tokens /\ ~Persisted(n)
      BY <1>0, <1>8 DEF Shape, TypeOK, Request, RequestShape, SessionShape, ClaimRotation
    <2>2. CASE q = r
      <3>1. /\ req'[r].token = req[r].token /\ req'[r].next = n
            /\ req'[r].pc # "create"
            /\ grace'[req[r].token] = n
            /\ claimer'[req[r].token] = r
            /\ UNCHANGED sessions
        BY <1>0, <1>8, <2>1, <2>2 DEF Shape, TypeOK, ClaimRotation, Handler
      <3> QED
        BY <2>1, <3>1 DEF Persisted
    <2>3. CASE q # r
      <3>1. req'[r] = req[r]
        BY <1>0, <1>8, <2>3 DEF Shape, TypeOK, ClaimRotation
      <3>2. Winner(r)
        BY <3>1 DEF Winner
      <3>3. tok # req[q].token
        BY <1>1, <1>8, <3>1, <3>2 DEF ClaimRotation, KeyAbsent
      <3>4. grace'[tok] = grace[tok] /\ claimer'[tok] = claimer[tok]
        BY <1>0, <1>1, <1>8, <3>1, <3>2, <3>3 DEF Shape, TypeOK, ClaimRotation
      <3> QED
        BY <1>3, <3>1, <3>2, <3>4
    <2> QED
      BY <2>2, <2>3
  <1>9. ASSUME NEW q \in Requests, RevokeOld(q)
        PROVE  Q
    <2>1. CASE q = r
      <3>1. Winner(r)
        BY <1>9, <2>1 DEF RevokeOld, Winner
      <3>2. /\ tok \in Tokens /\ nxt \in Tokens
            /\ grace[tok] = nxt /\ claimer[tok] = r /\ ~Persisted(nxt) /\ Persisted(tok)
        BY <1>0, <3>1 DEF WinnerInv, Winner, Shape, TypeOK, Request, RequestShape
      <3>3. req'[r].token = tok /\ req'[r].next = nxt /\ UNCHANGED <<claimer, grace>>
        BY <1>0, <1>9, <2>1, GotoFacts DEF Shape, RevokeOld, PC
      <3>4. sessions'[tok].state = "revoked" /\ sessions'[nxt] = sessions[nxt]
        <4>1. {tok} \subseteq {x \in Tokens : Persisted(x)} /\ tok # nxt
          BY <3>2
        <4>2. sessions' = Revoked({tok})
          BY <1>9, <2>1 DEF RevokeOld
        <4> HIDE DEF tok, nxt
        <4> QED
          BY <1>0, <3>2, <4>1, <4>2 DEF Revoked, Shape, TypeOK, Session
      <3> QED
        BY <3>2, <3>3, <3>4 DEF Persisted
    <2>2. CASE q # r
      <3>1. req'[r] = req[r] /\ UNCHANGED <<claimer, grace>>
        BY <1>0, <1>9, <2>2, GotoFacts DEF Shape, RevokeOld, PC
      <3>2. Winner(r)
        BY <3>1 DEF Winner
      <3> QED
        BY <1>3, <3>1, <3>2
    <2> QED
      BY <2>1, <2>2
  <1>10. ASSUME NEW t \in Tokens, ExpireGrace(t) \/ ExpireSession(t)
         PROVE  Q
    <2>1. req'[r] = req[r]
      BY <1>10 DEF ExpireGrace, ExpireSession
    <2>2. Winner(r)
      BY <2>1 DEF Winner
    <2>3. ExpireGrace(t) => t # tok
      BY <1>1, <2>1, <2>2 DEF ExpireGrace
    <2>4. grace'[tok] = grace[tok] /\ claimer'[tok] = claimer[tok]
      BY <1>0, <1>1, <1>10, <2>1, <2>2, <2>3 DEF Shape, TypeOK, ExpireGrace, ExpireSession
    <2> QED
      BY <1>3, <2>1, <2>2, <2>4
  <1> HIDE DEF Q
  <1>11. ASSUME NEW q \in Requests, NEW t \in Tokens, LoadSession(q, t) \/ BeginLogout(q, t)
         PROVE  Q
    BY <1>6, <1>11 DEF LoadSession, BeginLogout, PC
  <1>12. ASSUME NEW q \in Requests, CheckUser(q)
         PROVE  Q
    BY <1>4, <1>5, <1>12 DEF CheckUser, PathOf, PC
  <1>13. ASSUME NEW q \in Requests, ReplayFromGrace(q) \/ ReadWinner(q) \/ LoseClaim(q)
         PROVE  Q
    BY <1>4, <1>5, <1>13 DEF ReplayFromGrace, ReadWinner, LoseClaim, Answer, PC
  <1>14. ASSUME NEW q \in Requests,
                \/ CreateReplacement(q) \/ RevokeFamily(q) \/ LogoutRevoke(q)
                \/ RevokeByUser(q) \/ Fail(q) \/ (\E n \in Tokens : CreateLoginSession(q, n))
         PROVE  Q
    BY <1>4, <1>14 DEF CreateReplacement, RevokeFamily, LogoutRevoke, RevokeByUser, Fail,
       CreateLoginSession, Answer
  <1>15. Q
    BY <1>7, <1>8, <1>9, <1>10, <1>11, <1>12, <1>13, <1>14, NextCases
  <1> QED
    BY <1>15 DEF Q

\* A row that was there before the step becomes a source of live sessions only
\* if it was one already.
LEMMA OldPotential ==
    ASSUME RotationInv, ~Evicts, Next, NEW t \in Tokens, Potential(t)', Persisted(t),
           sessions'[t].state = "live" => Live(t)
    PROVE  Potential(t)
  <1> USE ConstantsAssumption
  <1>0. Shape /\ WinnerInv
    BY DEF RotationInv
  <1>1. CASE Live(t)
    BY <1>1 DEF Potential
  <1>2. CASE ~Live(t)
    <2>1. PICK r \in Requests :
             /\ req'[r].token = t
             /\ \/ req'[r].pc \in {"revoke", "create"}
                \/ /\ req'[r].pc \in {"user", "claim"}
                   /\ req'[r].seen = "live"
                   /\ r \notin watch'[t]
      BY <1>2 DEF Potential, Live, On, Winner, Stale
    <2>2. ASSUME req[r].token = t,
                 \/ req[r].pc \in {"revoke", "create"}
                 \/ /\ req[r].pc \in {"user", "claim"}
                    /\ req[r].seen = "live"
                    /\ r \notin watch[t]
          PROVE  Potential(t)
      BY <2>2 DEF Potential, On, Winner, Stale
    <2>3. ASSUME req'[r] = req[r], r \notin watch'[t] => r \notin watch[t]
          PROVE  Potential(t)
      BY <2>1, <2>2, <2>3
    <2>4. ASSUME NEW q \in Requests, Finish(q)
          PROVE  Potential(t)
      <3>1. q # r
        BY <1>0, <2>1, <2>4, FinishFacts DEF Shape, Idle, Handler
      <3> QED
        BY <1>0, <2>3, <2>4, <3>1, FinishFacts DEF Shape
    <2>5. ASSUME NEW q \in Requests, NEW pc \in PC, Goto(q, pc), pc # "user",
                 pc \in {"revoke", "create"} => req[q].pc \in {"revoke", "create"},
                 pc = "claim" => req[q].pc = "user"
          PROVE  Potential(t)
      <3>1. CASE q = r
        BY <1>0, <2>1, <2>2, <2>5, <3>1, GotoFacts DEF Shape
      <3>2. CASE q # r
        BY <1>0, <2>3, <2>5, <3>2, GotoFacts DEF Shape
      <3> QED
        BY <3>1, <3>2
    <2>6. ASSUME NEW q \in Requests, NEW x \in Tokens, NEW pc \in {"user", "logout"},
                 Persisted(x), Start(q, x, pc)
          PROVE  Potential(t)
      <3>0. pc \in PC
        BY DEF PC
      <3>1. /\ req'[q] = Handler(pc, x, sessions[x].state, None, None)
            /\ \A y \in Requests \ {q} : req'[y] = req[y]
            /\ \A y \in Tokens \ {x} : watch'[y] = watch[y]
            /\ watch'[x] = IF claimer[x] # None THEN watch[x] \cup {q} ELSE watch[x]
        BY <1>0, <2>6, <3>0, StartFacts DEF Shape
      <3>2. q # r
        BY <1>2, <2>1, <2>6, <3>1 DEF Handler, Live
      <3> QED
        BY <2>3, <3>1, <3>2
    <2>7. ASSUME NEW q \in Requests, NEW u \in Users, BeginLogin(q, u) \/ MarkDeleted(q, u)
          PROVE  Potential(t)
      <3>1. q # r
        BY <1>0, <2>1, <2>7 DEF Shape, TypeOK, BeginLogin, MarkDeleted, Handler
      <3> QED
        BY <1>0, <2>3, <2>7, <3>1 DEF Shape, TypeOK, BeginLogin, MarkDeleted
    <2>8. ASSUME NEW q \in Requests, NEW n \in Tokens, NEW heard \in BOOLEAN,
                 ClaimRotation(q, n, heard)
          PROVE  Potential(t)
      <3>1. /\ req[q].pc = "claim" /\ req[q].seen = "live" /\ req[q].token \in Tokens
            /\ watch[req[q].token] = {}
        BY <1>0, <2>8 DEF Shape, TypeOK, Request, RequestShape, WatchShape, ClaimRotation,
           KeyAbsent
      <3>2. CASE q = r
        <4>1. req[r].token = t
          BY <1>0, <2>1, <2>8, <3>2 DEF Shape, TypeOK, ClaimRotation, Handler
        <4> QED
          BY <2>2, <3>1, <3>2, <4>1
      <3>3. CASE q # r
        <4>1. req'[r] = req[r]
          BY <1>0, <2>8, <3>3 DEF Shape, TypeOK, ClaimRotation
        <4>2. CASE req[q].token = t
          BY <2>3, <3>1, <4>1, <4>2
        <4>3. CASE req[q].token # t
          BY <1>0, <2>3, <2>8, <4>1, <4>3 DEF Shape, TypeOK, ClaimRotation
        <4> QED
          BY <4>2, <4>3
      <3> QED
        BY <3>2, <3>3
    <2>9. ASSUME NEW x \in Tokens, ExpireGrace(x) \/ ExpireSession(x)
          PROVE  Potential(t)
      BY <1>0, <2>3, <2>9 DEF Shape, TypeOK, ExpireGrace, ExpireSession
    <2>10. ASSUME NEW q \in Requests, NEW x \in Tokens, LoadSession(q, x) \/ BeginLogout(q, x)
           PROVE  Potential(t)
      BY <2>6, <2>10 DEF LoadSession, BeginLogout
    <2>11. ASSUME NEW q \in Requests, CheckUser(q)
           PROVE  Potential(t)
      BY <2>4, <2>5, <2>11 DEF CheckUser, PathOf, PC
    <2>12. ASSUME NEW q \in Requests, ReplayFromGrace(q) \/ ReadWinner(q) \/ LoseClaim(q)
           PROVE  Potential(t)
      BY <2>4, <2>5, <2>12 DEF ReplayFromGrace, ReadWinner, LoseClaim, Answer, PC
    <2>13. ASSUME NEW q \in Requests, RevokeOld(q)
           PROVE  Potential(t)
      BY <2>5, <2>13 DEF RevokeOld, PC
    <2>14. ASSUME NEW q \in Requests,
                  \/ CreateReplacement(q) \/ RevokeFamily(q) \/ LogoutRevoke(q)
                  \/ RevokeByUser(q) \/ Fail(q) \/ (\E n \in Tokens : CreateLoginSession(q, n))
           PROVE  Potential(t)
      BY <2>4, <2>14 DEF CreateReplacement, RevokeFamily, LogoutRevoke, RevokeByUser, Fail,
         CreateLoginSession, Answer
    <2> QED
      BY <2>7, <2>8, <2>9, <2>10, <2>11, <2>12, <2>13, <2>14, NextCases
  <1> QED
    BY <1>1, <1>2

\* A family keeps at most one source of live sessions.  The decisive step is
\* the insertion of a replacement: every handler that read the old session as
\* live is watched by the grace entry, so none of them can claim again.
LEMMA OnePotentialStep ==
    ASSUME RotationInv, ~Evicts, Next
    PROVE  OnePotential'
  <1> USE ConstantsAssumption
  <1>0. Shape /\ WinnerInv /\ OnePotential
    BY DEF RotationInv
  <1> SUFFICES ASSUME NEW a \in Tokens, NEW b \in Tokens, Potential(a)', Potential(b)',
                      sessions'[a].family = sessions'[b].family
               PROVE  a = b
    BY DEF OnePotential, SameFamily
  <1>1. sessions'[a].state # "absent" /\ sessions'[b].state # "absent"
    BY DEF Potential, Persisted
  \* A row this step does not insert.
  <1>2. ASSUME NEW t \in Tokens, Potential(t)',
               \A r \in Requests : ~CreateLoginSession(r, t)
                                   /\ ~(CreateReplacement(r) /\ t = req[r].next)
        PROVE  Potential(t) /\ Persisted(t) /\ sessions'[t].family = sessions[t].family
    <2>0. sessions'[t].state # "absent"
      BY <1>2 DEF Potential, Persisted
    <2>1. /\ Persisted(t)
          /\ sessions'[t].family = sessions[t].family
          /\ sessions'[t].state = "live" => Live(t)
      BY <1>0, <1>2, <2>0, RowStep DEF Persisted, Live
    <2> QED
      BY <1>2, <2>1, OldPotential
  <1>3. CASE \E r \in Requests, n \in Tokens : CreateLoginSession(r, n)
    <2>1. PICK r \in Requests, n \in Tokens : CreateLoginSession(r, n)
      BY <1>3
    <2>2. n \notin minted /\ sessions'[n].family = n
      BY <1>0, <2>1 DEF Shape, TypeOK, CreateLoginSession
    <2>3. ASSUME NEW t \in Tokens, t # n, Potential(t)'
          PROVE  /\ Potential(t) /\ Persisted(t)
                 /\ sessions'[t].family = sessions[t].family
                 /\ sessions[t].family # n
      <3>1. sessions'[t] = sessions[t]
        BY <1>0, <2>1, <2>3 DEF Shape, TypeOK, CreateLoginSession
      <3>2. Persisted(t) /\ (sessions'[t].state = "live" => Live(t))
        BY <2>3, <3>1 DEF Potential, Persisted, Live
      <3>3. sessions[t].family # n
        BY <1>0, <2>2, <3>2 DEF Shape, SessionShape
      <3> QED
        BY <2>3, <3>1, <3>2, <3>3, OldPotential
    <2>4. CASE a # n /\ b # n
      BY <1>0, <2>3, <2>4 DEF OnePotential, SameFamily
    <2>5. CASE a = n \/ b = n
      BY <2>2, <2>3, <2>5
    <2> QED
      BY <2>4, <2>5
  <1>4. CASE \E r \in Requests : CreateReplacement(r)
    <2>1. PICK r \in Requests : CreateReplacement(r)
      BY <1>4
    <2> DEFINE o == req[r].token
               n == req[r].next
    <2>2. /\ o \in Tokens /\ n \in Tokens /\ Persisted(o) /\ ~Persisted(n)
          /\ ~Live(o) /\ claimer[o] = r /\ r \in On(o) /\ Winner(r)
      BY <1>0, <2>1 DEF WinnerInv, Winner, Shape, TypeOK, Request, RequestShape, On,
         CreateReplacement
    <2>3. Potential(o)
      BY <2>2 DEF Potential
    <2>4. Finish(r) /\ sessions'[n].family = sessions[o].family
      BY <1>0, <2>1, <2>2 DEF Shape, TypeOK, CreateReplacement, Answer
    <2>5. ASSUME NEW t \in Tokens, t # n
          PROVE  sessions'[t] = sessions[t]
      BY <1>0, <2>1, <2>5 DEF Shape, TypeOK, CreateReplacement
    <2> HIDE DEF o, n
    <2>6. ASSUME NEW t \in Tokens, t # n, Potential(t)'
          PROVE  Potential(t) /\ t # o
      <3>1. sessions'[t] = sessions[t]
        BY <2>5, <2>6
      <3>2. Persisted(t) /\ (sessions'[t].state = "live" => Live(t))
        BY <2>6, <3>1 DEF Potential, Persisted, Live
      <3>3. Potential(t)
        BY <2>6, <3>2, OldPotential
      <3>4. ASSUME t = o PROVE FALSE
        <4>1. PICK q \in Requests :
                 /\ req'[q].token = t
                 /\ \/ req'[q].pc \in {"revoke", "create"}
                    \/ q \notin watch'[t]
          BY <2>2, <2>6, <3>1, <3>4 DEF Potential, Live, On, Winner, Stale
        <4>2. q # r /\ req'[q] = req[q] /\ watch'[t] = watch[t] \ {r}
          BY <1>0, <2>4, <4>1, FinishFacts DEF Shape, Idle, Handler
        <4>3. q \in On(o)
          BY <3>4, <4>1, <4>2 DEF On
        <4>4. q \in watch[o]
          BY <1>0, <2>2, <4>3 DEF Shape, WatchShape
        <4>5. Winner(q)
          BY <3>4, <4>1, <4>2, <4>4 DEF Winner
        <4>6. claimer[o] = q
          BY <1>0, <4>3, <4>5 DEF WinnerInv, On
        <4> QED
          BY <2>2, <4>2, <4>6
      <3> QED
        BY <3>3, <3>4
    <2>7. CASE a # n /\ b # n
      BY <1>0, <2>5, <2>6, <2>7 DEF OnePotential, SameFamily
    <2>8. ASSUME NEW t \in Tokens, t # n, Potential(t)',
                 sessions'[t].family = sessions'[n].family
          PROVE  FALSE
      <3>1. sessions[t].family = sessions[o].family
        BY <2>4, <2>5, <2>8
      <3> QED
        BY <1>0, <2>2, <2>3, <2>6, <2>8, <3>1 DEF OnePotential, SameFamily
    <2> QED
      BY <2>7, <2>8
  <1>5. CASE /\ \A r \in Requests, n \in Tokens : ~CreateLoginSession(r, n)
             /\ \A r \in Requests : ~CreateReplacement(r)
    BY <1>0, <1>2, <1>5 DEF OnePotential, SameFamily
  <1> QED
    BY <1>3, <1>4, <1>5

\* What a token was answered with stays what its grace entry holds.
LEMMA IdempotentStep ==
    ASSUME RotationInv, ~Evicts, Next
    PROVE  IdempotentReplay'
  <1> USE ConstantsAssumption
  <1>0. Shape /\ WinnerInv /\ IdempotentReplay
    BY DEF RotationInv
  <1>1. ASSUME NEW r \in Requests, NEW n \in Tokens, Answer(r, n), UNCHANGED grace,
               grace[req[r].token] = n
        PROVE  IdempotentReplay'
    <2>1. \A t \in Tokens : answered'[t] =
             IF t = req[r].token THEN answered[t] \cup {n} ELSE answered[t]
      BY <1>0, <1>1, AnswerFacts DEF Shape
    <2> QED
      BY <1>0, <1>1, <2>1 DEF IdempotentReplay
  <1>2. ASSUME UNCHANGED <<grace, answered>>
        PROVE  IdempotentReplay'
    BY <1>0, <1>2 DEF IdempotentReplay
  <1>3. ASSUME NEW r \in Requests, CreateReplacement(r)
        PROVE  IdempotentReplay'
    <2>1. req[r].next \in Tokens /\ grace[req[r].token] = req[r].next
      BY <1>0, <1>3 DEF WinnerInv, Winner, CreateReplacement
    <2> QED
      BY <1>1, <1>3, <2>1 DEF CreateReplacement
  <1>4. ASSUME NEW r \in Requests, ReplayFromGrace(r) \/ ReadWinner(r)
        PROVE  IdempotentReplay'
    <2>1. req[r].token \in Tokens
      BY <1>0, <1>4 DEF Shape, TypeOK, Request, RequestShape, ReplayFromGrace, ReadWinner
    <2>2. grace[req[r].token] # None => grace[req[r].token] \in Tokens
      BY <1>0, <2>1 DEF Shape, TypeOK
    <2> QED
      BY <1>1, <1>2, <1>4, <2>2 DEF ReplayFromGrace, ReadWinner
  <1>5. ASSUME NEW r \in Requests, NEW n \in Tokens, NEW heard \in BOOLEAN,
               ClaimRotation(r, n, heard)
        PROVE  IdempotentReplay'
    BY <1>0, <1>5 DEF Shape, TypeOK, Request, RequestShape, IdempotentReplay, ClaimRotation,
       KeyAbsent
  <1>6. ASSUME NEW t \in Tokens, ExpireGrace(t) \/ ExpireSession(t)
        PROVE  IdempotentReplay'
    BY <1>0, <1>6 DEF Shape, TypeOK, IdempotentReplay, ExpireGrace, ExpireSession
  <1>7. ASSUME NEW r \in Requests,
               \/ CheckUser(r) \/ LoseClaim(r) \/ RevokeFamily(r) \/ RevokeOld(r)
               \/ LogoutRevoke(r) \/ RevokeByUser(r) \/ Fail(r)
               \/ \E n \in Tokens : CreateLoginSession(r, n)
               \/ \E u \in Users : BeginLogin(r, u) \/ MarkDeleted(r, u)
               \/ \E x \in Tokens : LoadSession(r, x) \/ BeginLogout(r, x)
        PROVE  IdempotentReplay'
    <2>1. UNCHANGED <<grace, answered>>
      BY <1>7 DEF CheckUser, LoseClaim, RevokeFamily, RevokeOld, LogoutRevoke, RevokeByUser,
         Fail, CreateLoginSession, BeginLogin, MarkDeleted, LoadSession, BeginLogout
    <2> QED
      BY <1>2, <2>1
  <1> QED
    BY <1>3, <1>4, <1>5, <1>6, <1>7, NextCases

LEMMA RotationInit == Init => RotationInv
  <1> SUFFICES ASSUME Init PROVE RotationInv
    OBVIOUS
  <1>1. Shape
    BY ShapeInit
  <1>2. WinnerInv /\ OnePotential /\ IdempotentReplay
    BY DEF Init, WinnerInv, OnePotential, IdempotentReplay, Winner, Potential, Persisted, Idle,
       Handler, NoSession
  <1> QED
    BY <1>1, <1>2 DEF RotationInv

LEMMA RotationStep ==
    ASSUME RotationInv, ~Evicts, [Next]_vars
    PROVE  RotationInv'
  <1>1. Shape'
    BY ShapeStep DEF RotationInv
  <1>2. CASE Next
    BY <1>1, <1>2, WinnerStep, OnePotentialStep, IdempotentStep DEF RotationInv
  <1>3. CASE UNCHANGED vars
    BY <1>1, <1>3 DEF RotationInv, vars, WinnerInv, OnePotential, IdempotentReplay, Winner,
       Potential, Stale, Persisted, Live, On, SameFamily
  <1> QED
    BY <1>2, <1>3

\* Rotation is safe for any number of tokens, requests and users, with
\* failures at every await, provided Redis keeps an entry for its TTL.
THEOREM RotationCorrect ==
    ASSUME ~Evicts
    PROVE  Spec => []RotationInv
  <1>1. Init => RotationInv
    BY RotationInit
  <1>2. RotationInv /\ [Next]_vars => RotationInv'
    BY RotationStep
  <1> QED
    BY <1>1, <1>2, PTL DEF Spec

\* refresh_session never leaves two live sessions in one family.
THEOREM OneLiveCorrect ==
    ASSUME ~Evicts
    PROVE  Spec => []OneLivePerFamily
  <1>1. RotationInv => OneLivePerFamily
    BY DEF RotationInv, OnePotential, OneLivePerFamily, Potential, Persisted, Live
  <1> QED
    BY <1>1, RotationCorrect, PTL

\* Replays inside the grace window all get the winner's replacement.
THEOREM IdempotentReplayCorrect ==
    ASSUME ~Evicts
    PROVE  Spec => []IdempotentReplay
  <1>1. RotationInv => IdempotentReplay
    BY DEF RotationInv
  <1> QED
    BY <1>1, RotationCorrect, PTL
-----------------------------------------------------------------------------
(* Only a failure parts a winner from the entry it has set *)

\* The request that set the entry of t still rotates t to the token in that
\* entry, or it did not hear that it had won.
Claims(t) ==
    claimer[t] # None =>
       /\ req[claimer[t]].pc \in {"missed", "revoke", "create"}
       /\ Winner(claimer[t]) => req[claimer[t]].next = grace[t]

ClaimerInv == \A t \in Tokens : Claims(t)

\* A request that leaves its claim ends and is forgotten as the claimer.
LEMMA ClaimerStep ==
    ASSUME Shape, ClaimerInv, Next, NEW t \in Tokens
    PROVE  Claims(t)'
  <1> USE ConstantsAssumption
  <1>0. Claims(t)
    BY DEF ClaimerInv
  <1>1. /\ TypeOK
        /\ claimer[t] # None =>
              /\ claimer[t] \in Requests
              /\ grace[t] # None
              /\ req[claimer[t]].token = t
              /\ req[claimer[t]].pc \in {"missed", "revoke", "create"}
    BY <1>0 DEF Claims, Shape, TypeOK, WatchShape, On
  \* The claimer of t is not touched by this step.
  <1>2. ASSUME UNCHANGED grace, claimer'[t] # None => claimer'[t] = claimer[t],
               claimer'[t] # None => req'[claimer[t]] = req[claimer[t]]
        PROVE  Claims(t)'
    BY <1>0, <1>2 DEF Claims, Winner
  <1>3. ASSUME NEW q \in Requests, Finish(q), UNCHANGED grace
        PROVE  Claims(t)'
    <2>1. claimer'[t] = IF claimer[t] = q THEN None ELSE claimer[t]
      BY <1>1, <1>3, FinishFacts
    <2>2. claimer'[t] # None => req'[claimer[t]] = req[claimer[t]]
      BY <1>1, <1>3, <2>1, FinishFacts
    <2> QED
      BY <1>2, <1>3, <2>1, <2>2
  <1>4. ASSUME NEW q \in Requests, q # claimer[t], UNCHANGED <<claimer, grace>>,
               \A x \in Requests \ {q} : req'[x] = req[x]
        PROVE  Claims(t)'
    BY <1>1, <1>2, <1>4
  <1>5. ASSUME NEW q \in Requests, NEW pc \in PC, Goto(q, pc), UNCHANGED grace,
               q # claimer[t]
        PROVE  Claims(t)'
    BY <1>1, <1>4, <1>5, GotoFacts
  <1>6. ASSUME NEW q \in Requests,
               \/ \E u \in Users : BeginLogin(q, u) \/ MarkDeleted(q, u)
               \/ \E x \in Tokens : LoadSession(q, x) \/ BeginLogout(q, x)
        PROVE  Claims(t)'
    <2>1. req[q].pc = "idle" /\ UNCHANGED <<claimer, grace>>
      BY <1>6 DEF BeginLogin, MarkDeleted, LoadSession, BeginLogout, Start
    <2>2. \A x \in Requests \ {q} : req'[x] = req[x]
      BY <1>1, <1>6 DEF TypeOK, BeginLogin, MarkDeleted, LoadSession, BeginLogout, Start
    <2> QED
      BY <1>1, <1>4, <2>1, <2>2
  <1>7. ASSUME NEW q \in Requests, CheckUser(q) \/ LoseClaim(q) \/ ReplayFromGrace(q)
        PROVE  Claims(t)'
    <2>1. q # claimer[t]
      BY <1>1, <1>7 DEF CheckUser, LoseClaim, ReplayFromGrace
    <2> QED
      BY <1>3, <1>5, <1>7, <2>1
         DEF CheckUser, LoseClaim, ReplayFromGrace, Answer, PathOf, PC
  <1>8. ASSUME NEW q \in Requests, ReadWinner(q)
        PROVE  Claims(t)'
    <2>1. CASE grace[req[q].token] # None
      BY <1>3, <1>8, <2>1 DEF ReadWinner, Answer
    <2>2. CASE grace[req[q].token] = None
      <3>1. q # claimer[t]
        BY <1>1, <2>2
      <3> QED
        BY <1>5, <1>8, <2>2, <3>1 DEF ReadWinner, PC
    <2> QED
      BY <2>1, <2>2
  <1>9. ASSUME NEW q \in Requests, RevokeOld(q)
        PROVE  Claims(t)'
    <2>1. CASE q # claimer[t]
      BY <1>5, <1>9, <2>1 DEF RevokeOld, PC
    <2>2. CASE q = claimer[t]
      <3>1. /\ req'[q].pc = "create" /\ req'[q].next = req[q].next
            /\ UNCHANGED <<claimer, grace>>
        BY <1>1, <1>9, GotoFacts DEF RevokeOld, PC
      <3> QED
        BY <1>0, <1>1, <1>9, <2>2, <3>1 DEF Claims, Winner, RevokeOld
    <2> QED
      BY <2>1, <2>2
  <1>10. ASSUME NEW q \in Requests, NEW n \in Tokens, NEW heard \in BOOLEAN,
                ClaimRotation(q, n, heard)
         PROVE  Claims(t)'
    <2>1. CASE t = req[q].token
      <3>1. /\ claimer'[t] = q /\ grace'[t] = n
            /\ req'[q].pc \in {"missed", "revoke"} /\ req'[q].next = n
        BY <1>1, <1>10, <2>1 DEF TypeOK, ClaimRotation, Handler
      <3> QED
        BY <3>1 DEF Claims, Winner
    <2>2. CASE t # req[q].token
      <3>1. claimer'[t] = claimer[t] /\ grace'[t] = grace[t] /\ q # claimer[t]
        BY <1>1, <1>10, <2>2 DEF TypeOK, ClaimRotation
      <3>2. claimer[t] # None => req'[claimer[t]] = req[claimer[t]]
        BY <1>1, <1>10, <3>1 DEF TypeOK, ClaimRotation
      <3> QED
        BY <1>0, <3>1, <3>2 DEF Claims, Winner
    <2> QED
      BY <2>1, <2>2
  <1>11. ASSUME NEW x \in Tokens, ExpireGrace(x) \/ ExpireSession(x)
         PROVE  Claims(t)'
    BY <1>0, <1>1, <1>11 DEF TypeOK, Claims, Winner, ExpireGrace, ExpireSession
  <1>12. ASSUME NEW q \in Requests,
                \/ CreateReplacement(q) \/ RevokeFamily(q) \/ LogoutRevoke(q)
                \/ RevokeByUser(q) \/ Fail(q) \/ \E n \in Tokens : CreateLoginSession(q, n)
         PROVE  Claims(t)'
    BY <1>3, <1>12 DEF CreateReplacement, RevokeFamily, LogoutRevoke, RevokeByUser, Fail,
       CreateLoginSession, Answer
  <1> HIDE DEF Claims
  <1> QED
    BY <1>6, <1>7, <1>8, <1>9, <1>10, <1>11, <1>12, NextCases

\* A row that is in the table stays there.
LEMMA PersistedStays ==
    ASSUME Shape, Next, NEW n \in Tokens, Persisted(n)
    PROVE  Persisted(n)'
  <1>1. ASSUME NEW r \in Requests, CreateLoginSession(r, n)
        PROVE  Persisted(n)'
    BY <1>1 DEF Shape, TypeOK, CreateLoginSession, Persisted
  <1>2. ASSUME NEW r \in Requests, CreateReplacement(r), n = req[r].next
        PROVE  Persisted(n)'
    BY <1>2 DEF Shape, TypeOK, CreateReplacement, Persisted
  <1> QED
    BY <1>1, <1>2, RowStep DEF Persisted

\* The step that orphans an entry ends the request that had set it.
LEMMA OrphanedByItsClaimer ==
    ASSUME Shape, Next, NEW t \in Tokens, ~Orphaned(t), Orphaned(t)'
    PROVE  /\ claimer[t] # None /\ claimer'[t] = None
           /\ grace'[t] = grace[t] /\ grace[t] \in Tokens /\ ~Persisted(grace[t])'
  <1> USE ConstantsAssumption
  <1>1. grace'[t] # None /\ ~Persisted(grace[t])' /\ claimer'[t] = None
    BY DEF Orphaned, Persisted
  <1>2. grace'[t] = grace[t]
    <2>1. ASSUME NEW q \in Requests, NEW n \in Tokens, NEW heard \in BOOLEAN,
                 ClaimRotation(q, n, heard)
          PROVE  grace'[t] = grace[t]
      BY <1>1, <2>1 DEF Shape, TypeOK, ClaimRotation
    <2>2. ASSUME NEW x \in Tokens, ExpireGrace(x)
          PROVE  grace'[t] = grace[t]
      BY <1>1, <2>2 DEF Shape, TypeOK, ExpireGrace
    <2>3. (\A q \in Requests, n \in Tokens, heard \in BOOLEAN : ~ClaimRotation(q, n, heard))
          /\ (\A x \in Tokens : ~ExpireGrace(x)) => UNCHANGED grace
      BY NextCases DEF BeginLogin, MarkDeleted, LoadSession, BeginLogout, CreateLoginSession,
         CheckUser, ReplayFromGrace, LoseClaim, ReadWinner, RevokeFamily, RevokeOld,
         CreateReplacement, LogoutRevoke, RevokeByUser, Fail, ExpireSession
    <2> QED
      BY <2>1, <2>2, <2>3
  <1>3. grace[t] \in Tokens
    BY <1>1, <1>2 DEF Shape, TypeOK
  <1>4. ~Persisted(grace[t])
    BY <1>1, <1>2, <1>3, PersistedStays
  <1> QED
    BY <1>1, <1>2, <1>3, <1>4 DEF Orphaned

\* A replacement that refresh_session hands out becomes a session, unless its
\* winner is cut off or never hears that it has won; even if Redis drops
\* entries early.
THEOREM OrphanedCorrect == Spec => OrphanedOnlyByFailure
  <1> USE ConstantsAssumption
  <1> DEFINE P == \A t \in Tokens : ~Orphaned(t) /\ Orphaned(t)' =>
                     \E r \in Requests : /\ claimer[t] = r
                                         /\ Fail(r) \/ req[r].pc = "missed"
  <1>1. Init => ClaimerInv
    BY DEF Init, ClaimerInv, Claims
  <1>2. Shape /\ ClaimerInv /\ [Next]_vars => ClaimerInv'
    <2>1. ASSUME Shape, ClaimerInv, Next PROVE ClaimerInv'
      BY <2>1, ClaimerStep DEF ClaimerInv
    <2>2. ASSUME ClaimerInv, UNCHANGED vars PROVE ClaimerInv'
      BY <2>2 DEF ClaimerInv, Claims, Winner, vars
    <2> QED
      BY <2>1, <2>2
  <1>3. ASSUME Shape, ClaimerInv, [Next]_vars
        PROVE  [P]_vars
    <2> SUFFICES ASSUME Next, NEW t \in Tokens, ~Orphaned(t), Orphaned(t)',
                        req[claimer[t]].pc # "missed"
                 PROVE  \E r \in Requests : claimer[t] = r /\ Fail(r)
      BY <1>3, OrphanedByItsClaimer DEF Shape, TypeOK
    <2> DEFINE r == claimer[t]
    <2>1. /\ r \in Requests /\ Winner(r) /\ req[r].next = grace[t] /\ req[r] # Idle
          /\ r # None /\ claimer'[t] = None /\ grace'[t] # None
      BY <1>3, OrphanedByItsClaimer
         DEF Shape, TypeOK, ClaimerInv, Claims, Winner, Idle, Handler
    <2>2. TypeOK
      BY <1>3 DEF Shape
    <2>3. ASSUME NEW q \in Requests, Finish(q) PROVE q = r
      BY <2>1, <2>2, <2>3, FinishFacts
    <2>4. claimer' # claimer
      BY <2>1
    <2> HIDE DEF r
    <2>5. ASSUME NEW q \in Requests,
                 \/ \E u \in Users : BeginLogin(q, u) \/ MarkDeleted(q, u)
                 \/ \E x \in Tokens : LoadSession(q, x) \/ BeginLogout(q, x)
                 \/ LoseClaim(q) \/ RevokeOld(q)
          PROVE  FALSE
      BY <2>4, <2>5 DEF BeginLogin, MarkDeleted, LoadSession, BeginLogout, Start, LoseClaim,
         RevokeOld, Goto
    <2>6. ASSUME NEW q \in Requests,
                 \/ CheckUser(q) \/ ReplayFromGrace(q) \/ ReadWinner(q) \/ RevokeFamily(q)
                 \/ LogoutRevoke(q) \/ RevokeByUser(q)
                 \/ \E n \in Tokens : CreateLoginSession(q, n)
          PROVE  FALSE
      <3>1. ~Winner(q)
        BY <2>6 DEF Winner, CheckUser, ReplayFromGrace, ReadWinner, RevokeFamily,
           LogoutRevoke, RevokeByUser, CreateLoginSession
      <3>2. Finish(q) \/ UNCHANGED claimer
        BY <2>6 DEF CheckUser, ReplayFromGrace, ReadWinner, RevokeFamily, LogoutRevoke,
           RevokeByUser, CreateLoginSession, Answer, Goto
      <3> QED
        BY <2>1, <2>3, <2>4, <3>1, <3>2
    <2>7. ASSUME NEW q \in Requests, NEW n \in Tokens, NEW heard \in BOOLEAN,
                 ClaimRotation(q, n, heard)
          PROVE  FALSE
      BY <2>1, <2>2, <2>7 DEF TypeOK, ClaimRotation, r
    <2>8. ASSUME NEW x \in Tokens, ExpireGrace(x) \/ ExpireSession(x)
          PROVE  FALSE
      BY <2>1, <2>2, <2>8 DEF TypeOK, ExpireGrace, ExpireSession, r
    <2>9. ASSUME NEW q \in Requests, CreateReplacement(q)
          PROVE  FALSE
      <3>1. q = r
        BY <2>3, <2>9 DEF CreateReplacement, Answer
      <3>2. grace[t] \in Tokens /\ ~Persisted(grace[t])'
        BY <1>3, OrphanedByItsClaimer
      <3> QED
        BY <2>1, <2>2, <2>9, <3>1, <3>2 DEF TypeOK, CreateReplacement, Persisted
    <2>10. ASSUME NEW q \in Requests, Fail(q)
           PROVE  q = r
      BY <2>3, <2>10 DEF Fail
    <2> QED
      BY <2>1, <2>5, <2>6, <2>7, <2>8, <2>9, <2>10, NextCases DEF r
  <1> QED
    BY <1>1, <1>2, <1>3, ShapeCorrect, PTL DEF Spec, OrphanedOnlyByFailure
=============================================================================

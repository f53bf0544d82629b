--------------------------- MODULE SessionRotation ---------------------------
(***************************************************************************)
(* Refresh-token rotation of gitdot-core                                   *)
(* (service/authentication/session.rs, with repository/auth/session.rs for *)
(* the auth.sessions table and client/redis.rs for the grace cache).       *)
(*                                                                         *)
(* Every HTTP request is a process that performs one database statement or *)
(* one Redis command per step; requests on the same token interleave at    *)
(* every await.  A refresh token and its hash are one value: the table and *)
(* the cache key only ever see the hash.  The family of a session is a     *)
(* fresh UUID; it is named here by the token of the login that opened it.  *)
(***************************************************************************)
EXTENDS FiniteSets

CONSTANTS
    Tokens,         \* refresh tokens that can ever be generated
    Requests,       \* request handlers that may be in flight at once
    Users,          \* accounts
    None,           \* stands for Option::None and for SQL NULL
    CanFail,        \* may a handler die, time out or lose a reply?
    Evicts          \* may Redis drop a grace entry before its TTL?

ASSUME ConstantsAssumption ==
    /\ None \notin Tokens \cup Requests \cup Users
    /\ CanFail \in BOOLEAN
    /\ Evicts \in BOOLEAN

VARIABLES
    sessions,   \* auth.sessions, indexed by refresh token
    lapsed,     \* tokens whose session is past expires_at
    deleted,    \* users with deleted_at set
    grace,      \* Redis: refresh_grace:<old token> |-> replacement token
    minted,     \* tokens the token client has generated so far
    req,        \* the request handlers
    answered,   \* replacements returned for a token while its entry lives
    claimer,    \* the request that set the grace entry, until it ends
    watch       \* the requests a grace entry is certain to outlive

vars == <<sessions, lapsed, deleted, grace, minted, req, answered,
          claimer, watch>>

-----------------------------------------------------------------------------
(* Types *)

Session == [state : {"absent", "live", "revoked"},
            family : Tokens \cup {None},
            user : Users \cup {None}]

\* Where a handler is: the await it performs next.
PC == {"idle",
       "login",                             \* verify_auth_code, exchange_github_code
       "user", "replay", "claim", "missed",
       "revoke", "create", "reuse",         \* refresh_session
       "logout",                            \* logout
       "delete"}                            \* delete_account

Request == [pc : PC,
            token : Tokens \cup {None},     \* the token presented
            seen : {"none", "live", "revoked"},     \* the session, as read
            next : Tokens \cup {None},      \* the replacement generated
            user : Users \cup {None}]

TypeOK ==
    /\ sessions \in [Tokens -> Session]
    /\ lapsed \in SUBSET Tokens
    /\ deleted \in SUBSET Users
    /\ grace \in [Tokens -> Tokens \cup {None}]
    /\ minted \in SUBSET Tokens
    /\ req \in [Requests -> Request]
    /\ answered \in [Tokens -> SUBSET Tokens]
    /\ claimer \in [Tokens -> Requests \cup {None}]
    /\ watch \in [Tokens -> SUBSET Requests]

NoSession == [state |-> "absent", family |-> None, user |-> None]

Handler(pc, t, seen, n, u) ==
    [pc |-> pc, token |-> t, seen |-> seen, next |-> n, user |-> u]

Idle == Handler("idle", None, "none", None, None)

Live(t) == sessions[t].state = "live"

Persisted(t) == sessions[t].state # "absent"

\* UPDATE auth.sessions SET revoked_at = NOW() for the rows of S.
Revoked(S) ==
    [t \in Tokens |-> IF t \in S THEN [sessions[t] EXCEPT !.state = "revoked"]
                                  ELSE sessions[t]]

\* Handlers that present token t.
On(t) == {r \in Requests : req[r].token = t}

Init ==
    /\ sessions = [t \in Tokens |-> NoSession]
    /\ lapsed = {}
    /\ deleted = {}
    /\ grace = [t \in Tokens |-> None]
    /\ minted = {}
    /\ req = [r \in Requests |-> Idle]
    /\ answered = [t \in Tokens |-> {}]
    /\ claimer = [t \in Tokens |-> None]
    /\ watch = [t \in Tokens |-> {}]

-----------------------------------------------------------------------------
(* Control of a handler.                                                   *)
(*                                                                         *)
(* gitdot-auth cuts a request off after 10 seconds; a grace entry lives    *)
(* 600.  So an entry outlives the request that set it and every request    *)
(* that was in flight on the same token while that one was: "watch" holds  *)
(* them, and the entry cannot expire before all of them have ended.        *)

Finish(r) ==
    /\ req' = [req EXCEPT ![r] = Idle]
    /\ claimer' = [t \in Tokens |-> IF claimer[t] = r THEN None ELSE claimer[t]]
    /\ watch' = [t \in Tokens |-> watch[t] \ {r}]

Goto(r, pc) ==
    /\ req' = [req EXCEPT ![r].pc = pc]
    /\ UNCHANGED <<claimer, watch>>

\* A handler starts working on token t, at control point pc.
Start(r, t, pc) ==
    /\ req[r].pc = "idle"
    /\ req' = [req EXCEPT ![r] = Handler(pc, t, sessions[t].state, None, None)]
    /\ watch' = IF claimer[t] # None
                THEN [watch EXCEPT ![t] = @ \cup {r}]
                ELSE watch
    /\ UNCHANGED claimer

\* Return Ok with the replacement n for the token the handler presented.
Answer(r, n) ==
    /\ answered' = [answered EXCEPT ![req[r].token] = @ \cup {n}]
    /\ Finish(r)

-----------------------------------------------------------------------------
(* Login: the tail of verify_auth_code and of exchange_github_code.        *)

\* The account is read and found not to be deleted.
BeginLogin(r, u) ==
    /\ req[r].pc = "idle"
    /\ u \notin deleted
    /\ req' = [req EXCEPT ![r] = Handler("login", None, "none", None, u)]
    /\ UNCHANGED <<sessions, lapsed, deleted, grace, minted, answered,
                   claimer, watch>>

\* create_session with a new token and a new family.
CreateLoginSession(r, n) ==
    /\ req[r].pc = "login"
    /\ n \notin minted
    /\ minted' = minted \cup {n}
    /\ sessions' = [sessions EXCEPT ![n] =
                       [state |-> "live", family |-> n, user |-> req[r].user]]
    /\ Finish(r)
    /\ UNCHANGED <<lapsed, deleted, grace, answered>>

-----------------------------------------------------------------------------
(* refresh_session *)

\* get_session_by_refresh_hash; NotFound and TokenExpired change nothing.
LoadSession(r, t) ==
    /\ Persisted(t)
    /\ t \notin lapsed
    /\ Start(r, t, "user")
    /\ UNCHANGED <<sessions, lapsed, deleted, grace, minted, answered>>

\* Mutant: the revoked_at test is dropped.
AlwaysClaim(r) == "claim"

\* The replay path if revoked_at was set when the session was read.
PathOf(r) == IF req[r].seen = "revoked" THEN "replay" ELSE "claim"

\* Mutant: a soft-deleted account is not noticed.
CheckNoUser(r) ==
    /\ req[r].pc = "user"
    /\ Goto(r, PathOf(r))
    /\ UNCHANGED <<sessions, lapsed, deleted, grace, minted, answered>>

\* user_repo.get_by_id: Unauthorized for a soft-deleted account.
CheckUser(r) ==
    /\ req[r].pc = "user"
    /\ IF sessions[req[r].token].user \in deleted
       THEN Finish(r)
       ELSE Goto(r, PathOf(r))
    /\ UNCHANGED <<sessions, lapsed, deleted, grace, minted, answered>>

\* Mutant: the grace entry is returned without looking whether there is one.
ReplayBlindly(r) ==
    /\ req[r].pc = "replay"
    /\ Answer(r, grace[req[r].token])
    /\ UNCHANGED <<sessions, lapsed, deleted, grace, minted>>

\* Replay: the cached replacement, or reuse when there is none.
ReplayFromGrace(r) ==
    /\ req[r].pc = "replay"
    /\ LET n == grace[req[r].token] IN
       IF n # None
       THEN Answer(r, n)
       ELSE Goto(r, "reuse") /\ UNCHANGED answered
    /\ UNCHANGED <<sessions, lapsed, deleted, grace, minted>>

\* Mutant: a plain SET, which overwrites the entry of an earlier winner.
SetAlways(t) == TRUE

\* The condition NX puts on SET.
KeyAbsent(t) == grace[t] = None

\* SET NX on the grace key stores the entry.  With "heard" the reply arrives
\* and the caller has won; otherwise the reply is lost, with_retry sends the
\* command again, and the caller is told that the key already exists.
ClaimRotation(r, n, heard) ==
    /\ req[r].pc = "claim"
    /\ KeyAbsent(req[r].token)
    /\ n \notin minted
    /\ heard \/ CanFail
    /\ minted' = minted \cup {n}
    /\ grace' = [grace EXCEPT ![req[r].token] = n]
    /\ req' = [req EXCEPT ![r] = Handler(IF heard THEN "revoke" ELSE "missed",
                                         @.token, @.seen, n, None)]
    /\ claimer' = [claimer EXCEPT ![req[r].token] = r]
    /\ watch' = [watch EXCEPT ![req[r].token] = On(req[r].token)]
    /\ UNCHANGED <<sessions, lapsed, deleted, answered>>

\* SET NX finds the key: the token just generated is dropped unseen.
LoseClaim(r) ==
    /\ req[r].pc = "claim"
    /\ ~KeyAbsent(req[r].token)
    /\ Goto(r, "missed")
    /\ UNCHANGED <<sessions, lapsed, deleted, grace, minted, answered>>

\* GET after a lost claim: the winner's replacement, or reuse if it vanished.
ReadWinner(r) ==
    /\ req[r].pc = "missed"
    /\ LET n == grace[req[r].token] IN
       IF n # None
       THEN Answer(r, n)
       ELSE Goto(r, "reuse") /\ UNCHANGED answered
    /\ UNCHANGED <<sessions, lapsed, deleted, grace, minted>>

\* revoke_sessions_by_family, then TokenRevoked.
RevokeFamily(r) ==
    /\ req[r].pc = "reuse"
    /\ sessions' = Revoked({t \in Tokens :
           Live(t) /\ sessions[t].family = sessions[req[r].token].family})
    /\ Finish(r)
    /\ UNCHANGED <<lapsed, deleted, grace, minted, answered>>

\* Mutant: the old session stays live.
KeepOld(r) ==
    /\ req[r].pc = "revoke"
    /\ Goto(r, "create")
    /\ UNCHANGED <<sessions, lapsed, deleted, grace, minted, answered>>

\* The winner revokes the old session ...
RevokeOld(r) ==
    /\ req[r].pc = "revoke"
    /\ sessions' = Revoked({req[r].token})
    /\ Goto(r, "create")
    /\ UNCHANGED <<lapsed, deleted, grace, minted, answered>>

\* Mutant: the winner answers without inserting the new session.
AnswerOnly(r) ==
    /\ req[r].pc = "create"
    /\ Answer(r, req[r].next)
    /\ UNCHANGED <<sessions, lapsed, deleted, grace, minted>>

\* ... and then inserts the new one in the same family and returns it.
CreateReplacement(r) ==
    /\ req[r].pc = "create"
    /\ sessions' = [sessions EXCEPT ![req[r].next] =
                       [state |-> "live",
                        family |-> sessions[req[r].token].family,
                        user |-> sessions[req[r].token].user]]
    /\ Answer(r, req[r].next)
    /\ UNCHANGED <<lapsed, deleted, grace, minted>>

-----------------------------------------------------------------------------
(* logout and delete_account *)

\* logout looks the session up, revoked or not ...
BeginLogout(r, t) ==
    /\ Persisted(t)
    /\ Start(r, t, "logout")
    /\ UNCHANGED <<sessions, lapsed, deleted, grace, minted, answered>>

\* ... and revokes that one row.
LogoutRevoke(r) ==
    /\ req[r].pc = "logout"
    /\ sessions' = Revoked({req[r].token})
    /\ Finish(r)
    /\ UNCHANGED <<lapsed, deleted, grace, minted, answered>>

\* mark_user_as_deleted ...
MarkDeleted(r, u) ==
    /\ req[r].pc = "idle"
    /\ deleted' = deleted \cup {u}
    /\ req' = [req EXCEPT ![r] = Handler("delete", None, "none", None, u)]
    /\ UNCHANGED <<sessions, lapsed, grace, minted, answered, claimer, watch>>

\* ... then revoke_sessions_by_user.
RevokeByUser(r) ==
    /\ req[r].pc = "delete"
    /\ sessions' = Revoked({t \in Tokens :
           Live(t) /\ sessions[t].user = req[r].user})
    /\ Finish(r)
    /\ UNCHANGED <<lapsed, deleted, grace, minted, answered>>

-----------------------------------------------------------------------------
(* Environment *)

\* A handler ends at any await: the 10-second TimeoutLayer drops it, the
\* process stops, or a statement returns an error that "?" propagates.
Fail(r) ==
    /\ CanFail
    /\ req[r].pc # "idle"
    /\ Finish(r)
    /\ UNCHANGED <<sessions, lapsed, deleted, grace, minted, answered>>

\* The TTL of a grace entry runs out (or Redis evicts it early).
ExpireGrace(t) ==
    /\ grace[t] # None
    /\ watch[t] = {} \/ Evicts
    /\ grace' = [grace EXCEPT ![t] = None]
    /\ answered' = [answered EXCEPT ![t] = {}]
    /\ claimer' = [claimer EXCEPT ![t] = None]
    /\ watch' = [watch EXCEPT ![t] = {}]
    /\ UNCHANGED <<sessions, lapsed, deleted, minted, req>>

\* The session of t passes its expires_at.
ExpireSession(t) ==
    /\ Persisted(t)
    /\ lapsed' = lapsed \cup {t}
    /\ UNCHANGED <<sessions, deleted, grace, minted, req, answered,
                   claimer, watch>>

\* The steps a handler takes once it has started.
Continue(r) ==
    \/ \E n \in Tokens : CreateLoginSession(r, n)
    \/ CheckUser(r)
    \/ ReplayFromGrace(r)
    \/ \E n \in Tokens, heard \in BOOLEAN : ClaimRotation(r, n, heard)
    \/ LoseClaim(r)
    \/ ReadWinner(r)
    \/ RevokeFamily(r)
    \/ RevokeOld(r)
    \/ CreateReplacement(r)
    \/ LogoutRevoke(r)
    \/ RevokeByUser(r)

Next ==
    \/ \E r \in Requests :
          \/ \E u \in Users : BeginLogin(r, u) \/ MarkDeleted(r, u)
          \/ \E t \in Tokens : LoadSession(r, t) \/ BeginLogout(r, t)
          \/ Continue(r)
          \/ Fail(r)
    \/ \E t \in Tokens : ExpireGrace(t) \/ ExpireSession(t)

Spec == Init /\ [][Next]_vars

-----------------------------------------------------------------------------
(* Properties *)

SameFamily(a, b) == sessions[a].family = sessions[b].family

\* A family never has two live sessions: however refreshes of its tokens
\* interleave, fail or repeat, refresh_session leaves at most one refresh
\* token that can still be rotated.
OneLivePerFamily ==
    \A a, b \in Tokens : Live(a) /\ Live(b) /\ SameFamily(a, b) => a = b

\* "replays inside the window return the same replacement tokens issued by
\* the winning rotation": whatever refresh_session has answered for a token
\* since its grace entry was set is the replacement in that entry.
IdempotentReplay ==
    \A t \in Tokens : answered[t] \subseteq {grace[t]}

\* A family is dead when its sessions are all revoked and every handler that
\* still works on one of them has read it as revoked.
Dead(f) ==
    /\ Persisted(f)
    /\ \A t \in Tokens :
          Persisted(t) /\ sessions[t].family = f =>
             ~Live(t) /\ \A r \in On(t) : req[r].seen = "revoked"

\* Revocation is final once no refresh that read the family as live is left:
\* replaying its tokens, in whatever order and inside or outside a grace
\* window, never brings a live session back.
DeadFamilyStaysDead ==
    [][\A f \in Tokens : Dead(f) => Dead(f)']_vars

\* Handlers that have found the account of u in good standing and may still
\* insert a session for it.
PastCheck(u) ==
    {r \in Requests : \/ req[r].pc = "login" /\ req[r].user = u
                      \/ /\ req[r].pc \in {"claim", "revoke", "create"}
                         /\ sessions[req[r].token].user = u}

\* "blocks future logins and refreshes": once delete_account has marked u, no
\* handler gets past the check of the account any more, and when those that
\* had passed it before are gone, u gets no session.
DeletedUserGetsNoSession ==
    [][\A u \in deleted :
          /\ PastCheck(u)' \subseteq PastCheck(u)
          /\ PastCheck(u) = {} =>
                \A t \in Tokens : sessions'[t].user = u => sessions[t].user = u]_vars

\* The grace entry of t names a token that is no session, and the request
\* that was to insert it is gone.
Orphaned(t) ==
    /\ grace[t] # None
    /\ ~Persisted(grace[t])
    /\ claimer[t] = None

\* A caller that lost the claim gets a token that the winner has not inserted
\* yet.  That token becomes a session unless the winner is cut off, or never
\* hears that it has won and waits for another: no rival, reuse, logout,
\* deletion or expiry parts the winner from the entry it has set.
OrphanedOnlyByFailure ==
    [][\A t \in Tokens : ~Orphaned(t) /\ Orphaned(t)' =>
          \E r \in Requests : /\ claimer[t] = r
                              /\ Fail(r) \/ req[r].pc = "missed"]_vars
=============================================================================

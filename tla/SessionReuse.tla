---------------------------- MODULE SessionReuse ----------------------------
(***************************************************************************)
(* SessionRotation with the history of reuse detection: the families for   *)
(* which refresh_session has answered TokenRevoked.                        *)
(***************************************************************************)
EXTENDS SessionRotation

VARIABLE reused     \* families a caller was told are revoked

\* The families whose reuse is answered by this step.
RejectedNow ==
    {sessions[req[r].token].family : r \in {q \in Requests : RevokeFamily(q)}}

ReuseInit == Init /\ reused = {}

ReuseNext == Next /\ reused' = reused \cup RejectedNow

ReuseSpec == ReuseInit /\ [][ReuseNext]_<<vars, reused>>

\* "a replay outside the grace window [...] revokes the entire session family
\* and returns TokenRevoked" (session.rs): once a caller has been told so, no
\* session of that family is live.
ReusedFamilyIsRevoked ==
    \A t \in Tokens : sessions[t].family \in reused => ~Live(t)
=============================================================================

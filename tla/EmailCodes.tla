----------------------------- MODULE EmailCodes -----------------------------
(***************************************************************************)
(* Codes that gitdot mails: login codes (send_auth_email and               *)
(* verify_auth_code, service/authentication/session.rs) and codes for      *)
(* another address of an account (add_email and verify_email,              *)
(* service/authentication/account.rs), with the accounts and addresses     *)
(* they create and verify, and the accounts that a GitHub login creates.   *)
(*                                                                         *)
(* One SQL statement, one transaction that holds a row lock, or one Redis  *)
(* command is one step.  A code and its hash are the same value.  Sessions *)
(* and deleted accounts are the subject of SessionRotation.                *)
(***************************************************************************)
EXTENDS Naturals, FiniteSets

CONSTANTS
    Users,
    Emails,
    Codes,          \* the codes there are; a new one never repeats an old one
    Handlers,       \* concurrent requests
    MaxAttempts,    \* MAX_AUTH_CODE_ATTEMPTS and MAX_EMAIL_CODE_ATTEMPTS
    None            \* SQL NULL

\* What a code is good for: <<u, None>> is the login of u (auth.auth_codes),
\* <<u, e>> the address e for u (auth.email_verification_codes).
Slots == Users \X (Emails \cup {None})

ASSUME CodeAssumption ==
    /\ IsFiniteSet(Codes)
    /\ None \notin Users \cup Emails \cup Codes \cup Slots
    /\ MaxAttempts \in Nat \ {0}

VARIABLES
    limited,        \* Redis answers and keeps what it has been told
    primary,        \* the primary address of an account; None for no account
    verified,       \* rows of core.user_emails with is_verified
    slotOf,         \* the slot of a code; None for no row
    rank,           \* created_at, as a rank among the codes of the slot
    used,           \* codes with used_at
    expired,        \* other codes past their expires_at
    tries,          \* attempt_count
    accepted,       \* how often a code was accepted (history)
    loggedIn,       \* logins by code: the account and its address (history)
    req             \* the handlers

userVars == <<primary, verified>>
codeVars == <<slotOf, rank, used, expired, tries, accepted>>
vars == <<limited, userVars, codeVars, loggedIn, req>>

Idle == [pc |-> "idle", email |-> None, slot |-> <<None, None>>,
         guess |-> None, seen |-> {}]

Issuing == {"account", "taken", "newuser", "invalidate", "create"}

PCs == {"idle", "limit", "lock", "verify", "session",
        "gh_taken", "gh_create", "gh_extras"} \cup Issuing

TypeOK ==
    /\ limited \in BOOLEAN
    /\ primary \in [Users -> Emails \cup {None}]
    /\ verified \subseteq Users \X Emails
    /\ slotOf \in [Codes -> Slots \cup {None}]
    /\ rank \in [Codes -> Nat]
    /\ used \subseteq Codes /\ expired \subseteq Codes
    /\ tries \in [Codes -> 0..MaxAttempts]
    /\ accepted \in [Codes -> Nat]
    /\ loggedIn \subseteq Users \X Emails
    /\ req \in [Handlers ->
          [pc : PCs, email : Emails \cup {None},
           slot : (Users \cup {None}) \X (Emails \cup {None}),
           guess : Codes \cup {None}, seen : SUBSET Codes]]

Init ==
    /\ limited \in BOOLEAN
    /\ primary = [u \in Users |-> None]
    /\ verified = {}
    /\ slotOf = [c \in Codes |-> None]
    /\ rank = [c \in Codes |-> 0]
    /\ used = {} /\ expired = {}
    /\ tries = [c \in Codes |-> 0]
    /\ accepted = [c \in Codes |-> 0]
    /\ loggedIn = {}
    /\ req = [h \in Handlers |-> Idle]

-----------------------------------------------------------------------------

At(h, pc) == req[h].pc = pc

User(h) == req[h].slot[1]

ForLogin(h) == req[h].slot[2] = None

Goto(h, pc) == req' = [req EXCEPT ![h].pc = pc]

Finish(h) == req' = [req EXCEPT ![h] = Idle]

\* get_by_primary_email finds u; of several rows it returns any.
HasAccount(u, e) == primary[u] = e

\* is_email_taken
EmailTaken(e) == \E u \in Users : <<u, e>> \in verified

\* The unique index on (email) WHERE is_verified.
TakenByOther(u, e) == \E v \in Users \ {u} : <<v, e>> \in verified

-----------------------------------------------------------------------------
(* send_auth_email and add_email *)

\* get_rate_limit_key: by address for a login, else by account and address.
Key(h) == <<IF ForLogin(h) THEN None ELSE User(h), req[h].email>>

\* is_email_taken, for u who is logged in.
BeginAdd(h, u, e) ==
    /\ At(h, "idle")
    /\ primary[u] # None
    /\ ~EmailTaken(e)
    /\ req' = [req EXCEPT ![h] = [Idle EXCEPT !.pc = "limit", !.email = e,
                                              !.slot = <<u, e>>]]
    /\ UNCHANGED <<limited, userVars, codeVars, loggedIn>>

\* Mutant: SET without NX.
NoCooldown(k) == TRUE

\* SET NX with the key k answers that the key is new, or Redis fails ("allowing
\* send").  A cooldown of 30 seconds outlives the request that has set it, which
\* the TimeoutLayer ends after 10; whether it is still there later is open.
Admits(k) == ~limited \/ \A g \in Handlers : req[g].pc \in Issuing => Key(g) # k

LimitLogin(h, e) ==
    /\ At(h, "idle")
    /\ Admits(<<None, e>>)
    /\ req' = [req EXCEPT ![h] = [Idle EXCEPT !.pc = "account", !.email = e]]
    /\ UNCHANGED <<limited, userVars, codeVars, loggedIn>>

\* Otherwise, or if the reply was lost and with_retry has sent the command
\* again, the answer is TooManyAttempts.
LimitEmail(h) ==
    /\ At(h, "limit")
    /\ \/ Admits(Key(h)) /\ Goto(h, "invalidate")
       \/ Finish(h)
    /\ UNCHANGED <<limited, userVars, codeVars, loggedIn>>

FindAccount(h) ==
    /\ At(h, "account")
    /\ \/ \E u \in Users :
             /\ HasAccount(u, req[h].email)
             /\ req' = [req EXCEPT ![h].pc = "invalidate", ![h].slot = <<u, None>>]
       \/ /\ \A u \in Users : ~HasAccount(u, req[h].email)
          /\ Goto(h, "taken")
    /\ UNCHANGED <<limited, userVars, codeVars, loggedIn>>

\* An address that is somebody's secondary one is silently ignored.
CheckTaken(h) ==
    /\ At(h, "taken")
    /\ IF EmailTaken(req[h].email) THEN Finish(h) ELSE Goto(h, "newuser")
    /\ UNCHANGED <<limited, userVars, codeVars, loggedIn>>

CreateUser(h, u) ==
    /\ At(h, "newuser")
    /\ primary[u] = None
    /\ primary' = [primary EXCEPT ![u] = req[h].email]
    /\ req' = [req EXCEPT ![h].pc = "invalidate", ![h].slot = <<u, None>>]
    /\ UNCHANGED <<limited, verified, codeVars, loggedIn>>

\* UPDATE ... SET used_at = NOW(); from then on expires_at does not matter.
SetUsed(C) == used' = used \cup C /\ expired' = expired \ C

Unused(s) == {c \in Codes \ used : slotOf[c] = s}

\* invalidate_auth_codes, invalidate_codes_for_email
Invalidate(h) ==
    /\ At(h, "invalidate")
    /\ SetUsed(Unused(req[h].slot))
    /\ Goto(h, "create")
    /\ UNCHANGED <<limited, userVars, slotOf, rank, tries, accepted,
                   loggedIn>>

\* create_auth_code, create_code; the code is mailed, and the handler ends.
CreateCode(h, c) ==
    /\ At(h, "create")
    /\ slotOf[c] = None
    /\ slotOf' = [slotOf EXCEPT ![c] = req[h].slot]
    /\ rank' = [rank EXCEPT ![c] = 1 + Cardinality({d \in Codes : slotOf[d] = req[h].slot})]
    /\ Finish(h)
    /\ UNCHANGED <<limited, userVars, used, expired, tries, accepted, loggedIn>>

-----------------------------------------------------------------------------
(* verify_auth_code and verify_email *)

\* SELECT ... FOR UPDATE for the slot s: the rows that its snapshot holds ...
SelectCode(h, s, e, guess) ==
    LET seen == Unused(s) \ expired IN
    /\ seen # {}
    /\ req' = [req EXCEPT ![h] = [pc |-> "lock", email |-> e, slot |-> s,
                                  guess |-> guess, seen |-> seen]]

\* get_by_primary_email finds u, and then the code is looked up.
BeginVerify(h, u, guess) ==
    /\ At(h, "idle")
    /\ primary[u] # None
    /\ SelectCode(h, <<u, None>>, primary[u], guess)
    /\ UNCHANGED <<limited, userVars, codeVars, loggedIn>>

\* u is logged in.
BeginVerifyEmail(h, u, e, guess) ==
    /\ At(h, "idle")
    /\ primary[u] # None
    /\ SelectCode(h, <<u, e>>, e, guess)
    /\ UNCHANGED <<limited, userVars, codeVars, loggedIn>>

\* Mutant: without FOR UPDATE.
Visible(h) == req[h].seen

\* ... of which those count that are still unused when their lock is granted.
Lockable(h) == req[h].seen \ used

\* ORDER BY created_at DESC LIMIT 1
Locks(h, c) ==
    /\ At(h, "lock")
    /\ c \in Lockable(h)
    /\ \A d \in Lockable(h) : rank[d] <= rank[c]

NoActiveCode(h) ==
    /\ At(h, "lock")
    /\ Lockable(h) = {}
    /\ Finish(h)
    /\ UNCHANGED <<limited, userVars, codeVars, loggedIn>>

\* Mutant: the code is burned one guess too late.
WrongCodeLate(h, c) ==
    /\ Locks(h, c)
    /\ req[h].guess # c
    /\ tries' = [tries EXCEPT ![c] = @ + 1]
    /\ SetUsed(IF tries'[c] > MaxAttempts THEN {c} ELSE {})
    /\ Finish(h)
    /\ UNCHANGED <<limited, userVars, slotOf, rank, accepted, loggedIn>>

\* The transaction commits a miss; the last one burns the code.
WrongCode(h, c) ==
    /\ Locks(h, c)
    /\ req[h].guess # c
    /\ tries' = [tries EXCEPT ![c] = @ + 1]
    /\ SetUsed(IF tries'[c] >= MaxAttempts THEN {c} ELSE {})
    /\ Finish(h)
    /\ UNCHANGED <<limited, userVars, slotOf, rank, accepted, loggedIn>>

Consume(c) ==
    /\ SetUsed({c})
    /\ accepted' = [accepted EXCEPT ![c] = @ + 1]
    /\ UNCHANGED <<slotOf, rank, tries>>

AcceptLogin(h, c) ==
    /\ Locks(h, c)
    /\ req[h].guess = c
    /\ ForLogin(h)
    /\ Consume(c)
    /\ Goto(h, "verify")
    /\ UNCHANGED <<limited, userVars, loggedIn>>

\* The address is verified in the same transaction, ...
AcceptEmail(h, c) ==
    /\ Locks(h, c)
    /\ req[h].guess = c
    /\ ~ForLogin(h)
    /\ ~TakenByOther(User(h), req[h].email)
    /\ Consume(c)
    /\ verified' = verified \cup {req[h].slot}
    /\ Finish(h)
    /\ UNCHANGED <<limited, primary, loggedIn>>

\* ... which is rolled back if another account has the address.
RejectEmail(h, c) ==
    /\ Locks(h, c)
    /\ req[h].guess = c
    /\ ~ForLogin(h)
    /\ TakenByOther(User(h), req[h].email)
    /\ Finish(h)
    /\ UNCHANGED <<limited, userVars, codeVars, loggedIn>>

\* Mutant: the result of verify_email is ignored.
MarkVerifiedOrNot(h) ==
    /\ At(h, "verify")
    /\ verified' = IF TakenByOther(User(h), primary[User(h)]) THEN verified
                   ELSE verified \cup {<<User(h), primary[User(h)]>>}
    /\ Goto(h, "session")
    /\ UNCHANGED <<limited, primary, codeVars, loggedIn>>

\* user_repo.verify_email; a violation of the unique index ends the login.
MarkVerified(h) ==
    /\ At(h, "verify")
    /\ IF TakenByOther(User(h), primary[User(h)])
       THEN Finish(h) /\ UNCHANGED verified
       ELSE /\ verified' = verified \cup {<<User(h), primary[User(h)]>>}
            /\ Goto(h, "session")
    /\ UNCHANGED <<limited, primary, codeVars, loggedIn>>

CreateSession(h) ==
    /\ At(h, "session")
    /\ loggedIn' = loggedIn \cup {<<User(h), req[h].email>>}
    /\ Finish(h)
    /\ UNCHANGED <<limited, userVars, codeVars>>

-----------------------------------------------------------------------------
(* exchange_github_code, as far as it creates accounts and addresses *)

\* There is no account; one that exists gets its session at once.
BeginGitHub(h, e) ==
    /\ At(h, "idle")
    /\ \A u \in Users : ~HasAccount(u, e)
    /\ req' = [req EXCEPT ![h] = [Idle EXCEPT !.pc = "gh_taken", !.email = e]]
    /\ UNCHANGED <<limited, userVars, codeVars, loggedIn>>

CheckGitHubTaken(h) ==
    /\ At(h, "gh_taken")
    /\ IF EmailTaken(req[h].email) THEN Finish(h) ELSE Goto(h, "gh_create")
    /\ UNCHANGED <<limited, userVars, codeVars, loggedIn>>

\* The address is verified from the start, unless the unique index objects.
CreateGitHubUser(h, u) ==
    /\ At(h, "gh_create")
    /\ primary[u] = None
    /\ IF EmailTaken(req[h].email)
       THEN Finish(h) /\ UNCHANGED userVars
       ELSE /\ primary' = [primary EXCEPT ![u] = req[h].email]
            /\ verified' = verified \cup {<<u, req[h].email>>}
            /\ req' = [req EXCEPT ![h].pc = "gh_extras", ![h].slot = <<u, None>>]
    /\ UNCHANGED <<limited, codeVars, loggedIn>>

\* ON CONFLICT DO NOTHING: of the other addresses those that nobody has.
AddGitHubEmails(h, extras) ==
    /\ At(h, "gh_extras")
    /\ verified' = verified \cup {<<User(h), e>> : e \in {x \in extras : ~EmailTaken(x)}}
    /\ Finish(h)
    /\ UNCHANGED <<limited, primary, codeVars, loggedIn>>

-----------------------------------------------------------------------------
(* Environment *)

\* A statement fails, the 10-second TimeoutLayer drops the handler, or the
\* process stops.
Fail(h) ==
    /\ ~At(h, "idle")
    /\ Finish(h)
    /\ UNCHANGED <<limited, userVars, codeVars, loggedIn>>

Expire(c) ==
    /\ slotOf[c] # None
    /\ c \notin used
    /\ expired' = expired \cup {c}
    /\ UNCHANGED <<limited, userVars, slotOf, rank, used, tries, accepted,
                   loggedIn, req>>

-----------------------------------------------------------------------------

\* A guess that is no code of the slot is a wrong one, None for short.
Guesses(s) == {None} \cup {c \in Codes : slotOf[c] = s}

Send(h) ==
    \/ \E e \in Emails : LimitLogin(h, e)
    \/ \E u \in Users, e \in Emails : BeginAdd(h, u, e)
    \/ LimitEmail(h)
    \/ FindAccount(h) \/ CheckTaken(h)
    \/ \E u \in Users : CreateUser(h, u)
    \/ Invalidate(h)
    \/ \E c \in Codes : CreateCode(h, c)

Verify(h) ==
    \/ \E u \in Users :
          \/ \E guess \in Guesses(<<u, None>>) : BeginVerify(h, u, guess)
          \/ \E e \in Emails : \E guess \in Guesses(<<u, e>>) :
                BeginVerifyEmail(h, u, e, guess)
    \/ NoActiveCode(h)
    \/ \E c \in Codes : \/ WrongCode(h, c) \/ AcceptLogin(h, c)
                        \/ AcceptEmail(h, c) \/ RejectEmail(h, c)
    \/ MarkVerified(h) \/ CreateSession(h)

GitHub(h) ==
    \/ \E e \in Emails : BeginGitHub(h, e)
    \/ CheckGitHubTaken(h)
    \/ \E u \in Users : CreateGitHubUser(h, u)
    \/ \E extras \in SUBSET Emails : AddGitHubEmails(h, extras)

Next ==
    \/ \E h \in Handlers : Send(h) \/ Verify(h) \/ GitHub(h) \/ Fail(h)
    \/ \E c \in Codes : Expire(c)

Spec == Init /\ [][Next]_vars

-----------------------------------------------------------------------------
(* Properties *)

\* "The code is single-use ... and is burned after MAX_AUTH_CODE_ATTEMPTS wrong
\* guesses": however concurrent requests with it interleave, and whether or not
\* Redis limits the sends, a code is compared with at most MaxAttempts guesses
\* and is accepted once.
GuessBudget ==
    \A c \in Codes : accepted[c] <= 1 /\ tries[c] + accepted[c] <= MaxAttempts

\* Whoever has logged in with a mailed code owns the address: whatever logins,
\* verifications and GitHub accounts race for it, no other account has or gets
\* it verified, not even as a secondary address.
LoginOwnsAddress ==
    \A l \in loggedIn :
       \A u \in Users : <<u, l[2]>> \in verified <=> u = l[1]

\* As long as Redis limits the sends, the two statements that replace a code,
\* the lock that checks one and the cooldown together implement one valid
\* code for each slot.  Nothing is promised otherwise.
AbsSlots == IF limited THEN Slots ELSE {}

AbsCodes == IF limited THEN Codes ELSE {}

Abs == INSTANCE OneTimeCode WITH
    valid <- [s \in AbsSlots |-> Unused(s)],
    issued <- {c \in AbsCodes : slotOf[c] # None},
    misses <- [c \in AbsCodes |-> tries[c]],
    redeemed <- [c \in AbsCodes |-> accepted[c]]

ImplementsOneTimeCode == Abs!OTCSpec
=============================================================================

----------------------------- MODULE OneTimeCode -----------------------------
(***************************************************************************)
(* What a service that mails codes promises: "exactly one code is          *)
(* verifiable at a time" (service/authentication/session.rs).  For every   *)
(* purpose at most one code is valid, the latest; it is redeemed once or   *)
(* burned by wrong guesses, and a code that has become invalid stays so.   *)
(* EmailCodes shows that the two services which mail codes implement this. *)
(***************************************************************************)
EXTENDS Naturals

CONSTANTS
    MaxAttempts     \* wrong guesses that burn a code

VARIABLES
    valid,          \* for each purpose the set of its valid codes
    issued,         \* the codes issued so far
    misses,         \* wrong guesses against a code
    redeemed        \* how often a code was accepted

otcVars == <<valid, issued, misses, redeemed>>

OTCInit ==
    /\ valid = [s \in DOMAIN valid |-> {}]
    /\ issued = {}
    /\ misses = [c \in DOMAIN misses |-> 0]
    /\ redeemed = [c \in DOMAIN redeemed |-> 0]

\* The codes for s become invalid.
Withdraw(s) ==
    /\ valid' = [valid EXCEPT ![s] = {}]
    /\ UNCHANGED <<issued, misses, redeemed>>

\* A new code for s replaces what was valid before.
Issue(s, c) ==
    /\ c \notin issued
    /\ issued' = issued \cup {c}
    /\ valid' = [valid EXCEPT ![s] = {c}]
    /\ UNCHANGED <<misses, redeemed>>

Miss(s, c) ==
    /\ c \in valid[s]
    /\ misses' = [misses EXCEPT ![c] = @ + 1]
    /\ valid' = [valid EXCEPT ![s] = IF misses'[c] >= MaxAttempts THEN {} ELSE @]
    /\ UNCHANGED <<issued, redeemed>>

Redeem(s, c) ==
    /\ c \in valid[s]
    /\ redeemed' = [redeemed EXCEPT ![c] = @ + 1]
    /\ valid' = [valid EXCEPT ![s] = {}]
    /\ UNCHANGED <<issued, misses>>

OTCNext ==
    \E s \in DOMAIN valid :
       \/ Withdraw(s)
       \/ \E c \in DOMAIN misses : Issue(s, c) \/ Miss(s, c) \/ Redeem(s, c)

OTCSpec == OTCInit /\ [][OTCNext]_otcVars
=============================================================================

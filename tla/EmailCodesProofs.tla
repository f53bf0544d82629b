-------------------------- MODULE EmailCodesProofs --------------------------
(***************************************************************************)
(* Proofs about EmailCodes, for any number of accounts, addresses, codes   *)
(* and concurrent requests, any number of attempts, and with or without a  *)
(* working rate limit.                                                     *)
(***************************************************************************)
EXTENDS EmailCodes, FiniteSetTheorems, TLAPS

-----------------------------------------------------------------------------
(* The inductive invariant *)

Record == [pc : PCs, email : Emails \cup {None},
           slot : (Users \cup {None}) \X (Emails \cup {None}),
           guess : Codes \cup {None}, seen : SUBSET Codes]

\* What a request knows: r is its record, p the primary addresses, v the
\* verified ones, s the slots of the codes.
Knows(r, p, v, s) ==
    /\ r.pc # "idle" => r.email \in Emails
    /\ r.pc \in {"limit", "invalidate", "create", "lock", "verify", "session",
                 "gh_extras"} => r.slot[1] \in Users
    /\ r.slot[2] \in {None, r.email}
    /\ /\ r.pc \in {"invalidate", "create", "lock"}
       /\ r.slot[2] = None
       => p[r.slot[1]] = r.email
    /\ r.pc \in {"account", "taken", "newuser", "verify"} => r.slot[2] = None
    /\ r.pc = "limit" => r.slot[2] = r.email
    /\ r.pc = "verify" => p[r.slot[1]] = r.email
    /\ r.pc = "session" => <<r.slot[1], r.email>> \in v
    /\ r.pc = "lock" => \A c \in r.seen : s[c] = r.slot

\* Each address is verified for one account.
OneOwner(v) == \A u, w \in Users, e \in Emails :
    <<u, e>> \in v /\ <<w, e>> \in v => u = w

\* A code that is not used has a guess left; one that is not issued is not used.
CodeState(c) ==
    /\ accepted[c] \in {0, 1}
    /\ tries[c] + accepted[c] <= MaxAttempts
    /\ c \notin used => accepted[c] = 0 /\ tries[c] < MaxAttempts
    /\ slotOf[c] = None => c \notin used

Inv ==
    /\ TypeOK
    /\ \A c \in Codes : CodeState(c)
    /\ OneOwner(verified)
    /\ loggedIn \subseteq verified
    /\ \A h \in Handlers : Knows(req[h], primary, verified, slotOf)

-----------------------------------------------------------------------------
(* What an action does to the requests *)

\* A request goes to its next step.
LEMMA GotoRecord ==
    ASSUME NEW h \in Handlers, NEW pc \in PCs,
           req \in [Handlers -> Record],
           Goto(h, pc)
    PROVE  /\ req' \in [Handlers -> Record]
           /\ \A g \in Handlers \ {h} : req'[g] = req[g]
           /\ req'[h] = [req[h] EXCEPT !.pc = pc]
  BY DEF Goto, Record

\* A request ends.
LEMMA FinishRecord ==
    ASSUME NEW h \in Handlers, req \in [Handlers -> Record], Finish(h)
    PROVE  /\ req' \in [Handlers -> Record]
           /\ \A g \in Handlers \ {h} : req'[g] = req[g]
           /\ req'[h] = Idle
  <1>1. Idle \in Record
    BY DEF Idle, Record, PCs
  <1> QED BY <1>1 DEF Finish

\* A request learns its account.
LEMMA LearnRecord ==
    ASSUME NEW h \in Handlers, NEW pc \in PCs, NEW u \in Users,
           req \in [Handlers -> Record],
           req' = [req EXCEPT ![h].pc = pc, ![h].slot = <<u, None>>]
    PROVE  /\ req' \in [Handlers -> Record]
           /\ \A g \in Handlers \ {h} : req'[g] = req[g]
           /\ req'[h] = [req[h] EXCEPT !.pc = pc, !.slot = <<u, None>>]
  <1>1. [req[h] EXCEPT !.pc = pc, !.slot = <<u, None>>] \in Record
    <2>1. req[h] \in Record
      OBVIOUS
    <2>2. <<u, None>> \in (Users \cup {None}) \X (Emails \cup {None})
      OBVIOUS
    <2> QED BY <2>1, <2>2 DEF Record
  <1>2. req' = [req EXCEPT ![h] = [req[h] EXCEPT !.pc = pc, !.slot = <<u, None>>]]
    OBVIOUS
  <1> QED BY <1>1, <1>2

\* An idle request knows nothing that can be wrong.
LEMMA IdleKnows ==
    ASSUME NEW p, NEW v, NEW s
    PROVE  Knows(Idle, p, v, s)
  BY DEF Knows, Idle

\* What a request knows stays true while accounts and verified addresses are
\* added and codes are created.
LEMMA KnowsKept ==
    ASSUME TypeOK, CodeAssumption,
           NEW r \in Record, NEW p, NEW v, NEW s,
           Knows(r, primary, verified, slotOf),
           \A u \in Users : primary[u] # None => p[u] = primary[u],
           verified \subseteq v,
           \A c \in Codes : slotOf[c] # None => s[c] = slotOf[c]
    PROVE  Knows(r, p, v, s)
  <1>1. \A c \in r.seen : c \in Codes
    BY DEF Record
  <1>2. r.slot[1] \in Users => r.slot \in Slots
    BY DEF Record, Slots
  <1>3. r.slot[1] \in Users /\ p[r.slot[1]] # primary[r.slot[1]] =>
           primary[r.slot[1]] = None
    OBVIOUS
  <1> QED BY <1>1, <1>2, <1>3 DEF Knows

LEMMA InitInv == Init => Inv
  <1> SUFFICES ASSUME Init PROVE Inv
    OBVIOUS
  <1>1. TypeOK
    BY CodeAssumption DEF Init, TypeOK, Idle, PCs
  <1>2. \A c \in Codes : CodeState(c)
    BY CodeAssumption DEF Init, CodeState
  <1>3. OneOwner(verified) /\ loggedIn \subseteq verified
    BY DEF Init, OneOwner
  <1>4. \A h \in Handlers : Knows(req[h], primary, verified, slotOf)
    BY IdleKnows DEF Init
  <1> QED BY <1>1, <1>2, <1>3, <1>4 DEF Inv

-----------------------------------------------------------------------------
(* What a step of one request has to show *)

UserPart ==
    /\ primary' \in [Users -> Emails \cup {None}]
    /\ \A u \in Users : primary[u] # None => primary'[u] = primary[u]
    /\ verified' \subseteq Users \X Emails
    /\ verified \subseteq verified'
    /\ OneOwner(verified')
    /\ loggedIn' \subseteq verified'

CodePart ==
    /\ slotOf' \in [Codes -> Slots \cup {None}]
    /\ \A c \in Codes : slotOf[c] # None => slotOf'[c] = slotOf[c]
    /\ rank' \in [Codes -> Nat]
    /\ used' \subseteq Codes /\ expired' \subseteq Codes
    /\ tries' \in [Codes -> 0..MaxAttempts]
    /\ accepted' \in [Codes -> Nat]
    /\ \A c \in Codes : CodeState(c)'

ReqPart(h) ==
    /\ req' \in [Handlers -> Record]
    /\ \A g \in Handlers \ {h} : req'[g] = req[g]
    /\ Knows(req'[h], primary', verified', slotOf')

LEMMA StepInv ==
    ASSUME Inv, NEW h \in Handlers, limited' = limited,
           UserPart, CodePart, ReqPart(h)
    PROVE  Inv'
  <1>1. TypeOK'
    <2>1. limited' \in BOOLEAN
      BY DEF Inv, TypeOK
    <2>2. loggedIn' \subseteq Users \X Emails
      BY DEF UserPart
    <2> QED BY <2>1, <2>2 DEF TypeOK, UserPart, CodePart, ReqPart, Record
  <1>2. ASSUME NEW g \in Handlers
        PROVE  Knows(req'[g], primary', verified', slotOf')
    <2>1. CASE g = h
      BY <2>1 DEF ReqPart
    <2>2. CASE g # h
      <3>1. req'[g] = req[g] /\ req[g] \in Record
        BY <2>2 DEF ReqPart, Inv, TypeOK, Record
      <3>2. Knows(req[g], primary, verified, slotOf) /\ TypeOK
        BY DEF Inv
      <3>3. Knows(req[g], primary', verified', slotOf')
        BY <3>1, <3>2, KnowsKept, CodeAssumption DEF UserPart, CodePart
      <3> QED BY <3>1, <3>3
    <2> QED BY <2>1, <2>2
  <1>3. \A c \in Codes : CodeState(c)'
    BY DEF CodePart
  <1>4. OneOwner(verified)' /\ (loggedIn \subseteq verified)'
    BY DEF UserPart, OneOwner
  <1>5. (\A g \in Handlers : Knows(req[g], primary, verified, slotOf))'
    BY <1>2
  <1> QED BY <1>1, <1>3, <1>4, <1>5 DEF Inv

LEMMA UsersStill == Inv /\ UNCHANGED <<userVars, loggedIn>> => UserPart
  BY DEF Inv, TypeOK, userVars, UserPart

LEMMA CodesStill == Inv /\ UNCHANGED codeVars => CodePart
  BY DEF Inv, TypeOK, codeVars, CodePart, CodeState

\* A step that changes nothing but the record of the request.
LEMMA QuietStep ==
    ASSUME Inv, NEW h \in Handlers,
           UNCHANGED <<limited, userVars, codeVars, loggedIn>>,
           req' \in [Handlers -> Record],
           \A g \in Handlers \ {h} : req'[g] = req[g],
           Knows(req'[h], primary, verified, slotOf)
    PROVE  Inv'
  <1>1. UserPart /\ CodePart
    BY UsersStill, CodesStill
  <1>2. ReqPart(h)
    BY DEF ReqPart, userVars, codeVars
  <1> QED BY <1>1, <1>2, StepInv

\* What holds of the request that takes a step.
LEMMA Before ==
    ASSUME Inv, NEW h \in Handlers
    PROVE  /\ req \in [Handlers -> Record]
           /\ req[h] \in Record
           /\ Knows(req[h], primary, verified, slotOf)
  BY DEF Inv, TypeOK, Record

-----------------------------------------------------------------------------
(* Sending a code *)

LEMMA SendInv ==
    ASSUME Inv, NEW h \in Handlers, Send(h)
    PROVE  Inv'
  <1>b. /\ req \in [Handlers -> Record]
        /\ req[h] \in Record
        /\ Knows(req[h], primary, verified, slotOf)
    BY Before
  <1>f. ASSUME Finish(h), UNCHANGED <<limited, userVars, codeVars, loggedIn>>
        PROVE  Inv'
    BY <1>b, <1>f, FinishRecord, IdleKnows, QuietStep
  <1>1. ASSUME NEW e \in Emails, LimitLogin(h, e)
        PROVE  Inv'
    <2> DEFINE r == [Idle EXCEPT !.pc = "account", !.email = e]
    <2>1. r \in Record /\ Knows(r, primary, verified, slotOf)
      BY DEF Idle, PCs, Issuing, Record, Knows
    <2> QED BY <1>b, <1>1, <2>1, QuietStep DEF LimitLogin
  <1>2. ASSUME NEW u \in Users, NEW e \in Emails, BeginAdd(h, u, e)
        PROVE  Inv'
    <2> DEFINE r == [Idle EXCEPT !.pc = "limit", !.email = e, !.slot = <<u, e>>]
    <2>1. r \in Record
      BY DEF Idle, PCs, Record
    <2>2. Knows(r, primary, verified, slotOf)
      BY DEF Idle, Knows
    <2> QED BY <1>b, <1>2, <2>1, <2>2, QuietStep DEF BeginAdd
  <1>3. CASE LimitEmail(h)
    <2>1. CASE Goto(h, "invalidate")
      <3>1. "invalidate" \in PCs
        BY DEF PCs, Issuing
      <3>2. req[h].pc = "limit" /\ req'[h] = [req[h] EXCEPT !.pc = "invalidate"]
        BY <1>b, <1>3, <2>1, <3>1, GotoRecord DEF LimitEmail, At
      <3>3. Knows(req'[h], primary, verified, slotOf)
        BY <1>b, <3>2, CodeAssumption DEF Knows, Record
      <3> QED BY <1>b, <1>3, <2>1, <3>1, <3>3, GotoRecord, QuietStep DEF LimitEmail
    <2> QED BY <1>3, <1>f, <2>1 DEF LimitEmail
  <1>4. CASE FindAccount(h)
    <2>1. CASE Goto(h, "taken")
      <3>1. "taken" \in PCs
        BY DEF PCs, Issuing
      <3>2. req[h].pc = "account" /\ req'[h] = [req[h] EXCEPT !.pc = "taken"]
        BY <1>b, <1>4, <2>1, <3>1, GotoRecord DEF FindAccount, At
      <3>3. Knows(req'[h], primary, verified, slotOf)
        BY <1>b, <3>2, CodeAssumption DEF Knows, Record
      <3> QED BY <1>b, <1>4, <2>1, <3>1, <3>3, GotoRecord, QuietStep DEF FindAccount
    <2>2. ASSUME NEW u \in Users, HasAccount(u, req[h].email),
                 req' = [req EXCEPT ![h].pc = "invalidate", ![h].slot = <<u, None>>]
          PROVE  Inv'
      <3>1. "invalidate" \in PCs
        BY DEF PCs, Issuing
      <3>2. Knows(req'[h], primary, verified, slotOf)
        BY <1>b, <1>4, <2>2, <3>1, LearnRecord
           DEF FindAccount, At, HasAccount, Knows, Record
      <3> QED BY <1>b, <1>4, <2>2, <3>1, <3>2, LearnRecord, QuietStep DEF FindAccount
    <2> QED BY <1>4, <2>1, <2>2 DEF FindAccount
  <1>5. CASE CheckTaken(h)
    <2>1. CASE Goto(h, "newuser")
      <3>1. "newuser" \in PCs
        BY DEF PCs, Issuing
      <3>2. req[h].pc = "taken" /\ req'[h] = [req[h] EXCEPT !.pc = "newuser"]
        BY <1>b, <1>5, <2>1, <3>1, GotoRecord DEF CheckTaken, At
      <3>3. Knows(req'[h], primary, verified, slotOf)
        BY <1>b, <3>2, CodeAssumption DEF Knows, Record
      <3> QED BY <1>b, <1>5, <2>1, <3>1, <3>3, GotoRecord, QuietStep DEF CheckTaken
    <2> QED BY <1>5, <1>f, <2>1 DEF CheckTaken
  <1>6. ASSUME NEW u \in Users, CreateUser(h, u)
        PROVE  Inv'
    <2>1. "invalidate" \in PCs
      BY DEF PCs, Issuing
    <2>2. req[h].email \in Emails
      BY <1>b, <1>6 DEF CreateUser, At, Knows
    <2>3. UserPart
      BY <1>6, <2>2 DEF CreateUser, UserPart, Inv, TypeOK
    <2>r. /\ req' \in [Handlers -> Record]
          /\ \A g \in Handlers \ {h} : req'[g] = req[g]
          /\ req'[h] = [req[h] EXCEPT !.pc = "invalidate", !.slot = <<u, None>>]
      BY <1>b, <1>6, <2>1, LearnRecord DEF CreateUser
    <2>p. primary'[u] = req[h].email
      BY <1>6 DEF CreateUser, Inv, TypeOK
    <2>4. Knows(req'[h], primary', verified', slotOf')
      BY <1>b, <2>2, <2>r, <2>p DEF Knows, Record
    <2>5. ReqPart(h)
      BY <2>r, <2>4 DEF ReqPart
    <2> QED BY <1>6, <2>3, <2>5, CodesStill, StepInv DEF CreateUser
  <1>7. CASE Invalidate(h)
    <2>1. "create" \in PCs
      BY DEF PCs, Issuing
    <2>2. CodePart
      <3>1. req[h].slot \in Slots
        BY <1>b, <1>7 DEF Invalidate, At, Knows, Record, Slots
      <3>2. \A c \in Codes : slotOf[c] = None => c \notin used'
        BY <1>7, <3>1, CodeAssumption DEF Invalidate, SetUsed, Unused, CodeState, Inv
      <3>3. used \subseteq used' /\ used' \subseteq Codes /\ expired' \subseteq Codes
        BY <1>7 DEF Invalidate, SetUsed, Unused, Inv, TypeOK
      <3>4. \A c \in Codes : CodeState(c)'
        BY <1>7, <3>2, <3>3 DEF Invalidate, CodeState, Inv
      <3> QED BY <1>7, <3>3, <3>4 DEF Invalidate, CodePart, Inv, TypeOK
    <2>r. /\ req[h].pc = "invalidate" /\ req'[h] = [req[h] EXCEPT !.pc = "create"]
          /\ primary' = primary
      BY <1>b, <1>7, <2>1, GotoRecord DEF Invalidate, At, userVars
    <2>3. Knows(req'[h], primary', verified', slotOf')
      BY <1>b, <2>r DEF Knows, Record
    <2>4. ReqPart(h)
      BY <1>b, <1>7, <2>1, <2>3, GotoRecord DEF Invalidate, ReqPart
    <2> QED BY <1>7, <2>2, <2>4, UsersStill, StepInv DEF Invalidate
  <1>8. ASSUME NEW c \in Codes, CreateCode(h, c)
        PROVE  Inv'
    <2>1. req[h].slot \in Slots
      BY <1>b, <1>8 DEF CreateCode, At, Knows, Record, Slots
    <2>2. Cardinality({d \in Codes : slotOf[d] = req[h].slot}) \in Nat
      <3>1. IsFiniteSet({d \in Codes : slotOf[d] = req[h].slot})
        BY CodeAssumption, FS_Subset
      <3> QED BY <3>1, FS_CardinalityType
    <2>3. rank' \in [Codes -> Nat]
      BY <1>8, <2>2 DEF CreateCode, Inv, TypeOK
    <2>4. slotOf' \in [Codes -> Slots \cup {None}]
      BY <1>8, <2>1 DEF CreateCode, Inv, TypeOK
    <2>5. \A d \in Codes : CodeState(d)'
      BY <1>8, <2>1 DEF CreateCode, CodeState, Inv, TypeOK
    <2>6. CodePart
      BY <1>8, <2>3, <2>4, <2>5 DEF CreateCode, CodePart, Inv, TypeOK
    <2>7. ReqPart(h)
      BY <1>b, <1>8, FinishRecord, IdleKnows DEF CreateCode, ReqPart
    <2> QED BY <1>8, <2>6, <2>7, UsersStill, StepInv DEF CreateCode
  <1> QED BY <1>1, <1>2, <1>3, <1>4, <1>5, <1>6, <1>7, <1>8 DEF Send

-----------------------------------------------------------------------------
(* Checking a code *)

\* The code that a request locks is one of its slot with a guess left.
LEMMA Locked ==
    ASSUME Inv, NEW h \in Handlers, NEW c \in Codes, Locks(h, c)
    PROVE  /\ req[h].pc = "lock" /\ req[h].slot \in Slots
           /\ c \notin used /\ slotOf[c] = req[h].slot
           /\ accepted[c] = 0 /\ tries[c] < MaxAttempts
  <1>1. req[h].pc = "lock" /\ c \in req[h].seen /\ c \notin used
    BY DEF Locks, At, Lockable
  <1>2. req[h] \in Record /\ Knows(req[h], primary, verified, slotOf)
    BY Before
  <1>3. CodeState(c)
    BY DEF Inv
  <1> QED BY <1>1, <1>2, <1>3 DEF Knows, Record, Slots, CodeState

LEMMA SelectRecord ==
    ASSUME Inv, NEW h \in Handlers, NEW s \in Slots, NEW e \in Emails,
           NEW guess \in Codes \cup {None},
           s[2] \in {None, e}, s[2] = None => primary[s[1]] = e,
           SelectCode(h, s, e, guess)
    PROVE  /\ req' \in [Handlers -> Record]
           /\ \A g \in Handlers \ {h} : req'[g] = req[g]
           /\ Knows(req'[h], primary, verified, slotOf)
  <1> DEFINE r == [pc |-> "lock", email |-> e, slot |-> s, guess |-> guess,
                   seen |-> Unused(s) \ expired]
  <1>1. r \in Record
    BY DEF Record, PCs, Slots, Unused
  <1>2. Knows(r, primary, verified, slotOf)
    BY DEF Knows, Slots, Unused
  <1>3. req' = [req EXCEPT ![h] = r]
    BY DEF SelectCode
  <1> HIDE DEF r
  <1> QED BY <1>1, <1>2, <1>3, Before

\* A guess is counted, or accepted.
LEMMA CountedCode ==
    ASSUME Inv, NEW h \in Handlers, NEW c \in Codes, Locks(h, c),
           UNCHANGED <<slotOf, rank>>,
           \/ /\ tries' = [tries EXCEPT ![c] = @ + 1]
              /\ SetUsed(IF tries'[c] >= MaxAttempts THEN {c} ELSE {})
              /\ UNCHANGED accepted
           \/ Consume(c)
    PROVE  CodePart
  <1>1. /\ c \notin used /\ slotOf[c] \in Slots
        /\ accepted[c] = 0 /\ tries[c] \in Nat /\ tries[c] < MaxAttempts
    BY Locked DEF Inv, TypeOK
  <1>2. /\ tries' \in [Codes -> 0..MaxAttempts]
        /\ accepted' \in [Codes -> Nat]
    BY <1>1, CodeAssumption DEF Consume, Inv, TypeOK
  <1>3. used' \subseteq Codes /\ expired' \subseteq Codes
    BY DEF SetUsed, Consume, Inv, TypeOK
  <1>4. ASSUME NEW d \in Codes
        PROVE  CodeState(d)'
    <2>1. CodeState(d) /\ tries[d] \in Nat /\ accepted[d] \in Nat
      BY DEF Inv, TypeOK
    <2>2. CASE d # c
      BY <2>1, <2>2 DEF CodeState, SetUsed, Consume, Inv, TypeOK
    <2>3. CASE d = c
      <3>1. CASE Consume(c)
        BY <1>1, <2>1, <2>3, <3>1, CodeAssumption DEF CodeState, SetUsed, Consume, Inv, TypeOK
      <3>2. CASE /\ tries' = [tries EXCEPT ![c] = @ + 1]
                 /\ SetUsed(IF tries'[c] >= MaxAttempts THEN {c} ELSE {})
                 /\ UNCHANGED accepted
        BY <1>1, <2>1, <2>3, <3>2, CodeAssumption DEF CodeState, SetUsed, Inv, TypeOK
      <3> QED BY <3>1, <3>2
    <2> QED BY <2>2, <2>3
  <1> QED BY <1>2, <1>3, <1>4 DEF CodePart, Inv, TypeOK

\* The unique index: an address that no other account has can be verified.
LEMMA OwnerAdded ==
    ASSUME Inv, NEW u \in Users, NEW e \in Emails, ~TakenByOther(u, e),
           UNCHANGED <<primary, loggedIn>>,
           verified' = verified \cup {<<u, e>>}
    PROVE  UserPart
  <1>1. OneOwner(verified')
    BY DEF Inv, OneOwner, TakenByOther
  <1> QED BY <1>1 DEF UserPart, Inv, TypeOK

LEMMA VerifyInv ==
    ASSUME Inv, NEW h \in Handlers, Verify(h)
    PROVE  Inv'
  <1>b. /\ req \in [Handlers -> Record]
        /\ req[h] \in Record
        /\ Knows(req[h], primary, verified, slotOf)
    BY Before
  <1>f. Finish(h) => ReqPart(h)
    BY <1>b, FinishRecord, IdleKnows DEF ReqPart
  <1>1. ASSUME NEW u \in Users, NEW guess \in Guesses(<<u, None>>), BeginVerify(h, u, guess)
        PROVE  Inv'
    <2>1. guess \in Codes \cup {None} /\ primary[u] \in Emails /\ <<u, None>> \in Slots
      BY <1>1 DEF Guesses, BeginVerify, Inv, TypeOK, Slots
    <2> QED BY <1>1, <2>1, SelectRecord, QuietStep DEF BeginVerify
  <1>2. ASSUME NEW u \in Users, NEW e \in Emails, NEW guess \in Guesses(<<u, e>>),
               BeginVerifyEmail(h, u, e, guess)
        PROVE  Inv'
    <2>1. guess \in Codes \cup {None} /\ <<u, e>> \in Slots /\ e # None
      BY CodeAssumption DEF Guesses, Slots
    <2> QED BY <1>2, <2>1, SelectRecord, QuietStep DEF BeginVerifyEmail
  <1>3. CASE NoActiveCode(h)
    BY <1>b, <1>3, FinishRecord, IdleKnows, QuietStep DEF NoActiveCode
  <1>4. ASSUME NEW c \in Codes, WrongCode(h, c)
        PROVE  Inv'
    <2>1. CodePart
      BY <1>4, CountedCode DEF WrongCode
    <2> QED BY <1>4, <1>f, <2>1, UsersStill, StepInv DEF WrongCode
  <1>5. ASSUME NEW c \in Codes, AcceptLogin(h, c)
        PROVE  Inv'
    <2>1. CodePart
      BY <1>5, CountedCode DEF AcceptLogin, Consume
    <2>2. req'[h] = [req[h] EXCEPT !.pc = "verify"] /\ "verify" \in PCs
      BY <1>b, <1>5, GotoRecord DEF AcceptLogin, PCs
    <2>3. Knows(req'[h], primary', verified', slotOf')
      BY <1>b, <1>5, <2>2 DEF AcceptLogin, Locks, At, ForLogin, Consume, userVars, Knows, Record
    <2>4. ReqPart(h)
      BY <1>b, <1>5, <2>2, <2>3, GotoRecord DEF AcceptLogin, ReqPart
    <2> QED BY <1>5, <2>1, <2>4, UsersStill, StepInv DEF AcceptLogin
  <1>6. ASSUME NEW c \in Codes, AcceptEmail(h, c)
        PROVE  Inv'
    <2>1. CodePart
      BY <1>6, CountedCode DEF AcceptEmail, Consume
    <2>2. User(h) \in Users /\ req[h].email \in Emails /\ req[h].slot = <<User(h), req[h].email>>
      BY <1>b, <1>6 DEF AcceptEmail, Locks, At, ForLogin, User, Knows, Record
    <2>3. UserPart
      BY <1>6, <2>2, OwnerAdded DEF AcceptEmail
    <2> QED BY <1>6, <1>f, <2>1, <2>3, StepInv DEF AcceptEmail
  <1>7. ASSUME NEW c \in Codes, RejectEmail(h, c)
        PROVE  Inv'
    BY <1>b, <1>7, FinishRecord, IdleKnows, QuietStep DEF RejectEmail
  <1>8. CASE MarkVerified(h)
    <2>1. /\ req[h].pc = "verify" /\ User(h) \in Users /\ req[h].email \in Emails
          /\ primary[User(h)] = req[h].email
      BY <1>b, <1>8 DEF MarkVerified, At, User, Knows
    <2>2. CASE TakenByOther(User(h), primary[User(h)])
      BY <1>b, <1>8, <2>2, FinishRecord, IdleKnows, QuietStep DEF MarkVerified, userVars
    <2>3. CASE ~TakenByOther(User(h), primary[User(h)])
      <3>1. UserPart
        BY <1>8, <2>1, <2>3, OwnerAdded DEF MarkVerified
      <3>2. req'[h] = [req[h] EXCEPT !.pc = "session"] /\ "session" \in PCs
        BY <1>b, <1>8, <2>3, GotoRecord DEF MarkVerified, PCs
      <3>3. <<User(h), req[h].email>> \in verified'
        BY <1>8, <2>1, <2>3 DEF MarkVerified
      <3>4. Knows(req'[h], primary', verified', slotOf')
        BY <1>b, <2>1, <3>2, <3>3 DEF Knows, Record, User
      <3>5. ReqPart(h)
        BY <1>b, <1>8, <2>3, <3>2, <3>4, GotoRecord DEF MarkVerified, ReqPart
      <3> QED BY <1>8, <3>1, <3>5, CodesStill, StepInv DEF MarkVerified
    <2> QED BY <2>2, <2>3
  <1>9. CASE CreateSession(h)
    <2>1. <<User(h), req[h].email>> \in verified
      BY <1>b, <1>9 DEF CreateSession, At, User, Knows
    <2>2. UserPart
      BY <1>9, <2>1 DEF CreateSession, UserPart, userVars, Inv, TypeOK
    <2> QED BY <1>9, <1>f, <2>2, CodesStill, StepInv DEF CreateSession
  <1> QED BY <1>1, <1>2, <1>3, <1>4, <1>5, <1>6, <1>7, <1>8, <1>9 DEF Verify

-----------------------------------------------------------------------------
(* GitHub logins, and the environment *)

LEMMA GitHubInv ==
    ASSUME Inv, NEW h \in Handlers, GitHub(h)
    PROVE  Inv'
  <1>b. /\ req \in [Handlers -> Record]
        /\ req[h] \in Record
        /\ Knows(req[h], primary, verified, slotOf)
    BY Before
  <1>1. ASSUME NEW e \in Emails, BeginGitHub(h, e)
        PROVE  Inv'
    <2> DEFINE r == [Idle EXCEPT !.pc = "gh_taken", !.email = e]
    <2>1. r \in Record /\ Knows(r, primary, verified, slotOf)
      BY DEF Idle, PCs, Record, Knows
    <2> QED BY <1>b, <1>1, <2>1, QuietStep DEF BeginGitHub
  <1>2. CASE CheckGitHubTaken(h)
    <2>1. CASE Finish(h)
      BY <1>b, <1>2, <2>1, FinishRecord, IdleKnows, QuietStep DEF CheckGitHubTaken
    <2>2. CASE Goto(h, "gh_create")
      <3>1. "gh_create" \in PCs
        BY DEF PCs
      <3>2. req[h].pc = "gh_taken" /\ req'[h] = [req[h] EXCEPT !.pc = "gh_create"]
        BY <1>b, <1>2, <2>2, <3>1, GotoRecord DEF CheckGitHubTaken, At
      <3>3. Knows(req'[h], primary, verified, slotOf)
        BY <1>b, <3>2 DEF Knows, Record
      <3> QED BY <1>b, <1>2, <2>2, <3>1, <3>3, GotoRecord, QuietStep DEF CheckGitHubTaken
    <2> QED BY <1>2, <2>1, <2>2 DEF CheckGitHubTaken
  <1>3. ASSUME NEW u \in Users, CreateGitHubUser(h, u)
        PROVE  Inv'
    <2>1. CASE EmailTaken(req[h].email)
      BY <1>b, <1>3, <2>1, FinishRecord, IdleKnows, QuietStep DEF CreateGitHubUser
    <2>2. CASE ~EmailTaken(req[h].email)
      <3>1. "gh_extras" \in PCs /\ req[h].email \in Emails
        BY <1>b, <1>3 DEF CreateGitHubUser, At, Knows, PCs
      <3>2. OneOwner(verified')
        BY <1>3, <2>2 DEF CreateGitHubUser, EmailTaken, OneOwner, Inv
      <3>3. UserPart
        BY <1>3, <2>2, <3>1, <3>2 DEF CreateGitHubUser, UserPart, Inv, TypeOK
      <3>l. req' = [req EXCEPT ![h].pc = "gh_extras", ![h].slot = <<u, None>>]
        BY <1>3, <2>2 DEF CreateGitHubUser
      <3>r. /\ req' \in [Handlers -> Record]
            /\ \A g \in Handlers \ {h} : req'[g] = req[g]
            /\ req'[h] = [req[h] EXCEPT !.pc = "gh_extras", !.slot = <<u, None>>]
        BY <1>b, <3>1, <3>l, LearnRecord
      <3>4. Knows(req'[h], primary', verified', slotOf')
        BY <1>b, <3>1, <3>r DEF Knows, Record
      <3>5. ReqPart(h)
        BY <3>r, <3>4 DEF ReqPart
      <3> QED BY <1>3, <3>3, <3>5, CodesStill, StepInv DEF CreateGitHubUser
    <2> QED BY <2>1, <2>2
  <1>4. ASSUME NEW extras \in SUBSET Emails, AddGitHubEmails(h, extras)
        PROVE  Inv'
    <2>1. User(h) \in Users
      BY <1>b, <1>4 DEF AddGitHubEmails, At, User, Knows
    <2>2. OneOwner(verified')
      BY <1>4, <2>1 DEF AddGitHubEmails, EmailTaken, OneOwner, Inv
    <2>3. UserPart
      BY <1>4, <2>1, <2>2 DEF AddGitHubEmails, UserPart, Inv, TypeOK
    <2>4. ReqPart(h)
      BY <1>b, <1>4, FinishRecord, IdleKnows DEF AddGitHubEmails, ReqPart
    <2> QED BY <1>4, <2>3, <2>4, CodesStill, StepInv DEF AddGitHubEmails
  <1> QED BY <1>1, <1>2, <1>3, <1>4 DEF GitHub

LEMMA ExpireInv ==
    ASSUME Inv, NEW c \in Codes, Expire(c)
    PROVE  Inv'
  <1>1. TypeOK' /\ (\A d \in Codes : CodeState(d)')
    BY DEF Expire, userVars, TypeOK, CodeState, Inv
  <1> QED BY <1>1 DEF Expire, userVars, Inv, OneOwner

LEMMA NextInv == Inv /\ [Next]_vars => Inv'
  <1> SUFFICES ASSUME Inv, [Next]_vars
               PROVE  Inv'
    OBVIOUS
  <1>1. ASSUME NEW h \in Handlers, Fail(h)
        PROVE  Inv'
    BY <1>1, Before, FinishRecord, IdleKnows, QuietStep DEF Fail
  <1>2. CASE UNCHANGED vars
    <2>1. TypeOK' /\ (\A c \in Codes : CodeState(c)')
      BY <1>2 DEF vars, userVars, codeVars, TypeOK, CodeState, Inv
    <2> QED BY <1>2, <2>1 DEF vars, userVars, codeVars, Inv, OneOwner
  <1> QED BY <1>1, <1>2, SendInv, VerifyInv, GitHubInv, ExpireInv DEF Next

-----------------------------------------------------------------------------

\* The inductive invariant is one.
THEOREM Invariance == Spec => []Inv
  BY InitInv, NextInv, PTL DEF Spec

\* The types, in particular: an attempt counter never passes MaxAttempts.
THEOREM TypeCorrect == Spec => []TypeOK
  <1>1. Inv => TypeOK
    BY DEF Inv
  <1> QED BY <1>1, Invariance, PTL

\* However the requests that check a code interleave, it is compared with at
\* most MaxAttempts guesses and accepted once: verify_and_consume_auth_code and
\* verify_and_consume_email_code lock the row and test used_at again.
THEOREM BudgetKept == Spec => []GuessBudget
  <1>1. Inv => GuessBudget
    BY DEF Inv, CodeState, GuessBudget, TypeOK
  <1> QED BY <1>1, Invariance, PTL

\* Whoever logs in with a code owns the address: the unique index on verified
\* addresses, and a login that verifies before it creates the session.
THEOREM LoginOwns == Spec => []LoginOwnsAddress
  <1>1. Inv => LoginOwnsAddress
    <2> SUFFICES ASSUME Inv, NEW l \in loggedIn, NEW u \in Users
                 PROVE  <<u, l[2]>> \in verified <=> u = l[1]
      BY DEF LoginOwnsAddress
    <2>1. l \in verified /\ l[1] \in Users /\ l[2] \in Emails /\ l = <<l[1], l[2]>>
      BY DEF Inv, TypeOK
    <2> QED BY <2>1 DEF Inv, OneOwner
  <1> QED BY <1>1, Invariance, PTL

-----------------------------------------------------------------------------
(* The refinement *)

OneIssuer ==
    \A g, h \in Handlers :
       /\ req[g].pc \in Issuing /\ req[h].pc \in Issuing
       /\ Key(g) = Key(h)
       => g = h

Cleared ==
    \A h \in Handlers : req[h].pc = "create" => Unused(req[h].slot) = {}

OneCode ==
    \A c, d \in Codes \ used : slotOf[c] # None /\ slotOf[c] = slotOf[d] => c = d

\* What the cooldown adds: one request at a time replaces the code of a slot,
\* which is therefore still without a code when it creates the new one.
Cooled == limited => OneIssuer /\ Cleared /\ OneCode

\* Requests that replace the code of the same slot have the same cooldown key.
LEMMA SameKey ==
    ASSUME Inv, NEW g \in Handlers, NEW h \in Handlers,
           req[g].pc = "create", req[h].pc \in {"invalidate", "create"},
           req[g].slot = req[h].slot
    PROVE  Key(g) = Key(h)
  <1>1. /\ Knows(req[g], primary, verified, slotOf)
        /\ Knows(req[h], primary, verified, slotOf)
    BY Before
  <1>2. req[g].email = req[h].email
    BY <1>1 DEF Knows
  <1> QED BY <1>2 DEF Key, ForLogin, User

\* A step that creates no code.
LEMMA CooledStep ==
    ASSUME Cooled, NEW h \in Handlers,
           limited' = limited, slotOf' = slotOf, used \subseteq used',
           \A g \in Handlers \ {h} : req'[g] = req[g],
           req'[h].pc \in Issuing =>
              \/ req[h].pc \in Issuing /\ Key(h)' = Key(h)
              \/ Admits(Key(h)'),
           req'[h].pc = "create" => Unused(req[h].slot)' = {}
    PROVE  Cooled'
  <1> SUFFICES ASSUME limited
               PROVE  (OneIssuer /\ Cleared /\ OneCode)'
    BY DEF Cooled
  <1>1. OneIssuer'
    <2>1. \A g \in Handlers \ {h} : Key(g)' = Key(g)
      BY DEF Key, ForLogin, User
    <2> QED BY <2>1 DEF OneIssuer, Admits, Cooled
  <1>2. Cleared'
    <2> SUFFICES ASSUME NEW g \in Handlers, req'[g].pc = "create"
                 PROVE  Unused(req[g].slot)' = {}
      BY DEF Cleared
    <2>1. CASE g # h
      <3>1. req'[g] = req[g] /\ Unused(req[g].slot) = {}
        BY <2>1 DEF Cleared, Cooled
      <3> QED BY <3>1 DEF Unused
    <2> QED BY <2>1
  <1>3. OneCode'
    BY DEF OneCode, Cooled
  <1> QED BY <1>1, <1>2, <1>3

\* What the abstract specification sees.
Seen == <<limited, slotOf, used, tries, accepted>>

LEMMA SeenStill == UNCHANGED Seen => UNCHANGED Abs!otcVars
  BY DEF Seen, Abs!otcVars, AbsSlots, AbsCodes, Unused

\* Without a working rate limit nothing is promised.
LEMMA Unlimited == ~limited /\ limited' = limited => UNCHANGED Abs!otcVars
  BY DEF Abs!otcVars, AbsSlots, AbsCodes

LEMMA WithdrawStep ==
    ASSUME Inv, limited, NEW h \in Handlers, Invalidate(h)
    PROVE  Abs!OTCNext /\ Unused(req[h].slot)' = {}
  <1>s. PICK s \in Slots : s = req[h].slot
    BY Before DEF Invalidate, At, Knows, Record, Slots
  <1>1. req'[h].slot = s
    BY <1>s, Before DEF Invalidate, Goto, Record
  <1>2. Unused(s)' = {} /\ \A t \in Slots \ {s} : Unused(t)' = Unused(t)
    BY <1>s DEF Invalidate, SetUsed, Unused
  <1>3. Abs!Withdraw(s)
    BY <1>2 DEF Abs!Withdraw, Invalidate, SetUsed, AbsSlots, AbsCodes, Unused
  <1> QED BY <1>1, <1>2, <1>3 DEF Abs!OTCNext, AbsSlots

LEMMA IssueStep ==
    ASSUME Inv, Cooled, limited, NEW h \in Handlers, NEW c \in Codes, CreateCode(h, c)
    PROVE  Abs!OTCNext /\ Cooled'
  <1>s. PICK s \in Slots : s = req[h].slot
    BY Before DEF CreateCode, At, Knows, Record, Slots
  <1>1. req[h].pc = "create"
    BY DEF CreateCode, At
  <1>2. /\ c \notin used /\ slotOf[c] = None
        /\ slotOf' = [slotOf EXCEPT ![c] = s] /\ slotOf \in [Codes -> Slots \cup {None}]
        /\ used' = used /\ s # None
    BY <1>s, CodeAssumption DEF CreateCode, Inv, CodeState, TypeOK
  <1>3. Unused(s) = {}
    BY <1>s, <1>1 DEF Cooled, Cleared
  <1>4. Unused(s)' = {c} /\ \A t \in Slots \ {s} : Unused(t)' = Unused(t)
    BY <1>2, <1>3, CodeAssumption DEF Unused
  <1>5. Abs!Issue(s, c)
    <2>1. AbsSlots = Slots /\ AbsCodes = Codes /\ limited' = limited
      BY DEF CreateCode, AbsSlots, AbsCodes
    <2>2. c \notin {d \in AbsCodes : slotOf[d] # None}
      BY <1>2
    <2>3. {d \in AbsCodes : slotOf[d] # None}' = {d \in AbsCodes : slotOf[d] # None} \cup {c}
      BY <1>2, <2>1 DEF AbsCodes
    <2>4. [t \in AbsSlots |-> Unused(t)]' = [[t \in AbsSlots |-> Unused(t)] EXCEPT ![s] = {c}]
      BY <1>4, <2>1 DEF AbsSlots
    <2>5. tries' = tries /\ accepted' = accepted /\ AbsCodes' = AbsCodes
      BY <2>1 DEF CreateCode, AbsCodes
    <2> QED BY <2>2, <2>3, <2>4, <2>5 DEF Abs!Issue
  <1>6. Abs!OTCNext
    BY <1>1, <1>5 DEF Abs!OTCNext, AbsSlots, AbsCodes
  <1>7. /\ \A g \in Handlers \ {h} : req'[g] = req[g] /\ Key(g)' = Key(g)
        /\ req'[h].pc = "idle"
    <2>1. \A g \in Handlers \ {h} : req'[g] = req[g]
      BY Before, FinishRecord DEF CreateCode
    <2>2. req'[h].pc = "idle"
      BY Before, FinishRecord DEF CreateCode, Idle
    <2> QED BY <2>1, <2>2 DEF Key, ForLogin, User
  <1>8. OneIssuer'
    BY <1>7 DEF OneIssuer, Cooled, Issuing
  <1>9. Cleared'
    <2> SUFFICES ASSUME NEW g \in Handlers, req'[g].pc = "create"
                 PROVE  Unused(req[g].slot)' = {}
      BY DEF Cleared
    <2>1. g # h /\ req'[g] = req[g] /\ req[g].pc = "create"
      BY <1>7
    <2>2. req[g].slot # s
      BY <1>s, <1>1, <2>1, SameKey DEF OneIssuer, Cooled, Issuing
    <2>3. req[g].slot \in Slots
      BY <2>1, Before DEF Knows, Record, Slots
    <2>4. Unused(req[g].slot) = {}
      BY <2>1 DEF Cooled, Cleared
    <2> QED BY <1>4, <2>1, <2>2, <2>3, <2>4
  <1>10. OneCode'
    BY <1>2, <1>3 DEF OneCode, Cooled, Unused
  <1> QED BY <1>6, <1>8, <1>9, <1>10 DEF Cooled

LEMMA LockedStep ==
    ASSUME Inv, Cooled, limited, NEW h \in Handlers, NEW c \in Codes,
           WrongCode(h, c) \/ AcceptLogin(h, c) \/ AcceptEmail(h, c)
    PROVE  Abs!OTCNext
  <1>s. PICK s \in Slots : s = req[h].slot
    BY Locked DEF WrongCode, AcceptLogin, AcceptEmail
  <1>1. s # None /\ c \notin used /\ slotOf[c] = s
    BY <1>s, Locked, CodeAssumption DEF WrongCode, AcceptLogin, AcceptEmail
  <1>2. Unused(s) = {c}
    BY <1>1 DEF Unused, OneCode, Cooled
  <1>3. \A t \in Slots \ {s} : c \notin Unused(t)
    BY <1>1 DEF Unused
  <1>4. CASE WrongCode(h, c)
    <2>1. /\ tries' = [tries EXCEPT ![c] = @ + 1]
          /\ accepted' = accepted /\ slotOf' = slotOf /\ limited' = limited
          /\ used' = used \cup (IF tries'[c] >= MaxAttempts THEN {c} ELSE {})
      BY <1>4 DEF WrongCode, SetUsed
    <2>2. /\ Unused(s)' = IF tries'[c] >= MaxAttempts THEN {} ELSE Unused(s)
          /\ \A t \in Slots \ {s} : Unused(t)' = Unused(t)
      BY <1>1, <1>2, <2>1 DEF Unused
    <2>3. tries \in [Codes -> 0..MaxAttempts]
      BY DEF Inv, TypeOK
    <2>4. Abs!Miss(s, c)
      BY <1>1, <1>2, <2>1, <2>2, <2>3 DEF Abs!Miss, AbsSlots, AbsCodes
    <2> QED BY <1>1, <2>4 DEF Abs!OTCNext, AbsSlots, AbsCodes
  <1>5. CASE AcceptLogin(h, c) \/ AcceptEmail(h, c)
    <2>1. /\ tries' = tries /\ slotOf' = slotOf /\ limited' = limited
          /\ accepted' = [accepted EXCEPT ![c] = @ + 1]
          /\ used' = used \cup {c}
      BY <1>5 DEF AcceptLogin, AcceptEmail, Consume, SetUsed
    <2>2. /\ Unused(s)' = {}
          /\ \A t \in Slots \ {s} : Unused(t)' = Unused(t)
      BY <1>1, <1>2, <2>1 DEF Unused
    <2>3. accepted \in [Codes -> Nat]
      BY DEF Inv, TypeOK
    <2>4. Abs!Redeem(s, c)
      BY <1>1, <1>2, <2>1, <2>2, <2>3 DEF Abs!Redeem, AbsSlots, AbsCodes
    <2> QED BY <1>1, <2>4 DEF Abs!OTCNext, AbsSlots, AbsCodes
  <1> QED BY <1>4, <1>5

\* A request ends, and the abstract specification does not see it.
LEMMA EndStep ==
    ASSUME Inv, Cooled, NEW h \in Handlers, Finish(h),
           limited' = limited, slotOf' = slotOf, used \subseteq used'
    PROVE  Cooled'
  <1>1. \A g \in Handlers \ {h} : req'[g] = req[g]
    BY Before, FinishRecord
  <1>2. req'[h].pc = "idle"
    BY Before, FinishRecord DEF Idle
  <1> QED BY <1>1, <1>2, CooledStep DEF Issuing

\* A request goes on, without issuing a code or with the same cooldown key.
LEMMA GoOnStep ==
    ASSUME Inv, Cooled, NEW h \in Handlers, NEW pc \in PCs \ {"create"}, Goto(h, pc),
           pc \in Issuing => req[h].pc \in Issuing \/ Admits(Key(h)),
           limited' = limited, slotOf' = slotOf, used \subseteq used'
    PROVE  Cooled'
  <1>1. \A g \in Handlers \ {h} : req'[g] = req[g]
    BY Before, GotoRecord
  <1>2. req'[h] = [req[h] EXCEPT !.pc = pc] /\ req[h] \in Record
    BY Before, GotoRecord
  <1>3. req'[h].pc = pc /\ Key(h)' = Key(h)
    BY <1>2 DEF Key, ForLogin, User, Record
  <1> QED BY <1>1, <1>3, CooledStep

\* A request starts, or learns its account, and does not issue a code yet or
\* keeps its cooldown key.
LEMMA OtherStep ==
    ASSUME Inv, Cooled, NEW h \in Handlers, NEW r \in Record, r.pc # "create",
           req' = [req EXCEPT ![h] = r],
           r.pc \in Issuing =>
              \/ req[h].pc \in Issuing /\ Key(h)' = Key(h)
              \/ Admits(Key(h)'),
           limited' = limited, slotOf' = slotOf, used \subseteq used'
    PROVE  Cooled'
  <1>1. (\A g \in Handlers \ {h} : req'[g] = req[g]) /\ req'[h] = r
    BY Before
  <1> QED BY <1>1, CooledStep

LEMMA SendCooled ==
    ASSUME Inv, Cooled, NEW h \in Handlers, Send(h)
    PROVE  Cooled' /\ [Abs!OTCNext]_Abs!otcVars
  <1> USE DEF userVars, codeVars
  <1>1. ASSUME NEW e \in Emails, LimitLogin(h, e)
        PROVE  Cooled' /\ UNCHANGED Seen
    <2> DEFINE r == [Idle EXCEPT !.pc = "account", !.email = e]
    <2>1. r \in Record /\ r.pc = "account"
      BY DEF Idle, PCs, Issuing, Record
    <2>2. Key(h)' = <<None, e>>
      BY <1>1, Before DEF LimitLogin, Key, ForLogin, Idle
    <2> QED BY <1>1, <2>1, <2>2, OtherStep DEF LimitLogin, Seen
  <1>2. ASSUME NEW u \in Users, NEW e \in Emails, BeginAdd(h, u, e)
        PROVE  Cooled' /\ UNCHANGED Seen
    <2> DEFINE r == [Idle EXCEPT !.pc = "limit", !.email = e, !.slot = <<u, e>>]
    <2>1. r \in Record /\ r.pc = "limit"
      BY DEF Idle, PCs, Record
    <2> QED BY <1>2, <2>1, OtherStep DEF BeginAdd, Seen, Issuing
  <1>3. ASSUME LimitEmail(h)
        PROVE  Cooled' /\ UNCHANGED Seen
    <2>1. "invalidate" \in PCs \ {"create"}
      BY DEF PCs, Issuing
    <2> QED BY <1>3, <2>1, GoOnStep, EndStep DEF LimitEmail, Seen
  <1>4. ASSUME FindAccount(h)
        PROVE  Cooled' /\ UNCHANGED Seen
    <2>1. CASE Goto(h, "taken")
      <3>1. "taken" \in PCs \ {"create"} /\ req[h].pc \in Issuing
        BY <1>4 DEF FindAccount, At, PCs, Issuing
      <3> QED BY <1>4, <2>1, <3>1, GoOnStep DEF FindAccount, Seen
    <2>2. ASSUME NEW u \in Users,
                 req' = [req EXCEPT ![h].pc = "invalidate", ![h].slot = <<u, None>>]
          PROVE  Cooled' /\ UNCHANGED Seen
      <3>1. "invalidate" \in PCs /\ req[h].pc \in Issuing
        BY <1>4 DEF FindAccount, At, PCs, Issuing
      <3>2. req[h].slot[2] = None /\ req[h] \in Record
        BY <1>4, Before DEF FindAccount, At, Knows
      <3>3. /\ \A g \in Handlers \ {h} : req'[g] = req[g]
            /\ req'[h] = [req[h] EXCEPT !.pc = "invalidate", !.slot = <<u, None>>]
        BY <2>2, <3>1, Before, LearnRecord
      <3>4. Key(h)' = Key(h) /\ req'[h].pc = "invalidate"
        BY <3>2, <3>3 DEF Key, ForLogin, User, Record
      <3> QED BY <1>4, <3>1, <3>3, <3>4, CooledStep DEF FindAccount, Seen
    <2> QED BY <1>4, <2>1, <2>2 DEF FindAccount
  <1>5. ASSUME CheckTaken(h)
        PROVE  Cooled' /\ UNCHANGED Seen
    <2>1. "newuser" \in PCs \ {"create"} /\ req[h].pc \in Issuing
      BY <1>5 DEF CheckTaken, At, PCs, Issuing
    <2> QED BY <1>5, <2>1, GoOnStep, EndStep DEF CheckTaken, Seen
  <1>6. ASSUME NEW u \in Users, CreateUser(h, u)
        PROVE  Cooled' /\ UNCHANGED Seen
    <2>1. "invalidate" \in PCs /\ req[h].pc \in Issuing
      BY <1>6 DEF CreateUser, At, PCs, Issuing
    <2>2. req[h].slot[2] = None /\ req[h] \in Record
      BY <1>6, Before DEF CreateUser, At, Knows
    <2>3. /\ \A g \in Handlers \ {h} : req'[g] = req[g]
          /\ req'[h] = [req[h] EXCEPT !.pc = "invalidate", !.slot = <<u, None>>]
      BY <1>6, <2>1, Before, LearnRecord DEF CreateUser
    <2>4. Key(h)' = Key(h) /\ req'[h].pc = "invalidate"
      BY <2>2, <2>3 DEF Key, ForLogin, User, Record
    <2> QED BY <1>6, <2>1, <2>3, <2>4, CooledStep DEF CreateUser, Seen
  <1>7. CASE Invalidate(h)
    <2>1. Cooled'
      <3>1. "create" \in PCs /\ req[h].pc \in Issuing
        BY <1>7 DEF Invalidate, At, PCs, Issuing
      <3>2. /\ \A g \in Handlers \ {h} : req'[g] = req[g]
            /\ req'[h] = [req[h] EXCEPT !.pc = "create"]
        BY <1>7, <3>1, Before, GotoRecord DEF Invalidate
      <3>3. Key(h)' = Key(h)
        BY <3>2, Before DEF Key, ForLogin, User, Record
      <3>4. /\ limited' = limited /\ slotOf' = slotOf /\ used \subseteq used'
        BY <1>7 DEF Invalidate, SetUsed
      <3>5. CASE limited
        BY <1>7, <3>1, <3>2, <3>3, <3>4, <3>5, WithdrawStep, CooledStep
      <3>6. CASE ~limited
        BY <3>4, <3>6 DEF Cooled
      <3> QED BY <3>5, <3>6
    <2>2. [Abs!OTCNext]_Abs!otcVars
      <3>1. CASE limited
        BY <1>7, <3>1, WithdrawStep
      <3>2. CASE ~limited
        BY <1>7, <3>2, Unlimited DEF Invalidate
      <3> QED BY <3>1, <3>2
    <2> QED BY <2>1, <2>2
  <1>8. ASSUME NEW c \in Codes, CreateCode(h, c)
        PROVE  Cooled' /\ [Abs!OTCNext]_Abs!otcVars
    <2>1. CASE limited
      BY <1>8, <2>1, IssueStep
    <2>2. CASE ~limited
      BY <1>8, <2>2, Unlimited DEF CreateCode, Cooled
    <2> QED BY <2>1, <2>2
  <1> QED BY <1>1, <1>2, <1>3, <1>4, <1>5, <1>6, <1>7, <1>8, SeenStill DEF Send

LEMMA VerifyCooled ==
    ASSUME Inv, Cooled, NEW h \in Handlers, Verify(h)
    PROVE  Cooled' /\ [Abs!OTCNext]_Abs!otcVars
  <1> USE DEF userVars, codeVars
  <1>s. ASSUME NEW s \in Slots, NEW e \in Emails, NEW guess \in Codes \cup {None},
               SelectCode(h, s, e, guess),
               UNCHANGED <<limited, userVars, codeVars, loggedIn>>
        PROVE  Cooled' /\ UNCHANGED Seen
    <2> DEFINE r == [pc |-> "lock", email |-> e, slot |-> s, guess |-> guess,
                     seen |-> Unused(s) \ expired]
    <2>1. r \in Record /\ r.pc = "lock"
      BY DEF Record, PCs, Slots, Unused
    <2>2. req' = [req EXCEPT ![h] = r]
      BY <1>s DEF SelectCode
    <2> HIDE DEF r
    <2> QED BY <1>s, <2>1, <2>2, OtherStep DEF Seen, Issuing
  <1>1. ASSUME NEW u \in Users, NEW guess \in Guesses(<<u, None>>), BeginVerify(h, u, guess)
        PROVE  Cooled' /\ UNCHANGED Seen
    <2>1. guess \in Codes \cup {None} /\ primary[u] \in Emails /\ <<u, None>> \in Slots
      BY <1>1 DEF Guesses, BeginVerify, Inv, TypeOK, Slots
    <2> QED BY <1>1, <1>s, <2>1 DEF BeginVerify
  <1>2. ASSUME NEW u \in Users, NEW e \in Emails, NEW guess \in Guesses(<<u, e>>),
               BeginVerifyEmail(h, u, e, guess)
        PROVE  Cooled' /\ UNCHANGED Seen
    <2>1. guess \in Codes \cup {None} /\ <<u, e>> \in Slots
      BY DEF Guesses, Slots
    <2> QED BY <1>2, <1>s, <2>1 DEF BeginVerifyEmail
  <1>3. ASSUME NoActiveCode(h)
        PROVE  Cooled' /\ UNCHANGED Seen
    BY <1>3, EndStep DEF NoActiveCode, Seen
  <1>4. ASSUME NEW c \in Codes, WrongCode(h, c) \/ AcceptLogin(h, c) \/ AcceptEmail(h, c)
        PROVE  Cooled' /\ [Abs!OTCNext]_Abs!otcVars
    <2>1. limited' = limited /\ slotOf' = slotOf /\ used \subseteq used'
      BY <1>4 DEF WrongCode, AcceptLogin, AcceptEmail, Consume, SetUsed
    <2>2. "verify" \in PCs \ {"create"} /\ "verify" \notin Issuing
      BY DEF PCs, Issuing
    <2>3. Cooled'
      BY <1>4, <2>1, <2>2, GoOnStep, EndStep DEF WrongCode, AcceptLogin, AcceptEmail
    <2>4. CASE limited
      BY <1>4, <2>3, <2>4, LockedStep
    <2>5. CASE ~limited
      BY <2>1, <2>3, <2>5, Unlimited
    <2> QED BY <2>4, <2>5
  <1>7. ASSUME NEW c \in Codes, RejectEmail(h, c)
        PROVE  Cooled' /\ UNCHANGED Seen
    BY <1>7, EndStep DEF RejectEmail, Seen
  <1>8. ASSUME MarkVerified(h)
        PROVE  Cooled' /\ UNCHANGED Seen
    <2>1. "session" \in PCs \ {"create"} /\ "session" \notin Issuing
      BY DEF PCs, Issuing
    <2> QED BY <1>8, <2>1, GoOnStep, EndStep DEF MarkVerified, Seen
  <1>9. ASSUME CreateSession(h)
        PROVE  Cooled' /\ UNCHANGED Seen
    BY <1>9, EndStep DEF CreateSession, Seen
  <1> QED BY <1>1, <1>2, <1>3, <1>4, <1>7, <1>8, <1>9, SeenStill DEF Verify

LEMMA GitHubCooled ==
    ASSUME Inv, Cooled, NEW h \in Handlers, GitHub(h)
    PROVE  Cooled' /\ [Abs!OTCNext]_Abs!otcVars
  <1> USE DEF userVars, codeVars
  <1>1. ASSUME NEW e \in Emails, BeginGitHub(h, e)
        PROVE  Cooled' /\ UNCHANGED Seen
    <2> DEFINE r == [Idle EXCEPT !.pc = "gh_taken", !.email = e]
    <2>1. r \in Record /\ r.pc = "gh_taken"
      BY DEF Idle, PCs, Record
    <2> QED BY <1>1, <2>1, OtherStep DEF BeginGitHub, Seen, Issuing
  <1>2. ASSUME CheckGitHubTaken(h)
        PROVE  Cooled' /\ UNCHANGED Seen
    <2>1. "gh_create" \in PCs \ {"create"} /\ "gh_create" \notin Issuing
      BY DEF PCs, Issuing
    <2> QED BY <1>2, <2>1, GoOnStep, EndStep DEF CheckGitHubTaken, Seen
  <1>3. ASSUME NEW u \in Users, CreateGitHubUser(h, u)
        PROVE  Cooled' /\ UNCHANGED Seen
    <2>1. CASE Finish(h)
      BY <1>3, <2>1, EndStep DEF CreateGitHubUser, Seen
    <2>2. CASE req' = [req EXCEPT ![h].pc = "gh_extras", ![h].slot = <<u, None>>]
      <3>1. "gh_extras" \in PCs
        BY DEF PCs
      <3>2. /\ \A g \in Handlers \ {h} : req'[g] = req[g]
            /\ req'[h] = [req[h] EXCEPT !.pc = "gh_extras", !.slot = <<u, None>>]
        BY <2>2, <3>1, Before, LearnRecord
      <3>3. req'[h].pc = "gh_extras"
        BY <3>2, Before DEF Record
      <3> QED BY <1>3, <3>2, <3>3, CooledStep DEF CreateGitHubUser, Seen, Issuing
    <2> QED BY <1>3, <2>1, <2>2 DEF CreateGitHubUser
  <1>4. ASSUME NEW extras \in SUBSET Emails, AddGitHubEmails(h, extras)
        PROVE  Cooled' /\ UNCHANGED Seen
    BY <1>4, EndStep DEF AddGitHubEmails, Seen
  <1> QED BY <1>1, <1>2, <1>3, <1>4, SeenStill DEF GitHub

\* Every step is one of the abstract specification or none, and keeps Cooled.
LEMMA NextCooled ==
    ASSUME Inv, Cooled, [Next]_vars
    PROVE  Cooled' /\ [Abs!OTCNext]_Abs!otcVars
  <1>1. ASSUME NEW h \in Handlers, Fail(h)
        PROVE  Cooled' /\ UNCHANGED Seen
    BY <1>1, EndStep DEF Fail, Seen, codeVars
  <1>2. ASSUME NEW c \in Codes, Expire(c)
        PROVE  Cooled' /\ UNCHANGED Seen
    BY <1>2 DEF Expire, Seen, Cooled, OneIssuer, Cleared, OneCode, Key, ForLogin, User, Unused
  <1>3. ASSUME UNCHANGED vars
        PROVE  Cooled' /\ UNCHANGED Seen
    <2>1. UNCHANGED Seen /\ req' = req
      BY <1>3 DEF vars, codeVars, Seen
    <2>2. limited' = limited /\ slotOf' = slotOf /\ used' = used
      BY <2>1 DEF Seen
    <2> QED BY <2>1, <2>2 DEF Cooled, OneIssuer, Cleared, OneCode, Key, ForLogin, User, Unused
  <1> QED BY <1>1, <1>2, <1>3, SendCooled, VerifyCooled, GitHubCooled, SeenStill DEF Next

LEMMA InitCooled == Init => Cooled /\ Abs!OTCInit
  <1> SUFFICES ASSUME Init PROVE Cooled /\ Abs!OTCInit
    OBVIOUS
  <1>1. Cooled
    BY DEF Init, Cooled, OneIssuer, Cleared, OneCode, Idle, Issuing
  <1>2. \A s \in Slots : Unused(s) = {}
    BY CodeAssumption DEF Init, Unused
  <1>3. Abs!OTCInit
    BY <1>2 DEF Init, Abs!OTCInit, AbsSlots, AbsCodes
  <1> QED BY <1>1, <1>3

\* As long as Redis limits the sends, the codes behave as one valid code for
\* each slot: a login or an address has exactly one code that can be verified.
THEOREM OneCodeValid == Spec => ImplementsOneTimeCode
  <1>1. Init => Inv /\ Cooled /\ Abs!OTCInit
    BY InitInv, InitCooled
  <1>2. Inv /\ Cooled /\ [Next]_vars => (Inv /\ Cooled)' /\ [Abs!OTCNext]_Abs!otcVars
    BY NextInv, NextCooled
  <1> QED BY <1>1, <1>2, PTL DEF Spec, ImplementsOneTimeCode, Abs!OTCSpec
=============================================================================

--------------------------- MODULE IdentityProofs ---------------------------
(***************************************************************************)
(* Proofs about Accounts and TabSessions, for any number of proofs,        *)
(* sessions, requests, tabs and refreshes.  In the accounts a session that *)
(* works ties three rows together, so what a step does to the account, to  *)
(* a proof and to a session is classified first.  In the browser all turns *)
(* on one fact: a refresh token that is not the newest is only in the jar  *)
(* while the mark stands and nobody is about to send it.                   *)
(***************************************************************************)
EXTENDS Accounts, TabSessions, TLAPS

-----------------------------------------------------------------------------
(* What is true of an account's rows beside what the runs check *)

UserRow == [id: 0..MaxUsers, active: BOOLEAN, verified: BOOLEAN, hash: Hashes,
            linked: BOOLEAN, overdue: BOOLEAN]
ProofRow == [state: {"absent", "ready", "used", "gone"}, user: 0..MaxUsers,
             purpose: {"verify", "reset"}, expired: BOOLEAN]
SessionRow == [state: {"absent", "live", "revoked", "gone"}, user: 0..MaxUsers,
               rotation: 0..MaxRotations, expired: BOOLEAN, secret: Secrets \cup {None}]
RequestRow == [at: {"idle", "verify", "reset", "login"}, user: 0..MaxUsers,
               hash: Hashes, proof: Proofs \cup {None}, overdue: BOOLEAN]

\* An account that came from Google has no password and is verified.
AccountIsWhole ==
    /\ user.id = 0 => user = NoUser
    /\ user.linked => user.verified /\ user.hash = NoHash

\* A request knows the proof, or the password, it goes on with.
RequestsKnow ==
    \A c \in Clients : /\ client[c].at \in {"verify", "reset"} => client[c].proof \in Proofs
                       /\ client[c].at = "login" => client[c].hash # NoHash

\* Only a verified account has sessions that work.
SessionsHaveAUser ==
    \A s \in Sessions : sessions[s].state = "live" => user.id # 0 /\ user.verified

\* What was presented to a session that still works is older than its newest token.
TokensMoveOn ==
    \A s \in Sessions, r \in 0..MaxRotations : <<s, r>> \in seen.presented =>
        /\ sessions[s].state # "absent"
        /\ sessions[s].state = "live" => r < sessions[s].rotation

ReusedHaveEnded == \A s \in seen.reused : sessions[s].state \in {"revoked", "gone"}

\* A proof that may still be used was never used.
UnusedProofs == \A p \in Proofs : proofs[p].state \in {"absent", "ready"} => uses[p] = 0

AccountInv ==
    /\ TypeOK
    /\ AccountIsWhole /\ RequestsKnow
    /\ NewestProofWorksOnce /\ UnusedProofs
    /\ SessionsKnowThePassword /\ SessionsHaveAUser
    /\ TokensMoveOn /\ ReusedHaveEnded

-----------------------------------------------------------------------------
(* What the tables become *)

LEMMA Rows ==
    TypeOK <=> /\ user \in UserRow /\ (user.verified => ~user.overdue)
               /\ proofs \in [Proofs -> ProofRow]
               /\ sessions \in [Sessions -> SessionRow]
               /\ client \in [Clients -> RequestRow]
               /\ counted \in [users: 0..MaxUsers, hashes: 0..MaxHashes]
               /\ uses \in [Proofs -> Nat]
               /\ seen \in [presented: SUBSET (Sessions \X (0..MaxRotations)),
                            reused: SUBSET Sessions]
BY DEF TypeOK, UserRow, ProofRow, SessionRow, RequestRow

LEMMA Bounds ==
    /\ MaxUsers \in Nat /\ MaxHashes \in Nat /\ MaxRotations \in Nat
    /\ 0 \in 0..MaxUsers /\ 0 \in 0..MaxHashes /\ 0 \in 0..MaxRotations
    /\ None \notin Proofs /\ None \notin Secrets
<1>1. MaxUsers \in Nat /\ MaxHashes \in Nat /\ MaxRotations \in Nat
  BY AccountAssumption
<1> QED BY <1>1, AccountAssumption

LEMMA EmptyRows ==
    /\ NoHash \in Hashes /\ NoUser \in UserRow
    /\ NoProof \in ProofRow /\ NoSession \in SessionRow /\ Idle \in RequestRow
BY Bounds
   DEF Hashes, NoHash, NoUser, NoProof, NoSession, Idle, UserRow, ProofRow, SessionRow, RequestRow

LEMMA NewHash ==
    ASSUME TypeOK, MayHash, NEW secret \in Secrets \cup {None}
    PROVE  /\ HashOf(secret) \in Hashes
           /\ HashOf(secret).secret = secret
           /\ HashOf(secret) # NoHash
BY Bounds DEF TypeOK, MayHash, HashOf, Hashes, NoHash

\* Deleting an account leaves none of its proofs, and the others as they were.
LEMMA ProofsLeft ==
    ASSUME TypeOK, NEW id, NEW p \in Proofs
    PROVE  /\ ProofsWithout(id)[p] \in ProofRow
           /\ \/ ProofsWithout(id)[p] = proofs[p]
              \/ ProofsWithout(id)[p].state = "gone" /\ proofs[p].state # "absent"
<1>1. proofs[p] \in ProofRow
  BY Rows
<1>2. [NoProof EXCEPT !.state = "gone"] \in ProofRow /\ [NoProof EXCEPT !.state = "gone"].state = "gone"
  BY Bounds DEF NoProof, ProofRow
<1> QED BY <1>1, <1>2 DEF ProofsWithout

\* A new proof replaces the earlier ones of its purpose, and no others.
LEMMA ProofsReplaced ==
    ASSUME NEW table \in [Proofs -> ProofRow], NEW id \in 0..MaxUsers,
           NEW purpose \in {"verify", "reset"}, NEW p \in Proofs, NEW q \in Proofs
    PROVE  LET row == WithNewProof(table, id, purpose, p)[q]
           IN  /\ row \in ProofRow
               /\ q = p => row.state = "ready" /\ row.user = id /\ row.purpose = purpose
               /\ q # p => \/ row = table[q] /\ ~(row.state = "ready" /\ row.user = id
                                                    /\ row.purpose = purpose)
                           \/ row.state = "used" /\ table[q].state = "ready"
<1> DEFINE new == [NoProof EXCEPT !.state = "ready", !.user = id, !.purpose = purpose]
           old == [table[q] EXCEPT !.state = "used"]
<1>1. new \in ProofRow /\ new.state = "ready" /\ new.user = id /\ new.purpose = purpose
  BY Bounds DEF NoProof, ProofRow
<1>2. old \in ProofRow /\ old.state = "used"
  BY DEF ProofRow
<1>3. WithNewProof(table, id, purpose, p)[q] =
        IF q = p THEN new
        ELSE IF table[q].state = "ready" /\ table[q].user = id /\ table[q].purpose = purpose
        THEN old ELSE table[q]
  BY DEF WithNewProof
<1> HIDE DEF new, old
<1> QED BY <1>1, <1>2, <1>3

\* Revoking an account's sessions ends those that work and touches no other.
LEMMA SessionsLeft ==
    ASSUME TypeOK, NEW id, NEW s \in Sessions
    PROVE  /\ SessionsRevoked(id)[s] \in SessionRow
           /\ \/ SessionsRevoked(id)[s] = sessions[s]
                   /\ ~(sessions[s].state = "live" /\ sessions[s].user = id)
              \/ /\ sessions[s].state = "live" /\ SessionsRevoked(id)[s].state = "revoked"
                 /\ SessionsRevoked(id)[s].rotation = sessions[s].rotation
<1>1. sessions[s] \in SessionRow
  BY Rows
<1>2. /\ [sessions[s] EXCEPT !.state = "revoked"] \in SessionRow
      /\ [sessions[s] EXCEPT !.state = "revoked"].state = "revoked"
      /\ [sessions[s] EXCEPT !.state = "revoked"].rotation = sessions[s].rotation
  BY <1>1 DEF SessionRow
<1> QED BY <1>1, <1>2 DEF SessionsRevoked

\* A new session.
Opened(s, id, secret) ==
    [NoSession EXCEPT !.state = "live", !.user = id, !.secret = secret]

LEMMA NewSession ==
    ASSUME NEW id \in 0..MaxUsers, NEW secret \in Secrets \cup {None}, NEW s
    PROVE  /\ Opened(s, id, secret) \in SessionRow
           /\ Opened(s, id, secret).state = "live"
           /\ Opened(s, id, secret).user = id
           /\ Opened(s, id, secret).secret = secret
           /\ Opened(s, id, secret).rotation = 0
BY Bounds DEF Opened, NoSession, SessionRow

-----------------------------------------------------------------------------
(* What a step does to the account *)

\* The account stays, with the password it has.
SameAccount ==
    /\ user'.id = user.id /\ user'.linked = user.linked /\ user'.hash = user.hash
    /\ user.verified => user'.verified
    /\ user.id = 0 => user' = user

UserTyped == user' \in UserRow /\ (user'.verified => ~user'.overdue)

LEMMA RegisterSteps ==
    ASSUME AccountInv, Register
    PROVE  /\ UserTyped
           /\ user.id = 0 \/ ~user.verified
           /\ user'.id # 0 /\ ~user'.linked
           /\ counted' \in [users: 0..MaxUsers, hashes: 0..MaxHashes]
           /\ proofs' \in [Proofs -> ProofRow]
           /\ \E p \in Proofs, id \in 0..MaxUsers :
                /\ proofs[p].state = "absent"
                /\ proofs' = WithNewProof(ProofsWithout(user.id), id, "verify", p)
<1>1. PICK secret \in Secrets, p \in Proofs :
         /\ proofs[p].state = "absent"
         /\ user' = [NoUser EXCEPT !.id = counted.users + 1, !.hash = HashOf(secret)]
         /\ proofs' = WithNewProof(ProofsWithout(user.id), counted.users + 1, "verify", p)
  BY DEF Register
<1>2. TypeOK /\ MayHash /\ counted.users < MaxUsers
  BY DEF AccountInv, Register
<1>3. counted \in [users: 0..MaxUsers, hashes: 0..MaxHashes] /\ user \in UserRow
  BY <1>2, Rows
<1>4. counted.users + 1 \in 0..MaxUsers /\ counted.users + 1 # 0
  BY <1>2, <1>3, Bounds
<1>5. HashOf(secret) \in Hashes
  BY <1>2, NewHash
<1>6. /\ UserTyped /\ user'.id # 0 /\ ~user'.linked
  BY <1>1, <1>4, <1>5, Bounds DEF UserTyped, NoUser, UserRow
<1>7. counted' \in [users: 0..MaxUsers, hashes: 0..MaxHashes]
  BY <1>2, <1>3, Bounds DEF Register, MayHash
<1>8. ProofsWithout(user.id) \in [Proofs -> ProofRow]
  BY <1>2, ProofsLeft DEF ProofsWithout
<1>9. proofs' \in [Proofs -> ProofRow]
  <2>1. \A q \in Proofs : proofs'[q] \in ProofRow
    BY <1>1, <1>4, <1>8, ProofsReplaced
  <2> QED BY <1>1, <2>1 DEF WithNewProof
<1>10. user.id = 0 \/ ~user.verified
  BY DEF Register, Replaceable
<1> QED BY <1>1, <1>4, <1>6, <1>7, <1>9, <1>10

LEMMA UserSteps ==
    ASSUME AccountInv, Next
    PROVE  /\ UserTyped
           /\ \/ SameAccount
              \/ /\ user.id = 0 \/ ~user.verified
                 /\ AccountIsWhole'
              \/ \E c \in Clients : OpenSession(c) \/ ResetPassword(c)
<1>1. TypeOK /\ AccountIsWhole /\ user \in UserRow /\ (user.verified => ~user.overdue)
  BY Rows DEF AccountInv
<1>2. CASE UNCHANGED user
  BY <1>1, <1>2 DEF UserTyped, SameAccount
<1>8. CASE Register
  BY <1>8, RegisterSteps DEF AccountIsWhole
<1>3. CASE LoginWithGoogle /\ user' # user
  <2>1. /\ user.id = 0 /\ counted.users < MaxUsers
        /\ user' = [NoUser EXCEPT !.id = counted.users + 1, !.verified = TRUE, !.linked = TRUE]
    BY <1>3 DEF LoginWithGoogle
  <2>2. counted.users + 1 \in 0..MaxUsers /\ counted.users + 1 # 0
    BY <1>1, <2>1, Rows, Bounds
  <2> QED BY <2>1, <2>2, EmptyRows DEF UserTyped, AccountIsWhole, NoUser, UserRow
<1>4. CASE \E c \in Clients : VerifyEmail(c)
  BY <1>1, <1>4 DEF VerifyEmail, Consumable, Locked, Verified, UserTyped, SameAccount, UserRow
<1>5. CASE ChangeStatus \/ RegistrationExpires
  BY <1>1, <1>5 DEF ChangeStatus, RegistrationExpires, UserTyped, SameAccount, UserRow
<1>6. CASE CleanUp /\ user' # user
  BY <1>1, <1>6, EmptyRows DEF CleanUp, Replaceable, UserTyped, AccountIsWhole, NoUser
<1>7. CASE \E c \in Clients : OpenSession(c) \/ ResetPassword(c)
  <2>1. PICK c \in Clients : OpenSession(c) \/ ResetPassword(c)
    BY <1>7
  <2>2. client[c] \in RequestRow
    BY <1>1, Rows
  <2>3. CASE user' = user
    BY <1>1, <1>7, <2>3 DEF UserTyped
  <2>4. CASE user' # user
    <3>1. PICK secret \in Secrets \cup {None} :
            MayHash /\ user' = [user EXCEPT !.hash = HashOf(secret)]
      <4>1. client[c].hash.secret \in Secrets \cup {None}
        BY <2>2 DEF RequestRow, Hashes
      <4>2. CASE OpenSession(c)
        <5>1. PICK rehash \in BOOLEAN :
                IF rehash THEN MayHash /\ user' = [user EXCEPT !.hash = HashOf(client[c].hash.secret)]
                ELSE user' = user
          BY <4>2 DEF OpenSession
        <5> QED BY <2>4, <4>1, <5>1
      <4>3. CASE ResetPassword(c)
        BY <4>3 DEF ResetPassword
      <4> QED BY <2>1, <4>2, <4>3
    <3>2. HashOf(secret) \in Hashes
      BY <1>1, <3>1, NewHash
    <3> QED BY <1>1, <1>7, <3>1, <3>2 DEF UserTyped, UserRow
  <2> QED BY <2>3, <2>4
<1> QED
  BY <1>2, <1>3, <1>4, <1>5, <1>6, <1>7, <1>8
     DEF Next, RequestMail, ReadProof, VerifyPassword, Abandon, Refresh, Logout, LogoutAll,
         SessionExpires, ProofExpires

-----------------------------------------------------------------------------
(* What a step does to a proof *)

\* A proof that is taken back or expires.
ProofKept(p) ==
    /\ uses'[p] = uses[p]
    /\ proofs'[p].state = "ready" => /\ proofs[p].state = "ready"
                                     /\ proofs'[p].user = proofs[p].user
                                     /\ proofs'[p].purpose = proofs[p].purpose
    /\ proofs'[p].state = "absent" => proofs[p].state = "absent"

\* Its one use.
ProofUsed(p) ==
    /\ proofs[p].state = "ready" /\ proofs'[p].state = "used"
    /\ uses'[p] = uses[p] + 1

\* A new proof; the others of the account and purpose are not ready any more.
ProofMade(p) ==
    /\ proofs[p].state = "absent" /\ proofs'[p].state = "ready" /\ uses' = uses
    /\ \A q \in Proofs \ {p} :
         /\ ProofKept(q)
         /\ proofs'[q].state = "ready" => \/ proofs'[q].user # proofs'[p].user
                                         \/ proofs'[q].purpose # proofs'[p].purpose

ProofsTyped == proofs' \in [Proofs -> ProofRow] /\ uses' \in [Proofs -> Nat]

LEMMA ProofSteps ==
    ASSUME AccountInv, Next
    PROVE  /\ ProofsTyped
           /\ \/ \E p \in Proofs : ProofMade(p)
              \/ \A p \in Proofs : ProofKept(p) \/ ProofUsed(p)
<1>1. TypeOK /\ proofs \in [Proofs -> ProofRow] /\ uses \in [Proofs -> Nat]
  BY Rows DEF AccountInv
<1>2. CASE UNCHANGED <<proofs, uses>>
  BY <1>1, <1>2 DEF ProofsTyped, ProofKept
<1>3. CASE Register \/ RequestMail
  <2>1. PICK table \in [Proofs -> ProofRow], id \in 0..MaxUsers,
             purpose \in {"verify", "reset"}, p \in Proofs :
          /\ proofs[p].state = "absent"
          /\ \A q \in Proofs : table[q] = proofs[q] \/ (table[q].state = "gone" /\ proofs[q].state # "absent")
          /\ proofs' = WithNewProof(table, id, purpose, p)
    <3>1. CASE Register
      <4>1. ProofsWithout(user.id) \in [Proofs -> ProofRow]
        BY <1>1, ProofsLeft DEF ProofsWithout
      <4> QED BY <1>1, <3>1, <4>1, RegisterSteps, ProofsLeft
    <3>2. CASE RequestMail
      BY <1>1, <3>2, Rows DEF RequestMail, UserRow
    <3> QED BY <1>3, <3>1, <3>2
  <2>2. uses' = uses
    BY <1>3 DEF Register, RequestMail
  <2>3. ASSUME NEW q \in Proofs
        PROVE  LET row == proofs'[q]
               IN  /\ row \in ProofRow
                   /\ q = p => row.state = "ready" /\ row.user = id /\ row.purpose = purpose
                   /\ q # p => \/ row = table[q] /\ ~(row.state = "ready" /\ row.user = id
                                                        /\ row.purpose = purpose)
                               \/ row.state = "used" /\ table[q].state = "ready"
    BY <2>1, ProofsReplaced
  <2>4. proofs' \in [Proofs -> ProofRow]
    BY <2>1, <2>3 DEF WithNewProof
  <2>5. ProofMade(p)
    BY <2>1, <2>2, <2>3 DEF ProofMade, ProofKept
  <2> QED BY <1>1, <2>2, <2>4, <2>5 DEF ProofsTyped
<1>4. CASE \E c \in Clients : VerifyEmail(c) \/ ResetPassword(c)
  <2>1. PICK c \in Clients : VerifyEmail(c) \/ ResetPassword(c)
    BY <1>4
  <2>2. /\ client[c].proof \in Proofs /\ proofs[client[c].proof].state = "ready"
        /\ uses' = [uses EXCEPT ![client[c].proof] = @ + 1]
    BY <2>1 DEF VerifyEmail, ResetPassword, Consumable, MayConsume, AccountInv, RequestsKnow
  <2>3. ASSUME NEW p \in Proofs
        PROVE  /\ proofs'[p] \in ProofRow
               /\ \/ p # client[c].proof /\ proofs'[p] = proofs[p]
                  \/ proofs[p].state = "ready" /\ proofs'[p].state = "used"
    <3>1. /\ [proofs[p] EXCEPT !.state = "used"] \in ProofRow
          /\ [proofs[p] EXCEPT !.state = "used"].state = "used"
      BY <1>1 DEF ProofRow
    <3> QED BY <1>1, <2>1, <2>2, <3>1 DEF VerifyEmail, ResetPassword
  <2>4. proofs' \in [Proofs -> ProofRow]
    BY <1>1, <2>1, <2>3 DEF VerifyEmail, ResetPassword
  <2>5. uses' \in [Proofs -> Nat]
    BY <1>1, <2>2
  <2>6. ASSUME NEW p \in Proofs
        PROVE  ProofKept(p) \/ ProofUsed(p)
    <3>1. CASE p = client[c].proof
      BY <1>1, <2>2, <2>3, <3>1 DEF ProofUsed
    <3>2. CASE p # client[c].proof
      <4>1. uses'[p] = uses[p]
        BY <1>1, <2>2, <3>2
      <4> QED BY <2>3, <3>2, <4>1 DEF ProofKept
    <3> QED BY <3>1, <3>2
  <2> QED BY <2>4, <2>5, <2>6 DEF ProofsTyped
<1>5. CASE \E p \in Proofs : ProofExpires(p)
  <2>1. PICK p \in Proofs : ProofExpires(p)
    BY <1>5
  <2> QED BY <1>1, <2>1 DEF ProofExpires, ProofsTyped, ProofKept, ProofRow
<1>6. CASE CleanUp
  <2> DEFINE left == IF Replaceable THEN ProofsWithout(user.id) ELSE proofs
             gone == [NoProof EXCEPT !.state = "gone"]
  <2>1. gone \in ProofRow /\ gone.state = "gone"
    BY Bounds DEF NoProof, ProofRow
  <2>2. /\ proofs' = [p \in Proofs |-> IF left[p].expired THEN gone ELSE left[p]]
        /\ uses' = uses
    BY <1>6 DEF CleanUp
  <2> HIDE DEF gone
  <2>3. \A p \in Proofs : left[p] \in ProofRow /\ (left[p] = proofs[p] \/ left[p].state = "gone")
    BY <1>1, ProofsLeft
  <2> HIDE DEF left
  <2> QED BY <1>1, <2>1, <2>2, <2>3 DEF ProofsTyped, ProofKept
<1> QED
  BY <1>2, <1>3, <1>4, <1>5, <1>6
     DEF Next, ReadProof, VerifyPassword, OpenSession, LoginWithGoogle, Abandon, Refresh, Logout,
         LogoutAll, SessionExpires, ChangeStatus, RegistrationExpires

LEMMA ProofsStaySound ==
    ASSUME AccountInv, Next
    PROVE  NewestProofWorksOnce' /\ UnusedProofs'
<1>1. NewestProofWorksOnce /\ UnusedProofs /\ uses \in [Proofs -> Nat]
  BY DEF AccountInv, TypeOK
<1>2. CASE \A p \in Proofs : ProofKept(p) \/ ProofUsed(p)
  BY <1>1, <1>2 DEF NewestProofWorksOnce, UnusedProofs, ProofKept, ProofUsed
<1>3. ASSUME NEW p \in Proofs, ProofMade(p)
      PROVE  NewestProofWorksOnce' /\ UnusedProofs'
  BY <1>1, <1>3 DEF NewestProofWorksOnce, UnusedProofs, ProofKept, ProofMade
<1> QED BY <1>2, <1>3, ProofSteps

-----------------------------------------------------------------------------
(* What a step does to a session *)

\* A session that is left alone, expires, ends or is deleted.
SessionKept(s) ==
    /\ sessions'[s].state = "live" => /\ sessions[s].state = "live"
                                      /\ sessions'[s].user = sessions[s].user
                                      /\ sessions'[s].secret = sessions[s].secret
                                      /\ sessions'[s].rotation = sessions[s].rotation
    /\ sessions'[s].state = "absent" => sessions[s].state = "absent"
    /\ sessions[s].state \in {"revoked", "gone"} =>
         /\ sessions'[s].state \in {sessions[s].state, "gone"}
         /\ sessions'[s].rotation \in {sessions[s].rotation, 0}

\* A new session of the account as the step leaves it.
SessionOpened(s) ==
    /\ sessions[s].state = "absent" /\ sessions'[s].state = "live"
    /\ sessions'[s].user = user'.id /\ sessions'[s].secret = user'.hash.secret
    /\ user'.id # 0 /\ user'.verified

\* A refresh with the newest token.
SessionRefreshed(s) ==
    /\ sessions[s].state = "live" /\ sessions'[s].state = "live"
    /\ sessions'[s].user = sessions[s].user /\ sessions'[s].secret = sessions[s].secret
    /\ sessions'[s].rotation = sessions[s].rotation + 1

SessionStep(s) == SessionKept(s) \/ SessionOpened(s) \/ (Refresh(s) /\ SessionRefreshed(s))

LEMMA OpeningSteps ==
    ASSUME AccountInv, LoginWithGoogle \/ \E c \in Clients : OpenSession(c)
    PROVE  /\ sessions' \in [Sessions -> SessionRow]
           /\ seen' = seen
           /\ \A s \in Sessions : SessionKept(s) \/ SessionOpened(s)
           /\ (\E c \in Clients : OpenSession(c)) =>
                /\ user'.id = user.id /\ user'.hash.secret = user.hash.secret
                /\ user'.verified = user.verified /\ user'.linked = user.linked
                /\ user.hash # NoHash /\ user'.hash # NoHash
<1>1. TypeOK /\ sessions \in [Sessions -> SessionRow] /\ user \in UserRow
  BY Rows DEF AccountInv
<1> DEFINE Opens(s, secret) == sessions' = [sessions EXCEPT ![s] = Opened(s, user'.id, secret)]
<1>2. ASSUME NEW s \in Sessions, sessions[s].state = "absent",
             user' \in UserRow, Opens(s, user'.hash.secret), user'.id # 0, user'.verified
      PROVE  /\ sessions' \in [Sessions -> SessionRow]
             /\ \A q \in Sessions : SessionKept(q) \/ SessionOpened(q)
  <2> DEFINE row == Opened(s, user'.id, user'.hash.secret)
  <2>1. user'.id \in 0..MaxUsers /\ user'.hash.secret \in Secrets \cup {None}
    BY <1>2 DEF UserRow, Hashes
  <2>2. /\ row \in SessionRow /\ row.state = "live" /\ row.user = user'.id
        /\ row.secret = user'.hash.secret
    BY <2>1, NewSession
  <2>3. sessions' = [sessions EXCEPT ![s] = row]
    BY <1>2
  <2> HIDE DEF row
  <2> QED BY <1>1, <1>2, <2>2, <2>3 DEF SessionKept, SessionOpened
<1>3. CASE LoginWithGoogle
  <2>1. user' \in UserRow /\ user'.hash = NoHash /\ user'.id # 0 /\ user'.verified
    <3>1. UserTyped
      BY <1>3, UserSteps DEF Next
    <3>2. user'.linked /\ user'.verified /\ user'.hash = NoHash /\ user'.id # 0
      <4>1. CASE user.linked /\ user' = user
        BY <4>1 DEF AccountInv, AccountIsWhole, NoUser
      <4>2. CASE /\ counted.users < MaxUsers
                 /\ user' = [NoUser EXCEPT !.id = counted.users + 1, !.verified = TRUE,
                                           !.linked = TRUE]
        <5>1. counted.users + 1 # 0
          BY <1>1, Rows, Bounds
        <5> QED BY <4>2, <5>1 DEF NoUser
      <4> QED BY <1>3, <4>1, <4>2 DEF LoginWithGoogle
    <3> QED BY <3>1, <3>2 DEF UserTyped
  <2>2. PICK s \in Sessions : sessions[s].state = "absent" /\ sessions' = Issued(s, NoHash)
    BY <1>3 DEF LoginWithGoogle
  <2>3. Opens(s, user'.hash.secret)
    BY <2>1, <2>2 DEF Issued, Opened
  <2>4. seen' = seen
    BY <1>3 DEF LoginWithGoogle
  <2>5. ~\E c \in Clients : OpenSession(c)
    <3>1. client' = client
      BY <1>3 DEF LoginWithGoogle
    <3>2. ASSUME NEW c \in Clients, OpenSession(c) PROVE FALSE
      <4>1. client[c].at = "login" /\ client' = [client EXCEPT ![c] = Idle]
        BY <3>2 DEF OpenSession, Return
      <4>2. client \in [Clients -> RequestRow]
        BY <1>1, Rows
      <4> QED BY <3>1, <4>1, <4>2 DEF Idle
    <3> QED BY <3>2
  <2> HIDE DEF Opens
  <2> QED BY <1>2, <2>1, <2>2, <2>3, <2>4, <2>5
<1>4. ASSUME NEW c \in Clients, OpenSession(c)
      PROVE  /\ user'.id = user.id /\ user'.hash.secret = user.hash.secret
             /\ user'.verified = user.verified /\ user'.linked = user.linked
             /\ user.hash # NoHash /\ user'.hash # NoHash
  <2>1. user.hash = client[c].hash /\ user.hash # NoHash
    BY <1>4 DEF OpenSession, StillSamePassword, AccountInv, RequestsKnow
  <2>2. user.hash.secret \in Secrets \cup {None}
    BY <1>1 DEF UserRow, Hashes
  <2>3. PICK rehash \in BOOLEAN :
          IF rehash THEN MayHash /\ user' = [user EXCEPT !.hash = HashOf(client[c].hash.secret)]
          ELSE user' = user
    BY <1>4 DEF OpenSession
  <2>4. CASE rehash
    <3>1. HashOf(user.hash.secret).secret = user.hash.secret /\ HashOf(user.hash.secret) # NoHash
      BY <1>1, <2>2, <2>3, <2>4, NewHash
    <3> QED BY <1>1, <2>1, <2>3, <2>4, <3>1 DEF UserRow
  <2>5. CASE ~rehash
    BY <2>1, <2>3, <2>5
  <2> QED BY <2>4, <2>5
<1>5. CASE \E c \in Clients : OpenSession(c)
  <2>1. PICK c \in Clients : OpenSession(c)
    BY <1>5
  <2>2. user' \in UserRow
    BY <2>1, UserSteps DEF Next, UserTyped
  <2>3. PICK s \in Sessions : sessions[s].state = "absent" /\ sessions' = Issued(s, client[c].hash)
    BY <2>1 DEF OpenSession
  <2>4. /\ user'.hash.secret = client[c].hash.secret /\ user'.id # 0 /\ user'.verified
    BY <1>4, <2>1 DEF OpenSession, Locked, StillSamePassword
  <2>5. Opens(s, user'.hash.secret)
    BY <2>3, <2>4 DEF Issued, Opened
  <2>6. seen' = seen
    BY <2>1 DEF OpenSession
  <2> HIDE DEF Opens
  <2> QED BY <1>2, <1>4, <2>2, <2>3, <2>4, <2>5, <2>6
<1> QED BY <1>3, <1>5

LEMMA SessionSteps ==
    ASSUME AccountInv, Next
    PROVE  /\ sessions' \in [Sessions -> SessionRow]
           /\ \A s \in Sessions : SessionStep(s)
<1>1. TypeOK /\ sessions \in [Sessions -> SessionRow]
  BY Rows DEF AccountInv
<1>2. CASE UNCHANGED sessions
  BY <1>1, <1>2 DEF SessionStep, SessionKept
<1>3. CASE LoginWithGoogle \/ \E c \in Clients : OpenSession(c)
  BY <1>3, OpeningSteps DEF SessionStep
<1>4. CASE /\ sessions' = SessionsRevoked(user.id)
  <2>1. sessions' \in [Sessions -> SessionRow]
    BY <1>1, <1>4, SessionsLeft DEF SessionsRevoked
  <2> QED BY <1>1, <1>4, <2>1, SessionsLeft DEF SessionStep, SessionKept
<1>5. ASSUME NEW s \in Sessions, Refresh(s)
      PROVE  /\ sessions' \in [Sessions -> SessionRow]
             /\ \A q \in Sessions : SessionStep(q)
  <2>1. PICK r \in 0..sessions[s].rotation :
          IF r = sessions[s].rotation
          THEN r < MaxRotations /\ sessions' = [sessions EXCEPT ![s].rotation = @ + 1]
          ELSE sessions' = [sessions EXCEPT ![s].state = "revoked"]
    BY <1>5 DEF Refresh, AfterReuse
  <2>2. sessions[s].state = "live" /\ sessions[s] \in SessionRow
    BY <1>1, <1>5 DEF Refresh, Valid
  <2>3. CASE r = sessions[s].rotation
    <3> DEFINE row == [sessions[s] EXCEPT !.rotation = @ + 1]
    <3>1. /\ row \in SessionRow /\ row.state = sessions[s].state
          /\ row.user = sessions[s].user /\ row.secret = sessions[s].secret
          /\ row.rotation = sessions[s].rotation + 1
      BY <2>1, <2>2, <2>3, Bounds DEF SessionRow
    <3>2. sessions' = [sessions EXCEPT ![s] = row]
      BY <2>1, <2>3
    <3> HIDE DEF row
    <3> QED BY <1>1, <1>5, <2>2, <3>1, <3>2 DEF SessionStep, SessionKept, SessionRefreshed
  <2>4. CASE r # sessions[s].rotation
    <3> DEFINE row == [sessions[s] EXCEPT !.state = "revoked"]
    <3>1. row \in SessionRow /\ row.state = "revoked"
      BY <2>2 DEF SessionRow
    <3>2. sessions' = [sessions EXCEPT ![s] = row]
      BY <2>1, <2>4
    <3> HIDE DEF row
    <3> QED BY <1>1, <2>2, <3>1, <3>2 DEF SessionStep, SessionKept
  <2> QED BY <2>3, <2>4
<1>6. ASSUME NEW s \in Sessions, Logout(s) \/ SessionExpires(s)
      PROVE  /\ sessions' \in [Sessions -> SessionRow]
             /\ \A q \in Sessions : SessionStep(q)
  <2>1. PICK row \in SessionRow :
          /\ sessions' = [sessions EXCEPT ![s] = row]
          /\ \/ sessions[s].state = "live" /\ row.state = "revoked"
             \/ /\ row.state = sessions[s].state /\ row.user = sessions[s].user
                /\ row.secret = sessions[s].secret /\ row.rotation = sessions[s].rotation
    <3>1. CASE Logout(s)
      <4> DEFINE row == [sessions[s] EXCEPT !.state = "revoked"]
      <4>1. row \in SessionRow /\ row.state = "revoked"
        BY <1>1 DEF SessionRow
      <4>2. sessions' = [sessions EXCEPT ![s] = row] /\ sessions[s].state = "live"
        BY <3>1 DEF Logout
      <4> HIDE DEF row
      <4> QED BY <4>1, <4>2
    <3>2. CASE SessionExpires(s)
      <4> DEFINE row == [sessions[s] EXCEPT !.expired = TRUE]
      <4>1. /\ row \in SessionRow /\ row.state = sessions[s].state /\ row.user = sessions[s].user
            /\ row.secret = sessions[s].secret /\ row.rotation = sessions[s].rotation
        BY <1>1 DEF SessionRow
      <4>2. sessions' = [sessions EXCEPT ![s] = row]
        BY <3>2 DEF SessionExpires
      <4> HIDE DEF row
      <4> QED BY <4>1, <4>2
    <3> QED BY <1>6, <3>1, <3>2
  <2> QED BY <1>1, <2>1 DEF SessionStep, SessionKept
<1>7. CASE CleanUp
  <2> DEFINE gone == [NoSession EXCEPT !.state = "gone"]
  <2>1. gone \in SessionRow /\ gone.state = "gone" /\ gone.rotation = 0
    BY Bounds DEF NoSession, SessionRow
  <2>2. sessions' = [s \in Sessions |-> IF sessions[s].expired THEN gone ELSE sessions[s]]
    BY <1>7 DEF CleanUp
  <2> HIDE DEF gone
  <2> QED BY <1>1, <2>1, <2>2 DEF SessionStep, SessionKept
<1> QED
  BY <1>2, <1>3, <1>4, <1>5, <1>6, <1>7
     DEF Next, Register, RequestMail, ReadProof, VerifyEmail, ResetPassword, VerifyPassword,
         Abandon, LogoutAll, ProofExpires, ChangeStatus, RegistrationExpires

\* Where the account or its password changes, no session worked before or none does now.
LEMMA SessionsStaySound ==
    ASSUME AccountInv, Next
    PROVE  SessionsKnowThePassword' /\ SessionsHaveAUser' /\ AccountIsWhole'
<1>1. /\ SessionsKnowThePassword /\ SessionsHaveAUser /\ AccountIsWhole
      /\ TypeOK
  BY DEF AccountInv
<1>2. CASE SameAccount
  <2>1. AccountIsWhole'
    BY <1>1, <1>2 DEF SameAccount, AccountIsWhole, NoUser
  <2>2. SessionsKnowThePassword'
    BY <1>1, <1>2, SessionSteps
       DEF SameAccount, SessionStep, SessionKept, SessionOpened, SessionRefreshed,
           SessionsKnowThePassword
  <2>3. SessionsHaveAUser'
    BY <1>1, <1>2, SessionSteps
       DEF SameAccount, SessionStep, SessionKept, SessionOpened, SessionRefreshed,
           SessionsHaveAUser
  <2> QED BY <2>1, <2>2, <2>3
<1>3. CASE (user.id = 0 \/ ~user.verified) /\ AccountIsWhole'
  BY <1>1, <1>3, SessionSteps
     DEF SessionStep, SessionKept, SessionOpened, SessionRefreshed,
         SessionsKnowThePassword, SessionsHaveAUser
<1>4. CASE \E c \in Clients : OpenSession(c)
  <2>1. /\ user'.id = user.id /\ user'.hash.secret = user.hash.secret
        /\ user'.verified = user.verified /\ user'.linked = user.linked
        /\ user.hash # NoHash
    BY <1>4, OpeningSteps
  <2>2. SessionsKnowThePassword' /\ SessionsHaveAUser'
    BY <1>1, <2>1, SessionSteps
       DEF SessionStep, SessionKept, SessionOpened, SessionRefreshed,
           SessionsKnowThePassword, SessionsHaveAUser
  <2>3. user.id # 0
    BY <1>4 DEF OpenSession, Locked
  <2> QED BY <1>1, <2>1, <2>2, <2>3 DEF AccountIsWhole
<1>5. CASE \E c \in Clients : ResetPassword(c)
  <2>1. PICK c \in Clients, secret \in Secrets :
          /\ user' = [user EXCEPT !.hash = HashOf(secret)]
          /\ user.hash # NoHash /\ user.id # 0
          /\ sessions' = SessionsRevoked(user.id)
    BY <1>5 DEF ResetPassword, Consumable, Locked
  <2>2. \A s \in Sessions : sessions'[s].state # "live"
    BY <1>1, <2>1, SessionsLeft DEF SessionsKnowThePassword
  <2>3. user \in UserRow
    BY <1>1, Rows
  <2>4. AccountIsWhole'
    BY <1>1, <2>1, <2>3 DEF AccountIsWhole, UserRow
  <2> QED BY <2>2, <2>4 DEF SessionsKnowThePassword, SessionsHaveAUser
<1> QED BY <1>2, <1>3, <1>4, <1>5, UserSteps

LEMMA ReuseStaysSound ==
    ASSUME AccountInv, Next
    PROVE  /\ TokensMoveOn' /\ ReusedHaveEnded'
           /\ seen' \in [presented: SUBSET (Sessions \X (0..MaxRotations)), reused: SUBSET Sessions]
<1>1. /\ TokensMoveOn /\ ReusedHaveEnded /\ TypeOK
      /\ sessions \in [Sessions -> SessionRow]
      /\ seen \in [presented: SUBSET (Sessions \X (0..MaxRotations)), reused: SUBSET Sessions]
  BY Rows DEF AccountInv
<1>2. ASSUME seen' = seen, \A s \in Sessions : SessionKept(s) \/ SessionOpened(s)
      PROVE  TokensMoveOn' /\ ReusedHaveEnded'
  BY <1>1, <1>2 DEF TokensMoveOn, ReusedHaveEnded, SessionKept, SessionOpened
<1>3. ASSUME NEW s \in Sessions, Refresh(s)
      PROVE  /\ TokensMoveOn' /\ ReusedHaveEnded'
             /\ seen' \in [presented: SUBSET (Sessions \X (0..MaxRotations)), reused: SUBSET Sessions]
  <2>1. PICK r \in 0..sessions[s].rotation :
          /\ IF r = sessions[s].rotation
             THEN r < MaxRotations /\ sessions' = [sessions EXCEPT ![s].rotation = @ + 1]
             ELSE sessions' = [sessions EXCEPT ![s].state = "revoked"]
          /\ seen' = [presented |-> seen.presented \cup {<<s, r>>},
                      reused |-> IF <<s, r>> \in seen.presented
                                 THEN seen.reused \cup {s} ELSE seen.reused]
    BY <1>3 DEF Refresh, AfterReuse
  <2>2. /\ sessions[s].state = "live" /\ sessions[s] \in SessionRow /\ s \notin seen.reused
        /\ sessions[s].rotation \in 0..MaxRotations /\ r \in 0..MaxRotations
    BY <1>1, <1>3, Bounds DEF Refresh, Valid, ReusedHaveEnded, SessionRow
  <2>3. seen' \in [presented: SUBSET (Sessions \X (0..MaxRotations)), reused: SUBSET Sessions]
    BY <1>1, <2>1, <2>2
  <2>4. CASE r = sessions[s].rotation
    <3>1. <<s, r>> \notin seen.presented
      BY <1>1, <2>2, <2>4 DEF TokensMoveOn
    <3>2. /\ \A q \in Sessions : sessions'[q].state = sessions[q].state
          /\ \A q \in Sessions : q # s => sessions'[q].rotation = sessions[q].rotation
          /\ sessions'[s].rotation = sessions[s].rotation + 1
      BY <1>1, <2>1, <2>4 DEF SessionRow
    <3>3. seen'.reused = seen.reused /\ seen'.presented = seen.presented \cup {<<s, r>>}
      BY <2>1, <3>1
    <3>4. ReusedHaveEnded'
      BY <1>1, <3>2, <3>3 DEF ReusedHaveEnded
    <3>5. TokensMoveOn'
      BY <1>1, <2>2, <2>4, <3>2, <3>3 DEF TokensMoveOn
    <3> QED BY <2>3, <3>4, <3>5
  <2>5. CASE r # sessions[s].rotation
    <3>1. /\ \A q \in Sessions : q # s => sessions'[q] = sessions[q]
          /\ sessions'[s].state = "revoked"
      BY <1>1, <2>1, <2>5 DEF SessionRow
    <3> QED BY <1>1, <2>1, <2>3, <3>1 DEF TokensMoveOn, ReusedHaveEnded
  <2> QED BY <2>4, <2>5
<1>4. CASE \A s \in Sessions : ~Refresh(s)
  <2>1. seen' = seen
    BY <1>4 DEF Next, Register, RequestMail, LoginWithGoogle, ReadProof, VerifyEmail, ResetPassword,
                VerifyPassword, OpenSession, Abandon, Logout, LogoutAll, SessionExpires,
                ProofExpires, ChangeStatus, RegistrationExpires, CleanUp
  <2> QED BY <1>1, <1>2, <1>4, <2>1, SessionSteps DEF SessionStep
<1> QED BY <1>3, <1>4

LEMMA RequestSteps ==
    ASSUME AccountInv, Next
    PROVE  client' \in [Clients -> RequestRow] /\ RequestsKnow'
<1>1. /\ TypeOK /\ client \in [Clients -> RequestRow] /\ RequestsKnow
      /\ user \in UserRow /\ proofs \in [Proofs -> ProofRow] /\ Idle \in RequestRow
  BY Rows, EmptyRows DEF AccountInv
<1>2. CASE UNCHANGED client
  BY <1>1, <1>2 DEF RequestsKnow
<1>3. ASSUME NEW c \in Clients, Return(c)
      PROVE  client' \in [Clients -> RequestRow] /\ RequestsKnow'
  BY <1>1, <1>3 DEF Return, RequestsKnow, Idle
<1>4. ASSUME NEW c \in Clients, ReadProof(c)
      PROVE  client' \in [Clients -> RequestRow] /\ RequestsKnow'
  <2>1. PICK p \in Proofs : client' = [client EXCEPT ![c] =
              [Idle EXCEPT !.at = proofs[p].purpose, !.user = proofs[p].user,
                           !.proof = p, !.overdue = user.overdue]]
    BY <1>4 DEF ReadProof
  <2> DEFINE row == [Idle EXCEPT !.at = proofs[p].purpose, !.user = proofs[p].user,
                                 !.proof = p, !.overdue = user.overdue]
  <2>2. row \in RequestRow /\ row.at # "login" /\ row.proof = p
    BY <1>1, EmptyRows DEF Idle, RequestRow, ProofRow, UserRow
  <2>3. client' = [client EXCEPT ![c] = row]
    BY <2>1
  <2> HIDE DEF row
  <2> QED BY <1>1, <2>2, <2>3 DEF RequestsKnow
<1>5. ASSUME NEW c \in Clients, VerifyPassword(c)
      PROVE  client' \in [Clients -> RequestRow] /\ RequestsKnow'
  <2> DEFINE row == [Idle EXCEPT !.at = "login", !.user = user.id, !.hash = user.hash]
  <2>1. row \in RequestRow /\ row.at = "login" /\ row.hash = user.hash
    BY <1>1, EmptyRows DEF Idle, RequestRow, UserRow
  <2>2. client' = [client EXCEPT ![c] = row] /\ user.hash # NoHash
    BY <1>5 DEF VerifyPassword
  <2> HIDE DEF row
  <2> QED BY <1>1, <2>1, <2>2 DEF RequestsKnow
<1> QED
  BY <1>2, <1>3, <1>4, <1>5
     DEF Next, Register, RequestMail, LoginWithGoogle, VerifyEmail, ResetPassword, OpenSession,
         Abandon, Refresh, Logout, LogoutAll, SessionExpires, ProofExpires, ChangeStatus,
         RegistrationExpires, CleanUp

LEMMA CountSteps ==
    ASSUME AccountInv, Next
    PROVE  counted' \in [users: 0..MaxUsers, hashes: 0..MaxHashes]
<1>1. counted \in [users: 0..MaxUsers, hashes: 0..MaxHashes]
  BY DEF AccountInv, TypeOK
<1>2. CASE counted' = counted
  BY <1>1, <1>2
<1>3. CASE Register
  BY <1>3, RegisterSteps
<1>4. CASE LoginWithGoogle
  BY <1>1, <1>4, Bounds DEF LoginWithGoogle
<1>5. CASE \E c \in Clients : ResetPassword(c)
  BY <1>1, <1>5, Bounds DEF ResetPassword, MayHash
<1>6. CASE \E c \in Clients : OpenSession(c)
  BY <1>1, <1>6, Bounds DEF OpenSession, MayHash
<1> QED
  BY <1>2, <1>3, <1>4, <1>5, <1>6
     DEF Next, RequestMail, ReadProof, VerifyEmail, VerifyPassword, Abandon, Refresh, Logout,
         LogoutAll, SessionExpires, ProofExpires, ChangeStatus, RegistrationExpires, CleanUp

-----------------------------------------------------------------------------
(* Accounts, proofs and sessions *)

LEMMA AccountInit == Init => AccountInv
<1> SUFFICES ASSUME Init PROVE AccountInv
  OBVIOUS
<1>1. TypeOK
  <2>1. /\ user = NoUser /\ proofs = [p \in Proofs |-> NoProof]
        /\ sessions = [s \in Sessions |-> NoSession] /\ client = [c \in Clients |-> Idle]
        /\ counted = [users |-> 0, hashes |-> 0] /\ uses = [p \in Proofs |-> 0]
        /\ seen = [presented |-> {}, reused |-> {}]
    BY DEF Init
  <2>2. ~NoUser.verified
    BY DEF NoUser
  <2> QED BY <2>1, <2>2, EmptyRows, Bounds, Rows
<1>2. AccountIsWhole /\ RequestsKnow
  BY DEF Init, AccountIsWhole, RequestsKnow, NoUser, Idle
<1>3. NewestProofWorksOnce /\ UnusedProofs
  BY DEF Init, NewestProofWorksOnce, UnusedProofs, NoProof
<1>4. /\ SessionsKnowThePassword /\ SessionsHaveAUser
      /\ TokensMoveOn /\ ReusedHaveEnded
  BY DEF Init, SessionsKnowThePassword, SessionsHaveAUser, TokensMoveOn, ReusedHaveEnded, NoSession
<1> QED BY <1>1, <1>2, <1>3, <1>4 DEF AccountInv

LEMMA AccountStep == AccountInv /\ [Next]_vars => AccountInv'
<1> SUFFICES ASSUME AccountInv, [Next]_vars PROVE AccountInv'
  OBVIOUS
<1>1. CASE Next
  <2>1. TypeOK'
    <3>1. UserTyped /\ ProofsTyped
      BY <1>1, UserSteps, ProofSteps
    <3> QED BY <1>1, <3>1, SessionSteps, ReuseStaysSound, RequestSteps, CountSteps
            DEF UserTyped, ProofsTyped, TypeOK, UserRow, ProofRow, SessionRow, RequestRow
  <2> QED BY <1>1, <2>1, ProofsStaySound, SessionsStaySound, ReuseStaysSound, RequestSteps
          DEF AccountInv
<1>2. CASE UNCHANGED vars
  <2>1. TypeOK'
    BY <1>2 DEF AccountInv, TypeOK, vars
  <2>2. NewestProofWorksOnce' /\ UnusedProofs'
    BY <1>2 DEF AccountInv, vars, NewestProofWorksOnce, UnusedProofs
  <2>3. AccountIsWhole' /\ RequestsKnow' /\ SessionsKnowThePassword' /\ SessionsHaveAUser'
    BY <1>2 DEF AccountInv, vars, AccountIsWhole, RequestsKnow, SessionsKnowThePassword,
                SessionsHaveAUser
  <2>4. TokensMoveOn' /\ ReusedHaveEnded'
    BY <1>2 DEF AccountInv, vars, TokensMoveOn, ReusedHaveEnded
  <2> QED BY <2>1, <2>2, <2>3, <2>4 DEF AccountInv
<1> QED BY <1>1, <1>2

\* Whoever opened it, a session that still works was opened with the password of now,
\* and ends when one of its refresh tokens is presented twice.
THEOREM OnlySoundSessionsWork == Spec => []SessionsAreSound
<1>1. AccountInv => SessionsAreSound
  BY DEF AccountInv, SessionsAreSound, ReusedHaveEnded, ReuseEndsSession
<1> QED BY <1>1, AccountInit, AccountStep, PTL DEF Spec

\* Only the newest proof of a purpose is good, and it has its effect once.
THEOREM ProofsWorkOnce == Spec => []NewestProofWorksOnce
<1>1. AccountInv => NewestProofWorksOnce
  BY DEF AccountInv
<1> QED BY <1>1, AccountInit, AccountStep, PTL DEF Spec

\* A session that has ended is not refreshed and does not come back.
THEOREM SessionsEndForGood == Spec => EndedSessionsStay
<1> DEFINE Stays == \A s \in Sessions : sessions[s].state \in {"revoked", "gone"} =>
                      /\ sessions'[s].state \in {sessions[s].state, "gone"}
                      /\ sessions'[s].rotation \in {sessions[s].rotation, 0}
<1>1. AccountInv /\ [Next]_vars => [Stays]_vars
  <2> SUFFICES ASSUME AccountInv, Next PROVE Stays
    OBVIOUS
  <2> QED BY SessionSteps DEF SessionStep, SessionKept, SessionOpened, SessionRefreshed
<1>2. EndedSessionsStay <=> [][Stays]_vars
  BY DEF EndedSessionsStay
<1> HIDE DEF Stays
<1> QED BY <1>1, <1>2, AccountInit, AccountStep, PTL DEF Spec

-----------------------------------------------------------------------------
(* What is true of a browser's tabs beside what the runs check *)

Token == [family: Families \cup {Nothing}, rotation: Nat]
Cookies == [access: Families \cup {Nothing}, aged: BOOLEAN, refresh: Token]
Codes == {"none", "ok", "lost", "rate_limited", "server_error",
          "invalid_token", "invalid_session", "refresh_reused"}
Call == [kind: {"none", "request", "refresh", "login", "logout"},
         at: {"none", "sent", "answered", "arrived"}, cookies: Cookies,
         code: Codes,
         deletes: BOOLEAN, sets: Token]
Family == [state: {"absent", "live", "reused", "ended"}, rotation: Nat]
Page == {"ready", "request", "login", "logout", "turn", "check", "marked", "refresh", "closed"}

TabTypeOK ==
    /\ families \in [Families -> Family] /\ jar \in Cookies /\ marked \in BOOLEAN
    /\ page \in [Tabs -> Page] /\ call \in [Tabs -> Call] /\ raced \in BOOLEAN

\* What a tab waits for is what it has asked.
CallsFitPages ==
    \A t \in Tabs :
        /\ page[t] \in {"request", "refresh", "login", "logout"} => call[t].kind = page[t]
        /\ page[t] = "check" => call[t].kind = "request"
        /\ page[t] \in {"ready", "turn", "marked"} => call[t] = NoCall

\* Which answers delete cookies and which bring some.
AnswersAreRight ==
    \A t \in Tabs : call[t].at = "answered" =>
        /\ call[t].deletes => /\ call[t].sets = NoToken
                              /\ \/ call[t].kind \in {"logout", "refresh"}
                                 \/ call[t].code = "invalid_session"
        /\ call[t].code = "ok" /\ call[t].kind \in {"login", "refresh"} =>
             call[t].sets.family \in Families
        /\ call[t].sets # NoToken => call[t].code = "ok" /\ call[t].kind \in {"login", "refresh"}

\* A token that is carried about belongs to a family that has begun.
Known(token) == token.family \in Families => families[token.family].state # "absent"

CarriedAreKnown ==
    /\ \A f \in Families : families[f].state = "absent" => families[f].rotation = 0
    /\ Known(jar.refresh)
    /\ \A t \in Tabs : Known(call[t].cookies.refresh) /\ Known(call[t].sets)

\* Nobody else has a token of the family that a login is about to bring.
NewFamilyIsAlone ==
    \A t \in Tabs :
        call[t].at = "answered" /\ call[t].kind = "login" /\ call[t].sets.family \in Families =>
          LET f == call[t].sets.family
          IN  /\ jar.refresh.family # f
              /\ \A u \in Tabs : /\ call[u].cookies.refresh.family # f
                                 /\ u # t => call[u].sets.family # f

\* The newest token of a family that works.
Fresh(token) ==
    token.family \in Families /\ families[token.family].state = "live"
      => token.rotation = families[token.family].rotation

\* A tab, or what a closed tab left behind, is about to spend the refresh token.
Exchanging(t) == page[t] = "marked" \/ call[t].kind = "refresh"

\* The exchange is over for the server, and its token not in the jar.
Unheard(t) ==
    /\ call[t].kind = "refresh"
    /\ <<call[t].at, call[t].code>> \in {<<"answered", "ok">>, <<"arrived", "lost">>}

ExchangeIsAlone ==
    /\ \A t \in Tabs : Exchanging(t) => marked
    /\ \A t, u \in Tabs : Exchanging(t) /\ Exchanging(u) => t = u
    /\ ~Racing

TokensAreFresh ==
    /\ ~Fresh(jar.refresh) => marked /\ \A t \in Tabs : Exchanging(t) => Unheard(t)
    /\ \A t \in Tabs :
         /\ call[t].kind = "refresh" /\ call[t].at = "sent" => Fresh(call[t].cookies.refresh)
         /\ call[t].at = "answered" => Fresh(call[t].sets)
         /\ page[t] = "login" /\ call[t].at = "arrived" /\ call[t].code = "ok" =>
              Fresh(jar.refresh)

TabInv ==
    /\ TabTypeOK /\ CallsFitPages /\ AnswersAreRight
    /\ CarriedAreKnown /\ NewFamilyIsAlone
    /\ ~raced => ExchangeIsAlone /\ TokensAreFresh /\ FamiliesAreNotRevoked

-----------------------------------------------------------------------------
(* What a step does to the call of a tab *)

LEMMA EmptyCalls ==
    /\ NoToken \in Token /\ NoCookies \in Cookies /\ NoCall \in Call
    /\ NoCall.kind = "none" /\ NoCall.at = "none" /\ NoCall.cookies = NoCookies
    /\ NoCall.code = "none" /\ NoCall.sets = NoToken /\ ~NoCall.deletes
    /\ NoCookies.refresh = NoToken /\ NoToken.family = Nothing
    /\ Nothing \notin Families
BY TabAssumption DEF NoToken, NoCookies, NoCall, Token, Cookies, Call, Codes

\* A call that is sent takes the cookies along.
LEMMA SendShape ==
    ASSUME TabTypeOK, NEW t \in Tabs,
           NEW kind \in {"request", "refresh", "login", "logout"}, Send(t, kind)
    PROVE  \E row \in Call :
             /\ call' = [call EXCEPT ![t] = row]
             /\ row.kind = kind /\ row.at = "sent" /\ row.cookies = jar
             /\ row.code = "none" /\ row.sets = NoToken /\ ~row.deletes
<1> DEFINE row == [NoCall EXCEPT !.kind = kind, !.at = "sent", !.cookies = jar]
<1>1. /\ row \in Call
      /\ row.kind = kind /\ row.at = "sent" /\ row.cookies = jar
      /\ row.code = "none" /\ row.sets = NoToken /\ ~row.deletes
  BY EmptyCalls DEF TabTypeOK, NoCall, Call, Codes
<1>2. call' = [call EXCEPT ![t] = row]
  BY DEF Send
<1> HIDE DEF row
<1> QED BY <1>1, <1>2

LEMMA ToldShape ==
    ASSUME TabTypeOK, NEW t \in Tabs, call[t].at # "none" \/ call[t].kind # "none",
           NEW code \in Codes
    PROVE  LET row == Told(t, code)
           IN  /\ row \in Call /\ row.cookies = NoCookies /\ row.sets = NoToken
               /\ \/ page[t] = "closed" /\ row = NoCall
                  \/ /\ page[t] # "closed"
                     /\ row.kind = call[t].kind /\ row.at = "arrived" /\ row.code = code
<1> DEFINE told == [NoCall EXCEPT !.kind = call[t].kind, !.at = "arrived", !.code = code]
<1>1. /\ told \in Call /\ told.cookies = NoCookies /\ told.sets = NoToken
      /\ told.kind = call[t].kind /\ told.at = "arrived" /\ told.code = code
  BY EmptyCalls DEF TabTypeOK, NoCall, Call, Codes
<1> HIDE DEF told
<1>2. Told(t, code) = IF page[t] = "closed" THEN NoCall ELSE told
  BY DEF Told, told
<1> QED BY <1>1, <1>2, EmptyCalls

LEMMA AnsweredShape ==
    ASSUME TabTypeOK, NEW t \in Tabs, NEW code \in {"ok", "rate_limited", "server_error",
                         "invalid_token", "invalid_session", "refresh_reused"},
           NEW deletes \in BOOLEAN, NEW sets \in Token, Answered(t, code, deletes, sets)
    PROVE  \E row \in Call :
             /\ call' = [call EXCEPT ![t] = row]
             /\ row.kind = call[t].kind /\ row.cookies = call[t].cookies
             /\ row.at = "answered" /\ row.code = code
             /\ row.deletes = deletes /\ row.sets = sets
<1> DEFINE row == [call[t] EXCEPT !.at = "answered", !.code = code, !.deletes = deletes, !.sets = sets]
<1>1. /\ row \in Call
      /\ row.kind = call[t].kind /\ row.cookies = call[t].cookies
      /\ row.at = "answered" /\ row.code = code
      /\ row.deletes = deletes /\ row.sets = sets
  BY DEF TabTypeOK, Call, Codes
<1>2. call' = [call EXCEPT ![t] = row]
  BY DEF Answered, TabTypeOK, Call
<1> HIDE DEF row
<1> QED BY <1>1, <1>2

\* What a refusal, or an answer without cookies, does to the families.
Ending(t) ==
    /\ families' \in [Families -> Family]
    /\ \A f \in Families :
         /\ families'[f].rotation = families[f].rotation
         /\ \/ families'[f].state = families[f].state
            \/ families[f].state = "live" /\ families'[f].state = "ended"
            \/ /\ families[f].state = "live" /\ families'[f].state = "reused"
               /\ call[t].kind = "refresh" /\ call[t].cookies.refresh.family = f
               /\ call[t].cookies.refresh.rotation # families[f].rotation

Refusal(t, row) ==
    /\ Ending(t)
    /\ row.sets = NoToken
    /\ row.deletes => row.kind \in {"logout", "refresh"} \/ row.code = "invalid_session"
    /\ row.code = "ok" => row.kind \in {"request", "logout"}

\* An exchange that succeeds.
Renewal(t, row) ==
    LET f == call[t].cookies.refresh.family
    IN  /\ row.kind = "refresh" /\ row.code = "ok" /\ ~row.deletes
        /\ f \in Families /\ families[f].state = "live"
        /\ call[t].cookies.refresh.rotation = families[f].rotation
        /\ row.sets.family = f /\ row.sets.rotation = families[f].rotation + 1
        /\ families' \in [Families -> Family]
        /\ families'[f].state = "live" /\ families'[f].rotation = families[f].rotation + 1
        /\ \A g \in Families \ {f} : families'[g] = families[g]

\* A login that succeeds.
Beginning(t, row) ==
    /\ row.kind = "login" /\ row.code = "ok" /\ ~row.deletes
    /\ families' \in [Families -> Family]
    /\ \E f \in Families :
         /\ families[f].state = "absent" /\ families'[f].state = "live"
         /\ families'[f].rotation = families[f].rotation
         /\ row.sets.family = f /\ row.sets.rotation = 0
         /\ \A g \in Families \ {f} : families'[g] = families[g]

AnswerTo(t, row) ==
    /\ call' = [call EXCEPT ![t] = row]
    /\ row.kind = call[t].kind /\ row.cookies = call[t].cookies /\ row.at = "answered"

LEMMA RefusedShape ==
    ASSUME TabTypeOK, NEW t \in Tabs, Ending(t),
           NEW code \in {"rate_limited", "server_error",
                         "invalid_token", "invalid_session", "refresh_reused"},
           Refused(t, code), code = "refresh_reused" => call[t].kind = "refresh"
    PROVE  \E row \in Call : AnswerTo(t, row) /\ Refusal(t, row)
<1> DEFINE deletes == Deletes(call[t].kind, code)
<1>1. deletes \in BOOLEAN /\ (deletes = TRUE => call[t].kind = "refresh" \/ code = "invalid_session")
  BY DEF Deletes
<1>2. Answered(t, code, deletes, NoToken)
  BY DEF Refused
<1> HIDE DEF deletes
<1>3. PICK row \in Call :
        /\ AnswerTo(t, row)
        /\ row.code = code /\ row.deletes = deletes /\ row.sets = NoToken
  BY <1>1, <1>2, AnsweredShape, EmptyCalls DEF AnswerTo
<1> QED BY <1>1, <1>3 DEF Refusal, AnswerTo

LEMMA GrantedShape ==
    ASSUME TabTypeOK, NEW t \in Tabs, NEW deletes \in BOOLEAN, NEW sets \in Token,
           Answered(t, "ok", deletes, sets)
    PROVE  \E row \in Call : /\ AnswerTo(t, row)
                             /\ row.code = "ok" /\ row.deletes = deletes /\ row.sets = sets
BY AnsweredShape DEF AnswerTo

LEMMA ServeShape ==
    ASSUME TabTypeOK, NEW t \in Tabs, Serve(t)
    PROVE  /\ UNCHANGED <<jar, marked, turn, page>>
           /\ call[t].at = "sent"
           /\ \E row \in Call :
                AnswerTo(t, row) /\ (Refusal(t, row) \/ Renewal(t, row) \/ Beginning(t, row))
<1>1. /\ families \in [Families -> Family] /\ call[t] \in Call /\ call[t].at = "sent"
      /\ NoToken \in Token /\ UNCHANGED <<jar, marked, turn, page>>
  BY EmptyCalls DEF TabTypeOK, Serve
<1>2. families' = families => Ending(t)
  BY <1>1 DEF Ending
<1>3. CASE ServeNothing(t)
  BY <1>1, <1>2, <1>3, RefusedShape DEF ServeNothing
<1>4. CASE ServeRequest(t)
  <2>1. families' = families /\ call[t].kind = "request"
    BY <1>4 DEF ServeRequest
  <2>2. CASE Answered(t, "ok", FALSE, NoToken)
    <3>1. PICK row \in Call : /\ AnswerTo(t, row)
                              /\ row.code = "ok" /\ row.deletes = FALSE /\ row.sets = NoToken
      BY ZenonT(40), <1>1, <2>2, GrantedShape
    <3> QED BY <1>1, <1>2, <2>1, <3>1 DEF Refusal, AnswerTo
  <2> QED BY <1>1, <1>2, <1>4, <2>1, <2>2, RefusedShape DEF ServeRequest
<1>5. CASE ServeLogout(t)
  <2>1. PICK f : /\ families' = IF IsLive(f) THEN [families EXCEPT ![f].state = "ended"] ELSE families
                 /\ call[t].kind = "logout" /\ Answered(t, "ok", TRUE, NoToken)
    BY <1>5 DEF ServeLogout
  <2>2. Ending(t)
    BY <1>1, <2>1 DEF IsLive, Family, Ending
  <2>3. PICK row \in Call : /\ AnswerTo(t, row)
                            /\ row.code = "ok" /\ row.deletes = TRUE /\ row.sets = NoToken
    BY <1>1, <2>1, GrantedShape
  <2> QED BY <1>1, <2>1, <2>2, <2>3 DEF Refusal, AnswerTo
<1>6. CASE ServeLogin(t)
  <2>1. PICK f \in Families :
          /\ families[f].state = "absent" /\ families' = [families EXCEPT ![f].state = "live"]
          /\ Answered(t, "ok", FALSE, [NoToken EXCEPT !.family = f]) /\ call[t].kind = "login"
    BY <1>6 DEF ServeLogin
  <2> DEFINE sets == [NoToken EXCEPT !.family = f]
  <2>2. sets \in Token /\ sets.family = f /\ sets.rotation = 0
    BY DEF NoToken, Token
  <2>3. /\ families' \in [Families -> Family] /\ families'[f].state = "live"
        /\ families'[f].rotation = families[f].rotation
        /\ \A g \in Families \ {f} : families'[g] = families[g]
    BY <1>1, <2>1 DEF Family
  <2>4. Answered(t, "ok", FALSE, sets)
    BY <2>1
  <2> HIDE DEF sets
  <2>5. PICK row \in Call : /\ AnswerTo(t, row)
                            /\ row.code = "ok" /\ row.deletes = FALSE /\ row.sets = sets
    BY <2>2, <2>4, GrantedShape
  <2>6. Beginning(t, row)
    BY <2>1, <2>2, <2>3, <2>5 DEF Beginning, AnswerTo
  <2> QED BY <1>1, <2>5, <2>6
<1>7. CASE ServeRefresh(t)
  <2> DEFINE token == call[t].cookies.refresh
             f == token.family
  <2>1. token \in Token /\ call[t].kind = "refresh"
    BY <1>1, <1>7 DEF Call, Cookies, ServeRefresh
  <2>2. CASE families' = families /\ (Refused(t, "invalid_token") \/ Refused(t, "invalid_session"))
    BY <1>1, <1>2, <2>2, RefusedShape
  <2>3. CASE /\ IsLive(f) /\ token.rotation = families[f].rotation
             /\ families' = [families EXCEPT ![f].rotation = @ + 1]
             /\ Answered(t, "ok", FALSE, [token EXCEPT !.rotation = @ + 1])
    <3> DEFINE sets == [token EXCEPT !.rotation = @ + 1]
    <3>1. sets \in Token /\ sets.family = f /\ sets.rotation = token.rotation + 1
      BY <2>1 DEF Token
    <3>2. f \in Families /\ families[f].state = "live"
      BY <2>1, <2>3 DEF IsLive, Token
    <3>3. /\ families' \in [Families -> Family] /\ families'[f].state = "live"
          /\ families'[f].rotation = families[f].rotation + 1
          /\ \A g \in Families \ {f} : families'[g] = families[g]
      <4> DEFINE row == [families[f] EXCEPT !.rotation = @ + 1]
      <4>1. row \in Family /\ row.state = "live" /\ row.rotation = families[f].rotation + 1
        BY <1>1, <3>2 DEF Family
      <4>2. families' = [families EXCEPT ![f] = row]
        BY <2>3
      <4> HIDE DEF row
      <4> QED BY <1>1, <3>2, <4>1, <4>2
    <3>4. Answered(t, "ok", FALSE, sets)
      BY <2>3
    <3> HIDE DEF sets
    <3>5. PICK row \in Call : /\ AnswerTo(t, row)
                              /\ row.code = "ok" /\ row.deletes = FALSE /\ row.sets = sets
      BY <3>1, <3>4, GrantedShape
    <3>6. Renewal(t, row)
      BY <2>1, <2>3, <3>1, <3>2, <3>3, <3>5 DEF Renewal, AnswerTo
    <3> QED BY <1>1, <3>5, <3>6
  <2>4. CASE /\ IsLive(f) /\ token.rotation # families[f].rotation
             /\ families' = [families EXCEPT ![f].state = "reused"]
             /\ Refused(t, "refresh_reused")
    <3>1. f \in Families /\ families[f].state = "live"
      BY <2>1, <2>4 DEF IsLive, Token
    <3>2. Ending(t)
      BY <1>1, <2>1, <2>4, <3>1 DEF Family, Ending
    <3> QED BY <1>1, <2>1, <2>4, <3>2, RefusedShape
  <2>5. \/ families' = families /\ (Refused(t, "invalid_token") \/ Refused(t, "invalid_session"))
        \/ /\ IsLive(f) /\ token.rotation = families[f].rotation
           /\ families' = [families EXCEPT ![f].rotation = @ + 1]
           /\ Answered(t, "ok", FALSE, [token EXCEPT !.rotation = @ + 1])
        \/ /\ IsLive(f) /\ token.rotation # families[f].rotation
           /\ families' = [families EXCEPT ![f].state = "reused"]
           /\ Refused(t, "refresh_reused")
    BY <1>7, Zenon DEF ServeRefresh
  <2> HIDE DEF token, f
  <2> QED BY <2>2, <2>3, <2>4, <2>5
<1>8. ServeRequest(t) \/ ServeRefresh(t) \/ ServeLogin(t) \/ ServeLogout(t) \/ ServeNothing(t)
  BY DEF Serve
<1> QED BY <1>3, <1>4, <1>5, <1>6, <1>7, <1>8

-----------------------------------------------------------------------------
(* The steps of the server, of answers and of losses *)

\* What the history variable leaves to show of a step.
TabStays ==
    /\ TabTypeOK' /\ CallsFitPages' /\ AnswersAreRight'
    /\ CarriedAreKnown' /\ NewFamilyIsAlone'
    /\ ~raced /\ ~Racing /\ ~Racing' => ExchangeIsAlone' /\ TokensAreFresh' /\ FamiliesAreNotRevoked'

LEMMA ServeStays ==
    ASSUME TabInv, NEW t \in Tabs, Serve(t), raced' \in BOOLEAN
    PROVE  TabStays
<1>1. PICK row \in Call :
        AnswerTo(t, row) /\ (Refusal(t, row) \/ Renewal(t, row) \/ Beginning(t, row))
  BY ServeShape DEF TabInv
<1>2. /\ UNCHANGED <<jar, marked, turn, page>> /\ call[t].at = "sent"
      /\ TabTypeOK /\ call \in [Tabs -> Call] /\ families \in [Families -> Family]
      /\ jar.refresh \in Token
  BY ServeShape DEF TabInv, TabTypeOK, Cookies
<1>3. /\ call'[t] = row /\ row.kind = call[t].kind /\ row.cookies = call[t].cookies
      /\ row.at = "answered" /\ call' \in [Tabs -> Call]
      /\ \A u \in Tabs \ {t} : call'[u] = call[u]
  BY <1>1, <1>2 DEF AnswerTo
<1>4. families' \in [Families -> Family]
  BY <1>1 DEF Refusal, Ending, Renewal, Beginning
<1>5. TabTypeOK'
  BY <1>2, <1>3, <1>4 DEF TabTypeOK
<1>6. CallsFitPages'
  BY <1>2, <1>3, EmptyCalls DEF TabInv, CallsFitPages
<1>7. AnswersAreRight'
  BY <1>1, <1>2, <1>3, EmptyCalls DEF TabInv, AnswersAreRight, Refusal, Renewal, Beginning
<1>8. CarriedAreKnown'
  <2>1. \A f \in Families : families[f].state # "absent" => families'[f].state # "absent"
    BY <1>1 DEF Refusal, Ending, Renewal, Beginning
  <2>2. \A f \in Families : families'[f].state = "absent" => families'[f].rotation = 0
    BY <1>1 DEF Refusal, Ending, Renewal, Beginning, TabInv, CarriedAreKnown
  <2>3. row.sets.family \in Families => families'[row.sets.family].state # "absent"
    BY <1>1, EmptyCalls DEF Refusal, Renewal, Beginning
  <2> QED BY <1>2, <1>3, <2>1, <2>2, <2>3 DEF TabInv, CarriedAreKnown, Known
<1>9. NewFamilyIsAlone'
  <2>1. \A u \in Tabs : /\ call'[u].cookies = call[u].cookies
                        /\ u # t => call'[u] = call[u]
    BY <1>3
  <2>2. NewFamilyIsAlone /\ CarriedAreKnown
    BY DEF TabInv
  <2>3. CASE Refusal(t, row)
    BY <1>2, <1>3, <2>1, <2>2, <2>3, EmptyCalls DEF NewFamilyIsAlone, Refusal
  <2>4. CASE Renewal(t, row)
    <3>1. row.kind # "login" /\ row.sets.family = call[t].cookies.refresh.family
      BY <2>4 DEF Renewal
    <3> QED BY <1>2, <1>3, <2>1, <2>2, <3>1 DEF NewFamilyIsAlone
  <2>5. CASE Beginning(t, row)
    <3>1. PICK f \in Families : families[f].state = "absent" /\ row.sets.family = f
      BY <2>5 DEF Beginning
    <3>2. jar.refresh.family # f
          /\ \A u \in Tabs : call[u].cookies.refresh.family # f /\ call[u].sets.family # f
      BY <2>2, <3>1 DEF CarriedAreKnown, Known
    <3> QED BY <1>2, <1>3, <2>1, <2>2, <3>1, <3>2 DEF NewFamilyIsAlone
  <2> QED BY <1>1, <2>3, <2>4, <2>5
<1>10. ASSUME ~raced, ~Racing'
       PROVE  ExchangeIsAlone' /\ TokensAreFresh' /\ FamiliesAreNotRevoked'
  <2>1. ExchangeIsAlone /\ TokensAreFresh /\ FamiliesAreNotRevoked
    BY <1>10 DEF TabInv
  <2>2. ExchangeIsAlone'
    BY <1>2, <1>3, <1>10, <2>1 DEF ExchangeIsAlone, Exchanging
  <2>3. CASE Refusal(t, row)
    <3>1. FamiliesAreNotRevoked'
      BY <1>2, <2>1, <2>3 DEF FamiliesAreNotRevoked, Refusal, Ending, TokensAreFresh, Fresh
    <3>2. /\ Fresh(jar.refresh) => Fresh(jar.refresh)'
          /\ \A u \in Tabs : /\ Fresh(call[u].cookies.refresh) => Fresh(call[u].cookies.refresh)'
                             /\ u # t /\ Fresh(call[u].sets) => Fresh(call[u].sets)'
          /\ Fresh(row.sets)'
      BY <1>2, <1>3, <2>3, EmptyCalls DEF Fresh, Refusal, Ending
    <3> QED BY <1>2, <1>3, <2>1, <2>2, <2>3, <3>1, <3>2
            DEF TokensAreFresh, Exchanging, Unheard
  <2>4. CASE Renewal(t, row)
    <3>1. FamiliesAreNotRevoked'
      BY <2>1, <2>4 DEF FamiliesAreNotRevoked, Renewal
    <3>2. marked /\ (\A u \in Tabs : Exchanging(u) => u = t)
      BY <1>3, <2>1, <2>4 DEF ExchangeIsAlone, Exchanging, Renewal
    <3>3. Fresh(row.sets)'
      BY <2>4 DEF Fresh, Renewal
    <3>4. \A u \in Tabs \ {t} : call[u].at = "answered" => Fresh(call[u].sets)'
      <4>1. SUFFICES ASSUME NEW u \in Tabs \ {t}, call[u].at = "answered"
                     PROVE  Fresh(call[u].sets)'
        OBVIOUS
      <4>2. call[u].kind # "refresh"
        BY <3>2 DEF Exchanging
      <4>3. call[u].sets.family \in Families => call[u].kind = "login"
        BY <4>1, <4>2, EmptyCalls DEF TabInv, AnswersAreRight
      <4>4. call[u].sets.family # call[t].cookies.refresh.family
        BY <4>1, <4>3, <2>4 DEF TabInv, NewFamilyIsAlone, Renewal
      <4>5. Fresh(call[u].sets)
        BY <2>1, <4>1 DEF TokensAreFresh
      <4>6. call[u].sets.family \in Families =>
              families'[call[u].sets.family] = families[call[u].sets.family]
        BY <2>4, <4>4 DEF Renewal
      <4>7. call'[u] = call[u]
        BY <1>3
      <4> QED BY <4>5, <4>6, <4>7 DEF Fresh
    <3>5. \A u \in Tabs : page[u] # "login"
      BY <1>3, <1>10, <2>1, <2>4 DEF ExchangeIsAlone, Racing, Renewal
    <3> QED BY <1>2, <1>3, <2>2, <2>4, <3>1, <3>2, <3>3, <3>4, <3>5
            DEF TokensAreFresh, Exchanging, Unheard, Renewal
  <2>5. CASE Beginning(t, row)
    <3>1. FamiliesAreNotRevoked'
      BY <2>1, <2>5 DEF FamiliesAreNotRevoked, Beginning
    <3>2. Fresh(row.sets)'
      BY <2>5 DEF Fresh, Beginning, TabInv, CarriedAreKnown
    <3>3. /\ Fresh(jar.refresh) => Fresh(jar.refresh)'
          /\ \A u \in Tabs : /\ Fresh(call[u].cookies.refresh) => Fresh(call[u].cookies.refresh)'
                             /\ u # t /\ Fresh(call[u].sets) => Fresh(call[u].sets)'
      BY <1>2, <1>3, <2>5, EmptyCalls
         DEF Fresh, Beginning, TabInv, CarriedAreKnown, Known
    <3> QED BY <1>2, <1>3, <2>1, <2>2, <2>5, <3>1, <3>2, <3>3
            DEF TokensAreFresh, Exchanging, Unheard, Beginning
  <2> QED BY <1>1, <2>2, <2>3, <2>4, <2>5
<1> QED BY <1>5, <1>6, <1>7, <1>8, <1>9, <1>10 DEF TabStays

\* An answer that arrives brings the newest token, if it brings one.
LEMMA ArriveStays ==
    ASSUME TabInv, NEW t \in Tabs, Arrive(t), raced' \in BOOLEAN
    PROVE  TabStays
<1> DEFINE row == Told(t, call[t].code)
<1>1. /\ TabTypeOK /\ call \in [Tabs -> Call] /\ call[t].at = "answered" /\ jar \in Cookies
      /\ UNCHANGED <<families, marked, turn, page>>
      /\ call' = [call EXCEPT ![t] = row]
      /\ call[t].code \in Codes
  BY DEF Arrive, TabInv, TabTypeOK, Call
<1>2. /\ row \in Call /\ row.cookies = NoCookies /\ row.sets = NoToken
      /\ row.at # "answered" /\ row.at # "sent"
      /\ \/ page[t] = "closed" /\ row = NoCall
         \/ /\ page[t] # "closed"
            /\ row.kind = call[t].kind /\ row.at = "arrived" /\ row.code = call[t].code
  BY <1>1, ToldShape, EmptyCalls
<1> HIDE DEF row
<1>3. /\ call'[t] = row /\ call' \in [Tabs -> Call]
      /\ \A u \in Tabs \ {t} : call'[u] = call[u]
  BY <1>1, <1>2
<1>4. /\ jar' \in Cookies
      /\ \/ jar'.refresh = NoToken /\ (call[t].deletes \/ jar.refresh = NoToken)
         \/ jar'.refresh = call[t].sets /\ call[t].sets # NoToken
         \/ jar'.refresh = jar.refresh /\ ~call[t].deletes /\ call[t].sets = NoToken
  <2> DEFINE new == [access |-> call[t].sets.family, aged |-> FALSE, refresh |-> call[t].sets]
  <2>1. call[t].sets \in Token /\ new \in Cookies /\ new.refresh = call[t].sets
    BY <1>1 DEF Call, Cookies, Token
  <2>2. jar' = IF call[t].deletes THEN NoCookies ELSE IF call[t].sets # NoToken THEN new ELSE jar
    BY DEF Arrive
  <2> HIDE DEF new
  <2> QED BY <1>1, <2>1, <2>2, EmptyCalls
<1>5. TabTypeOK' /\ CallsFitPages' /\ AnswersAreRight'
  BY <1>1, <1>2, <1>3, <1>4, EmptyCalls
     DEF TabInv, TabTypeOK, CallsFitPages, AnswersAreRight
<1>6. CarriedAreKnown' /\ NewFamilyIsAlone'
  BY <1>1, <1>2, <1>3, <1>4, EmptyCalls
     DEF TabInv, CarriedAreKnown, Known, NewFamilyIsAlone
<1>7. ASSUME ~raced, ~Racing'
      PROVE  ExchangeIsAlone' /\ TokensAreFresh' /\ FamiliesAreNotRevoked'
  <2>1. ExchangeIsAlone /\ TokensAreFresh /\ FamiliesAreNotRevoked
    BY <1>7 DEF TabInv
  <2>2. \A u \in Tabs : Exchanging(u)' => Exchanging(u)
    BY <1>1, <1>2, <1>3, EmptyCalls DEF Exchanging
  <2>3. ExchangeIsAlone' /\ FamiliesAreNotRevoked'
    BY <1>1, <1>7, <2>1, <2>2 DEF ExchangeIsAlone, FamiliesAreNotRevoked
  <2>4. Fresh(jar.refresh) => Fresh(jar.refresh)'
    BY <1>1, <1>4, <2>1, EmptyCalls DEF TokensAreFresh, Fresh
  <2>5. call[t].code = "ok" /\ call[t].kind \in {"login", "refresh"} => Fresh(jar.refresh)'
    BY <1>1, <1>4, <2>1, EmptyCalls DEF TokensAreFresh, Fresh, TabInv, AnswersAreRight
  <2>6. \A token : Fresh(token)' <=> Fresh(token)
    BY <1>1 DEF Fresh
  <2>7. ~Fresh(jar.refresh)' => marked' /\ \A u \in Tabs : Exchanging(u)' => Unheard(u)'
    BY <1>1, <1>3, <2>1, <2>2, <2>4, <2>5 DEF TokensAreFresh, Unheard
  <2>8. \A u \in Tabs :
          /\ call'[u].kind = "refresh" /\ call'[u].at = "sent" => Fresh(call[u].cookies.refresh)
          /\ call'[u].at = "answered" => Fresh(call[u].sets)
          /\ call'[u].at \in {"sent", "answered"} => call'[u] = call[u]
    BY <1>2, <1>3, <2>1 DEF TokensAreFresh
  <2>9. \A u \in Tabs : page'[u] = "login" /\ call'[u].at = "arrived" /\ call'[u].code = "ok"
                          => Fresh(jar.refresh)'
    BY <1>1, <1>2, <1>3, <2>1, <2>4, <2>5, EmptyCalls DEF TokensAreFresh, TabInv, CallsFitPages
  <2> QED BY <1>1, <2>3, <2>6, <2>7, <2>8, <2>9 DEF TokensAreFresh, Fresh
<1> QED BY <1>5, <1>6, <1>7 DEF TabStays

\* A call that is lost after the exchange leaves a token nobody may spend.
LEMMA LoseStays ==
    ASSUME TabInv, NEW t \in Tabs, Lose(t), raced' \in BOOLEAN
    PROVE  TabStays
<1> DEFINE row == Told(t, "lost")
<1>1. /\ TabTypeOK /\ call \in [Tabs -> Call] /\ call[t].at \in {"sent", "answered"}
      /\ UNCHANGED <<families, jar, marked, turn, page>>
      /\ call' = [call EXCEPT ![t] = row] /\ "lost" \in Codes
  BY DEF Lose, TabInv, TabTypeOK, Codes
<1>2. /\ row \in Call /\ row.cookies = NoCookies /\ row.sets = NoToken
      /\ row.at # "answered" /\ row.at # "sent"
      /\ \/ page[t] = "closed" /\ row = NoCall
         \/ /\ page[t] # "closed"
            /\ row.kind = call[t].kind /\ row.at = "arrived" /\ row.code = "lost"
  BY <1>1, ToldShape, EmptyCalls
<1> HIDE DEF row
<1>3. /\ call'[t] = row /\ call' \in [Tabs -> Call]
      /\ \A u \in Tabs \ {t} : call'[u] = call[u]
  BY <1>1, <1>2
<1>4. TabTypeOK' /\ CallsFitPages' /\ AnswersAreRight'
  BY <1>1, <1>2, <1>3, EmptyCalls
     DEF TabInv, TabTypeOK, CallsFitPages, AnswersAreRight
<1>5. CarriedAreKnown' /\ NewFamilyIsAlone'
  BY <1>1, <1>2, <1>3, EmptyCalls
     DEF TabInv, CarriedAreKnown, Known, NewFamilyIsAlone
<1>6. ASSUME ~raced, ~Racing'
      PROVE  ExchangeIsAlone' /\ TokensAreFresh' /\ FamiliesAreNotRevoked'
  <2>1. ExchangeIsAlone /\ TokensAreFresh /\ FamiliesAreNotRevoked
    BY <1>6 DEF TabInv
  <2>2. \A u \in Tabs : Exchanging(u)' => Exchanging(u)
    BY <1>1, <1>2, <1>3, EmptyCalls DEF Exchanging
  <2>3. ExchangeIsAlone' /\ FamiliesAreNotRevoked'
    BY <1>1, <1>6, <2>1, <2>2 DEF ExchangeIsAlone, FamiliesAreNotRevoked
  <2>4. \A token : Fresh(token)' <=> Fresh(token)
    BY <1>1 DEF Fresh
  <2>5. ~Fresh(jar.refresh) => marked /\ \A u \in Tabs : Exchanging(u)' => Unheard(u)'
    BY <1>1, <1>2, <1>3, <2>1, <2>2, EmptyCalls DEF TokensAreFresh, Exchanging, Unheard
  <2>6. \A u \in Tabs :
          /\ call'[u].at \in {"sent", "answered"} => call'[u] = call[u]
          /\ call'[u].at = "arrived" /\ call'[u].code = "ok" => call'[u] = call[u]
    BY <1>2, <1>3, EmptyCalls
  <2> QED BY <1>1, <2>1, <2>3, <2>4, <2>5, <2>6 DEF TokensAreFresh, Fresh
<1> QED BY <1>4, <1>5, <1>6 DEF TabStays

-----------------------------------------------------------------------------
(* The steps of a tab *)

\* A call is put away or left to itself, and the mark is kept, or written when there was
\* none, or taken away when nobody else is about to spend the token that the jar has.
PageMoves(t, row, at) ==
    /\ call' = [call EXCEPT ![t] = row] /\ page' = [page EXCEPT ![t] = at]
    /\ families' = families /\ jar' = jar
    /\ at \in {"ready", "turn", "marked", "closed"}
    /\ row = NoCall \/ (row = call[t] /\ at = "closed")
    /\ \/ marked' = marked /\ at # "marked"
       \/ ~marked /\ marked' = TRUE /\ at = "marked"
       \/ /\ marked' = FALSE /\ at = "ready"
          /\ ~raced /\ ~Racing =>
               Fresh(jar.refresh) /\ \A u \in Tabs \ {t} : ~Exchanging(u)

LEMMA PageStays ==
    ASSUME TabInv, NEW t \in Tabs, NEW row, NEW at, PageMoves(t, row, at), raced' \in BOOLEAN
    PROVE  TabStays
<1>1. /\ TabTypeOK /\ call \in [Tabs -> Call] /\ page \in [Tabs -> Page] /\ marked \in BOOLEAN
      /\ row \in Call /\ at \in Page
      /\ UNCHANGED <<families, jar>>
  BY EmptyCalls DEF PageMoves, TabInv, TabTypeOK, Page
<1>2. /\ call'[t] = row /\ call' \in [Tabs -> Call] /\ page'[t] = at /\ page' \in [Tabs -> Page]
      /\ \A u \in Tabs \ {t} : call'[u] = call[u] /\ page'[u] = page[u]
      /\ row = NoCall \/ (row = call[t] /\ at = "closed")
      /\ at \in {"ready", "turn", "marked", "closed"}
  BY <1>1 DEF PageMoves
<1>3. TabTypeOK' /\ CallsFitPages' /\ AnswersAreRight'
  <2>1. marked' \in BOOLEAN
    BY <1>1 DEF PageMoves
  <2> QED BY <1>1, <1>2, <2>1, EmptyCalls DEF TabInv, TabTypeOK, CallsFitPages, AnswersAreRight
<1>4. CarriedAreKnown' /\ NewFamilyIsAlone'
  BY <1>1, <1>2, EmptyCalls DEF TabInv, CarriedAreKnown, Known, NewFamilyIsAlone
<1>5. ASSUME ~raced, ~Racing, ~Racing'
      PROVE  ExchangeIsAlone' /\ TokensAreFresh' /\ FamiliesAreNotRevoked'
  <2>1. ExchangeIsAlone /\ TokensAreFresh /\ FamiliesAreNotRevoked
    BY <1>5 DEF TabInv
  <2>2. \A u \in Tabs : Exchanging(u)' => Exchanging(u) \/ (u = t /\ at = "marked")
    BY <1>1, <1>2, EmptyCalls DEF Exchanging
  <2>3. \A token : Fresh(token)' <=> Fresh(token)
    BY <1>1 DEF Fresh
  <2>4. \A u \in Tabs :
          /\ call'[u].at \in {"sent", "answered", "arrived"} => call'[u] = call[u]
          /\ page'[u] = "login" => page[u] = "login"
    BY <1>2, EmptyCalls
  <2>5. CASE marked' = marked /\ at # "marked"
    <3>1. ExchangeIsAlone' /\ FamiliesAreNotRevoked'
      BY <1>1, <1>5, <2>1, <2>2, <2>5 DEF ExchangeIsAlone, FamiliesAreNotRevoked
    <3>2. \A u \in Tabs : Exchanging(u)' /\ Unheard(u) => Unheard(u)'
      BY <1>2, <2>5, EmptyCalls DEF Exchanging, Unheard
    <3> QED BY <1>1, <2>1, <2>2, <2>3, <2>4, <2>5, <3>1, <3>2 DEF TokensAreFresh, Fresh
  <2>6. CASE ~marked /\ marked' = TRUE /\ at = "marked"
    <3>1. \A u \in Tabs : ~Exchanging(u)
      BY <2>1, <2>6 DEF ExchangeIsAlone
    <3>2. ExchangeIsAlone' /\ FamiliesAreNotRevoked' /\ Fresh(jar.refresh)
      BY <1>1, <1>5, <2>1, <2>2, <2>6, <3>1 DEF ExchangeIsAlone, FamiliesAreNotRevoked, TokensAreFresh
    <3> QED BY <1>1, <2>1, <2>3, <2>4, <3>2 DEF TokensAreFresh, Fresh
  <2>7. CASE /\ marked' = FALSE /\ at = "ready" /\ Fresh(jar.refresh)
             /\ \A u \in Tabs \ {t} : ~Exchanging(u)
    <3>1. \A u \in Tabs : ~Exchanging(u)'
      BY <1>2, <2>2, <2>7, EmptyCalls DEF Exchanging
    <3>2. ExchangeIsAlone' /\ FamiliesAreNotRevoked'
      BY <1>1, <1>5, <2>1, <3>1 DEF ExchangeIsAlone, FamiliesAreNotRevoked
    <3> QED BY <1>1, <2>1, <2>3, <2>4, <2>7, <3>2 DEF TokensAreFresh, Fresh
  <2> QED BY <1>5, <2>5, <2>6, <2>7 DEF PageMoves
<1> QED BY <1>3, <1>4, <1>5 DEF TabStays

\* A call is sent by a tab that waits for nothing, a refresh by the tab that wrote the mark.
SendMoves(t, kind, at) ==
    /\ Send(t, kind) /\ page' = [page EXCEPT ![t] = at]
    /\ families' = families /\ jar' = jar /\ marked' = marked
    /\ page[t] \in {"ready", "turn", "marked"}
    /\ kind = "refresh" => page[t] = "marked"
    /\ at = kind \/ (at = "check" /\ kind = "request")

LEMMA SendStays ==
    ASSUME TabInv, NEW t \in Tabs, NEW kind \in {"request", "refresh", "login", "logout"}, NEW at,
           SendMoves(t, kind, at), raced' \in BOOLEAN
    PROVE  TabStays
<1>1. /\ TabTypeOK /\ call \in [Tabs -> Call] /\ page \in [Tabs -> Page] /\ jar \in Cookies
      /\ at \in Page /\ UNCHANGED <<families, jar, marked>>
  BY DEF SendMoves, TabInv, TabTypeOK, Page
<1>2. PICK row \in Call :
        /\ call' = [call EXCEPT ![t] = row]
        /\ row.kind = kind /\ row.at = "sent" /\ row.cookies = jar
        /\ row.code = "none" /\ row.sets = NoToken /\ ~row.deletes
  BY <1>1, SendShape DEF SendMoves
<1>3. /\ call'[t] = row /\ call' \in [Tabs -> Call] /\ page'[t] = at /\ page' \in [Tabs -> Page]
      /\ \A u \in Tabs \ {t} : call'[u] = call[u] /\ page'[u] = page[u]
      /\ at = kind \/ (at = "check" /\ kind = "request")
      /\ kind = "refresh" => page[t] = "marked"
      /\ call[t] = NoCall
  BY <1>1, <1>2 DEF SendMoves, TabInv, CallsFitPages
<1>4. TabTypeOK' /\ CallsFitPages' /\ AnswersAreRight'
  BY <1>1, <1>2, <1>3 DEF TabInv, TabTypeOK, CallsFitPages, AnswersAreRight
<1>5. CarriedAreKnown' /\ NewFamilyIsAlone'
  BY <1>1, <1>2, <1>3, EmptyCalls DEF TabInv, CarriedAreKnown, Known, NewFamilyIsAlone
<1>6. ASSUME ~raced, ~Racing'
      PROVE  ExchangeIsAlone' /\ TokensAreFresh' /\ FamiliesAreNotRevoked'
  <2>1. ExchangeIsAlone /\ TokensAreFresh /\ FamiliesAreNotRevoked
    BY <1>6 DEF TabInv
  <2>2. \A u \in Tabs : Exchanging(u)' => Exchanging(u)
    BY <1>2, <1>3 DEF Exchanging
  <2>3. ExchangeIsAlone' /\ FamiliesAreNotRevoked'
    BY <1>1, <1>6, <2>1, <2>2 DEF ExchangeIsAlone, FamiliesAreNotRevoked
  <2>4. \A token : Fresh(token)' <=> Fresh(token)
    BY <1>1 DEF Fresh
  <2>5. kind = "refresh" => Fresh(jar.refresh)
    <3>1. kind = "refresh" => Exchanging(t) /\ ~Unheard(t)
      BY <1>3, EmptyCalls DEF Exchanging, Unheard
    <3> QED BY <2>1, <3>1 DEF TokensAreFresh
  <2>6. ~Fresh(jar.refresh) => marked /\ \A u \in Tabs : Exchanging(u)' => Unheard(u)'
    BY <1>2, <1>3, <2>1, <2>2, <2>5 DEF TokensAreFresh, Exchanging, Unheard
  <2>7. \A u \in Tabs \ {t} : call'[u] = call[u] /\ page'[u] = page[u]
    BY <1>3
  <2> QED BY <1>1, <1>2, <1>3, <2>1, <2>3, <2>4, <2>5, <2>6, <2>7 DEF TokensAreFresh, Fresh
<1> QED BY <1>4, <1>5, <1>6 DEF TabStays

\* What the code of a tab does is a move of its page, with a call or without.
LEMMA TabMoves ==
    ASSUME TabInv, NEW t \in Tabs,
           \/ Close(t) \/ Open(t) \/ Ask(t) \/ RequestAnswered(t) \/ TakeTurn(t)
           \/ CheckAnswered(t) \/ SendRefresh(t) \/ RefreshAnswered(t)
           \/ LoginAnswered(t) \/ LogoutAnswered(t)
    PROVE  \/ \E row, at : PageMoves(t, row, at)
           \/ \E kind \in {"request", "refresh", "login", "logout"} : \E at : SendMoves(t, kind, at)
<1>1. /\ call \in [Tabs -> Call] /\ page \in [Tabs -> Page] /\ marked \in BOOLEAN
      /\ call[t] = NoCall => call = [call EXCEPT ![t] = NoCall]
      /\ call = [call EXCEPT ![t] = call[t]]
  BY DEF TabInv, TabTypeOK
<1>2. CASE Close(t)
  <2>1. PageMoves(t, IF call[t].at = "arrived" THEN NoCall ELSE call[t], "closed")
    BY <1>1, <1>2 DEF Close, PageMoves
  <2> QED BY <2>1
<1>3. CASE Open(t)
  <2>1. PageMoves(t, NoCall, "ready")
    BY <1>1, <1>3 DEF Open, PageMoves
  <2> QED BY <2>1
<1>4. CASE Ask(t)
  BY <1>4 DEF Ask, Start, Wait, SendMoves
<1>5. CASE RequestAnswered(t)
  <2>1. PageMoves(t, NoCall, IF call[t].code = "invalid_token" THEN "turn" ELSE "ready")
    BY <1>1, <1>5 DEF RequestAnswered, Arrived, Wait, Taken, PageMoves
  <2> QED BY <2>1
<1>6. CASE TakeTurn(t)
  <2>1. SendMoves(t, "request", "check")
    BY <1>6 DEF TakeTurn, Wait, SendMoves
  <2> QED BY <2>1
<1>7. CASE CheckAnswered(t)
  <2>1. CASE MayRefresh(t)
    <3>1. PageMoves(t, NoCall, "marked")
      BY <1>1, <1>7, <2>1 DEF CheckAnswered, MayRefresh, Marked, Arrived, Wait, Taken, PageMoves
    <3> QED BY <3>1
  <2>2. CASE ~MayRefresh(t)
    <3>1. PageMoves(t, NoCall, "ready")
      BY <1>1, <1>7, <2>2 DEF CheckAnswered, LeaveTurn, Arrived, Wait, Taken, PageMoves
    <3> QED BY <3>1
  <2> QED BY <2>1, <2>2
<1>8. CASE SendRefresh(t)
  <2>1. SendMoves(t, "refresh", "refresh")
    BY <1>8 DEF SendRefresh, Wait, SendMoves
  <2> QED BY <2>1
<1>9. CASE RefreshAnswered(t)
  <2>1. PageMoves(t, NoCall, "ready")
    <3>1. /\ page[t] = "refresh" /\ call[t].at = "arrived" /\ call[t].kind = "refresh"
          /\ marked' = (marked /\ ~SettledBy(call[t].code))
      BY <1>9 DEF RefreshAnswered, Arrived, TabInv, CallsFitPages
    <3>2. ~raced => \/ marked' = marked
                    \/ marked' = FALSE /\ Fresh(jar.refresh) /\ \A u \in Tabs \ {t} : ~Exchanging(u)
      <4>1. SUFFICES ASSUME ~raced, SettledBy(call[t].code)
                     PROVE  Fresh(jar.refresh) /\ \A u \in Tabs \ {t} : ~Exchanging(u)
        BY <1>1, <3>1
      <4>2. ExchangeIsAlone /\ TokensAreFresh /\ Exchanging(t)
        BY <3>1, <4>1 DEF TabInv, Exchanging
      <4>3. ~Unheard(t)
        BY <3>1, <4>1 DEF Unheard, SettledBy
      <4> QED BY <4>2, <4>3 DEF ExchangeIsAlone, TokensAreFresh
    <3>3. marked' = marked \/ marked' = FALSE
      BY <1>1, <3>1
    <3> QED BY <1>1, <1>9, <3>1, <3>2, <3>3 DEF RefreshAnswered, LeaveTurn, Wait, Taken, PageMoves
  <2> QED BY <2>1
<1>10. CASE LoginAnswered(t)
  <2>1. PageMoves(t, NoCall, "ready")
    <3>1. /\ page[t] = "login" /\ call[t].at = "arrived"
          /\ marked' = (marked /\ call[t].code # "ok")
      BY <1>10 DEF LoginAnswered, Arrived
    <3>2. ~raced => \/ marked' = marked
                    \/ marked' = FALSE /\ Fresh(jar.refresh) /\ \A u \in Tabs \ {t} : ~Exchanging(u)
      <4>1. SUFFICES ASSUME ~raced, call[t].code = "ok"
                     PROVE  Fresh(jar.refresh) /\ \A u \in Tabs \ {t} : ~Exchanging(u)
        BY <1>1, <3>1
      <4>2. ExchangeIsAlone /\ TokensAreFresh
        BY <4>1 DEF TabInv
      <4> QED BY <3>1, <4>1, <4>2 DEF ExchangeIsAlone, TokensAreFresh, Racing, Exchanging
    <3>3. marked' = marked \/ marked' = FALSE
      BY <1>1, <3>1
    <3> QED BY <1>1, <1>10, <3>2, <3>3 DEF LoginAnswered, Wait, Taken, PageMoves
  <2> QED BY <2>1
<1>11. CASE LogoutAnswered(t)
  <2>1. PageMoves(t, NoCall, "ready")
    BY <1>1, <1>11 DEF LogoutAnswered, Arrived, Wait, Taken, PageMoves
  <2> QED BY <2>1
<1> QED BY <1>2, <1>3, <1>4, <1>5, <1>6, <1>7, <1>8, <1>9, <1>10, <1>11

\* An access token ages and expires, and the refresh token stays.
LEMMA AccessStays ==
    ASSUME TabInv, AccessAges \/ AccessExpires, raced' \in BOOLEAN
    PROVE  TabStays
<1>1. /\ jar' \in Cookies /\ jar'.refresh = jar.refresh
      /\ UNCHANGED <<families, marked, turn, page, call>>
  BY DEF AccessAges, AccessExpires, TabInv, TabTypeOK, Cookies
<1>2. TabTypeOK' /\ CallsFitPages' /\ AnswersAreRight'
  BY <1>1 DEF TabInv, TabTypeOK, CallsFitPages, AnswersAreRight
<1>3. CarriedAreKnown' /\ NewFamilyIsAlone'
  BY <1>1 DEF TabInv, CarriedAreKnown, Known, NewFamilyIsAlone
<1>4. ASSUME ~raced, ~Racing'
      PROVE  ExchangeIsAlone' /\ TokensAreFresh' /\ FamiliesAreNotRevoked'
  <2>1. ExchangeIsAlone /\ TokensAreFresh /\ FamiliesAreNotRevoked
    BY <1>4 DEF TabInv
  <2>2. \A token : Fresh(token)' <=> Fresh(token)
    BY <1>1 DEF Fresh
  <2> QED BY <1>1, <1>4, <2>1, <2>2
          DEF ExchangeIsAlone, TokensAreFresh, FamiliesAreNotRevoked, Exchanging, Unheard, Fresh
<1> QED BY <1>2, <1>3, <1>4 DEF TabStays

-----------------------------------------------------------------------------
(* The tabs of a browser *)

LEMMA TabStart == TabInit => TabInv
<1> SUFFICES ASSUME TabInit PROVE TabInv
  OBVIOUS
<1>1. PICK f \in Families :
        /\ families = [g \in Families |-> IF g = f THEN [NoFamily EXCEPT !.state = "live"] ELSE NoFamily]
        /\ jar = [access |-> f, aged |-> TRUE, refresh |-> [family |-> f, rotation |-> 0]]
        /\ marked = FALSE /\ page = [t \in Tabs |-> "ready"] /\ call = [t \in Tabs |-> NoCall]
        /\ raced = FALSE
  BY DEF TabInit
<1>2. /\ families \in [Families -> Family] /\ families[f].state = "live"
      /\ \A g \in Families : families[g].rotation = 0 /\ families[g].state # "reused"
  BY <1>1 DEF NoFamily, Family
<1>3. jar \in Cookies /\ jar.refresh.family = f /\ jar.refresh.rotation = 0
  BY <1>1 DEF Cookies, Token
<1>4. TabTypeOK /\ CallsFitPages /\ AnswersAreRight
  BY <1>1, <1>2, <1>3, EmptyCalls DEF TabTypeOK, CallsFitPages, AnswersAreRight, Page
<1>5. CarriedAreKnown /\ NewFamilyIsAlone
  BY <1>1, <1>2, <1>3, EmptyCalls DEF CarriedAreKnown, Known, NewFamilyIsAlone
<1>6. ExchangeIsAlone /\ TokensAreFresh /\ FamiliesAreNotRevoked
  BY <1>1, <1>2, <1>3, EmptyCalls
     DEF ExchangeIsAlone, TokensAreFresh, FamiliesAreNotRevoked, Exchanging, Racing, Fresh
<1> QED BY <1>4, <1>5, <1>6 DEF TabInv

LEMMA TabKeeps == TabInv /\ [TabNext]_tabVars => TabInv'
<1> SUFFICES ASSUME TabInv, [TabNext]_tabVars PROVE TabInv'
  OBVIOUS
<1>1. CASE TabNext
  <2>1. raced' = (raced \/ Racing') /\ raced' \in BOOLEAN
    BY <1>1 DEF TabNext, TabInv, TabTypeOK
  <2>2. TabStays
    BY <1>1, <2>1, ServeStays, ArriveStays, LoseStays, PageStays, SendStays, TabMoves, AccessStays
       DEF TabNext, TabStep
  <2>3. ~raced => ~Racing
    BY DEF TabInv, ExchangeIsAlone
  <2> QED BY <2>1, <2>2, <2>3 DEF TabStays, TabInv
<1>2. CASE UNCHANGED tabVars
  <2>1. TabTypeOK' /\ CallsFitPages' /\ AnswersAreRight'
    BY <1>2 DEF tabVars, TabInv, TabTypeOK, CallsFitPages, AnswersAreRight
  <2>2. CarriedAreKnown' /\ NewFamilyIsAlone'
    BY <1>2 DEF tabVars, TabInv, CarriedAreKnown, Known, NewFamilyIsAlone
  <2>3. ~raced' => ExchangeIsAlone' /\ TokensAreFresh' /\ FamiliesAreNotRevoked'
    BY <1>2 DEF tabVars, TabInv, ExchangeIsAlone, TokensAreFresh, FamiliesAreNotRevoked,
                Exchanging, Racing, Unheard, Fresh
  <2> QED BY <2>1, <2>2, <2>3 DEF TabInv
<1> QED BY <1>1, <1>2

\* No refresh token is sent twice, unless a login was under way during an exchange.
THEOREM TokensAreNotReplayed == TabSpec => []TokensAreSpentOnce
<1>1. TabInv => TokensAreSpentOnce
  BY DEF TabInv, TokensAreSpentOnce
<1> QED BY <1>1, TabStart, TabKeeps, PTL DEF TabSpec

-----------------------------------------------------------------------------
(* The cookies of a session that works *)

Begun(f) == f \in Families => families[f].state # "absent"
Over(f) == f \in Families => families[f].state \in {"reused", "ended"}

\* The access tokens that are carried about belong to families that have begun.
AccessKnown == Begun(jar.access) /\ \A t \in Tabs : Begun(call[t].cookies.access)

\* No token is newer than the newest of its family.
Bounded(token) == token.family \in Families => token.rotation <= families[token.family].rotation

TokensBounded ==
    /\ Bounded(jar.refresh)
    /\ \A t \in Tabs : Bounded(call[t].cookies.refresh) /\ Bounded(call[t].sets)

\* An answer that deletes the cookies is a logout's, or found the session it was asked
\* with over.
MayDelete(row) ==
    \/ row.kind = "logout"
    \/ row.kind = "refresh" /\ Over(row.cookies.refresh.family)
    \/ row.kind = "request" /\ row.cookies.access # Nothing /\ Over(row.cookies.access)

DroppedRightly ==
    \A t \in Tabs : call[t].at = "answered" /\ call[t].deletes => MayDelete(call[t])

\* An exchange brings a token of the family of the token it spent.
OwnExchange ==
    \A t \in Tabs : call[t].at = "answered" /\ call[t].kind = "refresh" /\ call[t].sets # NoToken =>
                      call[t].sets.family = call[t].cookies.refresh.family

\* A token on its way back is newer than any other of its family, wherever that is.
Older(token, sets) == token.family = sets.family => token.rotation < sets.rotation

NewTokensAreAlone ==
    \A t \in Tabs : call[t].at = "answered" /\ call[t].sets.family \in Families =>
        /\ Older(jar.refresh, call[t].sets)
        /\ \A u \in Tabs :
             /\ Older(call[u].cookies.refresh, call[t].sets)
             /\ u # t /\ call[u].at = "answered" => call[u].sets.family # call[t].sets.family

CookieInv ==
    /\ AccessKnown /\ TokensBounded /\ DroppedRightly
    /\ OwnExchange /\ NewTokensAreAlone

\* What a refusal deletes was asked for with a session that is over.
LEMMA ServeDrops ==
    ASSUME TabInv, CookieInv, NEW t \in Tabs, Serve(t), call'[t].deletes
    PROVE  MayDelete(call[t])'
<1>1. /\ TabTypeOK /\ families \in [Families -> Family] /\ call[t] \in Call
      /\ call[t].cookies \in Cookies /\ Nothing \notin Families /\ NoToken \in Token
  BY EmptyCalls DEF TabInv, TabTypeOK, Call
<1>2. PICK row \in Call : AnswerTo(t, row)
  BY <1>1, ServeShape
<1>3. call'[t] = row /\ row.kind = call[t].kind /\ row.cookies = call[t].cookies
  BY <1>1, <1>2 DEF AnswerTo, TabTypeOK
<1>4. ASSUME NEW code \in {"ok", "rate_limited", "server_error", "invalid_token",
                           "invalid_session", "refresh_reused"},
             NEW deletes \in BOOLEAN, NEW sets \in Token, Answered(t, code, deletes, sets)
      PROVE  deletes = TRUE
  <2>1. PICK r \in Call : call' = [call EXCEPT ![t] = r] /\ r.deletes = deletes
    BY <1>1, <1>4, AnsweredShape
  <2>2. call'[t] = r
    BY <1>1, <2>1 DEF TabTypeOK
  <2> QED BY <2>1, <2>2
<1>5. ASSUME NEW code \in {"rate_limited", "server_error", "invalid_token",
                           "invalid_session", "refresh_reused"},
             Refused(t, code)
      PROVE  Deletes(call[t].kind, code)
  <2> DEFINE deletes == Deletes(call[t].kind, code)
  <2>1. deletes \in BOOLEAN /\ Answered(t, code, deletes, NoToken)
    BY <1>5 DEF Deletes, Refused
  <2> HIDE DEF deletes
  <2>2. deletes = TRUE
    BY <1>1, <1>4, <2>1
  <2> QED BY <2>2 DEF deletes
<1>6. ~ServeNothing(t)
  BY <1>5 DEF ServeNothing, Deletes
<1>7. ~ServeLogin(t)
  <2> SUFFICES ASSUME ServeLogin(t) PROVE FALSE
    OBVIOUS
  <2>1. PICK f \in Families : Answered(t, "ok", FALSE, [NoToken EXCEPT !.family = f])
    BY DEF ServeLogin
  <2>2. [NoToken EXCEPT !.family = f] \in Token
    BY DEF NoToken, Token
  <2> QED BY <1>4, <2>1, <2>2
<1>8. CASE ServeRequest(t)
  <2>1. call[t].kind = "request" /\ families' = families
    BY <1>8 DEF ServeRequest
  <2>2. ~Answered(t, "ok", FALSE, NoToken)
    BY <1>1, <1>4
  <2>3. /\ call[t].cookies.access # Nothing /\ ~IsLive(call[t].cookies.access)
    BY <1>5, <1>8, <2>1, <2>2 DEF ServeRequest, Deletes
  <2>4. Over(call[t].cookies.access)
    BY <1>1, <2>3 DEF CookieInv, AccessKnown, Begun, Over, IsLive, Family
  <2> QED BY <1>3, <2>1, <2>3, <2>4 DEF MayDelete, Over
<1>9. CASE ServeRefresh(t)
  <2> DEFINE token == call[t].cookies.refresh
             f == token.family
  <2>1. call[t].kind = "refresh" /\ token \in Token
    BY <1>1, <1>9 DEF ServeRefresh, Cookies
  <2>2. CASE f = Nothing
    BY <1>1, <1>3, <2>1, <2>2 DEF MayDelete, Over
  <2>3. CASE f # Nothing /\ ~IsLive(f) /\ families' = families
    <3>1. Over(f)
      BY <1>1, <2>1, <2>3 DEF TabInv, CarriedAreKnown, Known, Over, IsLive, Family
    <3> QED BY <1>3, <2>1, <2>3, <3>1 DEF MayDelete, Over
  <2>4. CASE IsLive(f) /\ families' = [families EXCEPT ![f].state = "reused"]
    <3>1. f \in Families /\ families'[f].state = "reused"
      BY <1>1, <2>1, <2>4 DEF IsLive, Token, Family
    <3> QED BY <1>3, <2>1, <3>1 DEF MayDelete, Over
  <2>5. ~Answered(t, "ok", FALSE, [token EXCEPT !.rotation = @ + 1])
    <3> DEFINE sets == [token EXCEPT !.rotation = @ + 1]
    <3>1. sets \in Token
      BY <2>1 DEF Token
    <3> HIDE DEF sets
    <3>2. ~Answered(t, "ok", FALSE, sets)
      BY <1>4, <3>1
    <3> QED BY <3>2 DEF sets
  <2>6. \/ f = Nothing
        \/ f # Nothing /\ ~IsLive(f) /\ families' = families
        \/ IsLive(f) /\ families' = [families EXCEPT ![f].state = "reused"]
        \/ Answered(t, "ok", FALSE, [token EXCEPT !.rotation = @ + 1])
    BY <1>9, Zenon DEF ServeRefresh
  <2> HIDE DEF token, f
  <2> QED BY <2>2, <2>3, <2>4, <2>5, <2>6
<1>10. CASE ServeLogout(t)
  BY <1>3, <1>10 DEF ServeLogout, MayDelete
<1> QED BY <1>6, <1>7, <1>8, <1>9, <1>10 DEF Serve

\* A family only moves on: it begins, is exchanged, and is over for good.
MovesOn ==
    /\ families' \in [Families -> Family]
    /\ \A f \in Families :
         /\ families[f].rotation <= families'[f].rotation
         /\ families[f].state # "absent" => families'[f].state # "absent"
         /\ families[f].state \in {"reused", "ended"} => families'[f].state = families[f].state

LEMMA FamiliesMoveOn ==
    ASSUME TabTypeOK, NEW t \in Tabs, NEW row \in Call,
           Refusal(t, row) \/ Renewal(t, row) \/ Beginning(t, row)
    PROVE  MovesOn
<1>1. families \in [Families -> Family]
  BY DEF TabTypeOK
<1>2. \A f \in Families : families[f].rotation \in Nat
  BY <1>1 DEF Family
<1>3. CASE Refusal(t, row)
  BY <1>2, <1>3 DEF Refusal, Ending, MovesOn
<1>4. CASE Renewal(t, row)
  BY <1>2, <1>4 DEF Renewal, MovesOn
<1>5. CASE Beginning(t, row)
  BY <1>2, <1>5 DEF Beginning, MovesOn
<1> QED BY <1>3, <1>4, <1>5

LEMMA ServeCookies ==
    ASSUME TabInv, CookieInv, NEW t \in Tabs, Serve(t)
    PROVE  CookieInv'
<1>1. PICK row \in Call :
        AnswerTo(t, row) /\ (Refusal(t, row) \/ Renewal(t, row) \/ Beginning(t, row))
  BY ServeShape DEF TabInv
<1>2. /\ families \in [Families -> Family] /\ call \in [Tabs -> Call] /\ jar' = jar
      /\ Nothing \notin Families /\ NoToken.family = Nothing
  BY ServeShape, EmptyCalls DEF TabInv, TabTypeOK
<1>3. /\ call'[t] = row /\ row.kind = call[t].kind /\ row.at = "answered"
      /\ row.cookies = call[t].cookies
      /\ \A u \in Tabs \ {t} : call'[u] = call[u]
      /\ \A u \in Tabs : call'[u].cookies = call[u].cookies
  BY <1>1, <1>2 DEF AnswerTo
<1>4. MovesOn
  BY <1>1, FamiliesMoveOn DEF TabInv
<1>5. /\ jar.refresh \in Token
      /\ \A u \in Tabs : call[u].cookies.refresh \in Token /\ call[u].sets \in Token
      /\ \A f \in Families : families[f].rotation \in Nat /\ families'[f].rotation \in Nat
  BY <1>2, <1>4 DEF MovesOn, TabInv, TabTypeOK, Call, Cookies, Family
<1>6. ASSUME NEW token \in Token, Bounded(token)
      PROVE  Bounded(token)'
  <2>1. SUFFICES ASSUME token.family \in Families
                 PROVE  token.rotation <= families'[token.family].rotation
    BY DEF Bounded
  <2>2. token.rotation <= families[token.family].rotation
    BY <1>6, <2>1 DEF Bounded
  <2>3. families[token.family].rotation <= families'[token.family].rotation
    BY <1>4, <2>1 DEF MovesOn
  <2>4. token.rotation \in Nat
    BY DEF Token
  <2> QED BY <1>5, <2>1, <2>2, <2>3, <2>4
<1>7. AccessKnown'
  BY <1>2, <1>3, <1>4 DEF CookieInv, AccessKnown, Begun, MovesOn
<1>8. Bounded(row.sets)'
  BY <1>1, <1>2, <1>5 DEF Refusal, Renewal, Beginning, Bounded
<1>9. TokensBounded'
  <2>1. Bounded(jar.refresh)'
    BY <1>2, <1>5, <1>6 DEF CookieInv, TokensBounded
  <2>2. \A u \in Tabs : Bounded(call[u].cookies.refresh) /\ Bounded(call[u].sets)
    BY DEF CookieInv, TokensBounded
  <2>3. ASSUME NEW u \in Tabs
        PROVE  Bounded(call[u].cookies.refresh)' /\ Bounded(call[u].sets)'
    <3>1. Bounded(call[u].cookies.refresh)'
      BY <1>3, <1>5, <1>6, <2>2
    <3>2. Bounded(call[u].sets)'
      BY <1>3, <1>5, <1>6, <1>8, <2>2
    <3> QED BY <3>1, <3>2
  <2> QED BY <2>1, <2>3 DEF TokensBounded, Bounded
<1>10. DroppedRightly'
  <2>1. ASSUME NEW u \in Tabs, call'[u].at = "answered", call'[u].deletes
        PROVE  MayDelete(call[u])'
    <3>1. CASE u = t
      BY <2>1, <3>1, ServeDrops
    <3>2. CASE u # t
      BY <1>3, <1>4, <2>1, <3>2 DEF CookieInv, DroppedRightly, MayDelete, Over, MovesOn
    <3> QED BY <3>1, <3>2
  <2> QED BY <2>1 DEF DroppedRightly, MayDelete, Over
<1>11. OwnExchange'
  <2>1. row.kind = "refresh" /\ row.sets # NoToken => row.sets.family = row.cookies.refresh.family
    BY <1>1, <1>3 DEF Refusal, Renewal, Beginning
  <2> QED BY <1>3, <2>1 DEF CookieInv, OwnExchange
<1>12. ASSUME row.sets.family \in Families
       PROVE  /\ Older(jar.refresh, row.sets)
              /\ \A u \in Tabs :
                   /\ Older(call[u].cookies.refresh, row.sets)
                   /\ u # t /\ call[u].at = "answered" => call[u].sets.family # row.sets.family
  <2> DEFINE f == row.sets.family
  <2>1. CASE Renewal(t, row)
    <3>1. /\ f \in Families /\ row.sets.rotation = families[f].rotation + 1
          /\ call[t].cookies.refresh.family = f
          /\ call[t].cookies.refresh.rotation = families[f].rotation
      BY <1>12, <2>1 DEF Renewal
    <3> HIDE DEF f
    <3>2. ASSUME NEW token \in Token, Bounded(token)
          PROVE  Older(token, row.sets)
      <4>1. SUFFICES ASSUME token.family = f PROVE token.rotation < row.sets.rotation
        BY DEF Older, f
      <4>2. token.rotation <= families[f].rotation /\ token.rotation \in Nat
        BY <3>1, <3>2, <4>1 DEF Bounded, Token
      <4> QED BY <1>5, <3>1, <4>2
    <3>3. /\ Older(jar.refresh, row.sets)
          /\ \A u \in Tabs : Older(call[u].cookies.refresh, row.sets)
      BY <1>5, <3>2 DEF CookieInv, TokensBounded
    <3>4. ASSUME NEW u \in Tabs, u # t, call[u].at = "answered", call[u].sets.family = f
          PROVE  FALSE
      <4>1. Older(call[t].cookies.refresh, call[u].sets)
        BY <3>1, <3>4 DEF CookieInv, NewTokensAreAlone
      <4>2. families[f].rotation < call[u].sets.rotation
        BY <3>1, <3>4, <4>1 DEF Older
      <4>3. call[u].sets.rotation <= families[f].rotation
        BY <3>1, <3>4 DEF CookieInv, TokensBounded, Bounded
      <4>4. call[u].sets.rotation \in Nat
        BY <1>5 DEF Token
      <4> QED BY <1>5, <3>1, <4>2, <4>3, <4>4
    <3> QED BY <3>3, <3>4 DEF f
  <2>2. CASE Beginning(t, row)
    <3>1. families[f].state = "absent"
      BY <2>2 DEF Beginning
    <3>2. \A token \in Token : Known(token) => token.family # f
      BY <1>12, <3>1 DEF Known
    <3> HIDE DEF f
    <3> QED BY <1>5, <3>2 DEF TabInv, CarriedAreKnown, Older, f
  <2>3. ~Refusal(t, row)
    BY <1>2, <1>12 DEF Refusal
  <2> QED BY <1>1, <2>1, <2>2, <2>3
<1>13. NewTokensAreAlone'
  <2>1. ASSUME NEW u \in Tabs, call'[u].at = "answered", call'[u].sets.family \in Families
        PROVE  /\ Older(jar'.refresh, call'[u].sets)
               /\ \A w \in Tabs :
                    /\ Older(call'[w].cookies.refresh, call'[u].sets)
                    /\ w # u /\ call'[w].at = "answered" =>
                         call'[w].sets.family # call'[u].sets.family
    <3>1. CASE u = t
      BY <1>2, <1>3, <1>12, <2>1, <3>1
    <3>2. CASE u # t
      <4>1. /\ Older(jar.refresh, call[u].sets)
            /\ \A w \in Tabs :
                 /\ Older(call[w].cookies.refresh, call[u].sets)
                 /\ w # u /\ call[w].at = "answered" => call[w].sets.family # call[u].sets.family
        BY <1>3, <2>1, <3>2 DEF CookieInv, NewTokensAreAlone
      <4>2. row.sets.family # call[u].sets.family
        BY <1>3, <1>12, <2>1, <3>2
      <4> QED BY <1>2, <1>3, <3>2, <4>1, <4>2
    <3> QED BY <3>1, <3>2
  <2> QED BY <2>1 DEF NewTokensAreAlone, Older
<1> QED BY <1>7, <1>9, <1>10, <1>11, <1>13 DEF CookieInv

\* A step that answers no call: calls are sent with the cookies of the jar or are over, and
\* the jar is emptied, loses its access token or takes what an answer brings.
Quiet ==
    /\ families' = families
    /\ \A u \in Tabs : \/ call'[u] = call[u]
                       \/ /\ call'[u].at # "answered" /\ call'[u].sets = NoToken
                          /\ call'[u].cookies \in {NoCookies, jar}
    /\ \/ jar'.refresh = jar.refresh /\ jar'.access \in {jar.access, Nothing}
       \/ jar' = NoCookies
       \/ \E t \in Tabs : /\ call[t].at = "answered" /\ call'[t].at # "answered"
                          /\ jar'.refresh = call[t].sets /\ jar'.access = call[t].sets.family

LEMMA QuietCookies == ASSUME TabInv, CookieInv, Quiet PROVE CookieInv'
<1>1. /\ Nothing \notin Families /\ NoToken.family = Nothing
      /\ NoCookies.refresh = NoToken /\ NoCookies.access = Nothing
  BY EmptyCalls DEF NoCookies
<1>2. /\ \A f : (Begun(f)' <=> Begun(f)) /\ (Over(f)' <=> Over(f))
      /\ \A token : Bounded(token)' <=> Bounded(token)
  BY DEF Quiet, Begun, Over, Bounded
<1>3. Begun(Nothing) /\ Bounded(NoToken)
  BY <1>1 DEF Begun, Bounded
<1>4. /\ Begun(jar.access) /\ \A u \in Tabs : Begun(call[u].cookies.access)
      /\ Bounded(jar.refresh)
      /\ \A u \in Tabs : Bounded(call[u].cookies.refresh) /\ Bounded(call[u].sets)
  BY DEF CookieInv, AccessKnown, TokensBounded
<1>5. \A u \in Tabs : Begun(call[u].sets.family)
  BY DEF TabInv, CarriedAreKnown, Known, Begun
<1>6. AccessKnown'
  <2>1. Begun(jar'.access)
    BY <1>1, <1>3, <1>4, <1>5 DEF Quiet
  <2>2. \A u \in Tabs : Begun(call'[u].cookies.access)
    BY <1>1, <1>3, <1>4 DEF Quiet
  <2> QED BY <2>1, <2>2 DEF Quiet, AccessKnown, Begun
<1>7. TokensBounded'
  <2>1. Bounded(jar'.refresh)
    BY <1>1, <1>3, <1>4 DEF Quiet
  <2>2. \A u \in Tabs : Bounded(call'[u].cookies.refresh) /\ Bounded(call'[u].sets)
    BY <1>1, <1>3, <1>4 DEF Quiet
  <2> QED BY <2>1, <2>2 DEF Quiet, TokensBounded, Bounded
<1>8. \A u \in Tabs : call'[u].at = "answered" => call'[u] = call[u]
  BY DEF Quiet
<1>9. DroppedRightly'
  BY <1>8 DEF CookieInv, DroppedRightly, MayDelete, Over, Quiet
<1>10. OwnExchange'
  BY <1>8 DEF CookieInv, OwnExchange
<1>11. NewTokensAreAlone'
  <2>1. ASSUME NEW u \in Tabs, call'[u].at = "answered", call'[u].sets.family \in Families
        PROVE  /\ Older(jar'.refresh, call'[u].sets)
               /\ \A w \in Tabs :
                    /\ Older(call'[w].cookies.refresh, call'[u].sets)
                    /\ w # u /\ call'[w].at = "answered" =>
                         call'[w].sets.family # call'[u].sets.family
    <3>1. call'[u] = call[u] /\ call[u].at = "answered" /\ call[u].sets.family \in Families
      BY <1>8, <2>1
    <3>2. /\ Older(jar.refresh, call[u].sets)
          /\ \A w \in Tabs :
               /\ Older(call[w].cookies.refresh, call[u].sets)
               /\ w # u /\ call[w].at = "answered" => call[w].sets.family # call[u].sets.family
      BY <3>1 DEF CookieInv, NewTokensAreAlone
    <3>3. Older(NoToken, call[u].sets)
      BY <1>1, <3>1 DEF Older
    <3>4. ASSUME NEW t \in Tabs, call[t].at = "answered", call'[t].at # "answered"
          PROVE  Older(call[t].sets, call[u].sets)
      BY <2>1, <3>2, <3>4 DEF Older
    <3>5. Older(jar'.refresh, call[u].sets)
      BY <1>1, <3>2, <3>3, <3>4 DEF Quiet
    <3>6. \A w \in Tabs : Older(call'[w].cookies.refresh, call[u].sets)
      BY <1>1, <3>2, <3>3 DEF Quiet
    <3> QED BY <1>8, <3>1, <3>2, <3>5, <3>6
  <2> QED BY <2>1 DEF NewTokensAreAlone, Older
<1> QED BY <1>6, <1>7, <1>9, <1>10, <1>11 DEF CookieInv

LEMMA ArriveIsQuiet == ASSUME TabInv, NEW t \in Tabs, Arrive(t) PROVE Quiet
<1>1. call \in [Tabs -> Call] /\ TabTypeOK /\ call[t].at = "answered" /\ call[t].code \in Codes
  BY DEF TabInv, TabTypeOK, Call, Arrive
<1>2. PICK row \in Call :
        /\ call' = [call EXCEPT ![t] = row] /\ row.at # "answered"
        /\ row.cookies = NoCookies /\ row.sets = NoToken
  BY <1>1, ToldShape, EmptyCalls DEF Arrive
<1>3. call'[t] = row /\ \A u \in Tabs \ {t} : call'[u] = call[u]
  BY <1>1, <1>2
<1>4. \/ jar' = jar \/ jar' = NoCookies
      \/ jar'.refresh = call[t].sets /\ jar'.access = call[t].sets.family
  BY DEF Arrive
<1> QED BY <1>1, <1>2, <1>3, <1>4 DEF Arrive, Quiet

LEMMA LoseIsQuiet == ASSUME TabInv, NEW t \in Tabs, Lose(t) PROVE Quiet
<1>1. call \in [Tabs -> Call] /\ TabTypeOK /\ call[t].at # "none" /\ "lost" \in Codes
  BY DEF TabInv, TabTypeOK, Lose, Codes
<1>2. PICK row \in Call :
        /\ call' = [call EXCEPT ![t] = row] /\ row.at # "answered"
        /\ row.cookies = NoCookies /\ row.sets = NoToken
  BY <1>1, ToldShape, EmptyCalls DEF Lose
<1>3. call'[t] = row /\ \A u \in Tabs \ {t} : call'[u] = call[u]
  BY <1>1, <1>2
<1> QED BY <1>2, <1>3 DEF Lose, Quiet

LEMMA PageIsQuiet ==
    ASSUME TabInv, NEW t \in Tabs, NEW row, NEW at, PageMoves(t, row, at) PROVE Quiet
<1>1. call \in [Tabs -> Call]
  BY DEF TabInv, TabTypeOK
<1>2. row = NoCall \/ row = call[t]
  BY DEF PageMoves
<1>3. call'[t] = row /\ \A u \in Tabs \ {t} : call'[u] = call[u]
  BY <1>1 DEF PageMoves
<1> QED BY <1>2, <1>3, EmptyCalls DEF PageMoves, Quiet

LEMMA SendIsQuiet ==
    ASSUME TabInv, NEW t \in Tabs, NEW kind \in {"request", "refresh", "login", "logout"}, NEW at,
           SendMoves(t, kind, at)
    PROVE  Quiet
<1>1. call \in [Tabs -> Call] /\ TabTypeOK
  BY DEF TabInv, TabTypeOK
<1>2. PICK row \in Call :
        /\ call' = [call EXCEPT ![t] = row]
        /\ row.at = "sent" /\ row.cookies = jar /\ row.sets = NoToken
  BY <1>1, SendShape DEF SendMoves
<1>3. call'[t] = row /\ \A u \in Tabs \ {t} : call'[u] = call[u]
  BY <1>1, <1>2
<1> QED BY <1>2, <1>3 DEF SendMoves, Quiet

LEMMA CookieStep == TabInv /\ CookieInv /\ [TabNext]_tabVars => CookieInv'
<1> SUFFICES ASSUME TabInv, CookieInv, [TabNext]_tabVars PROVE CookieInv'
  OBVIOUS
<1>1. CASE UNCHANGED tabVars
  BY <1>1, QuietCookies DEF tabVars, Quiet
<1>2. CASE AccessAges \/ AccessExpires
  <2>1. Quiet
    BY <1>2 DEF AccessAges, AccessExpires, Quiet, TabInv, TabTypeOK, Cookies
  <2> QED BY <2>1, QuietCookies
<1>3. CASE \E t \in Tabs : Serve(t)
  BY <1>3, ServeCookies
<1>4. CASE \E t \in Tabs : Arrive(t) \/ Lose(t)
  BY <1>4, ArriveIsQuiet, LoseIsQuiet, QuietCookies
<1>5. CASE \E t \in Tabs : \/ Close(t) \/ Open(t) \/ Ask(t) \/ RequestAnswered(t) \/ TakeTurn(t)
                           \/ CheckAnswered(t) \/ SendRefresh(t) \/ RefreshAnswered(t)
                           \/ LoginAnswered(t) \/ LogoutAnswered(t)
  BY <1>5, TabMoves, PageIsQuiet, SendIsQuiet, QuietCookies
<1> QED BY <1>1, <1>2, <1>3, <1>4, <1>5 DEF TabNext, TabStep

LEMMA CookieStart == TabInit => CookieInv
<1> SUFFICES ASSUME TabInit PROVE CookieInv
  OBVIOUS
<1>1. PICK f \in Families :
        /\ families = [g \in Families |-> IF g = f THEN [NoFamily EXCEPT !.state = "live"] ELSE NoFamily]
        /\ jar = [access |-> f, aged |-> TRUE, refresh |-> [family |-> f, rotation |-> 0]]
        /\ call = [t \in Tabs |-> NoCall]
  BY DEF TabInit
<1>2. families[f].state = "live" /\ families[f].rotation = 0
  BY <1>1 DEF NoFamily
<1>3. /\ \A t \in Tabs : call[t] = NoCall
      /\ jar.access = f /\ jar.refresh.family = f /\ jar.refresh.rotation = 0
      /\ NoCookies.access = Nothing
  BY <1>1 DEF NoCookies
<1> QED BY <1>2, <1>3, EmptyCalls
        DEF CookieInv, AccessKnown, Begun, TokensBounded, Bounded, DroppedRightly, OwnExchange,
            NewTokensAreAlone

\* While a session works, the browser's token of it goes only with a login, a logout, the
\* answer to a call of other cookies, or its own exchange, which brings a newer token.
THEOREM CookiesStay == TabSpec => CookiesAreKept
<1> DEFINE f == jar.refresh.family
           Kept == IsLive(f) /\ jar'.refresh # jar.refresh => \E t \in Tabs : TakesToken(t, f)
<1>1. ASSUME TabInv, CookieInv, NEW t \in Tabs, Arrive(t), IsLive(f), jar'.refresh # jar.refresh
      PROVE  TakesToken(t, f)
  <2>1. /\ TabTypeOK /\ call \in [Tabs -> Call] /\ call[t].at = "answered"
        /\ call[t].code \in Codes
    BY <1>1 DEF TabInv, TabTypeOK, Call, Arrive
  <2>2. call'[t].at # "answered"
    BY <1>1, <2>1, ToldShape, EmptyCalls DEF Arrive
  <2>3. f \in Families /\ families[f].state = "live" /\ ~Over(f)
    BY <1>1 DEF IsLive, TabInv, TabTypeOK, Cookies, Token, Over
  <2>4. CASE call[t].deletes
    <3>1. MayDelete(call[t])
      BY <2>1, <2>4, <1>1 DEF CookieInv, DroppedRightly
    <3> QED BY <2>1, <2>2, <2>3, <3>1 DEF MayDelete, TakesToken, Over
  <2>5. CASE ~call[t].deletes
    <3>1. call[t].sets # NoToken /\ jar'.refresh = call[t].sets
      BY <1>1, <2>5 DEF Arrive
    <3>2. call[t].kind \in {"login", "refresh"} /\ call[t].sets.family \in Families
      BY <1>1, <2>1, <3>1 DEF TabInv, AnswersAreRight
    <3>3. CASE call[t].kind = "refresh" /\ call[t].cookies.refresh.family = f
      <4>1. call[t].sets.family = f /\ Older(jar.refresh, call[t].sets)
        BY <1>1, <2>1, <3>1, <3>2, <3>3 DEF CookieInv, OwnExchange, NewTokensAreAlone
      <4>2. jar.refresh.rotation < call[t].sets.rotation
        BY <4>1 DEF Older
      <4>3. call[t].sets.rotation > jar.refresh.rotation
        BY <4>2
      <4> QED BY <2>1, <2>2, <3>1, <3>3, <4>1, <4>3 DEF TakesToken
    <3> QED BY <2>1, <2>2, <3>2, <3>3 DEF TakesToken
  <2> QED BY <2>4, <2>5
<1>2. TabInv /\ CookieInv /\ [TabNext]_tabVars => [Kept]_tabVars
  <2> SUFFICES ASSUME TabInv, CookieInv, TabNext, IsLive(f), jar'.refresh # jar.refresh
               PROVE  \E t \in Tabs : TakesToken(t, f)
    OBVIOUS
  <2>1. CASE \E t \in Tabs : Arrive(t)
    BY <1>1, <2>1
  <2>2. CASE AccessAges \/ AccessExpires
    BY <2>2 DEF AccessAges, AccessExpires, TabInv, TabTypeOK, Cookies
  <2>3. CASE UNCHANGED jar
    BY <2>3
  <2> QED BY <2>1, <2>2, <2>3, TabMoves
          DEF TabNext, TabStep, Serve, Lose, PageMoves, SendMoves
<1>3. CookiesAreKept <=> [][Kept]_tabVars
  BY DEF CookiesAreKept
<1> HIDE DEF Kept
<1> QED BY <1>2, <1>3, TabStart, TabKeeps, CookieStart, CookieStep, PTL DEF TabSpec
=============================================================================

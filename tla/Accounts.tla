------------------------------ MODULE Accounts ------------------------------
(***************************************************************************)
(* Everything that happens to one e-mail address: registration, the proofs *)
(* sent by mail, password login and reset, Google login, refresh sessions  *)
(* and the hourly cleanup (identity/service/authentication.py, google.py,  *)
(* identity/repository.py).                                                *)
(*                                                                         *)
(* A write locks the user's row first and is one action here.  Three reads *)
(* happen outside that lock and may be stale when they are used: the row a *)
(* password is verified against, the proof of a link, and the clock.       *)
(***************************************************************************)
EXTENDS Naturals, FiniteSets

CONSTANTS
    Proofs,       \* action tokens
    Sessions,     \* session rows
    Clients,      \* requests that are more than one transaction
    Secrets,      \* passwords
    MaxUsers,     \* bound: accounts created for the address
    MaxHashes,    \* bound: password hashes computed
    MaxRotations, \* bound: refreshes of one session
    None

ASSUME AccountAssumption ==
    /\ {MaxUsers, MaxHashes, MaxRotations} \subseteq Nat
    /\ None \notin Proofs \cup Sessions \cup Secrets

VARIABLES
    user,     \* the users row of the address
    proofs,   \* auth_action_tokens
    sessions, \* auth_sessions, with the password they were opened with
    client,   \* every request's step and what it read
    counted,  \* accounts and hashes so far
    uses,     \* history variable: what each proof brought about
    seen      \* history variable: refresh tokens presented, and sessions of reused ones

vars == <<user, proofs, sessions, client, counted, uses, seen>>

NoHash == [secret |-> None, salt |-> 0]
NoUser == [id |-> 0, active |-> TRUE, verified |-> FALSE, hash |-> NoHash,
           linked |-> FALSE, overdue |-> FALSE]
NoProof == [state |-> "absent", user |-> 0, purpose |-> "verify", expired |-> FALSE]
NoSession == [state |-> "absent", user |-> 0, rotation |-> 0, expired |-> FALSE,
              secret |-> None]
Idle == [at |-> "idle", user |-> 0, hash |-> NoHash, proof |-> None, overdue |-> FALSE]

Init ==
    /\ user = NoUser
    /\ proofs = [p \in Proofs |-> NoProof]
    /\ sessions = [s \in Sessions |-> NoSession]
    /\ client = [c \in Clients |-> Idle]
    /\ counted = [users |-> 0, hashes |-> 0]
    /\ uses = [p \in Proofs |-> 0]
    /\ seen = [presented |-> {}, reused |-> {}]

\* A hash has a salt of its own.
HashOf(secret) == [secret |-> secret, salt |-> counted.hashes + 1]
MayHash == counted.hashes < MaxHashes

\* ON DELETE CASCADE
ProofsWithout(id) ==
    [p \in Proofs |-> IF proofs[p].state # "absent" /\ proofs[p].user = id
                      THEN [NoProof EXCEPT !.state = "gone"] ELSE proofs[p]]

\* _create_mail_token: the earlier proofs of the purpose are used up.
WithNewProof(table, id, purpose, p) ==
    [q \in Proofs |->
       IF q = p THEN [NoProof EXCEPT !.state = "ready", !.user = id, !.purpose = purpose]
       ELSE IF table[q].state = "ready" /\ table[q].user = id /\ table[q].purpose = purpose
       THEN [table[q] EXCEPT !.state = "used"]
       ELSE table[q]]

-----------------------------------------------------------------------------
(* Registration and mails *)

\* An unverified account whose time is over makes room for a new registration.
Replaceable == user.id # 0 /\ user.overdue /\ ~user.verified

\* register_pending_user, under the lock of the address; a duplicate changes nothing.
Register ==
    /\ user.id = 0 \/ Replaceable
    /\ counted.users < MaxUsers
    /\ MayHash
    /\ \E secret \in Secrets, p \in Proofs :
         /\ proofs[p].state = "absent"
         /\ user' = [NoUser EXCEPT !.id = counted.users + 1, !.hash = HashOf(secret)]
         /\ proofs' = WithNewProof(ProofsWithout(user.id), counted.users + 1, "verify", p)
    /\ counted' = [users |-> counted.users + 1, hashes |-> counted.hashes + 1]
    /\ UNCHANGED <<sessions, client, uses, seen>>

MayMail(purpose) ==
    /\ user.id # 0 /\ user.active /\ user.hash # NoHash
    /\ \/ purpose = "reset" /\ user.verified
       \/ purpose = "verify" /\ ~user.verified /\ ~user.overdue

\* prepare_action_mail
RequestMail ==
    /\ \E purpose \in {"verify", "reset"}, p \in Proofs :
         /\ MayMail(purpose)
         /\ proofs[p].state = "absent"
         /\ proofs' = WithNewProof(proofs, user.id, purpose, p)
    /\ UNCHANGED <<user, sessions, client, counted, uses, seen>>

\* The unlocked read of a link's proof, and the time it is made.
ReadProof(c) ==
    /\ client[c].at = "idle"
    /\ \E p \in Proofs :
         /\ proofs[p].state = "ready" /\ ~proofs[p].expired
         /\ client' = [client EXCEPT ![c] =
              [Idle EXCEPT !.at = proofs[p].purpose, !.user = proofs[p].user,
                           !.proof = p, !.overdue = user.overdue]]
    /\ UNCHANGED <<user, proofs, sessions, counted, uses, seen>>

\* get_locked_user
Locked(id) == user.id = id /\ user.id # 0

\* Faulty: what the unlocked read saw is good enough.
MayConsumeUnchecked(p) == TRUE

\* consume_action_token: once, and by the database's clock.
MayConsume(p) == proofs[p].state = "ready" /\ ~proofs[p].expired

Consumable(c, purpose) ==
    /\ client[c].at = purpose
    /\ Locked(client[c].user)
    /\ user.active /\ user.hash # NoHash
    /\ IF purpose = "verify" THEN ~user.verified /\ ~client[c].overdue ELSE user.verified
    /\ MayConsume(client[c].proof)

Return(c) == client' = [client EXCEPT ![c] = Idle]

\* Faulty: the time limit of the registration stays.
VerifiedStillPending == [user EXCEPT !.verified = TRUE]

\* verify_user_email
Verified == [user EXCEPT !.verified = TRUE, !.overdue = FALSE]

\* verify_email, also when the time of the registration ran out after its clock was read
VerifyEmail(c) ==
    /\ Consumable(c, "verify")
    /\ user' = Verified
    /\ proofs' = [proofs EXCEPT ![client[c].proof].state = "used"]
    /\ uses' = [uses EXCEPT ![client[c].proof] = @ + 1]
    /\ Return(c)
    /\ UNCHANGED <<sessions, counted, seen>>

\* revoke_user_sessions
SessionsRevoked(id) ==
    [s \in Sessions |-> IF sessions[s].state = "live" /\ sessions[s].user = id
                        THEN [sessions[s] EXCEPT !.state = "revoked"] ELSE sessions[s]]

\* reset_password: every proof of the account is used up and every session ends.
ResetPassword(c) ==
    /\ Consumable(c, "reset")
    /\ MayHash
    /\ \E secret \in Secrets : user' = [user EXCEPT !.hash = HashOf(secret)]
    /\ counted' = [counted EXCEPT !.hashes = @ + 1]
    /\ proofs' = [p \in Proofs |->
         IF p = client[c].proof \/ (proofs[p].state = "ready" /\ proofs[p].user = user.id)
         THEN [proofs[p] EXCEPT !.state = "used"] ELSE proofs[p]]
    /\ uses' = [uses EXCEPT ![client[c].proof] = @ + 1]
    /\ sessions' = SessionsRevoked(user.id)
    /\ Return(c)
    /\ UNCHANGED <<seen>>

\* An error at any step leaves nothing behind.
Abandon(c) ==
    /\ client[c].at # "idle"
    /\ Return(c)
    /\ UNCHANGED <<user, proofs, sessions, counted, uses, seen>>

-----------------------------------------------------------------------------
(* Sessions *)

\* issue_session
Issued(s, hash) ==
    [sessions EXCEPT ![s] =
       [NoSession EXCEPT !.state = "live", !.user = user'.id, !.secret = hash.secret]]

\* login_user reads the row without a lock and verifies the password against it.
VerifyPassword(c) ==
    /\ client[c].at = "idle"
    /\ user.id # 0 /\ user.active /\ user.verified /\ user.hash # NoHash
    /\ client' = [client EXCEPT ![c] =
         [Idle EXCEPT !.at = "login", !.user = user.id, !.hash = user.hash]]
    /\ UNCHANGED <<user, proofs, sessions, counted, uses, seen>>

\* Faulty: the password was verified, whatever happened since.
StillSamePasswordAssumed(c) == TRUE

StillSamePassword(c) == user.hash = client[c].hash

\* login_user's second transaction; the hash may be brought up to date.
OpenSession(c) ==
    /\ client[c].at = "login"
    /\ Locked(client[c].user) /\ user.active /\ user.verified
    /\ StillSamePassword(c)
    /\ \E s \in Sessions, rehash \in BOOLEAN :
         /\ sessions[s].state = "absent"
         /\ IF rehash
            THEN /\ MayHash
                 /\ user' = [user EXCEPT !.hash = HashOf(client[c].hash.secret)]
                 /\ counted' = [counted EXCEPT !.hashes = @ + 1]
            ELSE UNCHANGED <<user, counted>>
         /\ sessions' = Issued(s, client[c].hash)
    /\ Return(c)
    /\ UNCHANGED <<proofs, uses, seen>>

\* link_google_account and issue_session: a new account without a password, or
\* the one linked earlier; any other account of the address is a conflict.
LoginWithGoogle ==
    /\ \/ /\ user.id = 0
          /\ counted.users < MaxUsers
          /\ user' = [NoUser EXCEPT !.id = counted.users + 1, !.verified = TRUE, !.linked = TRUE]
          /\ counted' = [counted EXCEPT !.users = @ + 1]
       \/ /\ user.linked /\ user.active
          /\ UNCHANGED <<user, counted>>
    /\ \E s \in Sessions :
         /\ sessions[s].state = "absent"
         /\ sessions' = Issued(s, NoHash)
    /\ UNCHANGED <<proofs, client, uses, seen>>

\* Faulty: a revoked session is only missing from lists.
ValidWhileListed(s) ==
    /\ user.id # 0 /\ user.active /\ user.verified
    /\ sessions[s].state \in {"live", "revoked"} /\ sessions[s].user = user.id
    /\ ~sessions[s].expired

\* _require_valid_session
Valid(s) ==
    /\ user.id # 0 /\ user.active /\ user.verified
    /\ sessions[s].state = "live" /\ sessions[s].user = user.id
    /\ ~sessions[s].expired

\* Faulty: the error is raised inside the transaction and takes the revocation back.
AfterReuseRolledBack(s) == sessions

AfterReuse(s) == [sessions EXCEPT ![s].state = "revoked"]

\* refresh_session, with the newest refresh token of the session or an older one.
Refresh(s) ==
    /\ Valid(s)
    /\ \E r \in 0..sessions[s].rotation :
         /\ IF r = sessions[s].rotation
            THEN /\ r < MaxRotations
                 /\ sessions' = [sessions EXCEPT ![s].rotation = @ + 1]
            ELSE sessions' = AfterReuse(s)
         /\ seen' = [presented |-> seen.presented \cup {<<s, r>>},
                     reused |-> IF <<s, r>> \in seen.presented
                                THEN seen.reused \cup {s} ELSE seen.reused]
    /\ UNCHANGED <<user, proofs, client, counted, uses>>

\* logout_session
Logout(s) ==
    /\ sessions[s].state = "live"
    /\ sessions' = [sessions EXCEPT ![s].state = "revoked"]
    /\ UNCHANGED <<user, proofs, client, counted, uses, seen>>

\* logout_all_sessions
LogoutAll(s) ==
    /\ Valid(s)
    /\ sessions' = SessionsRevoked(user.id)
    /\ UNCHANGED <<user, proofs, client, counted, uses, seen>>

-----------------------------------------------------------------------------
(* Time, operations and cleanup *)

\* Nothing in the repository suspends or reinstates an account; operations do.
ChangeStatus ==
    /\ user.id # 0
    /\ user' = [user EXCEPT !.active = ~@]
    /\ UNCHANGED <<proofs, sessions, client, counted, uses, seen>>

RegistrationExpires ==
    /\ user.id # 0 /\ ~user.verified /\ ~user.overdue
    /\ user' = [user EXCEPT !.overdue = TRUE]
    /\ UNCHANGED <<proofs, sessions, client, counted, uses, seen>>

ProofExpires(p) ==
    /\ proofs[p].state \in {"ready", "used"} /\ ~proofs[p].expired
    /\ proofs' = [proofs EXCEPT ![p].expired = TRUE]
    /\ UNCHANGED <<user, sessions, client, counted, uses, seen>>

SessionExpires(s) ==
    /\ sessions[s].state \in {"live", "revoked"} /\ ~sessions[s].expired
    /\ sessions' = [sessions EXCEPT ![s].expired = TRUE]
    /\ UNCHANGED <<user, proofs, client, counted, uses, seen>>

\* delete_expired_records
CleanUp ==
    /\ user' = IF Replaceable THEN NoUser ELSE user
    /\ LET left == IF Replaceable THEN ProofsWithout(user.id) ELSE proofs
       IN  proofs' = [p \in Proofs |-> IF left[p].expired
                                        THEN [NoProof EXCEPT !.state = "gone"] ELSE left[p]]
    /\ sessions' = [s \in Sessions |-> IF sessions[s].expired
                                        THEN [NoSession EXCEPT !.state = "gone"] ELSE sessions[s]]
    /\ UNCHANGED <<client, counted, uses, seen>>

Next ==
    \/ Register \/ RequestMail \/ LoginWithGoogle
    \/ \E c \in Clients :
         \/ ReadProof(c) \/ VerifyEmail(c) \/ ResetPassword(c)
         \/ VerifyPassword(c) \/ OpenSession(c) \/ Abandon(c)
    \/ \E s \in Sessions : Refresh(s) \/ Logout(s) \/ LogoutAll(s) \/ SessionExpires(s)
    \/ \E p \in Proofs : ProofExpires(p)
    \/ ChangeStatus \/ RegistrationExpires \/ CleanUp

Spec == Init /\ [][Next]_vars

-----------------------------------------------------------------------------
(* Properties *)

Hashes == [secret: Secrets \cup {None}, salt: 0..MaxHashes]

\* The shape of the rows and of what requests have read.
TypeOK ==
    /\ user \in [id: 0..MaxUsers, active: BOOLEAN, verified: BOOLEAN, hash: Hashes,
                 linked: BOOLEAN, overdue: BOOLEAN]
    /\ user.verified => ~user.overdue
    /\ proofs \in [Proofs -> [state: {"absent", "ready", "used", "gone"}, user: 0..MaxUsers,
                              purpose: {"verify", "reset"}, expired: BOOLEAN]]
    /\ sessions \in [Sessions -> [state: {"absent", "live", "revoked", "gone"},
                                  user: 0..MaxUsers, rotation: 0..MaxRotations,
                                  expired: BOOLEAN, secret: Secrets \cup {None}]]
    /\ client \in [Clients -> [at: {"idle", "verify", "reset", "login"}, user: 0..MaxUsers,
                               hash: Hashes, proof: Proofs \cup {None}, overdue: BOOLEAN]]
    /\ counted \in [users: 0..MaxUsers, hashes: 0..MaxHashes]
    /\ uses \in [Proofs -> Nat]
    /\ seen \in [presented: SUBSET (Sessions \X (0..MaxRotations)), reused: SUBSET Sessions]

\* A session that still works was opened with the password the account has now: no
\* login that was under way and no open session survives a reset.
SessionsKnowThePassword ==
    \A s \in Sessions : sessions[s].state = "live" =>
        sessions[s].user = user.id /\ sessions[s].secret = user.hash.secret

\* Whatever is requested and used at once: of the proofs mailed to an account only
\* the newest of a purpose is good, and it has its effect once.
NewestProofWorksOnce ==
    /\ \A p, q \in Proofs :
          /\ proofs[p].state = "ready" /\ proofs[q].state = "ready"
          /\ proofs[p].user = proofs[q].user /\ proofs[p].purpose = proofs[q].purpose
          => p = q
    /\ \A p \in Proofs : uses[p] <= 1

\* A refresh token that is presented twice ends its session, whoever comes second.
ReuseEndsSession == \A s \in seen.reused : sessions[s].state # "live"

\* A session that has ended is not refreshed and does not come back.
EndedSessionsStay ==
    [][\A s \in Sessions : sessions[s].state \in {"revoked", "gone"} =>
         /\ sessions'[s].state \in {sessions[s].state, "gone"}
         /\ sessions'[s].rotation \in {sessions[s].rotation, 0}]_vars

\* The invariants of sessions: of whoever opened them, and once a token was reused.
SessionsAreSound == TypeOK /\ SessionsKnowThePassword /\ ReuseEndsSession
=============================================================================

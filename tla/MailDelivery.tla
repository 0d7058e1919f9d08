---------------------------- MODULE MailDelivery ----------------------------
(***************************************************************************)
(* The outbox of action mails (address verification, password reset) of one *)
(* account and the worker processes that deliver it:                       *)
(* identity/service/mail_delivery.py and auth_mail_worker.py.              *)
(*                                                                         *)
(* A mail is written with the proof it carries in one transaction.  The    *)
(* worker holds neither transaction nor lock while it talks to the SMTP    *)
(* server, so a lease may run out, and a process may die, at any point.    *)
(* What a proof does when it is used is in Accounts; here it only stops    *)
(* being usable.                                                           *)
(***************************************************************************)
EXTENDS Naturals, FiniteSets

CONSTANTS
    Mails,            \* outbox rows, each of one proof
    MailWorkers,      \* worker processes
    MailTokens,       \* claim tokens: always one that nobody holds
    MaxMailAttempts,  \* MAX_ATTEMPTS
    NoMailToken

ASSUME MailAssumption ==
    /\ MaxMailAttempts \in Nat \ {0}
    /\ NoMailToken \notin MailTokens \cup Mails
    /\ IsFiniteSet(Mails) /\ IsFiniteSet(MailWorkers) /\ IsFiniteSet(MailTokens)
    /\ Cardinality(MailTokens) > Cardinality(Mails) + Cardinality(MailWorkers)

VARIABLES
    eligible,    \* the account's state still allows the action
    proof,       \* every mail's action token
    mail,        \* the auth_mail_outbox rows
    mailWorker,  \* every worker's step and locals
    delivered    \* history variable: times the server accepted each mail

mailVars == <<eligible, proof, mail, mailWorker, delivered>>

NoMail == [status |-> "absent", attempts |-> 0, claim |-> NoMailToken, leaseOver |-> FALSE,
           due |-> TRUE, secret |-> FALSE]

MailWorkerFree == [at |-> "idle", mail |-> NoMailToken, claim |-> NoMailToken, outcome |-> "none"]

MailInit ==
    /\ eligible = TRUE
    /\ proof = [m \in Mails |-> "absent"]
    /\ mail = [m \in Mails |-> NoMail]
    /\ mailWorker = [w \in MailWorkers |-> MailWorkerFree]
    /\ delivered = [m \in Mails |-> 0]

-----------------------------------------------------------------------------
(* The account *)

\* _create_mail_token: a new proof ends the earlier ones, and its mail is written
\* with it.
RequestMail(m) ==
    /\ eligible
    /\ proof[m] = "absent"
    /\ proof' = [n \in Mails |-> IF n = m THEN "usable"
                                 ELSE IF proof[n] = "usable" THEN "spent" ELSE proof[n]]
    /\ mail' = [mail EXCEPT ![m] = [NoMail EXCEPT !.status = "pending", !.secret = TRUE]]
    /\ UNCHANGED <<eligible, mailWorker, delivered>>

\* A proof is used, expires, or is ended by a password reset.
SpendProof(m) ==
    /\ proof[m] = "usable"
    /\ proof' = [proof EXCEPT ![m] = "spent"]
    /\ UNCHANGED <<eligible, mail, mailWorker, delivered>>

\* The account is verified, suspended or reinstated, or its registration runs out.
ChangeEligibility ==
    /\ eligible' = ~eligible
    /\ UNCHANGED <<proof, mail, mailWorker, delivered>>

\* delete_expired_records; the outbox row goes with its token.
CleanUp(m) ==
    /\ proof[m] = "spent"
    /\ proof' = [proof EXCEPT ![m] = "deleted"]
    /\ mail' = [mail EXCEPT ![m] = [NoMail EXCEPT !.status = "deleted"]]
    /\ UNCHANGED <<eligible, mailWorker, delivered>>

-----------------------------------------------------------------------------
(* deliver_next_mail: claim, send, complete *)

\* Faulty: only mails that wait are taken, never those of a dead worker.
DuePendingOnly(m) == mail[m].status = "pending" /\ mail[m].due

\* get_due_mail_outbox
Due(m) ==
    \/ mail[m].status = "pending" /\ mail[m].due
    \/ mail[m].status = "processing" /\ mail[m].leaseOver

\* Faulty: an attempt counts when the server has answered.
AttemptsAfterAnswer(m) == mail[m].attempts

AttemptsAfterClaim(m) == mail[m].attempts + 1

\* Faulty: a mail that is given up keeps its encrypted proof.
GivenUpWithSecret(m, status) ==
    [mail[m] EXCEPT !.status = status, !.claim = NoMailToken, !.leaseOver = FALSE]

\* A row that will not be sent any more loses its payload.
GivenUp(m, status) ==
    [mail[m] EXCEPT !.status = status, !.claim = NoMailToken, !.leaseOver = FALSE,
                    !.secret = FALSE]

Exhausted(m) == mail[m].attempts >= MaxMailAttempts

HeldMailTokens == {mail[m].claim : m \in Mails} \cup {mailWorker[w].claim : w \in MailWorkers}

\* A new UUID: any identifier nobody holds will do.
NewMailToken == CHOOSE token \in MailTokens : token \notin HeldMailTokens

\* claim_mail.  The payload may have been encrypted with a key that is gone.
ClaimMail(w) ==
    /\ mailWorker[w].at = "idle"
    /\ \E m \in Mails, readable \in BOOLEAN :
         /\ Due(m)
         /\ IF Exhausted(m)
            THEN mail' = [mail EXCEPT ![m] = GivenUp(m, "failed")] /\ UNCHANGED mailWorker
            ELSE IF proof[m] # "usable" \/ ~eligible
            THEN mail' = [mail EXCEPT ![m] = GivenUp(m, "cancelled")] /\ UNCHANGED mailWorker
            ELSE IF ~readable
            THEN mail' = [mail EXCEPT ![m] = GivenUp(m, "failed")] /\ UNCHANGED mailWorker
            ELSE LET token == NewMailToken IN
                   /\ mail' = [mail EXCEPT
                        ![m].status = "processing", ![m].attempts = AttemptsAfterClaim(m),
                        ![m].claim = token, ![m].leaseOver = FALSE]
                   /\ mailWorker' = [mailWorker EXCEPT ![w] =
                        [MailWorkerFree EXCEPT !.at = "send", !.mail = m, !.claim = token]]
    /\ UNCHANGED <<eligible, proof, delivered>>

\* send_mail: an answer can be lost after the server took the mail, but a mail it
\* did not take is never reported as sent.
Reports(accepted) == IF accepted THEN {"sent", "retry"} ELSE {"retry", "failed"}

Send(w) ==
    /\ mailWorker[w].at = "send"
    /\ \E accepted \in BOOLEAN :
         /\ \E outcome \in Reports(accepted) :
              mailWorker' = [mailWorker EXCEPT ![w].at = "complete", ![w].outcome = outcome]
         /\ delivered' = [delivered EXCEPT ![mailWorker[w].mail] =
                            IF accepted THEN @ + 1 ELSE @]
    /\ UNCHANGED <<eligible, proof, mail>>

\* Faulty: whoever sent the mail reports it.
OwnsAny(w) == TRUE

\* get_claimed_mail_outbox: the claim still stands and its lease has not run out.
OwnsMail(w) ==
    LET row == mail[mailWorker[w].mail]
    IN  row.status = "processing" /\ row.claim = mailWorker[w].claim /\ ~row.leaseOver

\* The row after an outcome; a proof that will not outlive the backoff is not
\* worth another attempt.
Completed(m, outcome, outlives) ==
    IF outcome = "sent" THEN GivenUp(m, "sent")
    ELSE IF outcome = "failed" \/ Exhausted(m) THEN GivenUp(m, "failed")
    ELSE IF proof[m] # "usable" \/ ~outlives THEN GivenUp(m, "cancelled")
    ELSE [mail[m] EXCEPT !.status = "pending", !.claim = NoMailToken, !.leaseOver = FALSE,
                         !.due = FALSE]

\* complete_mail: nothing happens to a claim that was lost.
CompleteMail(w) ==
    /\ mailWorker[w].at = "complete"
    /\ \E outlives \in BOOLEAN :
         mail' = IF OwnsMail(w)
                 THEN [mail EXCEPT ![mailWorker[w].mail] =
                         Completed(mailWorker[w].mail, mailWorker[w].outcome, outlives)]
                 ELSE mail
    /\ mailWorker' = [mailWorker EXCEPT ![w] = MailWorkerFree]
    /\ UNCHANGED <<eligible, proof, delivered>>

\* Any other error ends the process, which is started again; the lease remains.
Crash(w) ==
    /\ mailWorker[w].at # "idle"
    /\ mailWorker' = [mailWorker EXCEPT ![w] = MailWorkerFree]
    /\ UNCHANGED <<eligible, proof, mail, delivered>>

MailLeaseExpires(m) ==
    /\ mail[m].status = "processing"
    /\ ~mail[m].leaseOver
    /\ mail' = [mail EXCEPT ![m].leaseOver = TRUE]
    /\ UNCHANGED <<eligible, proof, mailWorker, delivered>>

MailBackoffElapses(m) ==
    /\ mail[m].status = "pending"
    /\ ~mail[m].due
    /\ mail' = [mail EXCEPT ![m].due = TRUE]
    /\ UNCHANGED <<eligible, proof, mailWorker, delivered>>

WorkMail(w) == ClaimMail(w) \/ Send(w) \/ CompleteMail(w)

MailNext ==
    \/ \E m \in Mails : RequestMail(m) \/ SpendProof(m) \/ CleanUp(m)
    \/ ChangeEligibility
    \/ \E w \in MailWorkers : WorkMail(w) \/ Crash(w)
    \/ \E m \in Mails : MailLeaseExpires(m) \/ MailBackoffElapses(m)

MailSpec == MailInit /\ [][MailNext]_mailVars

\* The worker loop runs, restarted when it dies, and every SMTP call has a time
\* limit.  Time passes.  A crash may hit every single attempt.
MailFairness ==
    /\ \A w \in MailWorkers : WF_mailVars(WorkMail(w))
    /\ \A m \in Mails : WF_mailVars(MailLeaseExpires(m)) /\ WF_mailVars(MailBackoffElapses(m))

FairMailSpec == MailSpec /\ MailFairness

-----------------------------------------------------------------------------
(* Properties *)

Waiting == {"pending", "processing"}
Settled == {"sent", "failed", "cancelled", "deleted"}

\* The shape of rows and workers, with the attempts within their limit.
MailTypeOK ==
    /\ eligible \in BOOLEAN
    /\ proof \in [Mails -> {"absent", "usable", "spent", "deleted"}]
    /\ mail \in [Mails -> [status: {"absent"} \cup Waiting \cup Settled,
                           attempts: 0..MaxMailAttempts, claim: MailTokens \cup {NoMailToken},
                           leaseOver: BOOLEAN, due: BOOLEAN, secret: BOOLEAN]]
    /\ mailWorker \in [MailWorkers ->
         [at: {"idle", "send", "complete"}, mail: Mails \cup {NoMailToken},
          claim: MailTokens \cup {NoMailToken}, outcome: {"none", "sent", "retry", "failed"}]]
    /\ delivered \in [Mails -> Nat]

\* However often workers die or lose their claim, nobody receives a mail more than
\* MAX_ATTEMPTS times.
DeliveriesAreBounded == \A m \in Mails : delivered[m] <= MaxMailAttempts

\* The encrypted proof is kept exactly as long as its mail may still be sent.
SecretsAreCleared == \A m \in Mails : mail[m].secret <=> mail[m].status \in Waiting

\* A settled row is not touched again but deleted: late reports of lost claims
\* change nothing.
SettledStays ==
    [][\A m \in Mails : mail[m].status \in Settled =>
         mail'[m].status \in {mail[m].status, "deleted"}]_mailVars

\* A mail that was requested is sent or given up, even if every attempt crashes.
MailIsResolved == \A m \in Mails : mail[m].status \in Waiting ~> mail[m].status \in Settled

\* What the queue keeps safe: its rows are well formed, nobody is mailed without
\* end, secrets end with their mail, and late reports change nothing settled.
MailIsSafe == [](MailTypeOK /\ DeliveriesAreBounded /\ SecretsAreCleared) /\ SettledStays
=============================================================================

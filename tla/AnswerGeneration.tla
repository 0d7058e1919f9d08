-------------------------- MODULE AnswerGeneration --------------------------
(***************************************************************************)
(* One conversation of the chat service and everything that may act on it  *)
(* while an AI answer is produced: replicas executing `generate_answer`    *)
(* (AnswerOrchestrator), the recovery loop of every replica, the operator's*)
(* recovery command, and the owner editing history or switching version.  *)
(*                                                                         *)
(* Every database transaction locks the conversation row first, so one     *)
(* transaction is one action.  What interleaves are the gaps between       *)
(* transactions: unlocked preparation, the provider call, lost commit      *)
(* acknowledgements, process death, lease expiry and recovery.             *)
(*                                                                         *)
(* Time enters only through comparisons with `now`, which are monotone:    *)
(* `leaseOver` is answer_lease_until <= now and `due` is                   *)
(* answer_recovery_next_at <= now (or NULL).                               *)
(***************************************************************************)
EXTENDS Naturals, Sequences, FiniteSets

CONSTANTS
    Executions,   \* calls of generate_answer; each has a fresh execution token
    Recoverers,   \* recovery loops, one per running replica
    Operators,    \* operators running the recovery command
    Keys,         \* request keys the client may use (and replay)
    Versions,     \* product snapshot versions, a set of naturals
    MaxAttempts,  \* ANSWER_RECOVERY_MAX_ATTEMPTS
    MaxManual,    \* bound: attempts after which no operator starts another
    MaxHistory,   \* bound: history version after which the owner stops editing
    None          \* "no value"

Workers == Executions \cup Recoverers \cup Operators

ASSUME ActorAssumption ==
    /\ Executions \cap Recoverers = {}
    /\ Executions \cap Operators = {}
    /\ Recoverers \cap Operators = {}
    /\ None \notin Workers \cup Keys

ASSUME BoundAssumption ==
    /\ MaxAttempts \in Nat \ {0}
    /\ MaxManual \in Nat
    /\ MaxHistory \in Nat
    /\ Versions \subseteq Nat
    /\ Versions # {}

VARIABLES
    run,             \* ProductGeneration row of each request key
    credit,          \* credit reservation bound to it
    usage,           \* usage rows written for it, and how many carry a cost
    calls,           \* how many times its provider request was sent
    messages,        \* the conversation's messages, oldest first
    historyVersion,  \* chat_history_versions.version
    memoryRequested, \* requested_generation of the conversation's memory job
    product,         \* conversation.product_snapshot_id and expired snapshots
    worker           \* program counter and locals of every actor

vars == <<run, credit, usage, calls, messages, historyVersion,
          memoryRequested, product, worker>>

-----------------------------------------------------------------------------
(* Rows *)

Pending == "pending"
Terminal == {"succeeded", "failed", "cancelled", "stale"}

\* What result_ready metadata says: an answer, or the recorded error_code.
CallOutcomes == {"answer", "rejected", "uncertain", "cancelled"}
PreparationFailures == {"preparation_failed", "summary_required"}
Interruptions == {"interrupted_before_call", "interrupted_uncertain"}
Outcomes == CallOutcomes \cup PreparationFailures \cup Interruptions

Ref == [id: Nat, rev: Nat]
NoRef == [id |-> 0, rev |-> 0]

NoRun ==
    [status |-> "absent", phase |-> "none", token |-> None, billed |-> FALSE,
     outcome |-> "none", input |-> NoRef, version |-> 0, leaseOver |-> FALSE,
     attempts |-> 0, due |-> TRUE, quarantined |-> FALSE, invalidated |-> FALSE]

Idle == [at |-> "idle", key |-> None, input |-> NoRef, seen |-> [history |-> 0, version |-> 0],
         plan |-> "none", recover |-> FALSE, attempt |-> 0]

Last == messages[Len(messages)]

\* get_answer_input and begin_generation: the request must name the last
\* message, it must be the user's, and its revision must not have moved.
IsCurrentInput(ref) ==
    /\ messages # <<>>
    /\ Last.from = "user"
    /\ ref = [id |-> Last.id, rev |-> Last.rev]

\* has_pending_generation, negated
ConversationIdle == \A k \in Keys : run[k].status # Pending

Available(v) == v \notin product.expired

Staged(k) == run[k].phase = "result_ready"

\* Faulty: only a staged result is recovered, an abandoned call never is.
RecoverableStagedOnly(k) == run[k].status = Pending /\ Staged(k)

Recoverable(k) == run[k].status = Pending /\ (Staged(k) \/ run[k].leaseOver)

-----------------------------------------------------------------------------
Init ==
    /\ run = [k \in Keys |-> NoRun]
    /\ credit = [k \in Keys |-> "none"]
    /\ usage = [k \in Keys |-> [rows |-> 0, charged |-> 0]]
    /\ calls = [k \in Keys |-> 0]
    /\ messages = <<>>
    /\ historyVersion = 0
    /\ memoryRequested = 0
    /\ product \in [version: Versions, expired: {{}}]
    /\ worker = [w \in Workers |-> Idle]

store == <<run, credit, usage, calls, messages, historyVersion,
           memoryRequested, product>>

\* Move actor w to step `at`, leaving its locals alone.
Goto(w, at) == worker' = [worker EXCEPT ![w].at = at]

\* Where an actor goes once it has nothing more to do: an execution answers its
\* caller and is over, a recovery loop or an operator may start again.
Rest(w) == IF w \in Executions THEN "done" ELSE "idle"

Return(w) == worker' = [worker EXCEPT ![w] = [Idle EXCEPT !.at = Rest(w)]]

-----------------------------------------------------------------------------
(* generate_answer, one action per transaction or external call *)

\* _get_request found the key: a different input, or history rewritten since,
\* is a conflict; a pending run that is staged or abandoned is resumed.
Resume(w, k, ref) ==
    IF run[k].input = ref /\ ~run[k].invalidated /\ Recoverable(k)
    THEN worker' = [worker EXCEPT ![w] =
                      [Idle EXCEPT !.at = "claim", !.key = k, !.recover = TRUE]]
    ELSE Return(w)

\* What a client can name as its input: a message it has seen, or the input of
\* the request it is replaying.
KnownRefs(k) ==
    {[id |-> messages[i].id, rev |-> messages[i].rev] : i \in DOMAIN messages}
        \cup {run[k].input}

\* First transaction: an existing request is resumed, otherwise the input is
\* checked and the conditions of the answer are remembered.
Lookup(w) ==
    /\ worker[w].at = "idle"
    /\ \E k \in Keys : \E ref \in KnownRefs(k) :
         IF run[k].status # "absent"
         THEN Resume(w, k, ref)
         ELSE IF IsCurrentInput(ref) /\ Available(product.version)
         THEN worker' = [worker EXCEPT ![w] =
                [Idle EXCEPT !.at = "prepare", !.key = k, !.input = ref,
                   !.seen = [history |-> historyVersion, version |-> product.version]]]
         ELSE Return(w)
    /\ UNCHANGED store

\* Memory retrieval and prompt construction, without locks or reservations.
Prepare(w) ==
    /\ worker[w].at = "prepare"
    /\ \E plan \in {"prompt"} \cup PreparationFailures :
         worker' = [worker EXCEPT ![w].at = "reserve", ![w].plan = plan]
    /\ UNCHANGED store

\* Nothing the prompt was built from has changed since Lookup.
ConditionsHold(w) ==
    /\ worker[w].seen = [history |-> historyVersion, version |-> product.version]
    /\ IsCurrentInput(worker[w].input)
    /\ ConversationIdle
    /\ Available(product.version)

\* The reservation transaction: generation row, quote, credit reservation,
\* metadata and lease together.  The acknowledgement may be lost.
Reserve(w) ==
    LET k == worker[w].key
        billed == worker[w].plan = "prompt"
    IN  /\ worker[w].at = "reserve"
        /\ run[k].status = "absent"
        /\ ConditionsHold(w)
        /\ run' = [run EXCEPT ![k] =
             [NoRun EXCEPT !.status = Pending,
                           !.phase = IF billed THEN "reserved" ELSE "result_ready",
                           !.token = w, !.billed = billed,
                           !.outcome = IF billed THEN "none" ELSE worker[w].plan,
                           !.input = worker[w].input,
                           !.version = product.version]]
        /\ credit' = [credit EXCEPT ![k] = IF billed THEN "reserved" ELSE "none"]
        /\ \/ Goto(w, IF billed THEN "stage_call" ELSE "finalize")
           \/ Goto(w, "reread")
        /\ UNCHANGED <<usage, calls, messages, historyVersion, memoryRequested, product>>

\* The same transaction when it must not or cannot reserve: the request appeared
\* meanwhile, the conditions changed, credit is short, or the commit failed.
ReserveNothing(w) ==
    LET k == worker[w].key
    IN  /\ worker[w].at = "reserve"
        /\ IF run[k].status # "absent"
           THEN Resume(w, k, worker[w].input)
           ELSE Return(w) \/ Goto(w, "reread")
        /\ UNCHANGED store

\* After a storage error in the reservation: only a durable row is acted on.
Reread(w) ==
    /\ worker[w].at = "reread"
    /\ IF run[worker[w].key].status # "absent"
       THEN Resume(w, worker[w].key, worker[w].input)
       ELSE Return(w)
    /\ UNCHANGED store

\* update_answer: only the execution that owns the token may write, only while
\* its lease agrees with the writer's role, and never over a staged result.
MayUpdate(k, token, recovering) ==
    /\ run[k].status = Pending
    /\ run[k].token = token
    /\ run[k].leaseOver = recovering
    /\ ~Staged(k)

\* Make "about to call" durable before the provider can be reached.
StageCalling(w) ==
    LET k == worker[w].key
    IN  /\ worker[w].at = "stage_call"
        /\ MayUpdate(k, w, FALSE)
        /\ run' = [run EXCEPT ![k].phase = "calling"]
        /\ Goto(w, "call") \/ Goto(w, "reconcile")
        /\ UNCHANGED <<credit, usage, calls, messages, historyVersion,
                       memoryRequested, product>>

CallProvider(w) ==
    /\ worker[w].at = "call"
    /\ calls' = [calls EXCEPT ![worker[w].key] = @ + 1]
    /\ Goto(w, "calling")
    /\ UNCHANGED <<run, credit, usage, messages, historyVersion,
                   memoryRequested, product>>

\* The provider answers, refuses, times out, or the caller cancels.
Receive(w) ==
    /\ worker[w].at = "calling"
    /\ \E outcome \in CallOutcomes :
         worker' = [worker EXCEPT ![w].at = "stage_result", ![w].plan = outcome]
    /\ UNCHANGED store

\* A cancelled execution logs a storage error and re-raises; any other one
\* looks at what became durable.
AfterStageError(w) ==
    IF worker[w].plan = "cancelled" THEN Return(w) ELSE Goto(w, "reconcile")

StageResult(w) ==
    LET k == worker[w].key
    IN  /\ worker[w].at = "stage_result"
        /\ MayUpdate(k, w, FALSE)
        /\ run' = [run EXCEPT ![k].phase = "result_ready", ![k].outcome = worker[w].plan]
        /\ Goto(w, "finalize") \/ AfterStageError(w)
        /\ UNCHANGED <<credit, usage, calls, messages, historyVersion,
                       memoryRequested, product>>

\* Faulty: an execution that could not make "calling" durable calls anyway.
StageFailsUnnoticed(w) ==
    /\ worker[w].at \in {"stage_call", "stage_result"}
    /\ IF worker[w].at = "stage_call" THEN Goto(w, "call") ELSE AfterStageError(w)
    /\ UNCHANGED store

\* Either staging transaction refused (ownership or lease lost) or failed.
StageFails(w) ==
    /\ worker[w].at \in {"stage_call", "stage_result"}
    /\ AfterStageError(w)
    /\ UNCHANGED store

\* Faulty: a storage error after the call makes the execution call again.
ReconcileByCalling(w) ==
    /\ worker[w].at = "reconcile"
    /\ IF run[worker[w].key].phase = "calling" THEN Goto(w, "call") ELSE Return(w)
    /\ UNCHANGED store

\* _reconcile_storage: finish what is durably staged, otherwise leave the run
\* and its reservation to recovery.
Reconcile(w) ==
    LET k == worker[w].key
    IN  /\ worker[w].at = "reconcile"
        /\ IF run[k].status = Pending /\ Staged(k)
           THEN Goto(w, "finalize")
           ELSE Return(w)
        /\ UNCHANGED store

-----------------------------------------------------------------------------
(* Recovery admission *)

\* The recovery loop's scan: expired, unquarantined, due, attempts left.
Scan(w) ==
    /\ worker[w].at = "idle"
    /\ \E k \in Keys :
         /\ run[k].status = Pending
         /\ run[k].leaseOver
         /\ ~run[k].quarantined
         /\ run[k].attempts < MaxAttempts
         /\ run[k].due
         /\ worker' = [worker EXCEPT ![w] =
                         [Idle EXCEPT !.at = "claim", !.key = k, !.recover = TRUE]]
    /\ UNCHANGED store

\* recover_answer: one audited manual attempt, whatever the automatic budget.
ManualRecovery(w) ==
    /\ worker[w].at = "idle"
    /\ \E k \in Keys :
         /\ run[k].status = Pending
         /\ run[k].attempts < MaxManual
         /\ worker' = [worker EXCEPT ![w] =
                         [Idle EXCEPT !.at = "claim", !.key = k, !.recover = TRUE]]
    /\ UNCHANGED store

\* Faulty: the claim trusts the scan that found the run.
ClaimableUnchecked(k, manual) == Recoverable(k) /\ run[k].due

Claimable(k, manual) ==
    /\ Recoverable(k)
    /\ run[k].due
    /\ manual \/ (~run[k].quarantined /\ run[k].attempts < MaxAttempts)

\* Faulty: off by one, the last automatic attempt is not quarantined.
LastAttemptLate(attempt) == attempt > MaxAttempts

LastAttempt(attempt) == attempt >= MaxAttempts

\* claim_answer_recovery commits the attempt, its backoff and, for the last
\* automatic or any manual attempt, the quarantine, before anything is retried.
Claim(w) ==
    LET k == worker[w].key
        manual == w \in Operators
        attempt == run[k].attempts + 1
    IN  /\ worker[w].at = "claim"
        /\ Claimable(k, manual)
        /\ run' = [run EXCEPT ![k].attempts = attempt, ![k].due = FALSE,
                     ![k].quarantined = @ \/ manual \/ LastAttempt(attempt)]
        /\ \/ worker' = [worker EXCEPT ![w].at = "finalize", ![w].attempt = attempt]
           \/ Return(w)
        /\ UNCHANGED <<credit, usage, calls, messages, historyVersion,
                       memoryRequested, product>>

NoClaim(w) ==
    /\ worker[w].at = "claim"
    /\ ~Claimable(worker[w].key, w \in Operators)
    /\ Return(w)
    /\ UNCHANGED store

-----------------------------------------------------------------------------
(* Completion: one transaction, shared by executions and recovery *)

\* Faulty: a run somebody else has finished is finished again.
SettleableTwice(w, k) == Staged(k) \/ (worker[w].recover /\ run[k].leaseOver)

Settleable(w, k) ==
    /\ run[k].status = Pending
    /\ Staged(k) \/ (worker[w].recover /\ run[k].leaseOver)

\* Faulty: every interruption is reported as one before the call.
OutcomeAssumingNoCall(r) ==
    IF r.phase = "result_ready" THEN r.outcome ELSE "interrupted_before_call"

\* Without a durable result recovery never calls again: it records whether the
\* provider may have been reached.
OutcomeOf(r) ==
    IF r.phase = "result_ready" THEN r.outcome
    ELSE IF r.phase = "calling" THEN "interrupted_uncertain"
    ELSE "interrupted_before_call"

\* _finish_locked_generation: an answer made for a version the conversation has
\* left, or that has expired, is kept as stale and shows no message.
StatusOf(r) ==
    CASE OutcomeOf(r) = "answer" ->
           IF r.version = product.version /\ Available(r.version)
           THEN "succeeded" ELSE "stale"
      [] OutcomeOf(r) = "cancelled" -> "cancelled"
      [] OTHER -> "failed"

\* Faulty: the charge follows the provider's answer, delivered or stale.
SettlementByCall(r, status) ==
    IF ~r.billed THEN "none" ELSE IF r.outcome = "answer" THEN "committed" ELSE "released"

\* Credit is spent only for what is delivered.
Settlement(r, status) ==
    IF ~r.billed THEN "none" ELSE IF status = "succeeded" THEN "committed" ELSE "released"

\* Faulty: an unfinished job is taken to cover the new answer too.
MemoryWorkOnce(r, status) == status = "succeeded" /\ memoryRequested = 0

\* A delivered answer, or a prompt that did not fit, asks for memory work.
NeedsMemoryWork(r, status) == status = "succeeded" \/ OutcomeOf(r) = "summary_required"

AnswerMessage(k) ==
    [id |-> historyVersion + 1, from |-> "character", rev |-> 1, by |-> k]

\* Terminal status, message, usage, settlement and memory work, all or nothing.
Settle(k) ==
    LET r == run[k]
        status == StatusOf(r)
        delivered == status = "succeeded"
    IN  /\ run' = [run EXCEPT ![k].status = status, ![k].phase = "result_ready",
                               ![k].outcome = OutcomeOf(r), ![k].leaseOver = FALSE]
        /\ messages' = IF delivered THEN Append(messages, AnswerMessage(k)) ELSE messages
        /\ historyVersion' = IF delivered THEN historyVersion + 1 ELSE historyVersion
        /\ usage' = [usage EXCEPT ![k] =
                        [rows |-> @.rows + 1,
                         charged |-> @.charged + (IF delivered /\ r.billed THEN 1 ELSE 0)]]
        /\ credit' = [credit EXCEPT ![k] = Settlement(r, status)]
        /\ memoryRequested' = IF NeedsMemoryWork(r, status)
                              THEN memoryRequested + 1 ELSE memoryRequested
        /\ UNCHANGED <<calls, product>>

\* _complete_staged re-reads after an error; a cancelled execution only logs it.
AfterFinalizeError(w) ==
    IF worker[w].plan = "cancelled" THEN Return(w) ELSE Goto(w, "confirm")

Finalize(w) ==
    LET k == worker[w].key
    IN  /\ worker[w].at = "finalize"
        /\ Settleable(w, k)
        /\ Settle(k)
        /\ Return(w) \/ AfterFinalizeError(w)

\* Already terminal, still leased to its execution, or without a durable result
\* outside recovery; or the transaction rolled back.
FinalizeNothing(w) ==
    LET k == worker[w].key
    IN  /\ worker[w].at = "finalize"
        /\ IF Settleable(w, k) \/ (run[k].status = Pending /\ ~worker[w].recover)
           THEN AfterFinalizeError(w)
           ELSE Return(w)
        /\ UNCHANGED store

\* A fresh terminal row proves completion.  Otherwise a recovery records its
\* failure, unless a newer attempt has begun; some failure classes quarantine.
Confirm(w) ==
    LET k == worker[w].key
    IN  /\ worker[w].at = "confirm"
        /\ IF /\ worker[w].recover
              /\ run[k].status = Pending
              /\ run[k].attempts = worker[w].attempt
           THEN \E fatal \in BOOLEAN :
                  run' = [run EXCEPT ![k].quarantined = @ \/ fatal]
           ELSE UNCHANGED run
        /\ Return(w)
        /\ UNCHANGED <<credit, usage, calls, messages, historyVersion,
                       memoryRequested, product>>

\* The process dies, the client disconnects, or a storage error is raised to
\* the caller: locals are lost, the store stays as the last commit left it.
Stop(w) ==
    /\ worker[w].at \notin {"idle", "done"}
    /\ Return(w)
    /\ UNCHANGED store

-----------------------------------------------------------------------------
(* The owner and time *)

\* Faulty: history is edited while an answer is being generated.
MayEditBusy == historyVersion < MaxHistory

MayEdit == ConversationIdle /\ historyVersion < MaxHistory

\* Faulty: memories go, but old requests keep replaying their deleted answers.
InvalidateMemoriesOnly ==
    /\ memoryRequested' = 0
    /\ UNCHANGED <<run, credit, usage, calls, product, worker>>

\* _invalidate_history: memories and their job are deleted and every earlier
\* request of the conversation loses its replay.
InvalidateHistory ==
    /\ memoryRequested' = 0
    /\ run' = [k \in Keys |->
                 IF run[k].status = "absent" THEN run[k]
                 ELSE [run[k] EXCEPT !.invalidated = TRUE]]
    /\ UNCHANGED <<credit, usage, calls, product, worker>>

CreateMessage ==
    /\ MayEdit
    /\ messages' = Append(messages,
                     [id |-> historyVersion + 1, from |-> "user", rev |-> 1, by |-> None])
    /\ historyVersion' = historyVersion + 1
    /\ UNCHANGED <<run, credit, usage, calls, memoryRequested, product, worker>>

ReplaceMessage ==
    /\ MayEdit
    /\ messages # <<>>
    /\ Last.from = "user"
    /\ messages' = [messages EXCEPT ![Len(messages)].rev = @ + 1]
    /\ historyVersion' = historyVersion + 1
    /\ InvalidateHistory

RewindMessages ==
    /\ MayEdit
    /\ \E i \in DOMAIN messages : messages' = SubSeq(messages, 1, i - 1)
    /\ historyVersion' = historyVersion + 1
    /\ InvalidateHistory

\* switch_version: forward, to a snapshot that has not expired.  It does not
\* wait for a pending generation.
SwitchVersion ==
    /\ \E v \in Versions :
         /\ v > product.version
         /\ Available(v)
         /\ product' = [product EXCEPT !.version = v]
    /\ UNCHANGED <<run, credit, usage, calls, messages, historyVersion,
                   memoryRequested, worker>>

VersionExpires ==
    /\ \E v \in Versions \ product.expired :
         product' = [product EXCEPT !.expired = @ \cup {v}]
    /\ UNCHANGED <<run, credit, usage, calls, messages, historyVersion,
                   memoryRequested, worker>>

LeaseExpires ==
    /\ \E k \in Keys :
         /\ run[k].status = Pending
         /\ ~run[k].leaseOver
         /\ run' = [run EXCEPT ![k].leaseOver = TRUE]
    /\ UNCHANGED <<credit, usage, calls, messages, historyVersion,
                   memoryRequested, product, worker>>

BackoffElapses ==
    /\ \E k \in Keys :
         /\ run[k].status = Pending
         /\ ~run[k].due
         /\ run' = [run EXCEPT ![k].due = TRUE]
    /\ UNCHANGED <<credit, usage, calls, messages, historyVersion,
                   memoryRequested, product, worker>>

-----------------------------------------------------------------------------
Execute(w) ==
    \/ Lookup(w) \/ Prepare(w) \/ Reserve(w) \/ ReserveNothing(w) \/ Reread(w)
    \/ StageCalling(w) \/ CallProvider(w) \/ Receive(w) \/ StageResult(w)
    \/ StageFails(w) \/ Reconcile(w)

Complete(w) ==
    Claim(w) \/ NoClaim(w) \/ Finalize(w) \/ FinalizeNothing(w) \/ Confirm(w)

Owner == CreateMessage \/ ReplaceMessage \/ RewindMessages \/ SwitchVersion

Time == LeaseExpires \/ BackoffElapses \/ VersionExpires

Next ==
    \/ \E w \in Executions : Execute(w)
    \/ \E w \in Recoverers : Scan(w)
    \/ \E w \in Operators : ManualRecovery(w)
    \/ \E w \in Workers : Complete(w) \/ Stop(w)
    \/ Owner
    \/ Time

Spec == Init /\ [][Next]_vars

\* The lifespan task repeats the scan for ever and survives its exceptions, and
\* time passes.  Nothing is assumed of clients, operators or the store: every
\* transaction of a recovery may still fail.
RecoveryFairness ==
    /\ \A w \in Recoverers : WF_vars(Scan(w)) /\ SF_vars(Claim(w))
                              /\ WF_vars(Complete(w))
    /\ WF_vars(LeaseExpires)
    /\ WF_vars(BackoffElapses)

FairSpec == Spec /\ RecoveryFairness

-----------------------------------------------------------------------------
(* Properties *)

Steps == {"idle", "prepare", "reserve", "reread", "stage_call", "call", "calling",
          "stage_result", "reconcile", "claim", "finalize", "confirm", "done"}

Run == [status: {"absent", Pending} \cup Terminal,
        phase: {"none", "reserved", "calling", "result_ready"},
        token: Executions \cup {None}, billed: BOOLEAN,
        outcome: {"none"} \cup Outcomes, input: Ref, version: Nat,
        leaseOver: BOOLEAN, attempts: Nat, due: BOOLEAN,
        quarantined: BOOLEAN, invalidated: BOOLEAN]

Locals == [at: Steps, key: Keys \cup {None}, input: Ref,
           seen: [history: Nat, version: Nat],
           plan: {"none", "prompt"} \cup PreparationFailures \cup CallOutcomes,
           recover: BOOLEAN, attempt: Nat]

Message == [id: Nat, from: {"user", "character"}, rev: Nat, by: Keys \cup {None}]

\* The shape of every row and of every actor's locals.
TypeOK ==
    /\ run \in [Keys -> Run]
    /\ credit \in [Keys -> {"none", "reserved", "committed", "released"}]
    /\ usage \in [Keys -> [rows: Nat, charged: Nat]]
    /\ calls \in [Keys -> Nat]
    /\ messages \in Seq(Message)
    /\ historyVersion \in Nat
    /\ memoryRequested \in Nat
    /\ product \in [version: Versions, expired: SUBSET Versions]
    /\ worker \in [Workers -> Locals]

\* However a key is replayed, resumed, cancelled, lost or recovered, its provider
\* request is sent at most once ("A persisted request is never permission to
\* execute this call again").
CalledAtMostOnce == \A k \in Keys : calls[k] <= 1

\* A result that says the provider was not reached is never contradicted by a
\* call, not even by an execution that wakes up after recovery has judged it.
UncalledMeansUncalled ==
    \A k \in Keys :
        run[k].outcome \in {"interrupted_before_call"} \cup PreparationFailures
            => calls[k] = 0

\* Credit is held exactly while a billed run is pending, spent exactly when its
\* answer was delivered, and returned otherwise; each terminal run has one usage
\* row and only a delivered one carries a cost.
SettledWithOutcome ==
    \A k \in Keys :
        /\ credit[k] = "reserved" <=> (run[k].status = Pending /\ run[k].billed)
        /\ credit[k] = "committed" <=> run[k].status = "succeeded"
        /\ usage[k].rows = IF run[k].status \in Terminal THEN 1 ELSE 0
        /\ usage[k].charged = IF run[k].status = "succeeded" THEN 1 ELSE 0

\* A charged answer is one the provider was asked for, and while history stands
\* it is shown exactly once; nothing else ever shows a message.
ShownOnceIfCharged ==
    \A k \in Keys :
        LET shown == {i \in DOMAIN messages : messages[i].by = k}
        IN  /\ run[k].status = "succeeded" => calls[k] = 1
            /\ run[k].status = "succeeded" /\ ~run[k].invalidated
                   => Cardinality(shown) = 1
            /\ run[k].status # "succeeded" => shown = {}

\* While an answer is owed the conversation has no second one and its input is
\* still the last message at the revision the client named.
PendingInputIsCurrent ==
    /\ Cardinality({k \in Keys : run[k].status = Pending}) <= 1
    /\ \A k \in Keys : run[k].status = Pending => IsCurrentInput(run[k].input)

\* An answer that stands has left at least one memory generation requested, so
\* that the job cannot be behind without knowing it.
AnswersRequestMemoryWork ==
    Cardinality({k \in Keys : run[k].status = "succeeded" /\ ~run[k].invalidated})
        <= memoryRequested

\* The automatic budget: a pending run whose attempts are used up is quarantined,
\* whether its attempts failed, died halfway or lost their acknowledgement.
ExhaustedIsQuarantined ==
    \A k \in Keys :
        run[k].status = Pending /\ run[k].attempts >= MaxAttempts => run[k].quarantined

\* Quarantine is left to operators: no step of the service starts an attempt on
\* a quarantined run, and nobody clears the mark.
QuarantineHolds ==
    [][\A k \in Keys : run[k].quarantined =>
         /\ run'[k].quarantined
         /\ run'[k].attempts # run[k].attempts =>
              \E w \in Operators : worker[w].at = "claim" /\ worker[w].key = k]_vars

\* A terminal outcome is final: a late result, a second recovery or a replay
\* changes neither it nor its settlement.
TerminalIsFinal ==
    [][\A k \in Keys : run[k].status \in Terminal =>
         /\ run'[k].status = run[k].status
         /\ run'[k].outcome = run[k].outcome
         /\ credit'[k] = credit[k]
         /\ usage'[k] = usage[k]]_vars

\* Held credit does not stay held: some recovery settles the run, or five failed
\* attempts hand it to the operators.
HeldCreditIsResolved ==
    \A k \in Keys :
        credit[k] = "reserved" ~> (credit[k] # "reserved" \/ run[k].quarantined)

\* What the service promises about one request, whatever happens inside.
PromiseStatus(k) ==
    CASE run[k].status = "absent" -> "new"
      [] run[k].status = Pending -> "owed"
      [] run[k].status = "succeeded" -> "delivered"
      [] OTHER -> IF run[k].outcome \in {"interrupted_before_call"} \cup PreparationFailures
                  THEN "unasked" ELSE "withheld"

Promise == INSTANCE AnswerPromise WITH
    status <- [k \in Keys |-> PromiseStatus(k)],
    asked <- calls,
    charged <- {k \in Keys : credit[k] = "committed"}

\* Every step of the service is a step of the promise or changes nothing of it.
ImplementsPromise == Promise!Spec

\* What a delivered answer has left behind: its message and its request for memory
\* work.
AnswersAreComplete == ShownOnceIfCharged /\ AnswersRequestMemoryWork

\* Which runs are quarantined, and what a step may not do to them.
QuarantineIsKept == []ExhaustedIsQuarantined /\ QuarantineHolds
=============================================================================

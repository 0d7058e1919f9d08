----------------------------- MODULE MemoryWork -----------------------------
(***************************************************************************)
(* The durable memory job of one conversation, the workers that process it *)
(* and the history it summarises: memory/repository.py (the queue),        *)
(* chat/service/workflow/memory.py (one claim), memory_worker.py (the loop)*)
(* and the edits that invalidate everything derived from old text.         *)
(*                                                                         *)
(* A worker holds no transaction across a provider call, has no lease      *)
(* renewal, and may be overtaken by another claim at any point; its claim  *)
(* token is what keeps its late results out.  A message is its rank in the *)
(* conversation, and an edit leaves the sizes of the ranks as they were.   *)
(***************************************************************************)
EXTENDS SummaryPlanning

CONSTANTS
    MemoryWorkers,      \* concurrent slots of all worker processes
    ClaimTokens,        \* enough identifiers for a claim to find one nobody holds
    MaxMemoryAttempts,  \* max_attempts
    MaxClaims,          \* bound: attempts after which no worker dies or is overtaken
    MaxLength,          \* bound: length of the conversation
    Weight,             \* estimated tokens of each message, by its rank
    MaxRequests,        \* bound: generations requested of one job row
    MaxSourceRevision,  \* bound: history revision after which nothing is edited
    NoMemoryClaim

ASSUME MemoryAssumption ==
    /\ {MaxMemoryAttempts, MaxClaims, MaxLength, MaxRequests, MaxSourceRevision} \subseteq Nat
    /\ MaxMemoryAttempts >= 1
    /\ Weight \in [1..MaxLength -> Nat]
    /\ NoMemoryClaim \notin ClaimTokens
    \* A claim finds a token that nobody holds.
    /\ IsFiniteSet(MemoryWorkers) /\ IsFiniteSet(ClaimTokens)
    /\ Cardinality(ClaimTokens) > Cardinality(MemoryWorkers)

VARIABLES
    length,          \* messages of the conversation
    sourceRevision,  \* conversation.history_revision
    summaries,       \* summaries: the range they cover, its revision, whether indexed
    job,             \* the memory_jobs row
    asked,           \* history variable: length and target when work was last requested
    memoryWorker     \* every slot's step and locals

memoryVars == <<length, sourceRevision, summaries, job, asked, memoryWorker>>

NoJob == [status |-> "absent", requested |-> 0, completed |-> 0, scope |-> 0,
          attempts |-> 0, token |-> NoMemoryClaim, leaseOver |-> FALSE, due |-> TRUE, target |-> 0]

NoWork == [token |-> NoMemoryClaim, scope |-> 0, attempts |-> 0, target |-> 0]
NoSummary == [from |-> 0, to |-> 0, revision |-> 0]

Free == [at |-> "idle", work |-> NoWork, summary |-> NoSummary, after |-> "none",
         more |-> FALSE, retryable |-> FALSE]

NothingAsked == [length |-> 0, target |-> 0]

MemoryInit ==
    /\ length = 0
    /\ sourceRevision = 0
    /\ summaries = {}
    /\ job = NoJob
    /\ asked = NothingAsked
    /\ memoryWorker = [w \in MemoryWorkers |-> Free]

Later(a, b) == IF a >= b THEN a ELSE b

\* get_latest_summary: the end of what is summarised
Covered == Max({0} \cup {m.to : m \in summaries})

Unsummarised(covered, n) == (covered + 1)..n

\* _read_unsummarized and plan_summarization by what is covered, the length and
\* the target: the batch to summarise next, if any, and whether another will be due
\* after it.  A target inside the protected messages is a conflict.
Plan == [covered \in 0..MaxLength |-> [n \in 0..MaxLength |-> [target \in 0..MaxLength |->
    LET S == Unsummarised(covered, n)
        loaded == Loaded(Weight, S)
        batch == Selected(Weight, loaded, target)
    IN  [conflict |-> Conflicts(Weight, loaded, target),
         batch |-> batch,
         more |-> MoreAfter(Weight, S, batch, target)]]]]

-----------------------------------------------------------------------------
(* The conversation, each action under its lock *)

\* schedule_memory_work
Schedule(target) ==
    /\ job.requested < MaxRequests
    /\ job' = [job EXCEPT
         !.requested = @ + 1,
         !.target = Later(@, target),
         !.status = IF @ = "running" THEN "running" ELSE "pending",
         !.attempts = IF job.status = "failed" THEN 0 ELSE @,
         !.due = IF job.status = "running" THEN @ ELSE TRUE]

GrowHistory ==
    /\ length < MaxLength
    /\ length' = length + 1
    /\ UNCHANGED <<sourceRevision, summaries, job, asked, memoryWorker>>

\* An answer and the request for its memory work commit together.
DeliverAnswer ==
    /\ length < MaxLength
    /\ length' = length + 1
    /\ Schedule(0)
    /\ asked' = [asked EXCEPT !.length = length + 1]
    /\ UNCHANGED <<sourceRevision, summaries, memoryWorker>>

\* A prompt that does not fit asks for everything up to a message that is not
\* protected to be summarised.
RequireSummary ==
    /\ \E target \in 1..length \ Protected(Weight, 1..length) :
         /\ Schedule(target)
         /\ asked' = [length |-> length, target |-> Later(asked.target, target)]
    /\ UNCHANGED <<length, sourceRevision, summaries, memoryWorker>>

\* invalidate_conversation_memories, with a message replaced or the history cut.
EditHistory ==
    /\ sourceRevision < MaxSourceRevision
    /\ length > 0
    /\ length' \in 0..length
    /\ sourceRevision' = sourceRevision + 1
    /\ summaries' = {}
    /\ job' = NoJob
    /\ asked' = NothingAsked
    /\ UNCHANGED memoryWorker

-----------------------------------------------------------------------------
(* Claims *)

\* Faulty: a job whose worker died is never taken over.
MemoryClaimablePendingOnly == job.status = "pending" /\ job.due

MemoryClaimable ==
    \/ job.status = "pending" /\ job.due
    \/ job.status = "running" /\ job.leaseOver

HeldTokens == {memoryWorker[w].work.token : w \in MemoryWorkers} \cup {job.token}

\* A new UUID: any identifier nobody holds will do.
NewToken == CHOOSE token \in ClaimTokens : token \notin HeldTokens

\* claim_memory_work
ClaimMemoryWork(w) ==
    /\ memoryWorker[w].at = "idle"
    /\ MemoryClaimable
    /\ LET token == NewToken IN
         /\ job' = [job EXCEPT !.status = "running", !.scope = job.requested,
                               !.attempts = @ + 1, !.token = token, !.leaseOver = FALSE]
         /\ memoryWorker' = [memoryWorker EXCEPT ![w] = [Free EXCEPT !.at = "read_pending",
              !.work = [token |-> token, scope |-> job.requested,
                        attempts |-> job.attempts + 1, target |-> job.target]]]
    /\ UNCHANGED <<length, sourceRevision, summaries, asked>>

\* Faulty: any claim of a running job may write.
OwnsAnyRunning(w) == job.status = "running"

\* _claim_identity: the job is running this very claim.
Owns(w) ==
    /\ job.status = "running"
    /\ job.scope = memoryWorker[w].work.scope
    /\ job.token = memoryWorker[w].work.token

MemoryGoto(w, at) == memoryWorker' = [memoryWorker EXCEPT ![w].at = at]

\* An exception ends the attempt; its class says whether another may help.
Raise(w, retryable) ==
    memoryWorker' = [memoryWorker EXCEPT ![w] =
        [Free EXCEPT !.at = "fail", !.work = memoryWorker[w].work, !.retryable = retryable]]

memoryStore == <<length, sourceRevision, summaries, job, asked>>

-----------------------------------------------------------------------------
(* process_memory_work, one action per transaction or provider call *)

Unindexed == {m \in summaries : ~m.ready}

\* Faulty: a summary whose embedding failed is left without one.
ReadPendingIndexNever(w) ==
    /\ memoryWorker[w].at = "read_pending"
    /\ MemoryGoto(w, "read")
    /\ UNCHANGED memoryStore

\* A summary left without its embedding is indexed before anything else.
ReadPendingIndex(w) ==
    /\ memoryWorker[w].at = "read_pending"
    /\ IF Unindexed = {} THEN MemoryGoto(w, "read")
       ELSE \E m \in Unindexed :
              /\ \A other \in Unindexed : m.to <= other.to
              /\ memoryWorker' = [memoryWorker EXCEPT ![w].at = "embed", ![w].after = "read",
                   ![w].summary = [from |-> m.from, to |-> m.to, revision |-> m.revision]]
    /\ UNCHANGED memoryStore

\* _read_unsummarized, under the conversation lock, and the plan made of it.
ReadSource(w) ==
    /\ memoryWorker[w].at = "read"
    /\ LET plan == Plan[Covered][length][memoryWorker[w].work.target]
       IN  IF plan.conflict THEN Raise(w, FALSE)
           ELSE IF plan.batch = {} THEN MemoryGoto(w, "complete")
           ELSE memoryWorker' = [memoryWorker EXCEPT
                  ![w].at = "summarise", ![w].after = "complete", ![w].more = plan.more,
                  ![w].summary = [from |-> Min(plan.batch), to |-> Max(plan.batch),
                                  revision |-> sourceRevision]]
    /\ UNCHANGED memoryStore

\* The summary or embedding provider answers; or fails, times out, or the
\* deadline of the attempt has passed.
CallMemoryProvider(w) ==
    /\ memoryWorker[w].at \in {"summarise", "embed"}
    /\ MemoryGoto(w, IF memoryWorker[w].at = "summarise" THEN "save_summary" ELSE "save_embedding")
    /\ UNCHANGED memoryStore

\* Any step of the attempt may raise before it changes anything.
Fault(w) ==
    /\ memoryWorker[w].at \notin {"idle", "fail"}
    /\ \E retryable \in BOOLEAN : Raise(w, retryable)
    /\ UNCHANGED memoryStore

\* validate_summary_source: edits bump the revision, so the range is as it was.
SourceUnchanged(w) == sourceRevision = memoryWorker[w].summary.revision

Stored(s, ready) == [from |-> s.from, to |-> s.to, revision |-> s.revision, ready |-> ready]

\* _persist_summary, which keeps a row of the same range; a lost acknowledgement
\* fails the attempt all the same.
SaveSummary(w) ==
    LET s == memoryWorker[w].summary
    IN  /\ memoryWorker[w].at = "save_summary"
        /\ IF SourceUnchanged(w) /\ Owns(w)
           THEN /\ summaries' = summaries \cup
                     IF Stored(s, TRUE) \in summaries THEN {} ELSE {Stored(s, FALSE)}
                /\ MemoryGoto(w, "embed") \/ Raise(w, FALSE)
           ELSE /\ UNCHANGED summaries
                /\ Raise(w, FALSE)
        /\ UNCHANGED <<length, sourceRevision, job, asked>>

\* _index_summary's transaction: the same summary, still unindexed.
SaveEmbedding(w) ==
    LET s == memoryWorker[w].summary
    IN  /\ memoryWorker[w].at = "save_embedding"
        /\ IF SourceUnchanged(w) /\ Owns(w) /\ Stored(s, FALSE) \in summaries
           THEN /\ summaries' = (summaries \ {Stored(s, FALSE)}) \cup {Stored(s, TRUE)}
                /\ MemoryGoto(w, memoryWorker[w].after) \/ Raise(w, FALSE)
           ELSE /\ UNCHANGED summaries
                /\ Raise(w, FALSE)
        /\ UNCHANGED <<length, sourceRevision, job, asked>>

\* Faulty: requests that arrived during the claim are taken as done.
MoreRequestedNever(w) == memoryWorker[w].more

MoreRequested(w) == memoryWorker[w].more \/ job.requested > memoryWorker[w].work.scope

CompletedThrough(w) == memoryWorker[w].work.scope

\* complete_memory_work: nothing happens to a job claimed by somebody else.
CompleteMemoryWork(w) ==
    /\ memoryWorker[w].at = "complete"
    /\ job' = IF Owns(w)
              THEN [job EXCEPT !.completed = CompletedThrough(w),
                     !.status = IF MoreRequested(w) THEN "pending" ELSE "idle",
                     !.target = IF MoreRequested(w) THEN @ ELSE 0,
                     !.attempts = 0, !.token = NoMemoryClaim, !.scope = 0,
                     !.leaseOver = FALSE, !.due = TRUE]
              ELSE job
    /\ \/ memoryWorker' = [memoryWorker EXCEPT ![w] = Free]
       \/ Raise(w, FALSE)
    /\ UNCHANGED <<length, sourceRevision, summaries, asked>>

MayRetry(w) == memoryWorker[w].retryable /\ memoryWorker[w].work.attempts < MaxMemoryAttempts

\* fail_memory_work, which may itself fail and leave the job to its lease.
Fail(w) ==
    /\ memoryWorker[w].at = "fail"
    /\ \/ job' = IF Owns(w)
                 THEN [job EXCEPT !.status = IF MayRetry(w) THEN "pending" ELSE "failed",
                        !.token = NoMemoryClaim, !.scope = 0, !.leaseOver = FALSE, !.due = FALSE]
                 ELSE job
       \/ job.attempts < MaxClaims /\ UNCHANGED job
    /\ memoryWorker' = [memoryWorker EXCEPT ![w] = Free]
    /\ UNCHANGED <<length, sourceRevision, summaries, asked>>

\* The worker process dies or is stopped.
StopMemoryWorker(w) ==
    /\ memoryWorker[w].at # "idle"
    /\ job.attempts < MaxClaims
    /\ memoryWorker' = [memoryWorker EXCEPT ![w] = Free]
    /\ UNCHANGED memoryStore

-----------------------------------------------------------------------------
MemoryLeaseExpires ==
    /\ job.status = "running"
    /\ ~job.leaseOver
    /\ job.attempts < MaxClaims
    /\ job' = [job EXCEPT !.leaseOver = TRUE]
    /\ UNCHANGED <<length, sourceRevision, summaries, asked, memoryWorker>>

MemoryBackoffElapses ==
    /\ job.status = "pending"
    /\ ~job.due
    /\ job' = [job EXCEPT !.due = TRUE]
    /\ UNCHANGED <<length, sourceRevision, summaries, asked, memoryWorker>>

Work(w) ==
    \/ ClaimMemoryWork(w)
    \/ ReadPendingIndex(w) \/ ReadSource(w) \/ CallMemoryProvider(w)
    \/ SaveSummary(w) \/ SaveEmbedding(w) \/ CompleteMemoryWork(w) \/ Fail(w)

MemoryNext ==
    \/ GrowHistory \/ DeliverAnswer \/ RequireSummary \/ EditHistory
    \/ \E w \in MemoryWorkers : Work(w) \/ Fault(w) \/ StopMemoryWorker(w)
    \/ MemoryLeaseExpires \/ MemoryBackoffElapses

MemorySpec == MemoryInit /\ [][MemoryNext]_memoryVars

\* The worker loop keeps claiming and its attempts end, one way or another: every
\* provider call has a deadline.  Time passes.
MemoryFairness ==
    /\ \A w \in MemoryWorkers : WF_memoryVars(Work(w))
    /\ WF_memoryVars(MemoryLeaseExpires)
    /\ WF_memoryVars(MemoryBackoffElapses)

FairMemorySpec == MemorySpec /\ MemoryFairness

-----------------------------------------------------------------------------
(* Properties *)

SummaryRange == [from: Nat, to: Nat, revision: Nat]

\* The shape of the job row with its check constraints, of the summaries and of
\* every slot's locals.
MemoryTypeOK ==
    /\ length \in Nat
    /\ sourceRevision \in Nat
    /\ summaries \subseteq [from: Nat, to: Nat, revision: Nat, ready: BOOLEAN]
    /\ job \in [status: {"absent", "pending", "running", "idle", "failed"},
                requested: Nat, completed: Nat, scope: Nat, attempts: Nat,
                token: ClaimTokens \cup {NoMemoryClaim}, leaseOver: BOOLEAN, due: BOOLEAN,
                target: Nat]
    /\ job.completed <= job.requested
    /\ asked \in [length: Nat, target: Nat]
    /\ memoryWorker \in [MemoryWorkers ->
         [at: {"idle", "read_pending", "read", "summarise", "save_summary", "embed",
               "save_embedding", "complete", "fail"},
          work: [token: ClaimTokens \cup {NoMemoryClaim}, scope: Nat, attempts: Nat, target: Nat],
          summary: SummaryRange, after: {"none", "read", "complete"},
          more: BOOLEAN, retryable: BOOLEAN]]

\* Whatever was overtaken, lost or edited, the summaries of a conversation are of
\* its current text and cover a prefix of it without gap or overlap.
SummariesTile ==
    /\ \A m \in summaries : m.revision = sourceRevision /\ m.from <= m.to
    /\ \A i \in 1..Covered : Cardinality({m \in summaries : m.from <= i /\ i <= m.to}) = 1
    /\ Covered <= length

\* At most the newest summary waits for its embedding.
OneUnindexed == \A m \in Unindexed : m.to = Covered /\ Cardinality(Unindexed) = 1

\* A job that rests owes nothing: every request is completed, every summary can be
\* searched, the target of the last prompt that did not fit is summarised, and
\* the history at the last request leaves no batch to summarise.
IdleOwesNothing ==
    job.status = "idle" =>
        /\ job.completed = job.requested
        /\ Unindexed = {}
        /\ Covered >= asked.target
        /\ Selected(Weight, Unsummarised(Covered, asked.length), 0) = {}

\* Requested work is completed, given up after its attempts, or edited away.
WorkIsResolved ==
    job.requested > job.completed ~>
        \/ job.requested = job.completed
        \/ job.status \in {"failed", "absent"}

\* "A request made during a claim remains for the next claim": when a claim ends,
\* a newer request leaves the job claimable.
NewRequestKeepsItsClaim ==
    [][job.status = "running" /\ job.requested > job.scope
         => job'.status \in {"running", "pending", "absent"}]_memoryVars

\* The invariants of the summaries, whatever happens to the workers that make them.
SummariesAreSound == MemoryTypeOK /\ SummariesTile /\ OneUnindexed
=============================================================================

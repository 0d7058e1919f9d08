--------------------------- MODULE SummaryPlanning ---------------------------
(***************************************************************************)
(* Which messages are summarised next, and how much of the history must be *)
(* summarised before an answer's prompt fits (memory/service/command/      *)
(* summarization.py), together with the windows of messages that are read  *)
(* for it (chat/service/query/messages.py).                                *)
(*                                                                         *)
(* A message is its rank in the conversation; W[i] is its estimated size   *)
(* in a prompt and V[i] the conservative size used for prompt budgets.  A  *)
(* set of ranks is what has been loaded, which may have a gap.             *)
(***************************************************************************)
EXTENDS Naturals, FiniteSetsExt

CONSTANTS
    Threshold,    \* summarization_threshold_tokens
    Batch,        \* summary_batch_tokens
    Recent,       \* recent_raw_tokens
    MemoryBudget  \* memory_token_budget

\* _validate_policy
ASSUME PolicyAssumption ==
    /\ {Threshold, Batch, Recent, MemoryBudget} \subseteq Nat \ {0}
    /\ Batch <= Threshold

Tokens(W, S) == MapThenSumSet(LAMBDA i : W[i], S)

UpTo(S, i) == {j \in S : j <= i}
From(S, i) == {j \in S : j >= i}

\* read_message_window, oldest first: through the first overflow of the budget.
OldestFirst(W, S, budget) ==
    {i \in S : Tokens(W, UpTo(S, i) \ {i}) <= budget}

\* The same, newest first, but never fewer than `least` messages.
NewestFirst(W, S, budget, least) ==
    {i \in S : \/ Tokens(W, From(S, i) \ {i}) <= budget
               \/ Cardinality(From(S, i) \ {i}) < least}

Lookahead == (IF Threshold > Batch THEN Threshold ELSE Batch) + Recent

\* Faulty: only the oldest messages are read; the recent ones are not known.
LoadedPrefix(W, S) == OldestFirst(W, S, Lookahead)

\* _read_unsummarized: a prefix that decides the work and, when it does not
\* reach the end, the suffix that protects recent text.
Loaded(W, S) ==
    LET prefix == OldestFirst(W, S, Lookahead)
    IN  IF prefix = S THEN S ELSE prefix \cup NewestFirst(W, S, Recent, 0)

\* _protected_start: the shortest suffix that holds the recent tokens.
Protected(W, S) ==
    LET enough == {i \in S : Tokens(W, From(S, i)) >= Recent}
    IN  IF enough = {} THEN S ELSE From(S, Max(enough))

Required(S, target) == UpTo(S, target) # {}

\* plan_summarization refuses a target inside the protected suffix.
Conflicts(W, S, target) == Required(Protected(W, S), target)

Eligible(W, S, target) ==
    LET old == S \ Protected(W, S)
    IN  IF Required(S, target) THEN UpTo(old, target) ELSE old

\* Faulty: the batch is cut at its budget even when that leaves it empty.
BatchOfCut(W, E) == {i \in E : Tokens(W, UpTo(E, i)) <= Batch}

\* The oldest messages that fit a batch, and at least one.
BatchOf(W, E) == {i \in E : i = Min(E) \/ Tokens(W, UpTo(E, i)) <= Batch}

\* plan_summarization: the messages to summarise, or none.  A target (0 for
\* none) still ahead overrides the threshold.
Selected(W, S, target) ==
    IF \/ ~Required(S, target) /\ Tokens(W, S) < Threshold
       \/ Conflicts(W, S, target)
    THEN {}
    ELSE BatchOf(W, Eligible(W, S, target))

\* process_memory_work: what was read shows that another batch will be due.
MoreAfter(W, S, batch, target) ==
    /\ batch # {}
    /\ \/ OldestFirst(W, S, Lookahead) # S
       \/ Selected(W, {i \in Loaded(W, S) : i > Max(batch)}, target) # {}

\* What may stay raw when a prompt is cut down.
HistoryBudget(protected, available) ==
    IF available > MemoryBudget + protected THEN available - MemoryBudget ELSE protected

\* plan_context_compaction: the last message to summarise so that the rest fits,
\* 0 when the protected messages alone do not.
CompactionTarget(W, V, S, available) ==
    LET protected == Protected(W, S)
        kept == Tokens(V, protected)
        ends == {i \in S \ protected :
                   Tokens(V, From(S, i) \ {i}) <= HistoryBudget(kept, available)}
    IN  IF kept > available \/ ends = {} THEN 0 ELSE Min(ends)
=============================================================================

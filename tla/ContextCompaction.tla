-------------------------- MODULE ContextCompaction --------------------------
(***************************************************************************)
(* How a conversation that outgrows the prompt is cut down: the answer     *)
(* preparation that measures the history, asks for a summary up to a       *)
(* target or builds the prompt (chat/service/workflow/                     *)
(* answer_preparation.py), and the summaries that reach the target one     *)
(* batch at a time (MemoryWork models the queue between them).             *)
(*                                                                         *)
(* The two sides measure a message differently and each sees only a window *)
(* of the history.                                                         *)
(***************************************************************************)
EXTENDS SummaryPlanning, Sequences

CONSTANTS
    Sizes,         \* message lengths
    Estimate,      \* estimate_message_tokens by length
    RenderedSize,  \* the same, conservative
    Rooms,         \* history budgets the prompts of the conversation leave
    LeastMessages,         \* minimum_messages of the prompt's window
    MaxMessages    \* bound: length of the conversation

ASSUME CompactionAssumption ==
    /\ Estimate \in [Sizes -> Nat \ {0}]
    /\ RenderedSize \in [Sizes -> Nat \ {0}]
    /\ Rooms \subseteq Nat
    /\ {LeastMessages, MaxMessages} \subseteq Nat

VARIABLES
    sizes,      \* the messages, oldest first; the newest is the prompt's input
    covered,    \* messages summarised
    target,     \* summary_through_position of the memory job, 0 for none
    refused,    \* history variable: prompts that wait for a summary
    lastPrompt  \* the last prompt built: its raw messages and all its tokens

compactionVars == <<sizes, covered, target, refused, lastPrompt>>

NoPrompt == [raw |-> {}, whole |-> {}, tokens |-> 0, room |-> 0]

CompactionInit ==
    /\ sizes = <<>>
    /\ covered = 0
    /\ target = 0
    /\ refused = {}
    /\ lastPrompt = NoPrompt

Estimates == [i \in DOMAIN sizes |-> Estimate[sizes[i]]]
Renderings == [i \in DOMAIN sizes |-> RenderedSize[sizes[i]]]

PendingMessages == {i \in DOMAIN sizes : i > covered}

\* The input is in the rendered base of the prompt and is not part of its history.
History == 1..(Len(sizes) - 1)

\* read_message_window for an answer; the input takes one of the least messages.
Window(room) == NewestFirst(Renderings, History, room, LeastMessages - 1)

\* Faulty: a later, smaller target replaces a larger one.
NewestTarget(a, b) == b

LargerTarget(a, b) == IF a >= b THEN a ELSE b

\* The longest suffix of S that fits.
Suffix(S, budget) == {i \in S : Tokens(Renderings, From(S, i)) <= budget}

LesserOf(a, b) == IF a <= b THEN a ELSE b

AddMessage ==
    /\ Len(sizes) < MaxMessages
    /\ \E s \in Sizes : sizes' = Append(sizes, s)
    /\ UNCHANGED <<covered, target, refused, lastPrompt>>

\* prepare_answer_context when the unsummarised messages do not fit.
RefusePrompt(room) ==
    LET unprocessed == Window(room) \cap PendingMessages
        goal == CompactionTarget(Estimates, Renderings, unprocessed, room)
    IN  /\ sizes # <<>>
        /\ Tokens(Renderings, unprocessed) > room
        /\ goal > 0
        /\ target' = LargerTarget(target, goal)
        /\ refused' = refused \cup {[history |-> History, room |-> room]}
        /\ UNCHANGED <<sizes, covered, lastPrompt>>

\* Faulty: the messages beside the memories are chosen before their size is known.
RawBudgetEarly(room, unprocessed, memories) == room - unprocessed

RawBudget(room, unprocessed, memories) == room - unprocessed - memories

\* prepare_answer_context when they do: recent summarised messages first, then
\* memories, and what is left goes to older messages.
BuildPrompt(room) ==
    LET unprocessed == Window(room) \cap PendingMessages
        processed == Window(room) \ PendingMessages
        needed == Tokens(Renderings, unprocessed)
        recent == Suffix(processed, LesserOf(Recent, room - needed))
        left == room - needed - Tokens(Renderings, recent)
    IN  /\ sizes # <<>>
        /\ needed <= room
        /\ \E memories \in 0..LesserOf(MemoryBudget, left) :
             LET raw == Suffix(processed, RawBudget(room, needed, memories)) \cup unprocessed
             IN  lastPrompt' = [raw |-> raw, whole |-> PendingMessages \cap History, room |-> room,
                            tokens |-> memories + Tokens(Renderings, raw)]
        /\ UNCHANGED <<sizes, covered, target, refused>>

\* One claim of the memory job that succeeds: a batch or none, and the target is
\* forgotten when no more is due.
Summarise ==
    LET batch == Selected(Estimates, Loaded(Estimates, PendingMessages), target)
    IN  /\ batch # {} \/ target # 0
        /\ covered' = IF batch = {} THEN covered ELSE Max(batch)
        /\ target' = IF MoreAfter(Estimates, PendingMessages, batch, target) THEN target ELSE 0
        /\ UNCHANGED <<sizes, refused, lastPrompt>>

CompactionNext ==
    \/ AddMessage
    \/ \E room \in Rooms : RefusePrompt(room) \/ BuildPrompt(room)
    \/ Summarise

CompactionSpec == CompactionInit /\ [][CompactionNext]_compactionVars

-----------------------------------------------------------------------------
(* Properties *)

\* The shape of the state; the newest message is never summarised, and a prompt
\* does not repeat its input.
CompactionTypeOK ==
    /\ sizes \in Seq(Sizes)
    /\ covered \in 0..LargerTarget(0, Len(sizes) - 1)
    /\ target \in 0..LargerTarget(0, Len(sizes) - 1)
    /\ \A r \in refused : r.history \subseteq DOMAIN sizes /\ r.room \in Rooms
    /\ lastPrompt.raw \subseteq 1..LargerTarget(0, Len(sizes) - 1)

\* What is planned from the windows that are read is what would be planned from
\* the whole history: the batch to summarise, with or without a target, and the
\* target of a prompt that does not fit.
WindowsDecideAlike ==
    /\ \A t \in {0, target} :
         Selected(Estimates, Loaded(Estimates, PendingMessages), t) = Selected(Estimates, PendingMessages, t)
    /\ \A room \in Rooms :
         LET all == PendingMessages \cap History
         IN  Tokens(Renderings, all) > room =>
               CompactionTarget(Estimates, Renderings, Window(room) \cap PendingMessages, room)
                 = CompactionTarget(Estimates, Renderings, all, room)

\* A target still ahead always leaves something to summarise: it never lies in the
\* protected messages, and no message is too large for a batch.
TargetIsReachable ==
    Required(PendingMessages, target) => Selected(Estimates, Loaded(Estimates, PendingMessages), target) # {}

\* Once the targets are reached, every prompt that was refused has room for the
\* history it was refused with.
RefusedPromptsFit ==
    target = 0 => \A r \in refused : Tokens(Renderings, r.history \cap PendingMessages) <= r.room

\* A prompt holds every message that is not summarised, with no gap between it and
\* the summarised ones it repeats, and stays within its budget.
PromptIsWhole ==
    /\ lastPrompt.whole \subseteq lastPrompt.raw
    /\ lastPrompt.raw # {} => \A i \in Min(lastPrompt.raw)..Max(lastPrompt.raw) : i \in lastPrompt.raw
    /\ lastPrompt.tokens <= lastPrompt.room

\* The invariants that hold between the summaries and the prompts.
PlansAreSound ==
    /\ CompactionTypeOK
    /\ WindowsDecideAlike
    /\ TargetIsReachable
    /\ RefusedPromptsFit
    /\ PromptIsWhole
=============================================================================

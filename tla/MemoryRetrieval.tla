---------------------------- MODULE MemoryRetrieval ----------------------------
(***************************************************************************)
(* Which memories an answer is given (chatting/memory/service/query/      *)
(* retrieval.py).  A retrieval reads, closes its session for the call to   *)
(* the embedding provider, and searches in a new one; meanwhile summaries  *)
(* are written and indexed, the provider is changed, and the history is    *)
(* cut back, which deletes them all (command/invalidation.py).  What it    *)
(* found is used only if the history is still the one it was read for      *)
(* (chat/service/workflow/answers.py).                                     *)
(***************************************************************************)
EXTENDS Integers, Sequences, FiniteSets, FiniteSetsExt

CONSTANTS
    Retrievals,   \* answers under preparation
    MemoryIds,    \* ids of memories; a number orders them
    Texts,        \* contents of memories
    KeyOf,        \* contents alike but for case and blanks have one key
    SizeOf,       \* rendered size of a content
    Providers,    \* embedding providers
    Scores,       \* selection scores
    TopK,         \* retrieval_candidates
    ResultLimit,  \* retrieval_limit
    TokenBudget,  \* token budget of the memories
    MaxRewinds,   \* bound: cuts of the history
    NoMemory      \* "no value"

MemoryRows == [text: Texts, score: Scores, revision: Nat, by: Providers \cup {NoMemory}]

ASSUME RetrievalAssumption ==
    /\ MemoryIds \subseteq Nat /\ IsFiniteSet(MemoryIds) /\ Scores \subseteq Nat
    /\ KeyOf \in [Texts -> Texts] /\ SizeOf \in [Texts -> Nat]
    /\ TopK \in Nat /\ ResultLimit \in 1..TopK /\ TokenBudget \in Nat
    /\ NoMemory \notin Providers \cup MemoryRows

VARIABLES
    memories,         \* conversation_memories by id
    historyRevision,  \* history_revision of the conversation
    provider,         \* the provider that is configured
    lookup            \* the retrievals, with the prompt made of what they found

retrievalVars == <<memories, historyRevision, provider, lookup>>

NoLookup == [at |-> "idle", revision |-> 0, by |-> NoMemory, found |-> <<>>, best |-> {}]

RetrievalInit ==
    /\ memories = [i \in MemoryIds |-> NoMemory]
    /\ historyRevision = 0
    /\ provider \in Providers
    /\ lookup = [r \in Retrievals |-> NoLookup]

-----------------------------------------------------------------------------
(* Writers *)

\* A summary is written before it is indexed.
WriteMemory ==
    \E i \in MemoryIds, text \in Texts, score \in Scores :
        /\ memories[i] = NoMemory
        /\ \A j \in MemoryIds : j < i => memories[j] # NoMemory
        /\ memories' = [memories EXCEPT ![i] =
             [text |-> text, score |-> score, revision |-> historyRevision, by |-> NoMemory]]
        /\ UNCHANGED <<historyRevision, provider, lookup>>

\* save_embedding
IndexMemory ==
    \E i \in MemoryIds :
        /\ memories[i] # NoMemory
        /\ memories[i].by = NoMemory
        /\ memories' = [memories EXCEPT ![i].by = provider]
        /\ UNCHANGED <<historyRevision, provider, lookup>>

\* A server is started with another provider: what it indexes differs from what it
\* finds.
ChangeProvider ==
    /\ provider' \in Providers \ {provider}
    /\ UNCHANGED <<memories, historyRevision, lookup>>

\* invalidate_conversation_memories
Rewind ==
    /\ historyRevision < MaxRewinds
    /\ historyRevision' = historyRevision + 1
    /\ memories' = [i \in MemoryIds |-> NoMemory]
    /\ UNCHANGED <<provider, lookup>>

-----------------------------------------------------------------------------
(* A retrieval *)

\* Faulty: any vector is compared with the query's.
SearchableByAny(by) ==
    {i \in MemoryIds : memories[i] # NoMemory /\ memories[i].by # NoMemory}

Searchable(by) ==
    {i \in MemoryIds : memories[i] # NoMemory /\ memories[i].by = by}

\* The configured provider need not have been known to the request.
AnySearchable == \E p \in Providers : Searchable(p) # {}

\* _read_preparation, then the ownership and existence checks; nothing indexed, no
\* call, and no memories.
StartLookup(r) ==
    /\ lookup[r].at = "idle"
    /\ lookup' = [lookup EXCEPT ![r] =
         [NoLookup EXCEPT !.at = IF AnySearchable THEN "embedding" ELSE "found",
                          !.revision = historyRevision]]
    /\ UNCHANGED <<memories, historyRevision, provider>>

\* embed_texts answers, by the provider that is configured when it is called.
EmbedQuery(r) ==
    /\ lookup[r].at = "embedding"
    /\ lookup' = [lookup EXCEPT ![r].at = "searching", ![r].by = provider]
    /\ UNCHANGED <<memories, historyRevision, provider>>

\* ORDER BY distance LIMIT top_k: the score stands for the similarity too.
TopOf(ids) ==
    {c \in SUBSET ids :
       /\ Cardinality(c) = IF Cardinality(ids) > TopK THEN TopK ELSE Cardinality(ids)
       /\ \A i \in c, j \in ids \ c : memories[i].score >= memories[j].score}

Better(i, j) ==
    \/ memories[i].score > memories[j].score
    \/ memories[i].score = memories[j].score /\ i < j

SameContent(i, j) == KeyOf[memories[i].text] = KeyOf[memories[j].text]

\* The greatest score of every content; the first candidate of equal ones.
Deduplicated(ids) ==
    {i \in ids : \A j \in ids \ {i} : SameContent(i, j) => Better(i, j)}

Size(i) == SizeOf[memories[i].text]

SizeOfAll(ids) == SumFunction([i \in ids |-> Size(i)])

\* Faulty: the first memory that does not fit ends the selection.
TakenUntilFull(taken, ids, i) ==
    LET before == {j \in taken : Better(j, i)}
    IN  /\ {j \in ids : Better(j, i)} \subseteq taken
        /\ Cardinality(before) < ResultLimit
        /\ SizeOfAll(before) + Size(i) <= TokenBudget

\* There is room for a memory beside the better ones that were taken: one that does
\* not fit is passed over, the next one may.
Taken(taken, ids, i) ==
    LET before == {j \in taken : Better(j, i)}
    IN  /\ Cardinality(before) < ResultLimit
        /\ SizeOfAll(before) + Size(i) <= TokenBudget

Chosen(ids) ==
    CHOOSE taken \in SUBSET ids : \A i \in ids : i \in taken <=> Taken(taken, ids, i)

InHistoryOrder(ids) ==
    CHOOSE q \in [1 .. Cardinality(ids) -> ids] :
        \A m, n \in 1 .. Cardinality(ids) : m < n => q[m] < q[n]

\* _select_memories: by score, then in the order of the history.
SelectedFrom(candidates) == InHistoryOrder(Chosen(Deduplicated(candidates)))

SearchMemories(r) ==
    /\ lookup[r].at = "searching"
    /\ \E candidates \in TopOf(Searchable(lookup[r].by)) :
         lookup' = [lookup EXCEPT ![r].at = "found",
              ![r].found = [n \in DOMAIN SelectedFrom(candidates) |->
                               [id |-> SelectedFrom(candidates)[n],
                                row |-> memories[SelectedFrom(candidates)[n]]]],
              ![r].best = {memories[i] : i \in Deduplicated(candidates)}]
    /\ UNCHANGED <<memories, historyRevision, provider>>

\* Faulty: the history is not looked at again.
StillPreparedAlways(r) == TRUE

\* The preparation is read again under the conversation's lock and compared.
StillPrepared(r) == lookup[r].revision = historyRevision

UseMemories(r) ==
    /\ lookup[r].at = "found"
    /\ StillPrepared(r)
    /\ lookup' = [lookup EXCEPT ![r].at = "used"]
    /\ UNCHANGED <<memories, historyRevision, provider>>

\* A conflict, a provider's error, or the end of the answer.
EndLookup(r) ==
    /\ lookup[r].at # "idle"
    /\ lookup' = [lookup EXCEPT ![r] = NoLookup]
    /\ UNCHANGED <<memories, historyRevision, provider>>

RetrievalNext ==
    \/ WriteMemory \/ IndexMemory \/ ChangeProvider \/ Rewind
    \/ \E r \in Retrievals :
         StartLookup(r) \/ EmbedQuery(r) \/ SearchMemories(r) \/ UseMemories(r) \/ EndLookup(r)

RetrievalSpec == RetrievalInit /\ [][RetrievalNext]_retrievalVars

-----------------------------------------------------------------------------
(* Properties *)

Rows(r) == {lookup[r].found[n].row : n \in DOMAIN lookup[r].found}

Spent(r) ==
    LET found == lookup[r].found
    IN  SumFunction([n \in DOMAIN found |-> SizeOf[found[n].row.text]])

\* What an answer is given stays within its limits, says nothing twice, keeps the
\* order of the history, and leaves no room for a memory that was found.
RoomIsUsed ==
    \A r \in Retrievals : lookup[r].at \in {"found", "used"} =>
        LET found == lookup[r].found
        IN  /\ Len(found) <= ResultLimit
            /\ Spent(r) <= TokenBudget
            /\ \A m, n \in DOMAIN found : m < n =>
                 /\ found[m].id < found[n].id
                 /\ KeyOf[found[m].row.text] # KeyOf[found[n].row.text]
            /\ Len(found) < ResultLimit =>
                 \A row \in lookup[r].best \ Rows(r) :
                     Spent(r) + SizeOf[row.text] > TokenBudget

\* A vector is only compared with vectors of its own provider, although the provider
\* changes while the query is embedded.
VectorsAreComparable ==
    \A r \in Retrievals : \A row \in Rows(r) : row.by = lookup[r].by

\* When an answer starts with memories, they are still memories of its history: a
\* rewind between the preparation and the start leaves none of them in the prompt.
UsedMemoriesStand ==
    [][\A r \in Retrievals : lookup[r].at = "found" /\ lookup'[r].at = "used" =>
         \A n \in DOMAIN lookup[r].found :
             /\ memories[lookup[r].found[n].id] = lookup[r].found[n].row
             /\ lookup[r].found[n].row.revision = historyRevision]_retrievalVars

\* The invariants of a retrieval while its conversation and provider change.
MemoriesAreUsable == RoomIsUsed /\ VectorsAreComparable
===============================================================================

--------------------------- MODULE MCConversation ---------------------------
(* A conversation: its answers while the history changes, its summaries and  *)
(* their retrieval, the lore of its prompts, and its display in a browser,   *)
(* each explored from its own start.  Summaries are explored twice: edited   *)
(* while one request is processed, and with a new request during the         *)
(* processing of another.  After a history was cut one memory more is made.  *)
EXTENDS AnswerGeneration, MemoryWork, ChatHistory, MemoryRetrieval, MCLoreSelection, TLC

VARIABLE part

\* Every message as large as the recent text that stays raw.
Even == [i \in 1..MaxLength |-> 1]

\* Two contents alike, and one too large for the budget.
MCTexts == {"a", "A", "b"}
MCKeyOf == [t \in MCTexts |-> IF t = "b" THEN "b" ELSE "a"]
MCSizeOf == [t \in MCTexts |-> IF t = "b" THEN 3 ELSE 1]

ConversationVars ==
    <<vars, memoryVars, historyVars, retrievalVars, loreVars, part>>

\* One lorebook will do, and no provider is configured yet, where the other parts start.
LoreAtRest ==
    /\ book = MCPlain /\ ids = [i \in DOMAIN book |-> i]
    /\ said = <<>> /\ picked = {} /\ prompt = NoLore

RetrievalAtRest ==
    /\ memories = [i \in MemoryIds |-> NoMemory] /\ historyRevision = 0
    /\ provider = NoMemory /\ lookup = [r \in Retrievals |-> NoLookup]

ConversationInit ==
    /\ part \in {"answers", "edited summaries", "requested summaries", "display",
                 "retrieval", "lore"}
    /\ Init /\ MemoryInit /\ HistoryInit
    /\ IF part = "retrieval" THEN RetrievalInit ELSE RetrievalAtRest
    /\ IF part = "lore" THEN LoreInit ELSE LoreAtRest

ConversationNext ==
    /\ UNCHANGED part
    /\ \/ /\ part = "answers" /\ Next
          /\ UNCHANGED <<memoryVars, historyVars, retrievalVars, loreVars>>
       \/ /\ part = "edited summaries" /\ MemoryNext /\ job'.requested <= 1
          /\ UNCHANGED <<vars, historyVars, retrievalVars, loreVars>>
       \/ /\ part = "requested summaries" /\ MemoryNext /\ sourceRevision' = 0
          /\ UNCHANGED <<vars, historyVars, retrievalVars, loreVars>>
       \/ /\ part = "display" /\ HistoryNext
          /\ UNCHANGED <<vars, memoryVars, retrievalVars, loreVars>>
       \/ /\ part = "retrieval" /\ RetrievalNext /\ (historyRevision' > 0 => memories'[2] = NoMemory)
          /\ UNCHANGED <<vars, memoryVars, historyVars, loreVars>>
       \/ /\ part = "lore" /\ LoreNext
          /\ UNCHANGED <<vars, memoryVars, historyVars, retrievalVars>>

ConversationSpec == ConversationInit /\ [][ConversationNext]_ConversationVars

ConversationSymmetry == Permutations(Executions)
=============================================================================

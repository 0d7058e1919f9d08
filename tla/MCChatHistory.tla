--------------------------- MODULE MCChatHistory ---------------------------
EXTENDS ChatHistory, TLC
Symmetry == Permutations(Reads)
=============================================================================

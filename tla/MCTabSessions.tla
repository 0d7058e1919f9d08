---------------------------- MODULE MCTabSessions ----------------------------
(* A small instance of TabSessions.                                          *)
EXTENDS TabSessions, TLC

MCTabSymmetry == Permutations(Tabs) \cup Permutations(Families)
==============================================================================

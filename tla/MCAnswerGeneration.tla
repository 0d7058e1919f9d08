------------------------- MODULE MCAnswerGeneration -------------------------
(* Small instances of AnswerGeneration for TLC. *)
EXTENDS AnswerGeneration, TLC

\* Executions that wait for their turn are interchangeable.
Symmetry == Permutations(Executions)
=============================================================================

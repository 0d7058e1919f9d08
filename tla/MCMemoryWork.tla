---------------------------- MODULE MCMemoryWork ----------------------------
(* A small instance of MemoryWork for TLC. *)
EXTENDS MemoryWork

\* The message in the middle is as large as a batch.
Uneven == [i \in 1..MaxLength |-> IF i = 2 THEN 2 ELSE 1]
=============================================================================

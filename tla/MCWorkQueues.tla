---------------------------- MODULE MCWorkQueues ----------------------------
(* The two durable queues, each explored from its own start: they share no   *)
(* state, and "part" says which of them a behaviour is about.                *)
EXTENDS MCMemoryWork, MailDelivery

VARIABLE part

QueueVars == <<memoryVars, mailVars, part>>

QueueInit == part \in {"memory", "mail"} /\ MemoryInit /\ MailInit

QueueNext ==
    /\ UNCHANGED part
    /\ \/ part = "memory" /\ MemoryNext /\ UNCHANGED mailVars
       \/ part = "mail" /\ MailNext /\ UNCHANGED memoryVars

\* No fair action is enabled in the part that does not run.
QueueSpec == QueueInit /\ [][QueueNext]_QueueVars /\ MemoryFairness /\ MailFairness
=============================================================================

---------------------------- MODULE AnswerPromise ----------------------------
(***************************************************************************)
(* What a user may rely on for each answer request key: it is accepted at  *)
(* most once, the provider is asked at most once, the user is charged      *)
(* exactly when an answer is delivered, and a request reported as never    *)
(* having reached the provider really never does.                          *)
(***************************************************************************)
EXTENDS Naturals

CONSTANT Keys

VARIABLES
    status,   \* new, owed, delivered, withheld (maybe asked) or unasked
    asked,    \* how many times the provider was asked
    charged   \* the keys the user paid for

vars == <<status, asked, charged>>

Init ==
    /\ status = [k \in Keys |-> "new"]
    /\ asked = [k \in Keys |-> 0]
    /\ charged = {}

Accept(k) ==
    /\ status[k] = "new"
    /\ status' = [status EXCEPT ![k] = "owed"]
    /\ UNCHANGED <<asked, charged>>

\* A slow execution may still ask after its request was withheld.
Ask(k) ==
    /\ status[k] \in {"owed", "withheld"}
    /\ asked[k] = 0
    /\ asked' = [asked EXCEPT ![k] = 1]
    /\ UNCHANGED <<status, charged>>

Deliver(k) ==
    /\ status[k] = "owed"
    /\ asked[k] = 1
    /\ status' = [status EXCEPT ![k] = "delivered"]
    /\ charged' = charged \cup {k}
    /\ UNCHANGED asked

Withhold(k) ==
    /\ status[k] = "owed"
    /\ status' = [status EXCEPT ![k] = "withheld"]
    /\ UNCHANGED <<asked, charged>>

\* Only a request that was not asked may be reported so, and then it stays so.
ReportUnasked(k) ==
    /\ status[k] = "owed"
    /\ asked[k] = 0
    /\ status' = [status EXCEPT ![k] = "unasked"]
    /\ UNCHANGED <<asked, charged>>

Next == \E k \in Keys :
    Accept(k) \/ Ask(k) \/ Deliver(k) \/ Withhold(k) \/ ReportUnasked(k)

Spec == Init /\ [][Next]_vars
=============================================================================

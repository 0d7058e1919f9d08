----------------------------- MODULE MCIdentity -----------------------------
(* The accounts of the server, and a browser's tabs with its session, each   *)
(* explored from its own start.                                              *)
EXTENDS Accounts, TabSessions, TLC

VARIABLE part

IdentityVars == <<vars, tabVars, part>>

IdentityInit == part \in {"accounts", "tabs"} /\ Init /\ TabInit

IdentityNext ==
    /\ UNCHANGED part
    /\ \/ part = "accounts" /\ Next /\ UNCHANGED tabVars
       \/ part = "tabs" /\ TabNext /\ UNCHANGED vars

IdentitySpec == IdentityInit /\ [][IdentityNext]_IdentityVars

IdentitySymmetry == Permutations(Proofs) \cup Permutations(Sessions) \cup Permutations(Clients)
                      \cup Permutations(Secrets)
=============================================================================

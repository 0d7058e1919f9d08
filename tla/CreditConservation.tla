------------------------- MODULE CreditConservation -------------------------
(* The sums over the wallet that no single operation looks at. *)
EXTENDS CreditLedger, FiniteSetsExt

SumOfMoves(L, b) ==
    SumFunction([m \in L.moves |-> IF b = "free" THEN m.free ELSE m.paid])

SumOfHolds(L, b) ==
    SumFunction([r \in {q \in AllRequests : L.hold[q].status = "reserved"} |-> Part(L.hold[r], b)])

\* Every bucket's balance is what its movements add up to.
BalanceIsMovements ==
    \A b \in Buckets : ledger.balance[b] = SumOfMoves(ledger, b)

\* Every bucket's reserved amount is what its open reservations hold, and the
\* balance covers it: the database check 0 <= reserved <= balance never has to
\* refuse an operation.
ReservedIsBacked ==
    \A b \in Buckets :
        /\ ledger.reserved[b] = SumOfHolds(ledger, b)
        /\ ledger.reserved[b] <= ledger.balance[b]

\* The sums of a wallet, within what its columns hold.
SumsAreRight == BalanceIsMovements /\ ReservedIsBacked /\ WithinCapacity
=============================================================================

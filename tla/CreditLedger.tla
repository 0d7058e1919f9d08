---------------------------- MODULE CreditLedger ----------------------------
(***************************************************************************)
(* One user's wallet in one currency: free and paid buckets, reservations  *)
(* and the movement ledger (commerce/credit), with the billing bindings    *)
(* written in the same savepoint (commerce/billing/service/credits.py).    *)
(*                                                                         *)
(* A caller owns the transaction and may run several operations in it, so  *)
(* a session works on its own view of the ledger from the moment it takes  *)
(* the wallet lock; commit publishes the view, rollback forgets it.  An    *)
(* operation that raises rolls back to its own savepoint, and the caller   *)
(* may go on with the transaction.                                         *)
(***************************************************************************)
EXTENDS Integers, FiniteSets

CONSTANTS
    Sessions,     \* concurrent database sessions
    Requests,     \* request keys of reservations outside billing
    BillingRequests, \* request keys in the "billing" namespace
    Grants,       \* request keys of grants
    Settlements,  \* settlement keys outside billing
    Results,      \* result ids a reservation may be committed to
    Amounts,      \* credit amounts commands may ask for
    MaxCredit,    \* 2^63 - 1, the largest balance of a currency
    None          \* "no value"

ASSUME LedgerAssumption ==
    /\ Amounts \subseteq Nat
    /\ MaxCredit \in Nat
    /\ None \notin Results
    /\ Requests \cap BillingRequests = {}
    /\ Settlements \cap BillingRequests = {}
    /\ None \notin BillingRequests

AllRequests == Requests \cup BillingRequests

VARIABLES
    ledger,  \* what is committed
    tx       \* every session's transaction

vars == <<ledger, tx>>

Buckets == {"free", "paid"}

NoHold == [status |-> "none", free |-> 0, paid |-> 0, settlement |-> None, result |-> None]

EmptyLedger ==
    [prepared |-> FALSE,
     balance |-> [b \in Buckets |-> 0],
     reserved |-> [b \in Buckets |-> 0],
     hold |-> [r \in AllRequests |-> NoHold],
     bound |-> {},
     moves |-> {}]

NoTx == [at |-> "idle", locked |-> FALSE, view |-> EmptyLedger,
         request |-> None, savedLock |-> FALSE, saved |-> EmptyLedger]

Init ==
    /\ ledger = EmptyLedger
    /\ tx = [s \in Sessions |-> NoTx]

-----------------------------------------------------------------------------
(* Operations, as functions of the ledger a session sees *)

AvailableIn(L, b) == L.balance[b] - L.reserved[b]

Credit(L) == L.balance["free"] + L.balance["paid"]

Least(a, b) == IF a <= b THEN a ELSE b

\* has_settlement_key: on a reservation or on a consumption.  Billing derives its
\* settlement key from the request, and its namespace is its own.
SettlementUsed(L, key) ==
    \/ \E r \in AllRequests : L.hold[r].status # "none" /\ L.hold[r].settlement = key
    \/ \E m \in L.moves : m.kind = "consume" /\ m.key = key

\* Faulty: credit that other reservations hold is promised again.
CanReserveHeld(L, r, amount, key) ==
    /\ L.prepared
    /\ L.hold[r].status = "none"
    /\ ~SettlementUsed(L, key)
    /\ amount <= Credit(L)

CanReserve(L, r, amount, key) ==
    /\ L.prepared
    /\ L.hold[r].status = "none"
    /\ ~SettlementUsed(L, key)
    /\ amount <= AvailableIn(L, "free") + AvailableIn(L, "paid")

\* Free credit is taken first.
AfterReserve(L, r, amount, key) ==
    LET free == Least(amount, AvailableIn(L, "free"))
        paid == amount - free
    IN  [L EXCEPT
           !.reserved = [b \in Buckets |-> @[b] + (IF b = "free" THEN free ELSE paid)],
           !.hold[r] = [status |-> "reserved", free |-> free, paid |-> paid,
                        settlement |-> key, result |-> None]]

Part(h, b) == IF b = "free" THEN h.free ELSE h.paid

\* Faulty: a reservation that is already settled is settled again.
CanSettleAgain(L, r) == L.prepared /\ L.hold[r].status # "none"

CanSettle(L, r) == L.prepared /\ L.hold[r].status = "reserved"

AfterCommit(L, r, result) ==
    LET h == L.hold[r]
    IN  [L EXCEPT
           !.balance = [b \in Buckets |-> @[b] - Part(h, b)],
           !.reserved = [b \in Buckets |-> @[b] - Part(h, b)],
           !.hold[r] = [h EXCEPT !.status = "committed", !.result = result],
           !.moves = @ \cup {[kind |-> "consume", request |-> r, key |-> h.settlement,
                              reference |-> result, free |-> -h.free, paid |-> -h.paid]}]

AfterRelease(L, r) ==
    LET h == L.hold[r]
    IN  [L EXCEPT
           !.reserved = [b \in Buckets |-> @[b] - Part(h, b)],
           !.hold[r] = [h EXCEPT !.status = "released"]]

Granted(L, g) == \E m \in L.moves : m.kind = "grant" /\ m.request = g

\* Faulty: a retried grant is added to the balance again.
CanGrantAgain(L, g, amount) == amount > 0 /\ Credit(L) + amount <= MaxCredit

\* Faulty: the capacity of the currency is checked against the amount alone.
CanGrantBeyond(L, g, amount) == amount > 0 /\ ~Granted(L, g) /\ amount <= MaxCredit

CanGrant(L, g, amount) ==
    /\ amount > 0
    /\ ~Granted(L, g)
    /\ Credit(L) + amount <= MaxCredit

\* grant_credit prepares the wallet when it is missing.
AfterGrant(L, g, bucket, amount) ==
    LET free == IF bucket = "free" THEN amount ELSE 0
        paid == IF bucket = "paid" THEN amount ELSE 0
    IN  [L EXCEPT
           !.prepared = TRUE,
           !.balance[bucket] = @ + amount,
           !.moves = @ \cup {[kind |-> "grant", request |-> g, key |-> None,
                              reference |-> None, free |-> free, paid |-> paid]}]

-----------------------------------------------------------------------------
(* Sessions *)

\* lock_credit_wallet: held to the end of the transaction, or to the rollback
\* of the savepoint that took it.
LockFree(s) == \A t \in Sessions \ {s} : ~tx[t].locked

MayLock(s) == tx[s].locked \/ LockFree(s)

View(s) == IF tx[s].locked THEN tx[s].view ELSE ledger

Begin(s) ==
    /\ tx[s].at = "idle"
    /\ tx' = [tx EXCEPT ![s].at = "open"]
    /\ UNCHANGED ledger

\* An operation succeeds on the session's view, under the wallet lock.
Work(s, L) ==
    /\ tx' = [tx EXCEPT ![s].locked = TRUE, ![s].view = L]
    /\ UNCHANGED ledger

ReserveCredit(s) ==
    /\ tx[s].at = "open"
    /\ MayLock(s)
    /\ \E r \in Requests, amount \in Amounts, key \in Settlements :
         /\ CanReserve(View(s), r, amount, key)
         /\ Work(s, AfterReserve(View(s), r, amount, key))

CommitReservation(s) ==
    /\ tx[s].at = "open"
    /\ MayLock(s)
    /\ \E r \in AllRequests, result \in Results :
         /\ CanSettle(View(s), r)
         /\ Work(s, AfterCommit(View(s), r, result))

ReleaseReservation(s) ==
    /\ tx[s].at = "open"
    /\ MayLock(s)
    /\ \E r \in AllRequests :
         /\ CanSettle(View(s), r)
         /\ Work(s, AfterRelease(View(s), r))

GrantCredit(s) ==
    /\ tx[s].at = "open"
    /\ MayLock(s)
    /\ \E g \in Grants, bucket \in Buckets, amount \in Amounts :
         /\ CanGrant(View(s), g, amount)
         /\ Work(s, AfterGrant(View(s), g, bucket, amount))

PrepareWallet(s) ==
    /\ tx[s].at = "open"
    /\ MayLock(s)
    /\ ~View(s).prepared
    /\ Work(s, [View(s) EXCEPT !.prepared = TRUE])

\* An exact replay reads the stored row, changing nothing but holding the lock.
Replay(s) ==
    /\ tx[s].at = "open"
    /\ ~tx[s].locked
    /\ LockFree(s)
    /\ ledger.prepared
    /\ Work(s, ledger)

-----------------------------------------------------------------------------
(* Billing: reservation and binding share a savepoint *)

\* billing reserve_credit, up to the credit reservation inside its savepoint.
BillingReserve(s) ==
    /\ tx[s].at = "open"
    /\ MayLock(s)
    /\ \E r \in BillingRequests, amount \in Amounts :
         /\ r \notin View(s).bound
         /\ CanReserve(View(s), r, amount, r)
         /\ tx' = [tx EXCEPT ![s] =
              [@ EXCEPT !.at = "binding", !.request = r,
                        !.savedLock = tx[s].locked, !.saved = tx[s].view,
                        !.locked = TRUE,
                        !.view = AfterReserve(View(s), r, amount, r)]]
    /\ UNCHANGED ledger

\* Leave the savepoint with the given view and lock.
LeaveSavepoint(s, locked, L) ==
    /\ tx' = [tx EXCEPT ![s] =
         [@ EXCEPT !.at = "open", !.request = None, !.savedLock = FALSE,
                   !.saved = EmptyLedger, !.locked = locked, !.view = L]]
    /\ UNCHANGED ledger

BillingBind(s) ==
    /\ tx[s].at = "binding"
    /\ LeaveSavepoint(s, TRUE, [tx[s].view EXCEPT !.bound = @ \cup {tx[s].request}])

\* Faulty: the reservation made before the failed binding stays.
BillingBindFailsHalf(s) ==
    /\ tx[s].at = "binding"
    /\ LeaveSavepoint(s, TRUE, tx[s].view)

\* The binding cannot be written; the savepoint takes the reservation with it.
BillingBindFails(s) ==
    /\ tx[s].at = "binding"
    /\ LeaveSavepoint(s, tx[s].savedLock, tx[s].saved)

-----------------------------------------------------------------------------
CommitTransaction(s) ==
    /\ tx[s].at = "open"
    /\ ledger' = View(s)
    /\ tx' = [tx EXCEPT ![s] = NoTx]

\* Rollback, a crash, or a lost connection
RollbackTransaction(s) ==
    /\ tx[s].at # "idle"
    /\ tx' = [tx EXCEPT ![s] = NoTx]
    /\ UNCHANGED ledger

Next == \E s \in Sessions :
    \/ Begin(s)
    \/ ReserveCredit(s) \/ CommitReservation(s) \/ ReleaseReservation(s)
    \/ GrantCredit(s) \/ PrepareWallet(s) \/ Replay(s)
    \/ BillingReserve(s) \/ BillingBind(s) \/ BillingBindFails(s)
    \/ CommitTransaction(s) \/ RollbackTransaction(s)

Spec == Init /\ [][Next]_vars

-----------------------------------------------------------------------------
(* Properties *)

Hold == [status: {"none", "reserved", "committed", "released"}, free: Nat, paid: Nat,
         settlement: Settlements \cup BillingRequests \cup {None},
         result: Results \cup {None}]

Move == [kind: {"grant", "consume"}, request: AllRequests \cup Grants,
         key: Settlements \cup BillingRequests \cup {None},
         reference: Results \cup {None}, free: Int, paid: Int]

Ledger == [prepared: BOOLEAN, balance: [Buckets -> Int], reserved: [Buckets -> Int],
           hold: [AllRequests -> Hold], bound: SUBSET BillingRequests,
           moves: SUBSET Move]

\* The shape of the ledger and of every session's view of it.
TypeOK ==
    /\ ledger \in Ledger
    /\ tx \in [Sessions ->
         [at: {"idle", "open", "binding"}, locked: BOOLEAN, view: Ledger,
          request: BillingRequests \cup {None}, savedLock: BOOLEAN, saved: Ledger]]

Consumption(h, r) ==
    [kind |-> "consume", request |-> r, key |-> h.settlement,
     reference |-> h.result, free |-> -h.free, paid |-> -h.paid]

\* The ledger's consumptions are exactly those of the committed reservations,
\* each with its amounts and its result.
ConsumptionsMatch(L) ==
    {m \in L.moves : m.kind = "consume"} =
        {Consumption(L.hold[r], r) : r \in {q \in AllRequests : L.hold[q].status = "committed"}}

\* No settlement key pays for two reservations.
SettlementsDistinct(L) ==
    \A q, r \in AllRequests :
        /\ L.hold[q].status # "none"
        /\ L.hold[r].status # "none"
        /\ L.hold[q].settlement = L.hold[r].settlement
        => q = r

\* Whatever is replayed, rolled back or retried, a reservation is paid for once
\* if it was committed and never otherwise.
PaidExactlyOnce == ConsumptionsMatch(ledger) /\ SettlementsDistinct(ledger)

\* A billing reservation never commits without its quote binding, nor the binding
\* without it: they share one savepoint.
BoundTogether ==
    \A r \in BillingRequests : r \in ledger.bound <=> ledger.hold[r].status # "none"

\* A currency never exceeds what a bigint holds, however many sessions grant at
\* once and however much is reserved meanwhile.
WithinCapacity == Credit(ledger) <= MaxCredit

\* What is committed or released stays so, whoever retries it, and the movement
\* ledger only grows: a session that read before another's commit cannot undo it.
SettlementIsFinal ==
    [][/\ \A r \in AllRequests :
            ledger.hold[r].status \in {"committed", "released"}
                => ledger'.hold[r] = ledger.hold[r]
       /\ ledger.moves \subseteq ledger'.moves]_vars
=============================================================================

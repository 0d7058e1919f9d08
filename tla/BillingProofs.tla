--------------------------- MODULE BillingProofs ----------------------------
(***************************************************************************)
(* Proofs about the wallet, for any number of sessions, requests and       *)
(* amounts, and about quotes, for any price books and number of buyers.    *)
(*                                                                         *)
(* An operation on the wallet is a function of the ledger it sees, so most *)
(* of the argument is about ledgers: each operation keeps a ledger sound,  *)
(* its sums included, and only extends it.  The rest is about transactions:*)
(* only the holder of the wallet lock can see anything but the committed   *)
(* ledger.                                                                 *)
(*                                                                         *)
(* Quotes have one owner at a time, the holder of their key's lock; what   *)
(* the attempts hold fits the stored rows, and no two quotes share an id.  *)
(***************************************************************************)
EXTENDS CreditConservation, PriceQuotes, FiniteSums

USE DEF Buckets

\* Reservations never promise more than a bucket has.
Covered(L) == \A b \in Buckets : L.reserved[b] <= L.balance[b]

Open(L) == {r \in AllRequests : L.hold[r].status = "reserved"}

\* The books balance: what a bucket has is what its movements add up to, and what
\* it has promised is what its open reservations hold.
Balanced(L) ==
    /\ IsFiniteSet(L.moves) /\ IsFiniteSet(Open(L))
    /\ \A b \in Buckets : L.balance[b] = SumOfMoves(L, b) /\ L.reserved[b] = SumOfHolds(L, b)

Sound(L) ==
    /\ L \in Ledger
    /\ Covered(L)
    /\ Balanced(L)
    /\ Credit(L) <= MaxCredit
    /\ ConsumptionsMatch(L)
    /\ SettlementsDistinct(L)

\* Requests with a hold but without a binding, or the other way round.
Loose(L) == {r \in BillingRequests : ~(r \in L.bound <=> L.hold[r].status # "none")}

\* L may follow K: what K settled stands, and no movement is forgotten.
Extends(K, L) ==
    /\ \A r \in AllRequests :
          K.hold[r].status \in {"committed", "released"} => L.hold[r] = K.hold[r]
    /\ K.moves \subseteq L.moves

-----------------------------------------------------------------------------
(* The sums of a ledger *)

\* What a movement adds to a bucket.
Moved(m, b) == IF b = "free" THEN m.free ELSE m.paid

\* A finite set stays finite with one element more.
LEMMA OneMore ==
    ASSUME NEW S, NEW T, NEW x, IsFiniteSet(S), T = S \cup {x}
    PROVE  IsFiniteSet(T)
BY FS_AddElement

\* Nothing held, moved or promised.
LEMMA EmptyIsBalanced == Balanced(EmptyLedger)
<1>1. EmptyLedger.moves = {} /\ Open(EmptyLedger) = {}
  BY DEF EmptyLedger, Open, NoHold
<1>2. IsFiniteSet({}) /\ \A f : DOMAIN f = {} => SumFunction(f) = 0
  BY SumOfFunction, SumEmpty, FS_EmptySet
<1>3. \A b \in Buckets : SumOfMoves(EmptyLedger, b) = 0 /\ SumOfHolds(EmptyLedger, b) = 0
  BY <1>1, <1>2 DEF SumOfMoves, SumOfHolds, Open
<1>4. \A b \in Buckets : EmptyLedger.balance[b] = 0 /\ EmptyLedger.reserved[b] = 0
  BY DEF EmptyLedger
<1> QED BY <1>1, <1>2, <1>3, <1>4 DEF Balanced

\* One movement more.
LEMMA OneMove ==
    ASSUME NEW L, NEW N, L \in Ledger, NEW m \in Move, IsFiniteSet(L.moves),
           m \notin L.moves, N.moves = L.moves \cup {m}, NEW b \in Buckets
    PROVE  SumOfMoves(N, b) = SumOfMoves(L, b) + Moved(m, b) /\ SumOfMoves(L, b) \in Int
<1> DEFINE f == [x \in L.moves |-> IF b = "free" THEN x.free ELSE x.paid]
           g == [x \in N.moves |-> IF b = "free" THEN x.free ELSE x.paid]
<1>1. \A x \in L.moves : f[x] \in Int /\ g[x] = f[x]
  BY DEF Ledger, Move
<1>2. g[m] = Moved(m, b) /\ g[m] \in Int
  BY DEF Move, Moved
<1>3. DOMAIN f = L.moves /\ DOMAIN g = (DOMAIN f) \cup {m}
  OBVIOUS
<1>4. SumOfMoves(L, b) = SumFunction(f) /\ SumOfMoves(N, b) = SumFunction(g)
  BY DEF SumOfMoves
<1> HIDE DEF f, g
<1> QED BY <1>1, <1>2, <1>3, <1>4, SumWith

\* One open reservation more, or, the other way round, one less.
LEMMA OneHold ==
    ASSUME NEW L, NEW N, L \in Ledger, NEW r \in AllRequests, IsFiniteSet(Open(L)),
           r \notin Open(L), Open(N) = Open(L) \cup {r},
           \A q \in Open(L) : N.hold[q] = L.hold[q],
           NEW b \in Buckets, Part(N.hold[r], b) \in Int
    PROVE  SumOfHolds(N, b) = SumOfHolds(L, b) + Part(N.hold[r], b) /\ SumOfHolds(L, b) \in Int
<1> DEFINE f == [q \in Open(L) |-> Part(L.hold[q], b)]
           g == [q \in Open(N) |-> Part(N.hold[q], b)]
<1>1. \A q \in Open(L) : f[q] \in Int /\ g[q] = f[q]
  BY DEF Ledger, Hold, Part, Open
<1>2. g[r] = Part(N.hold[r], b) /\ g[r] \in Int
  OBVIOUS
<1>3. DOMAIN f = Open(L) /\ DOMAIN g = (DOMAIN f) \cup {r}
  OBVIOUS
<1>4. SumOfHolds(L, b) = SumFunction(f) /\ SumOfHolds(N, b) = SumFunction(g)
  BY DEF SumOfHolds, Open
<1> HIDE DEF f, g
<1> QED BY <1>1, <1>2, <1>3, <1>4, SumWith

LEMMA SameMoves ==
    ASSUME NEW L, NEW N, N.moves = L.moves
    PROVE  \A b : SumOfMoves(N, b) = SumOfMoves(L, b)
BY DEF SumOfMoves

LEMMA SameHolds ==
    ASSUME NEW L, NEW N, N.hold = L.hold
    PROVE  Open(N) = Open(L) /\ \A b : SumOfHolds(N, b) = SumOfHolds(L, b)
BY DEF SumOfHolds, Open

-----------------------------------------------------------------------------
(* Operations on ledgers *)

LEMMA EmptyIsSound == Sound(EmptyLedger) /\ Loose(EmptyLedger) = {}
<1>1. NoHold \in Hold
  BY DEF NoHold, Hold
<1>2. EmptyLedger \in Ledger
  BY <1>1 DEF EmptyLedger, Ledger
<1>3. Covered(EmptyLedger) /\ Credit(EmptyLedger) <= MaxCredit
  BY LedgerAssumption DEF Covered, Credit, EmptyLedger
<1>4. ConsumptionsMatch(EmptyLedger) /\ SettlementsDistinct(EmptyLedger)
  BY DEF ConsumptionsMatch, SettlementsDistinct, EmptyLedger, NoHold
<1>5. Loose(EmptyLedger) = {}
  BY DEF Loose, EmptyLedger, NoHold, AllRequests
<1> QED BY <1>2, <1>3, <1>4, <1>5, EmptyIsBalanced DEF Sound

\* A reservation splits its amount into what the free bucket has and the rest.
LEMMA SplitFits ==
    ASSUME NEW L, Sound(L), NEW amount \in Nat,
           amount <= AvailableIn(L, "free") + AvailableIn(L, "paid")
    PROVE  LET free == Least(amount, AvailableIn(L, "free"))
           IN  /\ free \in Nat /\ amount - free \in Nat
               /\ L.reserved["free"] + free <= L.balance["free"]
               /\ L.reserved["paid"] + (amount - free) <= L.balance["paid"]
<1>1. /\ L.balance["free"] \in Int /\ L.balance["paid"] \in Int
      /\ L.reserved["free"] \in Int /\ L.reserved["paid"] \in Int
  BY DEF Sound, Ledger
<1>2. /\ L.reserved["free"] <= L.balance["free"]
      /\ L.reserved["paid"] <= L.balance["paid"]
  BY DEF Sound, Covered
<1> QED BY <1>1, <1>2 DEF AvailableIn, Least

LEMMA ReserveIsSound ==
    ASSUME NEW L, Sound(L), NEW r \in AllRequests, NEW amount \in Amounts,
           NEW key \in Settlements \cup BillingRequests,
           CanReserve(L, r, amount, key)
    PROVE  /\ Sound(AfterReserve(L, r, amount, key))
           /\ Extends(L, AfterReserve(L, r, amount, key))
<1> DEFINE N == AfterReserve(L, r, amount, key)
           free == Least(amount, AvailableIn(L, "free"))
           paid == amount - free
           hold == [status |-> "reserved", free |-> free, paid |-> paid,
                    settlement |-> key, result |-> None]
<1>1. amount \in Nat /\ L \in Ledger
  BY LedgerAssumption DEF Sound
<1>2. /\ free \in Nat /\ paid \in Nat
      /\ L.reserved["free"] + free <= L.balance["free"]
      /\ L.reserved["paid"] + paid <= L.balance["paid"]
  BY <1>1, SplitFits DEF CanReserve
<1> HIDE DEF free
<1>3. /\ N.prepared = L.prepared /\ N.balance = L.balance
      /\ N.bound = L.bound /\ N.moves = L.moves
      /\ N.reserved = [b \in Buckets |-> L.reserved[b] + (IF b = "free" THEN free ELSE paid)]
      /\ N.hold = [L.hold EXCEPT ![r] = hold]
  BY <1>1 DEF AfterReserve, Ledger, free
<1>4. hold \in Hold
  BY <1>2 DEF Hold
<1>5. N = [L EXCEPT !.reserved = N.reserved, !.hold = N.hold]
  BY <1>1 DEF AfterReserve, Ledger
<1>6. N \in Ledger
  <2>1. N.reserved \in [Buckets -> Int]
    BY <1>1, <1>2, <1>3 DEF Ledger
  <2>2. N.hold \in [AllRequests -> Hold]
    <3> HIDE DEF hold
    <3> QED BY <1>1, <1>3, <1>4 DEF Ledger
  <2> HIDE DEF N
  <2> QED BY <1>1, <1>3, <1>5, <2>1, <2>2 DEF Ledger
<1> HIDE DEF N
<1>7. Covered(N)
  BY <1>1, <1>2, <1>3 DEF Covered
<1>8. Credit(N) <= MaxCredit
  BY <1>3 DEF Credit, Sound
<1>9. /\ \A q \in AllRequests \ {r} : N.hold[q] = L.hold[q]
      /\ N.hold[r] = hold
      /\ L.hold[r].status = "none"
  BY <1>1, <1>3 DEF Ledger, CanReserve
<1>10. ConsumptionsMatch(N)
  <2>1. {q \in AllRequests : N.hold[q].status = "committed"}
          = {q \in AllRequests : L.hold[q].status = "committed"}
    BY <1>9
  <2>2. \A q \in AllRequests : L.hold[q].status = "committed"
          => Consumption(N.hold[q], q) = Consumption(L.hold[q], q)
    BY <1>9
  <2>3. {Consumption(N.hold[q], q) : q \in {p \in AllRequests : N.hold[p].status = "committed"}}
          = {Consumption(L.hold[q], q) : q \in {p \in AllRequests : L.hold[p].status = "committed"}}
    BY <2>1, <2>2
  <2> QED BY <1>3, <2>3 DEF ConsumptionsMatch, Sound
<1>11. SettlementsDistinct(N)
  <2>1. \A q \in AllRequests \ {r} : L.hold[q].status # "none" => L.hold[q].settlement # key
    BY DEF CanReserve, SettlementUsed
  <2> QED BY <1>9, <2>1 DEF SettlementsDistinct, Sound
<1>12. Extends(L, N)
  BY <1>3, <1>9 DEF Extends
<1>13. Balanced(N)
  <2>1. Open(N) = Open(L) \cup {r} /\ r \notin Open(L) /\ \A q \in Open(L) : N.hold[q] = L.hold[q]
    BY <1>9 DEF Open
  <2>2. IsFiniteSet(L.moves) /\ IsFiniteSet(Open(L)) /\ IsFiniteSet(Open(N))
    <3>1. IsFiniteSet(L.moves) /\ IsFiniteSet(Open(L))
      BY DEF Sound, Balanced
    <3>2. IsFiniteSet(Open(N))
      BY <2>1, <3>1, OneMore
    <3> QED BY <3>1, <3>2
  <2>3. ASSUME NEW b \in Buckets PROVE N.reserved[b] = SumOfHolds(N, b)
    <3>1. N.reserved[b] = L.reserved[b] + Part(N.hold[r], b) /\ Part(N.hold[r], b) \in Int
      BY <1>2, <1>3, <1>9 DEF Part
    <3>2. SumOfHolds(N, b) = SumOfHolds(L, b) + Part(N.hold[r], b)
      BY <1>1, <2>1, <2>2, <3>1, OneHold
    <3> QED BY <3>1, <3>2 DEF Sound, Balanced
  <2> QED BY <1>3, <2>2, <2>3, SameMoves DEF Sound, Balanced
<1> QED BY <1>6, <1>7, <1>8, <1>10, <1>11, <1>12, <1>13 DEF Sound, N

\* What every settlement starts from: a reserved hold, covered by its buckets.
LEMMA HeldParts ==
    ASSUME NEW L, Sound(L), NEW r \in AllRequests, CanSettle(L, r)
    PROVE  /\ L \in Ledger /\ L.hold[r] \in Hold
           /\ L.hold[r].status = "reserved"
           /\ \A b \in Buckets : /\ Part(L.hold[r], b) \in Nat
                                 /\ L.balance[b] \in Int /\ L.reserved[b] \in Int
                                 /\ L.reserved[b] <= L.balance[b]
<1>1. L \in Ledger /\ L.hold[r] \in Hold /\ L.hold[r].status = "reserved"
  BY DEF Sound, Ledger, CanSettle
<1>2. \A b \in Buckets : Part(L.hold[r], b) \in Nat
  BY <1>1 DEF Hold, Part
<1>3. \A b \in Buckets : L.balance[b] \in Int /\ L.reserved[b] \in Int
                         /\ L.reserved[b] <= L.balance[b]
  BY <1>1 DEF Sound, Covered, Ledger
<1> QED BY <1>1, <1>2, <1>3

LEMMA CommitIsSound ==
    ASSUME NEW L, Sound(L), NEW r \in AllRequests, NEW result \in Results,
           CanSettle(L, r)
    PROVE  /\ Sound(AfterCommit(L, r, result))
           /\ Extends(L, AfterCommit(L, r, result))
           /\ Loose(AfterCommit(L, r, result)) = Loose(L)
<1> DEFINE N == AfterCommit(L, r, result)
           h == L.hold[r]
           paid == [kind |-> "consume", request |-> r, key |-> h.settlement,
                    reference |-> result, free |-> -h.free, paid |-> -h.paid]
           hold == [h EXCEPT !.status = "committed", !.result = result]
<1>1. /\ L \in Ledger /\ h \in Hold /\ h.status = "reserved"
      /\ \A b \in Buckets : /\ Part(h, b) \in Nat
                            /\ L.balance[b] \in Int /\ L.reserved[b] \in Int
                            /\ L.reserved[b] <= L.balance[b]
  BY HeldParts
<1>2. /\ N.prepared = L.prepared /\ N.bound = L.bound
      /\ N.moves = L.moves \cup {paid}
      /\ N.balance = [b \in Buckets |-> L.balance[b] - Part(h, b)]
      /\ N.reserved = [b \in Buckets |-> L.reserved[b] - Part(h, b)]
      /\ N.hold = [L.hold EXCEPT ![r] = hold]
  BY <1>1 DEF AfterCommit, Ledger
<1>3. N = [L EXCEPT !.balance = N.balance, !.reserved = N.reserved,
                    !.hold = N.hold, !.moves = N.moves]
  BY <1>1 DEF AfterCommit, Ledger
<1>4. /\ hold \in Hold /\ hold.status = "committed" /\ hold.settlement = h.settlement
      /\ Consumption(hold, r) = paid
  BY <1>1 DEF Hold, Consumption
<1>5. paid \in Move /\ paid.kind = "consume"
  BY <1>1 DEF Hold, Move
<1> HIDE DEF N, paid, hold
<1>6. N \in Ledger
  <2>1. N.balance \in [Buckets -> Int] /\ N.reserved \in [Buckets -> Int]
    BY <1>1, <1>2
  <2>2. N.hold \in [AllRequests -> Hold]
    BY <1>1, <1>2, <1>4 DEF Ledger
  <2>3. N.moves \in SUBSET Move
    BY <1>1, <1>2, <1>5 DEF Ledger
  <2> QED BY <1>1, <1>2, <1>3, <2>1, <2>2, <2>3 DEF Ledger
<1>7. Covered(N)
  BY <1>1, <1>2 DEF Covered
<1>8. Credit(N) <= MaxCredit
  BY <1>1, <1>2, LedgerAssumption DEF Credit, Sound
<1>9. /\ \A q \in AllRequests \ {r} : N.hold[q] = L.hold[q]
      /\ N.hold[r] = hold
  BY <1>1, <1>2 DEF Ledger
<1>10. ConsumptionsMatch(N)
  <2>1. {q \in AllRequests : N.hold[q].status = "committed"}
          = {q \in AllRequests : L.hold[q].status = "committed"} \cup {r}
    BY <1>4, <1>9
  <2>2. \A q \in AllRequests : L.hold[q].status = "committed"
          => q # r /\ Consumption(N.hold[q], q) = Consumption(L.hold[q], q)
    BY <1>1, <1>9
  <2>3. Consumption(N.hold[r], r) = paid
    BY <1>4, <1>9
  <2>4. {Consumption(N.hold[q], q) : q \in {p \in AllRequests : N.hold[p].status = "committed"}}
          = {Consumption(L.hold[q], q) : q \in {p \in AllRequests : L.hold[p].status = "committed"}}
              \cup {paid}
    BY <2>1, <2>2, <2>3
  <2>5. {m \in N.moves : m.kind = "consume"} = {m \in L.moves : m.kind = "consume"} \cup {paid}
    BY <1>2, <1>5
  <2> QED BY <2>4, <2>5 DEF ConsumptionsMatch, Sound
<1>11. SettlementsDistinct(N)
  BY <1>1, <1>4, <1>9 DEF SettlementsDistinct, Sound
<1>12. Extends(L, N)
  BY <1>1, <1>2, <1>9 DEF Extends
<1>13. Loose(N) = Loose(L)
  BY <1>1, <1>2, <1>4, <1>9 DEF Loose, AllRequests
<1>14. Balanced(N)
  <2>1. Open(L) = Open(N) \cup {r} /\ r \notin Open(N) /\ \A q \in Open(N) : L.hold[q] = N.hold[q]
    BY <1>1, <1>4, <1>9 DEF Open
  <2>2. IsFiniteSet(L.moves) /\ IsFiniteSet(Open(L)) /\ IsFiniteSet(Open(N))
    BY <2>1, FS_Subset DEF Sound, Balanced
  <2>3. ASSUME NEW b \in Buckets PROVE N.reserved[b] = SumOfHolds(N, b)
    <3>1. N.reserved[b] = L.reserved[b] - Part(h, b) /\ Part(h, b) \in Int
      BY <1>1, <1>2
    <3>2. SumOfHolds(L, b) = SumOfHolds(N, b) + Part(h, b) /\ SumOfHolds(N, b) \in Int
      BY <2>1, <2>2, <3>1, <1>6, OneHold
    <3> QED BY <3>1, <3>2 DEF Sound, Balanced
  <2>4. paid \notin L.moves
    <3>1. \A m \in L.moves : m.kind = "consume" => L.hold[m.request].status = "committed"
      BY DEF Sound, ConsumptionsMatch, Consumption
    <3> QED BY <1>1, <1>5, <3>1 DEF paid
  <2>5. IsFiniteSet(N.moves)
    <3>1. N.moves = L.moves \cup {paid}
      BY <1>2
    <3> QED BY <2>2, <3>1, OneMore
  <2>6. ASSUME NEW b \in Buckets PROVE N.balance[b] = SumOfMoves(N, b)
    <3>1. N.balance[b] = L.balance[b] - Part(h, b) /\ Moved(paid, b) = -Part(h, b)
          /\ Part(h, b) \in Int
      BY <1>1, <1>2 DEF Moved, Part, paid
    <3>2. SumOfMoves(N, b) = SumOfMoves(L, b) + Moved(paid, b) /\ SumOfMoves(L, b) \in Int
      BY <1>1, <1>2, <1>5, <2>2, <2>4, OneMove
    <3> QED BY <3>1, <3>2 DEF Sound, Balanced
  <2> QED BY <2>2, <2>3, <2>5, <2>6 DEF Balanced
<1> QED BY <1>6, <1>7, <1>8, <1>10, <1>11, <1>12, <1>13, <1>14 DEF Sound, N

LEMMA ReleaseIsSound ==
    ASSUME NEW L, Sound(L), NEW r \in AllRequests, CanSettle(L, r)
    PROVE  /\ Sound(AfterRelease(L, r))
           /\ Extends(L, AfterRelease(L, r))
           /\ Loose(AfterRelease(L, r)) = Loose(L)
<1> DEFINE N == AfterRelease(L, r)
           h == L.hold[r]
           hold == [h EXCEPT !.status = "released"]
<1>1. /\ L \in Ledger /\ h \in Hold /\ h.status = "reserved"
      /\ \A b \in Buckets : /\ Part(h, b) \in Nat
                            /\ L.balance[b] \in Int /\ L.reserved[b] \in Int
                            /\ L.reserved[b] <= L.balance[b]
  BY HeldParts
<1>2. /\ N.prepared = L.prepared /\ N.bound = L.bound
      /\ N.moves = L.moves /\ N.balance = L.balance
      /\ N.reserved = [b \in Buckets |-> L.reserved[b] - Part(h, b)]
      /\ N.hold = [L.hold EXCEPT ![r] = hold]
  BY <1>1 DEF AfterRelease, Ledger
<1>3. N = [L EXCEPT !.reserved = N.reserved, !.hold = N.hold]
  BY <1>1 DEF AfterRelease, Ledger
<1>4. hold \in Hold /\ hold.status = "released" /\ hold.settlement = h.settlement
  BY <1>1 DEF Hold
<1> HIDE DEF N, hold
<1>5. N \in Ledger
  <2>1. N.reserved \in [Buckets -> Int]
    BY <1>1, <1>2
  <2>2. N.hold \in [AllRequests -> Hold]
    BY <1>1, <1>2, <1>4 DEF Ledger
  <2> QED BY <1>1, <1>2, <1>3, <2>1, <2>2 DEF Ledger
<1>6. Covered(N)
  BY <1>1, <1>2 DEF Covered
<1>7. Credit(N) <= MaxCredit
  BY <1>2 DEF Credit, Sound
<1>8. /\ \A q \in AllRequests \ {r} : N.hold[q] = L.hold[q]
      /\ N.hold[r] = hold
  BY <1>1, <1>2 DEF Ledger
<1>9. ConsumptionsMatch(N)
  <2>1. {q \in AllRequests : N.hold[q].status = "committed"}
          = {q \in AllRequests : L.hold[q].status = "committed"}
    BY <1>1, <1>4, <1>8
  <2>2. \A q \in AllRequests : L.hold[q].status = "committed"
          => Consumption(N.hold[q], q) = Consumption(L.hold[q], q)
    BY <1>1, <1>8
  <2>3. {Consumption(N.hold[q], q) : q \in {p \in AllRequests : N.hold[p].status = "committed"}}
          = {Consumption(L.hold[q], q) : q \in {p \in AllRequests : L.hold[p].status = "committed"}}
    BY <2>1, <2>2
  <2> QED BY <1>2, <2>3 DEF ConsumptionsMatch, Sound
<1>10. SettlementsDistinct(N)
  BY <1>1, <1>4, <1>8 DEF SettlementsDistinct, Sound
<1>11. Extends(L, N)
  BY <1>1, <1>2, <1>8 DEF Extends
<1>12. Loose(N) = Loose(L)
  BY <1>1, <1>2, <1>4, <1>8 DEF Loose, AllRequests
<1>13. Balanced(N)
  <2>1. Open(L) = Open(N) \cup {r} /\ r \notin Open(N) /\ \A q \in Open(N) : L.hold[q] = N.hold[q]
    BY <1>1, <1>4, <1>8 DEF Open
  <2>2. IsFiniteSet(L.moves) /\ IsFiniteSet(Open(L)) /\ IsFiniteSet(Open(N))
    BY <2>1, FS_Subset DEF Sound, Balanced
  <2>3. ASSUME NEW b \in Buckets PROVE N.reserved[b] = SumOfHolds(N, b)
    <3>1. N.reserved[b] = L.reserved[b] - Part(h, b) /\ Part(h, b) \in Int
      BY <1>1, <1>2
    <3>2. SumOfHolds(L, b) = SumOfHolds(N, b) + Part(h, b) /\ SumOfHolds(N, b) \in Int
      BY <2>1, <2>2, <3>1, <1>5, OneHold
    <3> QED BY <3>1, <3>2 DEF Sound, Balanced
  <2> QED BY <1>2, <2>2, <2>3, SameMoves DEF Sound, Balanced
<1> QED BY <1>5, <1>6, <1>7, <1>9, <1>10, <1>11, <1>12, <1>13 DEF Sound, N

LEMMA GrantIsSound ==
    ASSUME NEW L, Sound(L), NEW g \in Grants, NEW bucket \in Buckets,
           NEW amount \in Amounts, CanGrant(L, g, amount)
    PROVE  /\ Sound(AfterGrant(L, g, bucket, amount))
           /\ Extends(L, AfterGrant(L, g, bucket, amount))
           /\ Loose(AfterGrant(L, g, bucket, amount)) = Loose(L)
<1> DEFINE N == AfterGrant(L, g, bucket, amount)
           move == [kind |-> "grant", request |-> g, key |-> None, reference |-> None,
                    free |-> IF bucket = "free" THEN amount ELSE 0,
                    paid |-> IF bucket = "paid" THEN amount ELSE 0]
<1>1. /\ amount \in Nat /\ L \in Ledger
      /\ \A b \in Buckets : L.balance[b] \in Int /\ L.reserved[b] \in Int
                            /\ L.reserved[b] <= L.balance[b]
  BY LedgerAssumption DEF Sound, Ledger, Covered
<1>2. /\ N.prepared = TRUE /\ N.bound = L.bound /\ N.hold = L.hold
      /\ N.moves = L.moves \cup {move} /\ N.reserved = L.reserved
      /\ N.balance = [L.balance EXCEPT ![bucket] = @ + amount]
  BY <1>1 DEF AfterGrant, Ledger
<1>3. N = [L EXCEPT !.prepared = TRUE, !.balance = N.balance, !.moves = N.moves]
  BY <1>1 DEF AfterGrant, Ledger
<1>4. move \in Move /\ move.kind # "consume"
  BY <1>1 DEF Move
<1> HIDE DEF N, move
<1>5. N \in Ledger
  <2>1. N.balance \in [Buckets -> Int]
    BY <1>1, <1>2 DEF Ledger
  <2>2. N.moves \in SUBSET Move
    BY <1>1, <1>2, <1>4 DEF Ledger
  <2> QED BY <1>1, <1>2, <1>3, <2>1, <2>2 DEF Ledger
<1>6. Covered(N)
  BY <1>1, <1>2 DEF Covered, Ledger
<1>7. Credit(N) <= MaxCredit
  <2>1. Credit(L) + amount <= MaxCredit
    BY DEF CanGrant
  <2>2. Credit(N) = Credit(L) + amount
    BY <1>1, <1>2 DEF Credit, Ledger
  <2> QED BY <2>1, <2>2
<1>8. ConsumptionsMatch(N)
  <2>1. {m \in N.moves : m.kind = "consume"} = {m \in L.moves : m.kind = "consume"}
    BY <1>2, <1>4
  <2> QED BY <1>2, <2>1 DEF ConsumptionsMatch, Sound
<1>9. SettlementsDistinct(N) /\ Extends(L, N) /\ Loose(N) = Loose(L)
  BY <1>2 DEF SettlementsDistinct, Sound, Extends, Loose
<1>10. Balanced(N)
  <2>1. move \notin L.moves
    BY DEF move, CanGrant, Granted
  <2>2. IsFiniteSet(L.moves) /\ IsFiniteSet(N.moves)
    <3>1. IsFiniteSet(L.moves)
      BY DEF Sound, Balanced
    <3>2. N.moves = L.moves \cup {move}
      BY <1>2
    <3> QED BY <3>1, <3>2, OneMore
  <2>3. ASSUME NEW b \in Buckets PROVE N.balance[b] = SumOfMoves(N, b)
    <3>1. N.balance[b] = L.balance[b] + Moved(move, b)
      BY <1>1, <1>2 DEF Moved, move, Ledger
    <3>2. SumOfMoves(N, b) = SumOfMoves(L, b) + Moved(move, b)
      BY <1>1, <1>2, <1>4, <2>1, <2>2, OneMove
    <3> QED BY <3>1, <3>2 DEF Sound, Balanced
  <2> QED BY <1>2, <2>2, <2>3, SameHolds DEF Sound, Balanced
<1> QED BY <1>5, <1>6, <1>7, <1>8, <1>9, <1>10 DEF Sound, N

LEMMA PrepareIsSound ==
    ASSUME NEW L, Sound(L)
    PROVE  LET N == [L EXCEPT !.prepared = TRUE]
           IN  Sound(N) /\ Extends(L, N) /\ Loose(N) = Loose(L)
<1> DEFINE N == [L EXCEPT !.prepared = TRUE]
<1>1. /\ N \in Ledger
      /\ N.balance = L.balance /\ N.reserved = L.reserved /\ N.hold = L.hold
      /\ N.bound = L.bound /\ N.moves = L.moves
  BY DEF Sound, Ledger
<1> HIDE DEF N
<1>2. Covered(N) /\ Credit(N) <= MaxCredit /\ ConsumptionsMatch(N) /\ SettlementsDistinct(N)
  BY <1>1 DEF Sound, Covered, Credit, ConsumptionsMatch, SettlementsDistinct
<1>3. Extends(L, N) /\ Loose(N) = Loose(L)
  BY <1>1 DEF Extends, Loose
<1>4. Balanced(N)
  BY <1>1, SameMoves, SameHolds DEF Sound, Balanced
<1> QED BY <1>1, <1>2, <1>3, <1>4 DEF Sound, N

LEMMA BindIsSound ==
    ASSUME NEW L, Sound(L), NEW r \in BillingRequests,
           Loose(L) = {r}, r \notin L.bound
    PROVE  LET N == [L EXCEPT !.bound = @ \cup {r}]
           IN  Sound(N) /\ Extends(L, N) /\ Loose(N) = {}
<1> DEFINE N == [L EXCEPT !.bound = @ \cup {r}]
<1>1. /\ N \in Ledger
      /\ N.balance = L.balance /\ N.reserved = L.reserved /\ N.hold = L.hold
      /\ N.bound = L.bound \cup {r} /\ N.moves = L.moves
  BY DEF Sound, Ledger
<1> HIDE DEF N
<1>2. Covered(N) /\ Credit(N) <= MaxCredit /\ ConsumptionsMatch(N) /\ SettlementsDistinct(N)
  BY <1>1 DEF Sound, Covered, Credit, ConsumptionsMatch, SettlementsDistinct
<1>3. Extends(L, N)
  BY <1>1 DEF Extends
<1>4. \A q \in BillingRequests : q \in N.bound <=> N.hold[q].status # "none"
  <2> TAKE q \in BillingRequests
  <2>1. CASE q = r
    BY <1>1, <2>1 DEF Loose
  <2>2. CASE q # r
    BY <1>1, <2>2 DEF Loose
  <2> QED BY <2>1, <2>2
<1>5. Loose(N) = {}
  BY <1>4 DEF Loose
<1>6. Balanced(N)
  BY <1>1, SameMoves, SameHolds DEF Sound, Balanced
<1> QED BY <1>1, <1>2, <1>3, <1>5, <1>6 DEF Sound, N

\* Only a billing reservation is ever without its binding, until it is bound.
LEMMA ReserveLoosens ==
    ASSUME NEW L, Sound(L), Loose(L) = {}, NEW r \in AllRequests, NEW amount, NEW key,
           L.hold[r].status = "none"
    PROVE  /\ r \notin BillingRequests => Loose(AfterReserve(L, r, amount, key)) = {}
           /\ r \in BillingRequests /\ r \notin L.bound
                => Loose(AfterReserve(L, r, amount, key)) = {r}
<1> DEFINE N == AfterReserve(L, r, amount, key)
<1>1. /\ N.bound = L.bound
      /\ N.hold[r].status = "reserved"
      /\ \A q \in AllRequests \ {r} : N.hold[q] = L.hold[q]
  BY DEF AfterReserve, Sound, Ledger
<1> HIDE DEF N
<1>2. \A q \in BillingRequests : q \in L.bound <=> L.hold[q].status # "none"
  BY DEF Loose
<1>3. BillingRequests \subseteq AllRequests
  BY DEF AllRequests
<1> QED BY <1>1, <1>2, <1>3 DEF Loose, N

LEMMA ExtendsTransitive ==
    ASSUME NEW K, NEW L, NEW M, Extends(K, L), Extends(L, M)
    PROVE  Extends(K, M)
BY DEF Extends

-----------------------------------------------------------------------------
(* Transactions *)

Tx == [at: {"idle", "open", "binding"}, locked: BOOLEAN, view: Ledger,
       request: BillingRequests \cup {None}, savedLock: BOOLEAN, saved: Ledger]

\* What a session may rely on, given the committed ledger C.  Inside the billing
\* savepoint exactly the request being bound is loose, and what the savepoint
\* would restore is sound and bound.
SessionOK(t, C) ==
    /\ t \in Tx
    /\ Sound(t.view)
    /\ Sound(t.saved)
    /\ Loose(t.saved) = {}
    /\ t.locked => Extends(C, t.view)
    /\ t.savedLock => Extends(C, t.saved)
    /\ t.savedLock => t.locked
    /\ t.at # "binding" => Loose(t.view) = {}
    /\ t.at = "binding" => /\ t.locked
                           /\ t.request \in BillingRequests
                           /\ Loose(t.view) = {t.request}
                           /\ t.request \notin t.view.bound

OneHolder == \A s, t \in Sessions : tx[s].locked /\ tx[t].locked => s = t

LedgerInv ==
    /\ Sound(ledger)
    /\ Loose(ledger) = {}
    /\ tx \in [Sessions -> Tx]
    /\ \A s \in Sessions : SessionOK(tx[s], ledger)
    /\ OneHolder

LEMMA NoTxOK == \A C : SessionOK(NoTx, C)
<1>1. NoTx \in Tx
  BY EmptyIsSound DEF NoTx, Tx, Sound
<1> QED BY <1>1, EmptyIsSound DEF SessionOK, NoTx

LEMMA InitInv == Init => LedgerInv
<1>1. NoTx \in Tx
  BY NoTxOK DEF SessionOK
<1>2. ~NoTx.locked
  BY DEF NoTx
<1> SUFFICES ASSUME Init PROVE LedgerInv
  OBVIOUS
<1>3. Sound(ledger) /\ Loose(ledger) = {}
  BY EmptyIsSound DEF Init
<1>4. tx \in [Sessions -> Tx] /\ \A s \in Sessions : tx[s] = NoTx
  BY <1>1 DEF Init
<1>5. OneHolder
  BY <1>2, <1>4 DEF OneHolder
<1> QED BY <1>3, <1>4, <1>5, NoTxOK DEF LedgerInv

LEMMA ViewIsSound ==
    ASSUME LedgerInv, NEW s \in Sessions, tx[s].at = "open"
    PROVE  Sound(View(s)) /\ Loose(View(s)) = {} /\ Extends(ledger, View(s))
<1>1. Extends(ledger, ledger)
  BY DEF Extends
<1> QED BY <1>1 DEF LedgerInv, SessionOK, View

\* A step of one session that leaves the ledger and the other sessions alone.
LEMMA OwnStep ==
    ASSUME LedgerInv, NEW s \in Sessions, NEW t,
           tx' = [tx EXCEPT ![s] = t], ledger' = ledger,
           SessionOK(t, ledger),
           t.locked => tx[s].locked \/ LockFree(s)
    PROVE  LedgerInv'
<1>1. t \in Tx
  BY DEF SessionOK
<1>2. tx' \in [Sessions -> Tx]
  BY <1>1 DEF LedgerInv
<1>3. \A q \in Sessions : tx'[q] = IF q = s THEN t ELSE tx[q]
  BY DEF LedgerInv
<1>4. \A q \in Sessions : SessionOK(tx'[q], ledger')
  BY <1>3 DEF LedgerInv
<1>5. OneHolder'
  BY <1>3 DEF OneHolder, LedgerInv, LockFree
<1> QED BY <1>2, <1>4, <1>5 DEF LedgerInv

\* One operation on the session's view, under the wallet lock.
LEMMA WorkIsOwnStep ==
    ASSUME LedgerInv, NEW s \in Sessions, tx[s].at = "open", MayLock(s),
           NEW L, Sound(L), Loose(L) = {}, Extends(View(s), L), Work(s, L)
    PROVE  LedgerInv'
<1> DEFINE t == [tx[s] EXCEPT !.locked = TRUE, !.view = L]
<1>1. tx[s] \in Tx /\ SessionOK(tx[s], ledger)
  BY DEF LedgerInv
<1>2. Extends(ledger, L)
  BY ViewIsSound, ExtendsTransitive
<1>3. t \in Tx
  BY <1>1 DEF Tx, Sound
<1>4. /\ t.at = tx[s].at /\ t.locked = TRUE /\ t.view = L
      /\ t.saved = tx[s].saved /\ t.savedLock = tx[s].savedLock
  BY <1>1 DEF Tx
<1>5. tx' = [tx EXCEPT ![s] = t] /\ ledger' = ledger
  BY <1>1 DEF Work, LedgerInv
<1> HIDE DEF t
<1>6. SessionOK(t, ledger)
  BY <1>1, <1>2, <1>3, <1>4 DEF SessionOK
<1> QED BY <1>5, <1>6, OwnStep DEF MayLock

\* Each operation keeps the invariant.
LEMMA OperationStep ==
    ASSUME LedgerInv, NEW s \in Sessions,
           \/ ReserveCredit(s) \/ CommitReservation(s) \/ ReleaseReservation(s)
           \/ GrantCredit(s) \/ PrepareWallet(s) \/ Replay(s)
    PROVE  LedgerInv'
<1>1. tx[s].at = "open" /\ MayLock(s)
  BY DEF ReserveCredit, CommitReservation, ReleaseReservation, GrantCredit,
         PrepareWallet, Replay, MayLock
<1>2. Sound(View(s)) /\ Loose(View(s)) = {}
  BY <1>1, ViewIsSound
<1>3. CASE ReserveCredit(s)
  <2>1. PICK r \in Requests, amount \in Amounts, key \in Settlements :
          /\ CanReserve(View(s), r, amount, key)
          /\ Work(s, AfterReserve(View(s), r, amount, key))
    BY <1>3 DEF ReserveCredit
  <2>2. r \in AllRequests /\ r \notin BillingRequests /\ View(s).hold[r].status = "none"
    BY <2>1, LedgerAssumption DEF AllRequests, CanReserve
  <2>3. Sound(AfterReserve(View(s), r, amount, key))
        /\ Extends(View(s), AfterReserve(View(s), r, amount, key))
    BY <1>2, <2>1, <2>2, ReserveIsSound
  <2>4. Loose(AfterReserve(View(s), r, amount, key)) = {}
    BY <1>2, <2>2, ReserveLoosens
  <2> QED BY <1>1, <2>1, <2>3, <2>4, WorkIsOwnStep
<1>4. CASE CommitReservation(s)
  <2>1. PICK r \in AllRequests, result \in Results :
          CanSettle(View(s), r) /\ Work(s, AfterCommit(View(s), r, result))
    BY <1>4 DEF CommitReservation
  <2> QED BY <1>1, <1>2, <2>1, CommitIsSound, WorkIsOwnStep
<1>5. CASE ReleaseReservation(s)
  <2>1. PICK r \in AllRequests : CanSettle(View(s), r) /\ Work(s, AfterRelease(View(s), r))
    BY <1>5 DEF ReleaseReservation
  <2> QED BY <1>1, <1>2, <2>1, ReleaseIsSound, WorkIsOwnStep
<1>6. CASE GrantCredit(s)
  <2>1. PICK g \in Grants, bucket \in Buckets, amount \in Amounts :
          CanGrant(View(s), g, amount) /\ Work(s, AfterGrant(View(s), g, bucket, amount))
    BY <1>6 DEF GrantCredit
  <2> QED BY <1>1, <1>2, <2>1, GrantIsSound, WorkIsOwnStep
<1>7. CASE PrepareWallet(s)
  <2>1. Work(s, [View(s) EXCEPT !.prepared = TRUE])
    BY <1>7 DEF PrepareWallet
  <2> QED BY <1>1, <1>2, <2>1, PrepareIsSound, WorkIsOwnStep
<1>8. CASE Replay(s)
  <2>1. Work(s, View(s))
    BY <1>8 DEF Replay, View
  <2>2. Extends(View(s), View(s))
    BY DEF Extends
  <2> QED BY <1>1, <1>2, <2>1, <2>2, WorkIsOwnStep
<1> QED BY <1>3, <1>4, <1>5, <1>6, <1>7, <1>8

LEMMA BillingReserveStep ==
    ASSUME LedgerInv, NEW s \in Sessions, BillingReserve(s)
    PROVE  LedgerInv'
<1>1. tx[s].at = "open" /\ MayLock(s) /\ tx[s] \in Tx /\ SessionOK(tx[s], ledger)
  BY DEF BillingReserve, LedgerInv
<1>2. Sound(View(s)) /\ Loose(View(s)) = {} /\ Extends(ledger, View(s))
  BY <1>1, ViewIsSound
<1>3. PICK r \in BillingRequests, amount \in Amounts :
        /\ r \notin View(s).bound
        /\ CanReserve(View(s), r, amount, r)
        /\ tx' = [tx EXCEPT ![s] =
             [@ EXCEPT !.at = "binding", !.request = r,
                       !.savedLock = tx[s].locked, !.saved = tx[s].view,
                       !.locked = TRUE,
                       !.view = AfterReserve(View(s), r, amount, r)]]
  BY DEF BillingReserve
<1> DEFINE N == AfterReserve(View(s), r, amount, r)
           t == [tx[s] EXCEPT !.at = "binding", !.request = r,
                              !.savedLock = tx[s].locked, !.saved = tx[s].view,
                              !.locked = TRUE, !.view = N]
<1>4. r \in AllRequests /\ View(s).hold[r].status = "none"
  BY <1>3 DEF AllRequests, CanReserve
<1>5. Sound(N) /\ Extends(View(s), N)
  BY <1>2, <1>3, <1>4, ReserveIsSound
<1>6. Loose(N) = {r}
  BY <1>2, <1>3, <1>4, ReserveLoosens
<1>7. r \notin N.bound
  BY <1>2, <1>3 DEF AfterReserve, Sound, Ledger
<1>8. tx' = [tx EXCEPT ![s] = t] /\ ledger' = ledger
  BY <1>1, <1>3 DEF BillingReserve, LedgerInv
<1> HIDE DEF N
<1>9. t \in Tx
  BY <1>1, <1>5 DEF Tx, Sound
<1>10. /\ t.at = "binding" /\ t.request = r /\ t.savedLock = tx[s].locked
       /\ t.saved = tx[s].view /\ t.locked = TRUE /\ t.view = N
  BY <1>1 DEF Tx
<1> HIDE DEF t
<1>11. Extends(ledger, N)
  BY <1>2, <1>5, ExtendsTransitive
<1>12. SessionOK(t, ledger)
  BY <1>1, <1>5, <1>6, <1>7, <1>9, <1>10, <1>11 DEF SessionOK
<1> QED BY <1>1, <1>8, <1>12, OwnStep DEF MayLock

\* Leaving the billing savepoint with a sound and bound view.
LEMMA LeaveStep ==
    ASSUME LedgerInv, NEW s \in Sessions, tx[s].at = "binding",
           NEW locked \in BOOLEAN, NEW L, LeaveSavepoint(s, locked, L),
           Sound(L), Loose(L) = {}, locked => Extends(ledger, L)
    PROVE  LedgerInv'
<1>1. tx[s] \in Tx /\ SessionOK(tx[s], ledger)
  BY DEF LedgerInv
<1> DEFINE t == [tx[s] EXCEPT !.at = "open", !.request = None, !.savedLock = FALSE,
                              !.saved = EmptyLedger, !.locked = locked, !.view = L]
<1>2. tx' = [tx EXCEPT ![s] = t] /\ ledger' = ledger
  BY <1>1 DEF LeaveSavepoint, LedgerInv
<1>3. t \in Tx
  BY <1>1, EmptyIsSound DEF Tx, Sound
<1>4. /\ t.at = "open" /\ t.savedLock = FALSE /\ t.saved = EmptyLedger
      /\ t.locked = locked /\ t.view = L
  BY <1>1 DEF Tx
<1> HIDE DEF t
<1>5. SessionOK(t, ledger)
  BY <1>3, <1>4, EmptyIsSound DEF SessionOK
<1> QED BY <1>1, <1>2, <1>5, OwnStep DEF SessionOK

LEMMA BindStep ==
    ASSUME LedgerInv, NEW s \in Sessions, BillingBind(s) \/ BillingBindFails(s)
    PROVE  LedgerInv'
<1>1. tx[s].at = "binding" /\ SessionOK(tx[s], ledger)
  BY DEF BillingBind, BillingBindFails, LedgerInv
<1>2. CASE BillingBind(s)
  <2> DEFINE r == tx[s].request
             L == [tx[s].view EXCEPT !.bound = @ \cup {r}]
  <2>1. Sound(L) /\ Extends(tx[s].view, L) /\ Loose(L) = {}
    BY <1>1, BindIsSound DEF SessionOK
  <2>2. Extends(ledger, L)
    BY <1>1, <2>1, ExtendsTransitive DEF SessionOK
  <2>3. LeaveSavepoint(s, TRUE, L)
    BY <1>2 DEF BillingBind
  <2> HIDE DEF L
  <2> QED BY <1>1, <2>1, <2>2, <2>3, LeaveStep
<1>3. CASE BillingBindFails(s)
  <2>1. LeaveSavepoint(s, tx[s].savedLock, tx[s].saved)
    BY <1>3 DEF BillingBindFails
  <2>2. tx[s].savedLock \in BOOLEAN
    BY <1>1 DEF SessionOK, Tx
  <2> QED BY <1>1, <2>1, <2>2, LeaveStep DEF SessionOK
<1> QED BY <1>2, <1>3

LEMMA CommitStep ==
    ASSUME LedgerInv, NEW s \in Sessions, CommitTransaction(s)
    PROVE  LedgerInv'
<1>1. tx[s].at = "open" /\ ledger' = View(s) /\ tx' = [tx EXCEPT ![s] = NoTx]
  BY DEF CommitTransaction
<1>2. Sound(ledger') /\ Loose(ledger') = {}
  BY <1>1, ViewIsSound
<1>3. NoTx \in Tx /\ ~NoTx.locked
  BY NoTxOK DEF SessionOK, NoTx
<1>4. tx' \in [Sessions -> Tx]
  BY <1>1, <1>3 DEF LedgerInv
<1>5. \A q \in Sessions : tx'[q] = IF q = s THEN NoTx ELSE tx[q]
  BY <1>1 DEF LedgerInv
<1>6. OneHolder'
  BY <1>3, <1>5 DEF OneHolder, LedgerInv
<1>7. \A q \in Sessions : SessionOK(tx'[q], ledger')
  <2> TAKE q \in Sessions
  <2>1. CASE q = s
    BY <1>5, <2>1, NoTxOK
  <2>2. CASE q # s /\ tx[s].locked
    <3>1. ~tx[q].locked
      BY <2>2 DEF LedgerInv, OneHolder
    <3> QED BY <1>5, <2>2, <3>1 DEF LedgerInv, SessionOK
  <2>3. CASE q # s /\ ~tx[s].locked
    <3>1. ledger' = ledger
      BY <1>1, <2>3 DEF View
    <3> QED BY <1>5, <2>3, <3>1 DEF LedgerInv
  <2> QED BY <2>1, <2>2, <2>3
<1> QED BY <1>2, <1>4, <1>6, <1>7 DEF LedgerInv

LEMMA LedgerStep == LedgerInv /\ [Next]_vars => LedgerInv'
<1> SUFFICES ASSUME LedgerInv, [Next]_vars PROVE LedgerInv'
  OBVIOUS
<1>1. CASE UNCHANGED vars
  BY <1>1 DEF vars, LedgerInv, OneHolder
<1>2. ASSUME NEW s \in Sessions, Begin(s) PROVE LedgerInv'
  <2> DEFINE t == [tx[s] EXCEPT !.at = "open"]
  <2>1. tx[s] \in Tx /\ SessionOK(tx[s], ledger) /\ tx[s].at = "idle"
    BY <1>2 DEF Begin, LedgerInv
  <2>2. tx' = [tx EXCEPT ![s] = t] /\ ledger' = ledger
    BY <1>2, <2>1 DEF Begin, LedgerInv
  <2>3. /\ t \in Tx /\ t.at = "open" /\ t.view = tx[s].view /\ t.saved = tx[s].saved
        /\ t.locked = tx[s].locked /\ t.savedLock = tx[s].savedLock
    BY <2>1 DEF Tx
  <2> HIDE DEF t
  <2>4. SessionOK(t, ledger)
    BY <2>1, <2>3 DEF SessionOK
  <2> QED BY <2>2, <2>3, <2>4, OwnStep
<1>3. ASSUME NEW s \in Sessions, RollbackTransaction(s) PROVE LedgerInv'
  <2>1. ~NoTx.locked
    BY DEF NoTx
  <2> QED BY <1>3, <2>1, NoTxOK, OwnStep DEF RollbackTransaction
<1> QED BY <1>1, <1>2, <1>3, OperationStep, BillingReserveStep, BindStep, CommitStep
       DEF Next

\* Two sessions, or two operations of one, cannot leave an ill-formed ledger or a
\* transaction that sees one.
THEOREM LedgerTyped == Spec => []TypeOK
<1>1. LedgerInv => TypeOK
  BY DEF LedgerInv, TypeOK, Sound, Tx
<1> QED BY <1>1, InitInv, LedgerStep, PTL DEF Spec

\* Every committed reservation has exactly its own consumption, and no settlement
\* key pays twice, however sessions, savepoints and retries interleave.
THEOREM ReservationsPaidOnce == Spec => []PaidExactlyOnce
<1>1. LedgerInv => PaidExactlyOnce
  BY DEF LedgerInv, PaidExactlyOnce, Sound
<1> QED BY <1>1, InitInv, LedgerStep, PTL DEF Spec

\* A billing reservation and its quote binding commit together or not at all.
THEOREM ReservationsAreBound == Spec => []BoundTogether
<1>1. LedgerInv => BoundTogether
  BY DEF LedgerInv, BoundTogether, Loose
<1> QED BY <1>1, InitInv, LedgerStep, PTL DEF Spec

\* No interleaving of grants, reservations and settlements takes a currency past
\* its largest balance.
THEOREM CapacityHolds == Spec => []WithinCapacity
<1>1. LedgerInv => WithinCapacity
  BY DEF LedgerInv, WithinCapacity, Sound
<1> QED BY <1>1, InitInv, LedgerStep, PTL DEF Spec

\* Every balance is the sum of its movements and every reserved amount the sum of
\* the open reservations, which the balance covers, within what a bigint holds.
THEOREM SumsStayRight == Spec => []SumsAreRight
<1>1. LedgerInv => SumsAreRight
  BY DEF LedgerInv, SumsAreRight, BalanceIsMovements, ReservedIsBacked, WithinCapacity,
         Sound, Balanced, Covered
<1> QED BY <1>1, InitInv, LedgerStep, PTL DEF Spec

\* A settlement, once committed, stands, and the movement ledger only grows.
THEOREM SettlementsStand == Spec => SettlementIsFinal
<1> DEFINE Stands == Extends(ledger, ledger')
<1>1. LedgerInv /\ [Next]_vars => Stands
  <2> SUFFICES ASSUME LedgerInv, [Next]_vars PROVE Stands
    OBVIOUS
  <2>1. CASE ledger' = ledger
    BY <2>1 DEF Extends
  <2>2. CASE ledger' # ledger
    <3>1. PICK s \in Sessions : CommitTransaction(s)
      BY <2>2 DEF Next, vars, Begin, ReserveCredit, CommitReservation, ReleaseReservation,
           GrantCredit, PrepareWallet, Replay, Work, BillingReserve, BillingBind,
           BillingBindFails, LeaveSavepoint, RollbackTransaction
    <3> QED BY <3>1, ViewIsSound DEF CommitTransaction
  <2> QED BY <2>1, <2>2
<1>2. LedgerInv /\ [Next]_vars => [Stands]_vars
  BY <1>1
<1>3. Spec => [][Stands]_vars
  BY <1>2, InitInv, LedgerStep, PTL DEF Spec
<1> QED BY <1>3 DEF SettlementIsFinal, Extends

-----------------------------------------------------------------------------
(* Prices *)

\* What PricesAreSound says of a price.
Fair(p) ==
    LET units == p.final * Scale * Scale * Scale
    IN  /\ p.final \in Nat
        /\ units >= p.floor
        /\ units >= p.current * Scale * Scale
        /\ units - Scale * Scale * Scale < Dearer(p.current, p.floor)

\* A product of natural numbers is one.
LEMMA Products ==
    ASSUME NEW x \in Nat, NEW y \in Nat
    PROVE  x * y \in Nat
OBVIOUS

\* Rounding up finds the least multiple of d that is not below x.
LEMMA RoundedUp ==
    ASSUME NEW x \in Nat, NEW d \in Nat \ {0}
    PROVE  LET q == (x + d - 1) \div d
           IN  q \in Nat /\ q * d >= x /\ q * d - d < x
<1> DEFINE y == x + d - 1
           q == y \div d
           r == y % d
<1>1. y \in Nat
  OBVIOUS
<1> HIDE DEF y
<1>2. q \in Int /\ r \in 0..(d - 1) /\ y = d * q + r
  BY <1>1
<1>3. q \in Nat
  <2> HIDE DEF q, r
  <2>1. SUFFICES ASSUME q < 0 PROVE FALSE
    BY <1>2
  <2>2. q <= -1
    BY <1>2, <2>1
  <2>3. d * q <= -d
    BY <1>2, <2>2
  <2> QED BY <1>1, <1>2, <2>3
<1>4. q * d = d * q /\ d * q \in Int
  BY <1>2
<1> HIDE DEF q, r
<1>5. q * d >= x /\ q * d - d < x
  BY <1>1, <1>2, <1>4 DEF y
<1> QED BY <1>3, <1>5 DEF q, y

\* The price of a credit's worth, rounded up.
LEMMA FinalIsFair ==
    ASSUME NEW current \in Nat, NEW floor \in Nat
    PROVE  LET final == FinalPrice(current, floor)
               units == final * Scale * Scale * Scale
           IN  /\ final \in Nat
               /\ units >= floor /\ units >= current * Scale * Scale
               /\ units - Scale * Scale * Scale < Dearer(current, floor)
<1> DEFINE d == Scale * Scale * Scale
           x == Dearer(current, floor)
           q == (x + d - 1) \div d
<1>1. Scale \in Nat \ {0}
  BY PricingAssumption
<1>2. d \in Nat \ {0}
  <2>1. Scale * Scale \in Nat \ {0}
    BY <1>1
  <2> QED BY <1>1, <2>1
<1>3. current * Scale * Scale \in Nat
  <2>1. current * Scale \in Nat
    BY <1>1, Products
  <2> QED BY <1>1, <2>1, Products
<1>4. x \in Nat /\ x >= floor /\ x >= current * Scale * Scale
  BY <1>3 DEF Dearer
<1> HIDE DEF x, d
<1>5. q \in Nat /\ q * d >= x /\ q * d - d < x
  BY <1>2, <1>4, RoundedUp
<1>6. FinalPrice(current, floor) = q
  BY DEF FinalPrice, x, d
<1> HIDE DEF q
<1>7. q * Scale * Scale * Scale = q * d
  BY <1>1, <1>5 DEF d
<1>8. q * d \in Int /\ q * d >= floor /\ q * d >= current * Scale * Scale /\ q * d - d < x
  BY <1>2, <1>3, <1>4, <1>5
<1>9. d = Scale * Scale * Scale /\ x = Dearer(current, floor)
  BY DEF d, x
<1> QED BY <1>5, <1>6, <1>7, <1>8, <1>9

\* Two models of a book that fit an execution are one, and so are two tiers.
LEMMA OneModelFits ==
    ASSUME NEW book \in PriceBooks, ValidBook(book), NEW c \in Conditions
    PROVE  /\ \A i, j \in ModelsFor(book, c) : i = j
           /\ \A i \in ModelsFor(book, c) : \A j, k \in TiersFor(book.models[i], c) : j = k
<1>1. \A i, j \in ModelsFor(book, c) : i = j
  BY DEF ValidBook, ModelsFor
<1>2. ASSUME NEW i \in ModelsFor(book, c), NEW j \in TiersFor(book.models[i], c),
             NEW k \in TiersFor(book.models[i], c), j # k
      PROVE  FALSE
  <2> DEFINE tiers == book.models[i].tiers
             n == c.input + c.output
  <2>1. i \in DOMAIN book.models /\ j \in DOMAIN tiers /\ k \in DOMAIN tiers
    BY DEF ModelsFor, TiersFor
  <2>2. TiersApart(tiers)
    BY <2>1 DEF ValidBook, PricesModel
  <2>3. /\ tiers[j].from \in Int /\ tiers[j].to \in Int
        /\ tiers[k].from \in Int /\ tiers[k].to \in Int /\ n \in Int
    BY <2>1, BookAssumption, PricingAssumption
  <2>4. tiers[j].from <= n /\ n < tiers[j].to /\ tiers[k].from <= n /\ n < tiers[k].to
    BY DEF TiersFor
  <2>5. tiers[j].to <= tiers[k].from \/ tiers[k].to <= tiers[j].from
    BY <1>2, <2>1, <2>2 DEF TiersApart
  <2> HIDE DEF tiers, n
  <2> QED BY <2>3, <2>4, <2>5
<1> QED BY <1>1, <1>2

\* A set all of whose elements are equal has one at most.
LEMMA AtMostOne ==
    ASSUME NEW S, \A x, y \in S : x = y
    PROVE  Cardinality(S) <= 1
<1>1. CASE S = {}
  BY <1>1, FS_EmptySet
<1>2. CASE S # {}
  <2>1. PICK x \in S : S = {x}
    BY <1>2
  <2> QED BY <2>1, FS_Singleton
<1> QED BY <1>1, <1>2

\* Whatever a tier and the policies give, the floor and the rounding make it fair.
LEMMA PriceInTierIsFair ==
    ASSUME NEW book \in PriceBooks, ValidBook(book), NEW c \in Conditions,
           NEW i \in DOMAIN book.models, NEW tier,
           PriceInTier(book, book.models[i], tier, c) # NoQuote
    PROVE  Fair(PriceInTier(book, book.models[i], tier, c))
<1> DEFINE m == book.models[i]
           current == AfterPolicies(book.policies, tier.price)
           floor == CostFloor(book, m, c)
           final == FinalPrice(current, floor)
           p == [version |-> book.version, tier |-> tier.name, normal |-> tier.price,
                 current |-> current, floor |-> floor, final |-> final]
<1>1. PriceInTier(book, m, tier, c) = IF current \notin Nat \/ final > PriceLimit THEN NoQuote ELSE p
  BY DEF PriceInTier
<1>2. current \in Nat /\ PriceInTier(book, m, tier, c) = p
  BY <1>1
<1>3. floor \in Nat
  <2>1. m.input \in Nat /\ m.output \in Nat
    BY BookAssumption DEF ValidBook, PricesModel
  <2>2. book.rate \in Nat /\ book.safety \in Nat
    BY BookAssumption, PricingAssumption DEF ValidBook
  <2>3. c.input * m.input \in Nat /\ c.output * m.output \in Nat
    BY <2>1, PricingAssumption, Products
  <2> DEFINE cost == c.input * m.input + c.output * m.output
  <2>4. cost \in Nat
    BY <2>3
  <2> HIDE DEF cost
  <2>5. cost * book.rate \in Nat
    BY <2>2, <2>4, Products
  <2>6. cost * book.rate * book.safety \in Nat
    BY <2>2, <2>5, Products
  <2> QED BY <2>6 DEF CostFloor, cost
<1>4. p.final = final /\ p.current = current /\ p.floor = floor
  OBVIOUS
<1> HIDE DEF p, final, floor, current
<1>5. Fair(p)
  BY <1>2, <1>3, <1>4, FinalIsFair DEF Fair, final
<1> QED BY <1>2, <1>5

\* Whatever the policies did, a price is fair.
LEMMA PriceIsFair ==
    ASSUME NEW book \in PriceBooks, ValidBook(book), NEW c \in Conditions,
           PriceOf(book, c) # NoQuote
    PROVE  Fair(PriceOf(book, c))
<1> DEFINE i == Min(ModelsFor(book, c))
           m == book.models[i]
           tier == m.tiers[Min(TiersFor(m, c))]
<1>1. ModelsFor(book, c) # {} /\ PriceOf(book, c) = PriceInTier(book, m, tier, c)
  BY DEF PriceOf
<1>2. PICK j \in ModelsFor(book, c) : ModelsFor(book, c) = {j}
  BY <1>1, OneModelFits
<1>3. j \in DOMAIN book.models /\ j \in Int
  BY <1>2, BookAssumption DEF ModelsFor
<1>4. i = j
  BY <1>2, <1>3 DEF Min
<1> HIDE DEF i
<1> QED BY <1>1, <1>3, <1>4, PriceInTierIsFair

-----------------------------------------------------------------------------
(* Quotes and holds *)

\* A quote of a request key, fair at the time it was made.
IsQuote(q, k) == q.id \in QuoteIds /\ q.key = k /\ q.expires \in Int /\ Fair(q.price)

HoldRow == [quote: QuoteIds, amount: Nat, made: Int, status: {"reserved", "committed", "released"}]

\* The credit that is held for a quote.
IsHold(h, q) == h \in HoldRow /\ SameDeal(h, q)

\* The hold an attempt sees: its own, or the bound one.
Seen(d, bound) == IF d.hold # NoQuote THEN d.hold ELSE bound[d.key]

\* An attempt under way has a quote, the stored one if there is one.
DealFits(d, stored, bound) ==
    /\ DOMAIN d = DOMAIN NoDeal
    /\ IF d.at = "out" THEN d.quote = NoQuote /\ d.hold = NoQuote
       ELSE /\ d.at \in {"quoted", "holding", "held"}
            /\ d.key \in QuoteKeys /\ d.quote # NoQuote /\ IsQuote(d.quote, d.key)
            /\ stored[d.key] # NoQuote => d.quote = stored[d.key]
            /\ d.hold # NoQuote => IsHold(d.hold, d.quote)
            /\ d.at = "held" => IsHold(Seen(d, bound), d.quote)

\* The quotes there are, stored or not.
Known(stored, deals) ==
    ({stored[k] : k \in QuoteKeys} \cup {deals[b].quote : b \in Buyers}) \ {NoQuote}

Served(book, now) == book \in PriceBooks /\ ValidBook(book) /\ now \in Nat

RowsFit(stored, bound) ==
    /\ DOMAIN stored = QuoteKeys /\ DOMAIN bound = QuoteKeys
    /\ \A k \in QuoteKeys :
         /\ stored[k] # NoQuote => IsQuote(stored[k], k)
         /\ bound[k] # NoQuote => stored[k] # NoQuote /\ IsHold(bound[k], stored[k])

DealsFit(stored, bound, deals) ==
    DOMAIN deals = Buyers /\ \A b \in Buyers : DealFits(deals[b], stored, bound)

\* The lock of a request key has one holder.
KeysApart(deals) == \A b, o \in Buyers :
    b # o /\ deals[b].at # "out" /\ deals[o].at # "out" => deals[b].key # deals[o].key

IdsApart(known) == \A x, y \in known : x.id = y.id => x = y

PriceInv ==
    /\ Served(deployed, clock)
    /\ RowsFit(quotes, holds)
    /\ DealsFit(quotes, holds, buyer)
    /\ KeysApart(buyer)
    /\ IdsApart(Known(quotes, buyer))

\* Nothing is quoted at first.
LEMMA InitPriceInv == PriceInit => PriceInv
<1> SUFFICES ASSUME PriceInit PROVE PriceInv
  OBVIOUS
<1> USE DEF PriceInit
<1>1. Served(deployed, clock) /\ RowsFit(quotes, holds)
  BY DEF Served, RowsFit
<1>2. DealsFit(quotes, holds, buyer) /\ KeysApart(buyer)
  BY DEF DealsFit, DealFits, KeysApart, NoDeal
<1>3. Known(quotes, buyer) = {}
  BY DEF Known, NoDeal
<1> QED BY <1>1, <1>2, <1>3 DEF PriceInv, IdsApart

\* The values of a function on a finite set are no more than the set.
LEMMA ImageIsSmall ==
    ASSUME NEW S, IsFiniteSet(S), NEW f, DOMAIN f = S
    PROVE  LET T == {f[x] : x \in S}
           IN  IsFiniteSet(T) /\ Cardinality(T) <= Cardinality(S)
<1> DEFINE T == {f[x] : x \in S}
           g == [x \in S |-> f[x]]
<1>1. g \in Surjection(S, T)
  BY DEF Surjection
<1> HIDE DEF g
<1> QED BY <1>1, FS_Surjection

\* A new quote gets an id of its own.
LEMMA IdIsFresh ==
    ASSUME NEW b \in Buyers, buyer[b].quote = NoQuote
    PROVE  FreshId \in QuoteIds /\ \A q \in Known(quotes, buyer) : q.id # FreshId
<1> DEFINE f == [k \in QuoteKeys |-> quotes[k].id]
           g == [o \in Buyers \ {b} |-> buyer[o].quote.id]
           F == {f[k] : k \in QuoteKeys}
           G == {g[o] : o \in Buyers \ {b}}
           Free(i) == /\ \A k \in QuoteKeys : quotes[k] = NoQuote \/ quotes[k].id # i
                      /\ \A o \in Buyers : buyer[o].quote = NoQuote \/ buyer[o].quote.id # i
<1>1. IsFiniteSet(Buyers \ {b}) /\ Cardinality(Buyers \ {b}) = Cardinality(Buyers) - 1
      /\ Cardinality(Buyers) \in Nat
  BY QuoteIdsAssumption, FS_RemoveElement, FS_CardinalityType
<1>2. DOMAIN f = QuoteKeys /\ DOMAIN g = Buyers \ {b}
  OBVIOUS
<1>3. /\ \A i \in QuoteIds : i \notin F \cup G => Free(i)
      /\ IsFiniteSet(F) /\ Cardinality(F) <= Cardinality(QuoteKeys)
      /\ IsFiniteSet(G) /\ Cardinality(G) <= Cardinality(Buyers) - 1
  <2>1. \A i \in QuoteIds : i \notin F \cup G => Free(i)
    OBVIOUS
  <2> HIDE DEF f, g
  <2> QED BY <1>1, <1>2, <2>1, ImageIsSmall, QuoteIdsAssumption
<1> HIDE DEF F, G
<1>4. \E i \in QuoteIds : i \notin F \cup G
  <2>1. SUFFICES ASSUME QuoteIds \subseteq F \cup G PROVE FALSE
    OBVIOUS
  <2>2. IsFiniteSet(F \cup G)
        /\ Cardinality(F \cup G) = Cardinality(F) + Cardinality(G) - Cardinality(F \cap G)
    BY <1>3, FS_Union
  <2>3. Cardinality(QuoteIds) <= Cardinality(F \cup G)
    BY <2>1, <2>2, FS_Subset
  <2>4. /\ Cardinality(F) \in Nat /\ Cardinality(G) \in Nat /\ Cardinality(F \cap G) \in Nat
        /\ Cardinality(QuoteIds) \in Nat /\ Cardinality(QuoteKeys) \in Nat
    BY <1>3, FS_CardinalityType, FS_Intersection, QuoteIdsAssumption
  <2> QED BY <1>1, <1>3, <2>2, <2>3, <2>4, QuoteIdsAssumption
<1>5. FreshId = CHOOSE i \in QuoteIds : Free(i)
  BY DEF FreshId
<1>6. \E i \in QuoteIds : Free(i)
  BY <1>3, <1>4
<1> HIDE DEF Free
<1>7. FreshId \in QuoteIds /\ Free(FreshId)
  BY <1>5, <1>6
<1> QED BY <1>7 DEF Known, Free

\* A step of one attempt that commits nothing.
LEMMA DealStep ==
    ASSUME PriceInv, NEW b \in Buyers, NEW d, UNCHANGED <<deployed, clock, quotes, holds>>,
           buyer' = [buyer EXCEPT ![b] = d],
           DealFits(d, quotes, holds),
           d.at # "out" => \A o \in Buyers \ {b} : buyer[o].at = "out" \/ buyer[o].key # d.key,
           \/ d.quote = NoQuote
           \/ d.quote \in Known(quotes, buyer)
           \/ \A x \in Known(quotes, buyer) : x.id # d.quote.id
    PROVE  PriceInv'
<1>1. Served(deployed, clock)' /\ RowsFit(quotes, holds)'
  BY DEF PriceInv, Served, RowsFit
<1>2. /\ DOMAIN buyer = Buyers /\ DOMAIN buyer' = Buyers
      /\ buyer'[b] = d /\ \A o \in Buyers : o # b => buyer'[o] = buyer[o]
  BY DEF PriceInv, DealsFit
<1>3. DealsFit(quotes, holds, buyer)'
  <2>1. \A o \in Buyers : DealFits(buyer'[o], quotes, holds)
    BY <1>2 DEF PriceInv, DealsFit
  <2> QED BY <1>2, <2>1 DEF DealsFit
<1>4. KeysApart(buyer)'
  BY <1>2 DEF PriceInv, KeysApart
<1>5. IdsApart(Known(quotes, buyer)')
  <2>1. Known(quotes, buyer)' \subseteq Known(quotes, buyer) \cup ({d.quote} \ {NoQuote})
    BY <1>2 DEF Known
  <2>2. IdsApart(Known(quotes, buyer))
    BY DEF PriceInv
  <2>3. IdsApart(Known(quotes, buyer) \cup ({d.quote} \ {NoQuote}))
    BY <2>2 DEF IdsApart
  <2> QED BY <2>1, <2>3 DEF IdsApart
<1> QED BY <1>1, <1>3, <1>4, <1>5 DEF PriceInv

\* A request key gets the quote it has, or one with an id of its own.
LEMMA AskPriceStep ==
    ASSUME PriceInv, NEW b \in Buyers, AskPrice(b)
    PROVE  PriceInv'
<1>1. PICK k \in QuoteKeys, c \in Conditions :
         /\ KeyFree(b, k)
         /\ QuoteFor(k, c, quotes[k]) # NoQuote
         /\ buyer' = [buyer EXCEPT ![b] =
              [NoDeal EXCEPT !.at = "quoted", !.key = k, !.wants = c,
                             !.quote = QuoteFor(k, c, quotes[k])]]
  BY DEF AskPrice
<1> DEFINE q == QuoteFor(k, c, quotes[k])
           d == [NoDeal EXCEPT !.at = "quoted", !.key = k, !.wants = c, !.quote = q]
<1>2. buyer[b].quote = NoQuote
  BY DEF AskPrice, PriceInv, DealsFit, DealFits
<1>3. quotes[k] # NoQuote =>
         q = quotes[k] /\ IsQuote(q, k) /\ q \in Known(quotes, buyer)
  BY <1>1 DEF QuoteFor, PriceInv, RowsFit, Known
<1>4. quotes[k] = NoQuote =>
         IsQuote(q, k) /\ \A x \in Known(quotes, buyer) : x.id # q.id
  <2>0. SUFFICES ASSUME quotes[k] = NoQuote
                 PROVE  IsQuote(q, k) /\ \A x \in Known(quotes, buyer) : x.id # q.id
    OBVIOUS
  <2>1. q = NewQuote(k, c)
    BY <2>0 DEF QuoteFor
  <2>2. PriceOf(deployed, c) # NoQuote
        /\ q = [id |-> FreshId, key |-> k, wants |-> c, price |-> PriceOf(deployed, c),
                expires |-> clock + QuoteTtl]
    BY <1>1, <2>1 DEF NewQuote
  <2>3. FreshId \in QuoteIds /\ \A x \in Known(quotes, buyer) : x.id # FreshId
    BY <1>2, IdIsFresh
  <2>4. Fair(PriceOf(deployed, c))
    BY <2>2, PriceIsFair DEF PriceInv, Served
  <2>5. clock + QuoteTtl \in Int
    BY PricingAssumption DEF PriceInv, Served
  <2> HIDE DEF q
  <2>6. IsQuote(q, k) /\ \A x \in Known(quotes, buyer) : x.id # q.id
    BY <2>2, <2>3, <2>4, <2>5 DEF IsQuote
  <2> QED BY <2>6
<1>5. q # NoQuote
  BY <1>1
<1> HIDE DEF q
<1>6. /\ DOMAIN d = DOMAIN NoDeal /\ d.at = "quoted" /\ d.key = k /\ d.quote = q
      /\ d.hold = NoQuote
  BY DEF NoDeal
<1>7. buyer' = [buyer EXCEPT ![b] = d]
  BY <1>1 DEF q
<1> HIDE DEF d
<1>8. DealFits(d, quotes, holds)
  BY <1>3, <1>4, <1>5, <1>6 DEF DealFits
<1>9. UNCHANGED <<deployed, clock, quotes, holds>>
  BY DEF AskPrice
<1> QED BY <1>1, <1>3, <1>4, <1>6, <1>7, <1>8, <1>9, DealStep DEF KeyFree

\* What is known of an attempt under way.
LEMMA UnderWay ==
    ASSUME PriceInv, NEW b \in Buyers, buyer[b].at # "out"
    PROVE  /\ DOMAIN buyer[b] = DOMAIN NoDeal
           /\ buyer[b].key \in QuoteKeys /\ buyer[b].quote # NoQuote
           /\ QuoteSeen(b) = buyer[b].quote /\ HoldSeen(b) = Seen(buyer[b], holds)
           /\ IsQuote(buyer[b].quote, buyer[b].key)
           /\ quotes[buyer[b].key] # NoQuote => buyer[b].quote = quotes[buyer[b].key]
           /\ HoldSeen(b) # NoQuote => IsHold(HoldSeen(b), buyer[b].quote)
           /\ buyer[b].at = "held" => IsHold(HoldSeen(b), buyer[b].quote)
           /\ \A o \in Buyers \ {b} : buyer[o].at = "out" \/ buyer[o].key # buyer[b].key
           /\ buyer[b].quote \in Known(quotes, buyer)
<1>1. DealFits(buyer[b], quotes, holds)
  BY DEF PriceInv, DealsFit
<1>2. /\ DOMAIN buyer[b] = DOMAIN NoDeal
      /\ buyer[b].key \in QuoteKeys /\ buyer[b].quote # NoQuote
      /\ IsQuote(buyer[b].quote, buyer[b].key)
      /\ quotes[buyer[b].key] # NoQuote => buyer[b].quote = quotes[buyer[b].key]
      /\ buyer[b].hold # NoQuote => IsHold(buyer[b].hold, buyer[b].quote)
      /\ buyer[b].at = "held" => IsHold(Seen(buyer[b], holds), buyer[b].quote)
  BY <1>1 DEF DealFits
<1>3. QuoteSeen(b) = buyer[b].quote /\ HoldSeen(b) = Seen(buyer[b], holds)
  BY <1>2 DEF QuoteSeen, HoldSeen, Seen
<1>4. HoldSeen(b) # NoQuote => IsHold(HoldSeen(b), buyer[b].quote)
  BY <1>2 DEF HoldSeen, PriceInv, RowsFit
<1>5. \A o \in Buyers \ {b} : buyer[o].at = "out" \/ buyer[o].key # buyer[b].key
  BY DEF PriceInv, KeysApart
<1>6. buyer[b].quote \in Known(quotes, buyer)
  BY <1>2 DEF Known
<1> QED BY <1>2, <1>3, <1>4, <1>5, <1>6

\* Waiting for the wallet changes no quote and no hold.
LEMMA TakeWalletStep ==
    ASSUME PriceInv, NEW b \in Buyers, TakeWallet(b)
    PROVE  PriceInv'
<1> DEFINE d == [buyer[b] EXCEPT !.wallet = TRUE, !.at = "holding"]
<1>1. buyer[b].at = "quoted" /\ UNCHANGED <<deployed, clock, quotes, holds>>
      /\ buyer' = [buyer EXCEPT ![b] = d]
  BY DEF TakeWallet
<1>2. DealFits(buyer[b], quotes, holds)
  BY DEF PriceInv, DealsFit
<1>3. /\ DOMAIN d = DOMAIN NoDeal /\ d.at = "holding" /\ d.key = buyer[b].key
      /\ d.quote = buyer[b].quote /\ d.hold = buyer[b].hold
  BY <1>1, <1>2 DEF DealFits, NoDeal
<1> HIDE DEF d
<1>4. DealFits(d, quotes, holds)
  BY <1>1, <1>2, <1>3 DEF DealFits
<1> QED
  <2>1. d.at # "out" => \A o \in Buyers \ {b} : buyer[o].at = "out" \/ buyer[o].key # d.key
    BY <1>1, <1>3, UnderWay
  <2>2. d.quote \in Known(quotes, buyer)
    BY <1>1, <1>3, UnderWay
  <2> QED BY <1>1, <1>4, <2>1, <2>2, DealStep

\* Credit is held for the quote the attempt has, at its price.
LEMMA HoldPriceStep ==
    ASSUME PriceInv, NEW b \in Buyers, HoldPrice(b)
    PROVE  PriceInv'
<1> DEFINE h == [quote |-> QuoteSeen(b).id, amount |-> QuoteSeen(b).price.final,
                 made |-> clock, status |-> "reserved"]
           d == [buyer[b] EXCEPT !.at = "held", !.hold = h]
<1>1. buyer[b].at = "holding" /\ UNCHANGED <<deployed, clock, quotes, holds>>
      /\ buyer' = [buyer EXCEPT ![b] = d] /\ HoldSeen(b) = NoQuote
  BY DEF HoldPrice, MayHold
<1>2. DealFits(buyer[b], quotes, holds)
  BY DEF PriceInv, DealsFit
<1>3. QuoteSeen(b) = buyer[b].quote /\ IsQuote(buyer[b].quote, buyer[b].key) /\ clock \in Int
  BY <1>1, UnderWay DEF PriceInv, Served
<1>4. IsHold(h, buyer[b].quote)
  BY <1>3 DEF IsHold, HoldRow, SameDeal, IsQuote, Fair
<1> HIDE DEF h
<1>5. /\ DOMAIN d = DOMAIN NoDeal /\ d.at = "held" /\ d.key = buyer[b].key
      /\ d.quote = buyer[b].quote /\ d.hold = h
  BY <1>1, <1>2 DEF DealFits, NoDeal
<1> HIDE DEF d
<1>6. Seen(d, holds) = h
  <2>1. h = NoQuote => holds[buyer[b].key] = h
    BY <1>1 DEF HoldSeen
  <2> QED BY <1>5, <2>1 DEF Seen
<1>7. DealFits(d, quotes, holds)
  BY <1>1, <1>2, <1>4, <1>5, <1>6 DEF DealFits
<1> QED
  <2>1. d.at # "out" => \A o \in Buyers \ {b} : buyer[o].at = "out" \/ buyer[o].key # d.key
    BY <1>1, <1>5, UnderWay
  <2>2. d.quote \in Known(quotes, buyer)
    BY <1>1, <1>5, UnderWay
  <2> QED BY <1>1, <1>7, <2>1, <2>2, DealStep

\* The hold that is there is for the quote the attempt has.
LEMMA HoldAgainStep ==
    ASSUME PriceInv, NEW b \in Buyers, HoldAgain(b)
    PROVE  PriceInv'
<1> DEFINE d == [buyer[b] EXCEPT !.at = "held"]
<1>1. buyer[b].at = "holding" /\ UNCHANGED <<deployed, clock, quotes, holds>>
      /\ buyer' = [buyer EXCEPT ![b] = d] /\ HoldSeen(b) # NoQuote
  BY DEF HoldAgain
<1>2. DealFits(buyer[b], quotes, holds)
  BY DEF PriceInv, DealsFit
<1>3. IsHold(Seen(buyer[b], holds), buyer[b].quote)
  BY <1>1, UnderWay
<1>4. /\ DOMAIN d = DOMAIN NoDeal /\ d.at = "held" /\ d.key = buyer[b].key
      /\ d.quote = buyer[b].quote /\ d.hold = buyer[b].hold
  BY <1>1, <1>2 DEF DealFits, NoDeal
<1> HIDE DEF d
<1>5. Seen(d, holds) = Seen(buyer[b], holds)
  BY <1>4 DEF Seen
<1>6. DealFits(d, quotes, holds)
  BY <1>1, <1>2, <1>3, <1>4, <1>5 DEF DealFits
<1> QED
  <2>1. d.at # "out" => \A o \in Buyers \ {b} : buyer[o].at = "out" \/ buyer[o].key # d.key
    BY <1>1, <1>4, UnderWay
  <2>2. d.quote \in Known(quotes, buyer)
    BY <1>1, <1>4, UnderWay
  <2> QED BY <1>1, <1>6, <2>1, <2>2, DealStep

\* A settled hold is for the quote it was made for.
LEMMA SettleHoldStep ==
    ASSUME PriceInv, NEW b \in Buyers, SettleHold(b)
    PROVE  PriceInv'
<1>1. PICK status \in {"committed", "released"} :
         buyer' = [buyer EXCEPT ![b].hold = [HoldSeen(b) EXCEPT !.status = status]]
  BY DEF SettleHold
<1> DEFINE h == [HoldSeen(b) EXCEPT !.status = status]
           d == [buyer[b] EXCEPT !.hold = h]
<1>2. buyer[b].at = "held" /\ UNCHANGED <<deployed, clock, quotes, holds>>
      /\ buyer' = [buyer EXCEPT ![b] = d]
  BY <1>1 DEF SettleHold
<1>3. DealFits(buyer[b], quotes, holds)
  BY DEF PriceInv, DealsFit
<1>4. IsHold(HoldSeen(b), buyer[b].quote) /\ HoldSeen(b) = Seen(buyer[b], holds)
  BY <1>2, UnderWay
<1>5. IsHold(h, buyer[b].quote)
  BY <1>4 DEF IsHold, HoldRow, SameDeal
<1>6. holds[buyer[b].key] # NoQuote => IsHold(holds[buyer[b].key], buyer[b].quote)
  BY <1>2, UnderWay DEF PriceInv, RowsFit
<1> HIDE DEF h
<1>7. /\ DOMAIN d = DOMAIN NoDeal /\ d.at = "held" /\ d.key = buyer[b].key
      /\ d.quote = buyer[b].quote /\ d.hold = h
  BY <1>2, <1>3 DEF DealFits, NoDeal
<1> HIDE DEF d
<1>8. IsHold(Seen(d, holds), d.quote)
  BY <1>5, <1>6, <1>7 DEF Seen
<1>9. DealFits(d, quotes, holds)
  BY <1>2, <1>3, <1>5, <1>7, <1>8 DEF DealFits
<1> QED
  <2>1. d.at # "out" => \A o \in Buyers \ {b} : buyer[o].at = "out" \/ buyer[o].key # d.key
    BY <1>2, <1>7, UnderWay
  <2>2. d.quote \in Known(quotes, buyer)
    BY <1>2, <1>7, UnderWay
  <2> QED BY <1>2, <1>9, <2>1, <2>2, DealStep

\* An attempt that ends without a commit leaves the rows.
LEMMA DropDealStep ==
    ASSUME PriceInv, NEW b \in Buyers, DropDeal(b)
    PROVE  PriceInv'
<1>1. UNCHANGED <<deployed, clock, quotes, holds>> /\ buyer' = [buyer EXCEPT ![b] = NoDeal]
  BY DEF DropDeal
<1>2. NoDeal.at = "out" /\ NoDeal.quote = NoQuote /\ NoDeal.hold = NoQuote
  BY DEF NoDeal
<1>3. DealFits(NoDeal, quotes, holds)
  BY <1>2 DEF DealFits
<1> QED BY <1>1, <1>2, <1>3, DealStep

\* A commit stores what the attempt saw, under a key no other attempt has.
LEMMA EndDealStep ==
    ASSUME PriceInv, NEW b \in Buyers, EndDeal(b)
    PROVE  PriceInv'
<1> DEFINE key == buyer[b].key
           q == buyer[b].quote
           h == HoldSeen(b)
<1>1. buyer[b].at # "out" /\ UNCHANGED <<deployed, clock>>
      /\ quotes' = [quotes EXCEPT ![key] = QuoteSeen(b)]
      /\ holds' = [holds EXCEPT ![key] = h] /\ buyer' = [buyer EXCEPT ![b] = NoDeal]
  BY DEF EndDeal
<1>2. /\ key \in QuoteKeys /\ q # NoQuote /\ QuoteSeen(b) = q /\ IsQuote(q, key)
      /\ h # NoQuote => IsHold(h, q)
      /\ \A o \in Buyers \ {b} : buyer[o].at = "out" \/ buyer[o].key # key
      /\ q \in Known(quotes, buyer)
  BY <1>1, UnderWay
<1>3. DOMAIN quotes = QuoteKeys /\ DOMAIN holds = QuoteKeys /\ DOMAIN buyer = Buyers
  BY DEF PriceInv, RowsFit, DealsFit
<1> HIDE DEF h
<1>4. /\ DOMAIN quotes' = QuoteKeys /\ DOMAIN holds' = QuoteKeys /\ DOMAIN buyer' = Buyers
      /\ quotes'[key] = q /\ holds'[key] = h /\ buyer'[b] = NoDeal
      /\ \A k \in QuoteKeys : k # key => quotes'[k] = quotes[k] /\ holds'[k] = holds[k]
      /\ \A o \in Buyers : o # b => buyer'[o] = buyer[o]
  BY <1>1, <1>2, <1>3
<1> HIDE DEF key, q
<1>5. Served(deployed, clock)'
  BY <1>1 DEF PriceInv, Served
<1>6. RowsFit(quotes, holds)'
  <2>1. ASSUME NEW k \in QuoteKeys
        PROVE  /\ quotes'[k] # NoQuote => IsQuote(quotes'[k], k)
               /\ holds'[k] # NoQuote => quotes'[k] # NoQuote /\ IsHold(holds'[k], quotes'[k])
    <3>1. CASE k = key
      BY <1>2, <1>4, <3>1
    <3>2. CASE k # key
      BY <1>4, <3>2 DEF PriceInv, RowsFit
    <3> QED BY <3>1, <3>2
  <2> QED BY <1>4, <2>1 DEF RowsFit
<1>7. NoDeal.at = "out" /\ NoDeal.quote = NoQuote /\ NoDeal.hold = NoQuote
  BY DEF NoDeal
<1>8. DealsFit(quotes, holds, buyer)'
  <2>1. ASSUME NEW o \in Buyers PROVE DealFits(buyer'[o], quotes', holds')
    <3>1. CASE o = b
      BY <1>4, <1>7, <3>1 DEF DealFits
    <3>2. CASE o # b
      <4>1. DealFits(buyer[o], quotes, holds) /\ buyer'[o] = buyer[o]
        BY <1>4, <3>2 DEF PriceInv, DealsFit
      <4>2. buyer[o].at # "out" => /\ quotes'[buyer[o].key] = quotes[buyer[o].key]
                                   /\ holds'[buyer[o].key] = holds[buyer[o].key]
        BY <1>2, <1>4, <3>2, <4>1 DEF DealFits
      <4> QED BY <4>1, <4>2 DEF DealFits, Seen
    <3> QED BY <3>1, <3>2
  <2> QED BY <1>4, <2>1 DEF DealsFit
<1>9. KeysApart(buyer)'
  BY <1>4, <1>7 DEF PriceInv, KeysApart
<1>10. IdsApart(Known(quotes, buyer)')
  <2>1. Known(quotes, buyer)' \subseteq Known(quotes, buyer)
    <3>1. SUFFICES ASSUME NEW x \in Known(quotes, buyer)'
                   PROVE  x \in Known(quotes, buyer)
      OBVIOUS
    <3>2. x # NoQuote
          /\ ((\E k \in QuoteKeys : x = quotes'[k]) \/ (\E o \in Buyers : x = buyer'[o].quote))
      BY DEF Known
    <3>3. \A k \in QuoteKeys : quotes'[k] = q \/ quotes'[k] = quotes[k]
      BY <1>4
    <3>4. \A o \in Buyers : buyer'[o].quote = NoQuote \/ buyer'[o].quote = buyer[o].quote
      BY <1>4, <1>7
    <3> QED BY <1>2, <3>2, <3>3, <3>4 DEF Known
  <2> QED BY <2>1 DEF PriceInv, IdsApart
<1> QED BY <1>5, <1>6, <1>8, <1>9, <1>10 DEF PriceInv

\* Every step keeps the invariant of quotes and holds.
LEMMA PriceStep == PriceInv /\ [PriceNext]_priceVars => PriceInv'
<1> SUFFICES ASSUME PriceInv, [PriceNext]_priceVars PROVE PriceInv'
  OBVIOUS
<1>1. CASE \E b \in Buyers :
             \/ AskPrice(b) \/ TakeWallet(b)
             \/ HoldPrice(b) \/ HoldAgain(b) \/ SettleHold(b)
             \/ EndDeal(b) \/ DropDeal(b)
  BY <1>1, AskPriceStep, TakeWalletStep, HoldPriceStep, HoldAgainStep, SettleHoldStep,
     EndDealStep, DropDealStep
<1>2. CASE DeployBook
  BY <1>2 DEF DeployBook, PriceInv, Served, RowsFit, DealsFit, KeysApart, Known
<1>3. CASE PassTime
  BY <1>3 DEF PassTime, PriceInv, Served, RowsFit, DealsFit, KeysApart, Known
<1>4. CASE UNCHANGED priceVars
  BY <1>4 DEF priceVars, PriceInv, Served, RowsFit, DealsFit, KeysApart, Known
<1> QED BY <1>1, <1>2, <1>3, <1>4 DEF PriceNext

\* Quotes, holds and attempts fit together at all times.
LEMMA PriceAlways == PriceSpec => []PriceInv
BY InitPriceInv, PriceStep, PTL DEF PriceSpec

\* The books in use and the quotes stored are as they have to be.
LEMMA InvPricesSound == PriceInv => PricesAreSound
<1> SUFFICES ASSUME PriceInv PROVE PricesAreSound
  OBVIOUS
<1>1. ASSUME NEW c \in Conditions
      PROVE  /\ Cardinality(ModelsFor(deployed, c)) <= 1
             /\ \A i \in ModelsFor(deployed, c) :
                  Cardinality(TiersFor(deployed.models[i], c)) <= 1
  <2>1. /\ \A i, j \in ModelsFor(deployed, c) : i = j
        /\ \A i \in ModelsFor(deployed, c) : \A j, k \in TiersFor(deployed.models[i], c) : j = k
    BY OneModelFits DEF PriceInv, Served
  <2>2. Cardinality(ModelsFor(deployed, c)) <= 1
    BY <2>1, AtMostOne
  <2>3. ASSUME NEW i \in ModelsFor(deployed, c)
        PROVE  Cardinality(TiersFor(deployed.models[i], c)) <= 1
    BY <2>1, AtMostOne
  <2> QED BY <2>2, <2>3
<1>2. ASSUME NEW k \in QuoteKeys, quotes[k] # NoQuote
      PROVE  Fair(quotes[k].price)
  BY <1>2 DEF PriceInv, RowsFit, IsQuote
<1> QED BY <1>1, <1>2 DEF PricesAreSound, Fair

\* Credit is held for the quote that was asked for, while it is good.
LEMMA NewHold ==
    ASSUME PriceInv, PriceNext, NEW b \in Buyers,
           buyer[b].hold = NoQuote, buyer'[b].hold # NoQuote, buyer'[b].hold.status = "reserved"
    PROVE  /\ clock < QuoteSeen(b).expires
           /\ buyer'[b].hold.amount = QuoteSeen(b).price.final
           /\ buyer[b].wants = QuoteSeen(b).wants
<1>1. DOMAIN buyer = Buyers
  BY DEF PriceInv, DealsFit
<1>2. \A o \in Buyers : DOMAIN buyer[o] = DOMAIN NoDeal
  BY DEF PriceInv, DealsFit, DealFits
<1>3. ASSUME NEW o \in Buyers, AskPrice(o) PROVE FALSE
  <2>1. PICK k \in QuoteKeys, c \in Conditions : buyer' = [buyer EXCEPT ![o] =
              [NoDeal EXCEPT !.at = "quoted", !.key = k, !.wants = c,
                             !.quote = QuoteFor(k, c, quotes[k])]]
    BY <1>3 DEF AskPrice
  <2> QED BY <1>1, <2>1 DEF NoDeal
<1>4. ASSUME NEW o \in Buyers, TakeWallet(o) \/ HoldAgain(o) PROVE FALSE
  BY <1>1, <1>2, <1>4 DEF TakeWallet, HoldAgain, NoDeal
<1>5. ASSUME NEW o \in Buyers, EndDeal(o) \/ DropDeal(o) PROVE FALSE
  BY <1>1, <1>5 DEF EndDeal, DropDeal, NoDeal
<1>6. ASSUME NEW o \in Buyers, SettleHold(o) PROVE FALSE
  <2>1. PICK status \in {"committed", "released"} :
           buyer' = [buyer EXCEPT ![o].hold = [HoldSeen(o) EXCEPT !.status = status]]
    BY <1>6 DEF SettleHold
  <2>2. HoldSeen(o) \in HoldRow
    BY <1>6, UnderWay DEF SettleHold, IsHold
  <2>3. CASE o = b
    <3>1. buyer'[b].hold = [HoldSeen(o) EXCEPT !.status = status]
      BY <1>1, <1>2, <2>1, <2>3 DEF NoDeal
    <3> QED BY <2>2, <3>1 DEF HoldRow
  <2>4. CASE o # b
    BY <1>1, <2>1, <2>4
  <2> QED BY <2>3, <2>4
<1>7. ~DeployBook /\ ~PassTime
  BY DEF DeployBook, PassTime
<1>8. PICK o \in Buyers : HoldPrice(o)
  BY <1>3, <1>4, <1>5, <1>6, <1>7 DEF PriceNext
<1>9. o = b
  BY <1>1, <1>8 DEF HoldPrice
<1>10. MayHold(b) /\ buyer' = [buyer EXCEPT ![b].at = "held", ![b].hold =
         [quote |-> QuoteSeen(b).id, amount |-> QuoteSeen(b).price.final,
          made |-> clock, status |-> "reserved"]]
  BY <1>8, <1>9 DEF HoldPrice
<1>11. buyer'[b].hold.amount = QuoteSeen(b).price.final
  BY <1>1, <1>2, <1>10 DEF NoDeal
<1>12. clock \in Int /\ QuoteSeen(b).expires \in Int
  BY <1>8, <1>9, UnderWay DEF HoldPrice, PriceInv, Served, IsQuote
<1>13. clock < QuoteSeen(b).expires
  BY <1>10, <1>12 DEF MayHold, Expired
<1> QED BY <1>10, <1>11, <1>13 DEF MayHold

\* A stored quote is never written over.
LEMMA QuoteKept ==
    ASSUME PriceInv, PriceNext, NEW k \in QuoteKeys, quotes[k] # NoQuote
    PROVE  quotes'[k] = quotes[k]
<1>1. CASE \E b \in Buyers : EndDeal(b)
  <2>1. PICK b \in Buyers : EndDeal(b)
    BY <1>1
  <2>2. quotes' = [quotes EXCEPT ![buyer[b].key] = buyer[b].quote]
        /\ (quotes[buyer[b].key] # NoQuote => buyer[b].quote = quotes[buyer[b].key])
    BY <2>1, UnderWay DEF EndDeal
  <2> QED BY <2>2 DEF PriceInv, RowsFit
<1>2. CASE ~\E b \in Buyers : EndDeal(b)
  BY <1>2 DEF PriceNext, AskPrice, TakeWallet, HoldPrice, HoldAgain, SettleHold, DropDeal,
              DeployBook, PassTime
<1> QED BY <1>1, <1>2

\* Two reservations are for two quotes.
HoldsApart == \A j, k \in QuoteKeys :
    holds[j] # NoQuote /\ holds[k] # NoQuote /\ holds[j].quote = holds[k].quote => j = k

LEMMA InvHoldsApart == PriceInv => HoldsApart
<1> SUFFICES ASSUME PriceInv, NEW j \in QuoteKeys, NEW k \in QuoteKeys,
                    holds[j] # NoQuote, holds[k] # NoQuote, holds[j].quote = holds[k].quote
             PROVE  j = k
  BY DEF HoldsApart
<1>1. /\ quotes[j] # NoQuote /\ IsQuote(quotes[j], j) /\ holds[j].quote = quotes[j].id
      /\ quotes[k] # NoQuote /\ IsQuote(quotes[k], k) /\ holds[k].quote = quotes[k].id
  BY DEF PriceInv, RowsFit, IsHold, SameDeal
<1>2. quotes[j] \in Known(quotes, buyer) /\ quotes[k] \in Known(quotes, buyer)
  BY <1>1 DEF Known
<1>3. quotes[j] = quotes[k]
  BY <1>1, <1>2 DEF PriceInv, IdsApart
<1> QED BY <1>1, <1>3 DEF IsQuote

\* Each step does what DealsStand allows.
LEMMA DealsStep ==
    PriceInv /\ PriceInv' /\ HoldsApart' /\ [PriceNext]_priceVars =>
      /\ [\A k \in QuoteKeys : quotes[k] # NoQuote => quotes'[k] = quotes[k]]_priceVars
      /\ [/\ \A b \in Buyers : buyer[b].hold = NoQuote /\ buyer'[b].hold # NoQuote
               /\ buyer'[b].hold.status = "reserved" =>
                 /\ clock < QuoteSeen(b).expires
                 /\ buyer'[b].hold.amount = QuoteSeen(b).price.final
                 /\ buyer[b].wants = QuoteSeen(b).wants
          /\ \A k \in QuoteKeys : holds'[k] # NoQuote =>
                 quotes'[k] # NoQuote /\ SameDeal(holds'[k], quotes'[k])
          /\ \A j, k \in QuoteKeys : holds'[j] # NoQuote /\ holds'[k] # NoQuote
               /\ holds'[j].quote = holds'[k].quote => j = k]_priceVars
<1> SUFFICES ASSUME PriceInv, PriceInv', HoldsApart', PriceNext
             PROVE  /\ \A k \in QuoteKeys : quotes[k] # NoQuote => quotes'[k] = quotes[k]
                    /\ \A b \in Buyers : buyer[b].hold = NoQuote /\ buyer'[b].hold # NoQuote
                         /\ buyer'[b].hold.status = "reserved" =>
                           /\ clock < QuoteSeen(b).expires
                           /\ buyer'[b].hold.amount = QuoteSeen(b).price.final
                           /\ buyer[b].wants = QuoteSeen(b).wants
                    /\ \A k \in QuoteKeys : holds'[k] # NoQuote =>
                           quotes'[k] # NoQuote /\ SameDeal(holds'[k], quotes'[k])
                    /\ \A j, k \in QuoteKeys : holds'[j] # NoQuote /\ holds'[k] # NoQuote
                         /\ holds'[j].quote = holds'[k].quote => j = k
  OBVIOUS
<1>1. \A k \in QuoteKeys : quotes[k] # NoQuote => quotes'[k] = quotes[k]
  BY QuoteKept
<1>2. \A b \in Buyers : buyer[b].hold = NoQuote /\ buyer'[b].hold # NoQuote
        /\ buyer'[b].hold.status = "reserved" =>
          /\ clock < QuoteSeen(b).expires
          /\ buyer'[b].hold.amount = QuoteSeen(b).price.final
          /\ buyer[b].wants = QuoteSeen(b).wants
  BY NewHold
<1>3. \A k \in QuoteKeys : holds'[k] # NoQuote =>
        quotes'[k] # NoQuote /\ SameDeal(holds'[k], quotes'[k])
  BY DEF PriceInv, RowsFit, IsHold
<1> QED BY <1>1, <1>2, <1>3 DEF HoldsApart

-----------------------------------------------------------------------------
(* Theorems about quotes *)

\* A configuration servers accept prices a request in one way, and a quote is at
\* least the cost floor and its policies' price and less than a credit above both:
\* pricing.py, the validation of configuration.py, and quotes.py.
THEOREM PricesStaySound == PriceSpec => []PricesAreSound
BY PriceAlways, InvPricesSound, PTL

\* A quote stands through retries and new price books, credit is held only for a
\* quote that is still good, at its price, and one reservation goes to one quote:
\* create_billing_quote and reserve_credit.
THEOREM DealsLast == PriceSpec => DealsStand
<1>1. PriceInv /\ [PriceNext]_priceVars => PriceInv'
  BY PriceStep
<1> QED BY InitPriceInv, <1>1, InvHoldsApart, DealsStep, PTL DEF PriceSpec, DealsStand, QuotesStand, HoldsFollowQuotes
=============================================================================

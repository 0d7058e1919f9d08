-------------------------- MODULE StatisticsProofs --------------------------
(***************************************************************************)
(* Proofs about ProductStatistics, for any number of writers, jobs, days,  *)
(* payments, versions and players.  A written fact fits the facts until it *)
(* is committed, because whoever could break its limits locks the same     *)
(* row; what a job has read of its day stays true, because a writer of     *)
(* that day waits for the day's lock; and so a day outside the queue has   *)
(* the rows of its facts.  The rest adds days up.                          *)
(***************************************************************************)
EXTENDS ProductStatistics, FiniteSums

-----------------------------------------------------------------------------
(* What is recorded, and its totals *)

\* Facts as they are stored: a stored refund has the version and the day of its sale.
RefundFacts == [kind: {"refund"}, key: Keys, of: Keys, version: Versions, user: {NoFact},
                amount: SaleAmounts, day: Days]
Stored == Sales \cup RefundFacts \cup Plays

AmountOf == [f \in Facts |-> f.amount]

LEMMA StoredAreFacts == Stored \subseteq Facts
BY DEF Stored, Sales, RefundFacts, Plays, Facts

LEMMA FactKinds ==
    /\ \A f \in Facts : f.amount \in Nat /\ f.day \in Days /\ f.version \in Versions
    /\ \A f \in Stored : f.kind = "sale" => f.of \in Payments /\ f \in Sales
    /\ \A f \in Stored : f.kind = "refund" => f.of \in Keys /\ f \in RefundFacts
    /\ \A f \in Stored : f.kind \in PlayKinds => f.user \in Players
    /\ \A f \in Stored : f.kind = "succeeded" => f.user \in Players
    /\ \A f \in Stored : f.kind \in {"sale", "refund"} \cup PlayKinds
<1>1. \A f \in Facts : f.amount \in Nat /\ f.day \in Days /\ f.version \in Versions
  <2>1. SaleAmounts \cup {0} \subseteq Nat
    BY StatisticsAssumption
  <2>2. \A f \in Facts : f.amount \in SaleAmounts \cup {0} /\ f.day \in Days /\ f.version \in Versions
    BY DEF Facts
  <2> QED BY <2>1, <2>2
<1>2. \A f \in Sales : f.kind = "sale" /\ f.of \in Payments
  BY DEF Sales
<1>3. \A f \in RefundFacts : f.kind = "refund" /\ f.of \in Keys
  BY DEF RefundFacts
<1>4. \A f \in Plays : f.kind \in PlayKinds /\ f.user \in Players
  BY DEF Plays
<1>5. "sale" \notin PlayKinds /\ "refund" \notin PlayKinds
  BY StatisticsAssumption
<1> QED BY <1>1, <1>2, <1>3, <1>4, <1>5 DEF Stored

LEMMA TotalIsSum ==
    ASSUME NEW fs, fs \subseteq Facts, IsFiniteSet(fs)
    PROVE  TotalAmount(fs) = Sum(AmountOf, fs) /\ TotalAmount(fs) \in Nat
<1> DEFINE W == [f \in fs |-> f.amount]
<1>1. TotalAmount(fs) = Sum(W, fs)
  BY SumOfFunction DEF TotalAmount
<1>2. \A f \in fs : W[f] = AmountOf[f] /\ AmountOf[f] \in Nat
  BY FactKinds DEF AmountOf
<1> HIDE DEF W
<1> QED BY <1>1, <1>2, SumAgrees, SumIsNat

\* One more fact adds its amount.
LEMMA TotalWith ==
    ASSUME NEW fs, fs \subseteq Facts, IsFiniteSet(fs), NEW f \in Facts, f \notin fs
    PROVE  TotalAmount(fs \cup {f}) = TotalAmount(fs) + f.amount
<1>1. IsFiniteSet(fs \cup {f}) /\ fs \cup {f} \subseteq Facts
  BY FS_AddElement
<1>2. TotalAmount(fs) = Sum(AmountOf, fs) /\ TotalAmount(fs \cup {f}) = Sum(AmountOf, fs \cup {f})
      /\ TotalAmount(fs) \in Nat
  BY <1>1, TotalIsSum
<1>3. AmountOf[f] = f.amount /\ f.amount \in Nat /\ \A x \in fs : AmountOf[x] \in Int
  BY FactKinds DEF AmountOf
<1>4. Sum(AmountOf, fs \cup {f}) = AmountOf[f] + Sum(AmountOf, fs)
  BY <1>3, SumAdd
<1> QED BY <1>2, <1>3, <1>4

-----------------------------------------------------------------------------
(* The invariant *)

\* The sales and refunds of any set of facts.
SalesIn(fs, p) == {f \in FactsOfKind(fs, "sale") : f.of = p}
RefundsIn(fs, key) == {f \in FactsOfKind(fs, "refund") : f.of = key}

\* A refund's sale: it counts where the sale counts.
IsSaleOf(sale, f) ==
    sale.kind = "sale" /\ sale.key = f.of /\ sale.version = f.version /\ sale.day = f.day

\* Keys are used once, nothing is sold or refunded beyond its limit, a payment is
\* settled on one day and a refund counts where its sale does.
Attributed(fs) ==
    /\ \A f, g \in fs : f.key = g.key => f = g
    /\ \A f, g \in fs : f.kind = "sale" /\ g.kind = "sale" /\ f.of = g.of => f.day = g.day
    /\ \A p \in Payments : TotalAmount(SalesIn(fs, p)) <= PaymentAmount[p]
    /\ \A f \in fs : f.kind = "refund" => \E sale \in fs : IsSaleOf(sale, f)
    /\ \A sale \in fs : sale.kind = "sale" =>
         TotalAmount(RefundsIn(fs, sale.key)) <= sale.amount

\* What the writer of f has checked still holds of the facts.
Fits(fs, f) ==
    /\ \A g \in fs : g.key # f.key
    /\ f.kind = "sale" =>
         /\ \A g \in fs : g.kind = "sale" /\ g.of = f.of => g.day = f.day
         /\ TotalAmount(SalesIn(fs, f.of)) + f.amount <= PaymentAmount[f.of]
    /\ f.kind = "refund" =>
         \E sale \in fs : IsSaleOf(sale, f)
                          /\ TotalAmount(RefundsIn(fs, f.of)) + f.amount <= sale.amount

\* Two written facts do not lock the same row.
Apart(f, g) == SourceRow(f) # SourceRow(g) /\ f.key # g.key

\* What the limits of a fact are counted over does not change with a fact apart from it.
LEMMA FitsStays ==
    ASSUME NEW fs, fs \subseteq Stored, NEW f \in Stored, NEW g \in Stored,
           Fits(fs, f), Apart(f, g)
    PROVE  Fits(fs \cup {g}, f)
<1>1. ASSUME f.kind = "sale"
      PROVE  /\ \A h \in fs \cup {g} : h.kind = "sale" /\ h.of = f.of => h.day = f.day
             /\ TotalAmount(SalesIn(fs \cup {g}, f.of)) + f.amount <= PaymentAmount[f.of]
  <2>1. ~(g.kind = "sale" /\ g.of = f.of)
    BY <1>1 DEF Apart, SourceRow
  <2>2. SalesIn(fs \cup {g}, f.of) = SalesIn(fs, f.of)
    BY <2>1 DEF SalesIn, FactsOfKind
  <2> QED BY <1>1, <2>1, <2>2 DEF Fits
<1>2. ASSUME f.kind = "refund"
      PROVE  \E sale \in fs \cup {g} : IsSaleOf(sale, f)
                /\ TotalAmount(RefundsIn(fs \cup {g}, f.of)) + f.amount <= sale.amount
  <2>1. ~(g.kind = "refund" /\ g.of = f.of)
    BY <1>2 DEF Apart, SourceRow
  <2>2. RefundsIn(fs \cup {g}, f.of) = RefundsIn(fs, f.of)
    BY <2>1 DEF RefundsIn, FactsOfKind
  <2> QED BY <1>2, <2>2 DEF Fits
<1>3. \A h \in fs \cup {g} : h.key # f.key
  BY DEF Fits, Apart
<1> QED BY <1>1, <1>2, <1>3 DEF Fits

\* A fact that fits is recorded and everything stays attributed.
LEMMA AttributedWith ==
    ASSUME NEW fs, fs \subseteq Stored, IsFiniteSet(fs), Attributed(fs), NEW f \in Stored,
           Fits(fs, f)
    PROVE  Attributed(fs \cup {f})
<1> DEFINE gs == fs \cup {f}
<1>1. fs \subseteq Facts /\ f \in Facts /\ f \notin fs /\ f.amount \in Nat
  BY StoredAreFacts, FactKinds DEF Fits
<1>2. \A g, h \in gs : g.key = h.key => g = h
  BY DEF Attributed, Fits
<1>3. \A g, h \in gs : g.kind = "sale" /\ h.kind = "sale" /\ g.of = h.of => g.day = h.day
  BY DEF Attributed, Fits
<1>4. ASSUME NEW p \in Payments PROVE TotalAmount(SalesIn(gs, p)) <= PaymentAmount[p]
  <2>1. CASE f.kind = "sale" /\ f.of = p
    <3>1. /\ SalesIn(gs, p) = SalesIn(fs, p) \cup {f} /\ f \notin SalesIn(fs, p)
          /\ SalesIn(fs, p) \in SUBSET fs
      BY <1>1, <2>1 DEF SalesIn, FactsOfKind
    <3>2. IsFiniteSet(SalesIn(fs, p)) /\ SalesIn(fs, p) \subseteq Facts
      BY <1>1, <3>1, FS_Subset
    <3>3. TotalAmount(SalesIn(gs, p)) = TotalAmount(SalesIn(fs, p)) + f.amount
      BY <1>1, <3>1, <3>2, TotalWith
    <3> QED BY <2>1, <3>3 DEF Fits
  <2>2. CASE ~(f.kind = "sale" /\ f.of = p)
    <3>1. SalesIn(gs, p) = SalesIn(fs, p)
      BY <2>2 DEF SalesIn, FactsOfKind
    <3> QED BY <3>1 DEF Attributed
  <2> QED BY <2>1, <2>2
<1>5. \A g \in gs : g.kind = "refund" => \E sale \in gs : IsSaleOf(sale, g)
  BY DEF Attributed, Fits
<1>6. ASSUME NEW sale \in gs, sale.kind = "sale"
      PROVE  TotalAmount(RefundsIn(gs, sale.key)) <= sale.amount
  <2>1. CASE sale = f
    <3>1. RefundsIn(gs, sale.key) = {}
      <4>1. \A g \in fs : g.kind = "refund" => g.of # f.key
        BY DEF Attributed, Fits, IsSaleOf
      <4> QED BY <1>6, <2>1, <4>1 DEF RefundsIn, FactsOfKind
    <3>2. TotalAmount({}) = 0
      BY TotalIsSum, SumEmpty, FS_EmptySet
    <3> QED BY <1>1, <2>1, <3>1, <3>2
  <2>2. CASE sale \in fs /\ f.kind = "refund" /\ f.of = sale.key
    <3> DEFINE rs == RefundsIn(fs, sale.key)
    <3>1. RefundsIn(gs, sale.key) = rs \cup {f} /\ f \notin rs /\ rs \in SUBSET fs
      BY <1>1, <2>2 DEF RefundsIn, FactsOfKind
    <3>2. IsFiniteSet(rs) /\ rs \subseteq Facts
      BY <1>1, <3>1, FS_Subset
    <3>3. TotalAmount(RefundsIn(gs, sale.key)) = TotalAmount(rs) + f.amount
      <4> HIDE DEF rs
      <4> QED BY <1>1, <3>1, <3>2, TotalWith
    <3>4. PICK s \in fs : IsSaleOf(s, f) /\ TotalAmount(RefundsIn(fs, f.of)) + f.amount <= s.amount
      BY <2>2 DEF Fits
    <3>5. s = sale
      BY <2>2, <3>4 DEF IsSaleOf, Attributed
    <3> QED BY <2>2, <3>3, <3>4, <3>5
  <2>3. CASE sale \in fs /\ ~(f.kind = "refund" /\ f.of = sale.key)
    <3>1. RefundsIn(gs, sale.key) = RefundsIn(fs, sale.key)
      BY <2>3 DEF RefundsIn, FactsOfKind
    <3> QED BY <1>6, <2>3, <3>1 DEF Attributed
  <2> QED BY <2>1, <2>2, <2>3
<1> QED BY <1>2, <1>3, <1>4, <1>5, <1>6 DEF Attributed

-----------------------------------------------------------------------------
(* Rows of a day *)

LEMMA KindsAreFinite ==
    ASSUME NEW fs, fs \subseteq Stored, IsFiniteSet(fs), NEW kind
    PROVE  IsFiniteSet(FactsOfKind(fs, kind)) /\ FactsOfKind(fs, kind) \subseteq Facts
           /\ Cardinality(FactsOfKind(fs, kind)) \in Nat
           /\ TotalAmount(FactsOfKind(fs, kind)) \in Nat
<1>1. FactsOfKind(fs, kind) \in SUBSET fs
  BY DEF FactsOfKind
<1>2. IsFiniteSet(FactsOfKind(fs, kind)) /\ FactsOfKind(fs, kind) \subseteq Facts
  BY <1>1, StoredAreFacts, FS_Subset
<1>3. Cardinality(FactsOfKind(fs, kind)) \in Nat
  BY <1>2, FS_CardinalityType
<1> QED BY <1>2, <1>3, TotalIsSum

LEMMA FieldsAreFinite ==
    ASSUME NEW fs, fs \subseteq Stored, IsFiniteSet(fs)
    PROVE  IsFiniteSet(VersionsOf(fs)) /\ IsFiniteSet(PaymentsOf(fs)) /\ IsFiniteSet(UsersOf(fs))
<1>1. IsFiniteSet(VersionsOf(fs))
  <2> DEFINE W == [f \in fs |-> f.version]
  <2>1. VersionsOf(fs) = {W[f] : f \in fs}
    BY DEF VersionsOf
  <2> HIDE DEF W
  <2> QED BY <2>1, ImageIsFinite
<1>2. IsFiniteSet(PaymentsOf(fs))
  <2> DEFINE S == FactsOfKind(fs, "sale")
             W == [f \in S |-> f.of]
  <2>1. PaymentsOf(fs) = {W[f] : f \in S} /\ IsFiniteSet(S)
    BY KindsAreFinite DEF PaymentsOf
  <2> HIDE DEF W, S
  <2> QED BY <2>1, ImageIsFinite
<1>3. IsFiniteSet(UsersOf(fs))
  <2> DEFINE S == FactsOfKind(fs, "succeeded")
             W == [f \in S |-> f.user]
  <2>1. UsersOf(fs) = {W[f] : f \in S} /\ IsFiniteSet(S)
    BY KindsAreFinite DEF UsersOf
  <2> HIDE DEF W, S
  <2> QED BY <2>1, ImageIsFinite
<1> QED BY <1>1, <1>2, <1>3

LEMMA MetricsAreMetric ==
    ASSUME NEW fs, fs \subseteq Stored, IsFiniteSet(fs)
    PROVE  Metrics(fs) \in Metric
<1>1. Cardinality(UsersOf(fs)) \in Nat /\ Cardinality(PaymentsOf(fs)) \in Nat
  BY FieldsAreFinite, FS_CardinalityType
<1>2. \A kind : Cardinality(FactsOfKind(fs, kind)) \in Nat
                /\ TotalAmount(FactsOfKind(fs, kind)) \in Nat
  BY KindsAreFinite
<1> QED BY <1>1, <1>2 DEF Metrics, Metric

\* The counters of a day, added up over its versions, count every fact of the day once.
LEMMA CountersAddUp ==
    ASSUME NEW fs, fs \subseteq Stored, IsFiniteSet(fs), NEW k \in PlayKinds
    PROVE  SumOf([v \in VersionsOf(fs) |-> Metrics(OfVersion(fs, v))], k)
             = Cardinality(FactsOfKind(fs, k))
<1> DEFINE V == VersionsOf(fs)
           metrics == [v \in V |-> Metrics(OfVersion(fs, v))]
           X == [v \in V |-> FactsOfKind(OfVersion(fs, v), k)]
           t == [v \in V |-> metrics[v].counts[k]]
<1>1. SumOf(metrics, k) = Sum(t, V)
  BY SumOfFunction DEF SumOf
<1>2. \A v \in V : IsFiniteSet(X[v]) /\ t[v] = Cardinality(X[v])
  <2>1. SUFFICES ASSUME NEW v \in V PROVE IsFiniteSet(X[v]) /\ t[v] = Cardinality(X[v])
    OBVIOUS
  <2>2. OfVersion(fs, v) \in SUBSET fs /\ OfVersion(fs, v) \subseteq Stored
    BY DEF OfVersion
  <2>3. IsFiniteSet(OfVersion(fs, v))
    BY <2>2, FS_Subset
  <2>4. IsFiniteSet(X[v])
    BY <2>2, <2>3, KindsAreFinite
  <2>5. t[v] = Cardinality(X[v])
    BY DEF Metrics
  <2> QED BY <2>4, <2>5
<1>3. \A v, u \in V : v # u => X[v] \cap X[u] = {}
  BY DEF FactsOfKind, OfVersion
<1>4. Whole(X, V) = FactsOfKind(fs, k)
  <2>1. ASSUME NEW f \in Whole(X, V) PROVE f \in FactsOfKind(fs, k)
    BY <2>1 DEF Whole, FactsOfKind, OfVersion
  <2>2. ASSUME NEW f \in FactsOfKind(fs, k) PROVE f \in Whole(X, V)
    <3>1. f.version \in V /\ f \in X[f.version]
      BY <2>2 DEF FactsOfKind, OfVersion, VersionsOf
    <3> HIDE DEF X, V
    <3> QED BY <3>1 DEF Whole
  <2> HIDE DEF X, V
  <2> QED BY <2>1, <2>2
<1>5. IsFiniteSet(V)
  BY FieldsAreFinite
<1>6. Sum(t, V) = Cardinality(Whole(X, V))
  <2> HIDE DEF X, t, V
  <2> QED BY <1>2, <1>3, <1>5, CardOfParts
<1> QED BY <1>1, <1>4, <1>6

LEMMA BuiltRows ==
    ASSUME NEW fs, fs \subseteq Stored, IsFiniteSet(fs)
    PROVE  /\ Build(fs).total = Metrics(fs)
           /\ Build(fs).versions = [v \in VersionsOf(fs) |-> Metrics(OfVersion(fs, v))]
           /\ Build(fs) \in DayRows
<1> DEFINE metrics == [v \in VersionsOf(fs) |-> Metrics(OfVersion(fs, v))]
           counts == [k \in PlayKinds |-> SumOf(metrics, k)]
           total == [Metrics(fs) EXCEPT !.counts = counts]
<1>1. counts = [k \in PlayKinds |-> Cardinality(FactsOfKind(fs, k))]
  BY CountersAddUp
<1>2. total = Metrics(fs)
  <2> HIDE DEF counts
  <2> QED BY <1>1 DEF Metrics
<1>3. VersionsOf(fs) \subseteq Versions
  BY FactKinds, StoredAreFacts DEF VersionsOf
<1>4. metrics \in [VersionsOf(fs) -> Metric]
  <2>1. \A v \in VersionsOf(fs) : Metrics(OfVersion(fs, v)) \in Metric
    <3>1. \A v : OfVersion(fs, v) \in SUBSET fs /\ OfVersion(fs, v) \subseteq Stored
      BY DEF OfVersion
    <3>2. \A v : IsFiniteSet(OfVersion(fs, v))
      BY <3>1, FS_Subset
    <3> QED BY <3>1, <3>2, MetricsAreMetric
  <2> QED BY <2>1
<1>5. metrics \in UNION {[S -> Metric] : S \in SUBSET Versions}
  <2> HIDE DEF metrics
  <2> QED BY <1>3, <1>4
<1>6. UsersOf(fs) \subseteq Players
  BY FactKinds DEF UsersOf, FactsOfKind
<1>7. {<<f.version, f.user>> : f \in FactsOfKind(fs, "succeeded")} \subseteq Versions \X Players
  BY FactKinds, StoredAreFacts DEF FactsOfKind
<1>8. Metrics(fs) \in Metric
  BY MetricsAreMetric
<1>9. Build(fs) = [versions |-> metrics, total |-> total, users |-> UsersOf(fs),
                   active |-> {<<f.version, f.user>> : f \in FactsOfKind(fs, "succeeded")}]
  BY DEF Build
<1> HIDE DEF metrics, total
<1>10. Build(fs) \in DayRows
  BY <1>2, <1>5, <1>6, <1>7, <1>8, <1>9 DEF DayRows
<1> QED BY <1>2, <1>9, <1>10 DEF metrics

-----------------------------------------------------------------------------
(* The invariant of the transactions *)

Commands == Sales \cup Refunds \cup Plays
Work == [cmd: Commands \cup {NoFact}, fact: Stored \cup {NoFact}, todo: SUBSET Days]
Job == [at: {"waiting", "claimed", "money", "plays"}, day: Days \cup {NoFact},
        money: SUBSET Stored, plays: SUBSET Stored]

StatTyped ==
    /\ facts \subseteq Stored /\ IsFiniteSet(facts)
    /\ dirty \subseteq Days
    /\ lock \in [Days -> Writers \cup Jobs \cup {NoFact}]
    /\ workTx \in [Writers -> Work]
    /\ job \in [Jobs -> Job]
    /\ daily \in [Days -> DayRows \cup {NoFact}]

\* A fact is written for its command, and still fits when it is committed: no two
\* writers have the same key, or lock the same row.
Written(w) ==
    /\ workTx[w].cmd # NoFact
    /\ workTx[w].fact.key = workTx[w].cmd.key
    /\ SourceRow(workTx[w].fact) = SourceRow(workTx[w].cmd)
    /\ Fits(facts, workTx[w].fact)

WrittenFits ==
    /\ \A w \in Writers : workTx[w].fact # NoFact => Written(w)
    /\ \A w, o \in Writers :
         w # o /\ workTx[w].cmd # NoFact /\ workTx[o].cmd # NoFact =>
           workTx[w].cmd.key # workTx[o].cmd.key
    /\ \A w, o \in Writers :
         w # o /\ workTx[w].fact # NoFact /\ workTx[o].fact # NoFact =>
           SourceRow(workTx[w].fact) # SourceRow(workTx[o].fact)

\* The day of a written fact is marked before the fact is committed.
Marked ==
    \A w \in Writers : workTx[w].fact # NoFact =>
       LET d == workTx[w].fact.day IN d \in workTx[w].todo \/ lock[d] = w

\* A job holds its day, so that what it has read of the day stays true.
HoldsDay == \A j \in Jobs : job[j].at # "waiting" => job[j].day \in Days /\ lock[job[j].day] = j

MoneyOn(fs, d) == {f \in fs : f.day = d /\ Money(f)}
PlaysOn(fs, d) == {f \in fs : f.day = d /\ ~Money(f)}

ReadsStand ==
    \A j \in Jobs :
       /\ job[j].at \in {"money", "plays"} => job[j].money = MoneyOn(facts, job[j].day)
       /\ job[j].at = "plays" => job[j].plays = PlaysOn(facts, job[j].day)

\* A day outside the queue has the rows of its facts, or neither.
RowsAreBuilt ==
    \A d \in Days \ dirty :
       IF daily[d] = NoFact THEN On(d) = {} ELSE daily[d] = Build(On(d))

StatInv ==
    /\ StatTyped /\ Attributed(facts) /\ WrittenFits /\ Marked /\ HoldsDay /\ ReadsStand
    /\ RowsAreBuilt

LEMMA NothingIsStored ==
    /\ NoFact \notin Stored /\ NoFact \notin Commands /\ NoFact \notin DayRows
    /\ NoFact \notin Writers /\ NoFact \notin Jobs /\ NoFact \notin Days
    /\ Writers \cap Jobs = {}
<1>1. NoFact \notin Facts /\ NoFact \notin Refunds /\ NoFact \notin DayRows
  BY NoFactAssumption
<1>2. Sales \subseteq Facts /\ Plays \subseteq Facts
  BY StoredAreFacts DEF Stored
<1>3. NoFact \notin Stored /\ NoFact \notin Commands
  BY <1>1, <1>2, StoredAreFacts DEF Commands
<1>4. /\ NoFact \notin Writers /\ NoFact \notin Jobs /\ NoFact \notin Days
      /\ Writers \cap Jobs = {}
  BY StatisticsAssumption
<1> QED BY <1>1, <1>3, <1>4

LEMMA StatInitInv == StatInit => StatInv
<1> SUFFICES ASSUME StatInit PROVE StatInv
  OBVIOUS
<1> USE DEF StatInit, NoWork, Waiting
<1>1. StatTyped
  BY FS_EmptySet DEF StatTyped, Work, Job
<1>2. Attributed(facts)
  <2>1. TotalAmount({}) = 0
    BY TotalIsSum, SumEmpty, FS_EmptySet
  <2>2. \A p \in Payments : PaymentAmount[p] \in Nat
    BY StatisticsAssumption
  <2>3. \A p \in Payments : SalesIn({}, p) = {}
    BY DEF SalesIn, FactsOfKind
  <2>4. \A p \in Payments : TotalAmount(SalesIn({}, p)) <= PaymentAmount[p]
    <3>1. SUFFICES ASSUME NEW p \in Payments PROVE TotalAmount(SalesIn({}, p)) <= PaymentAmount[p]
      OBVIOUS
    <3>2. TotalAmount(SalesIn({}, p)) = 0 /\ PaymentAmount[p] \in Nat
      BY <2>1, <2>2, <2>3
    <3> HIDE DEF StatInit
    <3> QED BY <3>2
  <2>5. Attributed({})
    BY <2>4 DEF Attributed
  <2>6. facts = {}
    OBVIOUS
  <2> QED BY <2>5, <2>6
<1>3. WrittenFits /\ Marked
  BY DEF WrittenFits, Marked
<1>4. HoldsDay /\ ReadsStand
  BY DEF HoldsDay, ReadsStand
<1>5. RowsAreBuilt
  BY DEF RowsAreBuilt, On
<1> QED BY <1>1, <1>2, <1>3, <1>4, <1>5 DEF StatInv

-----------------------------------------------------------------------------
(* What a writer checks *)

LEMMA CommandKinds ==
    /\ \A c \in Commands : c.kind = "sale" => c \in Sales
    /\ \A c \in Commands : c.kind = "refund" => c \in Refunds
    /\ \A c \in Commands : c.kind \notin {"sale", "refund"} => c \in Plays
<1>1. \A c \in Sales : c.kind = "sale"
  BY DEF Sales
<1>2. \A c \in Refunds : c.kind = "refund"
  BY DEF Refunds
<1>3. \A c \in Plays : c.kind \in PlayKinds
  BY DEF Plays
<1>4. "sale" \notin PlayKinds /\ "refund" \notin PlayKinds
  BY StatisticsAssumption
<1> QED BY <1>1, <1>2, <1>3, <1>4 DEF Commands

\* What may be recorded fits the facts when it is written.
LEMMA RecordedFits ==
    ASSUME facts \subseteq Stored, Attributed(facts), NEW cmd \in Commands, Recordable(cmd)
    PROVE  /\ Recorded(cmd) \in Stored
           /\ Recorded(cmd).key = cmd.key
           /\ SourceRow(Recorded(cmd)) = SourceRow(cmd)
           /\ Fits(facts, Recorded(cmd))
<1>1. CASE cmd.kind = "refund"
  <2> DEFINE sale == CHOOSE f \in SaleWith(cmd.of) : TRUE
             f == Recorded(cmd)
  <2>1. PICK s \in SaleWith(cmd.of) :
          cmd.day >= s.day /\ TotalAmount(RefundsOf(cmd.of)) + cmd.amount <= s.amount
    BY <1>1 DEF Recordable, MayRefund
  <2>2. sale \in SaleWith(cmd.of)
    BY <2>1
  <2>3. s = sale
    BY <2>1, <2>2 DEF SaleWith, FactsOfKind, Attributed
  <2> HIDE DEF sale
  <2>4. sale \in facts /\ sale.kind = "sale" /\ sale.key = cmd.of
    BY <2>2 DEF SaleWith, FactsOfKind
  <2>5. sale.version \in Versions /\ sale.day \in Days
    BY <2>4, FactKinds, StoredAreFacts
  <2>6. f = [cmd EXCEPT !.version = sale.version, !.day = sale.day]
    BY <1>1 DEF Recorded, sale
  <2>7. cmd \in Refunds
    BY <1>1, CommandKinds
  <2>8. /\ f \in RefundFacts /\ f.kind = "refund" /\ f.key = cmd.key /\ f.of = cmd.of
        /\ f.amount = cmd.amount /\ f.version = sale.version /\ f.day = sale.day
    BY <2>5, <2>6, <2>7 DEF Refunds, RefundFacts
  <2> HIDE DEF f
  <2>9. IsSaleOf(sale, f)
    BY <2>4, <2>8 DEF IsSaleOf
  <2>10. RefundsIn(facts, f.of) = RefundsOf(cmd.of)
    BY <2>8 DEF RefundsIn, RefundsOf
  <2>11. Fits(facts, f)
    BY <2>1, <2>3, <2>4, <2>8, <2>9, <2>10 DEF Fits, Recordable
  <2>12. SourceRow(f) = SourceRow(cmd)
    BY <1>1, <2>8 DEF SourceRow
  <2> QED BY <2>8, <2>11, <2>12 DEF Stored, f
<1>2. CASE cmd.kind # "refund"
  <2>1. Recorded(cmd) = cmd
    BY <1>2 DEF Recorded
  <2>2. cmd \in Stored
    BY <1>2, CommandKinds DEF Stored, Commands
  <2>3. cmd.kind = "sale" =>
          /\ \A g \in facts : g.kind = "sale" /\ g.of = cmd.of => g.day = cmd.day
          /\ TotalAmount(SalesIn(facts, cmd.of)) + cmd.amount <= PaymentAmount[cmd.of]
    BY DEF Recordable, MaySell, SalesOf, SalesIn, FactsOfKind
  <2>4. Fits(facts, cmd)
    BY <1>2, <2>3 DEF Fits, Recordable
  <2> QED BY <2>1, <2>2, <2>4
<1> QED BY <1>1, <1>2

-----------------------------------------------------------------------------
(* Steps *)

\* A step of one writer: the others keep their work.
OnlyWork(w) == \A o \in Writers \ {w} : workTx'[o] = workTx[o]

LEMMA WorkType ==
    ASSUME StatTyped, NEW w \in Writers
    PROVE  /\ workTx[w] \in Work /\ workTx[w].cmd \in Commands \cup {NoFact}
           /\ workTx[w].fact \in Stored \cup {NoFact} /\ workTx[w].todo \in SUBSET Days
BY DEF StatTyped, Work

LEMMA JobType ==
    ASSUME StatTyped, NEW j \in Jobs
    PROVE  /\ job[j] \in Job /\ job[j].day \in Days \cup {NoFact}
           /\ job[j].at \in {"waiting", "claimed", "money", "plays"}
           /\ job[j].money \in SUBSET Stored /\ job[j].plays \in SUBSET Stored
BY DEF StatTyped, Job

LEMMA BeginWorkKeeps ==
    ASSUME StatInv, NEW w \in Writers, NEW cmd \in Commands, BeginWork(w, cmd)
    PROVE  StatInv'
<1> USE DEF StatInv
<1>1. /\ workTx[w] = NoWork /\ workTx' = [workTx EXCEPT ![w].cmd = cmd]
      /\ \A o \in Writers : workTx[o].cmd # NoFact => workTx[o].cmd.key # cmd.key
      /\ UNCHANGED <<facts, dirty, lock, job, daily>>
  BY DEF BeginWork
<1>2. /\ workTx'[w] = [cmd |-> cmd, fact |-> NoFact, todo |-> {}] /\ OnlyWork(w)
      /\ workTx' \in [Writers -> Work]
  <2>1. workTx \in [Writers -> Work]
    BY DEF StatTyped
  <2>2. [workTx[w] EXCEPT !.cmd = cmd] = [cmd |-> cmd, fact |-> NoFact, todo |-> {}]
    <3>1. [NoWork EXCEPT !.cmd = cmd] = [cmd |-> cmd, fact |-> NoFact, todo |-> {}]
      BY DEF NoWork
    <3> QED BY <1>1, <3>1
  <2> QED BY <1>1, <2>1, <2>2 DEF OnlyWork, Work
<1>3. \A o \in Writers : workTx'[o].fact = workTx[o].fact /\ workTx'[o].todo = workTx[o].todo
  BY <1>1, <1>2 DEF OnlyWork, NoWork
<1>4. \A o \in Writers : o # w => workTx'[o].cmd = workTx[o].cmd
  BY <1>2 DEF OnlyWork
<1>5. workTx[w].fact = NoFact /\ workTx'[w].cmd = cmd
  BY <1>1, <1>2 DEF NoWork
<1>6. StatTyped'
  BY <1>1, <1>2 DEF StatTyped
<1>7. WrittenFits'
  <2>1. \A o \in Writers : workTx'[o].fact # NoFact => Written(o)'
    BY <1>1, <1>3, <1>4, <1>5 DEF WrittenFits, Written
  <2>2. \A x, o \in Writers :
         x # o /\ workTx'[x].cmd # NoFact /\ workTx'[o].cmd # NoFact =>
           workTx'[x].cmd.key # workTx'[o].cmd.key
    BY <1>1, <1>4, <1>5 DEF WrittenFits
  <2> QED BY <1>3, <2>1, <2>2 DEF WrittenFits
<1>8. Marked'
  BY <1>1, <1>3 DEF Marked
<1>9. HoldsDay' /\ ReadsStand' /\ RowsAreBuilt' /\ Attributed(facts)'
  BY <1>1 DEF HoldsDay, ReadsStand, RowsAreBuilt, MoneyOn, PlaysOn, On
<1> QED BY <1>6, <1>7, <1>8, <1>9

LEMMA AttributeKeeps ==
    ASSUME StatInv, NEW w \in Writers, Attribute(w)
    PROVE  StatInv'
<1> USE DEF StatInv
<1> DEFINE cmd == workTx[w].cmd
           f == Recorded(cmd)
<1>1. /\ cmd # NoFact /\ workTx[w].fact = NoFact
      /\ \A o \in Writers \ {w} :
             workTx[o].fact # NoFact => SourceRow(workTx[o].cmd) # SourceRow(cmd)
      /\ workTx' = [workTx EXCEPT ![w] =
                    IF Recordable(cmd)
                    THEN [cmd |-> cmd, fact |-> Recorded(cmd), todo |-> {Recorded(cmd).day}]
                    ELSE NoWork]
      /\ UNCHANGED <<facts, dirty, lock, job, daily>>
  BY DEF Attribute
<1>2. cmd \in Commands /\ workTx \in [Writers -> Work]
  BY <1>1, WorkType DEF StatTyped
<1>3. OnlyWork(w)
  BY <1>1, <1>2 DEF OnlyWork
<1>4. HoldsDay' /\ ReadsStand' /\ RowsAreBuilt' /\ Attributed(facts)'
  BY <1>1 DEF HoldsDay, ReadsStand, RowsAreBuilt, MoneyOn, PlaysOn, On
<1>5. CASE Recordable(cmd)
  <2>1. /\ f \in Stored /\ f.key = cmd.key /\ SourceRow(f) = SourceRow(cmd) /\ Fits(facts, f)
    BY <1>2, <1>5, RecordedFits DEF StatTyped
  <2>2. f.day \in Days
    BY <2>1, FactKinds, StoredAreFacts
  <2> HIDE DEF f, cmd
  <2>3. workTx'[w] = [cmd |-> cmd, fact |-> f, todo |-> {f.day}]
    BY <1>1, <1>2, <1>5 DEF f
  <2>4. workTx' \in [Writers -> Work]
    <3>1. [cmd |-> cmd, fact |-> f, todo |-> {f.day}] \in Work
      BY <1>2, <2>1, <2>2 DEF Work
    <3> QED BY <1>1, <1>2, <1>5, <3>1 DEF f
  <2>5. StatTyped'
    BY <1>1, <2>4 DEF StatTyped
  <2>6. workTx'[w].cmd = cmd /\ workTx'[w].fact = f /\ workTx'[w].todo = {f.day}
    BY <2>3
  <2>7. WrittenFits'
    <3>1. ASSUME NEW o \in Writers, workTx'[o].fact # NoFact PROVE Written(o)'
      <4>1. CASE o = w
        BY <1>1, <2>1, <2>6, <4>1 DEF Written
      <4>2. CASE o # w
        BY <1>1, <1>3, <3>1, <4>2 DEF WrittenFits, Written, OnlyWork
      <4> QED BY <4>1, <4>2
    <3>2. \A x, o \in Writers :
             x # o /\ workTx'[x].cmd # NoFact /\ workTx'[o].cmd # NoFact =>
               workTx'[x].cmd.key # workTx'[o].cmd.key
      <4>1. \A o \in Writers : workTx'[o].cmd = workTx[o].cmd
        BY <1>3, <2>6 DEF OnlyWork, cmd
      <4> QED BY <4>1 DEF WrittenFits
    <3>3. \A x, o \in Writers :
             x # o /\ workTx'[x].fact # NoFact /\ workTx'[o].fact # NoFact =>
               SourceRow(workTx'[x].fact) # SourceRow(workTx'[o].fact)
      <4>1. \A o \in Writers \ {w} : workTx'[o].fact # NoFact =>
               SourceRow(workTx'[o].fact) # SourceRow(f)
        BY <1>1, <1>3, <2>1 DEF WrittenFits, Written, OnlyWork
      <4>2. \A x, o \in Writers \ {w} :
               x # o /\ workTx'[x].fact # NoFact /\ workTx'[o].fact # NoFact =>
                 SourceRow(workTx'[x].fact) # SourceRow(workTx'[o].fact)
        BY <1>3 DEF WrittenFits, OnlyWork
      <4> QED BY <2>6, <4>1, <4>2
    <3> QED BY <3>1, <3>2, <3>3 DEF WrittenFits
  <2>8. Marked'
    BY <1>1, <1>3, <2>6 DEF Marked, OnlyWork
  <2> QED BY <1>4, <2>5, <2>7, <2>8
<1>6. CASE ~Recordable(cmd)
  <2>1. workTx'[w] = NoWork
    BY <1>1, <1>2, <1>6
  <2>2. workTx' \in [Writers -> Work]
    BY <1>1, <1>2, <1>6 DEF NoWork, Work
  <2>3. StatTyped'
    BY <1>1, <2>2 DEF StatTyped
  <2>4. workTx'[w].fact = NoFact /\ workTx'[w].cmd = NoFact
    BY <2>1 DEF NoWork
  <2>5. WrittenFits'
    <3>1. \A o \in Writers : workTx'[o].fact # NoFact => Written(o)'
      BY <1>1, <1>3, <2>4 DEF WrittenFits, Written, OnlyWork
    <3> QED BY <1>3, <2>4, <3>1 DEF WrittenFits, OnlyWork
  <2>6. Marked'
    BY <1>1, <1>3, <2>4 DEF Marked, OnlyWork
  <2> QED BY <1>4, <2>3, <2>5, <2>6
<1> QED BY <1>5, <1>6

LEMMA EnqueueKeeps ==
    ASSUME StatInv, NEW w \in Writers, EnqueueRecent(w)
    PROVE  StatInv'
<1> USE DEF StatInv
<1>1. /\ workTx[w] = NoWork
      /\ UNCHANGED <<facts, dirty, lock, job, daily>>
  BY DEF EnqueueRecent
<1>2. PICK days \in SUBSET Days : workTx' = [workTx EXCEPT ![w].todo = days]
  BY DEF EnqueueRecent
<1>3. workTx \in [Writers -> Work]
  BY DEF StatTyped
<1>4. workTx'[w] = [cmd |-> NoFact, fact |-> NoFact, todo |-> days]
  <2>1. [NoWork EXCEPT !.todo = days] = [cmd |-> NoFact, fact |-> NoFact, todo |-> days]
    BY DEF NoWork
  <2> QED BY <1>1, <1>2, <1>3, <2>1
<1>5. OnlyWork(w) /\ workTx' \in [Writers -> Work]
  BY <1>2, <1>3, <1>4 DEF OnlyWork, Work
<1>6. \A o \in Writers : workTx'[o].fact = workTx[o].fact /\ workTx'[o].cmd = workTx[o].cmd
  BY <1>1, <1>4, <1>5 DEF OnlyWork, NoWork
<1>7. StatTyped'
  BY <1>1, <1>5 DEF StatTyped
<1>8. WrittenFits'
  BY <1>1, <1>6 DEF WrittenFits, Written
<1>9. Marked'
  BY <1>1, <1>4, <1>5 DEF Marked, OnlyWork
<1>10. HoldsDay' /\ ReadsStand' /\ RowsAreBuilt' /\ Attributed(facts)'
  BY <1>1 DEF HoldsDay, ReadsStand, RowsAreBuilt, MoneyOn, PlaysOn, On
<1> QED BY <1>7, <1>8, <1>9, <1>10

LEMMA MarkKeeps ==
    ASSUME StatInv, NEW w \in Writers, NEW d \in Days, Mark(w, d)
    PROVE  StatInv'
<1> USE DEF StatInv
<1>1. /\ d \in workTx[w].todo /\ lock[d] = NoFact /\ lock' = [lock EXCEPT ![d] = w]
      /\ workTx' = [workTx EXCEPT ![w].todo = @ \ {d}]
      /\ UNCHANGED <<facts, dirty, job, daily>>
  BY DEF Mark
<1>2. workTx \in [Writers -> Work] /\ lock \in [Days -> Writers \cup Jobs \cup {NoFact}]
  BY DEF StatTyped
<1>3. workTx'[w] = [workTx[w] EXCEPT !.todo = @ \ {d}] /\ OnlyWork(w)
  BY <1>1, <1>2 DEF OnlyWork
<1>4. /\ workTx'[w].fact = workTx[w].fact /\ workTx'[w].cmd = workTx[w].cmd
      /\ workTx'[w].todo = workTx[w].todo \ {d} /\ workTx'[w] \in Work
  BY <1>2, <1>3 DEF Work
<1>5. \A o \in Writers : workTx'[o].fact = workTx[o].fact /\ workTx'[o].cmd = workTx[o].cmd
  BY <1>3, <1>4 DEF OnlyWork
<1>6. lock'[d] = w /\ \A e \in Days \ {d} : lock'[e] = lock[e]
  BY <1>1, <1>2
<1>7. StatTyped'
  <2>1. workTx' \in [Writers -> Work]
    BY <1>1, <1>2, <1>3, <1>4
  <2>2. lock' \in [Days -> Writers \cup Jobs \cup {NoFact}]
    BY <1>1, <1>2
  <2> QED BY <1>1, <2>1, <2>2 DEF StatTyped
<1>8. WrittenFits'
  BY <1>1, <1>5 DEF WrittenFits, Written
<1>9. Marked'
  <2> SUFFICES ASSUME NEW o \in Writers, workTx'[o].fact # NoFact
               PROVE  \/ workTx'[o].fact.day \in workTx'[o].todo
                      \/ lock'[workTx'[o].fact.day] = o
    BY DEF Marked
  <2>1. workTx[o].fact.day \in workTx[o].todo \/ lock[workTx[o].fact.day] = o
    BY <1>5 DEF Marked
  <2>2. workTx[o].fact.day \in Days
    BY <1>5, WorkType, FactKinds, StoredAreFacts
  <2>3. o # NoFact
    BY NothingIsStored
  <2>4. CASE o = w
    BY <1>1, <1>4, <1>6, <2>1, <2>2, <2>4
  <2>5. CASE o # w
    BY <1>1, <1>3, <1>6, <2>1, <2>2, <2>3, <2>5 DEF OnlyWork
  <2> QED BY <2>4, <2>5
<1>10. HoldsDay'
  BY <1>1, <1>6, NothingIsStored DEF HoldsDay
<1>11. ReadsStand' /\ RowsAreBuilt' /\ Attributed(facts)'
  BY <1>1 DEF ReadsStand, RowsAreBuilt, MoneyOn, PlaysOn, On
<1> QED BY <1>7, <1>8, <1>9, <1>10, <1>11

\* A writer ends: its locks are gone, and it has no work.
LEMMA EndOfWork ==
    ASSUME StatInv, NEW w \in Writers, lock' = Released(w),
           workTx' = [workTx EXCEPT ![w] = NoWork]
    PROVE  /\ workTx' \in [Writers -> Work] /\ OnlyWork(w)
           /\ workTx'[w].fact = NoFact /\ workTx'[w].cmd = NoFact
           /\ lock' \in [Days -> Writers \cup Jobs \cup {NoFact}]
           /\ \A d \in Days : lock[d] # w => lock'[d] = lock[d]
           /\ Marked'
<1> USE DEF StatInv
<1>1. workTx \in [Writers -> Work] /\ lock \in [Days -> Writers \cup Jobs \cup {NoFact}]
  BY DEF StatTyped
<1>2. NoWork \in Work /\ NoWork.fact = NoFact /\ NoWork.cmd = NoFact
  BY DEF NoWork, Work
<1>3. /\ workTx' \in [Writers -> Work] /\ OnlyWork(w)
      /\ workTx'[w].fact = NoFact /\ workTx'[w].cmd = NoFact
  BY <1>1, <1>2 DEF OnlyWork
<1>4. /\ lock' \in [Days -> Writers \cup Jobs \cup {NoFact}]
      /\ \A d \in Days : lock[d] # w => lock'[d] = lock[d]
  BY <1>1 DEF Released
<1>5. Marked'
  <2> SUFFICES ASSUME NEW o \in Writers, workTx'[o].fact # NoFact
               PROVE  \/ workTx'[o].fact.day \in workTx'[o].todo
                      \/ lock'[workTx'[o].fact.day] = o
    BY DEF Marked
  <2>1. o # w /\ workTx'[o] = workTx[o]
    BY <1>3 DEF OnlyWork
  <2>2. workTx[o].fact.day \in Days
    BY <2>1, WorkType, FactKinds, StoredAreFacts
  <2>3. workTx[o].fact.day \in workTx[o].todo \/ lock[workTx[o].fact.day] = o
    BY <2>1 DEF Marked
  <2> QED BY <1>4, <2>1, <2>2, <2>3
<1> QED BY <1>3, <1>4, <1>5

LEMMA CommitWorkKeeps ==
    ASSUME StatInv, NEW w \in Writers, CommitWork(w)
    PROVE  StatInv'
<1> USE DEF StatInv
<1> DEFINE f == workTx[w].fact
<1>1. /\ workTx[w].todo = {}
      /\ facts' = IF f = NoFact THEN facts ELSE facts \cup {f}
      /\ dirty' = dirty \cup Held(w) /\ lock' = Released(w)
      /\ workTx' = [workTx EXCEPT ![w] = NoWork]
      /\ UNCHANGED <<job, daily>>
  BY DEF CommitWork
<1>2. /\ workTx' \in [Writers -> Work] /\ OnlyWork(w)
      /\ workTx'[w].fact = NoFact /\ workTx'[w].cmd = NoFact
      /\ lock' \in [Days -> Writers \cup Jobs \cup {NoFact}]
      /\ \A d \in Days : lock[d] # w => lock'[d] = lock[d]
      /\ Marked'
  BY <1>1, EndOfWork
<1>3. /\ facts \subseteq Stored /\ IsFiniteSet(facts) /\ dirty \subseteq Days
      /\ f \in Stored \cup {NoFact}
  BY WorkType DEF StatTyped
<1>4. f # NoFact => f \in Stored /\ Fits(facts, f) /\ f.day \in Days /\ lock[f.day] = w
                    /\ f.key = workTx[w].cmd.key /\ workTx[w].cmd # NoFact
  <2> SUFFICES ASSUME f # NoFact
               PROVE  f \in Stored /\ Fits(facts, f) /\ f.day \in Days /\ lock[f.day] = w
                      /\ f.key = workTx[w].cmd.key /\ workTx[w].cmd # NoFact
    OBVIOUS
  <2>1. f \in Stored /\ f.day \in Days
    BY <1>3, FactKinds, StoredAreFacts
  <2>2. Fits(facts, f) /\ f.key = workTx[w].cmd.key /\ workTx[w].cmd # NoFact
    BY DEF WrittenFits, Written
  <2>3. lock[f.day] = w
    BY <1>1 DEF Marked
  <2> QED BY <2>1, <2>2, <2>3
<1>5. StatTyped'
  <2>1. facts' \subseteq Stored /\ IsFiniteSet(facts')
    BY <1>1, <1>3, <1>4, FS_AddElement
  <2>2. dirty' \subseteq Days
    BY <1>1, <1>3 DEF Held
  <2> QED BY <1>1, <1>2, <2>1, <2>2 DEF StatTyped
<1>6. Attributed(facts)'
  <2>1. CASE f = NoFact
    BY <1>1, <2>1
  <2>2. CASE f # NoFact
    <3> HIDE DEF f
    <3>1. Attributed(facts \cup {f})
      BY <1>3, <1>4, <2>2, AttributedWith
    <3>2. facts' = facts \cup {f}
      BY <1>1, <2>2
    <3> QED BY <3>1, <3>2
  <2> QED BY <2>1, <2>2
<1>7. WrittenFits'
  <2>1. ASSUME NEW o \in Writers, workTx'[o].fact # NoFact PROVE Written(o)'
    <3>1. o # w /\ workTx'[o] = workTx[o]
      BY <1>2, <2>1 DEF OnlyWork
    <3> DEFINE g == workTx[o].fact
    <3>2. Written(o) /\ g \in Stored
      BY <2>1, <3>1, WorkType DEF WrittenFits
    <3>3. Fits(facts', g)
      <4>1. CASE f = NoFact
        BY <1>1, <3>2, <4>1 DEF Written
      <4>2. CASE f # NoFact
        <5>1. SourceRow(g) # SourceRow(f) /\ g.key # f.key
          BY <1>4, <2>1, <3>1, <3>2, <4>2 DEF WrittenFits, Written
        <5>2. Fits(facts, g) /\ Apart(g, f) /\ f \in Stored
          BY <1>4, <3>2, <4>2, <5>1 DEF Written, Apart
        <5>3. facts' = facts \cup {f}
          BY <1>1, <4>2
        <5> HIDE DEF f, g
        <5>4. Fits(facts \cup {f}, g)
          BY <1>3, <3>2, <5>2, FitsStays
        <5> QED BY <5>3, <5>4
      <4> QED BY <4>1, <4>2
    <3> QED BY <3>1, <3>2, <3>3 DEF Written
  <2> QED BY <1>2, <2>1 DEF WrittenFits, OnlyWork
<1>8. HoldsDay'
  <2>1. \A j \in Jobs : j # w
    BY NothingIsStored
  <2> QED BY <1>1, <1>2, <2>1 DEF HoldsDay
<1>9. \A d \in Days : lock[d] # w => On(d)' = On(d)
  BY <1>1, <1>4 DEF On
<1>10. ReadsStand'
  <2>1. \A d \in Days : lock[d] # w => MoneyOn(facts', d) = MoneyOn(facts, d) /\ PlaysOn(facts', d) = PlaysOn(facts, d)
    BY <1>9 DEF MoneyOn, PlaysOn, On
  <2> SUFFICES ASSUME NEW j \in Jobs
               PROVE  /\ job[j].at \in {"money", "plays"} => job[j].money = MoneyOn(facts', job[j].day)
                      /\ job[j].at = "plays" => job[j].plays = PlaysOn(facts', job[j].day)
    BY <1>1 DEF ReadsStand
  <2>2. job[j].at # "waiting" => job[j].day \in Days /\ lock[job[j].day] # w
    BY NothingIsStored DEF HoldsDay
  <2> QED BY <1>1, <2>1, <2>2 DEF ReadsStand
<1>11. RowsAreBuilt'
  <2>1. \A d \in Days \ dirty' : d \notin dirty /\ On(d)' = On(d)
    BY <1>1, <1>9 DEF Held
  <2> QED BY <1>1, <2>1 DEF RowsAreBuilt
<1> QED BY <1>2, <1>5, <1>6, <1>7, <1>8, <1>10, <1>11

LEMMA AbortWorkKeeps ==
    ASSUME StatInv, NEW w \in Writers, AbortWork(w)
    PROVE  StatInv'
<1> USE DEF StatInv
<1>1. /\ lock' = Released(w) /\ workTx' = [workTx EXCEPT ![w] = NoWork]
      /\ UNCHANGED <<facts, dirty, job, daily>>
  BY DEF AbortWork
<1>2. /\ workTx' \in [Writers -> Work] /\ OnlyWork(w)
      /\ workTx'[w].fact = NoFact /\ workTx'[w].cmd = NoFact
      /\ lock' \in [Days -> Writers \cup Jobs \cup {NoFact}]
      /\ \A d \in Days : lock[d] # w => lock'[d] = lock[d]
      /\ Marked'
  BY <1>1, EndOfWork
<1>3. StatTyped'
  BY <1>1, <1>2 DEF StatTyped
<1>4. WrittenFits'
  <2>1. \A o \in Writers : workTx'[o].fact # NoFact => Written(o)'
    BY <1>1, <1>2 DEF WrittenFits, Written, OnlyWork
  <2> QED BY <1>2, <2>1 DEF WrittenFits, OnlyWork
<1>5. HoldsDay'
  <2>1. \A j \in Jobs : j # w
    BY NothingIsStored
  <2> QED BY <1>1, <1>2, <2>1 DEF HoldsDay
<1>6. ReadsStand' /\ RowsAreBuilt' /\ Attributed(facts)'
  BY <1>1 DEF ReadsStand, RowsAreBuilt, MoneyOn, PlaysOn, On
<1> QED BY <1>2, <1>3, <1>4, <1>5, <1>6

\* A job never holds a day a writer has written to, or another job has.
LEMMA ClaimKeeps ==
    ASSUME StatInv, NEW j \in Jobs, NEW d \in Days, Claim(j, d)
    PROVE  StatInv'
<1> USE DEF StatInv
<1>1. /\ job[j].at = "waiting" /\ lock[d] = NoFact /\ lock' = [lock EXCEPT ![d] = j]
      /\ job' = [job EXCEPT ![j].at = "claimed", ![j].day = d]
      /\ UNCHANGED <<facts, dirty, workTx, daily>>
  BY DEF Claim
<1>2. job \in [Jobs -> Job] /\ lock \in [Days -> Writers \cup Jobs \cup {NoFact}]
  BY DEF StatTyped
<1>3. job'[j] = [job[j] EXCEPT !.at = "claimed", !.day = d] /\ job[j] \in Job
  BY <1>1, <1>2
<1>4. job'[j] \in Job /\ job'[j].at = "claimed" /\ job'[j].day = d
  BY <1>3 DEF Job
<1>5. \A i \in Jobs \ {j} : job'[i] = job[i]
  BY <1>1, <1>2
<1>6. lock'[d] = j /\ \A e \in Days \ {d} : lock'[e] = lock[e]
  BY <1>1, <1>2
<1>7. StatTyped'
  <2>1. job' \in [Jobs -> Job]
    BY <1>1, <1>2, <1>4
  <2>2. lock' \in [Days -> Writers \cup Jobs \cup {NoFact}]
    BY <1>1, <1>2
  <2> QED BY <1>1, <2>1, <2>2 DEF StatTyped
<1>8. Marked'
  <2>1. \A w \in Writers : w # NoFact
    BY NothingIsStored
  <2>2. \A w \in Writers : workTx[w].fact # NoFact => workTx[w].fact.day \in Days
    BY WorkType, FactKinds, StoredAreFacts
  <2> QED BY <1>1, <1>6, <2>1, <2>2 DEF Marked
<1>9. HoldsDay'
  <2>1. \A i \in Jobs : i # NoFact
    BY NothingIsStored
  <2>2. \A i \in Jobs \ {j} : job'[i].at # "waiting" => job'[i].day \in Days \ {d} /\ lock[job'[i].day] = i
    <3> SUFFICES ASSUME NEW i \in Jobs \ {j}, job'[i].at # "waiting"
                 PROVE  job'[i].day \in Days \ {d} /\ lock[job'[i].day] = i
      OBVIOUS
    <3>1. job'[i] = job[i] /\ i # NoFact
      BY <1>5, <2>1
    <3>2. HoldsDay
      OBVIOUS
    <3> HIDE DEF StatInv
    <3>3. job[i].day \in Days /\ lock[job[i].day] = i
      BY <3>1, <3>2 DEF HoldsDay
    <3> QED BY <1>1, <3>1, <3>3
  <2> HIDE DEF StatInv
  <2>3. \A i \in Jobs \ {j} : job'[i].at # "waiting" => job'[i].day \in Days /\ lock'[job'[i].day] = i
    BY <1>6, <2>2
  <2> QED BY <1>4, <1>6, <2>3 DEF HoldsDay
<1>10. ReadsStand'
  <2>1. \A i \in Jobs : /\ job'[i].at \in {"money", "plays"} => job'[i].money = MoneyOn(facts, job'[i].day)
                        /\ job'[i].at = "plays" => job'[i].plays = PlaysOn(facts, job'[i].day)
    BY <1>4, <1>5 DEF ReadsStand
  <2> QED BY <1>1, <2>1 DEF ReadsStand
<1>11. WrittenFits' /\ RowsAreBuilt' /\ Attributed(facts)'
  BY <1>1 DEF WrittenFits, Written, RowsAreBuilt, On
<1> QED BY <1>7, <1>8, <1>9, <1>10, <1>11

LEMMA ReadKeeps ==
    ASSUME StatInv, NEW j \in Jobs, ReadMoney(j) \/ ReadPlays(j)
    PROVE  StatInv'
<1> USE DEF StatInv
<1> DEFINE d == job[j].day
<1>1. job \in [Jobs -> Job] /\ job[j] \in Job /\ job[j].at # "waiting"
      /\ UNCHANGED <<facts, dirty, lock, workTx, daily>>
  BY DEF StatTyped, ReadMoney, ReadPlays
<1>2. MoneyOn(facts, d) \subseteq Stored /\ PlaysOn(facts, d) \subseteq Stored
  BY DEF MoneyOn, PlaysOn, On, StatTyped
<1>3. /\ job' \in [Jobs -> Job] /\ job'[j].day = d /\ job'[j].at \in {"money", "plays"}
      /\ \A i \in Jobs \ {j} : job'[i] = job[i]
      /\ job'[j].money = MoneyOn(facts, d) /\ (job'[j].at = "plays" => job'[j].plays = PlaysOn(facts, d))
  <2>1. CASE ReadMoney(j)
    <3> DEFINE m == MoneyOn(facts, d)
    <3>1. job' = [job EXCEPT ![j].at = "money", ![j].money = m]
      BY <2>1 DEF ReadMoney, MoneyOn, On
    <3> HIDE DEF m
    <3>2. job'[j] = [job[j] EXCEPT !.at = "money", !.money = m] /\ m \in SUBSET Stored
          /\ \A i \in Jobs \ {j} : job'[i] = job[i]
      BY <1>1, <1>2, <3>1 DEF m
    <3>3. /\ job'[j] \in Job /\ job'[j].day = job[j].day /\ job'[j].at = "money"
          /\ job'[j].money = m
      BY <1>1, <3>2 DEF Job
    <3>4. job' \in [Jobs -> Job]
      BY <1>1, <3>1, <3>3
    <3> QED BY <3>2, <3>3, <3>4 DEF m
  <2>2. CASE ReadPlays(j)
    <3> DEFINE p == PlaysOn(facts, d)
    <3>1. job' = [job EXCEPT ![j].at = "plays", ![j].plays = p] /\ job[j].at = "money"
      BY <2>2 DEF ReadPlays, PlaysOn, On
    <3> HIDE DEF p
    <3>2. job'[j] = [job[j] EXCEPT !.at = "plays", !.plays = p] /\ p \in SUBSET Stored
          /\ \A i \in Jobs \ {j} : job'[i] = job[i]
      BY <1>1, <1>2, <3>1 DEF p
    <3>3. /\ job'[j] \in Job /\ job'[j].day = job[j].day /\ job'[j].at = "plays"
          /\ job'[j].plays = p /\ job'[j].money = job[j].money
      BY <1>1, <3>2 DEF Job
    <3>4. job' \in [Jobs -> Job]
      BY <1>1, <3>1, <3>3
    <3>5. job[j].money = MoneyOn(facts, d)
      BY <3>1 DEF ReadsStand
    <3> QED BY <3>2, <3>3, <3>4, <3>5 DEF p
  <2> QED BY <2>1, <2>2
<1>4. StatTyped'
  BY <1>1, <1>3 DEF StatTyped
<1>5. HoldsDay'
  BY <1>1, <1>3 DEF HoldsDay
<1>6. ReadsStand'
  <2>2. ASSUME NEW i \in Jobs
        PROVE  /\ job'[i].at \in {"money", "plays"} => job'[i].money = MoneyOn(facts, job'[i].day)
               /\ job'[i].at = "plays" => job'[i].plays = PlaysOn(facts, job'[i].day)
    BY <1>3 DEF ReadsStand
  <2> QED BY <1>1, <2>2 DEF ReadsStand
<1>7. WrittenFits' /\ Marked' /\ RowsAreBuilt' /\ Attributed(facts)'
  BY <1>1 DEF WrittenFits, Written, Marked, RowsAreBuilt, On
<1> QED BY <1>4, <1>5, <1>6, <1>7

\* A job ends and leaves its day.
LEMMA EndOfJob ==
    ASSUME StatInv, NEW j \in Jobs, job[j].at # "waiting",
           lock' = [lock EXCEPT ![job[j].day] = NoFact], job' = [job EXCEPT ![j] = Waiting],
           UNCHANGED <<facts, workTx>>
    PROVE  /\ lock' \in [Days -> Writers \cup Jobs \cup {NoFact}] /\ job' \in [Jobs -> Job]
           /\ Marked' /\ HoldsDay' /\ ReadsStand' /\ WrittenFits' /\ Attributed(facts)'
<1> USE DEF StatInv
<1> DEFINE d == job[j].day
<1>1. /\ job \in [Jobs -> Job] /\ lock \in [Days -> Writers \cup Jobs \cup {NoFact}]
      /\ d \in Days /\ lock[d] = j
  BY DEF StatTyped, HoldsDay
<1>2. Waiting \in Job /\ Waiting.at = "waiting"
  BY DEF Waiting, Job
<1>3. /\ lock' \in [Days -> Writers \cup Jobs \cup {NoFact}] /\ job' \in [Jobs -> Job]
      /\ lock'[d] = NoFact /\ \A e \in Days \ {d} : lock'[e] = lock[e]
      /\ job'[j].at = "waiting" /\ \A i \in Jobs \ {j} : job'[i] = job[i]
  BY <1>1, <1>2
<1> HIDE DEF d
<1>4. Marked'
  <2>1. \A w \in Writers : w # j
    BY NothingIsStored
  <2>2. \A w \in Writers : workTx[w].fact # NoFact => workTx[w].fact.day \in Days
    BY WorkType, FactKinds, StoredAreFacts
  <2> QED BY <1>1, <1>3, <2>1, <2>2 DEF Marked
<1>5. HoldsDay'
  BY <1>1, <1>3 DEF HoldsDay
<1>6. ReadsStand'
  BY <1>3 DEF ReadsStand, MoneyOn, PlaysOn, On
<1>7. WrittenFits' /\ Attributed(facts)'
  BY DEF WrittenFits, Written
<1> QED BY <1>3, <1>4, <1>5, <1>6, <1>7

LEMMA RebuildKeeps ==
    ASSUME StatInv, NEW j \in Jobs, Rebuild(j)
    PROVE  StatInv'
<1> USE DEF StatInv
<1> DEFINE d == job[j].day
           rows == Build(job[j].money \cup job[j].plays)
<1>1. /\ job[j].at = "plays" /\ daily' = [daily EXCEPT ![d] = rows]
      /\ dirty' = dirty \ {d} /\ lock' = [lock EXCEPT ![d] = NoFact]
      /\ job' = [job EXCEPT ![j] = Waiting]
      /\ UNCHANGED <<facts, workTx>>
  BY DEF Rebuild
<1>2. /\ lock' \in [Days -> Writers \cup Jobs \cup {NoFact}] /\ job' \in [Jobs -> Job]
      /\ Marked' /\ HoldsDay' /\ ReadsStand' /\ WrittenFits' /\ Attributed(facts)'
  BY <1>1, EndOfJob
<1>3. job[j].money \cup job[j].plays = On(d)
  <2>1. job[j].money = MoneyOn(facts, d) /\ job[j].plays = PlaysOn(facts, d)
    BY <1>1 DEF ReadsStand
  <2> QED BY <2>1 DEF MoneyOn, PlaysOn, On
<1>4. rows = Build(On(d)) /\ rows \in DayRows
  <2>1. On(d) \in SUBSET facts /\ On(d) \subseteq Stored
    BY DEF On, StatTyped
  <2>2. IsFiniteSet(On(d))
    BY <2>1, FS_Subset DEF StatTyped
  <2> QED BY <1>3, <2>1, <2>2, BuiltRows
<1> HIDE DEF rows
<1>5. d \in Days /\ daily \in [Days -> DayRows \cup {NoFact}] /\ dirty \subseteq Days
  BY <1>1 DEF HoldsDay, StatTyped
<1>6. StatTyped'
  <2>1. daily' \in [Days -> DayRows \cup {NoFact}]
    BY <1>1, <1>4, <1>5
  <2> QED BY <1>1, <1>2, <1>5, <2>1 DEF StatTyped
<1>7. RowsAreBuilt'
  <2> SUFFICES ASSUME NEW e \in Days, e \notin dirty'
               PROVE  IF daily'[e] = NoFact THEN On(e) = {} ELSE daily'[e] = Build(On(e))
    <3>1. \A e : On(e)' = {f \in facts : f.day = e}
      BY <1>1 DEF On
    <3> QED BY <3>1 DEF RowsAreBuilt, On
  <2>1. CASE e = d
    BY <1>1, <1>4, <1>5, <2>1, NothingIsStored
  <2>2. CASE e # d
    BY <1>1, <1>5, <2>2 DEF RowsAreBuilt
  <2> QED BY <2>1, <2>2
<1> QED BY <1>2, <1>6, <1>7

LEMMA JobFailsKeeps ==
    ASSUME StatInv, NEW j \in Jobs, JobFails(j)
    PROVE  StatInv'
<1> USE DEF StatInv
<1>1. /\ job[j].at # "waiting" /\ lock' = [lock EXCEPT ![job[j].day] = NoFact]
      /\ job' = [job EXCEPT ![j] = Waiting]
      /\ UNCHANGED <<facts, dirty, workTx, daily>>
  BY DEF JobFails
<1>2. /\ lock' \in [Days -> Writers \cup Jobs \cup {NoFact}] /\ job' \in [Jobs -> Job]
      /\ Marked' /\ HoldsDay' /\ ReadsStand' /\ WrittenFits' /\ Attributed(facts)'
  BY <1>1, EndOfJob
<1>3. StatTyped' /\ RowsAreBuilt'
  BY <1>1, <1>2 DEF StatTyped, RowsAreBuilt, On
<1> QED BY <1>2, <1>3

\* The statements of a report.
Reads ==
    \/ \E from, to \in Days, v \in Versions \cup {NoFact} :
         LET range == {d \in Days : from <= d /\ d <= to}
         IN  ReadRoots(range, v) \/ AskRows(range, v)
    \/ ReadRows \/ ReadUsers \/ AnswerReport

LEMMA StatStep == StatInv /\ [StatNext]_statVars => StatInv'
<1> SUFFICES ASSUME StatInv, [StatNext]_statVars PROVE StatInv'
  OBVIOUS
<1>1. ASSUME NEW w \in Writers, NEW cmd \in Sales \cup Refunds \cup Plays, BeginWork(w, cmd)
      PROVE  StatInv'
  BY <1>1, BeginWorkKeeps DEF Commands
<1>2. ASSUME NEW w \in Writers,
             Attribute(w) \/ EnqueueRecent(w) \/ CommitWork(w) \/ AbortWork(w)
      PROVE  StatInv'
  BY <1>2, AttributeKeeps, EnqueueKeeps, CommitWorkKeeps, AbortWorkKeeps
<1>3. ASSUME NEW w \in Writers, NEW d \in Days, Mark(w, d) PROVE StatInv'
  BY <1>3, MarkKeeps
<1>4. ASSUME NEW j \in Jobs, NEW d \in Days, Claim(j, d) PROVE StatInv'
  BY <1>4, ClaimKeeps
<1>5. ASSUME NEW j \in Jobs, ReadMoney(j) \/ ReadPlays(j) \/ Rebuild(j) \/ JobFails(j)
      PROVE  StatInv'
  BY <1>5, ReadKeeps, RebuildKeeps, JobFailsKeeps
<1>6. CASE Reads \/ UNCHANGED statVars
  <2>1. UNCHANGED <<facts, dirty, lock, workTx, job, daily>>
    BY <1>6 DEF Reads, statVars, ReadRoots, AskRows, ReadRows, ReadUsers, AnswerReport
  <2>2. StatTyped'
    BY <2>1 DEF StatInv, StatTyped
  <2>3. WrittenFits' /\ Attributed(facts)'
    BY <2>1 DEF StatInv, WrittenFits, Written
  <2>4. Marked' /\ HoldsDay'
    BY <2>1 DEF StatInv, Marked, HoldsDay
  <2>5. ReadsStand' /\ RowsAreBuilt'
    BY <2>1 DEF StatInv, ReadsStand, RowsAreBuilt, MoneyOn, PlaysOn, On
  <2> QED BY <2>2, <2>3, <2>4, <2>5 DEF StatInv
<1> QED BY <1>1, <1>2, <1>3, <1>4, <1>5, <1>6 DEF StatNext, Reads

-----------------------------------------------------------------------------
(* A report under way *)

\* The days of its range of which no row has been replaced since its first statement and
\* none is pending.
Settled == report.range \ (dirty \cup report.overtaken)

ReportTyped ==
    /\ report.at \in {"none", "rows", "users", "pending"}
    /\ report.range \in SUBSET Days /\ report.overtaken \in SUBSET report.range
    /\ report.version \in Versions \cup {NoFact}
    /\ DOMAIN report.rows \subseteq report.range /\ report.roots \subseteq report.range

\* What each statement has read of a settled day is what the tables say of it.
RootsStand == \A d \in Settled \ report.roots : daily[d] = NoFact

RowsStand ==
    report.at \in {"users", "pending"} =>
      \A d \in Settled :
         /\ d \in DOMAIN report.rows <=> d \in RowsOf({d}, report.version)
         /\ d \in DOMAIN report.rows => report.rows[d] = Row(d, report.version)

UsersStand ==
    report.at = "pending" /\ Settled = report.range =>
      report.users = ActiveUsers(report.range, report.version)

ReportInv == ReportTyped /\ RootsStand /\ RowsStand /\ UsersStand

\* What a report does not read, and does not see written, leaves it as it stands.
LEMMA ReportStays ==
    ASSUME ReportInv, UNCHANGED <<daily, report>>, dirty \subseteq dirty'
    PROVE  ReportInv'
<1>1. Settled' \subseteq Settled /\ (Settled' = report'.range => Settled = report.range)
  BY DEF Settled
<1>2. \A d, v : /\ RowsOf({d}, v)' = RowsOf({d}, v) /\ Row(d, v)' = Row(d, v)
  BY DEF RowsOf, Row, Collected
<1>3. ActiveUsers(report.range, report.version)' = ActiveUsers(report.range, report.version)
  BY DEF ActiveUsers, ActiveOn, Collected
<1>4. ReportTyped'
  BY DEF ReportInv, ReportTyped
<1>5. RootsStand'
  BY <1>1 DEF ReportInv, RootsStand
<1>6. RowsStand'
  <2> SUFFICES ASSUME report.at \in {"users", "pending"}, NEW d \in Settled'
               PROVE  /\ d \in DOMAIN report.rows <=> d \in RowsOf({d}, report.version)
                      /\ d \in DOMAIN report.rows => report.rows[d] = Row(d, report.version)
    BY <1>2 DEF RowsStand
  <2>1. d \in Settled
    BY <1>1
  <2> QED BY <2>1 DEF ReportInv, RowsStand
<1>7. UsersStand'
  BY <1>1, <1>3 DEF ReportInv, UsersStand
<1> QED BY <1>4, <1>5, <1>6, <1>7 DEF ReportInv

\* A rebuilt day is settled no more for the report it overtakes.
LEMMA ReportOvertaken ==
    ASSUME StatTyped, ReportInv, NEW j \in Jobs, Rebuild(j)
    PROVE  ReportInv'
<1> DEFINE d == job[j].day
           rows == Build(job[j].money \cup job[j].plays)
<1>1. /\ daily' = [daily EXCEPT ![d] = rows] /\ dirty' = dirty \ {d}
      /\ report' = [report EXCEPT !.overtaken = @ \cup (report.range \cap {d})]
      /\ daily \in [Days -> DayRows \cup {NoFact}]
  BY DEF Rebuild, StatTyped
<1> HIDE DEF d, rows
<1>2. \A e \in Days : e # d => daily'[e] = daily[e]
  BY <1>1
<1>3. /\ report'.overtaken = report.overtaken \cup (report.range \cap {d})
      /\ report'.at = report.at /\ report'.range = report.range
      /\ report'.version = report.version /\ report'.rows = report.rows
      /\ report'.roots = report.roots /\ report'.users = report.users
  BY <1>1
<1>4. Settled' = Settled \ {d} /\ Settled \subseteq Days
  BY <1>1, <1>3 DEF Settled, ReportInv, ReportTyped
<1>5. \A e \in Settled' : /\ \A v : RowsOf({e}, v)' = RowsOf({e}, v) /\ Row(e, v)' = Row(e, v)
                          /\ daily'[e] = daily[e]
  BY <1>2, <1>4 DEF RowsOf, Row, Collected
<1>6. ReportTyped'
  BY <1>3 DEF ReportInv, ReportTyped
<1>7. RootsStand'
  BY <1>3, <1>4, <1>5 DEF ReportInv, RootsStand
<1>8. RowsStand'
  <2> SUFFICES ASSUME report.at \in {"users", "pending"}, NEW e \in Settled'
               PROVE  /\ e \in DOMAIN report.rows <=> e \in RowsOf({e}, report.version)'
                      /\ e \in DOMAIN report.rows => report.rows[e] = Row(e, report.version)'
    BY <1>3 DEF RowsStand
  <2>1. /\ RowsOf({e}, report.version)' = RowsOf({e}, report.version)
        /\ Row(e, report.version)' = Row(e, report.version)
    BY <1>3, <1>5 DEF RowsOf, Row, Collected
  <2>2. e \in Settled
    BY <1>4
  <2> QED BY <2>1, <2>2 DEF ReportInv, RowsStand
<1>9. UsersStand'
  <2> SUFFICES ASSUME report.at = "pending", Settled' = report.range
               PROVE  report.users = ActiveUsers(report.range, report.version)'
    BY <1>3 DEF UsersStand
  <2>0. Settled \subseteq report.range
    BY DEF Settled
  <2>1. d \notin report.range /\ Settled = report.range
    BY <1>4, <2>0
  <2>2. \A e \in report.range : daily'[e] = daily[e]
    BY <1>2, <1>4, <2>1
  <2>3. ActiveUsers(report.range, report.version)' = ActiveUsers(report.range, report.version)
    <3>1. Collected(report.range)' = Collected(report.range) /\ Collected(report.range) \subseteq report.range
      BY <1>3, <2>2 DEF Collected
    <3>2. \A e \in report.range : ActiveOn(e, report.version)' = ActiveOn(e, report.version)
      BY <1>3, <2>2 DEF ActiveOn
    <3> QED BY <3>1, <3>2 DEF ActiveUsers
  <2> QED BY <2>1, <2>3 DEF ReportInv, UsersStand
<1> QED BY <1>6, <1>7, <1>8, <1>9 DEF ReportInv

\* Daily rows are read as they are.
LEMMA RowsAreRead ==
    ASSUME NEW q, q.range \in SUBSET Days, q.version \in Versions \cup {NoFact},
           q.overtaken \in SUBSET q.range, q.roots \subseteq q.range,
           \A d \in q.range \ (dirty \cup q.overtaken \cup q.roots) : daily[d] = NoFact,
           report'.at = "users", report'.range = q.range, report'.version = q.version,
           report'.roots = q.roots, report'.overtaken = q.overtaken,
           report'.rows = [d \in RowsOf(q.range, q.version) |-> Row(d, q.version)],
           UNCHANGED <<dirty, daily>>
    PROVE  ReportInv'
<1> DEFINE rows == [d \in RowsOf(q.range, q.version) |-> Row(d, q.version)]
<1>1. /\ report'.at = "users" /\ report'.range = q.range /\ report'.version = q.version
      /\ report'.roots = q.roots /\ report'.rows = rows /\ report'.overtaken = q.overtaken
  OBVIOUS
<1>2. DOMAIN rows \subseteq q.range
  BY DEF RowsOf, Collected
<1>3. \A d \in q.range : /\ d \in DOMAIN rows <=> d \in RowsOf({d}, q.version)'
                         /\ d \in DOMAIN rows => rows[d] = Row(d, q.version)'
  BY DEF RowsOf, Row, Collected
<1> HIDE DEF rows
<1>4. ReportTyped'
  BY <1>1, <1>2 DEF ReportTyped
<1>5. RootsStand'
  BY <1>1 DEF RootsStand, Settled
<1>6. RowsStand'
  BY <1>1, <1>3 DEF RowsStand, Settled
<1>7. UsersStand'
  BY <1>1 DEF UsersStand
<1> QED BY <1>4, <1>5, <1>6, <1>7 DEF ReportInv

LEMMA ReportReads ==
    ASSUME ReportInv, Reads
    PROVE  ReportInv'
<1>1. ASSUME NEW range \in SUBSET Days, NEW v \in Versions \cup {NoFact}, ReadRoots(range, v)
      PROVE  ReportInv'
  <2>1. /\ report'.at = "rows" /\ report'.range = range /\ report'.version = v
        /\ report'.roots = Collected(range) /\ report'.overtaken = {} /\ report'.rows = <<>>
        /\ UNCHANGED <<dirty, daily>>
    BY <1>1 DEF ReadRoots, Asked, NoReport
  <2>2. Collected(range) \subseteq range /\ DOMAIN <<>> = {}
    BY DEF Collected
  <2>3. \A d \in range \ Collected(range) : daily'[d] = NoFact
    BY <2>1 DEF Collected
  <2>4. ReportTyped'
    BY <2>1, <2>2 DEF ReportTyped
  <2>5. RootsStand'
    BY <2>1, <2>3 DEF RootsStand, Settled
  <2> QED BY <2>1, <2>4, <2>5 DEF ReportInv, RowsStand, UsersStand
<1>2. ASSUME NEW range \in SUBSET Days, NEW v \in Versions \cup {NoFact}, AskRows(range, v)
      PROVE  ReportInv'
  <2> DEFINE q == Asked(range, v)
  <2>1. q.range = range /\ q.version = v /\ q.roots = range /\ q.overtaken = {}
    BY DEF Asked, NoReport
  <2>2. /\ report'.at = "users" /\ report'.range = range /\ report'.version = v
        /\ report'.roots = range /\ report'.overtaken = {}
        /\ report'.rows = [d \in RowsOf(range, v) |-> Row(d, v)] /\ UNCHANGED <<dirty, daily>>
    BY <1>2 DEF AskRows, WithRows, Asked, NoReport
  <2> HIDE DEF q
  <2> QED BY <2>1, <2>2, RowsAreRead
<1>3. CASE ReadRows
  <2>1. /\ report'.at = "users" /\ report'.range = report.range
        /\ report'.version = report.version /\ report'.roots = report.roots
        /\ report'.overtaken = report.overtaken /\ UNCHANGED <<dirty, daily>>
        /\ report'.rows = [d \in RowsOf(report.range, report.version) |-> Row(d, report.version)]
    BY <1>3 DEF ReadRows, WithRows
  <2>2. /\ report.range \in SUBSET Days /\ report.version \in Versions \cup {NoFact}
        /\ report.overtaken \in SUBSET report.range /\ report.roots \subseteq report.range
        /\ \A d \in report.range \ (dirty \cup report.overtaken \cup report.roots) : daily[d] = NoFact
    BY DEF ReportInv, ReportTyped, RootsStand, Settled
  <2> QED BY <2>1, <2>2, RowsAreRead
<1>4. CASE ReadUsers
  <2> DEFINE users == ActiveUsers(report.range, report.version)
  <2>1. report.at = "users" /\ UNCHANGED <<dirty, daily>>
        /\ report' = [report EXCEPT !.at = "pending", !.users = users]
    BY <1>4 DEF ReadUsers
  <2> HIDE DEF users
  <2>2. /\ report'.at = "pending" /\ report'.range = report.range
        /\ report'.version = report.version /\ report'.roots = report.roots
        /\ report'.overtaken = report.overtaken /\ report'.rows = report.rows
        /\ report'.users = users
    BY <2>1 DEF ReportInv, ReportTyped
  <2>3. Settled' = Settled
    BY <2>1, <2>2 DEF Settled
  <2>4. ReportTyped' /\ RootsStand'
    BY <2>1, <2>2, <2>3 DEF ReportInv, ReportTyped, RootsStand
  <2>5. RowsStand'
    BY <2>1, <2>2, <2>3 DEF ReportInv, RowsStand, RowsOf, Row, Collected
  <2>6. UsersStand'
    BY <2>1, <2>2 DEF UsersStand, users, ActiveUsers, ActiveOn, Collected
  <2> QED BY <2>4, <2>5, <2>6 DEF ReportInv
<1>5. CASE AnswerReport
  <2>1. report' = NoReport /\ DOMAIN <<>> = {}
    BY <1>5 DEF AnswerReport
  <2> QED BY <2>1 DEF NoReport, ReportInv, ReportTyped, RootsStand, RowsStand, UsersStand, Settled
<1> QED BY <1>1, <1>2, <1>3, <1>4, <1>5 DEF Reads

LEMMA ReportStep == StatInv /\ ReportInv /\ [StatNext]_statVars => ReportInv'
<1> SUFFICES ASSUME StatInv, ReportInv, [StatNext]_statVars PROVE ReportInv'
  OBVIOUS
<1>1. CASE Reads
  BY <1>1, ReportReads
<1>2. ASSUME NEW j \in Jobs, Rebuild(j) PROVE ReportInv'
  BY <1>2, ReportOvertaken DEF StatInv
<1>3. CASE UNCHANGED <<daily, report>> /\ dirty \subseteq dirty'
  BY <1>3, ReportStays
<1>4. ASSUME NEW w \in Writers, NEW cmd, BeginWork(w, cmd)
      PROVE  UNCHANGED <<daily, report>> /\ dirty \subseteq dirty'
  BY <1>4 DEF BeginWork
<1>5. ASSUME NEW w \in Writers,
             Attribute(w) \/ EnqueueRecent(w) \/ CommitWork(w) \/ AbortWork(w)
      PROVE  UNCHANGED <<daily, report>> /\ dirty \subseteq dirty'
  BY <1>5 DEF Attribute, EnqueueRecent, CommitWork, AbortWork
<1>6. ASSUME NEW w \in Writers, NEW d \in Days, Mark(w, d)
      PROVE  UNCHANGED <<daily, report>> /\ dirty \subseteq dirty'
  BY <1>6 DEF Mark
<1>7. ASSUME NEW j \in Jobs, ReadMoney(j) \/ ReadPlays(j) \/ JobFails(j)
                             \/ \E d \in Days : Claim(j, d)
      PROVE  UNCHANGED <<daily, report>> /\ dirty \subseteq dirty'
  BY <1>7 DEF Claim, ReadMoney, ReadPlays, JobFails
<1>8. UNCHANGED statVars => UNCHANGED <<daily, report>> /\ dirty \subseteq dirty'
  BY DEF statVars
<1> QED BY <1>1, <1>2, <1>3, <1>4, <1>5, <1>6, <1>7, <1>8 DEF StatNext, Reads

LEMMA ReportInitInv == StatInit => ReportInv
<1> SUFFICES ASSUME StatInit PROVE ReportInv
  OBVIOUS
<1>1. report = NoReport /\ DOMAIN <<>> = {}
  BY DEF StatInit
<1> QED BY <1>1 DEF NoReport, ReportInv, ReportTyped, RootsStand, RowsStand, UsersStand, Settled

-----------------------------------------------------------------------------
(* What the invariant says of facts *)

\* The facts of a version on a day.
CountedAt(fs, d, v) == {f \in fs : f.day = d /\ f.version = v}

\* A version's refunds of a day are refunds of its sales of that day.
LEMMA RefundsWithinSales ==
    ASSUME NEW fs, fs \subseteq Stored, IsFiniteSet(fs), Attributed(fs), NEW d, NEW v
    PROVE  TotalAmount(FactsOfKind(CountedAt(fs, d, v), "refund"))
             <= TotalAmount(FactsOfKind(CountedAt(fs, d, v), "sale"))
<1> USE DEF CountedAt
<1> DEFINE sold == CountedAt(fs, d, v)
           S == FactsOfKind(sold, "sale")
           R == FactsOfKind(sold, "refund")
           X == [s \in S |-> RefundsIn(fs, s.key)]
           t == [s \in S |-> TotalAmount(RefundsIn(fs, s.key))]
<1>1. /\ S \subseteq fs /\ R \subseteq fs /\ S \subseteq Facts /\ R \subseteq Facts
      /\ IsFiniteSet(S) /\ IsFiniteSet(R)
  <2>1. S \in SUBSET fs /\ R \in SUBSET fs
    BY DEF FactsOfKind
  <2> HIDE DEF S, R
  <2> QED BY <2>1, FS_Subset, StoredAreFacts
<1>2. \A s \in S : /\ RefundsIn(fs, s.key) \subseteq Facts /\ IsFiniteSet(RefundsIn(fs, s.key))
                   /\ TotalAmount(RefundsIn(fs, s.key)) = Sum(AmountOf, RefundsIn(fs, s.key))
                   /\ TotalAmount(RefundsIn(fs, s.key)) \in Nat
  <2> SUFFICES ASSUME NEW s \in S
               PROVE  /\ RefundsIn(fs, s.key) \subseteq Facts /\ IsFiniteSet(RefundsIn(fs, s.key))
                      /\ TotalAmount(RefundsIn(fs, s.key)) = Sum(AmountOf, RefundsIn(fs, s.key))
                      /\ TotalAmount(RefundsIn(fs, s.key)) \in Nat
    OBVIOUS
  <2>1. RefundsIn(fs, s.key) \in SUBSET fs
    BY DEF RefundsIn, FactsOfKind
  <2>2. RefundsIn(fs, s.key) \subseteq Facts /\ IsFiniteSet(RefundsIn(fs, s.key))
    BY <2>1, StoredAreFacts, FS_Subset
  <2> QED BY <2>2, TotalIsSum
<1>3. \A a, b \in S : a # b => X[a] \cap X[b] = {}
  <2>1. \A a, b \in S : a # b => a.key # b.key
    BY <1>1 DEF Attributed
  <2> HIDE DEF S
  <2> QED BY <2>1 DEF RefundsIn
<1>4. Whole(X, S) = R
  <2>1. ASSUME NEW f \in Whole(X, S) PROVE f \in R
    <3>1. PICK s \in S : f \in X[s]
      BY <2>1 DEF Whole
    <3>2. f \in fs /\ f.kind = "refund" /\ f.of = s.key
      BY <3>1 DEF RefundsIn, FactsOfKind
    <3>3. PICK z \in fs : IsSaleOf(z, f)
      BY <3>2 DEF Attributed
    <3>4. z = s
      BY <1>1, <3>2, <3>3 DEF Attributed, IsSaleOf
    <3>5. s.day = d /\ s.version = v
      BY DEF FactsOfKind
    <3> QED BY <3>2, <3>3, <3>4, <3>5 DEF FactsOfKind, IsSaleOf
  <2>2. ASSUME NEW f \in R PROVE f \in Whole(X, S)
    <3>1. f \in fs /\ f.kind = "refund" /\ f.day = d /\ f.version = v
      BY DEF FactsOfKind
    <3>2. PICK s \in fs : IsSaleOf(s, f)
      BY <3>1 DEF Attributed
    <3>3. s \in S
      BY <3>1, <3>2 DEF IsSaleOf, FactsOfKind
    <3>4. f \in X[s]
      BY <3>1, <3>2, <3>3 DEF IsSaleOf, RefundsIn, FactsOfKind
    <3> HIDE DEF X, S
    <3> QED BY <3>3, <3>4 DEF Whole
  <2> HIDE DEF X, S, R
  <2> QED BY <2>1, <2>2
<1>5. \A s \in S : IsFiniteSet(X[s]) /\ t[s] = Sum(AmountOf, X[s])
  <2> HIDE DEF S
  <2> QED BY <1>2
<1>6. \A s \in S : \A x \in X[s] : AmountOf[x] \in Int
  <2>1. \A x \in Facts : AmountOf[x] \in Int
    BY FactKinds DEF AmountOf
  <2> HIDE DEF S
  <2> QED BY <1>2, <2>1
<1>7. \A s \in S : t[s] \in Int /\ AmountOf[s] \in Int /\ t[s] <= AmountOf[s]
  <2>1. \A s \in S : AmountOf[s] = s.amount /\ AmountOf[s] \in Int
    <3> HIDE DEF S
    <3> QED BY <1>1, FactKinds DEF AmountOf
  <2>2. \A s \in S : s \in fs /\ s.kind = "sale"
    BY DEF FactsOfKind
  <2>3. \A s \in S : TotalAmount(RefundsIn(fs, s.key)) <= s.amount
    BY <2>2 DEF Attributed
  <2> HIDE DEF S
  <2> QED BY <1>2, <2>1, <2>3
<1> HIDE DEF X, t, S, R
<1>8. Sum(t, S) = Sum(AmountOf, Whole(X, S))
  BY <1>1, <1>3, <1>5, <1>6, SumOfSums
<1>9. Sum(t, S) <= Sum(AmountOf, S)
  BY <1>1, <1>7, SumRises
<1>10. TotalAmount(R) = Sum(AmountOf, R) /\ TotalAmount(S) = Sum(AmountOf, S)
  BY <1>1, TotalIsSum
<1> QED BY <1>4, <1>8, <1>9, <1>10 DEF S, R

LEMMA SoundFacts == StatInv /\ ReportInv => FactsAreSound
<1> SUFFICES ASSUME StatInv, ReportInv PROVE FactsAreSound
  OBVIOUS
<1>1. StatTyped /\ Attributed(facts) /\ facts \subseteq Stored /\ IsFiniteSet(facts)
  BY DEF StatInv, StatTyped
<1>2. StatTypeOK
  <2>1. \A w \in Writers : workTx[w].todo \subseteq Days /\ workTx[w].fact \in Facts \cup {NoFact}
    BY <1>1, WorkType, StoredAreFacts
  <2>2. \A j \in Jobs : job[j].day \in Days \cup {NoFact}
    BY <1>1, JobType
  <2> QED BY <1>1, <2>1, <2>2, StoredAreFacts DEF StatTypeOK, StatTyped, ReportInv, ReportTyped
<1>3. \A p \in Payments : TotalAmount(SalesOf(p)) <= PaymentAmount[p]
  <2>1. \A p : SalesOf(p) = SalesIn(facts, p)
    BY DEF SalesOf, SalesIn
  <2> QED BY <1>1, <2>1 DEF Attributed
<1>4. \A sale \in FactsOfKind(facts, "sale") : TotalAmount(RefundsOf(sale.key)) <= sale.amount
  <2>1. \A k : RefundsOf(k) = RefundsIn(facts, k)
    BY DEF RefundsOf, RefundsIn
  <2> QED BY <1>1, <2>1 DEF Attributed, FactsOfKind
<1>5. ASSUME NEW d \in Days, NEW v \in Versions
      PROVE  TotalAmount(FactsOfKind(OfVersion(On(d), v), "refund"))
               <= TotalAmount(FactsOfKind(OfVersion(On(d), v), "sale"))
  <2>1. OfVersion(On(d), v) = CountedAt(facts, d, v)
    BY DEF OfVersion, On, CountedAt
  <2> QED BY <1>1, <2>1, RefundsWithinSales
<1> QED BY <1>2, <1>3, <1>4, <1>5 DEF FactsAreSound, NothingOverAttributed

-----------------------------------------------------------------------------
(* What the invariant says of reports *)

\* The facts of the range that a report on v is about, and those of one day.
About(range, v) == {f \in facts : f.day \in range /\ v \in {NoFact, f.version}}
AboutOn(d, v) == {f \in facts : f.day = d /\ v \in {NoFact, f.version}}

LEMMA RowCountsDay ==
    ASSUME StatInv, NEW range \in SUBSET (Days \ dirty), NEW v \in Versions \cup {NoFact}
    PROVE  /\ \A d \in RowsOf(range, v) : Row(d, v) = Metrics(AboutOn(d, v))
           /\ \A d \in range \ RowsOf(range, v) : AboutOn(d, v) = {}
           /\ ActiveUsers(range, v) = Cardinality(UsersOf(About(range, v)))
<1>1. /\ facts \subseteq Stored /\ IsFiniteSet(facts) /\ daily \in [Days -> DayRows \cup {NoFact}]
  BY DEF StatInv, StatTyped
<1>2. \A d \in Days : On(d) \subseteq Stored /\ IsFiniteSet(On(d))
  <2>1. \A d \in Days : On(d) \in SUBSET facts
    BY DEF On
  <2> QED BY <1>1, <2>1, FS_Subset
<1>3. \A d \in Collected(range) : /\ d \in Days /\ daily[d] = Build(On(d))
                                  /\ daily[d].total = Metrics(On(d))
                                  /\ daily[d].versions = [u \in VersionsOf(On(d)) |-> Metrics(OfVersion(On(d), u))]
                                  /\ daily[d].users = UsersOf(On(d))
                                  /\ daily[d].active = {<<f.version, f.user>> : f \in FactsOfKind(On(d), "succeeded")}
  <2> SUFFICES ASSUME NEW d \in Collected(range)
               PROVE  /\ d \in Days /\ daily[d] = Build(On(d))
                      /\ daily[d].total = Metrics(On(d))
                      /\ daily[d].versions = [u \in VersionsOf(On(d)) |-> Metrics(OfVersion(On(d), u))]
                      /\ daily[d].users = UsersOf(On(d))
                      /\ daily[d].active = {<<f.version, f.user>> : f \in FactsOfKind(On(d), "succeeded")}
    OBVIOUS
  <2>1. d \in Days \ dirty /\ daily[d] # NoFact
    BY DEF Collected
  <2>2. daily[d] = Build(On(d))
    BY <2>1 DEF StatInv, RowsAreBuilt
  <2>3. Build(On(d)).users = UsersOf(On(d))
        /\ Build(On(d)).active = {<<f.version, f.user>> : f \in FactsOfKind(On(d), "succeeded")}
    BY DEF Build
  <2> QED BY <1>2, <2>1, <2>2, <2>3, BuiltRows
<1>4. \A d \in range \ Collected(range) : On(d) = {}
  BY DEF Collected, StatInv, RowsAreBuilt
<1>5. NoFact \notin Versions
  BY NoFactAssumption
<1>6. \A d \in RowsOf(range, v) : Row(d, v) = Metrics(AboutOn(d, v))
  <2> SUFFICES ASSUME NEW d \in RowsOf(range, v) PROVE Row(d, v) = Metrics(AboutOn(d, v))
    OBVIOUS
  <2>1. d \in Collected(range)
    BY DEF RowsOf
  <2>2. CASE v = NoFact
    <3>1. AboutOn(d, v) = On(d)
      BY <2>2 DEF AboutOn, On
    <3> QED BY <1>3, <2>1, <2>2, <3>1 DEF Row
  <2>3. CASE v # NoFact
    <3>1. AboutOn(d, v) = OfVersion(On(d), v)
      BY <2>3 DEF AboutOn, On, OfVersion
    <3>2. v \in VersionsOf(On(d))
      BY <1>3, <2>1, <2>3 DEF RowsOf
    <3>3. daily[d].versions = [u \in VersionsOf(On(d)) |-> Metrics(OfVersion(On(d), u))]
      BY <1>3, <2>1
    <3>4. daily[d].versions[v] = Metrics(OfVersion(On(d), v))
      BY <3>2, <3>3
    <3> QED BY <2>3, <3>1, <3>4 DEF Row
  <2> QED BY <2>2, <2>3
<1>7. \A d \in range \ RowsOf(range, v) : AboutOn(d, v) = {}
  <2> SUFFICES ASSUME NEW d \in range \ RowsOf(range, v) PROVE AboutOn(d, v) = {}
    OBVIOUS
  <2>1. CASE d \notin Collected(range)
    BY <1>4, <2>1 DEF AboutOn, On
  <2>2. CASE d \in Collected(range)
    <3>1. v # NoFact /\ v \notin VersionsOf(On(d))
      BY <1>3, <2>2 DEF RowsOf
    <3> QED BY <3>1 DEF AboutOn, On, VersionsOf
  <2> QED BY <2>1, <2>2
<1>8. UNION {ActiveOn(d, v) : d \in Collected(range)} = UsersOf(About(range, v))
  <2> DEFINE A == UNION {ActiveOn(d, v) : d \in Collected(range)}
  <2>1. ASSUME NEW d \in Collected(range)
        PROVE  ActiveOn(d, v) = UsersOf(AboutOn(d, v))
    <3>1. CASE v = NoFact
      <4>1. AboutOn(d, v) = On(d)
        BY <3>1 DEF AboutOn, On
      <4> QED BY <1>3, <3>1, <4>1 DEF ActiveOn
    <3>2. CASE v # NoFact
      <4>1. AboutOn(d, v) = OfVersion(On(d), v)
        BY <3>2 DEF AboutOn, On, OfVersion
      <4>2. \A u : u \in ActiveOn(d, v) <=> u \in Players /\ \E f \in FactsOfKind(On(d), "succeeded") :
                                                 f.version = v /\ f.user = u
        <5>1. \A u : u \in ActiveOn(d, v) <=> u \in Players /\ <<v, u>> \in daily[d].active
          BY <3>2 DEF ActiveOn
        <5>2. daily[d].active = {<<f.version, f.user>> : f \in FactsOfKind(On(d), "succeeded")}
          BY <1>3
        <5>3. \A u : <<v, u>> \in daily[d].active <=> \E f \in FactsOfKind(On(d), "succeeded") :
                                                         f.version = v /\ f.user = u
          BY <5>2
        <5> QED BY <5>1, <5>3
      <4>3. \A f \in FactsOfKind(On(d), "succeeded") : f.user \in Players
        BY <1>2, <1>3, FactKinds DEF FactsOfKind
      <4>4. \A u : u \in UsersOf(OfVersion(On(d), v)) <=>
                     \E f \in FactsOfKind(On(d), "succeeded") : f.version = v /\ f.user = u
        BY DEF UsersOf, OfVersion, FactsOfKind
      <4> QED BY <4>1, <4>2, <4>3, <4>4
    <3> QED BY <3>1, <3>2
  <2>2. \A u : u \in A <=> \E d \in Collected(range) : u \in UsersOf(AboutOn(d, v))
    BY <2>1
  <2>3. \A u : u \in UsersOf(About(range, v)) <=> \E d \in range : u \in UsersOf(AboutOn(d, v))
    BY DEF UsersOf, About, AboutOn, FactsOfKind
  <2>4. \A d \in range : UsersOf(AboutOn(d, v)) # {} => d \in Collected(range)
    BY <1>4 DEF UsersOf, AboutOn, On, FactsOfKind
  <2>5. Collected(range) \subseteq range
    BY DEF Collected
  <2> HIDE DEF A
  <2>6. \A u : u \in A <=> u \in UsersOf(About(range, v))
    BY <2>2, <2>3, <2>4, <2>5
  <2> QED BY <2>6 DEF A
<1> QED BY <1>6, <1>7, <1>8 DEF ActiveUsers

\* The facts of one kind that a report is about, day by day.
KindOn(rows, v, k) == [d \in rows |-> FactsOfKind(AboutOn(d, v), k)]

LEMMA KindByDay ==
    ASSUME StatInv, NEW range \in SUBSET Days, NEW v, NEW rows \in SUBSET range,
           \A d \in range \ rows : AboutOn(d, v) = {}, NEW k
    PROVE  /\ IsFiniteSet(rows)
           /\ \A d \in rows : /\ IsFiniteSet(KindOn(rows, v, k)[d])
                              /\ KindOn(rows, v, k)[d] \subseteq Facts
                              /\ KindOn(rows, v, k)[d] = FactsOfKind(AboutOn(d, v), k)
           /\ \A d, e \in rows : d # e => KindOn(rows, v, k)[d] \cap KindOn(rows, v, k)[e] = {}
           /\ Whole(KindOn(rows, v, k), rows) = FactsOfKind(About(range, v), k)
           /\ IsFiniteSet(FactsOfKind(About(range, v), k))
           /\ FactsOfKind(About(range, v), k) \subseteq Facts
<1> DEFINE X == KindOn(rows, v, k)
<1>1. facts \subseteq Stored /\ IsFiniteSet(facts)
  BY DEF StatInv, StatTyped
<1>2. IsFiniteSet(rows)
  <2>1. IsFiniteSet(Days) /\ rows \in SUBSET Days
    BY StatisticsAssumption
  <2> QED BY <2>1, FS_Subset
<1>3. \A d \in rows : IsFiniteSet(X[d]) /\ X[d] \subseteq Facts /\ X[d] = FactsOfKind(AboutOn(d, v), k)
  <2> SUFFICES ASSUME NEW d \in rows
               PROVE  IsFiniteSet(X[d]) /\ X[d] \subseteq Facts /\ X[d] = FactsOfKind(AboutOn(d, v), k)
    OBVIOUS
  <2>1. X[d] = FactsOfKind(AboutOn(d, v), k) /\ X[d] \in SUBSET facts
    BY DEF KindOn, FactsOfKind, AboutOn
  <2> HIDE DEF X
  <2> QED BY <1>1, <2>1, FS_Subset, StoredAreFacts
<1>4. \A d, e \in rows : d # e => X[d] \cap X[e] = {}
  BY DEF KindOn, FactsOfKind, AboutOn
<1>5. Whole(X, rows) = FactsOfKind(About(range, v), k)
  <2>1. ASSUME NEW f \in Whole(X, rows) PROVE f \in FactsOfKind(About(range, v), k)
    BY <2>1 DEF Whole, KindOn, FactsOfKind, About, AboutOn
  <2>2. ASSUME NEW f \in FactsOfKind(About(range, v), k) PROVE f \in Whole(X, rows)
    <3>1. f \in AboutOn(f.day, v) /\ f.day \in range /\ f.kind = k
      BY <2>2 DEF FactsOfKind, About, AboutOn
    <3>2. f.day \in rows
      BY <3>1
    <3>3. f \in X[f.day]
      BY <3>1, <3>2 DEF KindOn, FactsOfKind
    <3> HIDE DEF X
    <3> QED BY <3>2, <3>3 DEF Whole
  <2> HIDE DEF X
  <2> QED BY <2>1, <2>2
<1>6. FactsOfKind(About(range, v), k) \in SUBSET facts
  BY DEF FactsOfKind, About
<1>7. IsFiniteSet(FactsOfKind(About(range, v), k)) /\ FactsOfKind(About(range, v), k) \subseteq Facts
  BY <1>1, <1>6, FS_Subset, StoredAreFacts
<1> QED BY <1>2, <1>3, <1>4, <1>5, <1>7

\* Added up over days, amounts are the amounts of the period,
LEMMA AmountsAddUp ==
    ASSUME StatInv, NEW range \in SUBSET Days, NEW v, NEW rows \in SUBSET range,
           \A d \in range \ rows : AboutOn(d, v) = {}, NEW k, NEW t, DOMAIN t = rows,
           \A d \in rows : t[d] = TotalAmount(FactsOfKind(AboutOn(d, v), k))
    PROVE  SumFunction(t) = TotalAmount(FactsOfKind(About(range, v), k))
<1> DEFINE X == KindOn(rows, v, k)
           W == FactsOfKind(About(range, v), k)
<1>1. /\ IsFiniteSet(rows)
      /\ \A d \in rows : /\ IsFiniteSet(X[d]) /\ X[d] \subseteq Facts
                         /\ X[d] = FactsOfKind(AboutOn(d, v), k)
      /\ \A d, e \in rows : d # e => X[d] \cap X[e] = {}
      /\ Whole(X, rows) = W /\ IsFiniteSet(W) /\ W \subseteq Facts
  BY KindByDay
<1>2. SumFunction(t) = Sum(t, rows)
  BY SumOfFunction
<1> HIDE DEF X, W
<1>3. \A d \in rows : IsFiniteSet(X[d]) /\ t[d] = Sum(AmountOf, X[d])
  BY <1>1, TotalIsSum
<1>4. \A d \in rows : \A x \in X[d] : AmountOf[x] \in Int
  BY <1>1, FactKinds DEF AmountOf
<1>5. Sum(t, rows) = Sum(AmountOf, Whole(X, rows))
  BY <1>1, <1>3, <1>4, SumOfSums
<1>6. TotalAmount(W) = Sum(AmountOf, W)
  BY <1>1, TotalIsSum
<1> QED BY <1>1, <1>2, <1>5, <1>6 DEF W

\* and counts count the period.
LEMMA CountsAddUp ==
    ASSUME StatInv, NEW range \in SUBSET Days, NEW v, NEW rows \in SUBSET range,
           \A d \in range \ rows : AboutOn(d, v) = {}, NEW k, NEW t, DOMAIN t = rows,
           \A d \in rows : t[d] = Cardinality(FactsOfKind(AboutOn(d, v), k))
    PROVE  SumFunction(t) = Cardinality(FactsOfKind(About(range, v), k))
<1> DEFINE X == KindOn(rows, v, k)
           W == FactsOfKind(About(range, v), k)
<1>1. /\ IsFiniteSet(rows)
      /\ \A d \in rows : /\ IsFiniteSet(X[d]) /\ X[d] \subseteq Facts
                         /\ X[d] = FactsOfKind(AboutOn(d, v), k)
      /\ \A d, e \in rows : d # e => X[d] \cap X[e] = {}
      /\ Whole(X, rows) = W /\ IsFiniteSet(W) /\ W \subseteq Facts
  BY KindByDay
<1>2. SumFunction(t) = Sum(t, rows)
  BY SumOfFunction
<1> HIDE DEF X, W
<1>3. \A d \in rows : IsFiniteSet(X[d]) /\ t[d] = Cardinality(X[d])
  BY <1>1
<1>4. Sum(t, rows) = Cardinality(Whole(X, rows))
  BY <1>1, <1>3, CardOfParts
<1> QED BY <1>1, <1>2, <1>4 DEF W

\* No payment is counted on two days: its sales are of one day.
LEMMA PaymentsAddUp ==
    ASSUME StatInv, NEW range \in SUBSET Days, NEW v, NEW rows \in SUBSET range,
           \A d \in range \ rows : AboutOn(d, v) = {}, NEW t, DOMAIN t = rows,
           \A d \in rows : t[d] = Cardinality(PaymentsOf(AboutOn(d, v)))
    PROVE  SumFunction(t) = Cardinality(PaymentsOf(About(range, v)))
<1> DEFINE X == [d \in rows |-> PaymentsOf(AboutOn(d, v))]
<1>1. IsFiniteSet(rows)
  BY KindByDay
<1>2. SumFunction(t) = Sum(t, rows)
  BY SumOfFunction
<1>3. \A d \in rows : IsFiniteSet(X[d]) /\ t[d] = Cardinality(X[d])
  <2> SUFFICES ASSUME NEW d \in rows PROVE IsFiniteSet(X[d])
    OBVIOUS
  <2>1. AboutOn(d, v) \in SUBSET facts /\ facts \subseteq Stored /\ IsFiniteSet(facts)
    BY DEF AboutOn, StatInv, StatTyped
  <2>2. AboutOn(d, v) \subseteq Stored /\ IsFiniteSet(AboutOn(d, v))
    BY <2>1, FS_Subset
  <2> QED BY <2>2, FieldsAreFinite
<1>4. \A d, e \in rows : d # e => X[d] \cap X[e] = {}
  <2>1. \A f, g \in facts : f.kind = "sale" /\ g.kind = "sale" /\ f.of = g.of => f.day = g.day
    BY DEF StatInv, Attributed
  <2> QED BY <2>1 DEF PaymentsOf, FactsOfKind, AboutOn
<1>5. Whole(X, rows) = PaymentsOf(About(range, v))
  <2>1. \A p : p \in Whole(X, rows) <=> \E d \in rows : p \in PaymentsOf(AboutOn(d, v))
    BY DEF Whole
  <2>2. \A p : p \in PaymentsOf(About(range, v)) <=> \E d \in range : p \in PaymentsOf(AboutOn(d, v))
    BY DEF PaymentsOf, FactsOfKind, About, AboutOn
  <2>3. \A d \in range \ rows : PaymentsOf(AboutOn(d, v)) = {}
    BY DEF PaymentsOf, FactsOfKind
  <2>4. \A p : p \in Whole(X, rows) <=> p \in PaymentsOf(About(range, v))
    BY <2>1, <2>2, <2>3
  <2> HIDE DEF X
  <2> QED BY <2>4
<1> HIDE DEF X
<1>6. Sum(t, rows) = Cardinality(Whole(X, rows))
  BY <1>1, <1>3, <1>4, CardOfParts
<1> QED BY <1>2, <1>5, <1>6

\* What the tables say of a range.
InTables(range, v) ==
    LET rows == RowsOf(range, v)
    IN  [counts   |-> [k \in PlayKinds |-> SumFunction([d \in rows |-> Row(d, v).counts[k]])],
         users    |-> ActiveUsers(range, v),
         sales    |-> SumFunction([d \in rows |-> Row(d, v).sales]),
         refunds  |-> SumFunction([d \in rows |-> Row(d, v).refunds]),
         payments |-> SumFunction([d \in rows |-> Row(d, v).payments]),
         refunded |-> SumFunction([d \in rows |-> Row(d, v).refunded])]

LEMMA TablesAreExact ==
    ASSUME StatInv, NEW range \in SUBSET (Days \ dirty), NEW v \in Versions \cup {NoFact}
    PROVE  InTables(range, v) = Metrics(About(range, v))
<1> DEFINE rows == RowsOf(range, v)
           F == About(range, v)
<1>1. /\ \A d \in rows : Row(d, v) = Metrics(AboutOn(d, v))
      /\ \A d \in range \ rows : AboutOn(d, v) = {}
      /\ ActiveUsers(range, v) = Cardinality(UsersOf(F))
  BY RowCountsDay
<1>2. range \in SUBSET Days /\ rows \in SUBSET range
  BY DEF RowsOf, Collected
<1> DEFINE counts(k) == [d \in rows |-> Row(d, v).counts[k]]
           sales == [d \in rows |-> Row(d, v).sales]
           refunds == [d \in rows |-> Row(d, v).refunds]
           payments == [d \in rows |-> Row(d, v).payments]
           refunded == [d \in rows |-> Row(d, v).refunded]
<1>3. InTables(range, v) =
        [counts |-> [k \in PlayKinds |-> SumFunction(counts(k))],
         users |-> ActiveUsers(range, v), sales |-> SumFunction(sales),
         refunds |-> SumFunction(refunds), payments |-> SumFunction(payments),
         refunded |-> SumFunction(refunded)]
  BY DEF InTables
<1> HIDE DEF rows
<1>4. \A k \in PlayKinds : SumFunction(counts(k)) = Cardinality(FactsOfKind(F, k))
  <2> SUFFICES ASSUME NEW k \in PlayKinds
               PROVE  SumFunction(counts(k)) = Cardinality(FactsOfKind(F, k))
    OBVIOUS
  <2> DEFINE t == counts(k)
  <2>1. DOMAIN t = rows /\ \A d \in rows : t[d] = Cardinality(FactsOfKind(AboutOn(d, v), k))
    BY <1>1 DEF Metrics
  <2> HIDE DEF t
  <2>2. SumFunction(t) = Cardinality(FactsOfKind(F, k))
    BY <1>1, <1>2, <2>1, CountsAddUp
  <2> QED BY <2>2 DEF t
<1>5. SumFunction(sales) = TotalAmount(FactsOfKind(F, "sale"))
  <2>1. DOMAIN sales = rows /\ \A d \in rows : sales[d] = TotalAmount(FactsOfKind(AboutOn(d, v), "sale"))
    BY <1>1 DEF Metrics
  <2>2. \A d \in range \ rows : AboutOn(d, v) = {}
    BY <1>1
  <2> HIDE DEF sales
  <2>3. \A k : (\A d \in rows : sales[d] = TotalAmount(FactsOfKind(AboutOn(d, v), k)))
               => SumFunction(sales) = TotalAmount(FactsOfKind(F, k))
    BY <1>2, <2>1, <2>2, AmountsAddUp
  <2> QED BY <2>1, <2>3
<1>6. SumFunction(refunds) = TotalAmount(FactsOfKind(F, "refund"))
  <2>1. DOMAIN refunds = rows /\ \A d \in rows : refunds[d] = TotalAmount(FactsOfKind(AboutOn(d, v), "refund"))
    BY <1>1 DEF Metrics
  <2>2. \A d \in range \ rows : AboutOn(d, v) = {}
    BY <1>1
  <2> HIDE DEF refunds
  <2>3. \A k : (\A d \in rows : refunds[d] = TotalAmount(FactsOfKind(AboutOn(d, v), k)))
               => SumFunction(refunds) = TotalAmount(FactsOfKind(F, k))
    BY <1>2, <2>1, <2>2, AmountsAddUp
  <2> QED BY <2>1, <2>3
<1>7. SumFunction(payments) = Cardinality(PaymentsOf(F))
  <2>1. DOMAIN payments = rows /\ \A d \in rows : payments[d] = Cardinality(PaymentsOf(AboutOn(d, v)))
    BY <1>1 DEF Metrics
  <2> HIDE DEF payments
  <2> QED BY <1>1, <1>2, <2>1, PaymentsAddUp
<1>8. SumFunction(refunded) = Cardinality(FactsOfKind(F, "refund"))
  <2>1. DOMAIN refunded = rows /\ \A d \in rows : refunded[d] = Cardinality(FactsOfKind(AboutOn(d, v), "refund"))
    BY <1>1 DEF Metrics
  <2> HIDE DEF refunded
  <2> QED BY <1>1, <1>2, <2>1, CountsAddUp
<1> HIDE DEF counts, sales, refunds, payments, refunded, F
<1>9. Metrics(F) = [counts |-> [k \in PlayKinds |-> Cardinality(FactsOfKind(F, k))],
         users |-> Cardinality(UsersOf(F)), sales |-> TotalAmount(FactsOfKind(F, "sale")),
         refunds |-> TotalAmount(FactsOfKind(F, "refund")),
         payments |-> Cardinality(PaymentsOf(F)),
         refunded |-> Cardinality(FactsOfKind(F, "refund"))]
  BY DEF Metrics
<1>10. [k \in PlayKinds |-> SumFunction(counts(k))] = [k \in PlayKinds |-> Cardinality(FactsOfKind(F, k))]
  BY <1>4
<1>11. InTables(range, v) = Metrics(F)
  BY <1>1, <1>3, <1>5, <1>6, <1>7, <1>8, <1>9, <1>10
<1> QED BY <1>11 DEF F

LEMMA ReportsAreExact == StatInv /\ ReportInv => SettledReportsAreExact
<1> SUFFICES ASSUME StatInv, ReportInv, report.at = "pending"
             PROVE  /\ \A d \in Settled :
                         ReportedOn(report, d)
                           = Metrics({f \in On(d) : report.version \in {NoFact, f.version}})
                    /\ Settled = report.range =>
                         Reported(report) = Metrics(About(report.range, report.version))
  BY DEF SettledReportsAreExact, Settled, About
<1> DEFINE v == report.version
           range == report.range
<1>1. v \in Versions \cup {NoFact} /\ range \in SUBSET Days /\ Settled \in SUBSET (Days \ dirty)
      /\ DOMAIN report.rows \subseteq range
  BY DEF ReportInv, ReportTyped, Settled
<1>2. \A d \in Settled : /\ d \in Counting(report) <=> d \in RowsOf({d}, v)
                         /\ d \in Counting(report) => report.rows[d] = Row(d, v)
  <2>1. \A d \in Settled : d \notin report.roots => d \notin RowsOf({d}, v)
    BY DEF ReportInv, RootsStand, RowsOf, Collected
  <2> QED BY <2>1 DEF ReportInv, RowsStand, Counting
<1>3. ASSUME NEW d \in Settled
      PROVE  ReportedOn(report, d) = Metrics({f \in On(d) : v \in {NoFact, f.version}})
  <2>1. {d} \in SUBSET (Days \ dirty)
    BY <1>1
  <2>2. /\ \A e \in RowsOf({d}, v) : Row(e, v) = Metrics(AboutOn(e, v))
        /\ \A e \in {d} \ RowsOf({d}, v) : AboutOn(e, v) = {}
    BY <1>1, <2>1, RowCountsDay
  <2>3. {f \in On(d) : v \in {NoFact, f.version}} = AboutOn(d, v)
    BY DEF On, AboutOn
  <2>4. ReportedOn(report, d) = Metrics(AboutOn(d, v))
    BY <1>2, <2>2 DEF ReportedOn
  <2> QED BY <2>3, <2>4
<1>4. ASSUME Settled = range PROVE Reported(report) = Metrics(About(range, v))
  <2>1. Counting(report) = RowsOf(range, v)
    <3>1. \A d : d \in RowsOf(range, v) <=> d \in range /\ d \in RowsOf({d}, v)
      BY DEF RowsOf, Collected
    <3>2. Counting(report) \subseteq range
      BY <1>1 DEF Counting
    <3> QED BY <1>2, <1>4, <3>1, <3>2
  <2>2. \A d \in RowsOf(range, v) : report.rows[d] = Row(d, v)
    BY <1>1, <1>2, <1>4, <2>1 DEF Counting
  <2>3. report.users = ActiveUsers(range, v)
    BY <1>4 DEF ReportInv, UsersStand
  <2>4. Reported(report) = InTables(range, v)
    BY <2>1, <2>2, <2>3 DEF Reported, InTables
  <2>5. InTables(range, v) = Metrics(About(range, v))
    <3> HIDE DEF range, v
    <3> QED BY <1>1, <1>4, TablesAreExact
  <2> QED BY <2>4, <2>5
<1> QED BY <1>3, <1>4

\* Sales never attribute more than was paid, refunds never more than was sold, and no
\* day of a version nets less than nothing, whatever is recorded at the same time
\* under other keys and wherever a writer fails.
THEOREM FactsStaySound == StatSpec => []FactsAreSound
<1>1. StatInit => StatInv /\ ReportInv
  BY StatInitInv, ReportInitInv
<1>2. StatInv /\ ReportInv /\ [StatNext]_statVars => (StatInv /\ ReportInv)'
  BY StatStep, ReportStep
<1>3. StatInv /\ ReportInv => FactsAreSound
  BY SoundFacts
<1> QED BY <1>1, <1>2, <1>3, PTL DEF StatSpec

\* Whenever the last statement of a report runs, what it has read is exact of every day
\* that is neither pending then nor was rebuilt since its first statement, and of the
\* whole range if all its days are such: for the product and for each version, whatever
\* is recorded, rebuilt or rolled back between the statements.
THEOREM ReportsStayExact == StatSpec => []SettledReportsAreExact
<1>1. StatInit => StatInv /\ ReportInv
  BY StatInitInv, ReportInitInv
<1>2. StatInv /\ ReportInv /\ [StatNext]_statVars => (StatInv /\ ReportInv)'
  BY StatStep, ReportStep
<1>3. StatInv /\ ReportInv => SettledReportsAreExact
  BY ReportsAreExact
<1> QED BY <1>1, <1>2, <1>3, PTL DEF StatSpec
=============================================================================

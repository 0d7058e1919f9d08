------------------------- MODULE ProductStatistics -------------------------
(***************************************************************************)
(* The daily statistics of a product: the transactions that record a fact  *)
(* (a sale, a refund, a finished answer, a conversation, a version change) *)
(* and mark its day for rebuilding, the job that rebuilds marked days, and *)
(* the reports over a range of days, which read one table after another.   *)
(*                                                                         *)
(* Writers and jobs are transactions under READ COMMITTED. `lock` is the   *)
(* row lock of a day in the queue, which an inserted or updated row keeps  *)
(* until its transaction ends. A day of the model is a day in Seoul; a     *)
(* timestamp is its day. The queue's order by request time is left open:   *)
(* request times are the start times of transactions that end in any order.*)
(***************************************************************************)
EXTENDS Integers, FiniteSets, FiniteSetsExt

CONSTANTS Writers, Jobs, Days, Keys, Payments, Versions, Players, SaleAmounts,
          PaymentAmount,  \* what was paid by each settled payment
          PlayKinds,      \* the counted facts: "succeeded", "failed", "conversation", ...
          NoFact

ASSUME StatisticsAssumption ==
    /\ Days \subseteq Nat /\ IsFiniteSet(Days) /\ IsFiniteSet(Keys)
    /\ SaleAmounts \subseteq Nat \ {0} /\ {"sale", "refund"} \cap PlayKinds = {}
    /\ PaymentAmount \in [Payments -> Nat]
    /\ NoFact \notin Writers \cup Jobs \cup Days /\ Writers \cap Jobs = {}

VARIABLES
    facts,   \* committed facts
    dirty,   \* committed rows of product_stats_dirty_days
    lock,    \* who holds the row of a day, committed or not
    workTx,  \* transactions of writers
    job,     \* transactions of the rebuilding jobs
    daily,   \* the rows of a day in the four statistics tables, None before the first
    report   \* a report under way; reports do not affect each other, so one is followed

statVars == <<facts, dirty, lock, workTx, job, daily, report>>

\* What may be recorded: a sale of a payment, a refund of a sale, a counted fact.
Sales == [kind: {"sale"}, key: Keys, of: Payments, version: Versions, user: {NoFact},
          amount: SaleAmounts, day: Days]
Refunds == [kind: {"refund"}, key: Keys, of: Keys, version: {NoFact}, user: {NoFact},
            amount: SaleAmounts, day: Days]
Plays == [kind: PlayKinds, key: Keys, of: {NoFact}, version: Versions, user: Players,
          amount: {0}, day: Days]
Facts == [kind: {"sale", "refund"} \cup PlayKinds, key: Keys, of: Payments \cup Keys \cup {NoFact},
          version: Versions, user: Players \cup {NoFact}, amount: SaleAmounts \cup {0}, day: Days]

\* What a day's rows count: for a version, or for the product.
Metric == [counts: [PlayKinds -> Nat], users: Nat, sales: Nat, refunds: Nat, payments: Nat,
           refunded: Nat]
DayRows == [versions: UNION {[S -> Metric] : S \in SUBSET Versions}, total: Metric,
            users: SUBSET Players, active: SUBSET (Versions \X Players)]

ASSUME NoFactAssumption == NoFact \notin Facts \cup Refunds \cup DayRows \cup Versions

NoWork == [cmd |-> NoFact, fact |-> NoFact, todo |-> {}]
\* `overtaken` is a history variable: the days that were rebuilt since the report's first
\* statement.
NoReport == [at |-> "none", range |-> {}, version |-> NoFact, roots |-> {}, rows |-> <<>>,
             users |-> 0, overtaken |-> {}]
Waiting == [at |-> "waiting", day |-> NoFact, money |-> {}, plays |-> {}]

StatInit ==
    /\ facts = {}
    /\ dirty = {}
    /\ lock = [d \in Days |-> NoFact]
    /\ workTx = [w \in Writers |-> NoWork]
    /\ job = [j \in Jobs |-> Waiting]
    /\ daily = [d \in Days |-> NoFact]
    /\ report = NoReport

-----------------------------------------------------------------------------
(* Recording a fact                                                         *)

FactsOfKind(fs, kind) == {f \in fs : f.kind = kind}
TotalAmount(fs) == SumFunction([f \in fs |-> f.amount])

SalesOf(p) == {f \in FactsOfKind(facts, "sale") : f.of = p}
RefundsOf(key) == {f \in FactsOfKind(facts, "refund") : f.of = key}
SaleWith(key) == {f \in FactsOfKind(facts, "sale") : f.key = key}

\* Faulty: only the event's own key is locked.
OwnRow(cmd) == <<"event", cmd.key>>

\* The row locked before totals are read: a sale's payment, a refund's sale.
SourceRow(cmd) ==
    CASE cmd.kind = "sale"   -> <<"payment", cmd.of>>
      [] cmd.kind = "refund" -> <<"event", cmd.of>>
      [] OTHER               -> <<"run", cmd.key>>

\* Faulty: the parts of one payment may be settled on different days.
MaySellAnyDay(cmd) ==
    TotalAmount(SalesOf(cmd.of)) + cmd.amount <= PaymentAmount[cmd.of]

MaySell(cmd) ==
    /\ \A f \in SalesOf(cmd.of) : f.day = cmd.day
    /\ TotalAmount(SalesOf(cmd.of)) + cmd.amount <= PaymentAmount[cmd.of]

MayRefund(cmd) ==
    \E sale \in SaleWith(cmd.of) :
       /\ cmd.day >= sale.day
       /\ TotalAmount(RefundsOf(cmd.of)) + cmd.amount <= sale.amount

\* A key that has its fact is replayed or refused: either way nothing is written.
Recordable(cmd) ==
    /\ \A f \in facts : f.key # cmd.key
    /\ cmd.kind = "sale" => MaySell(cmd)
    /\ cmd.kind = "refund" => MayRefund(cmd)

\* Faulty: a refund counts on the day it is made.
RefundedWhenMade(cmd) ==
    IF cmd.kind = "refund"
    THEN LET sale == CHOOSE f \in SaleWith(cmd.of) : TRUE IN [cmd EXCEPT !.version = sale.version]
    ELSE cmd

\* A refund counts for the version and on the day of its sale.
Recorded(cmd) ==
    IF cmd.kind = "refund"
    THEN LET sale == CHOOSE f \in SaleWith(cmd.of) : TRUE
         IN  [cmd EXCEPT !.version = sale.version, !.day = sale.day]
    ELSE cmd

BeginWork(w, cmd) ==
    /\ workTx[w] = NoWork
    /\ \A o \in Writers : workTx[o].cmd # NoFact => workTx[o].cmd.key # cmd.key
    /\ Recordable(cmd)
    /\ workTx' = [workTx EXCEPT ![w].cmd = cmd]
    /\ UNCHANGED <<facts, dirty, lock, job, daily, report>>

\* The checks are made again once the row is locked; the fact is written.
Attribute(w) ==
    LET cmd == workTx[w].cmd
    IN  /\ cmd # NoFact /\ workTx[w].fact = NoFact
        /\ \A o \in Writers \ {w} :
             workTx[o].fact # NoFact => SourceRow(workTx[o].cmd) # SourceRow(cmd)
        /\ workTx' = [workTx EXCEPT ![w] =
                    IF Recordable(cmd)
                    THEN [cmd |-> cmd, fact |-> Recorded(cmd), todo |-> {Recorded(cmd).day}]
                    ELSE NoWork]
        /\ UNCHANGED <<facts, dirty, lock, job, daily, report>>

-----------------------------------------------------------------------------
(* The queue of days                                                        *)

\* Faulty: a day that is already in the queue is left alone.
MarkNewOnly(w, d) ==
    /\ d \in workTx[w].todo
    /\ d \in dirty \/ lock[d] = NoFact
    /\ lock' = IF d \in dirty THEN lock ELSE [lock EXCEPT ![d] = w]
    /\ workTx' = [workTx EXCEPT ![w].todo = @ \ {d}]
    /\ UNCHANGED <<facts, dirty, job, daily, report>>

\* The upsert locks the day's row, and waits for whoever holds it.
Mark(w, d) ==
    /\ d \in workTx[w].todo
    /\ lock[d] = NoFact
    /\ lock' = [lock EXCEPT ![d] = w]
    /\ workTx' = [workTx EXCEPT ![w].todo = @ \ {d}]
    /\ UNCHANGED <<facts, dirty, job, daily, report>>

\* The nightly repair marks the recent days of a product that is published.
EnqueueRecent(w) ==
    /\ workTx[w] = NoWork
    /\ \E first \in Days : workTx' = [workTx EXCEPT ![w].todo = {d \in Days : d >= first}]
    /\ UNCHANGED <<facts, dirty, lock, job, daily, report>>

Held(w) == {d \in Days : lock[d] = w}
Released(w) == [d \in Days |-> IF lock[d] = w THEN NoFact ELSE lock[d]]

CommitWork(w) ==
    /\ workTx[w] # NoWork /\ workTx[w].todo = {}
    /\ workTx[w].cmd # NoFact => workTx[w].fact # NoFact
    /\ facts' = IF workTx[w].fact = NoFact THEN facts ELSE facts \cup {workTx[w].fact}
    /\ dirty' = dirty \cup Held(w)
    /\ lock' = Released(w)
    /\ workTx' = [workTx EXCEPT ![w] = NoWork]
    /\ UNCHANGED <<job, daily, report>>

\* An error, a crash, or a deadlock of two repairs.
AbortWork(w) ==
    /\ workTx[w] # NoWork
    /\ lock' = Released(w)
    /\ workTx' = [workTx EXCEPT ![w] = NoWork]
    /\ UNCHANGED <<facts, dirty, job, daily, report>>

-----------------------------------------------------------------------------
(* Rebuilding a day                                                         *)

\* FOR UPDATE SKIP LOCKED.
Claim(j, d) ==
    /\ job[j].at = "waiting"
    /\ d \in dirty /\ lock[d] = NoFact
    /\ lock' = [lock EXCEPT ![d] = j]
    /\ job' = [job EXCEPT ![j].at = "claimed", ![j].day = d]
    /\ UNCHANGED <<facts, dirty, workTx, daily, report>>

Money(f) == f.kind \in {"sale", "refund"}
On(d) == {f \in facts : f.day = d}

\* Sales and refunds are read before the other facts, each by its own statement.
ReadMoney(j) ==
    /\ job[j].at = "claimed"
    /\ job' = [job EXCEPT ![j].at = "money", ![j].money = {f \in On(job[j].day) : Money(f)}]
    /\ UNCHANGED <<facts, dirty, lock, workTx, daily, report>>

ReadPlays(j) ==
    /\ job[j].at = "money"
    /\ job' = [job EXCEPT ![j].at = "plays", ![j].plays = {f \in On(job[j].day) : ~Money(f)}]
    /\ UNCHANGED <<facts, dirty, lock, workTx, daily, report>>

UsersOf(fs) == {f.user : f \in FactsOfKind(fs, "succeeded")}
PaymentsOf(fs) == {f.of : f \in FactsOfKind(fs, "sale")}
VersionsOf(fs) == {f.version : f \in fs}
OfVersion(fs, v) == {f \in fs : f.version = v}

Metrics(fs) ==
    [counts   |-> [k \in PlayKinds |-> Cardinality(FactsOfKind(fs, k))],
     users    |-> Cardinality(UsersOf(fs)),
     sales    |-> TotalAmount(FactsOfKind(fs, "sale")),
     refunds  |-> TotalAmount(FactsOfKind(fs, "refund")),
     payments |-> Cardinality(PaymentsOf(fs)),
     refunded |-> Cardinality(FactsOfKind(fs, "refund"))]

SumOf(metrics, k) == SumFunction([v \in DOMAIN metrics |-> metrics[v].counts[k]])

\* The counters of a day are summed over its versions; users, payments and amounts
\* are counted for the product, since versions may share users and payments.
Build(fs) ==
    LET metrics == [v \in VersionsOf(fs) |-> Metrics(OfVersion(fs, v))]
    IN  [versions |-> metrics,
         total    |-> [Metrics(fs) EXCEPT !.counts = [k \in PlayKinds |-> SumOf(metrics, k)]],
         users    |-> UsersOf(fs),
         active   |-> {<<f.version, f.user>> : f \in FactsOfKind(fs, "succeeded")}]

\* The rows of the day are replaced and its row in the queue is deleted.
Rebuild(j) ==
    LET d == job[j].day
    IN  /\ job[j].at = "plays"
        /\ daily' = [daily EXCEPT ![d] = Build(job[j].money \cup job[j].plays)]
        /\ dirty' = dirty \ {d}
        /\ lock' = [lock EXCEPT ![d] = NoFact]
        /\ job' = [job EXCEPT ![j] = Waiting]
        /\ report' = [report EXCEPT !.overtaken = @ \cup (report.range \cap {d})]
        /\ UNCHANGED <<facts, workTx>>

JobFails(j) ==
    /\ job[j].at # "waiting"
    /\ lock' = [lock EXCEPT ![job[j].day] = NoFact]
    /\ job' = [job EXCEPT ![j] = Waiting]
    /\ UNCHANGED <<facts, dirty, workTx, daily, report>>

-----------------------------------------------------------------------------
(* A report over a range of days: four statements that share no snapshot     *)

Collected(range) == {d \in range : daily[d] # NoFact}

\* Of a version, or of the product when v is None; a day may have no row of a version.
RowsOf(range, v) == {d \in Collected(range) : v = NoFact \/ v \in DOMAIN daily[d].versions}
Row(d, v) == IF v = NoFact THEN daily[d].total ELSE daily[d].versions[v]
ActiveOn(d, v) ==
    IF v = NoFact THEN daily[d].users ELSE {u \in Players : <<v, u>> \in daily[d].active}

\* Faulty: the users of a period are the users of its days added up.
UsersAddedUp(range, v) ==
    MapThenSumSet(LAMBDA d : Cardinality(ActiveOn(d, v)), Collected(range))

ActiveUsers(range, v) == Cardinality(UNION {ActiveOn(d, v) : d \in Collected(range)})

Asked(range, v) == [NoReport EXCEPT !.range = range, !.version = v, !.roots = range]

WithRows(q) ==
    [q EXCEPT !.at = "users", !.rows = [d \in RowsOf(q.range, q.version) |-> Row(d, q.version)]]

\* The usage of a version counts on the days of which the product has a row.
ReadRoots(range, v) ==
    /\ report = NoReport /\ v # NoFact
    /\ report' = [Asked(range, v) EXCEPT !.at = "rows", !.roots = Collected(range)]
    /\ UNCHANGED <<facts, dirty, lock, workTx, job, daily>>

\* The first statement of every other report.
AskRows(range, v) ==
    /\ report = NoReport
    /\ report' = WithRows(Asked(range, v))
    /\ UNCHANGED <<facts, dirty, lock, workTx, job, daily>>

ReadRows ==
    /\ report.at = "rows"
    /\ report' = WithRows(report)
    /\ UNCHANGED <<facts, dirty, lock, workTx, job, daily>>

ReadUsers ==
    /\ report.at = "users"
    /\ report' = [report EXCEPT !.at = "pending", !.users = ActiveUsers(report.range, report.version)]
    /\ UNCHANGED <<facts, dirty, lock, workTx, job, daily>>

\* The pending days of the range are read last, and the report is answered.
AnswerReport ==
    /\ report.at = "pending"
    /\ report' = NoReport
    /\ UNCHANGED <<facts, dirty, lock, workTx, job, daily>>

\* What a report says of the days that count, and of one day.
Counting(q) == DOMAIN q.rows \cap q.roots
ReportedOn(q, d) == IF d \in Counting(q) THEN q.rows[d] ELSE Metrics({})

Reported(q) ==
    [counts   |-> [k \in PlayKinds |-> SumFunction([d \in Counting(q) |-> q.rows[d].counts[k]])],
     users    |-> q.users,
     sales    |-> SumFunction([d \in Counting(q) |-> q.rows[d].sales]),
     refunds  |-> SumFunction([d \in Counting(q) |-> q.rows[d].refunds]),
     payments |-> SumFunction([d \in Counting(q) |-> q.rows[d].payments]),
     refunded |-> SumFunction([d \in Counting(q) |-> q.rows[d].refunded])]

StatNext ==
    \/ \E w \in Writers :
         \/ \E cmd \in Sales \cup Refunds \cup Plays : BeginWork(w, cmd)
         \/ Attribute(w) \/ EnqueueRecent(w)
         \/ \E d \in Days : Mark(w, d)
         \/ CommitWork(w) \/ AbortWork(w)
    \/ \E j \in Jobs :
         \/ \E d \in Days : Claim(j, d)
         \/ ReadMoney(j) \/ ReadPlays(j) \/ Rebuild(j) \/ JobFails(j)
    \/ \E from, to \in Days, v \in Versions \cup {NoFact} :
         LET range == {d \in Days : from <= d /\ d <= to}
         IN  ReadRoots(range, v) \/ AskRows(range, v)
    \/ ReadRows \/ ReadUsers \/ AnswerReport

StatSpec == StatInit /\ [][StatNext]_statVars

-----------------------------------------------------------------------------
(* Properties *)

StatTypeOK ==
    /\ facts \subseteq Facts
    /\ dirty \subseteq Days
    /\ lock \in [Days -> Writers \cup Jobs \cup {NoFact}]
    /\ \A w \in Writers : workTx[w].todo \subseteq Days /\ workTx[w].fact \in Facts \cup {NoFact}
    /\ \A j \in Jobs : job[j].day \in Days \cup {NoFact}
    /\ report.range \subseteq Days /\ report.version \in Versions \cup {NoFact}

\* Whenever the last statement of a report runs, what was read before is exact of every
\* day that is not pending then and was not rebuilt since the first statement: for the
\* product and for each version it counts every fact committed by then once, even where
\* the day has no rows at all and whatever other days are pending. With no such day in
\* its range the whole report is exact, each user and each payment counted once. A fact
\* that is committed while its day is rebuilt, or that is dated back, makes it pending.
\* Of a day rebuilt between two statements the code promises nothing, and a report may
\* show what the day counted before.
SettledReportsAreExact ==
    report.at = "pending" =>
      LET settled == report.range \ (dirty \cup report.overtaken)
          v == report.version
      IN  /\ \A d \in settled :
               ReportedOn(report, d) = Metrics({f \in On(d) : v \in {NoFact, f.version}})
          /\ settled = report.range =>
               Reported(report) =
                 Metrics({f \in facts : f.day \in report.range /\ v \in {NoFact, f.version}})

\* Sales never attribute more than was paid and refunds never more than was sold,
\* whatever is recorded at the same time under other keys; and since a refund counts
\* where its sale did, no day of a version nets less than nothing.
NothingOverAttributed ==
    /\ \A p \in Payments : TotalAmount(SalesOf(p)) <= PaymentAmount[p]
    /\ \A sale \in FactsOfKind(facts, "sale") : TotalAmount(RefundsOf(sale.key)) <= sale.amount
    /\ \A d \in Days, v \in Versions :
         LET sold == OfVersion(On(d), v)
         IN  TotalAmount(FactsOfKind(sold, "refund")) <= TotalAmount(FactsOfKind(sold, "sale"))

\* The invariants of the facts that statistics are made of.
FactsAreSound == StatTypeOK /\ NothingOverAttributed
=============================================================================

--------------------------- MODULE MCAnswerInputs ---------------------------
(* What an answer has room for and is paid from, and what a product earns:   *)
(* the compaction of a long conversation, the prices and holds of            *)
(* generations, the wallet, the statistics of a product and the reports on   *)
(* them, each explored from its own start: "part" says which one runs.       *)
EXTENDS CreditConservation, PriceQuotes, ContextCompaction, ProductStatistics, TLC

VARIABLE part

\* Half credits, two token budgets, and price books whose tiers touch, overlap or
\* undercut the cost.
MCConditions == {[execution |-> "x", input |-> 1, output |-> 1],
                 [execution |-> "x", input |-> 1, output |-> 2]}

MCTier(name, from, to, price) == [name |-> name, from |-> from, to |-> to, price |-> price]

MCModel(tiers, output) == [execution |-> "x", tiers |-> tiers, input |-> 1, output |-> output]

MCBook(version, tiers, output, policies) ==
    [version |-> version, rate |-> 2, safety |-> 3,
     models |-> <<MCModel(tiers, output)>>, policies |-> policies]

MCPolicy(order, name, does) == [order |-> order, name |-> name, does |-> does]

MCPriceBooks ==
    {MCBook("plain", <<MCTier("long", 3, 6, 9), MCTier("short", 0, 3, 4)>>, 1, {}),
     MCBook("cheap", <<MCTier("all", 0, 6, 1)>>, 2,
            {MCPolicy(20, "promotion", "halves"), MCPolicy(10, "author", "raises"),
             MCPolicy(30, "unpopular", "unimplemented")}),
     MCBook("overlap", <<MCTier("a", 0, 4, 3), MCTier("b", 2, 6, 5)>>, 1, {}),
     MCBook("broken", <<MCTier("all", 0, 6, 3)>>, 1,
            {MCPolicy(10, "author", "misreports"), MCPolicy(20, "promotion", "disabled")})}

\* A short message and one larger than a batch; a prompt measures both as larger.
SmallEstimate == [s \in Sizes |-> s]
SmallRendered == [s \in Sizes |-> s + 1]

\* Two days; a refund may take the whole of a sale or half of it.
MCDays == 1..2
MCAmounts == 1..2
MCPaymentAmount == [p \in Payments |-> 2]

\* Reports are on both days; one writer and one job work at a time, and while a report is
\* under way not both.  Sales and refunds are of the smallest amount.
ReportsBounded ==
    /\ report.range \in {{}, MCDays}
    /\ \A w \in Writers : workTx[w].cmd # NoFact => workTx[w].cmd.amount <= 1
    /\ \A w, o \in Writers : NoWork \in {workTx[w], workTx[o]} \/ w = o
    /\ \A i, j \in Jobs : "waiting" \in {job[i].at, job[j].at} \/ i = j
    /\ report # NoReport => \A w \in Writers, j \in Jobs : workTx[w] = NoWork \/ job[j] = Waiting

InputVars == <<vars, priceVars, compactionVars, statVars, part>>

\* One price book will do where the other parts start.
InputInit ==
    /\ part \in {"wallet", "prices", "compaction", "statistics", "reports"}
    /\ Init /\ PriceInit /\ CompactionInit /\ StatInit
    /\ part # "prices" => deployed.version = "plain"

InputNext ==
    /\ UNCHANGED part
    /\ \/ /\ part = "wallet" /\ Next
          /\ UNCHANGED <<priceVars, compactionVars, statVars>>
       \/ /\ part = "prices" /\ PriceNext
          /\ UNCHANGED <<vars, compactionVars, statVars>>
       \/ /\ part = "compaction" /\ CompactionNext
          /\ UNCHANGED <<vars, priceVars, statVars>>
       \/ /\ \/ part = "statistics" /\ StatNext /\ UNCHANGED report
             \/ part = "reports" /\ StatNext /\ ReportsBounded'
          /\ UNCHANGED <<vars, priceVars, compactionVars>>

InputSpec == InputInit /\ [][InputNext]_InputVars

InputSymmetry == Permutations(Sessions) \cup Permutations(Grants) \cup Permutations(Requests)
=============================================================================

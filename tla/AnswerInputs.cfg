SPECIFICATION InputSpec
CONSTANTS
    \* The parts share the names of interchangeable things: only one part runs.
    Sessions = {a1, a2}
    Requests = {b1, b2}
    Grants = {c1, c2}
    Results = {d1, d2}
    BillingRequests = {r1}
    Settlements = {p1}
    Amounts = {0, 1, 2}
    MaxCredit = 3
    None = None
    Buyers = {a1, a2}
    QuoteKeys = {c1, c2}
    Conditions <- MCConditions
    PriceBooks <- MCPriceBooks
    QuoteIds = {q1, q2, q3, q4}
    Scale = 2
    TokenLimit = 5
    PriceLimit = 12
    QuoteTtl = 1
    MaxTime = 2
    NoQuote = NoQuote
    Sizes = {1, 3}
    Estimate <- SmallEstimate
    RenderedSize <- SmallRendered
    Rooms = {5, 8}
    LeastMessages = 2
    MaxMessages = 5
    Threshold = 5
    Batch = 2
    Recent = 2
    MemoryBudget = 2
    Writers = {a1, a2}
    Keys = {c1, c2}
    Jobs = {d1, d2}
    Versions = {b1, b2}
    Players = {u1}
    Payments = {p1}
    Days <- MCDays
    SaleAmounts <- MCAmounts
    PaymentAmount <- MCPaymentAmount
    PlayKinds = {"succeeded"}
    NoFact = NoFact
SYMMETRY InputSymmetry
INVARIANTS PaidExactlyOnce BoundTogether SumsAreRight PricesAreSound
           PlansAreSound SettledReportsAreExact FactsAreSound
PROPERTIES DealsStand
\* Keys, time and messages are bounded: a buyer may have asked for everything.
CHECK_DEADLOCK FALSE

------------------------------ MODULE PriceQuotes ------------------------------
(***************************************************************************)
(* What an answer is sold for: the price book and its policies            *)
(* (commerce/billing/service/pricing.py, policies.py, configuration.py),  *)
(* the quote kept for a request key (quotes.py) and the reservation that   *)
(* holds its price (credits.py).  The wallet under the reservation is     *)
(* CreditLedger.                                                           *)
(*                                                                         *)
(* A buyer is one attempt to answer a request: in its own transaction it   *)
(* takes the advisory lock of the request key, prices or finds the quote,  *)
(* and reserves.  Attempts are retried, price books are redeployed and     *)
(* time passes between their steps.  Decimals are whole multiples of       *)
(* 1 / Scale.                                                              *)
(***************************************************************************)
EXTENDS Integers, Sequences, FiniteSets, SequencesExt

CONSTANTS
    Buyers,      \* attempts, each with a transaction of its own
    QuoteKeys,   \* (user, request key) pairs
    Conditions,  \* what is bought: [execution, input, output]
    PriceBooks,  \* configurations an operator may write: books with policies
    QuoteIds,    \* quote ids
    Scale,       \* one credit, in the units decimals are counted in
    TokenLimit,  \* 2^31 - 1, the largest token budget
    PriceLimit,  \* 2^63 - 1, the largest price
    QuoteTtl,    \* quote_ttl_seconds
    MaxTime,     \* bound on the clock
    NoQuote      \* "no value"

ASSUME PricingAssumption ==
    /\ Scale \in Nat \ {0} /\ QuoteTtl \in Nat \ {0}
    /\ TokenLimit \in Nat /\ PriceLimit \in Nat /\ MaxTime \in Nat
    /\ \A c \in Conditions : c.input \in Nat /\ c.output \in Nat

\* Books are lists of models with lists of tiers; their numbers may be any.
ASSUME BookAssumption ==
    \A book \in PriceBooks :
        /\ book.rate \in Int /\ book.safety \in Int
        /\ DOMAIN book.models = 1..Len(book.models)
        /\ \A i \in DOMAIN book.models :
             LET m == book.models[i]
             IN  /\ m.input \in Int /\ m.output \in Int
                 /\ \A j \in DOMAIN m.tiers : m.tiers[j].from \in Int /\ m.tiers[j].to \in Int

\* A new quote finds an id that no quote has, stored or not.
ASSUME QuoteIdsAssumption ==
    /\ IsFiniteSet(Buyers) /\ IsFiniteSet(QuoteKeys) /\ IsFiniteSet(QuoteIds)
    /\ Cardinality(QuoteIds) >= Cardinality(QuoteKeys) + Cardinality(Buyers)

VARIABLES
    deployed,  \* the configuration the servers run with
    clock,     \* the time
    quotes,    \* billing_quotes, by request key
    holds,     \* billing_credit_bindings with their reservations, by request key
    buyer      \* every attempt's transaction

priceVars == <<deployed, clock, quotes, holds, buyer>>

-----------------------------------------------------------------------------
(* Price books *)

\* Faulty: a tier may end where another one still goes on.
TiersOverlapping(tiers) ==
    \A i \in DOMAIN tiers : 0 <= tiers[i].from /\ tiers[i].from < tiers[i].to

\* Tiers are half-open ranges of the context budget and do not overlap.
TiersApart(tiers) ==
    /\ \A i \in DOMAIN tiers :
         /\ 0 <= tiers[i].from /\ tiers[i].from < tiers[i].to
         /\ tiers[i].to <= 2 * TokenLimit + 1
    /\ \A i, j \in DOMAIN tiers : i # j =>
         \/ tiers[i].to <= tiers[j].from
         \/ tiers[j].to <= tiers[i].from

PricesModel(m) ==
    /\ m.input >= 0 /\ m.output >= 0
    /\ Len(m.tiers) > 0
    /\ \A i \in DOMAIN m.tiers : m.tiers[i].price >= 0
    /\ TiersApart(m.tiers)

\* _validate_price_book and PricingPolicyRegistry: every execution is priced once,
\* policies have distinct places and names.
ValidBook(book) ==
    /\ book.rate > 0 /\ book.safety >= Scale
    /\ Len(book.models) > 0
    /\ \A i \in DOMAIN book.models : PricesModel(book.models[i])
    /\ \A i, j \in DOMAIN book.models :
         book.models[i].execution = book.models[j].execution => i = j
    /\ \A p, q \in book.policies : p.order = q.order \/ p.name = q.name => p = q

\* What a policy makes of the price it is given.  "unimplemented" and "disabled"
\* leave it; an applied policy may set any other; "misreports" is an adapter that
\* changes the price without saying it applied.
PolicyResult(policy, price) ==
    CASE policy.does \in {"unimplemented", "disabled"} ->
             [status |-> policy.does, given |-> price, taken |-> price]
      [] policy.does = "halves" ->
             [status |-> "applied", given |-> price, taken |-> price \div 2]
      [] policy.does = "raises" ->
             [status |-> "applied", given |-> price, taken |-> price + Scale]
      [] policy.does = "misreports" ->
             [status |-> "skipped", given |-> price, taken |-> 0]

Consistent(result, price) ==
    /\ result.given = price
    /\ result.taken >= 0
    /\ result.status # "applied" => result.taken = price

InOrder(policies) == SetToSortSeq(policies, LAMBDA p, q : p.order < q.order)

\* The price after all policies, or NoQuote when one of them reports nonsense.
AfterPolicies(policies, normal) ==
    FoldLeft(LAMBDA price, policy :
                IF price = -1 \/ ~Consistent(PolicyResult(policy, price), price) THEN -1
                ELSE PolicyResult(policy, price).taken,
             normal, InOrder(policies))

\* In units of 1 / Scale^3: a cost, a rate and a safety factor are multiplied.
CostFloor(book, m, c) ==
    (c.input * m.input + c.output * m.output) * book.rate * book.safety

Dearer(current, floor) ==
    IF current * Scale * Scale >= floor THEN current * Scale * Scale ELSE floor

\* Faulty: the fraction of a credit that the cost leaves is given away.
RoundedDown(current, floor) == Dearer(current, floor) \div (Scale * Scale * Scale)

\* The greater of the policies' price and the floor, rounded up to whole credits.
FinalPrice(current, floor) ==
    LET credit == Scale * Scale * Scale
    IN  (Dearer(current, floor) + credit - 1) \div credit

ModelsFor(book, c) == {i \in DOMAIN book.models : book.models[i].execution = c.execution}

TiersFor(m, c) ==
    {i \in DOMAIN m.tiers :
       m.tiers[i].from <= c.input + c.output /\ c.input + c.output < m.tiers[i].to}

PriceInTier(book, m, tier, c) ==
    LET current == AfterPolicies(book.policies, tier.price)
        floor == CostFloor(book, m, c)
        final == FinalPrice(current, floor)
    IN  IF current \notin Nat \/ final > PriceLimit THEN NoQuote
        ELSE [version |-> book.version, tier |-> tier.name, normal |-> tier.price,
              current |-> current, floor |-> floor, final |-> final]

\* calculate_billing_price: the first model and tier that fit, NoQuote if none does.
PriceOf(book, c) ==
    IF ModelsFor(book, c) = {} THEN NoQuote
    ELSE LET m == book.models[Min(ModelsFor(book, c))]
         IN  IF TiersFor(m, c) = {} THEN NoQuote
             ELSE PriceInTier(book, m, m.tiers[Min(TiersFor(m, c))], c)

-----------------------------------------------------------------------------
(* Quotes and reservations *)

NoDeal == [at |-> "out", key |-> NoQuote, wants |-> NoQuote, quote |-> NoQuote,
           hold |-> NoQuote, wallet |-> FALSE]

PriceInit ==
    /\ deployed \in {b \in PriceBooks : ValidBook(b)}
    /\ clock = 0
    /\ quotes = [k \in QuoteKeys |-> NoQuote]
    /\ holds = [k \in QuoteKeys |-> NoQuote]
    /\ buyer = [b \in Buyers |-> NoDeal]

\* The attempt's own rows over the committed ones.
QuoteSeen(b) == IF buyer[b].quote # NoQuote THEN buyer[b].quote ELSE quotes[buyer[b].key]

HoldSeen(b) == IF buyer[b].hold # NoQuote THEN buyer[b].hold ELSE holds[buyer[b].key]

\* lock_key("billing-quote", user:request_key), to the end of the transaction.
KeyFree(b, k) == \A o \in Buyers \ {b} : buyer[o].at = "out" \/ buyer[o].key # k

FreshId == CHOOSE i \in QuoteIds :
    /\ \A k \in QuoteKeys : quotes[k] = NoQuote \/ quotes[k].id # i
    /\ \A o \in Buyers : buyer[o].quote = NoQuote \/ buyer[o].quote.id # i

Expired(q) == clock >= q.expires

\* Create: priced with the book deployed now, and never again.
NewQuote(k, c) ==
    IF PriceOf(deployed, c) = NoQuote THEN NoQuote
    ELSE [id |-> FreshId, key |-> k, wants |-> c, price |-> PriceOf(deployed, c),
          expires |-> clock + QuoteTtl]

\* Faulty: a retry after the expiry prices the request anew.
QuoteForRenewed(k, c, stored) ==
    IF stored = NoQuote \/ Expired(stored) THEN NewQuote(k, c)
    ELSE IF stored.wants = c THEN stored
    ELSE NoQuote

\* create_billing_quote: a stored quote answers the retry, if it is for the same
\* conditions; expired or not, it is neither priced anew nor prolonged.
QuoteFor(k, c, stored) ==
    IF stored = NoQuote THEN NewQuote(k, c)
    ELSE IF stored.wants = c THEN stored
    ELSE NoQuote

\* The key's lock is taken and its quote found or made; an error ends the attempt.
AskPrice(b) ==
    /\ buyer[b].at = "out"
    /\ \E k \in QuoteKeys, c \in Conditions :
         /\ KeyFree(b, k)
         /\ QuoteFor(k, c, quotes[k]) # NoQuote
         /\ buyer' = [buyer EXCEPT ![b] =
              [NoDeal EXCEPT !.at = "quoted", !.key = k, !.wants = c,
                             !.quote = QuoteFor(k, c, quotes[k])]]
    /\ UNCHANGED <<deployed, clock, quotes, holds>>

\* lock_credit_account, waiting for whoever holds it.
TakeWallet(b) ==
    /\ buyer[b].at = "quoted"
    /\ \A o \in Buyers : ~buyer[o].wallet
    /\ buyer' = [buyer EXCEPT ![b].wallet = TRUE, ![b].at = "holding"]
    /\ UNCHANGED <<deployed, clock, quotes, holds>>

SameDeal(hold, q) == hold.quote = q.id /\ hold.amount = q.price.final

UsedElsewhere(b, q) == \E k \in QuoteKeys \ {buyer[b].key} :
    holds[k] # NoQuote /\ holds[k].quote = q.id

\* Faulty: the quote's own status is believed, which is stored as "quoted".
MayHoldStored(b) ==
    HoldSeen(b) = NoQuote /\ QuoteSeen(b).wants = buyer[b].wants
        /\ ~UsedElsewhere(b, QuoteSeen(b))

MayHold(b) ==
    /\ HoldSeen(b) = NoQuote
    /\ QuoteSeen(b).wants = buyer[b].wants
    /\ ~UsedElsewhere(b, QuoteSeen(b))
    /\ ~Expired(QuoteSeen(b))

\* The reservation and its binding, in one savepoint.
HoldPrice(b) ==
    /\ buyer[b].at = "holding"
    /\ MayHold(b)
    /\ buyer' = [buyer EXCEPT ![b].at = "held", ![b].hold =
         [quote |-> QuoteSeen(b).id, amount |-> QuoteSeen(b).price.final,
          made |-> clock, status |-> "reserved"]]
    /\ UNCHANGED <<deployed, clock, quotes, holds>>

\* The binding is there: the attempt gets the reservation it names.
HoldAgain(b) ==
    /\ buyer[b].at = "holding"
    /\ HoldSeen(b) # NoQuote
    /\ SameDeal(HoldSeen(b), QuoteSeen(b))
    /\ buyer' = [buyer EXCEPT ![b].at = "held"]
    /\ UNCHANGED <<deployed, clock, quotes, holds>>

\* commit_credit_reservation and release_credit_reservation, by whoever owns it.
SettleHold(b) ==
    /\ buyer[b].at = "held"
    /\ HoldSeen(b).status = "reserved"
    /\ \E status \in {"committed", "released"} :
         buyer' = [buyer EXCEPT ![b].hold = [HoldSeen(b) EXCEPT !.status = status]]
    /\ UNCHANGED <<deployed, clock, quotes, holds>>

EndDeal(b) ==
    /\ buyer[b].at # "out"
    /\ quotes' = [quotes EXCEPT ![buyer[b].key] = QuoteSeen(b)]
    /\ holds' = [holds EXCEPT ![buyer[b].key] = HoldSeen(b)]
    /\ buyer' = [buyer EXCEPT ![b] = NoDeal]
    /\ UNCHANGED <<deployed, clock>>

\* An error of any step, a crash or a lost connection.
DropDeal(b) ==
    /\ buyer[b].at # "out"
    /\ buyer' = [buyer EXCEPT ![b] = NoDeal]
    /\ UNCHANGED <<deployed, clock, quotes, holds>>

\* The servers are started again with another configuration; a book that does not
\* validate stops them from starting.
DeployBook ==
    /\ deployed' \in {b \in PriceBooks : ValidBook(b)} \ {deployed}
    /\ UNCHANGED <<clock, quotes, holds, buyer>>

PassTime ==
    /\ clock < MaxTime
    /\ clock' = clock + 1
    /\ UNCHANGED <<deployed, quotes, holds, buyer>>

PriceNext ==
    \/ \E b \in Buyers :
         \/ AskPrice(b) \/ TakeWallet(b)
         \/ HoldPrice(b) \/ HoldAgain(b) \/ SettleHold(b)
         \/ EndDeal(b) \/ DropDeal(b)
    \/ DeployBook \/ PassTime

PriceSpec == PriceInit /\ [][PriceNext]_priceVars

-----------------------------------------------------------------------------
(* Properties *)

\* A configuration that servers accept prices a request in one way, and no quote
\* is below what the answer may cost, by whatever its policies did to the price,
\* nor a credit or more above what it has to be.
PricesAreSound ==
    /\ \A c \in Conditions :
         /\ Cardinality(ModelsFor(deployed, c)) <= 1
         /\ \A i \in ModelsFor(deployed, c) :
              Cardinality(TiersFor(deployed.models[i], c)) <= 1
    /\ \A k \in QuoteKeys : quotes[k] # NoQuote =>
         LET p == quotes[k].price
             units == p.final * Scale * Scale * Scale
         IN  /\ units >= p.floor
             /\ units >= p.current * Scale * Scale
             /\ units - Scale * Scale * Scale < Dearer(p.current, p.floor)

\* What a buyer was shown stays: a request key keeps its quote, with the price and
\* the expiry it was made with, through retries and new price books.
QuotesStand ==
    [][\A k \in QuoteKeys : quotes[k] # NoQuote => quotes'[k] = quotes[k]]_priceVars

\* Credit is only held for a quote that has not expired, at its price, for the
\* conditions the attempt asked for, and one reservation goes to one quote.
HoldsFollowQuotes ==
    [][/\ \A b \in Buyers : buyer[b].hold = NoQuote /\ buyer'[b].hold # NoQuote
            /\ buyer'[b].hold.status = "reserved" =>
              /\ clock < QuoteSeen(b).expires
              /\ buyer'[b].hold.amount = QuoteSeen(b).price.final
              /\ buyer[b].wants = QuoteSeen(b).wants
       /\ \A k \in QuoteKeys : holds'[k] # NoQuote =>
              quotes'[k] # NoQuote /\ SameDeal(holds'[k], quotes'[k])
       /\ \A j, k \in QuoteKeys : holds'[j] # NoQuote /\ holds'[k] # NoQuote
            /\ holds'[j].quote = holds'[k].quote => j = k]_priceVars

\* What a step may not do to a quote, and to the credit held for it.
DealsStand == QuotesStand /\ HoldsFollowQuotes
===============================================================================

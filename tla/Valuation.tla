----------------------------- MODULE Valuation ------------------------------
(***************************************************************************)
(* The estimate of the value of one set in one condition                    *)
(* (price_estimator.py) from the metric rows of its markets, which a refresh *)
(* builds from listings (snapshot_builder.py) and an administrator submits   *)
(* one by one.  The estimator gets the newest row of each metric and market  *)
(* and makes one observation of the rows of a market with the same time.     *)
(*                                                                           *)
(* Prices are integers of the smallest unit; square roots have two decimals. *)
(***************************************************************************)
EXTENDS Rounding, FiniteSetsExt, Functions

CONSTANTS
    Bricklink, Ebay,  \* the markets that are refreshed
    OtherShops,       \* markets that only have submitted rows
    Batches,          \* answers of a provider: sequences of [price, sold]
    Submissions,      \* submitted rows: [metric, value, samples]
    NoRow              \* no row, or no valuation

Shops == {Bricklink, Ebay} \cup OtherShops

Metrics == {"fair_market_value", "median", "average", "low", "high"}

\* A market is refreshed with what it lists in the condition, if that is anything.
ASSUME MarketsAreSane ==
    /\ IsFiniteSet(OtherShops)
    /\ \A b \in Batches :
           /\ IsFiniteSet(DOMAIN b) /\ DOMAIN b # {}
           /\ \A i \in DOMAIN b : b[i].price \in Nat \ {0} /\ b[i].sold \in BOOLEAN
    /\ Submissions \subseteq [metric: Metrics, value: Nat, samples: Nat]
    /\ NoRow \notin Nat

VARIABLES
    market,   \* per shop, the rows of its last refresh and the row submitted since
    estimate

valueVars == <<market, estimate>>

-----------------------------------------------------------------------------
(* Tukey's rule and the median, used for listings and for observations.  The *)
(* prices are a function from listings or observations.                      *)

\* The k-th lowest price.
Nth(prices, k) ==
    CHOOSE p \in Range(prices) :
        /\ Cardinality({i \in DOMAIN prices : prices[i] < p}) < k
        /\ Cardinality({i \in DOMAIN prices : prices[i] <= p}) >= k

Count(prices) == Cardinality(DOMAIN prices)

\* Four times the quartile, with linear interpolation.
Quartile(prices, k) ==
    LET at   == k * (Count(prices) - 1)
        part == at % 4
        low  == Nth(prices, 1 + (at \div 4))
    IN  IF part = 0 THEN 4 * low
        ELSE (4 - part) * low + part * Nth(prices, 2 + (at \div 4))

MinSample == 4

\* The indices of the prices within the fences.
Fenced(prices) ==
    LET q1 == Quartile(prices, 1)
        q3 == Quartile(prices, 3)
    IN  IF Count(prices) < MinSample THEN DOMAIN prices
        ELSE {i \in DOMAIN prices :
                 /\ 8 * prices[i] >= 2 * q1 - 3 * (q3 - q1)
                 /\ 8 * prices[i] <= 2 * q3 + 3 * (q3 - q1)}

TwiceMedian(prices) ==
    LET n == Count(prices)
    IN  Nth(prices, (n + 1) \div 2) + Nth(prices, 1 + (n \div 2))

-----------------------------------------------------------------------------
(* The rows of a market *)

\* The metric rows of a refresh.
Build(batch) ==
    LET kept   == Fenced([i \in DOMAIN batch |-> batch[i].price])
        prices == [i \in kept |-> batch[i].price]
        n      == Cardinality(kept)
        middle == HalfUp(TwiceMedian(prices), 2)
        sold   == Cardinality({i \in kept : batch[i].sold})
    IN  [fair_market_value |-> middle, median |-> middle,
         average |-> HalfUp(MapThenSumSet(LAMBDA i : prices[i], kept), n),
         low |-> Min(Range(prices)), high |-> Max(Range(prices)),
         samples |-> n, sold |-> sold, active |-> n - sold]

Blank(samples) ==
    [fair_market_value |-> NoRow, median |-> NoRow, average |-> NoRow, low |-> NoRow,
     high |-> NoRow, samples |-> samples, sold |-> 0, active |-> 0]

\* The rows of a shop by their time.  A submitted row replaces that metric of
\* the refresh before it.
Groups(m, shop) ==
    LET built == m[shop].built
        row   == m[shop].row
    IN  (IF built = NoRow THEN {}
         ELSE {<<shop, "built", IF row = NoRow THEN built ELSE [built EXCEPT ![row.metric] = NoRow]>>})
        \cup (IF row = NoRow THEN {}
              ELSE {<<shop, "row", [Blank(row.samples) EXCEPT ![row.metric] = row.value]>>})

-----------------------------------------------------------------------------
(* The estimate *)

Representative(group) ==
    IF group.fair_market_value # NoRow THEN group.fair_market_value
    ELSE IF group.median # NoRow THEN group.median ELSE group.average

\* A bound of zero counts as missing.
OrPrice(bound, price) == IF bound \in {NoRow, 0} THEN price ELSE bound

ObservationSwapped(g) ==
    LET group == g[3]
        price == Representative(group)
    IN  [of |-> <<g[1], g[2]>>, price |-> price, low |-> OrPrice(group.high, price),
         high |-> OrPrice(group.low, price), samples |-> group.samples,
         sold |-> group.sold, active |-> group.active]

Observation(g) ==
    LET group == g[3]
        price == Representative(group)
    IN  [of |-> <<g[1], g[2]>>, price |-> price, low |-> OrPrice(group.low, price),
         high |-> OrPrice(group.high, price), samples |-> group.samples,
         sold |-> group.sold, active |-> group.active]

Observations(m) ==
    {Observation(g) : g \in {g \in UNION {Groups(m, s) : s \in Shops} : Representative(g[3]) # NoRow}}

PricesOf(obs) == [o \in obs |-> o.price]

Used(obs) == Fenced(PricesOf(obs))

\* One hundred times the square root.
Root == [n \in 1..100 |->
            CHOOSE r \in 100..1000 : r * r <= 10000 * n /\ (r + 1) * (r + 1) > 10000 * n]

MarketplaceWeight(shop) == IF shop = Bricklink THEN 23 ELSE IF shop = Ebay THEN 20 ELSE 18

EvidenceWeight(o) ==
    IF o.sold + o.active = 0 THEN 20
    ELSE (30 * o.sold + 20 * o.active) \div (o.sold + o.active)

Weight(o) ==
    MarketplaceWeight(o.of[1]) * Root[Between(1, o.samples, 100)] * EvidenceWeight(o)

Expected(obs) ==
    HalfUp(MapThenSumSet(LAMBDA o : o.price * Weight(o), obs), MapThenSumSet(Weight, obs))

\* Points off for the spread of the prices, in percent of their median.
Spread(obs) ==
    LET prices == {o.price : o \in obs}
        middle == TwiceMedian(PricesOf(obs))
    IN  IF middle = 0 THEN 0 ELSE (200 * (Max(prices) - Min(prices))) \div middle

ConfidenceOf(obs) ==
    LET samples == MapThenSumSet(LAMBDA o : o.samples, obs)
        sold    == MapThenSumSet(LAMBDA o : o.sold, obs)
        active  == MapThenSumSet(LAMBDA o : o.active, obs)
    IN  Min({50, 2 * samples}) + Min({20, 10 * Cardinality(obs)})
        + (IF sold + active > 0 THEN Min({10, 2 * sold}) ELSE 5)
        + 15 - Min({15, Spread(obs)})
        + 5

ConfidenceBand(score) == IF score >= 70 THEN "high" ELSE IF score >= 40 THEN "medium" ELSE "low"

EmptyEstimate ==
    [valued |-> FALSE, low |-> 0, expected |-> 0, high |-> 0, median |-> 0, listings |-> 0,
     score |-> 0, confidence |-> "low"]

\* The estimate from the observations that are used.
Summary(obs) ==
    [valued   |-> TRUE,
     low      |-> Min({o.low : o \in obs}),
     expected |-> Expected(obs),
     high     |-> Max({o.high : o \in obs}),
     median   |-> HalfUp(TwiceMedian(PricesOf(obs)), 2),
     listings |-> MapThenSumSet(LAMBDA o : o.samples, obs),
     score    |-> ConfidenceOf(obs),
     confidence |-> ConfidenceBand(ConfidenceOf(obs))]

EstimateFairValue(m) ==
    IF Observations(m) = {} THEN EmptyEstimate ELSE Summary(Used(Observations(m)))

-----------------------------------------------------------------------------
ValueInit ==
    /\ market = [s \in Shops |-> [built |-> NoRow, row |-> NoRow]]
    /\ estimate = EstimateFairValue(market)

\* A refresh stores all metrics; a row submitted before it is no longer the newest.
Refresh(shop, batch) ==
    /\ market' = [market EXCEPT ![shop] = [built |-> Build(batch), row |-> NoRow]]
    /\ estimate' = EstimateFairValue(market')

Submit(shop, row) ==
    /\ market' = [market EXCEPT ![shop].row = row]
    /\ estimate' = EstimateFairValue(market')

\* A day has passed: the older rows of the shop are stale.
Expire(shop) ==
    /\ market[shop] # [built |-> NoRow, row |-> NoRow]
    /\ market' = [market EXCEPT ![shop] =
                     IF @.built = NoRow THEN [@ EXCEPT !.row = NoRow]
                                       ELSE [@ EXCEPT !.built = NoRow]]
    /\ estimate' = EstimateFairValue(market')

ValueNext ==
    \/ \E s \in {Bricklink, Ebay}, b \in Batches : Refresh(s, b)
    \/ \E s \in Shops, r \in Submissions : Submit(s, r)
    \/ \E s \in Shops : Expire(s)

ValueSpec == ValueInit /\ [][ValueNext]_valueVars

-----------------------------------------------------------------------------
(* Properties *)

\* The value and the median lie between the low and the high of the estimate,
\* though the value is a weighted mean of the representative rows and the
\* bounds are the extremes of other rows, some of which are missing, replaced
\* or dropped with their market.
EstimateWithinBounds ==
    /\ estimate.low <= estimate.expected /\ estimate.expected <= estimate.high
    /\ estimate.low <= estimate.median /\ estimate.median <= estimate.high

\* Of four and more observations, one that disagrees with all others has no
\* part in the value.
OneOutlierIsHarmless ==
    \A odd \in Observations(market) :
        LET others == {o.price : o \in Observations(market) \ {odd}}
        IN  (Cardinality(Observations(market)) >= 4 /\ Cardinality(others) = 1 /\ odd.price \notin others)
            => estimate.expected \in others

\* An estimate is what its evidence says, and not what one piece of it says.
EstimateIsSound == EstimateWithinBounds /\ OneOutlierIsHarmless
=============================================================================

-------------------------- MODULE PortfolioAnalytics --------------------------
(***************************************************************************)
(* The figures of a portfolio: services/portfolio_analytics_service.py.    *)
(*                                                                         *)
(* Holdings change one at a time; each refresh computes everything anew    *)
(* from the holdings and the evidence of the market.  Values are integers  *)
(* of one unit, percentages integers of hundredths.                        *)
(***************************************************************************)
EXTENDS Rounding, Sequences, FiniteSetsExt, SequencesExt

CONSTANTS
    Places,         \* the rows a portfolio may have
    Goods,          \* holdings: the theme of the set, the value of a piece, Nothing
                    \* where it is missing, the quantity, whether the value is stale and
                    \* whether it is of low confidence (unsure)
    Markets,        \* evidence: the fair values of each day, listings seen lately,
                    \* sold and active listings behind the latest value
    Nothing

ASSUME AnalyticsConstants ==
    /\ IsFiniteSet(Places)
    /\ \A h \in Goods : h.unit \in Nat \cup {Nothing} /\ h.quantity \in Nat \ {0}
    /\ Markets \subseteq [days : Seq(Seq(Nat)), listings : Nat, sold : Nat, active : Nat]

VARIABLES
    held,           \* the holdings, Nothing where there is no row
    evidence,       \* of the set they are of
    latest          \* the figures of the last refresh

analyticsVars == <<held, evidence, latest>>

Percent(part, whole) == HalfUp(10000 * part, whole)

-----------------------------------------------------------------------------
(* One holding: _analyze_holding. *)

Valued(h) == h.unit # Nothing
ValueOf(h) == h.unit * h.quantity

MedianOf(day) ==
    LET sorted == SortSeq(day, <)  n == Len(day)
    IN  HalfUp(sorted[(n + 1) \div 2] + sorted[1 + (n \div 2)], 2)

\* _trend_from_snapshots: the first and the last daily median within the window.
TrendOf(days) ==
    LET first == MedianOf(Head(days))
        last == MedianOf(Last(days))
        change == Percent(last - first, first)
    IN  IF Len(days) < 2 THEN "insufficient_data"
        ELSE IF first = 0 THEN "insufficient_data"
        ELSE IF change >= 800 THEN "rising"
        ELSE IF change <= -800 THEN "falling" ELSE "flat"

\* _demand_signal: what is sold against what is offered.
Demand(e) ==
    IF e.sold + e.active = 0 THEN Nothing
    ELSE IF e.sold >= Max({3, e.active}) THEN "strong"
    ELSE IF e.active >= Max({3, 3 * e.sold}) THEN "weak" ELSE "moderate"

SupplyReliable(e) == e.listings >= 3

\* Mutant of Flags: a holding without a value is only of low confidence.
FlagsMissingValue(h) ==
    (IF ~Valued(h) \/ h.unsure THEN {"low_confidence_valuation"} ELSE {})
        \cup (IF h.stale THEN {"stale_valuation"} ELSE {})

Flags(h) ==
    (IF ~Valued(h) THEN {"insufficient_market_data"} ELSE {})
        \cup (IF ~Valued(h) \/ h.unsure THEN {"low_confidence_valuation"} ELSE {})
        \cup (IF h.stale THEN {"stale_valuation"} ELSE {})

\* What the market adds, for every holding of the set alike.
MarketFlags(e) ==
    (IF ~SupplyReliable(e) THEN {"marketplace_supply_unreliable"} ELSE {})
        \cup (IF TrendOf(e.days) = "insufficient_data" THEN {"insufficient_price_trend_data"} ELSE {})

-----------------------------------------------------------------------------
(* The portfolio: refresh_portfolio_analytics and _summary_metrics. *)

Rows(book) == {p \in Places : book[p] # Nothing}
ValuedRows(book) == {p \in Rows(book) : Valued(book[p])}
SumOf(book, rows) == MapThenSumSet(LAMBDA p : ValueOf(book[p]), rows)
TotalValue(book) == SumOf(book, ValuedRows(book))

\* A missing field is "Unknown"; the bucket of each key.
KeyOf(h, field) == IF h[field] = Nothing THEN "Unknown" ELSE h[field]

\* _allocation.
Allocation(book, field) ==
    LET total == TotalValue(book)
        Bucket(key) ==
            LET rows == {p \in Rows(book) : KeyOf(book[p], field) = key}
                value == SumOf(book, rows \cap ValuedRows(book))
            IN  [count |-> Cardinality(rows), value |-> value,
                 quantity |-> MapThenSumSet(LAMBDA p : book[p].quantity, rows),
                 unvalued |-> Cardinality(rows \ ValuedRows(book)),
                 percent |-> IF total > 0 THEN Percent(value, total) ELSE 0]
    IN  [key \in {KeyOf(book[p], field) : p \in Rows(book)} |-> Bucket(key)]

\* The k highest values of a book, with repetitions.
Highest(book, k) ==
    LET rows == ValuedRows(book)
        ranked == SortSeq(SetToSeq({<<ValueOf(book[p]), p>> : p \in rows}), LAMBDA a, b : a[1] > b[1])
    IN  [i \in 1..Min({k, Len(ranked)}) |-> ranked[i][1]]

Largest(book) == Highest(book, 1)[1]

\* The Herfindahl index: the sum of the squared percentages, in hundredths.
Hhi(book) ==
    LET total == TotalValue(book)
    IN  IF total = 0 THEN 0
        ELSE HalfUp(1000000 * MapThenSumSet(LAMBDA p : ValueOf(book[p]) * ValueOf(book[p]),
                                            ValuedRows(book)), total * total)

\* _concentration.
Concentration(book) ==
    LET total == TotalValue(book)
        largest == IF total > 0 THEN Percent(Largest(book), total) ELSE 0
        top == Highest(book, 3)
    IN  [hhi |-> Hhi(book), largest |-> largest,
         topThree |-> IF total > 0 THEN Percent(FoldSeq(+, 0, top), total) ELSE 0,
         level |-> IF largest >= 4000 \/ Hhi(book) >= 250000 THEN "high"
                   ELSE IF largest >= 2000 \/ Hhi(book) >= 150000 THEN "moderate" ELSE "low"]

Figures(book, e) ==
    [count |-> Cardinality(Rows(book)), valued |-> Cardinality(ValuedRows(book)),
     total |-> TotalValue(book), themes |-> Allocation(book, "theme"),
     concentration |-> Concentration(book),
     trend |-> TrendOf(e.days), demand |-> Demand(e),
     flags |-> [p \in Rows(book) |-> Flags(book[p]) \cup MarketFlags(e)],
     attention |-> [f \in {"insufficient_market_data", "stale_valuation",
                           "low_confidence_valuation"} |->
                       {p \in Rows(book) : f \in Flags(book[p])}],
     coverage |-> IF Rows(book) = {} THEN 0
                  ELSE Percent(Cardinality(ValuedRows(book)), Cardinality(Rows(book)))]

-----------------------------------------------------------------------------
AnalyticsInit ==
    /\ held = [p \in Places |-> Nothing]
    /\ evidence \in Markets
    /\ latest = Figures(held, evidence)

\* A refresh after a row was added, changed, revalued or dropped.
Write(p, h) ==
    /\ held' = [held EXCEPT ![p] = h]
    /\ latest' = Figures(held', evidence)
    /\ UNCHANGED evidence

\* A refresh after the market has moved.
Observe(e) ==
    /\ evidence' = e
    /\ latest' = Figures(held, e)
    /\ UNCHANGED held

AnalyticsNext ==
    \/ \E p \in Places, h \in Goods \cup {Nothing} : h # held[p] /\ Write(p, h)
    \/ \E e \in Markets : e # evidence /\ Observe(e)

AnalyticsSpec == AnalyticsInit /\ [][AnalyticsNext]_analyticsVars

-----------------------------------------------------------------------------
(* Properties. *)

\* Every holding is in one bucket of an allocation and counts once: counts,
\* values and percentages add up to those of the portfolio, whichever fields and
\* valuations are missing, and what has no value is what the report asks for.
NothingIsCountedTwice ==
    LET buckets == latest.themes
        Sum(Of(_)) == MapThenSumSet(LAMBDA k : Of(buckets[k]), DOMAIN buckets)
    IN  /\ Sum(LAMBDA b : b.count) = latest.count
        /\ Sum(LAMBDA b : b.value) = latest.total
        /\ Sum(LAMBDA b : b.unvalued) = Cardinality(latest.attention["insufficient_market_data"])
        /\ latest.total > 0 =>
               Sum(LAMBDA b : b.percent) - 10000 \in -Cardinality(DOMAIN buckets)..Cardinality(DOMAIN buckets)

=============================================================================

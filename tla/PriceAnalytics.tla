--------------------------- MODULE PriceAnalytics ---------------------------
(***************************************************************************)
(* What is shown of the price history of a set                             *)
(* (services/price_analytics_service.py), while new observations arrive    *)
(* and old ones are compacted into rollups, which HistoryRollups is about. *)
(*                                                                         *)
(* A behaviour is about one condition, metric and currency.  Values are    *)
(* integers of cents, percentages integers of hundredths.  A day has       *)
(* DayLength moments, a month MonthLength days and a week WeekLength: a    *)
(* cutoff may leave a day in part, as may a run of the script at noon.     *)
(***************************************************************************)
EXTENDS Rounding, FiniteSets, FiniteSetsExt

CONSTANTS
    Shelves,        \* marketplaces
    Asked,          \* values that may be observed
    Sampled,        \* sample counts that may come with them
    DayLength, MonthLength, WeekLength,
    LastMoment,     \* bound: the clock
    Retrieved,      \* the times observations are given, past or not
    MaxObserved,    \* bound: observations
    Catalog,        \* of the set: [msrp, complete, flagged], msrp NoFigure if unknown
    NoFigure

ASSUME PriceConstants ==
    /\ Asked \subseteq Nat /\ Sampled \subseteq Nat
    /\ {DayLength, MonthLength, WeekLength} \subseteq Nat \ {0}
    /\ {LastMoment, MaxObserved} \subseteq Nat /\ Retrieved \subseteq Nat
    /\ Catalog.msrp \in Nat \cup {NoFigure}

VARIABLES
    now,
    observed,       \* raw rows: [when, shelf, value, samples]
    months, weeks,  \* rollups by shelf and first day: [average, count]
    shown           \* what the page shows

historyVars == <<now, observed, months, weeks, shown>>

\* _utc_date.
DayOf(o) == o.when \div DayLength

\* _period_start.
FirstOf(length, d) == d - (d % length)

\* Mutant of Series: weekly rollups are read as well.
SeriesWithWeeks(rows, monthly, weekly) ==
    {[day |-> DayOf(o), of |-> <<"row", o.shelf, o.when>>, value |-> o.value] : o \in rows}
        \cup {[day |-> k[2], of |-> <<"month", k[1]>>, value |-> monthly[k].average] : k \in DOMAIN monthly}
        \cup {[day |-> k[2], of |-> <<"week", k[1]>>, value |-> weekly[k].average] : k \in DOMAIN weekly}

\* Monthly rollups stand at the first day of their month, beside the raw rows.
Series(rows, monthly, weekly) ==
    {[day |-> DayOf(o), of |-> <<"row", o.shelf, o.when>>, value |-> o.value] : o \in rows}
        \cup {[day |-> k[2], of |-> <<"month", k[1]>>, value |-> monthly[k].average] : k \in DOMAIN monthly}

MeanOf(values) == HalfUp(MapThenSumSet(LAMBDA v : v.value, values), Cardinality(values))

\* _daily_points.
Points(series) ==
    [d \in {v.day : v \in series} |-> MeanOf({v \in series : v.day = d})]

\* _rolling_average over the last days.
Rolling(points, today, days) ==
    LET within == {d \in DOMAIN points : d > today - days}
    IN  IF within = {} THEN NoFigure
        ELSE HalfUp(MapThenSumSet(LAMBDA d : points[d], within), Cardinality(within))

\* _latest_by_marketplace.
LatestRows(rows) == {o \in rows : \A q \in rows : q.shelf = o.shelf => q.when <= o.when}

PercentOf(part, whole) == HalfUp(10000 * part, whole)

\* _confidence_band.
BandOf(points, latest, catalog) ==
    1 + Cardinality({i \in 1..4 :
            CASE i = 1 -> Cardinality(DOMAIN points) >= 3
              [] i = 2 -> Cardinality(latest) >= 2
              [] i = 3 -> MapThenSumSet(LAMBDA o : o.samples, latest) >= 10
              [] i = 4 -> catalog.complete /\ ~catalog.flagged})

\* The observations that monthly rollups stand for.
Compacted(monthly) == MapThenSumSet(LAMBDA k : monthly[k].count, DOMAIN monthly)

\* calculate_price_analytics.
Analytics(today, rows, monthly, weekly) ==
    LET points == Points(Series(rows, monthly, weekly))
        latest == LatestRows(rows)
        values == {o.value : o \in latest}
        last == IF DOMAIN points = {} THEN NoFigure ELSE points[Max(DOMAIN points)]
        high == IF DOMAIN points = {} THEN NoFigure ELSE Max({points[d] : d \in DOMAIN points})
    IN  [observations |-> Cardinality(rows) + Compacted(monthly),
         points |-> Cardinality(DOMAIN points),
         last |-> last, high |-> high,
         drawdown |-> IF high \in {NoFigure, 0} THEN NoFigure ELSE PercentOf(last - high, high),
         rolling |-> [d \in {1, MonthLength} |-> Rolling(points, today, d)],
         spread |-> IF values = {} THEN NoFigure ELSE Max(values) - Min(values),
         liquidity |-> Min({100, 25 * Cardinality(latest)
                                 + Min({25, MapThenSumSet(LAMBDA o : o.samples, latest)})
                                 + Min({25, 5 * Cardinality({d \in DOMAIN points : d >= today - MonthLength})})}),
         overMsrp |-> IF last = NoFigure \/ Catalog.msrp = NoFigure THEN NoFigure
                      ELSE last - Catalog.msrp,
         band |-> BandOf(points, latest, Catalog)]

-----------------------------------------------------------------------------
HistoryInit ==
    /\ now = 0
    /\ observed = {}
    /\ months = <<>> /\ weeks = <<>>
    /\ shown = Analytics(0, {}, <<>>, <<>>)

Look == shown' = Analytics(now' \div DayLength, observed', months', weeks')

TimePasses == now < LastMoment /\ now' = now + 1 /\ UNCHANGED <<observed, months, weeks>> /\ Look

\* How many observations there have been.
Written == Cardinality(observed) + Compacted(months)

\* create_price_snapshot, with any retrieval time, one that has passed or not; two of
\* one marketplace with the same are refused.
RecordPrice(when, shelf, value, samples) ==
    /\ Written < MaxObserved
    /\ \A o \in observed : ~(o.shelf = shelf /\ o.when = when)
    /\ observed' = observed \cup {[when |-> when, shelf |-> shelf, value |-> value,
                                   samples |-> samples]}
    /\ UNCHANGED <<now, months, weeks>> /\ Look

\* _build_rollups, by shelf.
RollupsOf(rows, length) ==
    [k \in {<<o.shelf, FirstOf(length, DayOf(o))>> : o \in rows} |->
        LET group == {o \in rows : o.shelf = k[1] /\ FirstOf(length, DayOf(o)) = k[2]}
        IN  [average |-> MeanOf(group), count |-> Cardinality(group)]]

\* They replace older ones.
Replaced(old, new) ==
    [k \in DOMAIN old \cup DOMAIN new |-> IF k \in DOMAIN new THEN new[k] ELSE old[k]]

\* A run of the retention script, whose cutoff may be within a day.
Compact(cutoff) ==
    LET old == {o \in observed : o.when < cutoff} IN
    /\ cutoff <= now /\ old # {}
    /\ months' = Replaced(months, RollupsOf(old, MonthLength))
    /\ weeks' = Replaced(weeks, RollupsOf(old, WeekLength))
    /\ observed' = observed \ old
    /\ UNCHANGED now /\ Look

HistoryNext ==
    \/ TimePasses
    \/ \E when \in Retrieved, shelf \in Shelves, value \in Asked, samples \in Sampled :
           RecordPrice(when, shelf, value, samples)
    \/ \E cutoff \in 1..LastMoment : Compact(cutoff)

HistorySpec == HistoryInit /\ [][HistoryNext]_historyVars

-----------------------------------------------------------------------------
(* Properties. *)

Dropped == observed \ observed'

\* The days that a step leaves in part.
SplitDays == {DayOf(o) : o \in observed'} \cap {DayOf(o) : o \in Dropped}

\* No observation more, and at most one point, of the month of a day left in part; the
\* latest value while a row is left of a later day than all that were dropped.
NothingIsAdded ==
    Dropped # {} =>
        /\ shown'.observations <= shown.observations
        /\ shown'.points <= shown.points + (IF SplitDays = {} THEN 0 ELSE 1)
        /\ (\E o \in observed' : \A q \in Dropped : DayOf(q) < DayOf(o)) =>
               shown'.last = shown.last

\* price_analytics_service.py:308-309: weekly rows are "not combined here so a period
\* is never counted twice".  However late prices come and wherever a cutoff falls,
\* nothing counts twice in what is shown: every point of the series has an
\* observation of its own, and a compaction adds no observation and no point but
\* one, when it leaves a day in part; what it drops is not what was the latest value
\* while later rows are left.
CompactionAddsNothing ==
    [][NothingIsAdded /\ shown'.points <= shown'.observations]_historyVars
=============================================================================

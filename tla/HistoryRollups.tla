--------------------------- MODULE HistoryRollups ---------------------------
(***************************************************************************)
(* Retention of price observations and of portfolio valuations: a run      *)
(* loads what is older than its cutoff, stores rollups by calendar period, *)
(* and deletes what is older than the cutoff, in one transaction.          *)
(* services/price_snapshot_retention.py, services/portfolio_valuation_     *)
(* retention.py, the two scripts that run them, and their repository       *)
(* functions.                                                              *)
(*                                                                         *)
(* The tables are alike and independent, so a behaviour is about one: the  *)
(* observations of one price series, or the valuations of one user.  An    *)
(* observation is known by its time.  A price rollup is known by the       *)
(* observations it was computed from, of which its averages, bounds and    *)
(* counts are functions, and a daily rollup by the valuation it copies.    *)
(* Two runs may overlap; a row one has written is locked until it ends.    *)
(***************************************************************************)
EXTENDS Integers, FiniteSets, FiniteSetsExt

CONSTANTS
    MaxTime,        \* bound: the clock
    Lengths,        \* of the calendar periods of price rollups
    Day,            \* length of a day
    Keep,           \* the retention time
    Runs,           \* runs of the script that may be under way together
    MaxLate         \* bound: observations submitted with a time in the past

ASSUME LengthsArePositive ==
    /\ Lengths \subseteq Nat \ {0} /\ Day \in Nat \ {0} /\ Keep \in Nat \ {0}
    /\ MaxTime \in Nat /\ MaxLate \in Nat

Times == 0..MaxTime

VARIABLES
    kind,       \* the table: prices or values
    clock,
    raw,        \* price_snapshots or portfolio_valuation_snapshots
    rollup,     \* what each rollup of it was computed from
    stage,         \* how far each run is
    cutoff, read,   \* its cutoff and what it has loaded
    known,      \* the rollups it found when it looked them up
    stored, cut,    \* the rollups it has written and the rows it has deleted
    late,       \* history: observations that came while a run was under way
    gone,       \* history: what was deleted
    overlapped, \* history: two runs were under way together
    lateness

run == <<cutoff, read, known, stored, cut>>
rollupVars == <<kind, clock, raw, rollup, stage, cutoff, read, known, stored, cut, late,
          gone, overlapped, lateness>>

\* _period_start, for a period of length l.
StartOf(l, t) == t - (t % l)
Keys == {<<l, StartOf(l, t)>> : l \in Lengths \cup {Day}, t \in Times}
PeriodsOf(k) == IF k = "prices" THEN Lengths ELSE {Day}
KeysOf(observed) == {<<l, StartOf(l, t)>> : l \in PeriodsOf(kind), t \in observed}

\* The observations of one period.
Group(k, observed) == {t \in observed : StartOf(k[1], t) = k[2]}

Busy == {r \in Runs : stage[r] \notin {"idle", "failed"}}

RollupInit ==
    /\ kind \in {"prices", "values"}
    /\ clock = 0
    /\ raw = {}
    /\ rollup = [k \in Keys |-> {}]
    /\ stage = [r \in Runs |-> "idle"]
    /\ cutoff = [r \in Runs |-> 0]
    /\ read = [r \in Runs |-> {}]
    /\ known = [r \in Runs |-> rollup]
    /\ stored = [r \in Runs |-> rollup]
    /\ cut = [r \in Runs |-> {}]
    /\ late = {} /\ gone = {}
    /\ overlapped = FALSE /\ lateness = 0

-----------------------------------------------------------------------------
(* New observations. *)

Tick ==
    /\ clock < MaxTime
    /\ clock' = clock + 1
    /\ UNCHANGED <<kind, raw, rollup, stage, late, gone, overlapped, lateness>>
    /\ UNCHANGED run

\* create_price_snapshot, with the time of the observation or an earlier one;
\* each time is submitted once.
Observe(t) ==
    /\ kind = "prices"
    /\ t <= clock /\ t \notin raw \cup gone
    /\ lateness' = IF t < clock THEN lateness + 1 ELSE lateness
    /\ lateness' <= MaxLate
    /\ raw' = raw \cup {t}
    /\ late' = IF Busy # {} THEN late \cup {t} ELSE late
    /\ UNCHANGED <<kind, clock, rollup, stage, gone, overlapped>>
    /\ UNCHANGED run

\* create_user_valuation_snapshot, once per hour.
ValueNow ==
    /\ kind = "values"
    /\ clock \notin raw
    /\ raw' = raw \cup {clock}
    /\ UNCHANGED <<kind, clock, rollup, stage, late, gone, overlapped, lateness>>
    /\ UNCHANGED run

-----------------------------------------------------------------------------
(* A run. *)

Cutoff == clock - Keep

\* The cutoff is taken and what is older is loaded.
BeginRun(r) ==
    /\ stage[r] = "idle" /\ clock >= Keep
    /\ stage' = [stage EXCEPT ![r] = "look"]
    /\ cutoff' = [cutoff EXCEPT ![r] = Cutoff]
    /\ read' = [read EXCEPT ![r] = {t \in raw : t < Cutoff}]
    /\ overlapped' = (overlapped \/ Busy # {})
    /\ UNCHANGED <<kind, clock, raw, rollup, known, stored, cut, late, gone, lateness>>

\* The rollups of its periods are looked up.
LookUp(r) ==
    /\ stage[r] = "look"
    /\ stage' = [stage EXCEPT ![r] = "write"]
    /\ known' = [known EXCEPT ![r] = rollup]
    /\ UNCHANGED <<kind, clock, raw, rollup, cutoff, read, stored, cut, late, gone,
                   overlapped, lateness>>

Nothing == [k \in Keys |-> {}]

End(r, how) ==
    /\ stage' = [stage EXCEPT ![r] = how]
    /\ cutoff' = [cutoff EXCEPT ![r] = 0]
    /\ read' = [read EXCEPT ![r] = {}]
    /\ known' = [known EXCEPT ![r] = Nothing]
    /\ stored' = [stored EXCEPT ![r] = Nothing]
    /\ cut' = [cut EXCEPT ![r] = {}]

\* setdefault over a list in descending order keeps the latest of each day.
LatestOf(observed) == {Max(observed)}

\* A price rollup replaces the one of its period (upsert_price_snapshot_rollup),
\* a daily rollup an older valuation (upsert_portfolio_daily_rollup).
Rolled(r, k) ==
    LET observed == Group(k, read[r]) IN
    IF k \notin KeysOf(read[r]) THEN {}
    ELSE IF kind = "prices" THEN observed
    ELSE IF known[r][k] # {} /\ Max(known[r][k]) >= Max(observed) THEN {}
    ELSE LatestOf(observed)

\* The rows are flushed, after those another run has written are free.  A row
\* inserted since the look-up violates the unique constraint: the script fails.
WriteRollup(r) ==
    /\ stage[r] = "write"
    /\ \A q \in Runs \ {r}, k \in KeysOf(read[r]) : stored[q][k] = {}
    /\ IF \E k \in KeysOf(read[r]) : known[r][k] = {} /\ rollup[k] # {}
       THEN End(r, "failed")
       ELSE /\ stage' = [stage EXCEPT ![r] = "delete"]
            /\ stored' = [stored EXCEPT ![r] = [k \in Keys |-> Rolled(r, k)]]
            /\ UNCHANGED <<cutoff, read, known, cut>>
    /\ UNCHANGED <<kind, clock, raw, rollup, late, gone, overlapped, lateness>>

\* Mutant of Expired: the time is taken again for the deletion.
ExpiredNow(r) == {t \in raw : t < clock - Keep}

Expired(r) == {t \in raw : t < cutoff[r]}

\* DELETE of the rows older than the cutoff, whether they were loaded or not,
\* after those another run has deleted are free.
Delete(r) ==
    /\ stage[r] = "delete"
    /\ \A q \in Runs \ {r} : cut[q] \cap Expired(r) = {}
    /\ stage' = [stage EXCEPT ![r] = "commit"]
    /\ cut' = [cut EXCEPT ![r] = Expired(r)]
    /\ UNCHANGED <<kind, clock, raw, rollup, cutoff, read, known, stored, late, gone,
                   overlapped, lateness>>

CommitRun(r) ==
    /\ stage[r] = "commit"
    /\ rollup' = [k \in Keys |-> IF stored[r][k] = {} THEN rollup[k] ELSE stored[r][k]]
    /\ raw' = raw \ cut[r]
    /\ gone' = gone \cup cut[r]
    /\ End(r, "idle")
    /\ UNCHANGED <<kind, clock, late, overlapped, lateness>>

\* The script raises or is stopped.
CrashRun(r) ==
    /\ r \in Busy
    /\ End(r, "failed")
    /\ UNCHANGED <<kind, clock, raw, rollup, late, gone, overlapped, lateness>>

\* The scheduler starts it again.
Again(r) ==
    /\ stage[r] = "failed"
    /\ End(r, "idle")
    /\ UNCHANGED <<kind, clock, raw, rollup, late, gone, overlapped, lateness>>

RollupNext ==
    \/ Tick \/ ValueNow \/ \E t \in Times : Observe(t)
    \/ \E r \in Runs : \/ BeginRun(r) \/ LookUp(r) \/ WriteRollup(r) \/ Delete(r)
                       \/ CommitRun(r) \/ CrashRun(r) \/ Again(r)

RollupSpec == RollupInit /\ [][RollupNext]_rollupVars

-----------------------------------------------------------------------------
(* Properties. *)

\* docs/advanced-pricing-analytics.md:5: raw observations "are first compacted
\* into both weekly and monthly rollups and are only then deleted", and
\* docs/portfolio-historical-tracking.md:11 for valuations.  Whatever is deleted
\* has a rollup of each of its periods, unless it was submitted, with a time in
\* the past, while a run was between its load and its deletion.
NothingDeletedUncompacted ==
    \A t \in gone \ late, l \in PeriodsOf(kind) : rollup[<<l, StartOf(l, t)>>] # {}

\* docs/advanced-pricing-analytics.md:22: rollups are read beside the raw rows,
\* and "the same observation is never counted twice".
NeverCountedTwice == \A k \in Keys : rollup[k] \cap raw = {}

\* docs/portfolio-historical-tracking.md:12: "the latest snapshot for each user
\* and calendar day is stored as a daily rollup", also of a day that is pruned
\* in parts by several runs, provided they do not overlap.
DayKeepsItsLatest ==
    kind = "values" /\ ~overlapped =>
        \A k \in Keys : Group(k, gone) # {} /\ k[1] = Day =>
            rollup[k] = {Max(Group(k, gone))}

\* Retention loses nothing and doubles nothing: what has left the raw rows is in
\* the rollups of its periods, what is in a rollup has left the raw rows, and a
\* day keeps its last valuation, although runs overlap, fail and start again.
RetentionIsExact == NothingDeletedUncompacted /\ NeverCountedTwice /\ DayKeepsItsLatest

\* docs/advanced-pricing-analytics.md:7: "Re-running compaction replaces the
\* same rollup, making the operation safe to retry."  A rollup covers all
\* observations deleted in its period.
RollupsCoverTheirPeriods ==
    kind = "prices" /\ late = {} /\ ~overlapped =>
        \A k \in Keys : k[1] \in Lengths => Group(k, gone) \subseteq rollup[k]
=============================================================================

-------------------------- MODULE MarketDataProofs --------------------------
(***************************************************************************)
(* RetentionIsExact of HistoryRollups, for any clock, calendar periods,    *)
(* retention time, number of runs and of late observations;                *)
(* RowsTellTheirSource of ListingIntake, for any addresses, listings and   *)
(* requests; EarlierSetsSurvive of MarketplaceRefresh, for any sets,       *)
(* providers, processes and requests; PurchasesAddUp of PartPurchases, for *)
(* any sets, prices and requests; and AdmissionsAreBounded of RateLimits,  *)
(* for any clients, processes, quotas and windows.  The components share   *)
(* no variable; each has its invariant.                                    *)
(*                                                                         *)
(* A run of the retention deletes by its cutoff, not by what it has        *)
(* loaded.  The argument is that the two differ only by what came late: a  *)
(* row older than the cutoff was there when the run loaded, unless another *)
(* run has deleted it since.  What a run has loaded is therefore deleted   *)
(* by the time it commits, and what it deletes has been loaded.            *)
(***************************************************************************)
EXTENDS HistoryRollups, ListingIntake, MarketplaceRefresh, PartPurchases, RateLimits, Sums,
        FiniteSetTheorems, NaturalsInduction, TLAPS, WellFoundedInduction

Stages == {"idle", "look", "write", "delete", "commit", "failed"}

\* Every variable stays within its type.
RollupTypeOK ==
    /\ kind \in {"prices", "values"}
    /\ clock \in Times
    /\ raw \subseteq Times
    /\ rollup \in [Keys -> SUBSET Times]
    /\ stage \in [Runs -> Stages]
    /\ cutoff \in [Runs -> Times]
    /\ read \in [Runs -> SUBSET Times]
    /\ known \in [Runs -> [Keys -> SUBSET Times]]
    /\ stored \in [Runs -> [Keys -> SUBSET Times]]
    /\ cut \in [Runs -> SUBSET Times]
    /\ late \subseteq Times
    /\ gone \subseteq Times
    /\ overlapped \in BOOLEAN
    /\ lateness \in Nat

\* What is deleted is past and not in the table, and a rollup is made of
\* deleted rows of its period.
TableInv ==
    /\ raw \cap gone = {}
    /\ \A t \in raw : t <= clock
    /\ \A t \in gone : t < clock
    /\ \A k \in Keys : rollup[k] \subseteq Group(k, gone)
    /\ kind = "values" => late = {}

\* What run r knows of the table.
RunInv(r) ==
    /\ r \in Busy =>
           /\ cutoff[r] <= clock - Keep
           /\ \A t \in read[r] : t < cutoff[r]
           /\ read[r] \subseteq raw \cup gone
           /\ \A t \in raw \ late : t < cutoff[r] => t \in read[r]
    /\ stage[r] \in {"write", "delete", "commit"} =>
           \A k \in Keys : known[r][k] # {} => rollup[k] # {}
    /\ stage[r] \in {"delete", "commit"} =>
           \A k \in Keys : stored[r][k] = Rolled(r, k)
    /\ stage[r] = "commit" =>
           /\ \A t \in cut[r] : t < cutoff[r]
           /\ cut[r] \subseteq read[r] \cup late
           /\ read[r] \subseteq cut[r] \cup gone

\* A run that has the table to itself knows all of it.
AloneInv(r) ==
    ~overlapped /\ r \in Busy =>
        /\ Busy = {r}
        /\ read[r] \subseteq raw
        /\ stage[r] \in {"write", "delete", "commit"} => known[r] = rollup
        /\ kind = "values" /\ stage[r] = "commit" => cut[r] = read[r]

Inv ==
    /\ RollupTypeOK
    /\ TableInv
    /\ \A r \in Runs : RunInv(r) /\ AloneInv(r)
    /\ RetentionIsExact

-----------------------------------------------------------------------------
(* The operators of the model. *)

\* A nonempty set of times has a latest one.
LEMMA LatestExists ==
    ASSUME NEW S, S \subseteq Times, S # {}
    PROVE  Max(S) \in S /\ \A x \in S : x <= Max(S)
<1> DEFINE Left == {MaxTime - x : x \in S}
<1>1. \A x \in S : x \in 0..MaxTime
  BY DEF Times
<1>2. Left \subseteq Nat /\ Left # {}
  BY <1>1, LengthsArePositive
<1>3. PICK m \in Left : \A n \in Left : <<n, m>> \notin OpToRel(<, Nat)
  BY <1>2, NatLessThanWellFounded, WFMin
<1>4. \A n \in Left : ~(n < m)
  BY <1>2, <1>3 DEF OpToRel
<1>5. PICK x \in S : m = MaxTime - x
  OBVIOUS
<1>6. \A y \in S : x >= y
  <2> SUFFICES ASSUME NEW y \in S PROVE x >= y
    OBVIOUS
  <2>1. ~(MaxTime - y < m)
    BY <1>4
  <2> QED
    BY <1>1, <1>5, <2>1, LengthsArePositive
<1>7. Max(S) \in S /\ \A y \in S : Max(S) >= y
  BY <1>6 DEF Max
<1> QED
  BY <1>1, <1>7

\* An observation is in one group of each length, whose key is a key.
LEMMA GroupOf ==
    ASSUME NEW S, S \subseteq Times, NEW t \in S, NEW l \in PeriodsOf(kind)
    PROVE  /\ <<l, StartOf(l, t)>> \in Keys
           /\ <<l, StartOf(l, t)>> \in KeysOf(S)
BY DEF Keys, KeysOf, PeriodsOf

\* A key of some observations has some of them in its group, and every other
\* day has none.
LEMMA KeyOf ==
    ASSUME NEW S, NEW k \in Keys
    PROVE  /\ k \in KeysOf(S) => Group(k, S) # {}
           /\ kind = "values" /\ k[1] = Day /\ k \notin KeysOf(S) => Group(k, S) = {}
<1>1. k \in KeysOf(S) => Group(k, S) # {}
  BY DEF KeysOf, Group
<1>2. ASSUME kind = "values", k[1] = Day, NEW t \in Group(k, S) PROVE k \in KeysOf(S)
  <2>1. k = <<k[1], k[2]>>
    BY DEF Keys
  <2>2. k = <<Day, StartOf(Day, t)>> /\ t \in S
    BY <1>2, <2>1 DEF Group
  <2> QED
    BY <1>2, <2>2 DEF KeysOf, PeriodsOf
<1> QED
  BY <1>1, <1>2

\* A rollup is made of observations of its period, and if a run writes none
\* for one of its periods, there was one.
LEMMA RolledOf ==
    ASSUME RollupTypeOK, NEW r \in Runs, NEW k \in Keys
    PROVE  /\ Rolled(r, k) \subseteq Group(k, read[r])
           /\ k \in KeysOf(read[r]) => Rolled(r, k) # {} \/ known[r][k] # {}
<1>1. k \in KeysOf(read[r]) =>
          /\ Group(k, read[r]) # {}
          /\ Max(Group(k, read[r])) \in Group(k, read[r])
  <2>1. Group(k, read[r]) \subseteq Times
    BY DEF RollupTypeOK, Group
  <2> QED
    BY <2>1, KeyOf, LatestExists
<1> QED
  BY <1>1 DEF Rolled, LatestOf

\* What a run would write depends on what it has loaded and found.
LEMMA RolledKept ==
    ASSUME NEW r \in Runs, read'[r] = read[r], known'[r] = known[r], kind' = kind
    PROVE  \A k \in Keys : Rolled(r, k)' = Rolled(r, k)
BY DEF Rolled, KeysOf, PeriodsOf, Group, LatestOf

-----------------------------------------------------------------------------
\* Initially the table is empty and no run is under way.
LEMMA InitInv == RollupInit => Inv
<1> SUFFICES ASSUME RollupInit PROVE Inv
  OBVIOUS
<1> USE DEF RollupInit
<1>1. RollupTypeOK
  <2>1. clock \in Times /\ \A r \in Runs : cutoff[r] \in Times
    BY LengthsArePositive DEF Times
  <2>2. rollup \in [Keys -> SUBSET Times]
    OBVIOUS
  <2>3. known \in [Runs -> [Keys -> SUBSET Times]] /\ stored = known
    BY <2>2
  <2> QED
    BY <2>1, <2>2, <2>3 DEF RollupTypeOK, Stages
<1>2. TableInv
  BY DEF TableInv
<1>3. \A r \in Runs : RunInv(r) /\ AloneInv(r)
  BY DEF RunInv, AloneInv, Busy
<1>4. RetentionIsExact
  BY DEF RetentionIsExact, NothingDeletedUncompacted, NeverCountedTwice,
         DayKeepsItsLatest, Group
<1> QED
  BY <1>1, <1>2, <1>3, <1>4 DEF Inv

\* Nothing happens to run r, and the table only gains rows that run r need not
\* have loaded.
LEMMA Undisturbed ==
    ASSUME Inv, NEW r \in Runs,
           stage' = stage, UNCHANGED run, UNCHANGED <<kind, rollup, gone, overlapped>>,
           clock' \in Times, clock <= clock', raw' \subseteq Times, raw \subseteq raw',
           late \subseteq late',
           \A t \in raw' \ late' : t \in raw \/ clock <= t
    PROVE  RunInv(r)' /\ AloneInv(r)'
<1>1. Busy' = Busy
  BY DEF Busy
<1>2. \A k \in Keys : Rolled(r, k)' = Rolled(r, k)
  BY RolledKept DEF run
<1>3. r \in Busy =>
          /\ cutoff'[r] <= clock' - Keep
          /\ \A t \in raw' \ late' : t < cutoff'[r] => t \in read'[r]
  <2> SUFFICES ASSUME r \in Busy
               PROVE  /\ cutoff[r] <= clock' - Keep
                      /\ \A t \in raw' \ late' : t < cutoff[r] => t \in read[r]
    BY DEF run
  <2>1. cutoff[r] <= clock - Keep /\ \A t \in raw \ late : t < cutoff[r] => t \in read[r]
    BY DEF Inv, RunInv
  <2>2. clock \in Int /\ clock' \in Int /\ Keep \in Nat \ {0} /\ cutoff[r] \in Int
    BY LengthsArePositive DEF Inv, RollupTypeOK, Times
  <2>3. cutoff[r] <= clock' - Keep /\ cutoff[r] < clock
    BY <2>1, <2>2
  <2>4. ASSUME NEW t \in raw' \ late', t < cutoff[r] PROVE t \in read[r]
    <3>1. t \in Int /\ t < clock
      BY <2>2, <2>3, <2>4 DEF Times
    <3>2. t \in raw \ late
      BY <2>2, <3>1
    <3> QED
      BY <2>1, <2>4, <3>2
  <2> QED
    BY <2>3, <2>4
<1>4. RunInv(r)'
  BY <1>1, <1>2, <1>3 DEF Inv, RunInv, run
<1>5. AloneInv(r)'
  BY <1>1 DEF Inv, AloneInv, run
<1> QED
  BY <1>4, <1>5

\* RetentionIsExact is about the rollups, the rows and what was deleted.
LEMMA Retained ==
    ASSUME Inv, TableInv', UNCHANGED <<kind, rollup, gone>>, late \subseteq late',
           overlapped => overlapped'
    PROVE  RetentionIsExact'
<1>1. NothingDeletedUncompacted'
  BY DEF Inv, RetentionIsExact, NothingDeletedUncompacted, PeriodsOf
<1>2. NeverCountedTwice'
  BY DEF NeverCountedTwice, TableInv, Group
<1>3. DayKeepsItsLatest'
  BY DEF Inv, RetentionIsExact, DayKeepsItsLatest, Group
<1> QED
  BY <1>1, <1>2, <1>3 DEF RetentionIsExact

-----------------------------------------------------------------------------
(* Observations. *)

\* Time makes rows older, and no run reads the clock again.
LEMMA TickInv == ASSUME Inv, Tick PROVE Inv'
<1> USE DEF Tick
<1>1. clock \in Int /\ clock' \in Times /\ clock < clock'
  BY LengthsArePositive DEF Inv, RollupTypeOK, Times
<1>2. RollupTypeOK'
  BY <1>1 DEF Inv, RollupTypeOK, run
<1>3. TableInv'
  <2>1. \A t \in Times : t \in Int
    BY DEF Times
  <2>2. \A t \in raw : t <= clock'
    BY <1>1, <2>1 DEF Inv, RollupTypeOK, TableInv
  <2>3. \A t \in gone : t < clock'
    BY <1>1, <2>1 DEF Inv, RollupTypeOK, TableInv
  <2> QED
    BY <2>2, <2>3 DEF Inv, TableInv, Group
<1>4. \A r \in Runs : RunInv(r)' /\ AloneInv(r)'
  BY <1>1, Undisturbed DEF Inv, RollupTypeOK, Times
<1>5. RetentionIsExact'
  BY <1>3, Retained
<1> QED
  BY <1>2, <1>3, <1>4, <1>5 DEF Inv

\* A row that comes while a run is under way is late if the run could have
\* had to load it.
LEMMA ObserveInv ==
    ASSUME Inv, NEW t \in Times, Observe(t)
    PROVE  Inv'
<1> USE DEF Observe
<1>1. RollupTypeOK'
  BY DEF Inv, RollupTypeOK, run
<1>2. TableInv'
  BY DEF Inv, TableInv, Group
<1>3. ASSUME NEW r \in Runs PROVE RunInv(r)' /\ AloneInv(r)'
  <2>1. CASE Busy = {}
    <3>1. stage[r] \in {"idle", "failed"} /\ Busy' = {}
      BY <2>1 DEF Busy
    <3> QED
      BY <3>1 DEF RunInv, AloneInv
  <2>2. CASE Busy # {}
    <3>1. late' = late \cup {t} /\ clock <= clock'
      BY <2>2 DEF Inv, RollupTypeOK, Times
    <3> QED
      BY <1>1, <3>1, Undisturbed DEF RollupTypeOK
  <2> QED
    BY <2>1, <2>2
<1>4. RetentionIsExact'
  BY <1>2, Retained
<1> QED
  BY <1>1, <1>2, <1>3, <1>4 DEF Inv

\* A new valuation is younger than every cutoff.
LEMMA ValueNowInv == ASSUME Inv, ValueNow PROVE Inv'
<1> USE DEF ValueNow
<1>1. RollupTypeOK'
  BY DEF Inv, RollupTypeOK, run
<1>2. clock \in Int /\ clock <= clock /\ ~(clock < clock)
  BY DEF Inv, RollupTypeOK, Times
<1>3. TableInv'
  BY <1>2 DEF Inv, TableInv, Group
<1>4. \A r \in Runs : RunInv(r)' /\ AloneInv(r)'
  BY <1>1, <1>2, Undisturbed DEF RollupTypeOK
<1>5. RetentionIsExact'
  BY <1>3, Retained
<1> QED
  BY <1>1, <1>3, <1>4, <1>5 DEF Inv

-----------------------------------------------------------------------------
(* A run. *)

\* A step of run r that leaves the table alone does not disturb another run,
\* provided it is not the first to overlap with it.
LEMMA OthersKept ==
    ASSUME Inv, NEW r \in Runs, NEW q \in Runs \ {r},
           UNCHANGED <<kind, clock, raw, rollup, late, gone>>,
           stage'[q] = stage[q], cutoff'[q] = cutoff[q], read'[q] = read[q],
           known'[q] = known[q], stored'[q] = stored[q], cut'[q] = cut[q],
           overlapped => overlapped',
           Busy' \subseteq Busy \/ (r \in Busy' /\ (Busy # {} => overlapped'))
    PROVE  RunInv(q)' /\ AloneInv(q)'
<1>1. q \in Busy' <=> q \in Busy
  BY DEF Busy
<1>2. \A k \in Keys : Rolled(q, k)' = Rolled(q, k)
  BY RolledKept
<1>3. RunInv(q)'
  BY <1>1, <1>2 DEF Inv, RunInv
<1>4. AloneInv(q)'
  BY <1>1 DEF Inv, AloneInv
<1> QED
  BY <1>3, <1>4

\* A run that loads what is older than the cutoff.
LEMMA BeginRunInv ==
    ASSUME Inv, NEW r \in Runs, BeginRun(r)
    PROVE  Inv'
<1>1. /\ stage[r] = "idle" /\ stage' = [stage EXCEPT ![r] = "look"]
      /\ cutoff' = [cutoff EXCEPT ![r] = Cutoff]
      /\ read' = [read EXCEPT ![r] = {t \in raw : t < Cutoff}]
      /\ UNCHANGED <<kind, clock, raw, rollup, known, stored, cut, late, gone, lateness>>
  BY DEF BeginRun
<1>2. overlapped' = (overlapped \/ Busy # {})
  BY DEF BeginRun
<1>3. Cutoff \in Times /\ Cutoff = clock - Keep /\ clock - Keep <= clock - Keep
  BY LengthsArePositive DEF BeginRun, Cutoff, Inv, RollupTypeOK, Times
<1>4. RollupTypeOK'
  <2>1. {t \in raw : t < Cutoff} \subseteq Times
    BY DEF Inv, RollupTypeOK
  <2>2. overlapped' \in BOOLEAN
    BY <1>2, Zenon
  <2>3. stage' \in [Runs -> Stages] /\ cutoff' \in [Runs -> Times]
        /\ read' \in [Runs -> SUBSET Times]
    BY <1>1, <1>3, <2>1 DEF Inv, RollupTypeOK, Stages
  <2> QED
    BY <1>1, <2>2, <2>3 DEF Inv, RollupTypeOK
<1>5. TableInv'
  BY <1>1 DEF Inv, TableInv, Group
<1>6. /\ stage'[r] = "look" /\ cutoff'[r] = Cutoff
      /\ read'[r] = {t \in raw : t < Cutoff} /\ Busy' = Busy \cup {r}
  BY <1>1 DEF Inv, RollupTypeOK, Busy
<1>7. ASSUME NEW q \in Runs PROVE RunInv(q)' /\ AloneInv(q)'
  <2>1. CASE q = r
    <3>1. RunInv(r)'
      BY <1>1, <1>3, <1>6 DEF RunInv, Cutoff
    <3>2. AloneInv(r)'
      BY <1>1, <1>2, <1>6 DEF AloneInv
    <3> QED
      BY <2>1, <3>1, <3>2
  <2>2. CASE q # r
    <3>1. stage'[q] = stage[q] /\ cutoff'[q] = cutoff[q] /\ read'[q] = read[q]
      BY <1>1, <2>2 DEF Inv, RollupTypeOK
    <3>2. (overlapped => overlapped') /\ (Busy # {} => overlapped')
      BY <1>2
    <3> QED
      BY <1>1, <1>6, <2>2, <3>1, <3>2, OthersKept
  <2> QED
    BY <2>1, <2>2
<1>8. RetentionIsExact'
  <2>1. overlapped => overlapped'
    BY <1>2
  <2> QED
    BY <1>1, <1>5, <2>1, Retained
<1> QED
  BY <1>4, <1>5, <1>7, <1>8 DEF Inv

\* A run looks for the rollups of what it loaded.
LEMMA LookUpInv ==
    ASSUME Inv, NEW r \in Runs, LookUp(r)
    PROVE  Inv'
<1>1. /\ stage[r] = "look" /\ stage' = [stage EXCEPT ![r] = "write"]
      /\ known' = [known EXCEPT ![r] = rollup]
      /\ UNCHANGED <<kind, clock, raw, rollup, cutoff, read, stored, cut, late, gone,
                     overlapped, lateness>>
  BY DEF LookUp
<1>2. RollupTypeOK'
  BY <1>1 DEF Inv, RollupTypeOK, Stages
<1>3. TableInv'
  BY <1>1 DEF Inv, TableInv, Group
<1>4. stage'[r] = "write" /\ known'[r] = rollup /\ Busy' = Busy /\ r \in Busy
  BY <1>1 DEF Inv, RollupTypeOK, Busy
<1>5. ASSUME NEW q \in Runs PROVE RunInv(q)' /\ AloneInv(q)'
  <2>1. CASE q = r
    BY <1>1, <1>4, <2>1 DEF Inv, RunInv, AloneInv
  <2>2. CASE q # r
    <3>1. stage'[q] = stage[q] /\ known'[q] = known[q]
      BY <1>1, <2>2 DEF Inv, RollupTypeOK
    <3> QED
      BY <1>1, <1>4, <2>2, <3>1, OthersKept
  <2> QED
    BY <2>1, <2>2
<1>6. RetentionIsExact'
  BY <1>1, <1>3, Retained
<1> QED
  BY <1>2, <1>3, <1>5, <1>6 DEF Inv

\* What End does to run r and to the others.
LEMMA RunEnded ==
    ASSUME Inv, NEW r \in Runs, NEW how \in {"idle", "failed"}, End(r, how)
    PROVE  /\ stage' \in [Runs -> Stages]
           /\ cutoff' \in [Runs -> Times]
           /\ read' \in [Runs -> SUBSET Times]
           /\ known' \in [Runs -> [Keys -> SUBSET Times]]
           /\ stored' \in [Runs -> [Keys -> SUBSET Times]]
           /\ cut' \in [Runs -> SUBSET Times]
           /\ Busy' = Busy \ {r}
           /\ RunInv(r)' /\ AloneInv(r)'
           /\ \A q \in Runs \ {r} :
                  /\ stage'[q] = stage[q] /\ cutoff'[q] = cutoff[q] /\ read'[q] = read[q]
                  /\ known'[q] = known[q] /\ stored'[q] = stored[q] /\ cut'[q] = cut[q]
<1>1. 0 \in Times /\ how \in Stages /\ Nothing \in [Keys -> SUBSET Times]
  BY LengthsArePositive DEF Times, Stages, Nothing
<1>2. /\ stage' \in [Runs -> Stages]
      /\ cutoff' \in [Runs -> Times]
      /\ read' \in [Runs -> SUBSET Times]
  BY <1>1 DEF End, Inv, RollupTypeOK
<1>3. /\ known' \in [Runs -> [Keys -> SUBSET Times]]
      /\ stored' \in [Runs -> [Keys -> SUBSET Times]]
      /\ cut' \in [Runs -> SUBSET Times]
  BY <1>1 DEF End, Inv, RollupTypeOK
<1>4. stage'[r] = how
  BY DEF End, Inv, RollupTypeOK
<1>5. \A q \in Runs \ {r} :
          /\ stage'[q] = stage[q] /\ cutoff'[q] = cutoff[q] /\ read'[q] = read[q]
          /\ known'[q] = known[q] /\ stored'[q] = stored[q] /\ cut'[q] = cut[q]
  BY DEF End, Inv, RollupTypeOK
<1>6. Busy' = Busy \ {r}
  BY <1>4, <1>5 DEF Busy
<1>7. RunInv(r)' /\ AloneInv(r)'
  BY <1>4, <1>6 DEF RunInv, AloneInv
<1> QED
  BY <1>2, <1>3, <1>5, <1>6, <1>7

\* A run that ends without a commit.
LEMMA EndInv ==
    ASSUME Inv, NEW r \in Runs, NEW how \in {"idle", "failed"}, End(r, how),
           UNCHANGED <<kind, clock, raw, rollup, late, gone, overlapped, lateness>>
    PROVE  Inv'
<1>1. RollupTypeOK'
  BY RunEnded DEF Inv, RollupTypeOK
<1>2. TableInv'
  BY DEF Inv, TableInv, Group
<1>3. ASSUME NEW q \in Runs PROVE RunInv(q)' /\ AloneInv(q)'
  <2>1. CASE q = r
    BY <2>1, RunEnded
  <2>2. CASE q # r
    <3>1. /\ stage'[q] = stage[q] /\ cutoff'[q] = cutoff[q] /\ read'[q] = read[q]
          /\ known'[q] = known[q] /\ stored'[q] = stored[q] /\ cut'[q] = cut[q]
          /\ Busy' \subseteq Busy
      BY <2>2, RunEnded
    <3> QED
      BY <2>2, <3>1, OthersKept
  <2> QED
    BY <2>1, <2>2
<1>4. RetentionIsExact'
  BY <1>2, Retained
<1> QED
  BY <1>1, <1>2, <1>3, <1>4 DEF Inv

\* A run flushes its rollups, or fails on a row another run has inserted.
LEMMA WriteRollupInv ==
    ASSUME Inv, NEW r \in Runs, WriteRollup(r)
    PROVE  Inv'
<1>1. UNCHANGED <<kind, clock, raw, rollup, late, gone, overlapped, lateness>>
  BY DEF WriteRollup
<1>2. CASE End(r, "failed")
  BY <1>1, <1>2, EndInv
<1>3. CASE ~End(r, "failed")
  <2>1. /\ stage[r] = "write" /\ stage' = [stage EXCEPT ![r] = "delete"]
        /\ stored' = [stored EXCEPT ![r] = [k \in Keys |-> Rolled(r, k)]]
        /\ UNCHANGED <<cutoff, read, known, cut>>
    BY <1>3 DEF WriteRollup
  <2>2. [k \in Keys |-> Rolled(r, k)] \in [Keys -> SUBSET Times]
    <3>1. \A k \in Keys : Rolled(r, k) \subseteq Times
      BY RolledOf DEF Inv, RollupTypeOK, Group
    <3> QED
      BY <3>1
  <2>3. RollupTypeOK'
    BY <1>1, <2>1, <2>2 DEF Inv, RollupTypeOK, Stages
  <2>4. TableInv'
    BY <1>1 DEF Inv, TableInv, Group
  <2>5. /\ stage'[r] = "delete" /\ Busy' = Busy /\ r \in Busy
        /\ \A k \in Keys : stored'[r][k] = Rolled(r, k)
    BY <2>1 DEF Inv, RollupTypeOK, Busy
  <2>6. \A k \in Keys : Rolled(r, k)' = Rolled(r, k)
    BY <1>1, <2>1, RolledKept
  <2>7. ASSUME NEW q \in Runs PROVE RunInv(q)' /\ AloneInv(q)'
    <3>1. CASE q = r
      <4>1. RunInv(r)'
        BY <1>1, <2>1, <2>5, <2>6 DEF Inv, RunInv
      <4>2. AloneInv(r)'
        BY <1>1, <2>1, <2>5 DEF Inv, AloneInv
      <4> QED
        BY <3>1, <4>1, <4>2
    <3>2. CASE q # r
      <4>1. stage'[q] = stage[q] /\ stored'[q] = stored[q]
        BY <2>1, <3>2 DEF Inv, RollupTypeOK
      <4> QED
        BY <1>1, <2>1, <2>5, <3>2, <4>1, OthersKept
    <3> QED
      BY <3>1, <3>2
  <2>8. RetentionIsExact'
    BY <1>1, <2>4, Retained
  <2> QED
    BY <2>3, <2>4, <2>7, <2>8 DEF Inv
<1> QED
  BY <1>2, <1>3

\* What is older than the cutoff has been loaded, or is late; what has been
\* loaded is older, or gone.
LEMMA DeleteInv ==
    ASSUME Inv, NEW r \in Runs, Delete(r)
    PROVE  Inv'
<1>1. /\ stage[r] = "delete" /\ stage' = [stage EXCEPT ![r] = "commit"]
      /\ cut' = [cut EXCEPT ![r] = Expired(r)]
      /\ UNCHANGED <<kind, clock, raw, rollup, cutoff, read, known, stored, late, gone,
                     overlapped, lateness>>
  BY DEF Delete
<1>2. RollupTypeOK'
  <2>1. Expired(r) \subseteq Times
    BY DEF Inv, RollupTypeOK, Expired
  <2> QED
    BY <1>1, <2>1 DEF Inv, RollupTypeOK, Stages
<1>3. TableInv'
  BY <1>1 DEF Inv, TableInv, Group
<1>4. stage'[r] = "commit" /\ cut'[r] = Expired(r) /\ Busy' = Busy /\ r \in Busy
  BY <1>1 DEF Inv, RollupTypeOK, Busy
<1>5. /\ \A t \in Expired(r) : t < cutoff[r]
      /\ Expired(r) \subseteq read[r] \cup late
      /\ read[r] \subseteq Expired(r) \cup gone
      /\ late = {} /\ read[r] \subseteq raw => Expired(r) = read[r]
  BY <1>4 DEF Inv, RunInv, Expired
<1>6. ASSUME NEW q \in Runs PROVE RunInv(q)' /\ AloneInv(q)'
  <2>1. CASE q = r
    <3>1. \A k \in Keys : Rolled(r, k)' = Rolled(r, k)
      BY <1>1, RolledKept
    <3>2. RunInv(r)'
      BY <1>1, <1>4, <1>5, <3>1 DEF Inv, RunInv
    <3>3. AloneInv(r)'
      BY <1>1, <1>4, <1>5 DEF Inv, TableInv, AloneInv
    <3> QED
      BY <2>1, <3>2, <3>3
  <2>2. CASE q # r
    <3>1. stage'[q] = stage[q] /\ cut'[q] = cut[q]
      BY <1>1, <2>2 DEF Inv, RollupTypeOK
    <3> QED
      BY <1>1, <1>4, <2>2, <3>1, OthersKept
  <2> QED
    BY <2>1, <2>2
<1>7. RetentionIsExact'
  BY <1>1, <1>3, Retained
<1> QED
  BY <1>2, <1>3, <1>6, <1>7 DEF Inv

-----------------------------------------------------------------------------
(* The commit of a run. *)

\* The effects of a commit: what it rolled up and deleted.
LEMMA Committed ==
    ASSUME Inv, NEW r \in Runs, CommitRun(r)
    PROVE  /\ stage[r] = "commit" /\ r \in Busy /\ End(r, "idle")
           /\ raw' = raw \ cut[r] /\ gone' = gone \cup cut[r]
           /\ rollup' = [k \in Keys |-> IF Rolled(r, k) = {} THEN rollup[k]
                                                             ELSE Rolled(r, k)]
           /\ \A k \in Keys : rollup[k] # {} => rollup'[k] # {}
           /\ \A t \in cut[r] : t < clock
           /\ UNCHANGED <<kind, clock, late, overlapped, lateness>>
<1>1. stage[r] = "commit" /\ r \in Busy /\ End(r, "idle")
  BY DEF CommitRun, Busy
<1>2. \A k \in Keys : stored[r][k] = Rolled(r, k)
  BY <1>1 DEF Inv, RunInv
<1>3. rollup' = [k \in Keys |-> IF Rolled(r, k) = {} THEN rollup[k] ELSE Rolled(r, k)]
  BY <1>2 DEF CommitRun
<1>4. \A t \in cut[r] : t < clock
  <2>1. cutoff[r] <= clock - Keep /\ \A t \in cut[r] : t < cutoff[r]
    BY <1>1 DEF Inv, RunInv
  <2>2. /\ cutoff[r] \in Int /\ clock \in Int /\ Keep \in Nat \ {0}
        /\ \A t \in cut[r] : t \in Int
    BY LengthsArePositive DEF Inv, RollupTypeOK, Times
  <2> QED
    BY <2>1, <2>2
<1> QED
  BY <1>1, <1>3, <1>4 DEF CommitRun

\* A commit keeps the tables apart.
LEMMA CommitTables ==
    ASSUME Inv, NEW r \in Runs, CommitRun(r)
    PROVE  RollupTypeOK' /\ TableInv'
<1>1. /\ stage[r] = "commit" /\ End(r, "idle")
      /\ raw' = raw \ cut[r] /\ gone' = gone \cup cut[r]
      /\ rollup' = [k \in Keys |-> IF Rolled(r, k) = {} THEN rollup[k] ELSE Rolled(r, k)]
      /\ \A t \in cut[r] : t < clock
      /\ UNCHANGED <<kind, clock, late, overlapped, lateness>>
  BY Committed
<1>2. \A k \in Keys : Rolled(r, k) \subseteq Group(k, read[r])
  BY RolledOf DEF Inv
<1>3. \A k \in Keys : rollup'[k] \subseteq Group(k, gone')
  <2>1. read[r] \subseteq gone'
    BY <1>1 DEF Inv, RunInv
  <2>2. gone \subseteq gone'
    BY <1>1
  <2>3. \A k \in Keys : rollup[k] \subseteq Group(k, gone)
    BY DEF Inv, TableInv
  <2> QED
    BY <1>1, <1>2, <2>1, <2>2, <2>3 DEF Group
<1>4. RollupTypeOK'
  <2>1. gone' \subseteq Times /\ raw' \subseteq Times
    BY <1>1 DEF Inv, RollupTypeOK
  <2>2. rollup' \in [Keys -> SUBSET Times]
    BY <1>1, <1>3, <2>1 DEF Group
  <2> QED
    BY <1>1, <2>1, <2>2, RunEnded DEF Inv, RollupTypeOK
<1>5. TableInv'
  BY <1>1, <1>3 DEF Inv, TableInv, Group
<1> QED
  BY <1>4, <1>5

\* Whatever the commit deletes, except late rows, is in what it rolled up or
\* left to an older rollup.
LEMMA CommitCompacts ==
    ASSUME Inv, NEW r \in Runs, CommitRun(r)
    PROVE  NothingDeletedUncompacted'
<1>1. /\ stage[r] = "commit" /\ gone' = gone \cup cut[r]
      /\ rollup' = [k \in Keys |-> IF Rolled(r, k) = {} THEN rollup[k] ELSE Rolled(r, k)]
      /\ \A k \in Keys : rollup[k] # {} => rollup'[k] # {}
      /\ kind' = kind /\ late' = late
  BY Committed
<1> SUFFICES ASSUME NEW t \in gone' \ late, NEW l \in PeriodsOf(kind)
             PROVE  rollup'[<<l, StartOf(l, t)>>] # {}
  BY <1>1 DEF NothingDeletedUncompacted, PeriodsOf
<1> DEFINE k == <<l, StartOf(l, t)>>
<1>2. k \in Keys
  BY <1>1, GroupOf DEF Inv, RollupTypeOK
<1>3. CASE t \in gone
  BY <1>1, <1>2, <1>3 DEF Inv, RetentionIsExact, NothingDeletedUncompacted
<1>4. CASE t \in cut[r]
  <2>1. t \in read[r]
    BY <1>1, <1>4 DEF Inv, RunInv
  <2>2. k \in KeysOf(read[r])
    BY <2>1, GroupOf DEF Inv, RollupTypeOK
  <2>3. Rolled(r, k) # {} \/ known[r][k] # {}
    BY <1>2, <2>2, RolledOf DEF Inv
  <2>4. known[r][k] # {} => rollup[k] # {}
    BY <1>1, <1>2 DEF Inv, RunInv
  <2> HIDE DEF k
  <2>5. rollup'[k] # {}
    BY <1>1, <1>2, <2>3, <2>4
  <2> QED
    BY <2>5 DEF k
<1> QED
  BY <1>1, <1>3, <1>4

\* The latest of two sets of times is the later of their latest.
LEMMA LatestOfBoth ==
    ASSUME NEW S, NEW T, S \subseteq Times, T \subseteq Times, S # {}, T # {}
    PROVE  Max(S \cup T) = IF Max(S) >= Max(T) THEN Max(S) ELSE Max(T)
<1>1. /\ Max(S) \in S /\ \A x \in S : x <= Max(S)
      /\ Max(T) \in T /\ \A x \in T : x <= Max(T)
      /\ Max(S \cup T) \in S \cup T /\ \A x \in S \cup T : x <= Max(S \cup T)
  BY LatestExists
<1>2. \A t \in Times : t \in Int
  BY DEF Times
<1>3. Max(S) \in Int /\ Max(T) \in Int /\ Max(S \cup T) \in Int
  BY <1>1, <1>2
<1> QED
  BY <1>1, <1>3

\* A single time is its own latest.
LEMMA LatestOfOne == ASSUME NEW t \in Times PROVE Max({t}) = t
BY LatestExists

\* A run that was alone knew the rollups, and deletes what it has loaded: the
\* later of a day's rollup and of what it deletes of the day is kept.
LEMMA CommitKeepsLatest ==
    ASSUME Inv, NEW r \in Runs, CommitRun(r)
    PROVE  DayKeepsItsLatest'
<1>1. /\ stage[r] = "commit" /\ r \in Busy /\ gone' = gone \cup cut[r]
      /\ rollup' = [k \in Keys |-> IF Rolled(r, k) = {} THEN rollup[k] ELSE Rolled(r, k)]
      /\ kind' = kind /\ overlapped' = overlapped
  BY Committed
<1> SUFFICES ASSUME kind = "values", ~overlapped, NEW k \in Keys, k[1] = Day,
                    Group(k, gone') # {}
             PROVE  rollup'[k] = {Max(Group(k, gone'))}
  BY <1>1 DEF DayKeepsItsLatest
<1> DEFINE G == Group(k, gone)
           C == Group(k, read[r])
<1>2. known[r] = rollup /\ cut[r] = read[r]
  BY <1>1 DEF Inv, AloneInv
<1>3. Group(k, gone') = G \cup C
  BY <1>1, <1>2 DEF Group
<1>4. G \subseteq Times /\ C \subseteq Times
  BY DEF Inv, RollupTypeOK, Group
<1>5. IF G = {} THEN rollup[k] = {} ELSE rollup[k] = {Max(G)} /\ Max(G) \in G
  BY <1>4, LatestExists
     DEF Inv, TableInv, RetentionIsExact, DayKeepsItsLatest
<1>6. k \in KeysOf(read[r]) <=> C # {}
  BY KeyOf
<1>7. CASE C = {}
  <2>1. Rolled(r, k) = {}
    BY <1>6, <1>7 DEF Rolled
  <2> QED
    BY <1>1, <1>3, <1>5, <1>7, <2>1
<1>8. CASE C # {} /\ G = {}
  <2>1. Rolled(r, k) = {Max(C)}
    BY <1>2, <1>5, <1>6, <1>8 DEF Rolled, LatestOf
  <2> QED
    BY <1>1, <1>3, <1>8, <2>1
<1>9. CASE C # {} /\ G # {}
  <2>1. Max(rollup[k]) = Max(G)
    BY <1>4, <1>5, <1>9, LatestOfOne
  <2>2. Max(G \cup C) = IF Max(G) >= Max(C) THEN Max(G) ELSE Max(C)
    BY <1>4, <1>9, LatestOfBoth
  <2>3. Rolled(r, k) = IF Max(G) >= Max(C) THEN {} ELSE {Max(C)}
    BY <1>2, <1>5, <1>6, <1>9, <2>1 DEF Rolled, LatestOf
  <2> HIDE DEF G, C
  <2> QED
    BY <1>1, <1>3, <1>5, <1>9, <2>2, <2>3
<1> QED
  BY <1>7, <1>8, <1>9

\* Another run under way finds the rows it has loaded in the table or gone.
LEMMA CommitInv ==
    ASSUME Inv, NEW r \in Runs, CommitRun(r)
    PROVE  Inv'
<1>1. /\ r \in Busy /\ End(r, "idle")
      /\ raw' = raw \ cut[r] /\ gone' = gone \cup cut[r]
      /\ \A k \in Keys : rollup[k] # {} => rollup'[k] # {}
      /\ UNCHANGED <<kind, clock, late, overlapped, lateness>>
  BY Committed
<1>2. ASSUME NEW q \in Runs PROVE RunInv(q)' /\ AloneInv(q)'
  <2>1. CASE q = r
    BY <1>1, <2>1, RunEnded
  <2>2. CASE q # r
    <3>1. /\ stage'[q] = stage[q] /\ cutoff'[q] = cutoff[q] /\ read'[q] = read[q]
          /\ known'[q] = known[q] /\ stored'[q] = stored[q] /\ cut'[q] = cut[q]
          /\ Busy' = Busy \ {r}
      BY <1>1, <2>2, RunEnded
    <3>2. \A k \in Keys : Rolled(q, k)' = Rolled(q, k)
      BY <1>1, <3>1, RolledKept
    <3>3. RunInv(q)'
      BY <1>1, <2>2, <3>1, <3>2 DEF Inv, RunInv
    <3>4. AloneInv(q)'
      BY <1>1, <2>2, <3>1 DEF Inv, AloneInv
    <3> QED
      BY <3>3, <3>4
  <2> QED
    BY <2>1, <2>2
<1>3. RollupTypeOK' /\ TableInv'
  BY CommitTables
<1>4. RetentionIsExact'
  <2>1. NeverCountedTwice'
    BY <1>3 DEF NeverCountedTwice, TableInv, Group
  <2> QED
    BY <2>1, CommitCompacts, CommitKeepsLatest DEF RetentionIsExact
<1> QED
  BY <1>2, <1>3, <1>4 DEF Inv

-----------------------------------------------------------------------------
(* The theorems. *)

\* Every step keeps the invariant.
LEMMA NextInv == Inv /\ [RollupNext]_rollupVars => Inv'
<1> SUFFICES ASSUME Inv, [RollupNext]_rollupVars PROVE Inv'
  OBVIOUS
<1>1. ASSUME NEW t \in Times, Observe(t) PROVE Inv'
  BY <1>1, ObserveInv
<1>2. ASSUME NEW r \in Runs, BeginRun(r) \/ LookUp(r) \/ WriteRollup(r) \/ Delete(r)
      PROVE  Inv'
  BY <1>2, BeginRunInv, LookUpInv, WriteRollupInv, DeleteInv
<1>3. ASSUME NEW r \in Runs, CommitRun(r) PROVE Inv'
  BY <1>3, CommitInv
<1>4. ASSUME NEW r \in Runs, CrashRun(r) \/ Again(r) PROVE Inv'
  BY <1>4, EndInv DEF CrashRun, Again
<1>5. CASE UNCHANGED rollupVars
  <2> USE <1>5 DEF rollupVars
  <2>1. RollupTypeOK'
    BY DEF Inv, RollupTypeOK
  <2>2. TableInv'
    BY DEF Inv, TableInv, Group
  <2>3. clock' \in Times /\ raw' \subseteq Times /\ clock <= clock'
    BY DEF Inv, RollupTypeOK, Times
  <2>4. \A r \in Runs : RunInv(r)' /\ AloneInv(r)'
    BY <2>3, Undisturbed DEF run
  <2>5. RetentionIsExact'
    BY <2>2, Retained
  <2> QED
    BY <2>1, <2>2, <2>4, <2>5 DEF Inv
<1> QED
  BY <1>1, <1>2, <1>3, <1>4, <1>5, TickInv, ValueNowInv DEF RollupNext

\* The inductive invariant holds throughout.
THEOREM Invariance == RollupSpec => []Inv
<1> QED
  BY InitInv, NextInv, PTL DEF RollupSpec

\* What retention has deleted is in a rollup of each of its periods unless it
\* came late, no observation is both in the table and in a rollup, and a day
\* keeps its last valuation as long as runs do not overlap, although runs fail,
\* start again and block each other (price_snapshot_retention.py,
\* portfolio_valuation_retention.py).
THEOREM RetentionIsAlwaysExact == RollupSpec => []RetentionIsExact
<1>1. Inv => RetentionIsExact
  BY DEF Inv
<1> QED
  BY <1>1, Invariance, PTL

-----------------------------------------------------------------------------
(* ListingIntake.  A row that no other evaluation has touched still says what *)
(* it said when it was loaded, save when it was last seen: so each value that *)
(* differs is written, and the row is what the patch says.  A patch says      *)
(* where its price is from, and "removed" only of a listing that is gone; and *)
(* what is gone does not come back.                                           *)

Columns == {"price", "status", "verified", "payload"}
Manuals == Descriptions \cup {Nowhere}
Truths == [price : Nat, status : {"active", "ended"}] \cup {Nowhere}

\* A patch is the provider's answer, the description of a user, or no more than
\* that the listing is gone.
Answered ==
    {p \in [price : Nat, status : Statuses \ {"removed"}, verified : {TRUE},
            payload : [by : {"provider"}, price : Nat]] : p.payload.price = p.price}
Entered ==
    {p \in [price : Nat, status : Statuses, verified : {FALSE},
            payload : [by : {"user"}, price : Nat]] : p.payload.price = p.price}
Gone == [status : {"removed"}, verified : {TRUE}]
Patches == Answered \cup Entered \cup Gone

Reading == {"begun", "blocked"}
Loaded == {"queued", "turn", "asking"}
Working == Loaded \cup {"storing"}

\* A request, by how far it is.
BegunJobs == [at : Reading, subject : Subjects, manual : Manuals, began : Int]
LoadedJobs ==
    [at : Loaded, subject : Subjects, manual : Manuals, began : Int,
     loaded : Rows \cup {Nowhere}, opens : BOOLEAN]
StoringJobs ==
    [at : {"storing"}, subject : Subjects, began : Int,
     loaded : Rows \cup {Nowhere}, opens : BOOLEAN, patch : Patches]
Jobs == {Idle, Over} \cup BegunJobs \cup LoadedJobs \cup StoringJobs

\* Every variable stays within its type.
IntakeTypeOK ==
    /\ truth \in [Subjects -> Truths]
    /\ listed \in [Subjects -> Rows \cup {Nowhere}]
    /\ inquiry \in [Inquiries -> Jobs]
    /\ turn \in Inquiries \cup {Nowhere}
    /\ instant \in Int

\* What a row says, if no two evaluations of its listing have overlapped.
TellsSource(s, tuple) ==
    /\ tuple.verified /\ tuple.status # "removed" =>
           tuple.payload.by # "user" /\ tuple.payload.price = tuple.price
    /\ tuple.status = "removed" /\ tuple.payload.by = "provider" => truth[s] = Nowhere

RowInv(s) == listed[s] # Nowhere /\ s \notin mingled => TellsSource(s, listed[s])

\* A job knows the row it has loaded, and is the only one to work on it; what is
\* to be removed is gone.
JobInv(job) ==
    /\ job.at = "storing" /\ job.patch \in Gone =>
           job.loaded # Nowhere /\ truth[job.subject] = Nowhere
    /\ job.at \in Working /\ job.loaded # Nowhere =>
           /\ listed[job.subject] # Nowhere
           /\ job.subject \notin mingled =>
                  \A c \in Columns : listed[job.subject][c] = job.loaded[c]

Apart(job, other) ==
    job.at \in Working /\ other.at \in Working /\ job.subject = other.subject =>
        job.subject \in mingled

IntakeInv ==
    /\ IntakeTypeOK
    /\ turn \in Inquiries => inquiry[turn].at = "turn"
    /\ \A s \in Subjects : RowInv(s)
    /\ \A r \in Inquiries : JobInv(inquiry[r])
    /\ \A r \in Inquiries : \A q \in Inquiries \ {r} : Apart(inquiry[r], inquiry[q])


\* The fields of a job, by how far it is.
LEMMA JobFields ==
    ASSUME NEW job \in Jobs
    PROVE  /\ job.at \in {"idle", "over", "storing"} \cup Reading \cup Loaded
           /\ job.at \in Reading => job \in BegunJobs
           /\ job.at \in Loaded => job \in LoadedJobs
           /\ job.at = "storing" => job \in StoringJobs
           /\ job.at = "idle" => job = Idle
  BY DEF Jobs, BegunJobs, LoadedJobs, StoringJobs, Reading, Loaded, Idle, Over

\* Initially there is no row and no request.
LEMMA IntakeInitInv == IntakeInit => IntakeInv
<1> SUFFICES ASSUME IntakeInit PROVE IntakeInv
  OBVIOUS
<1>1. IntakeTypeOK
  <2>1. truth \in [Subjects -> Truths]
    BY DescriptionsArePriced DEF IntakeInit, Truths
  <2> QED
    BY <2>1 DEF IntakeInit, IntakeTypeOK, Jobs
<1>2. turn \notin Inquiries
  BY AddressesAreRead DEF IntakeInit
<1>3. \A r \in Inquiries : inquiry[r].at = "idle"
  BY DEF IntakeInit, Idle
<1>4. \A r \in Inquiries : JobInv(inquiry[r])
  BY <1>3 DEF JobInv, Working, Loaded
<1>5. \A r, q \in Inquiries : Apart(inquiry[r], inquiry[q])
  BY <1>3 DEF Apart, Working, Loaded
<1>6. \A s \in Subjects : RowInv(s)
  BY DEF IntakeInit, RowInv
<1> QED
  BY <1>1, <1>2, <1>4, <1>5, <1>6 DEF IntakeInv

\* A step after which no request knows more of a row than before.
LEMMA IntakeQuiet ==
    ASSUME IntakeInv, UNCHANGED <<truth, listed, mingled>>,
           instant' \in Int, turn' \in Inquiries \cup {Nowhere},
           turn' \in Inquiries => inquiry'[turn'].at = "turn",
           inquiry' \in [Inquiries -> Jobs],
           \A r \in Inquiries :
               \/ inquiry'[r] = inquiry[r]
               \/ inquiry'[r].at \notin Working
               \/ /\ inquiry'[r].at \in Working /\ inquiry[r].at \in Working
                  /\ inquiry'[r].at = "storing" /\ inquiry'[r].patch \in Gone =>
                         inquiry[r].loaded # Nowhere /\ truth[inquiry[r].subject] = Nowhere
                  /\ inquiry'[r].subject = inquiry[r].subject
                  /\ inquiry'[r].loaded = inquiry[r].loaded
    PROVE  IntakeInv'
<1>1. IntakeTypeOK'
  BY DEF IntakeInv, IntakeTypeOK
<1>2. ASSUME NEW r \in Inquiries PROVE JobInv(inquiry[r])'
  BY <1>2 DEF IntakeInv, JobInv, Working
<1>3. ASSUME NEW r \in Inquiries, NEW q \in Inquiries \ {r}
      PROVE  Apart(inquiry[r], inquiry[q])'
  BY <1>3 DEF IntakeInv, Apart
<1>4. ASSUME NEW s \in Subjects PROVE RowInv(s)'
  BY <1>4 DEF IntakeInv, RowInv, TellsSource
<1> QED
  BY <1>1, <1>2, <1>3, <1>4 DEF IntakeInv

\* An address that is read leads to a listing.
LEMMA InquireInv ==
    ASSUME IntakeInv, NEW r \in Inquiries, NEW a \in Addresses, NEW manual \in Manuals,
           Inquire(r, a, manual)
    PROVE  IntakeInv'
<1>1. PICK g \in Resolved(a) \ {Rejected} :
          inquiry' = [inquiry EXCEPT ![r] =
              [at |-> "begun", subject |-> [provider |-> g.provider, number |-> g.number],
               manual |-> manual, began |-> instant]]
  BY DEF Inquire
<1>2. [provider |-> g.provider, number |-> g.number] \in Subjects
  <2>1. g \in UNION {Resolved(b) : b \in Addresses}
    OBVIOUS
  <2> QED
    BY <2>1 DEF Subjects
<1>3. inquiry'[r] \in BegunJobs /\ inquiry'[r].at = "begun"
  BY <1>1, <1>2 DEF IntakeInv, IntakeTypeOK, BegunJobs, Reading
<1>4. inquiry' \in [Inquiries -> Jobs] /\ \A q \in Inquiries \ {r} : inquiry'[q] = inquiry[q]
  BY <1>1, <1>3 DEF IntakeInv, IntakeTypeOK, Jobs
<1>5. turn' \in Inquiries => inquiry'[turn'].at = "turn"
  BY <1>4 DEF Inquire, IntakeInv
<1> QED
  BY <1>3, <1>4, <1>5, IntakeQuiet DEF Inquire, IntakeInv, IntakeTypeOK, Working, Loaded

\* A request that is not at its turn goes on in its stage.
LEMMA BlockInv ==
    ASSUME IntakeInv, NEW r \in Inquiries, Block(r)
    PROVE  IntakeInv'
<1>1. inquiry[r] \in BegunJobs
  BY JobFields DEF Block, IntakeInv, IntakeTypeOK, Reading
<1>2. inquiry'[r] \in BegunJobs /\ inquiry'[r].at = "blocked"
  BY <1>1 DEF Block, IntakeInv, IntakeTypeOK, BegunJobs, Reading
<1>3. inquiry' \in [Inquiries -> Jobs] /\ \A q \in Inquiries \ {r} : inquiry'[q] = inquiry[q]
  BY <1>2 DEF Block, IntakeInv, IntakeTypeOK, Jobs
<1>4. turn' \in Inquiries => inquiry'[turn'].at = "turn"
  BY <1>3 DEF Block, IntakeInv
<1> QED
  BY <1>2, <1>3, <1>4, IntakeQuiet DEF Block, IntakeInv, IntakeTypeOK, Working, Loaded

\* TakeTurn and AskProvider: a job in its next stage, loaded as it was.
LEMMA LoadedGoesOn ==
    ASSUME IntakeInv, NEW r \in Inquiries, inquiry[r].at \in Loaded,
           NEW to \in Loaded, inquiry' = [inquiry EXCEPT ![r].at = to],
           UNCHANGED <<truth, listed, mingled, instant>>,
           turn' \in Inquiries \cup {Nowhere},
           turn' \in Inquiries => inquiry'[turn'].at = "turn"
    PROVE  IntakeInv'
<1>1. inquiry[r] \in LoadedJobs
  BY JobFields DEF IntakeInv, IntakeTypeOK
<1>2. /\ inquiry'[r] \in LoadedJobs /\ inquiry'[r].at = to
      /\ inquiry'[r].subject = inquiry[r].subject /\ inquiry'[r].loaded = inquiry[r].loaded
  BY <1>1 DEF IntakeInv, IntakeTypeOK, LoadedJobs
<1>3. inquiry' \in [Inquiries -> Jobs] /\ \A q \in Inquiries \ {r} : inquiry'[q] = inquiry[q]
  BY <1>2 DEF IntakeInv, IntakeTypeOK, Jobs
<1>4. to # "storing" /\ to \in Working /\ inquiry[r].at \in Working
  BY DEF Loaded, Working
<1>5. instant' \in Int
  BY DEF IntakeInv, IntakeTypeOK
<1> QED
  BY <1>2, <1>3, <1>4, <1>5, IntakeQuiet

\* A request takes its turn.
LEMMA TakeTurnInv ==
    ASSUME IntakeInv, NEW r \in Inquiries, TakeTurn(r)
    PROVE  IntakeInv'
<1>1. inquiry[r] \in Jobs /\ inquiry[r].at \in Loaded
  BY DEF TakeTurn, IntakeInv, IntakeTypeOK, Loaded
<1>2. inquiry'[r].at = "turn"
  BY <1>1, JobFields DEF TakeTurn, IntakeInv, IntakeTypeOK, LoadedJobs
<1> QED
  BY <1>1, <1>2, LoadedGoesOn DEF TakeTurn, Loaded

\* A request asks its provider, and another may take the turn.
LEMMA AskProviderInv ==
    ASSUME IntakeInv, NEW r \in Inquiries, AskProvider(r)
    PROVE  IntakeInv'
<1>1. inquiry[r].at \in Loaded
  BY DEF AskProvider, IntakeInv, Loaded
<1>2. turn' = Nowhere /\ turn' \notin Inquiries
  BY AddressesAreRead DEF AskProvider
<1> QED
  BY <1>1, <1>2, LoadedGoesOn DEF AskProvider, Loaded

\* The row is read: it is the answer, or what a job starts from.
LEMMA LoadRowInv ==
    ASSUME IntakeInv, NEW r \in Inquiries, LoadRow(r)
    PROVE  IntakeInv'
<1> DEFINE s == inquiry[r].subject
<1>1. inquiry[r] \in BegunJobs /\ inquiry[r].at \notin Working /\ s \in Subjects
  BY JobFields DEF LoadRow, IntakeInv, IntakeTypeOK, BegunJobs, Reading, Working, Loaded
<1>2. CASE IsRecent(s)
  <2>1. inquiry' = [inquiry EXCEPT ![r] = Over] /\ UNCHANGED mingled
    BY <1>2 DEF LoadRow
  <2>2. inquiry' \in [Inquiries -> Jobs] /\ \A q \in Inquiries \ {r} : inquiry'[q] = inquiry[q]
    BY <2>1 DEF IntakeInv, IntakeTypeOK, Jobs
  <2>3. inquiry'[r].at \notin Working
    BY <2>1 DEF IntakeInv, IntakeTypeOK, Over, Working, Loaded
  <2>4. turn' \in Inquiries => inquiry'[turn'].at = "turn"
    BY <2>2 DEF LoadRow, IntakeInv
  <2> QED
    BY <2>1, <2>2, <2>3, <2>4, IntakeQuiet DEF LoadRow, IntakeInv, IntakeTypeOK
<1>3. CASE ~IsRecent(s)
  <2> DEFINE job == [at |-> "queued", subject |-> s, manual |-> inquiry[r].manual,
                     began |-> inquiry[r].began, loaded |-> listed[s],
                     opens |-> s.provider \notin shops]
  <2>1. /\ inquiry' = [inquiry EXCEPT ![r] = job]
        /\ mingled' = IF Underway(s) = {} THEN mingled ELSE mingled \cup {s}
    BY <1>3 DEF LoadRow
  <2>2. job \in LoadedJobs
    BY <1>1 DEF IntakeInv, IntakeTypeOK, BegunJobs, LoadedJobs, Loaded
  <2>3. job.at = "queued" /\ job.subject = s /\ job.loaded = listed[s]
    OBVIOUS
  <2> HIDE DEF job
  <2>4. /\ inquiry' \in [Inquiries -> Jobs] /\ inquiry'[r] = job
        /\ \A q \in Inquiries \ {r} : inquiry'[q] = inquiry[q]
    BY <2>1, <2>2 DEF IntakeInv, IntakeTypeOK, Jobs
  <2>5. IntakeTypeOK'
    BY <2>4 DEF LoadRow, IntakeInv, IntakeTypeOK
  <2>6. turn' \in Inquiries => inquiry'[turn'].at = "turn"
    BY <2>4 DEF LoadRow, IntakeInv
  <2>7. ASSUME NEW q \in Inquiries PROVE JobInv(inquiry[q])'
    BY <2>1, <2>3, <2>4, <2>7 DEF LoadRow, IntakeInv, JobInv, Working, Loaded
  <2>8. ASSUME NEW p \in Inquiries, NEW q \in Inquiries \ {p}
        PROVE  Apart(inquiry[p], inquiry[q])'
    <3>1. \A i \in Inquiries \ {r} :
              inquiry[i].at \in Working /\ inquiry[i].subject = s => i \in Underway(s)
      BY DEF Underway, Working, Loaded
    <3> QED
      BY <2>1, <2>3, <2>4, <2>8, <3>1 DEF IntakeInv, Apart
  <2>9. ASSUME NEW i \in Subjects PROVE RowInv(i)'
    BY <2>1, <2>9 DEF LoadRow, IntakeInv, RowInv, TellsSource
  <2> QED
    BY <2>5, <2>6, <2>7, <2>8, <2>9 DEF IntakeInv
<1> QED
  BY <1>2, <1>3

\* The end of a transaction ends its job, and those that wait for it go on.
LEMMA EndedJobs ==
    ASSUME IntakeInv, NEW r \in Inquiries, inquiry[r].at \in Working,
           NEW committed \in BOOLEAN, inquiry' = Ended(r, committed)
    PROVE  /\ inquiry' \in [Inquiries -> Jobs]
           /\ inquiry'[r] = Over
           /\ \A q \in Inquiries \ {r} :
                  \/ inquiry'[q] = inquiry[q]
                  \/ inquiry[q].at = "blocked" /\ inquiry'[q].at \notin Working
<1>1. \A q \in Inquiries : inquiry'[q] = Ended(r, committed)[q]
  OBVIOUS
<1>2. inquiry'[r] = Over
  BY DEF Ended
<1>3. ASSUME NEW q \in Inquiries \ {r}
      PROVE  /\ inquiry'[q] \in Jobs
             /\ \/ inquiry'[q] = inquiry[q]
                \/ inquiry[q].at = "blocked" /\ inquiry'[q].at \notin Working
  <2>1. CASE inquiry[q].at # "blocked" \/ inquiry'[q] = inquiry[q]
    BY <1>3, <2>1 DEF Ended, IntakeInv, IntakeTypeOK
  <2>2. CASE inquiry[q].at = "blocked" /\ inquiry'[q] # inquiry[q]
    <3>1. inquiry[q] \in BegunJobs
      BY <2>2, JobFields DEF IntakeInv, IntakeTypeOK, Reading
    <3>2. inquiry'[q] = Over \/ inquiry'[q] = [inquiry[q] EXCEPT !.at = "begun"]
      BY <2>2 DEF Ended
    <3>3. [inquiry[q] EXCEPT !.at = "begun"] \in BegunJobs
      BY <3>1 DEF BegunJobs, Reading
    <3> QED
      BY <2>2, <3>1, <3>2, <3>3 DEF Jobs, BegunJobs, Over, Working, Loaded
  <2> QED
    BY <2>1, <2>2
<1>4. DOMAIN inquiry' = Inquiries
  BY DEF Ended
<1>5. inquiry' = [q \in Inquiries |-> inquiry'[q]]
  BY DEF Ended
<1>6. inquiry' \in [Inquiries -> Jobs]
  BY <1>2, <1>3, <1>5 DEF Jobs
<1> QED
  BY <1>2, <1>3, <1>6

\* A transaction that ends without a row.
LEMMA EndedInv ==
    ASSUME IntakeInv, NEW r \in Inquiries, inquiry[r].at \in {"asking", "storing"},
           NEW committed \in BOOLEAN, inquiry' = Ended(r, committed),
           UNCHANGED <<truth, listed, mingled, instant, turn>>
    PROVE  IntakeInv'
<1>1. inquiry[r].at \in Working
  BY DEF Working, Loaded
<1>2. /\ inquiry' \in [Inquiries -> Jobs]
      /\ inquiry'[r] = Over
      /\ \A q \in Inquiries \ {r} :
             \/ inquiry'[q] = inquiry[q]
             \/ inquiry[q].at = "blocked" /\ inquiry'[q].at \notin Working
  BY <1>1, EndedJobs
<1>3. inquiry'[r].at \notin Working
  BY <1>2 DEF Over, Working, Loaded
<1>4. turn' \in Inquiries => inquiry'[turn'].at = "turn"
  BY <1>2 DEF IntakeInv
<1> QED
  BY <1>2, <1>3, <1>4, IntakeQuiet DEF IntakeInv, IntakeTypeOK

\* The commit fails.
LEMMA LoseRowInv ==
    ASSUME IntakeInv, NEW r \in Inquiries, LoseRow(r)
    PROVE  IntakeInv'
  BY EndedInv DEF LoseRow

\* What an answer comes to: a patch, and one that only removes for a row whose
\* listing is gone.
LEMMA OutcomeIs ==
    ASSUME IntakeTypeOK, NEW r \in Inquiries, inquiry[r].at = "asking",
           NEW answer \in Answers(inquiry[r].subject), Outcome(r, answer) # Nowhere
    PROVE  /\ Outcome(r, answer) \in Patches
           /\ Outcome(r, answer) \in Gone =>
                  inquiry[r].loaded # Nowhere /\ truth[inquiry[r].subject] = Nowhere
<1> DEFINE s == inquiry[r].subject
           manual == inquiry[r].manual
<1>1. s \in Subjects /\ manual \in Manuals /\ truth[s] \in Truths
  <2>1. inquiry[r] \in LoadedJobs
    BY JobFields DEF IntakeTypeOK, Loaded
  <2> QED
    BY <2>1 DEF LoadedJobs, IntakeTypeOK
<1>2. CASE answer.heard = "listing"
  <2>1. truth[s] # Nowhere /\ \E p \in Nat : answer = Told(s, p)
    <3>1. answer \notin Unheard /\ answer # Missing
      BY <1>2 DEF Unheard, Missing
    <3>2. truth[s] # Nowhere /\ (answer = Told(s, truth[s].price) \/ answer = Told(s, 0))
      BY <3>1 DEF Answers, EbayAnswers, BricklinkAnswers
    <3>3. truth[s].price \in Nat
      BY <1>1, <3>2 DEF Truths
    <3> QED
      BY <3>2, <3>3
  <2>2. truth[s].status \in {"active", "ended"}
    BY <1>1, <2>1 DEF Truths
  <2>3. Provided(answer) \in Answered
    BY <2>1, <2>2 DEF Provided, Told, Answered, Statuses
  <2>4. Outcome(r, answer) = Provided(answer)
    BY <1>2 DEF Outcome
  <2>5. Answered \cap Gone = {}
    BY DEF Answered, Gone
  <2> QED
    BY <2>3, <2>4, <2>5 DEF Patches
<1>3. CASE answer.heard = "missing" /\ inquiry[r].loaded # Nowhere
  <2>1. Outcome(r, answer) = [status |-> "removed", verified |-> TRUE]
    BY <1>3 DEF Outcome
  <2>2. truth[s] = Nowhere
    BY <1>3 DEF Answers, EbayAnswers, BricklinkAnswers, Unheard, Told
  <2> QED
    BY <1>3, <2>1, <2>2 DEF Patches, Gone
<1>4. CASE ~(answer.heard = "listing")
           /\ ~(answer.heard = "missing" /\ inquiry[r].loaded # Nowhere)
  <2>1. manual # Nowhere /\ Outcome(r, answer) = Described(manual)
    BY <1>4 DEF Outcome
  <2>2. manual \in Descriptions
    BY <1>1, <2>1 DEF Manuals
  <2>3. Described(manual) \in Entered
    BY <2>2, DescriptionsArePriced DEF Described, Entered
  <2>4. Entered \cap Gone = {}
    BY DEF Entered, Gone
  <2> QED
    BY <2>1, <2>3, <2>4 DEF Patches
<1> QED
  BY <1>2, <1>3, <1>4

\* An answer is turned into a patch, or the request is refused.
LEMMA AnswerInv ==
    ASSUME IntakeInv, NEW r \in Inquiries, Answer(r)
    PROVE  IntakeInv'
<1>1. PICK answer \in Answers(inquiry[r].subject) :
          inquiry' = IF Outcome(r, answer) = Nowhere THEN Ended(r, FALSE)
                     ELSE [inquiry EXCEPT ![r] =
                         [at |-> "storing", subject |-> @.subject, began |-> @.began,
                          loaded |-> @.loaded, opens |-> @.opens,
                          patch |-> Outcome(r, answer)]]
  BY DEF Answer
<1>2. CASE Outcome(r, answer) = Nowhere
  BY <1>1, <1>2, EndedInv DEF Answer
<1>3. CASE Outcome(r, answer) # Nowhere
  <2> DEFINE job == [at |-> "storing", subject |-> inquiry[r].subject,
                     began |-> inquiry[r].began, loaded |-> inquiry[r].loaded,
                     opens |-> inquiry[r].opens, patch |-> Outcome(r, answer)]
  <2>1. inquiry' = [inquiry EXCEPT ![r] = job]
    BY <1>1, <1>3
  <2>2. /\ Outcome(r, answer) \in Patches
        /\ Outcome(r, answer) \in Gone =>
               inquiry[r].loaded # Nowhere /\ truth[inquiry[r].subject] = Nowhere
    BY <1>3, OutcomeIs DEF Answer, IntakeInv
  <2>3. inquiry[r] \in LoadedJobs /\ inquiry[r].at \in Working
    BY JobFields DEF Answer, IntakeInv, IntakeTypeOK, Loaded, Working
  <2>4. job \in StoringJobs
    BY <2>2, <2>3 DEF LoadedJobs, StoringJobs
  <2>5. /\ job.at = "storing" /\ job.subject = inquiry[r].subject
        /\ job.loaded = inquiry[r].loaded /\ job.patch = Outcome(r, answer)
    OBVIOUS
  <2> HIDE DEF job
  <2>6. /\ inquiry' \in [Inquiries -> Jobs] /\ inquiry'[r] = job
        /\ \A q \in Inquiries \ {r} : inquiry'[q] = inquiry[q]
    BY <2>1, <2>4 DEF IntakeInv, IntakeTypeOK, Jobs
  <2>7. turn' \in Inquiries => inquiry'[turn'].at = "turn"
    BY <2>6 DEF Answer, IntakeInv
  <2>8. job.at \in Working
    BY <2>5 DEF Working
  <2> QED
    BY <2>2, <2>3, <2>5, <2>6, <2>7, <2>8, IntakeQuiet DEF Answer, IntakeInv, IntakeTypeOK
<1> QED
  BY <1>2, <1>3

\* A row that is updated is a row, whoever has changed it since it was loaded.
LEMMA UpdatedRow ==
    ASSUME NEW listing \in Rows, NEW fetched \in Rows, NEW patch \in Patches, NEW began \in Int
    PROVE  Updated(listing, fetched, patch, began) \in Rows
<1> DEFINE entry == Updated(listing, fetched, patch, began)
<1>1. DOMAIN listing = Columns \cup {"seen"}
  BY DEF Rows, Columns
<1>2. \A c \in Columns : entry[c] = listing[c] \/ (c \in DOMAIN patch /\ entry[c] = patch[c])
  BY <1>1 DEF Updated, Columns
<1>3. entry = [c \in Columns \cup {"seen"} |-> entry[c]] /\ entry["seen"] = began
  BY <1>1 DEF Updated
<1> HIDE DEF entry
<1>4. /\ listing.price \in Nat /\ listing.status \in Statuses /\ listing.verified \in BOOLEAN
      /\ listing.payload \in [by : {"provider", "user", "caller"}, price : Nat]
  BY DEF Rows
<1>5. /\ entry.price \in Nat /\ entry.status \in Statuses /\ entry.verified \in BOOLEAN
      /\ entry.payload \in [by : {"provider", "user", "caller"}, price : Nat]
  <2>1. CASE patch \in Gone
    <3>1. DOMAIN patch = {"status", "verified"}
      BY <2>1 DEF Gone
    <3> QED
      BY <1>2, <1>4, <2>1, <3>1 DEF Gone, Columns, Statuses
  <2>2. CASE patch \in Answered \cup Entered
    <3>1. /\ patch.price \in Nat /\ patch.status \in Statuses /\ patch.verified \in BOOLEAN
          /\ patch.payload \in [by : {"provider", "user", "caller"}, price : Nat]
      BY <2>2 DEF Answered, Entered
    <3> QED
      BY <1>2, <1>4, <3>1 DEF Columns
  <2> QED
    BY <2>1, <2>2 DEF Patches
<1>6. entry \in Rows
  BY <1>3, <1>5 DEF Rows, Columns
<1> QED
  BY <1>6 DEF entry

\* A row that is as it was loaded says afterwards what the patch says.
LEMMA StoredRow ==
    ASSUME NEW listing \in Rows, NEW fetched \in Rows, NEW patch \in Patches, NEW began \in Int,
           \A c \in Columns : listing[c] = fetched[c]
    PROVE  \A c \in Columns :
               Updated(listing, fetched, patch, began)[c] =
                   IF c \in DOMAIN patch THEN patch[c] ELSE listing[c]
<1>1. DOMAIN listing = Columns \cup {"seen"}
  BY DEF Rows, Columns
<1> QED
  BY <1>1 DEF Updated, Columns

\* What a patch makes of a row is from where it says, or the row is removed.
LEMMA StoredIsTold ==
    ASSUME NEW s \in Subjects, NEW listing \in Rows, NEW entry \in Rows, NEW patch \in Patches,
           patch \in Gone => truth[s] = Nowhere,
           \A c \in Columns : entry[c] = IF c \in DOMAIN patch THEN patch[c] ELSE listing[c]
    PROVE  TellsSource(s, entry)
<1>1. CASE patch \in Gone
  BY <1>1 DEF Gone, Columns, TellsSource
<1>2. CASE patch \in Answered \cup Entered
  <2>1. DOMAIN patch = Columns
    BY <1>2 DEF Answered, Entered, Columns
  <2>2. /\ entry.price = patch.price /\ entry.status = patch.status
        /\ entry.verified = patch.verified /\ entry.payload = patch.payload
    BY <2>1 DEF Columns
  <2> QED
    BY <1>2, <2>2 DEF Answered, Entered, TellsSource
<1> QED
  BY <1>1, <1>2 DEF Patches

\* What is written to a row, made or updated.
LEMMA WrittenRow ==
    ASSUME NEW s \in Subjects, NEW listing \in Rows \cup {Nowhere},
           NEW fetched \in Rows \cup {Nowhere}, NEW patch \in Patches, NEW began \in Int,
           NEW entry,
           fetched = Nowhere => listing = Nowhere /\ entry = Created(patch, began),
           fetched # Nowhere =>
               listing # Nowhere /\ entry = Updated(listing, fetched, patch, began),
           patch \in Gone => fetched # Nowhere /\ truth[s] = Nowhere
    PROVE  /\ entry \in Rows
           /\ (listing = Nowhere \/ \A c \in Columns : listing[c] = fetched[c]) =>
                  TellsSource(s, entry)
<1>1. CASE fetched = Nowhere
  <2>1. patch \in Answered \cup Entered
    BY <1>1 DEF Patches
  <2>2. entry = Created(patch, began)
    BY <1>1
  <2>3. /\ patch.price \in Nat /\ patch.status \in Statuses /\ patch.verified \in BOOLEAN
        /\ patch.payload \in [by : {"provider", "user", "caller"}, price : Nat]
        /\ patch.verified /\ patch.status # "removed" =>
               patch.payload.by # "user" /\ patch.payload.price = patch.price
        /\ ~(patch.status = "removed" /\ patch.payload.by = "provider")
    BY <2>1 DEF Answered, Entered
  <2>4. entry \in Rows
    BY <2>2, <2>3 DEF Created, Rows
  <2>5. /\ entry.price = patch.price /\ entry.status = patch.status
        /\ entry.verified = patch.verified /\ entry.payload = patch.payload
    BY <2>2 DEF Created
  <2> QED
    BY <2>3, <2>4, <2>5 DEF TellsSource
<1>2. CASE fetched # Nowhere
  <2>1. listing \in Rows /\ fetched \in Rows /\ listing # Nowhere
    BY <1>2
  <2>2. entry = Updated(listing, fetched, patch, began)
    BY <1>2
  <2>3. entry \in Rows
    BY <2>1, <2>2, UpdatedRow
  <2>4. CASE \A c \in Columns : listing[c] = fetched[c]
    <3>1. \A c \in Columns : entry[c] = IF c \in DOMAIN patch THEN patch[c] ELSE listing[c]
      BY <2>1, <2>2, <2>4, StoredRow
    <3>2. patch \in Gone => truth[s] = Nowhere
      OBVIOUS
    <3> QED
      BY <2>1, <2>3, <3>1, <3>2, StoredIsTold
  <2> QED
    BY <2>1, <2>3, <2>4
<1> QED
  BY <1>1, <1>2

\* What a row becomes is what a job that goes on has loaded.
Abides(job, s, entry) ==
    job.at \in Working /\ job.subject = s /\ job.loaded # Nowhere /\ s \notin mingled =>
        \A c \in Columns : entry[c] = job.loaded[c]

\* A row that is made or updated, its request being over.
LEMMA RowWritten ==
    ASSUME IntakeInv, NEW s \in Subjects, NEW entry \in Rows, IntakeTypeOK',
           listed' = [listed EXCEPT ![s] = entry], UNCHANGED <<truth, mingled>>,
           turn' \in Inquiries => inquiry'[turn'].at = "turn",
           \A q \in Inquiries :
               \/ inquiry'[q].at \notin Working
               \/ /\ inquiry'[q] = inquiry[q]
                  /\ Abides(inquiry[q], s, entry),
           s \notin mingled => TellsSource(s, entry)
    PROVE  IntakeInv'
<1>1. /\ listed'[s] = entry /\ entry # Nowhere
      /\ \A i \in Subjects \ {s} : listed'[i] = listed[i]
  BY AddressesAreRead DEF IntakeInv, IntakeTypeOK
<1>2. ASSUME NEW q \in Inquiries PROVE JobInv(inquiry[q])'
  <2>1. CASE inquiry'[q].at \notin Working
    BY <2>1 DEF JobInv, Working
  <2>2. CASE inquiry'[q] = inquiry[q] /\ inquiry'[q].at \in Working
    <3>1. inquiry[q].subject \in Subjects
      BY <2>2, JobFields DEF IntakeInv, IntakeTypeOK, LoadedJobs, StoringJobs, Working
    <3> QED
      BY <1>1, <2>2, <3>1 DEF IntakeInv, JobInv, Abides
  <2> QED
    BY <2>1, <2>2
<1>3. ASSUME NEW p \in Inquiries, NEW q \in Inquiries \ {p}
      PROVE  Apart(inquiry[p], inquiry[q])'
  BY <1>3 DEF IntakeInv, Apart
<1>4. ASSUME NEW i \in Subjects PROVE RowInv(i)'
  BY <1>1, <1>4 DEF IntakeInv, RowInv, TellsSource
<1> QED
  BY <1>2, <1>3, <1>4 DEF IntakeInv

\* A row is stored, or its insert fails on one that was made meanwhile.
LEMMA StoreRowInv ==
    ASSUME IntakeInv, NEW r \in Inquiries, StoreRow(r)
    PROVE  IntakeInv'
<1> DEFINE job == inquiry[r]
           s == job.subject
<1>1. job \in StoringJobs /\ job.at = "storing" /\ job.at \in Working
  BY JobFields DEF StoreRow, IntakeInv, IntakeTypeOK, Working
<1>2. /\ s \in Subjects /\ job.loaded \in Rows \cup {Nowhere} /\ job.patch \in Patches
      /\ job.began \in Int
  BY <1>1 DEF StoringJobs
<1>3. CASE job.loaded = Nowhere /\ listed[s] # Nowhere
  BY <1>3, EndedInv DEF StoreRow
<1>4. CASE ~(job.loaded = Nowhere /\ listed[s] # Nowhere)
  <2> DEFINE entry == IF job.loaded = Nowhere THEN Created(job.patch, job.began)
                    ELSE Updated(listed[s], job.loaded, job.patch, job.began)
  <2>1. listed' = [listed EXCEPT ![s] = entry] /\ inquiry' = Ended(r, TRUE)
    BY <1>4 DEF StoreRow
  <2>2. job.patch \in Gone => job.loaded # Nowhere /\ truth[s] = Nowhere
    BY <1>1 DEF IntakeInv, JobInv
  <2>3. /\ inquiry' \in [Inquiries -> Jobs] /\ inquiry'[r] = Over
        /\ \A q \in Inquiries \ {r} :
               \/ inquiry'[q] = inquiry[q]
               \/ inquiry[q].at = "blocked" /\ inquiry'[q].at \notin Working
    BY <1>1, <2>1, EndedJobs
  <2>4. Over.at \notin Working
    BY DEF Over, Working, Loaded
  <2>5. turn' \in Inquiries => inquiry'[turn'].at = "turn"
    BY <1>1, <2>3 DEF StoreRow, IntakeInv
  <2>6. ASSUME NEW q \in Inquiries \ {r}, inquiry[q].at \in Working, inquiry[q].subject = s
        PROVE  s \in mingled
    BY <1>1, <2>6 DEF IntakeInv, Apart
  <2>7. /\ entry \in Rows
        /\ s \notin mingled => TellsSource(s, entry)
    <3>1. job.loaded # Nowhere => listed[s] # Nowhere
      BY <1>1 DEF IntakeInv, JobInv
    <3>2. s \notin mingled /\ job.loaded # Nowhere =>
              \A c \in Columns : listed[s][c] = job.loaded[c]
      BY <1>1 DEF IntakeInv, JobInv
    <3>3. listed[s] \in Rows \cup {Nowhere}
      BY <1>2 DEF IntakeInv, IntakeTypeOK
    <3> HIDE DEF job, s
    <3>4. /\ entry \in Rows
          /\ (listed[s] = Nowhere \/ \A c \in Columns : listed[s][c] = job.loaded[c]) =>
                 TellsSource(s, entry)
      <4>1. /\ job.loaded = Nowhere =>
                   listed[s] = Nowhere /\ entry = Created(job.patch, job.began)
            /\ job.loaded # Nowhere =>
                   /\ listed[s] # Nowhere
                   /\ entry = Updated(listed[s], job.loaded, job.patch, job.began)
            /\ job.patch \in Gone => job.loaded # Nowhere /\ truth[s] = Nowhere
        BY <1>4, <2>2, <3>1
      <4> HIDE DEF entry
      <4>2. PICK patch \in Patches, began \in Int, fetched \in Rows \cup {Nowhere},
                 listing \in Rows \cup {Nowhere} :
                patch = job.patch /\ began = job.began /\ fetched = job.loaded
                    /\ listing = listed[s]
        BY <1>2, <3>3
      <4>3. /\ fetched = Nowhere => listing = Nowhere /\ entry = Created(patch, began)
            /\ fetched # Nowhere =>
                   listing # Nowhere /\ entry = Updated(listing, fetched, patch, began)
            /\ patch \in Gone => fetched # Nowhere /\ truth[s] = Nowhere
        BY <4>1, <4>2
      <4>4. /\ entry \in Rows
            /\ (listing = Nowhere \/ \A c \in Columns : listing[c] = fetched[c]) =>
                   TellsSource(s, entry)
        BY <1>2, <4>3, WrittenRow
      <4> QED
        BY <4>2, <4>4
    <3> HIDE DEF entry
    <3> QED
      BY <1>4, <3>1, <3>2, <3>4
  <2> HIDE DEF entry
  <2>8. IntakeTypeOK'
    BY <1>2, <2>1, <2>3, <2>7 DEF StoreRow, IntakeInv, IntakeTypeOK
  <2>9. UNCHANGED <<truth, mingled>>
    BY DEF StoreRow
  <2>10. ASSUME NEW q \in Inquiries
         PROVE  \/ inquiry'[q].at \notin Working
                \/ /\ inquiry'[q] = inquiry[q]
                   /\ Abides(inquiry[q], s, entry)
    BY <2>3, <2>4, <2>6 DEF Abides
  <2> HIDE DEF job, s
  <2> QED
    BY <1>2, <2>1, <2>5, <2>7, <2>8, <2>9, <2>10, RowWritten
<1> QED
  BY <1>3, <1>4

\* What a provider has, as a seller leaves it, once gone stays gone.
LEMMA SellerActsInv ==
    ASSUME IntakeInv, NEW s \in Subjects, SellerActs(s)
    PROVE  IntakeInv'
<1>1. PICK t \in [price : Amounts, status : {"active", "ended"}] \cup {Nowhere} :
          truth' = [truth EXCEPT ![s] = t]
  BY DEF SellerActs
<1>2. t \in Truths
  BY DescriptionsArePriced DEF Truths
<1>3. truth[s] # Nowhere /\ UNCHANGED <<listed, inquiry, mingled, turn, instant>>
  BY DEF SellerActs
<1>4. /\ truth' \in [Subjects -> Truths]
      /\ \A i \in Subjects : truth[i] = Nowhere => truth'[i] = Nowhere
  BY <1>1, <1>2, <1>3 DEF IntakeInv, IntakeTypeOK
<1>5. ASSUME NEW q \in Inquiries PROVE JobInv(inquiry[q])'
  <2>1. inquiry[q].at = "storing" => inquiry[q].subject \in Subjects
    BY JobFields DEF IntakeInv, IntakeTypeOK, StoringJobs
  <2> QED
    BY <1>3, <1>4, <2>1 DEF IntakeInv, JobInv
<1>6. ASSUME NEW p \in Inquiries, NEW q \in Inquiries \ {p}
      PROVE  Apart(inquiry[p], inquiry[q])'
  BY <1>3, <1>6 DEF IntakeInv, Apart
<1>7. ASSUME NEW i \in Subjects PROVE RowInv(i)'
  BY <1>3, <1>4, <1>7 DEF IntakeInv, RowInv, TellsSource
<1> QED
  BY <1>3, <1>4, <1>5, <1>6, <1>7 DEF IntakeInv, IntakeTypeOK

\* A caller's row is made where there is none, so no job has loaded one.
LEMMA PostListingInv ==
    ASSUME IntakeInv, NEW s \in Subjects, PostListing(s)
    PROVE  IntakeInv'
<1>1. PICK m \in Descriptions, v \in BOOLEAN :
          listed' = [listed EXCEPT ![s] =
              [price |-> m.price, status |-> m.status,
               payload |-> [by |-> "caller", price |-> m.price],
               verified |-> v, seen |-> instant]]
  BY DEF PostListing
<1> DEFINE entry == [price |-> m.price, status |-> m.status,
                   payload |-> [by |-> "caller", price |-> m.price],
                   verified |-> v, seen |-> instant]
<1>2. entry \in Rows
  BY DescriptionsArePriced DEF IntakeInv, IntakeTypeOK, Rows
<1>3. TellsSource(s, entry)
  BY DEF TellsSource
<1>4. /\ listed[s] = Nowhere /\ listed' = [listed EXCEPT ![s] = entry]
      /\ UNCHANGED <<truth, inquiry, mingled, turn, instant>>
  BY <1>1 DEF PostListing
<1> HIDE DEF entry
<1>5. ASSUME NEW q \in Inquiries
      PROVE  inquiry[q].at \in Working /\ inquiry[q].subject = s => inquiry[q].loaded = Nowhere
  BY <1>4, <1>5 DEF IntakeInv, JobInv
<1>6. IntakeTypeOK'
  BY <1>2, <1>4 DEF IntakeInv, IntakeTypeOK
<1>7. turn' \in Inquiries => inquiry'[turn'].at = "turn"
  BY <1>4 DEF IntakeInv
<1>9. \A q \in Inquiries :
          \/ inquiry'[q].at \notin Working
          \/ /\ inquiry'[q] = inquiry[q]
             /\ Abides(inquiry[q], s, entry)
  BY <1>4, <1>5 DEF Abides
<1>10. UNCHANGED <<truth, mingled>>
  BY <1>4
<1> QED
  BY <1>2, <1>3, <1>4, <1>6, <1>7, <1>9, <1>10, RowWritten

\* An analysis changes no more of a row than when it was seen.
LEMMA AnalyzeRowInv ==
    ASSUME IntakeInv, NEW s \in Subjects, AnalyzeRow(s)
    PROVE  IntakeInv'
<1> DEFINE entry == [listed[s] EXCEPT !.seen = instant]
<1>1. /\ listed[s] # Nowhere /\ listed' = [listed EXCEPT ![s] = entry]
      /\ UNCHANGED <<truth, inquiry, mingled, turn, instant>>
  BY DEF AnalyzeRow, IntakeInv, IntakeTypeOK
<1>2. listed[s] \in Rows
  BY <1>1 DEF IntakeInv, IntakeTypeOK
<1>3. entry \in Rows /\ \A c \in Columns : entry[c] = listed[s][c]
  BY <1>2 DEF IntakeInv, IntakeTypeOK, Rows, Columns
<1> HIDE DEF entry
<1>4. /\ entry.price = listed[s].price /\ entry.status = listed[s].status
      /\ entry.verified = listed[s].verified /\ entry.payload = listed[s].payload
  BY <1>3 DEF Columns
<1>5. s \notin mingled => TellsSource(s, entry)
  BY <1>1, <1>4 DEF IntakeInv, RowInv, TellsSource
<1>6. ASSUME NEW q \in Inquiries
      PROVE  inquiry[q].at \in Working /\ inquiry[q].subject = s =>
                 \/ s \in mingled
                 \/ inquiry[q].loaded = Nowhere
                 \/ \A c \in Columns : entry[c] = inquiry[q].loaded[c]
  BY <1>3, <1>6 DEF IntakeInv, JobInv
<1>7. IntakeTypeOK'
  BY <1>1, <1>3 DEF IntakeInv, IntakeTypeOK
<1>8. turn' \in Inquiries => inquiry'[turn'].at = "turn"
  BY <1>1 DEF IntakeInv
<1>9. \A q \in Inquiries :
          \/ inquiry'[q].at \notin Working
          \/ /\ inquiry'[q] = inquiry[q]
             /\ Abides(inquiry[q], s, entry)
  BY <1>1, <1>6 DEF Abides
<1>10. UNCHANGED <<truth, mingled>>
  BY <1>1
<1> QED
  BY <1>1, <1>3, <1>5, <1>7, <1>8, <1>9, <1>10, RowWritten

\* Every step keeps the invariant.
LEMMA IntakeStep == IntakeInv /\ [IntakeNext]_intakeVars => IntakeInv'
<1> SUFFICES ASSUME IntakeInv, [IntakeNext]_intakeVars PROVE IntakeInv'
  OBVIOUS
<1>1. CASE UNCHANGED intakeVars
  BY <1>1, IntakeQuiet DEF intakeVars, IntakeInv, IntakeTypeOK
<1>2. CASE Pass
  <2>1. instant' \in Int
    BY <1>2 DEF Pass, IntakeInv, IntakeTypeOK
  <2> QED
    BY <1>2, <2>1, IntakeQuiet DEF Pass, IntakeInv, IntakeTypeOK
<1>3. CASE \E s \in Subjects : SellerActs(s) \/ PostListing(s) \/ AnalyzeRow(s)
  BY <1>3, SellerActsInv, PostListingInv, AnalyzeRowInv
<1>4. CASE \E r \in Inquiries, a \in Addresses, manual \in Manuals : Inquire(r, a, manual)
  BY <1>4, InquireInv
<1>5. CASE \E r \in Inquiries :
               \/ Block(r) \/ LoadRow(r) \/ TakeTurn(r) \/ AskProvider(r)
               \/ Answer(r) \/ StoreRow(r) \/ LoseRow(r)
  BY <1>5, BlockInv, LoadRowInv, TakeTurnInv, AskProviderInv, AnswerInv, StoreRowInv, LoseRowInv
<1> QED
  BY <1>1, <1>2, <1>3, <1>4, <1>5 DEF IntakeNext, Manuals

\* The inductive invariant holds throughout.
LEMMA IntakeInvariance == IntakeSpec => []IntakeInv
<1> QED
  BY IntakeInitInv, IntakeStep, PTL DEF IntakeSpec

\* Every variable of the intake stays within its type: a request works on a listing
\* that an address leads to, and what it stores is a row.
THEOREM IntakeTypeCorrect == IntakeSpec => []IntakeTypeOK
<1>1. IntakeInv => IntakeTypeOK
  BY DEF IntakeInv
<1> QED
  BY <1>1, IntakeInvariance, PTL

\* A row that counts as verified has the price its provider, or the caller of
\* POST /listings, stated and no description of a user, and one kept as removed is
\* of a listing that is gone, unless two evaluations of the listing overlapped
\* (evaluate_listing_url of listing_evaluation_service.py).
THEOREM RowsAlwaysTellTheirSource == IntakeSpec => []RowsTellTheirSource
<1>1. IntakeInv => RowsTellTheirSource
  BY DEF IntakeInv, RowInv, TellsSource, RowsTellTheirSource, VerifiedIsProvided, RemovedIsGone
<1> QED
  BY <1>1, IntakeInvariance, PTL

-----------------------------------------------------------------------------
(* MarketplaceRefresh.  What a request has at its savepoint are the sets it  *)
(* has refreshed before, and it holds the lock of the set it is at.          *)

StoredListings == {l \in Listings : row[l] # "absent"}

\* A request holds the lock of the set it refreshes.
HoldsItsLock(r) == left[r] # << >> /\ lock[Home[r]][Current(r)] = r

\* What a request has written since its savepoint belongs to the set it is at.
WritesInv(r) ==
    /\ pc[r] = "next" => base[r].snaps = tx[r].snaps
    /\ Refreshing(r) => tx[r].snaps \ {Current(r)} \subseteq base[r].snaps
    /\ pc[r] = "insert" => got[r] \subseteq new[r] \cup tx[r].rows \cup StoredListings
    /\ pc[r] \in {"value", "mark"} => got[r] \subseteq tx[r].rows \cup StoredListings
    /\ tx[r].from \subseteq tx[r].rows \cup StoredListings
    /\ base[r].from \subseteq base[r].rows \cup StoredListings

\* A set is refreshed by one request of a process at a time, and a lock that is
\* held belongs to a request that will release it.
LocksAreHeld ==
    /\ \A r \in Requests : Refreshing(r) => HoldsItsLock(r)
    /\ \A p \in Processes : \A s \in Sets : lock[p][s] # NoRequest =>
           /\ Refreshing(lock[p][s])
           /\ Home[lock[p][s]] = p /\ Current(lock[p][s]) = s

\* Prices are made from listings that are stored.
PricesAreListed == \A l \in priced : row[l] # "absent"

RefreshInv ==
    /\ TypeOK
    /\ \A r \in Requests : WritesInv(r)
    /\ LocksAreHeld
    /\ PricesAreListed

-----------------------------------------------------------------------------
\* Initially nothing is stored of any refresh, and no lock is held.
LEMMA RefreshInitInv == Init => RefreshInv
<1> SUFFICES ASSUME Init PROVE RefreshInv
  OBVIOUS
<1>1. NoWrites \in Writes
  BY DEF NoWrites, Writes
<1>2. TypeOK
  BY <1>1, PlansAreSets DEF Init, TypeOK
<1>3. \A r \in Requests : pc[r] = "next" /\ ~Refreshing(r)
  BY DEF Init, Refreshing
<1>4. \A r \in Requests : WritesInv(r)
  BY <1>3 DEF Init, WritesInv, NoWrites
<1>5. LocksAreHeld
  BY <1>3 DEF Init, LocksAreHeld
<1> QED
  BY <1>2, <1>4, <1>5 DEF RefreshInv, PricesAreListed, Init

\* What a request knows of its own writes stays so while others take steps.
LEMMA WritesStay ==
    ASSUME NEW q \in Requests, WritesInv(q),
           pc'[q] = pc[q], left'[q] = left[q], got'[q] = got[q], new'[q] = new[q],
           tx'[q] = tx[q], base'[q] = base[q],
           StoredListings \subseteq StoredListings'
    PROVE  WritesInv(q)'
<1>1. Current(q)' = Current(q) /\ Refreshing(q)' = Refreshing(q)
  BY DEF Current, Refreshing
<1> QED
  BY <1>1 DEF WritesInv

\* A lock is held while the refresh of the set goes on.
LEMMA LocksStay ==
    ASSUME TypeOK, LocksAreHeld, UNCHANGED <<lock, left>>,
           \A q \in Requests : Refreshing(q)' = Refreshing(q)
    PROVE  LocksAreHeld'
<1>1. \A q : Current(q)' = Current(q)
  BY DEF Current
<1>2. \A p \in Processes, s \in Sets : lock[p][s] # NoRequest => lock[p][s] \in Requests
  BY DEF TypeOK
<1> QED
  BY <1>1, <1>2 DEF LocksAreHeld, HoldsItsLock

\* The home of a request is a process.
LEMMA HomeIsProcess == \A r \in Requests : Home[r] \in Processes
  BY DEF Processes

\* Request r leaves its set, with these writes kept.
LEMMA LeaveInv ==
    ASSUME RefreshInv, NEW r \in Requests, Refreshing(r),
           NEW writes \in Writes, writes.from \subseteq writes.rows \cup StoredListings,
           NEW x \in {"next", "failed"}, NEW rest \in Seq(Sets),
           Leave(r, writes), pc' = [pc EXCEPT ![r] = x], left' = [left EXCEPT ![r] = rest],
           failures' \in Nat, UNCHANGED <<row, fresh, priced, valued, aging>>
    PROVE  RefreshInv' /\ tx'[r] = writes
<1>1. TypeOK /\ LocksAreHeld
  BY DEF RefreshInv
<1>2. /\ lock' = [lock EXCEPT ![Home[r]][Current(r)] = NoRequest]
      /\ tx' = [tx EXCEPT ![r] = writes] /\ base' = [base EXCEPT ![r] = writes]
      /\ got' = [got EXCEPT ![r] = {}] /\ new' = [new EXCEPT ![r] = {}]
  BY DEF Leave, Unlock
<1>3. left[r] # << >> /\ lock[Home[r]][Current(r)] = r
  BY <1>1 DEF LocksAreHeld, HoldsItsLock
<1>4. Current(r) \in Sets /\ Home[r] \in Processes
  BY <1>1, <1>3, HomeIsProcess DEF TypeOK, Current
<1>5. /\ lock' \in [Processes -> [Sets -> Requests \cup {NoRequest}]]
      /\ lock'[Home[r]][Current(r)] = NoRequest
      /\ \A p \in Processes, s \in Sets :
             lock'[p][s] = lock[p][s] \/ (p = Home[r] /\ s = Current(r))
  <2>1. lock \in [Processes -> [Sets -> Requests \cup {NoRequest}]]
    BY <1>1 DEF TypeOK
  <2> QED
    BY <1>2, <1>4, <2>1
<1>6. TypeOK'
  <2>1. pc' \in [Requests -> {"next", "fetch", "look", "insert", "value", "mark",
                              "done", "failed"}]
    BY <1>1 DEF TypeOK
  <2>2. left' \in [Requests -> Seq(Sets)]
    BY <1>1 DEF TypeOK
  <2>3. /\ tx' \in [Requests -> Writes] /\ base' \in [Requests -> Writes]
        /\ got' \in [Requests -> SUBSET Listings] /\ new' \in [Requests -> SUBSET Listings]
    BY <1>1, <1>2 DEF TypeOK
  <2> QED
    BY <1>1, <1>5, <2>1, <2>2, <2>3 DEF TypeOK
<1>7. /\ pc'[r] = x /\ tx'[r] = writes /\ base'[r] = writes
      /\ \A q \in Requests \ {r} :
             /\ pc'[q] = pc[q] /\ left'[q] = left[q] /\ got'[q] = got[q]
             /\ new'[q] = new[q] /\ tx'[q] = tx[q] /\ base'[q] = base[q]
  BY <1>1, <1>2 DEF TypeOK
<1>8. StoredListings' = StoredListings
  BY DEF StoredListings
<1>9. ~Refreshing(r)' /\ \A q \in Requests \ {r} : /\ Refreshing(q)' = Refreshing(q)
                                                    /\ Current(q)' = Current(q)
  BY <1>7 DEF Refreshing, Current
<1>10. ASSUME NEW q \in Requests PROVE WritesInv(q)'
  <2>1. CASE q = r
    BY <1>7, <1>8, <1>9, <2>1 DEF WritesInv
  <2>2. CASE q # r
    BY <1>7, <1>8, <2>2, WritesStay DEF RefreshInv
  <2> QED
    BY <2>1, <2>2
<1>11. LocksAreHeld'
  <2>1. ASSUME NEW q \in Requests, Refreshing(q)' PROVE HoldsItsLock(q)'
    <3>1. q # r /\ Refreshing(q)
      BY <1>9, <2>1
    <3>2. left[q] # << >> /\ lock[Home[q]][Current(q)] = q
      BY <1>1, <3>1 DEF LocksAreHeld, HoldsItsLock
    <3>3. Current(q) \in Sets /\ Home[q] \in Processes
      BY <1>1, <3>2, HomeIsProcess DEF TypeOK, Current
    <3>4. lock'[Home[q]][Current(q)] = q
      BY <1>3, <1>5, <3>1, <3>2, <3>3
    <3> QED
      BY <1>7, <1>9, <3>1, <3>2, <3>4 DEF HoldsItsLock
  <2>2. ASSUME NEW p \in Processes, NEW s \in Sets, lock'[p][s] # NoRequest
        PROVE  /\ Refreshing(lock[p][s])' /\ lock'[p][s] = lock[p][s]
               /\ Home[lock[p][s]] = p /\ Current(lock[p][s])' = s
    <3>1. lock'[p][s] = lock[p][s] /\ ~(p = Home[r] /\ s = Current(r))
      BY <1>5, <2>2
    <3>2. /\ Refreshing(lock[p][s]) /\ lock[p][s] \in Requests
          /\ Home[lock[p][s]] = p /\ Current(lock[p][s]) = s
      BY <1>1, <2>2, <3>1 DEF LocksAreHeld, TypeOK
    <3>3. lock[p][s] # r
      BY <3>1, <3>2
    <3> QED
      BY <1>9, <3>1, <3>2, <3>3
  <2> QED
    BY <2>1, <2>2 DEF LocksAreHeld, Refreshing, Current
<1> QED
  BY <1>6, <1>7, <1>10, <1>11 DEF RefreshInv, PricesAreListed

\* A refresh that raises ends with these writes, or fails its request.
LEMMA RaiseInv ==
    ASSUME RefreshInv, NEW r \in Requests, Refreshing(r),
           NEW writes \in Writes, writes.from \subseteq writes.rows \cup StoredListings,
           Raise(r, writes), failures' \in Nat, UNCHANGED <<row, fresh, priced, valued, aging>>
    PROVE  RefreshInv' /\ (pc'[r] # "failed" => tx'[r] = writes)
<1>1. TypeOK /\ left[r] # << >>
  BY DEF RefreshInv, LocksAreHeld, HoldsItsLock
<1>2. Tail(left[r]) \in Seq(Sets) /\ << >> \in Seq(Sets)
  <2>1. left[r] \in Seq(Sets)
    BY <1>1 DEF TypeOK
  <2> QED
    BY <1>1, <2>1
<1>3. CASE r \in Tolerant
  <2>1. /\ Leave(r, writes) /\ pc' = [pc EXCEPT ![r] = "next"]
        /\ left' = [left EXCEPT ![r] = Tail(left[r])]
    BY <1>3 DEF Raise
  <2> QED
    BY <1>2, <2>1, LeaveInv
<1>4. CASE r \notin Tolerant
  <2>1. /\ Leave(r, NoWrites) /\ pc' = [pc EXCEPT ![r] = "failed"]
        /\ left' = [left EXCEPT ![r] = << >>]
    BY <1>4 DEF Raise
  <2>2. NoWrites \in Writes /\ NoWrites.from = {}
    BY DEF NoWrites, Writes
  <2>3. pc'[r] = "failed"
    BY <1>1, <2>1 DEF TypeOK
  <2> QED
    BY <1>2, <2>1, <2>2, <2>3, LeaveInv
<1> QED
  BY <1>3, <1>4

\* A step of request r within the refresh of its set.
LEMMA WithinInv ==
    ASSUME RefreshInv, NEW r \in Requests, Refreshing(r), Refreshing(r)',
           UNCHANGED <<row, fresh, priced, valued, lock, left, base, failures, aging>>,
           TypeOK', WritesInv(r)',
           \A q \in Requests \ {r} :
               /\ pc'[q] = pc[q] /\ got'[q] = got[q] /\ new'[q] = new[q] /\ tx'[q] = tx[q]
    PROVE  RefreshInv'
<1>1. TypeOK /\ LocksAreHeld
  BY DEF RefreshInv
<1>2. StoredListings' = StoredListings
  BY DEF StoredListings
<1>3. ASSUME NEW q \in Requests \ {r} PROVE WritesInv(q)'
  BY <1>2, WritesStay DEF RefreshInv
<1>4. \A q \in Requests : Refreshing(q)' = Refreshing(q)
  BY DEF Refreshing
<1>5. LocksAreHeld'
  BY <1>1, <1>4, LocksStay
<1> QED
  BY <1>3, <1>5 DEF RefreshInv, PricesAreListed

\* The providers answer, and the listings are looked up.
LEMMA FetchInv ==
    ASSUME RefreshInv, NEW r \in Requests, Fetch(r) \/ Look(r)
    PROVE  RefreshInv'
<1>1. TypeOK /\ WritesInv(r) /\ Refreshing(r)
  BY DEF RefreshInv, Fetch, Look, Refreshing
<1>2. PICK x \in {"look", "insert"} :
          /\ pc' = [pc EXCEPT ![r] = x]
          /\ x = "look" => new' = new
          /\ x = "insert" =>
                 /\ new' = [new EXCEPT ![r] =
                              {l \in got[r] : row[l] = "absent" /\ l \notin tx[r].rows}]
                 /\ got' = got
  BY DEF Fetch, Look
<1>3. /\ UNCHANGED <<row, fresh, priced, valued, lock, left, tx, base, failures, aging>>
      /\ got' \in [Requests -> SUBSET Listings] /\ new' \in [Requests -> SUBSET Listings]
      /\ \A q \in Requests \ {r} : got'[q] = got[q] /\ new'[q] = new[q]
  <2>1. got \in [Requests -> SUBSET Listings] /\ new \in [Requests -> SUBSET Listings]
    BY <1>1 DEF TypeOK
  <2>2. CASE Fetch(r)
    BY <2>1, <2>2 DEF Fetch, ListedFor
  <2>3. CASE Look(r)
    BY <2>1, <2>3 DEF Look
  <2> QED
    BY <2>2, <2>3
<1>4. TypeOK'
  BY <1>1, <1>2, <1>3 DEF TypeOK
<1>5. pc'[r] = x /\ \A q \in Requests \ {r} : pc'[q] = pc[q]
  BY <1>1, <1>2 DEF TypeOK
<1>6. Refreshing(r)' /\ Current(r)' = Current(r)
  BY <1>3, <1>5 DEF Refreshing, Current
<1>7. WritesInv(r)'
  <2>1. x = "insert" => got'[r] \subseteq new'[r] \cup tx'[r].rows \cup StoredListings'
    BY <1>1, <1>2, <1>3 DEF TypeOK, StoredListings
  <2>2. StoredListings' = StoredListings
    BY <1>3 DEF StoredListings
  <2> QED
    BY <1>1, <1>3, <1>5, <1>6, <2>1, <2>2 DEF WritesInv
<1> QED
  BY <1>1, <1>3, <1>4, <1>5, <1>6, <1>7, WithinInv

\* The new listings and the snapshots are inserted.
LEMMA InsertInv ==
    ASSUME RefreshInv, NEW r \in Requests, Insert(r) \/ Value(r)
    PROVE  RefreshInv'
<1>1. TypeOK /\ WritesInv(r) /\ Refreshing(r)
  BY DEF RefreshInv, Insert, Value, Refreshing
<1>2. /\ UNCHANGED <<row, fresh, priced, valued, failures, aging>>
      /\ tx[r] \in Writes /\ base[r] \in Writes /\ got[r] \subseteq Listings
      /\ new[r] \subseteq Listings
  BY <1>1 DEF Insert, Value, TypeOK
<1>3. CASE Insert(r) /\ Raise(r, base[r])
  <2>1. base[r].from \subseteq base[r].rows \cup StoredListings /\ failures' \in Nat
    BY <1>1, <1>2 DEF WritesInv, TypeOK
  <2> QED
    BY <1>1, <1>2, <1>3, <2>1, RaiseInv
<1>4. CASE Insert(r) /\ ~Raise(r, base[r])
  <2> DEFINE more == [tx[r] EXCEPT !.rows = @ \cup new[r]]
  <2>1. /\ pc[r] = "insert" /\ pc' = [pc EXCEPT ![r] = "value"]
        /\ tx' = [tx EXCEPT ![r] = more]
        /\ UNCHANGED <<lock, left, got, new, base>>
    BY <1>4 DEF Insert, NewRows
  <2>2. /\ more \in Writes /\ more.rows = tx[r].rows \cup new[r]
        /\ more.from = tx[r].from /\ more.snaps = tx[r].snaps
    BY <1>2 DEF Writes
  <2> HIDE DEF more
  <2>3. /\ TypeOK' /\ pc'[r] = "value" /\ tx'[r] = more
        /\ \A q \in Requests \ {r} : pc'[q] = pc[q] /\ tx'[q] = tx[q]
    BY <1>1, <1>2, <2>1, <2>2 DEF TypeOK
  <2>4. Refreshing(r)' /\ Current(r)' = Current(r) /\ StoredListings' = StoredListings
    BY <1>2, <2>1, <2>3 DEF Refreshing, Current, StoredListings
  <2>5. WritesInv(r)'
    BY <1>1, <2>1, <2>2, <2>3, <2>4 DEF WritesInv
  <2> QED
    BY <1>1, <1>2, <2>1, <2>3, <2>4, <2>5, WithinInv
<1>5. CASE Value(r)
  <2> DEFINE more == [tx[r] EXCEPT
                        !.snaps = IF got[r] = {} THEN @ ELSE @ \cup {Current(r)},
                        !.from = @ \cup got[r],
                        !.valued = @ \/ Values(r)]
  <2>1. /\ pc[r] = "value" /\ pc' = [pc EXCEPT ![r] = "mark"]
        /\ tx' = [tx EXCEPT ![r] = more]
        /\ UNCHANGED <<lock, left, got, new, base>>
    BY <1>5 DEF Value
  <2>2. Current(r) \in Sets
    BY <1>1 DEF RefreshInv, LocksAreHeld, HoldsItsLock, TypeOK, Current
  <2>3. (tx[r].valued \/ Values(r)) \in BOOLEAN
    BY Zenon
  <2>4. /\ more \in Writes /\ more.rows = tx[r].rows /\ more.from = tx[r].from \cup got[r]
        /\ more.snaps \subseteq tx[r].snaps \cup {Current(r)}
    BY <1>2, <2>2, <2>3 DEF Writes
  <2> HIDE DEF more
  <2>5. /\ TypeOK' /\ pc'[r] = "mark" /\ tx'[r] = more
        /\ \A q \in Requests \ {r} : pc'[q] = pc[q] /\ tx'[q] = tx[q]
    BY <1>1, <1>2, <2>1, <2>4 DEF TypeOK
  <2>6. Refreshing(r)' /\ Current(r)' = Current(r) /\ StoredListings' = StoredListings
    BY <1>2, <2>1, <2>5 DEF Refreshing, Current, StoredListings
  <2>7. WritesInv(r)'
    BY <1>1, <2>1, <2>4, <2>5, <2>6 DEF WritesInv
  <2> QED
    BY <1>1, <1>2, <2>1, <2>5, <2>6, <2>7, WithinInv
<1> QED
  BY <1>3, <1>4, <1>5

\* A request that finds the lock free takes it, or finds the set fresh.
LEMMA AcquireInv ==
    ASSUME RefreshInv, NEW r \in Requests, Acquire(r)
    PROVE  RefreshInv'
<1>1. TypeOK /\ LocksAreHeld /\ WritesInv(r)
  BY DEF RefreshInv
<1>2. /\ pc[r] = "next" /\ left[r] # << >> /\ lock[Home[r]][Current(r)] = NoRequest
      /\ UNCHANGED <<row, fresh, priced, valued, got, new, tx, base, failures, aging>>
  BY DEF Acquire, Free
<1>3. StoredListings' = StoredListings
  BY <1>2 DEF StoredListings
<1>4. Current(r) \in Sets /\ Home[r] \in Processes /\ Tail(left[r]) \in Seq(Sets)
  <2>1. left[r] \in Seq(Sets)
    BY <1>1 DEF TypeOK
  <2> QED
    BY <1>2, <2>1, HomeIsProcess DEF Current
<1>5. CASE left' = [left EXCEPT ![r] = Tail(@)] /\ UNCHANGED <<pc, lock>>
  <2>1. TypeOK'
    BY <1>1, <1>2, <1>4, <1>5 DEF TypeOK
  <2>2. \A q \in Requests \ {r} : left'[q] = left[q]
    BY <1>1, <1>5 DEF TypeOK
  <2>3. \A q \in Requests : /\ Refreshing(q)' = Refreshing(q)
                            /\ Refreshing(q) => Current(q)' = Current(q) /\ left'[q] = left[q]
    BY <1>2, <1>5, <2>2 DEF Refreshing, Current
  <2>4. ASSUME NEW q \in Requests PROVE WritesInv(q)'
    BY <1>2, <1>3, <1>5, <2>3 DEF RefreshInv, WritesInv
  <2>5. LocksAreHeld'
    <3>1. \A p \in Processes, s \in Sets : lock'[p][s] # NoRequest => lock'[p][s] \in Requests
      BY <1>1, <1>5 DEF TypeOK
    <3>2. ASSUME NEW q \in Requests, Refreshing(q)' PROVE HoldsItsLock(q)'
      <4>1. Refreshing(q) /\ HoldsItsLock(q)
        BY <1>1, <2>3, <3>2 DEF LocksAreHeld
      <4> QED
        BY <1>5, <2>3, <4>1 DEF HoldsItsLock
    <3>3. ASSUME NEW p \in Processes, NEW s \in Sets, NEW q \in Requests, lock'[p][s] = q
          PROVE  Refreshing(q)' /\ Home[q] = p /\ Current(q)' = s
      <4>1. Refreshing(q) /\ Home[q] = p /\ Current(q) = s
        BY <1>1, <1>5, <3>3, NoRequestIsNone DEF LocksAreHeld
      <4> QED
        BY <2>3, <4>1
    <3> QED
      BY <3>1, <3>2, <3>3 DEF LocksAreHeld, Refreshing, Current
  <2> QED
    BY <1>2, <2>1, <2>4, <2>5 DEF RefreshInv, PricesAreListed
<1>6. CASE /\ lock' = [lock EXCEPT ![Home[r]][Current(r)] = r]
           /\ pc' = [pc EXCEPT ![r] = "fetch"]
           /\ UNCHANGED left
  <2>1. /\ lock' \in [Processes -> [Sets -> Requests \cup {NoRequest}]]
        /\ lock'[Home[r]][Current(r)] = r
        /\ \A p \in Processes, s \in Sets :
               lock'[p][s] = lock[p][s] \/ (p = Home[r] /\ s = Current(r))
    <3>1. lock \in [Processes -> [Sets -> Requests \cup {NoRequest}]]
      BY <1>1 DEF TypeOK
    <3> QED
      BY <1>4, <1>6, <3>1
  <2>2. TypeOK'
    BY <1>1, <1>2, <1>6, <2>1 DEF TypeOK
  <2>3. pc'[r] = "fetch" /\ \A q \in Requests \ {r} : pc'[q] = pc[q]
    BY <1>1, <1>6 DEF TypeOK
  <2>4. /\ Refreshing(r)' /\ \A q \in Requests : Current(q)' = Current(q)
        /\ \A q \in Requests \ {r} : Refreshing(q)' = Refreshing(q)
    BY <1>6, <2>3 DEF Refreshing, Current
  <2>5. ASSUME NEW q \in Requests PROVE WritesInv(q)'
    <3>1. CASE q = r
      BY <1>1, <1>2, <1>3, <2>3, <3>1 DEF WritesInv
    <3>2. CASE q # r
      BY <1>2, <1>3, <1>6, <2>3, <3>2, WritesStay DEF RefreshInv
    <3> QED
      BY <3>1, <3>2
  <2>6. ASSUME NEW q \in Requests, Refreshing(q)' PROVE HoldsItsLock(q)'
    <3>1. CASE q = r
      BY <1>2, <1>6, <2>1, <2>4, <3>1 DEF HoldsItsLock
    <3>2. CASE q # r
      <4>1. Refreshing(q) /\ left[q] # << >> /\ lock[Home[q]][Current(q)] = q
        BY <1>1, <2>4, <2>6, <3>2 DEF LocksAreHeld, HoldsItsLock
      <4>2. Current(q) \in Sets /\ Home[q] \in Processes
        BY <1>1, <4>1, HomeIsProcess DEF TypeOK, Current
      <4>3. lock'[Home[q]][Current(q)] = q
        BY <1>2, <2>1, <4>1, <4>2, NoRequestIsNone
      <4> QED
        BY <1>6, <2>4, <4>1, <4>3 DEF HoldsItsLock
    <3> QED
      BY <3>1, <3>2
  <2>7. ASSUME NEW p \in Processes, NEW s \in Sets, NEW q \in Requests, lock'[p][s] = q
        PROVE  Refreshing(q)' /\ Home[q] = p /\ Current(q)' = s
    <3>1. CASE p = Home[r] /\ s = Current(r)
      BY <2>1, <2>4, <2>7, <3>1
    <3>2. CASE ~(p = Home[r] /\ s = Current(r))
      <4>1. lock[p][s] = q /\ lock[p][s] # NoRequest
        BY <2>1, <2>7, <3>2, NoRequestIsNone
      <4>2. Refreshing(q) /\ Home[q] = p /\ Current(q) = s
        BY <1>1, <4>1 DEF LocksAreHeld
      <4> QED
        BY <2>4, <3>2, <4>2
    <3> QED
      BY <3>1, <3>2
  <2>8. LocksAreHeld'
    <3>1. \A p \in Processes, s \in Sets : lock'[p][s] # NoRequest => lock'[p][s] \in Requests
      BY <2>1
    <3> QED
      BY <2>6, <2>7, <3>1 DEF LocksAreHeld, Refreshing, Current
  <2> QED
    BY <1>2, <2>2, <2>5, <2>8 DEF RefreshInv, PricesAreListed
<1> QED
  BY <1>5, <1>6 DEF Acquire

\* No provider answers.
LEMMA FetchFailsInv ==
    ASSUME RefreshInv, NEW r \in Requests, FetchFails(r)
    PROVE  RefreshInv'
<1>1. TypeOK /\ WritesInv(r) /\ Refreshing(r) /\ Raise(r, tx[r]) /\ failures' = failures + 1
  BY DEF RefreshInv, FetchFails, Refreshing
<1>2. /\ tx[r] \in Writes /\ tx[r].from \subseteq tx[r].rows \cup StoredListings
      /\ failures' \in Nat
  BY <1>1 DEF TypeOK, WritesInv
<1> QED
  BY <1>1, <1>2, RaiseInv DEF FetchFails

\* The savepoint ends.
LEMMA MarkInv ==
    ASSUME RefreshInv, NEW r \in Requests, Mark(r)
    PROVE  RefreshInv'
<1> DEFINE writes == [tx[r] EXCEPT !.marked = @ \cup Unseen(r)]
<1>1. TypeOK /\ WritesInv(r) /\ Refreshing(r) /\ failures' \in Nat
  BY DEF RefreshInv, Mark, Refreshing, TypeOK
<1>2. /\ IF got[r] = {} THEN Raise(r, writes)
         ELSE /\ Leave(r, writes) /\ pc' = [pc EXCEPT ![r] = "next"]
              /\ left' = [left EXCEPT ![r] = Tail(@)]
      /\ UNCHANGED <<row, fresh, priced, valued, failures, aging>>
  BY DEF Mark
<1>3. /\ writes \in Writes /\ writes.from = tx[r].from /\ writes.rows = tx[r].rows
  <2>1. tx[r] \in Writes /\ Unseen(r) \subseteq Listings
    BY <1>1 DEF TypeOK, Unseen, ListedFor
  <2> QED
    BY <2>1 DEF Writes
<1> HIDE DEF writes
<1>4. writes.from \subseteq writes.rows \cup StoredListings
  BY <1>1, <1>3 DEF WritesInv
<1>5. Tail(left[r]) \in Seq(Sets)
  <2>1. left[r] # << >> /\ left[r] \in Seq(Sets)
    BY <1>1 DEF RefreshInv, LocksAreHeld, HoldsItsLock, TypeOK
  <2> QED
    BY <2>1
<1>6. CASE got[r] = {}
  <2>1. Raise(r, writes)
    BY <1>2, <1>6
  <2> QED
    BY <1>1, <1>2, <1>3, <1>4, <2>1, RaiseInv
<1>7. CASE got[r] # {}
  <2>1. /\ Leave(r, writes) /\ pc' = [pc EXCEPT ![r] = "next"]
        /\ left' = [left EXCEPT ![r] = Tail(left[r])]
    BY <1>2, <1>7
  <2> QED
    BY <1>1, <1>2, <1>3, <1>4, <1>5, <2>1, LeaveInv
<1> QED
  BY <1>6, <1>7

\* Only a statement of a refresh waits for a row.
LEMMA VictimRefreshes ==
    ASSUME NEW r \in Requests, Victim(r)
    PROVE  Refreshing(r)
<1>1. PICK cycle \in SUBSET Requests :
          /\ r \in cycle
          /\ \A q \in cycle : /\ WaitsFor(q) \cap cycle # {}
                              /\ \E p \in cycle : q \in WaitsFor(p)
  BY DEF Victim
<1>2. WaitsFor(r) # {}
  BY <1>1
<1> QED
  BY <1>2 DEF WaitsFor, Refreshing

\* A refresh that is ended by the database goes back to its savepoint.
LEMMA VictimInv ==
    ASSUME RefreshInv, NEW r \in Requests, Victim(r)
    PROVE  RefreshInv'
<1>1. /\ TypeOK /\ WritesInv(r) /\ Refreshing(r) /\ Raise(r, base[r])
      /\ UNCHANGED <<row, fresh, priced, valued, failures, aging>>
  BY VictimRefreshes DEF RefreshInv, Victim
<1>2. /\ base[r] \in Writes /\ base[r].from \subseteq base[r].rows \cup StoredListings
      /\ failures' \in Nat
  BY <1>1 DEF TypeOK, WritesInv
<1> QED
  BY <1>1, <1>2, RaiseInv

\* The transaction is committed.
LEMMA RefreshCommitInv ==
    ASSUME RefreshInv, NEW r \in Requests, Commit(r)
    PROVE  RefreshInv'
<1>1. TypeOK /\ LocksAreHeld /\ WritesInv(r)
  BY DEF RefreshInv
<1>2. /\ pc[r] = "next" /\ pc' = [pc EXCEPT ![r] = "done"]
      /\ row' = [l \in Listings |-> IF l \in tx[r].marked THEN "removed"
                                    ELSE IF l \in tx[r].rows THEN "active" ELSE row[l]]
      /\ fresh' = fresh \cup tx[r].snaps /\ priced' = priced \cup tx[r].from
      /\ valued' = (valued \/ tx[r].valued)
      /\ tx' = [tx EXCEPT ![r] = NoWrites] /\ base' = [base EXCEPT ![r] = NoWrites]
      /\ UNCHANGED <<lock, left, got, new, failures, aging>>
  BY DEF Commit
<1>3. /\ NoWrites \in Writes /\ NoWrites.from = {} /\ NoWrites.snaps = {}
      /\ tx[r].snaps \subseteq Sets
      /\ tx[r].from \subseteq Listings /\ tx[r].rows \subseteq Listings
      /\ tx[r].valued \in BOOLEAN
  BY <1>1 DEF NoWrites, Writes, TypeOK
<1>4. \A l \in Listings : row'[l] # "absent" <=>
          (row[l] # "absent" \/ l \in tx[r].marked \/ l \in tx[r].rows)
  BY <1>2
<1>5. StoredListings \cup tx[r].rows \subseteq StoredListings'
  BY <1>3, <1>4 DEF StoredListings
<1>6. TypeOK'
  <2>1. row' \in [Listings -> {"absent", "active", "old", "removed"}]
    BY <1>1, <1>2 DEF TypeOK
  <2>2. valued' \in BOOLEAN
    BY <1>2
  <2>3. fresh' \subseteq Sets /\ priced' \subseteq Listings
    BY <1>1, <1>2, <1>3 DEF TypeOK
  <2> QED
    BY <1>1, <1>2, <1>3, <2>1, <2>2, <2>3 DEF TypeOK
<1>7. /\ pc'[r] = "done" /\ tx'[r] = NoWrites /\ base'[r] = NoWrites
      /\ \A q \in Requests \ {r} : pc'[q] = pc[q] /\ tx'[q] = tx[q] /\ base'[q] = base[q]
  BY <1>1, <1>2 DEF TypeOK
<1>8. ASSUME NEW q \in Requests PROVE WritesInv(q)'
  <2>1. CASE q = r
    BY <1>3, <1>7, <2>1 DEF WritesInv, Refreshing
  <2>2. CASE q # r
    BY <1>2, <1>5, <1>7, <2>2, WritesStay DEF RefreshInv
  <2> QED
    BY <2>1, <2>2
<1>9. LocksAreHeld'
  <2>1. \A q \in Requests : Refreshing(q)' = Refreshing(q)
    BY <1>2, <1>7 DEF Refreshing
  <2> QED
    BY <1>1, <1>2, <2>1, LocksStay
<1>10. PricesAreListed'
  <2>1. priced' \subseteq StoredListings'
    BY <1>1, <1>2, <1>3, <1>5 DEF RefreshInv, PricesAreListed, WritesInv, TypeOK, StoredListings
  <2> QED
    BY <2>1 DEF StoredListings, PricesAreListed
<1> QED
  BY <1>6, <1>8, <1>9, <1>10 DEF RefreshInv

\* A process ends with its locks and its transactions.
LEMMA CrashInv ==
    ASSUME RefreshInv, NEW p \in Processes, Crash(p)
    PROVE  RefreshInv'
<1> DEFINE served == {r \in Requests : Home[r] = p /\ pc[r] \notin {"done", "failed"}}
<1>1. TypeOK /\ LocksAreHeld
  BY DEF RefreshInv
<1>2. /\ lock' = [lock EXCEPT ![p] = [s \in Sets |-> NoRequest]]
      /\ pc' = [r \in Requests |-> IF r \in served THEN "failed" ELSE pc[r]]
      /\ left' = [r \in Requests |-> IF r \in served THEN << >> ELSE left[r]]
      /\ got' = [r \in Requests |-> IF r \in served THEN {} ELSE got[r]]
      /\ new' = [r \in Requests |-> IF r \in served THEN {} ELSE new[r]]
      /\ tx' = [r \in Requests |-> IF r \in served THEN NoWrites ELSE tx[r]]
      /\ base' = [r \in Requests |-> IF r \in served THEN NoWrites ELSE base[r]]
      /\ failures' = failures + 1
      /\ UNCHANGED <<row, fresh, priced, valued, aging>>
  BY DEF Crash
<1>3. NoWrites \in Writes /\ NoWrites.from = {}
  BY DEF NoWrites, Writes
<1>4. TypeOK'
  <2>1. /\ pc' \in [Requests -> {"next", "fetch", "look", "insert", "value", "mark",
                                 "done", "failed"}]
        /\ left' \in [Requests -> Seq(Sets)]
    BY <1>1, <1>2 DEF TypeOK
  <2>2. /\ got' \in [Requests -> SUBSET Listings] /\ new' \in [Requests -> SUBSET Listings]
        /\ tx' \in [Requests -> Writes] /\ base' \in [Requests -> Writes]
    BY <1>1, <1>2, <1>3 DEF TypeOK
  <2>3. lock' \in [Processes -> [Sets -> Requests \cup {NoRequest}]]
    BY <1>1, <1>2 DEF TypeOK
  <2> QED
    BY <1>1, <1>2, <2>1, <2>2, <2>3 DEF TypeOK
<1>5. StoredListings' = StoredListings
  BY <1>2 DEF StoredListings
<1>6. \A q \in served : Home[q] = p
  OBVIOUS
<1>7. \A q \in Requests \ served : Refreshing(q) => Home[q] # p
  BY DEF Refreshing
<1> HIDE DEF served
<1>8. ASSUME NEW q \in Requests PROVE WritesInv(q)'
  <2>1. CASE q \in served
    BY <1>2, <1>3, <2>1 DEF WritesInv, Refreshing
  <2>2. CASE q \notin served
    BY <1>2, <1>5, <2>2, WritesStay DEF RefreshInv
  <2> QED
    BY <2>1, <2>2
<1>9. \A q \in Requests : Refreshing(q)' =>
          /\ q \notin served /\ Refreshing(q) /\ left'[q] = left[q] /\ Current(q)' = Current(q)
  BY <1>2 DEF Refreshing, Current
<1>10. \A q \in Requests \ served : Refreshing(q)' = Refreshing(q) /\ Current(q)' = Current(q)
  BY <1>2 DEF Refreshing, Current
<1>11. /\ \A x \in Processes \ {p} : lock'[x] = lock[x]
       /\ \A s \in Sets : lock'[p][s] = NoRequest
  BY <1>1, <1>2 DEF TypeOK
<1>12. ASSUME NEW q \in Requests, Refreshing(q)' PROVE HoldsItsLock(q)'
  <2>1. HoldsItsLock(q) /\ Home[q] # p
    BY <1>1, <1>7, <1>9, <1>12 DEF LocksAreHeld
  <2> QED
    BY <1>9, <1>11, <1>12, <2>1, HomeIsProcess DEF HoldsItsLock
<1>13. ASSUME NEW x \in Processes, NEW s \in Sets, lock'[x][s] # NoRequest
       PROVE  /\ Refreshing(lock[x][s])' /\ lock'[x][s] = lock[x][s]
              /\ Home[lock[x][s]] = x /\ Current(lock[x][s])' = s
  <2>1. x # p /\ lock'[x][s] = lock[x][s] /\ lock[x][s] \in Requests
    BY <1>1, <1>11, <1>13 DEF TypeOK
  <2>2. Refreshing(lock[x][s]) /\ Home[lock[x][s]] = x /\ Current(lock[x][s]) = s
    BY <1>1, <1>13, <2>1 DEF LocksAreHeld
  <2> QED
    BY <1>6, <1>10, <2>1, <2>2
<1>14. LocksAreHeld'
  BY <1>12, <1>13 DEF LocksAreHeld, Refreshing, Current
<1> QED
  BY <1>2, <1>4, <1>8, <1>14 DEF RefreshInv, PricesAreListed

\* Every step keeps the invariant.
LEMMA RefreshStep == RefreshInv /\ [Next]_vars => RefreshInv'
<1> SUFFICES ASSUME RefreshInv, [Next]_vars PROVE RefreshInv'
  OBVIOUS
<1>1. ASSUME NEW r \in Requests, Step(r) PROVE RefreshInv'
  BY <1>1, AcquireInv, FetchInv, FetchFailsInv, InsertInv, MarkInv, VictimInv,
     RefreshCommitInv
  DEF Step
<1>2. CASE UNCHANGED vars \/ \E s \in Sets : Age(s)
  <2>1. /\ UNCHANGED <<row, priced, lock, pc, left, got, new, tx, base>>
        /\ fresh' \subseteq fresh /\ valued' = valued /\ failures' = failures
        /\ aging' = aging \/ aging' = aging + 1
    BY <1>2 DEF vars, Age, request
  <2>2. TypeOK'
    BY <2>1 DEF RefreshInv, TypeOK
  <2>3. StoredListings' = StoredListings
    BY <2>1 DEF StoredListings
  <2>4. ASSUME NEW q \in Requests PROVE WritesInv(q)'
    BY <2>1, <2>3, WritesStay DEF RefreshInv
  <2>5. LocksAreHeld'
    BY <2>1, LocksStay DEF RefreshInv, Refreshing
  <2> QED
    BY <2>1, <2>2, <2>4, <2>5 DEF RefreshInv, PricesAreListed
<1> QED
  BY <1>1, <1>2, CrashInv DEF Next

\* The strengthening of what follows.
LEMMA RefreshInvariance == Spec => []RefreshInv
  BY RefreshInitInv, RefreshStep, PTL DEF Spec

\* Type correctness of the refreshes, for any sets, listings, providers and processes,
\* whatever the requests refresh in whatever order.
THEOREM RefreshTypeCorrect == Spec => []TypeOK
<1>1. RefreshInv => TypeOK
  BY DEF RefreshInv
<1> QED
  BY <1>1, RefreshInvariance, PTL

\* A set is refreshed by one request of a process at a time, whatever fails, and no lock
\* is held by a request that is not at that set.
THEOREM LocksAreAlwaysHeld == Spec => []LocksAreHeld
<1>1. RefreshInv => LocksAreHeld
  BY DEF RefreshInv
<1> QED
  BY <1>1, RefreshInvariance, PTL

\* Committed prices are made from stored listings, also when a savepoint was rolled back
\* between the insertion of the listings and that of the prices.
THEOREM PricesAreAlwaysListed == Spec => []PricesAreListed
<1>1. RefreshInv => PricesAreListed
  BY DEF RefreshInv
<1> QED
  BY <1>1, RefreshInvariance, PTL

\* A step that does not end a request in failure keeps the snapshots of the sets before.
LEMMA EarlierSetsStep ==
    RefreshInv /\ [Next]_vars =>
        [\A r \in Requests :
             Refreshing(r) /\ pc'[r] # "failed"
                 => tx[r].snaps \ {Current(r)} \subseteq tx'[r].snaps]_vars
<1> SUFFICES ASSUME RefreshInv, Next, NEW r \in Requests, Refreshing(r), pc'[r] # "failed"
             PROVE  tx[r].snaps \ {Current(r)} \subseteq tx'[r].snaps
  OBVIOUS
<1>1. TypeOK /\ WritesInv(r)
  BY DEF RefreshInv
<1>2. /\ tx[r] \in Writes /\ base[r] \in Writes /\ tx \in [Requests -> Writes]
      /\ tx[r].snaps \ {Current(r)} \subseteq base[r].snaps
      /\ tx[r].from \subseteq tx[r].rows \cup StoredListings
      /\ base[r].from \subseteq base[r].rows \cup StoredListings
  BY <1>1 DEF TypeOK, WritesInv
<1>3. CASE UNCHANGED tx \/ \E s \in Sets : Age(s)
  BY <1>3 DEF Age
<1>4. ASSUME NEW writes \in {tx[r], base[r]}, Raise(r, writes), failures' \in Nat,
             UNCHANGED <<row, fresh, priced, valued, aging>>
      PROVE  tx[r].snaps \ {Current(r)} \subseteq tx'[r].snaps
  <2>1. tx'[r] = writes
    BY <1>2, <1>4, RaiseInv
  <2> QED
    BY <1>2, <2>1
<1>5. CASE FetchFails(r)
  <2>1. failures' \in Nat
    BY <1>1, <1>5 DEF FetchFails, TypeOK
  <2> QED
    BY <1>4, <1>5, <2>1 DEF FetchFails
<1>6. CASE Victim(r)
  <2>1. failures' \in Nat
    BY <1>1, <1>6 DEF Victim, TypeOK
  <2> QED
    BY <1>4, <1>6, <2>1 DEF Victim
<1>7. CASE Insert(r)
  <2>1. CASE Raise(r, base[r])
    <3>1. failures' \in Nat
      BY <1>1, <1>7 DEF Insert, TypeOK
    <3> QED
      BY <1>4, <1>7, <2>1, <3>1 DEF Insert
  <2>2. CASE tx' = [tx EXCEPT ![r].rows = @ \cup NewRows(r)]
    BY <1>2, <2>2 DEF Writes
  <2> QED
    BY <1>7, <2>1, <2>2 DEF Insert
<1>8. CASE Value(r)
  <2>1. tx'[r].snaps = tx[r].snaps \/ tx'[r].snaps = tx[r].snaps \cup {Current(r)}
    <3> DEFINE writes == [tx[r] EXCEPT
                              !.snaps = IF got[r] = {} THEN @ ELSE @ \cup {Current(r)},
                              !.from = @ \cup got[r],
                              !.valued = @ \/ Values(r)]
    <3>1. tx' = [tx EXCEPT ![r] = writes]
      BY <1>8 DEF Value
    <3>2. writes.snaps = IF got[r] = {} THEN tx[r].snaps ELSE tx[r].snaps \cup {Current(r)}
      BY <1>2 DEF Writes
    <3> HIDE DEF writes
    <3> QED
      BY <1>2, <3>1, <3>2
  <2> QED
    BY <2>1
<1>9. CASE Mark(r)
  <2> DEFINE writes == [tx[r] EXCEPT !.marked = @ \cup Unseen(r)]
  <2>1. Raise(r, writes) \/ Leave(r, writes)
    BY <1>9 DEF Mark
  <2>2. tx' = [tx EXCEPT ![r] = writes] \/ pc' = [pc EXCEPT ![r] = "failed"]
    BY <2>1 DEF Raise, Leave
  <2>3. pc' # [pc EXCEPT ![r] = "failed"]
    BY <1>1 DEF TypeOK
  <2>4. writes.snaps = tx[r].snaps
    <3>1. DOMAIN tx[r] = {"rows", "snaps", "from", "marked", "valued"}
      BY <1>2, Zenon DEF Writes
    <3> QED
      BY <3>1, Zenon
  <2> HIDE DEF writes
  <2> QED
    BY <1>2, <2>2, <2>3, <2>4
<1>10. ASSUME NEW q \in Requests \ {r}, Step(q) PROVE tx'[r] = tx[r]
  BY <1>2, <1>10
  DEF Step, Acquire, Fetch, FetchFails, Look, Insert, Value, Mark, Victim, Commit, Raise, Leave
<1>11. ASSUME NEW p \in Processes, Crash(p) PROVE tx'[r] = tx[r]
  <2>1. pc[r] \notin {"done", "failed"}
    BY DEF Refreshing
  <2> QED
    BY <1>11, <2>1 DEF Crash
<1>12. CASE Acquire(r) \/ Fetch(r) \/ Look(r)
  BY <1>12 DEF Acquire, Fetch, Look
<1>13. ~Commit(r)
  BY DEF Commit, Refreshing
<1> QED
  BY <1>3, <1>5, <1>6, <1>7, <1>8, <1>9, <1>10, <1>11, <1>12, <1>13 DEF Next, Step

\* A set that fails takes nothing from the sets its request refreshed before.
THEOREM EarlierSetsAlwaysSurvive == Spec => EarlierSetsSurvive
  BY RefreshInvariance, EarlierSetsStep, PTL DEF Spec, EarlierSetsSurvive

-----------------------------------------------------------------------------
(* RateLimits.  Every admission of the span has a place of its own among the *)
(* quotas it may have come from: that of the window Redis counts, that of    *)
(* the window before, and those of the processes that counted alone.         *)

Requested == {r \in [keys : Seq(LimitKeys), failed : BOOLEAN] : r.keys # <<>>}
Counters == [count : Nat, ends : Nat]

LimitsTypeOK ==
    /\ moment \in Nat
    /\ shared \in [LimitKeys -> Counters]
    /\ hits \in [Servers -> [LimitKeys -> Seq(Nat)]]
    /\ quietUntil \in [Servers -> Nat]
    /\ call \in [Calls -> Requested \cup {NoCall}]
    /\ outages \in Nat
    /\ passed \in [LimitKeys -> Seq(Nat)]

InThisWindow == <<"shared", "now">>
InTheLast == <<"shared", "before">>
Alone(s) == <<"alone", s>>
Sources == {InThisWindow, InTheLast} \cup {Alone(s) : s \in Servers}

Ascending(times) == \A i, j \in DOMAIN times : i <= j => times[i] <= times[j]

\* No two admissions have the same place, and a place that none has.
Distinct(P, from, place) ==
    \A i, j \in 1..Len(P) : from[i] = from[j] /\ place[i] = place[j] => i = j
IsFree(P, from, place, source, free) ==
    \A i \in 1..Len(P) : from[i] = source => place[i] # free

\* One more entry, for one more admission.
Also(P, entries, entry) ==
    [i \in 1..(Len(P) + 1) |-> IF i = Len(P) + 1 THEN entry ELSE entries[i]]

\* The end of a list, from its entry b on.
IsTheEnd(rest, times, b, since) ==
    /\ b \in 1..(Len(times) + 1)
    /\ rest \in Seq(Nat) /\ Len(rest) = Len(times) - b + 1 /\ Ascending(rest)
    /\ \A j \in 1..(Len(times) - b + 1) :
           j + b - 1 \in 1..Len(times) /\ rest[j] = times[j + b - 1] /\ rest[j] > since

\* The places of the admissions P of a key, whose counter is R and whose hits are H.
Placed(P, R, H, quota, span, from, place) ==
    /\ from \in [1..Len(P) -> Sources]
    /\ place \in [1..Len(P) -> 1..quota]
    /\ \A i, j \in 1..Len(P) : from[i] = from[j] /\ place[i] = place[j] => i = j
    /\ \A i \in 1..Len(P) :
           /\ from[i] = InThisWindow => place[i] <= R.count /\ P[i] >= R.ends - span
           /\ from[i] = InTheLast /\ R.count > 0 => P[i] <= R.ends - span
           /\ \A s \in Servers : from[i] = Alone(s) =>
                  place[i] <= Len(H[s]) /\ H[s][place[i]] = P[i]

KeyInv(P, R, H, quota, span, now) ==
    /\ Ascending(P) /\ \A i \in 1..Len(P) : P[i] <= now
    /\ \A s \in Servers :
           Ascending(H[s]) /\ Len(H[s]) <= quota /\ \A i \in 1..Len(H[s]) : H[s][i] <= now
    /\ R.count <= quota
    /\ R.count > 0 => now < R.ends /\ R.ends <= now + span
    /\ R.count = 0 => R = Unused
    /\ \E from, place : Placed(P, R, H, quota, span, from, place)

HitsOf(k) == [s \in Servers |-> hits[s][k]]

LimitsInv ==
    /\ LimitsTypeOK
    /\ \A k \in LimitKeys :
           KeyInv(passed[k], shared[k], HitsOf(k), Quota[k[1]], Span[k[1]], moment)

\* Where the span of a key begins in a list of moments in order.
LEMMA SpanBegins ==
    ASSUME NEW k \in LimitKeys, NEW times \in Seq(Nat), Ascending(times), NEW now \in Nat
    PROVE  /\ FirstRecent(k, times, now) \in 1..(Len(times) + 1)
           /\ \A j \in 1..Len(times) :
                  times[j] > now - Span[k[1]] <=> j >= FirstRecent(k, times, now)
<1> DEFINE since == now - Span[k[1]]
           Starts == {i \in 1..(Len(times) + 1) : i \in DOMAIN times => times[i] > since}
           Begins(i) == /\ \A j \in 1..(i - 1) : times[j] <= since
                        /\ i \in DOMAIN times => times[i] > since
<1>1. Len(times) \in Nat /\ DOMAIN times = 1..Len(times) /\ since \in Int
      /\ \A j \in 1..Len(times) : times[j] \in Nat
  <2>1. k[1] \in Policies
    BY DEF LimitKeys
  <2> QED
    BY <2>1, LimitsConstants
<1>2. \E i \in 1..(Len(times) + 1) : Begins(i)
  <2>1. Len(times) + 1 \in Starts
    BY <1>1
  <2>2. Starts \subseteq Nat
    BY <1>1
  <2> HIDE DEF Starts
  <2>3. PICK i \in Starts : \A j \in Starts : ~(<<j, i>> \in OpToRel(<, Nat))
    BY <2>1, <2>2, NatLessThanWellFounded, WFMin
  <2>4. \A j \in Starts : j >= i
    <3>1. \A j \in Starts : ~(j < i)
      BY <2>2, <2>3 DEF OpToRel
    <3> QED
      BY <2>2, <3>1
  <2>5. i \in 1..(Len(times) + 1) /\ (i \in DOMAIN times => times[i] > since)
    BY DEF Starts
  <2>6. ASSUME NEW j \in 1..(i - 1) PROVE times[j] <= since
    <3>1. j \in 1..(Len(times) + 1) /\ j \in DOMAIN times /\ j < i
      BY <1>1, <2>5
    <3>2. j \notin Starts
      BY <1>1, <2>4, <2>5, <3>1
    <3>3. ~(times[j] > since)
      BY <3>1, <3>2 DEF Starts
    <3> QED
      BY <1>1, <3>1, <3>3
  <2> QED
    BY <2>5, <2>6
<1>3. FirstRecent(k, times, now) \in 1..(Len(times) + 1) /\ Begins(FirstRecent(k, times, now))
  BY <1>2 DEF FirstRecent
<1>4. ASSUME NEW j \in 1..Len(times)
      PROVE  times[j] > since <=> j >= FirstRecent(k, times, now)
  <2>1. CASE j >= FirstRecent(k, times, now)
    <3>1. FirstRecent(k, times, now) \in DOMAIN times
      BY <1>1, <1>3, <2>1
    <3>2. /\ times[FirstRecent(k, times, now)] > since
          /\ times[FirstRecent(k, times, now)] <= times[j]
      BY <1>1, <1>3, <2>1, <3>1 DEF Ascending
    <3> QED
      BY <1>1, <2>1, <3>1, <3>2
  <2>2. CASE ~(j >= FirstRecent(k, times, now))
    <3>1. j \in 1..(FirstRecent(k, times, now) - 1)
      BY <1>1, <1>3, <2>2
    <3>2. times[j] <= since
      BY <1>3, <3>1
    <3> QED
      BY <1>1, <2>2, <3>2
  <2> QED
    BY <2>1, <2>2
<1> QED
  BY <1>3, <1>4

\* Places that one shift makes equal are equal,
LEMMA SameShift == \A x, y, z \in Int : x - z + 1 = y - z + 1 => x = y
  OBVIOUS

\* a shift keeps their order,
LEMMA ShiftInOrder == \A x, y, z \in Int : x <= y => x + z - 1 <= y + z - 1
  OBVIOUS

\* a place within a list and a longer one is a place of the list,
LEMMA UpTo ==
    ASSUME NEW m \in Int, NEW n \in Int, NEW x \in 1..m, x <= n
    PROVE  x \in 1..n
  OBVIOUS

\* which is a positive number,
LEMMA PlaceIsPositive ==
    ASSUME NEW n \in Nat, NEW x \in 1..(n + 1)
    PROVE  x \in Int /\ x >= 1
  OBVIOUS

\* and a place in the rest of a list is one in the list.
LEMMA PlaceInRest ==
    \A x, m, n \in Int :
        m >= 1 /\ n >= 0 /\ x \in 1..n /\ x >= m =>
            x - m + 1 \in 1..(n - m + 1) /\ (x - m + 1) + m - 1 = x
  OBVIOUS

\* What is recent is the end of the list, in order.
LEMMA RecentIsTheEnd ==
    ASSUME NEW k \in LimitKeys, NEW times \in Seq(Nat), Ascending(times), NEW now \in Nat
    PROVE  IsTheEnd(Recent(k, times, now), times, FirstRecent(k, times, now), now - Span[k[1]])
<1> DEFINE b == FirstRecent(k, times, now)
           rest == SubSeq(times, b, Len(times))
<1>1. /\ b \in 1..(Len(times) + 1)
      /\ \A j \in 1..Len(times) : times[j] > now - Span[k[1]] <=> j >= b
  BY SpanBegins
<1> HIDE DEF b
<1>2. /\ Len(times) \in Nat /\ DOMAIN times = 1..Len(times)
      /\ Len(rest) = Len(times) - b + 1
      /\ DOMAIN rest = 1..(Len(times) - b + 1)
      /\ \A j \in 1..(Len(times) - b + 1) : rest[j] = times[j + b - 1]
  <2>1. Len(times) \in Nat /\ DOMAIN times = 1..Len(times)
    OBVIOUS
  <2>2. b \in Int /\ b >= 1 /\ b <= Len(times) + 1
    BY <1>1, <2>1
  <2>3. /\ DOMAIN rest = 1..(Len(times) - b + 1)
        /\ \A j \in 1..(Len(times) - b + 1) : rest[j] = times[b + j - 1]
    BY <2>1, <2>2
  <2>4. Len(rest) = Len(times) - b + 1
    BY <2>1, <2>2
  <2>5. \A j \in 1..(Len(times) - b + 1) : b + j - 1 = j + b - 1
    BY <2>1, <2>2
  <2> QED
    BY <2>1, <2>3, <2>4, <2>5
<1>3. rest \in Seq(Nat)
  BY <1>1
<1> HIDE DEF rest
<1>4. ASSUME NEW j \in 1..(Len(times) - b + 1)
      PROVE  j + b - 1 \in 1..Len(times) /\ j + b - 1 >= b
  BY <1>1, <1>2
<1>5. ASSUME NEW j \in 1..(Len(times) - b + 1) PROVE rest[j] > now - Span[k[1]]
  <2>1. rest[j] = times[j + b - 1]
    BY <1>2
  <2> QED
    BY <1>1, <1>4, <2>1
<1>6. Ascending(rest)
  <2>1. ASSUME NEW i \in DOMAIN rest, NEW j \in DOMAIN rest, i <= j PROVE rest[i] <= rest[j]
    <3>1. rest[i] = times[i + b - 1] /\ rest[j] = times[j + b - 1]
      BY <1>2
    <3>2. /\ i + b - 1 \in 1..Len(times) /\ j + b - 1 \in 1..Len(times)
          /\ i + b - 1 <= j + b - 1
      <4>1. i \in 1..(Len(times) - b + 1) /\ j \in 1..(Len(times) - b + 1)
        BY <1>2
      <4>2. i \in Int /\ j \in Int /\ b \in Int
        BY <1>1, <4>1
      <4>3. i + b - 1 <= j + b - 1
        BY <2>1, <4>2, ShiftInOrder
      <4> QED
        BY <1>4, <4>1, <4>3
    <3>3. times[i + b - 1] <= times[j + b - 1]
      BY <1>2, <3>2 DEF Ascending
    <3> QED
      BY <3>1, <3>3
  <2> QED
    BY <2>1 DEF Ascending
<1>7. Recent(k, times, now) = rest
  BY DEF Recent, rest, b
<1> QED
  BY <1>1, <1>2, <1>3, <1>4, <1>5, <1>6, <1>7 DEF b, IsTheEnd

\* A moment that is no earlier goes to the end.
LEMMA LaterIsAscending ==
    ASSUME NEW times \in Seq(Nat), Ascending(times), NEW now \in Nat,
           \A i \in 1..Len(times) : times[i] <= now
    PROVE  /\ Append(times, now) \in Seq(Nat)
           /\ Len(Append(times, now)) = Len(times) + 1
           /\ Append(times, now)[Len(times) + 1] = now
           /\ \A i \in 1..Len(times) : Append(times, now)[i] = times[i]
           /\ Ascending(Append(times, now))
           /\ \A i \in 1..(Len(times) + 1) : Append(times, now)[i] <= now
<1> DEFINE more == Append(times, now)
<1>1. /\ Len(times) \in Nat /\ DOMAIN times = 1..Len(times)
      /\ DOMAIN more = 1..(Len(times) + 1) /\ Len(more) = Len(times) + 1
      /\ more[Len(times) + 1] = now
      /\ \A j \in 1..Len(times) : more[j] = times[j]
  OBVIOUS
<1>2. more \in Seq(Nat)
  OBVIOUS
<1> HIDE DEF more
<1>3. ASSUME NEW i \in 1..(Len(times) + 1), NEW j \in 1..(Len(times) + 1), i <= j
      PROVE  more[i] <= more[j]
  <2>1. CASE j = Len(times) + 1
    <3>1. i = Len(times) + 1 \/ i \in 1..Len(times)
      BY <1>1
    <3> QED
      BY <1>1, <2>1, <3>1
  <2>2. CASE j # Len(times) + 1
    <3>1. i \in 1..Len(times) /\ j \in 1..Len(times)
      BY <1>1, <1>3, <2>2
    <3> QED
      BY <1>1, <1>3, <3>1 DEF Ascending
  <2> QED
    BY <2>1, <2>2
<1>4. Ascending(more)
  BY <1>1, <1>3 DEF Ascending
<1>5. ASSUME NEW i \in 1..(Len(times) + 1) PROVE more[i] <= now
  <2>1. i = Len(times) + 1 \/ i \in 1..Len(times)
    BY <1>1
  <2> QED
    BY <1>1, <2>1
<1> QED
  BY <1>1, <1>2, <1>4, <1>5 DEF more

\* The sources of admissions are told apart.
LEMMA SourcesDiffer ==
    /\ InThisWindow \in Sources /\ InTheLast \in Sources /\ InThisWindow # InTheLast
    /\ \A s \in Servers :
           /\ Alone(s) \in Sources /\ Alone(s) # InThisWindow /\ Alone(s) # InTheLast
           /\ \A t \in Servers : Alone(s) = Alone(t) => s = t
    /\ \A x \in Sources : x = InThisWindow \/ x = InTheLast \/ \E s \in Servers : x = Alone(s)
BY DEF InThisWindow, InTheLast, Alone, Sources

\* One more admission takes a place that is free.
LEMMA PlaceIsTaken ==
    ASSUME NEW P \in Seq(Nat), NEW from, NEW place, NEW source, NEW free,
           Distinct(P, from, place), IsFree(P, from, place, source, free)
    PROVE  \A i, j \in 1..(Len(P) + 1) :
               /\ Also(P, from, source)[i] = Also(P, from, source)[j]
               /\ Also(P, place, free)[i] = Also(P, place, free)[j]
               => i = j
<1> SUFFICES ASSUME NEW i \in 1..(Len(P) + 1), NEW j \in 1..(Len(P) + 1),
                    Also(P, from, source)[i] = Also(P, from, source)[j],
                    Also(P, place, free)[i] = Also(P, place, free)[j]
             PROVE  i = j
  OBVIOUS
<1>1. \A x \in 1..(Len(P) + 1) : x = Len(P) + 1 \/ x \in 1..Len(P)
  OBVIOUS
<1>2. \A entries, entry : \A x \in 1..(Len(P) + 1) :
          Also(P, entries, entry)[x] = IF x = Len(P) + 1 THEN entry ELSE entries[x]
  BY DEF Also
<1>3. CASE i \in 1..Len(P) /\ j \in 1..Len(P)
  BY <1>2, <1>3 DEF Distinct
<1>4. CASE i = Len(P) + 1 \/ j = Len(P) + 1
  BY <1>1, <1>2, <1>4 DEF IsFree
<1> QED
  BY <1>1, <1>3, <1>4

\* An entry is added to those that are there.
LEMMA OneMoreEntry ==
    ASSUME NEW P \in Seq(Nat)
    PROVE  /\ \A i \in 1..(Len(P) + 1) : i = Len(P) + 1 \/ i \in 1..Len(P)
           /\ \A entries, entry :
                  /\ Also(P, entries, entry)[Len(P) + 1] = entry
                  /\ \A i \in 1..Len(P) : Also(P, entries, entry)[i] = entries[i]
<1>1. \A i \in 1..(Len(P) + 1) : i = Len(P) + 1 \/ i \in 1..Len(P)
  OBVIOUS
<1>2. Len(P) + 1 \in 1..(Len(P) + 1)
  OBVIOUS
<1>3. \A i \in 1..Len(P) : i \in 1..(Len(P) + 1) /\ i # Len(P) + 1
  OBVIOUS
<1> QED
  BY <1>1, <1>2, <1>3 DEF Also

\* A request that Redis counts and lets through.
LEMMA SharedAdmission ==
    ASSUME NEW P \in Seq(Nat), NEW R \in Counters, NEW H \in [Servers -> Seq(Nat)],
           NEW quota \in Nat \ {0}, NEW span \in Nat \ {0}, NEW now \in Nat,
           KeyInv(P, R, H, quota, span, now), R.count < quota,
           NEW R2 \in Counters, R2.count = R.count + 1,
           R2.ends = IF R.count = 0 THEN now + span ELSE R.ends
    PROVE  KeyInv(P, R2, H, quota, span, now) /\ KeyInv(Append(P, now), R2, H, quota, span, now)
<1>1. /\ Ascending(P) /\ \A i \in 1..Len(P) : P[i] <= now
      /\ \A s \in Servers :
             Ascending(H[s]) /\ Len(H[s]) <= quota /\ \A i \in 1..Len(H[s]) : H[s][i] <= now
      /\ R.count > 0 => now < R.ends /\ R.ends <= now + span
  BY DEF KeyInv
<1>2. Len(P) \in Nat /\ \A i \in 1..Len(P) : P[i] \in Nat
  OBVIOUS
<1>3. R.count \in Nat /\ R.ends \in Nat /\ R2.count \in Nat /\ R2.ends \in Nat
  BY DEF Counters
<1>4. PICK from, place : Placed(P, R, H, quota, span, from, place)
  BY DEF KeyInv
<1>5. /\ from \in [1..Len(P) -> Sources]
      /\ place \in [1..Len(P) -> 1..quota]
      /\ \A i, j \in 1..Len(P) : from[i] = from[j] /\ place[i] = place[j] => i = j
      /\ \A i \in 1..Len(P) :
             /\ from[i] = InThisWindow => place[i] <= R.count /\ P[i] >= R.ends - span
             /\ from[i] = InTheLast /\ R.count > 0 => P[i] <= R.ends - span
             /\ \A s \in Servers : from[i] = Alone(s) =>
                    place[i] <= Len(H[s]) /\ H[s][place[i]] = P[i]
  BY <1>4 DEF Placed
<1>6. /\ R2.count <= quota /\ R2.count > 0
      /\ now < R2.ends /\ R2.ends <= now + span
  BY <1>1, <1>3
<1>7. ASSUME NEW i \in 1..Len(P)
      PROVE  /\ from[i] = InThisWindow => place[i] <= R.count /\ P[i] >= R2.ends - span
             /\ from[i] = InTheLast => P[i] <= R2.ends - span
  <2>1. CASE R.count = 0
    <3>1. from[i] # InThisWindow
      <4>1. place[i] \in 1..quota
        BY <1>5
      <4> QED
        BY <1>5, <2>1, <4>1
    <3> QED
      BY <1>1, <1>2, <1>3, <2>1, <3>1
  <2>2. CASE R.count # 0
    <3>1. R.count > 0 /\ R2.ends = R.ends
      BY <1>3, <2>2
    <3> QED
      BY <1>5, <3>1
  <2> QED
    BY <2>1, <2>2
<1>8. \A i \in 1..Len(P) : place[i] \in 1..quota
  BY <1>5
<1>9. ASSUME NEW i \in 1..Len(P), from[i] = InThisWindow
       PROVE  place[i] < R2.count
  <2>1. place[i] <= R.count /\ place[i] \in Nat
    BY <1>7, <1>8, <1>9
  <2> QED
    BY <1>3, <2>1
<1>10. KeyInv(P, R2, H, quota, span, now)
  <2>1. \A i \in 1..Len(P) : from[i] = InThisWindow => place[i] <= R2.count
    <3> SUFFICES ASSUME NEW i \in 1..Len(P), from[i] = InThisWindow
                 PROVE  place[i] <= R2.count
      OBVIOUS
    <3>1. place[i] \in Int /\ R2.count \in Int
      BY <1>3, <1>8
    <3> QED
      BY <1>9, <3>1
  <2>2. Placed(P, R2, H, quota, span, from, place)
    BY <1>5, <1>7, <2>1 DEF Placed
  <2>3. R2.count # 0
    BY <1>3
  <2> QED
    BY <1>1, <1>6, <2>2, <2>3 DEF KeyInv
<1>11. KeyInv(Append(P, now), R2, H, quota, span, now)
  <2> DEFINE P2 == Append(P, now)
  <2>1. /\ P2 \in Seq(Nat) /\ Len(P2) = Len(P) + 1 /\ P2[Len(P) + 1] = now
        /\ \A i \in 1..Len(P) : P2[i] = P[i]
        /\ Ascending(P2) /\ \A i \in 1..(Len(P) + 1) : P2[i] <= now
    BY <1>1, LaterIsAscending
  <2>2. R2.count \in 1..quota
    BY <1>3, <1>6
  <2>3. \A i \in 1..Len(P) : from[i] = InThisWindow => place[i] # R2.count
    BY <1>3, <1>7, <1>8
  <2> DEFINE f == Also(P, from, InThisWindow)
             p == Also(P, place, R2.count)
  <2>4. /\ f \in [1..(Len(P) + 1) -> Sources] /\ p \in [1..(Len(P) + 1) -> 1..quota]
        /\ f[Len(P) + 1] = InThisWindow /\ p[Len(P) + 1] = R2.count
        /\ \A i \in 1..Len(P) : f[i] = from[i] /\ p[i] = place[i]
        /\ \A i, j \in 1..(Len(P) + 1) : f[i] = f[j] /\ p[i] = p[j] => i = j
    <3>1. InThisWindow \in Sources
      BY SourcesDiffer
    <3>2. from \in [1..Len(P) -> Sources] /\ place \in [1..Len(P) -> 1..quota]
      BY <1>5
    <3>3. Distinct(P, from, place)
      BY <1>5 DEF Distinct
    <3>4. IsFree(P, from, place, InThisWindow, R2.count)
      BY <2>3 DEF IsFree
    <3>5. \A i, j \in 1..(Len(P) + 1) : f[i] = f[j] /\ p[i] = p[j] => i = j
      BY <3>3, <3>4, PlaceIsTaken
    <3>6. /\ f \in [1..(Len(P) + 1) -> Sources] /\ f[Len(P) + 1] = InThisWindow
          /\ \A i \in 1..Len(P) : f[i] = from[i]
      BY <3>1, <3>2, OneMoreEntry DEF Also
    <3>7. /\ p \in [1..(Len(P) + 1) -> 1..quota] /\ p[Len(P) + 1] = R2.count
          /\ \A i \in 1..Len(P) : p[i] = place[i]
      BY <2>2, <3>2, OneMoreEntry DEF Also
    <3> QED
      BY <3>5, <3>6, <3>7
  <2> HIDE DEF f, p
  <2> HIDE DEF P2
  <2>5. ASSUME NEW i \in 1..(Len(P) + 1)
        PROVE  /\ f[i] = InThisWindow => p[i] <= R2.count /\ P2[i] >= R2.ends - span
               /\ f[i] = InTheLast /\ R2.count > 0 => P2[i] <= R2.ends - span
               /\ \A s \in Servers : f[i] = Alone(s) => p[i] <= Len(H[s]) /\ H[s][p[i]] = P2[i]
    <3>1. CASE i \in 1..Len(P)
      <4>1. f[i] = from[i] /\ p[i] = place[i] /\ P2[i] = P[i]
        BY <2>1, <2>4, <3>1
      <4>2. from[i] = InThisWindow => place[i] <= R2.count
        <5>1. place[i] \in Int /\ R2.count \in Int
          BY <1>3, <1>8, <3>1
        <5> QED
          BY <1>9, <3>1, <5>1
      <4> QED
        BY <1>5, <1>7, <3>1, <4>1, <4>2
    <3>2. CASE i = Len(P) + 1
      <4>1. f[i] = InThisWindow /\ p[i] = R2.count /\ P2[i] = now
        BY <2>1, <2>4, <3>2
      <4>2. now >= R2.ends - span /\ R2.count <= R2.count
        BY <1>3, <1>6
      <4> QED
        BY <4>1, <4>2, SourcesDiffer
    <3>3. i \in 1..Len(P) \/ i = Len(P) + 1
      BY <1>2
    <3> QED
      BY <3>1, <3>2, <3>3
  <2>6. Placed(P2, R2, H, quota, span, f, p)
    BY <2>1, <2>4, <2>5 DEF Placed
  <2>7. R2.count # 0
    BY <1>3
  <2>8. KeyInv(P2, R2, H, quota, span, now)
    BY <1>1, <1>6, <2>1, <2>6, <2>7 DEF KeyInv
  <2> QED
    BY <2>8 DEF P2
<1> QED
  BY <1>10, <1>11

\* A request that a process counts by itself and lets through.
LEMMA LocalAdmission ==
    ASSUME NEW P \in Seq(Nat), NEW R \in Counters, NEW H \in [Servers -> Seq(Nat)],
           NEW quota \in Nat \ {0}, NEW span \in Nat \ {0}, NEW now \in Nat,
           KeyInv(P, R, H, quota, span, now), NEW s \in Servers, Len(H[s]) < quota,
           NEW H2 \in [Servers -> Seq(Nat)], H2 = [H EXCEPT ![s] = Append(H[s], now)]
    PROVE  KeyInv(Append(P, now), R, H2, quota, span, now)
<1> DEFINE P2 == Append(P, now)
<1>1. /\ Ascending(P) /\ \A i \in 1..Len(P) : P[i] <= now
      /\ \A t \in Servers :
             Ascending(H[t]) /\ Len(H[t]) <= quota /\ \A i \in 1..Len(H[t]) : H[t][i] <= now
      /\ R.count <= quota
      /\ R.count > 0 => now < R.ends /\ R.ends <= now + span
      /\ R.count = 0 => R = Unused
  BY DEF KeyInv
<1>2. Len(P) \in Nat /\ Len(H[s]) \in Nat /\ H[s] \in Seq(Nat)
  OBVIOUS
<1>3. PICK from, place : Placed(P, R, H, quota, span, from, place)
  BY DEF KeyInv
<1>4. /\ from \in [1..Len(P) -> Sources]
      /\ place \in [1..Len(P) -> 1..quota]
      /\ \A i, j \in 1..Len(P) : from[i] = from[j] /\ place[i] = place[j] => i = j
      /\ \A i \in 1..Len(P) :
             /\ from[i] = InThisWindow => place[i] <= R.count /\ P[i] >= R.ends - span
             /\ from[i] = InTheLast /\ R.count > 0 => P[i] <= R.ends - span
             /\ \A t \in Servers : from[i] = Alone(t) =>
                    place[i] <= Len(H[t]) /\ H[t][place[i]] = P[i]
  BY <1>3 DEF Placed
<1>5. /\ P2 \in Seq(Nat) /\ Len(P2) = Len(P) + 1 /\ P2[Len(P) + 1] = now
      /\ \A i \in 1..Len(P) : P2[i] = P[i]
      /\ Ascending(P2) /\ \A i \in 1..(Len(P) + 1) : P2[i] <= now
  BY <1>1, LaterIsAscending
<1>6. /\ H2[s] \in Seq(Nat) /\ Len(H2[s]) = Len(H[s]) + 1 /\ H2[s][Len(H[s]) + 1] = now
      /\ \A i \in 1..Len(H[s]) : H2[s][i] = H[s][i]
      /\ Ascending(H2[s]) /\ \A i \in 1..(Len(H[s]) + 1) : H2[s][i] <= now
      /\ \A t \in Servers \ {s} : H2[t] = H[t]
  <2>1. H2[s] = Append(H[s], now) /\ \A t \in Servers \ {s} : H2[t] = H[t]
    OBVIOUS
  <2> QED
    BY <1>1, <1>2, <2>1, LaterIsAscending
<1>7. Len(H[s]) + 1 \in 1..quota
  BY <1>2
<1>8. \A i \in 1..Len(P) : place[i] \in 1..quota
  BY <1>4
<1>9. \A i \in 1..Len(P) : from[i] = Alone(s) => place[i] # Len(H[s]) + 1
  BY <1>2, <1>4, <1>8
<1> DEFINE f == Also(P, from, Alone(s))
           p == Also(P, place, Len(H[s]) + 1)
<1>10. /\ f \in [1..(Len(P) + 1) -> Sources] /\ p \in [1..(Len(P) + 1) -> 1..quota]
       /\ f[Len(P) + 1] = Alone(s) /\ p[Len(P) + 1] = Len(H[s]) + 1
       /\ \A i \in 1..Len(P) : f[i] = from[i] /\ p[i] = place[i]
       /\ \A i, j \in 1..(Len(P) + 1) : f[i] = f[j] /\ p[i] = p[j] => i = j
  <2>1. Alone(s) \in Sources
    BY SourcesDiffer
  <2>2. from \in [1..Len(P) -> Sources] /\ place \in [1..Len(P) -> 1..quota]
    BY <1>4
  <2>3. Distinct(P, from, place)
    BY <1>4 DEF Distinct
  <2>4. IsFree(P, from, place, Alone(s), Len(H[s]) + 1)
    BY <1>9 DEF IsFree
  <2>5. \A i, j \in 1..(Len(P) + 1) : f[i] = f[j] /\ p[i] = p[j] => i = j
    <3>1. PICK free : free = Len(H[s]) + 1
      OBVIOUS
    <3> QED
      BY <2>3, <2>4, <3>1, PlaceIsTaken
  <2>6. /\ f \in [1..(Len(P) + 1) -> Sources] /\ f[Len(P) + 1] = Alone(s)
        /\ \A i \in 1..Len(P) : f[i] = from[i]
    BY <2>1, <2>2, OneMoreEntry DEF Also
  <2>7. /\ p \in [1..(Len(P) + 1) -> 1..quota] /\ p[Len(P) + 1] = Len(H[s]) + 1
        /\ \A i \in 1..Len(P) : p[i] = place[i]
    BY <1>7, <2>2, OneMoreEntry DEF Also
  <2> QED
    BY <2>5, <2>6, <2>7
<1> HIDE DEF f, p
<1> HIDE DEF P2
<1>11. ASSUME NEW i \in 1..(Len(P) + 1)
       PROVE  /\ f[i] = InThisWindow => p[i] <= R.count /\ P2[i] >= R.ends - span
              /\ f[i] = InTheLast /\ R.count > 0 => P2[i] <= R.ends - span
              /\ \A t \in Servers : f[i] = Alone(t) => p[i] <= Len(H2[t]) /\ H2[t][p[i]] = P2[i]
  <2>1. CASE i \in 1..Len(P)
    <3>1. f[i] = from[i] /\ p[i] = place[i] /\ P2[i] = P[i]
      BY <1>5, <1>10, <2>1
    <3>2. ASSUME NEW t \in Servers, f[i] = Alone(t)
          PROVE  p[i] <= Len(H2[t]) /\ H2[t][p[i]] = P2[i]
      <4>1. place[i] <= Len(H[t]) /\ H[t][place[i]] = P[i] /\ place[i] \in 1..quota
        BY <1>4, <1>8, <2>1, <3>1, <3>2
      <4>2. CASE t = s
        <5>1. place[i] \in 1..Len(H[s])
          BY <1>2, <4>1, <4>2
        <5> QED
          BY <1>2, <1>6, <3>1, <4>1, <4>2, <5>1
      <4>3. CASE t # s
        BY <1>6, <3>1, <4>1, <4>3
      <4> QED
        BY <4>2, <4>3
    <3> QED
      BY <1>4, <2>1, <3>1, <3>2
  <2>2. CASE i = Len(P) + 1
    <3>1. f[i] = Alone(s) /\ p[i] = Len(H[s]) + 1 /\ P2[i] = now
      BY <1>5, <1>10, <2>2
    <3>2. \A t \in Servers : f[i] = Alone(t) => t = s
      BY <3>1, SourcesDiffer
    <3> QED
      BY <1>2, <1>6, <3>1, <3>2, SourcesDiffer
  <2>3. i \in 1..Len(P) \/ i = Len(P) + 1
    BY <1>2
  <2> QED
    BY <2>1, <2>2, <2>3
<1>12. Placed(P2, R, H2, quota, span, f, p)
  BY <1>5, <1>10, <1>11 DEF Placed
<1>13. ASSUME NEW t \in Servers
       PROVE  Ascending(H2[t]) /\ Len(H2[t]) <= quota /\ \A i \in 1..Len(H2[t]) : H2[t][i] <= now
  <2>1. CASE t = s
    BY <1>6, <1>7, <2>1
  <2>2. CASE t # s
    <3>1. H2[t] = H[t]
      BY <1>6, <2>2
    <3> QED
      BY <1>1, <3>1
  <2> QED
    BY <2>1, <2>2
<1>14. KeyInv(P2, R, H2, quota, span, now)
  BY <1>1, <1>5, <1>12, <1>13 DEF KeyInv
<1> QED
  BY <1>14 DEF P2

IsRedisLater(R2, R, later) == R2 = IF R.ends = later THEN Unused ELSE R
AreHitsLater(H2, H, k, later) == \A s \in Servers : H2[s] = Recent(k, H[s], later)

\* A moment passes: what is too old is forgotten, and the window of Redis may end.
LEMMA MomentPasses ==
    ASSUME NEW k \in LimitKeys, NEW P \in Seq(Nat), NEW R \in Counters,
           NEW H \in [Servers -> Seq(Nat)], NEW now \in Nat, NEW later \in Nat, later = now + 1,
           KeyInv(P, R, H, Quota[k[1]], Span[k[1]], now),
           NEW R2, IsRedisLater(R2, R, later),
           NEW H2 \in [Servers -> Seq(Nat)], AreHitsLater(H2, H, k, later)
    PROVE  KeyInv(Recent(k, P, later), R2, H2, Quota[k[1]], Span[k[1]], later)
<1> DEFINE quota == Quota[k[1]]
           span == Span[k[1]]
           since == later - span
           b == FirstRecent(k, P, later)
           P2 == Recent(k, P, later)
           n == Len(P) - b + 1
           a(s) == FirstRecent(k, H[s], later)
<1> USE DEF IsRedisLater, AreHitsLater
<1>1. quota \in Nat \ {0} /\ span \in Nat \ {0} /\ later \in Nat
  <2>1. k[1] \in Policies
    BY DEF LimitKeys
  <2> QED
    BY <2>1, LimitsConstants
<1>2. /\ Ascending(P) /\ \A i \in 1..Len(P) : P[i] <= now
      /\ \A s \in Servers :
             Ascending(H[s]) /\ Len(H[s]) <= quota /\ \A i \in 1..Len(H[s]) : H[s][i] <= now
      /\ R.count <= quota
      /\ R.count > 0 => now < R.ends /\ R.ends <= now + span
      /\ R.count = 0 => R = Unused
  BY DEF KeyInv
<1>3. PICK from, place : Placed(P, R, H, quota, span, from, place)
  BY DEF KeyInv
<1>4. /\ b \in 1..(Len(P) + 1) /\ Len(P) \in Nat
      /\ P2 \in Seq(Nat) /\ Len(P2) = n /\ Ascending(P2)
      /\ \A j \in 1..n : j + b - 1 \in 1..Len(P) /\ P2[j] = P[j + b - 1] /\ P2[j] > since
  <2>1. Ascending(P) /\ later \in Nat
    BY <1>1, <1>2
  <2>2. IsTheEnd(P2, P, b, since)
    BY <2>1, RecentIsTheEnd
  <2> HIDE DEF P2, b, since
  <2> QED
    BY <2>2 DEF IsTheEnd
<1>5. ASSUME NEW s \in Servers
      PROVE  /\ a(s) \in 1..(Len(H[s]) + 1) /\ Len(H[s]) \in Nat
             /\ Len(H2[s]) = Len(H[s]) - a(s) + 1 /\ Ascending(H2[s])
             /\ \A j \in 1..(Len(H[s]) - a(s) + 1) :
                    j + a(s) - 1 \in 1..Len(H[s]) /\ H2[s][j] = H[s][j + a(s) - 1]
             /\ \A j \in 1..Len(H[s]) : H[s][j] > since <=> j >= a(s)
  <2>1. H[s] \in Seq(Nat) /\ Ascending(H[s]) /\ H2[s] = Recent(k, H[s], later)
    BY <1>2
  <2>2. Len(H[s]) \in Nat /\ later \in Nat
    BY <1>1
  <2>3. \A j \in 1..Len(H[s]) : H[s][j] > since <=> j >= a(s)
    BY <2>1, <2>2, SpanBegins
  <2>4. /\ a(s) \in 1..(Len(H[s]) + 1)
        /\ Len(H2[s]) = Len(H[s]) - a(s) + 1 /\ Ascending(H2[s])
        /\ \A j \in 1..(Len(H[s]) - a(s) + 1) :
               j + a(s) - 1 \in 1..Len(H[s]) /\ H2[s][j] = H[s][j + a(s) - 1]
    <3>1. IsTheEnd(H2[s], H[s], a(s), since)
      BY <2>1, <2>2, RecentIsTheEnd
    <3> HIDE DEF a, since
    <3> QED
      BY <3>1 DEF IsTheEnd
  <2> QED
    BY <2>2, <2>3, <2>4
<1>6. R.count \in Nat /\ R.ends \in Nat
  BY DEF Counters
<1> HIDE DEF quota, span, since, b, P2, n, a
<1>7. /\ from \in [1..Len(P) -> Sources]
      /\ place \in [1..Len(P) -> 1..quota]
      /\ \A i, j \in 1..Len(P) : from[i] = from[j] /\ place[i] = place[j] => i = j
      /\ \A i \in 1..Len(P) :
             /\ from[i] = InThisWindow => place[i] <= R.count /\ P[i] >= R.ends - span
             /\ from[i] = InTheLast /\ R.count > 0 => P[i] <= R.ends - span
             /\ \A s \in Servers : from[i] = Alone(s) =>
                    place[i] <= Len(H[s]) /\ H[s][place[i]] = P[i]
  BY <1>3 DEF Placed
<1> DEFINE f == [i \in 1..n |->
                   IF R.ends = later /\ from[i + b - 1] = InThisWindow THEN InTheLast
                   ELSE from[i + b - 1]]
           p == [i \in 1..n |->
                   IF \E s \in Servers : from[i + b - 1] = Alone(s)
                   THEN place[i + b - 1] - a(CHOOSE s \in Servers : from[i + b - 1] = Alone(s)) + 1
                   ELSE place[i + b - 1]]
<1>8. ASSUME NEW i \in 1..n
      PROVE  /\ i + b - 1 \in 1..Len(P) /\ P2[i] = P[i + b - 1] /\ P2[i] > since
             /\ from[i + b - 1] \in Sources /\ place[i + b - 1] \in 1..quota
             /\ f[i] = (IF R.ends = later /\ from[i + b - 1] = InThisWindow THEN InTheLast
                        ELSE from[i + b - 1])
  BY <1>4, <1>7
<1>9. ASSUME NEW i \in 1..n, NEW s \in Servers, from[i + b - 1] = Alone(s)
      PROVE  /\ f[i] = Alone(s)
             /\ p[i] = place[i + b - 1] - a(s) + 1
             /\ p[i] \in 1..Len(H2[s]) /\ p[i] \in 1..quota
             /\ H2[s][p[i]] = P2[i]
  <2>1. f[i] = Alone(s)
    BY <1>8, <1>9, SourcesDiffer
  <2>2. (CHOOSE t \in Servers : from[i + b - 1] = Alone(t)) = s
    BY <1>9, SourcesDiffer
  <2>3. p[i] = place[i + b - 1] - a(s) + 1
    BY <1>9, <2>2
  <2> HIDE DEF f, p
  <2>4. /\ place[i + b - 1] \in 1..Len(H[s]) /\ H[s][place[i + b - 1]] = P2[i]
        /\ place[i + b - 1] >= a(s)
    <3>1. place[i + b - 1] <= Len(H[s]) /\ H[s][place[i + b - 1]] = P[i + b - 1]
      BY <1>7, <1>8, <1>9
    <3>2. place[i + b - 1] \in 1..Len(H[s])
      <4>1. place[i + b - 1] \in 1..quota
        BY <1>8
      <4>2. quota \in Int /\ Len(H[s]) \in Int
        BY <1>1, <1>5
      <4>3. place[i + b - 1] <= Len(H[s])
        BY <3>1
      <4> QED
        BY <4>1, <4>2, <4>3, UpTo
    <3>3. H[s][place[i + b - 1]] = P2[i]
      BY <1>8, <3>1
    <3>4. place[i + b - 1] >= a(s)
      <4>1. P2[i] > since
        BY <1>8
      <4> QED
        BY <1>5, <3>2, <3>3, <4>1
    <3> QED
      BY <3>2, <3>3, <3>4
  <2>5. p[i] \in 1..(Len(H[s]) - a(s) + 1) /\ p[i] + a(s) - 1 = place[i + b - 1]
    <3>1. a(s) \in Int /\ a(s) >= 1 /\ Len(H[s]) \in Nat
      <4>1. a(s) \in 1..(Len(H[s]) + 1) /\ Len(H[s]) \in Nat
        BY <1>5
      <4> QED
        BY <4>1, PlaceIsPositive
    <3>2. PICK x, m, l : x = place[i + b - 1] /\ m = a(s) /\ l = Len(H[s])
      OBVIOUS
    <3>3. x \in 1..l /\ x >= m /\ l \in Nat /\ m \in Int /\ m >= 1
      BY <2>4, <3>1, <3>2
    <3>4. x \in Int /\ l \in Int /\ l >= 0
      BY <3>3
    <3>5. x - m + 1 \in 1..(l - m + 1) /\ (x - m + 1) + m - 1 = x
      BY <3>3, <3>4, PlaceInRest
    <3> QED
      BY <2>3, <3>2, <3>5
  <2>6. H2[s][p[i]] = P2[i]
    BY <1>5, <2>4, <2>5
  <2>7. p[i] \in 1..quota
    BY <1>1, <1>2, <1>5, <2>5
  <2> QED
    BY <1>5, <2>1, <2>3, <2>5, <2>6, <2>7
<1>10. ASSUME NEW i \in 1..n, ~\E s \in Servers : from[i + b - 1] = Alone(s)
       PROVE  /\ p[i] = place[i + b - 1] /\ p[i] \in 1..quota
              /\ \A s \in Servers : f[i] # Alone(s)
              /\ from[i + b - 1] = InThisWindow \/ from[i + b - 1] = InTheLast
  <2>1. p[i] = place[i + b - 1]
    BY <1>10
  <2> HIDE DEF p
  <2> QED
    BY <1>8, <1>10, <2>1, SourcesDiffer
<1>11. f \in [1..n -> Sources] /\ p \in [1..n -> 1..quota]
  <2>1. \A i \in 1..n : f[i] \in Sources
    BY <1>8, SourcesDiffer
  <2>2. \A i \in 1..n : p[i] \in 1..quota
    BY <1>9, <1>10
  <2> QED
    BY <2>1, <2>2
<1> HIDE DEF f, p
\* When the window ends nothing is left of the one before.
<1>12. ASSUME NEW i \in 1..n, R.ends = later PROVE from[i + b - 1] # InTheLast
  <2>1. R.count > 0
    BY <1>2, <1>6, <1>12 DEF Unused
  <2>2. from[i + b - 1] = InTheLast => P[i + b - 1] <= R.ends - span
    BY <1>7, <1>8, <2>1
  <2>3. P[i + b - 1] \in Nat /\ P[i + b - 1] > later - span
    BY <1>8 DEF since
  <2> QED
    BY <1>1, <1>12, <2>2, <2>3
<1>13. ASSUME NEW i \in 1..n, NEW j \in 1..n, f[i] = f[j], p[i] = p[j] PROVE i = j
  <2>1. from[i + b - 1] = from[j + b - 1]
    <3>1. CASE R.ends = later
      BY <1>8, <1>12, <1>13, <3>1
    <3>2. CASE R.ends # later
      BY <1>8, <1>13, <3>2
    <3> QED
      BY <3>1, <3>2
  <2>2. place[i + b - 1] = place[j + b - 1]
    <3>1. ASSUME NEW s \in Servers, from[i + b - 1] = Alone(s)
          PROVE  place[i + b - 1] = place[j + b - 1]
      <4>1. /\ p[i] = place[i + b - 1] - a(s) + 1
            /\ p[j] = place[j + b - 1] - a(s) + 1
        BY <1>9, <2>1, <3>1, Zenon
      <4>2. a(s) \in Int /\ place[i + b - 1] \in Int /\ place[j + b - 1] \in Int
        <5>1. a(s) \in 1..(Len(H[s]) + 1)
          BY <1>5
        <5>2. place[i + b - 1] \in 1..quota /\ place[j + b - 1] \in 1..quota
          BY <1>8
        <5> QED
          BY <5>1, <5>2
      <4>3. place[i + b - 1] - a(s) + 1 = place[j + b - 1] - a(s) + 1
        BY <1>13, <4>1
      <4> QED
        BY <4>2, <4>3, SameShift
    <3>2. CASE ~\E s \in Servers : from[i + b - 1] = Alone(s)
      <4>1. p[i] = place[i + b - 1] /\ p[j] = place[j + b - 1]
        BY <1>10, <2>1, <3>2
      <4> QED
        BY <1>13, <4>1
    <3> QED
      BY <3>1, <3>2
  <2>3. i + b - 1 = j + b - 1
    BY <1>7, <1>8, <2>1, <2>2
  <2> QED
    BY <1>4, <2>3
<1>14. ASSUME NEW i \in 1..n
       PROVE  /\ f[i] = InThisWindow => p[i] <= R2.count /\ P2[i] >= R2.ends - span
              /\ f[i] = InTheLast /\ R2.count > 0 => P2[i] <= R2.ends - span
              /\ \A s \in Servers : f[i] = Alone(s) => p[i] <= Len(H2[s]) /\ H2[s][p[i]] = P2[i]
  <2>1. CASE \E s \in Servers : from[i + b - 1] = Alone(s)
    <3>1. PICK s \in Servers : from[i + b - 1] = Alone(s)
      BY <2>1
    <3>2. f[i] = Alone(s) /\ p[i] \in 1..Len(H2[s]) /\ H2[s][p[i]] = P2[i]
      BY <1>9, <3>1
    <3>3. f[i] # InThisWindow /\ f[i] # InTheLast /\ \A t \in Servers : f[i] = Alone(t) => t = s
      BY <3>2, SourcesDiffer
    <3> QED
      BY <3>2, <3>3
  <2>2. CASE ~\E s \in Servers : from[i + b - 1] = Alone(s)
    <3>1. \A s \in Servers : f[i] # Alone(s)
      BY <1>10, <2>2
    <3>2. CASE R.ends = later
      <4>1. f[i] = InTheLast /\ R2.count = 0
        BY <1>8, <1>10, <1>12, <2>2, <3>2 DEF Unused
      <4> QED
        BY <3>1, <4>1, SourcesDiffer
    <3>3. CASE R.ends # later
      <4>1. R2 = R /\ f[i] = from[i + b - 1] /\ p[i] = place[i + b - 1]
        BY <1>8, <1>10, <2>2, <3>3
      <4>2. P2[i] = P[i + b - 1] /\ i + b - 1 \in 1..Len(P)
        BY <1>8
      <4> QED
        BY <1>7, <3>1, <4>1, <4>2
    <3> QED
      BY <3>2, <3>3
  <2> QED
    BY <2>1, <2>2
<1>15. Placed(P2, R2, H2, quota, span, f, p)
  BY <1>4, <1>11, <1>13, <1>14 DEF Placed
<1>16. \A i \in 1..Len(P2) : P2[i] <= later
  <2>1. ASSUME NEW i \in 1..n PROVE P2[i] <= later
    <3>1. P[i + b - 1] <= now /\ P[i + b - 1] \in Nat /\ P2[i] = P[i + b - 1]
      BY <1>2, <1>8
    <3> QED
      BY <3>1
  <2> QED
    BY <1>4, <2>1
<1>17. ASSUME NEW s \in Servers
       PROVE  /\ Ascending(H2[s]) /\ Len(H2[s]) <= quota
              /\ \A i \in 1..Len(H2[s]) : H2[s][i] <= later
  <2>1. Len(H2[s]) <= quota
    BY <1>1, <1>2, <1>5
  <2>2. ASSUME NEW i \in 1..Len(H2[s]) PROVE H2[s][i] <= later
    <3>1. i + a(s) - 1 \in 1..Len(H[s]) /\ H2[s][i] = H[s][i + a(s) - 1]
      BY <1>5, <2>2
    <3>2. H[s] \in Seq(Nat)
      OBVIOUS
    <3>3. H[s][i + a(s) - 1] <= now /\ H[s][i + a(s) - 1] \in Nat
      <4>1. \A j \in 1..Len(H[s]) : H[s][j] <= now
        BY <1>2
      <4>2. \A j \in 1..Len(H[s]) : H[s][j] \in Nat
        BY <3>2
      <4> QED
        BY <3>1, <4>1, <4>2
    <3> QED
      BY <3>1, <3>3
  <2> QED
    BY <1>5, <2>1, <2>2
<1>18. /\ R2.count <= quota
       /\ R2.count > 0 => later < R2.ends /\ R2.ends <= later + span
       /\ R2.count = 0 => R2 = Unused
  <2>1. CASE R.ends = later
    BY <1>1, <2>1 DEF Unused
  <2>2. CASE R.ends # later
    BY <1>1, <1>2, <1>6, <2>2
  <2> QED
    BY <2>1, <2>2
<1>19. KeyInv(P2, R2, H2, quota, span, later)
  BY <1>4, <1>15, <1>16, <1>17, <1>18 DEF KeyInv
<1> QED
  BY <1>19 DEF P2, quota, span

\* The policies of a route are policies.
LEMMA PoliciesAreApplied ==
    ASSUME NEW route \in Routes
    PROVE  Applied(route) \in Seq(Policies)
<1> DEFINE all == PoliciesOf[route]
<1>1. all \in Seq(Policies)
  <2>1. \A p \in {"api-client", "auth-login", "auth-refresh", "analysis", "portfolio-analysis",
                  "llm-global"} : p \in Policies
    BY DEF Policies, Scope
  <2>2. route \in {"health", "plain", "login", "refresh", "analyze", "portfolio"}
    BY LimitsConstants DEF PoliciesOf
  <2>3. all \in {<<>>, <<"api-client">>, <<"api-client", "auth-login">>,
                 <<"api-client", "auth-refresh">>,
                 <<"api-client", "analysis", "llm-global">>,
                 <<"api-client", "portfolio-analysis", "llm-global">>}
    BY <2>2 DEF PoliciesOf
  <2>4. /\ <<>> \in Seq(Policies) /\ <<"api-client">> \in Seq(Policies)
        /\ <<"api-client", "auth-login">> \in Seq(Policies)
        /\ <<"api-client", "auth-refresh">> \in Seq(Policies)
    BY <2>1
  <2>5. /\ <<"api-client", "analysis", "llm-global">> \in Seq(Policies)
        /\ <<"api-client", "portfolio-analysis", "llm-global">> \in Seq(Policies)
    BY <2>1
  <2> QED
    BY <2>3, <2>4, <2>5
<1>2. all # <<>> => SubSeq(all, 1, Len(all) - 1) \in Seq(Policies)
  <2>1. ASSUME NEW i \in 1..(Len(all) - 1) PROVE all[i] \in Policies
    BY <1>1
  <2>2. all # <<>> => Len(all) - 1 \in Nat
    BY <1>1
  <2> HIDE DEF all
  <2> QED
    BY <1>1, <2>1, <2>2
<1> HIDE DEF all
<1> QED
  BY <1>1, <1>2 DEF Applied, all

\* Who is counted is a client, or the last proxy that is seen.
LEMMA ClientIsKnown ==
    ASSUME NEW sender \in Clients, NEW arrival \in Arrivals(sender)
    PROVE  ClientOf(arrival.peer, arrival.header) \in Clients \cup Proxies
<1> DEFINE chain == Append(arrival.header, arrival.peer)
           outside == {i \in 1..Len(chain) : chain[i] \notin Proxies}
<1>1. arrival.peer \in Clients \cup Proxies /\ arrival.header \in Seq(Clients \cup Proxies)
  <2>1. CASE arrival = [peer |-> sender, header |-> <<>>]
    BY <2>1
  <2>2. CASE \E x \in Proxies : arrival = [peer |-> x, header |-> <<sender>>]
    BY <2>2
  <2>3. CASE \E x \in Proxies : \E y \in Proxies : arrival = [peer |-> x, header |-> <<sender, y>>]
    BY <2>3
  <2> QED
    BY <2>1, <2>2, <2>3 DEF Arrivals
<1>2. chain \in Seq(Clients \cup Proxies)
  BY <1>1
<1> HIDE DEF chain
<1>3. ASSUME outside # {} PROVE Max(outside) \in outside
  <2> DEFINE distances == {Len(chain) - i : i \in outside}
  <2>1. Len(chain) \in Nat /\ distances \subseteq Nat /\ distances # {}
    BY <1>2, <1>3
  <2>2. PICK m \in distances : \A n \in distances : ~(<<n, m>> \in OpToRel(<, Nat))
    BY <2>1, NatLessThanWellFounded, WFMin
  <2>3. \A n \in distances : ~(n < m)
    BY <2>1, <2>2 DEF OpToRel
  <2>4. PICK x \in outside : m = Len(chain) - x
    OBVIOUS
  <2>5. \A y \in outside : x >= y
    <3> SUFFICES ASSUME NEW y \in outside PROVE x >= y
      OBVIOUS
    <3>1. ~(Len(chain) - y < m)
      BY <2>3
    <3> QED
      BY <2>1, <2>4, <3>1
  <2> HIDE DEF outside
  <2> QED
    BY <2>5 DEF Max
<1>4. CASE arrival.peer \notin Proxies \/ outside = {}
  BY <1>1, <1>4 DEF ClientOf, chain
<1>5. CASE ~(arrival.peer \notin Proxies \/ outside = {})
  <2>1. Max(outside) \in 1..Len(chain)
    BY <1>3, <1>5
  <2>2. chain[Max(outside)] \in Clients \cup Proxies
    BY <1>2, <2>1
  <2>3. ClientOf(arrival.peer, arrival.header) = chain[Max(outside)]
    BY <1>5 DEF ClientOf, chain
  <2> QED
    BY <2>2, <2>3
<1> QED
  BY <1>4, <1>5

\* A request is counted by keys.
LEMMA CountedByKeys ==
    ASSUME NEW route \in Routes, NEW client \in Clients \cup Proxies, NEW bearer \in Bearers
    PROVE  CountedBy(route, client, bearer) \in Seq(LimitKeys)
<1>1. Applied(route) \in Seq(Policies)
  BY PoliciesAreApplied
<1>2. \A p \in Policies : <<p, Identity(p, client, bearer)>> \in LimitKeys
  <2>1. ASSUME NEW p \in Policies PROVE Identity(p, client, bearer) \in Identities
    BY DEF Identity, Identities
  <2> QED
    BY <2>1 DEF LimitKeys
<1>3. /\ Len(Applied(route)) \in Nat /\ DOMAIN Applied(route) = 1..Len(Applied(route))
      /\ \A i \in 1..Len(Applied(route)) : Applied(route)[i] \in Policies
  BY <1>1
<1>4. \A i \in 1..Len(Applied(route)) :
          <<Applied(route)[i], Identity(Applied(route)[i], client, bearer)>> \in LimitKeys
  BY <1>2, <1>3
<1>5. CountedBy(route, client, bearer) =
          [i \in 1..Len(Applied(route)) |->
              <<Applied(route)[i], Identity(Applied(route)[i], client, bearer)>>]
  BY <1>3 DEF CountedBy
<1> QED
  BY <1>3, <1>4, <1>5

\* A list without entries is empty.
LEMMA EmptyList ==
    ASSUME NEW S, NEW list \in Seq(S), list # <<>>
    PROVE  Len(list) \in Nat \ {0}
<1> SUFFICES ASSUME Len(list) = 0 PROVE FALSE
  OBVIOUS
<1>1. list = [i \in 1..Len(list) |-> list[i]]
  OBVIOUS
<1>2. 1..Len(list) = {}
  OBVIOUS
<1>3. <<>> = [i \in {} |-> list[i]]
  OBVIOUS
<1> QED
  BY <1>1, <1>2, <1>3

\* A request under way is held to a key.
LEMMA KeyIsAKey ==
    ASSUME LimitsTypeOK, NEW c \in Calls, Waiting(c)
    PROVE  /\ call[c] \in Requested /\ Key(c) \in LimitKeys
           /\ Len(call[c].keys) # 1 =>
                  [keys |-> Tail(call[c].keys), failed |-> FALSE] \in Requested
<1>1. call[c] \in Requested
  BY DEF LimitsTypeOK, Waiting
<1>2. call[c].keys \in Seq(LimitKeys) /\ call[c].keys # <<>>
  BY <1>1 DEF Requested
<1>3. Key(c) \in LimitKeys
  BY <1>2 DEF Key
<1>4. ASSUME Len(call[c].keys) # 1
      PROVE  Tail(call[c].keys) \in Seq(LimitKeys) /\ Tail(call[c].keys) # <<>>
  <2>1. \A keys \in Seq(LimitKeys) : keys # <<>> /\ Len(keys) # 1 => Len(keys) > 1
    <3>1. ASSUME NEW keys \in Seq(LimitKeys), keys # <<>>, Len(keys) # 1 PROVE Len(keys) > 1
      <4>1. Len(keys) \in Nat \ {0}
        BY <3>1, EmptyList
      <4>2. \A n \in Nat \ {0} : n # 1 => n > 1
        OBVIOUS
      <4> QED
        BY <3>1, <4>1, <4>2
    <3> QED
      BY <3>1
  <2>2. \A keys \in Seq(LimitKeys) : Len(keys) > 1 =>
            Tail(keys) \in Seq(LimitKeys) /\ Len(Tail(keys)) = Len(keys) - 1 /\ Len(keys) \in Nat
    OBVIOUS
  <2>3. Tail(call[c].keys) \in Seq(LimitKeys) /\ Len(Tail(call[c].keys)) # 0
    BY <1>2, <1>4, <2>1, <2>2
  <2>4. \A keys : keys = <<>> => Len(keys) = 0
    OBVIOUS
  <2> QED
    BY <2>3, <2>4
<1>5. ASSUME NEW t, t \in Seq(LimitKeys), t # <<>>
      PROVE  [keys |-> t, failed |-> FALSE] \in Requested
  BY <1>5 DEF Requested
<1> QED
  BY <1>1, <1>3, <1>4, <1>5

\* A request that is let through goes on, or is answered.
LEMMA LetThroughKeepsTypes ==
    ASSUME LimitsTypeOK, NEW c \in Calls, Waiting(c), LetThrough(c)
    PROVE  /\ call' \in [Calls -> Requested \cup {NoCall}]
           /\ passed' \in [LimitKeys -> Seq(Nat)]
           /\ passed' = [passed EXCEPT ![Key(c)] = Append(passed[Key(c)], moment)]
<1>1. /\ call[c] \in Requested /\ Key(c) \in LimitKeys
      /\ Len(call[c].keys) # 1 => [keys |-> Tail(call[c].keys), failed |-> FALSE] \in Requested
  BY KeyIsAKey
<1>2. call' \in [Calls -> Requested \cup {NoCall}]
  BY <1>1 DEF LetThrough, LimitsTypeOK
<1>3. passed' = [passed EXCEPT ![Key(c)] = Append(passed[Key(c)], moment)]
  BY DEF LetThrough
<1>4. Append(passed[Key(c)], moment) \in Seq(Nat)
  BY <1>1 DEF LimitsTypeOK
<1> QED
  BY <1>2, <1>3, <1>4 DEF LimitsTypeOK

\* What a key's counter becomes when Redis counts.
LEMMA RaisedCounter ==
    ASSUME LimitsTypeOK, NEW k \in LimitKeys, ~Spent(k)
    PROVE  /\ Raised(k) \in Counters /\ shared[k] \in Counters
           /\ shared[k].count < Quota[k[1]]
           /\ Raised(k).count = shared[k].count + 1
           /\ Raised(k).ends = IF shared[k].count = 0 THEN moment + Span[k[1]] ELSE shared[k].ends
           /\ Quota[k[1]] \in Nat \ {0} /\ Span[k[1]] \in Nat \ {0}
<1>1. Quota[k[1]] \in Nat \ {0} /\ Span[k[1]] \in Nat \ {0}
  <2>1. k[1] \in Policies
    BY DEF LimitKeys
  <2> QED
    BY <2>1, LimitsConstants
<1>2. shared[k] \in Counters /\ moment \in Nat
  BY DEF LimitsTypeOK
<1>3. shared[k].count \in Nat /\ shared[k].ends \in Nat
  BY <1>2 DEF Counters
<1>4. shared[k].count < Quota[k[1]]
  BY <1>1, <1>3 DEF Spent
<1>5. CASE shared[k].count = 0
  <2>1. Raised(k) = [count |-> 1, ends |-> moment + Span[k[1]]]
    BY <1>5 DEF Raised
  <2> QED
    BY <1>1, <1>2, <1>3, <1>4, <1>5, <2>1 DEF Counters
<1>6. CASE shared[k].count # 0
  <2>1. Raised(k) = [shared[k] EXCEPT !.count = @ + 1]
    BY <1>6 DEF Raised
  <2>2. Raised(k).count = shared[k].count + 1 /\ Raised(k).ends = shared[k].ends
    BY <1>2, <2>1 DEF Counters
  <2>3. Raised(k) \in Counters
    BY <1>2, <1>3, <2>1 DEF Counters
  <2> QED
    BY <1>1, <1>2, <1>4, <1>6, <2>2, <2>3
<1> QED
  BY <1>5, <1>6

\* The invariant, of a key at a time.
LEMMA KeysAreIndependent ==
    ASSUME LimitsInv, LimitsTypeOK', moment' = moment, NEW k \in LimitKeys,
           \A x \in LimitKeys \ {k} :
               passed'[x] = passed[x] /\ shared'[x] = shared[x]
               /\ \A s \in Servers : hits'[s][x] = hits[s][x],
           KeyInv(passed'[k], shared'[k], HitsOf(k)', Quota[k[1]], Span[k[1]], moment)
    PROVE  LimitsInv'
<1>1. ASSUME NEW x \in LimitKeys \ {k} PROVE HitsOf(x)' = HitsOf(x)
  BY <1>1 DEF HitsOf
<1>2. ASSUME NEW x \in LimitKeys
      PROVE  KeyInv(passed'[x], shared'[x], HitsOf(x)', Quota[x[1]], Span[x[1]], moment')
  <2>1. CASE x = k
    BY <2>1
  <2>2. CASE x # k
    BY <1>1, <2>2 DEF LimitsInv
  <2> QED
    BY <2>1, <2>2
<1> QED
  BY <1>2 DEF LimitsInv

\* Redis counts a request and lets it through, or it turns it away.
LEMMA ReserveSharedStep ==
    ASSUME LimitsInv, NEW c \in Calls, ReserveShared(c)
    PROVE  LimitsInv'
<1>1. LimitsTypeOK /\ Waiting(c) /\ Key(c) \in LimitKeys /\ call[c] \in Requested
  BY KeyIsAKey DEF ReserveShared, AsksRedis, LimitsInv
<1> PICK k \in LimitKeys : k = Key(c)
  BY <1>1
<1>2. UNCHANGED <<moment, hits, quietUntil, outages>> /\ CountShared(k)
  BY DEF ReserveShared
<1>3. CASE Spent(k)
  <2>1. call' = [call EXCEPT ![c] = NoCall] /\ UNCHANGED <<passed, shared>>
    BY <1>2, <1>3 DEF ReserveShared, TurnAway, CountShared
  <2>2. LimitsTypeOK'
    BY <1>1, <1>2, <2>1 DEF LimitsTypeOK
  <2> QED
    BY <1>2, <2>1, <2>2 DEF LimitsInv, HitsOf
<1>4. CASE ~Spent(k)
  <2>1. LetThrough(c) /\ shared' = [shared EXCEPT ![k] = Raised(k)]
    BY <1>2, <1>4 DEF ReserveShared, CountShared
  <2>2. /\ call' \in [Calls -> Requested \cup {NoCall}]
        /\ passed' \in [LimitKeys -> Seq(Nat)]
        /\ passed' = [passed EXCEPT ![k] = Append(passed[k], moment)]
    BY <1>1, <2>1, LetThroughKeepsTypes
  <2>3. /\ Raised(k) \in Counters /\ shared[k] \in Counters
        /\ shared[k].count < Quota[k[1]]
        /\ Raised(k).count = shared[k].count + 1
        /\ Raised(k).ends = IF shared[k].count = 0 THEN moment + Span[k[1]] ELSE shared[k].ends
        /\ Quota[k[1]] \in Nat \ {0} /\ Span[k[1]] \in Nat \ {0}
    BY <1>1, <1>4, RaisedCounter
  <2>4. LimitsTypeOK'
    BY <1>1, <1>2, <2>1, <2>2, <2>3 DEF LimitsTypeOK
  <2>5. /\ passed[k] \in Seq(Nat) /\ HitsOf(k) \in [Servers -> Seq(Nat)] /\ moment \in Nat
        /\ KeyInv(passed[k], shared[k], HitsOf(k), Quota[k[1]], Span[k[1]], moment)
    BY <1>1 DEF LimitsInv, LimitsTypeOK, HitsOf
  <2>6. KeyInv(Append(passed[k], moment), Raised(k), HitsOf(k), Quota[k[1]], Span[k[1]], moment)
    BY <2>3, <2>5, SharedAdmission
  <2>7. /\ passed'[k] = Append(passed[k], moment) /\ shared'[k] = Raised(k)
        /\ HitsOf(k)' = HitsOf(k)
        /\ \A x \in LimitKeys \ {k} : passed'[x] = passed[x] /\ shared'[x] = shared[x]
    <3>1. HitsOf(k)' = HitsOf(k)
      BY <1>2 DEF HitsOf
    <3> QED
      BY <1>1, <2>1, <2>2, <3>1 DEF LimitsTypeOK
  <2> QED
    BY <1>1, <1>2, <2>4, <2>6, <2>7, KeysAreIndependent
<1> QED
  BY <1>3, <1>4

\* Redis fails a request, which may have been counted.
LEMMA LoseRedisStep ==
    ASSUME LimitsInv, NEW c \in Calls, NEW answerLost \in BOOLEAN, LoseRedis(c, answerLost)
    PROVE  LimitsInv'
<1>1. LimitsTypeOK /\ Waiting(c) /\ Key(c) \in LimitKeys /\ call[c] \in Requested
  BY KeyIsAKey DEF LoseRedis, AsksRedis, LimitsInv
<1> PICK k \in LimitKeys : k = Key(c)
  BY <1>1
<1>2. UNCHANGED <<moment, hits, quietUntil, passed>>
  BY DEF LoseRedis
<1>3. call' \in [Calls -> Requested \cup {NoCall}] /\ outages' \in Nat
  <2>1. [call[c] EXCEPT !.failed = TRUE] \in Requested
    BY <1>1 DEF Requested
  <2>2. call' = [call EXCEPT ![c] = [call[c] EXCEPT !.failed = TRUE]]
    BY DEF LoseRedis
  <2> QED
    BY <1>1, <2>1, <2>2 DEF LoseRedis, LimitsTypeOK
<1>4. CASE UNCHANGED shared
  <2>1. LimitsTypeOK'
    BY <1>1, <1>2, <1>3, <1>4 DEF LimitsTypeOK
  <2> QED
    BY <1>2, <1>4, <2>1 DEF LimitsInv, HitsOf
<1>5. CASE ~Spent(k) /\ shared' = [shared EXCEPT ![k] = Raised(k)]
  <2>1. /\ Raised(k) \in Counters /\ shared[k] \in Counters
        /\ shared[k].count < Quota[k[1]]
        /\ Raised(k).count = shared[k].count + 1
        /\ Raised(k).ends = IF shared[k].count = 0 THEN moment + Span[k[1]] ELSE shared[k].ends
        /\ Quota[k[1]] \in Nat \ {0} /\ Span[k[1]] \in Nat \ {0}
    BY <1>1, <1>5, RaisedCounter
  <2>2. LimitsTypeOK'
    BY <1>1, <1>2, <1>3, <1>5, <2>1 DEF LimitsTypeOK
  <2>3. /\ passed[k] \in Seq(Nat) /\ HitsOf(k) \in [Servers -> Seq(Nat)] /\ moment \in Nat
        /\ KeyInv(passed[k], shared[k], HitsOf(k), Quota[k[1]], Span[k[1]], moment)
    BY <1>1 DEF LimitsInv, LimitsTypeOK, HitsOf
  <2>4. KeyInv(passed[k], Raised(k), HitsOf(k), Quota[k[1]], Span[k[1]], moment)
    BY <2>1, <2>3, SharedAdmission
  <2>5. HitsOf(k)' = HitsOf(k)
    BY <1>2 DEF HitsOf
  <2>6. /\ passed'[k] = passed[k] /\ shared'[k] = Raised(k)
        /\ \A x \in LimitKeys \ {k} : passed'[x] = passed[x] /\ shared'[x] = shared[x]
    BY <1>1, <1>2, <1>5 DEF LimitsTypeOK
  <2> QED
    BY <1>2, <2>2, <2>4, <2>5, <2>6, KeysAreIndependent
<1>6. UNCHANGED shared \/ (~Spent(k) /\ shared' = [shared EXCEPT ![k] = Raised(k)])
  BY DEF LoseRedis, CountShared
<1> QED
  BY <1>4, <1>5, <1>6

\* A process counts a request by itself and lets it through, or it turns it away.
LEMMA ReserveLocallyStep ==
    ASSUME LimitsInv, NEW c \in Calls, ReserveLocally(c)
    PROVE  LimitsInv'
<1>1. LimitsTypeOK /\ Waiting(c) /\ Key(c) \in LimitKeys /\ call[c] \in Requested
  BY KeyIsAKey DEF ReserveLocally, LimitsInv
<1> PICK k \in LimitKeys : k = Key(c)
  BY <1>1
<1> PICK s \in Servers : s = ServerOf[c]
  BY LimitsConstants
<1>2. UNCHANGED <<moment, shared, outages>>
  BY DEF ReserveLocally
<1>3. quietUntil' \in [Servers -> Nat]
  <2>1. moment + Pause \in Nat
    BY <1>1, LimitsConstants DEF LimitsTypeOK
  <2>2. quietUntil' = [quietUntil EXCEPT ![s] = moment + Pause] \/ quietUntil' = quietUntil
    BY DEF ReserveLocally
  <2> QED
    BY <1>1, <2>1, <2>2 DEF LimitsTypeOK
<1>4. CASE Len(hits[s][k]) >= Quota[k[1]]
  <2>1. call' = [call EXCEPT ![c] = NoCall] /\ UNCHANGED passed
    BY <1>4 DEF ReserveLocally, TurnAway
  <2>2. hits' = [hits EXCEPT ![s] = [hits[s] EXCEPT ![k] = hits[s][k]]]
    BY <1>4 DEF ReserveLocally
  <2>3. hits' = hits
    BY <1>1, <2>2 DEF LimitsTypeOK
  <2>4. LimitsTypeOK'
    BY <1>1, <1>2, <1>3, <2>1, <2>3 DEF LimitsTypeOK
  <2> QED
    BY <1>2, <2>1, <2>3, <2>4 DEF LimitsInv, HitsOf
<1>5. CASE ~(Len(hits[s][k]) >= Quota[k[1]])
  <2>1. LetThrough(c)
    BY <1>5 DEF ReserveLocally
  <2>2. hits' = [hits EXCEPT ![s] = [hits[s] EXCEPT ![k] = Append(hits[s][k], moment)]]
    BY <1>5 DEF ReserveLocally
  <2>3. /\ call' \in [Calls -> Requested \cup {NoCall}]
        /\ passed' \in [LimitKeys -> Seq(Nat)]
        /\ passed' = [passed EXCEPT ![k] = Append(passed[k], moment)]
    BY <1>1, <2>1, LetThroughKeepsTypes
  <2>4. /\ hits[s][k] \in Seq(Nat) /\ moment \in Nat /\ Append(hits[s][k], moment) \in Seq(Nat)
        /\ hits[s] \in [LimitKeys -> Seq(Nat)]
    BY <1>1 DEF LimitsTypeOK
  <2>5. hits' \in [Servers -> [LimitKeys -> Seq(Nat)]]
    <3>1. [hits[s] EXCEPT ![k] = Append(hits[s][k], moment)] \in [LimitKeys -> Seq(Nat)]
      BY <2>4
    <3> QED
      BY <1>1, <2>2, <3>1 DEF LimitsTypeOK
  <2>6. LimitsTypeOK'
    BY <1>1, <1>2, <1>3, <2>3, <2>5 DEF LimitsTypeOK
  <2>7. /\ passed[k] \in Seq(Nat) /\ HitsOf(k) \in [Servers -> Seq(Nat)] /\ shared[k] \in Counters
        /\ HitsOf(k)[s] = hits[s][k]
        /\ KeyInv(passed[k], shared[k], HitsOf(k), Quota[k[1]], Span[k[1]], moment)
    BY <1>1 DEF LimitsInv, LimitsTypeOK, HitsOf
  <2>8. Quota[k[1]] \in Nat \ {0} /\ Span[k[1]] \in Nat \ {0}
    <3>1. k[1] \in Policies
      BY DEF LimitKeys
    <3> QED
      BY <3>1, LimitsConstants
  <2>9. /\ \A t \in Servers : \A x \in LimitKeys :
               hits'[t][x] = IF t = s /\ x = k THEN Append(hits[s][k], moment) ELSE hits[t][x]
    <3>1. hits'[s] = [hits[s] EXCEPT ![k] = Append(hits[s][k], moment)]
          /\ \A t \in Servers \ {s} : hits'[t] = hits[t]
      BY <1>1, <2>2 DEF LimitsTypeOK
    <3> QED
      BY <2>4, <3>1
  <2>10. HitsOf(k)' = [HitsOf(k) EXCEPT ![s] = Append(HitsOf(k)[s], moment)]
    BY <2>7, <2>9 DEF HitsOf
  <2>11. HitsOf(k)' \in [Servers -> Seq(Nat)]
    BY <2>4, <2>7, <2>10
  <2>12. Len(HitsOf(k)[s]) < Quota[k[1]]
    BY <1>5, <2>4, <2>7, <2>8
  <2>13. KeyInv(Append(passed[k], moment), shared[k], HitsOf(k)', Quota[k[1]], Span[k[1]], moment)
    <3> DEFINE H == HitsOf(k)
               H2 == HitsOf(k)'
    <3>1. /\ H \in [Servers -> Seq(Nat)] /\ H2 \in [Servers -> Seq(Nat)]
          /\ H2 = [H EXCEPT ![s] = Append(H[s], moment)] /\ Len(H[s]) < Quota[k[1]]
          /\ KeyInv(passed[k], shared[k], H, Quota[k[1]], Span[k[1]], moment)
      BY <2>7, <2>10, <2>11, <2>12
    <3> HIDE DEF H, H2
    <3>2. KeyInv(Append(passed[k], moment), shared[k], H2, Quota[k[1]], Span[k[1]], moment)
      BY <2>4, <2>7, <2>8, <3>1, LocalAdmission
    <3> QED
      BY <3>2 DEF H2
  <2>14. /\ passed'[k] = Append(passed[k], moment) /\ shared'[k] = shared[k]
         /\ \A x \in LimitKeys \ {k} : passed'[x] = passed[x] /\ shared'[x] = shared[x]
    BY <1>1, <1>2, <2>3 DEF LimitsTypeOK
  <2>15. \A x \in LimitKeys \ {k} : \A t \in Servers : hits'[t][x] = hits[t][x]
    BY <2>9
  <2> QED
    BY <1>2, <2>6, <2>13, <2>14, <2>15, KeysAreIndependent
<1> QED
  BY <1>4, <1>5

\* A moment passes.
LEMMA LimitsTickStep ==
    ASSUME LimitsInv, LimitsTick
    PROVE  LimitsInv'
<1>1. /\ LimitsTypeOK /\ moment' = moment + 1 /\ moment \in Nat
      /\ shared' = [k \in LimitKeys |->
                        IF shared[k].ends = moment' THEN Unused ELSE shared[k]]
      /\ hits' = [s \in Servers |-> [k \in LimitKeys |-> Recent(k, hits[s][k], moment')]]
      /\ quietUntil' = [s \in Servers |-> IF quietUntil[s] = moment' THEN 0 ELSE quietUntil[s]]
      /\ passed' = [k \in LimitKeys |-> Recent(k, passed[k], moment')]
      /\ UNCHANGED <<call, outages>>
  BY DEF LimitsTick, LimitsInv, LimitsTypeOK
<1> PICK later \in Nat : later = moment'
  BY <1>1
<1>2. ASSUME NEW k \in LimitKeys
      PROVE  /\ KeyInv(passed[k], shared[k], HitsOf(k), Quota[k[1]], Span[k[1]], moment)
             /\ passed[k] \in Seq(Nat) /\ Ascending(passed[k])
             /\ \A s \in Servers : hits[s][k] \in Seq(Nat) /\ Ascending(hits[s][k])
  <2>1. KeyInv(passed[k], shared[k], HitsOf(k), Quota[k[1]], Span[k[1]], moment)
    BY DEF LimitsInv
  <2> QED
    BY <1>1, <2>1 DEF LimitsTypeOK, KeyInv, HitsOf
<1>3. ASSUME NEW k \in LimitKeys
      PROVE  /\ Recent(k, passed[k], later) \in Seq(Nat)
             /\ \A s \in Servers : Recent(k, hits[s][k], later) \in Seq(Nat)
  <2>1. \A times \in Seq(Nat) : Ascending(times) => Recent(k, times, later) \in Seq(Nat)
    <3> SUFFICES ASSUME NEW times \in Seq(Nat), Ascending(times)
                 PROVE  Recent(k, times, later) \in Seq(Nat)
      OBVIOUS
    <3>1. IsTheEnd(Recent(k, times, later), times, FirstRecent(k, times, later),
                   later - Span[k[1]])
      BY RecentIsTheEnd
    <3> QED
      BY <3>1 DEF IsTheEnd
  <2> QED
    BY <1>2, <2>1
<1>4. LimitsTypeOK'
  <2>1. shared' \in [LimitKeys -> Counters]
    <3>1. Unused \in Counters
      BY DEF Unused, Counters
    <3> QED
      BY <1>1, <3>1 DEF LimitsTypeOK
  <2>2. hits' \in [Servers -> [LimitKeys -> Seq(Nat)]] /\ passed' \in [LimitKeys -> Seq(Nat)]
    BY <1>1, <1>3
  <2>3. quietUntil' \in [Servers -> Nat] /\ moment' \in Nat
    BY <1>1 DEF LimitsTypeOK
  <2> QED
    BY <1>1, <2>1, <2>2, <2>3 DEF LimitsTypeOK
<1>5. ASSUME NEW k \in LimitKeys
      PROVE  KeyInv(passed'[k], shared'[k], HitsOf(k)', Quota[k[1]], Span[k[1]], moment')
  <2> DEFINE H == HitsOf(k)
             H2 == HitsOf(k)'
             R2 == shared'[k]
  <2>1. H \in [Servers -> Seq(Nat)] /\ \A s \in Servers : H[s] = hits[s][k]
    BY <1>2 DEF HitsOf
  <2>2. H2 \in [Servers -> Seq(Nat)] /\ AreHitsLater(H2, H, k, later)
    BY <1>1, <1>3, <2>1 DEF HitsOf, AreHitsLater
  <2>3. IsRedisLater(R2, shared[k], later) /\ shared[k] \in Counters
    BY <1>1 DEF LimitsTypeOK, IsRedisLater
  <2>4. passed'[k] = Recent(k, passed[k], later) /\ passed[k] \in Seq(Nat)
    BY <1>1, <1>2
  <2>5. KeyInv(passed[k], shared[k], H, Quota[k[1]], Span[k[1]], moment)
    BY <1>2
  <2> HIDE DEF H, H2, R2
  <2>6. KeyInv(Recent(k, passed[k], later), R2, H2, Quota[k[1]], Span[k[1]], later)
    <3> PICK P \in Seq(Nat) : P = passed[k]
      BY <2>4
    <3> PICK R \in Counters : R = shared[k]
      BY <2>3
    <3> PICK now \in Nat : now = moment
      BY DEF LimitsInv, LimitsTypeOK
    <3>1. later = now + 1
      BY <1>1
    <3>2. KeyInv(P, R, H, Quota[k[1]], Span[k[1]], now)
      BY <2>5
    <3>3. IsRedisLater(R2, R, later)
      BY <2>3
    <3>4. H \in [Servers -> Seq(Nat)]
      BY <2>1
    <3>5. KeyInv(Recent(k, P, later), R2, H2, Quota[k[1]], Span[k[1]], later)
      BY <2>2, <3>1, <3>2, <3>3, <3>4, MomentPasses
    <3> QED
      BY <3>5
  <2> QED
    BY <2>4, <2>6 DEF H2, R2
<1> QED
  BY <1>4, <1>5 DEF LimitsInv

\* Every step keeps every admission in its place.
LEMMA LimitsStep == LimitsInv /\ [LimitsNext]_limitVars => LimitsInv'
<1> SUFFICES ASSUME LimitsInv, [LimitsNext]_limitVars PROVE LimitsInv'
  OBVIOUS
<1>1. ASSUME NEW c \in Calls, NEW route \in Routes, NEW sender \in Clients, NEW bearer \in Bearers,
             NEW arrival \in Arrivals(sender), Arrive(c, route, arrival, bearer)
      PROVE  LimitsInv'
  <2> DEFINE client == ClientOf(arrival.peer, arrival.header)
             keys == CountedBy(route, client, bearer)
  <2>1. client \in Clients \cup Proxies
    BY ClientIsKnown
  <2> HIDE DEF client
  <2>2. keys \in Seq(LimitKeys)
    BY <2>1, CountedByKeys
  <2> HIDE DEF keys
  <2>3. UNCHANGED <<moment, shared, hits, quietUntil, outages, passed>>
        /\ call' = [call EXCEPT ![c] = IF keys = <<>> THEN NoCall
                                       ELSE [keys |-> keys, failed |-> FALSE]]
    BY <1>1 DEF Arrive, keys, client
  <2>4. keys # <<>> => [keys |-> keys, failed |-> FALSE] \in Requested
    BY <2>2 DEF Requested
  <2>5. LimitsTypeOK'
    BY <2>3, <2>4 DEF LimitsInv, LimitsTypeOK
  <2> QED
    BY <2>3, <2>5 DEF LimitsInv, HitsOf
<1>2. ASSUME NEW c \in Calls, ReserveShared(c) PROVE LimitsInv'
  BY <1>2, ReserveSharedStep
<1>3. ASSUME NEW c \in Calls, ReserveLocally(c) PROVE LimitsInv'
  BY <1>3, ReserveLocallyStep
<1>4. ASSUME NEW c \in Calls, NEW answerLost \in BOOLEAN, LoseRedis(c, answerLost) PROVE LimitsInv'
  BY <1>4, LoseRedisStep
<1>5. CASE LimitsTick
  BY <1>5, LimitsTickStep
<1>6. CASE UNCHANGED limitVars
  BY <1>6 DEF limitVars, LimitsInv, LimitsTypeOK, HitsOf
<1> QED
  BY <1>1, <1>2, <1>3, <1>4, <1>5, <1>6 DEF LimitsNext

\* Nobody has asked for anything at first.
LEMMA LimitsStart == LimitsInit => LimitsInv
<1> SUFFICES ASSUME LimitsInit PROVE LimitsInv
  OBVIOUS
<1>1. LimitsTypeOK
  BY DEF LimitsInit, LimitsTypeOK, Unused, Counters
<1>2. ASSUME NEW k \in LimitKeys
      PROVE  KeyInv(passed[k], shared[k], HitsOf(k), Quota[k[1]], Span[k[1]], moment)
  <2>1. /\ passed[k] = <<>> /\ shared[k] = Unused /\ moment = 0
        /\ \A s \in Servers : HitsOf(k)[s] = <<>>
    BY DEF LimitsInit, HitsOf
  <2>2. Quota[k[1]] \in Nat
    <3>1. k[1] \in Policies
      BY DEF LimitKeys
    <3> QED
      BY <3>1, LimitsConstants
  <2>3. Placed(<<>>, Unused, HitsOf(k), Quota[k[1]], Span[k[1]], <<>>, <<>>)
    BY DEF Placed
  <2>4. Ascending(<<>>) /\ Len(<<>>) = 0 /\ Unused.count = 0
    BY DEF Ascending, Unused
  <2> QED
    BY <2>1, <2>2, <2>3, <2>4 DEF KeyInv
<1> QED
  BY <1>1, <1>2 DEF LimitsInv

\* Every variable keeps its type, and a request is counted by keys.
THEOREM LimitsTypeCorrect == LimitsSpec => []LimitsTypeOK
<1>1. LimitsInv => LimitsTypeOK
  BY DEF LimitsInv
<1> QED
  BY <1>1, LimitsStart, LimitsStep, PTL DEF LimitsSpec

\* There are two sources of admissions, and one for each process that counted alone.
LEMMA SourcesAreFew ==
    ASSUME NEW alone, alone \subseteq Servers
    PROVE  LET few == {InThisWindow, InTheLast} \cup {Alone(s) : s \in alone} IN
           IsFiniteSet(few) /\ Cardinality(few) = 2 + Cardinality(alone)
<1> DEFINE locals == {Alone(s) : s \in alone}
           few == {InThisWindow, InTheLast} \cup locals
           local == [s \in alone |-> Alone(s)]
<1>1. IsFiniteSet(alone) /\ Cardinality(alone) \in Nat
  BY LimitsConstants, FS_Subset, FS_CardinalityType
<1>2. local \in Bijection(alone, locals)
  BY SourcesDiffer DEF Bijection, Injection, Surjection, IsInjective
<1>3. IsFiniteSet(locals) /\ Cardinality(locals) = Cardinality(alone)
  <2>1. ExistsBijection(alone, locals)
    BY <1>2 DEF ExistsBijection
  <2> HIDE DEF locals, local
  <2> QED
    BY <1>1, <2>1, FS_Bijection
<1>4. InThisWindow \notin locals /\ InTheLast \notin locals \cup {InThisWindow}
  BY SourcesDiffer
<1>5. few = (locals \cup {InThisWindow}) \cup {InTheLast}
  OBVIOUS
<1> HIDE DEF locals, few
<1>6. /\ IsFiniteSet(locals \cup {InThisWindow})
      /\ Cardinality(locals \cup {InThisWindow}) = Cardinality(alone) + 1
  BY <1>3, <1>4, FS_AddElement
<1>7. /\ IsFiniteSet((locals \cup {InThisWindow}) \cup {InTheLast})
      /\ Cardinality((locals \cup {InThisWindow}) \cup {InTheLast}) = Cardinality(alone) + 2
  <2> PICK both : both = locals \cup {InThisWindow}
    OBVIOUS
  <2>1. /\ IsFiniteSet(both \cup {InTheLast})
        /\ Cardinality(both \cup {InTheLast}) = Cardinality(both) + 1
    BY <1>4, <1>6, FS_AddElement
  <2>2. Cardinality(both) = Cardinality(alone) + 1
    BY <1>6
  <2>3. \A m \in Nat : (m + 1) + 1 = m + 2
    OBVIOUS
  <2> QED
    BY <1>1, <2>1, <2>2, <2>3
<1> QED
  BY <1>1, <1>5, <1>7 DEF few, locals

\* As many admissions as there are places.
LEMMA PlacesBoundAdmissions ==
    ASSUME LimitsInv, NEW k \in LimitKeys
    PROVE  Len(passed[k]) <=
               (2 + Cardinality({s \in Servers : hits[s][k] # <<>>})) * Quota[k[1]]
<1> DEFINE alone == {s \in Servers : hits[s][k] # <<>>}
           few == {InThisWindow, InTheLast} \cup {Alone(s) : s \in alone}
           quota == Quota[k[1]]
           n == Len(passed[k])
<1>1. quota \in Nat /\ n \in Nat
  <2>1. k[1] \in Policies
    BY DEF LimitKeys
  <2> QED
    BY <2>1, LimitsConstants DEF LimitsInv, LimitsTypeOK
<1>2. PICK from, place :
          Placed(passed[k], shared[k], HitsOf(k), quota, Span[k[1]], from, place)
  BY DEF LimitsInv, KeyInv
<1>3. /\ from \in [1..n -> Sources] /\ place \in [1..n -> 1..quota]
      /\ \A i, j \in 1..n : from[i] = from[j] /\ place[i] = place[j] => i = j
      /\ \A i \in 1..n : \A s \in Servers : from[i] = Alone(s) => place[i] <= Len(hits[s][k])
  BY <1>2 DEF Placed, HitsOf
<1>4. ASSUME NEW i \in 1..n PROVE from[i] \in few
  <2>1. from[i] \in Sources
    BY <1>3
  <2>2. ASSUME NEW s \in Servers, from[i] = Alone(s) PROVE hits[s][k] # <<>>
    <3>1. place[i] <= Len(hits[s][k]) /\ place[i] \in 1..quota
      BY <1>3, <2>2
    <3>2. \A list : list = <<>> => Len(list) = 0
      OBVIOUS
    <3> QED
      BY <1>1, <3>1, <3>2
  <2> QED
    BY <2>1, <2>2, SourcesDiffer
<1>5. IsFiniteSet(few) /\ Cardinality(few) = 2 + Cardinality(alone)
  BY SourcesAreFew
<1>6. IsFiniteSet(1..quota) /\ Cardinality(1..quota) = quota
  <2>1. \A m \in Nat : IsFiniteSet(1..m) /\ Cardinality(1..m) = m
    BY FS_Interval
  <2> QED
    BY <1>1, <2>1
<1>7. IsFiniteSet(1..n) /\ Cardinality(1..n) = n
  <2>1. \A m \in Nat : IsFiniteSet(1..m) /\ Cardinality(1..m) = m
    BY FS_Interval
  <2> QED
    BY <1>1, <2>1
<1> DEFINE pair == [i \in 1..n |-> <<from[i], place[i]>>]
<1> HIDE DEF alone, few, quota, n
<1>8. pair \in Injection(1..n, few \X (1..quota))
  <2>1. pair \in [1..n -> few \X (1..quota)]
    BY <1>3, <1>4
  <2>2. \A i, j \in 1..n : pair[i] = pair[j] => i = j
    BY <1>3
  <2> HIDE DEF pair
  <2> QED
    BY <2>1, <2>2 DEF Injection, IsInjective
<1>9. /\ IsFiniteSet(few \X (1..quota))
      /\ Cardinality(few \X (1..quota)) = Cardinality(few) * quota
  BY <1>5, <1>6, FS_Product
<1> HIDE DEF pair
<1>10. Cardinality(1..n) <= Cardinality(few \X (1..quota))
  BY <1>8, <1>9, FS_Injection
<1>11. n <= (2 + Cardinality(alone)) * quota
  BY <1>5, <1>7, <1>9, <1>10
<1> QED
  BY <1>11 DEF n, alone, quota

\* However requests interleave, and wherever they are counted: within the span of a
\* policy no one is let through more than twice its quota, and once more for each
\* process that has counted alone.
THEOREM AdmissionsAreAlwaysBounded == LimitsSpec => []AdmissionsAreBounded
<1>1. LimitsInv => AdmissionsAreBounded
  BY PlacesBoundAdmissions DEF AdmissionsAreBounded
<1> QED
  BY <1>1, LimitsStart, LimitsStep, PTL DEF LimitsSpec

-----------------------------------------------------------------------------
(* PartPurchases.  A row that was once found is never gone, and a request  *)
(* that writes over it changes what it has edited and nothing else; what   *)
(* was marked purchased is changed only by an order request that has read  *)
(* it before.                                                              *)

Shortages == [missing : Nat, element : Elements, estimate : Nat]

PurchaseTypeOK ==
    /\ stock \in [Elements -> StockRows \cup {Absent}]
    /\ adjusted \in [Lines -> AdjustmentRows \cup {Absent}]
    /\ orders \in [Lines -> OrderRows \cup {Absent}]
    /\ doing \in [Buyers -> [kind : {"none", "stock", "adjust", "purchase", "order"},
                             at : {"new", "open", "done", "failed"}]]
    /\ missing = [b \in Buyers |-> missing[b]]
    /\ loaded = [b \in Buyers |-> loaded[b]]
    /\ edited = [b \in Buyers |-> edited[b]]

\* What b has read is there still, and its copies are rows.
Fits(b, table, Records) ==
    /\ DOMAIN edited[b] = DOMAIN loaded[b] /\ DOMAIN edited[b] \subseteq DOMAIN table
    /\ \A k \in DOMAIN edited[b] :
           /\ edited[b][k] \in Records /\ loaded[b][k] \in Records \cup {Absent}
           /\ loaded[b][k] # Absent => table[k] # Absent

Kept == {"element", "quantity", "estimate"}

RequestInv(b) ==
    /\ doing[b].kind # "order" => missing[b] = None
    /\ doing[b].at = "new" => loaded[b] = None /\ edited[b] = None
    /\ doing[b].kind = "none" <=> doing[b].at = "new"
    /\ doing[b].kind = "stock" => Fits(b, stock, StockRows)
    /\ doing[b].kind = "adjust" => Fits(b, adjusted, AdjustmentRows)
    /\ doing[b].kind = "purchase" =>
           /\ Fits(b, orders, OrderRows)
           /\ \A l \in DOMAIN edited[b] :
                  /\ loaded[b][l] # Absent
                  /\ \A c \in Kept : edited[b][l][c] = loaded[b][l][c]
    /\ doing[b].kind = "order" =>
           /\ Fits(b, orders, OrderRows)
           /\ missing[b] \in [Lines -> Shortages]
           /\ DOMAIN loaded[b] \subseteq Lacking(b)
           /\ doing[b].at # "open" => Lacking(b) \subseteq DOMAIN loaded[b]
           /\ \A l \in DOMAIN edited[b] : edited[b][l] = Refreshed(loaded[b][l], missing[b][l])

PurchaseInv ==
    /\ PurchaseTypeOK
    /\ \A b \in Buyers : RequestInv(b)
    /\ BoughtOrdersAreKept /\ OrdersAreComplete

\* Requirements, stocks and prices are natural numbers.
LEMMA LinesAreNatural ==
    ASSUME PurchaseTypeOK, NEW l \in Lines
    PROVE  /\ Wanted(l) \in Nat /\ OwnedOf(l) \in Nat /\ DrawnFrom(l) \in Elements
           /\ Price(DrawnFrom(l)) \in Nat /\ Line(l) \in Shortages
           /\ Line(l).missing = Positive(Wanted(l) - OwnedOf(l))
           /\ Line(l).estimate = Price(DrawnFrom(l))
<1>1. adjusted[l] # Absent => adjusted[l].manual \in Int
                              /\ adjusted[l].substitute \in Elements \cup {Absent}
  BY DEF PurchaseTypeOK, AdjustmentRows
<1>2. Needed[l] \in Nat \ {0} /\ ElementOf[l] \in Elements
  BY PurchaseConstants
<1>3. Wanted(l) \in Nat
  BY <1>1, <1>2 DEF Wanted, Positive
<1>4. DrawnFrom(l) \in Elements
  BY <1>1, <1>2 DEF DrawnFrom
<1>5. OwnedOf(l) \in Nat
  BY <1>4 DEF OwnedOf, PurchaseTypeOK, StockRows
<1>6. Price(DrawnFrom(l)) \in Nat
  BY <1>4, PurchaseConstants DEF Price
<1>7. Positive(Wanted(l) - OwnedOf(l)) \in Nat
  BY <1>3, <1>5 DEF Positive
<1> QED
  BY <1>3, <1>4, <1>5, <1>6, <1>7 DEF Line, Shortages

\* The columns of a row that b has not changed are those that are there.
LEMMA MergedOrders ==
    ASSUME NEW present \in OrderRows, NEW before, NEW after \in OrderRows
    PROVE  [c \in DOMAIN after |-> IF after[c] = before[c] THEN present[c] ELSE after[c]]
               \in OrderRows
BY DEF OrderRows

\* The same for quantities.
LEMMA MergedStocks ==
    ASSUME NEW present \in StockRows, NEW before, NEW after \in StockRows
    PROVE  [c \in DOMAIN after |-> IF after[c] = before[c] THEN present[c] ELSE after[c]]
               \in StockRows
BY DEF StockRows

\* The same for adjustments.
LEMMA MergedAdjustments ==
    ASSUME NEW present \in AdjustmentRows, NEW before, NEW after \in AdjustmentRows
    PROVE  [c \in DOMAIN after |-> IF after[c] = before[c] THEN present[c] ELSE after[c]]
               \in AdjustmentRows
BY DEF AdjustmentRows

\* What a commit without a clash stores: rows for rows, and one for every copy.
Keeps(old, after, Records) ==
    /\ DOMAIN after = DOMAIN old
    /\ \A k \in DOMAIN old : after[k] \in Records \cup {Absent}
    /\ \A k \in DOMAIN old : old[k] # Absent => after[k] # Absent

Mixable(Records) ==
    \A present \in Records, after \in Records : \A before :
        [c \in DOMAIN after |-> IF after[c] = before[c] THEN present[c] ELSE after[c]] \in Records

\* So mixed rows are rows.
LEMMA RowsMix == Mixable(StockRows) /\ Mixable(AdjustmentRows) /\ Mixable(OrderRows)
<1>1. Mixable(StockRows)
  BY MergedStocks DEF Mixable
<1>2. Mixable(AdjustmentRows)
  BY MergedAdjustments DEF Mixable
<1>3. Mixable(OrderRows)
  BY MergedOrders DEF Mixable
<1> QED
  BY <1>1, <1>2, <1>3

\* A commit without a clash loses no row, and stores one for every copy.
LEMMA StoredKeeps ==
    ASSUME NEW b, NEW K, NEW Records, Mixable(Records), Absent \notin Records,
           NEW table, table \in [K -> Records \cup {Absent}],
           Fits(b, table, Records), ~Clash(b, table)
    PROVE  /\ Keeps(table, Stored(b, table), Records)
           /\ \A k \in DOMAIN edited[b] : Stored(b, table)[k] \in Records
           /\ Stored(b, table) = [k \in K |-> Stored(b, table)[k]]
<1>1. ASSUME NEW k \in DOMAIN edited[b]
      PROVE  k \in K /\ Merged(table[k], loaded[b][k], edited[b][k]) \in Records
  <2>0. k \in K /\ edited[b][k] \in Records
    BY DEF Fits
  <2>1. CASE loaded[b][k] = Absent
    BY <2>0, <2>1 DEF Merged
  <2>2. CASE loaded[b][k] # Absent
    <3>1. table[k] \in Records
      BY <2>0, <2>2 DEF Fits
    <3> QED
      BY <2>0, <2>2, <3>1 DEF Merged, Mixable
  <2> QED
    BY <2>1, <2>2
<1>2. \A k \in K : Stored(b, table)[k] =
          IF k \in DOMAIN edited[b] THEN Merged(table[k], loaded[b][k], edited[b][k])
                                    ELSE table[k]
  BY DEF Stored
<1>3. DOMAIN Stored(b, table) = K /\ DOMAIN table = K
  BY DEF Stored
<1>4. \A k \in DOMAIN edited[b] : Stored(b, table)[k] \in Records
  BY <1>1, <1>2
<1>5. Keeps(table, Stored(b, table), Records)
  BY <1>1, <1>2, <1>3 DEF Keeps
<1>6. Stored(b, table) = [k \in K |-> Stored(b, table)[k]]
  BY <1>3 DEF Stored
<1> QED
  BY <1>4, <1>5, <1>6

\* Initially the invariant holds.
LEMMA PurchaseStart == PurchaseInit => PurchaseInv
<1> SUFFICES ASSUME PurchaseInit PROVE PurchaseInv
  OBVIOUS
<1>1. \A l \in Lines : OpenOrder(l) \in OrderRows
  <2> SUFFICES ASSUME NEW l \in Lines PROVE OpenOrder(l) \in OrderRows
    OBVIOUS
  <2>1. ElementOf[l] \in Elements /\ Needed[l] \in Nat
    BY PurchaseConstants
  <2>2. Price(ElementOf[l]) \in Nat
    BY <2>1, PurchaseConstants DEF Price
  <2> QED
    BY <2>1, <2>2 DEF OpenOrder, OrderRows
<1>2. PurchaseTypeOK
  <2>1. orders \in [Lines -> OrderRows \cup {Absent}]
    BY <1>1 DEF PurchaseInit
  <2> QED
    BY <2>1 DEF PurchaseInit, PurchaseTypeOK
<1>3. \A b \in Buyers : RequestInv(b)
  BY DEF PurchaseInit, RequestInv
<1>4. BoughtOrdersAreKept
  BY DEF PurchaseInit, BoughtOrdersAreKept
<1>5. OrdersAreComplete
  BY DEF PurchaseInit, OrdersAreComplete, Ordered
<1> QED
  BY <1>2, <1>3, <1>4, <1>5 DEF PurchaseInv

\* No table loses a row.
Grows ==
    /\ DOMAIN stock' = DOMAIN stock /\ DOMAIN adjusted' = DOMAIN adjusted
    /\ DOMAIN orders' = DOMAIN orders
    /\ \A k \in DOMAIN stock : stock[k] # Absent => stock'[k] # Absent
    /\ \A k \in DOMAIN adjusted : adjusted[k] # Absent => adjusted'[k] # Absent
    /\ \A k \in DOMAIN orders : orders[k] # Absent => orders'[k] # Absent

Same(q) ==
    doing'[q] = doing[q] /\ missing'[q] = missing[q]
    /\ loaded'[q] = loaded[q] /\ edited'[q] = edited[q]

\* A request is not disturbed by rows that come, or by what others do.
LEMMA OtherRequests ==
    ASSUME NEW q \in Buyers, RequestInv(q), Grows, Same(q)
    PROVE  RequestInv(q)'
<1>1. ASSUME Fits(q, stock, StockRows) PROVE Fits(q, stock, StockRows)'
  BY <1>1 DEF Fits, Grows, Same
<1>2. ASSUME Fits(q, adjusted, AdjustmentRows) PROVE Fits(q, adjusted, AdjustmentRows)'
  BY <1>2 DEF Fits, Grows, Same
<1>3. ASSUME Fits(q, orders, OrderRows) PROVE Fits(q, orders, OrderRows)'
  BY <1>3 DEF Fits, Grows, Same
<1>4. Lacking(q)' = Lacking(q)
  BY DEF Lacking, Same
<1> QED
  BY <1>1, <1>2, <1>3, <1>4 DEF RequestInv, Same

\* A step that leaves the orders alone, and the order requests that are done.
LEMMA OrdersAsBefore ==
    ASSUME BoughtOrdersAreKept, OrdersAreComplete, UNCHANGED orders,
           \A l \in Lines : bought'[l] = bought[l],
           \A q \in Buyers : Ordered(q) => Same(q),
           \A q \in Buyers : Ordered(q)' => Ordered(q)
    PROVE  BoughtOrdersAreKept' /\ OrdersAreComplete'
<1>1. ASSUME NEW q \in Buyers, Ordered(q)
      PROVE  Ordered(q)' /\ loaded'[q] = loaded[q] /\ missing'[q] = missing[q]
  BY <1>1 DEF Ordered, Same
<1>2. BoughtOrdersAreKept'
  BY <1>1 DEF BoughtOrdersAreKept
<1>3. OrdersAreComplete'
  BY <1>1 DEF OrdersAreComplete, Lacking
<1> QED
  BY <1>2, <1>3

\* A request that begins and edits one row.
LEMMA BeginStep ==
    ASSUME PurchaseInv, NEW b \in Buyers,
           NEW aim \in {"stock", "adjust", "purchase", "order"}, Begin(b, aim),
           missing' = [missing EXCEPT ![b] = missing'[b]],
           loaded' = [loaded EXCEPT ![b] = loaded'[b]],
           edited' = [edited EXCEPT ![b] = edited'[b]],
           RequestInv(b)'
    PROVE  PurchaseInv'
<1>1. /\ doing' = [doing EXCEPT ![b] = [kind |-> aim, at |-> "open"]]
      /\ doing[b].at = "new" /\ UNCHANGED <<stock, adjusted, orders, bought>>
  BY DEF Begin
<1>2. PurchaseTypeOK'
  BY <1>1 DEF PurchaseInv, PurchaseTypeOK
<1>3. Grows
  BY <1>1 DEF Grows
<1>4. \A q \in Buyers \ {b} : Same(q)
  BY <1>1 DEF Same, PurchaseInv, PurchaseTypeOK
<1>5. \A q \in Buyers : RequestInv(q)'
  BY <1>3, <1>4, OtherRequests DEF PurchaseInv
<1>6. ~Ordered(b) /\ ~Ordered(b)'
  <2>1. doing'[b].at = "open"
    BY <1>1 DEF PurchaseInv, PurchaseTypeOK
  <2> QED
    BY <1>1, <2>1 DEF Ordered
<1>7. \A q \in Buyers \ {b} : Ordered(q)' => Ordered(q)
  BY <1>4 DEF Ordered, Same
<1>8. BoughtOrdersAreKept' /\ OrdersAreComplete'
  BY <1>1, <1>4, <1>6, <1>7, OrdersAsBefore DEF PurchaseInv
<1> QED
  BY <1>2, <1>5, <1>8 DEF PurchaseInv

\* The first row a request edits.
LEMMA FirstEdit ==
    ASSUME PurchaseInv, NEW b \in Buyers, doing[b].at = "new", NEW k, NEW present, NEW after,
           Edit(b, k, present, after)
    PROVE  /\ DOMAIN loaded'[b] = {k} /\ DOMAIN edited'[b] = {k}
           /\ loaded'[b][k] = present /\ edited'[b][k] = after
           /\ loaded' = [loaded EXCEPT ![b] = loaded'[b]]
           /\ edited' = [edited EXCEPT ![b] = edited'[b]]
<1>1. loaded[b] = None /\ edited[b] = None
  BY DEF PurchaseInv, RequestInv
<1>2. loaded'[b] = Extended(None, k, present) /\ edited'[b] = Extended(None, k, after)
  BY <1>1 DEF Edit, PurchaseInv, PurchaseTypeOK
<1>3. DOMAIN None = {}
  BY DEF None
<1> QED
  BY <1>2, <1>3 DEF Edit, Extended, PurchaseInv, PurchaseTypeOK

\* A request for a quantity reads its row.
LEMMA SetQuantityStep ==
    ASSUME PurchaseInv, NEW b \in Buyers, SetQuantity(b) PROVE PurchaseInv'
<1>1. PICK e \in Elements, q \in Quantities :
          /\ Begin(b, "stock") /\ Edit(b, e, stock[e], [quantity |-> q]) /\ UNCHANGED missing
  BY DEF SetQuantity
<1>2. doing[b].at = "new" /\ UNCHANGED stock /\ doing'[b] = [kind |-> "stock", at |-> "open"]
  BY <1>1 DEF Begin, PurchaseInv, PurchaseTypeOK
<1>3. /\ DOMAIN loaded'[b] = {e} /\ DOMAIN edited'[b] = {e}
      /\ loaded'[b][e] = stock[e] /\ edited'[b][e] = [quantity |-> q]
      /\ loaded' = [loaded EXCEPT ![b] = loaded'[b]]
      /\ edited' = [edited EXCEPT ![b] = edited'[b]]
  BY <1>1, <1>2, FirstEdit
<1>4. Fits(b, stock, StockRows)'
  <2>1. stock[e] \in StockRows \cup {Absent} /\ e \in DOMAIN stock
    BY DEF PurchaseInv, PurchaseTypeOK
  <2>2. [quantity |-> q] \in StockRows
    BY PurchaseConstants DEF StockRows
  <2> QED
    BY <1>2, <1>3, <2>1, <2>2 DEF Fits
<1>5. missing'[b] = None
  <2>1. missing[b] = None
    BY <1>2 DEF PurchaseInv, RequestInv, PurchaseTypeOK
  <2> QED
    BY <1>1, <2>1
<1>6. RequestInv(b)'
  BY <1>2, <1>4, <1>5 DEF RequestInv
<1>7. missing' = [missing EXCEPT ![b] = missing'[b]]
  BY <1>1 DEF PurchaseInv, PurchaseTypeOK
<1> QED
  BY <1>1, <1>3, <1>6, <1>7, BeginStep

\* A request for an adjustment reads its row.
LEMMA UpdateAdjustmentStep ==
    ASSUME PurchaseInv, NEW b \in Buyers, UpdateAdjustment(b) PROVE PurchaseInv'
<1>1. PICK l \in Lines, n \in Corrections, s \in Elements \cup {Absent} :
          /\ Begin(b, "adjust") /\ UNCHANGED missing
          /\ Edit(b, l, adjusted[l], [manual |-> n, substitute |-> s])
  BY DEF UpdateAdjustment
<1>2. doing[b].at = "new" /\ UNCHANGED adjusted /\ doing'[b] = [kind |-> "adjust", at |-> "open"]
  BY <1>1 DEF Begin, PurchaseInv, PurchaseTypeOK
<1>3. /\ DOMAIN loaded'[b] = {l} /\ DOMAIN edited'[b] = {l}
      /\ loaded'[b][l] = adjusted[l] /\ edited'[b][l] = [manual |-> n, substitute |-> s]
      /\ loaded' = [loaded EXCEPT ![b] = loaded'[b]]
      /\ edited' = [edited EXCEPT ![b] = edited'[b]]
  BY <1>1, <1>2, FirstEdit
<1>4. Fits(b, adjusted, AdjustmentRows)'
  <2>1. adjusted[l] \in AdjustmentRows \cup {Absent} /\ l \in DOMAIN adjusted
    BY DEF PurchaseInv, PurchaseTypeOK
  <2>2. [manual |-> n, substitute |-> s] \in AdjustmentRows
    BY PurchaseConstants DEF AdjustmentRows
  <2> QED
    BY <1>2, <1>3, <2>1, <2>2 DEF Fits
<1>5. missing'[b] = None
  <2>1. missing[b] = None
    BY <1>2 DEF PurchaseInv, RequestInv, PurchaseTypeOK
  <2> QED
    BY <1>1, <2>1
<1>6. RequestInv(b)'
  BY <1>2, <1>4, <1>5 DEF RequestInv
<1>7. missing' = [missing EXCEPT ![b] = missing'[b]]
  BY <1>1 DEF PurchaseInv, PurchaseTypeOK
<1> QED
  BY <1>1, <1>3, <1>6, <1>7, BeginStep

\* A request that marks an order reads it, and leaves its first three columns.
LEMMA UpdatePurchaseStep ==
    ASSUME PurchaseInv, NEW b \in Buyers, UpdatePurchase(b) PROVE PurchaseInv'
<1>1. PICK l \in Lines, p \in BOOLEAN, c \in Costs \cup {Absent} :
          /\ Begin(b, "purchase") /\ UNCHANGED missing /\ orders[l] # Absent
          /\ Edit(b, l, orders[l], [orders[l] EXCEPT !.purchased = p, !.actual = c])
  BY DEF UpdatePurchase
<1>2. doing[b].at = "new" /\ UNCHANGED orders /\ doing'[b] = [kind |-> "purchase", at |-> "open"]
  BY <1>1 DEF Begin, PurchaseInv, PurchaseTypeOK
<1>3. /\ DOMAIN loaded'[b] = {l} /\ DOMAIN edited'[b] = {l}
      /\ loaded'[b][l] = orders[l]
      /\ edited'[b][l] = [orders[l] EXCEPT !.purchased = p, !.actual = c]
      /\ loaded' = [loaded EXCEPT ![b] = loaded'[b]]
      /\ edited' = [edited EXCEPT ![b] = edited'[b]]
  BY <1>1, <1>2, FirstEdit
<1>4. orders[l] \in OrderRows /\ l \in DOMAIN orders
  BY <1>1 DEF PurchaseInv, PurchaseTypeOK
<1>5. /\ edited'[b][l] \in OrderRows
      /\ \A column \in Kept : edited'[b][l][column] = orders[l][column]
  BY <1>3, <1>4 DEF OrderRows, Kept
<1>6. Fits(b, orders, OrderRows)'
  BY <1>1, <1>2, <1>3, <1>4, <1>5 DEF Fits
<1>7. missing'[b] = None
  <2>1. missing[b] = None
    BY <1>2 DEF PurchaseInv, RequestInv, PurchaseTypeOK
  <2> QED
    BY <1>1, <2>1
<1>8. RequestInv(b)'
  <2>1. \A k \in DOMAIN edited'[b] :
            /\ loaded'[b][k] # Absent
            /\ \A column \in Kept : edited'[b][k][column] = loaded'[b][k][column]
    BY <1>1, <1>3, <1>5
  <2>2. /\ doing'[b].kind = "purchase" /\ doing'[b].at = "open"
    BY <1>2
  <2> QED
    BY <1>6, <1>7, <2>1, <2>2 DEF RequestInv
<1>9. missing' = [missing EXCEPT ![b] = missing'[b]]
  BY <1>1 DEF PurchaseInv, PurchaseTypeOK
<1> QED
  BY <1>1, <1>3, <1>8, <1>9, BeginStep

\* An order request takes the checklist.
LEMMA AddMissingStep ==
    ASSUME PurchaseInv, NEW b \in Buyers, AddMissing(b) PROVE PurchaseInv'
<1>1. /\ Begin(b, "order") /\ missing' = [missing EXCEPT ![b] = Checklist]
      /\ UNCHANGED <<loaded, edited>>
  BY DEF AddMissing
<1>2. doing[b].at = "new" /\ doing'[b] = [kind |-> "order", at |-> "open"]
  BY <1>1 DEF Begin, PurchaseInv, PurchaseTypeOK
<1>3. loaded'[b] = None /\ edited'[b] = None
  BY <1>1, <1>2 DEF PurchaseInv, RequestInv
<1>4. missing'[b] = Checklist /\ missing' = [missing EXCEPT ![b] = missing'[b]]
  BY <1>1 DEF PurchaseInv, PurchaseTypeOK
<1>5. Checklist \in [Lines -> Shortages]
  BY LinesAreNatural DEF Checklist, PurchaseInv
<1>6. DOMAIN None = {}
  BY DEF None
<1>7. Fits(b, orders, OrderRows)'
  BY <1>3, <1>6 DEF Fits
<1>8. RequestInv(b)'
  BY <1>2, <1>3, <1>4, <1>5, <1>6, <1>7 DEF RequestInv, Lacking
<1>9. /\ loaded' = [loaded EXCEPT ![b] = loaded'[b]]
      /\ edited' = [edited EXCEPT ![b] = edited'[b]]
  BY <1>1 DEF PurchaseInv, PurchaseTypeOK
<1> QED
  BY <1>1, <1>4, <1>8, <1>9, BeginStep

\* An order request leaves what it has read as purchased.
LEMMA RefreshedIsARow ==
    ASSUME NEW present \in OrderRows \cup {Absent}, NEW line \in Shortages
    PROVE  /\ Refreshed(present, line) \in OrderRows
           /\ present = Absent => ~Refreshed(present, line).purchased
           /\ present # Absent /\ present.purchased => Refreshed(present, line) = present
           /\ present # Absent => Refreshed(present, line).purchased = present.purchased
<1>1. CASE present = Absent
  <2>1. Refreshed(present, line) =
            [element |-> line.element, quantity |-> line.missing,
             estimate |-> line.estimate, actual |-> Absent, purchased |-> FALSE]
    BY <1>1 DEF Refreshed
  <2> QED
    BY <1>1, <2>1 DEF OrderRows, Shortages
<1>2. CASE present # Absent
  <2>1. present \in OrderRows
    BY <1>2
  <2> QED
    BY <1>2, <2>1 DEF Refreshed, OrderRows, Shortages
<1> QED
  BY <1>1, <1>2

\* An order request looks up one line more.
LEMMA LookUpOrderStep ==
    ASSUME PurchaseInv, NEW b \in Buyers, LookUpOrder(b) PROVE PurchaseInv'
<1>1. PICK l \in Lacking(b) \ DOMAIN loaded[b] :
          /\ Edit(b, l, orders[l], Refreshed(orders[l], missing[b][l]))
          /\ UNCHANGED <<stock, adjusted, orders, doing, missing, bought>>
  BY DEF LookUpOrder
<1>2. doing[b].kind = "order" /\ doing[b].at = "open"
  <2>1. DOMAIN None = {}
    BY DEF None
  <2>2. doing[b].kind = "order"
    BY <1>1, <2>1 DEF PurchaseInv, RequestInv, Lacking
  <2> QED
    BY <1>1, <2>2 DEF PurchaseInv, RequestInv
<1>3. /\ loaded'[b] = Extended(loaded[b], l, orders[l])
      /\ edited'[b] = Extended(edited[b], l, Refreshed(orders[l], missing[b][l]))
      /\ \A q \in Buyers \ {b} : loaded'[q] = loaded[q] /\ edited'[q] = edited[q]
      /\ loaded' = [q \in Buyers |-> loaded'[q]] /\ edited' = [q \in Buyers |-> edited'[q]]
  BY <1>1 DEF Edit, PurchaseInv, PurchaseTypeOK
<1>4. PurchaseTypeOK'
  BY <1>1, <1>3 DEF PurchaseInv, PurchaseTypeOK
<1>5. l \in Lines /\ missing[b][l] \in Shortages /\ orders[l] \in OrderRows \cup {Absent}
  BY <1>1, <1>2 DEF PurchaseInv, RequestInv, Lacking, PurchaseTypeOK
<1>6. /\ Fits(b, orders, OrderRows) /\ DOMAIN loaded[b] \subseteq Lacking(b)
      /\ \A k \in DOMAIN edited[b] : edited[b][k] = Refreshed(loaded[b][k], missing[b][k])
  BY <1>2 DEF PurchaseInv, RequestInv
<1>7. /\ DOMAIN edited'[b] = DOMAIN edited[b] \cup {l}
      /\ DOMAIN loaded'[b] = DOMAIN loaded[b] \cup {l}
      /\ \A k \in DOMAIN edited[b] : edited'[b][k] = edited[b][k] /\ loaded'[b][k] = loaded[b][k]
      /\ edited'[b][l] = Refreshed(orders[l], missing[b][l]) /\ loaded'[b][l] = orders[l]
  <2>1. l \notin DOMAIN edited[b] /\ l \notin DOMAIN loaded[b]
    BY <1>1, <1>6 DEF Fits
  <2> QED
    BY <1>3, <1>6, <2>1 DEF Extended, Fits
<1>8. Fits(b, orders, OrderRows)'
  <2>1. Refreshed(orders[l], missing[b][l]) \in OrderRows
    BY <1>5, RefreshedIsARow
  <2>2. l \in DOMAIN orders
    BY <1>5 DEF PurchaseInv, PurchaseTypeOK
  <2> QED
    BY <1>1, <1>5, <1>6, <1>7, <2>1, <2>2 DEF Fits
<1>9. RequestInv(b)'
  <2>1. Lacking(b)' = Lacking(b)
    BY <1>1 DEF Lacking
  <2>2. missing[b] \in [Lines -> Shortages]
    BY <1>2 DEF PurchaseInv, RequestInv
  <2>3. \A k \in DOMAIN edited'[b] : edited'[b][k] = Refreshed(loaded'[b][k], missing[b][k])
    BY <1>6, <1>7
  <2>4. DOMAIN loaded'[b] \subseteq Lacking(b)
    BY <1>1, <1>6, <1>7
  <2> QED
    BY <1>1, <1>2, <1>8, <2>1, <2>2, <2>3, <2>4 DEF RequestInv
<1>10. \A q \in Buyers : RequestInv(q)'
  <2>1. Grows
    BY <1>1 DEF Grows
  <2>2. \A q \in Buyers \ {b} : Same(q)
    BY <1>1, <1>3 DEF Same
  <2> QED
    BY <1>9, <2>1, <2>2, OtherRequests DEF PurchaseInv
<1>11. BoughtOrdersAreKept' /\ OrdersAreComplete'
  <2>1. ~Ordered(b)
    BY <1>2 DEF Ordered
  <2>2. \A q \in Buyers : Ordered(q) => Same(q)
    BY <1>1, <1>3, <2>1 DEF Same
  <2>3. \A q \in Buyers : Ordered(q)' => Ordered(q)
    BY <1>1 DEF Ordered
  <2> QED
    BY <1>1, <2>2, <2>3, OrdersAsBefore DEF PurchaseInv
<1> QED
  BY <1>4, <1>10, <1>11 DEF PurchaseInv

\* The commit of a request that has written rows of one table.
LEMMA CommittedRequest ==
    ASSUME PurchaseInv, NEW b \in Buyers, CommitParts(b), Grows,
           NEW outcome \in {"failed", "done"}, doing' = [doing EXCEPT ![b].at = outcome]
    PROVE  /\ \A q \in Buyers : RequestInv(q)'
           /\ \A q \in Buyers \ {b} : doing'[q] = doing[q]
           /\ doing'[b].kind = doing[b].kind /\ doing'[b].at = outcome
           /\ UNCHANGED <<missing, loaded, edited>>
<1>1. /\ doing[b].at = "open" /\ Lacking(b) \subseteq DOMAIN loaded[b]
      /\ UNCHANGED <<missing, loaded, edited>>
  BY DEF CommitParts
<1>2. /\ doing'[b].kind = doing[b].kind /\ doing'[b].at = outcome
      /\ \A q \in Buyers \ {b} : doing'[q] = doing[q]
  BY DEF PurchaseInv, PurchaseTypeOK
<1>3. \A q \in Buyers \ {b} : Same(q)
  BY <1>1, <1>2 DEF Same
<1>4. \A q \in Buyers \ {b} : RequestInv(q)'
  BY <1>3, OtherRequests DEF PurchaseInv
<1>5. RequestInv(b)'
  <2>1. RequestInv(b)
    BY DEF PurchaseInv
  <2>2. Fits(b, stock, StockRows) => Fits(b, stock, StockRows)'
    BY <1>1 DEF Fits, Grows
  <2>3. Fits(b, adjusted, AdjustmentRows) => Fits(b, adjusted, AdjustmentRows)'
    BY <1>1 DEF Fits, Grows
  <2>4. Fits(b, orders, OrderRows) => Fits(b, orders, OrderRows)'
    BY <1>1 DEF Fits, Grows
  <2>5. Lacking(b)' = Lacking(b)
    BY <1>1 DEF Lacking
  <2>6. doing[b].kind # "none" /\ doing'[b].kind # "none" /\ doing'[b].at # "new"
    BY <1>1, <1>2, <2>1 DEF RequestInv
  <2> QED
    BY <1>1, <1>2, <2>1, <2>2, <2>3, <2>4, <2>5, <2>6 DEF RequestInv
<1> QED
  BY <1>1, <1>2, <1>4, <1>5

\* A commit that leaves the orders as they are.
LEMMA CommitElsewhere ==
    ASSUME PurchaseInv, NEW b \in Buyers, CommitParts(b), Grows, UNCHANGED orders,
           NEW outcome \in {"failed", "done"}, doing' = [doing EXCEPT ![b].at = outcome],
           doing[b].kind = "order" => outcome = "failed"
    PROVE  (\A q \in Buyers : RequestInv(q)') /\ BoughtOrdersAreKept' /\ OrdersAreComplete'
<1>1. /\ \A q \in Buyers : RequestInv(q)'
      /\ \A q \in Buyers \ {b} : doing'[q] = doing[q]
      /\ doing'[b].kind = doing[b].kind /\ doing'[b].at = outcome
      /\ UNCHANGED <<missing, loaded, edited>>
  BY CommittedRequest
<1>2. \A l \in Lines : bought'[l] = bought[l]
  BY DEF CommitParts
<1>3. ~Ordered(b) /\ ~Ordered(b)'
  <2>1. doing[b].at = "open"
    BY DEF CommitParts
  <2> QED
    BY <1>1, <2>1 DEF Ordered
<1>4. \A q \in Buyers : Ordered(q) => Same(q)
  BY <1>1, <1>3 DEF Same
<1>5. \A q \in Buyers : Ordered(q)' => Ordered(q)
  BY <1>1, <1>3 DEF Ordered
<1>6. BoughtOrdersAreKept' /\ OrdersAreComplete'
  BY <1>2, <1>4, <1>5, OrdersAsBefore DEF PurchaseInv
<1> QED
  BY <1>1, <1>6

\* A commit that writes orders.
LEMMA CommitOrders ==
    ASSUME PurchaseInv, NEW b \in Buyers, CommitParts(b), doing[b].kind \in {"purchase", "order"},
           ~Clash(b, orders), doing' = [doing EXCEPT ![b].at = "done"],
           orders' = Stored(b, orders), UNCHANGED <<stock, adjusted>>
    PROVE  PurchaseInv'
<1>0. Fits(b, orders, OrderRows) /\ DOMAIN edited[b] = DOMAIN loaded[b]
  BY DEF PurchaseInv, RequestInv, Fits
<1>1. /\ Keeps(orders, orders', OrderRows)
      /\ \A k \in DOMAIN edited[b] : orders'[k] \in OrderRows
      /\ orders' = [k \in Lines |-> orders'[k]]
  <2>1. Mixable(OrderRows) /\ Absent \notin OrderRows
    BY RowsMix, PurchaseConstants
  <2>2. orders \in [Lines -> OrderRows \cup {Absent}]
    BY DEF PurchaseInv, PurchaseTypeOK
  <2>3. /\ Keeps(orders, Stored(b, orders), OrderRows)
        /\ \A k \in DOMAIN edited[b] : Stored(b, orders)[k] \in OrderRows
        /\ Stored(b, orders) = [k \in Lines |-> Stored(b, orders)[k]]
    <3>1. Fits(b, orders, OrderRows) /\ ~Clash(b, orders)
      BY <1>0
    <3> QED
      <4>1. Keeps(orders, Stored(b, orders), OrderRows)
        BY <2>1, <2>2, <3>1, StoredKeeps
      <4>2. \A k \in DOMAIN edited[b] : Stored(b, orders)[k] \in OrderRows
        BY <2>1, <2>2, <3>1, StoredKeeps
      <4>3. Stored(b, orders) = [k \in Lines |-> Stored(b, orders)[k]]
        BY <2>1, <2>2, <3>1, StoredKeeps
      <4> QED
        BY <4>1, <4>2, <4>3
  <2> QED
    BY <2>3
<1>2. DOMAIN orders = Lines
  BY DEF PurchaseInv, PurchaseTypeOK
<1>3. Grows
  BY <1>1, <1>2 DEF Grows, Keeps
<1>4. /\ \A q \in Buyers : RequestInv(q)'
      /\ \A q \in Buyers \ {b} : doing'[q] = doing[q]
      /\ doing'[b].kind = doing[b].kind /\ doing'[b].at = "done"
      /\ UNCHANGED <<missing, loaded, edited>>
  BY <1>3, CommittedRequest
<1>5. PurchaseTypeOK'
  <2>1. orders' \in [Lines -> OrderRows \cup {Absent}]
    BY <1>1, <1>2 DEF Keeps
  <2> QED
    BY <1>4, <2>1 DEF PurchaseInv, PurchaseTypeOK
<1>6. ~Ordered(b) /\ doing[b].at = "open" /\ Lacking(b) \subseteq DOMAIN loaded[b]
  BY DEF Ordered, CommitParts
<1>7. \A q \in Buyers \ {b} : Ordered(q)' <=> Ordered(q)
  BY <1>4 DEF Ordered
<1>8. OrdersAreComplete'
  <2> SUFFICES ASSUME NEW q \in Buyers, Ordered(q)', NEW l \in Lacking(q)'
               PROVE  orders'[l] # Absent
    BY DEF OrdersAreComplete
  <2>1. Lacking(q)' = Lacking(q)
    BY <1>4 DEF Lacking
  <2>2. CASE q = b
    <3>1. l \in DOMAIN edited[b]
      BY <1>0, <1>6, <2>1, <2>2
    <3> QED
      BY <1>1, <3>1, PurchaseConstants
  <2>3. CASE q # b
    <3>1. Ordered(q)
      BY <1>7, <2>3
    <3>2. orders[l] # Absent
      BY <2>1, <3>1 DEF PurchaseInv, OrdersAreComplete
    <3>3. l \in Lines
      <4>1. missing[q] \in [Lines -> Shortages]
        BY <3>1 DEF PurchaseInv, RequestInv, Ordered
      <4> QED
        BY <2>1, <4>1 DEF Lacking
    <3> QED
      BY <1>2, <1>3, <3>2, <3>3 DEF Grows
  <2> QED
    BY <2>2, <2>3
<1>9. BoughtOrdersAreKept'
  <2> DEFINE Excused(l) == \E q \in Buyers : Ordered(q) /\ l \in DOMAIN loaded[q]
                               /\ loaded[q][l] # Absent /\ ~loaded[q][l].purchased
             Like(l) == \A c \in Kept : orders[l][c] = bought[l][c]
  <2>0. ASSUME NEW l \in Lines, orders[l] # Absent, orders[l].purchased
        PROVE  Like(l) \/ Excused(l)
    BY <2>0 DEF PurchaseInv, BoughtOrdersAreKept, Kept
  <2>1. ASSUME NEW l \in Lines, Excused(l) PROVE Excused(l)'
    BY <1>4, <1>6, <1>7, <2>1
  <2>2. ASSUME NEW l \in Lines, orders'[l] # Absent, orders'[l].purchased
        PROVE  Like(l)' \/ Excused(l)'
    <3>1. CASE l \notin DOMAIN edited[b]
      <4>1. orders'[l] = orders[l]
        BY <1>2, <3>1 DEF Stored
      <4>2. bought'[l] = bought[l]
        BY <2>2, <4>1 DEF CommitParts
      <4> QED
        BY <2>0, <2>1, <2>2, <4>1, <4>2
    <3>2. CASE l \in DOMAIN edited[b]
      <4>1. orders'[l] = Merged(orders[l], loaded[b][l], edited[b][l])
        BY <1>2, <3>2 DEF Stored
      <4>2. /\ edited[b][l] \in OrderRows /\ loaded[b][l] \in OrderRows \cup {Absent}
            /\ loaded[b][l] # Absent => orders[l] # Absent
        BY <1>0, <3>2 DEF Fits
      <4>3. doing[b].kind = "order" => edited[b][l] = Refreshed(loaded[b][l], missing[b][l])
                                       /\ missing[b][l] \in Shortages
        BY <3>2 DEF PurchaseInv, RequestInv
      <4>4. loaded[b][l] # Absent
        <5> SUFFICES ASSUME loaded[b][l] = Absent PROVE FALSE
          OBVIOUS
        <5>1. orders'[l] = edited[b][l]
          BY <4>1 DEF Merged
        <5>2. doing[b].kind = "order"
          BY <3>2 DEF PurchaseInv, RequestInv
        <5>3. ~edited[b][l].purchased
          BY <4>2, <4>3, <5>2, RefreshedIsARow
        <5> QED
          BY <2>2, <5>1, <5>3
      <4>5. CASE doing[b].kind = "order" /\ ~loaded[b][l].purchased
        <5>1. Ordered(b)'
          <6>1. doing'[b] \in [kind : {"none", "stock", "adjust", "purchase", "order"},
                               at : {"new", "open", "done", "failed"}]
            BY <1>5 DEF PurchaseTypeOK
          <6> QED
            BY <1>4, <4>5, <6>1 DEF Ordered
        <5> QED
          BY <1>0, <1>4, <3>2, <4>4, <4>5, <5>1
      <4>6. CASE ~(doing[b].kind = "order" /\ ~loaded[b][l].purchased)
        <5>1. \A c \in Kept : edited[b][l][c] = loaded[b][l][c]
          <6>1. CASE doing[b].kind = "purchase"
            BY <3>2, <6>1 DEF PurchaseInv, RequestInv
          <6>2. CASE doing[b].kind = "order"
            BY <4>2, <4>3, <4>4, <4>6, <6>2, RefreshedIsARow
          <6> QED
            BY <6>1, <6>2
        <5>2. \A c \in Kept : orders'[l][c] = orders[l][c]
          <6>1. Kept \subseteq DOMAIN edited[b][l]
            BY <4>2 DEF OrderRows, Kept
          <6> QED
            BY <4>1, <4>4, <5>1, <6>1 DEF Merged
        <5>3. CASE orders[l].purchased
          <6>1. bought'[l] = bought[l]
            BY <5>3 DEF CommitParts
          <6>2. Like(l) \/ Excused(l)
            BY <2>0, <4>2, <4>4, <5>3
          <6> QED
            BY <2>1, <5>2, <6>1, <6>2
        <5>4. CASE ~orders[l].purchased
          <6>1. bought'[l] = orders'[l]
            BY <2>2, <4>2, <4>4, <5>4 DEF CommitParts
          <6> QED
            BY <6>1
        <5> QED
          BY <5>3, <5>4
      <4> QED
        BY <4>5, <4>6
    <3> QED
      BY <3>1, <3>2
  <2> QED
    BY <2>2 DEF BoughtOrdersAreKept, Kept
<1> QED
  BY <1>4, <1>5, <1>8, <1>9 DEF PurchaseInv

\* A commit, by the table it writes.
LEMMA CommitPartsStep ==
    ASSUME PurchaseInv, NEW b \in Buyers, CommitParts(b) PROVE PurchaseInv'
<1>1. doing[b].at = "open" /\ doing[b].kind \in {"stock", "adjust", "purchase", "order"}
  <2>1. doing[b].at = "open"
    BY DEF CommitParts
  <2> QED
    BY <2>1 DEF PurchaseInv, PurchaseTypeOK, RequestInv
<1>2. CASE doing[b].kind = "stock"
  <2>1. Write(b, stock) /\ UNCHANGED <<adjusted, orders, missing, loaded, edited>>
    BY <1>2 DEF CommitParts
  <2>2. Fits(b, stock, StockRows) /\ stock \in [Elements -> StockRows \cup {Absent}]
    BY <1>2 DEF PurchaseInv, PurchaseTypeOK, RequestInv
  <2>3. PICK outcome \in {"failed", "done"} : doing' = [doing EXCEPT ![b].at = outcome]
    BY <2>1 DEF Write
  <2>4. /\ stock' \in [Elements -> StockRows \cup {Absent}]
        /\ \A k \in DOMAIN stock : stock[k] # Absent => stock'[k] # Absent
    <3>1. CASE Clash(b, stock)
      BY <2>1, <2>2, <3>1 DEF Write
    <3>2. CASE ~Clash(b, stock)
      <4>1. stock' = Stored(b, stock)
        BY <2>1, <3>2 DEF Write
      <4>2. /\ Keeps(stock, Stored(b, stock), StockRows)
            /\ Stored(b, stock) = [k \in Elements |-> Stored(b, stock)[k]]
        <5>1. Mixable(StockRows) /\ Absent \notin StockRows
          BY RowsMix, PurchaseConstants
        <5> QED
          BY <2>2, <3>2, <5>1, StoredKeeps
      <4> QED
        BY <2>2, <4>1, <4>2 DEF Keeps
    <3> QED
      BY <3>1, <3>2
  <2>5. Grows
    BY <2>1, <2>2, <2>4 DEF Grows
  <2>6. (\A q \in Buyers : RequestInv(q)') /\ BoughtOrdersAreKept' /\ OrdersAreComplete'
    BY <1>2, <2>1, <2>3, <2>5, CommitElsewhere
  <2>7. PurchaseTypeOK'
    BY <2>1, <2>3, <2>4 DEF PurchaseInv, PurchaseTypeOK
  <2> QED
    BY <2>6, <2>7 DEF PurchaseInv
<1>3. CASE doing[b].kind = "adjust"
  <2>1. Write(b, adjusted) /\ UNCHANGED <<stock, orders, missing, loaded, edited>>
    BY <1>3 DEF CommitParts
  <2>2. Fits(b, adjusted, AdjustmentRows) /\ adjusted \in [Lines -> AdjustmentRows \cup {Absent}]
    BY <1>3 DEF PurchaseInv, PurchaseTypeOK, RequestInv
  <2>3. PICK outcome \in {"failed", "done"} : doing' = [doing EXCEPT ![b].at = outcome]
    BY <2>1 DEF Write
  <2>4. /\ adjusted' \in [Lines -> AdjustmentRows \cup {Absent}]
        /\ \A k \in DOMAIN adjusted : adjusted[k] # Absent => adjusted'[k] # Absent
    <3>1. CASE Clash(b, adjusted)
      BY <2>1, <2>2, <3>1 DEF Write
    <3>2. CASE ~Clash(b, adjusted)
      <4>1. adjusted' = Stored(b, adjusted)
        BY <2>1, <3>2 DEF Write
      <4>2. /\ Keeps(adjusted, Stored(b, adjusted), AdjustmentRows)
            /\ Stored(b, adjusted) = [k \in Lines |-> Stored(b, adjusted)[k]]
        <5>1. Mixable(AdjustmentRows) /\ Absent \notin AdjustmentRows
          BY RowsMix, PurchaseConstants
        <5> QED
          BY <2>2, <3>2, <5>1, StoredKeeps
      <4> QED
        BY <2>2, <4>1, <4>2 DEF Keeps
    <3> QED
      BY <3>1, <3>2
  <2>5. Grows
    BY <2>1, <2>2, <2>4 DEF Grows
  <2>6. (\A q \in Buyers : RequestInv(q)') /\ BoughtOrdersAreKept' /\ OrdersAreComplete'
    BY <1>3, <2>1, <2>3, <2>5, CommitElsewhere
  <2>7. PurchaseTypeOK'
    BY <2>1, <2>3, <2>4 DEF PurchaseInv, PurchaseTypeOK
  <2> QED
    BY <2>6, <2>7 DEF PurchaseInv
<1>4. CASE doing[b].kind \in {"purchase", "order"}
  <2>1. Write(b, orders) /\ UNCHANGED <<stock, adjusted, missing, loaded, edited>>
    BY <1>4 DEF CommitParts
  <2>2. CASE Clash(b, orders)
    <3>1. doing' = [doing EXCEPT ![b].at = "failed"] /\ UNCHANGED orders
      BY <2>1, <2>2 DEF Write
    <3>2. Grows
      BY <2>1, <3>1 DEF Grows
    <3>3. (\A q \in Buyers : RequestInv(q)') /\ BoughtOrdersAreKept' /\ OrdersAreComplete'
      BY <3>1, <3>2, CommitElsewhere
    <3>4. PurchaseTypeOK'
      BY <2>1, <3>1 DEF PurchaseInv, PurchaseTypeOK
    <3> QED
      BY <3>3, <3>4 DEF PurchaseInv
  <2>3. CASE ~Clash(b, orders)
    BY <1>4, <2>1, <2>3, CommitOrders DEF Write
  <2> QED
    BY <2>2, <2>3
<1> QED
  BY <1>1, <1>2, <1>3, <1>4

\* Every step preserves the invariant.
LEMMA PurchaseStep == PurchaseInv /\ [PurchaseNext]_purchaseVars => PurchaseInv'
<1> SUFFICES ASSUME PurchaseInv, [PurchaseNext]_purchaseVars PROVE PurchaseInv'
  OBVIOUS
<1>1. ASSUME NEW b \in Buyers, SetQuantity(b) PROVE PurchaseInv'
  BY <1>1, SetQuantityStep
<1>2. ASSUME NEW b \in Buyers, UpdateAdjustment(b) PROVE PurchaseInv'
  BY <1>2, UpdateAdjustmentStep
<1>3. ASSUME NEW b \in Buyers, UpdatePurchase(b) PROVE PurchaseInv'
  BY <1>3, UpdatePurchaseStep
<1>4. ASSUME NEW b \in Buyers, AddMissing(b) PROVE PurchaseInv'
  BY <1>4, AddMissingStep
<1>5. ASSUME NEW b \in Buyers, LookUpOrder(b) PROVE PurchaseInv'
  BY <1>5, LookUpOrderStep
<1>6. ASSUME NEW b \in Buyers, CommitParts(b) PROVE PurchaseInv'
  BY <1>6, CommitPartsStep
<1>7. CASE UNCHANGED purchaseVars
  <2>1. PurchaseTypeOK'
    BY <1>7 DEF purchaseVars, PurchaseInv, PurchaseTypeOK
  <2>2. Grows /\ \A q \in Buyers : Same(q)
    BY <1>7 DEF purchaseVars, Grows, Same
  <2>3. \A q \in Buyers : RequestInv(q)'
    BY <2>2, OtherRequests DEF PurchaseInv
  <2>4. BoughtOrdersAreKept' /\ OrdersAreComplete'
    <3>1. \A q \in Buyers : Ordered(q)' => Ordered(q)
      BY <1>7 DEF purchaseVars, Ordered
    <3>2. UNCHANGED orders /\ \A l \in Lines : bought'[l] = bought[l]
      BY <1>7 DEF purchaseVars
    <3> QED
      BY <2>2, <3>1, <3>2, OrdersAsBefore DEF PurchaseInv
  <2> QED
    BY <2>1, <2>3, <2>4 DEF PurchaseInv
<1> QED
  BY <1>1, <1>2, <1>3, <1>4, <1>5, <1>6, <1>7 DEF PurchaseNext

\* Division, rounded down.
LEMMA DivisionBounds ==
    ASSUME NEW a \in Int, NEW d \in Nat \ {0}
    PROVE  a \div d \in Int /\ d * (a \div d) <= a /\ a < d * (a \div d) + d
OBVIOUS

Wants == [l \in Lines |-> Wanted(l)]
Presents == [l \in Lines |-> Present(l)]
CostOf(l) == Line(l).missing * Line(l).estimate
CostsOf == [l \in Lines |-> CostOf(l)]

\* The sums over the lines.
LEMMA ChecklistSums ==
    /\ MapThenSumSet(Wanted, Lines) = Total(Wants, Lines)
    /\ MapThenSumSet(Present, Lines) = Total(Presents, Lines)
    /\ ReplacementCost = Total(CostsOf, Lines)
<1>0. IsFiniteSet(Lines)
  BY PurchaseConstants
<1>1. MapThenSumSet(Wanted, Lines) = Total(Wants, Lines)
  <2> DEFINE rec(it) == it = [s \in SUBSET Lines |-> IF s = {} THEN 0
                 ELSE Wanted(CHOOSE x \in s : TRUE) + it[s \ {CHOOSE x \in s : TRUE}]]
  <2>1. PICK it : Adds(it, Wants, Lines)
    BY <1>0, SumsExist
  <2>2. rec(it)
    BY <2>1, PickedIsIn DEF Adds, Pick, Wants
  <2>3. rec(CHOOSE i : rec(i))
    BY <2>2
  <2>4. MapThenSumSet(Wanted, Lines) = (CHOOSE i : rec(i))[Lines]
    BY DEF MapThenSumSet, MapThenFoldSet
  <2>5. Adds(CHOOSE i : rec(i), Wants, Lines)
    BY <2>3, PickedIsIn DEF Adds, Pick, Wants
  <2> QED
    BY <1>0, <2>4, <2>5, TotalIs
<1>2. MapThenSumSet(Present, Lines) = Total(Presents, Lines)
  <2> DEFINE rec(it) == it = [s \in SUBSET Lines |-> IF s = {} THEN 0
                 ELSE Present(CHOOSE x \in s : TRUE) + it[s \ {CHOOSE x \in s : TRUE}]]
  <2>1. PICK it : Adds(it, Presents, Lines)
    BY <1>0, SumsExist
  <2>2. rec(it)
    BY <2>1, PickedIsIn DEF Adds, Pick, Presents
  <2>3. rec(CHOOSE i : rec(i))
    BY <2>2
  <2>4. MapThenSumSet(Present, Lines) = (CHOOSE i : rec(i))[Lines]
    BY DEF MapThenSumSet, MapThenFoldSet
  <2>5. Adds(CHOOSE i : rec(i), Presents, Lines)
    BY <2>3, PickedIsIn DEF Adds, Pick, Presents
  <2> QED
    BY <1>0, <2>4, <2>5, TotalIs
<1>3. ReplacementCost = Total(CostsOf, Lines)
  <2> DEFINE rec(it) == it = [s \in SUBSET Lines |-> IF s = {} THEN 0
                 ELSE CostOf(CHOOSE x \in s : TRUE) + it[s \ {CHOOSE x \in s : TRUE}]]
  <2>1. PICK it : Adds(it, CostsOf, Lines)
    BY <1>0, SumsExist
  <2>2. rec(it)
    BY <2>1, PickedIsIn DEF Adds, Pick, CostsOf
  <2>3. rec(CHOOSE i : rec(i))
    BY <2>2
  <2>4. ReplacementCost = (CHOOSE i : rec(i))[Lines]
    BY DEF MapThenSumSet, MapThenFoldSet, ReplacementCost, CostOf
  <2>5. Adds(CHOOSE i : rec(i), CostsOf, Lines)
    BY <2>3, PickedIsIn DEF Adds, Pick, CostsOf
  <2> QED
    BY <1>0, <2>4, <2>5, TotalIs
<1> QED
  BY <1>1, <1>2, <1>3

\* The numbers of the checklist agree in every state.
LEMMA CompleteSets == PurchaseTypeOK => CompleteMeansEnough
<1> SUFFICES ASSUME PurchaseTypeOK PROVE CompleteMeansEnough
  OBVIOUS
<1>0. IsFiniteSet(Lines)
  BY PurchaseConstants
<1>1. ASSUME NEW l \in Lines
      PROVE  /\ Wants[l] \in Nat /\ Presents[l] \in Nat /\ Presents[l] <= Wants[l]
             /\ Presents[l] = Wants[l] <=> OwnedOf(l) >= Wanted(l)
             /\ CostsOf[l] \in Nat
  <2>1. PICK w \in Nat : w = Wanted(l)
    BY LinesAreNatural
  <2>2. PICK n \in Nat : n = OwnedOf(l)
    BY LinesAreNatural
  <2>3. Line(l).missing = Positive(w - n) /\ Line(l).estimate \in Nat
    BY <2>1, <2>2, LinesAreNatural
  <2>4. Wants[l] = w /\ Presents[l] = w - Positive(w - n)
    BY <2>1, <2>3 DEF Wants, Presents, Present
  <2>5. PICK m \in Nat : m = Positive(w - n)
    BY DEF Positive
  <2>6. PICK e \in Nat : e = Line(l).estimate
    BY <2>3
  <2>7. CostsOf[l] = m * e /\ m * e \in Nat
    BY <2>3, <2>5, <2>6 DEF CostsOf, CostOf
  <2> QED
    BY <2>1, <2>2, <2>4, <2>7 DEF Positive
<1>2. PICK R \in Nat : R = Total(Wants, Lines)
  BY <1>0, <1>1, TotalOfNaturals
<1>3. PICK P \in Nat : P = Total(Presents, Lines)
  BY <1>0, <1>1, TotalOfNaturals
<1>4. ReplacementCost \in Nat
  BY <1>0, <1>1, TotalOfNaturals, ChecklistSums
<1>5. P <= R /\ (P = R <=> \A l \in Lines : OwnedOf(l) >= Wanted(l))
  <2>1. Terms(Presents, Lines) /\ Terms(Wants, Lines)
    BY <1>1 DEF Terms
  <2>2. Compares(Presents, Wants, Lines)
    BY <1>0, <1>1, <2>1, TotalCompare
  <2>3. ASSUME \A l \in Lines : OwnedOf(l) >= Wanted(l) PROVE P = R
    <3>1. \A l \in Lines : Presents[l] = Wants[l]
      BY <1>1, <2>3
    <3> QED
      BY <1>0, <1>2, <1>3, <3>1, TotalEqual
  <2> QED
    BY <1>1, <1>2, <1>3, <2>2, <2>3 DEF Compares
<1>6. R = 0 <=> ~\E l \in Lines : Wanted(l) > 0
  <2>1. ASSUME R = 0, NEW l \in Lines PROVE ~(Wanted(l) > 0)
    <3>1. Wants[l] = 0
      BY <1>0, <1>1, <1>2, <2>1, TotalOfNaturals
    <3> QED
      BY <3>1 DEF Wants
  <2>2. ASSUME \A l \in Lines : ~(Wanted(l) > 0) PROVE R = 0
    <3>1. \A l \in Lines : Wants[l] = 0 /\ Wants[l] = 0 * Wants[l]
      BY <1>1, <2>2 DEF Wants
    <3>2. Terms(Wants, Lines) /\ 0 \in Int
      BY <1>1 DEF Terms
    <3>3. Total(Wants, Lines) = 0 * Total(Wants, Lines)
      BY <1>0, <3>1, <3>2, TotalTimes
    <3> QED
      BY <1>2, <3>3
  <2> QED
    BY <2>1, <2>2
<1>7. PICK C : C = Completeness
  OBVIOUS
<1>8. C = IF R = 0 THEN 0 ELSE (2 * (1000 * P) + R) \div (2 * R)
  BY <1>2, <1>3, <1>7, ChecklistSums DEF Completeness, HalfUp
<1>9. R # 0 => /\ C \in Int /\ (2 * R) * C <= 2 * (1000 * P) + R
               /\ 2 * (1000 * P) + R < (2 * R) * C + 2 * R
  <2> SUFFICES ASSUME R # 0 PROVE /\ C \in Int /\ (2 * R) * C <= 2 * (1000 * P) + R
                                  /\ 2 * (1000 * P) + R < (2 * R) * C + 2 * R
    OBVIOUS
  <2>1. PICK a \in Int : a = 2 * (1000 * P) + R
    OBVIOUS
  <2>2. PICK d \in Nat \ {0} : d = 2 * R
    OBVIOUS
  <2>3. C = a \div d
    BY <1>8, <2>1, <2>2
  <2>4. C \in Int /\ d * C <= a /\ a < d * C + d
    BY <2>3, DivisionBounds
  <2> QED
    BY <2>1, <2>2, <2>4
<1>10. C \in Nat /\ C <= 1000
  <2>1. CASE R = 0
    BY <1>8, <2>1
  <2>2. CASE R # 0
    <3>1. C \in Int
      BY <1>9, <2>2
    <3>2. ~(C >= 1001)
      <4> SUFFICES ASSUME C >= 1001 PROVE FALSE
        OBVIOUS
      <4>1. PICK x \in Nat : C = 1001 + x
        BY <3>1
      <4>2. (2 * R) * C = 2002 * R + 2 * (R * x) /\ R * x \in Nat
        BY <4>1
      <4> QED
        BY <1>5, <1>9, <2>2, <4>2
    <3>3. ~(C <= -1)
      <4> SUFFICES ASSUME C <= -1 PROVE FALSE
        OBVIOUS
      <4>1. PICK x \in Nat : C = -1 - x
        BY <3>1
      <4>2. (2 * R) * C + 2 * R = -(2 * (R * x)) /\ R * x \in Nat
        BY <4>1
      <4> QED
        BY <1>9, <2>2, <4>2
    <3> QED
      BY <3>1, <3>2, <3>3
  <2> QED
    BY <2>1, <2>2
<1>11. R < 2000 => (C >= 1000 <=> R # 0 /\ P = R)
  <2> SUFFICES ASSUME R < 2000 PROVE C >= 1000 <=> R # 0 /\ P = R
    OBVIOUS
  <2>1. ASSUME C >= 1000 PROVE R # 0 /\ P = R
    <3>1. R # 0 /\ C = 1000
      BY <1>8, <1>10, <2>1
    <3>2. (2 * R) * C = 2000 * R
      BY <3>1
    <3> QED
      BY <1>5, <1>9, <3>1, <3>2
  <2>2. ASSUME R # 0, P = R PROVE C >= 1000
    <3>1. ~(C <= 999)
      <4> SUFFICES ASSUME C <= 999 PROVE FALSE
        OBVIOUS
      <4>1. PICK x \in Nat : C = 999 - x
        BY <1>10
      <4>2. (2 * R) * C + 2 * R = 2000 * R - 2 * (R * x) /\ R * x \in Nat
        BY <4>1
      <4> QED
        BY <1>9, <2>2, <4>2
    <3> QED
      BY <1>10, <3>1
  <2> QED
    BY <2>1, <2>2
<1>12. ASSUME Absent \notin {SetValue, Paid}
       PROVE  AdjustedValue <= SetValue /\ NetValue <= SetValue - Paid
  <2>1. PICK V \in Nat : V = SetValue
    BY <1>12, PurchaseConstants
  <2>2. PICK a \in Int : a = 2 * (V * C) + 1000
    BY <1>10
  <2>3. AdjustedValue = a \div 2000
    <3>1. AdjustedValue = HalfUp(V * C, 1000)
      BY <1>7, <1>12, <2>1 DEF AdjustedValue
    <3>2. V * C >= 0
      BY <1>10
    <3> QED
      BY <2>2, <3>1, <3>2 DEF HalfUp
  <2>4. a \div 2000 \in Int /\ 2000 * (a \div 2000) <= a
    BY DivisionBounds
  <2>5. a < 2000 * (V + 1)
    <3>1. PICK x \in Nat : C = 1000 - x
      BY <1>10
    <3>2. V * C = 1000 * V - V * x /\ V * x \in Nat
      BY <3>1
    <3> QED
      BY <2>2, <3>2
  <2>6. NetValue = SetValue - ReplacementCost - Paid /\ Paid \in Nat
    BY <1>12, PurchaseConstants DEF NetValue
  <2> QED
    BY <1>4, <2>1, <2>3, <2>4, <2>5, <2>6
<1> QED
  BY <1>2, <1>5, <1>6, <1>7, <1>11, <1>12, ChecklistSums DEF CompleteMeansEnough

\* Every table holds rows, and every request is of a known kind.
THEOREM PurchaseTypeCorrect == PurchaseSpec => []PurchaseTypeOK
<1>1. PurchaseInv => PurchaseTypeOK
  BY DEF PurchaseInv
<1> QED
  BY <1>1, PurchaseStart, PurchaseStep, PTL DEF PurchaseSpec

\* The purchase list holds whatever is missing and keeps what was bought,
\* however many requests on however many parts overlap, and what counts as
\* complete lacks nothing.
THEOREM PurchasesAlwaysAddUp == PurchaseSpec => []PurchasesAddUp
<1>1. PurchaseInv => PurchasesAddUp
  BY CompleteSets DEF PurchaseInv, PurchasesAddUp
<1> QED
  BY <1>1, PurchaseStart, PurchaseStep, PTL DEF PurchaseSpec
=============================================================================

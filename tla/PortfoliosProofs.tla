-------------------------- MODULE PortfoliosProofs --------------------------
(***************************************************************************)
(* What is proved about portfolios, about the sets that listings price and *)
(* about the analyses of portfolios, for any value of the constants:       *)
(* HoldingsAreKept and AloneAllHolds of Portfolios, OneSetIsPriced of      *)
(* ListingMatching, OlderNeverTakesOver and QuotasAreExact of              *)
(* Explanations, NothingIsCountedTwice of PortfolioAnalytics,              *)
(* CompactionAddsNothing of PriceAnalytics, BetterTermsNeverHurt of        *)
(* Verdicts.                                                               *)
(*                                                                         *)
(* Row locks carry the first.  A transaction that has deleted a portfolio  *)
(* and one that has put a holding into it are never both open, whichever   *)
(* came first, so no holding is left in a portfolio that is gone.  And no  *)
(* one takes a holding that a valuation still to be committed cites.  The  *)
(* second rests on what a request that shares its check with nobody may    *)
(* still rely on when it commits.  A verdict rises with its terms because  *)
(* every one of its bands does, and rounding keeps the order.              *)
(***************************************************************************)
EXTENDS Portfolios, ListingMatching, Explanations, PortfolioAnalytics, Sums,
        PriceAnalytics, Verdicts, FiniteSetTheorems, NaturalsInduction,
        SequenceTheorems, TLAPS, WellFoundedInduction

Kinds == {"none", "list", "create", "import", "archive", "unarchive", "delete",
          "add", "update", "remove", "move"}
Operations ==
    [kind : Kinds, at : Folios \cup {NoFolio}, to : Folios \cup {NoFolio},
     what : SUBSET (Items \cup Entries)]
Writes ==
    [folio : [Folios -> {"same", "active", "archived", "deleted"}],
     default : SUBSET Folios, item : [Items -> Folios \cup {NoFolio, Same}],
     unwatched : SUBSET Entries, valued : SUBSET SUBSET Items]
Steps == Ended \cup {"write", "drop", "value", "record", "evidence", "unwatch", "commit"}

TypeInv ==
    /\ folio \in [Folios -> {"absent", "active", "archived", "deleted"}]
    /\ default \subseteq Folios
    /\ item \in [Items -> Folios \cup {NoFolio}]
    /\ watch \subseteq Entries
    /\ valued \subseteq SUBSET Items
    /\ pc \in [Requests -> Steps]
    /\ op \in [Requests -> Operations]
    /\ target \in [Requests -> Folios \cup {NoFolio}]
    /\ counted \in [Requests -> SUBSET Items]
    /\ w \in [Requests -> Writes]
    /\ was \subseteq Items

\* What an operation of each kind is about.
Sensible(o) ==
    /\ o.kind \in {"update", "remove"} => o.what \subseteq Items
    /\ o.kind = "move" => o.what \subseteq Entries
    /\ o.kind = "delete" => o.at \in Folios /\ o.to \in Folios /\ o.at # o.to
    /\ o.kind \in {"archive", "unarchive"} => o.at \in Folios

\* A portfolio a request goes by exists, or did.
KnownTo(o, t, fs) ==
    \A f \in Folios : f = o.at \/ f = o.to \/ f = t => fs[f] # "absent"

\* What a request has written at each step, by its operation.
Progress(step, o, x, c) ==
    /\ step \in Ended \cup {"write"} => x = NoWrites
    /\ step = "drop" => o.kind = "delete" /\ \A f \in Folios : x.folio[f] = "same"
    /\ step \in {"drop", "value", "record"} => x.valued = {}
    /\ step = "evidence" => x.valued = {c}
    /\ step = "unwatch" => o.kind = "move"

\* Portfolios are put away, and holdings taken, by the operations for it only.
Reasons(o, x) ==
    /\ \A f \in Folios : x.folio[f] \in {"archived", "deleted"} =>
           o.kind \in {"archive", "delete"} /\ f = o.at
    /\ \A i \in Items : x.item[i] = NoFolio => o.kind = "remove" /\ i \in o.what

\* A holding is put where there is a portfolio, or will be with the same commit,
\* and a deleted portfolio is empty.
Placed(x, fs, its) ==
    /\ \A f \in Folios, i \in Items :
           x.item[i] = f => fs[f] \in {"active", "archived"} \/ x.folio[f] = "active"
    /\ \A f \in Folios, i \in Items :
           x.folio[f] = "deleted" /\ x.item[i] = Same => its[i] # f

\* Nobody puts a holding into a portfolio that is being deleted.
Apart(x, y) ==
    \A f \in Folios, i \in Items : x.folio[f] = "deleted" => y.item[i] # f

RequestsKeep ==
    \A r \in Requests :
        /\ Sensible(op[r]) /\ KnownTo(op[r], target[r], folio)
        /\ Progress(pc[r], op[r], w[r], counted[r])
        /\ Reasons(op[r], w[r]) /\ Placed(w[r], folio, item)

RequestsAgree == \A q, r \in Requests : Apart(w[q], w[r])

\* Every holding there is is in a portfolio there is, default portfolios exist.
Housed ==
    /\ \A i \in Items : item[i] # NoFolio => folio[item[i]] \in {"active", "archived"}
    /\ \A f \in default : folio[f] # "absent"

KeptInv == TypeInv /\ RequestsKeep /\ RequestsAgree /\ Housed /\ HoldingsSurvive
-----------------------------------------------------------------------------
\* Nobody else writes a portfolio that is made, put away or brought back; one
\* that is gone is not brought back, and one a request makes is new, the default
\* one as well.
Single == \A q, r \in Requests, f \in Folios : Touching(q, f) /\ Touching(r, f) => q = r

Making(o, x, fs) ==
    /\ \A f \in Folios : x.folio[f] \in {"active", "archived"} => fs[f] # "deleted"
    /\ \A f \in x.default : fs[f] = "absent" /\ x.folio[f] = "active"
    /\ \A f, g \in Folios : x.folio[f] # "same" /\ x.folio[g] # "same" => f = g
    /\ \A f \in Folios : x.folio[f] = "active" /\ fs[f] = "absent" /\ f \notin x.default =>
           o.kind \in {"create", "import"}

\* A default portfolio is active, and stays so.
DefaultsStay ==
    /\ \A f \in default : folio[f] = "active"
    /\ \A r \in Requests : op[r].kind \in {"archive", "delete"} => op[r].at \notin default

MadeInv ==
    /\ Single /\ DefaultsStay
    /\ \A r \in Requests : Making(op[r], w[r], folio)

\* An imported holding is in a portfolio of its own, a moved one in a default one.
Destined(o, t, x, d) ==
    /\ o.kind = "import" => t = NoFolio
    /\ o.kind = "move" => t \in d \cup {NoFolio}
    /\ o.kind \in {"import", "move"} => \A i \in Items : x.item[i] # Same =>
           \E f \in Folios : /\ x.item[i] = f
                             /\ x.folio[f] = "active" \/ (x.folio[f] = "same" /\ f \in d)

\* What was counted, and is or will be cited, has the holding that is written.
Counts(step, o, x, c) ==
    /\ step \in {"record", "evidence"} /\ o.kind \in {"import", "move"} =>
           \A i \in Items : x.item[i] # Same => i \in c
    /\ step \in {"unwatch", "commit"} /\ o.kind \in {"import", "move"} =>
           \A S \in x.valued : \A i \in Items : x.item[i] # Same => i \in S

\* Nobody takes a holding that a valuation cites.
Cites(step, x, its) ==
    step \in {"unwatch", "commit"} => \A S \in x.valued : \A i \in S :
        IF x.item[i] = Same THEN its[i] # NoFolio ELSE x.item[i] # NoFolio
Spares(step, x, y) ==
    step \in {"unwatch", "commit"} => \A S \in x.valued : \A i \in S : y.item[i] # NoFolio

ValuedInv ==
    /\ \A r \in Requests : /\ Destined(op[r], target[r], w[r], default)
                           /\ Counts(pc[r], op[r], w[r], counted[r])
                           /\ Cites(pc[r], w[r], item)
    /\ \A q, r \in Requests : Spares(pc[r], w[r], w[q])

-----------------------------------------------------------------------------
\* The only request under way that makes check c.
Lone(c) == c \notin raced =>
    \A q, r \in Busy : c \in Checks(op[q]) /\ c \in Checks(op[r]) => q = r

ListedFolios == Live \ default

LimitInv ==
    /\ Lone("limit")
    /\ "limit" \notin raced =>
           /\ Cardinality(ListedFolios) <= Limit
           /\ \A r \in Busy : "limit" \in Checks(op[r]) => Cardinality(ListedFolios) < Limit

\* A request makes a default portfolio only when it has found none.
MakesDefault(o, t, x) ==
    /\ o.kind = "list" => t = NoFolio
    /\ o.kind = "add" /\ t = NoFolio => o.to = NoFolio
    /\ x.default # {} => o.kind \in {"list", "add", "move"} /\ t = NoFolio
    /\ \A f, g \in x.default : f = g

DefaultInv ==
    /\ \A r \in Busy : MakesDefault(op[r], target[r], w[r])
    /\ Lone("default")
    /\ "default" \notin raced =>
           /\ \A f, g \in default : f = g
           /\ \A r \in Busy : "default" \in Checks(op[r]) /\ target[r] = NoFolio => default = {}

\* What a request takes off the watchlist, and what one has taken off.
Unwatches(step, o, x) ==
    /\ step = "commit" /\ o.kind = "move" => x.unwatched = o.what
    /\ o.kind # "move" => x.unwatched = {}

Moved(r) == IF pc[r] = "done" /\ op[r].kind = "move" THEN op[r].what ELSE {}

MoveInv ==
    /\ \A r \in Busy : Unwatches(pc[r], op[r], w[r])
    /\ Lone("move")
    /\ "move" \notin raced =>
           /\ \A r \in Busy : op[r].kind = "move" => op[r].what \subseteq watch
           /\ \A r \in Requests : Moved(r) \cap watch = {}
           /\ \A q, r \in Requests : Moved(q) \cap Moved(r) # {} => q = r

\* A request nobody has run beside finds what it found at the start.
Undisturbed(step, o, t, x, fs, its) ==
    /\ t \in Folios => fs[t] # "deleted"
    /\ o.kind \in {"archive", "unarchive"} => fs[o.at] # "deleted"
    /\ o.kind \in {"update", "delete"} /\ o.to \in Folios => fs[o.to] # "deleted"
    /\ o.kind \in {"update", "remove"} => \A i \in o.what : its[i] # NoFolio
    /\ step = "drop" => \A i \in Items :
           IF x.item[i] = Same THEN its[i] # o.at ELSE x.item[i] # o.at

CompanyInv ==
    /\ FailuresNeedCompany
    /\ \A r \in Busy \ crowded :
           /\ Busy = {r}
           /\ Undisturbed(pc[r], op[r], target[r], w[r], folio, item)
IInv ==
    KeptInv /\ MadeInv /\ ValuedInv /\ LimitInv /\ DefaultInv /\ MoveInv /\ CompanyInv

-----------------------------------------------------------------------------
(* Numbers and views. *)

\* No number of a portfolio stands for none or for no change.
LEMMA Marks ==
    /\ NoFolio \notin Folios /\ Same \notin Folios /\ NoFolio # Same
    /\ Folios \subseteq Nat /\ Items \subseteq Nat
BY LimitIsNatural DEF NoFolio, Same, Folios, Items

\* The least of some numbers is one of them.
LEMMA LeastIsOne ==
    ASSUME NEW numbers \in SUBSET Nat, numbers # {}
    PROVE  Least(numbers) \in numbers
<1>1. PICK n \in numbers : \A m \in numbers : <<m, n>> \notin OpToRel(<, Nat)
  BY NatLessThanWellFounded, WFMin
<1>2. \A m \in numbers : ~(m < n)
  BY <1>1 DEF OpToRel
<1>3. \A m \in numbers : n <= m
  BY <1>2
<1> QED
  BY <1>3 DEF Least

\* A new portfolio or holding has a number that nobody uses.
LEMMA NewRows ==
    ASSUME TypeInv, RoomLeft
    PROVE  /\ NewFolio \in Folios /\ folio[NewFolio] = "absent"
           /\ \A q \in Requests : w[q].folio[NewFolio] = "same"
           /\ NewItem \in Items /\ NewItem \notin was
           /\ \A q \in Requests : w[q].item[NewItem] = Same
<1>1. FreeFolios \in SUBSET Nat /\ FreeItems \in SUBSET Nat
  BY Marks DEF FreeFolios, FreeItems
<1>2. NewFolio \in FreeFolios /\ NewItem \in FreeItems
  BY <1>1, LeastIsOne DEF RoomLeft, NewFolio, NewItem
<1> QED
  BY <1>2 DEF FreeFolios, FreeItems, Touching, Writing

\* Nothing written leaves everything as it is.
LEMMA NoWritesAreWrites ==
    /\ NoWrites \in Writes
    /\ \A f \in Folios : NoWrites.folio[f] = "same"
    /\ \A i \in Items : NoWrites.item[i] = Same
    /\ NoWrites.default = {} /\ NoWrites.unwatched = {} /\ NoWrites.valued = {}
BY DEF NoWrites, Writes

\* What a request that has nothing to write keeps.
LEMMA NothingWritten ==
    ASSUME NEW o, NEW fs, NEW its, NEW y
    PROVE  /\ Reasons(o, NoWrites) /\ Placed(NoWrites, fs, its) /\ Apart(NoWrites, y)
           /\ y \in Writes => Apart(y, NoWrites)
BY NoWritesAreWrites, Marks DEF Reasons, Placed, Apart

-----------------------------------------------------------------------------
(* Arrivals. *)

\* Request r arrives with operation o, for portfolio t, and its checks have led
\* to step.
Arrives(r, o, t, step) ==
    /\ pc[r] = "new"
    /\ op' = [op EXCEPT ![r] = o]
    /\ pc' = [pc EXCEPT ![r] = step]
    /\ target' = [target EXCEPT ![r] = t]
    /\ crowded' = IF Busy = {} THEN crowded ELSE crowded \cup Busy \cup {r}
    /\ raced \subseteq raced'
    /\ \A c \in Checks(o) : (\E q \in Busy : c \in Checks(op[q])) => c \in raced'
    /\ UNCHANGED <<counted, w, was>>
    /\ UNCHANGED db
    /\ o \in Operations /\ t \in Folios \cup {NoFolio}
    /\ step \in {"write", "done", "refused", "failed"}
    /\ Sensible(o) /\ KnownTo(o, t, folio)
    /\ o.kind \in {"archive", "delete"} => o.at \notin default
    /\ o.kind = "import" => t = NoFolio
    /\ o.kind = "move" => t \in default \cup {NoFolio} /\ step # "done" /\ o.what \subseteq watch
    /\ step = "failed" => Cardinality(default) > 1
    /\ step = "write" =>
           /\ "limit" \in Checks(o) => Cardinality(Live) < Limit
           /\ "default" \in Checks(o) /\ t = NoFolio => default = {}
           /\ MakesDefault(o, t, NoWrites)
           /\ Undisturbed(step, o, t, NoWrites, folio, item)

\* Counting the portfolios: none, one or more.
LEMMA DefaultCounts ==
    ASSUME TypeInv
    PROVE  /\ IsFiniteSet(Folios) /\ IsFiniteSet(default) /\ Cardinality(default) \in Nat
           /\ default # {} => Cardinality(default) >= 1
           /\ Cardinality(default) = 1 => \E f : default = {f}
<1>1. IsFiniteSet(Folios)
  BY FS_Interval, LimitIsNatural DEF Folios
<1>2. IsFiniteSet(default)
  BY <1>1, FS_Subset DEF TypeInv
<1>3. Cardinality(default) \in Nat /\ (Cardinality(default) = 0 <=> default = {})
  BY <1>2, FS_CardinalityType, FS_EmptySet
<1>4. Cardinality(default) = 1 => \E f : default = {f}
  BY <1>2, FS_Singleton
<1>5. default # {} => Cardinality(default) >= 1
  BY <1>3
<1> QED
  BY <1>1, <1>2, <1>3, <1>4, <1>5

\* Nothing is checked for a request that was refused.
LEMMA NoOpIsSensible ==
    /\ NoOp \in Operations /\ Sensible(NoOp) /\ Checks(NoOp) = {} /\ NoOp.kind = "none"
    /\ NoOp.at = NoFolio /\ NoOp.to = NoFolio /\ NoOp.what = {}
BY DEF NoOp, Operations, Kinds, Sensible, Checks

\* A request for a portfolio that is chosen, or for none, arrives.
LEMMA StartAtArrives ==
    ASSUME TypeInv, NEW r \in Requests, NEW o \in Operations, NEW passes \in BOOLEAN,
           NEW f \in Folios \cup {NoFolio}, StartAt(r, o, passes, f),
           o.kind # "move", "default" \notin Checks(o) \/ f # NoFolio,
           o.kind = "import" => f = NoFolio,
           passes => /\ Sensible(o) /\ KnownTo(o, f, folio)
                     /\ o.kind \in {"archive", "delete"} => o.at \notin default
                     /\ "limit" \in Checks(o) => Cardinality(Live) < Limit
                     /\ MakesDefault(o, f, NoWrites)
                     /\ Undisturbed("write", o, f, NoWrites, folio, item)
    PROVE  \E p, t, step : Arrives(r, p, t, step)
<1>1. CASE passes
  <2>1. Arrives(r, o, f, "write")
    BY <1>1 DEF StartAt, Start, Arrives
  <2> QED
    BY <2>1
<1>2. CASE ~passes
  <2>1. KnownTo(NoOp, NoFolio, folio)
    BY NoOpIsSensible, Marks DEF KnownTo
  <2>2. Arrives(r, NoOp, NoFolio, "refused")
    BY <1>2, <2>1, NoOpIsSensible DEF StartAt, Start, Arrives
  <2> QED
    BY <2>2
<1> QED
  BY <1>1, <1>2

\* A request for the default portfolio arrives, which may be there or not.
LEMMA StartDefaultArrives ==
    ASSUME KeptInv, MadeInv, NEW r \in Requests, NEW o \in Operations, NEW passes \in BOOLEAN,
           NEW found \in {"done", "write"}, StartDefault(r, o, passes, found),
           o.kind \in {"list", "add", "move"}, o.at = NoFolio, o.to = NoFolio, Sensible(o),
           o.kind = "move" => found = "write" /\ (passes => o.what \subseteq watch),
           o.kind = "list" => found = "done"
    PROVE  \E p, t, step : Arrives(r, p, t, step)
<1> DEFINE t == IF Cardinality(default) = 1 THEN CHOOSE f \in default : TRUE ELSE NoFolio
           next == IF Cardinality(default) > 1 THEN "failed"
                   ELSE IF default = {} THEN "write" ELSE found
<1>1. /\ t \in default \cup {NoFolio} /\ t \in Folios \cup {NoFolio}
      /\ next = "failed" => Cardinality(default) > 1
      /\ next = "write" /\ t = NoFolio => default = {}
      /\ next \in {"write", "done", "failed"} /\ (o.kind = "move" => next # "done")
  <2>1. TypeInv /\ default \subseteq Folios
    BY DEF KeptInv, TypeInv
  <2>2. /\ Cardinality(default) = 1 => \E f : default = {f}
        /\ default # {} => Cardinality(default) >= 1
        /\ Cardinality(default) \in Nat
    BY <2>1, DefaultCounts
  <2>3. t \in default \cup {NoFolio} /\ t \in Folios \cup {NoFolio}
    BY <2>1, <2>2
  <2>4. next = "failed" => Cardinality(default) > 1
    OBVIOUS
  <2>5. next = "write" /\ t = NoFolio => default = {}
    <3>1. NoFolio \notin default
      BY <2>1, Marks
    <3>2. Cardinality(default) = 1 => t # NoFolio
      BY <2>2, <3>1
    <3>3. default # {} /\ ~(Cardinality(default) > 1) => Cardinality(default) = 1
      BY <2>2
    <3> QED
      BY <3>2, <3>3
  <2>6. next \in {"write", "done", "failed"} /\ (o.kind = "move" => next # "done")
    OBVIOUS
  <2> QED
    BY <2>3, <2>4, <2>5, <2>6
<1>6. next = "write" /\ found = "done" => t = NoFolio
  <2>1. Cardinality(default) = 1 => default # {}
    BY DefaultCounts DEF KeptInv
  <2> QED
    BY <2>1
<1>2. Start(r, o, passes, next) /\ target' = [target EXCEPT ![r] = t]
  BY DEF StartDefault
<1> HIDE DEF t, next
<1>3. /\ KnownTo(o, t, folio) /\ KnownTo(NoOp, t, folio)
      /\ t \in Folios => folio[t] # "deleted"
  BY <1>1, NoOpIsSensible, Marks DEF KeptInv, Housed, KnownTo, MadeInv, DefaultsStay
<1>4. CASE passes
  <2>1. Undisturbed(next, o, t, NoWrites, folio, item)
    BY <1>1, <1>3 DEF Undisturbed
  <2>4. next = "write" => MakesDefault(o, t, NoWrites)
    BY <1>1, <1>6, NoWritesAreWrites DEF MakesDefault
  <2>2. "limit" \notin Checks(o)
    BY DEF Checks
  <2>3. Arrives(r, o, t, next)
    BY <1>1, <1>2, <1>3, <1>4, <2>1, <2>2, <2>4 DEF Start, Arrives
  <2> QED
    BY <2>3
<1>5. CASE ~passes
  <2>1. Arrives(r, NoOp, t, "refused")
    BY <1>1, <1>2, <1>3, <1>5, NoOpIsSensible DEF Start, Arrives
  <2> QED
    BY <2>1
<1> QED
  BY <1>4, <1>5

\* Every request arrives in one of the two ways.
LEMMA Arrival ==
    ASSUME KeptInv, MadeInv, NEW r \in Requests, Arrive(r)
    PROVE  \E o, t, step : Arrives(r, o, t, step)
<1> DEFINE Some == \E o, t, step : Arrives(r, o, t, step)
<1> USE NoWritesAreWrites
<1> USE DEF Operations, Kinds, NoOp, Sensible, Checks, KnownTo, Undisturbed, Live,
              MakesDefault
<1>0. OldFolios \subseteq Folios /\ DOMAIN First \subseteq Items /\ TypeInv
  BY FirstIsPlacement DEF OldFolios, KeptInv
<1>1. ASSUME List(r) PROVE Some
  <2> DEFINE o == [NoOp EXCEPT !.kind = "list"]
  <2>1. o \in Operations /\ o.kind = "list" /\ o.at = NoFolio /\ o.to = NoFolio /\ Sensible(o)
    OBVIOUS
  <2>2. StartDefault(r, o, TRUE, "done")
    BY <1>1 DEF List
  <2> HIDE DEF o
  <2> QED
    BY <2>1, <2>2, StartDefaultArrives
<1>2. ASSUME NEW kind \in {"create", "import"},
             StartAt(r, [NoOp EXCEPT !.kind = kind], UnderLimit, NoFolio)
      PROVE  Some
  <2> DEFINE o == [NoOp EXCEPT !.kind = kind]
  <2>1. /\ o \in Operations /\ o.kind = kind /\ Sensible(o) /\ "default" \notin Checks(o)
        /\ KnownTo(o, NoFolio, folio) /\ Undisturbed("write", o, NoFolio, NoWrites, folio, item)
        /\ MakesDefault(o, NoFolio, NoWrites)
    BY Marks
  <2>2. UnderLimit \in BOOLEAN /\ (UnderLimit <=> Cardinality(Live) < Limit)
    BY DEF UnderLimit
  <2>3. StartAt(r, o, UnderLimit, NoFolio)
    BY <1>2
  <2> HIDE DEF o, Live, UnderLimit
  <2> QED
    BY <1>0, <2>1, <2>2, <2>3, StartAtArrives
<1>3. ASSUME AddToDefault(r) PROVE Some
  <2> DEFINE o == [NoOp EXCEPT !.kind = "add"]
  <2>1. o \in Operations /\ o.kind = "add" /\ o.at = NoFolio /\ o.to = NoFolio /\ Sensible(o)
    OBVIOUS
  <2>2. StartDefault(r, o, TRUE, "write")
    BY <1>3 DEF AddToDefault
  <2> HIDE DEF o
  <2> QED
    BY <2>1, <2>2, StartDefaultArrives
<1>4. ASSUME NEW f \in OldFolios, NEW kind \in {"archive", "unarchive"},
             NEW passes \in BOOLEAN,
             passes => f \in Live /\ (kind = "archive" => f \notin default),
             StartAt(r, [NoOp EXCEPT !.kind = kind, !.at = f], passes, f)
      PROVE  Some
  <2> DEFINE o == [NoOp EXCEPT !.kind = kind, !.at = f]
  <2>1. f \in Folios /\ o \in Operations /\ o.kind = kind /\ o.at = f /\ o.to = NoFolio
    BY <1>0
  <2>2. StartAt(r, o, passes, f)
    BY <1>4
  <2> HIDE DEF o
  <2>3. Sensible(o) /\ Checks(o) = {}
    BY <2>1
  <2>4. passes => /\ KnownTo(o, f, folio) /\ MakesDefault(o, f, NoWrites)
                  /\ Undisturbed("write", o, f, NoWrites, folio, item)
    BY <1>4, <2>1, Marks
  <2> HIDE DEF Operations, Kinds, NoOp, Sensible, Checks, KnownTo, Undisturbed, Live,
              MakesDefault
  <2> QED
    BY <1>0, <1>4, <2>1, <2>2, <2>3, <2>4, StartAtArrives
<1>5. ASSUME NEW f \in OldFolios, Add(r, f) PROVE Some
  <2> DEFINE o == [NoOp EXCEPT !.kind = "add", !.to = f]
             passes == folio[f] = "active"
  <2>1. f \in Folios /\ o \in Operations /\ o.kind = "add" /\ o.at = NoFolio /\ o.to = f
    BY <1>0
  <2>2. StartAt(r, o, passes, f) /\ passes \in BOOLEAN
    BY <1>5 DEF Add
  <2> HIDE DEF o
  <2>3. Sensible(o) /\ Checks(o) = {}
    BY <2>1, Marks
  <2>4. passes => /\ KnownTo(o, f, folio) /\ MakesDefault(o, f, NoWrites)
                  /\ Undisturbed("write", o, f, NoWrites, folio, item)
    BY <2>1, Marks
  <2> HIDE DEF Operations, Kinds, NoOp, Sensible, Checks, KnownTo, Undisturbed, Live,
              MakesDefault
  <2> QED
    BY <1>0, <2>1, <2>2, <2>3, <2>4, StartAtArrives
<1>6. ASSUME NEW f \in OldFolios, NEW g \in OldFolios, Delete(r, f, g) PROVE Some
  <2> DEFINE o == [NoOp EXCEPT !.kind = "delete", !.at = f, !.to = g]
             passes == f \in Live \ default /\ folio[g] = "active" /\ f # g
  <2>1. f \in Folios /\ g \in Folios
    BY <1>0
  <2>2. o \in Operations /\ o.kind = "delete" /\ o.at = f /\ o.to = g
    BY <2>1
  <2>3. StartAt(r, o, passes, g) /\ passes \in BOOLEAN
    BY <1>6 DEF Delete
  <2> HIDE DEF o
  <2>4. Checks(o) = {} /\ (passes => Sensible(o))
    BY <2>1, <2>2
  <2>5. passes => /\ KnownTo(o, g, folio) /\ MakesDefault(o, g, NoWrites)
                  /\ Undisturbed("write", o, g, NoWrites, folio, item)
    BY <2>1, <2>2, Marks
  <2>6. passes => o.at \notin default
    BY <2>2
  <2> HIDE DEF passes
  <2> HIDE DEF Operations, Kinds, NoOp, Sensible, Checks, KnownTo, Undisturbed, Live,
              MakesDefault
  <2> QED
    BY <1>0, <2>1, <2>2, <2>3, <2>4, <2>5, <2>6, StartAtArrives
<1>7. ASSUME NEW i \in DOMAIN First, RemoveHolding(r, i) PROVE Some
  <2> DEFINE o == [NoOp EXCEPT !.kind = "remove", !.what = {i}]
             passes == item[i] # NoFolio /\ folio[item[i]] # "archived"
  <2>1. /\ o \in Operations /\ o.kind = "remove" /\ o.at = NoFolio /\ o.to = NoFolio
        /\ o.what = {i} /\ i \in Items
    BY <1>0
  <2>2. StartAt(r, o, passes, NoFolio) /\ passes \in BOOLEAN
    BY <1>7 DEF RemoveHolding
  <2> HIDE DEF o
  <2>3. Sensible(o) /\ Checks(o) = {}
    BY <2>1, Marks
  <2>4. passes => /\ KnownTo(o, NoFolio, folio) /\ MakesDefault(o, NoFolio, NoWrites)
                  /\ Undisturbed("write", o, NoFolio, NoWrites, folio, item)
    BY <2>1, Marks
  <2> HIDE DEF passes
  <2> HIDE DEF Operations, Kinds, NoOp, Sensible, Checks, KnownTo, Undisturbed, Live,
              MakesDefault
  <2> QED
    BY <1>0, <2>1, <2>2, <2>3, <2>4, StartAtArrives
<1>8. ASSUME NEW i \in DOMAIN First, NEW f \in OldFolios \cup {NoFolio}, Update(r, i, f)
      PROVE  Some
  <2> DEFINE o == [NoOp EXCEPT !.kind = "update", !.to = f, !.what = {i}]
             passes == /\ item[i] # NoFolio /\ folio[item[i]] # "archived"
                       /\ f = NoFolio \/ folio[f] = "active"
  <2>1. /\ f \in Folios \cup {NoFolio} /\ o \in Operations /\ o.kind = "update"
        /\ o.at = NoFolio /\ o.to = f /\ o.what = {i} /\ i \in Items
    BY <1>0
  <2>2. StartAt(r, o, passes, f) /\ passes \in BOOLEAN
    BY <1>8 DEF Update
  <2> HIDE DEF o
  <2>3. Sensible(o) /\ Checks(o) = {}
    BY <2>1, Marks
  <2>4. passes => /\ KnownTo(o, f, folio) /\ MakesDefault(o, f, NoWrites)
                  /\ Undisturbed("write", o, f, NoWrites, folio, item)
    BY <2>1, Marks
  <2> HIDE DEF passes
  <2> HIDE DEF Operations, Kinds, NoOp, Sensible, Checks, KnownTo, Undisturbed, Live,
              MakesDefault
  <2> QED
    BY <1>0, <2>1, <2>2, <2>3, <2>4, StartAtArrives
<1>9. ASSUME NEW e \in Entries, Move(r, e) PROVE Some
  <2> DEFINE o == [NoOp EXCEPT !.kind = "move", !.what = {e}]
             passes == e \in watch
  <2>1. /\ o \in Operations /\ o.kind = "move" /\ o.at = NoFolio /\ o.to = NoFolio
        /\ o.what = {e} /\ Sensible(o)
    OBVIOUS
  <2>2. StartDefault(r, o, passes, "write") /\ passes \in BOOLEAN
    BY <1>9 DEF Move
  <2> HIDE DEF o
  <2> QED
    BY <2>1, <2>2, StartDefaultArrives
<1>10. ASSUME Create(r) \/ Import(r) PROVE Some
  BY <1>2, <1>10 DEF Create, Import
<1>11. ASSUME NEW f \in OldFolios, Archive(r, f) \/ Unarchive(r, f) PROVE Some
  <2>1. CASE Archive(r, f)
    <3> DEFINE passes == f \in Live \ default
    <3>1. passes \in BOOLEAN /\ (passes => f \in Live /\ f \notin default)
      OBVIOUS
    <3>2. StartAt(r, [NoOp EXCEPT !.kind = "archive", !.at = f], passes, f)
      BY <2>1 DEF Archive
    <3> HIDE DEF passes, NoOp, Live
    <3> QED
      BY <1>4, <3>1, <3>2
  <2>2. CASE Unarchive(r, f)
    <3> DEFINE passes == f \in Live
    <3>1. StartAt(r, [NoOp EXCEPT !.kind = "unarchive", !.at = f], passes, f)
      BY <2>2 DEF Unarchive
    <3>2. passes \in BOOLEAN /\ (passes => f \in Live)
      OBVIOUS
    <3> HIDE DEF passes, NoOp, Live
    <3> QED
      BY <1>4, <3>1, <3>2
  <2> QED
    BY <1>11, <2>1, <2>2
<1> HIDE DEF Some
<1> QED
  BY <1>1, <1>3, <1>5, <1>6, <1>7, <1>8, <1>9, <1>10, <1>11 DEF Arrive, Some

-----------------------------------------------------------------------------
(* Holdings survive. *)

\* The first states have nothing under way, and holdings in active portfolios.
LEMMA InitKept == Init => KeptInv
<1> SUFFICES ASSUME Init PROVE KeptInv
  OBVIOUS
<1> USE DEF Init
<1>1. /\ OldFolios \subseteq Folios /\ DOMAIN First \subseteq Items
      /\ \A i \in DOMAIN First : First[i] \in OldFolios
  BY FirstIsPlacement DEF OldFolios
<1>2. TypeInv
  <2>1. NoOp \in Operations
    BY DEF NoOp, Operations, Kinds
  <2>2. default \subseteq Folios /\ valued \subseteq SUBSET Items
    BY <1>1
  <2>3. "new" \in Steps
    BY DEF Steps, Ended
  <2> QED
    BY <1>1, <2>1, <2>2, <2>3, NoWritesAreWrites DEF TypeInv
<1>3. RequestsKeep
  <2> SUFFICES ASSUME NEW r \in Requests
               PROVE  /\ Sensible(NoOp) /\ KnownTo(NoOp, NoFolio, folio)
                      /\ Progress("new", NoOp, NoWrites, {})
                      /\ Reasons(NoOp, NoWrites) /\ Placed(NoWrites, folio, item)
    BY DEF RequestsKeep
  <2> QED
    BY NothingWritten, Marks DEF Sensible, KnownTo, Progress, NoOp, Ended
<1>4. RequestsAgree
  BY NothingWritten DEF RequestsAgree
<1>5. Housed
  BY <1>1, Marks DEF Housed
<1>6. HoldingsSurvive
  BY <1>1 DEF HoldingsSurvive, Live
<1> QED
  BY <1>2, <1>3, <1>4, <1>5, <1>6 DEF KeptInv

\* A request keeps the invariant when it arrives.
LEMMA ArriveKept ==
    ASSUME KeptInv, NEW r \in Requests, NEW o, NEW t, NEW step, Arrives(r, o, t, step)
    PROVE  KeptInv'
<1>1. /\ op' = [op EXCEPT ![r] = o] /\ pc' = [pc EXCEPT ![r] = step]
      /\ target' = [target EXCEPT ![r] = t]
      /\ UNCHANGED <<folio, default, item, watch, valued, counted, w, was>>
      /\ pc[r] = "new"
      /\ o \in Operations /\ t \in Folios \cup {NoFolio} /\ Sensible(o) /\ KnownTo(o, t, folio)
      /\ step \in Ended \cup {"write"} /\ step \in Steps
  BY DEF Arrives, db, Steps, Ended
<1>2. TypeInv'
  BY <1>1 DEF KeptInv, TypeInv
<1>3. \A q \in Requests :
          /\ Sensible(op'[q]) /\ KnownTo(op'[q], target'[q], folio)
          /\ Progress(pc'[q], op'[q], w[q], counted[q])
          /\ Reasons(op'[q], w[q]) /\ Placed(w[q], folio, item)
  <2> SUFFICES ASSUME NEW q \in Requests
               PROVE  /\ Sensible(op'[q]) /\ KnownTo(op'[q], target'[q], folio)
                      /\ Progress(pc'[q], op'[q], w[q], counted[q])
                      /\ Reasons(op'[q], w[q]) /\ Placed(w[q], folio, item)
    OBVIOUS
  <2>1. CASE q # r
    <3>1. op'[q] = op[q] /\ pc'[q] = pc[q] /\ target'[q] = target[q]
      BY <1>1, <2>1 DEF KeptInv, TypeInv
    <3> QED
      BY <3>1 DEF KeptInv, RequestsKeep
  <2>2. CASE q = r
    <3>1. op'[q] = o /\ pc'[q] = step /\ target'[q] = t
      BY <1>1, <2>2 DEF KeptInv, TypeInv
    <3>2. w[q] = NoWrites
      BY <1>1, <2>2 DEF KeptInv, RequestsKeep, Progress, Ended
    <3>3. Progress(step, o, NoWrites, counted[q])
      BY <1>1, NoWritesAreWrites DEF Progress, Ended
    <3> QED
      BY <1>1, <3>1, <3>2, <3>3, NothingWritten
  <2> QED
    BY <2>1, <2>2
<1>4. RequestsKeep'
  BY <1>1, <1>3 DEF RequestsKeep
<1>5. RequestsAgree' /\ Housed'
  BY <1>1 DEF KeptInv, RequestsAgree, Housed
<1>6. HoldingsSurvive'
  BY <1>1 DEF KeptInv, HoldingsSurvive, Live, TypeInv
<1> QED
  BY <1>2, <1>4, <1>5, <1>6 DEF KeptInv

\* A statement that writes keeps the invariant if what is written then does.
LEMMA GoKept ==
    ASSUME KeptInv, NEW r \in Requests, NEW step \in Steps, NEW x \in Writes,
           Go(r, step, x), pc[r] \notin Ended,
           Progress(step, op[r], x, counted[r]), Reasons(op[r], x),
           Placed(x, folio, item), Apart(x, x),
           \A q \in Requests \ {r} : Apart(w[q], x) /\ Apart(x, w[q])
    PROVE  KeptInv'
<1>1. /\ pc' = [pc EXCEPT ![r] = step] /\ w' = [w EXCEPT ![r] = x]
      /\ UNCHANGED <<folio, default, item, watch, valued, op, target, counted, was>>
  BY DEF Go, db, history
<1>2. TypeInv'
  BY <1>1 DEF KeptInv, TypeInv
<1>3. /\ pc'[r] = step /\ w'[r] = x
      /\ \A q \in Requests \ {r} : pc'[q] = pc[q] /\ w'[q] = w[q]
  BY <1>1 DEF KeptInv, TypeInv
<1>4. RequestsKeep'
  BY <1>1, <1>3 DEF KeptInv, RequestsKeep
<1>5. RequestsAgree'
  BY <1>1, <1>3 DEF KeptInv, RequestsAgree
<1>6. Housed'
  BY <1>1 DEF KeptInv, Housed
<1>7. HoldingsSurvive'
  <2> SUFFICES ASSUME NEW i \in was, item[i] \notin Live
               PROVE  \E q \in Requests : /\ pc'[q] = "done"
                                          /\ op[q].kind = "remove" /\ i \in op[q].what
    BY <1>1 DEF HoldingsSurvive, Live
  <2>1. PICK q \in Requests : pc[q] = "done" /\ op[q].kind = "remove" /\ i \in op[q].what
    BY DEF KeptInv, HoldingsSurvive
  <2>2. q # r
    BY <2>1 DEF Ended
  <2> QED
    BY <1>3, <2>1, <2>2
<1> QED
  BY <1>2, <1>4, <1>5, <1>6, <1>7 DEF KeptInv

\* A request that is rolled back leaves nothing.
LEMMA RollBackKept ==
    ASSUME KeptInv, NEW r \in Requests, NEW end \in {"failed", "refused"},
           RollBack(r, end), pc[r] \notin Ended
    PROVE  KeptInv'
<1>1. /\ pc' = [pc EXCEPT ![r] = end] /\ w' = [w EXCEPT ![r] = NoWrites]
      /\ op' = [op EXCEPT ![r] = NoOp] /\ target' = [target EXCEPT ![r] = NoFolio]
      /\ counted' = [counted EXCEPT ![r] = {}]
      /\ UNCHANGED <<folio, default, item, watch, valued, was>>
  BY DEF RollBack, db, history
<1>2. NoOp \in Operations /\ Sensible(NoOp) /\ KnownTo(NoOp, NoFolio, folio) /\ end \in Steps
  BY Marks DEF NoOp, Operations, Kinds, Sensible, KnownTo, Steps, Ended
<1>3. Progress(end, NoOp, NoWrites, {})
  BY DEF Progress, Ended
<1>4. TypeInv'
  BY <1>1, <1>2, NoWritesAreWrites DEF KeptInv, TypeInv
<1>5. /\ pc'[r] = end /\ w'[r] = NoWrites /\ op'[r] = NoOp /\ target'[r] = NoFolio
      /\ counted'[r] = {}
      /\ \A q \in Requests \ {r} : /\ pc'[q] = pc[q] /\ w'[q] = w[q] /\ op'[q] = op[q]
                                   /\ target'[q] = target[q] /\ counted'[q] = counted[q]
  BY <1>1 DEF KeptInv, TypeInv
<1>6. RequestsKeep'
  <2> SUFFICES ASSUME NEW q \in Requests
               PROVE  /\ Sensible(op'[q]) /\ KnownTo(op'[q], target'[q], folio)
                      /\ Progress(pc'[q], op'[q], w'[q], counted'[q])
                      /\ Reasons(op'[q], w'[q]) /\ Placed(w'[q], folio, item)
    BY <1>1 DEF RequestsKeep
  <2>1. CASE q # r
    BY <1>5, <2>1 DEF KeptInv, RequestsKeep
  <2>2. CASE q = r
    BY <1>2, <1>3, <1>5, <2>2, NothingWritten
  <2> QED
    BY <2>1, <2>2
<1>7. RequestsAgree'
  <2> SUFFICES ASSUME NEW q \in Requests, NEW p \in Requests PROVE Apart(w'[q], w'[p])
    BY DEF RequestsAgree
  <2>1. w[q] \in Writes /\ NoWrites \in Writes /\ Apart(w[q], w[p])
    BY NoWritesAreWrites DEF KeptInv, TypeInv, RequestsAgree
  <2> QED
    BY <1>5, <2>1, NothingWritten
<1>8. Housed'
  BY <1>1 DEF KeptInv, Housed
<1>9. HoldingsSurvive'
  <2> SUFFICES ASSUME NEW i \in was, item[i] \notin Live
               PROVE  \E q \in Requests : /\ pc'[q] = "done"
                                          /\ op'[q].kind = "remove" /\ i \in op'[q].what
    BY <1>1 DEF HoldingsSurvive, Live
  <2>1. PICK q \in Requests : pc[q] = "done" /\ op[q].kind = "remove" /\ i \in op[q].what
    BY DEF KeptInv, HoldingsSurvive
  <2>2. q # r
    BY <2>1 DEF Ended
  <2> QED
    BY <1>5, <2>1, <2>2
<1> QED
  BY <1>4, <1>6, <1>7, <1>8, <1>9 DEF KeptInv

\* Reading the holdings for a valuation changes none.
LEMMA ValueKept ==
    ASSUME KeptInv, NEW r \in Requests, Value(r)
    PROVE  KeptInv'
<1> DEFINE step == IF valued # {} THEN AfterValue(r) ELSE "record"
           c == IF valued # {} THEN {} ELSE Counted(r)
<1>1. /\ pc' = [pc EXCEPT ![r] = step] /\ counted' = [counted EXCEPT ![r] = c]
      /\ UNCHANGED <<folio, default, item, watch, valued, op, target, w, was>>
      /\ pc[r] = "value"
  BY DEF Value, db, history
<1>2. /\ step \in {"unwatch", "commit", "record"} /\ step \in Steps /\ c \in SUBSET Items
      /\ step = "unwatch" => op[r].kind = "move"
  BY DEF AfterValue, Steps, Counted
<1> HIDE DEF step, c
<1>3. TypeInv'
  BY <1>1, <1>2 DEF KeptInv, TypeInv
<1>4. /\ pc'[r] = step
      /\ \A q \in Requests \ {r} : pc'[q] = pc[q] /\ counted'[q] = counted[q]
  BY <1>1 DEF KeptInv, TypeInv
<1>5. Progress(step, op[r], w[r], counted'[r])
  BY <1>1, <1>2 DEF KeptInv, RequestsKeep, Progress, Ended
<1>6. RequestsKeep'
  BY <1>1, <1>4, <1>5 DEF KeptInv, RequestsKeep
<1>7. RequestsAgree' /\ Housed'
  BY <1>1 DEF KeptInv, RequestsAgree, Housed
<1>8. HoldingsSurvive'
  <2> SUFFICES ASSUME NEW i \in was, item[i] \notin Live
               PROVE  \E q \in Requests : /\ pc'[q] = "done"
                                          /\ op[q].kind = "remove" /\ i \in op[q].what
    BY <1>1 DEF HoldingsSurvive, Live
  <2>1. PICK q \in Requests : pc[q] = "done" /\ op[q].kind = "remove" /\ i \in op[q].what
    BY DEF KeptInv, HoldingsSurvive
  <2> QED
    BY <1>1, <1>4, <2>1
<1> QED
  BY <1>3, <1>6, <1>7, <1>8 DEF KeptInv

\* What a commit makes of portfolios and holdings.
LEMMA CommitDoes ==
    ASSUME KeptInv, NEW r \in Requests, Commit(r)
    PROVE  /\ TypeInv'
           /\ \A f \in Folios :
                  folio'[f] = IF w[r].folio[f] = "same" THEN folio[f] ELSE w[r].folio[f]
           /\ \A i \in Items :
                  item'[i] = IF w[r].item[i] = Same THEN item[i] ELSE w[r].item[i]
           /\ default' = default \cup w[r].default /\ watch' = watch \ w[r].unwatched
           /\ \A i \in was' : i \in was \/ item'[i] # NoFolio
           /\ UNCHANGED <<op, crowded, raced>> /\ pc[r] = "commit"
           /\ pc'[r] = "done" /\ w'[r] = NoWrites /\ target'[r] = NoFolio /\ counted'[r] = {}
           /\ \A q \in Requests \ {r} : /\ pc'[q] = pc[q] /\ w'[q] = w[q]
                                        /\ target'[q] = target[q] /\ counted'[q] = counted[q]
           /\ w[r] \in Writes
           /\ \A f \in Folios : folio'[f] = "absent" => folio[f] = "absent"
<1> USE DEF Commit
<1>1. TypeInv /\ w[r] \in Writes /\ "done" \in Steps
  BY DEF KeptInv, TypeInv, Steps, Ended
<1>2. \A f \in Folios :
          folio'[f] = IF w[r].folio[f] = "same" THEN folio[f] ELSE w[r].folio[f]
  BY DEF Folio
<1>3. \A i \in Items : item'[i] = IF w[r].item[i] = Same THEN item[i] ELSE w[r].item[i]
  BY DEF Item
<1>4. /\ pc' = [pc EXCEPT ![r] = "done"] /\ w' = [w EXCEPT ![r] = NoWrites]
      /\ target' = [target EXCEPT ![r] = NoFolio] /\ counted' = [counted EXCEPT ![r] = {}]
      /\ UNCHANGED <<op, crowded, raced>>
  OBVIOUS
<1>5. folio' \in [Folios -> {"absent", "active", "archived", "deleted"}]
  BY <1>1 DEF Folio, TypeInv, Writes
<1>6. item' \in [Items -> Folios \cup {NoFolio}]
  BY <1>1 DEF Item, TypeInv, Writes
<1>7. default' \subseteq Folios /\ watch' \subseteq Entries /\ valued' \subseteq SUBSET Items
  BY <1>1 DEF TypeInv, Writes
<1>8. was' \subseteq Items /\ \A i \in was' : i \in was \/ item'[i] # NoFolio
  BY <1>1 DEF TypeInv
<1>9. TypeInv'
  BY <1>1, <1>4, <1>5, <1>6, <1>7, <1>8, NoWritesAreWrites DEF TypeInv
<1>10. /\ pc'[r] = "done" /\ w'[r] = NoWrites /\ target'[r] = NoFolio /\ counted'[r] = {}
       /\ \A q \in Requests \ {r} : /\ pc'[q] = pc[q] /\ w'[q] = w[q]
                                    /\ target'[q] = target[q] /\ counted'[q] = counted[q]
  BY <1>1, <1>4 DEF TypeInv
<1>11. \A f \in Folios : folio'[f] = "absent" => folio[f] = "absent"
  BY <1>1, <1>2 DEF Writes
<1> QED
  BY <1>1, <1>2, <1>3, <1>4, <1>8, <1>9, <1>10, <1>11

\* Nobody loses a holding by a commit, and no other request loses its portfolio.
LEMMA CommitKept ==
    ASSUME KeptInv, MadeInv, NEW r \in Requests, Commit(r)
    PROVE  KeptInv'
<1> DEFINE x == w[r]
<1>1. /\ TypeInv /\ TypeInv' /\ x \in Writes /\ pc[r] = "commit" /\ pc'[r] = "done"
      /\ \A f \in Folios : folio'[f] = IF x.folio[f] = "same" THEN folio[f] ELSE x.folio[f]
      /\ \A i \in Items : item'[i] = IF x.item[i] = Same THEN item[i] ELSE x.item[i]
      /\ op' = op
  BY CommitDoes DEF KeptInv
<1>2. /\ w'[r] = NoWrites /\ target'[r] = NoFolio /\ counted'[r] = {}
      /\ \A q \in Requests \ {r} : /\ pc'[q] = pc[q] /\ w'[q] = w[q]
                                   /\ target'[q] = target[q] /\ counted'[q] = counted[q]
      /\ \A f \in Folios : folio'[f] = "absent" => folio[f] = "absent"
      /\ default' = default \cup x.default
  BY CommitDoes
<1>3. Placed(x, folio, item) /\ Reasons(op[r], x) /\ \A q \in Requests : Apart(x, w[q])
  BY DEF KeptInv, RequestsKeep, RequestsAgree
<1>4. \A i \in Items : item'[i] # NoFolio => folio'[item'[i]] \in {"active", "archived"}
  <2> SUFFICES ASSUME NEW i \in Items, item'[i] # NoFolio
               PROVE  folio'[item'[i]] \in {"active", "archived"}
    OBVIOUS
  <2> DEFINE f == item'[i]
  <2>1. f \in Folios
    BY <1>1 DEF TypeInv
  <2>2. x.folio[f] # "deleted"
    BY <1>1, <1>3, <2>1 DEF Apart, Placed
  <2>3. folio[f] \in {"active", "archived"} \/ x.folio[f] = "active"
    BY <1>1, <1>3, <2>1 DEF Placed, KeptInv, Housed
  <2>4. x.folio[f] \in {"same", "active", "archived"}
    BY <1>1, <2>1, <2>2 DEF Writes
  <2> HIDE DEF x
  <2> QED
    BY <1>1, <2>1, <2>3, <2>4
<1>5. RequestsKeep'
  <2> SUFFICES ASSUME NEW q \in Requests
               PROVE  /\ Sensible(op[q]) /\ KnownTo(op[q], target'[q], folio')
                      /\ Progress(pc'[q], op[q], w'[q], counted'[q])
                      /\ Reasons(op[q], w'[q]) /\ Placed(w'[q], folio', item')
    BY <1>1 DEF RequestsKeep
  <2>1. Sensible(op[q]) /\ KnownTo(op[q], target[q], folio)
    BY DEF KeptInv, RequestsKeep
  <2>2. CASE q = r
    <3>1. KnownTo(op[q], target'[q], folio')
      BY <1>2, <2>1, <2>2, Marks DEF KnownTo
    <3>2. Progress("done", op[q], NoWrites, {})
      BY DEF Progress, Ended
    <3> QED
      BY <1>1, <1>2, <2>1, <2>2, <3>1, <3>2, NothingWritten
  <2>3. CASE q # r
    <3>1. KnownTo(op[q], target'[q], folio')
      BY <1>2, <2>1, <2>3 DEF KnownTo
    <3>2. Placed(w[q], folio, item) /\ Apart(x, w[q]) /\ Apart(w[q], x) /\ w[q] \in Writes
      BY <1>1 DEF KeptInv, RequestsKeep, RequestsAgree, TypeInv
    <3>3. Placed(w[q], folio', item')
      <4>1. ASSUME NEW f \in Folios, NEW i \in Items, w[q].item[i] = f
            PROVE  folio'[f] \in {"active", "archived"} \/ w[q].folio[f] = "active"
        <5>1. folio[f] \in {"active", "archived"} \/ w[q].folio[f] = "active"
          BY <3>2, <4>1 DEF Placed
        <5>2. x.folio[f] \in {"same", "active", "archived"}
          BY <1>1, <3>2, <4>1 DEF Apart, Writes
        <5> HIDE DEF x
        <5> QED
          BY <1>1, <5>1, <5>2
      <4>2. ASSUME NEW f \in Folios, NEW i \in Items,
                   w[q].folio[f] = "deleted", w[q].item[i] = Same
            PROVE  item'[i] # f
        <5>1. item[i] # f /\ x.item[i] # f
          BY <3>2, <4>2 DEF Placed, Apart
        <5> QED
          BY <1>1, <5>1
      <4> QED
        BY <4>1, <4>2 DEF Placed
    <3> QED
      BY <1>2, <2>1, <2>3, <3>1, <3>3 DEF KeptInv, RequestsKeep
  <2> QED
    BY <2>2, <2>3
<1>6. RequestsAgree'
  <2> SUFFICES ASSUME NEW q \in Requests, NEW p \in Requests PROVE Apart(w'[q], w'[p])
    BY DEF RequestsAgree
  <2>1. w[q] \in Writes /\ NoWrites \in Writes /\ Apart(w[q], w[p])
    BY <1>1, NoWritesAreWrites DEF KeptInv, TypeInv, RequestsAgree
  <2> QED
    BY <1>2, <2>1, NothingWritten
<1>7. ASSUME NEW f \in default' PROVE folio'[f] # "absent"
  <2>1. f \in Folios
    BY <1>1, <1>7 DEF TypeInv
  <2>2. CASE f \in default
    BY <1>2, <2>1, <2>2 DEF KeptInv, Housed
  <2>3. CASE f \in x.default
    <3>1. x.folio[f] = "active"
      BY <2>3 DEF MadeInv, Making
    <3> QED
      BY <1>1, <2>1, <3>1
  <2> QED
    BY <1>2, <1>7, <2>2, <2>3
<1>8. HoldingsSurvive'
  <2> SUFFICES ASSUME NEW i \in was', item'[i] \notin Live'
               PROVE  \E q \in Requests : /\ pc'[q] = "done"
                                          /\ op[q].kind = "remove" /\ i \in op[q].what
    BY <1>1 DEF HoldingsSurvive
  <2>1. i \in Items /\ item'[i] = NoFolio
    BY <1>1, <1>4 DEF Live, TypeInv
  <2>2. i \in was
    BY <2>1, CommitDoes
  <2>3. CASE x.item[i] = NoFolio
    BY <1>1, <1>3, <2>1, <2>3 DEF Reasons
  <2>4. CASE x.item[i] # NoFolio
    <3>1. item[i] = NoFolio
      BY <1>1, <2>1, <2>4
    <3>2. item[i] \notin Live
      BY <3>1, Marks DEF Live
    <3>3. PICK q \in Requests : pc[q] = "done" /\ op[q].kind = "remove" /\ i \in op[q].what
      BY <2>2, <3>2 DEF KeptInv, HoldingsSurvive
    <3> QED
      BY <1>1, <1>2, <3>3
  <2> QED
    BY <2>3, <2>4
<1> QED
  BY <1>1, <1>4, <1>5, <1>6, <1>7, <1>8 DEF KeptInv, Housed

-----------------------------------------------------------------------------
(* Portfolios are made, put away and brought back by one request at a time. *)

\* Making nothing, and what a request alone has of it.
LEMMA NothingMade == \A o, fs : Making(o, NoWrites, fs)
BY NoWritesAreWrites DEF Making

\* Initially no request has made a portfolio.
LEMMA InitMade == Init => MadeInv
<1> SUFFICES ASSUME Init PROVE MadeInv
  OBVIOUS
<1>1. Single /\ \A r \in Requests : Making(op[r], w[r], folio)
  BY NothingMade, NoWritesAreWrites DEF Init, Single, Touching
<1>2. DefaultsStay
  BY FirstIsPlacement DEF Init, DefaultsStay, OldFolios, NoOp
<1> QED
  BY <1>1, <1>2 DEF MadeInv

\* A request that only arrives makes nothing.
LEMMA ArriveMade ==
    ASSUME KeptInv, MadeInv, NEW r \in Requests, NEW o, NEW t, NEW step, Arrives(r, o, t, step)
    PROVE  MadeInv'
<1>1. /\ op'[r] = o /\ w[r] = NoWrites
      /\ \A q \in Requests \ {r} : op'[q] = op[q]
      /\ UNCHANGED <<w, folio, default>>
  BY DEF Arrives, KeptInv, TypeInv, RequestsKeep, Progress, Ended, db
<1>2. Single'
  BY <1>1 DEF MadeInv, Single, Touching
<1>3. DefaultsStay'
  BY <1>1 DEF MadeInv, DefaultsStay, Arrives
<1>4. \A q \in Requests : Making(op'[q], w'[q], folio')
  BY <1>1, NothingMade DEF MadeInv
<1> QED
  BY <1>2, <1>3, <1>4 DEF MadeInv

\* A request writes a portfolio nobody else has written.
LEMMA GoMade ==
    ASSUME KeptInv, MadeInv, NEW r \in Requests, NEW step, NEW x \in Writes, Go(r, step, x),
           Making(op[r], x, folio),
           \A q \in Requests \ {r} : \A f \in Folios :
               x.folio[f] # "same" => w[q].folio[f] = "same"
    PROVE  MadeInv'
<1>1. /\ w'[r] = x /\ \A q \in Requests \ {r} : w'[q] = w[q]
      /\ UNCHANGED <<op, folio, default>>
  BY DEF Go, KeptInv, TypeInv, db
<1>2. Single'
  BY <1>1 DEF MadeInv, Single, Touching
<1>3. DefaultsStay'
  BY <1>1 DEF MadeInv, DefaultsStay
<1>4. \A q \in Requests : Making(op'[q], w'[q], folio')
  BY <1>1 DEF MadeInv
<1> QED
  BY <1>2, <1>3, <1>4 DEF MadeInv

\* What is rolled back is made by nobody.
LEMMA RollBackMade ==
    ASSUME KeptInv, MadeInv, NEW r \in Requests, NEW end, RollBack(r, end)
    PROVE  MadeInv'
<1>1. /\ w'[r] = NoWrites /\ op'[r] = NoOp
      /\ \A q \in Requests \ {r} : w'[q] = w[q] /\ op'[q] = op[q]
      /\ UNCHANGED <<folio, default>>
  BY DEF RollBack, KeptInv, TypeInv, db
<1>2. Single'
  BY <1>1, NoWritesAreWrites DEF MadeInv, Single, Touching
<1>3. DefaultsStay'
  BY <1>1, NoOpIsSensible DEF MadeInv, DefaultsStay
<1>4. \A q \in Requests : Making(op'[q], w'[q], folio')
  BY <1>1, NothingMade DEF MadeInv
<1> QED
  BY <1>2, <1>3, <1>4 DEF MadeInv

\* Nothing another request makes is changed by a commit.
LEMMA CommitMade ==
    ASSUME KeptInv, MadeInv, NEW r \in Requests, Commit(r)
    PROVE  MadeInv'
<1> DEFINE x == w[r]
<1>1. /\ \A f \in Folios : folio'[f] = IF x.folio[f] = "same" THEN folio[f] ELSE x.folio[f]
      /\ op' = op /\ default' = default \cup x.default
      /\ w'[r] = NoWrites /\ \A q \in Requests \ {r} : w'[q] = w[q]
      /\ x \in Writes
  BY CommitDoes
<1>2. Single'
  BY <1>1, NoWritesAreWrites DEF MadeInv, Single, Touching
<1>3. Making(op[r], x, folio) /\ Reasons(op[r], x)
  BY DEF MadeInv, KeptInv, RequestsKeep
<1>4. \A f \in default' : folio'[f] = "active"
  <2> SUFFICES ASSUME NEW f \in default' PROVE folio'[f] = "active"
    OBVIOUS
  <2>1. f \in Folios /\ x.folio[f] \in {"same", "active", "archived", "deleted"}
    BY <1>1 DEF Writes, KeptInv, TypeInv
  <2>2. CASE f \in default
    BY <1>1, <1>3, <2>1, <2>2 DEF Reasons, MadeInv, DefaultsStay
  <2>3. CASE f \in x.default
    BY <1>1, <1>3, <2>1, <2>3 DEF Making
  <2> QED
    BY <1>1, <2>2, <2>3
<1>5. ASSUME NEW q \in Requests, op[q].kind \in {"archive", "delete"}
      PROVE  op[q].at \notin default'
  <2>1. op[q].at \in Folios /\ folio[op[q].at] # "absent"
    BY <1>5 DEF KeptInv, RequestsKeep, Sensible, KnownTo
  <2> QED
    BY <1>1, <1>3, <1>5, <2>1 DEF MadeInv, DefaultsStay, Making
<1>6. ASSUME NEW q \in Requests PROVE Making(op'[q], w'[q], folio')
  <2>1. CASE q = r
    BY <1>1, <2>1, NothingMade
  <2>2. CASE q # r
    <3>1. \A f \in Folios : w[q].folio[f] # "same" => folio'[f] = folio[f]
      BY <1>1, <2>2 DEF MadeInv, Single, Touching
    <3>2. Making(op[q], w[q], folio) /\ w[q] \in Writes
      BY DEF MadeInv, KeptInv, TypeInv
    <3>3. w[q].default \subseteq Folios
      BY <3>2 DEF Writes
    <3>4. Making(op[q], w[q], folio')
      BY <3>1, <3>2, <3>3 DEF Making
    <3> QED
      BY <1>1, <2>2, <3>4
  <2> QED
    BY <2>1, <2>2
<1> QED
  BY <1>1, <1>2, <1>4, <1>5, <1>6 DEF MadeInv, DefaultsStay

-----------------------------------------------------------------------------
(* Valuations are current. *)

\* Nothing written is destined, counted or spared.
LEMMA NothingValued ==
    /\ \A o, t, d : (o.kind = "import" => t = NoFolio)
                    /\ (o.kind = "move" => t \in d \cup {NoFolio}) => Destined(o, t, NoWrites, d)
    /\ \A step, o, c : Counts(step, o, NoWrites, c)
    /\ \A step, its : Cites(step, NoWrites, its)
    /\ \A step, y : Spares(step, NoWrites, y)
    /\ \A step, x : x \in Writes => Spares(step, x, NoWrites)
<1>1. \A step, x : x \in Writes => Spares(step, x, NoWrites)
  BY NoWritesAreWrites, Marks DEF Spares, Writes
<1> QED
  BY <1>1, NoWritesAreWrites DEF Destined, Counts, Cites, Spares

\* Initially no valuation is under way.
LEMMA InitValued == Init => ValuedInv
<1> SUFFICES ASSUME Init PROVE ValuedInv
  OBVIOUS
<1>1. \A r \in Requests : w[r] = NoWrites /\ op[r] = NoOp /\ target[r] = NoFolio
  BY DEF Init
<1> QED
  BY <1>1, NothingValued, NoOpIsSensible DEF ValuedInv

\* A request that arrives has nothing counted yet.
LEMMA ArriveValued ==
    ASSUME KeptInv, ValuedInv, NEW r \in Requests, NEW o, NEW t, NEW step,
           Arrives(r, o, t, step)
    PROVE  ValuedInv'
<1>1. /\ op'[r] = o /\ w[r] = NoWrites /\ pc'[r] = step /\ target'[r] = t
      /\ \A q \in Requests \ {r} : op'[q] = op[q] /\ pc'[q] = pc[q] /\ target'[q] = target[q]
      /\ UNCHANGED <<w, default, item, counted>>
  BY DEF Arrives, KeptInv, TypeInv, RequestsKeep, Progress, Ended, db
<1>2. Destined(o, t, NoWrites, default)
  BY NothingValued DEF Arrives
<1>3. \A q \in Requests : /\ Destined(op'[q], target'[q], w'[q], default')
                          /\ Counts(pc'[q], op'[q], w'[q], counted'[q])
                          /\ Cites(pc'[q], w'[q], item')
  BY <1>1, <1>2, NothingValued DEF ValuedInv
<1>4. \A p, q \in Requests : Spares(pc'[q], w'[q], w'[p])
  BY <1>1, NothingValued DEF ValuedInv
<1> QED
  BY <1>3, <1>4 DEF ValuedInv

\* A statement keeps what is valued.
LEMMA GoValued ==
    ASSUME KeptInv, ValuedInv, NEW r \in Requests, NEW step, NEW x \in Writes, Go(r, step, x),
           Destined(op[r], target[r], x, default), Counts(step, op[r], x, counted[r]),
           Cites(step, x, item), Spares(step, x, x),
           \A q \in Requests \ {r} : Spares(step, x, w[q]) /\ Spares(pc[q], w[q], x)
    PROVE  ValuedInv'
<1>1. /\ w'[r] = x /\ pc'[r] = step
      /\ \A q \in Requests \ {r} : w'[q] = w[q] /\ pc'[q] = pc[q]
      /\ UNCHANGED <<op, target, counted, default, item>>
  BY DEF Go, KeptInv, TypeInv, db
<1>2. \A q \in Requests : /\ Destined(op'[q], target'[q], w'[q], default')
                          /\ Counts(pc'[q], op'[q], w'[q], counted'[q])
                          /\ Cites(pc'[q], w'[q], item')
  BY <1>1 DEF ValuedInv
<1>3. \A p, q \in Requests : Spares(pc'[q], w'[q], w'[p])
  BY <1>1 DEF ValuedInv
<1> QED
  BY <1>2, <1>3 DEF ValuedInv

\* What is rolled back is not valued.
LEMMA RollBackValued ==
    ASSUME KeptInv, ValuedInv, NEW r \in Requests, NEW end, RollBack(r, end)
    PROVE  ValuedInv'
<1>1. /\ w'[r] = NoWrites /\ op'[r] = NoOp /\ target'[r] = NoFolio
      /\ \A q \in Requests \ {r} : /\ w'[q] = w[q] /\ op'[q] = op[q] /\ pc'[q] = pc[q]
                                   /\ target'[q] = target[q] /\ counted'[q] = counted[q]
      /\ UNCHANGED <<default, item>>
  BY DEF RollBack, KeptInv, TypeInv, db
<1>2. \A q \in Requests : w[q] \in Writes
  BY DEF KeptInv, TypeInv
<1>3. ASSUME NEW q \in Requests
      PROVE  /\ Destined(op'[q], target'[q], w'[q], default')
             /\ Counts(pc'[q], op'[q], w'[q], counted'[q])
             /\ Cites(pc'[q], w'[q], item')
  BY <1>1, NothingValued, NoOpIsSensible DEF ValuedInv
<1>4. \A p, q \in Requests : Spares(pc'[q], w'[q], w'[p])
  BY <1>1, <1>2, NothingValued DEF ValuedInv
<1> QED
  BY <1>3, <1>4 DEF ValuedInv

\* What is counted has the holding that the request has written.
LEMMA ValueValued ==
    ASSUME KeptInv, MadeInv, ValuedInv, NEW r \in Requests, Value(r)
    PROVE  ValuedInv'
<1> DEFINE step == IF valued # {} THEN AfterValue(r) ELSE "record"
           c == IF valued # {} THEN {} ELSE Counted(r)
<1>1. /\ pc'[r] = step /\ counted'[r] = c /\ pc[r] = "value"
      /\ \A q \in Requests \ {r} : pc'[q] = pc[q] /\ counted'[q] = counted[q]
      /\ UNCHANGED <<op, target, w, default, item>>
  BY DEF Value, KeptInv, TypeInv, db
<1>2. w[r].valued = {} /\ w[r] \in Writes
  BY <1>1 DEF KeptInv, TypeInv, RequestsKeep, Progress
<1>3. Counts(step, op[r], w[r], c)
  <2>1. ASSUME valued = {}, op[r].kind \in {"import", "move"}, NEW i \in Items,
               w[r].item[i] # Same
        PROVE  i \in Counted(r)
    <3>1. PICK f \in Folios : /\ w[r].item[i] = f
                              /\ w[r].folio[f] = "active"
                                 \/ (w[r].folio[f] = "same" /\ f \in default)
      BY <2>1 DEF ValuedInv, Destined
    <3>2. Item(r)[i] = f /\ f # NoFolio
      BY <2>1, <3>1, Marks DEF Item
    <3>3. Folio(r)[f] = "active"
      BY <3>1 DEF Folio, MadeInv, DefaultsStay
    <3> QED
      BY <3>2, <3>3 DEF Counted
  <2>2. step \in {"unwatch", "commit"} \/ (step = "record" /\ valued = {} /\ c = Counted(r))
    BY DEF AfterValue
  <2> HIDE DEF step, c
  <2> QED
    BY <1>2, <2>1, <2>2 DEF Counts
<1>4. Cites(step, w[r], item) /\ \A q \in Requests : Spares(step, w[r], w[q])
  BY <1>2 DEF Cites, Spares
<1> HIDE DEF step, c
<1>5. \A q \in Requests : /\ Destined(op'[q], target'[q], w'[q], default')
                          /\ Counts(pc'[q], op'[q], w'[q], counted'[q])
                          /\ Cites(pc'[q], w'[q], item')
  BY <1>1, <1>3, <1>4 DEF ValuedInv
<1>6. \A p, q \in Requests : Spares(pc'[q], w'[q], w'[p])
  BY <1>1, <1>4 DEF ValuedInv
<1> QED
  BY <1>5, <1>6 DEF ValuedInv

\* A commit takes no holding that another request cites.
LEMMA CommitValued ==
    ASSUME KeptInv, ValuedInv, NEW r \in Requests, Commit(r)
    PROVE  ValuedInv'
<1>1. /\ \A i \in Items : item'[i] = IF w[r].item[i] = Same THEN item[i] ELSE w[r].item[i]
      /\ op' = op /\ default \subseteq default' /\ pc'[r] = "done" /\ target'[r] = NoFolio
      /\ w'[r] = NoWrites
      /\ \A q \in Requests \ {r} : /\ pc'[q] = pc[q] /\ w'[q] = w[q]
                                   /\ target'[q] = target[q] /\ counted'[q] = counted[q]
  BY CommitDoes
<1>2. ASSUME NEW q \in Requests
      PROVE  /\ Destined(op'[q], target'[q], w'[q], default')
             /\ Counts(pc'[q], op'[q], w'[q], counted'[q])
             /\ Cites(pc'[q], w'[q], item')
  <2>1. CASE q = r
    BY <1>1, <2>1, NothingValued
  <2>2. CASE q # r
    <3>1. /\ Destined(op[q], target[q], w[q], default)
          /\ Counts(pc[q], op[q], w[q], counted[q])
          /\ Cites(pc[q], w[q], item) /\ Spares(pc[q], w[q], w[r])
          /\ \A S \in w[q].valued : S \subseteq Items
      BY DEF ValuedInv, KeptInv, TypeInv, Writes
    <3>2. Destined(op[q], target[q], w[q], default')
      BY <1>1, <3>1 DEF Destined
    <3>3. Cites(pc[q], w[q], item')
      BY <1>1, <3>1 DEF Cites, Spares
    <3> QED
      BY <1>1, <2>2, <3>1, <3>2, <3>3
  <2> QED
    BY <2>1, <2>2
<1>3. \A q \in Requests : w[q] \in Writes
  BY DEF KeptInv, TypeInv
<1>4. \A p, q \in Requests : Spares(pc'[q], w'[q], w'[p])
  BY <1>1, <1>3, NothingValued DEF ValuedInv
<1> QED
  BY <1>2, <1>4 DEF ValuedInv

-----------------------------------------------------------------------------
(* Checks that nobody shares hold. *)

\* Who is under way after a step of request r.
LEMMA WhoIsBusy ==
    ASSUME TypeInv, NEW r \in Requests, NEW step, pc' = [pc EXCEPT ![r] = step]
    PROVE  /\ step \in Ended => Busy' = Busy \ {r}
           /\ step \notin Ended => Busy' = Busy \cup {r}
BY DEF Busy, TypeInv

\* A request that arrives and makes check c has made it alone, or c is raced.
LEMMA ArriveLone ==
    ASSUME KeptInv, NEW c, Lone(c), NEW r \in Requests, NEW o, NEW t, NEW step,
           Arrives(r, o, t, step)
    PROVE  /\ Lone(c)'
           /\ c \notin raced' => c \notin raced
           /\ c \notin raced' /\ c \in Checks(o) => \A q \in Busy : c \notin Checks(op[q])
<1>1. /\ op'[r] = o /\ \A q \in Requests \ {r} : op'[q] = op[q]
      /\ raced \subseteq raced' /\ pc[r] \in Ended /\ pc' = [pc EXCEPT ![r] = step]
      /\ c \in Checks(o) /\ (\E q \in Busy : c \in Checks(op[q])) => c \in raced'
  BY DEF Arrives, KeptInv, TypeInv, Ended
<1>2. Busy' \subseteq Busy \cup {r} /\ r \notin Busy /\ Busy \subseteq Requests
  BY <1>1, WhoIsBusy DEF Busy, KeptInv
<1>3. ASSUME c \notin raced', NEW p \in Busy', NEW q \in Busy',
             c \in Checks(op'[p]), c \in Checks(op'[q])
      PROVE  p = q
  <2>1. CASE p # r /\ q # r
    <3>1. p \in Busy /\ q \in Busy /\ op'[p] = op[p] /\ op'[q] = op[q]
      BY <1>1, <1>2, <2>1
    <3> QED
      BY <1>1, <1>3, <3>1 DEF Lone
  <2>2. CASE p = r /\ q # r
    <3>1. q \in Busy /\ op'[p] = o /\ op'[q] = op[q]
      BY <1>1, <1>2, <2>2
    <3> QED
      BY <1>1, <1>3, <3>1
  <2>3. CASE p # r /\ q = r
    <3>1. p \in Busy /\ op'[q] = o /\ op'[p] = op[p]
      BY <1>1, <1>2, <2>3
    <3> QED
      BY <1>1, <1>3, <3>1
  <2> QED
    BY <2>1, <2>2, <2>3
<1> QED
  BY <1>1, <1>3 DEF Lone

\* Any other step leaves whoever was alone alone.
LEMMA StayLone ==
    ASSUME KeptInv, NEW c, Lone(c), raced' = raced, Busy' \subseteq Busy,
           \A q \in Busy' : op'[q] = op[q]
    PROVE  Lone(c)'
BY DEF Lone

-----------------------------------------------------------------------------
(* The limit. *)

\* Portfolios can be counted.
LEMMA ListedIsFinite ==
    ASSUME TypeInv
    PROVE  /\ IsFiniteSet(Live) /\ IsFiniteSet(ListedFolios)
           /\ Cardinality(Live) \in Nat /\ Cardinality(ListedFolios) \in Nat
           /\ Cardinality(ListedFolios) <= Cardinality(Live)
<1>1. Live \in SUBSET Folios /\ ListedFolios \in SUBSET Live
  BY DEF Live, ListedFolios
<1>2. IsFiniteSet(Live)
  BY <1>1, DefaultCounts, FS_Subset
<1> QED
  BY <1>1, <1>2, FS_Subset, FS_CardinalityType

\* Initially the limit is kept.
LEMMA InitLimit == Init => LimitInv
<1> SUFFICES ASSUME Init PROVE LimitInv
  OBVIOUS
<1>1. Busy = {}
  BY DEF Init, Busy, Ended
<1>2. ListedFolios \in SUBSET OldFolios
  BY DEF Init, ListedFolios, Live
<1>3. IsFiniteSet(OldFolios)
  <2>1. OldFolios \in SUBSET Folios
    BY FirstIsPlacement DEF OldFolios
  <2>2. IsFiniteSet(Folios)
    BY FS_Interval, LimitIsNatural DEF Folios
  <2> QED
    BY <2>1, <2>2, FS_Subset
<1>4. /\ Cardinality(ListedFolios) <= Cardinality(OldFolios)
      /\ Cardinality(ListedFolios) \in Nat /\ Cardinality(OldFolios) \in Nat
  BY <1>2, <1>3, FS_Subset, FS_CardinalityType
<1>5. Cardinality(ListedFolios) <= Limit
  BY <1>4, StartsWithinLimit, LimitIsNatural
<1> QED
  BY <1>1, <1>5 DEF LimitInv, Lone

\* A request arrives: if it adds a portfolio to the limit, there is room.
LEMMA ArriveLimit ==
    ASSUME KeptInv, LimitInv, NEW r \in Requests, NEW o, NEW t, NEW step,
           Arrives(r, o, t, step)
    PROVE  LimitInv'
<1>1. /\ op'[r] = o /\ \A q \in Requests \ {r} : op'[q] = op[q]
      /\ pc' = [pc EXCEPT ![r] = step] /\ step \in Ended \cup {"write"}
      /\ step = "write" /\ "limit" \in Checks(o) => Cardinality(Live) < Limit
      /\ UNCHANGED <<folio, default>>
  BY DEF Arrives, KeptInv, TypeInv, db, Ended
<1>2. ListedFolios' = ListedFolios /\ Busy \subseteq Requests
  BY <1>1 DEF ListedFolios, Live, Busy
<1>3. /\ Busy' \subseteq Busy \cup {r}
      /\ r \in Busy' => step = "write"
  BY <1>1, WhoIsBusy DEF KeptInv
<1>4. Lone("limit")' /\ ("limit" \notin raced' => "limit" \notin raced)
  BY ArriveLone DEF LimitInv
<1>5. step = "write" /\ "limit" \in Checks(o) => Cardinality(ListedFolios) < Limit
  BY <1>1, ListedIsFinite, LimitIsNatural DEF KeptInv
<1>6. ASSUME "limit" \notin raced', NEW q \in Busy', "limit" \in Checks(op'[q])
      PROVE  Cardinality(ListedFolios) < Limit
  BY <1>1, <1>2, <1>3, <1>4, <1>5, <1>6 DEF LimitInv
<1> QED
  BY <1>2, <1>4, <1>6 DEF LimitInv

\* What goes on without a commit leaves the portfolios there are.
LEMMA QuietLimit ==
    ASSUME KeptInv, LimitInv, UNCHANGED <<folio, default, raced>>, Busy' \subseteq Busy,
           \A q \in Busy' : op'[q] = op[q]
    PROVE  LimitInv'
<1>1. ListedFolios' = ListedFolios
  BY DEF ListedFolios, Live
<1>2. Lone("limit")'
  BY StayLone DEF LimitInv
<1> QED
  BY <1>1, <1>2 DEF LimitInv

\* A commit adds one portfolio at most, if its request has checked the limit.
LEMMA CommitLimit ==
    ASSUME KeptInv, MadeInv, LimitInv, NEW r \in Requests, Commit(r)
    PROVE  LimitInv'
<1> DEFINE x == w[r]
           new == {f \in Folios : x.folio[f] = "active" /\ folio[f] = "absent"
                                  /\ f \notin x.default}
<1>1. /\ TypeInv /\ TypeInv' /\ x \in Writes
      /\ \A f \in Folios : folio'[f] = IF x.folio[f] = "same" THEN folio[f] ELSE x.folio[f]
      /\ op' = op /\ raced' = raced /\ default' = default \cup x.default
      /\ pc[r] = "commit" /\ pc' = [pc EXCEPT ![r] = "done"]
  BY CommitDoes DEF Commit, KeptInv
<1>2. Making(op[r], x, folio) /\ Reasons(op[r], x) /\ KnownTo(op[r], target[r], folio)
  BY DEF MadeInv, KeptInv, RequestsKeep
<1>3. Busy' = Busy \ {r} /\ r \in Busy
  BY <1>1, WhoIsBusy DEF Busy, Ended
<1>4. ListedFolios' \subseteq ListedFolios \cup new
  <2> SUFFICES ASSUME NEW f \in ListedFolios', f \notin ListedFolios PROVE f \in new
    OBVIOUS
  <2>1. /\ f \in Folios /\ folio'[f] \in {"active", "archived"}
        /\ f \notin default /\ f \notin x.default
    BY <1>1 DEF ListedFolios, Live
  <2>2. folio[f] \in {"absent", "deleted"}
    BY <1>1, <2>1 DEF ListedFolios, Live, TypeInv
  <2>3. x.folio[f] \in {"active", "archived"}
    BY <1>1, <2>1, <2>2
  <2>4. folio[f] = "absent"
    BY <1>2, <2>1, <2>2, <2>3 DEF Making
  <2>5. x.folio[f] = "active"
    BY <1>2, <2>1, <2>3, <2>4 DEF Reasons, KnownTo
  <2> QED
    BY <2>1, <2>4, <2>5
<1>5. \A f, g \in new : f = g
  BY <1>2 DEF Making
<1>6. new # {} => "limit" \in Checks(op[r])
  BY <1>2 DEF Making, Checks
<1> HIDE DEF x, new
<1>7. /\ IsFiniteSet(ListedFolios) /\ Cardinality(ListedFolios) \in Nat /\ Cardinality(ListedFolios') \in Nat
  <2>1. IsFiniteSet(ListedFolios) /\ Cardinality(ListedFolios) \in Nat
    BY <1>1, ListedIsFinite
  <2>2. ListedFolios' \in SUBSET Folios /\ IsFiniteSet(Folios)
    BY <1>1, DefaultCounts DEF ListedFolios, Live
  <2> QED
    BY <2>1, <2>2, FS_Subset, FS_CardinalityType
<1>8. CASE new = {}
  <2>1. Cardinality(ListedFolios') <= Cardinality(ListedFolios)
    BY <1>4, <1>7, <1>8, FS_Subset
  <2>2. Lone("limit")'
    BY <1>1, <1>3, StayLone DEF LimitInv
  <2> QED
    BY <1>1, <1>3, <1>7, <2>1, <2>2, LimitIsNatural DEF LimitInv
<1>9. CASE new # {}
  <2>1. PICK f : new = {f}
    BY <1>5, <1>9
  <2>2. /\ IsFiniteSet(ListedFolios \cup {f}) /\ Cardinality(ListedFolios \cup {f}) \in Nat
        /\ Cardinality(ListedFolios \cup {f}) <= Cardinality(ListedFolios) + 1
    <3>1. /\ IsFiniteSet(ListedFolios \cup {f})
          /\ Cardinality(ListedFolios \cup {f})
                 = IF f \in ListedFolios THEN Cardinality(ListedFolios) ELSE Cardinality(ListedFolios) + 1
      BY <1>7, FS_AddElement
    <3> QED
      BY <1>7, <3>1
  <2>3. Cardinality(ListedFolios') <= Cardinality(ListedFolios) + 1
    <3>1. Cardinality(ListedFolios') <= Cardinality(ListedFolios \cup {f})
      BY <1>4, <2>1, <2>2, FS_Subset
    <3> QED
      BY <1>7, <2>2, <3>1
  <2>4. Lone("limit")'
    BY <1>1, <1>3, StayLone DEF LimitInv
  <2>5. "limit" \notin raced => Cardinality(ListedFolios') <= Limit
    BY <1>3, <1>6, <1>7, <1>9, <2>3, LimitIsNatural DEF LimitInv
  <2>6. ASSUME "limit" \notin raced, NEW q \in Busy' PROVE "limit" \notin Checks(op'[q])
    BY <1>1, <1>3, <1>6, <1>9, <2>6 DEF LimitInv, Lone
  <2> QED
    BY <1>1, <2>4, <2>5, <2>6 DEF LimitInv
<1> QED
  BY <1>8, <1>9

-----------------------------------------------------------------------------
(* One default portfolio. *)

\* Initially the default is one of the portfolios.
LEMMA InitDefault == Init => DefaultInv
<1> SUFFICES ASSUME Init PROVE DefaultInv
  OBVIOUS
<1>1. Busy = {} /\ \A f, g \in default : f = g
  BY DEF Init, Busy, Ended
<1> QED
  BY <1>1 DEF DefaultInv, Lone

\* A request that arrives has found the default portfolio, or there is none.
LEMMA ArriveDefault ==
    ASSUME KeptInv, DefaultInv, NEW r \in Requests, NEW o, NEW t, NEW step,
           Arrives(r, o, t, step)
    PROVE  DefaultInv'
<1>1. /\ op'[r] = o /\ target'[r] = t /\ w[r] = NoWrites
      /\ \A q \in Requests \ {r} : op'[q] = op[q] /\ target'[q] = target[q]
      /\ pc' = [pc EXCEPT ![r] = step] /\ step \in Ended \cup {"write"}
      /\ step = "write" /\ "default" \in Checks(o) /\ t = NoFolio => default = {}
      /\ step = "write" => MakesDefault(o, t, NoWrites)
      /\ UNCHANGED <<w, default>>
  BY DEF Arrives, KeptInv, TypeInv, RequestsKeep, Progress, db, Ended
<1>2. /\ Busy' \subseteq Busy \cup {r} /\ Busy \subseteq Requests
      /\ r \in Busy' => step = "write"
  BY <1>1, WhoIsBusy DEF KeptInv, Busy
<1>3. Lone("default")' /\ ("default" \notin raced' => "default" \notin raced)
  BY ArriveLone DEF DefaultInv
<1>4. ASSUME NEW q \in Busy' PROVE MakesDefault(op'[q], target'[q], w'[q])
  BY <1>1, <1>2, <1>4, NoWritesAreWrites DEF DefaultInv, MakesDefault
<1>5. ASSUME "default" \notin raced', NEW q \in Busy', "default" \in Checks(op'[q]),
             target'[q] = NoFolio
      PROVE  default = {}
  BY <1>1, <1>2, <1>3, <1>5 DEF DefaultInv
<1>6. "default" \notin raced' => \A f, g \in default : f = g
  BY <1>3 DEF DefaultInv
<1> QED
  BY <1>1, <1>3, <1>4, <1>5, <1>6 DEF DefaultInv, MakesDefault

\* Nothing but a commit stores a default portfolio.
LEMMA QuietDefault ==
    ASSUME KeptInv, DefaultInv, UNCHANGED <<default, raced>>, Busy' \subseteq Busy,
           \A q \in Busy' : /\ op'[q] = op[q] /\ target'[q] = target[q]
                            /\ w'[q] = w[q] \/ MakesDefault(op[q], target[q], w'[q])
    PROVE  DefaultInv'
<1>1. Lone("default")'
  BY StayLone DEF DefaultInv
<1>2. \A q \in Busy' : MakesDefault(op'[q], target'[q], w'[q])
  BY DEF DefaultInv, MakesDefault
<1>3. "default" \notin raced' =>
          /\ \A f, g \in default' : f = g
          /\ \A q \in Busy' : "default" \in Checks(op'[q]) /\ target'[q] = NoFolio
                                  => default' = {}
  BY DEF DefaultInv
<1> QED
  BY <1>1, <1>2, <1>3 DEF DefaultInv, MakesDefault

\* The default portfolio a commit stores is the only one.
LEMMA CommitDefault ==
    ASSUME KeptInv, DefaultInv, NEW r \in Requests, Commit(r)
    PROVE  DefaultInv'
<1> DEFINE x == w[r]
<1>1. /\ TypeInv /\ op' = op /\ raced' = raced /\ default' = default \cup x.default
      /\ pc[r] = "commit" /\ pc' = [pc EXCEPT ![r] = "done"]
      /\ \A q \in Requests \ {r} : w'[q] = w[q] /\ target'[q] = target[q]
  BY CommitDoes DEF Commit, KeptInv
<1>2. Busy' = Busy \ {r} /\ r \in Busy /\ Busy \subseteq Requests
  BY <1>1, WhoIsBusy DEF Busy, Ended
<1>3. Lone("default")'
  BY <1>1, <1>2, StayLone DEF DefaultInv
<1>4. \A q \in Busy' : MakesDefault(op'[q], target'[q], w'[q])
  BY <1>1, <1>2 DEF DefaultInv, MakesDefault
<1>5. MakesDefault(op[r], target[r], x)
  BY <1>2 DEF DefaultInv, MakesDefault
<1>6. CASE x.default = {}
  BY <1>1, <1>2, <1>3, <1>4, <1>6 DEF DefaultInv, MakesDefault
<1>7. CASE x.default # {}
  <2>1. "default" \in Checks(op[r]) /\ ("default" \notin raced => default = {})
    BY <1>2, <1>5, <1>7 DEF DefaultInv, MakesDefault, Checks
  <2>2. "default" \notin raced => \A q \in Busy' : "default" \notin Checks(op[q])
    BY <1>2, <2>1 DEF DefaultInv, Lone
  <2>3. "default" \notin raced => \A f, g \in default' : f = g
    BY <1>1, <1>5, <2>1 DEF MakesDefault
  <2> QED
    BY <1>1, <1>3, <1>4, <2>2, <2>3 DEF DefaultInv, MakesDefault
<1> QED
  BY <1>6, <1>7

-----------------------------------------------------------------------------
(* One holding for each watchlist entry. *)

\* Initially nothing is being moved.
LEMMA InitMove == Init => MoveInv
<1> SUFFICES ASSUME Init PROVE MoveInv
  OBVIOUS
<1>1. Busy = {} /\ \A r \in Requests : Moved(r) = {}
  BY DEF Init, Busy, Ended, Moved
<1> QED
  BY <1>1 DEF MoveInv, Lone

\* An entry to be moved is on the watchlist.
LEMMA ArriveMove ==
    ASSUME KeptInv, MoveInv, NEW r \in Requests, NEW o, NEW t, NEW step,
           Arrives(r, o, t, step)
    PROVE  MoveInv'
<1>1. /\ op'[r] = o /\ w[r] = NoWrites /\ pc'[r] = step /\ pc[r] = "new"
      /\ \A q \in Requests \ {r} : op'[q] = op[q] /\ pc'[q] = pc[q]
      /\ pc' = [pc EXCEPT ![r] = step] /\ step \in Ended \cup {"write"}
      /\ o.kind = "move" => o.what \subseteq watch /\ step # "done"
      /\ UNCHANGED <<w, watch>>
  BY DEF Arrives, KeptInv, TypeInv, RequestsKeep, Progress, db, Ended
<1>2. Busy' \subseteq Busy \cup {r} /\ Busy \subseteq Requests /\ (r \in Busy' => step = "write")
  BY <1>1, WhoIsBusy DEF KeptInv, Busy
<1>3. Lone("move")' /\ ("move" \notin raced' => "move" \notin raced)
  BY ArriveLone DEF MoveInv
<1>4. \A q \in Requests : Moved(q)' = Moved(q)
  BY <1>1 DEF Moved
<1>5. ASSUME NEW q \in Busy' PROVE Unwatches(pc'[q], op'[q], w'[q])
  BY <1>1, <1>2, <1>5, NoWritesAreWrites DEF MoveInv, Unwatches
<1>6. "move" \notin raced' =>
          \A q \in Busy' : op'[q].kind = "move" => op'[q].what \subseteq watch'
  BY <1>1, <1>2, <1>3 DEF MoveInv
<1>7. "move" \notin raced' => /\ \A q \in Requests : Moved(q)' \cap watch' = {}
                              /\ \A p, q \in Requests : (Moved(p)' \cap Moved(q)' # {} => p = q)
  BY <1>1, <1>3, <1>4 DEF MoveInv
<1> QED
  BY <1>3, <1>5, <1>6, <1>7 DEF MoveInv, Unwatches

\* Nothing but a commit takes an entry off.
LEMMA QuietMove ==
    ASSUME KeptInv, MoveInv, UNCHANGED <<watch, raced>>, Busy' \subseteq Busy,
           \A q \in Busy' : op'[q] = op[q] /\ Unwatches(pc'[q], op[q], w'[q]),
           \A q \in Requests : Moved(q)' = Moved(q)
    PROVE  MoveInv'
<1>1. Lone("move")'
  BY StayLone DEF MoveInv
<1>2. "move" \notin raced' =>
          \A q \in Busy' : op'[q].kind = "move" => op'[q].what \subseteq watch'
  BY DEF MoveInv
<1>3. "move" \notin raced' => /\ \A q \in Requests : Moved(q)' \cap watch' = {}
                              /\ \A p, q \in Requests : (Moved(p)' \cap Moved(q)' # {} => p = q)
  BY DEF MoveInv
<1> QED
  BY <1>1, <1>2, <1>3 DEF MoveInv, Unwatches

\* An entry is gone from the watchlist with the commit that moves it.
LEMMA CommitMove ==
    ASSUME KeptInv, MoveInv, NEW r \in Requests, Commit(r)
    PROVE  MoveInv'
<1> DEFINE x == w[r]
<1>1. /\ TypeInv /\ op' = op /\ raced' = raced /\ watch' = watch \ x.unwatched
      /\ pc[r] = "commit" /\ pc' = [pc EXCEPT ![r] = "done"] /\ pc'[r] = "done"
      /\ \A q \in Requests \ {r} : w'[q] = w[q] /\ pc'[q] = pc[q]
  BY CommitDoes DEF Commit, KeptInv
<1>2. Busy' = Busy \ {r} /\ r \in Busy /\ Busy \subseteq Requests
  BY <1>1, WhoIsBusy DEF Busy, Ended
<1>3. Lone("move")'
  BY <1>1, <1>2, StayLone DEF MoveInv
<1>4. \A q \in Busy' : Unwatches(pc'[q], op'[q], w'[q])
  BY <1>1, <1>2 DEF MoveInv, Unwatches
<1>5. /\ \A q \in Requests \ {r} : Moved(q)' = Moved(q)
      /\ Moved(r)' = IF op[r].kind = "move" THEN op[r].what ELSE {}
  BY <1>1 DEF Moved
<1>6. CASE op[r].kind # "move"
  <2>1. watch' = watch /\ Moved(r)' = {} /\ Moved(r) = {}
    BY <1>1, <1>2, <1>5, <1>6 DEF MoveInv, Moved, Unwatches
  <2>2. Moved(r)' = Moved(r) /\ \A q \in Busy' : op'[q] = op[q] /\ q \in Busy
    BY <1>1, <1>2, <2>1
  <2> QED
    BY <1>1, <1>2, <1>4, <1>5, <2>1, <2>2, QuietMove
<1>7. CASE op[r].kind = "move"
  <2>1. x.unwatched = op[r].what /\ Moved(r)' = op[r].what
    BY <1>1, <1>2, <1>5, <1>7 DEF MoveInv, Unwatches
  <2>2. "move" \notin raced => \A q \in Busy' : op[q].kind # "move"
    BY <1>2, <1>7 DEF MoveInv, Lone, Checks
  <2>3. "move" \notin raced => op[r].what \subseteq watch
    BY <1>2, <1>7 DEF MoveInv
  <2>4. "move" \notin raced => /\ \A q \in Requests : Moved(q) \cap watch = {}
                               /\ \A p, q \in Requests : (Moved(p) \cap Moved(q) # {} => p = q)
    BY DEF MoveInv
  <2> HIDE DEF x, Moved
  <2>5. "move" \notin raced => \A q \in Requests : Moved(q)' \cap watch' = {}
    BY <1>1, <1>5, <2>1, <2>4
  <2>6. ASSUME "move" \notin raced, NEW p \in Requests, NEW q \in Requests,
               Moved(p)' \cap Moved(q)' # {}
        PROVE  p = q
    BY <1>5, <2>1, <2>3, <2>4, <2>6
  <2> QED
    BY <1>1, <1>3, <1>4, <2>2, <2>5, <2>6 DEF MoveInv, Unwatches
<1> QED
  BY <1>6, <1>7

-----------------------------------------------------------------------------
(* A request alone. *)

\* Initially no request has company.
LEMMA InitCompany == Init => CompanyInv
BY DEF Init, CompanyInv, FailuresNeedCompany, Busy, Ended

\* A request that finds nobody under way finds everything undisturbed.
LEMMA ArriveCompany ==
    ASSUME KeptInv, CompanyInv, NEW r \in Requests, NEW o, NEW t, NEW step,
           Arrives(r, o, t, step)
    PROVE  CompanyInv'
<1>1. /\ op'[r] = o /\ w[r] = NoWrites /\ pc'[r] = step /\ target'[r] = t
      /\ \A q \in Requests \ {r} : pc'[q] = pc[q]
      /\ pc' = [pc EXCEPT ![r] = step] /\ step \in Ended \cup {"write"}
      /\ crowded' = IF Busy = {} THEN crowded ELSE crowded \cup Busy \cup {r}
      /\ step = "failed" => Cardinality(default) > 1
      /\ step = "write" => Undisturbed(step, o, t, NoWrites, folio, item)
      /\ UNCHANGED <<w, folio, item, default>>
  BY DEF Arrives, KeptInv, TypeInv, RequestsKeep, Progress, db, Ended
<1>2. Busy' \subseteq Busy \cup {r} /\ (r \in Busy' => step = "write")
  BY <1>1, WhoIsBusy DEF KeptInv
<1>3. FailuresNeedCompany'
  BY <1>1 DEF CompanyInv, FailuresNeedCompany
<1>4. ASSUME NEW q \in Busy' \ crowded'
      PROVE  Busy' = {q} /\ Undisturbed(pc'[q], op'[q], target'[q], w'[q], folio', item')
  <2>1. Busy = {} /\ q = r
    BY <1>1, <1>2, <1>4
  <2> QED
    BY <1>1, <1>2, <1>4, <2>1
<1> QED
  BY <1>3, <1>4 DEF CompanyInv

\* A request goes on: nobody else has come.
LEMMA GoCompany ==
    ASSUME KeptInv, CompanyInv, NEW r \in Requests, pc[r] \notin Ended,
           NEW step \in Steps \ Ended, pc' = [pc EXCEPT ![r] = step],
           UNCHANGED <<folio, item, default, crowded, op, target>>,
           r \notin crowded => Undisturbed(step, op[r], target[r], w'[r], folio, item)
    PROVE  CompanyInv'
<1>1. Busy' = Busy /\ r \in Busy /\ pc'[r] = step /\ \A q \in Requests \ {r} : pc'[q] = pc[q]
  BY WhoIsBusy DEF Busy, KeptInv, TypeInv
<1>2. FailuresNeedCompany'
  BY <1>1 DEF CompanyInv, FailuresNeedCompany, Ended
<1>3. ASSUME NEW q \in Busy' \ crowded'
      PROVE  Busy' = {q} /\ Undisturbed(pc'[q], op'[q], target'[q], w'[q], folio', item')
  <2>1. Busy = {q} /\ q = r
    BY <1>1, <1>3 DEF CompanyInv
  <2> QED
    BY <1>1, <1>3, <2>1
<1> QED
  BY <1>2, <1>3 DEF CompanyInv

\* A request that ends was alone, or leaves only crowded ones.
LEMMA EndCompany ==
    ASSUME KeptInv, CompanyInv, NEW r \in Requests, pc[r] \notin Ended,
           NEW step \in Ended, pc' = [pc EXCEPT ![r] = step],
           step = "failed" => r \in crowded,
           crowded' = crowded, default \subseteq default', TypeInv'
    PROVE  CompanyInv'
<1>1. Busy' = Busy \ {r} /\ r \in Busy /\ pc'[r] = step
      /\ \A q \in Requests \ {r} : pc'[q] = pc[q]
  BY WhoIsBusy DEF Busy, KeptInv, TypeInv
<1>2. Cardinality(default) > 1 => Cardinality(default') > 1
  <2>1. default' \subseteq Folios /\ IsFiniteSet(Folios)
    BY DefaultCounts DEF TypeInv, KeptInv
  <2>2. IsFiniteSet(default')
    BY <2>1, FS_Subset
  <2>3. /\ Cardinality(default) <= Cardinality(default')
        /\ Cardinality(default) \in Nat /\ Cardinality(default') \in Nat
    BY <2>2, FS_Subset, FS_CardinalityType
  <2> QED
    BY <2>3
<1>3. FailuresNeedCompany'
  BY <1>1, <1>2 DEF CompanyInv, FailuresNeedCompany
<1>4. Busy' \ crowded' = {}
  BY <1>1 DEF CompanyInv
<1> QED
  BY <1>3, <1>4 DEF CompanyInv

-----------------------------------------------------------------------------
(* The steps of a request. *)

\* What request r may write and go on to step with, by itself and beside others.
Allowed(r, step, x) ==
    /\ Progress(step, op[r], x, counted[r]) /\ Reasons(op[r], x)
    /\ Placed(x, folio, item) /\ Apart(x, x)
    /\ Making(op[r], x, folio)
    /\ Destined(op[r], target[r], x, default) /\ Counts(step, op[r], x, counted[r])
    /\ Cites(step, x, item) /\ Spares(step, x, x)
    /\ MakesDefault(op[r], target[r], x) /\ Unwatches(step, op[r], x)
    /\ r \notin crowded => Undisturbed(step, op[r], target[r], x, folio, item)

Compatible(r, step, x) ==
    \A q \in Requests \ {r} :
        /\ Apart(w[q], x) /\ Apart(x, w[q])
        /\ \A f \in Folios : x.folio[f] # "same" => w[q].folio[f] = "same"
        /\ Spares(step, x, w[q]) /\ Spares(pc[q], w[q], x)

\* A statement that is allowed and compatible keeps everything.
LEMMA GoInv ==
    ASSUME IInv, NEW r \in Requests, NEW step \in Steps \ Ended, NEW x \in Writes,
           Go(r, step, x), pc[r] \notin Ended, Allowed(r, step, x), Compatible(r, step, x)
    PROVE  IInv'
<1> USE DEF IInv
<1>1. /\ pc' = [pc EXCEPT ![r] = step]
      /\ pc'[r] = step /\ w'[r] = x
      /\ \A q \in Requests \ {r} : pc'[q] = pc[q] /\ w'[q] = w[q]
      /\ UNCHANGED <<folio, default, item, watch, op, target, crowded, raced>>
  BY DEF Go, db, history, KeptInv, TypeInv
<1>2. Busy' = Busy /\ Busy \subseteq Requests
  BY <1>1, WhoIsBusy DEF Busy, KeptInv, TypeInv
<1>3. KeptInv'
  BY GoKept DEF Allowed, Compatible
<1>4. MadeInv'
  BY GoMade DEF Allowed, Compatible
<1>5. ValuedInv'
  BY GoValued DEF Allowed, Compatible
<1>6. LimitInv'
  BY <1>1, <1>2, QuietLimit
<1>7. DefaultInv'
  <2>1. ASSUME NEW q \in Busy'
        PROVE  w'[q] = w[q] \/ MakesDefault(op[q], target[q], w'[q])
    BY <1>1, <1>2, <2>1 DEF Allowed
  <2> QED
    BY <1>1, <1>2, <2>1, QuietDefault
<1>8. MoveInv'
  <2>1. \A q \in Requests : Moved(q)' = Moved(q)
    BY <1>1 DEF Moved, Ended
  <2>2. ASSUME NEW q \in Busy' PROVE Unwatches(pc'[q], op[q], w'[q])
    BY <1>1, <1>2, <2>2 DEF Allowed, MoveInv
  <2> QED
    BY <1>1, <1>2, <2>1, <2>2, QuietMove
<1>9. CompanyInv'
  BY <1>1, GoCompany DEF Allowed
<1> QED
  BY <1>3, <1>4, <1>5, <1>6, <1>7, <1>8, <1>9

\* So does a roll back, if a request that fails was not alone.
LEMMA RollBackInv ==
    ASSUME IInv, NEW r \in Requests, NEW end \in {"failed", "refused"}, RollBack(r, end),
           pc[r] \notin Ended, end = "failed" => r \in crowded
    PROVE  IInv'
<1> USE DEF IInv
<1>1. /\ pc' = [pc EXCEPT ![r] = end] /\ pc'[r] = end /\ end \in Ended
      /\ \A q \in Requests \ {r} : /\ pc'[q] = pc[q] /\ w'[q] = w[q]
                                   /\ op'[q] = op[q] /\ target'[q] = target[q]
      /\ UNCHANGED <<folio, default, item, watch, crowded, raced>>
  BY DEF RollBack, db, history, KeptInv, TypeInv, Ended
<1>2. Busy' = Busy \ {r} /\ Busy \subseteq Requests
  BY <1>1, WhoIsBusy DEF Busy, KeptInv, TypeInv
<1>3. KeptInv'
  BY RollBackKept
<1>4. MadeInv' /\ ValuedInv'
  BY RollBackMade, RollBackValued
<1>5. LimitInv' /\ DefaultInv'
  BY <1>1, <1>2, QuietLimit, QuietDefault
<1>6. MoveInv'
  <2>1. ASSUME NEW q \in Requests PROVE Moved(q)' = Moved(q)
    BY <1>1, <2>1 DEF Moved, Ended
  <2>2. ASSUME NEW q \in Busy' PROVE Unwatches(pc'[q], op[q], w'[q])
    BY <1>1, <1>2, <2>2 DEF MoveInv
  <2> QED
    BY <1>1, <1>2, <2>1, <2>2, QuietMove
<1>7. CompanyInv'
  BY <1>1, <1>3, EndCompany DEF KeptInv
<1> QED
  BY <1>3, <1>4, <1>5, <1>6, <1>7

\* So do arriving, reading for a valuation and committing.
LEMMA ArriveInv ==
    ASSUME IInv, NEW r \in Requests, Arrive(r)
    PROVE  IInv'
<1> USE DEF IInv
<1>1. PICK o, t, step : Arrives(r, o, t, step)
  BY Arrival
<1> QED
  BY <1>1, ArriveKept, ArriveMade, ArriveValued, ArriveLimit, ArriveDefault, ArriveMove,
     ArriveCompany

\* A valuation that is written.
LEMMA ValueInv ==
    ASSUME IInv, NEW r \in Requests, Value(r)
    PROVE  IInv'
<1> USE DEF IInv
<1> DEFINE step == IF valued # {} THEN AfterValue(r) ELSE "record"
<1>1. /\ pc' = [pc EXCEPT ![r] = step] /\ pc[r] = "value"
      /\ UNCHANGED <<folio, default, item, watch, op, target, w, crowded, raced>>
  BY DEF Value, db, history
<1>2. /\ step \in Steps \ Ended /\ pc[r] \notin Ended /\ step # "drop"
      /\ step = "commit" => op[r].kind # "move"
  BY <1>1 DEF AfterValue, Steps, Ended
<1> HIDE DEF step
<1>3. /\ pc'[r] = step /\ \A q \in Requests \ {r} : pc'[q] = pc[q]
      /\ Busy' = Busy /\ Busy \subseteq Requests /\ r \in Busy
  BY <1>1, <1>2, WhoIsBusy DEF Busy, KeptInv, TypeInv
<1>4. KeptInv' /\ ValuedInv'
  BY ValueKept, ValueValued
<1>5. MadeInv'
  BY <1>1 DEF MadeInv, Single, DefaultsStay, Touching
<1>6. LimitInv' /\ DefaultInv'
  BY <1>1, <1>3, QuietLimit, QuietDefault
<1>7. MoveInv'
  <2>1. ASSUME NEW q \in Requests PROVE Moved(q)' = Moved(q)
    BY <1>1, <1>2, <1>3, <2>1 DEF Moved, Ended
  <2>2. ASSUME NEW q \in Busy' PROVE Unwatches(pc'[q], op[q], w'[q])
    BY <1>1, <1>2, <1>3, <2>2 DEF MoveInv, Unwatches
  <2> QED
    BY <1>1, <1>3, <2>1, <2>2, QuietMove
<1>8. CompanyInv'
  <2>1. r \notin crowded => Undisturbed(pc[r], op[r], target[r], w[r], folio, item)
    BY <1>3 DEF CompanyInv
  <2>2. r \notin crowded => Undisturbed(step, op[r], target[r], w'[r], folio, item)
    BY <1>1, <1>2, <2>1 DEF Undisturbed
  <2> QED
    BY <1>1, <1>2, <2>2, GoCompany
<1> QED
  BY <1>4, <1>5, <1>6, <1>7, <1>8

\* A commit.
LEMMA CommitInv ==
    ASSUME IInv, NEW r \in Requests, Commit(r)
    PROVE  IInv'
<1> USE DEF IInv
<1>1. CompanyInv'
  <2>1. /\ pc' = [pc EXCEPT ![r] = "done"] /\ pc[r] \notin Ended /\ "done" \in Ended
        /\ crowded' = crowded /\ default \subseteq default'
    BY DEF Commit, Ended
  <2>2. TypeInv'
    BY CommitDoes
  <2> QED
    BY <2>1, <2>2, EndCompany
<1> QED
  BY <1>1, CommitKept, CommitMade, CommitValued, CommitLimit, CommitDefault, CommitMove

\* A request under way that nobody has come beside is undisturbed, and has
\* nobody to wait for.
LEMMA AloneIsFree ==
    ASSUME IInv, NEW r \in Requests, pc[r] \notin Ended, r \notin crowded
    PROVE  /\ Undisturbed(pc[r], op[r], target[r], w[r], folio, item)
           /\ ~Waiting(r)
<1>1. Busy = {r} /\ Undisturbed(pc[r], op[r], target[r], w[r], folio, item)
  BY DEF IInv, CompanyInv, Busy
<1>2. \A q \in Requests \ {r} : w[q] = NoWrites
  BY <1>1 DEF Busy, IInv, KeptInv, RequestsKeep, Progress
<1>3. ASSUME NEW q \in Requests \ {r}, Blocks(q, r) PROVE FALSE
  <2>1. w[q] = NoWrites /\ TypeInv /\ op[r].at \in Folios \cup {NoFolio}
    BY <1>2 DEF IInv, KeptInv, TypeInv, Operations
  <2>2. /\ Sensible(op[r]) /\ op[r].to \in Folios \cup {NoFolio}
        /\ target[r] \in Folios \cup {NoFolio} /\ counted[r] \subseteq Items
    BY DEF IInv, KeptInv, RequestsKeep, TypeInv, Operations
  <2>3. Progress(pc[r], op[r], w[r], counted[r])
    BY DEF IInv, KeptInv, RequestsKeep
  <2> QED
    BY <1>3, <2>1, <2>2, <2>3, NoWritesAreWrites, Marks
       DEF Blocks, Deleting, Touching, Placing, Writing, Citing, Held, Sensible, Progress
<1> QED
  BY <1>1, <1>3 DEF Waiting

\* What has written nothing to be valued, and takes no holding, is in nobody's way.
LEMMA PlainValued ==
    ASSUME NEW x \in Writes, x.valued = {}
    PROVE  /\ \A step, its : Cites(step, x, its)
           /\ \A step, y : Spares(step, x, y)
           /\ \A step, o, c : step \notin {"record", "evidence"} => Counts(step, o, x, c)
BY DEF Cites, Spares, Counts

\* An operation that takes no holding away.
LEMMA TakesNothing ==
    ASSUME NEW x \in Writes, \A i \in Items : x.item[i] # NoFolio
    PROVE  \A step, y : y \in Writes => Spares(step, y, x)
BY DEF Spares, Writes

-----------------------------------------------------------------------------
(* Statements: the first write. *)

\* What a request has before it writes.
LEMMA BeforeWriting ==
    ASSUME IInv, NEW r \in Requests, pc[r] = "write"
    PROVE  /\ w[r] = NoWrites /\ op[r] \in Operations /\ target[r] \in Folios \cup {NoFolio}
           /\ Sensible(op[r]) /\ KnownTo(op[r], target[r], folio)
           /\ MakesDefault(op[r], target[r], w[r]) /\ Destined(op[r], target[r], w[r], default)
           /\ r \notin crowded => Undisturbed("write", op[r], target[r], w[r], folio, item)
           /\ \A q \in Requests : w[q] \in Writes
           /\ pc[r] \notin Ended
<1>1. pc[r] \notin Ended /\ r \in Busy
  BY DEF Busy, Ended
<1>2. w[r] = NoWrites /\ Sensible(op[r]) /\ KnownTo(op[r], target[r], folio)
  BY DEF IInv, KeptInv, RequestsKeep, Progress
<1>3. /\ op[r] \in Operations /\ target[r] \in Folios \cup {NoFolio}
      /\ \A q \in Requests : w[q] \in Writes
  BY DEF IInv, KeptInv, TypeInv
<1>4. MakesDefault(op[r], target[r], w[r]) /\ Destined(op[r], target[r], w[r], default)
  BY <1>1 DEF IInv, DefaultInv, ValuedInv
<1>5. r \notin crowded => Undisturbed("write", op[r], target[r], w[r], folio, item)
  BY <1>1, AloneIsFree
<1> QED
  BY <1>1, <1>2, <1>3, <1>4, <1>5

\* What was undisturbed is so at the next statement.
LEMMA StaysUndisturbed ==
    ASSUME NEW s, NEW o, NEW t, NEW x, Undisturbed(s, o, t, x, folio, item)
    PROVE  \A step, y : step # "drop" => Undisturbed(step, o, t, y, folio, item)
BY DEF Undisturbed

\* A portfolio is made, the default one if it was missing.
LEMMA MakeFolioInv ==
    ASSUME IInv, NEW r \in Requests, MakeFolio(r)
    PROVE  IInv'
<1> DEFINE n == NewFolio
           x == [w[r] EXCEPT !.folio[n] = "active",
                             !.default = IF op[r].kind = "list" THEN {n} ELSE {}]
<1>1. Go(r, "commit", x) /\ pc[r] = "write" /\ op[r].kind \in {"list", "create"} /\ RoomLeft
  BY DEF MakeFolio, At
<1>2. /\ n \in Folios /\ folio[n] = "absent" /\ \A q \in Requests : w[q].folio[n] = "same"
  BY <1>1, NewRows DEF IInv, KeptInv
<1>3. /\ w[r] = NoWrites /\ MakesDefault(op[r], target[r], w[r])
      /\ r \notin crowded => Undisturbed("write", op[r], target[r], w[r], folio, item)
      /\ \A q \in Requests : w[q] \in Writes
      /\ pc[r] \notin Ended
  BY <1>1, BeforeWriting
<1>4. /\ x \in Writes
      /\ \A f \in Folios : x.folio[f] = IF f = n THEN "active" ELSE "same"
      /\ \A i \in Items : x.item[i] = Same
      /\ x.default = (IF op[r].kind = "list" THEN {n} ELSE {})
      /\ x.unwatched = {} /\ x.valued = {}
  BY <1>2, <1>3, NoWritesAreWrites DEF Writes
<1> HIDE DEF x, n
<1>5. Allowed(r, "commit", x)
  <2>1. Progress("commit", op[r], x, counted[r]) /\ Reasons(op[r], x)
    BY <1>4, Marks DEF Progress, Reasons, Ended
  <2>2. Placed(x, folio, item) /\ Apart(x, x)
    BY <1>4, Marks DEF Placed, Apart
  <2>3. Making(op[r], x, folio)
    BY <1>1, <1>2, <1>4 DEF Making
  <2>4. Destined(op[r], target[r], x, default)
    BY <1>1 DEF Destined
  <2>5. /\ Counts("commit", op[r], x, counted[r])
        /\ Cites("commit", x, item) /\ Spares("commit", x, x)
    BY <1>4, PlainValued
  <2>6. MakesDefault(op[r], target[r], x) /\ Unwatches("commit", op[r], x)
    BY <1>1, <1>3, <1>4 DEF MakesDefault, Unwatches
  <2> QED
    BY <1>3, <2>1, <2>2, <2>3, <2>4, <2>5, <2>6, StaysUndisturbed DEF Allowed
<1>6. Compatible(r, "commit", x)
  <2> SUFFICES ASSUME NEW q \in Requests \ {r}
               PROVE  /\ Apart(w[q], x) /\ Apart(x, w[q])
                      /\ \A f \in Folios : x.folio[f] # "same" => w[q].folio[f] = "same"
                      /\ Spares("commit", x, w[q]) /\ Spares(pc[q], w[q], x)
    BY DEF Compatible
  <2>1. Apart(w[q], x) /\ Apart(x, w[q])
    BY <1>4, Marks DEF Apart
  <2>2. Spares("commit", x, w[q]) /\ Spares(pc[q], w[q], x)
    BY <1>3, <1>4, PlainValued, TakesNothing, Marks
  <2> QED
    BY <1>2, <1>4, <2>1, <2>2
<1> QED
  BY <1>1, <1>3, <1>4, <1>5, <1>6, GoInv DEF Steps, Ended

\* A holding is added, in a portfolio made for it or in one that is there.
LEMMA MakeItemInv ==
    ASSUME IInv, NEW r \in Requests, MakeItem(r)
    PROVE  IInv'
<1> DEFINE n == NewFolio
           j == NewItem
           t == target[r]
<1>1. pc[r] = "write" /\ op[r].kind \in {"import", "add", "move"} /\ RoomLeft /\ ~Waiting(r)
  BY DEF MakeItem, At
<1>2. /\ n \in Folios /\ folio[n] = "absent" /\ \A q \in Requests : w[q].folio[n] = "same"
      /\ j \in Items
  BY <1>1, NewRows DEF IInv, KeptInv
<1>3. /\ w[r] = NoWrites /\ t \in Folios \cup {NoFolio}
      /\ KnownTo(op[r], t, folio) /\ MakesDefault(op[r], t, w[r])
      /\ Destined(op[r], t, w[r], default)
      /\ r \notin crowded => Undisturbed("write", op[r], t, w[r], folio, item)
      /\ \A q \in Requests : w[q] \in Writes
      /\ pc[r] \notin Ended
  BY <1>1, BeforeWriting
<1> HIDE DEF n, j
<1>4. CASE t = NoFolio
  <2> DEFINE x == [w[r] EXCEPT !.folio[n] = "active",
                               !.default = IF op[r].kind = "import" THEN {} ELSE {n},
                               !.item[j] = n]
  <2>1. Go(r, "value", x)
    BY <1>4 DEF MakeItem, n, j
  <2>2. /\ x \in Writes
        /\ \A f \in Folios : x.folio[f] = IF f = n THEN "active" ELSE "same"
        /\ \A i \in Items : x.item[i] = IF i = j THEN n ELSE Same
        /\ x.default = (IF op[r].kind = "import" THEN {} ELSE {n})
        /\ x.unwatched = {} /\ x.valued = {}
    <3>1. w[r] \in Writes /\ NoWrites \in Writes
      BY <1>3
    <3>2. x \in Writes
      BY <1>2, <3>1 DEF Writes
    <3>3. /\ \A f \in Folios : x.folio[f] = IF f = n THEN "active" ELSE "same"
          /\ \A i \in Items : x.item[i] = IF i = j THEN n ELSE Same
      BY <1>2, <1>3, <3>1, NoWritesAreWrites DEF Writes
    <3>4. /\ x.default = (IF op[r].kind = "import" THEN {} ELSE {n})
          /\ x.unwatched = {} /\ x.valued = {}
      BY <1>3, <3>1, NoWritesAreWrites DEF Writes
    <3> QED
      BY <3>2, <3>3, <3>4
  <2> HIDE DEF x
  <2>3. \A i \in Items : x.item[i] # NoFolio
    BY <1>2, <2>2, Marks
  <2>4. Allowed(r, "value", x)
    <3>1. Progress("value", op[r], x, counted[r]) /\ Reasons(op[r], x)
      BY <2>2, <2>3 DEF Progress, Reasons, Ended
    <3>2. Placed(x, folio, item) /\ Apart(x, x)
      BY <1>2, <2>2, Marks DEF Placed, Apart
    <3>3. Making(op[r], x, folio)
      BY <1>1, <1>2, <2>2 DEF Making
    <3>4. Destined(op[r], t, x, default)
      BY <1>2, <1>4, <2>2 DEF Destined
    <3>5. /\ Counts("value", op[r], x, counted[r])
          /\ Cites("value", x, item) /\ Spares("value", x, x)
      BY <2>2, PlainValued
    <3>6. MakesDefault(op[r], t, x) /\ Unwatches("value", op[r], x)
      BY <1>1, <1>3, <1>4, <2>2 DEF MakesDefault, Unwatches
    <3> QED
      BY <1>3, <3>1, <3>2, <3>3, <3>4, <3>5, <3>6, StaysUndisturbed DEF Allowed
  <2>5. Compatible(r, "value", x)
    <3> SUFFICES ASSUME NEW q \in Requests \ {r}
                 PROVE  /\ Apart(w[q], x) /\ Apart(x, w[q])
                        /\ \A f \in Folios : x.folio[f] # "same" => w[q].folio[f] = "same"
                        /\ Spares("value", x, w[q]) /\ Spares(pc[q], w[q], x)
      BY DEF Compatible
    <3>1. Apart(w[q], x) /\ Apart(x, w[q])
      BY <1>2, <2>2, Marks DEF Apart
    <3>2. Spares("value", x, w[q]) /\ Spares(pc[q], w[q], x)
      BY <1>3, <2>2, <2>3, PlainValued, TakesNothing
    <3> QED
      BY <1>2, <2>2, <3>1, <3>2
  <2> QED
    BY <1>3, <2>1, <2>2, <2>4, <2>5, GoInv DEF Steps, Ended
<1>5. CASE t # NoFolio /\ folio[t] = "deleted"
  <2>1. RollBack(r, "failed")
    BY <1>5 DEF MakeItem, Fail
  <2>2. r \in crowded
    BY <1>3, <1>5 DEF Undisturbed
  <2> QED
    BY <1>3, <2>1, <2>2, RollBackInv
<1>6. CASE t # NoFolio /\ folio[t] # "deleted"
  <2> DEFINE x == [w[r] EXCEPT !.item[j] = t]
  <2>1. Go(r, "value", x)
    BY <1>6 DEF MakeItem, j
  <2>2. /\ x \in Writes
        /\ \A f \in Folios : x.folio[f] = "same"
        /\ \A i \in Items : x.item[i] = IF i = j THEN t ELSE Same
        /\ x.default = {} /\ x.unwatched = {} /\ x.valued = {}
    BY <1>2, <1>3, NoWritesAreWrites DEF Writes
  <2> HIDE DEF x
  <2>3. \A i \in Items : x.item[i] # NoFolio
    BY <1>6, <2>2, Marks
  <2>4. folio[t] \in {"active", "archived"} /\ t \in Folios
    BY <1>3, <1>6 DEF KnownTo, IInv, KeptInv, TypeInv
  <2>5. op[r].kind \in {"add", "move"}
    BY <1>1, <1>3, <1>6 DEF Destined
  <2>6. Allowed(r, "value", x)
    <3>1. Progress("value", op[r], x, counted[r]) /\ Reasons(op[r], x)
      BY <2>2, <2>3 DEF Progress, Reasons, Ended
    <3>2. Placed(x, folio, item) /\ Apart(x, x)
      BY <2>2, <2>4, Marks DEF Placed, Apart
    <3>3. Making(op[r], x, folio)
      BY <2>2 DEF Making
    <3>4. Destined(op[r], t, x, default)
      BY <1>3, <1>6, <2>2, <2>4, <2>5 DEF Destined
    <3>5. /\ Counts("value", op[r], x, counted[r])
          /\ Cites("value", x, item) /\ Spares("value", x, x)
      BY <2>2, PlainValued
    <3>6. MakesDefault(op[r], t, x) /\ Unwatches("value", op[r], x)
      BY <1>3, <2>2 DEF MakesDefault, Unwatches
    <3> QED
      BY <1>3, <3>1, <3>2, <3>3, <3>4, <3>5, <3>6, StaysUndisturbed DEF Allowed
  <2>7. Compatible(r, "value", x)
    <3> SUFFICES ASSUME NEW q \in Requests \ {r}
                 PROVE  /\ Apart(w[q], x) /\ Apart(x, w[q])
                        /\ \A f \in Folios : x.folio[f] # "same" => w[q].folio[f] = "same"
                        /\ Spares("value", x, w[q]) /\ Spares(pc[q], w[q], x)
      BY DEF Compatible
    <3>1. w[q].folio[t] # "deleted"
      BY <1>1, <1>6, <2>5 DEF Waiting, Blocks, Deleting
    <3>2. Apart(w[q], x) /\ Apart(x, w[q])
      BY <2>2, <3>1, Marks DEF Apart
    <3>3. Spares("value", x, w[q]) /\ Spares(pc[q], w[q], x)
      BY <1>3, <2>2, <2>3, PlainValued, TakesNothing
    <3> QED
      BY <2>2, <3>2, <3>3
  <2> QED
    BY <1>3, <2>1, <2>2, <2>6, <2>7, GoInv DEF Steps, Ended
<1> QED
  BY <1>4, <1>5, <1>6

\* A statement that writes holdings that are there.
LEMMA HoldingsOnly ==
    ASSUME IInv, NEW r \in Requests, NEW step \in {"value", "drop"}, NEW x \in Writes,
           pc[r] = "write", Go(r, step, x), op[r].kind \in {"update", "remove", "delete"},
           step = "drop" => op[r].kind = "delete",
           \A f \in Folios : x.folio[f] = "same",
           x.default = {}, x.unwatched = {}, x.valued = {},
           Reasons(op[r], x), Placed(x, folio, item),
           r \notin crowded => Undisturbed(step, op[r], target[r], x, folio, item),
           \A q \in Requests \ {r} : Apart(w[q], x) /\ Spares(pc[q], w[q], x)
    PROVE  IInv'
<1>1. /\ w[r] = NoWrites /\ MakesDefault(op[r], target[r], w[r])
      /\ pc[r] \notin Ended /\ step \in Steps \ Ended
  BY BeforeWriting DEF Steps, Ended
<1>2. Allowed(r, step, x)
  <2>1. Progress(step, op[r], x, counted[r]) /\ Apart(x, x) /\ Making(op[r], x, folio)
    BY DEF Progress, Ended, Apart, Making
  <2>2. Destined(op[r], target[r], x, default) /\ Unwatches(step, op[r], x)
    BY DEF Destined, Unwatches
  <2>3. MakesDefault(op[r], target[r], x)
    BY <1>1 DEF MakesDefault
  <2>4. Counts(step, op[r], x, counted[r]) /\ Cites(step, x, item) /\ Spares(step, x, x)
    BY PlainValued
  <2> QED
    BY <2>1, <2>2, <2>3, <2>4 DEF Allowed
<1>3. Compatible(r, step, x)
  BY PlainValued DEF Compatible, Apart
<1> QED
  BY <1>1, <1>2, <1>3, GoInv

\* A holding is changed, and perhaps put elsewhere.
LEMMA ChangeInv ==
    ASSUME IInv, NEW r \in Requests, Change(r)
    PROVE  IInv'
<1>1. pc[r] = "write" /\ op[r].kind = "update" /\ ~Waiting(r)
  BY DEF Change, At
<1>2. PICK i \in op[r].what :
         IF item[i] = NoFolio THEN Refuse(r) \/ Fail(r)
         ELSE IF op[r].to = NoFolio THEN Go(r, "value", [w[r] EXCEPT !.item[i] = item[i]])
         ELSE IF folio[op[r].to] = "deleted" THEN Fail(r)
         ELSE Go(r, "value", [w[r] EXCEPT !.item[i] = op[r].to])
  BY DEF Change
<1>3. /\ w[r] = NoWrites /\ op[r] \in Operations /\ Sensible(op[r])
      /\ KnownTo(op[r], target[r], folio)
      /\ r \notin crowded => Undisturbed("write", op[r], target[r], w[r], folio, item)
      /\ \A q \in Requests : w[q] \in Writes
      /\ pc[r] \notin Ended
  BY <1>1, BeforeWriting
<1>4. i \in Items /\ item[i] \in Folios \cup {NoFolio} /\ op[r].to \in Folios \cup {NoFolio}
  BY <1>1, <1>3 DEF Sensible, Operations, IInv, KeptInv, TypeInv
<1>5. CASE item[i] = NoFolio
  <2>1. r \in crowded
    BY <1>1, <1>3, <1>5 DEF Undisturbed
  <2> QED
    BY <1>2, <1>3, <1>5, <2>1, RollBackInv DEF Refuse, Fail
<1>6. CASE item[i] # NoFolio /\ op[r].to # NoFolio /\ folio[op[r].to] = "deleted"
  <2>1. r \in crowded
    BY <1>1, <1>3, <1>4, <1>6 DEF Undisturbed
  <2> QED
    BY <1>2, <1>3, <1>6, <2>1, RollBackInv DEF Fail
<1>7. CASE item[i] # NoFolio /\ (op[r].to # NoFolio => folio[op[r].to] # "deleted")
  <2> DEFINE f == IF op[r].to = NoFolio THEN item[i] ELSE op[r].to
             x == [w[r] EXCEPT !.item[i] = f]
  <2>1. Go(r, "value", x)
    BY <1>2, <1>7
  <2>2. f \in Folios /\ folio[f] \in {"active", "archived"}
    <3>1. CASE op[r].to = NoFolio
      BY <1>4, <1>7, <3>1 DEF IInv, KeptInv, Housed
    <3>2. CASE op[r].to # NoFolio
      <4>1. op[r].to \in Folios /\ folio[op[r].to] \notin {"absent", "deleted"}
        BY <1>3, <1>4, <1>7, <3>2 DEF KnownTo
      <4> QED
        BY <3>2, <4>1 DEF IInv, KeptInv, TypeInv
    <3> QED
      BY <3>1, <3>2
  <2>3. \A q \in Requests \ {r} : w[q].item[i] = Same
    BY <1>1, <1>2 DEF Waiting, Blocks, Writing
  <2>4. \A q \in Requests \ {r} : w[q].folio[f] # "deleted"
    <3> SUFFICES ASSUME NEW q \in Requests \ {r} PROVE w[q].folio[f] # "deleted"
      OBVIOUS
    <3>1. CASE op[r].to = NoFolio
      BY <1>4, <2>2, <2>3, <3>1 DEF IInv, KeptInv, RequestsKeep, Placed
    <3>2. CASE op[r].to # NoFolio
      BY <1>1, <3>2 DEF Waiting, Blocks, Deleting
    <3> QED
      BY <3>1, <3>2
  <2> HIDE DEF f
  <2>5. /\ x \in Writes
        /\ \A g \in Folios : x.folio[g] = "same"
        /\ \A k \in Items : x.item[k] = IF k = i THEN f ELSE Same
        /\ x.default = {} /\ x.unwatched = {} /\ x.valued = {}
    BY <1>3, <1>4, <2>2, NoWritesAreWrites DEF Writes
  <2> HIDE DEF x
  <2>6. \A k \in Items : x.item[k] # NoFolio
    BY <2>2, <2>5, Marks
  <2>7. Reasons(op[r], x) /\ Placed(x, folio, item)
    BY <2>2, <2>5, <2>6, Marks DEF Reasons, Placed
  <2>8. ASSUME NEW q \in Requests \ {r} PROVE Apart(w[q], x) /\ Spares(pc[q], w[q], x)
    <3>1. Apart(w[q], x)
      BY <2>4, <2>5, Marks DEF Apart
    <3>2. w[q] \in Writes /\ x \in Writes
      BY <1>3, <2>5
    <3>3. Spares(pc[q], w[q], x)
      BY <2>6, <3>2, TakesNothing
    <3> QED
      BY <3>1, <3>3
  <2>9. r \notin crowded => Undisturbed("value", op[r], target[r], x, folio, item)
    BY <1>3, StaysUndisturbed
  <2> QED
    BY <1>1, <2>1, <2>5, <2>7, <2>8, <2>9, HoldingsOnly
<1> QED
  BY <1>5, <1>6, <1>7

\* A holding is taken that no valuation cites.
LEMMA TakeInv ==
    ASSUME IInv, NEW r \in Requests, Take(r)
    PROVE  IInv'
<1>1. pc[r] = "write" /\ op[r].kind = "remove" /\ ~Waiting(r)
  BY DEF Take, At
<1>2. PICK i \in op[r].what :
         IF item[i] = NoFolio THEN Refuse(r)
         ELSE Go(r, "value", [w[r] EXCEPT !.item[i] = NoFolio])
  BY DEF Take
<1>3. /\ w[r] = NoWrites /\ Sensible(op[r])
      /\ r \notin crowded => Undisturbed("write", op[r], target[r], w[r], folio, item)
      /\ \A q \in Requests : w[q] \in Writes
      /\ pc[r] \notin Ended
  BY <1>1, BeforeWriting
<1>4. i \in Items
  BY <1>1, <1>3 DEF Sensible
<1>5. CASE item[i] = NoFolio
  BY <1>2, <1>3, <1>5, RollBackInv DEF Refuse
<1>6. CASE item[i] # NoFolio
  <2> DEFINE x == [w[r] EXCEPT !.item[i] = NoFolio]
  <2>1. Go(r, "value", x)
    BY <1>2, <1>6
  <2>2. /\ x \in Writes
        /\ \A g \in Folios : x.folio[g] = "same"
        /\ \A k \in Items : x.item[k] = IF k = i THEN NoFolio ELSE Same
        /\ x.default = {} /\ x.unwatched = {} /\ x.valued = {}
    BY <1>3, <1>4, NoWritesAreWrites DEF Writes
  <2> HIDE DEF x
  <2>3. Reasons(op[r], x) /\ Placed(x, folio, item)
    BY <1>1, <2>2, Marks DEF Reasons, Placed
  <2>4. ASSUME NEW q \in Requests \ {r} PROVE Apart(w[q], x) /\ Spares(pc[q], w[q], x)
    <3>1. Apart(w[q], x)
      BY <2>2, Marks DEF Apart
    <3>2. ~Citing(q, i)
      BY <1>1, <1>2 DEF Waiting, Blocks
    <3>3. \A S \in w[q].valued : S \subseteq Items
      BY <1>3 DEF Writes
    <3>4. Spares(pc[q], w[q], x)
      BY <2>2, <3>2, <3>3, Marks DEF Spares, Citing
    <3> QED
      BY <3>1, <3>4
  <2>5. r \notin crowded => Undisturbed("value", op[r], target[r], x, folio, item)
    BY <1>3, StaysUndisturbed
  <2> QED
    BY <1>1, <2>1, <2>2, <2>3, <2>4, <2>5, HoldingsOnly
<1> QED
  BY <1>5, <1>6

\* Holdings are put elsewhere, before their portfolio is deleted.
LEMMA ReassignInv ==
    ASSUME IInv, NEW r \in Requests, Reassign(r)
    PROVE  IInv'
<1> DEFINE at == op[r].at
           to == op[r].to
           moved == {i \in Items : item[i] = at}
           x == [w[r] EXCEPT !.item = Reassigned(r)]
<1>1. pc[r] = "write" /\ op[r].kind = "delete" /\ ~Waiting(r)
  BY DEF Reassign, At
<1>2. /\ w[r] = NoWrites /\ Sensible(op[r])
      /\ KnownTo(op[r], target[r], folio)
      /\ r \notin crowded => Undisturbed("write", op[r], target[r], w[r], folio, item)
      /\ \A q \in Requests : w[q] \in Writes
      /\ pc[r] \notin Ended
  BY <1>1, BeforeWriting
<1>3. at \in Folios /\ to \in Folios /\ at # to /\ Held(r, at) = moved
  BY <1>1, <1>2, NoWritesAreWrites DEF Sensible, Held, Item
<1>4. CASE folio[to] = "deleted" /\ moved # {}
  <2>1. r \in crowded
    BY <1>1, <1>2, <1>3, <1>4 DEF Undisturbed
  <2>2. RollBack(r, "failed")
    BY <1>3, <1>4 DEF Reassign, Fail
  <2> QED
    BY <1>2, <2>1, <2>2, RollBackInv
<1>5. CASE folio[to] # "deleted" \/ moved = {}
  <2>1. Go(r, "drop", x)
    BY <1>3, <1>5 DEF Reassign
  <2>2. Reassigned(r) = [i \in Items |-> IF i \in moved THEN to ELSE Same]
    BY <1>2, <1>3, NoWritesAreWrites DEF Reassigned
  <2>3. /\ x \in Writes
        /\ \A g \in Folios : x.folio[g] = "same"
        /\ \A k \in Items : x.item[k] = IF k \in moved THEN to ELSE Same
        /\ x.default = {} /\ x.unwatched = {} /\ x.valued = {}
    BY <1>2, <1>3, <2>2, NoWritesAreWrites DEF Writes
  <2>4. moved # {} => folio[to] \in {"active", "archived"}
    BY <1>2, <1>3, <1>5 DEF KnownTo, IInv, KeptInv, TypeInv
  <2>5. \A q \in Requests \ {r} : moved # {} => w[q].folio[to] # "deleted"
    BY <1>1, <1>3 DEF Waiting, Blocks, Deleting
  <2>6. \A k \in Items : k \in moved <=> item[k] = at
    OBVIOUS
  <2> HIDE DEF x, moved, at, to
  <2>7. \A k \in Items : x.item[k] # NoFolio
    BY <1>3, <2>3, Marks
  <2>8. Reasons(op[r], x) /\ Placed(x, folio, item)
    BY <1>3, <2>3, <2>4, <2>7, Marks DEF Reasons, Placed
  <2>9. ASSUME NEW q \in Requests \ {r} PROVE Apart(w[q], x) /\ Spares(pc[q], w[q], x)
    <3>1. Apart(w[q], x)
      BY <1>3, <2>3, <2>5, Marks DEF Apart
    <3>2. w[q] \in Writes /\ x \in Writes
      BY <1>2, <2>3
    <3>3. Spares(pc[q], w[q], x)
      BY <2>7, <3>2, TakesNothing
    <3> QED
      BY <3>1, <3>3
  <2>10. r \notin crowded => Undisturbed("drop", op[r], target[r], x, folio, item)
    BY <1>1, <1>2, <1>3, <2>3, <2>6, Marks DEF Undisturbed, at
  <2> QED
    BY <1>1, <2>1, <2>3, <2>8, <2>9, <2>10, HoldingsOnly
<1> QED
  BY <1>4, <1>5

\* A portfolio is put away or brought back.
LEMMA SetArchivedInv ==
    ASSUME IInv, NEW r \in Requests, SetArchived(r)
    PROVE  IInv'
<1> DEFINE at == op[r].at
           x == [w[r] EXCEPT !.folio[at] = Status(r)]
<1>1. pc[r] = "write" /\ op[r].kind \in {"archive", "unarchive"} /\ ~Waiting(r)
  BY DEF SetArchived, At
<1>2. /\ w[r] = NoWrites /\ Sensible(op[r])
      /\ KnownTo(op[r], target[r], folio) /\ MakesDefault(op[r], target[r], w[r])
      /\ r \notin crowded => Undisturbed("write", op[r], target[r], w[r], folio, item)
      /\ \A q \in Requests : w[q] \in Writes
      /\ pc[r] \notin Ended
  BY <1>1, BeforeWriting
<1>3. at \in Folios /\ folio[at] # "absent"
  BY <1>1, <1>2 DEF Sensible, KnownTo
<1>4. CASE folio[at] = "deleted"
  <2>1. r \in crowded
    BY <1>1, <1>2, <1>4 DEF Undisturbed
  <2>2. RollBack(r, "failed")
    BY <1>4 DEF SetArchived, Fail
  <2> QED
    BY <1>2, <2>1, <2>2, RollBackInv
<1>5. CASE folio[at] # "deleted"
  <2>1. Go(r, "commit", x)
    BY <1>5 DEF SetArchived
  <2>2. Status(r) \in {"active", "archived"} /\ (Status(r) = "archived" => op[r].kind = "archive")
    BY DEF Status
  <2>3. /\ x \in Writes
        /\ \A f \in Folios : x.folio[f] = IF f = at THEN Status(r) ELSE "same"
        /\ \A i \in Items : x.item[i] = Same
        /\ x.default = {} /\ x.unwatched = {} /\ x.valued = {}
    BY <1>2, <1>3, <2>2, NoWritesAreWrites DEF Writes
  <2>4. \A q \in Requests \ {r} : w[q].folio[at] = "same"
    BY <1>1 DEF Waiting, Blocks, Touching
  <2> HIDE DEF x
  <2>5. Allowed(r, "commit", x)
    <3>1. Progress("commit", op[r], x, counted[r]) /\ Reasons(op[r], x)
      BY <2>2, <2>3, Marks DEF Progress, Reasons, Ended
    <3>2. Placed(x, folio, item) /\ Apart(x, x)
      BY <2>2, <2>3, Marks DEF Placed, Apart
    <3>3. Making(op[r], x, folio)
      BY <1>3, <1>5, <2>3 DEF Making
    <3>4. Destined(op[r], target[r], x, default) /\ Unwatches("commit", op[r], x)
      BY <1>1, <2>3 DEF Destined, Unwatches
    <3>5. /\ Counts("commit", op[r], x, counted[r])
          /\ Cites("commit", x, item) /\ Spares("commit", x, x)
      BY <2>3, PlainValued
    <3>6. MakesDefault(op[r], target[r], x)
      BY <1>2, <2>3 DEF MakesDefault
    <3> QED
      BY <1>2, <3>1, <3>2, <3>3, <3>4, <3>5, <3>6, StaysUndisturbed DEF Allowed
  <2>6. Compatible(r, "commit", x)
    <3> SUFFICES ASSUME NEW q \in Requests \ {r}
                 PROVE  /\ Apart(w[q], x) /\ Apart(x, w[q])
                        /\ \A f \in Folios : x.folio[f] # "same" => w[q].folio[f] = "same"
                        /\ Spares("commit", x, w[q]) /\ Spares(pc[q], w[q], x)
      BY DEF Compatible
    <3>1. Apart(w[q], x) /\ Apart(x, w[q])
      BY <2>2, <2>3, Marks DEF Apart
    <3>2. Spares("commit", x, w[q]) /\ Spares(pc[q], w[q], x)
      BY <1>2, <2>3, PlainValued, TakesNothing, Marks
    <3> QED
      BY <2>3, <2>4, <3>1, <3>2
  <2> QED
    BY <1>2, <2>1, <2>3, <2>5, <2>6, GoInv DEF Steps, Ended
<1> QED
  BY <1>4, <1>5

-----------------------------------------------------------------------------
(* Statements: what follows. *)

\* What a request under way has, whatever it has written.
LEMMA UnderWay ==
    ASSUME IInv, NEW r \in Requests, pc[r] \notin Ended
    PROVE  /\ r \in Busy /\ \A q \in Requests : w[q] \in Writes
           /\ op[r] \in Operations /\ counted[r] \in SUBSET Items
           /\ Sensible(op[r]) /\ KnownTo(op[r], target[r], folio)
           /\ Progress(pc[r], op[r], w[r], counted[r]) /\ Reasons(op[r], w[r])
           /\ Placed(w[r], folio, item) /\ \A q \in Requests : Apart(w[q], w[r])
           /\ Making(op[r], w[r], folio)
           /\ Destined(op[r], target[r], w[r], default)
           /\ Counts(pc[r], op[r], w[r], counted[r]) /\ Cites(pc[r], w[r], item)
           /\ \A q \in Requests : Spares(pc[r], w[r], w[q]) /\ Spares(pc[q], w[q], w[r])
           /\ MakesDefault(op[r], target[r], w[r]) /\ Unwatches(pc[r], op[r], w[r])
           /\ r \notin crowded => Undisturbed(pc[r], op[r], target[r], w[r], folio, item)
<1>1. r \in Busy
  BY DEF Busy
<1>2. r \notin crowded => Undisturbed(pc[r], op[r], target[r], w[r], folio, item)
  BY AloneIsFree
<1>3. /\ op[r] \in Operations /\ counted[r] \in SUBSET Items
      /\ \A q \in Requests : w[q] \in Writes
  BY DEF IInv, KeptInv, TypeInv
<1>4. /\ Sensible(op[r]) /\ KnownTo(op[r], target[r], folio)
      /\ Progress(pc[r], op[r], w[r], counted[r]) /\ Reasons(op[r], w[r])
      /\ Placed(w[r], folio, item) /\ \A q \in Requests : Apart(w[q], w[r])
  BY DEF IInv, KeptInv, RequestsKeep, RequestsAgree
<1>5. /\ Making(op[r], w[r], folio) /\ Destined(op[r], target[r], w[r], default)
      /\ Counts(pc[r], op[r], w[r], counted[r]) /\ Cites(pc[r], w[r], item)
      /\ \A q \in Requests : Spares(pc[r], w[r], w[q]) /\ Spares(pc[q], w[q], w[r])
  BY DEF IInv, MadeInv, ValuedInv
<1>6. MakesDefault(op[r], target[r], w[r]) /\ Unwatches(pc[r], op[r], w[r])
  BY <1>1 DEF IInv, DefaultInv, MoveInv
<1> QED
  BY <1>1, <1>2, <1>3, <1>4, <1>5, <1>6

\* A request goes on without writing another portfolio or holding.
LEMMA GoesOn ==
    ASSUME IInv, NEW r \in Requests, pc[r] \notin Ended,
           NEW step \in {"evidence", "unwatch", "commit"}, NEW x \in Writes, Go(r, step, x),
           x.folio = w[r].folio, x.item = w[r].item, x.default = w[r].default,
           Progress(step, op[r], x, counted[r]), Counts(step, op[r], x, counted[r]),
           Cites(step, x, item), Unwatches(step, op[r], x),
           \A q \in Requests : Spares(step, x, w[q])
    PROVE  IInv'
<1>1. Allowed(r, step, x)
  <2>1. Reasons(op[r], x) /\ Placed(x, folio, item) /\ Apart(x, x) /\ Making(op[r], x, folio)
    BY UnderWay DEF Reasons, Placed, Apart, Making
  <2>2. Destined(op[r], target[r], x, default) /\ MakesDefault(op[r], target[r], x)
    BY UnderWay DEF Destined, MakesDefault
  <2>3. Spares(step, x, x)
    BY DEF Spares
  <2>4. r \notin crowded => Undisturbed(step, op[r], target[r], x, folio, item)
    BY UnderWay, StaysUndisturbed
  <2> QED
    BY <2>1, <2>2, <2>3, <2>4 DEF Allowed
<1>2. Compatible(r, step, x)
  <2> SUFFICES ASSUME NEW q \in Requests \ {r}
               PROVE  /\ Apart(w[q], x) /\ Apart(x, w[q])
                      /\ \A f \in Folios : x.folio[f] # "same" => w[q].folio[f] = "same"
                      /\ Spares(step, x, w[q]) /\ Spares(pc[q], w[q], x)
    BY DEF Compatible
  <2>1. Apart(w[q], w[r]) /\ Apart(w[r], w[q])
    BY DEF IInv, KeptInv, RequestsAgree
  <2>2. Apart(w[q], x) /\ Apart(x, w[q])
    BY <2>1 DEF Apart
  <2>3. \A f \in Folios : x.folio[f] # "same" => w[q].folio[f] = "same"
    BY DEF IInv, MadeInv, Single, Touching
  <2>4. Spares(pc[q], w[q], x)
    BY UnderWay DEF Spares
  <2> QED
    BY <2>2, <2>3, <2>4
<1> QED
  BY <1>1, <1>2, GoInv DEF Steps, Ended

\* A portfolio is deleted that nobody puts a holding into.
LEMMA DropInv ==
    ASSUME IInv, NEW r \in Requests, Drop(r)
    PROVE  IInv'
<1> DEFINE at == op[r].at
           x == [w[r] EXCEPT !.folio[at] = "deleted"]
<1>1. pc[r] = "drop" /\ pc[r] \notin Ended /\ ~Waiting(r)
  BY DEF Drop, At, Ended
<1>2. /\ op[r].kind = "delete" /\ \A f \in Folios : w[r].folio[f] = "same"
      /\ w[r].valued = {}
  BY <1>1, UnderWay DEF Progress
<1>3. at \in Folios /\ folio[at] # "absent"
  BY <1>1, <1>2, UnderWay DEF Sensible, KnownTo
<1>4. CASE Held(r, at) # {}
  <2>1. RollBack(r, "failed")
    BY <1>4 DEF Drop, Fail
  <2>2. r \in crowded
    <3>1. PICK i \in Items : Item(r)[i] = at
      BY <1>4 DEF Held
    <3>2. Item(r)[i] = IF w[r].item[i] = Same THEN item[i] ELSE w[r].item[i]
      BY DEF Item
    <3> QED
      BY <1>1, <3>1, <3>2, UnderWay DEF Undisturbed
  <2> QED
    BY <1>1, <2>1, <2>2, RollBackInv
<1>5. CASE Held(r, at) = {}
  <2>1. Go(r, "value", x)
    BY <1>5 DEF Drop
  <2>2. w[r].default = {}
    BY <1>1, <1>2, UnderWay DEF Making, Writes
  <2>3. /\ x \in Writes
        /\ \A f \in Folios : x.folio[f] = IF f = at THEN "deleted" ELSE "same"
        /\ x.item = w[r].item /\ x.default = {} /\ x.valued = {}
        /\ x.unwatched = w[r].unwatched
    BY <1>1, <1>2, <1>3, <2>2, UnderWay DEF Writes
  <2>4. \A i \in Items : /\ w[r].item[i] # at
                         /\ w[r].item[i] = Same => item[i] # at
    <3> SUFFICES ASSUME NEW i \in Items
                 PROVE  w[r].item[i] # at /\ (w[r].item[i] = Same => item[i] # at)
      OBVIOUS
    <3>1. Item(r)[i] # at
      BY <1>5 DEF Held
    <3>2. Item(r)[i] = IF w[r].item[i] = Same THEN item[i] ELSE w[r].item[i]
      BY DEF Item
    <3>3. Same # at
      BY <1>3, Marks
    <3> QED
      BY <3>1, <3>2, <3>3
  <2>5. \A q \in Requests \ {r} : /\ w[q].folio[at] = "same"
                                  /\ \A i \in Items : w[q].item[i] # at
    BY <1>1 DEF Waiting, Blocks, Touching, Placing
  <2> HIDE DEF x, at
  <2>6. Allowed(r, "value", x)
    <3>1. Progress("value", op[r], x, counted[r])
      BY <2>3 DEF Progress, Ended
    <3>2. Reasons(op[r], x)
      BY <1>1, <1>2, <2>3, UnderWay DEF Reasons, at
    <3>3. Placed(x, folio, item) /\ Apart(x, x)
      BY <1>1, <1>2, <2>3, <2>4, UnderWay DEF Placed, Apart
    <3>4. Making(op[r], x, folio)
      BY <2>3 DEF Making
    <3>5. Destined(op[r], target[r], x, default)
      BY <1>2 DEF Destined
    <3>6. /\ Counts("value", op[r], x, counted[r])
          /\ Cites("value", x, item) /\ Spares("value", x, x)
      BY <2>3, PlainValued
    <3>7. MakesDefault(op[r], target[r], x) /\ Unwatches("value", op[r], x)
      BY <1>1, <1>2, <2>3, UnderWay DEF MakesDefault, Unwatches
    <3>8. r \notin crowded => Undisturbed("value", op[r], target[r], x, folio, item)
      BY <1>1, UnderWay, StaysUndisturbed
    <3> QED
      BY <3>1, <3>2, <3>3, <3>4, <3>5, <3>6, <3>7, <3>8 DEF Allowed
  <2>7. Compatible(r, "value", x)
    <3> SUFFICES ASSUME NEW q \in Requests \ {r}
                 PROVE  /\ Apart(w[q], x) /\ Apart(x, w[q])
                        /\ \A f \in Folios : x.folio[f] # "same" => w[q].folio[f] = "same"
                        /\ Spares("value", x, w[q]) /\ Spares(pc[q], w[q], x)
      BY DEF Compatible
    <3>1. Apart(w[q], x)
      BY <1>1, <2>3, UnderWay DEF Apart
    <3>2. Apart(x, w[q])
      BY <2>3, <2>5 DEF Apart
    <3>3. Spares("value", x, w[q])
      BY <2>3, PlainValued
    <3>4. Spares(pc[q], w[q], x)
      BY <1>1, <2>3, UnderWay DEF Spares
    <3> QED
      BY <2>3, <2>5, <3>1, <3>2, <3>3, <3>4
  <2> QED
    BY <1>1, <2>1, <2>3, <2>6, <2>7, GoInv DEF Steps, Ended
<1> QED
  BY <1>4, <1>5

\* Where a request goes after its valuation.
LEMMA AfterValuation ==
    ASSUME NEW r \in Requests
    PROVE  /\ AfterValue(r) \in {"unwatch", "commit"}
           /\ AfterValue(r) = "unwatch" <=> op[r].kind = "move"
BY DEF AfterValue

\* A valuation is inserted, or the window is taken.
LEMMA RecordInv ==
    ASSUME IInv, NEW r \in Requests, Record(r)
    PROVE  IInv'
<1>1. pc[r] = "record" /\ pc[r] \notin Ended
  BY DEF Record, At, Ended
<1>2. w[r].valued = {} /\ w[r] \in Writes /\ counted[r] \in SUBSET Items
  BY <1>1, UnderWay DEF Progress
<1>3. CASE valued # {}
  <2> DEFINE step == AfterValue(r)
  <2>1. Go(r, step, w[r])
    BY <1>3 DEF Record
  <2>2. /\ step \in {"unwatch", "commit"} /\ (step = "unwatch" => op[r].kind = "move")
        /\ step = "commit" => op[r].kind # "move"
    BY AfterValuation
  <2> HIDE DEF step
  <2>3. Progress(step, op[r], w[r], counted[r])
    BY <2>2 DEF Progress, Ended
  <2>4. /\ Counts(step, op[r], w[r], counted[r]) /\ Cites(step, w[r], item)
        /\ \A q \in Requests : Spares(step, w[r], w[q])
    BY <1>2, <2>2, PlainValued
  <2>5. Unwatches(step, op[r], w[r])
    BY <1>1, <2>2, UnderWay DEF Unwatches
  <2> QED
    BY <1>1, <1>2, <2>1, <2>2, <2>3, <2>4, <2>5, GoesOn
<1>4. CASE valued = {}
  <2> DEFINE x == [w[r] EXCEPT !.valued = {counted[r]}]
  <2>1. Go(r, "evidence", x)
    BY <1>4 DEF Record
  <2>2. /\ x \in Writes /\ x.folio = w[r].folio /\ x.item = w[r].item
        /\ x.default = w[r].default /\ x.unwatched = w[r].unwatched /\ x.valued = {counted[r]}
    BY <1>2 DEF Writes
  <2> HIDE DEF x
  <2>3. Progress("evidence", op[r], x, counted[r])
    BY <2>2 DEF Progress, Ended
  <2>4. /\ Counts("evidence", op[r], x, counted[r]) /\ Cites("evidence", x, item)
        /\ \A q \in Requests : Spares("evidence", x, w[q])
    BY <1>1, <2>2, UnderWay DEF Counts, Cites, Spares
  <2>5. Unwatches("evidence", op[r], x)
    BY <1>1, <2>2, UnderWay DEF Unwatches
  <2> QED
    BY <1>1, <2>1, <2>2, <2>3, <2>4, <2>5, GoesOn
<1> QED
  BY <1>3, <1>4

\* The values of the holdings are inserted, or the valuation is given up.
LEMMA EvidenceInv ==
    ASSUME IInv, NEW r \in Requests, Evidence(r)
    PROVE  IInv'
<1> DEFINE step == AfterValue(r)
           gone == \E i \in counted[r] : Item(r)[i] = NoFolio
           x == [w[r] EXCEPT !.valued = {}]
<1>1. pc[r] = "evidence" /\ pc[r] \notin Ended /\ ~Waiting(r)
  BY DEF Evidence, At, Ended
<1>2. w[r].valued = {counted[r]} /\ w[r] \in Writes /\ counted[r] \in SUBSET Items
  BY <1>1, UnderWay DEF Progress
<1>3. /\ step \in {"unwatch", "commit"} /\ (step = "unwatch" => op[r].kind = "move")
      /\ step = "commit" => op[r].kind # "move"
  BY AfterValuation
<1>4. /\ gone => Go(r, step, x)
      /\ ~gone => Go(r, step, w[r])
  BY DEF Evidence
<1>5. Unwatches(step, op[r], w[r])
  BY <1>1, <1>3, UnderWay DEF Unwatches
<1>6. CASE gone
  <2>1. /\ x \in Writes /\ x.folio = w[r].folio /\ x.item = w[r].item
        /\ x.default = w[r].default /\ x.unwatched = w[r].unwatched /\ x.valued = {}
    BY <1>2 DEF Writes
  <2> HIDE DEF x, step, gone
  <2>2. Progress(step, op[r], x, counted[r])
    BY <1>3 DEF Progress, Ended
  <2>3. /\ Counts(step, op[r], x, counted[r]) /\ Cites(step, x, item)
        /\ \A q \in Requests : Spares(step, x, w[q])
    BY <1>3, <2>1, PlainValued
  <2>4. Unwatches(step, op[r], x)
    BY <1>5, <2>1 DEF Unwatches
  <2> QED
    BY <1>1, <1>3, <1>4, <1>6, <2>1, <2>2, <2>3, <2>4, GoesOn
<1>7. CASE ~gone
  <2>1. \A i \in counted[r] :
            IF w[r].item[i] = Same THEN item[i] # NoFolio ELSE w[r].item[i] # NoFolio
    BY <1>2, <1>7 DEF Item
  <2>2. \A q \in Requests \ {r} : \A i \in counted[r] : w[q].item[i] # NoFolio
    BY <1>1 DEF Waiting, Blocks
  <2> HIDE DEF x, step, gone
  <2>3. Progress(step, op[r], w[r], counted[r])
    BY <1>3 DEF Progress, Ended
  <2>4. Counts(step, op[r], w[r], counted[r])
    BY <1>1, <1>2, <1>3, UnderWay DEF Counts
  <2>5. Cites(step, w[r], item)
    BY <1>2, <2>1 DEF Cites
  <2>6. ASSUME NEW q \in Requests PROVE Spares(step, w[r], w[q])
    BY <1>2, <2>1, <2>2, Marks DEF Spares
  <2> QED
    BY <1>1, <1>2, <1>3, <1>4, <1>5, <1>7, <2>3, <2>4, <2>5, <2>6, GoesOn
<1> QED
  BY <1>6, <1>7

\* A moved entry is taken off the watchlist.
LEMMA UnwatchInv ==
    ASSUME IInv, NEW r \in Requests, Unwatch(r)
    PROVE  IInv'
<1> DEFINE x == [w[r] EXCEPT !.unwatched = op[r].what]
<1>1. pc[r] = "unwatch" /\ pc[r] \notin Ended /\ Go(r, "commit", x)
  BY DEF Unwatch, At, Ended
<1>2. op[r].kind = "move" /\ op[r].what \subseteq Entries /\ w[r] \in Writes
  BY <1>1, UnderWay DEF Progress, Sensible
<1>3. /\ x \in Writes /\ x.folio = w[r].folio /\ x.item = w[r].item
      /\ x.default = w[r].default /\ x.unwatched = op[r].what /\ x.valued = w[r].valued
  BY <1>2 DEF Writes
<1> HIDE DEF x
<1>4. Progress("commit", op[r], x, counted[r]) /\ Unwatches("commit", op[r], x)
  BY <1>2, <1>3 DEF Progress, Unwatches, Ended
<1>5. /\ Counts("commit", op[r], x, counted[r]) /\ Cites("commit", x, item)
      /\ \A q \in Requests : Spares("commit", x, w[q])
  BY <1>1, <1>3, UnderWay DEF Counts, Cites, Spares
<1> QED
  BY <1>1, <1>3, <1>4, <1>5, GoesOn

\* Only a request that others run beside can wait in a circle.
LEMMA VictimInv ==
    ASSUME IInv, NEW r \in Requests, Victim(r)
    PROVE  IInv'
<1>1. Waiting(r) /\ RollBack(r, "failed")
  BY DEF Victim, InCircle, Fail
<1>2. pc[r] \notin Ended
  BY <1>1 DEF Waiting, Blocks, Ended
<1>3. r \in crowded
  BY <1>1, <1>2, AloneIsFree
<1> QED
  BY <1>1, <1>2, <1>3, RollBackInv

-----------------------------------------------------------------------------
(* The specification. *)

\* The first states keep the invariant.
LEMMA InitInv == Init => IInv
BY InitKept, InitMade, InitValued, InitLimit, InitDefault, InitMove, InitCompany DEF IInv

\* So does every step.
LEMMA NextInv == IInv /\ [Next]_vars => IInv'
<1> SUFFICES ASSUME IInv, [Next]_vars PROVE IInv'
  OBVIOUS
<1>1. CASE UNCHANGED vars
  <2>1. UNCHANGED <<Busy, Live, ListedFolios>>
    BY <1>1 DEF vars, Busy, Live, ListedFolios
  <2>2. KeptInv'
    BY <1>1, <2>1 DEF vars, IInv, KeptInv, TypeInv, RequestsKeep, RequestsAgree, Housed,
       HoldingsSurvive
  <2>3. MadeInv' /\ ValuedInv'
    BY <1>1 DEF vars, IInv, MadeInv, Single, Touching, DefaultsStay, ValuedInv
  <2>4. LimitInv' /\ DefaultInv'
    BY <1>1, <2>1 DEF vars, IInv, LimitInv, Lone, DefaultInv
  <2>5. MoveInv' /\ CompanyInv'
    BY <1>1, <2>1 DEF vars, IInv, MoveInv, Lone, Moved, CompanyInv, FailuresNeedCompany
  <2> QED
    BY <2>2, <2>3, <2>4, <2>5 DEF IInv
<1>2. ASSUME NEW r \in Requests, Arrive(r) PROVE IInv'
  BY <1>2, ArriveInv
<1>3. ASSUME NEW r \in Requests, Step(r) PROVE IInv'
  BY <1>3, MakeFolioInv, MakeItemInv, ChangeInv, TakeInv, SetArchivedInv, ReassignInv, DropInv,
     ValueInv, RecordInv, EvidenceInv, UnwatchInv, CommitInv, VictimInv DEF Step
<1> QED
  BY <1>1, <1>2, <1>3 DEF Next

\* What the invariant says of the holdings and of the checks.
LEMMA InvKeeps == IInv => TypeOK /\ HoldingsAreKept
<1> SUFFICES ASSUME IInv PROVE TypeOK /\ HoldingsAreKept
  OBVIOUS
<1>1. TypeOK
  <2>1. \A r \in Requests : w[r] \in Writes
    BY DEF IInv, KeptInv, TypeInv
  <2>2. /\ \A r \in Requests :
               w[r].folio \in [Folios -> {"same", "active", "archived", "deleted"}]
        /\ \A r \in Requests : w[r].item \in [Items -> Folios \cup {NoFolio, Same}]
    BY <2>1 DEF Writes
  <2> QED
    BY <2>2 DEF TypeOK, IInv, KeptInv, TypeInv, Steps
<1>2. ValuationIsCurrent
  <2> SUFFICES ASSUME NEW r \in Requests, pc[r] \in {"unwatch", "commit"},
                      NEW S \in w[r].valued
               PROVE  /\ \A i \in S : Item(r)[i] # NoFolio
                      /\ op[r].kind \in {"import", "move"} =>
                            \A i \in Items : Writing(r, i) => i \in S
    BY DEF ValuationIsCurrent
  <2>1. pc[r] \notin Ended
    BY DEF Ended
  <2>2. Counts(pc[r], op[r], w[r], counted[r]) /\ Cites(pc[r], w[r], item) /\ S \subseteq Items
    BY <2>1, UnderWay DEF Writes
  <2>3. \A i \in S : Item(r)[i] # NoFolio
    BY <2>2 DEF Cites, Item
  <2>4. op[r].kind \in {"import", "move"} => \A i \in Items : Writing(r, i) => i \in S
    BY <2>2 DEF Counts, Writing
  <2> QED
    BY <2>3, <2>4
<1> QED
  BY <1>1, <1>2 DEF HoldingsAreKept, IInv, KeptInv

\* The invariant implies what is promised to requests that are alone.
LEMMA InvAlone == IInv => AloneAllHolds
<1> SUFFICES ASSUME IInv PROVE AloneAllHolds
  OBVIOUS
<1>1. "limit" \in raced \/ Cardinality(Live \ default) <= Limit
  BY DEF IInv, LimitInv, ListedFolios
<1>2. "default" \in raced \/ Cardinality(default) <= 1
  <2>1. CASE default = {}
    BY <2>1, FS_EmptySet
  <2>2. CASE default # {} /\ "default" \notin raced
    <3>1. PICK f \in default : default = {f}
      BY <2>2 DEF IInv, DefaultInv
    <3>2. Cardinality({f}) = 1
      BY FS_Singleton
    <3> QED
      BY <3>1, <3>2
  <2> QED
    BY <2>1, <2>2
<1>3. ASSUME "move" \notin raced, NEW e \in Entries
      PROVE  Cardinality({r \in Requests : /\ pc[r] = "done" /\ op[r].kind = "move"
                                           /\ e \in op[r].what}) <= 1
  <2> DEFINE S == {r \in Requests : pc[r] = "done" /\ op[r].kind = "move" /\ e \in op[r].what}
  <2>1. \A q, r \in S : q = r
    BY <1>3 DEF IInv, MoveInv, Moved
  <2> HIDE DEF S
  <2>2. ASSUME S = {} PROVE Cardinality(S) <= 1
    BY <2>2, FS_EmptySet
  <2>3. ASSUME S # {} PROVE Cardinality(S) <= 1
    <3>1. PICK r : S = {r}
      BY <2>1, <2>3
    <3>2. Cardinality({r}) = 1
      BY FS_Singleton
    <3> QED
      BY <3>1, <3>2
  <2>4. Cardinality(S) <= 1
    BY <2>2, <2>3
  <2> QED
    BY <2>4 DEF S
<1> QED
  BY <1>1, <1>2, <1>3 DEF AloneAllHolds, ChecksHoldAlone, IInv, CompanyInv

\* Every variable stays within its type.
THEOREM PortfoliosTypeCorrect == Spec => []TypeOK
<1>1. Spec => []IInv
  BY InitInv, NextInv, PTL DEF Spec
<1> QED
  BY <1>1, InvKeeps, PTL

\* No holding is lost but by its own removal, and none is left in a portfolio
\* that is gone; no valuation counts a holding that is gone when it is committed
\* or misses the one its request has brought.
THEOREM HoldingsAreKeptTheorem == Spec => []HoldingsAreKept
<1>1. Spec => []IInv
  BY InitInv, NextInv, PTL DEF Spec
<1> QED
  BY <1>1, InvKeeps, PTL

\* Requests that share no check with another one keep the limit, one default
\* portfolio and one holding per entry, and one that nobody runs beside does not
\* end in a server error.
THEOREM AloneAllHoldsTheorem == Spec => []AloneAllHolds
<1>1. Spec => []IInv
  BY InitInv, NextInv, PTL DEF Spec
<1> QED
  BY <1>1, InvAlone, PTL

-----------------------------------------------------------------------------
(* ListingMatching.  A listing that prices a set mentions its number, and no *)
(* other number is an identifier of a set.                                   *)

\* The listings a set is priced with are matched to it.
MatchedInv ==
    /\ listed \subseteq Offers
    /\ DOMAIN pricedWith = Products
    /\ \A p \in Products : \A n \in pricedWith[p] :
           n.offer \in Offers /\ Confidence(n.offer, p) >= AutomatedPricingMinConfidence
\* What is at most 80 times a number, divided by it, is at most 81 when rounded.
LEMMA RoundedShare ==
    ASSUME NEW part \in Nat, NEW all \in Nat \ {0}, part <= all
    PROVE  HalfEven(80 * part, all) <= 81
<1>1. (80 * part) \div all \in Int /\ all * ((80 * part) \div all) <= 80 * part
  OBVIOUS
<1>2. (80 * part) \div all <= 80
  <2> DEFINE q == (80 * part) \div all
  <2>1. q \in Int /\ all * q <= 80 * all
    BY <1>1
  <2> HIDE DEF q
  <2>2. ASSUME q >= 81 PROVE FALSE
    <3>1. all * q >= all * 81
      BY <2>1, <2>2
    <3> QED
      BY <2>1, <3>1
  <2> QED
    BY <2>1, <2>2 DEF q
<1> QED
  BY <1>1, <1>2 DEF HalfEven

\* A name alone never prices a set.
LEMMA NameIsNotEnough ==
    ASSUME NEW o \in Offers, NEW p \in Products
    PROVE  NameConfidence(o, p) < AutomatedPricingMinConfidence
<1> DEFINE common == Cardinality(o.words \cap p.name)
           all == Cardinality(p.name)
<1>1. IsFiniteSet(p.name)
  BY MatchingConstants
<1>2. common \in Nat /\ all \in Nat /\ common <= all
  <2>1. o.words \cap p.name \subseteq p.name
    OBVIOUS
  <2> QED
    BY <1>1, <2>1, FS_Subset, FS_CardinalityType
<1>3. NameConfidence(o, p) =
          IF common >= 2 /\ 4 * common >= 3 * all THEN HalfEven(80 * common, all) ELSE 0
  BY DEF NameConfidence
<1> HIDE DEF common, all
<1>4. CASE common >= 2 /\ 4 * common >= 3 * all
  <2>1. HalfEven(80 * common, all) <= 81
    BY <1>2, <1>4, RoundedShare
  <2>2. HalfEven(80 * common, all) \in Int
    BY <1>2, <1>4 DEF HalfEven
  <2> QED
    BY <1>3, <1>4, <2>1, <2>2 DEF AutomatedPricingMinConfidence
<1>5. CASE ~(common >= 2 /\ 4 * common >= 3 * all)
  BY <1>3, <1>5 DEF AutomatedPricingMinConfidence
<1> QED
  BY <1>4, <1>5

\* The numbers of finitely many mentions are finitely many.
LEMMA FinitelyManyNumbers ==
    ASSUME NEW S, IsFiniteSet(S)
    PROVE  IsFiniteSet({n.number : n \in S})
<1> DEFINE f == [n \in S |-> n.number]
<1>1. f \in Surjection(S, {n.number : n \in S})
  BY DEF Surjection
<1> HIDE DEF f
<1> QED
  BY <1>1, FS_Surjection

\* Two identifiers rule a title out.
LEMMA OneCandidate ==
    ASSUME NEW o \in Offers, Exclusions(o) = {}, NEW j \in Candidates(o), NEW k \in Candidates(o)
    PROVE  j = k
<1>1. IsFiniteSet(o.mentions)
  BY MatchingConstants
<1>2. IsFiniteSet(Candidates(o))
  <2> DEFINE used == {n \in o.mentions : n.form \in {"labelled", "plain"}}
  <2>1. IsFiniteSet(used)
    BY <1>1, FS_Subset
  <2>2. IsFiniteSet({n.number : n \in used})
    BY <2>1, FinitelyManyNumbers
  <2> QED
    BY <2>2 DEF Candidates
<1>3. Cardinality(Candidates(o)) \in Nat /\ Cardinality(Candidates(o)) <= 1
  BY <1>2, FS_CardinalityType DEF Exclusions
<1> SUFFICES ASSUME j # k PROVE FALSE
  OBVIOUS
<1>4. IsFiniteSet({j, k}) /\ Cardinality({j, k}) = 2
  <2>1. IsFiniteSet({k}) /\ Cardinality({k}) = 1
    BY FS_Singleton
  <2>2. {k} \cup {j} = {j, k} /\ j \notin {k}
    OBVIOUS
  <2>3. IsFiniteSet({k} \cup {j}) /\ Cardinality({k} \cup {j}) = Cardinality({k}) + 1
    BY <2>1, <2>2, FS_AddElement
  <2> QED
    BY <2>1, <2>2, <2>3
<1>5. Cardinality({j, k}) <= Cardinality(Candidates(o))
  BY <1>2, FS_Subset
<1> QED
  BY <1>3, <1>4, <1>5

\* A match that prices a set mentions its number in a title that is not ruled out.
LEMMA MatchMentions ==
    ASSUME NEW o \in Offers, NEW p \in Products,
           Confidence(o, p) >= AutomatedPricingMinConfidence
    PROVE  Exclusions(o) = {} /\ Mentions(o, p.number)
<1>1. ~(0 >= AutomatedPricingMinConfidence)
  BY DEF AutomatedPricingMinConfidence
<1>2. ~(NameConfidence(o, p) >= AutomatedPricingMinConfidence)
  <2>1. NameConfidence(o, p) \in Int
    <3> DEFINE common == Cardinality(o.words \cap p.name)
               all == Cardinality(p.name)
    <3>1. IsFiniteSet(p.name) /\ IsFiniteSet(o.words \cap p.name)
      BY MatchingConstants, FS_Subset
    <3>2. common \in Nat /\ all \in Nat
      BY <3>1, FS_CardinalityType
    <3>3. NameConfidence(o, p) =
              IF common >= 2 /\ 4 * common >= 3 * all THEN HalfEven(80 * common, all) ELSE 0
      BY DEF NameConfidence
    <3>4. common <= all
      BY <3>1, FS_Subset
    <3> HIDE DEF common, all
    <3>5. CASE all = 0
      BY <3>2, <3>3, <3>4, <3>5
    <3>6. CASE all # 0
      <4>1. HalfEven(80 * common, all) \in Int
        BY <3>2, <3>6 DEF HalfEven
      <4> QED
        BY <3>3, <4>1
    <3> QED
      BY <3>5, <3>6
  <2> QED
    BY <2>1, NameIsNotEnough DEF AutomatedPricingMinConfidence
<1> QED
  BY <1>1, <1>2 DEF Confidence

\* A match is found in the catalog for no other set.
LEMMA MatchIsFound ==
    ASSUME NEW o \in Offers, NEW p \in Products, Exclusions(o) = {}, Mentions(o, p.number)
    PROVE  Found(o) \subseteq {p}
<1> DEFINE exact == {q \in Products : Exclusions(o) = {} /\ Mentions(o, q.number)}
<1>1. p \in exact
  OBVIOUS
<1>2. Found(o) = IF Cardinality(exact) = 1 THEN exact ELSE {}
  BY <1>1 DEF Found
<1>3. ASSUME Cardinality(exact) = 1, NEW q \in exact PROVE q = p
  <2>1. IsFiniteSet(exact)
    <3> DEFINE numbers == {n.number : n \in o.mentions}
               named == [x \in exact |-> x.number]
    <3>1. IsFiniteSet(numbers)
      BY MatchingConstants, FinitelyManyNumbers
    <3>2. named \in Injection(exact, numbers)
      <4>1. \A x \in exact : x.number \in numbers
        BY DEF Mentions
      <4>2. \A x, y \in exact : x.number = y.number => x = y
        BY MatchingConstants
      <4> QED
        BY <4>1, <4>2 DEF Injection, IsInjective
    <3> HIDE DEF exact, numbers, named
    <3> QED
      BY <3>1, <3>2, FS_Injection
  <2> HIDE DEF exact
  <2>2. PICK x : exact = {x}
    BY <1>3, <2>1, FS_Singleton
  <2> QED
    BY <1>1, <1>3, <2>2
<1> QED
  BY <1>2, <1>3

\* Refreshes price a set with what matches it.
LEMMA MatchedStep == MatchedInv /\ [MatchingNext]_matchingVars => MatchedInv'
<1> SUFFICES ASSUME MatchedInv, [MatchingNext]_matchingVars PROVE MatchedInv'
  OBVIOUS
<1>1. ASSUME NEW o \in Offers, Appear(o) \/ Vanish(o) PROVE MatchedInv'
  BY <1>1 DEF MatchedInv, Appear, Vanish
<1>2. ASSUME NEW p \in Products, RefreshSet(p) PROVE MatchedInv'
  <2>1. ASSUME NEW n \in Priced(p)
        PROVE  n.offer \in Offers /\ Confidence(n.offer, p) >= AutomatedPricingMinConfidence
    <3>1. PICK o \in listed : n = Normalized(o) /\ Confidence(o, p) >= AutomatedPricingMinConfidence
      BY DEF Priced
    <3>2. n.offer = o
      BY <3>1 DEF Normalized
    <3> QED
      BY <3>1, <3>2 DEF MatchedInv
  <2> QED
    BY <1>2, <2>1 DEF MatchedInv, RefreshSet
<1>3. CASE UNCHANGED matchingVars
  BY <1>3 DEF MatchedInv, matchingVars
<1> QED
  BY <1>1, <1>2, <1>3 DEF MatchingNext

\* What is matched is priced once.
LEMMA MatchedIsPricedOnce == MatchedInv => OneSetIsPriced
<1> SUFFICES ASSUME MatchedInv, NEW p \in Products, NEW n \in pricedWith[p]
             PROVE  /\ \A q \in Products \ {p} :
                           n.offer \in {m.offer : m \in pricedWith[q]} =>
                               \E k \in {p.number, q.number} : k \notin Candidates(n.offer)
                    /\ Found(n.offer) \subseteq {p}
  BY DEF OneSetIsPriced
<1>1. n.offer \in Offers /\ Exclusions(n.offer) = {} /\ Mentions(n.offer, p.number)
  BY MatchMentions DEF MatchedInv
<1>2. Found(n.offer) \subseteq {p}
  BY <1>1, MatchIsFound
<1>3. ASSUME NEW q \in Products \ {p}
      PROVE  \E k \in {p.number, q.number} : k \notin Candidates(n.offer)
  <2>1. p.number # q.number
    BY MatchingConstants
  <2> QED
    BY <1>1, <2>1, OneCandidate
<1> QED
  BY <1>2, <1>3

\* A listing prices two sets only if the engine takes a number of one of them for no
\* identifier, and it is found in the catalog for no set but the one it prices.
THEOREM OneSetIsAlwaysPriced == MatchingSpec => []OneSetIsPriced
<1>1. MatchingInit => MatchedInv
  BY DEF MatchingInit, MatchedInv
<1> QED
  BY <1>1, MatchedStep, MatchedIsPricedOnce, PTL DEF MatchingSpec

-----------------------------------------------------------------------------
(* Explanations.  The quota of each user and the hits of the limiter stand   *)
(* for the same calls, one for one.                                          *)

Analyses ==
    [user : Investors, scope : Scopes, at : Nat,
     items : UNION {[some -> Labels] : some \in SUBSET Positions}, order : Nat,
     status : {"available", "unavailable"}, narrative : Replies \cup {NoTask},
     deleted : BOOLEAN]
Calls == [user : Investors, at : Nat]

ExplainTypeOK ==
    /\ hour \in Nat
    /\ signals \in [Positions -> Labels]
    /\ processHits \in Seq(Nat)
    /\ investorHits \in [Investors -> Seq(Nat)]
    /\ task \in [Analysts -> Tasks \cup {NoTask}]
    /\ analyses \subseteq Analyses
    /\ IsFiniteSet(analyses)
    /\ stamp \in Nat
    /\ narrated \in Seq(Calls)

Sorted(times) == \A i, j \in DOMAIN times : i <= j => times[i] <= times[j]

\* The hits of a user are the calls for that user.
StandFor(hits, calls, u, f) ==
    /\ f \in [1..Len(hits) -> DOMAIN calls]
    /\ \A j \in 1..Len(hits) : calls[f[j]].user = u /\ calls[f[j]].at = hits[j]
    /\ \A i, j \in 1..Len(hits) : f[i] = f[j] => i = j
    /\ \A n \in DOMAIN calls : calls[n].user = u => \E j \in 1..Len(hits) : f[j] = n

QuotaInv ==
    /\ processHits = Moments(narrated)
    /\ Sorted(Moments(narrated))
    /\ \A i \in DOMAIN narrated : narrated[i].at <= hour /\ narrated[i].at > hour - QuotaSpan
    /\ \A u \in Investors :
           Sorted(investorHits[u]) /\ \E f : StandFor(investorHits[u], narrated, u, f)

ExplainInv == ExplainTypeOK /\ QuotaInv

\* A row that is stored is one, and the table stays finite.
LEMMA StoreKeepsTypes ==
    ASSUME NEW c \in Analysts, NEW t \in Tasks, NEW status \in {"available", "unavailable"},
           NEW narrative \in Replies \cup {NoTask}, Store(c, t, status, narrative),
           task \in [Analysts -> Tasks \cup {NoTask}],
           analyses \subseteq Analyses, IsFiniteSet(analyses)
    PROVE  /\ task' \in [Analysts -> Tasks \cup {NoTask}]
           /\ analyses' \subseteq Analyses
           /\ IsFiniteSet(analyses')
           /\ task'[c] = NoTask
<1> DEFINE row == [user |-> t.user, scope |-> t.scope, at |-> t.at, items |-> t.items,
                   order |-> Cardinality(analyses), status |-> status,
                   narrative |-> narrative, deleted |-> FALSE]
<1>1. Cardinality(analyses) \in Nat
  BY FS_CardinalityType
<1>2. t.scope # NoTask => row \in Analyses
  BY <1>1 DEF Analyses, Tasks
<1>3. analyses' = IF t.scope = NoTask THEN analyses ELSE analyses \cup {row}
  BY DEF Store
<1>4. IsFiniteSet(analyses \cup {row})
  BY FS_AddElement
<1> HIDE DEF row
<1> QED
  BY <1>2, <1>3, <1>4 DEF Store

\* A request that begins is one.
LEMMA BegunIsATask ==
    ASSUME NEW u \in Investors, NEW scope \in Scopes, stamp \in Nat,
           signals \in [Positions -> Labels]
    PROVE  Begun(u, scope) \in Tasks
<1>1. scope \subseteq Positions
  BY ExplanationConstants DEF Scopes
<1>2. Labelled(scope) \in [scope -> Labels]
  BY <1>1 DEF Labelled
<1>3. Labelled(scope) \in UNION {[some -> Labels] : some \in SUBSET Positions}
  BY <1>1, <1>2
<1> HIDE DEF Labelled
<1> QED
  BY <1>3, ExplanationConstants DEF Begun, Tasks

\* An attempt that is repeated, or the last one.
LEMMA RetryKeepsTypes ==
    ASSUME NEW c \in Analysts, Retry(c), task[c] # NoTask,
           task \in [Analysts -> Tasks \cup {NoTask}],
           analyses \subseteq Analyses, IsFiniteSet(analyses)
    PROVE  /\ task' \in [Analysts -> Tasks \cup {NoTask}]
           /\ analyses' \subseteq Analyses
           /\ IsFiniteSet(analyses')
<1>1. task[c] \in Tasks
  OBVIOUS
<1>2. CASE task[c].tries = MaxRetries
  BY <1>1, <1>2, StoreKeepsTypes DEF Retry
<1>3. CASE task[c].tries # MaxRetries
  <2>1. task[c].tries + 1 \in 0..MaxRetries
    BY <1>1, <1>3, ExplanationConstants DEF Tasks
  <2>2. [task[c] EXCEPT !.tries = @ + 1] \in Tasks
    BY <1>1, <2>1 DEF Tasks
  <2>3. task' = [task EXCEPT ![c] = [task[c] EXCEPT !.tries = @ + 1]] /\ UNCHANGED analyses
    BY <1>3 DEF Retry
  <2> QED
    BY <2>2, <2>3
<1> QED
  BY <1>2, <1>3

\* Where the window begins in a list of times in order.
LEMMA WindowBegins ==
    ASSUME NEW times \in Seq(Nat), Sorted(times), hour \in Nat
    PROVE  /\ FirstWithin(times) \in 1..(Len(times) + 1)
           /\ \A j \in DOMAIN times :
                  times[j] > hour + 1 - QuotaSpan <=> j >= FirstWithin(times)
<1> DEFINE cut == hour + 1 - QuotaSpan
           Starts == {i \in 1..(Len(times) + 1) : i \in DOMAIN times => times[i] > cut}
           Begins(i) == /\ \A j \in 1..(i - 1) : times[j] <= cut
                        /\ i \in DOMAIN times => times[i] > cut
<1>1. Len(times) \in Nat /\ DOMAIN times = 1..Len(times) /\ cut \in Int
      /\ \A j \in 1..Len(times) : times[j] \in Nat
  BY ExplanationConstants
<1>2. \E i \in 1..(Len(times) + 1) : Begins(i)
  <2>1. Len(times) + 1 \in Starts
    BY <1>1
  <2>2. Starts \subseteq Nat
    BY <1>1
  <2> HIDE DEF Starts
  <2>3. PICK i \in Starts : \A j \in Starts : ~(<<j, i>> \in OpToRel(<, Nat))
    BY <2>1, <2>2, NatLessThanWellFounded, WFMin
  <2>4. \A j \in Starts : j >= i
    <3>1. \A j \in Starts : ~(j < i)
      BY <2>2, <2>3 DEF OpToRel
    <3> QED
      BY <2>2, <3>1
  <2>5. i \in 1..(Len(times) + 1) /\ (i \in DOMAIN times => times[i] > cut)
    BY DEF Starts
  <2>6. ASSUME NEW j \in 1..(i - 1) PROVE times[j] <= cut
    <3>1. j \in 1..(Len(times) + 1) /\ j \in DOMAIN times /\ j < i
      BY <1>1, <2>5
    <3>2. j \notin Starts
      BY <1>1, <2>4, <2>5, <3>1
    <3>3. ~(times[j] > cut)
      BY <3>1, <3>2 DEF Starts
    <3> QED
      BY <1>1, <3>1, <3>3
  <2> QED
    BY <2>5, <2>6
<1>3. FirstWithin(times) \in 1..(Len(times) + 1) /\ Begins(FirstWithin(times))
  BY <1>2 DEF FirstWithin
<1>4. ASSUME NEW j \in DOMAIN times PROVE times[j] > cut <=> j >= FirstWithin(times)
  <2>1. CASE j >= FirstWithin(times)
    <3>1. FirstWithin(times) \in DOMAIN times
      BY <1>1, <1>3, <2>1
    <3>2. times[FirstWithin(times)] > cut /\ times[FirstWithin(times)] <= times[j]
      BY <1>3, <2>1, <3>1 DEF Sorted
    <3> QED
      BY <1>1, <2>1, <3>1, <3>2
  <2>2. CASE ~(j >= FirstWithin(times))
    <3>1. j \in 1..(FirstWithin(times) - 1)
      BY <1>1, <1>3, <2>2
    <3>2. times[j] <= cut
      BY <1>3, <3>1
    <3> QED
      BY <1>1, <2>2, <3>2
  <2> QED
    BY <2>1, <2>2
<1> QED
  BY <1>3, <1>4

\* The times of calls are theirs.
LEMMA MomentsOfCalls ==
    ASSUME NEW calls \in Seq(Calls)
    PROVE  /\ Moments(calls) \in Seq(Nat)
           /\ Len(Moments(calls)) = Len(calls)
           /\ DOMAIN Moments(calls) = 1..Len(calls)
           /\ \A i \in 1..Len(calls) : Moments(calls)[i] = calls[i].at /\ calls[i] \in Calls
<1>1. DOMAIN calls = 1..Len(calls) /\ \A i \in 1..Len(calls) : calls[i] \in Calls
  OBVIOUS
<1>2. Moments(calls) = [i \in 1..Len(calls) |-> calls[i].at]
  BY <1>1 DEF Moments
<1>3. \A i \in 1..Len(calls) : calls[i].at \in Nat
  BY <1>1 DEF Calls
<1>4. Len(calls) \in Nat
  OBVIOUS
<1>5. [i \in 1..Len(calls) |-> calls[i].at] \in Seq(Nat)
  BY <1>3, <1>4
<1> QED
  BY <1>1, <1>2, <1>4, <1>5

\* A call that is counted for its user stands for the new hit.
LEMMA OwnCallIsMatched ==
    ASSUME NEW hits \in Seq(Nat), NEW calls \in Seq(Calls), NEW u, NEW t \in Nat, NEW f,
           StandFor(hits, calls, u, f)
    PROVE  \E g : StandFor(Append(hits, t), Append(calls, [user |-> u, at |-> t]), u, g)
<1> DEFINE more == Append(hits, t)
           calls2 == Append(calls, [user |-> u, at |-> t])
           g == [j \in 1..(Len(hits) + 1) |-> IF j = Len(hits) + 1 THEN Len(calls) + 1 ELSE f[j]]
<1>1. /\ Len(hits) \in Nat /\ Len(more) = Len(hits) + 1
      /\ more[Len(hits) + 1] = t
      /\ \A j \in 1..Len(hits) : more[j] = hits[j]
  OBVIOUS
<1>2. /\ Len(calls) \in Nat /\ DOMAIN calls = 1..Len(calls)
      /\ DOMAIN calls2 = 1..(Len(calls) + 1)
      /\ calls2[Len(calls) + 1] = [user |-> u, at |-> t]
      /\ \A j \in 1..Len(calls) : calls2[j] = calls[j]
  OBVIOUS
<1>3. /\ f \in [1..Len(hits) -> 1..Len(calls)]
      /\ \A j \in 1..Len(hits) : calls[f[j]].user = u /\ calls[f[j]].at = hits[j]
      /\ \A i, j \in 1..Len(hits) : f[i] = f[j] => i = j
      /\ \A n \in 1..Len(calls) : calls[n].user = u => \E j \in 1..Len(hits) : f[j] = n
  BY <1>2 DEF StandFor
<1> HIDE DEF more, calls2
<1>4. g \in [1..(Len(hits) + 1) -> 1..(Len(calls) + 1)]
  BY <1>1, <1>2, <1>3
<1>5. \A j \in 1..(Len(hits) + 1) :
          g[j] = (IF j = Len(hits) + 1 THEN Len(calls) + 1 ELSE f[j])
  OBVIOUS
<1> HIDE DEF g
<1>6. ASSUME NEW j \in 1..(Len(hits) + 1)
      PROVE  calls2[g[j]].user = u /\ calls2[g[j]].at = more[j]
  <2>1. CASE j = Len(hits) + 1
    BY <1>1, <1>2, <1>5, <2>1
  <2>2. CASE j # Len(hits) + 1
    <3>1. j \in 1..Len(hits)
      BY <1>1, <2>2
    <3>2. g[j] = f[j] /\ f[j] \in 1..Len(calls) /\ more[j] = hits[j]
      BY <1>1, <1>3, <1>5, <2>2, <3>1
    <3>3. calls2[f[j]] = calls[f[j]]
      BY <1>2, <3>2
    <3> QED
      BY <1>3, <3>1, <3>2, <3>3
  <2> QED
    BY <2>1, <2>2
<1>7. ASSUME NEW i \in 1..(Len(hits) + 1), NEW j \in 1..(Len(hits) + 1), g[i] = g[j]
      PROVE  i = j
  <2>1. ASSUME NEW k \in 1..Len(hits) PROVE f[k] # Len(calls) + 1
    <3>1. f[k] \in 1..Len(calls)
      BY <1>3
    <3> QED
      BY <1>2, <3>1
  <2>2. \A k \in 1..(Len(hits) + 1) : k = Len(hits) + 1 \/ k \in 1..Len(hits)
    BY <1>1
  <2> QED
    BY <1>3, <1>5, <1>7, <2>1, <2>2
<1>8. ASSUME NEW n \in 1..(Len(calls) + 1), calls2[n].user = u
      PROVE  \E j \in 1..(Len(hits) + 1) : g[j] = n
  <2>1. CASE n = Len(calls) + 1
    <3>1. Len(hits) + 1 \in 1..(Len(hits) + 1)
      BY <1>1
    <3> QED
      BY <1>5, <2>1, <3>1
  <2>2. CASE n # Len(calls) + 1
    <3>1. n \in 1..Len(calls) /\ calls[n].user = u
      BY <1>2, <1>8, <2>2
    <3>2. PICK j \in 1..Len(hits) : f[j] = n
      BY <1>3, <3>1
    <3>3. j \in 1..(Len(hits) + 1) /\ j # Len(hits) + 1
      BY <1>1
    <3> QED
      BY <1>5, <3>2, <3>3
  <2> QED
    BY <2>1, <2>2
<1>9. StandFor(more, calls2, u, g)
  BY <1>1, <1>2, <1>4, <1>6, <1>7, <1>8 DEF StandFor
<1> QED
  BY <1>9 DEF more, calls2

\* The calls for others change nothing.
LEMMA OtherCallIsNotMatched ==
    ASSUME NEW hits \in Seq(Nat), NEW calls \in Seq(Calls), NEW u, NEW v, u # v, NEW t \in Nat,
           NEW f, StandFor(hits, calls, u, f)
    PROVE  StandFor(hits, Append(calls, [user |-> v, at |-> t]), u, f)
<1> DEFINE calls2 == Append(calls, [user |-> v, at |-> t])
<1>1. /\ Len(calls) \in Nat /\ DOMAIN calls = 1..Len(calls)
      /\ DOMAIN calls2 = 1..(Len(calls) + 1)
      /\ calls2[Len(calls) + 1] = [user |-> v, at |-> t]
      /\ \A j \in 1..Len(calls) : calls2[j] = calls[j]
  OBVIOUS
<1>2. /\ f \in [1..Len(hits) -> 1..Len(calls)]
      /\ \A j \in 1..Len(hits) : calls[f[j]].user = u /\ calls[f[j]].at = hits[j]
      /\ \A i, j \in 1..Len(hits) : f[i] = f[j] => i = j
      /\ \A n \in 1..Len(calls) : calls[n].user = u => \E j \in 1..Len(hits) : f[j] = n
  BY <1>1 DEF StandFor
<1> HIDE DEF calls2
<1>3. f \in [1..Len(hits) -> 1..(Len(calls) + 1)]
  BY <1>1, <1>2
<1>4. \A n \in 1..(Len(calls) + 1) : calls2[n].user = u => n \in 1..Len(calls)
  BY <1>1
<1>5. StandFor(hits, calls2, u, f)
  BY <1>1, <1>2, <1>3, <1>4 DEF StandFor
<1> QED
  BY <1>5 DEF calls2

\* As many calls were made for a user as there are hits.
LEMMA MatchedAreAsMany ==
    ASSUME NEW hits \in Seq(Nat), NEW calls \in Seq(Calls), NEW u, NEW f,
           StandFor(hits, calls, u, f)
    PROVE  Cardinality({n \in DOMAIN calls : calls[n].user = u}) = Len(hits)
<1> DEFINE mine == {n \in DOMAIN calls : calls[n].user = u}
<1>1. f \in Bijection(1..Len(hits), mine)
  <2>1. f \in [1..Len(hits) -> mine]
    BY DEF StandFor
  <2>2. \A n \in mine : \E j \in 1..Len(hits) : f[j] = n
    BY DEF StandFor
  <2>3. \A i, j \in 1..Len(hits) : f[i] = f[j] => i = j
    BY DEF StandFor
  <2> HIDE DEF mine
  <2> QED
    BY <2>1, <2>2, <2>3 DEF Bijection, Injection, Surjection, IsInjective
<1>2. Len(hits) \in Nat
  OBVIOUS
<1>3. IsFiniteSet(1..Len(hits)) /\ Cardinality(1..Len(hits)) = Len(hits)
  <2>1. \A n \in Nat : IsFiniteSet(1..n) /\ Cardinality(1..n) = n
    BY FS_Interval
  <2> QED
    BY <1>2, <2>1
<1> HIDE DEF mine
<1>4. Cardinality(1..Len(hits)) = Cardinality(mine)
  <2>1. ExistsBijection(1..Len(hits), mine)
    BY <1>1 DEF ExistsBijection
  <2> QED
    BY <1>3, <2>1, FS_Bijection
<1> QED
  BY <1>3, <1>4 DEF mine

\* Dropping what has left the window drops the same on both sides.
LEMMA WindowsAgree ==
    ASSUME hour \in Nat, NEW hits \in Seq(Nat), NEW calls \in Seq(Calls), NEW u, NEW f,
           StandFor(hits, calls, u, f), Sorted(hits), Sorted(Moments(calls))
    PROVE  \E g : StandFor(SubSeq(hits, FirstWithin(hits), Len(hits)),
                           SubSeq(calls, FirstWithin(Moments(calls)), Len(calls)), u, g)
<1> DEFINE cut == hour + 1 - QuotaSpan
           a == FirstWithin(hits)
           b == FirstWithin(Moments(calls))
           newHits == SubSeq(hits, a, Len(hits))
           newCalls == SubSeq(calls, b, Len(calls))
           g == [j \in 1..(Len(hits) - a + 1) |-> f[j + a - 1] - b + 1]
<1>1. /\ Len(hits) \in Nat /\ a \in 1..(Len(hits) + 1)
      /\ \A j \in 1..Len(hits) : hits[j] > cut <=> j >= a
  BY WindowBegins
<1>2. /\ Len(calls) \in Nat /\ b \in 1..(Len(calls) + 1)
      /\ \A j \in 1..Len(calls) : calls[j].at > cut <=> j >= b
  BY WindowBegins, MomentsOfCalls
<1>3. DOMAIN calls = 1..Len(calls)
  OBVIOUS
<1>4. /\ f \in [1..Len(hits) -> 1..Len(calls)]
      /\ \A j \in 1..Len(hits) : calls[f[j]].user = u /\ calls[f[j]].at = hits[j]
      /\ \A i, j \in 1..Len(hits) : f[i] = f[j] => i = j
      /\ \A n \in 1..Len(calls) : calls[n].user = u => \E j \in 1..Len(hits) : f[j] = n
  BY <1>3 DEF StandFor
<1> HIDE DEF a, b, cut
<1>5. /\ Len(newHits) = Len(hits) - a + 1
      /\ \A j \in 1..(Len(hits) - a + 1) : newHits[j] = hits[j + a - 1]
  BY <1>1
<1>6. /\ Len(newCalls) = Len(calls) - b + 1
      /\ DOMAIN newCalls = 1..(Len(calls) - b + 1)
      /\ \A j \in 1..(Len(calls) - b + 1) : newCalls[j] = calls[j + b - 1]
  BY <1>2
<1> HIDE DEF newHits, newCalls
<1>7. ASSUME NEW j \in 1..(Len(hits) - a + 1)
      PROVE  /\ j + a - 1 \in 1..Len(hits)
             /\ f[j + a - 1] \in 1..Len(calls)
             /\ f[j + a - 1] >= b
  <2>1. j + a - 1 \in 1..Len(hits) /\ j + a - 1 >= a
    BY <1>1
  <2>2. f[j + a - 1] \in 1..Len(calls)
    BY <1>4, <2>1
  <2>3. calls[f[j + a - 1]].at > cut
    BY <1>1, <1>4, <2>1
  <2> QED
    BY <1>2, <2>1, <2>2, <2>3
<1>8. \A j \in 1..(Len(hits) - a + 1) : g[j] = f[j + a - 1] - b + 1
  OBVIOUS
<1>9. g \in [1..(Len(hits) - a + 1) -> 1..(Len(calls) - b + 1)]
  <2>1. ASSUME NEW j \in 1..(Len(hits) - a + 1)
        PROVE  f[j + a - 1] - b + 1 \in 1..(Len(calls) - b + 1)
    BY <1>2, <1>7
  <2> QED
    BY <2>1
<1> HIDE DEF g
<1>10. ASSUME NEW j \in 1..(Len(hits) - a + 1)
       PROVE  newCalls[g[j]].user = u /\ newCalls[g[j]].at = newHits[j]
  <2>1. g[j] \in 1..(Len(calls) - b + 1)
    BY <1>9
  <2>2. newCalls[g[j]] = calls[g[j] + b - 1]
    BY <1>6, <2>1
  <2>3. g[j] + b - 1 = f[j + a - 1]
    BY <1>2, <1>7, <1>8
  <2>4. newCalls[g[j]] = calls[f[j + a - 1]]
    BY <2>2, <2>3
  <2>5. j + a - 1 \in 1..Len(hits)
    BY <1>7
  <2>6. calls[f[j + a - 1]].user = u /\ calls[f[j + a - 1]].at = hits[j + a - 1]
    BY <1>4, <2>5
  <2> QED
    BY <1>5, <2>4, <2>6
<1>11. ASSUME NEW i \in 1..(Len(hits) - a + 1), NEW j \in 1..(Len(hits) - a + 1), g[i] = g[j]
       PROVE  i = j
  <2>1. f[i + a - 1] - b + 1 = f[j + a - 1] - b + 1
    BY <1>8, <1>11
  <2>2. f[i + a - 1] \in Int /\ f[j + a - 1] \in Int /\ b \in Int /\ a \in Int
    <3>1. f[i + a - 1] \in 1..Len(calls) /\ f[j + a - 1] \in 1..Len(calls)
      BY <1>7
    <3>2. \A n \in 1..Len(calls) : n \in Int
      BY <1>2
    <3>3. a \in Int /\ b \in Int
      BY <1>1, <1>2
    <3> QED
      BY <3>1, <3>2, <3>3
  <2>3. f[i + a - 1] = f[j + a - 1]
    BY <2>1, <2>2
  <2>4. i + a - 1 = j + a - 1
    BY <1>4, <1>7, <2>3
  <2> QED
    BY <2>2, <2>4
<1>12. ASSUME NEW n \in 1..(Len(calls) - b + 1), newCalls[n].user = u
       PROVE  \E j \in 1..(Len(hits) - a + 1) : g[j] = n
  <2>1. n + b - 1 \in 1..Len(calls) /\ n + b - 1 >= b
    BY <1>2
  <2>2. calls[n + b - 1].user = u /\ calls[n + b - 1].at > cut
    BY <1>2, <1>6, <1>12, <2>1
  <2>3. PICK j \in 1..Len(hits) : f[j] = n + b - 1
    BY <1>4, <2>1, <2>2
  <2>4. j >= a
    BY <1>1, <1>4, <2>2, <2>3
  <2>5. j - a + 1 \in 1..(Len(hits) - a + 1) /\ (j - a + 1) + a - 1 = j
    BY <1>1, <2>4
  <2>6. g[j - a + 1] = f[j] - b + 1
    BY <1>8, <2>5
  <2>7. f[j] - b + 1 = n
    BY <1>2, <2>3
  <2> QED
    BY <2>5, <2>6, <2>7
<1>13. StandFor(newHits, newCalls, u, g)
  BY <1>5, <1>6, <1>9, <1>10, <1>11, <1>12 DEF StandFor
<1> QED
  BY <1>13 DEF newHits, newCalls, a, b

\* What is left of a list in order is in order.
LEMMA RestIsSorted ==
    ASSUME NEW times \in Seq(Nat), Sorted(times), NEW a \in 1..(Len(times) + 1)
    PROVE  /\ SubSeq(times, a, Len(times)) \in Seq(Nat)
           /\ Sorted(SubSeq(times, a, Len(times)))
<1> PICK n \in Nat : n = Len(times)
  OBVIOUS
<1> DEFINE rest == SubSeq(times, a, n)
<1>1. a \in Int /\ n \in Int /\ 1 <= a /\ a <= n + 1
  OBVIOUS
<1>2. \A i \in Int : a <= i /\ i <= n => i \in DOMAIN times /\ times[i] \in Nat
  OBVIOUS
<1>3. \A i \in a..n : times[i] \in Nat
  BY <1>1, <1>2
<1>4. /\ rest \in Seq(Nat)
      /\ Len(rest) = IF a <= n THEN n - a + 1 ELSE 0
      /\ \A i \in 1..(n - a + 1) : rest[i] = times[a + i - 1]
  BY <1>1, <1>3, SubSeqProperties, SMTT(30)
<1> HIDE DEF rest
<1>5. DOMAIN rest = 1..(n - a + 1)
  <2>1. DOMAIN rest = 1..Len(rest)
    BY <1>4
  <2> QED
    BY <1>1, <1>4, <2>1
<1>6. ASSUME NEW i \in DOMAIN rest
      PROVE  i \in Int /\ a + i - 1 \in DOMAIN times /\ rest[i] = times[a + i - 1]
  <2>1. i \in 1..(n - a + 1) /\ rest[i] = times[a + i - 1]
    BY <1>4, <1>5, Zenon
  <2>2. i \in Int /\ a + i - 1 \in Int /\ a <= a + i - 1 /\ a + i - 1 <= n
    BY <1>1, <2>1
  <2> QED
    BY <1>2, <2>1, <2>2, Zenon
<1>7. ASSUME NEW i \in DOMAIN rest, NEW j \in DOMAIN rest, i <= j PROVE rest[i] <= rest[j]
  <2>1. a + i - 1 <= a + j - 1
    BY <1>1, <1>6, <1>7
  <2> QED
    BY <1>6, <2>1, Zenon DEF Sorted
<1>8. Sorted(rest)
  BY <1>7, Zenon DEF Sorted
<1> QED
  BY <1>4, <1>8 DEF rest

\* A later time goes to the end.
LEMMA LaterIsSorted ==
    ASSUME NEW times \in Seq(Nat), Sorted(times), NEW t \in Nat,
           \A j \in DOMAIN times : times[j] <= t
    PROVE  Append(times, t) \in Seq(Nat) /\ Sorted(Append(times, t))
<1>1. /\ Len(times) \in Nat /\ DOMAIN times = 1..Len(times)
      /\ DOMAIN Append(times, t) = 1..(Len(times) + 1)
      /\ Append(times, t)[Len(times) + 1] = t
      /\ \A j \in 1..Len(times) : Append(times, t)[j] = times[j]
  OBVIOUS
<1>2. Append(times, t) \in Seq(Nat)
  OBVIOUS
<1>3. ASSUME NEW i \in 1..(Len(times) + 1), NEW j \in 1..(Len(times) + 1), i <= j
      PROVE  Append(times, t)[i] <= Append(times, t)[j]
  <2>1. CASE j = Len(times) + 1
    <3>1. i = Len(times) + 1 \/ i \in 1..Len(times)
      BY <1>1
    <3> QED
      BY <1>1, <2>1, <3>1
  <2>2. CASE j # Len(times) + 1
    <3>1. i \in 1..Len(times) /\ j \in 1..Len(times)
      BY <1>1, <1>3, <2>2
    <3> QED
      BY <1>1, <1>3, <3>1 DEF Sorted
  <2> QED
    BY <2>1, <2>2
<1> QED
  BY <1>1, <1>2, <1>3 DEF Sorted

\* The times of more calls, and of fewer.
LEMMA MomentsOfMore ==
    ASSUME NEW calls \in Seq(Calls), NEW call \in Calls
    PROVE  /\ Append(calls, call) \in Seq(Calls)
           /\ Moments(Append(calls, call)) = Append(Moments(calls), call.at)
<1> DEFINE more == Append(calls, call)
<1>1. /\ Len(calls) \in Nat /\ DOMAIN more = 1..(Len(calls) + 1)
      /\ more[Len(calls) + 1] = call
      /\ \A j \in 1..Len(calls) : more[j] = calls[j]
  OBVIOUS
<1>2. more \in Seq(Calls)
  OBVIOUS
<1> HIDE DEF more
<1>3. Moments(more) = [i \in 1..(Len(calls) + 1) |-> more[i].at]
  BY <1>1 DEF Moments
<1>4. Append(Moments(calls), call.at) =
          [i \in 1..(Len(calls) + 1) |-> IF i = Len(calls) + 1 THEN call.at ELSE Moments(calls)[i]]
  <2>1. Moments(calls) \in Seq(Nat) /\ Len(Moments(calls)) = Len(calls)
    BY MomentsOfCalls
  <2> QED
    BY <2>1
<1>5. ASSUME NEW i \in 1..(Len(calls) + 1)
      PROVE  more[i].at = IF i = Len(calls) + 1 THEN call.at ELSE Moments(calls)[i]
  <2>1. i = Len(calls) + 1 \/ i \in 1..Len(calls)
    BY <1>1
  <2> QED
    BY <1>1, <2>1, MomentsOfCalls
<1>6. Moments(more) = Append(Moments(calls), call.at)
  BY <1>3, <1>4, <1>5
<1> QED
  BY <1>2, <1>6 DEF more

\* The times of the calls that are left.
LEMMA MomentsOfRest ==
    ASSUME NEW calls \in Seq(Calls), NEW a \in 1..(Len(calls) + 1)
    PROVE  /\ SubSeq(calls, a, Len(calls)) \in Seq(Calls)
           /\ Moments(SubSeq(calls, a, Len(calls))) = SubSeq(Moments(calls), a, Len(calls))
<1> DEFINE rest == SubSeq(calls, a, Len(calls))
<1>1. /\ Len(calls) \in Nat /\ DOMAIN rest = 1..(Len(calls) - a + 1)
      /\ \A j \in 1..(Len(calls) - a + 1) : rest[j] = calls[j + a - 1]
  OBVIOUS
<1>2. rest \in Seq(Calls)
  OBVIOUS
<1> HIDE DEF rest
<1>3. Moments(rest) = [i \in 1..(Len(calls) - a + 1) |-> rest[i].at]
  BY <1>1 DEF Moments
<1>4. SubSeq(Moments(calls), a, Len(calls)) =
          [i \in 1..(Len(calls) - a + 1) |-> Moments(calls)[i + a - 1]]
  <2>1. Moments(calls) \in Seq(Nat) /\ Len(Moments(calls)) = Len(calls)
    BY MomentsOfCalls
  <2> QED
    BY <1>1, <2>1
<1>5. ASSUME NEW i \in 1..(Len(calls) - a + 1) PROVE rest[i].at = Moments(calls)[i + a - 1]
  <2>1. i + a - 1 \in 1..Len(calls)
    BY <1>1
  <2> QED
    BY <1>1, <2>1, MomentsOfCalls
<1>6. Moments(rest) = SubSeq(Moments(calls), a, Len(calls))
  BY <1>3, <1>4, <1>5
<1> QED
  BY <1>2, <1>6 DEF rest

\* What the steps of a request that are no call of the limiter leave alone.
LEMMA QuotaIsLeftAlone ==
    ASSUME QuotaInv, UNCHANGED <<hour, processHits, investorHits, narrated>>
    PROVE  QuotaInv'
BY DEF QuotaInv, Sorted, Moments, StandFor

\* Acquire keeps the types.
LEMMA AcquireKeepsTypes ==
    ASSUME ExplainTypeOK, NEW c \in Analysts, Acquire(c)
    PROVE  ExplainTypeOK'
<1> DEFINE u == task[c].user
<1>1. task[c] \in Tasks /\ u \in Investors
  <2>1. task[c] \in Tasks
    BY DEF ExplainTypeOK, Acquire, Stands
  <2> QED
    BY <2>1 DEF Tasks
<1>2. processHits' \in Seq(Nat)
  BY DEF Acquire, ExplainTypeOK
<1>3. investorHits' \in [Investors -> Seq(Nat)]
  <2>1. CASE Room(u)
    <3>1. Append(investorHits[u], hour) \in Seq(Nat)
      BY <1>1 DEF ExplainTypeOK
    <3>2. investorHits' = [investorHits EXCEPT ![u] = Append(@, hour)]
      BY <2>1 DEF Acquire
    <3> QED
      BY <3>1, <3>2 DEF ExplainTypeOK
  <2>2. CASE ~Room(u)
    BY <2>2 DEF Acquire, ExplainTypeOK
  <2> QED
    BY <2>1, <2>2
<1>4. narrated' \in Seq(Calls)
  <2>1. [user |-> u, at |-> hour] \in Calls
    BY <1>1 DEF Calls, ExplainTypeOK
  <2>2. narrated' = Append(narrated, [user |-> u, at |-> hour]) \/ narrated' = narrated
    BY DEF Acquire
  <2>3. narrated \in Seq(Calls)
    BY DEF ExplainTypeOK
  <2> QED
    BY <2>1, <2>2, <2>3
<1>5. /\ task' \in [Analysts -> Tasks \cup {NoTask}]
      /\ analyses' \subseteq Analyses
      /\ IsFiniteSet(analyses')
  <2>1. CASE Room(u)
    <3>1. [task[c] EXCEPT !.step = "call"] \in Tasks
      BY <1>1 DEF Tasks
    <3>2. task' = [task EXCEPT ![c] = [task[c] EXCEPT !.step = "call"]] /\ UNCHANGED analyses
      BY <2>1 DEF Acquire
    <3> QED
      BY <3>1, <3>2 DEF ExplainTypeOK
  <2>2. CASE ~Room(u)
    <3>1. Store(c, task[c], "unavailable", NoTask)
      BY <2>2 DEF Acquire
    <3> QED
      BY <1>1, <3>1, StoreKeepsTypes DEF ExplainTypeOK
  <2> QED
    BY <2>1, <2>2
<1>6. UNCHANGED <<hour, signals, stamp>>
  BY DEF Acquire
<1> QED
  BY <1>2, <1>3, <1>4, <1>5, <1>6 DEF ExplainTypeOK

\* A hit is recorded for the user and for the process, or for neither.
LEMMA AcquireKeepsQuota ==
    ASSUME ExplainTypeOK, QuotaInv, NEW c \in Analysts, Acquire(c)
    PROVE  QuotaInv'
<1> DEFINE u == task[c].user
           call == [user |-> u, at |-> hour]
<1>1. u \in Investors
  <2>1. task[c] \in Tasks
    BY DEF ExplainTypeOK, Acquire, Stands
  <2> QED
    BY <2>1 DEF Tasks
<1>2. CASE ~Room(u)
  <2>1. UNCHANGED <<hour, processHits, investorHits, narrated>>
    BY <1>2 DEF Acquire, ProcessCounts
  <2> QED
    BY <2>1, QuotaIsLeftAlone
<1>3. CASE Room(u)
  <2>1. /\ processHits' = Append(processHits, hour)
        /\ investorHits' = [investorHits EXCEPT ![u] = Append(investorHits[u], hour)]
        /\ narrated' = Append(narrated, call)
        /\ hour' = hour
    BY <1>3 DEF Acquire, ProcessCounts
  <2>2. narrated \in Seq(Calls) /\ call \in Calls /\ hour \in Nat
    BY <1>1 DEF ExplainTypeOK, Calls
  <2>3. Moments(narrated') = Append(Moments(narrated), hour)
    BY <2>1, <2>2, MomentsOfMore
  <2>4. /\ DOMAIN narrated = 1..Len(narrated) /\ DOMAIN narrated' = 1..(Len(narrated) + 1)
        /\ narrated'[Len(narrated) + 1] = call
        /\ \A i \in 1..Len(narrated) : narrated'[i] = narrated[i]
    BY <2>1, <2>2
  <2>5. processHits' = Moments(narrated')
    BY <2>1, <2>3 DEF QuotaInv
  <2>6. Sorted(Moments(narrated'))
    <3>1. \A j \in DOMAIN Moments(narrated) : Moments(narrated)[j] <= hour
      BY <2>2, <2>4, MomentsOfCalls DEF QuotaInv
    <3>2. Moments(narrated) \in Seq(Nat) /\ Sorted(Moments(narrated))
      BY <2>2, MomentsOfCalls DEF QuotaInv
    <3>3. Sorted(Append(Moments(narrated), hour))
      BY <2>2, <3>1, <3>2, LaterIsSorted
    <3> QED
      BY <2>3, <3>3
  <2>7. ASSUME NEW i \in DOMAIN narrated'
        PROVE  narrated'[i].at <= hour' /\ narrated'[i].at > hour' - QuotaSpan
    <3>1. CASE i \in 1..Len(narrated)
      BY <2>1, <2>4, <3>1 DEF QuotaInv
    <3>2. CASE i = Len(narrated) + 1
      BY <2>1, <2>2, <2>4, <3>2, ExplanationConstants
    <3>3. i \in 1..Len(narrated) \/ i = Len(narrated) + 1
      BY <2>2, <2>4
    <3> QED
      BY <3>1, <3>2, <3>3
  <2>8. ASSUME NEW v \in Investors
        PROVE  Sorted(investorHits'[v]) /\ \E f : StandFor(investorHits'[v], narrated', v, f)
    <3>1. PICK f : StandFor(investorHits[v], narrated, v, f)
      BY DEF QuotaInv
    <3>2. investorHits[v] \in Seq(Nat) /\ Sorted(investorHits[v])
      BY DEF QuotaInv, ExplainTypeOK
    <3>3. CASE v = u
      <4>1. investorHits'[v] = Append(investorHits[v], hour)
        BY <1>1, <2>1, <3>3 DEF ExplainTypeOK
      <4>2. \E g : StandFor(Append(investorHits[v], hour),
                            Append(narrated, [user |-> v, at |-> hour]), v, g)
        BY <2>2, <3>1, <3>2, OwnCallIsMatched
      <4>3. \A j \in DOMAIN investorHits[v] : investorHits[v][j] <= hour
        <5>1. ASSUME NEW j \in 1..Len(investorHits[v]) PROVE investorHits[v][j] <= hour
          <6>1. f[j] \in DOMAIN narrated /\ narrated[f[j]].at = investorHits[v][j]
            BY <3>1 DEF StandFor
          <6> QED
            BY <6>1 DEF QuotaInv
        <5>2. DOMAIN investorHits[v] = 1..Len(investorHits[v])
          BY <3>2
        <5> QED
          BY <5>1, <5>2
      <4>4. Sorted(Append(investorHits[v], hour))
        BY <2>2, <3>2, <4>3, LaterIsSorted
      <4> QED
        BY <2>1, <3>3, <4>1, <4>2, <4>4
    <3>4. CASE v # u
      <4>1. investorHits'[v] = investorHits[v]
        BY <1>1, <2>1, <3>4 DEF ExplainTypeOK
      <4>2. StandFor(investorHits[v], Append(narrated, [user |-> u, at |-> hour]), v, f)
        BY <2>2, <3>1, <3>2, <3>4, OtherCallIsNotMatched
      <4> QED
        BY <2>1, <3>2, <4>1, <4>2
    <3> QED
      BY <3>3, <3>4
  <2> QED
    BY <2>5, <2>6, <2>7, <2>8 DEF QuotaInv
<1> QED
  BY <1>2, <1>3

\* What leaves the window leaves it everywhere.
LEMMA HourKeepsBoth ==
    ASSUME ExplainTypeOK, QuotaInv, HourPasses
    PROVE  ExplainTypeOK' /\ QuotaInv'
<1> DEFINE b == FirstWithin(Moments(narrated))
           rest == SubSeq(narrated, b, Len(narrated))
<1>1. /\ hour \in Nat /\ hour' = hour + 1
      /\ processHits' = SubSeq(processHits, FirstWithin(processHits), Len(processHits))
      /\ investorHits' = [u \in Investors |->
             SubSeq(investorHits[u], FirstWithin(investorHits[u]), Len(investorHits[u]))]
      /\ narrated' = rest
      /\ UNCHANGED <<signals, task, analyses, stamp>>
  BY DEF HourPasses, Recently, ExplainTypeOK
<1>2. narrated \in Seq(Calls) /\ processHits = Moments(narrated) /\ Sorted(Moments(narrated))
  BY DEF ExplainTypeOK, QuotaInv
<1>3. /\ Moments(narrated) \in Seq(Nat) /\ Len(Moments(narrated)) = Len(narrated)
      /\ DOMAIN Moments(narrated) = 1..Len(narrated)
      /\ \A i \in 1..Len(narrated) : Moments(narrated)[i] = narrated[i].at /\ narrated[i] \in Calls
  BY <1>2, MomentsOfCalls
<1>4. /\ b \in 1..(Len(narrated) + 1)
      /\ \A j \in 1..Len(narrated) : narrated[j].at > hour + 1 - QuotaSpan <=> j >= b
  BY <1>1, <1>2, <1>3, WindowBegins
<1>5. rest \in Seq(Calls) /\ Moments(rest) = SubSeq(Moments(narrated), b, Len(narrated))
  <2> HIDE DEF b
  <2> QED
    BY <1>2, <1>4, MomentsOfRest
<1>6. processHits' = Moments(rest)
  BY <1>1, <1>2, <1>3, <1>5
<1>7. Moments(rest) \in Seq(Nat) /\ Sorted(Moments(rest))
  BY <1>2, <1>3, <1>4, <1>5, RestIsSorted
<1>8. ASSUME NEW u \in Investors
      PROVE  /\ investorHits'[u] \in Seq(Nat) /\ Sorted(investorHits'[u])
             /\ \E g : StandFor(investorHits'[u], rest, u, g)
  <2>1. investorHits'[u] =
            SubSeq(investorHits[u], FirstWithin(investorHits[u]), Len(investorHits[u]))
    BY <1>1
  <2>2. PICK f : StandFor(investorHits[u], narrated, u, f)
    BY DEF QuotaInv
  <2>3. investorHits[u] \in Seq(Nat) /\ Sorted(investorHits[u])
    BY DEF QuotaInv, ExplainTypeOK
  <2>4. FirstWithin(investorHits[u]) \in 1..(Len(investorHits[u]) + 1)
    BY <1>1, <2>3, WindowBegins
  <2>5. investorHits'[u] \in Seq(Nat) /\ Sorted(investorHits'[u])
    BY <2>1, <2>3, <2>4, RestIsSorted
  <2>6. \E g : StandFor(SubSeq(investorHits[u], FirstWithin(investorHits[u]),
                               Len(investorHits[u])), rest, u, g)
    BY <1>1, <1>2, <2>2, <2>3, WindowsAgree
  <2> QED
    BY <2>1, <2>5, <2>6
<1>9. ASSUME NEW i \in DOMAIN rest
      PROVE  rest[i].at <= hour' /\ rest[i].at > hour' - QuotaSpan
  <2> HIDE DEF b
  <2>1. Len(narrated) \in Nat /\ DOMAIN narrated = 1..Len(narrated)
    BY <1>2
  <2>2. /\ DOMAIN rest = 1..(Len(narrated) - b + 1)
        /\ \A j \in 1..(Len(narrated) - b + 1) : rest[j] = narrated[j + b - 1]
    BY <1>2, <1>4, <2>1
  <2> HIDE DEF rest
  <2>3. i + b - 1 \in 1..Len(narrated) /\ i + b - 1 >= b
    BY <1>4, <2>1, <2>2
  <2>4. rest[i] = narrated[i + b - 1]
    BY <2>2
  <2>5. narrated[i + b - 1].at <= hour /\ narrated[i + b - 1].at > hour + 1 - QuotaSpan
    BY <1>4, <2>1, <2>3 DEF QuotaInv
  <2>6. narrated[i + b - 1].at \in Nat
    BY <1>3, <2>3 DEF Calls
  <2> QED
    BY <1>1, <2>4, <2>5, <2>6, ExplanationConstants
<1> HIDE DEF rest, b
<1>10. ExplainTypeOK'
  <2>1. investorHits' \in [Investors -> Seq(Nat)]
    BY <1>1, <1>8
  <2> QED
    BY <1>1, <1>5, <1>6, <1>7, <2>1 DEF ExplainTypeOK
<1>11. QuotaInv'
  BY <1>1, <1>6, <1>7, <1>8, <1>9 DEF QuotaInv
<1> QED
  BY <1>10, <1>11

\* The steps of a request.
LEMMA RequestsKeepTypes ==
    ASSUME ExplainTypeOK, NEW c \in Analysts,
           \/ \E u \in Owners, scope \in Scopes :
                  BeginAnalysis(c, u, scope) \/ AnalyzeAlone(c, u, scope)
           \/ \E u \in Investors \ Owners : ExplainSet(c, u)
           \/ \E retried \in BOOLEAN : AttemptInVain(c, retried)
           \/ \E reply \in Replies : AttemptAnswered(c, reply)
           \/ LoseTask(c)
    PROVE  ExplainTypeOK' /\ UNCHANGED <<hour, processHits, investorHits, narrated>>
<1>1. ASSUME NEW u \in Owners, NEW scope \in Scopes, BeginAnalysis(c, u, scope)
      PROVE  ExplainTypeOK' /\ UNCHANGED <<hour, processHits, investorHits, narrated>>
  <2>1. Begun(u, scope) \in Tasks
    BY ExplanationConstants, BegunIsATask DEF ExplainTypeOK
  <2> QED
    BY <1>1, <2>1 DEF BeginAnalysis, ExplainTypeOK
<1>2. ASSUME NEW u \in Owners, NEW scope \in Scopes, AnalyzeAlone(c, u, scope)
      PROVE  ExplainTypeOK' /\ UNCHANGED <<hour, processHits, investorHits, narrated>>
  <2>1. Begun(u, scope) \in Tasks
    BY ExplanationConstants, BegunIsATask DEF ExplainTypeOK
  <2>2. Store(c, Begun(u, scope), "unavailable", NoTask)
    BY <1>2 DEF AnalyzeAlone
  <2>3. /\ task' \in [Analysts -> Tasks \cup {NoTask}]
        /\ analyses' \subseteq Analyses
        /\ IsFiniteSet(analyses')
    BY <2>1, <2>2, StoreKeepsTypes DEF ExplainTypeOK
  <2> QED
    BY <1>2, <2>3 DEF AnalyzeAlone, ExplainTypeOK
<1>3. ASSUME NEW u \in Investors \ Owners, ExplainSet(c, u)
      PROVE  ExplainTypeOK' /\ UNCHANGED <<hour, processHits, investorHits, narrated>>
  <2>1. <<>> \in [{} -> Labels]
    OBVIOUS
  <2>2. <<>> \in UNION {[some -> Labels] : some \in SUBSET Positions}
    BY <2>1
  <2>3. [user |-> u, scope |-> NoTask, at |-> MaxStamp, items |-> <<>>, tries |-> 0,
         step |-> "acquire"] \in Tasks
    <3>1. ASSUME NEW none \in UNION {[some -> Labels] : some \in SUBSET Positions}
          PROVE  [user |-> u, scope |-> NoTask, at |-> MaxStamp, items |-> none, tries |-> 0,
                  step |-> "acquire"] \in Tasks
      BY ExplanationConstants DEF Tasks
    <3> QED
      BY <2>2, <3>1
  <2> QED
    BY <1>3, <2>3 DEF ExplainSet, ExplainTypeOK
<1>4. ASSUME NEW retried \in BOOLEAN, AttemptInVain(c, retried)
      PROVE  ExplainTypeOK' /\ UNCHANGED <<hour, processHits, investorHits, narrated>>
  <2>1. task[c] \in Tasks /\ task[c] # NoTask
    BY <1>4 DEF AttemptInVain, Stands, ExplainTypeOK
  <2>2. /\ task' \in [Analysts -> Tasks \cup {NoTask}]
        /\ analyses' \subseteq Analyses
        /\ IsFiniteSet(analyses')
    <3>1. CASE retried
      BY <1>4, <2>1, <3>1, RetryKeepsTypes DEF AttemptInVain, ExplainTypeOK
    <3>2. CASE ~retried
      <4>1. Store(c, task[c], "unavailable", NoTask)
        BY <1>4, <3>2 DEF AttemptInVain
      <4> QED
        BY <2>1, <4>1, StoreKeepsTypes DEF ExplainTypeOK
    <3> QED
      BY <3>1, <3>2
  <2> QED
    BY <1>4, <2>2 DEF AttemptInVain, ExplainTypeOK
<1>5. ASSUME NEW reply \in Replies, AttemptAnswered(c, reply)
      PROVE  ExplainTypeOK' /\ UNCHANGED <<hour, processHits, investorHits, narrated>>
  <2>1. task[c] \in Tasks
    BY <1>5 DEF AttemptAnswered, Stands, ExplainTypeOK
  <2>2. \/ Store(c, task[c], "available", reply)
        \/ Store(c, task[c], "unavailable", NoTask)
    BY <1>5 DEF AttemptAnswered
  <2>3. /\ task' \in [Analysts -> Tasks \cup {NoTask}]
        /\ analyses' \subseteq Analyses
        /\ IsFiniteSet(analyses')
    BY <2>1, <2>2, StoreKeepsTypes DEF ExplainTypeOK
  <2> QED
    BY <1>5, <2>3 DEF AttemptAnswered, ExplainTypeOK
<1>6. ASSUME LoseTask(c)
      PROVE  ExplainTypeOK' /\ UNCHANGED <<hour, processHits, investorHits, narrated>>
  BY <1>6 DEF LoseTask, ExplainTypeOK
<1> QED
  BY <1>1, <1>2, <1>3, <1>4, <1>5, <1>6

\* Every step keeps the hits and the calls together.
LEMMA ExplainStep == ExplainInv /\ [ExplainNext]_explainVars => ExplainInv'
<1> SUFFICES ASSUME ExplainInv, [ExplainNext]_explainVars PROVE ExplainInv'
  OBVIOUS
<1> USE DEF ExplainInv
<1>1. ASSUME NEW c \in Analysts,
             \/ \E u \in Owners, scope \in Scopes :
                    BeginAnalysis(c, u, scope) \/ AnalyzeAlone(c, u, scope)
             \/ \E u \in Investors \ Owners : ExplainSet(c, u)
             \/ \E retried \in BOOLEAN : AttemptInVain(c, retried)
             \/ \E reply \in Replies : AttemptAnswered(c, reply)
             \/ LoseTask(c)
      PROVE  ExplainInv'
  BY <1>1, RequestsKeepTypes, QuotaIsLeftAlone
<1>2. ASSUME NEW c \in Analysts, Acquire(c) PROVE ExplainInv'
  BY <1>2, AcquireKeepsTypes, AcquireKeepsQuota
<1>3. ASSUME NEW a \in analyses, RemoveAnalysis(a) PROVE ExplainInv'
  <2>1. [a EXCEPT !.deleted = TRUE] \in Analyses
    <3>1. a \in Analyses
      BY DEF ExplainTypeOK
    <3> QED
      BY <3>1 DEF Analyses
  <2>2. IsFiniteSet((analyses \ {a}) \cup {[a EXCEPT !.deleted = TRUE]})
    BY FS_RemoveElement, FS_AddElement DEF ExplainTypeOK
  <2>3. ExplainTypeOK'
    BY <1>3, <2>1, <2>2 DEF RemoveAnalysis, ExplainTypeOK
  <2> QED
    BY <1>3, <2>3, QuotaIsLeftAlone DEF RemoveAnalysis
<1>4. ASSUME NEW p \in Positions, MoveMarket(p) PROVE ExplainInv'
  <2>1. \E l \in Labels : l # signals[p]
    BY DEF Labels
  <2>2. (CHOOSE l \in Labels : l # signals[p]) \in Labels
    BY <2>1
  <2>3. ExplainTypeOK'
    BY <1>4, <2>2 DEF MoveMarket, ExplainTypeOK
  <2> QED
    BY <1>4, <2>3, QuotaIsLeftAlone DEF MoveMarket
<1>5. CASE HourPasses
  BY <1>5, HourKeepsBoth
<1>6. CASE UNCHANGED explainVars
  <2>1. ExplainTypeOK'
    BY <1>6 DEF explainVars, ExplainTypeOK
  <2> QED
    BY <1>6, <2>1, QuotaIsLeftAlone DEF explainVars
<1> QED
  BY <1>1, <1>2, <1>3, <1>4, <1>5, <1>6 DEF ExplainNext

\* Nothing was asked at first.
LEMMA ExplainStart == ExplainInit => ExplainInv
<1> SUFFICES ASSUME ExplainInit PROVE ExplainInv
  OBVIOUS
<1>1. ExplainTypeOK
  <2>1. IsFiniteSet({})
    BY FS_EmptySet
  <2> QED
    BY <2>1 DEF ExplainInit, ExplainTypeOK
<1>2. narrated = <<>> /\ DOMAIN narrated = {}
  BY DEF ExplainInit
<1>3. Moments(narrated) = <<>>
  BY <1>2 DEF Moments
<1>4. \A u \in Investors : StandFor(investorHits[u], narrated, u, <<>>)
  BY <1>2 DEF ExplainInit, StandFor
<1>5. Sorted(<<>>)
  BY DEF Sorted
<1> QED
  BY <1>1, <1>2, <1>3, <1>4, <1>5 DEF ExplainInv, QuotaInv, ExplainInit

\* The variables of the model have the types of their columns and counters.
THEOREM ExplanationTypeCorrect == ExplainSpec => []ExplainTypeOK
<1>1. ExplainInv => ExplainTypeOK
  BY DEF ExplainInv
<1> QED
  BY <1>1, ExplainStart, ExplainStep, PTL DEF ExplainSpec

\* What the history holds against a user is what the limiter holds.
LEMMA QuotaIsWhatWasCalled ==
    ASSUME ExplainInv, NEW u \in Investors
    PROVE  /\ Lately = DOMAIN narrated
           /\ Cardinality(Lately) = Len(processHits)
           /\ Cardinality({i \in Lately : narrated[i].user = u}) = Len(investorHits[u])
<1>1. Lately = DOMAIN narrated
  BY DEF Lately, ExplainInv, QuotaInv
<1>2. narrated \in Seq(Calls) /\ investorHits[u] \in Seq(Nat)
  BY DEF ExplainInv, ExplainTypeOK
<1>3. Len(processHits) = Len(narrated)
  BY <1>2, MomentsOfCalls DEF ExplainInv, QuotaInv
<1>4. DOMAIN narrated = 1..Len(narrated) /\ Len(narrated) \in Nat
  BY <1>2
<1>5. Cardinality(1..Len(narrated)) = Len(narrated)
  <2>1. \A n \in Nat : Cardinality(1..n) = n
    BY FS_Interval
  <2> QED
    BY <1>4, <2>1
<1>6. PICK f : StandFor(investorHits[u], narrated, u, f)
  BY DEF ExplainInv, QuotaInv
<1>7. Cardinality({n \in DOMAIN narrated : narrated[n].user = u}) = Len(investorHits[u])
  BY <1>2, <1>6, MatchedAreAsMany
<1> QED
  BY <1>1, <1>3, <1>4, <1>5, <1>7

\* A step changes the request of no other.
LEMMA OnlyAcquireDecides ==
    ASSUME ExplainInv, [ExplainNext]_explainVars, NEW c \in Analysts, Stands(c, "acquire"),
           task'[c] # task[c]
    PROVE  Acquire(c)
<1>1. task[c] # NoTask /\ task[c].step = "acquire"
  BY DEF Stands
<1>2. ASSUME NEW d \in Analysts, NEW u \in Owners, NEW scope \in Scopes,
             BeginAnalysis(d, u, scope) \/ AnalyzeAlone(d, u, scope)
      PROVE  FALSE
  BY <1>1, <1>2 DEF BeginAnalysis, AnalyzeAlone, Store, ExplainInv, ExplainTypeOK
<1>3. ASSUME NEW d \in Analysts, NEW u \in Investors \ Owners, ExplainSet(d, u)
      PROVE  FALSE
  BY <1>1, <1>3 DEF ExplainSet, ExplainInv, ExplainTypeOK
<1>4. ASSUME NEW d \in Analysts, Acquire(d) PROVE d = c
  BY <1>4 DEF Acquire, Store, ExplainInv, ExplainTypeOK
<1>5. ASSUME NEW d \in Analysts, NEW retried \in BOOLEAN, AttemptInVain(d, retried)
      PROVE  FALSE
  <2>1. d # c
    BY <1>1, <1>5 DEF AttemptInVain, Stands
  <2> QED
    BY <1>5, <2>1 DEF AttemptInVain, Retry, Store, ExplainInv, ExplainTypeOK
<1>6. ASSUME NEW d \in Analysts, NEW reply \in Replies, AttemptAnswered(d, reply)
      PROVE  FALSE
  <2>1. d # c
    BY <1>1, <1>6 DEF AttemptAnswered, Stands
  <2> QED
    BY <1>6, <2>1 DEF AttemptAnswered, Store, ExplainInv, ExplainTypeOK
<1>7. ASSUME NEW d \in Analysts, LoseTask(d) PROVE FALSE
  <2>1. d # c
    BY <1>1, <1>7 DEF LoseTask, Stands
  <2> QED
    BY <1>7, <2>1 DEF LoseTask, ExplainInv, ExplainTypeOK
<1>8. ASSUME NEW a \in analyses, RemoveAnalysis(a) PROVE FALSE
  BY <1>8 DEF RemoveAnalysis
<1>9. ASSUME NEW p \in Positions, MoveMarket(p) PROVE FALSE
  BY <1>9 DEF MoveMarket
<1>10. CASE HourPasses
  BY <1>10 DEF HourPasses
<1>11. CASE UNCHANGED explainVars
  BY <1>11 DEF explainVars
<1> QED
  BY <1>2, <1>3, <1>4, <1>5, <1>6, <1>7, <1>8, <1>9, <1>10, <1>11 DEF ExplainNext

\* A user is refused exactly when the user, or all users, have had their share of the
\* window: what was refused is counted for nobody.
THEOREM QuotasAreAlwaysExact == ExplainSpec => QuotasAreExact
<1> DEFINE Decided ==
      \A c \in Analysts : Stands(c, "acquire") /\ task'[c] # task[c] =>
          LET mine == {i \in Lately : narrated[i].user = task[c].user}
          IN  Stands(c, "call")' <=>
                  Cardinality(mine) < PerInvestor /\ Cardinality(Lately) < PerProcess
<1>1. ASSUME ExplainInv, [ExplainNext]_explainVars PROVE Decided
  <2> SUFFICES ASSUME NEW c \in Analysts, Stands(c, "acquire"), task'[c] # task[c]
               PROVE  Stands(c, "call")' <=>
                          /\ Cardinality({i \in Lately : narrated[i].user = task[c].user})
                                 < PerInvestor
                          /\ Cardinality(Lately) < PerProcess
    OBVIOUS
  <2>1. Acquire(c)
    BY <1>1, OnlyAcquireDecides
  <2>2. task[c] \in Tasks /\ task[c].user \in Investors
    <3>1. task[c] \in Tasks
      BY <1>1 DEF Stands, ExplainInv, ExplainTypeOK
    <3> QED
      BY <3>1 DEF Tasks
  <2>3. /\ Cardinality({i \in Lately : narrated[i].user = task[c].user}) < PerInvestor
        /\ Cardinality(Lately) < PerProcess
        <=> Room(task[c].user)
    BY <1>1, <2>2, QuotaIsWhatWasCalled DEF Room
  <2>4. CASE Room(task[c].user)
    <3>1. [task[c] EXCEPT !.step = "call"] \in Tasks
      BY <2>2 DEF Tasks
    <3>2. task'[c] = [task[c] EXCEPT !.step = "call"]
      BY <1>1, <2>1, <2>4 DEF Acquire, ExplainInv, ExplainTypeOK
    <3>3. task'[c] # NoTask /\ task'[c].step = "call"
      BY <2>2, <3>1, <3>2, NoTaskIsNone DEF Tasks
    <3> QED
      BY <2>3, <2>4, <3>3 DEF Stands
  <2>5. CASE ~Room(task[c].user)
    <3>1. Store(c, task[c], "unavailable", NoTask)
      BY <2>1, <2>5 DEF Acquire
    <3>2. task'[c] = NoTask
      BY <1>1, <3>1 DEF Store, ExplainInv, ExplainTypeOK
    <3> QED
      BY <2>3, <2>5, <3>2 DEF Stands
  <2> QED
    BY <2>4, <2>5
<1>2. QuotasAreExact <=> [][Decided]_explainVars
  BY DEF QuotasAreExact
<1> QED
  BY <1>1, <1>2, ExplainStart, ExplainStep, PTL DEF ExplainSpec

\* What a step that leaves the current analysis stored makes of the list.
LEMMA CurrentStaysOrIsDeleted ==
    ASSUME ExplainInv, [ExplainNext]_explainVars, NEW a \in analyses, ~a.deleted
    PROVE  a \in analyses' \/ \E d \in analyses' : d.at = a.at /\ d.deleted
<1>1. \A c, t, status, narrative :
          Store(c, t, status, narrative) => analyses \subseteq analyses'
  BY DEF Store
<1>2. ASSUME NEW b \in analyses, RemoveAnalysis(b)
      PROVE  a \in analyses' \/ \E d \in analyses' : d.at = a.at /\ d.deleted
  <2>1. CASE a # b
    BY <1>2, <2>1 DEF RemoveAnalysis
  <2>2. CASE a = b
    <3>1. [a EXCEPT !.deleted = TRUE] \in analyses'
      BY <1>2, <2>2 DEF RemoveAnalysis
    <3>2. [a EXCEPT !.deleted = TRUE].at = a.at /\ [a EXCEPT !.deleted = TRUE].deleted
      BY DEF ExplainInv, ExplainTypeOK, Analyses
    <3> QED
      BY <3>1, <3>2
  <2> QED
    BY <2>1, <2>2
<1>3. ASSUME ~(\E b \in analyses : RemoveAnalysis(b)) PROVE analyses \subseteq analyses'
  BY <1>1, <1>3 DEF ExplainNext, BeginAnalysis, AnalyzeAlone, ExplainSet, Acquire,
     AttemptInVain, Retry, AttemptAnswered, LoseTask, MoveMarket, HourPasses, explainVars
<1> QED
  BY <1>2, <1>3

\* A current analysis makes place for one with earlier evidence only if it is deleted.
THEOREM OlderNeverTakesOverTheorem == ExplainSpec => OlderNeverTakesOver
<1> DEFINE TakesOver ==
      \A u \in Investors, scope \in Scopes :
          \A a \in Newest(u, scope), b \in Newest(u, scope)' :
              b.at < a.at => \E d \in analyses' : d.at = a.at /\ d.deleted
<1>1. ASSUME ExplainInv, ExplainInv', [ExplainNext]_explainVars PROVE TakesOver
  <2> SUFFICES ASSUME NEW u \in Investors, NEW scope \in Scopes, NEW a \in Newest(u, scope),
                      NEW b \in Newest(u, scope)', b.at < a.at
               PROVE  \E d \in analyses' : d.at = a.at /\ d.deleted
    OBVIOUS
  <2>1. a \in analyses /\ a.user = u /\ a.scope = scope /\ ~a.deleted
    BY DEF Newest, Listed
  <2>2. CASE a \in analyses'
    <3>1. a \in Listed(u, scope)'
      BY <2>1, <2>2 DEF Listed
    <3>2. a.at \in Nat /\ b.at \in Nat
      BY <1>1, <2>1 DEF Newest, Listed, ExplainInv, ExplainTypeOK, Analyses
    <3>3. a # b
      BY <3>2
    <3>4. b.at > a.at
      BY <3>1, <3>3 DEF Newest, Above
    <3> QED
      BY <3>2, <3>4
  <2> QED
    BY <1>1, <2>1, <2>2, CurrentStaysOrIsDeleted
<1>2. OlderNeverTakesOver <=> [][TakesOver]_explainVars
  BY DEF OlderNeverTakesOver
<1> QED
  BY <1>1, <1>2, ExplainStart, ExplainStep, PTL DEF ExplainSpec

-----------------------------------------------------------------------------
(* PortfolioAnalytics.  The figures of the last refresh are those of what is *)
(* held, and sums over holdings are sums over buckets of sums over holdings. *)

AnalyticsInv ==
    /\ held \in [Places -> Goods \cup {Nothing}]
    /\ latest = Figures(held, evidence)

Themes(book) == {KeyOf(book[p], "theme") : p \in Rows(book)}
ThemeOf(book) == [p \in Rows(book) |-> KeyOf(book[p], "theme")]
InTheme(book, k) == {p \in Rows(book) : KeyOf(book[p], "theme") = k}
Worths(book) == [p \in ValuedRows(book) |-> ValueOf(book[p])]

\* Holdings are finitely many, and the value of one that has a value is a number.
LEMMA HeldRows ==
    ASSUME NEW bk, bk \in [Places -> Goods \cup {Nothing}]
    PROVE  /\ IsFiniteSet(Rows(bk)) /\ IsFiniteSet(ValuedRows(bk))
           /\ ValuedRows(bk) \subseteq Rows(bk) /\ IsFiniteSet(Themes(bk))
           /\ \A p \in ValuedRows(bk) : Worths(bk)[p] \in Nat
           /\ \A p \in Rows(bk) : ThemeOf(bk)[p] \in Themes(bk)
<1>1. Rows(bk) \subseteq Places /\ ValuedRows(bk) \subseteq Rows(bk)
  BY DEF Rows, ValuedRows
<1>2. IsFiniteSet(Rows(bk)) /\ IsFiniteSet(ValuedRows(bk))
  BY <1>1, AnalyticsConstants, FS_Subset
<1>3. ASSUME NEW p \in ValuedRows(bk) PROVE Worths(bk)[p] \in Nat
  <2>1. bk[p] \in Goods /\ bk[p].unit # Nothing
    BY DEF ValuedRows, Rows, Valued
  <2>2. PICK u \in Nat : u = bk[p].unit
    BY <2>1, AnalyticsConstants
  <2>3. PICK q \in Nat : q = bk[p].quantity
    BY <2>1, AnalyticsConstants
  <2>4. u * q \in Nat
    OBVIOUS
  <2> QED
    BY <2>2, <2>3, <2>4 DEF Worths, ValueOf
<1>4. \A p \in Rows(bk) : ThemeOf(bk)[p] \in Themes(bk)
  BY DEF ThemeOf, Themes
<1>5. IsFiniteSet(Themes(bk))
  <2>1. ThemeOf(bk) \in Surjection(Rows(bk), Themes(bk))
    BY DEF Surjection, ThemeOf, Themes
  <2> QED
    BY <1>2, <2>1, FS_Surjection
<1> QED
  BY <1>1, <1>2, <1>3, <1>4, <1>5

\* A value is the sum over the holdings.
LEMMA SumsOfRows ==
    ASSUME NEW bk, bk \in [Places -> Goods \cup {Nothing}], NEW rows \in SUBSET ValuedRows(bk)
    PROVE  SumOf(bk, rows) = Total(Worths(bk), rows)
<1>0. IsFiniteSet(rows)
  BY HeldRows, FS_Subset
<1> DEFINE rec(it) == it = [s \in SUBSET rows |-> IF s = {} THEN 0
               ELSE ValueOf(bk[CHOOSE x \in s : TRUE]) + it[s \ {CHOOSE x \in s : TRUE}]]
<1>1. PICK it : Adds(it, Worths(bk), rows)
  BY <1>0, SumsExist
<1>2. rec(it)
  BY <1>1, PickedIsIn DEF Adds, Pick, Worths
<1>3. rec(CHOOSE i : rec(i))
  BY <1>2
<1>4. SumOf(bk, rows) = (CHOOSE i : rec(i))[rows]
  BY DEF SumOf, MapThenSumSet, MapThenFoldSet
<1>5. Adds(CHOOSE i : rec(i), Worths(bk), rows)
  BY <1>3, PickedIsIn DEF Adds, Pick, Worths
<1> QED
  BY <1>0, <1>4, <1>5, TotalIs

\* What a bucket of the allocation holds.
LEMMA Buckets ==
    ASSUME NEW bk, bk \in [Places -> Goods \cup {Nothing}]
    PROVE  /\ DOMAIN Allocation(bk, "theme") = Themes(bk)
           /\ \A k \in Themes(bk) :
                 /\ Allocation(bk, "theme")[k].count = Cardinality(InTheme(bk, k))
                 /\ Allocation(bk, "theme")[k].value =
                        Total(Worths(bk), InTheme(bk, k) \cap ValuedRows(bk))
                 /\ Allocation(bk, "theme")[k].unvalued =
                        Cardinality(InTheme(bk, k) \ ValuedRows(bk))
                 /\ TotalValue(bk) > 0 =>
                        Allocation(bk, "theme")[k].percent =
                            Percent(Allocation(bk, "theme")[k].value, TotalValue(bk))
<1>1. \A k : SumOf(bk, InTheme(bk, k) \cap ValuedRows(bk)) =
                 Total(Worths(bk), InTheme(bk, k) \cap ValuedRows(bk))
  BY SumsOfRows
<1> QED
  BY <1>1 DEF Allocation, Themes, InTheme

\* The figures add up whatever is held.
LEMMA FiguresAddUp == AnalyticsInv => NothingIsCountedTwice
<1> SUFFICES ASSUME AnalyticsInv PROVE NothingIsCountedTwice
  OBVIOUS
<1>1. PICK bk : bk = held
  OBVIOUS
<1>2. bk \in [Places -> Goods \cup {Nothing}]
  BY <1>1 DEF AnalyticsInv
<1>3. PICK buckets : buckets = Allocation(bk, "theme")
  OBVIOUS
<1>4. /\ latest.themes = buckets /\ latest.count = Cardinality(Rows(bk))
      /\ latest.total = TotalValue(bk)
      /\ latest.attention["insufficient_market_data"] =
             {p \in Rows(bk) : "insufficient_market_data" \in Flags(bk[p])}
  BY <1>1, <1>3 DEF AnalyticsInv, Figures
<1>5. PICK K : K = Themes(bk)
  OBVIOUS
<1>6. /\ DOMAIN buckets = K
      /\ \A k \in K :
            /\ buckets[k].count = Cardinality(InTheme(bk, k))
            /\ buckets[k].value = Total(Worths(bk), InTheme(bk, k) \cap ValuedRows(bk))
            /\ buckets[k].unvalued = Cardinality(InTheme(bk, k) \ ValuedRows(bk))
            /\ TotalValue(bk) > 0 => buckets[k].percent = Percent(buckets[k].value, TotalValue(bk))
  BY <1>2, <1>3, <1>5, Buckets
<1>7. /\ IsFiniteSet(Rows(bk)) /\ IsFiniteSet(ValuedRows(bk)) /\ IsFiniteSet(K)
      /\ ValuedRows(bk) \subseteq Rows(bk)
      /\ \A p \in ValuedRows(bk) : Worths(bk)[p] \in Nat
      /\ \A p \in Rows(bk) : ThemeOf(bk)[p] \in K
  BY <1>2, <1>5, HeldRows
<1>8. \A k \in K :
          /\ InTheme(bk, k) = GroupIn(Rows(bk), ThemeOf(bk), k)
          /\ InTheme(bk, k) \cap ValuedRows(bk) = {p \in ValuedRows(bk) : ThemeOf(bk)[p] = k}
          /\ InTheme(bk, k) \ ValuedRows(bk) =
                 GroupIn(Rows(bk) \ ValuedRows(bk), ThemeOf(bk), k)
  BY <1>7 DEF InTheme, ThemeOf, GroupIn
<1> DEFINE Numbers == [k \in K |-> buckets[k].count]
           Values == [k \in K |-> buckets[k].value]
           Missing == [k \in K |-> buckets[k].unvalued]
           Percents == [k \in K |-> buckets[k].percent]
<1>9. /\ \A k \in K : Numbers[k] = buckets[k].count
      /\ \A k \in K : Values[k] = buckets[k].value
      /\ \A k \in K : Missing[k] = buckets[k].unvalued
      /\ \A k \in K : Percents[k] = buckets[k].percent
  OBVIOUS
<1> HIDE DEF Numbers, Values, Missing, Percents
<1>10. /\ FieldSum(buckets, "count") = Total(Numbers, K)
       /\ FieldSum(buckets, "value") = Total(Values, K)
       /\ FieldSum(buckets, "unvalued") = Total(Missing, K)
       /\ FieldSum(buckets, "percent") = Total(Percents, K)
  BY <1>6, <1>7, <1>9, FieldSums
<1>11. Total(Numbers, K) = Cardinality(Rows(bk))
  <2>1. \A k \in K : Numbers[k] = Cardinality(GroupIn(Rows(bk), ThemeOf(bk), k))
    BY <1>6, <1>8, <1>9
  <2> QED
    BY <1>7, <2>1, CountsByGroup
<1>12. Total(Missing, K) = Cardinality(Rows(bk) \ ValuedRows(bk))
  <2>1. PICK S : S = Rows(bk) \ ValuedRows(bk)
    OBVIOUS
  <2>2. IsFiniteSet(S) /\ \A p \in S : ThemeOf(bk)[p] \in K
    BY <1>7, <2>1, FS_Subset
  <2>3. \A k \in K : Missing[k] = Cardinality(GroupIn(S, ThemeOf(bk), k))
    BY <1>6, <1>8, <1>9, <2>1
  <2>4. Total(Missing, K) = Cardinality(S)
    BY <1>7, <2>2, <2>3, CountsByGroup
  <2> QED
    BY <2>1, <2>4
<1>13. Total(Values, K) = TotalValue(bk) /\ TotalValue(bk) \in Int
  <2>1. TotalValue(bk) = Total(Worths(bk), ValuedRows(bk))
    BY <1>2, SumsOfRows DEF TotalValue
  <2>2. Terms(Worths(bk), ValuedRows(bk)) /\ \A p \in ValuedRows(bk) : ThemeOf(bk)[p] \in K
    BY <1>7 DEF Terms
  <2>3. \A k \in K : GroupSums(Worths(bk), ValuedRows(bk), ThemeOf(bk), K)[k] = Values[k]
    BY <1>6, <1>8, <1>9 DEF GroupSums
  <2>4. Total(GroupSums(Worths(bk), ValuedRows(bk), ThemeOf(bk), K), K) =
            Total(Worths(bk), ValuedRows(bk))
    BY <1>7, <2>2, TotalByGroup
  <2>5. Total(GroupSums(Worths(bk), ValuedRows(bk), ThemeOf(bk), K), K) = Total(Values, K)
    BY <1>7, <2>3, TotalEqual
  <2>6. Total(Worths(bk), ValuedRows(bk)) \in Int
    BY <1>7, <2>2, TotalType
  <2> QED
    BY <2>1, <2>4, <2>5, <2>6
<1>14. TotalValue(bk) > 0 =>
           /\ Total(Percents, K) \in Int
           /\ Total(Percents, K) - 10000 \in -Cardinality(K)..Cardinality(K)
  <2> SUFFICES ASSUME TotalValue(bk) > 0
               PROVE  /\ Total(Percents, K) \in Int
                      /\ Total(Percents, K) - 10000 \in -Cardinality(K)..Cardinality(K)
    OBVIOUS
  <2>1. PICK whole \in Nat \ {0} : whole = TotalValue(bk)
    BY <1>13
  <2>2. \A k \in K : Values[k] \in Nat
    <3> SUFFICES ASSUME NEW k \in K PROVE Values[k] \in Nat
      OBVIOUS
    <3>1. PICK S : S = InTheme(bk, k) \cap ValuedRows(bk)
      OBVIOUS
    <3>2. IsFiniteSet(S) /\ \A p \in S : Worths(bk)[p] \in Nat
      BY <1>7, <3>1, FS_Subset
    <3>3. Total(Worths(bk), S) \in Nat
      BY <3>2, TotalOfNaturals
    <3> QED
      BY <1>6, <1>9, <3>1, <3>3
  <2>3. \A k \in K : Percents[k] = Percent(Values[k], whole)
    BY <1>6, <1>9, <2>1
  <2>4. Total(Values, K) = whole
    BY <1>13, <2>1
  <2> QED
    BY <1>7, <2>2, <2>3, <2>4, PercentsAddUp DEF Percent
<1>15. latest.attention["insufficient_market_data"] = Rows(bk) \ ValuedRows(bk)
  <2>1. \A p \in Rows(bk) : "insufficient_market_data" \in Flags(bk[p]) <=> ~Valued(bk[p])
    BY DEF Flags
  <2> QED
    BY <1>4, <2>1 DEF ValuedRows
<1>16. FieldSum(latest.themes, "count") = latest.count
  BY <1>4, <1>10, <1>11
<1>17. FieldSum(latest.themes, "value") = latest.total
  BY <1>4, <1>10, <1>13
<1>18. FieldSum(latest.themes, "unvalued") =
           Cardinality(latest.attention["insufficient_market_data"])
  BY <1>4, <1>10, <1>12, <1>15
<1>19. latest.total > 0 =>
           FieldSum(latest.themes, "percent") - 10000
               \in -Cardinality(DOMAIN latest.themes)..Cardinality(DOMAIN latest.themes)
  <2>1. DOMAIN latest.themes = K
    BY <1>4, <1>6
  <2> QED
    BY <1>4, <1>10, <1>14, <2>1
<1> QED
  BY <1>16, <1>17, <1>18, <1>19 DEF NothingIsCountedTwice, FieldSum

\* Initially nothing is held.
LEMMA AnalyticsStart == AnalyticsInit => AnalyticsInv
BY DEF AnalyticsInit, AnalyticsInv

\* A refresh computes everything anew.
LEMMA AnalyticsStep == AnalyticsInv /\ [AnalyticsNext]_analyticsVars => AnalyticsInv'
<1> SUFFICES ASSUME AnalyticsInv, [AnalyticsNext]_analyticsVars PROVE AnalyticsInv'
  OBVIOUS
<1>1. ASSUME NEW p \in Places, NEW h \in Goods \cup {Nothing}, Write(p, h) PROVE AnalyticsInv'
  BY <1>1 DEF Write, AnalyticsInv
<1>2. ASSUME NEW e \in Markets, Observe(e) PROVE AnalyticsInv'
  BY <1>2 DEF Observe, AnalyticsInv
<1>3. CASE UNCHANGED analyticsVars
  BY <1>3 DEF analyticsVars, AnalyticsInv
<1> QED
  BY <1>1, <1>2, <1>3 DEF AnalyticsNext

\* However holdings and the market change, every holding counts once.
THEOREM NothingIsEverCountedTwice == AnalyticsSpec => []NothingIsCountedTwice
BY AnalyticsStart, AnalyticsStep, FiguresAddUp, PTL DEF AnalyticsSpec


-----------------------------------------------------------------------------
(* PriceAnalytics: compaction, and what is shown of a history.             *)

\* Raw rows and monthly rollups: a rollup stands at the first day of its month and for at
\* least one observation, and what is shown is computed of what is stored.
HistoryInv ==
    /\ now \in Nat
    /\ IsFiniteSet(observed) /\ \A o \in observed : o.when \in Nat
    /\ IsFiniteSet(DOMAIN months)
    /\ \A k \in DOMAIN months :
           /\ k[2] \in Nat /\ FirstOf(MonthLength, k[2]) = k[2]
           /\ months[k].count \in Nat \ {0}
    /\ shown = Analytics(now \div DayLength, observed, months, weeks)

\* A quotient, by the products around it.
LEMMA DayIs ==
    ASSUME NEW a \in Nat, NEW b \in Nat \ {0}
    PROVE  a \div b \in Nat /\ b * (a \div b) <= a /\ a < b * (a \div b) + b
OBVIOUS

\* What is later is on no earlier day.
LEMMA DaysInOrder ==
    ASSUME NEW a \in Nat, NEW b \in Nat, a <= b
    PROVE  /\ a \div DayLength \in Nat /\ b \div DayLength \in Nat
           /\ a \div DayLength <= b \div DayLength
<1> PICK c \in Nat \ {0} : c = DayLength
  BY PriceConstants
<1> PICK x, y : x = a \div c /\ y = b \div c
  OBVIOUS
<1>1. x \in Nat /\ y \in Nat /\ c * x <= a /\ b < c * y + c
  BY DayIs
<1>2. x <= y
  <2> SUFFICES ASSUME y < x PROVE FALSE
    BY <1>1
  <2> PICK e \in Nat : x = y + 1 + e
    BY <1>1
  <2>1. c * x = c * y + c + c * e /\ c * e \in Nat /\ c * y \in Nat
    BY <1>1
  <2> QED
    BY <1>1, <2>1
<1> QED
  BY <1>1, <1>2

\* The first day of a month or week is no later than any day of it, and its own first.
LEMMA FirstIsNoLater ==
    ASSUME NEW length \in Nat \ {0}, NEW d \in Nat
    PROVE  /\ FirstOf(length, d) \in Nat /\ FirstOf(length, d) <= d
           /\ FirstOf(length, FirstOf(length, d)) = FirstOf(length, d)
<1> PICK x \in Nat : x = FirstOf(length, d) /\ x <= d /\ x = length * (d \div length)
  <2>1. /\ d % length \in 0..(length - 1) /\ d % length <= d
        /\ d - (d % length) = length * (d \div length)
    OBVIOUS
  <2> QED
    BY <2>1 DEF FirstOf
<1>1. x % length = 0
  <2> PICK q \in Nat : q = d \div length
    BY DayIs
  <2>1. x = length * q
    OBVIOUS
  <2> QED
    BY <2>1
<1> QED
  BY <1>1 DEF FirstOf

\* Rollups, by what they stand for.
GroupOf(rows, length, k) == {o \in rows : o.shelf = k[1] /\ FirstOf(length, DayOf(o)) = k[2]}
RollupKey(length, o) == <<o.shelf, FirstOf(length, DayOf(o))>>
RollupKeys(rows, length) == {RollupKey(length, o) : o \in rows}

\* They are finitely many, and together count each row once.
LEMMA RollupsCount ==
    ASSUME NEW rows, IsFiniteSet(rows),
           NEW length \in Nat \ {0}, NEW new, new = RollupsOf(rows, length),
           NEW C, \A k \in DOMAIN new : C[k] = new[k].count
    PROVE  /\ IsFiniteSet(DOMAIN new) /\ DOMAIN new = RollupKeys(rows, length)
           /\ \A k \in DOMAIN new : new[k].count \in Nat \ {0}
           /\ Total(C, DOMAIN new) = Cardinality(rows)
<1> DEFINE g == [o \in rows |-> RollupKey(length, o)]
<1>1. DOMAIN new = RollupKeys(rows, length)
  BY DEF RollupsOf, RollupKeys, RollupKey
<1>2. g \in Surjection(rows, RollupKeys(rows, length))
  BY DEF Surjection, RollupKeys
<1>3. IsFiniteSet(RollupKeys(rows, length))
  BY <1>2, FS_Surjection
<1>4. ASSUME NEW k \in DOMAIN new PROVE new[k].count = Cardinality(GroupOf(rows, length, k))
  BY DEF RollupsOf, GroupOf
<1>5. ASSUME NEW k \in RollupKeys(rows, length)
      PROVE  GroupOf(rows, length, k) = GroupIn(rows, g, k)
  <2>1. PICK p \in rows : k = RollupKey(length, p)
    BY DEF RollupKeys
  <2>2. ASSUME NEW o \in rows
        PROVE  RollupKey(length, o) = k <=> o.shelf = k[1] /\ FirstOf(length, DayOf(o)) = k[2]
    BY <2>1 DEF RollupKey
  <2> QED
    BY <2>2 DEF GroupOf, GroupIn
<1>6. \A k \in DOMAIN new : new[k].count \in Nat \ {0}
  <2> SUFFICES ASSUME NEW k \in DOMAIN new PROVE new[k].count \in Nat \ {0}
    OBVIOUS
  <2>1. GroupOf(rows, length, k) \in SUBSET rows
    BY DEF GroupOf
  <2>2. PICK p \in rows : k = RollupKey(length, p)
    BY <1>1 DEF RollupKeys
  <2>3. p \in GroupOf(rows, length, k)
    BY <2>2 DEF GroupOf, RollupKey
  <2> QED
    BY <1>4, <2>1, <2>3, FS_Subset, FS_CardinalityType, FS_EmptySet
<1>7. \A o \in rows : g[o] \in RollupKeys(rows, length)
  BY DEF RollupKeys
<1>8. Total(C, RollupKeys(rows, length)) = Cardinality(rows)
  <2> HIDE DEF g
  <2>1. \A k \in RollupKeys(rows, length) : C[k] = Cardinality(GroupIn(rows, g, k))
    BY <1>1, <1>4, <1>5
  <2> QED
    BY <1>3, <1>7, <2>1, CountsByGroup
<1> QED
  BY <1>1, <1>3, <1>6, <1>8

\* What monthly rollups stand for, as a sum.
LEMMA CompactedIs ==
    ASSUME NEW monthly, IsFiniteSet(DOMAIN monthly), NEW F,
           \A k \in DOMAIN monthly : F[k] = monthly[k].count
    PROVE  Compacted(monthly) = Total(F, DOMAIN monthly)
<1>1. FieldSum(monthly, "count") = Total(F, DOMAIN monthly)
  BY FieldSums
<1> QED
  BY <1>1 DEF Compacted, FieldSum

\* What rollups count when some have replaced others.
CountsNoMore(all, old, rows, length) ==
    /\ IsFiniteSet(DOMAIN all) /\ DOMAIN all = DOMAIN old \cup RollupKeys(rows, length)
    /\ \A k \in DOMAIN all : all[k].count \in Nat \ {0}
    /\ Compacted(all) \in Nat /\ Compacted(old) \in Nat
    /\ Compacted(all) <= Compacted(old) + Cardinality(rows)

\* New rollups count the rows they replace, and the old ones of the same months are lost.
LEMMA ReplacedCounts ==
    ASSUME NEW old, IsFiniteSet(DOMAIN old), \A k \in DOMAIN old : old[k].count \in Nat \ {0},
           NEW rows, IsFiniteSet(rows),
           NEW length \in Nat \ {0}, NEW new, new = RollupsOf(rows, length),
           NEW all, all = Replaced(old, new)
    PROVE  CountsNoMore(all, old, rows, length)
<1> DEFINE A == [k \in DOMAIN all |-> all[k].count]
           B == [k \in DOMAIN old |-> old[k].count]
           K == DOMAIN new
           M == DOMAIN old
           rest == M \ K
<1>1. DOMAIN all = M \cup K /\ \A k \in DOMAIN all : all[k] = IF k \in K THEN new[k] ELSE old[k]
  BY DEF Replaced
<1>2. \A k \in K : A[k] = new[k].count
  BY <1>1
<1>3. /\ IsFiniteSet(K) /\ K = RollupKeys(rows, length) /\ \A k \in K : new[k].count \in Nat \ {0}
      /\ Total(A, K) = Cardinality(rows)
  <2> HIDE DEF A
  <2> QED
    BY <1>2, RollupsCount
<1>4. IsFiniteSet(DOMAIN all) /\ \A k \in DOMAIN all : all[k].count \in Nat \ {0}
  <2>1. IsFiniteSet(DOMAIN all)
    <3> HIDE DEF K
    <3>1. IsFiniteSet(M \cup K)
      BY <1>3, FS_Union
    <3> QED
      BY <1>1, <3>1
  <2>2. ASSUME NEW k \in DOMAIN all PROVE all[k].count \in Nat \ {0}
    <3>1. CASE k \in K
      BY <1>1, <1>3, <3>1
    <3>2. CASE k \notin K
      BY <1>1, <3>2
    <3> QED
      BY <3>1, <3>2
  <2> QED
    BY <2>1, <2>2
<1>5. IsFiniteSet(rest) /\ IsFiniteSet(M \cap K)
  BY FS_Difference, FS_Intersection
<1>6. Compacted(all) = Total(A, M \cup K) /\ Compacted(old) = Total(B, M)
  BY <1>1, <1>4, CompactedIs
<1>7. /\ \A k \in M \cup K : A[k] \in Nat
      /\ \A k \in M : B[k] \in Nat
      /\ \A k \in rest : A[k] = B[k]
  BY <1>1, <1>4
<1> HIDE DEF A, B, K, M
<1>8. Total(A, rest \cup K) = Total(A, rest) + Total(A, K)
  <2>1. Terms(A, rest \cup K) /\ rest \cap K = {}
    BY <1>7 DEF Terms
  <2> HIDE DEF rest
  <2> QED
    BY <1>3, <1>5, <2>1, TotalOfBoth
<1>9. Total(B, rest \cup (M \cap K)) = Total(B, rest) + Total(B, M \cap K)
  <2>1. Terms(B, rest \cup (M \cap K)) /\ rest \cap (M \cap K) = {}
    BY <1>7 DEF Terms
  <2> HIDE DEF rest
  <2> QED
    BY <1>5, <2>1, TotalOfBoth
<1>10. rest \cup K = M \cup K /\ rest \cup (M \cap K) = M
  OBVIOUS
<1>11. Total(A, rest) = Total(B, rest)
  <2> HIDE DEF rest
  <2> QED
    BY <1>5, <1>7, TotalEqual
<1>12. Total(B, rest) \in Nat /\ Total(B, M \cap K) \in Nat
  <2>1. (\A k \in rest : B[k] \in Nat) /\ (\A k \in M \cap K : B[k] \in Nat)
    BY <1>7
  <2> HIDE DEF rest
  <2> QED
    BY <1>5, <2>1, TotalOfNaturals
<1>13. Cardinality(rows) \in Nat
  BY FS_CardinalityType
<1>14. /\ Compacted(all) = Total(B, rest) + Cardinality(rows)
       /\ Compacted(old) = Total(B, rest) + Total(B, M \cap K)
  BY <1>3, <1>6, <1>8, <1>9, <1>10, <1>11
<1>15. /\ Compacted(all) \in Nat /\ Compacted(old) \in Nat
       /\ Compacted(all) <= Compacted(old) + Cardinality(rows)
  BY <1>12, <1>13, <1>14
<1> QED
  BY <1>1, <1>3, <1>4, <1>15 DEF M, CountsNoMore

-----------------------------------------------------------------------------
(* The days a history has points of. *)

RawDays(rows) == {DayOf(o) : o \in rows}
MonthDays(keys) == {k[2] : k \in keys}

\* They are those of the raw rows and the first of each compacted month.
LEMMA DaysOfPoints ==
    ASSUME NEW rows, NEW monthly, NEW weekly
    PROVE  DOMAIN Points(Series(rows, monthly, weekly)) =
               RawDays(rows) \cup MonthDays(DOMAIN monthly)
<1>1. DOMAIN Points(Series(rows, monthly, weekly)) = {v.day : v \in Series(rows, monthly, weekly)}
  BY DEF Points
<1>2. ASSUME NEW d, d \in {v.day : v \in Series(rows, monthly, weekly)}
      PROVE  d \in RawDays(rows) \cup MonthDays(DOMAIN monthly)
  BY <1>2 DEF Series, RawDays, MonthDays
<1>3. ASSUME NEW d \in RawDays(rows) \cup MonthDays(DOMAIN monthly)
      PROVE  d \in {v.day : v \in Series(rows, monthly, weekly)}
  <2>1. CASE d \in RawDays(rows)
    <3>1. PICK o \in rows : d = DayOf(o)
      BY <2>1 DEF RawDays
    <3>2. [day |-> DayOf(o), of |-> <<"row", o.shelf, o.when>>, value |-> o.value]
              \in Series(rows, monthly, weekly)
      BY DEF Series
    <3> QED
      BY <3>1, <3>2
  <2>2. CASE d \in MonthDays(DOMAIN monthly)
    <3>1. PICK k \in DOMAIN monthly : d = k[2]
      BY <2>2 DEF MonthDays
    <3>2. [day |-> k[2], of |-> <<"month", k[1]>>, value |-> monthly[k].average]
              \in Series(rows, monthly, weekly)
      BY DEF Series
    <3> QED
      BY <3>1, <3>2
  <2> QED
    BY <2>1, <2>2
<1> QED
  BY <1>1, <1>2, <1>3

\* An image of a finite set is finite, and no larger.
LEMMA ImageIsNoLarger ==
    ASSUME NEW S, IsFiniteSet(S), NEW f
    PROVE  IsFiniteSet({f[x] : x \in S}) /\ Cardinality({f[x] : x \in S}) <= Cardinality(S)
<1> DEFINE T == {f[x] : x \in S}
           g == [x \in S |-> f[x]]
<1>1. g \in Surjection(S, T)
  BY DEF Surjection
<1> QED
  BY <1>1, FS_Surjection

\* A union is no larger than its parts together.
LEMMA UnionIsNoLarger ==
    ASSUME NEW A, IsFiniteSet(A), NEW B, IsFiniteSet(B)
    PROVE  /\ IsFiniteSet(A \cup B)
           /\ Cardinality(A \cup B) <= Cardinality(A) + Cardinality(B)
<1>1. /\ IsFiniteSet(A \cup B)
      /\ Cardinality(A \cup B) = Cardinality(A) + Cardinality(B) - Cardinality(A \cap B)
  BY FS_Union
<1>2. Cardinality(A) \in Nat /\ Cardinality(B) \in Nat
  BY FS_CardinalityType
<1>3. Cardinality(A \cap B) \in Nat
  BY FS_Intersection, FS_CardinalityType
<1> QED
  BY <1>1, <1>2, <1>3

\* A set of one element at most.
LEMMA OneAtMost ==
    ASSUME NEW A, NEW x, A \subseteq {x}
    PROVE  Cardinality(A) <= (IF A = {} THEN 0 ELSE 1) /\ Cardinality(A) \in Nat
<1>1. Cardinality({}) = 0 /\ Cardinality({x}) = 1
  BY FS_EmptySet, FS_Singleton
<1>2. CASE A = {}
  BY <1>1, <1>2
<1>3. CASE A # {}
  <2>1. A = {x}
    BY <1>3
  <2>2. Cardinality(A) = 1
    BY <1>1, <2>1
  <2> QED
    BY <1>3, <2>2
<1> QED
  BY <1>2, <1>3

\* The days of a history are finitely many, no more than its rows and rollups.
LEMMA DaysAreFinite ==
    ASSUME NEW rows, IsFiniteSet(rows), NEW keys, IsFiniteSet(keys)
    PROVE  /\ IsFiniteSet(RawDays(rows) \cup MonthDays(keys))
           /\ Cardinality(RawDays(rows) \cup MonthDays(keys)) \in Nat
           /\ Cardinality(RawDays(rows) \cup MonthDays(keys))
                  <= Cardinality(rows) + Cardinality(keys)
<1>1. [o \in rows |-> DayOf(o)] \in Surjection(rows, RawDays(rows))
  BY DEF Surjection, RawDays
<1>2. [k \in keys |-> k[2]] \in Surjection(keys, MonthDays(keys))
  BY DEF Surjection, MonthDays
<1>3. /\ IsFiniteSet(RawDays(rows)) /\ Cardinality(RawDays(rows)) <= Cardinality(rows)
      /\ IsFiniteSet(MonthDays(keys)) /\ Cardinality(MonthDays(keys)) <= Cardinality(keys)
  BY <1>1, <1>2, FS_Surjection
<1> PICK A, B : A = RawDays(rows) /\ B = MonthDays(keys)
  OBVIOUS
<1>4. IsFiniteSet(A) /\ IsFiniteSet(B)
  BY <1>3
<1>5. IsFiniteSet(A \cup B) /\ Cardinality(A \cup B) <= Cardinality(A) + Cardinality(B)
  BY <1>4, UnionIsNoLarger
<1>6. /\ Cardinality(A) \in Nat /\ Cardinality(B) \in Nat /\ Cardinality(A \cup B) \in Nat
      /\ Cardinality(rows) \in Nat /\ Cardinality(keys) \in Nat
  BY <1>4, <1>5, FS_CardinalityType
<1>7. Cardinality(A) <= Cardinality(rows) /\ Cardinality(B) <= Cardinality(keys)
  BY <1>3
<1>8. Cardinality(A \cup B) <= Cardinality(rows) + Cardinality(keys)
  BY <1>5, <1>6, <1>7
<1> QED
  BY <1>5, <1>6, <1>8

\* Every point has an observation of its own: a row, or one that its rollup stands for.
LEMMA PointsHaveObservations ==
    ASSUME NEW rows, IsFiniteSet(rows), NEW monthly, IsFiniteSet(DOMAIN monthly),
           \A k \in DOMAIN monthly : monthly[k].count \in Nat \ {0}
    PROVE  Cardinality(RawDays(rows) \cup MonthDays(DOMAIN monthly))
               <= Cardinality(rows) + Compacted(monthly)
<1> PICK keys : keys = DOMAIN monthly
  OBVIOUS
<1> DEFINE F == [k \in keys |-> 1]
           G == [k \in keys |-> monthly[k].count]
<1>1. Compacted(monthly) = Total(G, keys)
  BY CompactedIs
<1>2. Terms(F, keys) /\ Terms(G, keys) /\ \A k \in keys : F[k] = 1 /\ F[k] <= G[k]
  BY DEF Terms
<1> HIDE DEF F, G
<1>3. Total(F, keys) = Cardinality(keys)
  BY <1>2, TotalOfOnes
<1>4. Total(F, keys) <= Total(G, keys) /\ Total(F, keys) \in Int /\ Total(G, keys) \in Int
  BY <1>2, TotalCompare, TotalType DEF Compares
<1>5. /\ Cardinality(RawDays(rows) \cup MonthDays(keys)) <= Cardinality(rows) + Cardinality(keys)
      /\ Cardinality(RawDays(rows) \cup MonthDays(keys)) \in Nat
  BY DaysAreFinite
<1>6. Cardinality(rows) \in Nat /\ Cardinality(keys) \in Nat
  BY FS_CardinalityType
<1> QED
  BY <1>1, <1>3, <1>4, <1>5, <1>6

\* A cutoff leaves one day in part at most, that in which it falls.
LEMMA OneDayIsSplit ==
    ASSUME NEW rows, NEW cutoff \in Nat, NEW old, old = {o \in rows : o.when < cutoff},
           \A o \in rows : o.when \in Nat
    PROVE  RawDays(rows \ old) \cap RawDays(old) \subseteq {cutoff \div DayLength}
<1> SUFFICES ASSUME NEW d \in RawDays(rows \ old), d \in RawDays(old)
             PROVE  d = cutoff \div DayLength
  OBVIOUS
<1>1. PICK o \in rows \ old : d = DayOf(o)
  BY DEF RawDays
<1>2. PICK q \in old : d = DayOf(q)
  BY DEF RawDays
<1>3. o.when \in Nat /\ q.when \in Nat /\ cutoff <= o.when /\ q.when <= cutoff
  OBVIOUS
<1>4. /\ d \in Nat /\ cutoff \div DayLength \in Nat
      /\ cutoff \div DayLength <= d /\ d <= cutoff \div DayLength
  BY <1>1, <1>2, <1>3, DaysInOrder DEF DayOf
<1> QED
  BY <1>4

\* Each day after a compaction comes of one before, the first of a month of a day that is
\* gone and any other of itself, but for the months of days that are left in part.
LEMMA NoNewDays ==
    ASSUME NEW rows, IsFiniteSet(rows), NEW keys, IsFiniteSet(keys),
           NEW length, NEW old \in SUBSET rows,
           \A k \in keys : FirstOf(length, k[2]) = k[2]
    PROVE  LET split == RawDays(rows \ old) \cap RawDays(old) IN
           /\ IsFiniteSet(split)
           /\ Cardinality(RawDays(rows \ old) \cup MonthDays(keys \cup RollupKeys(old, length)))
                  <= Cardinality(RawDays(rows) \cup MonthDays(keys)) + Cardinality(split)
<1> DEFINE before == RawDays(rows) \cup MonthDays(keys)
           after == RawDays(rows \ old) \cup MonthDays(keys \cup RollupKeys(old, length))
           split == RawDays(rows \ old) \cap RawDays(old)
           f == [x \in before |-> IF x \in RawDays(old) \ split THEN FirstOf(length, x) ELSE x]
           g == [x \in split |-> FirstOf(length, x)]
           kept == {f[x] : x \in before}
           added == {g[x] : x \in split}
<1>1. \A o \in old : o \in rows /\ RollupKey(length, o)[2] = FirstOf(length, DayOf(o))
  BY DEF RollupKey
<1>2. ASSUME NEW y \in after PROVE y \in kept \/ y \in added
  <2>1. CASE y \in RawDays(rows \ old)
    <3>1. y \in before /\ y \notin RawDays(old) \ split
      BY <2>1 DEF RawDays
    <3>2. f[y] = y
      BY <3>1
    <3> QED
      BY <3>1, <3>2
  <2>2. CASE y \in MonthDays(keys)
    <3>1. y \in before /\ FirstOf(length, y) = y
      BY <2>2 DEF MonthDays
    <3>2. f[y] = y
      BY <3>1
    <3> QED
      BY <3>1, <3>2
  <2>3. CASE y \in MonthDays(RollupKeys(old, length))
    <3>1. PICK o \in old : y = FirstOf(length, DayOf(o))
      BY <1>1, <2>3 DEF MonthDays, RollupKeys
    <3>2. DayOf(o) \in before /\ DayOf(o) \in RawDays(old)
      BY <1>1 DEF RawDays
    <3>3. CASE DayOf(o) \in split
      <4>1. g[DayOf(o)] = y
        BY <3>1, <3>3
      <4> QED
        BY <3>3, <4>1
    <3>4. CASE DayOf(o) \notin split
      <4>1. f[DayOf(o)] = y
        BY <3>1, <3>2, <3>4
      <4> QED
        BY <3>2, <4>1
    <3> QED
      BY <3>3, <3>4
  <2> QED
    BY <2>1, <2>2, <2>3 DEF MonthDays
<1>3. IsFiniteSet(before) /\ Cardinality(before) \in Nat
  BY DaysAreFinite
<1>4. IsFiniteSet(split) /\ Cardinality(split) \in Nat
  <2>1. split \in SUBSET before
    BY DEF RawDays
  <2> HIDE DEF split, before
  <2> QED
    BY <1>3, <2>1, FS_Subset, FS_CardinalityType
<1>5. IsFiniteSet(kept) /\ Cardinality(kept) <= Cardinality(before)
  <2> HIDE DEF f, before
  <2> QED
    BY <1>3, ImageIsNoLarger
<1>6. IsFiniteSet(added) /\ Cardinality(added) <= Cardinality(split)
  <2> HIDE DEF g, split
  <2> QED
    BY <1>4, ImageIsNoLarger
<1>7. after \in SUBSET (kept \cup added)
  <2> HIDE DEF after, kept, added
  <2> QED
    BY <1>2
<1> HIDE DEF after, kept, added, split, before
<1>8. Cardinality(after) <= Cardinality(before) + Cardinality(split)
  <2>1. /\ IsFiniteSet(kept \cup added) /\ Cardinality(kept) \in Nat /\ Cardinality(added) \in Nat
        /\ Cardinality(kept \cup added) <= Cardinality(kept) + Cardinality(added)
    BY <1>5, <1>6, UnionIsNoLarger, FS_CardinalityType
  <2>2. Cardinality(after) \in Nat /\ Cardinality(after) <= Cardinality(kept \cup added)
    BY <1>7, <2>1, FS_Subset, FS_CardinalityType
  <2>3. Cardinality(kept \cup added) \in Nat
    BY <2>1, FS_CardinalityType
  <2> QED
    BY <1>3, <1>4, <1>5, <1>6, <2>1, <2>2, <2>3
<1> QED
  BY <1>4, <1>8 DEF after, split, before

-----------------------------------------------------------------------------
(* The latest point. *)

\* What a day's point is the mean of.
SeriesOn(rows, monthly, weekly, d) == {v \in Series(rows, monthly, weekly) : v.day = d}

\* The last of the days is that of the latest point.
LEMMA LastPoint ==
    ASSUME NEW today, NEW rows, NEW monthly, NEW weekly, NEW d \in Nat,
           d \in RawDays(rows) \cup MonthDays(DOMAIN monthly),
           \A x \in RawDays(rows) \cup MonthDays(DOMAIN monthly) : x \in Nat /\ x <= d
    PROVE  Analytics(today, rows, monthly, weekly).last = MeanOf(SeriesOn(rows, monthly, weekly, d))
<1> DEFINE series == Series(rows, monthly, weekly)
           points == Points(series)
<1>1. DOMAIN points = RawDays(rows) \cup MonthDays(DOMAIN monthly)
  BY DaysOfPoints
<1>2. DOMAIN points # {} /\ Max(DOMAIN points) = d
  <2> HIDE DEF points
  <2>1. d \in DOMAIN points /\ \A x \in DOMAIN points : x \in Nat /\ d >= x
    BY <1>1
  <2>2. Max(DOMAIN points) \in DOMAIN points /\ \A x \in DOMAIN points : Max(DOMAIN points) >= x
    BY <2>1 DEF Max
  <2> QED
    BY <2>1, <2>2
<1>3. Analytics(today, rows, monthly, weekly).last = points[d]
  <2>1. Analytics(today, rows, monthly, weekly).last =
            IF DOMAIN points = {} THEN NoFigure ELSE points[Max(DOMAIN points)]
    BY DEF Analytics
  <2> HIDE DEF points
  <2> QED
    BY <1>2, <2>1
<1>4. points[d] = MeanOf({v \in series : v.day = d})
  <2>1. d \in {v.day : v \in series}
    BY <1>1 DEF Points
  <2> QED
    BY <2>1 DEF Points
<1> QED
  BY <1>3, <1>4 DEF SeriesOn

-----------------------------------------------------------------------------
(* The steps. *)

\* The invariant holds at first.
LEMMA HistoryStart == HistoryInit => HistoryInv
<1> SUFFICES ASSUME HistoryInit PROVE HistoryInv
  OBVIOUS
<1>1. IsFiniteSet({}) /\ DOMAIN << >> = {}
  BY FS_EmptySet
<1>2. months = << >> /\ observed = {} /\ now = 0 /\ shown = Analytics(0, observed, months, weeks)
  BY DEF HistoryInit
<1>3. 0 \div DayLength = 0
  BY PriceConstants
<1> QED
  BY <1>1, <1>2, <1>3 DEF HistoryInv

\* What a compaction replaces, and by what.
LEMMA CompactDoes ==
    ASSUME HistoryInv, NEW cutoff \in 1..LastMoment, Compact(cutoff),
           NEW old, old = {o \in observed : o.when < cutoff}
    PROVE  /\ cutoff \in Nat /\ now' = now
           /\ observed' = observed \ old
           /\ months' = Replaced(months, RollupsOf(old, MonthLength))
           /\ old \in SUBSET observed /\ IsFiniteSet(old) /\ IsFiniteSet(observed \ old)
           /\ Cardinality(observed \ old) = Cardinality(observed) - Cardinality(old)
           /\ MonthLength \in Nat \ {0}
           /\ IsFiniteSet(DOMAIN months')
           /\ DOMAIN months' = DOMAIN months \cup RollupKeys(old, MonthLength)
           /\ \A k \in DOMAIN months' : months'[k].count \in Nat \ {0}
           /\ Compacted(months') \in Nat /\ Compacted(months) \in Nat
           /\ Compacted(months') <= Compacted(months) + Cardinality(old)
<1>1. /\ cutoff \in Nat /\ now' = now
      /\ observed' = observed \ old
      /\ months' = Replaced(months, RollupsOf(old, MonthLength))
      /\ MonthLength \in Nat \ {0}
  BY PriceConstants DEF Compact
<1>2. /\ old \in SUBSET observed /\ IsFiniteSet(old) /\ IsFiniteSet(observed \ old)
      /\ Cardinality(observed \ old) = Cardinality(observed) - Cardinality(old)
  <2>1. old \in SUBSET observed /\ observed \cap old = old /\ IsFiniteSet(observed)
    BY DEF HistoryInv
  <2> QED
    <3>1. IsFiniteSet(old)
      BY <2>1, FS_Subset
    <3> PICK rows : rows = observed
      OBVIOUS
    <3>2. IsFiniteSet(rows \ old) /\ Cardinality(rows \ old) = Cardinality(rows) - Cardinality(old)
      <4>1. IsFiniteSet(rows) /\ rows \cap old = old
        BY <2>1
      <4>2. /\ IsFiniteSet(rows \ old)
            /\ Cardinality(rows \ old) = Cardinality(rows) - Cardinality(rows \cap old)
        BY <4>1, FS_Difference
      <4> QED
        BY <4>1, <4>2
    <3> QED
      BY <2>1, <3>1, <3>2
<1>3. IsFiniteSet(DOMAIN months) /\ \A k \in DOMAIN months : months[k].count \in Nat \ {0}
  BY DEF HistoryInv
<1> PICK length : length = MonthLength
  OBVIOUS
<1> PICK new : new = RollupsOf(old, length)
  OBVIOUS
<1> PICK prior : prior = months
  OBVIOUS
<1> PICK all : all = Replaced(prior, new)
  OBVIOUS
<1>4. /\ IsFiniteSet(DOMAIN prior) /\ \A k \in DOMAIN prior : prior[k].count \in Nat \ {0}
      /\ IsFiniteSet(old) /\ length \in Nat \ {0}
  BY <1>1, <1>2, <1>3
<1>5. CountsNoMore(all, prior, old, length)
  BY <1>4, ReplacedCounts
<1>6. months' = all
  BY <1>1
<1> QED
  BY <1>1, <1>2, <1>5, <1>6 DEF CountsNoMore

\* The rollups of a compaction are of months of rows it drops, at their first days.
LEMMA NewMonths ==
    ASSUME HistoryInv, NEW old \in SUBSET observed, MonthLength \in Nat \ {0},
           NEW k \in RollupKeys(old, MonthLength)
    PROVE  /\ k[2] \in Nat /\ FirstOf(MonthLength, k[2]) = k[2]
           /\ \E o \in old : DayOf(o) \in Nat /\ k[2] <= DayOf(o)
<1>1. PICK o \in old : k = RollupKey(MonthLength, o)
  BY DEF RollupKeys
<1>2. o.when \in Nat
  BY DEF HistoryInv
<1>3. DayOf(o) \in Nat
  BY <1>2, DaysInOrder DEF DayOf
<1>4. k[2] = FirstOf(MonthLength, DayOf(o))
  BY <1>1 DEF RollupKey
<1> QED
  BY <1>3, <1>4, FirstIsNoLater

\* A step keeps the invariant.
LEMMA HistoryStep == HistoryInv /\ [HistoryNext]_historyVars => HistoryInv'
<1> SUFFICES ASSUME HistoryInv, [HistoryNext]_historyVars PROVE HistoryInv'
  OBVIOUS
<1>1. CASE TimePasses
  <2>1. /\ now' = now + 1 /\ observed' = observed /\ months' = months
        /\ shown' = Analytics(now' \div DayLength, observed', months', weeks')
    BY <1>1 DEF TimePasses, Look
  <2> QED
    BY <2>1 DEF HistoryInv
<1>2. ASSUME NEW when \in Retrieved, NEW shelf \in Shelves, NEW value \in Asked,
             NEW samples \in Sampled, RecordPrice(when, shelf, value, samples)
      PROVE  HistoryInv'
  <2> PICK row : row = [when |-> when, shelf |-> shelf, value |-> value, samples |-> samples]
    OBVIOUS
  <2>1. /\ observed' = observed \cup {row} /\ row.when \in Nat
        /\ now' = now /\ months' = months
        /\ shown' = Analytics(now' \div DayLength, observed', months', weeks')
    BY <1>2, PriceConstants DEF RecordPrice, Look
  <2>2. IsFiniteSet(observed')
    BY <2>1, FS_AddElement DEF HistoryInv
  <2>3. \A o \in observed' : o.when \in Nat
    BY <2>1 DEF HistoryInv
  <2> QED
    BY <2>1, <2>2, <2>3 DEF HistoryInv
<1>3. ASSUME NEW cutoff \in 1..LastMoment, Compact(cutoff) PROVE HistoryInv'
  <2> PICK old : old = {o \in observed : o.when < cutoff}
    OBVIOUS
  <2>1. /\ now' = now /\ observed' = observed \ old /\ IsFiniteSet(observed')
        /\ old \in SUBSET observed /\ MonthLength \in Nat \ {0}
        /\ DOMAIN months' = DOMAIN months \cup RollupKeys(old, MonthLength)
        /\ IsFiniteSet(DOMAIN months') /\ \A k \in DOMAIN months' : months'[k].count \in Nat \ {0}
    BY <1>3, CompactDoes
  <2>2. \A k \in DOMAIN months' : k[2] \in Nat /\ FirstOf(MonthLength, k[2]) = k[2]
    BY <2>1, NewMonths DEF HistoryInv
  <2>3. shown' = Analytics(now' \div DayLength, observed', months', weeks')
    BY <1>3 DEF Compact, Look
  <2> QED
    BY <2>1, <2>2, <2>3 DEF HistoryInv
<1>4. CASE UNCHANGED historyVars
  BY <1>4 DEF historyVars, HistoryInv
<1> QED
  BY <1>1, <1>2, <1>3, <1>4 DEF HistoryNext

\* What is shown, by rows and rollups.
ShownOf(page, rows, monthly) ==
    /\ page.observations = Cardinality(rows) + Compacted(monthly)
    /\ page.points = Cardinality(RawDays(rows) \cup MonthDays(DOMAIN monthly))
    /\ page.points <= page.observations

LEMMA ShownIs ==
    ASSUME NEW today, NEW rows, NEW monthly, NEW weekly,
           IsFiniteSet(rows), IsFiniteSet(DOMAIN monthly),
           \A k \in DOMAIN monthly : monthly[k].count \in Nat \ {0}
    PROVE  ShownOf(Analytics(today, rows, monthly, weekly), rows, monthly)
<1> PICK page : page = Analytics(today, rows, monthly, weekly)
  OBVIOUS
<1>1. /\ page.observations = Cardinality(rows) + Compacted(monthly)
      /\ page.points = Cardinality(DOMAIN Points(Series(rows, monthly, weekly)))
  BY DEF Analytics
<1>2. page.points = Cardinality(RawDays(rows) \cup MonthDays(DOMAIN monthly))
  BY <1>1, DaysOfPoints
<1>3. Cardinality(RawDays(rows) \cup MonthDays(DOMAIN monthly))
          <= Cardinality(rows) + Compacted(monthly)
  BY PointsHaveObservations
<1>4. page.points <= page.observations
  BY <1>1, <1>2, <1>3
<1> QED
  BY <1>1, <1>2, <1>4 DEF ShownOf

\* So it is before and after a step.
LEMMA ShownAlways ==
    /\ HistoryInv => ShownOf(shown, observed, months)
    /\ HistoryInv' => ShownOf(shown', observed', months')
<1>1. ASSUME HistoryInv PROVE ShownOf(shown, observed, months)
  <2>1. /\ IsFiniteSet(observed) /\ IsFiniteSet(DOMAIN months)
        /\ \A k \in DOMAIN months : months[k].count \in Nat \ {0}
        /\ shown = Analytics(now \div DayLength, observed, months, weeks)
    BY <1>1 DEF HistoryInv
  <2>2. ShownOf(Analytics(now \div DayLength, observed, months, weeks), observed, months)
    BY <2>1, ShownIs
  <2> QED
    BY <2>1, <2>2
<1>2. ASSUME HistoryInv' PROVE ShownOf(shown', observed', months')
  <2>1. /\ IsFiniteSet(observed') /\ IsFiniteSet(DOMAIN months')
        /\ \A k \in DOMAIN months' : months'[k].count \in Nat \ {0}
        /\ shown' = Analytics(now' \div DayLength, observed', months', weeks')
    BY <1>2 DEF HistoryInv
  <2>2. ShownOf(Analytics(now' \div DayLength, observed', months', weeks'), observed', months')
    BY <2>1, ShownIs
  <2> QED
    BY <2>1, <2>2
<1> QED
  BY <1>1, <1>2

\* A compaction replaces no rollup of a day later than all it drops.
LEMMA LaterIsKept ==
    ASSUME HistoryInv, NEW cutoff \in 1..LastMoment, Compact(cutoff),
           NEW d \in Nat, \A q \in observed \ observed' : DayOf(q) < d
    PROVE  SeriesOn(observed', months', weeks', d) = SeriesOn(observed, months, weeks, d)
<1> PICK old : old = {o \in observed : o.when < cutoff}
  OBVIOUS
<1>1. /\ observed' = observed \ old /\ old \in SUBSET observed /\ MonthLength \in Nat \ {0}
      /\ months' = Replaced(months, RollupsOf(old, MonthLength))
      /\ DOMAIN months' = DOMAIN months \cup RollupKeys(old, MonthLength)
  BY CompactDoes
<1>2. \A k \in RollupKeys(old, MonthLength) : k[2] \in Nat /\ k[2] < d
  BY <1>1, NewMonths
<1>3. \A o \in observed : DayOf(o) = d => o \in observed'
  BY <1>1
<1>4. ASSUME NEW k \in DOMAIN months', k[2] = d
      PROVE  k \in DOMAIN months /\ months'[k] = months[k]
  <2>1. k \notin RollupKeys(old, MonthLength)
    BY <1>2, <1>4
  <2>2. DOMAIN RollupsOf(old, MonthLength) = RollupKeys(old, MonthLength)
    BY DEF RollupsOf, RollupKeys, RollupKey
  <2> QED
    BY <1>1, <2>1, <2>2 DEF Replaced
<1>5. ASSUME NEW v \in SeriesOn(observed, months, weeks, d)
      PROVE  v \in SeriesOn(observed', months', weeks', d)
  <2>1. v \in Series(observed, months, weeks) /\ v.day = d
    BY DEF SeriesOn
  <2>2. CASE \E o \in observed :
                 v = [day |-> DayOf(o), of |-> <<"row", o.shelf, o.when>>, value |-> o.value]
    <3>1. PICK o \in observed :
              v = [day |-> DayOf(o), of |-> <<"row", o.shelf, o.when>>, value |-> o.value]
      BY <2>2
    <3>2. v.day = DayOf(o)
      BY <3>1
    <3>3. o \in observed'
      BY <1>3, <2>1, <3>2
    <3>4. v \in Series(observed', months', weeks')
      BY <3>1, <3>3 DEF Series
    <3> QED
      BY <2>1, <3>4 DEF SeriesOn
  <2>3. CASE \E k \in DOMAIN months :
                 v = [day |-> k[2], of |-> <<"month", k[1]>>, value |-> months[k].average]
    <3>1. PICK k \in DOMAIN months :
              v = [day |-> k[2], of |-> <<"month", k[1]>>, value |-> months[k].average]
      BY <2>3
    <3>2. k \in DOMAIN months' /\ months'[k] = months[k]
      BY <1>1, <1>4, <2>1, <3>1
    <3> QED
      BY <2>1, <3>1, <3>2 DEF Series, SeriesOn
  <2> QED
    BY <2>1, <2>2, <2>3 DEF Series
<1>6. ASSUME NEW v \in SeriesOn(observed', months', weeks', d)
      PROVE  v \in SeriesOn(observed, months, weeks, d)
  <2>1. v \in Series(observed', months', weeks') /\ v.day = d
    BY DEF SeriesOn
  <2>2. CASE \E o \in observed' :
                 v = [day |-> DayOf(o), of |-> <<"row", o.shelf, o.when>>, value |-> o.value]
    BY <1>1, <2>1, <2>2 DEF Series, SeriesOn
  <2>3. CASE \E k \in DOMAIN months' :
                 v = [day |-> k[2], of |-> <<"month", k[1]>>, value |-> months'[k].average]
    <3>1. PICK k \in DOMAIN months' :
              v = [day |-> k[2], of |-> <<"month", k[1]>>, value |-> months'[k].average]
      BY <2>3
    <3>2. k \in DOMAIN months /\ months'[k] = months[k]
      BY <1>4, <2>1, <3>1
    <3> QED
      BY <2>1, <3>1, <3>2 DEF Series, SeriesOn
  <2> QED
    BY <2>1, <2>2, <2>3 DEF Series
<1> QED
  BY <1>5, <1>6

\* The latest value stays while a row is left of a later day than all that were dropped.
LEMMA LatestStays ==
    ASSUME HistoryInv, HistoryInv', NEW cutoff \in 1..LastMoment, Compact(cutoff),
           NEW o \in observed', \A q \in observed \ observed' : DayOf(q) < DayOf(o)
    PROVE  shown'.last = shown.last
<1> PICK old : old = {p \in observed : p.when < cutoff}
  OBVIOUS
<1>1. /\ observed' = observed \ old /\ old \in SUBSET observed /\ MonthLength \in Nat \ {0}
      /\ DOMAIN months' = DOMAIN months \cup RollupKeys(old, MonthLength)
  BY CompactDoes
<1> DEFINE before == RawDays(observed) \cup MonthDays(DOMAIN months)
           after == RawDays(observed') \cup MonthDays(DOMAIN months')
<1>2. \A p \in observed : DayOf(p) \in Nat
  <2>1. \A p \in observed : p.when \in Nat
    BY DEF HistoryInv
  <2> QED
    BY <2>1, DaysInOrder DEF DayOf
<1>3. IsFiniteSet(before) /\ before \subseteq Nat /\ DayOf(o) \in before
  <2>1. IsFiniteSet(before)
    BY DaysAreFinite DEF HistoryInv
  <2> QED
    BY <1>1, <1>2, <2>1 DEF HistoryInv, RawDays, MonthDays
<1>4. PICK d \in Nat : d \in before /\ \A x \in before : x \in Nat /\ x <= d
  <2> HIDE DEF before
  <2> QED
    BY <1>3, GreatestIsIn
<1>5. DayOf(o) <= d /\ \A q \in observed \ observed' : DayOf(q) < d
  BY <1>1, <1>2, <1>3, <1>4
<1>6. \A x \in after : x \in Nat /\ x <= d
  <2> SUFFICES ASSUME NEW x \in after PROVE x \in Nat /\ x <= d
    OBVIOUS
  <2>1. CASE x \in before
    BY <1>4, <2>1
  <2>2. CASE x \in MonthDays(RollupKeys(old, MonthLength))
    <3>1. PICK k \in RollupKeys(old, MonthLength) : x = k[2]
      BY <2>2 DEF MonthDays
    <3>2. x \in Nat /\ \E q \in old : DayOf(q) \in Nat /\ x <= DayOf(q)
      BY <1>1, <3>1, NewMonths
    <3> QED
      BY <1>1, <1>5, <3>2
  <2> QED
    BY <1>1, <2>1, <2>2 DEF RawDays, MonthDays
<1>7. d \in after
  <2>1. CASE d \in MonthDays(DOMAIN months)
    BY <1>1, <2>1 DEF MonthDays
  <2>2. CASE d \in RawDays(observed)
    <3>1. PICK p \in observed : d = DayOf(p)
      BY <2>2 DEF RawDays
    <3>2. p \in observed'
      BY <1>5, <3>1
    <3> QED
      BY <3>1, <3>2 DEF RawDays
  <2> QED
    BY <1>4, <2>1, <2>2
<1>8. shown.last = MeanOf(SeriesOn(observed, months, weeks, d))
  <2>1. Analytics(now \div DayLength, observed, months, weeks).last =
            MeanOf(SeriesOn(observed, months, weeks, d))
    BY <1>4, LastPoint
  <2> QED
    BY <2>1 DEF HistoryInv
<1>9. shown'.last = MeanOf(SeriesOn(observed', months', weeks', d))
  <2>1. Analytics(now' \div DayLength, observed', months', weeks').last =
            MeanOf(SeriesOn(observed', months', weeks', d))
    BY <1>6, <1>7, LastPoint
  <2> QED
    BY <2>1 DEF HistoryInv
<1> QED
  BY <1>5, <1>8, <1>9, LaterIsKept

\* What a compaction leaves to be shown.
LEMMA CompactAdds ==
    ASSUME HistoryInv, HistoryInv', NEW cutoff \in 1..LastMoment, Compact(cutoff)
    PROVE  NothingIsAdded
<1> PICK old : old = {o \in observed : o.when < cutoff}
  OBVIOUS
<1>1. /\ cutoff \in Nat /\ observed' = observed \ old
      /\ old \in SUBSET observed /\ IsFiniteSet(old)
      /\ Cardinality(observed \ old) = Cardinality(observed) - Cardinality(old)
      /\ DOMAIN months' = DOMAIN months \cup RollupKeys(old, MonthLength)
      /\ Compacted(months') \in Nat /\ Compacted(months) \in Nat
      /\ Compacted(months') <= Compacted(months) + Cardinality(old)
  BY CompactDoes
<1>2. IsFiniteSet(observed) /\ Cardinality(observed) \in Nat /\ Cardinality(old) \in Nat
  BY <1>1, FS_CardinalityType DEF HistoryInv
<1>3. /\ shown.observations = Cardinality(observed) + Compacted(months)
      /\ shown.points = Cardinality(RawDays(observed) \cup MonthDays(DOMAIN months))
  BY ShownAlways DEF ShownOf
<1>4. /\ shown'.observations = Cardinality(observed') + Compacted(months')
      /\ shown'.points = Cardinality(RawDays(observed') \cup MonthDays(DOMAIN months'))
  BY ShownAlways DEF ShownOf
<1>5. shown'.observations <= shown.observations
  BY <1>1, <1>2, <1>3, <1>4
<1>6. shown'.points <= shown.points + (IF SplitDays = {} THEN 0 ELSE 1)
  <2>1. shown.points = Cardinality(RawDays(observed) \cup MonthDays(DOMAIN months))
    BY <1>3
  <2>2. shown'.points = Cardinality(RawDays(observed \ old)
                            \cup MonthDays(DOMAIN months \cup RollupKeys(old, MonthLength)))
    BY <1>1, <1>4
  <2> PICK rows : rows = observed
    OBVIOUS
  <2> PICK keys : keys = DOMAIN months
    OBVIOUS
  <2> PICK split : split = RawDays(rows \ old) \cap RawDays(old)
    OBVIOUS
  <2>3. /\ IsFiniteSet(rows) /\ IsFiniteSet(keys) /\ old \in SUBSET rows
        /\ \A k \in keys : FirstOf(MonthLength, k[2]) = k[2]
        /\ \A o \in rows : o.when \in Nat
    BY <1>1, <1>2 DEF HistoryInv
  <2>4. /\ IsFiniteSet(split)
        /\ Cardinality(RawDays(rows \ old) \cup MonthDays(keys \cup RollupKeys(old, MonthLength)))
               <= Cardinality(RawDays(rows) \cup MonthDays(keys)) + Cardinality(split)
    BY <2>3, NoNewDays
  <2>5. SplitDays = split
    <3>1. observed \ observed' = old
      BY <1>1
    <3>2. {DayOf(o) : o \in observed'} = RawDays(rows \ old)
      BY <1>1 DEF RawDays
    <3>3. {DayOf(o) : o \in observed \ observed'} = RawDays(old)
      BY <3>1 DEF RawDays
    <3> QED
      BY <3>2, <3>3 DEF SplitDays, Dropped
  <2>6. Cardinality(split) <= (IF split = {} THEN 0 ELSE 1) /\ Cardinality(split) \in Nat
    <3>1. split \subseteq {cutoff \div DayLength}
      BY <1>1, <2>3, OneDayIsSplit
    <3> QED
      BY <3>1, OneAtMost
  <2>7. /\ Cardinality(RawDays(rows) \cup MonthDays(keys)) \in Nat
        /\ Cardinality(RawDays(rows \ old) \cup MonthDays(keys \cup RollupKeys(old, MonthLength))) \in Nat
    <3>1. IsFiniteSet(rows \ old) /\ IsFiniteSet(keys \cup RollupKeys(old, MonthLength))
      BY <1>1, <2>3, CompactDoes, FS_Difference
    <3> QED
      BY <2>3, <3>1, DaysAreFinite
  <2> QED
    BY <2>1, <2>2, <2>4, <2>5, <2>6, <2>7
<1>7. ASSUME NEW o \in observed', \A q \in observed \ observed' : DayOf(q) < DayOf(o)
      PROVE  shown'.last = shown.last
  BY <1>7, LatestStays
<1> QED
  BY <1>5, <1>6, <1>7 DEF NothingIsAdded, Dropped

\* However late prices come, however a history has been compacted into rollups and
\* wherever in a day a cutoff falls, every point shown has an observation of its own, and a
\* compaction adds no observation, and one point at most, of a day it leaves in part; the
\* latest value stays while a row is left of a later day than all that were dropped.
THEOREM CompactionNeverAdds == HistorySpec => CompactionAddsNothing
<1>1. ASSUME HistoryInv, HistoryInv', [HistoryNext]_historyVars
      PROVE  [NothingIsAdded /\ shown'.points <= shown'.observations]_historyVars
  <2>1. shown'.points <= shown'.observations
    BY <1>1, ShownAlways DEF ShownOf
  <2>2. CASE TimePasses
    BY <2>1, <2>2 DEF TimePasses, NothingIsAdded, Dropped
  <2>3. ASSUME NEW when \in Retrieved, NEW shelf \in Shelves, NEW value \in Asked,
               NEW samples \in Sampled, RecordPrice(when, shelf, value, samples)
        PROVE  NothingIsAdded
    BY <2>3 DEF RecordPrice, NothingIsAdded, Dropped
  <2>4. ASSUME NEW cutoff \in 1..LastMoment, Compact(cutoff) PROVE NothingIsAdded
    BY <1>1, <2>4, CompactAdds
  <2>5. CASE UNCHANGED historyVars
    BY <2>5
  <2> QED
    BY <1>1, <2>1, <2>2, <2>3, <2>4, <2>5 DEF HistoryNext
<1> QED
  BY <1>1, HistoryStart, HistoryStep, PTL DEF HistorySpec, CompactionAddsNothing


-----------------------------------------------------------------------------
(* Verdicts: what better terms do to an answer.                            *)

\* Bands by descending thresholds, with descending values.
Descends(bands, otherwise) ==
    /\ \A i \in DOMAIN bands : bands[i][2] \in Int /\ bands[i][2] >= otherwise
    /\ \A i, j \in DOMAIN bands : i <= j => bands[i][2] >= bands[j][2]

\* The thresholds that a ratio reaches.
Met(bands, num, den) == {i \in DOMAIN bands : 100 * num >= bands[i][1] * den}

\* A band has the value of one of its thresholds, or the last one.
LEMMA BandIs ==
    ASSUME NEW bands, NEW n \in Nat, DOMAIN bands = 1..n, NEW num, NEW den, NEW otherwise
    PROVE  LET met == Met(bands, num, den)
           IN  /\ met = {} => Band(bands, num, den, otherwise) = otherwise
               /\ met # {} => \E i \in met : /\ Band(bands, num, den, otherwise) = bands[i][2]
                                             /\ \A j \in met : i <= j
<1> DEFINE met == Met(bands, num, den)
<1>1. Band(bands, num, den, otherwise) =
          IF met = {} THEN otherwise ELSE bands[CHOOSE i \in met : \A j \in met : i <= j][2]
  BY DEF Band, Met
<1>2. IsFiniteSet(met) /\ met \subseteq Nat
  <2>1. IsFiniteSet(1..n)
    BY FS_Interval
  <2>2. met \in SUBSET (1..n) /\ 1..n \subseteq Nat
    BY DEF Met
  <2> QED
    BY <2>1, <2>2, FS_Subset
<1> HIDE DEF met
<1>3. ASSUME met # {}
      PROVE  \E i \in met : \A j \in met : i <= j
  BY <1>2, <1>3, GreatestIsIn
<1> QED
  BY <1>1, <1>3 DEF met

\* Finitely many bands of numbers.
AreBands(bands, otherwise) ==
    /\ otherwise \in Int /\ \E n \in Nat : DOMAIN bands = 1..n
    /\ Descends(bands, otherwise)

\* A band of numbers is a number.
LEMMA BandIsANumber ==
    ASSUME NEW bands, NEW otherwise, AreBands(bands, otherwise), NEW num, NEW den
    PROVE  Band(bands, num, den, otherwise) \in Int
<1> PICK n \in Nat : DOMAIN bands = 1..n
  BY DEF AreBands
<1>1. \A i \in Met(bands, num, den) : bands[i][2] \in Int
  BY DEF Met, Descends, AreBands
<1>2. otherwise \in Int
  BY DEF AreBands
<1> QED
  BY <1>1, <1>2, BandIs

\* The value rises with the thresholds that are reached.
LEMMA BandRises ==
    ASSUME NEW bands, NEW otherwise, AreBands(bands, otherwise),
           NEW num, NEW den, NEW more, NEW than,
           Met(bands, num, den) \subseteq Met(bands, more, than)
    PROVE  /\ Band(bands, num, den, otherwise) \in Int
           /\ Band(bands, more, than, otherwise) \in Int
           /\ Band(bands, num, den, otherwise) <= Band(bands, more, than, otherwise)
<1> PICK n \in Nat : DOMAIN bands = 1..n
  BY DEF AreBands
<1>0. otherwise \in Int /\ Descends(bands, otherwise)
  BY DEF AreBands
<1> PICK a : a = Band(bands, num, den, otherwise)
  OBVIOUS
<1> PICK b : b = Band(bands, more, than, otherwise)
  OBVIOUS
<1> PICK met : met = Met(bands, num, den)
  OBVIOUS
<1> PICK wider : wider = Met(bands, more, than)
  OBVIOUS
<1>1. /\ met = {} => a = otherwise
      /\ met # {} => \E i \in met : a = bands[i][2] /\ \A j \in met : i <= j
  BY BandIs
<1>2. /\ wider = {} => b = otherwise
      /\ wider # {} => \E i \in wider : b = bands[i][2] /\ \A j \in wider : i <= j
  BY BandIs
<1>3. met \subseteq wider /\ wider \subseteq DOMAIN bands
  BY DEF Met
<1>4. CASE wider = {}
  BY <1>0, <1>1, <1>2, <1>3, <1>4
<1>5. CASE wider # {}
  <2>1. PICK i \in wider : b = bands[i][2] /\ \A j \in wider : i <= j
    BY <1>2, <1>5
  <2>2. b \in Int /\ b >= otherwise
    BY <1>0, <1>3, <2>1 DEF Descends
  <2>3. CASE met = {}
    BY <1>0, <1>1, <2>2, <2>3
  <2>4. CASE met # {}
    <3>1. PICK k \in met : a = bands[k][2]
      BY <1>1, <2>4
    <3>2. i \in DOMAIN bands /\ k \in DOMAIN bands /\ i <= k
      BY <1>3, <2>1, <3>1
    <3> QED
      BY <1>0, <2>1, <2>2, <3>1, <3>2 DEF Descends
  <2> QED
    BY <2>3, <2>4
<1> QED
  BY <1>4, <1>5

\* Rounding keeps the order.
LEMMA HalvesInOrder ==
    ASSUME NEW m \in Int, NEW n \in Int, m <= n
    PROVE  HalfEven(m, 2) \in Int /\ HalfEven(m, 2) <= HalfEven(n, 2)
BY DEF HalfEven

\* So does rounding to hundreds.
LEMMA HundredthsInOrder ==
    ASSUME NEW m \in Int, NEW n \in Int, m <= n
    PROVE  HalfEven(m, 100) \in Int /\ HalfEven(m, 100) <= HalfEven(n, 100)
BY DEF HalfEven

\* Products are in the order of a factor.
LEMMA ProductsInOrder ==
    ASSUME NEW k \in Nat, NEW m \in Nat, NEW n \in Nat, m <= n
    PROVE  k * m \in Nat /\ k * n \in Nat /\ k * m <= k * n
<1> PICK d \in Nat : d = n - m
  OBVIOUS
<1>1. n = m + d /\ k * (m + d) = k * m + k * d /\ k * d \in Nat /\ k * m \in Nat
  OBVIOUS
<1> QED
  BY <1>1

-----------------------------------------------------------------------------
(* Offers. *)

DiscountBands == << <<25, 95>>, <<20, 88>>, <<10, 78>>, <<5, 65>>, <<0, 55>>, <<-10, 35>> >>

\* An offer in the range of the request's numbers that has a valuation and a price.
Offered(r) ==
    /\ r \in [goal: {"buy"}, asking: Nat \ {0}, shipping: Nat, fair: Nat \ {0},
              low: KnownOrNone, high: KnownOrNone, listings: Nat, confidence: Confidences,
              fee: Rates, margin: Rates]

\* An offer that is as good in all respects.
AsGood(s, r) ==
    /\ AllIn(s) <= AllIn(r) /\ s.fair >= r.fair /\ s.listings >= r.listings
    /\ Level(s.confidence) >= Level(r.confidence)
    /\ s.low = r.low /\ s.high = r.high /\ s.fee = r.fee /\ s.margin = r.margin

\* The discount of an offer as good is in no lower band.
LEMMA DiscountRises ==
    ASSUME NEW r, NEW s, Offered(r), Offered(s), AsGood(s, r)
    PROVE  /\ DiscountScore(r) \in Int /\ DiscountScore(s) \in Int
           /\ DiscountScore(r) <= DiscountScore(s)
<1> PICK bands : bands = DiscountBands
  OBVIOUS
<1>1. DOMAIN bands = 1..6 /\ Descends(bands, 20)
  BY DEF DiscountBands, Descends
<1>2. /\ AllIn(r) \in Nat /\ AllIn(s) \in Nat /\ r.fair \in Nat /\ s.fair \in Nat
      /\ AllIn(s) <= AllIn(r) /\ s.fair >= r.fair
  BY DEF Offered, AsGood, AllIn
<1>3. Met(bands, r.fair - AllIn(r), r.fair) \subseteq Met(bands, s.fair - AllIn(s), s.fair)
  <2> SUFFICES ASSUME NEW i \in 1..6, 100 * (r.fair - AllIn(r)) >= bands[i][1] * r.fair
               PROVE  100 * (s.fair - AllIn(s)) >= bands[i][1] * s.fair
    BY <1>1 DEF Met
  <2>1. bands[i][1] \in {25, 20, 10, 5, 0, -10}
    BY DEF DiscountBands
  <2> PICK t : t = bands[i][1]
    OBVIOUS
  <2> PICK a \in Nat, b \in Nat, f \in Nat, g \in Nat :
             a = AllIn(r) /\ b = AllIn(s) /\ f = r.fair /\ g = s.fair
    BY <1>2
  <2>2. b <= a /\ f <= g /\ 100 * (f - a) >= t * f
    BY <1>2
  <2>3. 100 * (g - b) >= t * g
    BY <2>1, <2>2
  <2> QED
    BY <2>3
<1>4. /\ DiscountScore(r) = Band(bands, r.fair - AllIn(r), r.fair, 20)
      /\ DiscountScore(s) = Band(bands, s.fair - AllIn(s), s.fair, 20)
  BY DEF DiscountScore, DiscountBands
<1> PICK n \in Nat, last \in Int : n = 6 /\ last = 20
  OBVIOUS
<1>5. AreBands(bands, last)
  <2>1. DOMAIN bands = 1..n /\ Descends(bands, last)
    BY <1>1
  <2> QED
    BY <2>1 DEF AreBands
<1> PICK c : c = r.fair - AllIn(r)
  OBVIOUS
<1> PICK d : d = s.fair - AllIn(s)
  OBVIOUS
<1>6. Met(bands, c, r.fair) \subseteq Met(bands, d, s.fair)
  BY <1>3
<1>7. /\ Band(bands, c, r.fair, last) \in Int /\ Band(bands, d, s.fair, last) \in Int
      /\ Band(bands, c, r.fair, last) <= Band(bands, d, s.fair, last)
  BY <1>5, <1>6, BandRises
<1> QED
  BY <1>4, <1>7

\* Its return after fees is no lower.
LEMMA ReturnRises ==
    ASSUME NEW r, NEW s, Offered(r), Offered(s), AsGood(s, r)
    PROVE  /\ RoiScore(r) \in Int /\ RoiScore(s) \in Int /\ RoiScore(r) <= RoiScore(s)
<1>0. /\ AllIn(r) \in Nat /\ AllIn(s) \in Nat /\ AllIn(s) <= AllIn(r)
      /\ r.fair \in Nat /\ s.fair \in Nat /\ r.fair <= s.fair
      /\ 100 - r.fee \in Nat /\ s.fee = r.fee /\ r.margin \in Nat /\ s.margin = r.margin
  BY DEF Offered, AsGood, AllIn, Rates
<1> PICK a \in Nat, b \in Nat : a = AllIn(r) /\ b = AllIn(s) /\ b <= a
  BY <1>0
<1> PICK f \in Nat, g \in Nat : f = r.fair /\ g = s.fair /\ f <= g
  BY <1>0
<1> PICK k \in Nat, m \in Nat :
           k = 100 - r.fee /\ m = r.margin /\ k = 100 - s.fee /\ m = s.margin
  BY <1>0
<1>1. k * f <= k * g /\ m * b <= m * a /\ k * f \in Nat /\ k * g \in Nat
      /\ m * b \in Nat /\ m * a \in Nat
  BY ProductsInOrder
<1> PICK x \in Nat, y \in Nat, v \in Nat, u \in Nat :
           x = k * f /\ y = k * g /\ v = m * b /\ u = m * a
  BY <1>1
<1>2. Profit(r) = x - 100 * a /\ Profit(s) = y - 100 * b
  <2>1. f * k = k * f /\ g * k = k * g
    OBVIOUS
  <2> QED
    BY <2>1 DEF Profit
<1>3. /\ RoiScore(r) = IF x - 100 * a >= u THEN 8 ELSE IF x - 100 * a < 0 THEN -12 ELSE 0
      /\ RoiScore(s) = IF y - 100 * b >= v THEN 8 ELSE IF y - 100 * b < 0 THEN -12 ELSE 0
  BY <1>2 DEF RoiScore
<1>4. x <= y /\ v <= u
  BY <1>1
<1> QED
  BY <1>3, <1>4

\* The score of an offer as good is no lower, and its verdict no worse.
LEMMA GoodOffers ==
    ASSUME NEW r, NEW s, Offered(r), Offered(s), AsGood(s, r)
    PROVE  Rank(Buy(s).verdict) >= Rank(Buy(r).verdict) /\ Buy(s).score >= Buy(r).score
<1>1. /\ DiscountScore(r) \in Int /\ DiscountScore(s) \in Int
      /\ DiscountScore(r) <= DiscountScore(s)
  BY DiscountRises
<1>2. /\ RoiScore(r) \in Int /\ RoiScore(s) \in Int /\ RoiScore(r) <= RoiScore(s)
  BY ReturnRises
<1>3. RangeScore(r) \in Int /\ RangeScore(s) \in Int /\ RangeScore(r) <= RangeScore(s)
  <2>1. /\ AllIn(r) \in Nat /\ AllIn(s) \in Nat /\ AllIn(s) <= AllIn(r)
        /\ r.low \in Nat \cup {None} /\ r.high \in Nat \cup {None}
        /\ s.low = r.low /\ s.high = r.high
    BY DEF Offered, AsGood, AllIn, KnownOrNone
  <2> QED
    BY <2>1 DEF RangeScore
<1>4. r.confidence \in Confidences /\ s.confidence \in Confidences
  BY DEF Offered
<1>5. EvidenceScore(r) \in Int /\ EvidenceScore(s) \in Int /\ EvidenceScore(r) <= EvidenceScore(s)
  <2>1. r.listings \in Nat /\ s.listings \in Nat /\ r.listings <= s.listings
    BY DEF Offered, AsGood
  <2>2. Level(s.confidence) >= Level(r.confidence)
    BY DEF AsGood
  <2> DEFINE trust == [high |-> 5, medium |-> 0, low |-> -10]
             depth(l) == IF l >= 20 THEN 5 ELSE IF l < 5 THEN -8 ELSE 0
  <2>3. trust[r.confidence] \in Int /\ trust[s.confidence] \in Int
        /\ trust[r.confidence] <= trust[s.confidence]
    BY <1>4, <2>2 DEF Confidences, Level
  <2>4. depth(r.listings) \in Int /\ depth(s.listings) \in Int
        /\ depth(r.listings) <= depth(s.listings)
    BY <2>1
  <2>5. /\ EvidenceScore(r) = trust[r.confidence] + depth(r.listings)
        /\ EvidenceScore(s) = trust[s.confidence] + depth(s.listings)
    BY DEF EvidenceScore
  <2> HIDE DEF trust, depth
  <2> QED
    BY <2>3, <2>4, <2>5
<1>6. BuyScore(r) \in Int /\ BuyScore(s) \in Int /\ BuyScore(r) <= BuyScore(s)
  BY <1>1, <1>2, <1>3, <1>5 DEF BuyScore, Clamp, Between
<1>7. 10 * (r.fair - AllIn(r)) >= r.fair => 10 * (s.fair - AllIn(s)) >= s.fair
  BY DEF Offered, AsGood, AllIn
<1>8. r.confidence # "low" => s.confidence # "low"
  BY <1>4 DEF AsGood, Level, Confidences
<1>9. Buy(r) = [verdict |-> BuyVerdict(r), score |-> BuyScore(r), trust |-> r.confidence]
  BY InputsAreSane DEF Buy, Offered
<1>10. Buy(s) = [verdict |-> BuyVerdict(s), score |-> BuyScore(s), trust |-> s.confidence]
  BY InputsAreSane DEF Buy, Offered
<1>11. Rank(BuyVerdict(s)) >= Rank(BuyVerdict(r))
  BY <1>6, <1>7, <1>8 DEF BuyVerdict, Rank
<1> QED
  BY <1>6, <1>9, <1>10, <1>11

-----------------------------------------------------------------------------
(* Holdings. *)

Demands == {None, "strong", "moderate", "weak"}

\* A holding in the range of the request's numbers that has a valuation.
OnHold(r) ==
    r \in [goal: {"sell"}, fair: Nat \ {0}, cost: KnownOrNone, target: Nat, fee: Rates,
           recent: Seq(Nat), confidence: Confidences, share: KnownOrNone, supply: Nat,
           reliable: BOOLEAN, demand: Demands, age: KnownOrNone]

\* A holding that is as ripe for a sale in all respects.
AsRipe(s, r) ==
    /\ s.fair >= r.fair /\ s.fee <= r.fee
    /\ CostKnown(s) <=> CostKnown(r)
    /\ CostKnown(r) => s.cost <= r.cost
    /\ s.age = None <=> r.age = None
    /\ r.age # None => s.age <= r.age
    /\ s.target = r.target /\ s.recent = r.recent /\ s.confidence = r.confidence
    /\ s.share = r.share /\ s.supply = r.supply
    /\ s.reliable = r.reliable /\ s.demand = r.demand

GainBands(t) == << <<75, 100>>, <<50, 80>>, <<t, 55>>, <<10, 20>>, <<0, -15>> >>
AgeBands == << <<-2, 40>>, <<-7, 20>>, <<-14, 0>>, <<-30, -50>> >>

GainBand(t, num, den) == Band(GainBands(t), num, den, -70)
InOrder(low, high) == low \in Int /\ high \in Int /\ low <= high

\* A gain that is no lower is in no lower band.
LEMMA GainBandsRise ==
    ASSUME NEW t \in Nat, NEW u \in Int, NEW v \in Int, u <= v,
           NEW h \in Nat, NEW l \in Nat, l <= h
    PROVE  InOrder(GainBand(t, u, h), GainBand(t, v, l))
<1> PICK bands : bands = GainBands(t)
  OBVIOUS
<1>1. DOMAIN bands = 1..5 /\ Descends(bands, -70)
  BY DEF Descends, GainBands
<1>2. Met(bands, u, h) \subseteq Met(bands, v, l)
  <2> SUFFICES ASSUME NEW i \in 1..5, 100 * u >= bands[i][1] * h
               PROVE  100 * v >= bands[i][1] * l
    BY <1>1 DEF Met
  <2>1. bands[i][1] \in Nat
    BY DEF GainBands
  <2> PICK z \in Nat : z = bands[i][1]
    BY <2>1
  <2>2. z * l \in Nat /\ z * h \in Nat /\ z * l <= z * h
    BY ProductsInOrder
  <2> PICK p \in Nat, q \in Nat : p = z * l /\ q = z * h
    BY <2>2
  <2>3. p <= q /\ 100 * u >= q
    BY <2>2
  <2>4. 100 * v >= p
    BY <2>3
  <2> QED
    BY <2>4
<1>3. 5 \in Nat /\ -70 \in Int
  OBVIOUS
<1>4. /\ Band(bands, u, h, -70) \in Int /\ Band(bands, v, l, -70) \in Int
      /\ Band(bands, u, h, -70) <= Band(bands, v, l, -70)
  <2>1. AreBands(bands, -70)
    BY <1>1, <1>3 DEF AreBands
  <2> QED
    BY <1>2, <2>1, BandRises
<1> QED
  BY <1>4 DEF InOrder, GainBand

\* A valuation that is no older is in no lower band.
LEMMA AgeBandsRise ==
    ASSUME NEW u \in Int, NEW v \in Int, u <= v
    PROVE  /\ Band(AgeBands, u, 100, -80) \in Int /\ Band(AgeBands, v, 100, -80) \in Int
           /\ Band(AgeBands, u, 100, -80) <= Band(AgeBands, v, 100, -80)
<1> PICK bands : bands = AgeBands
  OBVIOUS
<1>1. DOMAIN bands = 1..4 /\ Descends(bands, -80)
  BY DEF Descends, AgeBands
<1>2. Met(bands, u, 100) \subseteq Met(bands, v, 100)
  <2> SUFFICES ASSUME NEW i \in 1..4, 100 * u >= bands[i][1] * 100
               PROVE  100 * v >= bands[i][1] * 100
    BY <1>1 DEF Met
  <2>1. bands[i][1] \in Int
    BY DEF AgeBands
  <2> PICK z \in Int : z = bands[i][1]
    BY <2>1
  <2> QED
    OBVIOUS
<1>3. 4 \in Nat /\ -80 \in Int
  OBVIOUS
<1>4. AreBands(bands, -80)
  BY <1>1, <1>3 DEF AreBands
<1>5. /\ Band(bands, u, 100, -80) \in Int /\ Band(bands, v, 100, -80) \in Int
      /\ Band(bands, u, 100, -80) <= Band(bands, v, 100, -80)
  BY <1>2, <1>4, BandRises
<1> QED
  BY <1>5

\* Its net profit and its cost, when that is known.
LEMMA NetProfitRises ==
    ASSUME NEW r, NEW s, OnHold(r), OnHold(s), AsRipe(s, r), CostKnown(r)
    PROVE  /\ CostKnown(s) /\ r.target \in Nat /\ s.target = r.target
           /\ NetProfit(r) \in Int /\ NetProfit(s) \in Int /\ NetProfit(r) <= NetProfit(s)
           /\ 100 * r.cost \in Nat /\ 100 * s.cost \in Nat /\ 100 * s.cost <= 100 * r.cost
<1>1. /\ r.cost \in Nat \ {0} /\ s.cost \in Nat \ {0} /\ s.cost <= r.cost /\ CostKnown(s)
      /\ r.fair \in Nat /\ s.fair \in Nat /\ r.fair <= s.fair
      /\ 100 - r.fee \in Nat /\ 100 - s.fee \in Nat /\ 100 - r.fee <= 100 - s.fee
      /\ r.target \in Nat /\ s.target = r.target
  <2>1. CostKnown(s) /\ s.cost <= r.cost
    BY DEF AsRipe
  <2>2. r.cost \in Nat \cup {None} /\ s.cost \in Nat \cup {None}
    BY DEF OnHold, KnownOrNone
  <2>3. r.cost \in Nat \ {0} /\ s.cost \in Nat \ {0}
    BY <2>1, <2>2 DEF CostKnown
  <2>4. /\ r.fair \in Nat /\ s.fair \in Nat /\ r.fee \in 0..100 /\ s.fee \in 0..100
        /\ r.target \in Nat
    BY DEF OnHold, Rates
  <2>5. r.fair <= s.fair /\ s.fee <= r.fee /\ s.target = r.target
    <3>1. s.fair >= r.fair /\ s.fee <= r.fee /\ s.target = r.target
      BY Zenon DEF AsRipe
    <3> QED
      BY <2>4, <3>1
  <2> PICK e \in 0..100, d \in 0..100 : e = r.fee /\ d = s.fee /\ d <= e
    BY <2>4, <2>5
  <2>6. 100 - r.fee \in Nat /\ 100 - s.fee \in Nat /\ 100 - r.fee <= 100 - s.fee
    OBVIOUS
  <2>7. r.fair \in Nat /\ s.fair \in Nat /\ r.fair <= s.fair
    BY <2>4, <2>5
  <2>8. r.target \in Nat /\ s.target = r.target
    BY <2>4, <2>5
  <2> QED
    BY <2>1, <2>3, <2>6, <2>7, <2>8
<1> PICK c \in Nat, d \in Nat : c = r.cost /\ d = s.cost /\ d <= c
  BY <1>1
<1> PICK f \in Nat, g \in Nat : f = r.fair /\ g = s.fair /\ f <= g
  BY <1>1
<1> PICK k \in Nat, m \in Nat : k = 100 - r.fee /\ m = 100 - s.fee /\ k <= m
  BY <1>1
<1> PICK t \in Nat : t = r.target /\ t = s.target
  BY <1>1
<1>2. f * k \in Nat /\ g * m \in Nat /\ f * k <= g * m
  <2>1. f * k \in Nat /\ f * m \in Nat /\ f * k <= f * m
    BY ProductsInOrder
  <2>2. m * f \in Nat /\ m * g \in Nat /\ m * f <= m * g
    BY ProductsInOrder
  <2>3. m * f = f * m /\ m * g = g * m
    OBVIOUS
  <2> QED
    BY <2>1, <2>2, <2>3
<1> PICK x \in Nat, y \in Nat : x = f * k /\ y = g * m
  BY <1>2
<1>3. x <= y
  BY <1>2
<1> PICK u : u = x - 100 * c
  OBVIOUS
<1> PICK v : v = y - 100 * d
  OBVIOUS
<1>4. NetProfit(r) = u /\ NetProfit(s) = v
  BY DEF NetProfit
<1> PICK h \in Nat, l \in Nat : h = 100 * c /\ l = 100 * d
  OBVIOUS
<1>5. u \in Int /\ v \in Int /\ u <= v /\ l <= h
  BY <1>3
<1> QED
  BY <1>1, <1>4, <1>5

\* Its gain is in no lower band.
LEMMA GainRises ==
    ASSUME NEW r, NEW s, OnHold(r), OnHold(s), AsRipe(s, r)
    PROVE  GainSignal(r) \in Int /\ GainSignal(s) \in Int /\ GainSignal(r) <= GainSignal(s)
<1>1. CASE ~CostKnown(r)
  BY <1>1 DEF GainSignal, AsRipe
<1>2. CASE CostKnown(r)
  <2>1. /\ CostKnown(s) /\ r.target \in Nat /\ s.target = r.target
        /\ NetProfit(r) \in Int /\ NetProfit(s) \in Int /\ NetProfit(r) <= NetProfit(s)
        /\ 100 * r.cost \in Nat /\ 100 * s.cost \in Nat /\ 100 * s.cost <= 100 * r.cost
    BY <1>2, NetProfitRises
  <2> PICK t \in Nat : t = r.target /\ t = s.target
    BY <2>1
  <2> PICK u \in Int, v \in Int : u = NetProfit(r) /\ v = NetProfit(s) /\ u <= v
    BY <2>1
  <2> PICK h \in Nat, l \in Nat : h = 100 * r.cost /\ l = 100 * s.cost /\ l <= h
    BY <2>1
  <2>2. InOrder(GainBand(t, u, h), GainBand(t, v, l))
    BY GainBandsRise
  <2>3. GainSignal(r) = GainBand(t, u, h) /\ GainSignal(s) = GainBand(t, v, l)
    BY <1>2, <2>1 DEF GainSignal, GainBand, GainBands
  <2> QED
    BY <2>2, <2>3 DEF InOrder
<1> QED
  BY <1>1, <1>2

\* Its valuation is in no lower band of age.
LEMMA FreshnessRises ==
    ASSUME NEW r, NEW s, OnHold(r), OnHold(s), AsRipe(s, r)
    PROVE  /\ FreshnessSignal(r) \in Int /\ FreshnessSignal(s) \in Int
           /\ FreshnessSignal(r) <= FreshnessSignal(s)
<1>1. CASE r.age = None
  BY <1>1 DEF FreshnessSignal, AsRipe
<1>2. CASE r.age # None
  <2>1. r.age \in Nat /\ s.age \in Nat /\ s.age <= r.age /\ s.age # None
    BY <1>2 DEF OnHold, AsRipe, KnownOrNone
  <2> PICK u \in Int, v \in Int : u = -r.age /\ v = -s.age /\ u <= v
    BY <2>1
  <2>2. /\ Band(AgeBands, u, 100, -80) \in Int /\ Band(AgeBands, v, 100, -80) \in Int
        /\ Band(AgeBands, u, 100, -80) <= Band(AgeBands, v, 100, -80)
    BY AgeBandsRise
  <2>3. /\ FreshnessSignal(r) = Band(AgeBands, u, 100, -80)
        /\ FreshnessSignal(s) = Band(AgeBands, v, 100, -80)
    BY <1>2, <2>1 DEF FreshnessSignal, AgeBands
  <2> QED
    BY <2>2, <2>3
<1> QED
  BY <1>1, <1>2

\* What supply, share, trend and confidence signal is a number.
LEMMA SupplyIsANumber ==
    ASSUME NEW r, OnHold(r)
    PROVE  /\ ConcentrationSignal(r) \in Int /\ SupplySignal(r) \in Int
           /\ TrendSignal(r) \in Int /\ ConfidenceSignal(r) \in Int
<1>1. ConcentrationSignal(r) \in Int
  <2> PICK bands : bands = << <<40, 45>>, <<20, 20>> >>
    OBVIOUS
  <2> PICK n \in Nat, last \in Int : n = 2 /\ last = 0
    OBVIOUS
  <2>1. AreBands(bands, last)
    <3>1. DOMAIN bands = 1..n /\ Descends(bands, last)
      BY DEF Descends
    <3> QED
      BY <3>1 DEF AreBands
  <2> PICK u : u = r.share
    OBVIOUS
  <2> PICK h : h = 100
    OBVIOUS
  <2>2. Band(bands, u, h, last) \in Int
    BY <2>1, BandIsANumber
  <2> QED
    BY <2>2 DEF ConcentrationSignal
<1>2. SupplySignal(r) \in Int
  <2> PICK bands : bands = << <<20, 50>>, <<8, 20>> >>
    OBVIOUS
  <2> PICK n \in Nat, last \in Int : n = 2 /\ last = -50
    OBVIOUS
  <2>1. AreBands(bands, last)
    <3>1. DOMAIN bands = 1..n /\ Descends(bands, last)
      BY DEF Descends
    <3> QED
      BY <3>1 DEF AreBands
  <2> PICK u : u = r.supply
    OBVIOUS
  <2> PICK h : h = 100
    OBVIOUS
  <2>2. Band(bands, u, h, last) \in Int
    BY <2>1, BandIsANumber
  <2>3. r.demand \in Demands
    BY DEF OnHold
  <2>4. r.demand # None => [strong |-> 45, moderate |-> 15, weak |-> -30][r.demand] \in Int
    BY <2>3 DEF Demands
  <2> QED
    BY <2>2, <2>4 DEF SupplySignal
<1>3. TrendSignal(r) \in Int
  <2>1. Trend(r) \in {"unknown", "rising", "falling", "flat"}
    BY DEF Trend
  <2> QED
    BY <2>1 DEF TrendSignal
<1>4. ConfidenceSignal(r) \in Int
  BY DEF ConfidenceSignal, OnHold, Confidences
<1> QED
  BY <1>1, <1>2, <1>3, <1>4

\* A contribution rises with its signal.
LEMMA ContributionRises ==
    ASSUME NEW weight \in Nat, NEW low \in Int, NEW high \in Int, low <= high
    PROVE  /\ Contribution(weight, low) \in Int /\ Contribution(weight, high) \in Int
           /\ Contribution(weight, low) <= Contribution(weight, high)
<1> PICK d \in Nat : d = high - low
  OBVIOUS
<1>1. weight * low \in Int /\ weight * d \in Nat /\ weight * (low + d) = weight * low + weight * d
  OBVIOUS
<1> PICK m \in Int, n \in Int : m = weight * low /\ n = weight * high /\ m <= n
  BY <1>1
<1>2. HalfEven(m, 2) \in Int /\ HalfEven(n, 2) \in Int /\ HalfEven(m, 2) <= HalfEven(n, 2)
  BY HalvesInOrder
<1> QED
  BY <1>2 DEF Contribution

\* What is the same of two holdings.
LEMMA SameSignals ==
    ASSUME NEW r, NEW s, AsRipe(s, r)
    PROVE  /\ Trend(s) = Trend(r) /\ TrendSignal(s) = TrendSignal(r)
           /\ ConfidenceSignal(s) = ConfidenceSignal(r)
           /\ ConcentrationSignal(s) = ConcentrationSignal(r) /\ SupplySignal(s) = SupplySignal(r)
<1>1. Trend(s) = Trend(r)
  BY DEF AsRipe, Trend
<1> QED
  BY <1>1 DEF AsRipe, TrendSignal, ConfidenceSignal, ConcentrationSignal, SupplySignal

\* The score of a holding as ripe is no lower.
LEMMA SellScoreRises ==
    ASSUME NEW r, NEW s, OnHold(r), OnHold(s), AsRipe(s, r)
    PROVE  SellScore(r) \in Int /\ SellScore(s) \in Int /\ SellScore(r) <= SellScore(s)
<1>1. /\ GainSignal(r) \in Int /\ GainSignal(s) \in Int /\ GainSignal(r) <= GainSignal(s)
  BY GainRises
<1>2. /\ FreshnessSignal(r) \in Int /\ FreshnessSignal(s) \in Int
      /\ FreshnessSignal(r) <= FreshnessSignal(s)
  BY FreshnessRises
<1> PICK a \in Int, b \in Int : a = GainSignal(r) /\ b = GainSignal(s) /\ a <= b
  BY <1>1
<1> PICK c \in Int, d \in Int : c = FreshnessSignal(r) /\ d = FreshnessSignal(s) /\ c <= d
  BY <1>2
<1>3. /\ Contribution(35, a) \in Int /\ Contribution(35, b) \in Int
      /\ Contribution(35, a) <= Contribution(35, b)
  BY ContributionRises
<1>4. /\ Contribution(10, c) \in Int /\ Contribution(10, d) \in Int
      /\ Contribution(10, c) <= Contribution(10, d)
  BY ContributionRises
<1> PICK rest \in Int :
           rest = 5000 + Contribution(20, TrendSignal(r)) + Contribution(15, ConfidenceSignal(r))
                       + Contribution(10, ConcentrationSignal(r)) + Contribution(10, SupplySignal(r))
  <2>1. /\ TrendSignal(r) \in Int /\ ConfidenceSignal(r) \in Int
        /\ ConcentrationSignal(r) \in Int /\ SupplySignal(r) \in Int
    BY SupplyIsANumber
  <2>2. /\ Contribution(20, TrendSignal(r)) \in Int /\ Contribution(15, ConfidenceSignal(r)) \in Int
        /\ Contribution(10, ConcentrationSignal(r)) \in Int /\ Contribution(10, SupplySignal(r)) \in Int
    <3>1. \A k \in Nat, x \in Int : Contribution(k, x) \in Int
      BY ContributionRises
    <3> QED
      BY <2>1, <3>1
  <2> QED
    BY <2>2
<1> PICK m \in Int : m = rest + Contribution(35, a) + Contribution(10, c)
  BY <1>3, <1>4
<1> PICK n \in Int : n = rest + Contribution(35, b) + Contribution(10, d)
  BY <1>3, <1>4
<1>5. m <= n
  BY <1>3, <1>4
<1>6. HalfEven(m, 100) \in Int /\ HalfEven(n, 100) \in Int /\ HalfEven(m, 100) <= HalfEven(n, 100)
  BY <1>5, HundredthsInOrder
<1>7. SellScore(r) = Clamp(HalfEven(m, 100)) /\ SellScore(s) = Clamp(HalfEven(n, 100))
  <2>1. /\ Contribution(20, TrendSignal(r)) \in Int /\ Contribution(15, ConfidenceSignal(r)) \in Int
        /\ Contribution(10, ConcentrationSignal(r)) \in Int /\ Contribution(10, SupplySignal(r)) \in Int
    <3>1. \A k \in Nat, x \in Int : Contribution(k, x) \in Int
      BY ContributionRises
    <3> QED
      BY <3>1, SupplyIsANumber
  <2>2. m = 5000 + Contribution(35, GainSignal(r)) + Contribution(20, TrendSignal(r))
                 + Contribution(15, ConfidenceSignal(r)) + Contribution(10, ConcentrationSignal(r))
                 + Contribution(10, SupplySignal(r)) + Contribution(10, FreshnessSignal(r))
    BY <1>3, <1>4, <2>1
  <2>3. n = 5000 + Contribution(35, GainSignal(s)) + Contribution(20, TrendSignal(s))
                 + Contribution(15, ConfidenceSignal(s)) + Contribution(10, ConcentrationSignal(s))
                 + Contribution(10, SupplySignal(s)) + Contribution(10, FreshnessSignal(s))
    <3>1. n = 5000 + Contribution(35, GainSignal(s)) + Contribution(20, TrendSignal(r))
                   + Contribution(15, ConfidenceSignal(r)) + Contribution(10, ConcentrationSignal(r))
                   + Contribution(10, SupplySignal(r)) + Contribution(10, FreshnessSignal(s))
      BY <1>3, <1>4, <2>1
    <3> QED
      BY <3>1, SameSignals
  <2> QED
    BY <2>2, <2>3 DEF SellScore
<1> QED
  BY <1>6, <1>7 DEF Clamp, Between

\* The answer is trusted no less.
LEMMA TrustRises ==
    ASSUME NEW r, NEW s, OnHold(r), OnHold(s), AsRipe(s, r)
    PROVE  Trust(r) # "low" => Trust(s) # "low"
<1> PICK x \in Int : x = 100 - [high |-> 0, medium |-> 15, low |-> 55][r.confidence]
                             - (IF Trend(r) = "unknown" THEN 15 ELSE 0)
                             - (IF r.reliable THEN 0 ELSE 10)
  <2>1. [high |-> 0, medium |-> 15, low |-> 55][r.confidence] \in Int
    BY DEF OnHold, Confidences
  <2> QED
    BY <2>1
<1>1. /\ TrustScore(r) = x - (IF r.age = None THEN 20 ELSE IF r.age > 14 THEN 15 ELSE 0)
                           - (IF CostKnown(r) THEN 0 ELSE 5)
      /\ TrustScore(s) = x - (IF s.age = None THEN 20 ELSE IF s.age > 14 THEN 15 ELSE 0)
                           - (IF CostKnown(s) THEN 0 ELSE 5)
  <2>1. Trend(s) = Trend(r) /\ s.confidence = r.confidence /\ s.reliable = r.reliable
    BY SameSignals DEF AsRipe
  <2> QED
    BY <2>1 DEF TrustScore
<1>2. /\ s.age = None <=> r.age = None
      /\ r.age # None => r.age \in Nat /\ s.age \in Nat /\ s.age <= r.age
      /\ CostKnown(s) <=> CostKnown(r)
  BY DEF OnHold, AsRipe, KnownOrNone
<1>3. TrustScore(r) \in Int /\ TrustScore(s) \in Int /\ TrustScore(r) <= TrustScore(s)
  BY <1>1, <1>2
<1> QED
  BY <1>3 DEF Trust

\* Neither is its verdict further from a sale.
LEMMA RipeHoldings ==
    ASSUME NEW r, NEW s, OnHold(r), OnHold(s), AsRipe(s, r)
    PROVE  Rank(Sell(s).verdict) >= Rank(Sell(r).verdict) /\ Sell(s).score >= Sell(r).score
<1>1. SellScore(r) \in Int /\ SellScore(s) \in Int /\ SellScore(r) <= SellScore(s)
  BY SellScoreRises
<1>2. Trust(r) # "low" => Trust(s) # "low"
  BY TrustRises
<1>3. /\ Sell(r) = [verdict |-> SellVerdict(r), score |-> SellScore(r), trust |-> Trust(r)]
      /\ Sell(s) = [verdict |-> SellVerdict(s), score |-> SellScore(s), trust |-> Trust(s)]
  BY InputsAreSane DEF Sell, OnHold
<1>4. Rank(SellVerdict(s)) >= Rank(SellVerdict(r))
  BY <1>1, <1>2 DEF SellVerdict, Rank
<1> QED
  BY <1>1, <1>3, <1>4

-----------------------------------------------------------------------------
(* The steps. *)

\* Requests keep the range of their inputs, and an answer is that of its request.
AskInv == asked \in BuyRequests \cup SellRequests /\ answer = Answer(asked)

BuyFields == {"asking", "shipping", "fair", "low", "high", "listings", "fee", "margin"}
SellFields == {"fair", "cost", "target", "fee", "recent", "share", "supply", "age"}

\* What the inputs are.
LEMMA InputsAre ==
    /\ DOMAIN BuyInputs = BuyFields /\ DOMAIN SellInputs = SellFields
    /\ BuyInputs.asking \subseteq Nat /\ BuyInputs.shipping \subseteq Nat
    /\ BuyInputs.listings \subseteq Nat
    /\ BuyInputs.fair \subseteq KnownOrNone /\ BuyInputs.low \subseteq KnownOrNone
    /\ BuyInputs.high \subseteq KnownOrNone
    /\ BuyInputs.fee \subseteq Rates /\ BuyInputs.margin \subseteq Rates
    /\ SellInputs.fair \subseteq KnownOrNone /\ SellInputs.cost \subseteq KnownOrNone
    /\ SellInputs.target \subseteq Nat /\ SellInputs.fee \subseteq Rates
    /\ SellInputs.recent \subseteq Seq(Nat) /\ SellInputs.share \subseteq KnownOrNone
    /\ SellInputs.supply \subseteq Nat /\ SellInputs.age \subseteq KnownOrNone
BY InputsAreSane DEF BuyFields, SellFields

\* A step changes one input, to another that may be given.
OneInput(f, v) ==
    /\ v # asked[f] /\ asked' = [asked EXCEPT ![f] = v]
    /\ asked.goal = "buy" => /\ f \in BuyFields \cup {"confidence"}
                             /\ v \in IF f = "confidence" THEN Confidences ELSE BuyInputs[f]
    /\ asked.goal = "sell" => /\ f \in SellFields \cup {"confidence", "reliable", "demand"}
                              /\ v \in IF f = "confidence" THEN Confidences
                                       ELSE IF f = "reliable" THEN BOOLEAN
                                       ELSE IF f = "demand" THEN Demands ELSE SellInputs[f]

\* A request has one of two goals, and what goes with it.
LEMMA Goals ==
    ASSUME AskInv
    PROVE  \/ asked.goal = "buy" /\ asked \in BuyRequests
           \/ asked.goal = "sell" /\ asked \in SellRequests
BY DEF AskInv, BuyRequests, SellRequests

\* Every action does that.
LEMMA StepChangesOne ==
    ASSUME AskInv, AskNext
    PROVE  \E f, v : OneInput(f, v) /\ answer' = Answer(asked')
<1>1. CASE AskAgain
  <2>1. PICK f \in DOMAIN Varied(asked) : \E v \in Varied(asked)[f] : Changed(f, v)
    BY <1>1 DEF AskAgain
  <2>2. PICK v \in Varied(asked)[f] : Changed(f, v)
    BY <2>1
  <2>3. /\ v # asked[f] /\ asked' = [asked EXCEPT ![f] = v] /\ answer' = Answer(asked')
    BY <2>2 DEF Changed
  <2>4. CASE asked.goal = "buy"
    <3>1. Varied(asked) = BuyInputs
      BY <2>4 DEF Varied
    <3>2. f \in BuyFields /\ v \in BuyInputs[f] /\ f # "confidence"
      BY <3>1, InputsAre DEF BuyFields
    <3> QED
      BY <2>3, <2>4, <3>2 DEF OneInput
  <2>5. CASE asked.goal = "sell"
    <3>1. Varied(asked) = SellInputs
      BY <2>5 DEF Varied
    <3>2. /\ f \in SellFields /\ v \in SellInputs[f]
          /\ f # "confidence" /\ f # "reliable" /\ f # "demand"
      BY <3>1, InputsAre DEF SellFields
    <3> QED
      BY <2>3, <2>5, <3>2 DEF OneInput
  <2> QED
    BY <2>4, <2>5, Goals
<1>2. CASE Reassess
  <2>1. PICK v \in Confidences : Changed("confidence", v)
    BY <1>2 DEF Reassess
  <2>2. OneInput("confidence", v) /\ answer' = Answer(asked')
    BY <2>1 DEF Changed, OneInput
  <2> QED
    BY <2>2
<1>3. CASE Resupply
  <2>1. asked.goal = "sell"
    BY <1>3 DEF Resupply
  <2>2. ASSUME NEW v \in BOOLEAN, Changed("reliable", v)
        PROVE  OneInput("reliable", v) /\ answer' = Answer(asked')
    BY <2>1, <2>2 DEF Changed, OneInput
  <2>3. ASSUME NEW v \in Demands, Changed("demand", v)
        PROVE  OneInput("demand", v) /\ answer' = Answer(asked')
    BY <2>1, <2>3 DEF Changed, OneInput
  <2> QED
    BY <1>3, <2>2, <2>3 DEF Resupply, Demands
<1> QED
  BY <1>1, <1>2, <1>3 DEF AskNext

\* A request with one input changed is a request with the same goal.
LEMMA StillARequest ==
    ASSUME AskInv, NEW f, NEW v, OneInput(f, v)
    PROVE  /\ asked'.goal = asked.goal
           /\ asked.goal = "buy" => asked' \in BuyRequests
           /\ asked.goal = "sell" => asked' \in SellRequests
<1>1. CASE asked.goal = "buy"
  <2>1. asked \in BuyRequests
    BY <1>1, Goals
  <2>2. /\ f \in BuyFields \cup {"confidence"}
        /\ v \in IF f = "confidence" THEN Confidences ELSE BuyInputs[f]
        /\ asked' = [asked EXCEPT ![f] = v]
    BY <1>1 DEF OneInput
  <2>3. asked' \in BuyRequests
    BY <2>1, <2>2 DEF BuyRequests, BuyFields
  <2> QED
    BY <1>1, <2>3 DEF BuyRequests
<1>2. CASE asked.goal = "sell"
  <2>1. asked \in SellRequests
    BY <1>2, Goals
  <2>2. /\ f \in SellFields \cup {"confidence", "reliable", "demand"}
        /\ v \in IF f = "confidence" THEN Confidences
                 ELSE IF f = "reliable" THEN BOOLEAN
                 ELSE IF f = "demand" THEN Demands ELSE SellInputs[f]
        /\ asked' = [asked EXCEPT ![f] = v]
    BY <1>2 DEF OneInput
  <2>3. asked' \in SellRequests
    BY <2>1, <2>2 DEF SellRequests, SellFields, Demands
  <2> QED
    BY <1>2, <2>3 DEF SellRequests
<1> QED
  BY <1>1, <1>2, Goals

\* A better offer is as good in all respects.
LEMMA BetterIsAsGood ==
    ASSUME AskInv, NEW f, NEW v, OneInput(f, v), BetterOffer,
           asked.fair # None, asked'.fair # None
    PROVE  Offered(asked) /\ Offered(asked') /\ AsGood(asked', asked)
<1>1. asked.goal = "buy" /\ asked.asking # 0 /\ asked'.asking # 0 /\ asked.fair # 0
  BY DEF BetterOffer
<1> PICK r : r = asked
  OBVIOUS
<1> PICK s : s = asked'
  OBVIOUS
<1>2. r \in BuyRequests /\ s \in BuyRequests
  BY <1>1, Goals, StillARequest DEF BuyRequests, SellRequests
<1>3. f \in BuyFields \cup {"confidence"} /\ s = [r EXCEPT ![f] = v]
  BY <1>1 DEF OneInput
<1>4. \/ \E g \in {"asking", "shipping"} : s[g] # r[g] /\ Less(s[g], r[g])
      \/ \E g \in {"listings", "fair"} : s[g] # r[g] /\ More(s[g], r[g])
      \/ s["confidence"] # r["confidence"] /\ Level(s["confidence"]) > Level(r["confidence"])
  BY DEF BetterOffer, Improved
<1>5. \A g \in DOMAIN r : g # f => s[g] = r[g]
  BY <1>3
<1>6. DOMAIN r = BuyFields \cup {"confidence", "goal"}
  BY <1>2 DEF BuyRequests, BuyFields
<1>7. \A q \in {r, s} : /\ q.asking \in Nat /\ q.shipping \in Nat /\ q.listings \in Nat
                        /\ q.fair \in KnownOrNone /\ q.low \in KnownOrNone /\ q.high \in KnownOrNone
                        /\ q.fee \in Rates /\ q.margin \in Rates
                        /\ q.confidence \in Confidences
  BY <1>2, InputsAre DEF BuyRequests
<1>8. \A q \in {r, s} : Level(q.confidence) \in Int
  BY <1>7 DEF Level, Confidences
<1>9. r.fair \in Nat \ {0} /\ s.fair \in Nat /\ s.fair >= r.fair
  <2>1. r.fair \in Nat \ {0} /\ s.fair \in Nat
    BY <1>1, <1>7 DEF KnownOrNone
  <2>2. CASE f # "fair"
    BY <1>5, <1>6, <2>1, <2>2 DEF BuyFields
  <2>3. CASE f = "fair"
    <3>1. More(s["fair"], r["fair"])
      BY <1>4, <1>5, <1>6, <1>8, <2>3 DEF BuyFields
    <3> QED
      BY <2>1, <3>1 DEF More, Less
  <2> QED
    BY <2>2, <2>3
<1>10. AllIn(s) <= AllIn(r)
  <2>1. CASE f \notin {"asking", "shipping"}
    BY <1>5, <1>6, <1>7, <2>1 DEF AllIn, BuyFields
  <2>2. CASE f \in {"asking", "shipping"}
    <3>1. Less(s[f], r[f])
      BY <1>4, <1>5, <1>6, <1>8, <2>2 DEF BuyFields
    <3>2. CASE f = "asking"
      BY <1>5, <1>6, <1>7, <3>1, <3>2 DEF AllIn, BuyFields, Less
    <3>3. CASE f = "shipping"
      BY <1>5, <1>6, <1>7, <3>1, <3>3 DEF AllIn, BuyFields, Less
    <3> QED
      BY <2>2, <3>2, <3>3
  <2> QED
    BY <2>1, <2>2
<1>11. s.listings >= r.listings
  <2>1. CASE f # "listings"
    BY <1>5, <1>6, <1>7, <2>1 DEF BuyFields
  <2>2. CASE f = "listings"
    <3>1. More(s["listings"], r["listings"])
      BY <1>4, <1>5, <1>6, <1>8, <2>2 DEF BuyFields
    <3> QED
      BY <1>7, <3>1 DEF More, Less
  <2> QED
    BY <2>1, <2>2
<1>12. Level(s.confidence) >= Level(r.confidence)
  <2>1. CASE f # "confidence"
    BY <1>5, <1>6, <1>8, <2>1
  <2>2. CASE f = "confidence"
    BY <1>4, <1>5, <1>6, <1>8, <2>2 DEF BuyFields
  <2> QED
    BY <2>1, <2>2
<1>13. f \notin {"low", "high", "fee", "margin"}
  BY <1>4, <1>5, <1>6 DEF BuyFields
<1>14. AsGood(s, r)
  BY <1>5, <1>6, <1>9, <1>10, <1>11, <1>12, <1>13 DEF AsGood, BuyFields
<1>15. Offered(r) /\ Offered(s)
  <2>1. /\ r.goal = "buy" /\ s.goal = "buy" /\ r.asking \in Nat \ {0} /\ s.asking \in Nat \ {0}
        /\ r.fair \in Nat \ {0} /\ s.fair \in Nat \ {0}
    BY <1>1, <1>2, <1>7, <1>9 DEF BuyRequests
  <2> QED
    BY <1>2, <1>7, <2>1 DEF Offered, BuyRequests
<1> QED
  BY <1>14, <1>15

\* A riper holding is as ripe in all respects.
LEMMA RiperIsAsRipe ==
    ASSUME AskInv, NEW f, NEW v, OneInput(f, v), RiperHolding,
           asked.fair # None, asked'.fair # None
    PROVE  OnHold(asked) /\ OnHold(asked') /\ AsRipe(asked', asked)
<1>1. asked.goal = "sell" /\ asked.cost # 0 /\ asked'.cost # 0 /\ asked.fair # 0
  BY DEF RiperHolding
<1> PICK r : r = asked
  OBVIOUS
<1> PICK s : s = asked'
  OBVIOUS
<1>2. r \in SellRequests /\ s \in SellRequests
  BY <1>1, Goals, StillARequest DEF BuyRequests, SellRequests
<1>3. f \in SellFields \cup {"confidence", "reliable", "demand"} /\ s = [r EXCEPT ![f] = v]
  BY <1>1 DEF OneInput
<1>4. \/ \E g \in {"cost", "fee", "age"} : s[g] # r[g] /\ Less(s[g], r[g])
      \/ s["fair"] # r["fair"] /\ More(s["fair"], r["fair"])
  BY DEF RiperHolding, Improved
<1>5. \A g \in DOMAIN r : g # f => s[g] = r[g]
  BY <1>3
<1>6. DOMAIN r = SellFields \cup {"confidence", "reliable", "demand", "goal"}
  BY <1>2 DEF SellRequests, SellFields
<1>7. \A q \in {r, s} : /\ q.fair \in KnownOrNone /\ q.cost \in KnownOrNone /\ q.target \in Nat
                        /\ q.fee \in Rates /\ q.recent \in Seq(Nat) /\ q.share \in KnownOrNone
                        /\ q.supply \in Nat /\ q.age \in KnownOrNone
                        /\ q.confidence \in Confidences /\ q.reliable \in BOOLEAN
                        /\ q.demand \in Demands
  BY <1>2, InputsAre DEF SellRequests, Demands
<1>8. f \in {"cost", "fee", "age", "fair"}
  BY <1>4, <1>5, <1>6 DEF SellFields
<1>9. r.fair \in Nat \ {0} /\ s.fair \in Nat /\ s.fair >= r.fair
  <2>1. r.fair \in Nat \ {0} /\ s.fair \in Nat
    BY <1>1, <1>7 DEF KnownOrNone
  <2>2. CASE f # "fair"
    BY <1>5, <1>6, <2>1, <2>2 DEF SellFields
  <2>3. CASE f = "fair"
    <3>1. More(s["fair"], r["fair"])
      BY <1>4, <1>5, <1>6, <2>3 DEF SellFields
    <3> QED
      BY <2>1, <3>1 DEF More, Less
  <2> QED
    BY <2>2, <2>3
<1>10. s.fee <= r.fee
  <2>1. r.fee \in Nat /\ s.fee \in Nat
    <3>1. r.fee \in Rates /\ s.fee \in Rates
      BY <1>7
    <3>2. \A n \in Rates : n \in Nat
      BY DEF Rates
    <3> QED
      BY <3>1, <3>2
  <2>2. CASE f # "fee"
    BY <1>5, <1>6, <2>1, <2>2 DEF SellFields
  <2>3. CASE f = "fee"
    <3>1. Less(s["fee"], r["fee"])
      BY <1>4, <1>5, <1>6, <2>3 DEF SellFields
    <3> QED
      BY <2>1, <3>1 DEF Less
  <2> QED
    BY <2>2, <2>3
<1>11. /\ CostKnown(s) <=> CostKnown(r)
       /\ CostKnown(r) => s.cost <= r.cost
  <2>1. r.cost \in Nat \cup {None} /\ s.cost \in Nat \cup {None} /\ r.cost # 0 /\ s.cost # 0
    BY <1>1, <1>7 DEF KnownOrNone
  <2>2. CASE f # "cost"
    <3>1. s.cost = r.cost
      BY <1>5, <1>6, <2>2 DEF SellFields
    <3> QED
      BY <2>1, <3>1 DEF CostKnown
  <2>3. CASE f = "cost"
    <3>1. Less(s["cost"], r["cost"])
      BY <1>4, <1>5, <1>6, <2>3 DEF SellFields
    <3> QED
      BY <2>1, <3>1 DEF Less, CostKnown
  <2> QED
    BY <2>2, <2>3
<1>12. /\ s.age = None <=> r.age = None
       /\ r.age # None => s.age <= r.age
  <2>1. r.age \in Nat \cup {None} /\ s.age \in Nat \cup {None}
    BY <1>7 DEF KnownOrNone
  <2>2. CASE f # "age"
    <3>1. s.age = r.age
      BY <1>5, <1>6, <2>2 DEF SellFields
    <3> QED
      BY <2>1, <3>1
  <2>3. CASE f = "age"
    <3>1. Less(s["age"], r["age"])
      BY <1>4, <1>5, <1>6, <2>3 DEF SellFields
    <3> QED
      BY <2>1, <3>1 DEF Less
  <2> QED
    BY <2>2, <2>3
<1>13. /\ s.target = r.target /\ s.recent = r.recent /\ s.confidence = r.confidence
       /\ s.share = r.share /\ s.supply = r.supply
       /\ s.reliable = r.reliable /\ s.demand = r.demand
  BY <1>5, <1>6, <1>8 DEF SellFields
<1>14. AsRipe(s, r)
  BY <1>9, <1>10, <1>11, <1>12, <1>13 DEF AsRipe
<1>15. OnHold(r) /\ OnHold(s)
  <2>1. r.goal = "sell" /\ s.goal = "sell" /\ r.fair \in Nat \ {0} /\ s.fair \in Nat \ {0}
    BY <1>2, <1>9 DEF SellRequests
  <2> QED
    BY <1>2, <1>7, <2>1 DEF OnHold, SellRequests
<1> QED
  BY <1>14, <1>15

\* A valuation neither comes nor goes with better terms.
LEMMA ValuationStays ==
    ASSUME AskInv, NEW f, NEW v, OneInput(f, v), BetterOffer \/ RiperHolding
    PROVE  asked.fair = None <=> asked'.fair = None
<1>1. asked'.goal = asked.goal /\ asked \in BuyRequests \cup SellRequests
  BY StillARequest DEF AskInv
<1>2. asked' = [asked EXCEPT ![f] = v] /\ "fair" \in DOMAIN asked
  BY <1>1 DEF OneInput, BuyRequests, SellRequests
<1>3. CASE f # "fair"
  BY <1>2, <1>3
<1>4. CASE f = "fair"
  <2>1. \A g \in DOMAIN asked : g # "fair" => asked'[g] = asked[g]
    BY <1>2, <1>4
  <2>2. CASE BetterOffer
    <3>1. asked \in BuyRequests
      BY <2>2, Goals DEF BetterOffer
    <3>2. /\ asked'["asking"] = asked["asking"] /\ asked'["shipping"] = asked["shipping"]
          /\ asked'["listings"] = asked["listings"] /\ asked'["confidence"] = asked["confidence"]
      BY <2>1, <3>1 DEF BuyRequests
    <3>3. More(asked'["fair"], asked["fair"])
      BY <2>2, <3>2 DEF BetterOffer, Improved
    <3> QED
      BY <3>3 DEF More, Less
  <2>3. CASE RiperHolding
    <3>1. asked \in SellRequests
      BY <2>3, Goals DEF RiperHolding
    <3>2. /\ asked'["cost"] = asked["cost"] /\ asked'["fee"] = asked["fee"]
          /\ asked'["age"] = asked["age"]
      BY <2>1, <3>1 DEF SellRequests
    <3>3. More(asked'["fair"], asked["fair"])
      BY <2>3, <3>2 DEF RiperHolding, Improved
    <3> QED
      BY <3>3 DEF More, Less
  <2> QED
    BY <2>2, <2>3
<1> QED
  BY <1>3, <1>4

\* What better terms do.
LEMMA BetterIsNotWorse ==
    ASSUME AskInv, AskInv', NEW f, NEW v, OneInput(f, v), BetterOffer \/ RiperHolding
    PROVE  NotWorse
<1>1. asked'.goal = asked.goal
  BY StillARequest
<1>2. answer = Answer(asked) /\ answer' = Answer(asked')
  BY DEF AskInv
<1>3. CASE asked.fair = None
  <2>1. asked'.fair = None
    BY <1>3, ValuationStays
  <2>2. answer' = answer /\ answer.score = 40 /\ answer.verdict \in {"WATCH", "HOLD"}
    BY <1>1, <1>2, <1>3, <2>1 DEF Answer, Buy, Sell
  <2> QED
    BY <2>2 DEF NotWorse, Rank
<1>4. CASE asked.fair # None
  <2>1. asked'.fair # None
    BY <1>4, ValuationStays
  <2>2. CASE BetterOffer
    <3> PICK r : r = asked
      OBVIOUS
    <3> PICK s : s = asked'
      OBVIOUS
    <3>1. Offered(r) /\ Offered(s) /\ AsGood(s, r)
      BY <1>4, <2>1, <2>2, BetterIsAsGood
    <3>2. Rank(Buy(s).verdict) >= Rank(Buy(r).verdict) /\ Buy(s).score >= Buy(r).score
      BY <3>1, GoodOffers
    <3>3. answer = Buy(r) /\ answer' = Buy(s)
      BY <1>1, <1>2, <2>2 DEF Answer, BetterOffer
    <3> QED
      BY <3>2, <3>3 DEF NotWorse
  <2>3. CASE RiperHolding
    <3> PICK r : r = asked
      OBVIOUS
    <3> PICK s : s = asked'
      OBVIOUS
    <3>1. OnHold(r) /\ OnHold(s) /\ AsRipe(s, r)
      BY <1>4, <2>1, <2>3, RiperIsAsRipe
    <3>2. Rank(Sell(s).verdict) >= Rank(Sell(r).verdict) /\ Sell(s).score >= Sell(r).score
      BY <3>1, RipeHoldings
    <3>3. answer = Sell(r) /\ answer' = Sell(s)
      BY <1>1, <1>2, <2>3 DEF Answer, RiperHolding
    <3> QED
      BY <3>2, <3>3 DEF NotWorse
  <2> QED
    BY <2>2, <2>3
<1> QED
  BY <1>3, <1>4

\* A step keeps the invariant.
LEMMA AskStep == AskInv /\ [AskNext]_askVars => AskInv'
<1> SUFFICES ASSUME AskInv, [AskNext]_askVars PROVE AskInv'
  OBVIOUS
<1>1. CASE AskNext
  <2>1. PICK f, v : OneInput(f, v) /\ answer' = Answer(asked')
    BY <1>1, StepChangesOne
  <2>2. asked' \in BuyRequests \cup SellRequests
    BY <2>1, Goals, StillARequest
  <2> QED
    BY <2>1, <2>2 DEF AskInv
<1>2. CASE UNCHANGED askVars
  BY <1>2 DEF askVars, AskInv
<1> QED
  BY <1>1, <1>2

\* Whatever an offer costs and whatever a holding is worth, better terms never get a lower
\* score or a worse verdict of the engines.
THEOREM BetterTermsNeverHurtTheorem == AskSpec => BetterTermsNeverHurt
<1>1. AskInit => AskInv
  BY DEF AskInit, AskInv
<1>2. ASSUME AskInv, AskInv', [AskNext]_askVars
      PROVE  [BetterOffer \/ RiperHolding => NotWorse]_askVars
  <2>1. CASE AskNext
    <3>1. PICK f, v : OneInput(f, v)
      BY <1>2, <2>1, StepChangesOne
    <3>2. BetterOffer \/ RiperHolding => NotWorse
      BY <1>2, <3>1, BetterIsNotWorse
    <3> QED
      BY <3>2
  <2>2. CASE UNCHANGED askVars
    BY <2>2
  <2> QED
    BY <1>2, <2>1, <2>2
<1> QED
  BY <1>1, <1>2, AskStep, PTL DEF AskSpec, BetterTermsNeverHurt
=============================================================================

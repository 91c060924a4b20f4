----------------------------- MODULE DealScores -----------------------------
(***************************************************************************)
(* The score of a marketplace listing (scoring_engine.py) as the deal finder *)
(* and the analysis of one listing compute it, and the decision of the       *)
(* analysis.  A listing changes between two looks at it: its price, what the *)
(* provider says of it, the valuation of its set.                            *)
(*                                                                           *)
(* Prices are cents.  Scores that go into a component are tenths of a point, *)
(* as the code rounds them; weights are percents.                            *)
(***************************************************************************)
EXTENDS Rounding, FiniteSetsExt

CONSTANTS
    Costs,    \* what a listing can cost with shipping
    Values,   \* what a set can be worth
    Samples,  \* listings behind the valuation
    Matches,  \* confidence that the listing is the set
    Ratings,  \* of sellers
    Unknown   \* a valuation, a rating or a completeness that is missing

ASSUME ListingsAreSane ==
    /\ Costs \cup Samples \subseteq Nat
    /\ Values \subseteq Nat \ {0}
    /\ Matches \cup Ratings \subseteq 0..100
    /\ Unknown \notin Int \cup BOOLEAN

VARIABLES
    listing,  \* the listing and the valuation of its set
    analysis, \* what the analysis of the listing says
    found     \* its score among the deals, Unknown if it is not one

scoreVars == <<listing, analysis, found>>

Listings ==
    [cost: Costs, value: Values \cup {Unknown}, samples: Samples, match: Matches,
     rating: Ratings \cup {Unknown}, shop: {"bricklink", "ebay"},
     condition: {"new", "used", "unknown"}, complete: BOOLEAN \cup {Unknown},
     flagged: BOOLEAN,   \* the data of the set is of doubtful quality
     doubted: BOOLEAN,   \* entered by hand, or its set was valued long ago
     excluded: BOOLEAN]  \* no longer active, or not the set as such

-----------------------------------------------------------------------------
(* The scoring engine *)

ToScore(n, d) == Between(0, HalfUp(n, d), 100)

Weights ==
    [value |-> 30, match |-> 15, valuation |-> 15, seller |-> 10, shop |-> 10,
     state |-> 10, quality |-> 10]

ConfidenceWeights ==
    [match |-> 25, valuation |-> 25, seller |-> 15, shop |-> 15, state |-> 10,
     quality |-> 10]

\* From 0 at a premium of 25 percent to 1000 at a discount of 25 percent.
ValueScore(cost, value) ==
    Between(0, 2 * (HalfUp(1000 * (value - cost), value) + 250), 1000)

StateScore(condition, complete) ==
    HalfUp(70 * condition
           + 30 * (IF complete = Unknown THEN 500 ELSE IF complete THEN 1000 ELSE 0), 100)

Penalties(unclear, complete, suspicious, quality) ==
      (IF unclear THEN {<<"unclear", 10>>} ELSE {})
    \cup (IF complete = FALSE THEN {<<"incomplete", 15>>} ELSE {})
    \cup (IF suspicious THEN {<<"suspicious", 25>>} ELSE {})
    \cup (IF quality < 600 THEN {<<"low quality", 10>>} ELSE {})

PenaltyTotal(penalties) == MapThenSumSet(LAMBDA p : p[2], penalties)

Component(parts, name) == HalfUp(parts[name] * Weights[name], 100)

OverallScore(parts, lost) ==
    ToScore(MapThenSumSet(LAMBDA name : Component(parts, name), DOMAIN Weights)
            - 10 * lost, 10)

ConfidenceScore(parts, lost) ==
    ToScore(MapThenSumSet(LAMBDA name : parts[name] * ConfidenceWeights[name],
                          DOMAIN ConfidenceWeights)
            - 1000 * lost, 1000)

ScoreDeal(cost, value, parts, penalties) ==
    LET full == [name \in DOMAIN Weights |->
                    IF name = "value" THEN ValueScore(cost, value) ELSE parts[name]]
        lost == PenaltyTotal(penalties)
    IN  [score |-> IF value = Unknown THEN Unknown ELSE OverallScore(full, lost),
         base  |-> IF value = Unknown THEN Unknown ELSE OverallScore(full, 0),
         lost  |-> lost,
         confidence |-> ConfidenceScore(parts, lost)]

-----------------------------------------------------------------------------
(* Its callers *)

EvidenceFalsy(l) ==
    LET condition == [new |-> 1000, used |-> 800, unknown |-> 500][l.condition]
    IN  [match |-> 10 * l.match,
         valuation |-> Between(0, 10 * (40 + 6 * l.samples), 1000),
         seller |-> 10 * (IF l.rating \in {Unknown, 0} THEN 50 ELSE l.rating),
         shop |-> IF l.shop = "bricklink" THEN 950 ELSE 850,
         state |-> StateScore(condition, l.complete),
         quality |-> IF l.flagged THEN 700 ELSE 1000]

Evidence(l) ==
    LET condition == [new |-> 1000, used |-> 800, unknown |-> 500][l.condition]
    IN  [match |-> 10 * l.match,
         valuation |-> Between(0, 10 * (40 + 6 * l.samples), 1000),
         seller |-> 10 * (IF l.rating = Unknown THEN 50 ELSE l.rating),
         shop |-> IF l.shop = "bricklink" THEN 950 ELSE 850,
         state |-> StateScore(condition, l.complete),
         quality |-> IF l.flagged THEN 700 ELSE 1000]

Judged(l, suspicious) ==
    ScoreDeal(l.cost, l.value, Evidence(l),
              Penalties(l.condition = "unknown", l.complete, suspicious, Evidence(l).quality))

RiskFlags(l) ==
    {f \in {"doubted", "excluded", "condition", "incomplete", "rating", "value"} :
        \/ f = "doubted" /\ l.doubted
        \/ f = "excluded" /\ l.excluded
        \/ f = "condition" /\ l.condition = "unknown"
        \/ f = "incomplete" /\ l.complete = FALSE
        \/ f = "rating" /\ (IF l.rating = Unknown THEN TRUE ELSE l.rating < 80)
        \/ f = "value" /\ l.value = Unknown}

Decision(scored, match, value) ==
    IF value = Unknown \/ match < 80 THEN "insufficient_data"
    ELSE IF scored.confidence < 55 THEN "watch"
    ELSE IF scored.score >= 70 THEN "buy"
    ELSE IF scored.score >= 45 THEN "watch" ELSE "pass"

Analyze(l) ==
    LET scored == Judged(l, RiskFlags(l) # {})
    IN  [scored |-> scored, decision |-> Decision(scored, l.match, l.value)]

Eligible(l) == l.match >= 80 /\ l.value # Unknown /\ ~l.excluded

Find(l) == IF Eligible(l) THEN Judged(l, FALSE).score ELSE Unknown

-----------------------------------------------------------------------------
ScoreInit ==
    /\ listing \in Listings
    /\ analysis = Analyze(listing)
    /\ found = Find(listing)

Seen(field, value) ==
    /\ value # listing[field]
    /\ listing' = [listing EXCEPT ![field] = value]
    /\ analysis' = Analyze(listing')
    /\ found' = Find(listing')

\* A refresh brings the listing back with other data, or the set has a new
\* valuation; then the listing is analyzed and the deals are searched again.
Relist ==
    \/ \E v \in Costs : Seen("cost", v)
    \/ \E v \in Matches : Seen("match", v)
    \/ \E v \in Ratings \cup {Unknown} : Seen("rating", v)
    \/ \E v \in {"new", "used", "unknown"} : Seen("condition", v)
    \/ \E v \in BOOLEAN \cup {Unknown} : Seen("complete", v)

Revalue ==
    \/ \E v \in Values \cup {Unknown} : Seen("value", v)
    \/ \E v \in Samples : Seen("samples", v)

Redoubt == \E f \in {"flagged", "doubted", "excluded"} : Seen(f, ~listing[f])

ScoreNext == Relist \/ Revalue \/ Redoubt

ScoreSpec == ScoreInit /\ [][ScoreNext]_scoreVars

-----------------------------------------------------------------------------
(* Properties *)

\* The order in which values of a listing are better.
Standing(field, v) ==
    CASE field = "cost"      -> -v
      [] field = "condition" -> [new |-> 2, used |-> 1, unknown |-> 0][v]
      [] field = "complete"  -> IF v = Unknown THEN 1 ELSE IF v THEN 2 ELSE 0
      [] field \in {"flagged", "doubted", "excluded"} -> IF v THEN 0 ELSE 1
      [] OTHER               -> v

Comparable(field) ==
    ~(field \in {"value", "rating"} /\ Unknown \in {listing[field], listing'[field]})

\* A field of the listing has become better.
Better(field) ==
    /\ listing'[field] # listing[field]
    /\ Comparable(field)
    /\ Standing(field, listing'[field]) > Standing(field, listing[field])

\* The listing keeps its points, and stays a buy if it was one.
LosesNothing ==
    /\ analysis'.scored.confidence >= analysis.scored.confidence
    /\ analysis.scored.score # Unknown => analysis'.scored.score >= analysis.scored.score
    /\ found # Unknown => found' >= found
    /\ analysis.decision = "buy" => analysis'.decision = "buy"

\* A listing that has become cheaper, better matched, better rated, more
\* complete or less doubtful loses no point of its score or its confidence and
\* is not withdrawn as a buy: what a change adds to one component no rounding,
\* penalty or risk flag takes away elsewhere.
BetterListingLosesNothing ==
    [][\A field \in DOMAIN listing \ {"shop"} : Better(field) => LosesNothing]_scoreVars

=============================================================================

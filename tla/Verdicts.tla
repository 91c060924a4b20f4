------------------------------ MODULE Verdicts ------------------------------
(***************************************************************************)
(* The verdicts of a recommendation request: buy, watch or pass on an       *)
(* offer (buy_decision_engine.py), sell, watch or hold a holding            *)
(* (hold_sell_engine.py).  Both engines are functions of the request, the   *)
(* estimate of the market and the history of values; nothing is kept        *)
(* between two requests.  The module lets a user ask again with one input   *)
(* changed, so that a step relates two answers.                             *)
(*                                                                          *)
(* Prices are integers of one unit, shares are percents, signals and        *)
(* contributions hundredths.  The code computes them in floating point and  *)
(* rounds ties to even; the values given to TLC keep away from the          *)
(* thresholds at which a last bit could decide.                             *)
(***************************************************************************)
EXTENDS Rounding, SequencesExt

CONSTANTS
    BuyInputs,   \* a record of sets: what an input of a buy request can be
    SellInputs,  \* the same for a request about a holding
    None         \* an input that is missing

Rates == 0..100
KnownOrNone == Nat \cup {None}

ASSUME InputsAreSane ==
    /\ None \notin Int
    /\ BuyInputs \in [asking: SUBSET Nat, shipping: SUBSET Nat, fair: SUBSET KnownOrNone,
                      low: SUBSET KnownOrNone, high: SUBSET KnownOrNone, listings: SUBSET Nat,
                      fee: SUBSET Rates, margin: SUBSET Rates]
    /\ SellInputs \in [fair: SUBSET KnownOrNone, cost: SUBSET KnownOrNone, target: SUBSET Nat,
                       fee: SUBSET Rates, recent: SUBSET Seq(Nat), share: SUBSET KnownOrNone,
                       supply: SUBSET Nat, age: SUBSET KnownOrNone]

VARIABLES
    asked,   \* the request
    answer   \* its verdict, score and, for a holding, the trust in it

askVars == <<asked, answer>>

Confidences == {"low", "medium", "high"}

BuyRequests ==
    [goal: {"buy"}, asking: BuyInputs.asking, shipping: BuyInputs.shipping,
     fair: BuyInputs.fair, low: BuyInputs.low, high: BuyInputs.high,
     listings: BuyInputs.listings, confidence: Confidences,
     fee: BuyInputs.fee, margin: BuyInputs.margin]

SellRequests ==
    [goal: {"sell"}, fair: SellInputs.fair, cost: SellInputs.cost,
     target: SellInputs.target, fee: SellInputs.fee, recent: SellInputs.recent,
     confidence: Confidences, share: SellInputs.share,
     supply: SellInputs.supply, reliable: BOOLEAN,
     demand: {None, "strong", "moderate", "weak"}, age: SellInputs.age]

-----------------------------------------------------------------------------
(* Arithmetic shared by the engines *)

\* The first band, in the order of the code, whose threshold in percent the
\* ratio num / den reaches.
Band(bands, num, den, otherwise) ==
    LET met == {i \in DOMAIN bands : 100 * num >= bands[i][1] * den}
    IN  IF met = {} THEN otherwise
        ELSE bands[CHOOSE i \in met : \A j \in met : i <= j][2]

Clamp(n) == Between(0, n, 100)

-----------------------------------------------------------------------------
(* Buy, watch or pass *)

AllIn(r) == r.asking + r.shipping

DiscountScore(r) ==
    Band(<< <<25, 95>>, <<20, 88>>, <<10, 78>>, <<5, 65>>, <<0, 55>>, <<-10, 35>> >>,
         r.fair - AllIn(r), r.fair, 20)

\* What is left of the fair value after the fees, in hundredths, less the price.
Profit(r) == r.fair * (100 - r.fee) - 100 * AllIn(r)

RoiScore(r) ==
    IF Profit(r) >= r.margin * AllIn(r) THEN 8
    ELSE IF Profit(r) < 0 THEN -12 ELSE 0

RangeScore(r) ==
      (IF r.low # None /\ AllIn(r) <= r.low THEN 5 ELSE 0)
    - (IF r.high # None /\ AllIn(r) >= r.high THEN 10 ELSE 0)

EvidenceScore(r) ==
    LET trust == [high |-> 5, medium |-> 0, low |-> -10]
    IN  trust[r.confidence]
        + (IF r.listings >= 20 THEN 5 ELSE IF r.listings < 5 THEN -8 ELSE 0)

BuyScore(r) ==
    Clamp(DiscountScore(r) + RoiScore(r) + RangeScore(r) + EvidenceScore(r))

BuyVerdict(r) ==
    IF /\ BuyScore(r) >= 75
       /\ 10 * (r.fair - AllIn(r)) >= r.fair
       /\ r.confidence # "low"
    THEN "BUY"
    ELSE IF BuyScore(r) >= 55 THEN "WATCH" ELSE "PASS"

Buy(r) ==
    IF r.fair = None \/ r.fair = 0
    THEN [verdict |-> "WATCH", score |-> 40, trust |-> "low"]
    ELSE IF r.asking = 0
    THEN [verdict |-> "PASS", score |-> 0, trust |-> "low"]
    ELSE [verdict |-> BuyVerdict(r), score |-> BuyScore(r), trust |-> r.confidence]

-----------------------------------------------------------------------------
(* Sell, watch or hold *)

\* A purchase price of zero counts as unknown.
CostKnown(r) == r.cost # None /\ r.cost > 0

NetProfit(r) == r.fair * (100 - r.fee) - 100 * r.cost

GainSignalMistyped(r) ==
    IF ~CostKnown(r) THEN 0
    ELSE Band(<< <<75, 100>>, <<50, 30>>, <<r.target, 55>>, <<10, 20>>, <<0, -15>> >>,
              NetProfit(r), 100 * r.cost, -70)

GainSignal(r) ==
    IF ~CostKnown(r) THEN 0
    ELSE Band(<< <<75, 100>>, <<50, 80>>, <<r.target, 55>>, <<10, 20>>, <<0, -15>> >>,
              NetProfit(r), 100 * r.cost, -70)

\* The newest value against the average of those before it.
Trend(r) ==
    LET n == Len(r.recent)
        sum == FoldSeq(LAMBDA v, acc : v + acc, 0, Front(r.recent))
        rise == 100 * (r.recent[n] * (n - 1) - sum)
    IN  IF n < 3 THEN "unknown"
        ELSE IF sum <= 0 THEN "unknown"
        ELSE IF rise >= 8 * sum THEN "rising"
        ELSE IF rise <= -8 * sum THEN "falling" ELSE "flat"

TrendSignal(r) ==
    [unknown |-> 0, rising |-> -75, flat |-> 15, falling |-> 75][Trend(r)]

ConfidenceSignal(r) == [high |-> 40, medium |-> 10, low |-> -45][r.confidence]

ConcentrationSignal(r) ==
    IF r.share = None THEN 0 ELSE Band(<< <<40, 45>>, <<20, 20>> >>, r.share, 100, 0)

SupplySignal(r) ==
    (IF r.reliable THEN Band(<< <<20, 50>>, <<8, 20>> >>, r.supply, 100, -50) ELSE 0)
    + (IF r.demand = None THEN 0
       ELSE [strong |-> 45, moderate |-> 15, weak |-> -30][r.demand])

FreshnessSignal(r) ==
    IF r.age = None THEN 0
    ELSE Band(<< <<-2, 40>>, <<-7, 20>>, <<-14, 0>>, <<-30, -50>> >>, -r.age, 100, -80)

Contribution(weight, signal) == HalfEven(weight * signal, 2)

SellScore(r) ==
    Clamp(HalfEven(5000 + Contribution(35, GainSignal(r)) + Contribution(20, TrendSignal(r))
                        + Contribution(15, ConfidenceSignal(r))
                        + Contribution(10, ConcentrationSignal(r))
                        + Contribution(10, SupplySignal(r))
                        + Contribution(10, FreshnessSignal(r)), 100))

\* How far the answer itself is to be trusted.
TrustScore(r) ==
    100 - [high |-> 0, medium |-> 15, low |-> 55][r.confidence]
        - (IF Trend(r) = "unknown" THEN 15 ELSE 0)
        - (IF r.reliable THEN 0 ELSE 10)
        - (IF r.age = None THEN 20 ELSE IF r.age > 14 THEN 15 ELSE 0)
        - (IF CostKnown(r) THEN 0 ELSE 5)

Trust(r) ==
    IF TrustScore(r) >= 75 THEN "high"
    ELSE IF TrustScore(r) >= 50 THEN "medium" ELSE "low"

SellVerdict(r) ==
    IF SellScore(r) >= 65 /\ Trust(r) # "low" THEN "SELL"
    ELSE IF SellScore(r) >= 45 THEN "WATCH" ELSE "HOLD"

Sell(r) ==
    IF r.fair = None \/ r.fair = 0
    THEN [verdict |-> "HOLD", score |-> 40, trust |-> "low"]
    ELSE [verdict |-> SellVerdict(r), score |-> SellScore(r), trust |-> Trust(r)]

-----------------------------------------------------------------------------
Answer(r) == IF r.goal = "buy" THEN Buy(r) ELSE Sell(r)

AskInit ==
    /\ asked \in BuyRequests \cup SellRequests
    /\ answer = Answer(asked)

Varied(r) == IF r.goal = "buy" THEN BuyInputs ELSE SellInputs

Changed(field, value) ==
    /\ value # asked[field]
    /\ asked' = [asked EXCEPT ![field] = value]
    /\ answer' = Answer(asked')

\* The user asks again about another price, or the market has moved.
AskAgain ==
    \E field \in DOMAIN Varied(asked) : \E value \in Varied(asked)[field] :
        Changed(field, value)

\* The estimate has gained or lost confidence between two requests.
Reassess == \E value \in Confidences : Changed("confidence", value)

\* The evidence of supply and demand differs.
Resupply ==
    /\ asked.goal = "sell"
    /\ \/ \E value \in BOOLEAN : Changed("reliable", value)
       \/ \E value \in {None, "strong", "moderate", "weak"} : Changed("demand", value)

AskNext == AskAgain \/ Reassess \/ Resupply

AskSpec == AskInit /\ [][AskNext]_askVars

-----------------------------------------------------------------------------
(* Properties *)

Rank(verdict) == [PASS |-> 0, HOLD |-> 0, WATCH |-> 1, BUY |-> 2, SELL |-> 2][verdict]

Level(confidence) == [low |-> 0, medium |-> 1, high |-> 2][confidence]

NotWorse == Rank(answer'.verdict) >= Rank(answer.verdict) /\ answer'.score >= answer.score

\* One of these fields has changed to something that Better says is better.
Improved(fields, Better(_, _)) ==
    /\ asked'.goal = asked.goal
    /\ \E f \in fields : asked'[f] # asked[f] /\ Better(asked'[f], asked[f])

Less(a, b) == a # None /\ b # None /\ a < b

More(a, b) == Less(b, a)

\* The same set for less, with more listings behind the estimate or with more
\* confidence in it.  A fair value of zero is none.
BetterOffer ==
    /\ asked.goal = "buy" /\ 0 \notin {asked.asking, asked'.asking, asked.fair}
    /\ \/ Improved({"asking", "shipping"}, Less)
       \/ Improved({"listings", "fair"}, More)
       \/ Improved({"confidence"}, LAMBDA a, b : Level(a) > Level(b))

\* A holding that cost less, is worth more, pays lower fees or was valued more
\* recently.
RiperHolding ==
    /\ asked.goal = "sell" /\ 0 \notin {asked.cost, asked'.cost, asked.fair}
    /\ \/ Improved({"cost", "fee", "age"}, Less)
       \/ Improved({"fair"}, More)

\* A better offer never gets a lower score or a worse verdict, and a riper
\* holding is never further from a sale: seven discount bands, the return after
\* fees and the range of the market are added up on one side, six weighted
\* signals on the other, and none of their steps may undo another.
BetterTermsNeverHurt == [][BetterOffer \/ RiperHolding => NotWorse]_askVars

=============================================================================

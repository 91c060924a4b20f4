----------------------------- MODULE MCEngines -----------------------------
(* The engines and Explanations side by side: each behaviour exercises one   *)
(* of them, the others stay as they began.                                   *)
EXTENDS Verdicts, DealScores, Valuation, Explanations, TLC

CONSTANTS h1, u1, u2, u3

\* Beside the whole, a portfolio that holds nothing.
Empty == {{}}

Interchangeable == Permutations(Analysts) \cup Permutations({u2, u3})

\* Offers around a fair value of 20000, on both sides of each threshold of the
\* discount and of the return after fees.
BuyOffers == [asking |-> {0, 11000, 15100, 16500, 17300, 18100, 19100, 20100, 22500},
              shipping |-> {0, 1500}, fair |-> {None, 20000, 23000},
              low |-> {None, 16800}, high |-> {19500, 22300},
              listings |-> {0, 5, 20}, fee |-> {0, 13}, margin |-> {15}]

Holdings == [fair |-> {None, 20000}, cost |-> {None, 9000, 11100, 13500, 15600, 17000, 18000},
             target |-> {5, 90}, fee |-> {13},
             recent |-> {<<100>>, <<100, 100, 130>>, <<100, 100, 100>>, <<100, 100, 70>>},
             share |-> {None, 40}, supply |-> {0, 8, 20}, age |-> {2, 31}]

Lists(prices, sold) == [i \in DOMAIN prices |-> [price |-> prices[i], sold |-> i <= sold]]

\* One listing, three that agree beside an outlier, four that do not agree.
Answers == {Lists(<<60>>, 0), Lists(<<60, 60, 62, 140, 60>>, 2),
            Lists(<<50, 60, 76, 91>>, 4), Lists(<<110>>, 1)}

Submitted ==
    {[metric |-> "fair_market_value", value |-> 60, samples |-> 0],
     [metric |-> "fair_market_value", value |-> 90, samples |-> 9],
     [metric |-> "low", value |-> 150, samples |-> 4],
     [metric |-> "average", value |-> 0, samples |-> 1]}

NotAsked == asked = [goal |-> "none"] /\ answer = [verdict |-> "none"]

NotListed ==
    /\ listing = [cost |-> Unknown]
    /\ analysis = [scored |-> [score |-> Unknown], decision |-> "none"]
    /\ found = Unknown

VARIABLE exercised

CheckInit ==
    /\ ValueInit /\ ExplainInit
    /\ signals = [p \in Positions |-> "hold"]
    /\ \/ exercised = "verdicts" /\ AskInit /\ NotListed
       \/ exercised = "scores" /\ NotAsked /\ ScoreInit
       \/ exercised \in {"values", "explanations"} /\ NotAsked /\ NotListed

CheckNext ==
    /\ UNCHANGED exercised
    /\ \/ exercised = "verdicts" /\ AskNext
          /\ UNCHANGED <<scoreVars, valueVars, explainVars>>
       \/ exercised = "scores" /\ ScoreNext
          /\ UNCHANGED <<askVars, valueVars, explainVars>>
       \/ exercised = "values" /\ ValueNext
          /\ UNCHANGED <<askVars, scoreVars, explainVars>>
       \/ exercised = "explanations" /\ ExplainNext
          /\ UNCHANGED <<askVars, scoreVars, valueVars>>

CheckSpec ==
    CheckInit /\ [][CheckNext]_<<askVars, scoreVars, valueVars, explainVars, exercised>>
=============================================================================

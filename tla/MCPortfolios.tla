---------------------------- MODULE MCPortfolios ----------------------------
(* Portfolios for TLC, two portfolios with one holding each, beside the     *)
(* figures computed of portfolios, prices and listings: each behaviour      *)
(* exercises one of them, the others stay as they began.                    *)
EXTENDS Portfolios, PortfolioAnalytics, PriceAnalytics, ListingMatching, TLC

OneEach == 1 :> 1 @@ 2 :> 2
Interchangeable == Permutations(Requests)

\* Holdings with and without theme and value, one of them worth nothing.
Holding(theme, unit, quantity, stale, unsure) ==
    [theme |-> theme, unit |-> unit, quantity |-> quantity, stale |-> stale, unsure |-> unsure]

Owned ==
    {Holding("space", 7, 1, FALSE, TRUE), Holding("space", 3, 2, TRUE, FALSE),
     Holding(Nothing, 12, 1, FALSE, FALSE), Holding("city", Nothing, 2, TRUE, FALSE),
     Holding("city", 0, 1, FALSE, TRUE)}

\* Histories that begin at nothing, rise, stay, fall or are too short.
MarketOf(days, listings, sold, active) ==
    [days |-> days, listings |-> listings, sold |-> sold, active |-> active]

Evidences ==
    {MarketOf(<<<<0>>, <<10>>>>, 3, 0, 0), MarketOf(<<<<10, 12>>, <<11>>>>, 2, 3, 1),
     MarketOf(<<<<10>>>>, 4, 1, 4), MarketOf(<<<<10>>, <<3>>, <<14, 12>>>>, 3, 1, 2),
     MarketOf(<<<<10>>, <<9>>>>, 3, 4, 5)}

\* Two sets with names that overlap, and one with a short number.
FalconName == {"millennium", "falcon"}

Sets ==
    {[number |-> 75192, name |-> FalconName], [number |-> 4002, name |-> FalconName \cup {"microfighter"}],
     [number |-> 928, name |-> {"galaxy", "explorer"}]}

Offer(mentions, words, several, excluded, text, price, delivery, shipping, state) ==
    [mentions |-> {[number |-> m[1], form |-> m[2]] : m \in mentions}, words |-> words,
     several |-> several, excluded |-> excluded, text |-> text, price |-> price,
     delivery |-> delivery, shipping |-> shipping, state |-> state, linked |-> TRUE]

Ads ==
    {Offer({<<75192, "plain">>}, FalconName, FALSE, {}, {"sealed"}, 900, "free", NoAmount, "new"),
     Offer({<<75192, "plain">>, <<4002, "count">>}, FalconName, FALSE, {}, {"complete"}, 700, "charged", 10, "used"),
     Offer({<<75192, "plain">>, <<4002, "labelled">>}, {}, FALSE, {}, {"sealed"}, 500, "unstated", NoAmount, ""),
     Offer({<<75192, "plain">>, <<928, "labelled">>}, {}, TRUE, {}, {}, 800, "charged", 0, "used"),
     Offer({<<928, "short">>}, {"galaxy", "explorer"}, FALSE, {}, {"complete", "missing"}, 200, "charged", 5, "used"),
     Offer({}, FalconName \cup {"microfighter"}, FALSE, {}, {}, 30, "charged", 5, "open box"),
     Offer({<<75192, "plain">>}, FalconName, FALSE, {"box_only"}, {}, 60, "free", 0, "used"),
     Offer({<<4002, "plain">>}, FalconName, FALSE, {}, {}, NoAmount, "charged", 0, "new")}

Known == [msrp |-> 100, complete |-> TRUE, flagged |-> FALSE]

VARIABLE exercised

CheckInit ==
    /\ Init /\ AnalyticsInit /\ HistoryInit /\ MatchingInit
    /\ exercised \in {"portfolios", "analytics", "history", "matching"}
    /\ exercised # "analytics" => evidence = CHOOSE e \in Markets : TRUE

CheckNext ==
    /\ UNCHANGED exercised
    /\ \/ exercised = "portfolios" /\ Next
          /\ UNCHANGED <<analyticsVars, historyVars, matchingVars>>
       \/ exercised = "analytics" /\ AnalyticsNext
          /\ UNCHANGED <<vars, historyVars, matchingVars>>
       \/ exercised = "history" /\ HistoryNext
          /\ UNCHANGED <<vars, analyticsVars, matchingVars>>
       \/ exercised = "matching" /\ MatchingNext
          /\ UNCHANGED <<vars, analyticsVars, historyVars>>

CheckSpec ==
    CheckInit /\ [][CheckNext]_<<vars, analyticsVars, historyVars, matchingVars, exercised>>
=============================================================================

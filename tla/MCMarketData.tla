---------------------------- MODULE MCMarketData ----------------------------
(* MarketplaceRefresh, PartPurchases, HistoryRollups, RateLimits and         *)
(* ListingIntake for TLC: each behaviour exercises one of them, the others   *)
(* stay as they began.                                                       *)
EXTENDS MCMarketplaceRefresh, PartPurchases, HistoryRollups, RateLimits, ListingIntake

CONSTANTS c1, c2

\* A client's limit lasts longer than those of its routes.
Quotas == [p \in Policies |-> IF p = "api-client" THEN 2 ELSE 1]
Spans == [p \in Policies |-> IF p = "api-client" THEN 2 ELSE 1]
Placed == c1 :> web @@ c2 :> worker

\* Two lines, the second in a colour the first may be replaced with.
ElementsOfLines == "la" :> "red" @@ "lb" :> "blue"
OnePart == [e \in {"red", "blue"} |-> "brick"]
NeededOfLines == "la" :> 2 @@ "lb" :> 1
Fewer == {-2}
Prices == "red" :> Absent @@ "blue" :> 3

\* A short address that leads to a listing, one that leads away, and others.
Says(site, next) == [public |-> TRUE, site |-> site, number |-> "n", leadsTo |-> next]
AddressBook ==
    "short" :> Says("short", "item") @@ "away" :> Says("short", "other")
    @@ "item" :> Says("ebay", Nowhere) @@ "lot" :> Says("bricklink", Nowhere)
    @@ "other" :> Says("elsewhere", Nowhere)
Entered == {[price |-> 2, status |-> "active"], [price |-> 1, status |-> "removed"]}

VARIABLE exercised

NoOrders == orders = [l \in Lines |-> Absent]

CheckInit ==
    /\ Init /\ PurchaseInit /\ RollupInit /\ LimitsInit /\ IntakeInit
    /\ \/ exercised = "refresh" /\ NoOrders /\ kind = "prices"
       \/ exercised = "parts" /\ ~valued /\ kind = "prices"
       \/ exercised \in {"history", "limits"} /\ ~valued /\ NoOrders
       \/ exercised = "intake" /\ ~valued /\ NoOrders /\ kind = "prices"
    /\ exercised # "intake" => \A s \in Subjects : truth[s] # Nowhere

CheckNext ==
    /\ UNCHANGED exercised
    /\ \/ /\ exercised = "refresh" /\ Next
          /\ UNCHANGED <<purchaseVars, rollupVars, limitVars, intakeVars>>
       \/ /\ exercised = "parts" /\ PurchaseNext
          /\ UNCHANGED <<vars, rollupVars, limitVars, intakeVars>>
       \/ /\ exercised = "history" /\ RollupNext
          /\ UNCHANGED <<vars, purchaseVars, limitVars, intakeVars>>
       \/ /\ exercised = "limits" /\ LimitsNext
          /\ UNCHANGED <<vars, purchaseVars, rollupVars, intakeVars>>
       \/ /\ exercised = "intake" /\ IntakeNext
          /\ UNCHANGED <<vars, purchaseVars, rollupVars, limitVars>>

CheckSpec ==
    /\ CheckInit
    /\ [][CheckNext]_<<vars, purchaseVars, rollupVars, limitVars, intakeVars, exercised>>
=============================================================================

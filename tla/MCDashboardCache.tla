-------------------------- MODULE MCDashboardCache --------------------------
(* DashboardCache and HoldingLedger for TLC, side by side: each behaviour   *)
(* exercises one of them, the other stays as it began.                      *)
EXTENDS DashboardCache, HoldingLedger, TLC

CONSTANTS k1, k2, u1

\* One user with two dashboards.
TwoOfOne == k1 :> u1 @@ k2 :> u1

\* Two sets of the catalog, and files that repeat a purchase, name another portfolio,
\* name a set outside of the catalog or hold a bad row.
Bought(number, condition, quantity, price, note) ==
    [number |-> number, condition |-> condition, quantity |-> quantity, price |-> price, note |-> note]

PurchasesMade ==
    {Bought("10307", "new", 1, 100, "a"), Bought("10307", "used", 2, 150, "a"),
     Bought("21333", "unknown", 1, 0, "b")}

CsvRow(folio, fine, bought) == [folio |-> folio, fine |-> fine] @@ bought

FilesSent ==
    LET new == CsvRow("theirs", TRUE, Bought("10307", "new", 1, 100, "a"))
        more == CsvRow("theirs", TRUE, Bought("10307", "new", 2, 100, "a"))
        dear == CsvRow("theirs", TRUE, Bought("10307", "new", 1, 150, "a"))
    IN  {<<>>, <<new, dear, more>>, <<new, CsvRow("ours", TRUE, Bought("21333", "used", 1, 70, "a"))>>,
         <<dear, CsvRow("theirs", TRUE, Bought("4002", "new", 1, 70, "a"))>>,
         <<CsvRow("theirs", FALSE, Bought("10307", "new", 1, 70, "a"))>>}

MarketOf(new, used, any, other) ==
    [n \in {"10307", "21333"} |->
        IF n = "10307" THEN [new |-> new, used_complete |-> used, any |-> any]
        ELSE [new |-> other, used_complete |-> NoQuote, any |-> other]]
QuietMarket == MarketOf(NoQuote, NoQuote, NoQuote, NoQuote)
QuotesSeen == {MarketOf(100, 70, 80, NoQuote), MarketOf(NoQuote, 200, 150, 400), QuietMarket}

VARIABLE exercised

CheckInit ==
    /\ Init /\ LedgerInit
    /\ \/ exercised = "cache" /\ quotes = QuietMarket
       \/ exercised = "ledger" /\ \A r \in Requests : key[r] = k1

CheckNext ==
    /\ UNCHANGED exercised
    /\ \/ exercised = "cache" /\ Next /\ UNCHANGED ledgerVars
       \/ exercised = "ledger" /\ LedgerNext /\ UNCHANGED vars

\* FairSpec's fairness, of the behaviours that exercise the cache.
CheckSpec ==
    /\ CheckInit /\ [][CheckNext]_<<vars, ledgerVars, exercised>>
    /\ \A r \in Requests : WF_vars(exercised = "cache" /\ Run(r))
=============================================================================

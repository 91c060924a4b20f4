------------------------ MODULE MCMarketplaceRefresh ------------------------
(* MarketplaceRefresh for TLC: two sets of one user, two marketplaces. *)
EXTENDS MarketplaceRefresh, TLC

CONSTANTS s1, s2, la, lb, lc, ebay, bricklink, r1, r2, r3, web, worker

ListedSets == la :> s1 @@ lb :> s2 @@ lc :> s2
ListedBy == la :> ebay @@ lb :> ebay @@ lc :> bricklink

\* A deal refresh, an update of one set and a watchlist job in another process.
Mixed == r1 :> <<s1, s2>> @@ r2 :> <<s2>> @@ r3 :> <<s2, s1>>
TwoProcesses == r1 :> web @@ r2 :> web @@ r3 :> worker

\* A deal refresh and an update of one set in the same process.
Pair == r1 :> <<s1, s2>> @@ r2 :> <<s2>>
OneProcess == r1 :> web @@ r2 :> web
=============================================================================

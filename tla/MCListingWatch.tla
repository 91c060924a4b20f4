--------------------------- MODULE MCListingWatch ---------------------------
(* ListingWatch for TLC, with model values for the refreshes; and, in other *)
(* behaviours, the entries and the inbox of a user, the search for deals,   *)
(* the saved searches or the catalogs.                                      *)
EXTENDS ListingWatch, WatchEntries, DealCache, SavedSearches, CatalogHydration, TLC

CONSTANTS q1, q2, q3

Interchangeable == Permutations(Batches)

TwoSizes == 25 :> {"s1"} @@ 50 :> {"s1"}
SpelledTwoWays == "s1" :> "s1" @@ " s1" :> "s1"

Questions == q1 :> <<25, All>> @@ q2 :> <<50, " s1">> @@ q3 :> <<25, All>>

\* One category, and no number that is part of another.
OneCategory == [m \in Molds |-> "bricks"]
Unlike == [k \in Numbers \cup Molds |-> {}]

VARIABLE exercised

NoCatalog == \A n \in Numbers : catalog[n] = "absent"
NoOffer == target = 0 /\ row.price = 1

CheckInit ==
    /\ Init /\ WatchInit /\ SearchInit /\ SavedInit /\ CatalogInit
    /\ \/ exercised = "watch" /\ Present = {} /\ NoCatalog
       \/ exercised = "entries" /\ Present = {} /\ NoOffer /\ NoCatalog
       \/ exercised = "deals" /\ Present = {} /\ NoOffer /\ NoCatalog
       \/ exercised = "saved" /\ NoOffer /\ NoCatalog
       \/ exercised = "catalog" /\ Present = {} /\ NoOffer

\* The checks and the inbox are exercised apart: an inbox of a user whose entries are
\* checked by jobs only, and whose listing does not change.
Apart ==
    \/ inApp /\ notices = << >>
    \/ Underway = {} /\ lastManual = NotYet /\ hour = 0
       /\ \A l \in Listings : goods[l] = [price |-> Min(Costs), status |-> "active"]

CheckNext ==
    /\ UNCHANGED exercised
    /\ \/ exercised = "watch" /\ Next /\ UNCHANGED <<watchVars, dealVars, savedVars, catalogVars>>
       \/ exercised = "entries" /\ WatchNext /\ UNCHANGED <<vars, dealVars, savedVars, catalogVars>>
       \/ exercised = "deals" /\ SearchNext /\ UNCHANGED <<vars, watchVars, savedVars, catalogVars>>
       \/ exercised = "saved" /\ SavedNext /\ UNCHANGED <<vars, watchVars, dealVars, catalogVars>>
       \/ exercised = "catalog" /\ CatalogNext /\ UNCHANGED <<vars, watchVars, dealVars, savedVars>>

CheckSpec ==
    CheckInit /\ [][CheckNext]_<<vars, watchVars, dealVars, savedVars, catalogVars, exercised>>
=============================================================================

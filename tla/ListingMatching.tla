-------------------------- MODULE ListingMatching --------------------------
(***************************************************************************)
(* Which listings of a marketplace count for which set: the records of a   *)
(* provider (services/listing_normalizer.py), their titles                 *)
(* (product_matching_engine.py) and what a refresh prices with them        *)
(* (marketplace_service.py).                                               *)
(*                                                                         *)
(* A title is what the patterns of the engine find in it: the numbers it   *)
(* mentions and in which form, its keywords, the words that tell a lot of  *)
(* several sets and the words that rule it out.                            *)
(***************************************************************************)
EXTENDS Rounding, FiniteSets, FiniteSetsExt

CONSTANTS
    Products,       \* sets of the catalog: [number, name], a name is its keywords
    Offers,         \* what providers list: [mentions, words, several, excluded,
                    \* text, price, delivery, shipping, state, linked], text are
                    \* words of the title and the condition
    NoAmount        \* no price, or one that cannot be read

\* How a number stands in a title: behind a label, alone with at least four
\* digits, as a count or year, alone with fewer digits or with letters.
Forms == {"labelled", "plain", "count", "short"}

\* What a provider says of shipping: an amount, that it is free, or nothing.
Deliveries == {"charged", "free", "unstated"}

ASSUME MatchingConstants ==
    /\ \A o \in Offers :
           /\ \A n \in o.mentions : n.form \in Forms
           /\ o.delivery \in Deliveries
           /\ {o.price, o.shipping} \subseteq Int \cup {NoAmount}
           /\ IsFiniteSet(o.mentions)
    /\ \A p \in Products : IsFiniteSet(p.name)
    /\ \A p, q \in Products : p.number = q.number => p = q

VARIABLES
    listed,         \* what the market offers
    pricedWith         \* of each set, the listings its last refresh has priced it with

matchingVars == <<listed, pricedWith>>

-----------------------------------------------------------------------------
(* Titles. *)

\* extract_candidate_set_numbers.
Candidates(o) == {n.number : n \in {n \in o.mentions : n.form \in {"labelled", "plain"}}}

\* _contains_exact_set_number looks for the number itself, in any form.
Mentions(o, number) == \E n \in o.mentions : n.number = number

\* Mutant of Exclusions: only what is called a lot counts as one.
LotsOnly(o) ==
    o.excluded \cup (IF Cardinality(Candidates(o)) > 1 /\ o.several THEN {"multi_set_lot"} ELSE {})

\* detect_listing_exclusions.
Exclusions(o) ==
    o.excluded \cup
        (IF Cardinality(Candidates(o)) <= 1 THEN {}
         ELSE IF o.several THEN {"multi_set_lot"} ELSE {"ambiguous_set_numbers"})

\* The keywords of the name, if at least two and three quarters of them are there.
NameConfidence(o, p) ==
    LET common == Cardinality(o.words \cap p.name)  all == Cardinality(p.name)
    IN  IF common >= 2 /\ 4 * common >= 3 * all THEN HalfEven(80 * common, all) ELSE 0

\* match_listing_to_set.
Confidence(o, p) ==
    IF Exclusions(o) # {} THEN 0
    ELSE IF Mentions(o, p.number) THEN 100
    ELSE IF Candidates(o) # {} THEN 0
    ELSE NameConfidence(o, p)

\* find_catalog_match: one set, by its number before its name; two are none.
Found(o) ==
    LET exact == {p \in Products : Exclusions(o) = {} /\ Mentions(o, p.number)}
        matches == {p \in Products : Confidence(o, p) > 0}
        best == IF exact # {} THEN exact ELSE matches
    IN  IF Cardinality(best) = 1 THEN best ELSE {}

-----------------------------------------------------------------------------
(* Records. *)

\* _first_present and _to_shipping_money: what is free, or not stated, costs nothing.
Shipping(o) == IF o.delivery = "charged" THEN o.shipping ELSE 0

\* _build_listing: a record without a price, a title or an address is dropped.
Usable(o) ==
    /\ o.linked
    /\ \A amount \in {o.price, Shipping(o)} : amount # NoAmount /\ amount >= 0

\* _is_complete reads the words that deny it before the one that says it.
Complete(o) ==
    IF o.text \cap {"incomplete", "missing", "no minifig", "without minifig"} # {} THEN "no"
    ELSE IF "complete" \in o.text THEN "yes" ELSE "unknown"

Condition(o) ==
    IF o.state \in {"new", "sealed", "new in box"} THEN "new"
    ELSE IF o.state \in {"used", "pre-owned", "open box", "complete"} THEN "used" ELSE "unknown"

Normalized(o) ==
    [offer |-> o, cost |-> o.price + Shipping(o), condition |-> Condition(o),
     complete |-> Complete(o), sealed |-> o.text \cap {"sealed", "nisb", "new in box"} # {}]

-----------------------------------------------------------------------------
(* Refreshes. *)

AutomatedPricingMinConfidence == 90

\* What a refresh of a set keeps of the market for its valuation.
Priced(p) ==
    {Normalized(o) : o \in {o \in listed : Usable(o) /\ Confidence(o, p) >= AutomatedPricingMinConfidence}}

MatchingInit ==
    /\ listed = {}
    /\ pricedWith = [p \in Products |-> {}]

Appear(o) == o \notin listed /\ listed' = listed \cup {o} /\ UNCHANGED pricedWith
Vanish(o) == o \in listed /\ listed' = listed \ {o} /\ UNCHANGED pricedWith

RefreshSet(p) == pricedWith' = [pricedWith EXCEPT ![p] = Priced(p)] /\ UNCHANGED listed

MatchingNext ==
    \/ \E o \in Offers : Appear(o) \/ Vanish(o)
    \/ \E p \in Products : RefreshSet(p)

MatchingSpec == MatchingInit /\ [][MatchingNext]_matchingVars

-----------------------------------------------------------------------------
(* Properties. *)

\* product_matching_engine.py:227-229: "Conservative rejection avoids pricing one set
\* from a bundle or a title containing a misleading second identifier."  One
\* listing prices two sets only if the engine takes a number of one of them for no
\* identifier: a count, a year, or fewer than four digits without a label.  And it
\* is found in the catalog for no other set.
OneSetIsPriced ==
    \A p \in Products : \A n \in pricedWith[p] :
        /\ \A q \in Products \ {p} :
               n.offer \in {m.offer : m \in pricedWith[q]} =>
                   \E k \in {p.number, q.number} : k \notin Candidates(n.offer)
        /\ Found(n.offer) \subseteq {p}
=============================================================================

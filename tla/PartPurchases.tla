--------------------------- MODULE PartPurchases ---------------------------
(***************************************************************************)
(* The parts a user owns, the checklist of what a set still needs, and the *)
(* orders for the missing parts.  services/inventory_service.py and        *)
(* domain/models/inventory.py; one user, one set.                          *)
(*                                                                         *)
(* A request reads rows, changes its copies and commits once: the session  *)
(* does not flush before (autoflush is off).  The commit writes only the   *)
(* columns whose value differs from the one that was read, and fails as a  *)
(* whole when a row it inserts is there by then.                           *)
(***************************************************************************)
EXTENDS Rounding, FiniteSets, FiniteSetsExt

CONSTANTS
    Lines,          \* the requirements of the set
    Elements,       \* parts in a colour
    ElementOf,      \* the element each requirement names
    PartOf,         \* the part of each element, whatever its colour
    Needed,         \* the quantity each requirement names
    MarketPrice,    \* of each element, or Absent
    SetValue,       \* the latest fair value of the completed set, or Absent
    Paid,           \* the purchase price of the newest holding of the set, or Absent
    Buyers,         \* requests
    Quantities, Corrections, Costs,     \* bounds: what a user enters
    Absent

StockRows == [quantity : Nat]
AdjustmentRows == [manual : Int, substitute : Elements \cup {Absent}]
OrderRows == [element : Elements, quantity : Nat, estimate : Nat, actual : Costs \cup {Absent},
              purchased : BOOLEAN]

ASSUME PurchaseConstants ==
    /\ IsFiniteSet(Lines) /\ ElementOf \in [Lines -> Elements]
    /\ Needed \in [Lines -> Nat \ {0}]
    /\ MarketPrice \in [Elements -> Nat \cup {Absent}]
    /\ SetValue \in Nat \cup {Absent} /\ Paid \in Nat \cup {Absent}
    /\ Quantities \subseteq Nat /\ Corrections \subseteq Int
    /\ Absent \notin StockRows \cup AdjustmentRows \cup OrderRows

VARIABLES
    stock,          \* inventory_items
    adjusted,       \* checklist_adjustments
    orders,         \* replacement_purchase_items
    doing,          \* what each request does, and how far it is
    missing,        \* the checklist an order request works from
    loaded, edited, \* the rows a request has read, and its copies of them
    bought          \* history: each order as it was when it was marked purchased

purchaseVars == <<stock, adjusted, orders, doing, missing, loaded, edited, bought>>

-----------------------------------------------------------------------------
Positive(n) == IF n > 0 THEN n ELSE 0

Wanted(l) ==
    Positive(Needed[l] + IF adjusted[l] = Absent THEN 0 ELSE adjusted[l].manual)

\* The element a line draws on: any element may be named as the substitute,
\* the candidates of the answer are only a suggestion.
DrawnFrom(l) ==
    IF adjusted[l] = Absent \/ adjusted[l].substitute = Absent
    THEN ElementOf[l] ELSE adjusted[l].substitute

Candidates(l) == {e \in Elements \ {ElementOf[l]} : PartOf[e] = PartOf[ElementOf[l]]}

OwnedOf(l) == IF stock[DrawnFrom(l)] = Absent THEN 0 ELSE stock[DrawnFrom(l)].quantity

Price(e) == IF MarketPrice[e] = Absent THEN 0 ELSE MarketPrice[e]

Line(l) == [missing |-> Positive(Wanted(l) - OwnedOf(l)), element |-> DrawnFrom(l),
            estimate |-> Price(DrawnFrom(l))]

Present(l) == Wanted(l) - Line(l).missing

\* Completeness in tenths of a percent.
Completeness ==
    LET required == MapThenSumSet(Wanted, Lines)
    IN IF required = 0 THEN 0 ELSE HalfUp(1000 * MapThenSumSet(Present, Lines), required)

ReplacementCost ==
    LET cost(l) == Line(l).missing * Line(l).estimate IN MapThenSumSet(cost, Lines)

AdjustedValue == IF SetValue = Absent THEN Absent ELSE HalfUp(SetValue * Completeness, 1000)

NetValue == IF Absent \in {SetValue, Paid} THEN Absent ELSE SetValue - ReplacementCost - Paid

Checklist == [l \in Lines |-> Line(l)]
-----------------------------------------------------------------------------
None == [x \in {} |-> Absent]

\* An order an earlier request has left.
OpenOrder(l) == [element |-> ElementOf[l], quantity |-> Needed[l],
                 estimate |-> Price(ElementOf[l]), actual |-> Absent, purchased |-> FALSE]

PurchaseInit ==
    /\ stock = [e \in Elements |-> Absent]
    /\ adjusted = [l \in Lines |-> Absent]
    /\ orders \in {[l \in Lines |-> Absent], [l \in Lines |-> OpenOrder(l)]}
    /\ doing = [b \in Buyers |-> [kind |-> "none", at |-> "new"]]
    /\ missing = [b \in Buyers |-> None]
    /\ loaded = [b \in Buyers |-> None] /\ edited = [b \in Buyers |-> None]
    /\ bought = orders

Begin(b, kind) ==
    /\ doing[b].at = "new"
    /\ doing' = [doing EXCEPT ![b] = [kind |-> kind, at |-> "open"]]
    /\ UNCHANGED <<stock, adjusted, orders, bought>>

Extended(f, k, v) == [x \in DOMAIN f \cup {k} |-> IF x = k THEN v ELSE f[x]]

\* Request b has read the row with key k and wants it to be new.
Edit(b, k, row, new) ==
    /\ loaded' = [loaded EXCEPT ![b] = Extended(@, k, row)]
    /\ edited' = [edited EXCEPT ![b] = Extended(@, k, new)]

SetQuantity(b) == \E e \in Elements, q \in Quantities :
    /\ Begin(b, "stock")
    /\ Edit(b, e, stock[e], [quantity |-> q])
    /\ UNCHANGED missing

UpdateAdjustment(b) == \E l \in Lines, n \in Corrections, s \in Elements \cup {Absent} :
    /\ Begin(b, "adjust")
    /\ Edit(b, l, adjusted[l], [manual |-> n, substitute |-> s])
    /\ UNCHANGED missing

UpdatePurchase(b) == \E l \in Lines, p \in BOOLEAN, c \in Costs \cup {Absent} :
    /\ Begin(b, "purchase")
    /\ orders[l] # Absent
    /\ Edit(b, l, orders[l], [orders[l] EXCEPT !.purchased = p, !.actual = c])
    /\ UNCHANGED missing

\* The checklist an order is made from ...
AddMissing(b) ==
    /\ Begin(b, "order")
    /\ missing' = [missing EXCEPT ![b] = Checklist]
    /\ UNCHANGED <<loaded, edited>>

Lacking(b) == {l \in DOMAIN missing[b] : missing[b][l].missing > 0}

RefreshedAnyway(row, line) ==
    IF row = Absent
    THEN [element |-> line.element, quantity |-> line.missing, estimate |-> line.estimate,
          actual |-> Absent, purchased |-> FALSE]
    ELSE [row EXCEPT !.element = line.element, !.quantity = line.missing,
                     !.estimate = line.estimate]

Refreshed(row, line) ==
    IF row = Absent
    THEN [element |-> line.element, quantity |-> line.missing, estimate |-> line.estimate,
          actual |-> Absent, purchased |-> FALSE]
    ELSE IF row.purchased THEN row
    ELSE [row EXCEPT !.element = line.element, !.quantity = line.missing,
                     !.estimate = line.estimate]

\* ... and its lines, looked up one by one in an order the query leaves open.
LookUpOrder(b) == \E l \in Lacking(b) \ DOMAIN loaded[b] :
    /\ Edit(b, l, orders[l], Refreshed(orders[l], missing[b][l]))
    /\ UNCHANGED <<stock, adjusted, orders, doing, missing, bought>>
-----------------------------------------------------------------------------
Merged(row, read, new) ==
    IF read = Absent THEN new
    ELSE [c \in DOMAIN new |-> IF new[c] = read[c] THEN row[c] ELSE new[c]]

Stored(b, table) ==
    [k \in DOMAIN table |-> IF k \in DOMAIN edited[b]
                            THEN Merged(table[k], loaded[b][k], edited[b][k]) ELSE table[k]]

\* A row b inserts has been inserted by another request since b looked for it.
Clash(b, table) == \E k \in DOMAIN edited[b] : loaded[b][k] = Absent /\ table[k] # Absent

Write(b, table) ==
    IF Clash(b, table)
    THEN doing' = [doing EXCEPT ![b].at = "failed"] /\ table' = table
    ELSE doing' = [doing EXCEPT ![b].at = "done"] /\ table' = Stored(b, table)

CommitParts(b) ==
    /\ doing[b].at = "open"
    /\ Lacking(b) \subseteq DOMAIN loaded[b]
    /\ CASE doing[b].kind = "stock" -> Write(b, stock) /\ UNCHANGED <<adjusted, orders>>
         [] doing[b].kind = "adjust" -> Write(b, adjusted) /\ UNCHANGED <<stock, orders>>
         [] OTHER -> Write(b, orders) /\ UNCHANGED <<stock, adjusted>>
    /\ bought' = [l \in Lines |->
                    IF orders[l] # Absent /\ ~orders[l].purchased /\ orders'[l].purchased
                    THEN orders'[l] ELSE bought[l]]
    /\ UNCHANGED <<missing, loaded, edited>>

PurchaseNext == \E b \in Buyers :
    \/ SetQuantity(b)
    \/ UpdateAdjustment(b)
    \/ UpdatePurchase(b)
    \/ AddMissing(b)
    \/ LookUpOrder(b)
    \/ CommitParts(b)

PurchaseSpec == PurchaseInit /\ [][PurchaseNext]_purchaseVars
-----------------------------------------------------------------------------
Ordered(b) == doing[b] = [kind |-> "order", at |-> "done"]

\* What was bought stays on record: an order that is marked purchased still
\* names the element and the quantity it had when it was marked, unless an
\* order request that had read it before, as not yet purchased, has finished.
BoughtOrdersAreKept == \A l \in Lines :
    orders[l] # Absent /\ orders[l].purchased =>
        \/ \A c \in {"element", "quantity", "estimate"} : orders[l][c] = bought[l][c]
        \/ \E b \in Buyers : Ordered(b) /\ l \in DOMAIN loaded[b]
                             /\ loaded[b][l] # Absent /\ ~loaded[b][l].purchased

\* An order request that succeeds leaves nothing out: every line its checklist
\* found short has an order, whoever made it, also when requests overlap.
OrdersAreComplete == \A b \in Buyers :
    Ordered(b) => \A l \in Lacking(b) : orders[l] # Absent

\* A set counts as complete, and is valued in full, exactly when every line has
\* enough: what one line has too many of never makes up for another that lacks.
\* The percentage is rounded to a tenth: of 2000 parts one may lack.
CompleteMeansEnough ==
    /\ MapThenSumSet(Wanted, Lines) < 2000 =>
           (Completeness >= 1000 <=> /\ \E l \in Lines : Wanted(l) > 0
                                     /\ \A l \in Lines : OwnedOf(l) >= Wanted(l))
    /\ Absent \notin {SetValue, Paid} =>
        AdjustedValue <= SetValue /\ NetValue <= SetValue - Paid

\* The purchase list holds whatever is missing and keeps what was bought, in
\* whatever order requests on the parts and on the orders overlap, and nothing
\* is missing when a set of less than 2000 parts counts as complete.
PurchasesAddUp == BoughtOrdersAreKept /\ OrdersAreComplete /\ CompleteMeansEnough
=============================================================================

---------------------------- MODULE HoldingLedger ----------------------------
(***************************************************************************)
(* What a user has bought and what the pages of the portfolio say about    *)
(* it: the import and export of files, the list, the dashboard, the        *)
(* summary and the page of one holding (services/portfolio_service.py,     *)
(* domain/engines/portfolio_valuation.py).  Requests do not overlap here:  *)
(* that is what Portfolios and DashboardCache are about.                   *)
(*                                                                         *)
(* Amounts are integers of cents, percentages of hundredths.  The order of *)
(* holdings written together is up to the database: orders are relations.  *)
(***************************************************************************)
EXTENDS Rounding, Sequences, FiniteSetsExt, SequencesExt

CONSTANTS
    Numbers,        \* sets of the catalog
    Names, Notes,   \* of portfolios, and what is written beside a purchase
    Purchases,      \* what may be bought
    CsvFiles,       \* files of rows [folio, fine] and the fields of a purchase
    Quotes,         \* markets: of each set and condition, a unit value or NoQuote
    NoQuote,
    MaxFolios, MaxHeld, MaxWrites   \* bounds: portfolios, holdings, changes

Conditions == {"new", "sealed", "used", "unknown"}

\* A purchase as a form or a row of a file that is fine can have it.
Things ==
    [number : Numbers, condition : Conditions, quantity : Nat \ {0}, price : Nat, note : Notes]

Purchase(row) ==
    [number |-> row.number, condition |-> row.condition, quantity |-> row.quantity,
     price |-> row.price, note |-> row.note]

ASSUME LedgerConstants ==
    /\ Purchases \subseteq Things
    /\ \A file \in CsvFiles :
           /\ Len(file) \in Nat /\ DOMAIN file = 1..Len(file)
           /\ \A i \in DOMAIN file :
                  /\ file[i].folio \in Names
                  /\ file[i].fine /\ file[i].number \in Numbers => Purchase(file[i]) \in Things
    /\ \A market \in Quotes, n \in Numbers, class \in {"new", "used_complete", "any"} :
           market[n][class] \in Nat \cup {NoQuote}
    /\ "mine" \in Names /\ NoQuote \notin Int
    /\ {MaxFolios, MaxHeld, MaxWrites} \subseteq Nat

VARIABLES
    folios,         \* the name of each portfolio
    book,           \* holdings: [id, folio, at, bought]
    quotes,
    writes,         \* how many changes there have been, the clock of created_at
    imported        \* the last import: [file, mode, folio, audit]

ledgerVars == <<folios, book, quotes, writes, imported>>

NoImport == [file |-> <<>>, mode |-> "none", folio |-> 0, audit |-> <<>>]

Summed(Of(_), S) == MapThenSumSet(Of, S)
Percentage(part, whole) == HalfUp(10000 * part, whole)

-----------------------------------------------------------------------------
(* The value of a holding. *)

\* _snapshot_condition: which prices are evidence for a condition.
ClassOf(condition) ==
    CASE condition \in {"new", "sealed"} -> "new"
      [] condition = "used" -> "used_complete"
      [] condition = "unknown" -> "any"

UnitValue(h) == quotes[h.bought.number][ClassOf(h.bought.condition)]
HasValue(h) == UnitValue(h) # NoQuote

\* calculate_holding_valuation.
Cost(h) == h.bought.quantity * h.bought.price
Worth(h) == h.bought.quantity * UnitValue(h)
Gain(h) == Worth(h) - Cost(h)
Valued(held) == {h \in held : HasValue(h)}
GainPercent(gain, cost) == IF cost > 0 THEN Percentage(gain, cost) ELSE NoQuote

\* Mutant of Totals: the gain is what the value is above everything paid.
TotalsOfAll(held) ==
    LET valued == Valued(held)
        gain == Summed(Worth, valued) - Summed(Cost, held)
    IN  [cost |-> Summed(Cost, held), worth |-> Summed(Worth, valued), gain |-> gain,
         percent |-> GainPercent(gain, Summed(Cost, valued))]

\* calculate_portfolio_totals: what has no value has no gain.
Totals(held) ==
    LET valued == Valued(held)
        gain == Summed(Worth, valued) - Summed(Cost, valued)
    IN  [cost |-> Summed(Cost, held), worth |-> Summed(Worth, valued), gain |-> gain,
         percent |-> GainPercent(gain, Summed(Cost, valued))]

\* calculate_portfolio_summary: a line for each set and condition.
LineOf(h) == <<h.bought.number, h.bought.condition>>

Lines(held) ==
    [k \in {LineOf(h) : h \in held} |->
        LET group == {h \in held : LineOf(h) = k}
            valued == Valued(group)
        IN  [quantity |-> Summed(LAMBDA h : h.bought.quantity, group), cost |-> Summed(Cost, group),
             valued |-> valued # {}, worth |-> Summed(Worth, valued),
             gain |-> Summed(Gain, valued)]]

-----------------------------------------------------------------------------
(* Lists. *)

Performances == {"any", "gain", "loss", "unvalued"}

Performs(h, performance) ==
    CASE performance = "any" -> TRUE
      [] performance = "gain" -> HasValue(h) /\ Gain(h) > 0
      [] performance = "loss" -> HasValue(h) /\ Gain(h) < 0
      [] performance = "unvalued" -> ~HasValue(h)

Orders == {"value_asc", "value_desc", "gain_asc", "gain_desc", "created_at_asc", "created_at_desc"}
Descends(order) == order \in {"value_desc", "gain_desc", "created_at_desc"}
ByTime(order) == order \in {"created_at_asc", "created_at_desc"}

\* What an order looks at; a missing value counts as nothing.
KeyIn(h, order) ==
    IF ByTime(order) THEN h.at
    ELSE IF ~HasValue(h) THEN 0
    ELSE IF order \in {"value_asc", "value_desc"} THEN Worth(h) ELSE Gain(h)

Sooner(g, h, order) ==
    IF Descends(order) THEN KeyIn(g, order) > KeyIn(h, order) ELSE KeyIn(g, order) < KeyIn(h, order)

\* Sorting is stable over the newest first, and the last sort counts most.
\* list_user_portfolio_page sorts by the key and then the missing values to the end.
ListedBefore(g, h, order) ==
    IF ~ByTime(order) /\ HasValue(g) # HasValue(h) THEN HasValue(g)
    ELSE IF KeyIn(g, order) = KeyIn(h, order) THEN g.at > h.at ELSE Sooner(g, h, order)

\* _filter_and_order_portfolio_responses does it the other way round.
ShownBefore(g, h, order) ==
    IF KeyIn(g, order) # KeyIn(h, order) THEN Sooner(g, h, order)
    ELSE IF ~ByTime(order) /\ HasValue(g) # HasValue(h) THEN HasValue(g) ELSE g.at > h.at

\* get_portfolio_holding_detail.
Share(h, held) ==
    IF HasValue(h) /\ Totals(held).worth > 0 THEN Percentage(Worth(h), Totals(held).worth) ELSE NoQuote

PlaceOf(h, held) == 1 + Cardinality({g \in held : HasValue(g) /\ Worth(g) > Worth(h)})

RiskOf(h, held) ==
    IF Share(h, held) = NoQuote THEN "low"
    ELSE IF Share(h, held) >= 4000 THEN "high"
    ELSE IF Share(h, held) >= 2000 THEN "moderate" ELSE "low"

-----------------------------------------------------------------------------
(* Files. *)

Modes == {"keep_separate", "merge", "reject"}

\* Mutant of SamePurchase: what was paid is not compared.
SameThing(a, b) == <<a.number, a.condition, a.note>> = <<b.number, b.condition, b.note>>

\* The duplicate key: all fields but the quantity.
SamePurchase(a, b) == [a EXCEPT !.quantity = 0] = [b EXCEPT !.quantity = 0]

\* One row after what precedes it: the rows so far, those merged, and whether the
\* file is refused.
ParseRow(file, mode, soFar, row) ==
    LET earlier == {i \in DOMAIN soFar.rows : SamePurchase(soFar.rows[i], Purchase(row))} IN
    IF \/ soFar.refused
       \/ ~row.fine \/ row.folio # file[1].folio \/ row.number \notin Numbers
       \/ mode = "reject" /\ earlier # {}
    THEN [soFar EXCEPT !.refused = TRUE]
    ELSE IF mode = "merge" /\ earlier # {}
    THEN [soFar EXCEPT !.rows[Min(earlier)].quantity = @ + row.quantity, !.merged = @ + 1]
    ELSE [soFar EXCEPT !.rows = Append(@, Purchase(row))]

\* _parse_portfolio_csv: in the order of the file, up to the first bad row.
Parsed(file, mode) ==
    FoldLeft(LAMBDA soFar, row : ParseRow(file, mode, soFar, row),
             [rows |-> <<>>, merged |-> 0, refused |-> file = <<>>], file)

\* export_portfolio_csv: a row for each holding.
ExportOf(folio) ==
    LET held == SetToSeq({h \in book : h.folio = folio})
    IN  [i \in DOMAIN held |->
            [folio |-> folios[folio], fine |-> TRUE, number |-> held[i].bought.number,
             condition |-> held[i].bought.condition, quantity |-> held[i].bought.quantity,
             price |-> held[i].bought.price, note |-> held[i].bought.note]]

-----------------------------------------------------------------------------
LedgerInit ==
    /\ folios = <<"mine">>
    /\ book = {}
    /\ quotes \in Quotes
    /\ writes = 0
    /\ imported = NoImport

Room(n) == writes < MaxWrites /\ Cardinality(book) + n <= MaxHeld
NextId == 1 + Max({0} \cup {h.id : h \in book})

BuyOne(folio, bought) ==
    /\ Room(1)
    /\ book' = book \cup {[id |-> NextId, folio |-> folio, at |-> writes, bought |-> bought]}
    /\ writes' = writes + 1 /\ UNCHANGED <<folios, quotes, imported>>

\* set_number, condition, quantity and price may be changed.
Amend(h, bought) ==
    /\ Room(0)
    /\ book' = (book \ {h}) \cup {[h EXCEPT !.bought = bought]}
    /\ writes' = writes + 1 /\ UNCHANGED <<folios, quotes, imported>>

Discard(h) ==
    /\ Room(0)
    /\ book' = book \ {h}
    /\ writes' = writes + 1 /\ UNCHANGED <<folios, quotes, imported>>

\* import_portfolio_csv: a portfolio of its own, all of it or nothing.
ImportFile(file, mode) ==
    LET parsed == Parsed(file, mode)
        new == Len(folios) + 1
        id == NextId
    IN  /\ ~parsed.refused /\ Room(Len(parsed.rows)) /\ new <= MaxFolios
        /\ folios' = Append(folios, file[1].folio)
        /\ book' = book \cup {[id |-> id + i, folio |-> new, at |-> writes, bought |-> parsed.rows[i]] :
                                 i \in DOMAIN parsed.rows}
        /\ imported' = [file |-> file, mode |-> mode, folio |-> new,
                        audit |-> <<Len(parsed.rows) + parsed.merged, Len(parsed.rows), parsed.merged>>]
        /\ writes' = writes + 1 /\ UNCHANGED quotes

\* A file that is refused changes nothing; the user learns of it.
Refuse(file, mode) ==
    /\ Parsed(file, mode).refused
    /\ imported' = [file |-> file, mode |-> "refused", folio |-> 0, audit |-> <<>>]
    /\ UNCHANGED <<folios, book, quotes, writes>>

Reprice(market) == quotes' = market /\ UNCHANGED <<folios, book, writes, imported>>

FilesAtHand == CsvFiles \cup {ExportOf(folio) : folio \in DOMAIN folios}

LedgerNext ==
    \/ \E folio \in DOMAIN folios, bought \in Purchases : BuyOne(folio, bought)
    \/ \E h \in book :
          \/ \E bought \in Purchases : Amend(h, bought)
          \/ Discard(h)
    \/ \E file \in FilesAtHand, mode \in Modes : ImportFile(file, mode) \/ Refuse(file, mode)
    \/ \E market \in Quotes : Reprice(market)

LedgerSpec == LedgerInit /\ [][LedgerNext]_ledgerVars

-----------------------------------------------------------------------------
(* Properties. *)

\* The pieces of a set, of some holdings and in a file, and what the file paid.
Pieces(held, n) == Summed(LAMBDA h : h.bought.quantity, {h \in held : h.bought.number = n})

PiecesIn(file, n) ==
    MapThenSumSet(LAMBDA i : IF file[i].number = n THEN file[i].quantity ELSE 0, DOMAIN file)

PaidIn(file) == MapThenSumSet(LAMBDA i : file[i].quantity * file[i].price, DOMAIN file)

\* What the import that was last says of its file is so.
FileIsRecorded ==
    LET new == {h \in book' : h.folio = Len(folios')}
        file == imported'.file
    IN  /\ book' \ new = book
        /\ \A n \in Numbers : Pieces(new, n) = PiecesIn(file, n)
        /\ Summed(Cost, new) = PaidIn(file)
        /\ imported'.audit[1] = Len(file)
        /\ \A folio \in DOMAIN folios :
              file = ExportOf(folio) /\ imported'.mode # "merge" =>
                  \A b \in Purchases :
                      Cardinality({h \in new : h.bought = b})
                          = Cardinality({h \in book : h.folio = folio /\ h.bought = b})

\* An import records what the file says: whichever rows are merged, the new
\* portfolio holds the pieces of the file at the prices paid for them, nothing else
\* changes, the audit counts every row, and an export comes back as it was
\* (docs/portfolio-csv-format.md:11).
ImportRecordsTheFile == [][folios' # folios => FileIsRecorded]_ledgerVars

\* The sum of a field of the lines of the summary.
OfLines(field) ==
    LET lines == Lines(book) IN Summed(LAMBDA k : lines[k][field], DOMAIN lines)

\* Totals are sums of lines, and gains only of what has a value.
SummaryAddsUp ==
    LET totals == Totals(book) IN
    /\ totals.cost = OfLines("cost") /\ totals.worth = OfLines("worth")
    /\ totals.gain = OfLines("gain") /\ totals.gain = Summed(Gain, Valued(book))

FiltersShowAll ==
    \A h \in book :
        Cardinality({p \in Performances \ {"any"} : Performs(h, p)})
            = IF HasValue(h) /\ Gain(h) = 0 THEN 0 ELSE 1

PagesHaveOneOrder ==
    \A g, h \in Valued(book), order \in Orders :
        ListedBefore(g, h, order) <=> ShownBefore(g, h, order)

SharesOf(held) == Summed(LAMBDA h : Share(h, book), held)

SharesAreOfTheWhole ==
    LET valued == Valued(book)
    IN  /\ Cardinality({h \in book : RiskOf(h, book) = "high"}) <= 2
        /\ Totals(book).worth > 0 =>
              /\ SharesOf(valued) - 10000 \in -Cardinality(valued)..Cardinality(valued)
              /\ \A g, h \in valued :
                    Share(g, book) > Share(h, book) => PlaceOf(g, book) < PlaceOf(h, book)

\* The pages agree.  Lines and totals of the summary add up to the holdings of the
\* list, with gains only of what has a value; a filter by performance leaves none
\* out but those without gain or loss; the list and the dashboard have one order as
\* long as every holding has a value; the shares are those of the whole, and at most
\* two holdings are a high risk.
PagesAgree == SummaryAddsUp /\ FiltersShowAll /\ PagesHaveOneOrder /\ SharesAreOfTheWhole
=============================================================================

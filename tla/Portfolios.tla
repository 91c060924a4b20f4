----------------------------- MODULE Portfolios -----------------------------
(***************************************************************************)
(* The portfolios of one user, the holdings in them, moving a watchlist    *)
(* entry into one, and the valuation that the first change of an hour      *)
(* records.  services/portfolio_service.py, move_watchlist_item_to_        *)
(* portfolio of services/watchlist_service.py, and the repository          *)
(* functions they call.                                                    *)
(*                                                                         *)
(* A request is one transaction under READ COMMITTED: what it has written  *)
(* is seen by itself only until it commits.  Its statements wait for the   *)
(* row locks of other open transactions: a changed or deleted row, the     *)
(* portfolio a new or moved holding refers to, the holding a recorded      *)
(* value refers to, the unique window of a valuation.  The reads before    *)
(* the first statement that writes are one step.                           *)
(***************************************************************************)
EXTENDS Integers, FiniteSets, Relation

CONSTANTS
    MaxFolio,       \* bound: portfolios that can ever exist
    MaxItem,        \* bound: holdings that can ever exist
    First,          \* the portfolio of each holding there is at the start
    Entries,        \* watchlist entries
    Requests,
    Limit           \* MAX_PORTFOLIOS_PER_USER

NoFolio == 0
Same == -1
Folios == 1..MaxFolio
Items == 1..MaxItem
OldFolios == {First[i] : i \in DOMAIN First}

ASSUME FirstIsPlacement ==
    DOMAIN First \subseteq Items /\ \A i \in DOMAIN First : First[i] \in Folios
ASSUME StartsWithinLimit == Cardinality(OldFolios) <= Limit
ASSUME LimitIsNatural == Limit \in Nat /\ MaxFolio \in Nat /\ MaxItem \in Nat

VARIABLES
    folio,      \* portfolios: absent, active, archived or deleted
    default,    \* those with is_default
    item,       \* the portfolio of each holding, or NoFolio
    watch,      \* the watchlist
    valued,     \* the valuation of this hour: none, or the holdings it counts
    pc, op,     \* how far each request is, and what it does
    target,     \* the portfolio it has found, NoFolio if it has to make one
    counted,    \* the holdings it has read for a valuation
    w,          \* what it has written and not committed
    was,        \* history: holdings that were ever committed
    crowded,    \* history: requests that overlapped another one
    raced       \* history: kinds of checks two requests made side by side

db == <<folio, default, item, watch, valued>>
history == <<was, crowded, raced>>
vars == <<folio, default, item, watch, valued, pc, op, target, counted, w,
          was, crowded, raced>>

NoWrites == [folio |-> [f \in Folios |-> "same"], default |-> {},
             item |-> [i \in Items |-> Same], unwatched |-> {}, valued |-> {}]
NoOp == [kind |-> "none", at |-> NoFolio, to |-> NoFolio, what |-> {}]

Ended == {"new", "done", "refused", "failed"}
Busy == {r \in Requests : pc[r] \notin Ended}

\* What the statements of a transaction see.
Folio(r) == [f \in Folios |-> IF w[r].folio[f] = "same" THEN folio[f] ELSE w[r].folio[f]]
Item(r) == [i \in Items |-> IF w[r].item[i] = Same THEN item[i] ELSE w[r].item[i]]
Live == {f \in Folios : folio[f] \in {"active", "archived"}}
Held(r, f) == {i \in Items : Item(r)[i] = f}

Init ==
    /\ folio = [f \in Folios |-> IF f \in OldFolios THEN "active" ELSE "absent"]
    /\ default \in {{}, {1} \cap OldFolios}
    /\ item = [i \in Items |-> IF i \in DOMAIN First THEN First[i] ELSE NoFolio]
    /\ watch = Entries
    /\ valued \in {{}, {DOMAIN First}}
    /\ pc = [r \in Requests |-> "new"]
    /\ op = [r \in Requests |-> NoOp]
    /\ target = [r \in Requests |-> NoFolio]
    /\ counted = [r \in Requests |-> {}]
    /\ w = [r \in Requests |-> NoWrites]
    /\ was = DOMAIN First
    /\ crowded = {} /\ raced = {}

-----------------------------------------------------------------------------
(* Requests arrive and make their checks. *)

\* Requests that make a portfolio, look for the default, or move the same entry.
Checks(o) ==
    (IF o.kind \in {"create", "import"} THEN {"limit"} ELSE {})
    \cup (IF o.kind \in {"list", "move"} \/ (o.kind = "add" /\ o.to = NoFolio)
          THEN {"default"} ELSE {})
    \cup (IF o.kind = "move" THEN {"move"} ELSE {})

\* Request r starts with operation o, passes its checks or is refused.
Start(r, o, passes, next) ==
    /\ pc[r] = "new"
    /\ op' = [op EXCEPT ![r] = IF passes THEN o ELSE NoOp]
    /\ pc' = [pc EXCEPT ![r] = IF passes THEN next ELSE "refused"]
    /\ crowded' = IF Busy = {} THEN crowded ELSE crowded \cup Busy \cup {r}
    /\ raced' = raced \cup {c \in Checks(o) : \E q \in Busy : c \in Checks(op[q])}
    /\ UNCHANGED <<counted, w, was>>
    /\ UNCHANGED db

\* Start with the look-up of the default portfolio, which raises if there are
\* two (scalar_one_or_none) and finds none if it has to be made.
StartDefault(r, o, passes, found) ==
    /\ Start(r, o, passes, IF Cardinality(default) > 1 THEN "failed"
                           ELSE IF default = {} THEN "write" ELSE found)
    /\ target' = [target EXCEPT ![r] = IF Cardinality(default) = 1
                                       THEN CHOOSE f \in default : TRUE ELSE NoFolio]

StartAt(r, o, passes, f) ==
    /\ Start(r, o, passes, "write")
    /\ target' = [target EXCEPT ![r] = IF passes THEN f ELSE NoFolio]

\* list_user_portfolios.
List(r) == StartDefault(r, [NoOp EXCEPT !.kind = "list"], TRUE, "done")

\* Mutant of UnderLimit: one portfolio too many.
UpToLimit == Cardinality(Live) <= Limit

\* count_portfolios_for_user, archived ones included.
UnderLimit == Cardinality(Live) < Limit

\* create_user_portfolio, and import_portfolio_csv with one holding.
Create(r) == StartAt(r, [NoOp EXCEPT !.kind = "create"], UnderLimit, NoFolio)
Import(r) == StartAt(r, [NoOp EXCEPT !.kind = "import"], UnderLimit, NoFolio)

\* archive_user_portfolio with archive=True and archive=False.
Archive(r, f) ==
    StartAt(r, [NoOp EXCEPT !.kind = "archive", !.at = f], f \in Live \ default, f)
Unarchive(r, f) ==
    StartAt(r, [NoOp EXCEPT !.kind = "unarchive", !.at = f], f \in Live, f)

\* delete_user_portfolio, with the portfolio that takes the holdings.
Delete(r, f, g) ==
    StartAt(r, [NoOp EXCEPT !.kind = "delete", !.at = f, !.to = g],
            f \in Live \ default /\ folio[g] = "active" /\ f # g, g)

\* add_item_to_portfolio, with a portfolio chosen or without.
Add(r, f) ==
    StartAt(r, [NoOp EXCEPT !.kind = "add", !.to = f], folio[f] = "active", f)
AddToDefault(r) == StartDefault(r, [NoOp EXCEPT !.kind = "add"], TRUE, "write")

\* update_user_portfolio_item, to another portfolio or (NoFolio) where it is.
Update(r, i, f) ==
    /\ f # item[i]
    /\ StartAt(r, [NoOp EXCEPT !.kind = "update", !.to = f, !.what = {i}],
               /\ item[i] # NoFolio /\ folio[item[i]] # "archived"
               /\ f = NoFolio \/ folio[f] = "active", f)

\* delete_user_portfolio_item.
RemoveHolding(r, i) ==
    StartAt(r, [NoOp EXCEPT !.kind = "remove", !.what = {i}],
            item[i] # NoFolio /\ folio[item[i]] # "archived", NoFolio)

\* move_watchlist_item_to_portfolio.
Move(r, e) ==
    StartDefault(r, [NoOp EXCEPT !.kind = "move", !.what = {e}], e \in watch, "write")

-----------------------------------------------------------------------------
(* Row locks of open transactions. *)

Deleting(q, f) == w[q].folio[f] = "deleted"
Touching(q, f) == w[q].folio[f] # "same"
Placing(q, f) == \E i \in Items : w[q].item[i] = f
Writing(q, i) == w[q].item[i] # Same
Citing(q, i) == pc[q] # "evidence" /\ \E S \in w[q].valued : i \in S

\* The next statement of r, which writes, has to wait for q.
Blocks(q, r) ==
    LET o == op[r] IN
    \/ /\ pc[r] = "write"
       /\ \/ o.kind \in {"add", "move"} /\ target[r] # NoFolio /\ Deleting(q, target[r])
          \/ /\ o.kind = "update"
             /\ \/ o.to # NoFolio /\ Deleting(q, o.to)
                \/ \E i \in o.what : Writing(q, i)
          \/ /\ o.kind = "remove"
             /\ \E i \in o.what : Writing(q, i) \/ Citing(q, i)
          \/ o.kind \in {"archive", "unarchive"} /\ Touching(q, o.at)
          \/ /\ o.kind = "delete"
             /\ \E i \in Held(r, o.at) : Writing(q, i) \/ Deleting(q, o.to)
    \/ pc[r] = "drop" /\ (Touching(q, o.at) \/ Placing(q, o.at))
    \/ pc[r] = "record" /\ w[q].valued # {}
    \/ pc[r] = "evidence" /\ \E i \in counted[r] : w[q].item[i] = NoFolio
    \/ pc[r] = "unwatch" /\ o.what \cap w[q].unwatched # {}

Waits == [r, q \in Requests |-> r # q /\ Blocks(q, r)]
Waiting(r) == \E q \in Requests \ {r} : Blocks(q, r)
InCircle(r) == Waiting(r) /\ TransitiveClosure(Waits, Requests)[<<r, r>>]

At(r, step) == pc[r] = step /\ ~Waiting(r)

Go(r, step, writes) ==
    /\ pc' = [pc EXCEPT ![r] = step]
    /\ w' = [w EXCEPT ![r] = writes]
    /\ UNCHANGED <<op, target, counted>>
    /\ UNCHANGED db
    /\ UNCHANGED history

\* An error nobody catches, or one answered with 404: the session rolls back.
RollBack(r, end) ==
    /\ pc' = [pc EXCEPT ![r] = end]
    /\ w' = [w EXCEPT ![r] = NoWrites]
    /\ op' = [op EXCEPT ![r] = NoOp]
    /\ target' = [target EXCEPT ![r] = NoFolio]
    /\ counted' = [counted EXCEPT ![r] = {}]
    /\ UNCHANGED db
    /\ UNCHANGED history

Fail(r) == RollBack(r, "failed")
Refuse(r) == RollBack(r, "refused")

-----------------------------------------------------------------------------
(* The statements that change portfolios and holdings. *)

Least(numbers) == CHOOSE n \in numbers : \A m \in numbers : n <= m
FreeFolios == {f \in Folios : folio[f] = "absent" /\ \A q \in Requests : ~Touching(q, f)}
FreeItems == {i \in Items \ was : \A q \in Requests : ~Writing(q, i)}
NewFolio == Least(FreeFolios)
NewItem == Least(FreeItems)

\* The bounds leave a number for a new row.
RoomLeft == FreeFolios # {} /\ FreeItems # {}

\* create_portfolio, and get_default_portfolio_for_user when there is none.
MakeFolio(r) ==
    /\ At(r, "write")
    /\ op[r].kind \in {"list", "create"} /\ RoomLeft
    /\ Go(r, "commit",
          [w[r] EXCEPT !.folio[NewFolio] = "active",
                       !.default = IF op[r].kind = "list" THEN {NewFolio} ELSE {}])

\* create_portfolio_item, in the portfolio found or in a new one.  A portfolio
\* deleted in the meantime is missed by the foreign key.
MakeItem(r) ==
    /\ At(r, "write")
    /\ op[r].kind \in {"import", "add", "move"} /\ RoomLeft
    /\ IF target[r] = NoFolio
       THEN Go(r, "value",
               [w[r] EXCEPT !.folio[NewFolio] = "active",
                            !.default = IF op[r].kind = "import" THEN {} ELSE {NewFolio},
                            !.item[NewItem] = NewFolio])
       ELSE IF folio[target[r]] = "deleted" THEN Fail(r)
       ELSE Go(r, "value", [w[r] EXCEPT !.item[NewItem] = target[r]])

\* update_portfolio_item: read again, then UPDATE by id.
Change(r) ==
    /\ At(r, "write") /\ op[r].kind = "update"
    /\ \E i \in op[r].what :
         IF item[i] = NoFolio THEN Refuse(r) \/ Fail(r)
         ELSE IF op[r].to = NoFolio THEN Go(r, "value", [w[r] EXCEPT !.item[i] = item[i]])
         ELSE IF folio[op[r].to] = "deleted" THEN Fail(r)
         ELSE Go(r, "value", [w[r] EXCEPT !.item[i] = op[r].to])

\* delete_portfolio_item.
Take(r) ==
    /\ At(r, "write") /\ op[r].kind = "remove"
    /\ \E i \in op[r].what :
         IF item[i] = NoFolio THEN Refuse(r)
         ELSE Go(r, "value", [w[r] EXCEPT !.item[i] = NoFolio])

Status(r) == IF op[r].kind = "archive" THEN "archived" ELSE "active"

\* update_portfolio with archived_at; a row that is gone raises.
SetArchived(r) ==
    /\ At(r, "write") /\ op[r].kind \in {"archive", "unarchive"}
    /\ IF folio[op[r].at] = "deleted" THEN Fail(r)
       ELSE Go(r, "commit", [w[r] EXCEPT !.folio[op[r].at] = Status(r)])

Reassigned(r) == [i \in Items |-> IF i \in Held(r, op[r].at) THEN op[r].to ELSE w[r].item[i]]

\* reassign_portfolio_items, UPDATE of the holdings it sees.
Reassign(r) ==
    /\ At(r, "write") /\ op[r].kind = "delete"
    /\ IF folio[op[r].to] = "deleted" /\ Held(r, op[r].at) # {} THEN Fail(r)
       ELSE Go(r, "drop", [w[r] EXCEPT !.item = Reassigned(r)])

\* Mutant of Drop: holdings added since are deleted with their portfolio.
DropCascading(r) ==
    /\ At(r, "drop")
    /\ Go(r, "value", [w[r] EXCEPT !.folio[op[r].at] = "deleted",
                         !.item = [i \in Items |-> IF i \in Held(r, op[r].at)
                                                   THEN NoFolio ELSE w[r].item[i]]])

\* delete_portfolio.  Holdings that were added since are in the way (RESTRICT);
\* a portfolio that is gone already is only a warning.
Drop(r) ==
    /\ At(r, "drop")
    /\ IF Held(r, op[r].at) # {} THEN Fail(r)
       ELSE Go(r, "value", [w[r] EXCEPT !.folio[op[r].at] = "deleted"])

-----------------------------------------------------------------------------
(* create_user_valuation_snapshot. *)

AfterValue(r) == IF op[r].kind = "move" THEN "unwatch" ELSE "commit"

\* get_all_portfolio_items_for_user.
Counted(r) ==
    {i \in Items : Item(r)[i] # NoFolio /\ Folio(r)[Item(r)[i]] = "active"}

\* One valuation per hour; otherwise the holdings are read and valued.
Value(r) ==
    /\ pc[r] = "value"
    /\ pc' = [pc EXCEPT ![r] = IF valued # {} THEN AfterValue(r) ELSE "record"]
    /\ counted' = [counted EXCEPT ![r] = IF valued # {} THEN {} ELSE Counted(r)]
    /\ UNCHANGED <<op, target, w>>
    /\ UNCHANGED db
    /\ UNCHANGED history

\* INSERT of the valuation.  The unique window may be taken by now.
Record(r) ==
    /\ At(r, "record")
    /\ IF valued # {} THEN Go(r, AfterValue(r), w[r])
       ELSE Go(r, "evidence", [w[r] EXCEPT !.valued = {counted[r]}])

\* INSERT of the value of each holding.  One that is gone rolls the savepoint
\* of the valuation back.
Evidence(r) ==
    /\ At(r, "evidence")
    /\ IF \E i \in counted[r] : Item(r)[i] = NoFolio
       THEN Go(r, AfterValue(r), [w[r] EXCEPT !.valued = {}])
       ELSE Go(r, AfterValue(r), w[r])

-----------------------------------------------------------------------------

\* delete_watchlist_item; a row that is gone already is only a warning.
Unwatch(r) ==
    /\ At(r, "unwatch")
    /\ Go(r, "commit", [w[r] EXCEPT !.unwatched = op[r].what])

Commit(r) ==
    /\ pc[r] = "commit"
    /\ folio' = Folio(r)
    /\ default' = default \cup w[r].default
    /\ item' = Item(r)
    /\ watch' = watch \ w[r].unwatched
    /\ valued' = valued \cup w[r].valued
    /\ was' = was \cup {i \in Items : Item(r)[i] # NoFolio}
    /\ pc' = [pc EXCEPT ![r] = "done"]
    /\ w' = [w EXCEPT ![r] = NoWrites]
    /\ target' = [target EXCEPT ![r] = NoFolio]
    /\ counted' = [counted EXCEPT ![r] = {}]
    /\ UNCHANGED <<op, crowded, raced>>

\* Transactions wait for each other in a circle: the database ends one.
Victim(r) ==
    /\ InCircle(r)
    /\ Fail(r)

Arrive(r) ==
    \/ List(r) \/ Create(r) \/ Import(r) \/ AddToDefault(r)
    \/ \E f \in OldFolios : Archive(r, f) \/ Unarchive(r, f) \/ Add(r, f)
    \/ \E f, g \in OldFolios : Delete(r, f, g)
    \/ \E i \in DOMAIN First : RemoveHolding(r, i) \/ \E f \in OldFolios \cup {NoFolio} : Update(r, i, f)
    \/ \E e \in Entries : Move(r, e)

Step(r) ==
    \/ MakeFolio(r) \/ MakeItem(r) \/ Change(r) \/ Take(r) \/ SetArchived(r)
    \/ Reassign(r) \/ Drop(r) \/ Value(r) \/ Record(r) \/ Evidence(r)
    \/ Unwatch(r) \/ Commit(r) \/ Victim(r)

Next == \E r \in Requests : Arrive(r) \/ Step(r)

Spec == Init /\ [][Next]_vars

-----------------------------------------------------------------------------
(* Properties. *)

\* Every variable stays within its type.
TypeOK ==
    /\ folio \in [Folios -> {"absent", "active", "archived", "deleted"}]
    /\ default \subseteq Folios
    /\ item \in [Items -> Folios \cup {NoFolio}]
    /\ watch \subseteq Entries
    /\ valued \subseteq SUBSET Items
    /\ pc \in [Requests -> Ended \cup {"write", "drop", "value", "record",
                                       "evidence", "unwatch", "commit"}]
    /\ target \in [Requests -> Folios \cup {NoFolio}]
    /\ counted \in [Requests -> SUBSET Items]
    /\ \A r \in Requests : w[r].folio \in [Folios -> {"same", "active", "archived", "deleted"}]
    /\ \A r \in Requests : w[r].item \in [Items -> Folios \cup {NoFolio, Same}]
    /\ was \subseteq Items

\* A committed holding stays until its own removal, in a portfolio that exists,
\* whatever portfolios are deleted while it is added or moved.
HoldingsSurvive ==
    \A i \in was :
        \/ item[i] \in Live
        \/ \E r \in Requests : /\ pc[r] = "done"
                               /\ op[r].kind = "remove" /\ i \in op[r].what

\* A valuation about to be committed counts no holding that is gone, by its own
\* request or a concurrent one, and the holding its request has imported or moved.
ValuationIsCurrent ==
    \A r \in Requests : pc[r] \in {"unwatch", "commit"} =>
        \A S \in w[r].valued :
            /\ \A i \in S : Item(r)[i] # NoFolio
            /\ op[r].kind \in {"import", "move"} =>
                  \A i \in Items : Writing(r, i) => i \in S

\* The holdings and the valuations that count them agree on which there are.
HoldingsAreKept == HoldingsSurvive /\ ValuationIsCurrent

\* Requests that do not make the same check side by side keep what it checks:
\* the limit, which the default portfolio is exempt from, one default, and
\* one holding per watchlist entry.
ChecksHoldAlone ==
    /\ "limit" \in raced \/ Cardinality(Live \ default) <= Limit
    /\ "default" \in raced \/ Cardinality(default) <= 1
    /\ "move" \in raced \/ \A e \in Entries :
          Cardinality({r \in Requests : /\ pc[r] = "done" /\ op[r].kind = "move"
                                        /\ e \in op[r].what}) <= 1

\* A request that overlaps no other one never ends in a server error, unless
\* two default portfolios are stored.
FailuresNeedCompany ==
    \A r \in Requests : pc[r] = "failed" => r \in crowded \/ Cardinality(default) > 1

\* A request that nobody runs beside is checked and served as the code reads.
AloneAllHolds == ChecksHoldAlone /\ FailuresNeedCompany
=============================================================================

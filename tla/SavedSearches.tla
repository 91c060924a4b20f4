--------------------------- MODULE SavedSearches ---------------------------
(***************************************************************************)
(* The saved searches of one user: services/saved_search_service.py, its   *)
(* routes and its repository functions.  A request reads, may wait for     *)
(* find_deals, and commits; the commit writes the columns it has changed.  *)
(* A name is the number of times " copy" can still be appended to it       *)
(* within the 120 characters of its column.                                *)
(***************************************************************************)
EXTENDS Integers, FiniteSets

CONSTANTS
    SearchIds,      \* bound: saved searches that can ever exist
    Clients,        \* requests
    Filters,        \* valid filter_configs
    Rooms,          \* names a user gives
    SavedLimit,     \* SAVED_SEARCH_LIMIT
    Missing

ASSUME SavedLimitIsNatural ==
    SavedLimit \in Nat /\ Rooms \subseteq Nat /\ IsFiniteSet(SearchIds)

VARIABLES
    saved,      \* saved_searches
    client,     \* each request: what it does, how far it is
    read, new,  \* the row it has read, and the row it wants
    edit,       \* history: the filters the user last gave each search
    crowd       \* history: requests counted while another was about to insert

savedVars == <<saved, client, read, new, edit, crowd>>

SavedRow == [filters : Filters, room : Rooms, results : {0}]
Present == {i \in SearchIds : saved[i] # Missing}

SavedInit ==
    /\ saved \in [SearchIds -> SavedRow \cup {Missing}]
    /\ Cardinality(Present) <= SavedLimit
    /\ client = [c \in Clients |-> [kind |-> "none", pc |-> "new", at |-> Missing]]
    /\ read = [c \in Clients |-> Missing] /\ new = [c \in Clients |-> Missing]
    /\ edit = [i \in SearchIds |-> IF saved[i] = Missing THEN Missing ELSE saved[i].filters]
    /\ crowd = FALSE

Inserting == {c \in Clients : client[c].pc = "insert"}
Finish(c, pc) == client' = [client EXCEPT ![c].pc = pc]

Full == Cardinality(Present) >= SavedLimit

\* The count of create_saved_search, and the row it is about to insert.
Count(c, kind, row) ==
    /\ client' = [client EXCEPT ![c] = [kind |-> kind, pc |-> IF Full THEN "refused" ELSE "insert",
                                        at |-> Missing]]
    /\ new' = [new EXCEPT ![c] = row]
    /\ crowd' = (crowd \/ Inserting \ {c} # {})

CreateSaved(c) == \E f \in Filters, n \in Rooms :
    /\ client[c].pc = "new"
    /\ Count(c, "create", [filters |-> f, room |-> n, results |-> 0])
    /\ UNCHANGED <<saved, read, edit>>

\* _owned_search: a search that is gone is answered with 404.
OwnedSearch(c, kind) == \E i \in SearchIds :
    /\ client[c].pc = "new"
    /\ read' = [read EXCEPT ![c] = saved[i]]
    /\ client' = [client EXCEPT ![c] =
                    [kind |-> kind, at |-> i,
                     pc |-> IF saved[i] = Missing THEN "refused" ELSE "found"]]
    /\ UNCHANGED <<saved, new, edit, crowd>>

\* The copy of a search whose name has no room left is refused by the database.
DuplicateSaved(c) ==
    /\ client[c].kind = "duplicate" /\ client[c].pc = "found"
    /\ Count(c, "duplicate", [read[c] EXCEPT !.room = @ - 1, !.results = 0])
    /\ UNCHANGED <<saved, read, edit>>

InsertSaved(c) ==
    /\ client[c].pc = "insert"
    /\ UNCHANGED <<read, new, crowd>>
    /\ \/ new[c].room < 0 /\ Finish(c, "failed") /\ UNCHANGED <<saved, edit>>
       \/ /\ new[c].room >= 0
          /\ \E i \in SearchIds \ Present :
               /\ saved' = [saved EXCEPT ![i] = new[c]]
               /\ edit' = [edit EXCEPT ![i] = new[c].filters]
          /\ Finish(c, "done")

Whole(row, was, wanted) == wanted
Merged(row, was, wanted) ==
    [k \in DOMAIN row |-> IF wanted[k] = was[k] THEN row[k] ELSE wanted[k]]

\* An update of a row that is gone by then fails.
SaveRow(c, wanted) ==
    LET i == client[c].at
    IN /\ client[c].pc = "found"
       /\ IF saved[i] = Missing THEN Finish(c, "failed") /\ UNCHANGED saved
          ELSE /\ saved' = [saved EXCEPT ![i] = Merged(saved[i], read[c], wanted)]
               /\ Finish(c, "done")
       /\ UNCHANGED <<read, new, crowd>>

UpdateSaved(c) == \E f \in Filters, n \in Rooms :
    /\ client[c].kind = "update"
    /\ SaveRow(c, [read[c] EXCEPT !.filters = f, !.room = n])
    /\ edit' = IF f = read[c].filters \/ saved'[client[c].at] = Missing THEN edit
               ELSE [edit EXCEPT ![client[c].at] = f]

\* run_saved_search stores the filters it has read along with the outcome.
RunSaved(c) == \E found \in 0..1 :
    /\ client[c].kind = "run"
    /\ SaveRow(c, [read[c] EXCEPT !.results = found])
    /\ UNCHANGED edit

DeleteSaved(c) ==
    /\ client[c].kind = "delete" /\ client[c].pc = "found"
    /\ saved' = [saved EXCEPT ![client[c].at] = Missing]
    /\ edit' = [edit EXCEPT ![client[c].at] = Missing]
    /\ Finish(c, "done")
    /\ UNCHANGED <<read, new, crowd>>

SavedNext == \E c \in Clients :
    \/ CreateSaved(c)
    \/ \E kind \in {"duplicate", "update", "run", "delete"} : OwnedSearch(c, kind)
    \/ DuplicateSaved(c) \/ InsertSaved(c)
    \/ UpdateSaved(c) \/ RunSaved(c) \/ DeleteSaved(c)

SavedSpec == SavedInit /\ [][SavedNext]_savedVars
-----------------------------------------------------------------------------
\* A user has more saved searches than the limit only when one request counted
\* them while another was about to insert.
SavedLimitHoldsAlone == Cardinality(Present) > SavedLimit => crowd

\* A run that ends after the user has changed its search never brings the
\* filters back it ran with.
EditsSurviveRuns == \A i \in Present : saved[i].filters = edit[i]

\* The saved searches of a user are as many as allowed and as last edited.
SavedSearchesHold == SavedLimitHoldsAlone /\ EditsSurviveRuns
=============================================================================

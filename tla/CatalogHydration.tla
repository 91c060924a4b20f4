-------------------------- MODULE CatalogHydration --------------------------
(***************************************************************************)
(* The catalogs of sets and of parts, filled from BrickLink when a lookup  *)
(* finds nothing: services/set_catalog_service.py, part_catalog_service.py *)
(* and their repositories.                                                 *)
(*                                                                         *)
(* A request holds an asyncio lock of its set or part while it asks the    *)
(* provider and writes; it lets go of it before its transaction commits.   *)
(* Rows it has written are held until then.  The provider is asked without *)
(* an await, so that nothing runs in between.                              *)
(***************************************************************************)
EXTENDS Sequences, Naturals

CONSTANTS
    Numbers,        \* set numbers
    Molds,          \* part numbers
    Alike,          \* of each, the others whose stored text its search matches
    CategoryOf,     \* of each part
    Pictures,       \* image_urls the provider may give for a part
    Lookups,       \* requests that may be under way together
    NoLookup        \* no request

ASSUME CatalogConstants == NoLookup \notin Lookups /\ Numbers \cap Molds = {}

VARIABLES
    catalog,        \* lego_sets: "absent", or whether required fields are missing
    shelf,          \* rows of part_categories, colors and parts
    pictures,       \* image_urls of each part
    gate,           \* _hydration_locks and _sync_locks
    lookup,         \* each request
    crowdedPart,    \* history: parts whose synchronizations overlapped
    given           \* history: images committed for each part

catalogVars == <<catalog, shelf, pictures, gate, lookup, crowdedPart, given>>

\* BrickLink's record of a part names one color, "unknown".  Its element is
\* written with the part and stands or falls with it.
RowsOf(m) == <<<<"category", CategoryOf[m]>>, <<"color", "unknown">>, <<"part", m>>>>
IsPart(row) == row[1] = "part"

CatalogInit ==
    /\ catalog \in [Numbers -> {"absent", "partial"}]
    /\ shelf = {}
    /\ pictures = [m \in Molds |-> {}]
    /\ gate = [k \in Numbers \cup Molds |-> NoLookup]
    /\ lookup = [r \in Lookups |-> NoLookup]
    /\ crowdedPart = {}
    /\ given = [m \in Molds |-> {}]

Running == {r \in Lookups : lookup[r] # NoLookup}
Stands(r, step) == r \in Running /\ lookup[r].step = step

\* The rows a transaction holds until it ends.
HeldByOthers(r, row) == \E q \in Running \ {r} : row \in lookup[q].held

End(r) == lookup' = [lookup EXCEPT ![r] = NoLookup]
Take(r, k) == gate' = [gate EXCEPT ![k] = r]
LetGo(r) == gate' = [k \in DOMAIN gate |-> IF gate[k] = r THEN NoLookup ELSE gate[k]]

\* The quality is what becomes of a set, if the request is about one.
Start(r, kind, key, quality) ==
    /\ r \notin Running
    /\ lookup' = [lookup EXCEPT ![r] =
            [kind |-> kind, key |-> key, quality |-> quality, step |-> "ask", held |-> {},
             todo |-> <<>>, read |-> FALSE, inserts |-> {}, pictures |-> {}]]
    /\ UNCHANGED <<catalog, shelf, pictures, gate, given>>

-----------------------------------------------------------------------------
(* Sets. *)

\* search_lego_sets goes on if nothing matches, or the set itself has gaps.
LocalMiss(n) ==
    \/ catalog[n] = "partial"
    \/ catalog[n] = "absent" /\ \A s \in Alike[n] : catalog[s] = "absent"

SearchSet(r, n) ==
    /\ LocalMiss(n)
    /\ Start(r, "hydrate", n, "complete")
    /\ UNCHANGED crowdedPart

\* The second look, under the lock.
Rechecked(n) == catalog[n] = "complete"

\* _provider_metadata and _normalize_provider_set: only a record with all the
\* required fields is kept; otherwise the request fails.
AskForSet(r, usable) ==
    LET n == lookup[r].key IN
    /\ Stands(r, "ask") /\ lookup[r].kind = "hydrate" /\ gate[n] = NoLookup
    /\ IF Rechecked(n) \/ ~usable
       THEN End(r) /\ UNCHANGED gate
       ELSE lookup' = [lookup EXCEPT ![r].step = "write"] /\ Take(r, n)
    /\ UNCHANGED <<catalog, shelf, pictures, crowdedPart, given>>

\* create_lego_set.
CreateSet(r, n, quality) ==
    /\ Start(r, "create", n, quality)
    /\ UNCHANGED crowdedPart

\* upsert writes over what is there, once nobody else holds the row.
UpsertSet(r) ==
    LET row == <<"set", lookup[r].key>> IN
    /\ Stands(r, "write") /\ lookup[r].kind = "hydrate" /\ ~HeldByOthers(r, row)
    /\ lookup' = [lookup EXCEPT ![r].step = "commit", ![r].held = {row}]
    /\ LetGo(r)
    /\ UNCHANGED <<catalog, shelf, pictures, crowdedPart, given>>

\* create_set: a set that is there already is a conflict.
InsertSet(r) ==
    LET row == <<"set", lookup[r].key>> IN
    /\ Stands(r, "ask") /\ lookup[r].kind = "create" /\ ~HeldByOthers(r, row)
    /\ IF catalog[lookup[r].key] # "absent" THEN End(r)
       ELSE lookup' = [lookup EXCEPT ![r].step = "commit", ![r].held = {row}]
    /\ UNCHANGED <<catalog, shelf, pictures, gate, crowdedPart, given>>

-----------------------------------------------------------------------------
(* Parts. *)

Syncing(m) == \E q \in Running : lookup[q].key = m

StartSync(r, m) ==
    /\ Start(r, "sync", m, "none")
    /\ crowdedPart' = crowdedPart \cup (IF Syncing(m) THEN {m} ELSE {})

\* PartCatalogService.search: with or without filters, only if nothing matches.
SearchPart(r, m) ==
    /\ \A p \in Alike[m] \cup {m} : <<"part", p>> \notin shelf
    /\ StartSync(r, m)

\* POST /parts/sync, and the seed script.
RequestSync(r, m) == StartSync(r, m)

\* get_part_catalog_records: one image or none.
Answers == {{}} \cup {{i} : i \in Pictures}

\* synchronize, under the lock.  The provider may know no such part, or fail, or
\* give a record that normalize_part_catalog_record refuses.
AskForPart(r, usable, images) ==
    LET m == lookup[r].key IN
    /\ Stands(r, "ask") /\ lookup[r].kind = "sync" /\ gate[m] = NoLookup
    /\ IF usable
       THEN /\ lookup' = [lookup EXCEPT ![r].step = "read", ![r].todo = RowsOf(m),
                                        ![r].pictures = images]
            /\ Take(r, m)
       ELSE End(r) /\ UNCHANGED gate
    /\ UNCHANGED <<catalog, shelf, pictures, crowdedPart, given>>

\* Mutant of WithImages: the images of the provider replace those that are there.
ImagesReplaced(old, new) == new

\* _merge_catalog_values.
WithImages(old, new) == old \cup new

\* _upsert_catalog_entity: the row is looked for among those committed, and its
\* lists are merged with those of the record.
ReadRow(r) ==
    LET row == Head(lookup[r].todo) IN
    /\ Stands(r, "read")
    /\ lookup' = [lookup EXCEPT ![r].step = "flush", ![r].read = row \in shelf,
            ![r].pictures = IF IsPart(row) THEN WithImages(pictures[row[2]], @) ELSE @]
    /\ UNCHANGED <<catalog, shelf, pictures, gate, crowdedPart, given>>

\* The row is inserted or written over.  One that another request has inserted in
\* the meantime breaks the unique key: the request fails, with all it has written.
FlushRow(r) ==
    LET row == Head(lookup[r].todo)
        last == Len(lookup[r].todo) = 1
    IN
    /\ Stands(r, "flush") /\ ~HeldByOthers(r, row)
    /\ IF ~lookup[r].read /\ row \in shelf
       THEN End(r) /\ LetGo(r)
       ELSE /\ lookup' = [lookup EXCEPT
                    ![r].step = IF last THEN "commit" ELSE "read",
                    ![r].held = @ \cup {row}, ![r].todo = Tail(@),
                    ![r].inserts = IF lookup[r].read THEN @ ELSE @ \cup {row}]
            /\ IF last THEN LetGo(r) ELSE UNCHANGED gate
    /\ UNCHANGED <<catalog, shelf, pictures, crowdedPart, given>>

-----------------------------------------------------------------------------
(* The end of a request. *)

\* image_urls is written if it differs from what was read.
CommitLookup(r) ==
    LET job == lookup[r] IN
    /\ Stands(r, "commit")
    /\ IF job.kind = "sync"
       THEN /\ shelf' = shelf \cup job.inserts
            /\ pictures' = [pictures EXCEPT ![job.key] = job.pictures]
            /\ given' = [given EXCEPT ![job.key] = @ \cup job.pictures]
            /\ UNCHANGED catalog
       ELSE /\ catalog' = [catalog EXCEPT ![job.key] = job.quality]
            /\ UNCHANGED <<shelf, pictures, given>>
    /\ End(r)
    /\ UNCHANGED <<gate, crowdedPart>>

\* The connection is lost; nothing of the transaction stays.
LoseLookup(r) ==
    /\ r \in Running /\ lookup[r].held # {}
    /\ End(r) /\ LetGo(r)
    /\ UNCHANGED <<catalog, shelf, pictures, crowdedPart, given>>

CatalogNext ==
    \E r \in Lookups :
        \/ \E n \in Numbers :
               SearchSet(r, n) \/ \E q \in {"partial", "complete"} : CreateSet(r, n, q)
        \/ \E m \in Molds : SearchPart(r, m) \/ RequestSync(r, m)
        \/ \E usable \in BOOLEAN :
               \/ AskForSet(r, usable)
               \/ \E images \in Answers : AskForPart(r, usable, images)
        \/ UpsertSet(r) \/ InsertSet(r)
        \/ ReadRow(r) \/ FlushRow(r)
        \/ CommitLookup(r) \/ LoseLookup(r)

CatalogSpec == CatalogInit /\ [][CatalogNext]_catalogVars

-----------------------------------------------------------------------------
(* Properties. *)

\* repositories.py:434: "without losing variants during a provider refresh".
\* Images of a part survive every later refresh, unless two of them were under
\* way together: the second may have read the part before the first committed.
ImagesSurvive ==
    \A m \in Molds : m \notin crowdedPart => given[m] \subseteq pictures[m]
=============================================================================

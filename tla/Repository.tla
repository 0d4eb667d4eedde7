----------------------------- MODULE Repository -----------------------------
(***************************************************************************)
(* The repository that noray keeps its hosts in (src/noray/src/            *)
(* repository.mjs, hosts/host.repository.mjs).                             *)
(*                                                                         *)
(* A JavaScript Map keeps the order in which its keys were set first, and  *)
(* so does `items'.  An item is its id and the rest of its fields, a       *)
(* record, of which an update may give some.  An operation that throws     *)
(* changes nothing and is no action.                                       *)
(***************************************************************************)
EXTENDS Collections

CONSTANTS
    Id,         \* ids of items
    Fields,     \* what the other fields of an item may be
    Updates     \* what an update may say of the other fields

\* assignMerger: Object.assign, the fields of the update over the current ones.
Merged(current, update) == Over(update, current)

ASSUME UpdatesAssumption ==
    \A fields \in Fields, update \in Updates : Merged(fields, update) \in Fields

VARIABLE
    items       \* the items, in the order in which they were added

Item == [id : Id, fields : Fields]

RepositoryTypeOK == items \in Seq(Item)

RepositoryInit == items = << >>

-----------------------------------------------------------------------------
(* Queries                                                                  *)

\* The id mapper: a field of the item.
IdOf(item) == item.id

Has(id) == \E k \in DOMAIN items : IdOf(items[k]) = id

\* The place of the item with a known id.
PlaceOf(id) == CHOOSE k \in DOMAIN items : IdOf(items[k]) = id

Find(id) == items[PlaceOf(id)]

-----------------------------------------------------------------------------
(* Operations                                                               *)

Add(id, fields) ==
    /\ ~Has(id)
    /\ items' = Append(items, [id |-> id, fields |-> fields])

\* Mutant: the merged item is removed and stored anew.
UpdateMoves(id, update) ==
    /\ Has(id)
    /\ items' = Append(SelectSeq(items, LAMBDA item : item.id # id),
                       [id |-> id, fields |-> Merged(Find(id).fields, update)])

\* Setting a key again keeps its place.
Update(id, update) ==
    /\ Has(id)
    /\ items' = [items EXCEPT ![PlaceOf(id)].fields = Merged(@, update)]

\* remove or removeItem for every id of `gone', with nothing in between.
RemoveItems(gone) ==
    /\ gone # {}
    /\ \A id \in gone : Has(id)
    /\ items' \in Kept(items, {k \in DOMAIN items : IdOf(items[k]) \notin gone})

RepositoryNext ==
    \/ \E id \in Id, fields \in Fields : Add(id, fields)
    \/ \E id \in Id, update \in Updates : Update(id, update)
    \/ \E gone \in SUBSET Id : RemoveItems(gone)

RepositorySpec == RepositoryInit /\ [][RepositoryNext]_items

-----------------------------------------------------------------------------
(* Properties                                                               *)

\* No operation changes the order of items that stay: a connection with several
\* hosts keeps speaking for the one that it registered first (findBySocket).
OrderStable ==
    [][\A j, k \in DOMAIN items, m, n \in DOMAIN items' :
          /\ items[j].id = items'[m].id
          /\ items[k].id = items'[n].id
          /\ j < k
          => m < n]_items

=============================================================================

-------------------------- MODULE Repository_proofs --------------------------
(***************************************************************************)
(* Proofs about Repository, for all ids, fields and updates.               *)
(***************************************************************************)
EXTENDS Repository, Collections_proofs

-----------------------------------------------------------------------------
(* The inductive invariant                                                  *)

\* The keys of a Map: an id is found at one place.
IdsUnique == \A j, k \in DOMAIN items : items[j].id = items[k].id => j = k

RepositoryInv == RepositoryTypeOK /\ IdsUnique

LEMMA RepositoryInitInv == RepositoryInit => RepositoryInv
BY DEF RepositoryInit, RepositoryInv, RepositoryTypeOK, IdsUnique

LEMMA PlaceFacts ==
    ASSUME NEW id, Has(id)
    PROVE  PlaceOf(id) \in DOMAIN items /\ items[PlaceOf(id)].id = id
BY DEF Has, PlaceOf, IdOf

\* The places of the items that stay, before and after an operation: a step
\* moves item k to place m, if at all.
Moved(k, m) ==
    k \in DOMAIN items /\ m \in DOMAIN items' /\ items[k].id = items'[m].id

\* A new item goes to the end.
LEMMA AddFacts ==
    ASSUME RepositoryInv, NEW id \in Id, NEW fields \in Fields, Add(id, fields)
    PROVE  /\ RepositoryInv'
           /\ \A k, m : Moved(k, m) => k = m
<1>. DEFINE item == [id |-> id, fields |-> fields]
<1>1. items \in Seq(Item) /\ item \in Item
  BY DEF RepositoryInv, RepositoryTypeOK, Item
<1>2. /\ Len(items) \in Nat /\ DOMAIN items = 1 .. Len(items)
      /\ items' \in Seq(Item)
      /\ DOMAIN items' = 1 .. Len(items) + 1
      /\ \A k \in 1 .. Len(items) : items'[k] = items[k]
      /\ items'[Len(items) + 1] = item
  BY <1>1, AppendProperties, LenProperties DEF Add
<1>3. \A k \in DOMAIN items : items[k].id # id
  BY DEF Add, Has, IdOf
<1>4. ASSUME NEW j \in DOMAIN items', NEW k \in DOMAIN items', items'[j].id = items'[k].id
      PROVE  j = k
  <2>1. CASE j \in DOMAIN items /\ k \in DOMAIN items
    BY <1>2, <1>4, <2>1 DEF RepositoryInv, IdsUnique
  <2>2. CASE j = Len(items) + 1 \/ k = Len(items) + 1
    BY <1>2, <1>3, <1>4, <2>2
  <2>. QED  BY <1>2, <2>1, <2>2
<1>5. RepositoryInv'
  BY <1>2, <1>4 DEF RepositoryInv, RepositoryTypeOK, IdsUnique
<1>6. \A k, m : Moved(k, m) => k = m
  BY <1>2, <1>3 DEF Moved, RepositoryInv, IdsUnique
<1>. QED  BY <1>5, <1>6

\* An update leaves all items where they are, under their ids.
LEMMA UpdateFacts ==
    ASSUME RepositoryInv, NEW id \in Id, NEW update \in Updates, Update(id, update)
    PROVE  /\ RepositoryInv'
           /\ \A k, m : Moved(k, m) => k = m
<1>. DEFINE p == PlaceOf(id)
<1>1. items \in Seq(Item) /\ p \in DOMAIN items
  BY PlaceFacts DEF RepositoryInv, RepositoryTypeOK, Update
<1>2. /\ Len(items) \in Nat /\ DOMAIN items = 1 .. Len(items)
      /\ \A k \in DOMAIN items : items[k] \in Item
  BY <1>1, LenProperties, ElementOfSeq
<1>3. /\ DOMAIN items' = DOMAIN items
      /\ \A k \in DOMAIN items \ {p} : items'[k] = items[k]
      /\ items'[p] = [items[p] EXCEPT !.fields = Merged(items[p].fields, update)]
  <2>1. items' = [items EXCEPT ![p].fields = Merged(@, update)]
    BY DEF Update
  <2>. HIDE DEF p
  <2>. QED  BY <1>1, <2>1
<1>4. items'[p] \in Item /\ items'[p].id = items[p].id
  <2>1. items[p] \in Item /\ items[p].fields \in Fields
    BY <1>1, <1>2 DEF Item
  <2>2. Merged(items[p].fields, update) \in Fields
    BY <2>1, UpdatesAssumption
  <2>. HIDE DEF p
  <2>. QED  BY <1>3, <2>1, <2>2 DEF Item
<1>5. /\ \A k \in DOMAIN items : items'[k] \in Item /\ items'[k].id = items[k].id
  <2>. HIDE DEF p
  <2>. QED  BY <1>2, <1>3, <1>4
<1>6. items' \in Seq(Item)
  <2>1. items' = [k \in 1 .. Len(items) |-> items'[k]]
    BY <1>2, <1>3 DEF Update
  <2>. HIDE DEF p
  <2>. QED  BY <1>2, <1>5, <2>1, IsASeq
<1>. HIDE DEF p
<1>7. IdsUnique'
  BY <1>3, <1>5 DEF RepositoryInv, IdsUnique
<1>8. \A k, m : Moved(k, m) => k = m
  BY <1>3, <1>5 DEF Moved, RepositoryInv, IdsUnique
<1>. QED  BY <1>6, <1>7, <1>8 DEF RepositoryInv, RepositoryTypeOK

\* What is left of the items keeps their ids, and their order.
LEMMA RemoveFacts ==
    ASSUME RepositoryInv, NEW gone \in SUBSET Id, RemoveItems(gone)
    PROVE  /\ RepositoryInv'
           /\ \A j, k, m, n : Moved(j, m) /\ Moved(k, n) /\ j < k => m < n
<1>. DEFINE K == {k \in DOMAIN items : IdOf(items[k]) \notin gone}
<1>1. items \in Seq(Item) /\ items' \in Kept(items, K)
  BY DEF RepositoryInv, RepositoryTypeOK, RemoveItems
<1>2. K \in SUBSET DOMAIN items /\ DOMAIN items = 1 .. Len(items) /\ Len(items) \in Nat
  BY <1>1, LenProperties
<1>. HIDE DEF K
<1>3. items' \in Seq(Item)
  BY <1>1, <1>2, KeptFacts
<1>4. PICK places :
         /\ DOMAIN places = DOMAIN items'
         /\ Ascending(places)
         /\ \A i \in DOMAIN items' : places[i] \in K /\ items'[i] = items[places[i]]
  BY <1>1, <1>2, KeptFacts
<1>5. DOMAIN items' = 1 .. Len(items') /\ Len(items') \in Nat
  BY <1>3, LenProperties
<1>6. \A i \in DOMAIN items' : places[i] \in DOMAIN items /\ places[i] \in Nat
  BY <1>2, <1>4
<1>7. \A i, j \in DOMAIN items' : i < j => places[i] < places[j]
  BY <1>4 DEF Ascending
<1>8. \A i, j \in DOMAIN items' : places[i] = places[j] => i = j
  BY <1>5, <1>6, <1>7
<1>9. IdsUnique'
  BY <1>4, <1>6, <1>8 DEF RepositoryInv, IdsUnique
<1>10. \A k, m : Moved(k, m) => k = places[m]
  BY <1>4, <1>6 DEF Moved, RepositoryInv, IdsUnique
<1>11. ASSUME NEW j, NEW k, NEW m, NEW n, Moved(j, m), Moved(k, n), j < k
       PROVE  m < n
  <2>1. /\ m \in DOMAIN items' /\ n \in DOMAIN items'
        /\ places[m] < places[n]
    BY <1>10, <1>11 DEF Moved
  <2>2. ~(n < m) /\ m # n
    BY <1>6, <1>7, <2>1
  <2>. QED  BY <1>5, <2>1, <2>2
<1>. QED  BY <1>3, <1>9, <1>11 DEF RepositoryInv, RepositoryTypeOK

LEMMA RepositoryNextInv ==
    ASSUME RepositoryInv, [RepositoryNext]_items
    PROVE  /\ RepositoryInv'
           /\ \A j, k, m, n : Moved(j, m) /\ Moved(k, n) /\ j < k => m < n
<1>1. CASE \E id \in Id, fields \in Fields : Add(id, fields)
  BY <1>1, AddFacts
<1>2. CASE \E id \in Id, update \in Updates : Update(id, update)
  BY <1>2, UpdateFacts
<1>3. CASE \E gone \in SUBSET Id : RemoveItems(gone)
  BY <1>3, RemoveFacts
<1>4. CASE UNCHANGED items
  BY <1>4 DEF RepositoryInv, RepositoryTypeOK, IdsUnique, Moved
<1>. QED  BY <1>1, <1>2, <1>3, <1>4 DEF RepositoryNext

LEMMA RepositoryInvariance == RepositorySpec => []RepositoryInv
<1>1. RepositoryInv /\ [RepositoryNext]_items => RepositoryInv'
  BY RepositoryNextInv
<1>. QED  BY <1>1, RepositoryInitInv, PTL DEF RepositorySpec

-----------------------------------------------------------------------------
(* Theorems                                                                 *)

\* What is stored stays of the right form, whatever updates are merged into it.
THEOREM RepositoryTypeCorrect == RepositorySpec => []RepositoryTypeOK
<1>1. RepositoryInv => RepositoryTypeOK
  BY DEF RepositoryInv
<1>. QED  BY <1>1, RepositoryInvariance, PTL

\* No operation lets an item that stays overtake another one that stays.
THEOREM OrderKept == RepositorySpec => OrderStable
<1>1. RepositoryInv /\ [RepositoryNext]_items =>
        [\A j, k \in DOMAIN items, m, n \in DOMAIN items' :
            /\ items[j].id = items'[m].id
            /\ items[k].id = items'[n].id
            /\ j < k
            => m < n]_items
  BY RepositoryNextInv DEF Moved
<1>. QED  BY <1>1, RepositoryInvariance, PTL DEF RepositorySpec, OrderStable

=============================================================================

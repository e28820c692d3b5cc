-------------------------- MODULE SparseSetProofs ---------------------------
(* The sparse set implements IdTable for every page size, every set of ids   *)
(* and every set of values.                                                  *)
EXTENDS SparseSet, TLAPS

\* Page and offset together identify an id.
LEMMA PageAndOffset ==
  ASSUME NEW i \in Nat, NEW j \in Nat,
         PageOf(i) = PageOf(j), OffsetOf(i) = OffsetOf(j)
  PROVE  i = j
<1>1. PageSize \in Nat /\ PageSize > 0
  BY PageSizeAssumption
<1>2. i = PageSize * (i \div PageSize) + (i % PageSize)
  BY <1>1
<1>3. j = PageSize * (j \div PageSize) + (j % PageSize)
  BY <1>1
<1>4. (i \div PageSize) \in Int /\ (j \div PageSize) \in Int
  BY <1>1
<1> QED
  BY <1>2, <1>3, <1>4 DEF PageOf, OffsetOf

\* An id falls on a page, and its offset within the page.
LEMMA PlaceTypes ==
  ASSUME NEW i \in Nat
  PROVE  PageOf(i) \in Nat \ {0} /\ OffsetOf(i) \in 0..(PageSize - 1)
<1>1. PageSize \in Nat /\ PageSize > 0
  BY PageSizeAssumption
<1>2. i \div PageSize \in Nat
  BY <1>1
<1>3. i % PageSize \in 0..(PageSize - 1)
  BY <1>1
<1> QED
  BY <1>2, <1>3 DEF PageOf, OffsetOf
-----------------------------------------------------------------------------
LEMMA GrownType ==
  ASSUME NEW pages \in Seq(Page), NEW count \in Nat
  PROVE  /\ Grown(pages, count) \in Seq(Page)
         /\ Len(Grown(pages, count)) = IF count > Len(pages) THEN count ELSE Len(pages)
         /\ \A p \in 1..Len(Grown(pages, count)) :
              Grown(pages, count)[p] = IF p <= Len(pages) THEN pages[p] ELSE FreshPage
<1>1. FreshPage \in Page
  BY DEF FreshPage, Page, DenseIndex
<1> DEFINE n == IF count > Len(pages) THEN count ELSE Len(pages)
<1>2. n \in Nat
  OBVIOUS
<1>3. \A p \in 1..n : (IF p <= Len(pages) THEN pages[p] ELSE FreshPage) \in Page
  BY <1>1
<1>4. Grown(pages, count) = [p \in 1..n |-> IF p <= Len(pages) THEN pages[p] ELSE FreshPage]
  BY DEF Grown
<1> HIDE DEF n
<1>5. Grown(pages, count) \in Seq(Page) /\ Len(Grown(pages, count)) = n
  BY <1>2, <1>3, <1>4
<1> QED
  BY <1>4, <1>5 DEF n

\* Growing the page table changes the index of no id: a page that is not
\* there and a fresh page both say None.
LEMMA GrownKeepsIndexes ==
  ASSUME NEW pages \in Seq(Page), NEW count \in Nat, NEW j \in Nat
  PROVE  GetDenseIndex(Grown(pages, count), j) = GetDenseIndex(pages, j)
<1>1. PageOf(j) \in Nat \ {0} /\ OffsetOf(j) \in 0..(PageSize - 1)
  BY PlaceTypes
<1>2. FreshPage[OffsetOf(j)] = None
  BY <1>1 DEF FreshPage
<1> QED
  BY <1>1, <1>2, GrownType DEF GetDenseIndex

LEMMA GetDenseIndexType ==
  ASSUME NEW pages \in Seq(Page), NEW j \in Nat
  PROVE  GetDenseIndex(pages, j) \in DenseIndex
<1>1. PageOf(j) \in Nat \ {0} /\ OffsetOf(j) \in 0..(PageSize - 1)
  BY PlaceTypes
<1>2. CASE PageOf(j) > Len(pages)
  BY <1>2 DEF GetDenseIndex, DenseIndex
<1>3. CASE PageOf(j) <= Len(pages)
  <2>1. PageOf(j) \in 1..Len(pages)
    BY <1>1, <1>3
  <2>2. pages[PageOf(j)] \in [0..(PageSize - 1) -> DenseIndex]
    BY <2>1 DEF Page
  <2>3. pages[PageOf(j)][OffsetOf(j)] \in DenseIndex
    BY <1>1, <2>2
  <2> QED
    BY <1>1, <1>3, <2>3 DEF GetDenseIndex
<1> QED
  BY <1>1, <1>2, <1>3

\* SET_DENSE_INDEX is a point update of the map GET_DENSE_INDEX reads.
IsUpdated(pages, i, index, updated) ==
  /\ updated \in Seq(Page)
  /\ \A j \in Nat : GetDenseIndex(updated, j) = IF j = i THEN index ELSE GetDenseIndex(pages, j)

LEMMA SetDenseIndexUpdates ==
  ASSUME NEW pages \in Seq(Page), NEW i \in Nat, NEW index \in DenseIndex
  PROVE  IsUpdated(pages, i, index, SetDenseIndex(pages, i, index))
<1> DEFINE g == Grown(pages, PageOf(i))
           p == PageOf(i)
           o == OffsetOf(i)
           s == SetDenseIndex(pages, i, index)
<1>1. p \in Nat \ {0} /\ o \in 0..(PageSize - 1)
  BY PlaceTypes
<1>2. g \in Seq(Page) /\ p \in 1..Len(g)
  <2>1. PageOf(i) \in Nat
    BY <1>1
  <2>2. g \in Seq(Page) /\ Len(g) = IF p > Len(pages) THEN p ELSE Len(pages)
    BY <2>1, GrownType
  <2> QED
    BY <1>1, <2>2
<1>3. s = [g EXCEPT ![p] = [g[p] EXCEPT ![o] = index]]
  BY DEF SetDenseIndex
<1>4. g[p] \in Page
  BY <1>2
<1>5. [g[p] EXCEPT ![o] = index] \in Page
  BY <1>1, <1>4 DEF Page
<1> HIDE DEF g, p, o, s
<1>6. s \in Seq(Page) /\ Len(s) = Len(g)
  BY <1>2, <1>3, <1>5
<1>7. \A q \in 1..Len(g) : s[q] = IF q = p THEN [g[p] EXCEPT ![o] = index] ELSE g[q]
  BY <1>2, <1>3
<1>8. ASSUME NEW j \in Nat
      PROVE  GetDenseIndex(s, j) = IF j = i THEN index ELSE GetDenseIndex(g, j)
  <2>1. PageOf(j) \in Nat \ {0} /\ OffsetOf(j) \in 0..(PageSize - 1)
    BY PlaceTypes
  <2>2. CASE PageOf(j) > Len(g)
    BY <1>2, <1>6, <2>2 DEF GetDenseIndex, p
  <2>3. CASE PageOf(j) <= Len(g) /\ PageOf(j) # p
    BY <1>6, <1>7, <2>1, <2>3 DEF GetDenseIndex, p
  <2>4. CASE PageOf(j) = p /\ OffsetOf(j) # o
    <3>1. [g[p] EXCEPT ![o] = index][OffsetOf(j)] = g[p][OffsetOf(j)]
      BY <1>1, <1>4, <2>1, <2>4 DEF Page
    <3> QED
      BY <1>2, <1>6, <1>7, <2>4, <3>1 DEF GetDenseIndex, o
  <2>5. CASE PageOf(j) = p /\ OffsetOf(j) = o
    <3>1. j = i
      BY <2>5, PageAndOffset DEF p, o
    <3>2. [g[p] EXCEPT ![o] = index][o] = index
      BY <1>1, <1>4 DEF Page
    <3>3. s[p][o] = index
      BY <1>2, <1>7, <3>2
    <3>4. ~(p > Len(s))
      BY <1>2, <1>6
    <3>5. GetDenseIndex(s, j) = s[p][o]
      BY <2>5, <3>4 DEF GetDenseIndex
    <3> QED
      BY <3>1, <3>3, <3>5
  <2> QED
    BY <1>2, <2>1, <2>2, <2>3, <2>4, <2>5
<1>9. \A j \in Nat : GetDenseIndex(g, j) = GetDenseIndex(pages, j)
  BY <1>1, GrownKeepsIndexes DEF g, p
<1> QED
  BY <1>6, <1>8, <1>9 DEF s, IsUpdated
-----------------------------------------------------------------------------
LEMMA SwapRemoveType ==
  ASSUME NEW S, NEW s \in Seq(S), NEW k \in 1..Len(s)
  PROVE  /\ SwapRemove(s, k) \in Seq(S)
         /\ Len(SwapRemove(s, k)) = Len(s) - 1
         /\ \A j \in 1..(Len(s) - 1) :
              SwapRemove(s, k)[j] = IF j = k THEN s[Len(s)] ELSE s[j]
<1>1. Len(s) - 1 \in Nat
  OBVIOUS
<1>2. \A j \in 1..(Len(s) - 1) : (IF j = k THEN s[Len(s)] ELSE s[j]) \in S
  OBVIOUS
<1> QED
  BY <1>1, <1>2 DEF SwapRemove


\* What the two writes of REMOVE leave in the pages.
LEMMA UnindexUpdates ==
  ASSUME NEW pages \in Seq(Page), NEW i \in Nat, NEW moved \in Nat
  PROVE  /\ Unindex(pages, i, moved) \in Seq(Page)
         /\ GetDenseIndex(Unindex(pages, i, moved), i) = None
         /\ moved # i => GetDenseIndex(Unindex(pages, i, moved), moved) =
                           GetDenseIndex(pages, i)
         /\ \A j \in Nat \ {i, moved} :
              GetDenseIndex(Unindex(pages, i, moved), j) = GetDenseIndex(pages, j)
<1> DEFINE relinked == SetDenseIndex(pages, moved, GetDenseIndex(pages, i))
<1>1. None \in DenseIndex /\ GetDenseIndex(pages, i) \in DenseIndex
  BY GetDenseIndexType DEF DenseIndex
<1>2. /\ relinked \in Seq(Page)
      /\ \A j \in Nat : GetDenseIndex(relinked, j) =
           IF j = moved THEN GetDenseIndex(pages, i) ELSE GetDenseIndex(pages, j)
  <2> DEFINE index == GetDenseIndex(pages, i)
  <2>1. index \in DenseIndex
    BY <1>1
  <2> HIDE DEF index
  <2>2. IsUpdated(pages, moved, index, SetDenseIndex(pages, moved, index))
    BY <2>1, SetDenseIndexUpdates
  <2> QED
    BY <2>2 DEF index, IsUpdated
<1>3. Unindex(pages, i, moved) = SetDenseIndex(relinked, i, None)
  BY DEF Unindex
<1> HIDE DEF relinked
<1>4. /\ SetDenseIndex(relinked, i, None) \in Seq(Page)
      /\ \A j \in Nat : GetDenseIndex(SetDenseIndex(relinked, i, None), j) =
           IF j = i THEN None ELSE GetDenseIndex(relinked, j)
  <2>1. relinked \in Seq(Page)
    BY <1>2
  <2>2. None \in DenseIndex
    BY <1>1
  <2>3. IsUpdated(relinked, i, None, SetDenseIndex(relinked, i, None))
    BY <2>1, <2>2, SetDenseIndexUpdates
  <2> QED
    BY <2>3 DEF IsUpdated
<1> QED
  BY <1>2, <1>3, <1>4
-----------------------------------------------------------------------------
Inv == TypeOK /\ Bijection

LEMMA InitInv == Init => Inv
<1> SUFFICES ASSUME Init PROVE Inv
  OBVIOUS
<1>1. TypeOK
  BY DEF Init, TypeOK
<1>2. \A id \in Nat : GetDenseIndex(sparse, id) = None
  <2>1. ASSUME NEW id \in Nat PROVE PageOf(id) > Len(sparse)
    BY PlaceTypes DEF Init
  <2> QED
    BY <2>1 DEF GetDenseIndex
<1>3. Bijection
  BY <1>2, IdsAssumption DEF Init, Bijection, SlotsAreIndexed, IndexesAreSlots
<1> QED
  BY <1>1, <1>3 DEF Inv

LEMMA OverwriteInv ==
  ASSUME Inv, NEW id \in Ids, NEW value \in Values, Overwrite(id, value)
  PROVE  Inv' /\ denseToSparse' = denseToSparse
<1> DEFINE index == GetDenseIndex(sparse, id)
<1>1. index \in DenseIndex /\ index # None
  BY GetDenseIndexType, IdsAssumption DEF Inv, TypeOK, Overwrite
<1>2. index + 1 \in 1..Len(denseToSparse) /\ denseToSparse[index + 1] = id
  BY <1>1 DEF Inv, TypeOK, Bijection, IndexesAreSlots
<1>3. denseToSparse' = denseToSparse
  BY <1>2 DEF Overwrite, Inv, TypeOK
<1>4. dense' \in Seq(Values) /\ Len(dense') = Len(dense)
  BY <1>2 DEF Overwrite, Inv, TypeOK, Bijection
<1>5. sparse' = sparse
  BY DEF Overwrite
<1> QED
  BY <1>3, <1>4, <1>5
     DEF Inv, TypeOK, Bijection, SlotsAreIndexed, IndexesAreSlots

LEMMA AddInv ==
  ASSUME Inv, NEW id \in Ids, NEW value \in Values, Add(id, value)
  PROVE  Inv'
<1> DEFINE n == Len(denseToSparse)
<1>1. /\ sparse \in Seq(Page) /\ dense \in Seq(Values) /\ denseToSparse \in Seq(Ids)
      /\ Len(dense) = n /\ n \in Nat
  BY DEF Inv, TypeOK, Bijection
<1>2. /\ sparse' = SetDenseIndex(sparse, id, n)
      /\ dense' = Append(dense, value)
      /\ denseToSparse' = Append(denseToSparse, id)
      /\ GetDenseIndex(sparse, id) = None
  BY <1>1 DEF Add
<1>3. /\ sparse' \in Seq(Page)
      /\ \A j \in Nat : GetDenseIndex(sparse', j) =
                          IF j = id THEN n ELSE GetDenseIndex(sparse, j)
  <2>1. n \in DenseIndex /\ id \in Nat
    BY <1>1, IdsAssumption DEF DenseIndex
  <2>2. sparse \in Seq(Page)
    BY <1>1
  <2>4. n \in DenseIndex
    BY <2>1
  <2>5. id \in Nat
    BY <2>1
  <2> HIDE DEF n
  <2>3. IsUpdated(sparse, id, n, SetDenseIndex(sparse, id, n))
    BY <2>2, <2>4, <2>5, SetDenseIndexUpdates
  <2> QED
    BY <1>2, <2>3 DEF IsUpdated
<1>4. /\ Len(denseToSparse') = n + 1 /\ Len(dense') = n + 1
      /\ \A k \in 1..n : denseToSparse'[k] = denseToSparse[k]
      /\ denseToSparse'[n + 1] = id
  BY <1>1, <1>2
<1>5. TypeOK'
  BY <1>1, <1>2, <1>3 DEF TypeOK
<1>6. SlotsAreIndexed'
  <2> SUFFICES ASSUME NEW k \in 1..(n + 1)
               PROVE  GetDenseIndex(sparse', denseToSparse'[k]) = k - 1
    BY <1>1, <1>4, <1>5 DEF SlotsAreIndexed, TypeOK
  <2>1. CASE k = n + 1
    BY <1>1, <1>3, <1>4, <2>1, IdsAssumption
  <2>2. CASE k \in 1..n
    <3>1. denseToSparse[k] \in Ids /\ GetDenseIndex(sparse, denseToSparse[k]) = k - 1
      BY <1>1, <2>2 DEF Inv, Bijection, SlotsAreIndexed
    <3>2. denseToSparse[k] # id
      BY <1>2, <2>2, <3>1 DEF None
    <3> QED
      BY <1>3, <1>4, <2>2, <3>1, <3>2, IdsAssumption
  <2> QED
    BY <1>1, <2>1, <2>2
<1>7. IndexesAreSlots'
  <2> SUFFICES ASSUME NEW j \in Ids, GetDenseIndex(sparse', j) # None
               PROVE  /\ GetDenseIndex(sparse', j) + 1 \in 1..(n + 1)
                      /\ denseToSparse'[GetDenseIndex(sparse', j) + 1] = j
    BY <1>1, <1>4, <1>5 DEF IndexesAreSlots, TypeOK
  <2>1. CASE j = id
    BY <1>1, <1>3, <1>4, <2>1, IdsAssumption
  <2>2. CASE j # id
    <3>1. GetDenseIndex(sparse', j) = GetDenseIndex(sparse, j)
      BY <1>3, <2>2, IdsAssumption
    <3>2. /\ GetDenseIndex(sparse, j) + 1 \in 1..n
          /\ denseToSparse[GetDenseIndex(sparse, j) + 1] = j
      BY <1>1, <3>1 DEF Inv, Bijection, IndexesAreSlots
    <3> QED
      BY <1>1, <1>4, <3>1, <3>2
  <2> QED
    BY <2>1, <2>2
<1> QED
  BY <1>4, <1>5, <1>6, <1>7 DEF Inv, Bijection

LEMMA RemoveInv ==
  ASSUME Inv, NEW id \in Ids, Remove(id)
  PROVE  /\ Inv'
         /\ GetDenseIndex(sparse, id) + 1 \in DOMAIN denseToSparse
         /\ denseToSparse[GetDenseIndex(sparse, id) + 1] = id
         /\ \A j \in Nat \ {id, denseToSparse[Len(denseToSparse)]} :
              GetDenseIndex(sparse', j) = GetDenseIndex(sparse, j)
<1> DEFINE n     == Len(denseToSparse)
           index == GetDenseIndex(sparse, id)
           k     == index + 1
           lastId == denseToSparse[n]
<1>1. /\ sparse \in Seq(Page) /\ dense \in Seq(Values) /\ denseToSparse \in Seq(Ids)
      /\ Len(dense) = n /\ n \in Nat
  BY DEF Inv, TypeOK, Bijection
<1>2. index \in Nat /\ k \in 1..n /\ denseToSparse[k] = id
  <2>1. index \in DenseIndex /\ index # None
    BY <1>1, GetDenseIndexType, IdsAssumption DEF Remove
  <2>2. index + 1 \in 1..Len(denseToSparse) /\ denseToSparse[index + 1] = id
    BY <1>1, <2>1 DEF Inv, Bijection, IndexesAreSlots
  <2> QED
    BY <2>1, <2>2 DEF DenseIndex, None
<1>3. n \in 1..n /\ lastId \in Ids /\ lastId \in Nat /\ id \in Nat
  <2>1. n \in 1..n
    BY <1>1, <1>2
  <2>2. lastId \in Ids
    BY <1>1, <2>1
  <2> QED
    BY <2>1, <2>2, IdsAssumption
<1>4. \A q \in 1..n : /\ denseToSparse[q] \in Ids /\ denseToSparse[q] \in Nat
                      /\ GetDenseIndex(sparse, denseToSparse[q]) = q - 1
  <2> SUFFICES ASSUME NEW q \in 1..n
               PROVE  /\ denseToSparse[q] \in Ids /\ denseToSparse[q] \in Nat
                      /\ GetDenseIndex(sparse, denseToSparse[q]) = q - 1
    OBVIOUS
  <2>1. denseToSparse[q] \in Ids
    BY <1>1
  <2>2. GetDenseIndex(sparse, denseToSparse[q]) = q - 1
    BY <1>1 DEF Inv, Bijection, SlotsAreIndexed
  <2> QED
    BY <2>1, <2>2, IdsAssumption
<1>5. /\ sparse' = Unindex(sparse, id, lastId)
      /\ dense' = SwapRemove(dense, k)
      /\ denseToSparse' = SwapRemove(denseToSparse, k)
  BY DEF Remove
<1>6. /\ sparse' \in Seq(Page)
      /\ \A j \in Nat : GetDenseIndex(sparse', j) =
           IF j = id THEN None
           ELSE IF j = lastId THEN index ELSE GetDenseIndex(sparse, j)
  <2>1. sparse \in Seq(Page) /\ id \in Nat /\ lastId \in Nat
    BY <1>1, <1>3
  <2> HIDE DEF lastId
  <2>2. Unindex(sparse, id, lastId) \in Seq(Page)
    BY <2>1, UnindexUpdates
  <2>3. /\ GetDenseIndex(sparse', id) = None
        /\ lastId # id => GetDenseIndex(sparse', lastId) = GetDenseIndex(sparse, id)
    BY <1>5, <2>1, UnindexUpdates
  <2>4. \A j \in Nat \ {id, lastId} : GetDenseIndex(sparse', j) = GetDenseIndex(sparse, j)
    BY <1>5, <2>1, UnindexUpdates
  <2> QED
    BY <1>5, <2>2, <2>3, <2>4
<1>7. dense' \in Seq(Values) /\ Len(dense') = n - 1
  BY <1>1, <1>2, <1>5, SwapRemoveType
<1>8. /\ denseToSparse' \in Seq(Ids) /\ Len(denseToSparse') = n - 1
      /\ \A q \in 1..(n - 1) : denseToSparse'[q] =
           IF q = k THEN lastId ELSE denseToSparse[q]
  BY <1>1, <1>2, <1>5, SwapRemoveType
<1>9. TypeOK'
  BY <1>6, <1>7, <1>8 DEF TypeOK
<1> HIDE DEF index, lastId, k
<1>10. k = index + 1 /\ GetDenseIndex(sparse, id) = index
       /\ GetDenseIndex(sparse, lastId) = n - 1
  BY <1>3, <1>4 DEF k, index, lastId
<1>11. SlotsAreIndexed'
  <2> SUFFICES ASSUME NEW q \in 1..(n - 1)
               PROVE  GetDenseIndex(sparse', denseToSparse'[q]) = q - 1
    BY <1>8 DEF SlotsAreIndexed
  <2>1. CASE q = k
    <3>1. lastId # id
      BY <1>1, <1>2, <1>10, <2>1
    <3> QED
      BY <1>2, <1>3, <1>6, <1>8, <1>10, <2>1, <3>1
  <2>2. CASE q # k
    <3>1. q \in 1..n
      BY <1>1
    <3>2. denseToSparse[q] \in Nat /\ GetDenseIndex(sparse, denseToSparse[q]) = q - 1
      BY <1>4, <3>1
    <3>3. denseToSparse[q] # id /\ denseToSparse[q] # lastId
      BY <1>1, <1>2, <1>10, <2>2, <3>2
    <3> QED
      BY <1>6, <1>8, <2>2, <3>2, <3>3
  <2> QED
    BY <2>1, <2>2
<1>12. IndexesAreSlots'
  <2> SUFFICES ASSUME NEW j \in Ids, GetDenseIndex(sparse', j) # None
               PROVE  /\ GetDenseIndex(sparse', j) + 1 \in 1..(n - 1)
                      /\ denseToSparse'[GetDenseIndex(sparse', j) + 1] = j
    BY <1>8 DEF IndexesAreSlots
  <2>1. j \in Nat /\ j # id
    BY <1>6, IdsAssumption
  <2>2. CASE j = lastId
    <3>1. GetDenseIndex(sparse', j) = index
      BY <1>6, <2>1, <2>2
    <3>2. k \in 1..(n - 1)
      <4>1. index # n - 1
        BY <1>1, <1>2, <2>1, <2>2, <1>10 DEF lastId
      <4> QED
        BY <1>1, <1>2, <1>10, <4>1
    <3> QED
      BY <1>8, <1>10, <2>2, <3>1, <3>2
  <2>3. CASE j # lastId
    <3>1. GetDenseIndex(sparse', j) = GetDenseIndex(sparse, j)
      BY <1>6, <2>1, <2>3
    <3> DEFINE q == GetDenseIndex(sparse, j) + 1
    <3>2. q \in 1..n /\ denseToSparse[q] = j
      BY <1>1, <3>1 DEF Inv, Bijection, IndexesAreSlots
    <3>3. q # n /\ q # k
      BY <1>2, <2>1, <2>3, <3>2 DEF lastId
    <3>4. q \in 1..(n - 1)
      BY <1>1, <3>2, <3>3
    <3> QED
      BY <1>8, <3>1, <3>2, <3>3, <3>4
  <2> QED
    BY <2>2, <2>3
<1>13. Bijection'
  BY <1>7, <1>8, <1>11, <1>12 DEF Bijection
<1>14. \A j \in Nat \ {id, denseToSparse[Len(denseToSparse)]} :
         GetDenseIndex(sparse', j) = GetDenseIndex(sparse, j)
  BY <1>6 DEF lastId
<1>15. index + 1 \in DOMAIN denseToSparse /\ denseToSparse[index + 1] = id
  BY <1>1, <1>2, <1>10
<1> QED
  BY <1>9, <1>13, <1>14, <1>15 DEF Inv, index

LEMMA NextInv == Inv /\ [Next]_vars => Inv'
<1> SUFFICES ASSUME Inv, [Next]_vars PROVE Inv'
  OBVIOUS
<1>1. ASSUME NEW id \in Ids, Remove(id) PROVE Inv'
  BY <1>1, RemoveInv
<1>2. ASSUME NEW id \in Ids, NEW value \in Values, Put(id, value) PROVE Inv'
  BY <1>2, OverwriteInv, AddInv DEF Put
<1>3. CASE UNCHANGED vars
  BY <1>3 DEF vars, Inv, TypeOK, Bijection, SlotsAreIndexed, IndexesAreSlots
<1> QED
  BY <1>1, <1>2, <1>3 DEF Next

\* The types of the three arrays, and that they describe the same finite map
\* (sparseSet.h:27-70), in every reachable state.
THEOREM TypeCorrect == Spec => []TypeOK
<1>1. Spec => []Inv
  BY InitInv, NextInv, PTL DEF Spec
<1> QED
  BY <1>1, PTL DEF Inv

THEOREM BijectionHolds == Spec => []Bijection
<1>1. Spec => []Inv
  BY InitInv, NextInv, PTL DEF Spec
<1> QED
  BY <1>1, PTL DEF Inv
-----------------------------------------------------------------------------
Stored == {denseToSparse[k] : k \in DOMAIN denseToSparse}
SlotIn(pages, id) == GetDenseIndex(pages, id) + 1

\* Under the invariant, an id is stored iff the pages hold an index for it,
\* and its slot is the only one that carries it.
LEMMA Slots ==
  ASSUME Inv
  PROVE  /\ \A id \in Stored : /\ id \in Ids /\ id \in Nat
                               /\ SlotIn(sparse, id) \in 1..Len(denseToSparse)
                               /\ denseToSparse[SlotIn(sparse, id)] = id
         /\ \A k \in 1..Len(denseToSparse) : SlotIn(sparse, denseToSparse[k]) = k
         /\ \A id \in Ids : id \in Stored <=> GetDenseIndex(sparse, id) # None
<1>1. /\ denseToSparse \in Seq(Ids)
      /\ DOMAIN denseToSparse = 1..Len(denseToSparse) /\ Len(denseToSparse) \in Nat
  BY DEF Inv, TypeOK
<1>2. \A k \in 1..Len(denseToSparse) :
        denseToSparse[k] \in Ids /\ GetDenseIndex(sparse, denseToSparse[k]) = k - 1
  BY <1>1 DEF Inv, Bijection, SlotsAreIndexed
<1>3. \A k \in 1..Len(denseToSparse) : SlotIn(sparse, denseToSparse[k]) = k
  BY <1>1, <1>2 DEF SlotIn
<1>4. ASSUME NEW id \in Stored
      PROVE  /\ id \in Ids /\ id \in Nat
             /\ SlotIn(sparse, id) \in 1..Len(denseToSparse)
             /\ denseToSparse[SlotIn(sparse, id)] = id
             /\ GetDenseIndex(sparse, id) # None
  <2>1. PICK k \in 1..Len(denseToSparse) : id = denseToSparse[k]
    BY <1>1 DEF Stored
  <2>2. GetDenseIndex(sparse, id) = k - 1 /\ id \in Ids /\ SlotIn(sparse, id) = k
    BY <1>2, <1>3, <2>1
  <2>3. k - 1 # None
    BY <1>1 DEF None
  <2> QED
    BY <2>1, <2>2, <2>3, IdsAssumption
<1>5. ASSUME NEW id \in Ids, GetDenseIndex(sparse, id) # None
      PROVE  id \in Stored
  BY <1>5 DEF Inv, Bijection, IndexesAreSlots, Stored
<1> QED
  BY <1>3, <1>4, <1>5

LEMMA ContentsFields ==
  /\ Contents.order = denseToSparse
  /\ Contents.entry = [id \in Stored |-> dense[SlotIn(sparse, id)]]
  /\ TableIds(Contents) = Stored
  BY DEF Contents, TableIds, Stored, SlotIn

LEMMA InitRefines == Init => Table!Init
<1> SUFFICES ASSUME Init PROVE Contents = EmptyTable
  BY DEF Table!Init, Table!EmptyTable, EmptyTable
<1>1. Stored = {} /\ denseToSparse = <<>>
  BY DEF Init, Stored
<1>2. [id \in Stored |-> dense[SlotIn(sparse, id)]] = <<>>
  BY <1>1
<1> QED
  BY <1>1, <1>2 DEF Contents, EmptyTable, Stored, SlotIn

LEMMA OverwriteRefines ==
  ASSUME Inv, NEW id \in Ids, NEW value \in Values, Overwrite(id, value)
  PROVE  Contents' = TablePut(Contents, id, value)
<1> DEFINE k == SlotIn(sparse, id)
<1>1. /\ sparse' = sparse /\ denseToSparse' = denseToSparse
      /\ dense' = [dense EXCEPT ![k] = value]
  BY OverwriteInv DEF Overwrite, SlotIn
<1>2. id \in Stored
  BY Slots DEF Overwrite
<1>3. dense \in Seq(Values) /\ Len(dense) = Len(denseToSparse) /\ k \in 1..Len(dense)
  BY <1>2, Slots DEF Inv, TypeOK, Bijection
<1>4. Stored' = Stored /\ \A j \in Stored : SlotIn(sparse', j) = SlotIn(sparse, j)
  BY <1>1 DEF Stored, SlotIn
<1>5. ASSUME NEW j \in Stored
      PROVE  dense'[SlotIn(sparse, j)] = IF j = id THEN value ELSE dense[SlotIn(sparse, j)]
  <2>1. SlotIn(sparse, j) \in 1..Len(dense) /\ denseToSparse[SlotIn(sparse, j)] = j /\ denseToSparse[k] = id
    BY <1>2, <1>3, Slots
  <2> HIDE DEF k
  <2>2. j = id => SlotIn(sparse, j) = k
    BY DEF k
  <2>3. j # id => SlotIn(sparse, j) # k
    BY <2>1
  <2> QED
    BY <1>1, <1>3, <2>1, <2>2, <2>3
<1>6. [j \in Stored' |-> dense'[SlotIn(sparse', j)]] =
        [[j \in Stored |-> dense[SlotIn(sparse, j)]] EXCEPT ![id] = value]
  BY <1>2, <1>4, <1>5
<1>7. Contents' = [order |-> denseToSparse',
                   entry |-> [j \in Stored' |-> dense'[SlotIn(sparse', j)]]]
  BY DEF Contents, Stored, SlotIn
<1>8. Contents = [order |-> denseToSparse,
                  entry |-> [j \in Stored |-> dense[SlotIn(sparse, j)]]]
  BY DEF Contents, Stored, SlotIn
<1> QED
  BY <1>1, <1>2, <1>6, <1>7, <1>8, ContentsFields DEF TablePut

LEMMA AddRefines ==
  ASSUME Inv, NEW id \in Ids, NEW value \in Values, Add(id, value)
  PROVE  Contents' = TablePut(Contents, id, value)
<1> DEFINE n == Len(denseToSparse)
<1>1. /\ sparse \in Seq(Page) /\ dense \in Seq(Values) /\ denseToSparse \in Seq(Ids)
      /\ Len(dense) = n /\ n \in Nat /\ id \in Nat
  BY IdsAssumption DEF Inv, TypeOK, Bijection
<1>2. /\ dense' = Append(dense, value)
      /\ denseToSparse' = Append(denseToSparse, id)
      /\ id \notin Stored
  BY Slots DEF Add
<1>3. /\ Len(denseToSparse') = n + 1
      /\ denseToSparse'[n + 1] = id /\ dense'[n + 1] = value
      /\ \A k \in 1..n : denseToSparse'[k] = denseToSparse[k] /\ dense'[k] = dense[k]
  BY <1>1, <1>2
<1>4. Inv'
  BY AddInv
<1>5. \A k \in 1..(n + 1) : SlotIn(sparse', denseToSparse'[k]) = k
  <2>1. \A k \in 1..(n + 1) : GetDenseIndex(sparse', denseToSparse'[k]) = k - 1
    <3>1. DOMAIN denseToSparse' = 1..(n + 1)
      BY <1>1, <1>2
    <3>2. SlotsAreIndexed'
      BY <1>4 DEF Inv, Bijection
    <3> QED
      BY <3>1, <3>2 DEF SlotsAreIndexed
  <2> QED
    BY <1>1, <2>1 DEF SlotIn
<1>6. Stored' = Stored \cup {id}
  <2>1. DOMAIN denseToSparse = 1..n /\ DOMAIN denseToSparse' = 1..(n + 1)
    BY <1>1, <1>2
  <2>2. ASSUME NEW j \in Stored' PROVE j \in Stored \cup {id}
    BY <1>1, <1>3, <2>1, <2>2 DEF Stored
  <2>3. ASSUME NEW j \in Stored \cup {id} PROVE j \in Stored'
    <3>1. n + 1 \in 1..(n + 1) /\ 1..n \subseteq 1..(n + 1)
      BY <1>1
    <3> QED
      BY <1>1, <1>3, <2>1, <2>3, <3>1 DEF Stored
  <2> QED
    BY <2>2, <2>3
<1>7. ASSUME NEW j \in Stored
      PROVE  dense'[SlotIn(sparse', j)] = dense[SlotIn(sparse, j)]
  <2>1. SlotIn(sparse, j) \in 1..n /\ denseToSparse[SlotIn(sparse, j)] = j
    BY Slots
  <2>2. denseToSparse'[SlotIn(sparse, j)] = j /\ SlotIn(sparse, j) \in 1..(n + 1)
    BY <1>1, <1>3, <2>1
  <2>3. SlotIn(sparse', j) = SlotIn(sparse, j)
    BY <1>5, <2>2
  <2> QED
    BY <1>3, <2>1, <2>3
<1>8. dense'[SlotIn(sparse', id)] = value
  <2>1. n + 1 \in 1..(n + 1)
    BY <1>1
  <2> QED
    BY <1>3, <1>5, <2>1
<1>9. Contents' = [order |-> denseToSparse',
                   entry |-> [j \in Stored' |-> dense'[SlotIn(sparse', j)]]]
  BY DEF Contents, Stored, SlotIn
<1>10. [j \in Stored' |-> dense'[SlotIn(sparse', j)]] =
         [j \in Stored \cup {id} |->
            IF j = id THEN value ELSE [i \in Stored |-> dense[SlotIn(sparse, i)]][j]]
  BY <1>2, <1>6, <1>7, <1>8
<1> QED
  BY <1>2, <1>9, <1>10, ContentsFields DEF TablePut

LEMMA RemoveRefines ==
  ASSUME Inv, NEW id \in Ids, Remove(id)
  PROVE  Contents' = TableRemove(Contents, id)
<1> DEFINE n == Len(denseToSparse)
           k == SlotIn(sparse, id)
<1>1. /\ sparse \in Seq(Page) /\ dense \in Seq(Values) /\ denseToSparse \in Seq(Ids)
      /\ Len(dense) = n /\ n \in Nat /\ id \in Nat
  BY IdsAssumption DEF Inv, TypeOK, Bijection
<1>2. id \in Stored /\ k \in 1..n /\ denseToSparse[k] = id
  BY Slots DEF Remove
<1>3. /\ dense' = SwapRemove(dense, k)
      /\ denseToSparse' = SwapRemove(denseToSparse, k)
  BY DEF Remove, SlotIn
<1>4. /\ Len(denseToSparse') = n - 1 /\ denseToSparse' \in Seq(Ids)
      /\ \A q \in 1..(n - 1) : /\ denseToSparse'[q] = IF q = k THEN denseToSparse[n] ELSE denseToSparse[q]
                               /\ dense'[q] = IF q = k THEN dense[n] ELSE dense[q]
  <2> HIDE DEF k
  <2>1. /\ Len(denseToSparse') = n - 1 /\ denseToSparse' \in Seq(Ids)
        /\ \A q \in 1..(n - 1) :
             denseToSparse'[q] = IF q = k THEN denseToSparse[n] ELSE denseToSparse[q]
    BY <1>1, <1>2, <1>3, SwapRemoveType
  <2>2. \A q \in 1..(n - 1) : dense'[q] = IF q = k THEN dense[n] ELSE dense[q]
    BY <1>1, <1>3 DEF SwapRemove
  <2> QED
    BY <2>1, <2>2
<1>5. Inv'
  BY RemoveInv
<1>6. \A q \in 1..(n - 1) : SlotIn(sparse', denseToSparse'[q]) = q
  <2>1. \A q \in 1..(n - 1) : GetDenseIndex(sparse', denseToSparse'[q]) = q - 1
    BY <1>4, <1>5 DEF Inv, TypeOK, Bijection, SlotsAreIndexed
  <2> QED
    BY <1>1, <2>1 DEF SlotIn
<1>7. \A q \in 1..n : SlotIn(sparse, denseToSparse[q]) = q
  BY Slots
<1>8. PositionOf(denseToSparse, id) = k
  <2>1. \A q \in DOMAIN denseToSparse : denseToSparse[q] = id <=> q = k
    BY <1>1, <1>2, <1>7
  <2>2. k \in DOMAIN denseToSparse
    BY <1>1, <1>2
  <2> QED
    BY <2>1, <2>2 DEF PositionOf
<1> HIDE DEF k
<1>9. ASSUME NEW j \in Stored \ {id}
      PROVE  j \in Stored' /\ dense'[SlotIn(sparse', j)] = dense[SlotIn(sparse, j)]
  <2>1. SlotIn(sparse, j) \in 1..n /\ denseToSparse[SlotIn(sparse, j)] = j
    BY Slots
  <2>2. SlotIn(sparse, j) # k
    BY <1>2, <2>1
  <2>3. CASE SlotIn(sparse, j) = n
    <3>1. k \in 1..(n - 1)
      BY <1>1, <1>2, <2>2, <2>3
    <3>2. denseToSparse'[k] = j /\ dense'[k] = dense[n]
      BY <1>4, <2>1, <2>3, <3>1
    <3>3. SlotIn(sparse', j) = k
      BY <1>6, <3>1, <3>2
    <3> QED
      BY <1>4, <2>3, <3>1, <3>2, <3>3 DEF Stored
  <2>4. CASE SlotIn(sparse, j) # n
    <3>1. SlotIn(sparse, j) \in 1..(n - 1)
      BY <1>1, <2>1, <2>4
    <3>2. denseToSparse'[SlotIn(sparse, j)] = j /\ dense'[SlotIn(sparse, j)] = dense[SlotIn(sparse, j)]
      BY <1>4, <2>1, <2>2, <3>1
    <3>3. SlotIn(sparse', j) = SlotIn(sparse, j)
      BY <1>6, <3>1, <3>2
    <3> QED
      BY <1>4, <3>1, <3>2, <3>3 DEF Stored
  <2> QED
    BY <2>3, <2>4
<1>10. ASSUME NEW j \in Stored' PROVE j \in Stored \ {id}
  <2>1. PICK q \in 1..(n - 1) : j = denseToSparse'[q]
    BY <1>4 DEF Stored
  <2>2. \E r \in 1..n : r # k /\ j = denseToSparse[r]
    <3>1. q \in 1..n /\ n \in 1..n
      BY <1>1
    <3>2. q = k => n # k
      BY <1>1
    <3> QED
      BY <1>4, <2>1, <3>1, <3>2
  <2>3. PICK r \in 1..n : r # k /\ j = denseToSparse[r]
    BY <2>2
  <2>4. j # id
    BY <1>2, <1>7, <2>3
  <2> QED
    BY <1>1, <2>3, <2>4 DEF Stored
<1>11. Stored' = Stored \ {id}
  BY <1>9, <1>10
<1>12. [j \in Stored' |-> dense'[SlotIn(sparse', j)]] =
         [j \in Stored \ {id} |-> [i \in Stored |-> dense[SlotIn(sparse, i)]][j]]
  BY <1>9, <1>11
<1>13. Contents' = [order |-> denseToSparse',
                    entry |-> [j \in Stored' |-> dense'[SlotIn(sparse', j)]]]
  BY DEF Contents, Stored, SlotIn
<1> QED
  BY <1>2, <1>3, <1>8, <1>12, <1>13, ContentsFields DEF TableRemove

\* The sparse set implements the abstract table (sparseSet.h:46-70): for every
\* page size, an execution of PUT and REMOVE is one of IdTable.
THEOREM RefinesIdTable == Spec => ImplementsIdTable
<1>1. Init => Table!Init
  BY InitRefines
<1>2. Inv /\ [Next]_vars => [Table!Next]_Contents
  <2> SUFFICES ASSUME Inv, [Next]_vars PROVE [Table!Next]_Contents
    OBVIOUS
  <2>1. ASSUME NEW id \in Ids, Remove(id) PROVE Table!Next
    <3>1. Table!Remove(id)
      BY <2>1, RemoveRefines
         DEF Table!Remove, Table!TableRemove, Table!TableIds, Table!SwapRemove,
             Table!PositionOf, TableRemove, TableIds, SwapRemove, PositionOf
    <3> QED
      BY <3>1 DEF Table!Next
  <2>2. ASSUME NEW id \in Ids, NEW value \in Values, Put(id, value)
        PROVE  Table!Next
    <3>1. Contents' = TablePut(Contents, id, value)
      BY <2>2, OverwriteRefines, AddRefines DEF Put
    <3>2. Table!Put(id, value)
      BY <3>1 DEF Table!Put, Table!TablePut, Table!TableIds, TablePut, TableIds
    <3> QED
      BY <3>2 DEF Table!Next
  <2>3. CASE UNCHANGED vars
    BY <2>3 DEF vars, Contents, GetDenseIndex
  <2> QED
    BY <2>1, <2>2, <2>3 DEF Next
<1>3. Spec => []Inv
  BY InitInv, NextInv, PTL DEF Spec
<1> QED
  BY <1>1, <1>2, <1>3, PTL DEF Spec, Table!Spec, ImplementsIdTable
=============================================================================

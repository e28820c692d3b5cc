----------------------------- MODULE SparseSet ------------------------------
(* FURLANG_SPARSE_SET (furlang/include/furlang/utils/sparseSet.h).           *)
(*   dense          the values, packed                                       *)
(*   denseToSparse  the id of each dense value                               *)
(*   sparse         pages of dense indexes by id, allocated on demand        *)
(* Dense indexes start at 0, as in the code; the index -1 says "no value".   *)
EXTENDS Tables

CONSTANTS
  PageSize,   \* ids per page: 4 for executors, 8 for things (src/context.h:14)
  Ids,        \* the ids the client uses
  Values

ASSUME PageSizeAssumption == PageSize \in Nat \ {0}
ASSUME IdsAssumption == Ids \subseteq Nat

VARIABLES sparse, dense, denseToSparse

vars == <<sparse, dense, denseToSparse>>

None == -1
DenseIndex == Nat \cup {None}
Page == [0..(PageSize - 1) -> DenseIndex]

\* memset(page, 0xFF)
FreshPage == [offset \in 0..(PageSize - 1) |-> None]

TypeOK ==
  /\ sparse \in Seq(Page)
  /\ dense \in Seq(Values)
  /\ denseToSparse \in Seq(Ids)
-----------------------------------------------------------------------------
PageOf(id)   == (id \div PageSize) + 1
OffsetOf(id) == id % PageSize

GetDenseIndex(pages, id) ==
  IF PageOf(id) > Len(pages) THEN None ELSE pages[PageOf(id)][OffsetOf(id)]

\* A slip: the new pages are one id too short.
GrownShort(pages, count) ==
  [p \in 1..(IF count > Len(pages) THEN count ELSE Len(pages)) |->
     IF p <= Len(pages) THEN pages[p] ELSE [offset \in 0..(PageSize - 2) |-> None]]

Grown(pages, count) ==
  [p \in 1..(IF count > Len(pages) THEN count ELSE Len(pages)) |->
     IF p <= Len(pages) THEN pages[p] ELSE FreshPage]

SetDenseIndex(pages, id, index) ==
  [Grown(pages, PageOf(id)) EXCEPT
     ![PageOf(id)] = [@ EXCEPT ![OffsetOf(id)] = index]]

\* A slip: the moved id keeps its old dense index.
UnindexForgettingTheMoved(pages, id, moved) == SetDenseIndex(pages, id, None)

\* REMOVE points the last id at the freed index before it unlinks the removed
\* id: when they are the same id, the order matters.
Unindex(pages, id, moved) ==
  SetDenseIndex(SetDenseIndex(pages, moved, GetDenseIndex(pages, id)), id, None)
-----------------------------------------------------------------------------
Init == sparse = <<>> /\ dense = <<>> /\ denseToSparse = <<>>

Overwrite(id, value) ==
  LET index == GetDenseIndex(sparse, id)
  IN  /\ index # None
      /\ dense' = [dense EXCEPT ![index + 1] = value]
      /\ denseToSparse' = [denseToSparse EXCEPT ![index + 1] = id]
      /\ UNCHANGED sparse

Add(id, value) ==
  /\ GetDenseIndex(sparse, id) = None
  /\ sparse' = SetDenseIndex(sparse, id, Len(dense))
  /\ dense' = Append(dense, value)
  /\ denseToSparse' = Append(denseToSparse, id)

Put(id, value) == Overwrite(id, value) \/ Add(id, value)

\* A slip: the values move up in order, while the ids are swapped.
RemoveShiftingValues(id) ==
  LET index == GetDenseIndex(sparse, id)
  IN  /\ index # None
      /\ sparse' = Unindex(sparse, id, denseToSparse[Len(denseToSparse)])
      /\ dense' = [j \in 1..(Len(dense) - 1) |-> dense[IF j <= index THEN j ELSE j + 1]]
      /\ denseToSparse' = SwapRemove(denseToSparse, index + 1)

\* Removing an absent id leaves the macro early.
Remove(id) ==
  LET index == GetDenseIndex(sparse, id)
  IN  /\ index # None
      /\ sparse' = Unindex(sparse, id, denseToSparse[Len(denseToSparse)])
      /\ dense' = SwapRemove(dense, index + 1)
      /\ denseToSparse' = SwapRemove(denseToSparse, index + 1)

Next == \E id \in Ids : Remove(id) \/ \E value \in Values : Put(id, value)

Spec == Init /\ [][Next]_vars
-----------------------------------------------------------------------------
\* Every dense slot is found through the id stored beside it.
SlotsAreIndexed ==
  \A k \in DOMAIN denseToSparse : GetDenseIndex(sparse, denseToSparse[k]) = k - 1

\* Every index a page holds points at a dense slot that belongs to that id.
IndexesAreSlots ==
  \A id \in Ids :
    LET index == GetDenseIndex(sparse, id)
    IN  index # None => /\ index + 1 \in DOMAIN denseToSparse
                        /\ denseToSparse[index + 1] = id

\* The pages and the packed arrays describe the same finite map, whatever
\* sequence of PUT and REMOVE built them (sparseSet.h:27-70): no id is lost,
\* found twice, or found at another id's value after a swap-remove.
Bijection ==
  /\ Len(dense) = Len(denseToSparse)
  /\ SlotsAreIndexed
  /\ IndexesAreSlots

\* The table the three arrays stand for.
Contents ==
  [order |-> denseToSparse,
   entry |-> [id \in {denseToSparse[k] : k \in DOMAIN denseToSparse} |->
                dense[GetDenseIndex(sparse, id) + 1]]]

Table == INSTANCE IdTable WITH table <- Contents

\* The macros implement the abstract table: each PUT and REMOVE changes one
\* entry and the visiting order exactly as IdTable says (sparseSet.h:46-70).
ImplementsIdTable == Table!Spec
=============================================================================

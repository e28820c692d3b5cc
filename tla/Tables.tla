------------------------------- MODULE Tables -------------------------------
(* The value a sparse set (furlang/include/furlang/utils/sparseSet.h) stands *)
(* for: entries by id, and the order in which FOREACH visits the ids.        *)
(* SparseSet refines IdTable, the state machine over these operators;        *)
(* Heap and Runtime use them for the two tables of a context.                *)
EXTENDS Integers, Sequences

EmptyTable == [order |-> <<>>, entry |-> <<>>]

TableIds(t)  == DOMAIN t.entry
TableSize(t) == Len(t.order)

PositionOf(s, x) == CHOOSE k \in DOMAIN s : s[k] = x

\* Element k goes; the last element takes its place.
SwapRemove(s, k) == [j \in 1..(Len(s) - 1) |-> IF j = k THEN s[Len(s)] ELSE s[j]]

TablePut(t, id, value) ==
  IF id \in TableIds(t)
  THEN [t EXCEPT !.entry[id] = value]
  ELSE [order |-> Append(t.order, id),
        entry |-> [i \in TableIds(t) \cup {id} |->
                     IF i = id THEN value ELSE t.entry[i]]]

TableRemove(t, id) ==
  IF id \notin TableIds(t)
  THEN t
  ELSE [order |-> SwapRemove(t.order, PositionOf(t.order, id)),
        entry |-> [i \in TableIds(t) \ {id} |-> t.entry[i]]]
=============================================================================

------------------------------ MODULE IdTable -------------------------------
(* What a sparse set promises: a table from ids to values that remembers a   *)
(* visiting order.  Putting an id that is present overwrites its entry and   *)
(* leaves the order; a new id is visited last; removing an id moves the last *)
(* id of the order into its place.                                           *)
EXTENDS Tables

CONSTANTS Ids, Values

VARIABLE table

Init == table = EmptyTable

Put(id, value) == table' = TablePut(table, id, value)

Remove(id) == table' = TableRemove(table, id)

Next == \E id \in Ids : Remove(id) \/ \E value \in Values : Put(id, value)

Spec == Init /\ [][Next]_table
=============================================================================

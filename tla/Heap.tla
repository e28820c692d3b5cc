-------------------------------- MODULE Heap --------------------------------
(* The things of a context (furlang/src/context.c:96-128, src/thing.c).  A   *)
(* heap is a record                                                          *)
(*   things    table of [type, references, data]; data is an arena cell      *)
(*   dead      deadThings: [type, id, data] of every thing ever collected    *)
(*   cells     the arena: what each cell was allocated for, and its value    *)
(*   capacity  capacity of things.dense                                      *)
(* The module holds operators only: Machine and ThingPool use them.          *)
EXTENDS Tables, FiniteSets, FiniteSetsExt

CONSTANTS
  FirstCapacity,  \* first capacity of a dynamic array: 16 (utils/da.h:13)
  WildValues,     \* what a read through a dangling pointer may return
  FreshValues     \* what a cell may hold that was never written

ASSUME FirstCapacityAssumption == FirstCapacity \in Nat \ {0}
ASSUME WildValuesAssumption == WildValues \subseteq Int
ASSUME FreshValuesAssumption == FreshValues \subseteq Int /\ FreshValues # {}

INT == "int"
FUNCTION == "function"
ThingTypes == {INT, FUNCTION}

DeadThing == -1

EmptyHeap == [things |-> EmptyTable, dead |-> <<>>, cells |-> <<>>, capacity |-> 0]

LiveThings(h) == TableIds(h.things)
Thing(h, id)  == h.things.entry[id]
Value(h, id)  == h.cells[Thing(h, id).data].value
SetValue(h, id, value) == [h EXCEPT !.cells[Thing(h, id).data].value = value]
-----------------------------------------------------------------------------
\* SPARSE_SET_PUT of a fresh _Furlang_Thing: its count starts at zero, also
\* when the id is in use.  A new id may need a larger dense array.
PutThing(h, id, type, data) ==
  [h EXCEPT
     !.things = TablePut(@, id, [type |-> type, references |-> 0, data |-> data]),
     !.capacity = IF id \notin LiveThings(h) /\ TableSize(h.things) >= @
                  THEN IF @ = 0 THEN FirstCapacity ELSE 2 * @
                  ELSE @]

\* The dead entries the loop of append_thing would take.
Reusable(h, type) == {k \in DOMAIN h.dead : h.dead[k].type = type}

\* The id append_thing returns.  A dead entry stays in the list when it is
\* reused, and a new id is the number of things, whatever ids are in use.
AppendedId(h, type) ==
  IF Reusable(h, type) # {}
  THEN h.dead[Min(Reusable(h, type))].id
  ELSE TableSize(h.things)

\* A slip: a dead entry is taken without looking at its type.
AppendThingOfAnyType(h, type) ==
  IF h.dead # <<>>
  THEN PutThing(h, h.dead[1].id, type, h.dead[1].data)
  ELSE PutThing([h EXCEPT !.cells = Append(@, [type |-> type, value |-> 0])],
                TableSize(h.things), type, Len(h.cells) + 1)

\* A slip: every INT shares the first cell of the arena.
AppendThingSharingCells(h, type) ==
  PutThing([h EXCEPT !.cells = Append(@, [type |-> type, value |-> 0])],
           TableSize(h.things), type, 1)

AppendThing(h, type) ==
  IF Reusable(h, type) # {}
  THEN LET t == h.dead[Min(Reusable(h, type))]
       IN  PutThing(h, t.id, type, t.data)
  ELSE PutThing([h EXCEPT !.cells = Append(@, [type |-> type, value |-> 0])],
                TableSize(h.things), type, Len(h.cells) + 1)

\* append_thing reallocates things.dense: pointers into it dangle.
Moves(h, type) ==
  /\ AppendedId(h, type) \notin LiveThings(h)
  /\ h.capacity > 0
  /\ TableSize(h.things) >= h.capacity

\* What code reads that kept a pointer to thing id across append_thing: the
\* value the thing had when the array stayed or the freed block is still
\* intact.  If the id is given to the new thing as well, the pointer leads to
\* the new thing's cell: that of a dead entry, or one nobody has written to.
ReadAcrossAppend(h, type, id) ==
  IF id # AppendedId(h, type)
  THEN {Value(h, id)} \cup (IF Moves(h, type) THEN WildValues ELSE {})
  ELSE IF Reusable(h, type) # {} THEN {Value(AppendThing(h, type), id)} ELSE FreshValues

\* remove_thing: the entry goes to the end of the dead list.
RemoveThing(h, id) ==
  [h EXCEPT
     !.things = TableRemove(@, id),
     !.dead = Append(@, [type |-> Thing(h, id).type, id |-> id,
                         data |-> Thing(h, id).data])]

\* One turn of collect's loop, at position k.
AfterVisit(h, k) ==
  LET id == h.things.order[k]
  IN  IF Thing(h, id).references # 0 THEN h ELSE RemoveThing(h, id)
-----------------------------------------------------------------------------
Reference(h, id)   == [h EXCEPT !.things.entry[id].references = @ + 1]
Unreference(h, id) == [h EXCEPT !.things.entry[id].references = @ - 1]

Occurrences(id, slots) == Cardinality({k \in DOMAIN slots : slots[k] = id})

\* The slots of several arrays as one: place <<i, k>> is slot k of array i.
Gathered(arrays) ==
  [place \in UNION {{i} \X DOMAIN arrays[i] : i \in DOMAIN arrays} |->
     arrays[place[1]][place[2]]]

\* Unreferencing the slots one after the other passes both assertions of
\* thing.c:33-34 each time.
CanRelease(h, slots) ==
  \A k \in DOMAIN slots :
    /\ slots[k] \in LiveThings(h)
    /\ Occurrences(slots[k], slots) <= Thing(h, slots[k]).references

Release(h, slots) ==
  [h EXCEPT !.things.entry =
     [id \in LiveThings(h) |->
        [Thing(h, id) EXCEPT !.references = @ - Occurrences(id, slots)]]]
-----------------------------------------------------------------------------
HeapTypeOK(h) ==
  /\ DOMAIN h = {"things", "dead", "cells", "capacity"}
  /\ h.capacity \in Nat
  /\ \A c \in DOMAIN h.cells : h.cells[c].type \in ThingTypes /\ h.cells[c].value \in Int
  /\ \A id \in LiveThings(h) :
       /\ id \in Nat
       /\ Thing(h, id).type \in ThingTypes
       /\ Thing(h, id).references \in Nat
       /\ Thing(h, id).data \in DOMAIN h.cells
  /\ \A k \in DOMAIN h.dead :
       /\ h.dead[k].type \in ThingTypes
       /\ h.dead[k].id \in Nat
       /\ h.dead[k].data \in DOMAIN h.cells
=============================================================================

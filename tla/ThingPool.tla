----------------------------- MODULE ThingPool ------------------------------
(* A host that uses the thing interface of the library                       *)
(* (furlang/include/furlang/thing.h:25-29) together with                     *)
(* furlang_context_collect (src/context.c:39-44).  The host is balanced: it  *)
(* unreferences only what it references, and keeps a handle across a         *)
(* collection only when it holds a reference to it.                          *)
EXTENDS Heap

CONSTANTS
  MaxThings,      \* bound on live things, so on ids
  MaxCells,       \* bound on arena cells
  MaxHeld,        \* bound on the references the host holds to one handle
  MaxCollections  \* bound on calls of collect

ASSUME BoundsAssumption ==
  MaxThings \in Nat /\ MaxCells \in Nat /\ MaxHeld \in Nat /\ MaxCollections \in Nat

VARIABLES
  heap,
  held,         \* references the host holds, by handle
  loose,        \* handles created since the last collection, not yet dropped
  sweep,        \* position of collect's cursor; 0 outside collect
  freed,        \* things the current or last collection removed
  collections,
  fault         \* the assertion that aborted the process, or NoFault

vars == <<heap, held, loose, sweep, freed, collections, fault>>
host == <<held, loose>>
collector == <<sweep, freed, collections>>

NoFault == "none"
Handles == 0..(MaxThings - 1)

Init ==
  /\ heap = EmptyHeap
  /\ held = [id \in Handles |-> 0]
  /\ loose = {}
  /\ sweep = 0 /\ freed = 0 /\ collections = 0
  /\ fault = NoFault

HostRuns == fault = NoFault /\ sweep = 0

HasRoom == TableSize(heap.things) < MaxThings /\ Len(heap.cells) < MaxCells

Usable(id) == held[id] > 0 \/ id \in loose

Abort(assertion) ==
  /\ fault' = assertion
  /\ UNCHANGED <<heap, host, collector>>
-----------------------------------------------------------------------------
\* furlang_thing_create
Create(type) ==
  /\ HostRuns /\ HasRoom
  /\ heap' = AppendThing(heap, type)
  /\ loose' = loose \cup {AppendedId(heap, type)}
  /\ UNCHANGED <<held, collector, fault>>

\* furlang_thing_clone reads the source through a pointer it took before
\* append_thing.
Clone(source) ==
  /\ HostRuns /\ HasRoom /\ Usable(source)
  /\ IF source \notin LiveThings(heap)
     THEN Abort("thing is live")
     ELSE LET type == Thing(heap, source).type
          IN  \/ /\ \E value \in ReadAcrossAppend(heap, type, source) :
                      heap' = SetValue(AppendThing(heap, type), AppendedId(heap, type), value)
                 /\ loose' = loose \cup {AppendedId(heap, type)}
                 /\ UNCHANGED <<held, collector, fault>>
              \/ Moves(heap, type) /\ Abort("use after free")

\* furlang_thing_reference
Take(id) ==
  /\ HostRuns /\ Usable(id) /\ held[id] < MaxHeld
  /\ IF id \notin LiveThings(heap)
     THEN Abort("thing is live")
     ELSE /\ heap' = Reference(heap, id)
          /\ held' = [held EXCEPT ![id] = @ + 1]
          /\ UNCHANGED <<loose, collector, fault>>

\* A slip: unreference forgets to decrement.
DropKeepingTheCount(id) ==
  /\ HostRuns /\ held[id] > 0
  /\ held' = [held EXCEPT ![id] = @ - 1]
  /\ UNCHANGED <<heap, loose, collector, fault>>

\* A slip: unreference decrements a count of zero, too.
DropUnchecked(id) ==
  /\ HostRuns /\ held[id] > 0
  /\ IF id \notin LiveThings(heap) THEN Abort("thing is live")
     ELSE /\ heap' = Unreference(heap, id)
          /\ held' = [held EXCEPT ![id] = @ - 1]
          /\ UNCHANGED <<loose, collector, fault>>

\* furlang_thing_unreference
Drop(id) ==
  /\ HostRuns /\ held[id] > 0
  /\ IF id \notin LiveThings(heap) THEN Abort("thing is live")
     ELSE IF Thing(heap, id).references = 0 THEN Abort("count is positive")
     ELSE /\ heap' = Unreference(heap, id)
          /\ held' = [held EXCEPT ![id] = @ - 1]
          /\ UNCHANGED <<loose, collector, fault>>
-----------------------------------------------------------------------------
\* furlang_context_collect starts its FOREACH over the things.
BeginCollect ==
  /\ HostRuns /\ collections < MaxCollections
  /\ sweep' = 1 /\ freed' = 0 /\ collections' = collections + 1
  /\ loose' = {}
  /\ UNCHANGED <<heap, held, fault>>

Visited == heap.things.order[sweep]

\* A slip: what is referenced goes, what is not stays.
CollectVisitInverted ==
  /\ fault = NoFault /\ sweep \in DOMAIN heap.things.order
  /\ IF Thing(heap, Visited).references = 0
     THEN UNCHANGED <<heap, freed>>
     ELSE heap' = RemoveThing(heap, Visited) /\ freed' = freed + 1
  /\ sweep' = sweep + 1
  /\ UNCHANGED <<host, collections, fault>>

\* A slip: the cursor advances by two after a removal.
CollectVisitSkipping ==
  /\ fault = NoFault /\ sweep \in DOMAIN heap.things.order
  /\ IF Thing(heap, Visited).references # 0
     THEN UNCHANGED <<heap, freed>> /\ sweep' = sweep + 1
     ELSE /\ heap' = RemoveThing(heap, Visited) /\ freed' = freed + 1
          /\ sweep' = sweep + 2
  /\ UNCHANGED <<host, collections, fault>>

\* One turn of the loop.  The cursor advances also after a removal, though
\* the last thing has just moved to the position it leaves.
CollectVisit ==
  /\ fault = NoFault /\ sweep \in DOMAIN heap.things.order
  /\ heap' = AfterVisit(heap, sweep)
  /\ freed' = freed + TableSize(heap.things) - TableSize(heap'.things)
  /\ sweep' = sweep + 1
  /\ UNCHANGED <<host, collections, fault>>

\* The loop ends when the cursor equals the end of the shrunken array; a
\* cursor beyond it reads stale ids until an assertion or the MMU stops it.
CollectEnds ==
  /\ fault = NoFault /\ sweep > TableSize(heap.things)
  /\ IF sweep = TableSize(heap.things) + 1
     THEN sweep' = 0 /\ UNCHANGED <<heap, host, freed, collections, fault>>
     ELSE Abort("cursor is inside the table")
-----------------------------------------------------------------------------
Next ==
  \/ \E type \in ThingTypes : Create(type)
  \/ \E id \in Handles : Clone(id) \/ Take(id) \/ Drop(id)
  \/ BeginCollect
  \/ CollectVisit
  \/ CollectEnds

Spec == Init /\ [][Next]_vars
-----------------------------------------------------------------------------
TypeOK ==
  /\ HeapTypeOK(heap)
  /\ held \in [Handles -> 0..MaxHeld]
  /\ loose \subseteq Handles
  /\ sweep \in Nat /\ freed \in Nat /\ collections \in 0..MaxCollections

\* No two live things share an arena cell, and a cell is only ever used for
\* the type it was sized for, although ids and cells are recycled through a
\* dead list whose entries never leave it (context.c:99-113).
CellsAreOwned ==
  /\ \A i, j \in LiveThings(heap) : i # j => Thing(heap, i).data # Thing(heap, j).data
  /\ \A i \in LiveThings(heap) : heap.cells[Thing(heap, i).data].type = Thing(heap, i).type

\* As long as nothing was ever removed, the count of a thing is exactly the
\* number of references the host holds, so a balanced host meets no assertion
\* (thing.c:25-37); the first removal ends this guarantee.
CountsExactUntilFirstRemoval ==
  heap.dead = <<>> =>
    /\ \A id \in Handles :
         held[id] = IF id \in LiveThings(heap) THEN Thing(heap, id).references ELSE 0
    /\ fault \in {NoFault, "use after free"}

\* A collection that does not run past the end of the table leaves at most as
\* many unreferenced things behind its cursor as it has removed: each removal
\* hides one thing, the one that moved into the gap (context.c:40-43).
Garbage(positions) ==
  {k \in positions : Thing(heap, heap.things.order[k]).references = 0}

GarbageLeftBounded ==
  sweep \in 1..(TableSize(heap.things) + 1) =>
    Cardinality(Garbage(1..(sweep - 1))) <= freed

\* The collector never touches a thing somebody counts on: neither its entry
\* nor the value in its cell (context.c:41).
CollectKeepsReferenced ==
  [][sweep > 0 =>
       \A id \in LiveThings(heap) : Thing(heap, id).references > 0 =>
         /\ id \in LiveThings(heap')
         /\ Thing(heap', id) = Thing(heap, id)
         /\ Value(heap', id) = Value(heap, id)]_vars

\* thing.c:34, assert(t->referenceCount): a host that unreferences only what it
\* referenced always finds a positive count.
CountIsPositiveWhenDropped == fault # "count is positive"

\* sparseSet.h:73, the assertion inside GET: collect's loop only visits ids that
\* are in the table.
CollectVisitsOnlyLiveThings == fault # "cursor is inside the table"
=============================================================================

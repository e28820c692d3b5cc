-------------------------- MODULE ThingPoolProofs ---------------------------
(* Proofs about a host of the thing interface and collect                    *)
(* (furlang/src/thing.c, furlang/src/context.c:39-44, 96-128).               *)
EXTENDS ThingPool, HeapProofs

-----------------------------------------------------------------------------
\* The heap of a pool: ids are handles, counts are numbers, values are integers.
PoolHeap(h) ==
  /\ HeapInv(h)
  /\ \A id \in LiveThings(h) : id \in Handles /\ Thing(h, id).references \in Nat
  /\ \A k \in DOMAIN h.dead : h.dead[k].id \in Handles
  /\ \A c \in DOMAIN h.cells : h.cells[c].value \in Int

\* The inductive invariant behind the types and the ownership of cells.
PoolInv ==
  /\ PoolHeap(heap)
  /\ held \in [Handles -> 0..MaxHeld] /\ loose \subseteq Handles
  /\ sweep \in Nat /\ freed \in Nat /\ collections \in 0..MaxCollections

\* One lemma per operation on the heap.
LEMMA EmptyPoolHeap == PoolHeap(EmptyHeap)
<1>1. EmptyHeap.things.entry = <<>> /\ EmptyHeap.dead = <<>> /\ EmptyHeap.cells = <<>>
  BY DEF EmptyHeap, EmptyTable
<1>2. \A S : LiveThings(EmptyHeap) = {} /\ DOMAIN EmptyHeap.dead = {} /\ DOMAIN EmptyHeap.cells = {}
  BY <1>1 DEF LiveThings, TableIds
<1> QED BY <1>2, EmptyHeapInv DEF PoolHeap

LEMMA AppendedPoolHeap ==
  ASSUME NEW h, PoolHeap(h), TableSize(h.things) < MaxThings, NEW type \in ThingTypes,
         NEW g, g = AppendThing(h, type), NEW id, id = AppendedId(h, type)
  PROVE  /\ PoolHeap(g) /\ id \in Handles /\ id \in LiveThings(g)
         /\ LiveThings(g) = LiveThings(h) \cup {id}
         /\ Thing(g, id).references = 0 /\ g.dead = h.dead
         /\ \A i \in LiveThings(h) : i # id => Thing(g, i) = Thing(h, i)
         /\ g.things.order = IF id \in LiveThings(h) THEN h.things.order
                             ELSE Append(h.things.order, id)
<1>1. /\ HeapInv(h) /\ h.things.order \in Seq(Nat) /\ IsSequence(h.dead)
      /\ \A i \in LiveThings(h) : i \in Handles /\ Thing(h, i).references \in Nat
      /\ \A k \in DOMAIN h.dead : h.dead[k].id \in Handles
      /\ \A c \in DOMAIN h.cells : h.cells[c].value \in Int
  BY DEF PoolHeap, HeapInv, HeapShape
<1>2. id \in Handles
  <2>1. CASE Reusable(h, type) # {}
    <3>1. PICK S : h.dead \in Seq(S)
      BY <1>1 DEF IsSequence
    <3>2. Reusable(h, type) \in SUBSET Nat
      BY <3>1 DEF Reusable
    <3>3. Min(Reusable(h, type)) \in DOMAIN h.dead
      BY <2>1, <3>2, MinOfSet DEF Reusable
    <3> QED BY <2>1, <3>3, <1>1 DEF AppendedId
  <2>2. CASE Reusable(h, type) = {}
    <3>1. id = TableSize(h.things) /\ id \in Nat
      BY <2>2, <1>1 DEF AppendedId, TableSize
    <3> QED BY <3>1, BoundsAssumption DEF Handles
  <2> QED BY <2>1, <2>2
<1>3. /\ HeapInv(g) /\ g.dead = h.dead
      /\ LiveThings(g) = LiveThings(h) \cup {id}
      /\ g.things.order = IF id \in LiveThings(h) THEN h.things.order
                          ELSE Append(h.things.order, id)
  BY <1>1, ThingAppended
<1>4. /\ \A i \in LiveThings(h) : i # id => Thing(g, i) = Thing(h, i)
      /\ Thing(g, id).references = 0
  BY <1>1, ThingAppended
<1>5. /\ \A c \in DOMAIN h.cells : g.cells[c] = h.cells[c]
      /\ \A c \in DOMAIN g.cells \ DOMAIN h.cells : g.cells[c].value = 0
  BY <1>1, ThingAppended
<1>6. \A c \in DOMAIN g.cells : g.cells[c].value \in Int
  BY <1>1, <1>5
<1>7. \A i \in LiveThings(g) : i \in Handles /\ Thing(g, i).references \in Nat
  BY <1>1, <1>2, <1>3, <1>4
<1>8. PoolHeap(g)
  BY <1>1, <1>3, <1>6, <1>7 DEF PoolHeap
<1> QED BY <1>2, <1>3, <1>4, <1>8

LEMMA AssignedPoolHeap ==
  ASSUME NEW h, PoolHeap(h), NEW id \in LiveThings(h), NEW value \in Int,
         NEW g, g = SetValue(h, id, value)
  PROVE  PoolHeap(g) /\ g.things = h.things /\ g.dead = h.dead
<1>1. HeapInv(h)
  BY DEF PoolHeap
<1>2. HeapInv(g) /\ g.things = h.things /\ g.dead = h.dead
  BY <1>1, ValueChanged
<1>3. \A c \in DOMAIN g.cells : g.cells[c].value = value \/ g.cells[c].value = h.cells[c].value
  <2>1. /\ g.cells[Thing(h, id).data].value = value
        /\ DOMAIN g.cells = DOMAIN h.cells
        /\ \A d \in DOMAIN h.cells : d # Thing(h, id).data => g.cells[d] = h.cells[d]
    BY <1>1, ValueChanged
  <2> QED BY <2>1
<1>4. DOMAIN g.cells = DOMAIN h.cells
  BY <1>1, ValueChanged
<1> QED BY <1>2, <1>3, <1>4 DEF PoolHeap, LiveThings, Thing

LEMMA CountedPoolHeap ==
  ASSUME NEW h, PoolHeap(h), NEW id \in LiveThings(h), NEW count \in Nat,
         NEW g, g = WithCount(h, id, count)
  PROVE  /\ PoolHeap(g) /\ g.dead = h.dead /\ g.things.order = h.things.order
         /\ LiveThings(g) = LiveThings(h)
         /\ Thing(g, id).references = count
         /\ \A i \in LiveThings(h) : i # id => Thing(g, i) = Thing(h, i)
<1>1. HeapInv(h)
  BY DEF PoolHeap
<1>2. /\ HeapInv(g)
      /\ g.cells = h.cells /\ g.dead = h.dead /\ g.things.order = h.things.order
      /\ LiveThings(g) = LiveThings(h)
      /\ \A i \in LiveThings(h) :
           Thing(g, i) = IF i = id THEN [Thing(h, i) EXCEPT !.references = count] ELSE Thing(h, i)
  BY <1>1, CountChanged
<1>3. IsThing(Thing(h, id))
  BY <1>1 DEF HeapInv, HeapShape
<1>4. Thing(g, id).references = count
  BY <1>2, <1>3 DEF IsThing
<1> QED BY <1>2, <1>4 DEF PoolHeap

LEMMA VisitedPoolHeap ==
  ASSUME NEW h, PoolHeap(h), NEW k \in DOMAIN h.things.order,
         NEW g, g = AfterVisit(h, k), NEW id, id = h.things.order[k]
  PROVE  /\ id \in LiveThings(h)
         /\ PoolHeap(g) /\ g.cells = h.cells
         /\ \/ g = h /\ Thing(h, id).references # 0
            \/ /\ Thing(h, id).references = 0
               /\ g.dead # <<>>
               /\ LiveThings(g) = LiveThings(h) \ {id}
               /\ \A i \in LiveThings(g) : Thing(g, i) = Thing(h, i)
               /\ g.things.order = SwapRemove(h.things.order, k)
<1>1. /\ HeapInv(h) /\ WellFormed(h.things) /\ Distinct(h.things.order)
      /\ IsSequence(h.dead)
  BY DEF PoolHeap, HeapInv, HeapShape
<1>2. id \in LiveThings(h)
  BY <1>1 DEF WellFormed, LiveThings
<1>3. CASE Thing(h, id).references # 0
  BY <1>2, <1>3 DEF AfterVisit
<1>4. CASE Thing(h, id).references = 0
  <2>1. g = RemoveThing(h, id)
    BY <1>4 DEF AfterVisit
  <2> DEFINE entry == DeadEntry(h, id)
  <2>2. /\ HeapInv(g)
        /\ g.cells = h.cells
        /\ g.dead = Append(h.dead, entry)
        /\ LiveThings(g) = LiveThings(h) \ {id}
        /\ \A i \in LiveThings(g) : Thing(g, i) = Thing(h, i)
    BY <2>1, <1>1, <1>2, ThingRemoved
  <2>3. g.things.order = SwapRemove(h.things.order, k)
    <3>1. PICK p \in DOMAIN h.things.order :
             h.things.order[p] = id /\ g.things.order = SwapRemove(h.things.order, p)
      BY <2>1, <1>1, <1>2, ThingRemoved
    <3>2. p = k
      BY <3>1, <1>1 DEF Distinct
    <3> QED BY <3>1, <3>2
  <2>4. entry.id = id
    BY DEF DeadEntry
  <2> HIDE DEF entry
  <2>5. \A j \in DOMAIN g.dead : (j \in DOMAIN h.dead /\ g.dead[j] = h.dead[j]) \/ g.dead[j] = entry
    <3>1. PICK S : h.dead \in Seq(S)
      BY <1>1 DEF IsSequence
    <3>2. h.dead \in Seq(S \cup {entry})
      BY <3>1, SeqMonotonic
    <3>3. /\ DOMAIN g.dead = 1..(Len(h.dead) + 1) /\ g.dead[Len(h.dead) + 1] = entry
          /\ \A j \in 1..Len(h.dead) : g.dead[j] = h.dead[j]
          /\ DOMAIN h.dead = 1..Len(h.dead) /\ Len(h.dead) \in Nat
      BY <2>2, <3>2, AppendProperties
    <3>4. \A j \in 1..(Len(h.dead) + 1) : j \in 1..Len(h.dead) \/ j = Len(h.dead) + 1
      BY <3>3
    <3> QED BY <3>3, <3>4
  <2>6. g.dead # <<>>
    BY <2>2, <1>1, AppendedSequence
  <2>7. PoolHeap(g)
    BY <1>2, <2>2, <2>4, <2>5 DEF PoolHeap
  <2> QED BY <1>2, <1>4, <2>2, <2>3, <2>6, <2>7
<1> QED BY <1>3, <1>4
-----------------------------------------------------------------------------
\* What the actions do, from a state of PoolInv: a thing is made at an id; the
\* count of a thing and what the host holds of it change by the same amount.
Made(id) ==
  /\ PoolHeap(heap') /\ LiveThings(heap') = LiveThings(heap) \cup {id}
  /\ Thing(heap', id).references = 0 /\ heap'.dead = heap.dead
  /\ \A i \in LiveThings(heap) : i # id => Thing(heap', i) = Thing(heap, i)
  /\ heap'.things.order = IF id \in LiveThings(heap) THEN heap.things.order
                          ELSE Append(heap.things.order, id)
  /\ loose' = loose \cup {id} /\ sweep = 0
  /\ UNCHANGED <<held, collector, fault>>

PoolRecounted(id, change) ==
  /\ PoolHeap(heap') /\ heap'.dead = heap.dead
  /\ heap'.things.order = heap.things.order
  /\ LiveThings(heap') = LiveThings(heap)
  /\ Thing(heap', id).references = Thing(heap, id).references + change
  /\ \A i \in LiveThings(heap) : i # id => Thing(heap', i) = Thing(heap, i)
  /\ held' = [held EXCEPT ![id] = held[id] + change] /\ sweep = 0
  /\ UNCHANGED <<loose, collector, fault>>

LEMMA CreateStep ==
  ASSUME PoolInv, NEW type \in ThingTypes, Create(type)
  PROVE  \E id \in Handles :
           id = AppendedId(heap, type) /\ Made(id)
<1>1. PICK g, id : g = AppendThing(heap, type) /\ id = AppendedId(heap, type)
  OBVIOUS
<1>2. /\ heap' = g /\ loose' = loose \cup {id} /\ sweep = 0
      /\ UNCHANGED <<held, collector, fault>>
      /\ TableSize(heap.things) < MaxThings
  BY <1>1 DEF Create, HostRuns, HasRoom
<1>3. PoolHeap(heap)
  BY DEF PoolInv
<1>4. /\ PoolHeap(g) /\ id \in Handles /\ LiveThings(g) = LiveThings(heap) \cup {id}
      /\ Thing(g, id).references = 0 /\ g.dead = heap.dead
      /\ \A i \in LiveThings(heap) : i # id => Thing(g, i) = Thing(heap, i)
      /\ g.things.order = IF id \in LiveThings(heap) THEN heap.things.order
                          ELSE Append(heap.things.order, id)
  BY <1>1, <1>2, <1>3, AppendedPoolHeap
<1> QED BY <1>1, <1>2, <1>4 DEF Made

\* Cloning creates a thing of the source's type, or aborts.
LEMMA CloneStep ==
  ASSUME PoolInv, NEW source \in Handles, Clone(source)
  PROVE  \/ Usable(source) /\ source \notin LiveThings(heap) /\ Abort("thing is live")
         \/ Abort("use after free")
         \/ \E type \in ThingTypes, id \in Handles :
              id = AppendedId(heap, type) /\ Made(id)
<1>1. PoolHeap(heap)
  BY DEF PoolInv
<1>2. CASE source \notin LiveThings(heap)
  BY <1>2 DEF Clone
<1>3. CASE source \in LiveThings(heap)
  <2>1. PICK type : type = Thing(heap, source).type
    OBVIOUS
  <2>2. type \in ThingTypes /\ Thing(heap, source).data \in DOMAIN heap.cells
    BY <1>1, <1>3, <2>1 DEF PoolHeap, HeapInv, HeapShape, IsThing
  <2>3. CASE Abort("use after free")
    BY <2>3
  <2>4. CASE \E value \in ReadAcrossAppend(heap, type, source) :
               /\ heap' = SetValue(AppendThing(heap, type), AppendedId(heap, type), value)
               /\ loose' = loose \cup {AppendedId(heap, type)}
               /\ UNCHANGED <<held, collector, fault>>
    <3>1. PICK value \in ReadAcrossAppend(heap, type, source) :
               heap' = SetValue(AppendThing(heap, type), AppendedId(heap, type), value)
      BY <2>4
    <3>2. value \in Int
      <4>1. TypedHeap(heap)
        BY <1>1 DEF PoolHeap, TypedHeap
      <4> QED BY <4>1, <1>3, <2>2, <3>1, ReadIsInt
    <3>3. PICK g, id : g = AppendThing(heap, type) /\ id = AppendedId(heap, type)
      OBVIOUS
    <3>4. TableSize(heap.things) < MaxThings /\ sweep = 0
      BY DEF Clone, HasRoom, HostRuns
    <3>5. /\ PoolHeap(g) /\ id \in Handles /\ LiveThings(g) = LiveThings(heap) \cup {id}
          /\ id \in LiveThings(g)
          /\ Thing(g, id).references = 0 /\ g.dead = heap.dead
          /\ \A i \in LiveThings(heap) : i # id => Thing(g, i) = Thing(heap, i)
          /\ g.things.order = IF id \in LiveThings(heap) THEN heap.things.order
                              ELSE Append(heap.things.order, id)
      BY <1>1, <2>2, <3>3, <3>4, AppendedPoolHeap
    <3>6. PICK f : f = heap'
      OBVIOUS
    <3>7. f = SetValue(g, id, value)
      BY <3>1, <3>3, <3>6
    <3>8. PoolHeap(f) /\ f.things = g.things /\ f.dead = g.dead
      BY <3>2, <3>5, <3>7, AssignedPoolHeap
    <3>9. LiveThings(f) = LiveThings(g) /\ \A i : Thing(f, i) = Thing(g, i)
      BY <3>8 DEF LiveThings, Thing
    <3> QED BY <2>2, <2>4, <3>3, <3>4, <3>5, <3>6, <3>8, <3>9 DEF Made
  <2> QED BY <1>3, <2>1, <2>3, <2>4 DEF Clone
<1> QED BY <1>2, <1>3

\* Referencing and unreferencing: the count of a handle in use and what the host
\* holds of it change alike.
LEMMA TakeStep ==
  ASSUME PoolInv, NEW id \in Handles, Take(id)
  PROVE  \/ Usable(id) /\ id \notin LiveThings(heap) /\ Abort("thing is live")
         \/ /\ Usable(id) /\ id \in LiveThings(heap) /\ held[id] < MaxHeld
            /\ PoolRecounted(id, 1)
<1>1. PoolHeap(heap)
  BY DEF PoolInv
<1>2. CASE id \notin LiveThings(heap)
  BY <1>2 DEF Take
<1>3. CASE id \in LiveThings(heap)
  <2>1. /\ heap' = Reference(heap, id) /\ held' = [held EXCEPT ![id] = held[id] + 1]
        /\ UNCHANGED <<loose, collector, fault>> /\ sweep = 0
        /\ Usable(id) /\ held[id] < MaxHeld
    BY <1>3 DEF Take, HostRuns
  <2>2. PICK count \in Nat : count = Thing(heap, id).references + 1
    BY <1>1, <1>3 DEF PoolHeap
  <2>3. PICK g : g = heap'
    OBVIOUS
  <2>4. g = WithCount(heap, id, count)
    BY <2>1, <2>2, <2>3 DEF Reference, WithCount, Thing
  <2>5. /\ PoolHeap(g) /\ g.dead = heap.dead /\ g.things.order = heap.things.order
        /\ LiveThings(g) = LiveThings(heap)
        /\ Thing(g, id).references = count
        /\ \A i \in LiveThings(heap) : i # id => Thing(g, i) = Thing(heap, i)
    BY <1>1, <1>3, <2>4, CountedPoolHeap
  <2> QED BY <1>3, <2>1, <2>2, <2>3, <2>5 DEF PoolRecounted
<1> QED BY <1>2, <1>3

LEMMA DropStep ==
  ASSUME PoolInv, NEW id \in Handles, Drop(id)
  PROVE  \/ held[id] > 0 /\ id \notin LiveThings(heap) /\ Abort("thing is live")
         \/ /\ held[id] > 0 /\ id \in LiveThings(heap) /\ Thing(heap, id).references = 0
            /\ Abort("count is positive")
         \/ /\ held[id] > 0 /\ id \in LiveThings(heap)
            /\ PoolRecounted(id, -1)
<1>1. PoolHeap(heap)
  BY DEF PoolInv
<1>2. CASE id \notin LiveThings(heap)
  BY <1>2 DEF Drop
<1>3. CASE id \in LiveThings(heap) /\ Thing(heap, id).references = 0
  BY <1>3 DEF Drop
<1>4. CASE id \in LiveThings(heap) /\ Thing(heap, id).references # 0
  <2>1. /\ heap' = Unreference(heap, id) /\ held' = [held EXCEPT ![id] = held[id] - 1]
        /\ UNCHANGED <<loose, collector, fault>> /\ sweep = 0 /\ held[id] > 0
    BY <1>4 DEF Drop, HostRuns
  <2>2. PICK count \in Nat : count = Thing(heap, id).references - 1
    BY <1>1, <1>4 DEF PoolHeap
  <2>3. PICK g : g = heap'
    OBVIOUS
  <2>4. g = WithCount(heap, id, count)
    BY <2>1, <2>2, <2>3 DEF Unreference, WithCount, Thing
  <2>5. /\ PoolHeap(g) /\ g.dead = heap.dead /\ g.things.order = heap.things.order
        /\ LiveThings(g) = LiveThings(heap)
        /\ Thing(g, id).references = count
        /\ \A i \in LiveThings(heap) : i # id => Thing(g, i) = Thing(heap, i)
    BY <1>1, <1>4, <2>4, CountedPoolHeap
  <2>6. Thing(heap, id).references - 1 = Thing(heap, id).references + (-1)
    BY <1>1, <1>4 DEF PoolHeap
  <2>7. held[id] - 1 = held[id] + (-1)
    BY BoundsAssumption DEF PoolInv
  <2> QED BY <1>4, <2>1, <2>2, <2>3, <2>5, <2>6, <2>7 DEF PoolRecounted
<1> QED BY <1>2, <1>3, <1>4

\* One turn of collect: the thing under the cursor stays, or goes when nobody
\* counts on it.
LEMMA VisitStep ==
  ASSUME PoolInv, CollectVisit
  PROVE  /\ Visited \in LiveThings(heap) /\ sweep \in 1..TableSize(heap.things)
         /\ PoolHeap(heap') /\ heap'.cells = heap.cells
         /\ \/ heap' = heap /\ Thing(heap, Visited).references # 0 /\ freed' = freed
            \/ /\ Thing(heap, Visited).references = 0 /\ heap'.dead # <<>>
               /\ LiveThings(heap') = LiveThings(heap) \ {Visited}
               /\ \A i \in LiveThings(heap') : Thing(heap', i) = Thing(heap, i)
               /\ heap'.things.order = SwapRemove(heap.things.order, sweep)
               /\ TableSize(heap'.things) = TableSize(heap.things) - 1
               /\ freed' = freed + 1
         /\ sweep' = sweep + 1 /\ UNCHANGED <<host, collections, fault>>
<1>1. PoolHeap(heap) /\ freed \in Nat
  BY DEF PoolInv
<1>2. heap.things.order \in Seq(Nat)
  BY <1>1 DEF PoolHeap, HeapInv, HeapShape
<1>3. /\ sweep \in DOMAIN heap.things.order /\ heap' = AfterVisit(heap, sweep)
      /\ freed' = freed + TableSize(heap.things) - TableSize(heap'.things)
      /\ sweep' = sweep + 1 /\ UNCHANGED <<host, collections, fault>>
  BY DEF CollectVisit
<1>4. PICK g, id, k : g = heap' /\ id = Visited /\ k = sweep
  OBVIOUS
<1>5. /\ k \in DOMAIN heap.things.order /\ g = AfterVisit(heap, k)
      /\ id = heap.things.order[k]
  BY <1>3, <1>4 DEF Visited
<1>6. /\ id \in LiveThings(heap)
      /\ PoolHeap(g) /\ g.cells = heap.cells
      /\ \/ g = heap /\ Thing(heap, id).references # 0
         \/ /\ Thing(heap, id).references = 0
            /\ g.dead # <<>>
            /\ LiveThings(g) = LiveThings(heap) \ {id}
            /\ \A i \in LiveThings(g) : Thing(g, i) = Thing(heap, i)
            /\ g.things.order = SwapRemove(heap.things.order, k)
  BY <1>1, <1>5, VisitedPoolHeap
<1>7. /\ TableSize(heap.things) \in Nat /\ sweep \in 1..TableSize(heap.things)
      /\ TableSize(heap.things) >= 1
  BY <1>2, <1>3 DEF TableSize
<1>8. CASE g = heap /\ Thing(heap, id).references # 0
  <2>1. freed' = freed
    BY <1>1, <1>3, <1>4, <1>7, <1>8
  <2> QED BY <2>1, <1>3, <1>4, <1>6, <1>7, <1>8
<1>9. CASE /\ Thing(heap, id).references = 0
           /\ g.dead # <<>>
           /\ LiveThings(g) = LiveThings(heap) \ {id}
           /\ \A i \in LiveThings(g) : Thing(g, i) = Thing(heap, i)
           /\ g.things.order = SwapRemove(heap.things.order, k)
  <2>1. TableSize(g.things) = TableSize(heap.things) - 1
    <3> DEFINE n == TableSize(heap.things) - 1
    <3>1. n \in Nat
      BY <1>7
    <3>2. g.things.order = [j \in 1..n |-> IF j = k THEN heap.things.order[Len(heap.things.order)]
                                           ELSE heap.things.order[j]]
      BY <1>9 DEF SwapRemove, TableSize
    <3> HIDE DEF n
    <3>3. Len(g.things.order) = n
      BY <3>1, <3>2
    <3> QED BY <3>3 DEF n, TableSize
  <2>2. freed' = freed + 1
    BY <1>1, <1>3, <1>4, <1>7, <2>1
  <2> QED BY <2>1, <2>2, <1>3, <1>4, <1>6, <1>7, <1>9
<1> QED BY <1>6, <1>8, <1>9
-----------------------------------------------------------------------------
LEMMA PoolInvInit == Init => PoolInv
<1> SUFFICES ASSUME Init PROVE PoolInv
  OBVIOUS
<1>1. PoolHeap(heap)
  BY EmptyPoolHeap DEF Init
<1>2. held \in [Handles -> 0..MaxHeld]
  BY BoundsAssumption DEF Init
<1> QED BY <1>1, <1>2, BoundsAssumption DEF Init, PoolInv

LEMMA PoolInvNext == PoolInv /\ [Next]_vars => PoolInv'
<1> SUFFICES ASSUME PoolInv, [Next]_vars PROVE PoolInv'
  OBVIOUS
<1>1. ASSUME NEW id \in Handles, Made(id) PROVE PoolInv'
  BY <1>1 DEF PoolInv, Made, collector
<1>2. ASSUME NEW id \in Handles, NEW change \in {1, -1}, PoolRecounted(id, change),
             held[id] + change \in 0..MaxHeld
      PROVE  PoolInv'
  BY <1>2 DEF PoolInv, PoolRecounted, collector
<1>3. ASSUME NEW assertion, Abort(assertion) PROVE PoolInv'
  BY <1>3 DEF PoolInv, Abort, host, collector
<1>4. \A id \in Handles : held[id] \in 0..MaxHeld
  BY DEF PoolInv
<1>5. CASE \E type \in ThingTypes : Create(type)
  BY <1>1, <1>5, CreateStep
<1>6. ASSUME NEW id \in Handles, Clone(id) PROVE PoolInv'
  BY <1>1, <1>3, <1>6, CloneStep
<1>7. ASSUME NEW id \in Handles, Take(id) PROVE PoolInv'
  <2>1. held[id] < MaxHeld => held[id] + 1 \in 0..MaxHeld
    BY <1>4, BoundsAssumption
  <2> QED BY <1>2, <1>3, <1>7, <2>1, TakeStep
<1>8. ASSUME NEW id \in Handles, Drop(id) PROVE PoolInv'
  <2>1. held[id] > 0 => held[id] + (-1) \in 0..MaxHeld
    BY <1>4, BoundsAssumption
  <2> QED BY <1>2, <1>3, <1>8, <2>1, DropStep
<1>9. CASE BeginCollect
  <2>1. collections' \in 0..MaxCollections
    BY <1>9, BoundsAssumption DEF BeginCollect, PoolInv
  <2> QED BY <1>9, <2>1 DEF BeginCollect, PoolInv
<1>10. CASE CollectVisit
  <2>1. freed' \in Nat /\ sweep' \in Nat
    BY <1>10, VisitStep DEF PoolInv
  <2> QED BY <1>10, <2>1, VisitStep DEF PoolInv, host
<1>11. CASE CollectEnds
  <2>1. \/ Abort("cursor is inside the table")
        \/ sweep' = 0 /\ UNCHANGED <<heap, host, freed, collections, fault>>
    BY <1>11 DEF CollectEnds
  <2>2. CASE sweep' = 0 /\ UNCHANGED <<heap, host, freed, collections, fault>>
    <3>1. UNCHANGED <<heap, held, loose, freed, collections>> /\ sweep' \in Nat
      BY <2>2 DEF host
    <3> QED BY <3>1 DEF PoolInv
  <2> QED BY <1>3, <2>1, <2>2
<1>12. CASE UNCHANGED vars
  BY <1>12 DEF vars, PoolInv, host, collector
<1> QED BY <1>5, <1>6, <1>7, <1>8, <1>9, <1>10, <1>11, <1>12 DEF Next

\* The invariant every other result about the pool rests on.
LEMMA PoolInvHolds == Spec => []PoolInv
BY PoolInvInit, PoolInvNext, PTL DEF Spec

\* Every variable has its type: live and dead ids are handles, counts are not
\* negative, what things and dead entries say of their cells exists
\* (ThingPool.TypeOK).
THEOREM PoolTypesHold == Spec => []TypeOK
<1>1. PoolInv => TypeOK
  <2> SUFFICES ASSUME PoolInv PROVE TypeOK
    OBVIOUS
  <2>1. HeapShape(heap)
    BY DEF PoolInv, PoolHeap, HeapInv
  <2>2. DOMAIN heap = {"things", "dead", "cells", "capacity"} /\ heap.capacity \in Nat
    BY <2>1 DEF HeapShape
  <2>3. \A c \in DOMAIN heap.cells :
          heap.cells[c].type \in ThingTypes /\ heap.cells[c].value \in Int
    BY <2>1 DEF HeapShape, IsCell, PoolInv, PoolHeap
  <2>4. \A id \in LiveThings(heap) :
          /\ id \in Nat /\ Thing(heap, id).type \in ThingTypes
          /\ Thing(heap, id).references \in Nat
          /\ Thing(heap, id).data \in DOMAIN heap.cells
    BY <2>1 DEF HeapShape, IsThing, PoolInv, PoolHeap, Handles
  <2>5. \A k \in DOMAIN heap.dead :
          /\ heap.dead[k].data \in DOMAIN heap.cells
          /\ heap.dead[k].type \in ThingTypes /\ heap.dead[k].id \in Nat
    BY <2>1, <2>3 DEF HeapShape
  <2>6. HeapTypeOK(heap)
    BY <2>2, <2>3, <2>4, <2>5 DEF HeapTypeOK
  <2> QED BY <2>6 DEF PoolInv, TypeOK
<1> QED BY <1>1, PoolInvHolds, PTL

\* No two live things share a cell, and a cell holds what it was made for,
\* although dead entries are never taken off their list (ThingPool.CellsAreOwned).
THEOREM PoolCellsAreOwned == Spec => []CellsAreOwned
<1>1. PoolInv => CellsAreOwned
  <2> SUFFICES ASSUME PoolInv PROVE CellsAreOwned
    OBVIOUS
  <2>1. HeapInv(heap)
    BY DEF PoolInv, PoolHeap
  <2>2. \A i, j \in LiveThings(heap) : i # j => Thing(heap, i).data # Thing(heap, j).data
    BY <2>1, OwnedCells
  <2>3. \A i \in LiveThings(heap) :
          heap.cells[Thing(heap, i).data].type = Thing(heap, i).type
    BY <2>1 DEF HeapInv, HeapShape
  <2> QED BY <2>2, <2>3 DEF CellsAreOwned
<1> QED BY <1>1, PoolInvHolds, PTL

\* A collection leaves every thing with a positive count, and its value, alone
\* (ThingPool.CollectKeepsReferenced).
THEOREM PoolKeepsReferenced == Spec => CollectKeepsReferenced
<1> DEFINE Keeps == \A id \in LiveThings(heap) : Thing(heap, id).references > 0 =>
                       /\ id \in LiveThings(heap')
                       /\ Thing(heap', id) = Thing(heap, id)
                       /\ Value(heap', id) = Value(heap, id)
<1>1. ASSUME PoolInv, [Next]_vars
      PROVE  [sweep > 0 => Keeps]_vars
  <2> SUFFICES ASSUME Next, sweep > 0, NEW id \in LiveThings(heap),
                      Thing(heap, id).references > 0
               PROVE  /\ id \in LiveThings(heap')
                      /\ Thing(heap', id) = Thing(heap, id)
                      /\ Value(heap', id) = Value(heap, id)
    BY <1>1
  <2>1. sweep # 0
    BY <1>1 DEF PoolInv
  <2>2. ~HostRuns
    BY <2>1 DEF HostRuns
  <2>3. CollectVisit \/ CollectEnds
    BY <2>2 DEF Next, Create, Clone, Take, Drop, BeginCollect
  <2>4. CASE CollectEnds
    <3>1. heap' = heap
      BY <2>4 DEF CollectEnds, Abort
    <3> QED BY <3>1
  <2>5. CASE CollectVisit
    <3>1. CASE heap' = heap
      BY <3>1
    <3>2. CASE /\ Thing(heap, Visited).references = 0
               /\ LiveThings(heap') = LiveThings(heap) \ {Visited}
               /\ \A i \in LiveThings(heap') : Thing(heap', i) = Thing(heap, i)
      <4>1. id \in LiveThings(heap') /\ Thing(heap', id) = Thing(heap, id)
        BY <3>2
      <4>2. heap'.cells = heap.cells
        BY <1>1, <2>5, VisitStep
      <4> QED BY <4>1, <4>2 DEF Value
    <3> QED BY <1>1, <2>5, <3>1, <3>2, VisitStep
  <2> QED BY <2>3, <2>4, <2>5
<1>2. Spec => [][sweep > 0 => Keeps]_vars
  BY <1>1, PoolInvHolds, PTL DEF Spec
<1> QED BY <1>2 DEF CollectKeepsReferenced
-----------------------------------------------------------------------------
\* Until the first removal the live ids are the numbers below the number of
\* things, so that a new id is one no handle was given out for, and the cursor
\* of a collection stays in the table.
CountsInv ==
  heap.dead = <<>> =>
    /\ IdsPartition(heap.things.order, <<>>)
    /\ \A id \in Handles :
         held[id] = IF id \in LiveThings(heap) THEN Thing(heap, id).references ELSE 0
    /\ loose \subseteq LiveThings(heap)
    /\ sweep <= TableSize(heap.things) + 1
    /\ fault \in {NoFault, "use after free"}

LEMMA CountsInvInit == Init => CountsInv
<1> SUFFICES ASSUME Init PROVE CountsInv
  OBVIOUS
<1>1. heap.things = [order |-> <<>>, entry |-> <<>>]
  BY DEF Init, EmptyHeap, EmptyTable
<1>2. IdsPartition(<<>>, <<>>)
  <2>1. <<>> \in Seq(Nat) /\ Len(<<>>) = 0 /\ DOMAIN <<>> = {}
    OBVIOUS
  <2>2. \A i \in Nat : ~(i < 0 + 0)
    OBVIOUS
  <2> QED BY <2>1, <2>2 DEF IdsPartition, Distinct, Within
<1>3. LiveThings(heap) = {}
  BY <1>1 DEF LiveThings, TableIds
<1>4. TableSize(heap.things) = 0
  BY <1>1 DEF TableSize
<1> QED BY <1>1, <1>2, <1>3, <1>4 DEF Init, CountsInv

\* Made at a fresh id, one the host holds nothing of.
LEMMA CountsMade ==
  ASSUME PoolInv, CountsInv, NEW type \in ThingTypes, NEW id \in Handles,
         id = AppendedId(heap, type), Made(id)
  PROVE  CountsInv'
<1> SUFFICES ASSUME heap.dead = <<>> PROVE CountsInv'
  BY DEF CountsInv, Made
<1>1. /\ IdsPartition(heap.things.order, <<>>)
      /\ \A i \in Handles :
           held[i] = IF i \in LiveThings(heap) THEN Thing(heap, i).references ELSE 0
      /\ loose \subseteq LiveThings(heap)
      /\ fault \in {NoFault, "use after free"}
  BY DEF CountsInv
<1>2. WellFormed(heap.things)
  BY DEF PoolInv, PoolHeap, HeapInv, HeapShape
<1>3. Reusable(heap, type) = {}
  BY DEF Reusable
<1>4. id = Len(heap.things.order)
  BY <1>3 DEF AppendedId, TableSize
<1>5. id \notin LiveThings(heap)
  BY <1>1, <1>2, <1>4, FreshId DEF WellFormed, LiveThings, Within
<1>6. IdsPartition(heap'.things.order, <<>>)
  <2>1. heap'.things.order = Append(heap.things.order, id)
    BY <1>5 DEF Made
  <2> QED BY <2>1, <1>1, <1>4, FreshId
<1>7. \A i \in Handles :
        held'[i] = IF i \in LiveThings(heap') THEN Thing(heap', i).references ELSE 0
  <2> SUFFICES ASSUME NEW i \in Handles
               PROVE  held[i] = IF i \in LiveThings(heap') THEN Thing(heap', i).references ELSE 0
    BY DEF Made
  <2>1. CASE i = id
    BY <2>1, <1>1, <1>5 DEF Made
  <2>2. CASE i # id
    BY <2>2, <1>1 DEF Made
  <2> QED BY <2>1, <2>2
<1>8. loose' \subseteq LiveThings(heap')
  BY <1>1 DEF Made
<1>9. sweep' <= TableSize(heap'.things) + 1
  <2>1. TableSize(heap'.things) \in Nat
    BY <1>6 DEF TableSize, IdsPartition
  <2>2. sweep' = 0
    BY DEF Made, collector
  <2> QED BY <2>1, <2>2
<1>10. fault' \in {NoFault, "use after free"}
  BY <1>1 DEF Made
<1> QED BY <1>6, <1>7, <1>8, <1>9, <1>10 DEF CountsInv

LEMMA CountsRecounted ==
  ASSUME PoolInv, CountsInv, NEW id \in Handles, id \in LiveThings(heap), NEW change \in Int,
         PoolRecounted(id, change)
  PROVE  CountsInv'
<1> SUFFICES ASSUME heap.dead = <<>> PROVE CountsInv'
  BY DEF CountsInv, PoolRecounted
<1>1. \A i \in Handles :
        held'[i] = IF i \in LiveThings(heap') THEN Thing(heap', i).references ELSE 0
  <2> SUFFICES ASSUME NEW i \in Handles
               PROVE  held'[i] = IF i \in LiveThings(heap) THEN Thing(heap', i).references ELSE 0
    BY DEF PoolRecounted
  <2>1. held' = [held EXCEPT ![id] = held[id] + change] /\ DOMAIN held = Handles
    BY DEF PoolRecounted, PoolInv
  <2>2. CASE i = id
    BY <2>1, <2>2 DEF PoolRecounted, CountsInv
  <2>3. CASE i # id
    BY <2>1, <2>3 DEF PoolRecounted, CountsInv
  <2> QED BY <2>2, <2>3
<1>2. TableSize(heap'.things) = TableSize(heap.things)
  BY DEF PoolRecounted, TableSize
<1> QED BY <1>1, <1>2 DEF CountsInv, PoolRecounted, collector

LEMMA CountsInvNext == PoolInv /\ CountsInv /\ [Next]_vars => CountsInv'
<1> SUFFICES ASSUME PoolInv, CountsInv, [Next]_vars PROVE CountsInv'
  OBVIOUS
<1>1. heap.things.order \in Seq(Nat) /\ TableSize(heap.things) \in Nat
  BY DEF PoolInv, PoolHeap, HeapInv, HeapShape, TableSize
<1>2. ASSUME UNCHANGED <<heap, held, fault>>, loose' \subseteq loose,
              sweep' <= TableSize(heap.things) + 1
       PROVE  CountsInv'
  BY <1>2 DEF CountsInv
\* An assertion other than the one below is met only after a removal.
<1>3. ASSUME NEW assertion, Abort(assertion),
             heap.dead = <<>> => assertion = "use after free"
      PROVE  CountsInv'
  BY <1>3 DEF Abort, CountsInv, host, collector
<1>4. ASSUME heap.dead = <<>>, NEW id \in Handles, held[id] > 0
      PROVE  id \in LiveThings(heap) /\ Thing(heap, id).references # 0
  <2>1. held[id] \in Int /\ held[id] # 0
    BY <1>4, BoundsAssumption DEF PoolInv
  <2>2. held[id] = IF id \in LiveThings(heap) THEN Thing(heap, id).references ELSE 0
    BY <1>4 DEF CountsInv
  <2> QED BY <2>1, <2>2
<1>5. ASSUME heap.dead = <<>>, NEW id \in Handles, Usable(id)
      PROVE  id \in LiveThings(heap)
  BY <1>4, <1>5 DEF CountsInv, Usable
<1>6. CASE \E type \in ThingTypes : Create(type)
  BY <1>6, CreateStep, CountsMade
<1>7. ASSUME NEW id \in Handles, Clone(id) PROVE CountsInv'
  BY <1>3, <1>5, <1>7, CloneStep, CountsMade
<1>8. ASSUME NEW id \in Handles, Take(id) PROVE CountsInv'
  <2>1. CASE id \in LiveThings(heap) /\ PoolRecounted(id, 1)
    BY <2>1, CountsRecounted
  <2> QED BY <1>3, <1>5, <1>8, <2>1, TakeStep
<1>9. ASSUME NEW id \in Handles, Drop(id) PROVE CountsInv'
  <2>1. CASE id \in LiveThings(heap) /\ PoolRecounted(id, -1)
    BY <2>1, CountsRecounted
  <2> QED BY <1>3, <1>4, <1>9, <2>1, DropStep
<1>10. CASE BeginCollect
  <2>1. sweep' <= TableSize(heap.things) + 1 /\ loose' \subseteq loose
    BY <1>1, <1>10 DEF BeginCollect
  <2> QED BY <1>10, <1>2, <2>1 DEF BeginCollect
<1>11. CASE CollectVisit
  <2>1. CASE heap' = heap
    <3>1. sweep' <= TableSize(heap.things) + 1
      BY <1>1, <1>11, VisitStep
    <3> QED BY <2>1, <3>1, <1>11, <1>2, VisitStep DEF host
  <2>2. CASE heap'.dead # <<>>
    BY <2>2 DEF CountsInv
  <2> QED BY <2>1, <2>2, <1>11, VisitStep
<1>12. CASE CollectEnds
  <2>1. heap.dead = <<>> => sweep = TableSize(heap.things) + 1
    <3> SUFFICES ASSUME heap.dead = <<>> PROVE sweep = TableSize(heap.things) + 1
      OBVIOUS
    <3>1. PICK n \in Nat : n = TableSize(heap.things)
      BY <1>1
    <3>2. sweep \in Nat /\ sweep > n /\ sweep <= n + 1
      BY <1>12, <3>1 DEF CollectEnds, CountsInv, PoolInv
    <3> QED BY <3>1, <3>2
  <2>2. CASE sweep = TableSize(heap.things) + 1
    <3>1. sweep' = 0 /\ UNCHANGED <<heap, host, freed, collections, fault>>
      BY <1>12, <2>2 DEF CollectEnds
    <3>2. sweep' <= TableSize(heap.things) + 1
      BY <1>1, <3>1
    <3> QED BY <1>2, <3>1, <3>2 DEF host
  <2>3. CASE sweep # TableSize(heap.things) + 1
    BY <1>3, <1>12, <2>1, <2>3 DEF CollectEnds
  <2> QED BY <2>2, <2>3
<1>13. CASE UNCHANGED vars
  BY <1>13 DEF vars, CountsInv, host, collector
<1> QED BY <1>6, <1>7, <1>8, <1>9, <1>10, <1>11, <1>12, <1>13 DEF Next

\* While nothing was ever removed, counts are what the host holds and no
\* assertion fails (ThingPool.CountsExactUntilFirstRemoval).
THEOREM PoolCountsExact == Spec => []CountsExactUntilFirstRemoval
<1>1. CountsInv => CountsExactUntilFirstRemoval
  BY DEF CountsInv, CountsExactUntilFirstRemoval
<1> QED BY <1>1, PoolInvHolds, CountsInvInit, CountsInvNext, PTL DEF Spec
-----------------------------------------------------------------------------
\* The first n positions that hold a thing nobody counts on.
UnreferencedPlaces(h, n) == {k \in 1..n : Thing(h, h.things.order[k]).references = 0}

LEMMA UnreferencedIsFinite ==
  ASSUME NEW h, NEW n \in Nat
  PROVE  IsFiniteSet(UnreferencedPlaces(h, n)) /\ Cardinality(UnreferencedPlaces(h, n)) \in Nat
<1>1. IsFiniteSet(1..n)
  BY FS_Interval
<1>2. UnreferencedPlaces(h, n) \subseteq 1..n
  BY DEF UnreferencedPlaces
<1>3. IsFiniteSet(UnreferencedPlaces(h, n))
  BY <1>1, <1>2, FS_Subset
<1> QED BY <1>3, FS_CardinalityType

GarbageInv ==
  sweep \in 1..(TableSize(heap.things) + 1) =>
    Cardinality(UnreferencedPlaces(heap, sweep - 1)) <= freed

\* A removal moves the last thing to a position the cursor leaves, and is
\* counted; a thing that stays is referenced.
LEMMA GarbageVisit ==
  ASSUME PoolInv, GarbageInv, CollectVisit, sweep' \in 1..(TableSize(heap'.things) + 1)
  PROVE  Cardinality(UnreferencedPlaces(heap', sweep' - 1)) <= freed'
<1>1. PICK k, n, f : k = sweep /\ n = TableSize(heap.things) /\ f = freed
  OBVIOUS
<1>2. /\ n \in Nat /\ f \in Nat /\ k \in 1..n /\ sweep' = k + 1
      /\ heap.things.order \in Seq(Nat) /\ n = Len(heap.things.order)
  <2>1. heap.things.order \in Seq(Nat)
    BY DEF PoolInv, PoolHeap, HeapInv, HeapShape
  <2> QED BY <2>1, <1>1, VisitStep DEF PoolInv, TableSize
<1> DEFINE before == UnreferencedPlaces(heap, k - 1)
<1>3. Cardinality(before) <= f
  <2>1. sweep \in 1..(TableSize(heap.things) + 1) /\ sweep - 1 = k - 1
    BY <1>1, <1>2
  <2> QED BY <2>1, <1>1 DEF GarbageInv
<1>4. IsFiniteSet(before) /\ Cardinality(before) \in Nat
  <2>1. k - 1 \in Nat
    BY <1>2
  <2> QED BY <2>1, UnreferencedIsFinite
<1> DEFINE after == UnreferencedPlaces(heap', k)
<1>5. sweep' - 1 = k
  BY <1>2
<1>6. CASE heap' = heap /\ Thing(heap, Visited).references # 0 /\ freed' = freed
  <2>1. \A j \in 1..k : j \in 1..(k - 1) \/ j = k
    BY <1>2
  <2>2. 1..(k - 1) \subseteq 1..k
    BY <1>2
  <2>3. after = before
    BY <1>1, <1>6, <2>1, <2>2 DEF UnreferencedPlaces, Visited
  <2> QED BY <2>3, <1>1, <1>3, <1>5, <1>6
<1>7. CASE /\ LiveThings(heap') = LiveThings(heap) \ {Visited}
           /\ \A i \in LiveThings(heap') : Thing(heap', i) = Thing(heap, i)
           /\ heap'.things.order = SwapRemove(heap.things.order, sweep)
           /\ TableSize(heap'.things) = TableSize(heap.things) - 1
           /\ freed' = freed + 1
  <2>1. k \in 1..(n - 1)
    <3>1. TableSize(heap'.things) = n - 1
      BY <1>1, <1>7
    <3>2. k + 1 \in 1..((n - 1) + 1)
      BY <1>2, <3>1
    <3>3. n \in Nat /\ k \in 1..n
      BY <1>2
    <3> QED BY ONLY <3>2, <3>3
  <2>2. ASSUME NEW j \in 1..(k - 1)
        PROVE  /\ heap'.things.order[j] = heap.things.order[j]
               /\ Thing(heap', heap'.things.order[j]) = Thing(heap, heap.things.order[j])
    <3>1. j \in 1..(n - 1) /\ j # k /\ j \in DOMAIN heap.things.order
      <4>1. k \in 1..n /\ n \in Nat
        BY <1>2
      <4>2. j \in 1..n /\ j \in 1..(n - 1) /\ j # k
        BY ONLY <2>1, <4>1, j \in 1..(k - 1)
      <4>3. DOMAIN heap.things.order = 1..n
        BY <1>2
      <4> QED BY <4>2, <4>3
    <3>2. heap'.things.order[j] = heap.things.order[j]
      BY <1>1, <1>2, <1>7, <3>1 DEF SwapRemove
    <3>3. heap.things.order[j] \in LiveThings(heap) /\ heap.things.order[j] # Visited
      <4>1. WellFormed(heap.things) /\ Distinct(heap.things.order)
        BY DEF PoolInv, PoolHeap, HeapInv, HeapShape
      <4>2. k \in DOMAIN heap.things.order
        BY <1>2
      <4> QED BY <1>1, <3>1, <4>1, <4>2 DEF WellFormed, LiveThings, Distinct, Visited
    <3> QED BY <1>7, <3>2, <3>3
  <2>3. after \subseteq before \cup {k}
    <3>1. \A j \in 1..k : j \in 1..(k - 1) \/ j = k
      BY <1>2
    <3> QED BY <2>2, <3>1 DEF UnreferencedPlaces
  <2> HIDE DEF before
  <2>4. IsFiniteSet(before \cup {k}) /\ Cardinality(before \cup {k}) <= Cardinality(before) + 1
    <3>1. /\ IsFiniteSet(before \cup {k})
          /\ Cardinality(before \cup {k}) = IF k \in before THEN Cardinality(before)
                                            ELSE Cardinality(before) + 1
      BY <1>4, FS_AddElement
    <3> QED BY <1>4, <3>1
  <2>5. Cardinality(after) <= Cardinality(before \cup {k})
    BY <2>3, <2>4, FS_Subset
  <2>6. Cardinality(after) \in Nat /\ Cardinality(before \cup {k}) \in Nat
    <3>1. IsFiniteSet(after)
      BY <2>3, <2>4, FS_Subset
    <3> QED BY <3>1, <2>4, FS_CardinalityType
  <2> HIDE DEF after
  <2>7. Cardinality(after) <= f + 1
    BY <1>2, <1>3, <1>4, <2>4, <2>5, <2>6
  <2>8. Cardinality(after) <= freed'
    BY <1>1, <1>7, <2>7
  <2> QED BY <1>5, <2>8 DEF after
<1> QED BY <1>6, <1>7, VisitStep

LEMMA GarbageNext == PoolInv /\ GarbageInv /\ [Next]_vars => GarbageInv'
<1> SUFFICES ASSUME PoolInv, GarbageInv, [Next]_vars,
                    sweep' \in 1..(TableSize(heap'.things) + 1)
             PROVE  Cardinality(UnreferencedPlaces(heap', sweep' - 1)) <= freed'
  BY DEF GarbageInv
<1>1. sweep' # 0
  OBVIOUS
<1>2. ASSUME UNCHANGED <<heap, sweep, freed>>
      PROVE  Cardinality(UnreferencedPlaces(heap', sweep' - 1)) <= freed'
  BY <1>2 DEF GarbageInv
<1>3. CASE CollectVisit
  BY <1>3, GarbageVisit
<1>4. CASE BeginCollect
  <2>1. sweep' - 1 = 0 /\ freed' = 0
    BY <1>4 DEF BeginCollect
  <2>2. UnreferencedPlaces(heap', 0) = {}
    BY DEF UnreferencedPlaces
  <2> QED BY <2>1, <2>2, FS_EmptySet
<1>5. CASE CollectEnds \/ UNCHANGED vars
  BY <1>1, <1>2, <1>5 DEF CollectEnds, Abort, vars, collector
\* The host runs outside collections only.
<1>6. CASE \/ \E type \in ThingTypes : Create(type)
           \/ \E id \in Handles : Clone(id) \/ Take(id) \/ Drop(id)
  <2>1. sweep = 0
    BY <1>6 DEF Create, Clone, Take, Drop, HostRuns
  <2>2. sweep' = sweep
    BY <1>6 DEF Create, Clone, Take, Drop, Abort, collector
  <2> QED BY <1>1, <2>1, <2>2
<1> QED BY <1>3, <1>4, <1>5, <1>6 DEF Next

\* What a collection leaves behind its cursor is at most what it removed
\* (ThingPool.GarbageLeftBounded).
THEOREM PoolGarbageBounded == Spec => []GarbageLeftBounded
<1>1. Init => GarbageInv
  BY DEF Init, GarbageInv
<1>2. GarbageInv => GarbageLeftBounded
  BY DEF GarbageInv, GarbageLeftBounded, Garbage, UnreferencedPlaces
<1> QED BY <1>1, <1>2, PoolInvHolds, GarbageNext, PTL DEF Spec
=============================================================================

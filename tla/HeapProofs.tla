----------------------------- MODULE HeapProofs -----------------------------
(* Lemmas about tables, the ids that are recycled through a list, heaps, and *)
(* the counts of their things (furlang/include/furlang/utils/sparseSet.h,    *)
(* furlang/src/context.c:69-128, src/thing.c).                               *)
EXTENDS Heap, SequencesExt, SequenceTheorems, FiniteSetTheorems, WellFoundedInduction,
        TLAPS

-----------------------------------------------------------------------------
\* What is done to the stacks and lists of this code leaves sequences.
\* A sequence of anything.
IsSequence(s) == \E S : s \in Seq(S)

LEMMA SequenceLength ==
  ASSUME NEW s, IsSequence(s)
  PROVE  Len(s) \in Nat /\ (s = <<>> <=> Len(s) = 0)
<1>1. PICK S : s \in Seq(S)
  BY DEF IsSequence
<1> QED BY <1>1, EmptySeq

LEMMA AppendedSequence ==
  ASSUME NEW s, IsSequence(s), NEW x
  PROVE  /\ IsSequence(Append(s, x)) /\ Len(Append(s, x)) = Len(s) + 1
         /\ Append(s, x) # <<>>
<1>1. PICK S : s \in Seq(S)
  BY DEF IsSequence
<1>2. s \in Seq(S \cup {x})
  BY <1>1, SeqMonotonic
<1> QED BY <1>2, AppendProperties DEF IsSequence

LEMMA FrontSequence ==
  ASSUME NEW s, IsSequence(s), s # <<>>
  PROVE  IsSequence(Front(s)) /\ Len(Front(s)) = Len(s) - 1
<1>1. PICK S : s \in Seq(S)
  BY DEF IsSequence
<1>2. Len(s) \in Nat /\ Len(s) >= 1
  BY <1>1, EmptySeq
<1>3. Front(s) \in Seq(S)
  BY <1>1, <1>2 DEF Front
<1> DEFINE n == Len(s)
<1>4. Len(SubSeq(s, 1, n - 1)) = n - 1
  <2>1. n \in Nat /\ n - 1 \in Nat /\ 1 \in 1..(n + 1) /\ n - 1 \in 0..n /\ 0 <= n - 1
    BY <1>2
  <2> HIDE DEF n
  <2> QED BY <1>1, <2>1, SubSeqProperties
<1> QED BY <1>3, <1>4 DEF IsSequence, Front

LEMMA ChangedSequence ==
  ASSUME NEW s, IsSequence(s), NEW k, NEW x
  PROVE  IsSequence([s EXCEPT ![k] = x]) /\ Len([s EXCEPT ![k] = x]) = Len(s)
<1>1. PICK S : s \in Seq(S)
  BY DEF IsSequence
<1> DEFINE T == S \cup {x}
<1>2. s \in Seq(T) /\ x \in T
  BY <1>1, SeqMonotonic
<1> HIDE DEF T
<1>3. CASE k \in 1..Len(s)
  BY <1>2, <1>3, ExceptSeq DEF IsSequence
<1>4. CASE k \notin 1..Len(s)
  <2>1. DOMAIN s = 1..Len(s) /\ s = [i \in DOMAIN s |-> s[i]]
    BY <1>2
  <2>2. [s EXCEPT ![k] = x] = s
    BY <2>1, <1>4
  <2> QED BY <2>2
<1> QED BY <1>3, <1>4
-----------------------------------------------------------------------------
\* The living ids, in visiting order, and the free ones.
Distinct(s) == \A j, k \in DOMAIN s : s[j] = s[k] => j = k

Within(i, s) == \E k \in DOMAIN s : s[k] = i

\* Living and free ids are the numbers below the sum of their numbers, each once.
IdsPartition(living, free) ==
  /\ living \in Seq(Nat) /\ free \in Seq(Nat)
  /\ Distinct(living) /\ Distinct(free)
  /\ \A j \in DOMAIN living, k \in DOMAIN free : living[j] # free[k]
  /\ \A i \in Nat : i < Len(living) + Len(free) <=> Within(i, living) \/ Within(i, free)

\* The table is a record of the visiting order and an entry for each id in it.
WellFormed(table) ==
  /\ table = [order |-> table.order, entry |-> table.entry]
  /\ TableIds(table) = {table.order[k] : k \in DOMAIN table.order}
-----------------------------------------------------------------------------
\* The three ways the ids change.  No free id: the new one is the number of
\* living ids.
LEMMA FreshId ==
  ASSUME NEW living, IdsPartition(living, <<>>)
  PROVE  /\ IdsPartition(Append(living, Len(living)), <<>>)
         /\ ~Within(Len(living), living)
<1> DEFINE n == Len(living)
<1> DEFINE next == Append(living, n)
<1>1. living \in Seq(Nat) /\ n \in Nat
  BY DEF IdsPartition
<1>2. next \in Seq(Nat) /\ Len(next) = n + 1
      /\ next[n + 1] = n /\ \A k \in 1..n : next[k] = living[k]
  BY <1>1
<1>3. \A i \in Nat : i < n <=> Within(i, living)
  BY <1>1 DEF IdsPartition, Within
<1>4. ~Within(n, living)
  BY <1>1, <1>3
<1>5. Distinct(next)
  BY <1>1, <1>2, <1>4 DEF Distinct, Within, IdsPartition
<1>6. \A i \in Nat : i < n + 1 <=> Within(i, next)
  <2> SUFFICES ASSUME NEW i \in Nat PROVE i < n + 1 <=> Within(i, next)
    OBVIOUS
  <2>1. Within(i, next) <=> Within(i, living) \/ i = n
    BY <1>1, <1>2 DEF Within
  <2> QED BY <2>1, <1>1, <1>3
<1> HIDE DEF n, next
<1>7. IdsPartition(next, <<>>)
  <2>1. Len(next) + Len(<<>>) = n + 1 /\ \A i : ~Within(i, <<>>)
    BY <1>1, <1>2 DEF Within
  <2> QED BY <1>1, <1>2, <1>5, <1>6, <2>1 DEF IdsPartition, Distinct
<1> QED BY <1>4, <1>7 DEF n, next

\* A free id: the last one becomes a living one.
LEMMA ReusedId ==
  ASSUME NEW living, NEW free, IdsPartition(living, free), free # <<>>
  PROVE  /\ IdsPartition(Append(living, Last(free)), Front(free))
         /\ ~Within(Last(free), living)
<1> DEFINE n == Len(living)
<1> DEFINE m == Len(free)
<1> DEFINE next == Append(living, Last(free))
<1> DEFINE left == Front(free)
<1>1. /\ living \in Seq(Nat) /\ n \in Nat /\ DOMAIN living = 1..n
      /\ free \in Seq(Nat) /\ m \in Nat /\ m >= 1 /\ DOMAIN free = 1..m
  BY DEF IdsPartition
<1>2. /\ Distinct(living) /\ Distinct(free)
      /\ \A j \in 1..n, k \in 1..m : living[j] # free[k]
      /\ \A i \in Nat : i < n + m <=> Within(i, living) \/ Within(i, free)
  BY <1>1 DEF IdsPartition
<1>3. Last(free) = free[m] /\ free[m] \in Nat
  BY <1>1 DEF Last
<1>4. /\ next \in Seq(Nat) /\ Len(next) = n + 1 /\ DOMAIN next = 1..(n + 1)
      /\ next[n + 1] = free[m] /\ \A k \in 1..n : next[k] = living[k]
  BY <1>1, <1>3
<1>5. left \in Seq(Nat)
  BY <1>1 DEF Front
<1>6. Len(left) = m - 1 /\ DOMAIN left = 1..(m - 1)
  BY <1>1 DEF Front
<1>7. \A k \in 1..(m - 1) : left[k] = free[k]
  BY <1>1 DEF Front
<1> HIDE DEF n, m, next, left
<1>8. ~Within(free[m], living)
  BY <1>1, <1>2 DEF Within
<1>9. Distinct(next)
  <2>1. \A k \in 1..n : living[k] # free[m]
    BY <1>1, <1>8 DEF Within
  <2>2. ASSUME NEW j \in 1..(n + 1), NEW k \in 1..(n + 1), next[j] = next[k]
        PROVE  j = k
    <3>1. CASE j = n + 1
      BY <2>1, <2>2, <3>1, <1>1, <1>4
    <3>2. CASE k = n + 1
      BY <2>1, <2>2, <3>2, <1>1, <1>4
    <3>3. CASE j \in 1..n /\ k \in 1..n
      BY <2>2, <3>3, <1>1, <1>2, <1>4 DEF Distinct
    <3> QED BY <3>1, <3>2, <3>3, <1>1
  <2> QED BY <2>2, <1>4 DEF Distinct
<1>10. Distinct(left)
  BY <1>1, <1>2, <1>6, <1>7 DEF Distinct
<1>11. \A j \in 1..(n + 1), k \in 1..(m - 1) : next[j] # left[k]
  <2> SUFFICES ASSUME NEW j \in 1..(n + 1), NEW k \in 1..(m - 1)
               PROVE  next[j] # free[k]
    BY <1>7
  <2>1. CASE j = n + 1
    BY <2>1, <1>1, <1>2, <1>4 DEF Distinct
  <2>2. CASE j \in 1..n
    BY <2>2, <1>1, <1>2, <1>4
  <2> QED BY <2>1, <2>2, <1>1
<1>12. \A i \in Nat : i < (n + 1) + (m - 1) <=> Within(i, next) \/ Within(i, left)
  <2> SUFFICES ASSUME NEW i \in Nat
               PROVE  i < n + m <=> Within(i, next) \/ Within(i, left)
    BY <1>1
  <2>1. Within(i, next) <=> Within(i, living) \/ i = free[m]
    <3>1. 1..(n + 1) = 1..n \cup {n + 1}
      BY <1>1
    <3> QED BY <3>1, <1>1, <1>4 DEF Within
  <2>2. Within(i, free) <=> Within(i, left) \/ i = free[m]
    <3>1. 1..m = 1..(m - 1) \cup {m}
      BY <1>1
    <3> QED BY <3>1, <1>1, <1>6, <1>7 DEF Within
  <2> QED BY <2>1, <2>2, <1>2
<1>13. IdsPartition(next, left)
  BY <1>4, <1>5, <1>6, <1>9, <1>10, <1>11, <1>12 DEF IdsPartition
<1> QED BY <1>3, <1>8, <1>13 DEF next, left

\* An executor is destroyed: its id, at position p, becomes the last free one,
\* and the last living id takes its position.
LEMMA RetiredId ==
  ASSUME NEW living, NEW free, IdsPartition(living, free), NEW p \in DOMAIN living
  PROVE  IdsPartition(SwapRemove(living, p), Append(free, living[p]))
<1> DEFINE n == Len(living)
<1> DEFINE m == Len(free)
<1> DEFINE id == living[p]
<1> DEFINE kept == SwapRemove(living, p)
<1> DEFINE more == Append(free, id)
<1>1. /\ living \in Seq(Nat) /\ n \in Nat /\ DOMAIN living = 1..n
      /\ free \in Seq(Nat) /\ m \in Nat /\ DOMAIN free = 1..m
      /\ p \in 1..n /\ id \in Nat
  BY DEF IdsPartition
<1>2. /\ Distinct(living) /\ Distinct(free)
      /\ \A j \in 1..n, k \in 1..m : living[j] # free[k]
      /\ \A i \in Nat : i < n + m <=> Within(i, living) \/ Within(i, free)
  BY <1>1 DEF IdsPartition
<1>3. kept \in Seq(Nat) /\ Len(kept) = n - 1
  <2>1. kept = [j \in 1..(n - 1) |-> IF j = p THEN living[n] ELSE living[j]]
    BY DEF SwapRemove
  <2>2. n - 1 \in Nat /\ \A j \in 1..n : living[j] \in Nat
    BY <1>1
  <2>3. kept \in [1..(n - 1) -> Nat]
    BY <2>1, <2>2, <1>1
  <2> QED BY <2>2, <2>3
<1>4. /\ DOMAIN kept = 1..(n - 1)
      /\ \A j \in 1..(n - 1) : kept[j] = IF j = p THEN living[n] ELSE living[j]
  BY DEF SwapRemove
<1>5. /\ more \in Seq(Nat) /\ Len(more) = m + 1 /\ DOMAIN more = 1..(m + 1)
      /\ more[m + 1] = id /\ \A k \in 1..m : more[k] = free[k]
  BY <1>1
<1> HIDE DEF n, m, kept, more
<1>6. ASSUME NEW j \in 1..(n - 1)
      PROVE  kept[j] # id /\ \A k \in 1..m : kept[j] # free[k]
  <2>1. PICK q \in 1..n : kept[j] = living[q] /\ q # p
    <3>1. CASE j = p
      <4>1. n \in 1..n /\ n # p
        BY <3>1, <1>1
      <4> QED BY <3>1, <4>1, <1>4
    <3>2. CASE j # p
      BY <3>2, <1>1, <1>4
    <3> QED BY <3>1, <3>2
  <2>2. living[q] # living[p]
    BY <2>1, <1>1, <1>2 DEF Distinct
  <2>3. \A k \in 1..m : living[q] # free[k]
    BY <1>2
  <2> QED BY <2>1, <2>2, <2>3
<1>7. Distinct(kept)
  <2> SUFFICES ASSUME NEW j \in 1..(n - 1), NEW k \in 1..(n - 1), kept[j] = kept[k]
               PROVE  j = k
    BY <1>4 DEF Distinct
  <2> DEFINE From(x) == IF x = p THEN n ELSE x
  <2>1. From(j) \in 1..n /\ From(k) \in 1..n
    BY <1>1
  <2>2. living[From(j)] = living[From(k)]
    BY <1>4
  <2>3. From(j) = From(k)
    BY <2>1, <2>2, <1>1, <1>2 DEF Distinct
  <2> QED BY <2>3, <1>1
<1>8. Distinct(more)
  <2>1. \A k \in 1..m : free[k] # id
    BY <1>1, <1>2
  <2> HIDE DEF id
  <2>2. ASSUME NEW j \in 1..(m + 1), NEW k \in 1..(m + 1), more[j] = more[k]
        PROVE  j = k
    <3>1. CASE j = m + 1
      BY <2>1, <2>2, <3>1, <1>1, <1>5
    <3>2. CASE k = m + 1
      BY <2>1, <2>2, <3>2, <1>1, <1>5
    <3>3. CASE j \in 1..m /\ k \in 1..m
      BY <2>2, <3>3, <1>1, <1>2, <1>5 DEF Distinct
    <3> QED BY <3>1, <3>2, <3>3, <1>1
  <2> QED BY <2>2, <1>5 DEF Distinct
<1>9. \A j \in 1..(n - 1), k \in 1..(m + 1) : kept[j] # more[k]
  <2> SUFFICES ASSUME NEW j \in 1..(n - 1), NEW k \in 1..(m + 1)
               PROVE  kept[j] # more[k]
    OBVIOUS
  <2>1. CASE k = m + 1
    BY <2>1, <1>5, <1>6
  <2>2. CASE k \in 1..m
    BY <2>2, <1>5, <1>6
  <2> QED BY <2>1, <2>2, <1>1
<1>10. \A i \in Nat : i < (n - 1) + (m + 1) <=> Within(i, kept) \/ Within(i, more)
  <2> SUFFICES ASSUME NEW i \in Nat
               PROVE  i < n + m <=> Within(i, kept) \/ Within(i, more)
    BY <1>1
  <2>1. Within(i, living) <=> Within(i, kept) \/ i = id
    <3>1. ASSUME NEW k \in 1..n, living[k] = i, i # id PROVE Within(i, kept)
      <4>1. CASE k = n
        <5>1. p \in 1..(n - 1) /\ kept[p] = i
          BY <3>1, <4>1, <1>1, <1>4
        <5> QED BY <5>1, <1>4 DEF Within
      <4>2. CASE k # n
        <5>1. k \in 1..(n - 1) /\ kept[k] = i
          BY <3>1, <4>2, <1>1, <1>4
        <5> QED BY <5>1, <1>4 DEF Within
      <4> QED BY <4>1, <4>2
    <3>2. ASSUME NEW j \in 1..(n - 1), kept[j] = i PROVE Within(i, living)
      <4>1. n \in 1..n /\ j \in 1..n
        BY <1>1
      <4> QED BY <3>2, <4>1, <1>1, <1>4 DEF Within
    <3> QED BY <3>1, <3>2, <1>1, <1>4 DEF Within
  <2>2. Within(i, more) <=> Within(i, free) \/ i = id
    <3>1. 1..(m + 1) = 1..m \cup {m + 1}
      BY <1>1
    <3> QED BY <3>1, <1>1, <1>5 DEF Within
  <2> QED BY <2>1, <2>2, <1>2
<1>11. IdsPartition(kept, more)
  BY <1>1, <1>3, <1>4, <1>5, <1>7, <1>8, <1>9, <1>10 DEF IdsPartition
<1> QED BY <1>11 DEF kept, more
-----------------------------------------------------------------------------
\* What the operations on a table do to the ids and their order.
LEMMA PutNew ==
  ASSUME NEW t, WellFormed(t), t.order \in Seq(Nat), NEW id \in Nat, NEW value,
         id \notin TableIds(t)
  PROVE  /\ WellFormed(TablePut(t, id, value))
         /\ TablePut(t, id, value).order = Append(t.order, id)
<1> DEFINE put == TablePut(t, id, value)
<1> DEFINE order == Append(t.order, id)
<1>1. /\ put = [order |-> put.order, entry |-> put.entry]
      /\ put.order = order
      /\ TableIds(put) = TableIds(t) \cup {id}
  BY DEF TablePut, TableIds
<1>2. /\ DOMAIN order = DOMAIN t.order \cup {Len(t.order) + 1}
      /\ order[Len(t.order) + 1] = id
      /\ \A k \in DOMAIN t.order : order[k] = t.order[k]
  OBVIOUS
<1> HIDE DEF put, order
<1>3. {order[k] : k \in DOMAIN order} = {t.order[k] : k \in DOMAIN t.order} \cup {id}
  BY <1>2
<1>4. WellFormed(put)
  BY <1>1, <1>3 DEF WellFormed
<1> QED BY <1>1, <1>4 DEF put, order

LEMMA ChangedEntry ==
  ASSUME NEW t, WellFormed(t), NEW id, NEW value
  PROVE  /\ WellFormed([t EXCEPT !.entry[id] = value])
         /\ [t EXCEPT !.entry[id] = value].order = t.order
<1> DEFINE changed == [t EXCEPT !.entry[id] = value]
<1>1. t = [order |-> t.order, entry |-> t.entry]
  BY DEF WellFormed
<1>2. changed = [order |-> t.order, entry |-> [t.entry EXCEPT ![id] = value]]
  BY <1>1
<1>3. TableIds(changed) = TableIds(t)
  BY <1>2 DEF TableIds
<1> QED BY <1>2, <1>3 DEF WellFormed

LEMMA RemovedEntry ==
  ASSUME NEW t, WellFormed(t), t.order \in Seq(Nat), Distinct(t.order),
         NEW id \in TableIds(t)
  PROVE  \E p \in DOMAIN t.order :
           /\ t.order[p] = id
           /\ TableRemove(t, id).order = SwapRemove(t.order, p)
           /\ WellFormed(TableRemove(t, id))
<1> DEFINE p == PositionOf(t.order, id)
<1> DEFINE n == Len(t.order)
<1> DEFINE kept == SwapRemove(t.order, p)
<1> DEFINE removed == TableRemove(t, id)
<1>1. p \in DOMAIN t.order /\ t.order[p] = id
  BY DEF WellFormed, PositionOf
<1>2. /\ removed = [order |-> removed.order, entry |-> removed.entry]
      /\ removed.order = kept
      /\ TableIds(removed) = TableIds(t) \ {id}
  BY DEF TableRemove, TableIds
<1>3. /\ n \in Nat /\ DOMAIN t.order = 1..n /\ p \in 1..n
      /\ DOMAIN kept = 1..(n - 1)
      /\ \A j \in 1..(n - 1) : kept[j] = IF j = p THEN t.order[n] ELSE t.order[j]
  BY <1>1 DEF SwapRemove
<1> HIDE DEF p, n, kept, removed
<1>4. ASSUME NEW j \in 1..(n - 1)
      PROVE  \E q \in 1..n : q # p /\ kept[j] = t.order[q]
  <2>1. CASE j = p
    <3>1. n \in 1..n /\ n # p
      BY <2>1, <1>3
    <3> QED BY <2>1, <3>1, <1>3
  <2>2. CASE j # p
    BY <2>2, <1>3
  <2> QED BY <2>1, <2>2
<1>5. ASSUME NEW q \in 1..n, q # p
      PROVE  \E j \in 1..(n - 1) : kept[j] = t.order[q]
  <2>1. CASE q = n
    <3>1. p \in 1..(n - 1)
      BY <2>1, <1>3, <1>5
    <3> QED BY <2>1, <3>1, <1>3
  <2>2. CASE q # n
    <3>1. q \in 1..(n - 1)
      BY <2>2, <1>3
    <3> QED BY <3>1, <1>3, <1>5
  <2> QED BY <2>1, <2>2
<1>6. \A q \in 1..n : q # p <=> t.order[q] # id
  BY <1>1, <1>3 DEF Distinct
<1>7. {kept[j] : j \in DOMAIN kept} = {t.order[q] : q \in DOMAIN t.order} \ {id}
  <2> DEFINE ids == {t.order[q] : q \in 1..n}
  <2> DEFINE left == {kept[j] : j \in 1..(n - 1)}
  <2>1. left \subseteq ids \ {id}
    BY <1>4, <1>6
  <2>2. ASSUME NEW q \in 1..n, t.order[q] # id PROVE t.order[q] \in left
    BY <1>5, <1>6, <2>2
  <2>3. ids \ {id} \subseteq left
    BY <2>2
  <2> QED BY <2>1, <2>3, <1>3
<1>8. WellFormed(removed)
  BY <1>2, <1>7 DEF WellFormed
<1> QED BY <1>1, <1>2, <1>8 DEF p, kept, removed
-----------------------------------------------------------------------------
\* The least element of a set of numbers.
LEMMA MinOfSet ==
  ASSUME NEW S \in SUBSET Nat, S # {}
  PROVE  Min(S) \in S /\ \A x \in S : Min(S) <= x
<1>1. PICK x \in S : \A y \in S : ~(<<y, x>> \in OpToRel(<, Nat))
  BY NatLessThanWellFounded, WFMin
<1>2. \A y \in S : ~(y < x)
  BY <1>1 DEF OpToRel
<1>3. \E z \in S : \A y \in S : z <= y
  BY <1>2
<1> QED BY <1>3 DEF Min
-----------------------------------------------------------------------------
\* Heaps.  Entries and cells are records of the right types; what an entry of
\* the table or of the dead list says of its cell is true.
IsThing(t) ==
  /\ t = [type |-> t.type, references |-> t.references, data |-> t.data]
  /\ t.type \in ThingTypes

IsCell(c) == c = [type |-> c.type, value |-> c.value] /\ c.type \in ThingTypes

HeapShape(h) ==
  /\ h = [things |-> h.things, dead |-> h.dead, cells |-> h.cells, capacity |-> h.capacity]
  /\ h.capacity \in Nat
  /\ WellFormed(h.things) /\ h.things.order \in Seq(Nat) /\ Distinct(h.things.order)
  /\ IsSequence(h.dead) /\ IsSequence(h.cells)
  /\ \A c \in DOMAIN h.cells : IsCell(h.cells[c])
  /\ \A id \in LiveThings(h) :
       /\ IsThing(Thing(h, id))
       /\ Thing(h, id).data \in DOMAIN h.cells
       /\ h.cells[Thing(h, id).data].type = Thing(h, id).type
  /\ \A k \in DOMAIN h.dead :
       /\ h.dead[k].id \in Nat
       /\ h.dead[k].data \in DOMAIN h.cells
       /\ h.cells[h.dead[k].data].type = h.dead[k].type

\* Cell c is the one of thing id, now or when the id is used again.
Belongs(h, c, id) ==
  \/ id \in LiveThings(h) /\ Thing(h, id).data = c
  \/ \E k \in DOMAIN h.dead : h.dead[k].data = c /\ h.dead[k].id = id

\* A cell keeps its id for ever: entries never leave the dead list, so that an
\* id may have several cells, but no cell two ids.
Owned(h) ==
  \A c \in DOMAIN h.cells : \A i, j \in Nat : Belongs(h, c, i) /\ Belongs(h, c, j) => i = j

HeapInv(h) == HeapShape(h) /\ Owned(h)

\* What HeapInv is for: no two things share a cell (CellsAreOwned).
LEMMA OwnedCells ==
  ASSUME NEW h, HeapInv(h), NEW i \in LiveThings(h), NEW j \in LiveThings(h), i # j
  PROVE  Thing(h, i).data # Thing(h, j).data
<1>1. i \in Nat /\ j \in Nat /\ Thing(h, i).data \in DOMAIN h.cells
  BY DEF HeapInv, HeapShape, WellFormed, LiveThings
<1> QED BY <1>1 DEF HeapInv, Owned, Belongs

LEMMA EmptyHeapInv == HeapInv(EmptyHeap)
<1> DEFINE h == EmptyHeap
<1>1. /\ h.things = [order |-> <<>>, entry |-> <<>>] /\ h.dead = <<>> /\ h.cells = <<>>
      /\ h.capacity = 0
      /\ h = [things |-> h.things, dead |-> h.dead, cells |-> h.cells, capacity |-> h.capacity]
  BY DEF EmptyHeap, EmptyTable
<1>2. IsSequence(<<>>)
  <2>1. <<>> \in Seq({})
    OBVIOUS
  <2> QED BY <2>1 DEF IsSequence
<1>3. WellFormed(h.things) /\ Distinct(h.things.order)
  BY <1>1 DEF WellFormed, TableIds, Distinct
<1> HIDE DEF h
<1>4. HeapShape(h)
  BY <1>1, <1>2, <1>3 DEF HeapShape, LiveThings, TableIds
<1>5. Owned(h)
  BY <1>1 DEF Owned
<1> QED BY <1>4, <1>5 DEF HeapInv, h

\* The count of a live thing changes, and nothing else.
WithCount(h, id, count) == [h EXCEPT !.things.entry[id].references = count]

LEMMA CountChanged ==
  ASSUME NEW h, HeapInv(h), NEW id \in LiveThings(h), NEW count,
         NEW g, g = WithCount(h, id, count)
  PROVE  /\ HeapInv(g)
         /\ g.cells = h.cells /\ g.dead = h.dead /\ g.things.order = h.things.order
         /\ LiveThings(g) = LiveThings(h)
         /\ \A i \in LiveThings(h) :
              Thing(g, i) = IF i = id THEN [Thing(h, i) EXCEPT !.references = count] ELSE Thing(h, i)
<1> DEFINE thing == [h.things.entry[id] EXCEPT !.references = count]
<1> DEFINE things == [h.things EXCEPT !.entry[id] = thing]
<1>1. h = [things |-> h.things, dead |-> h.dead, cells |-> h.cells, capacity |-> h.capacity]
  BY DEF HeapInv, HeapShape
<1>2. g = [h EXCEPT !.things = things]
  BY <1>1 DEF WithCount
<1>3. /\ IsThing(h.things.entry[id])
      /\ h.things.entry[id].data \in DOMAIN h.cells
      /\ h.cells[h.things.entry[id].data].type = h.things.entry[id].type
  BY DEF HeapInv, HeapShape, Thing
<1>4. /\ IsThing(thing) /\ thing.data = h.things.entry[id].data
      /\ thing.type = h.things.entry[id].type
  BY <1>3 DEF IsThing
<1>5. thing = [Thing(h, id) EXCEPT !.references = count]
  BY DEF Thing
<1> HIDE DEF thing
<1>6. WellFormed(h.things)
  BY DEF HeapInv, HeapShape
<1>7. WellFormed(things) /\ things.order = h.things.order
  BY <1>6, ChangedEntry
<1>8. things.entry = [h.things.entry EXCEPT ![id] = thing]
  BY <1>6 DEF WellFormed
<1> HIDE DEF things
<1>9. /\ g = [things |-> g.things, dead |-> g.dead, cells |-> g.cells, capacity |-> g.capacity]
      /\ g.things = things /\ g.dead = h.dead /\ g.cells = h.cells /\ g.capacity = h.capacity
  BY <1>1, <1>2
<1>10. /\ LiveThings(g) = LiveThings(h)
       /\ \A i \in LiveThings(h) : Thing(g, i) = IF i = id THEN thing ELSE Thing(h, i)
  BY <1>8, <1>9 DEF LiveThings, TableIds, Thing
<1>11. ASSUME NEW i \in LiveThings(g)
       PROVE  /\ IsThing(Thing(g, i)) /\ Thing(g, i).data = Thing(h, i).data
              /\ Thing(g, i).data \in DOMAIN g.cells
              /\ g.cells[Thing(g, i).data].type = Thing(g, i).type
  <2>1. /\ IsThing(Thing(h, i)) /\ Thing(h, i).data \in DOMAIN h.cells
        /\ h.cells[Thing(h, i).data].type = Thing(h, i).type
    BY <1>10 DEF HeapInv, HeapShape
  <2>2. CASE i = id
    BY <2>1, <2>2, <1>3, <1>4, <1>9, <1>10 DEF Thing
  <2>3. CASE i # id
    BY <2>1, <2>3, <1>9, <1>10
  <2> QED BY <2>2, <2>3
<1>12. HeapShape(g)
  BY <1>7, <1>9, <1>11 DEF HeapInv, HeapShape
<1>13. \A c, i : Belongs(g, c, i) => Belongs(h, c, i)
  BY <1>9, <1>10, <1>11 DEF Belongs
<1>14. Owned(g)
  BY <1>9, <1>13 DEF HeapInv, Owned
<1> QED BY <1>5, <1>7, <1>9, <1>10, <1>12, <1>14 DEF HeapInv

\* The value of a live thing changes, and nothing else.
LEMMA ValueChanged ==
  ASSUME NEW h, HeapInv(h), NEW id \in LiveThings(h), NEW value
  PROVE  LET g == SetValue(h, id, value)
             c == Thing(h, id).data
         IN  /\ HeapInv(g) /\ g.things = h.things /\ g.dead = h.dead
             /\ g.cells[c].value = value
             /\ DOMAIN g.cells = DOMAIN h.cells
             /\ \A d \in DOMAIN h.cells : d # c => g.cells[d] = h.cells[d]
<1> DEFINE g == SetValue(h, id, value)
<1> DEFINE c == Thing(h, id).data
<1> DEFINE cell == [h.cells[c] EXCEPT !.value = value]
<1> DEFINE cells == [h.cells EXCEPT ![c] = cell]
<1>1. h = [things |-> h.things, dead |-> h.dead, cells |-> h.cells, capacity |-> h.capacity]
  BY DEF HeapInv, HeapShape
<1>2. g = [h EXCEPT !.cells = cells]
  BY DEF SetValue
<1>3. /\ g = [things |-> g.things, dead |-> g.dead, cells |-> g.cells, capacity |-> g.capacity]
      /\ g.things = h.things /\ g.dead = h.dead /\ g.cells = cells /\ g.capacity = h.capacity
  <2> HIDE DEF cells, g
  <2> QED BY <1>1, <1>2
<1>4. c \in DOMAIN h.cells /\ IsCell(h.cells[c]) /\ IsSequence(h.cells)
  BY DEF HeapInv, HeapShape
<1>5. IsCell(cell) /\ cell.type = h.cells[c].type /\ cell.value = value
  BY <1>4 DEF IsCell
<1> HIDE DEF cell, c
<1>6. /\ IsSequence(cells) /\ DOMAIN cells = DOMAIN h.cells
      /\ \A d \in DOMAIN h.cells : cells[d] = IF d = c THEN cell ELSE h.cells[d]
  BY <1>4, ChangedSequence
<1> HIDE DEF cells, g
<1>7. LiveThings(g) = LiveThings(h) /\ \A i : Thing(g, i) = Thing(h, i)
  BY <1>3 DEF LiveThings, Thing
<1>8. HeapShape(g)
  BY <1>3, <1>4, <1>5, <1>6, <1>7 DEF HeapInv, HeapShape
<1>9. \A d, i : Belongs(g, d, i) <=> Belongs(h, d, i)
  BY <1>3, <1>7 DEF Belongs
<1>10. Owned(g)
  BY <1>3, <1>6, <1>9 DEF HeapInv, Owned
<1> QED BY <1>3, <1>4, <1>5, <1>6, <1>8, <1>10 DEF HeapInv, g, c

\* Where a thing is put: the cell must be one of the type, and nobody else's.
\* The thing at the id may be alive, it is overwritten then.
LEMMA ThingPut ==
  ASSUME NEW h, HeapInv(h), NEW id \in Nat, NEW type \in ThingTypes,
         NEW data \in DOMAIN h.cells, h.cells[data].type = type,
         \A j \in Nat : Belongs(h, data, j) => j = id,
         NEW g, g = PutThing(h, id, type, data)
  PROVE  /\ HeapInv(g)
         /\ g.cells = h.cells /\ g.dead = h.dead
         /\ g.things.order = IF id \in LiveThings(h) THEN h.things.order
                             ELSE Append(h.things.order, id)
         /\ LiveThings(g) = LiveThings(h) \cup {id}
         /\ \A i \in LiveThings(g) :
              Thing(g, i) = IF i = id THEN [type |-> type, references |-> 0, data |-> data]
                            ELSE Thing(h, i)
<1> DEFINE thing == [type |-> type, references |-> 0, data |-> data]
<1> DEFINE things == TablePut(h.things, id, thing)
<1> DEFINE capacity == IF id \notin LiveThings(h) /\ TableSize(h.things) >= h.capacity
                       THEN IF h.capacity = 0 THEN FirstCapacity ELSE 2 * h.capacity
                       ELSE h.capacity
<1>1. /\ h = [things |-> h.things, dead |-> h.dead, cells |-> h.cells, capacity |-> h.capacity]
      /\ h.capacity \in Nat /\ WellFormed(h.things) /\ h.things.order \in Seq(Nat)
      /\ Distinct(h.things.order)
  BY DEF HeapInv, HeapShape
<1>2. capacity \in Nat
  BY <1>1, FirstCapacityAssumption
<1>3. g = [[h EXCEPT !.things = things] EXCEPT !.capacity = capacity]
  BY <1>1 DEF PutThing
<1>4. IsThing(thing) /\ thing.data = data /\ thing.type = type
  BY DEF IsThing
<1> HIDE DEF thing
<1>5. /\ WellFormed(things)
      /\ things.order = IF id \in LiveThings(h) THEN h.things.order
                        ELSE Append(h.things.order, id)
  <2>1. CASE id \in LiveThings(h)
    <3>1. things = [h.things EXCEPT !.entry[id] = thing]
      BY <2>1 DEF TablePut, LiveThings
    <3> HIDE DEF things
    <3>2. WellFormed(things) /\ things.order = h.things.order
      BY <3>1, <1>1, ChangedEntry
    <3> QED BY <2>1, <3>2
  <2>2. CASE id \notin LiveThings(h)
    BY <2>2, <1>1, PutNew DEF LiveThings
  <2> QED BY <2>1, <2>2
<1>6. /\ TableIds(things) = LiveThings(h) \cup {id}
      /\ \A i \in TableIds(things) : things.entry[i] = IF i = id THEN thing ELSE Thing(h, i)
  BY <1>1 DEF TablePut, LiveThings, TableIds, Thing, WellFormed
<1> HIDE DEF things, capacity
<1>7. /\ g = [things |-> g.things, dead |-> g.dead, cells |-> g.cells, capacity |-> g.capacity]
      /\ g.things = things /\ g.dead = h.dead /\ g.cells = h.cells /\ g.capacity = capacity
  BY <1>1, <1>3
<1>8. /\ LiveThings(g) = LiveThings(h) \cup {id}
      /\ \A i \in LiveThings(g) : Thing(g, i) = IF i = id THEN thing ELSE Thing(h, i)
  BY <1>6, <1>7 DEF LiveThings, Thing
<1>9. things.order \in Seq(Nat) /\ Distinct(things.order)
  <2>1. CASE id \in LiveThings(h)
    BY <2>1, <1>1, <1>5
  <2>2. CASE id \notin LiveThings(h)
    <3>1. \A k \in DOMAIN h.things.order : h.things.order[k] # id
      BY <2>2, <1>1 DEF WellFormed, LiveThings
    <3> DEFINE order == h.things.order
    <3> DEFINE n == Len(order)
    <3>2. /\ order \in Seq(Nat) /\ n \in Nat /\ DOMAIN order = 1..n
          /\ \A j, k \in 1..n : order[j] = order[k] => j = k
          /\ \A k \in 1..n : order[k] # id
      BY <3>1, <1>1 DEF Distinct
    <3>3. things.order = Append(order, id)
      BY <2>2, <1>5
    <3>4. /\ Append(order, id) \in Seq(Nat) /\ DOMAIN Append(order, id) = 1..(n + 1)
          /\ Append(order, id)[n + 1] = id
          /\ \A k \in 1..n : Append(order, id)[k] = order[k]
      BY <3>2
    <3> DEFINE next == Append(order, id)
    <3> HIDE DEF n, next, order
    <3>5. ASSUME NEW j \in 1..(n + 1), NEW k \in 1..(n + 1), next[j] = next[k]
          PROVE  j = k
      <4>1. CASE j = n + 1 \/ k = n + 1
        BY <3>2, <3>4, <3>5, <4>1 DEF next
      <4>2. CASE j \in 1..n /\ k \in 1..n
        BY <3>2, <3>4, <3>5, <4>2 DEF next
      <4> QED BY <4>1, <4>2, <3>2
    <3>6. next \in Seq(Nat) /\ DOMAIN next = 1..(n + 1)
      BY <3>4 DEF next
    <3>7. things.order = next
      BY <3>3 DEF next
    <3> QED BY <3>5, <3>6, <3>7 DEF Distinct
  <2> QED BY <2>1, <2>2
<1>10. \A i \in LiveThings(g) :
         /\ IsThing(Thing(g, i)) /\ Thing(g, i).data \in DOMAIN g.cells
         /\ g.cells[Thing(g, i).data].type = Thing(g, i).type
  BY <1>4, <1>7, <1>8 DEF HeapInv, HeapShape
<1>11. HeapShape(g)
  BY <1>2, <1>5, <1>7, <1>9, <1>10 DEF HeapInv, HeapShape
<1>12. \A c, i : Belongs(g, c, i) => Belongs(h, c, i) \/ (c = data /\ i = id)
  BY <1>4, <1>7, <1>8 DEF Belongs
<1>13. Owned(g)
  BY <1>7, <1>12 DEF HeapInv, Owned
<1> QED BY <1>5, <1>7, <1>8, <1>11, <1>13 DEF HeapInv, thing

\* arena_push: the new cell is nobody's.
WithCell(h, cell) == [h EXCEPT !.cells = Append(@, cell)]

LEMMA CellPushed ==
  ASSUME NEW h, HeapInv(h), NEW cell, IsCell(cell),
         NEW g, g = WithCell(h, cell),
         NEW new, new = Len(h.cells) + 1
  PROVE  /\ HeapInv(g)
         /\ g.things = h.things /\ g.dead = h.dead /\ g.capacity = h.capacity
         /\ DOMAIN g.cells = DOMAIN h.cells \cup {new}
         /\ g.cells[new] = cell
         /\ \A i : ~Belongs(g, new, i)
         /\ \A c \in DOMAIN h.cells : g.cells[c] = h.cells[c]
<1> DEFINE cells == Append(h.cells, cell)
<1> DEFINE n == Len(h.cells)
<1>1. h = [things |-> h.things, dead |-> h.dead, cells |-> h.cells, capacity |-> h.capacity]
  BY DEF HeapInv, HeapShape
<1>2. g = [h EXCEPT !.cells = cells]
  BY <1>1 DEF WithCell
<1>3. IsSequence(cells) /\ n \in Nat /\ DOMAIN h.cells = 1..n /\ DOMAIN cells = 1..(n + 1)
      /\ cells[n + 1] = cell /\ \A c \in 1..n : cells[c] = h.cells[c]
  <2>1. IsSequence(h.cells)
    BY DEF HeapInv, HeapShape
  <2>2. PICK S : h.cells \in Seq(S)
    BY <2>1 DEF IsSequence
  <2>3. h.cells \in Seq(S \cup {cell})
    BY <2>2, SeqMonotonic
  <2> QED BY <2>1, <2>3, AppendedSequence, AppendProperties
<1> HIDE DEF cells
<1>4. /\ g = [things |-> g.things, dead |-> g.dead, cells |-> g.cells, capacity |-> g.capacity]
      /\ g.things = h.things /\ g.dead = h.dead /\ g.cells = cells /\ g.capacity = h.capacity
  BY <1>1, <1>2
<1> HIDE DEF n
<1>5. LiveThings(g) = LiveThings(h) /\ \A i : Thing(g, i) = Thing(h, i)
  BY <1>4 DEF LiveThings, Thing
<1>6. HeapShape(g)
  <2>1. \A c \in 1..(n + 1) : c \in 1..n \/ c = n + 1
    BY <1>3
  <2>2. \A c \in DOMAIN g.cells : IsCell(g.cells[c])
    BY <2>1, <1>3, <1>4 DEF HeapInv, HeapShape
  <2>3. \A c \in 1..n : c \in DOMAIN g.cells /\ g.cells[c] = h.cells[c]
    BY <1>3, <1>4
  <2>4. \A i \in LiveThings(g) :
          /\ IsThing(Thing(g, i)) /\ Thing(g, i).data \in DOMAIN g.cells
          /\ g.cells[Thing(g, i).data].type = Thing(g, i).type
    <3> SUFFICES ASSUME NEW i \in LiveThings(g)
                 PROVE  /\ IsThing(Thing(g, i)) /\ Thing(g, i).data \in DOMAIN g.cells
                        /\ g.cells[Thing(g, i).data].type = Thing(g, i).type
      OBVIOUS
    <3>1. /\ IsThing(Thing(h, i)) /\ Thing(h, i).data \in DOMAIN h.cells
          /\ h.cells[Thing(h, i).data].type = Thing(h, i).type
      BY <1>5 DEF HeapInv, HeapShape
    <3> QED BY <3>1, <1>3, <1>5, <2>3
  <2>5. \A k \in DOMAIN g.dead :
          /\ g.dead[k].id \in Nat /\ g.dead[k].data \in DOMAIN g.cells
          /\ g.cells[g.dead[k].data].type = g.dead[k].type
    BY <1>3, <1>4, <2>3 DEF HeapInv, HeapShape
  <2>6. /\ WellFormed(g.things) /\ g.things.order \in Seq(Nat) /\ Distinct(g.things.order)
        /\ IsSequence(g.dead) /\ IsSequence(g.cells) /\ g.capacity \in Nat
    BY <1>3, <1>4 DEF HeapInv, HeapShape
  <2> QED BY <1>4, <2>2, <2>4, <2>5, <2>6 DEF HeapShape
<1>7. \A c, i : /\ Belongs(g, c, i) <=> Belongs(h, c, i)
                /\ Belongs(h, c, i) => c \in 1..n
  BY <1>3, <1>4, <1>5 DEF Belongs, HeapInv, HeapShape
<1>8. Owned(g)
  BY <1>3, <1>7 DEF HeapInv, Owned
<1>9. \A i : ~Belongs(g, n + 1, i)
  <2>1. n + 1 \notin 1..n
    BY <1>3
  <2> QED BY <2>1, <1>7
<1>10. 1..(n + 1) = 1..n \cup {n + 1}
  BY <1>3
<1> QED BY <1>3, <1>4, <1>6, <1>8, <1>9, <1>10 DEF HeapInv, n

\* append_thing's choice: an entry of the dead list of the type, or a new cell.
LEMMA ThingAppended ==
  ASSUME NEW h, HeapInv(h), NEW type \in ThingTypes,
         NEW g, g = AppendThing(h, type), NEW id, id = AppendedId(h, type)
  PROVE  /\ HeapInv(g) /\ id \in Nat
         /\ g.dead = h.dead
         /\ g.things.order = IF id \in LiveThings(h) THEN h.things.order
                             ELSE Append(h.things.order, id)
         /\ LiveThings(g) = LiveThings(h) \cup {id}
         /\ \A i \in LiveThings(h) : i # id => Thing(g, i) = Thing(h, i)
         /\ Thing(g, id).type = type /\ Thing(g, id).references = 0
         /\ Thing(g, id).data \in DOMAIN g.cells
         /\ DOMAIN h.cells \subseteq DOMAIN g.cells
         /\ \A c \in DOMAIN h.cells : g.cells[c] = h.cells[c]
         /\ \A c \in DOMAIN g.cells \ DOMAIN h.cells :
              g.cells[c].type = type /\ g.cells[c].value = 0
<1>1. /\ h.things.order \in Seq(Nat) /\ IsSequence(h.dead) /\ Owned(h)
      /\ \A k \in DOMAIN h.dead : /\ h.dead[k].id \in Nat
                                   /\ h.dead[k].data \in DOMAIN h.cells
                                   /\ h.cells[h.dead[k].data].type = h.dead[k].type
  BY DEF HeapInv, HeapShape
<1>2. CASE Reusable(h, type) # {}
  <2>1. DOMAIN h.dead \subseteq Nat
    <3>1. PICK S : h.dead \in Seq(S)
      BY <1>1 DEF IsSequence
    <3> QED BY <3>1
  <2>2. Reusable(h, type) \in SUBSET Nat
    BY <2>1 DEF Reusable
  <2>3. PICK k : k = Min(Reusable(h, type)) /\ k \in Reusable(h, type)
    BY <1>2, <2>2, MinOfSet
  <2>4. k \in DOMAIN h.dead /\ h.dead[k].type = type
    BY <2>3 DEF Reusable
  <2>5. /\ id = h.dead[k].id
        /\ g = PutThing(h, h.dead[k].id, type, h.dead[k].data)
    BY <1>2, <2>3 DEF AppendThing, AppendedId
  <2>6. PICK data : /\ data = h.dead[k].data /\ data \in DOMAIN h.cells
                    /\ h.cells[data].type = type /\ g = PutThing(h, id, type, data)
    BY <1>1, <2>4, <2>5
  <2>7. id \in Nat /\ Belongs(h, data, id)
    BY <1>1, <2>4, <2>5, <2>6 DEF Belongs
  <2>8. \A j \in Nat : Belongs(h, data, j) => j = id
    BY <1>1, <2>6, <2>7 DEF Owned
  <2>9. /\ HeapInv(g) /\ g.cells = h.cells /\ g.dead = h.dead
        /\ g.things.order = IF id \in LiveThings(h) THEN h.things.order
                            ELSE Append(h.things.order, id)
        /\ LiveThings(g) = LiveThings(h) \cup {id}
        /\ \A i \in LiveThings(g) :
             Thing(g, i) = IF i = id THEN [type |-> type, references |-> 0, data |-> data]
                           ELSE Thing(h, i)
    BY <2>6, <2>7, <2>8, ThingPut
  <2> QED BY <2>6, <2>7, <2>9
<1>3. CASE Reusable(h, type) = {}
  <2>1. PICK cell : cell = [type |-> type, value |-> 0]
    OBVIOUS
  <2>2. PICK f : f = WithCell(h, cell)
    OBVIOUS
  <2>3. PICK data : data = Len(h.cells) + 1
    OBVIOUS
  <2>4. id = TableSize(h.things) /\ g = PutThing(f, id, type, data)
    BY <1>3, <2>1, <2>2, <2>3 DEF AppendThing, AppendedId, WithCell
  <2>5. id \in Nat
    BY <1>1, <2>4 DEF TableSize
  <2>6. IsCell(cell) /\ cell.type = type /\ cell.value = 0
    BY <2>1 DEF IsCell
  <2>7. /\ HeapInv(f)
        /\ f.things = h.things /\ f.dead = h.dead
        /\ DOMAIN f.cells = DOMAIN h.cells \cup {data}
        /\ f.cells[data] = cell
        /\ \A i : ~Belongs(f, data, i)
        /\ \A c \in DOMAIN h.cells : f.cells[c] = h.cells[c]
    <3>1. IsCell(cell) /\ HeapInv(h)
      BY <2>6
    <3>2. HeapInv(f) /\ f.things = h.things /\ f.dead = h.dead
      BY <2>2, <2>3, <3>1, CellPushed
    <3>3. /\ DOMAIN f.cells = DOMAIN h.cells \cup {data}
          /\ f.cells[data] = cell
      BY <2>2, <2>3, <3>1, CellPushed
    <3>4. \A i : ~Belongs(f, data, i)
      BY <2>2, <2>3, <3>1, CellPushed
    <3>5. \A c \in DOMAIN h.cells : f.cells[c] = h.cells[c]
      BY <2>2, <2>3, <3>1, CellPushed
    <3> QED BY <3>2, <3>3, <3>4, <3>5
  <2>8. LiveThings(f) = LiveThings(h) /\ \A i : Thing(f, i) = Thing(h, i)
    BY <2>7 DEF LiveThings, Thing
  <2>9. data \in DOMAIN f.cells /\ f.cells[data].type = type
    BY <2>6, <2>7
  <2>10. /\ HeapInv(g) /\ g.cells = f.cells /\ g.dead = f.dead
         /\ g.things.order = IF id \in LiveThings(f) THEN f.things.order
                             ELSE Append(f.things.order, id)
         /\ LiveThings(g) = LiveThings(f) \cup {id}
         /\ \A i \in LiveThings(g) :
              Thing(g, i) = IF i = id THEN [type |-> type, references |-> 0, data |-> data]
                            ELSE Thing(f, i)
    BY <2>4, <2>5, <2>7, <2>9, ThingPut
  <2>11. id \in LiveThings(g) /\ Thing(g, id) = [type |-> type, references |-> 0, data |-> data]
    BY <2>10
  <2>12. Thing(g, id).type = type /\ Thing(g, id).references = 0 /\ Thing(g, id).data = data
    BY <2>11
  <2> QED BY <2>5, <2>6, <2>7, <2>8, <2>9, <2>10, <2>12
<1> QED BY <1>2, <1>3

\* remove_thing: the thing goes, its id and its cell stay together in the list.
DeadEntry(h, id) == [type |-> Thing(h, id).type, id |-> id, data |-> Thing(h, id).data]

LEMMA ThingRemoved ==
  ASSUME NEW h, HeapInv(h), NEW id \in LiveThings(h),
         NEW g, g = RemoveThing(h, id)
  PROVE  /\ HeapInv(g)
         /\ g.cells = h.cells
         /\ g.dead = Append(h.dead, DeadEntry(h, id))
         /\ LiveThings(g) = LiveThings(h) \ {id}
         /\ \A i \in LiveThings(g) : Thing(g, i) = Thing(h, i)
         /\ \E p \in DOMAIN h.things.order :
              /\ h.things.order[p] = id
              /\ g.things.order = SwapRemove(h.things.order, p)
<1> DEFINE entry == DeadEntry(h, id)
<1> DEFINE dead == Append(h.dead, entry)
<1> DEFINE things == TableRemove(h.things, id)
<1>1. /\ h = [things |-> h.things, dead |-> h.dead, cells |-> h.cells, capacity |-> h.capacity]
      /\ h.capacity \in Nat /\ WellFormed(h.things) /\ h.things.order \in Seq(Nat)
      /\ Distinct(h.things.order) /\ IsSequence(h.dead)
      /\ IsThing(Thing(h, id)) /\ Thing(h, id).data \in DOMAIN h.cells
      /\ h.cells[Thing(h, id).data].type = Thing(h, id).type
  BY DEF HeapInv, HeapShape
<1>2. g = [[h EXCEPT !.things = things] EXCEPT !.dead = dead]
  BY <1>1 DEF RemoveThing, DeadEntry
<1>3. /\ TableIds(things) = LiveThings(h) \ {id}
      /\ \A i \in TableIds(things) : things.entry[i] = Thing(h, i)
  BY DEF TableRemove, LiveThings, TableIds, Thing
<1>4. PICK p \in DOMAIN h.things.order :
           /\ h.things.order[p] = id
           /\ things.order = SwapRemove(h.things.order, p)
           /\ WellFormed(things)
  BY <1>1, RemovedEntry DEF LiveThings
<1>5. entry.type = Thing(h, id).type /\ entry.id = id /\ entry.data = Thing(h, id).data
  BY DEF DeadEntry
<1> HIDE DEF entry, things
<1>6. /\ IsSequence(dead)
      /\ \A k \in DOMAIN dead : (k \in DOMAIN h.dead /\ dead[k] = h.dead[k]) \/ dead[k] = entry
  <2>1. PICK S : h.dead \in Seq(S)
    BY <1>1 DEF IsSequence
  <2>2. h.dead \in Seq(S \cup {entry})
    BY <2>1, SeqMonotonic
  <2>3. /\ DOMAIN dead = 1..(Len(h.dead) + 1) /\ dead[Len(h.dead) + 1] = entry
        /\ \A k \in 1..Len(h.dead) : dead[k] = h.dead[k]
        /\ DOMAIN h.dead = 1..Len(h.dead) /\ Len(h.dead) \in Nat
    BY <2>2, AppendProperties
  <2>4. \A k \in 1..(Len(h.dead) + 1) : k \in 1..Len(h.dead) \/ k = Len(h.dead) + 1
    BY <2>3
  <2> QED BY <1>1, <2>3, <2>4, AppendedSequence
<1>7. dead = Append(h.dead, entry)
  OBVIOUS
<1> HIDE DEF dead
<1>8. /\ g = [things |-> g.things, dead |-> g.dead, cells |-> g.cells, capacity |-> g.capacity]
      /\ g.things = things /\ g.dead = dead /\ g.cells = h.cells /\ g.capacity = h.capacity
  BY <1>1, <1>2
<1>9. LiveThings(g) = LiveThings(h) \ {id} /\ \A i \in LiveThings(g) : Thing(g, i) = Thing(h, i)
  BY <1>3, <1>8 DEF LiveThings, Thing
<1>10. things.order \in Seq(Nat) /\ Distinct(things.order)
  <2> DEFINE order == h.things.order
  <2> DEFINE n == Len(order)
  <2>1. order \in Seq(Nat) /\ n \in Nat /\ DOMAIN order = 1..n /\ p \in 1..n
        /\ \A j, k \in 1..n : order[j] = order[k] => j = k
    BY <1>1 DEF Distinct
  <2> HIDE DEF n
  <2>2. things.order = [j \in 1..(n - 1) |-> IF j = p THEN order[n] ELSE order[j]]
    BY <1>4 DEF SwapRemove, n
  <2> HIDE DEF order
  <2>3. n - 1 \in Nat /\ n \in 1..n /\ \A j \in 1..n : order[j] \in Nat
    BY <2>1
  <2>4. things.order \in [1..(n - 1) -> Nat]
    BY <2>1, <2>2, <2>3
  <2>5. ASSUME NEW j \in 1..(n - 1), NEW k \in 1..(n - 1), things.order[j] = things.order[k]
        PROVE  j = k
    <3>1. PICK a : a = (IF j = p THEN n ELSE j) /\ a \in 1..n
      BY <2>1, <2>3
    <3>2. PICK b : b = (IF k = p THEN n ELSE k) /\ b \in 1..n
      BY <2>1, <2>3
    <3>3. order[a] = order[b]
      BY <2>2, <2>5, <3>1, <3>2
    <3>4. a = b
      BY <2>1, <3>1, <3>2, <3>3
    <3>5. j # n /\ k # n
      BY <2>1
    <3> QED BY <3>1, <3>2, <3>4, <3>5
  <2>6. things.order \in Seq(Nat) /\ DOMAIN things.order = 1..(n - 1)
    BY <2>3, <2>4
  <2> QED BY <2>5, <2>6 DEF Distinct
<1>11. \A i \in LiveThings(g) :
         /\ IsThing(Thing(g, i)) /\ Thing(g, i).data \in DOMAIN g.cells
         /\ g.cells[Thing(g, i).data].type = Thing(g, i).type
  BY <1>8, <1>9 DEF HeapInv, HeapShape
<1>12. id \in Nat
  BY <1>1 DEF WellFormed, LiveThings
<1>13. ASSUME NEW k \in DOMAIN g.dead
       PROVE  /\ g.dead[k].id \in Nat /\ g.dead[k].data \in DOMAIN g.cells
              /\ g.cells[g.dead[k].data].type = g.dead[k].type
  <2>1. CASE k \in DOMAIN h.dead /\ g.dead[k] = h.dead[k]
    BY <2>1, <1>8 DEF HeapInv, HeapShape
  <2>2. CASE g.dead[k] = entry
    BY <2>2, <1>1, <1>5, <1>8, <1>12
  <2> QED BY <2>1, <2>2, <1>6, <1>8
<1>14. HeapShape(g)
  BY <1>4, <1>6, <1>8, <1>10, <1>11, <1>13 DEF HeapInv, HeapShape
<1>15. \A c, i : Belongs(g, c, i) => Belongs(h, c, i)
  <2> SUFFICES ASSUME NEW c, NEW i, Belongs(g, c, i) PROVE Belongs(h, c, i)
    OBVIOUS
  <2>1. CASE i \in LiveThings(g) /\ Thing(g, i).data = c
    BY <2>1, <1>9 DEF Belongs
  <2>2. CASE \E k \in DOMAIN g.dead : g.dead[k].data = c /\ g.dead[k].id = i
    BY <2>2, <1>5, <1>6, <1>8 DEF Belongs
  <2> QED BY <2>1, <2>2 DEF Belongs
<1>16. Owned(g)
  BY <1>8, <1>15 DEF HeapInv, Owned
<1> QED BY <1>4, <1>7, <1>8, <1>9, <1>14, <1>16 DEF HeapInv, entry
-----------------------------------------------------------------------------
\* Counting slots.  The places that hold a thing.
Bit(condition) == IF condition THEN 1 ELSE 0

Holders(id, slots) == {k \in DOMAIN slots : slots[k] = id}

LEMMA OccurrencesCount ==
  ASSUME NEW slots, IsFiniteSet(DOMAIN slots), NEW id
  PROVE  /\ IsFiniteSet(Holders(id, slots)) /\ Occurrences(id, slots) \in Nat
         /\ Occurrences(id, slots) = Cardinality(Holders(id, slots))
         /\ Occurrences(id, slots) # 0 <=> \E k \in DOMAIN slots : slots[k] = id
<1>1. Holders(id, slots) \in SUBSET DOMAIN slots
  BY DEF Holders
<1>2. IsFiniteSet(Holders(id, slots))
  BY <1>1, FS_Subset
<1>3. Occurrences(id, slots) = Cardinality(Holders(id, slots))
  BY DEF Occurrences, Holders
<1>4. Cardinality(Holders(id, slots)) = 0 <=> Holders(id, slots) = {}
  BY <1>2, FS_EmptySet
<1>5. Holders(id, slots) # {} <=> \E k \in DOMAIN slots : slots[k] = id
  BY DEF Holders
<1> QED BY <1>2, <1>3, <1>4, <1>5, FS_CardinalityType

LEMMA SequenceFinite ==
  ASSUME NEW s, IsSequence(s)
  PROVE  IsFiniteSet(DOMAIN s) /\ DOMAIN s = 1..Len(s)
<1>1. Len(s) \in Nat /\ DOMAIN s = 1..Len(s)
  BY SequenceLength DEF IsSequence
<1> QED BY <1>1, FS_Interval

\* One place changes, is added or goes.
LEMMA PlaceChanged ==
  ASSUME NEW f, IsFiniteSet(DOMAIN f), NEW g, NEW k, NEW id,
         \A j : j # k => (j \in DOMAIN g /\ g[j] = id <=> j \in DOMAIN f /\ f[j] = id)
  PROVE  Occurrences(id, g) + Bit(k \in DOMAIN f /\ f[k] = id)
           = Occurrences(id, f) + Bit(k \in DOMAIN g /\ g[k] = id)
<1> DEFINE F == Holders(id, f)
<1> DEFINE G == Holders(id, g)
<1> DEFINE rest == F \ {k}
<1>1. IsFiniteSet(F) /\ Cardinality(F) \in Nat
  BY OccurrencesCount
<1>2. IsFiniteSet(rest) /\ Cardinality(rest) = IF k \in F THEN Cardinality(F) - 1 ELSE Cardinality(F)
  BY <1>1, FS_RemoveElement
<1>3. k \in F <=> k \in DOMAIN f /\ f[k] = id
  BY DEF Holders
<1>4. k \in G <=> k \in DOMAIN g /\ g[k] = id
  BY DEF Holders
<1>5. \A j : j # k => (j \in G <=> j \in F)
  BY DEF Holders
<1>6. Occurrences(id, f) = Cardinality(F) /\ Occurrences(id, g) = Cardinality(G)
  BY DEF Occurrences, Holders
<1> HIDE DEF F, G
<1>7. k \notin rest /\ G = IF k \in G THEN rest \cup {k} ELSE rest
  BY <1>5
<1>8. Cardinality(rest) \in Nat
  BY <1>2, FS_CardinalityType
<1>9. Cardinality(G) = IF k \in G THEN Cardinality(rest) + 1 ELSE Cardinality(rest)
  BY <1>2, <1>7, FS_AddElement
<1>10. Occurrences(id, g) + Bit(k \in F) = Occurrences(id, f) + Bit(k \in G)
  BY <1>1, <1>2, <1>6, <1>8, <1>9 DEF Bit
<1> QED BY <1>3, <1>4, <1>10

LEMMA OccurrencesAppended ==
  ASSUME NEW s, IsSequence(s), NEW x, NEW id
  PROVE  Occurrences(id, Append(s, x)) = Occurrences(id, s) + Bit(x = id)
<1>1. PICK S : s \in Seq(S)
  BY DEF IsSequence
<1>2. s \in Seq(S \cup {x}) /\ x \in S \cup {x}
  BY <1>1, SeqMonotonic
<1> DEFINE g == Append(s, x)
<1> DEFINE k == Len(s) + 1
<1>3. /\ Len(s) \in Nat /\ DOMAIN s = 1..Len(s) /\ DOMAIN g = 1..k
      /\ g[k] = x /\ \A j \in 1..Len(s) : g[j] = s[j]
  BY <1>2, AppendProperties
<1>4. k \in DOMAIN g /\ k \notin DOMAIN s
  BY <1>3
<1> HIDE DEF g
<1>5. \A j : j # k => (j \in DOMAIN g /\ g[j] = id <=> j \in DOMAIN s /\ s[j] = id)
  BY <1>3
<1>6. IsFiniteSet(DOMAIN s)
  BY SequenceFinite
<1> HIDE DEF k
<1>7. Occurrences(id, g) + Bit(k \in DOMAIN s /\ s[k] = id)
        = Occurrences(id, s) + Bit(k \in DOMAIN g /\ g[k] = id)
  BY <1>5, <1>6, PlaceChanged
<1>8. Occurrences(id, g) \in Nat
  <2>1. IsFiniteSet(DOMAIN g)
    BY AppendedSequence, SequenceFinite DEF g
  <2> QED BY <2>1, OccurrencesCount
<1>9. Bit(k \in DOMAIN s /\ s[k] = id) = 0
  BY <1>4 DEF Bit
<1>10. Bit(k \in DOMAIN g /\ g[k] = id) = Bit(x = id)
  BY <1>3, <1>4 DEF Bit
<1> QED BY <1>7, <1>8, <1>9, <1>10 DEF g

LEMMA OccurrencesFront ==
  ASSUME NEW s, IsSequence(s), s # <<>>, NEW id
  PROVE  Occurrences(id, s) = Occurrences(id, Front(s)) + Bit(Last(s) = id)
<1>1. PICK S : s \in Seq(S)
  BY DEF IsSequence
<1>2. PICK n \in Nat : n = Len(s) /\ n >= 1
  BY <1>1, EmptySeq
<1>3. /\ DOMAIN s = 1..n /\ Last(s) = s[n]
      /\ DOMAIN Front(s) = 1..(n - 1) /\ \A j \in 1..(n - 1) : Front(s)[j] = s[j]
  <2>1. /\ 1 \in Int /\ n - 1 \in Int /\ \A i \in 1..(n - 1) : s[i] \in S
    BY <1>1, <1>2
  <2>2. /\ SubSeq(s, 1, n - 1) \in Seq(S)
        /\ Len(SubSeq(s, 1, n - 1)) = IF 1 <= n - 1 THEN (n - 1) - 1 + 1 ELSE 0
        /\ \A i \in 1..((n - 1) - 1 + 1) : SubSeq(s, 1, n - 1)[i] = s[1 + i - 1]
    BY <2>1, SubSeqProperties
  <2>3. Front(s) = SubSeq(s, 1, n - 1) /\ Last(s) = s[n]
    BY <1>2 DEF Front, Last
  <2>4. DOMAIN s = 1..n
    BY <1>1, <1>2
  <2>5. Len(Front(s)) = n - 1 /\ DOMAIN Front(s) = 1..(n - 1)
    BY <1>2, <2>2, <2>3
  <2>6. \A i \in 1..(n - 1) : Front(s)[i] = s[i]
    BY <1>2, <2>2, <2>3
  <2> QED BY <2>3, <2>4, <2>5, <2>6
<1>4. \A j : j # n => (j \in DOMAIN Front(s) /\ Front(s)[j] = id <=> j \in DOMAIN s /\ s[j] = id)
  BY <1>2, <1>3
<1>5. IsFiniteSet(DOMAIN s) /\ IsFiniteSet(DOMAIN Front(s))
  BY <1>2, <1>3, FS_Interval
<1>6. Occurrences(id, Front(s)) + Bit(n \in DOMAIN s /\ s[n] = id)
        = Occurrences(id, s) + Bit(n \in DOMAIN Front(s) /\ Front(s)[n] = id)
  BY <1>4, <1>5, PlaceChanged
<1>7. /\ Bit(n \in DOMAIN s /\ s[n] = id) = Bit(Last(s) = id)
      /\ Bit(n \in DOMAIN Front(s) /\ Front(s)[n] = id) = 0
  BY <1>2, <1>3 DEF Bit
<1>8. Occurrences(id, s) \in Nat /\ Occurrences(id, Front(s)) \in Nat
  BY <1>5, OccurrencesCount
<1>9. Bit(Last(s) = id) \in Nat
  BY DEF Bit
<1> QED BY <1>6, <1>7, <1>8, <1>9

LEMMA OccurrencesJoined ==
  ASSUME NEW a, IsSequence(a), NEW b, IsSequence(b), NEW id
  PROVE  IsSequence(a \o b) /\ Occurrences(id, a \o b) = Occurrences(id, a) + Occurrences(id, b)
<1>1. PICK S, T : a \in Seq(S) /\ b \in Seq(T)
  BY DEF IsSequence
<1> DEFINE U == S \cup T
<1>2. a \in Seq(U) /\ b \in Seq(U)
  BY <1>1, SeqMonotonic
<1> DEFINE s == a \o b
<1>3. PICK n \in Nat, m \in Nat : n = Len(a) /\ m = Len(b)
  BY <1>2
<1>4. /\ s \in Seq(U) /\ Len(s) = n + m /\ DOMAIN s = 1..(n + m)
      /\ DOMAIN a = 1..n /\ DOMAIN b = 1..m
      /\ \A i \in 1..(n + m) : s[i] = IF i <= n THEN a[i] ELSE b[i - n]
  BY <1>2, <1>3, ConcatProperties
<1> HIDE DEF s
<1> DEFINE A == Holders(id, a)
<1> DEFINE B == Holders(id, b)
<1> DEFINE C == Holders(id, s) \ A
<1> DEFINE f == [k \in B |-> n + k]
<1>5. A \subseteq 1..n /\ B \subseteq 1..m /\ A \subseteq Holders(id, s)
  <2>1. A \subseteq 1..n /\ B \subseteq 1..m
    BY <1>4 DEF Holders
  <2>2. A \subseteq Holders(id, s)
    BY <1>4 DEF Holders
  <2> QED BY <2>1, <2>2
<1>6. f \in Bijection(B, C)
  <2>1. ASSUME NEW k \in B PROVE n + k \in C
    <3>1. k \in 1..m /\ b[k] = id
      BY <1>5 DEF Holders
    <3>2. n + k \in 1..(n + m) /\ ~(n + k <= n) /\ n + k - n = k
      BY <3>1
    <3>3. s[n + k] = id
      BY <1>4, <3>1, <3>2
    <3>4. n + k \in Holders(id, s)
      BY <1>4, <3>2, <3>3 DEF Holders
    <3>5. n + k \notin A
      <4>1. n + k \notin 1..n
        BY <3>1
      <4> QED BY <1>5, <4>1
    <3> QED BY <3>4, <3>5
  <2>2. \A j, k \in B : n + j = n + k => j = k
    BY <1>5
  <2>3. \A c \in C : \E k \in B : n + k = c
    <3>1. SUFFICES ASSUME NEW c \in C PROVE c - n \in B /\ n + (c - n) = c
      OBVIOUS
    <3>2. c \in 1..(n + m) /\ s[c] = id /\ ~(c \in 1..n /\ a[c] = id)
      BY <1>4 DEF Holders
    <3>3. c > n
      BY <1>4, <3>2
    <3>4. c - n \in 1..m /\ b[c - n] = id
      BY <1>4, <3>2, <3>3
    <3> QED BY <1>4, <3>2, <3>4 DEF Holders
  <2> HIDE DEF B, C
  <2>4. f \in [B -> C]
    BY <2>1
  <2>5. f \in Injection(B, C)
    BY <2>2, <2>4 DEF Injection, IsInjective
  <2>6. f \in Surjection(B, C)
    BY <2>3, <2>4 DEF Surjection
  <2> QED BY <2>5, <2>6 DEF Bijection
<1>7. IsFiniteSet(A) /\ IsFiniteSet(B)
  BY SequenceFinite, OccurrencesCount
<1>8. IsFiniteSet(C) /\ Cardinality(C) = Cardinality(B)
  <2> HIDE DEF B, C, f
  <2>1. ExistsBijection(B, C)
    BY <1>6 DEF ExistsBijection
  <2> QED BY <1>7, <2>1, FS_Bijection
<1>9. Holders(id, s) = A \cup C /\ A \cap C = {}
  BY <1>5
<1>10. Cardinality(A \cup C) = Cardinality(A) + Cardinality(C) - Cardinality(A \cap C)
  <2> HIDE DEF A, C
  <2> QED BY <1>7, <1>8, FS_Union
<1>11. Cardinality({}) = 0
  BY FS_EmptySet
<1>12. /\ Occurrences(id, a) = Cardinality(A) /\ Occurrences(id, b) = Cardinality(B)
       /\ Occurrences(id, s) = Cardinality(Holders(id, s))
  BY DEF Occurrences, Holders
<1>13. Cardinality(A) \in Nat /\ Cardinality(B) \in Nat
  BY <1>7, FS_CardinalityType
<1>14. IsSequence(s)
  BY <1>4 DEF IsSequence
<1>15. Cardinality(Holders(id, s)) = Cardinality(A) + Cardinality(B)
  <2> HIDE DEF A, B, C, f, U
  <2>1. Cardinality(A \cap C) = 0
    BY <1>9, <1>11
  <2>2. Cardinality(Holders(id, s)) = Cardinality(A \cup C)
    BY <1>9
  <2> QED BY <1>8, <1>10, <1>13, <2>1, <2>2
<1> QED BY <1>12, <1>14, <1>15 DEF s

LEMMA OccurrencesCut ==
  ASSUME NEW S, NEW s \in Seq(S), NEW k \in 0..Len(s), NEW id
  PROVE  /\ SubSeq(s, 1, k) \in Seq(S) /\ SubSeq(s, k + 1, Len(s)) \in Seq(S)
         /\ Occurrences(id, s) =
              Occurrences(id, SubSeq(s, 1, k)) + Occurrences(id, SubSeq(s, k + 1, Len(s)))
<1>1. PICK n \in Nat : n = Len(s)
  OBVIOUS
<1>2. SubSeq(s, 1, k) \in Seq(S) /\ SubSeq(s, k + 1, n) \in Seq(S)
  <2>1. /\ 1 \in Int /\ k \in Int /\ k + 1 \in Int /\ n \in Int
        /\ \A i \in 1..k : s[i] \in S
        /\ \A i \in (k + 1)..n : s[i] \in S
    BY <1>1
  <2>2. SubSeq(s, 1, k) \in Seq(S)
    BY <2>1, SubSeqProperties
  <2>3. SubSeq(s, k + 1, n) \in Seq(S)
    BY <2>1, SubSeqProperties
  <2> QED BY <2>2, <2>3
<1>3. SubSeq(s, 1, k) \o SubSeq(s, k + 1, n) = s
  <2>1. /\ 1 \in 1..(Len(s) + 1) /\ k \in (1 - 1)..Len(s) /\ n \in k..Len(s)
    BY <1>1
  <2>2. SubSeq(s, 1, k) \o SubSeq(s, k + 1, n) = SubSeq(s, 1, n)
    BY <2>1, ConcatAdjacentSubSeq
  <2> QED BY <1>1, <2>2, SubSeqFull
<1>4. IsSequence(SubSeq(s, 1, k)) /\ IsSequence(SubSeq(s, k + 1, n))
  BY <1>2 DEF IsSequence
<1> QED BY <1>1, <1>2, <1>3, <1>4, OccurrencesJoined
-----------------------------------------------------------------------------
\* Arrays of slots.
FiniteArrays(arrays) ==
  IsFiniteSet(DOMAIN arrays) /\ \A i \in DOMAIN arrays : IsFiniteSet(DOMAIN arrays[i])

\* What array i holds, if there is one.
PartOf(id, arrays, i) == IF i \in DOMAIN arrays THEN Occurrences(id, arrays[i]) ELSE 0

LEMMA GatheredPlaces ==
  ASSUME NEW arrays
  PROVE  /\ \A p : p \in DOMAIN Gathered(arrays) <=>
                    \E i \in DOMAIN arrays : \E k \in DOMAIN arrays[i] : p = <<i, k>>
         /\ \A i \in DOMAIN arrays : \A k \in DOMAIN arrays[i] :
              Gathered(arrays)[<<i, k>>] = arrays[i][k]
<1> DEFINE places == UNION {{i} \X DOMAIN arrays[i] : i \in DOMAIN arrays}
<1> DEFINE f == [place \in places |-> arrays[place[1]][place[2]]]
<1>1. Gathered(arrays) = f
  BY DEF Gathered
<1>2. \A p : p \in places <=> \E i \in DOMAIN arrays : \E k \in DOMAIN arrays[i] : p = <<i, k>>
  OBVIOUS
<1>3. DOMAIN f = places
  OBVIOUS
<1>4. \A i \in DOMAIN arrays : \A k \in DOMAIN arrays[i] : f[<<i, k>>] = arrays[i][k]
  <2> SUFFICES ASSUME NEW i \in DOMAIN arrays, NEW k \in DOMAIN arrays[i]
               PROVE  f[<<i, k>>] = arrays[i][k]
    OBVIOUS
  <2>1. <<i, k>> \in places
    BY <1>2
  <2> HIDE DEF places
  <2> QED BY <2>1
<1> HIDE DEF f, places
<1> QED BY <1>1, <1>2, <1>3, <1>4

LEMMA GatheredFinite ==
  ASSUME NEW arrays, FiniteArrays(arrays)
  PROVE  IsFiniteSet(DOMAIN Gathered(arrays))
<1> DEFINE S == {{i} \X DOMAIN arrays[i] : i \in DOMAIN arrays}
<1> DEFINE f == [i \in DOMAIN arrays |-> {i} \X DOMAIN arrays[i]]
<1>1. f \in Surjection(DOMAIN arrays, S)
  BY DEF Surjection
<1>2. IsFiniteSet(S)
  <2> HIDE DEF S, f
  <2> QED BY <1>1, FS_Surjection DEF FiniteArrays
<1>3. \A T \in S : IsFiniteSet(T)
  <2> SUFFICES ASSUME NEW i \in DOMAIN arrays PROVE IsFiniteSet({i} \X DOMAIN arrays[i])
    OBVIOUS
  <2>1. IsFiniteSet({i}) /\ IsFiniteSet(DOMAIN arrays[i])
    BY FS_Singleton DEF FiniteArrays
  <2> QED BY <2>1, FS_Product
<1>4. DOMAIN Gathered(arrays) = UNION S
  BY DEF Gathered
<1> HIDE DEF S
<1> QED BY <1>2, <1>3, <1>4, FS_UNION

\* The holders outside array i.
Outside(id, arrays, i) == {p \in Holders(id, Gathered(arrays)) : p[1] # i}

LEMMA GatheredSplit ==
  ASSUME NEW arrays, FiniteArrays(arrays), NEW i, NEW id
  PROVE  /\ Cardinality(Outside(id, arrays, i)) \in Nat /\ PartOf(id, arrays, i) \in Nat
         /\ Occurrences(id, Gathered(arrays))
              = Cardinality(Outside(id, arrays, i)) + PartOf(id, arrays, i)
<1> DEFINE all == Holders(id, Gathered(arrays))
<1> DEFINE rest == Outside(id, arrays, i)
<1>1. IsFiniteSet(all) /\ Occurrences(id, Gathered(arrays)) = Cardinality(all)
  BY GatheredFinite, OccurrencesCount
<1>2. rest \in SUBSET all
  BY DEF Outside
<1>3. IsFiniteSet(rest) /\ Cardinality(rest) \in Nat
  <2> HIDE DEF all, rest
  <2> QED BY <1>1, <1>2, FS_Subset, FS_CardinalityType
<1>4. CASE i \notin DOMAIN arrays
  <2>1. \A p \in all : p[1] # i
    BY <1>4, GatheredPlaces DEF Holders
  <2>2. rest = all
    BY <2>1 DEF Outside
  <2> HIDE DEF all, rest
  <2>3. PartOf(id, arrays, i) = 0
    BY <1>4 DEF PartOf
  <2>4. Occurrences(id, Gathered(arrays)) = Cardinality(rest) + PartOf(id, arrays, i)
    BY <1>1, <1>3, <2>2, <2>3
  <2> QED BY <1>3, <2>3, <2>4 DEF rest
<1>5. CASE i \in DOMAIN arrays
  <2> DEFINE own == Holders(id, arrays[i])
  <2> DEFINE part == {i} \X own
  <2>1. IsFiniteSet(own) /\ PartOf(id, arrays, i) = Cardinality(own)
    BY <1>5, OccurrencesCount DEF FiniteArrays, PartOf
  <2>2. IsFiniteSet(part) /\ Cardinality(part) = Cardinality(own) /\ Cardinality(own) \in Nat
    <3> HIDE DEF own
    <3>1. IsFiniteSet({i}) /\ Cardinality({i}) = 1
      BY FS_Singleton
    <3>2. Cardinality(own) \in Nat
      BY <2>1, FS_CardinalityType
    <3>3. IsFiniteSet(part) /\ Cardinality(part) = Cardinality({i}) * Cardinality(own)
      BY <2>1, <3>1, FS_Product
    <3> QED BY <3>1, <3>2, <3>3
  <2>3. part \subseteq all
    BY <1>5, GatheredPlaces DEF Holders
  <2>4. \A p \in all : p[1] = i => p \in part
    BY <1>5, GatheredPlaces DEF Holders
  <2>5. rest \cap part = {} /\ all = rest \cup part
    BY <2>3, <2>4 DEF Outside
  <2> HIDE DEF all, rest, part, own
  <2>6. Cardinality(all) = Cardinality(rest) + Cardinality(part) - Cardinality({})
    BY <1>3, <2>2, <2>5, FS_Union
  <2>7. Cardinality(all) = Cardinality(rest) + Cardinality(own)
    BY <1>3, <2>2, <2>6, FS_EmptySet
  <2>8. PartOf(id, arrays, i) \in Nat
    BY <2>1, <2>2
  <2>9. Occurrences(id, Gathered(arrays)) = Cardinality(rest) + PartOf(id, arrays, i)
    BY <1>1, <2>1, <2>7
  <2> QED BY <1>3, <2>8, <2>9 DEF rest
<1> QED BY <1>4, <1>5

\* One array changes, is added or goes.
LEMMA PartChanged ==
  ASSUME NEW a, FiniteArrays(a), NEW b, FiniteArrays(b), NEW i, NEW id,
         \A j : j # i => (j \in DOMAIN a <=> j \in DOMAIN b),
         \A j \in DOMAIN a : j # i => a[j] = b[j]
  PROVE  Occurrences(id, Gathered(b)) + PartOf(id, a, i)
           = Occurrences(id, Gathered(a)) + PartOf(id, b, i)
<1>1. \A p : p \in Outside(id, a, i) <=> p \in Outside(id, b, i)
  <2> SUFFICES ASSUME NEW p PROVE p \in Outside(id, a, i) <=> p \in Outside(id, b, i)
    OBVIOUS
  <2>1. p \in Outside(id, a, i) <=>
          \E j \in DOMAIN a : \E k \in DOMAIN a[j] : j # i /\ p = <<j, k>> /\ a[j][k] = id
    BY GatheredPlaces DEF Outside, Holders
  <2>2. p \in Outside(id, b, i) <=>
          \E j \in DOMAIN b : \E k \in DOMAIN b[j] : j # i /\ p = <<j, k>> /\ b[j][k] = id
    BY GatheredPlaces DEF Outside, Holders
  <2> QED BY <2>1, <2>2
<1>2. Outside(id, a, i) = Outside(id, b, i)
  BY <1>1
<1>3. /\ Cardinality(Outside(id, a, i)) \in Nat /\ PartOf(id, a, i) \in Nat
      /\ Occurrences(id, Gathered(a)) = Cardinality(Outside(id, a, i)) + PartOf(id, a, i)
  BY GatheredSplit
<1>4. /\ Cardinality(Outside(id, b, i)) \in Nat /\ PartOf(id, b, i) \in Nat
      /\ Occurrences(id, Gathered(b)) = Cardinality(Outside(id, b, i)) + PartOf(id, b, i)
  BY GatheredSplit
<1> QED BY <1>2, <1>3, <1>4
-----------------------------------------------------------------------------
\* The count of a thing; of an id that no thing has, zero.
Refs(h, t) == IF t \in LiveThings(h) THEN Thing(h, t).references ELSE 0

TypedHeap(h) ==
  /\ HeapInv(h)
  /\ \A t \in LiveThings(h) : Thing(h, t).references \in Nat
  /\ \A c \in DOMAIN h.cells : h.cells[c].value \in Int

\* Every thing of heap h is in heap g, with its type and its value.
Kept(h, g) ==
  \A t \in LiveThings(h) :
    /\ t \in LiveThings(g)
    /\ Thing(g, t).type = Thing(h, t).type
    /\ Value(g, t) = Value(h, t)

LEMMA KeptFurther ==
  ASSUME NEW f, NEW g, NEW h, Kept(f, g), Kept(g, h)
  PROVE  Kept(f, h)
BY DEF Kept

LEMMA LiveIds ==
  ASSUME NEW h, HeapInv(h), NEW t \in LiveThings(h)
  PROVE  t \in Nat /\ \E k \in DOMAIN h.things.order : h.things.order[k] = t
<1>1. WellFormed(h.things) /\ h.things.order \in Seq(Nat)
  BY DEF HeapInv, HeapShape
<1>2. PICK k \in DOMAIN h.things.order : h.things.order[k] = t
  BY <1>1 DEF WellFormed, LiveThings
<1> QED BY <1>1, <1>2

LEMMA TypedThing ==
  ASSUME NEW h, TypedHeap(h), NEW t \in LiveThings(h)
  PROVE  /\ Thing(h, t).type \in ThingTypes
         /\ Thing(h, t).data \in DOMAIN h.cells
         /\ Value(h, t) \in Int
<1>1. IsThing(Thing(h, t)) /\ Thing(h, t).data \in DOMAIN h.cells
  BY DEF TypedHeap, HeapInv, HeapShape
<1> QED BY <1>1 DEF TypedHeap, IsThing, Value

\* What a read through a pointer kept across append_thing gives is a number.
LEMMA ReadIsInt ==
  ASSUME NEW h, TypedHeap(h), NEW type \in ThingTypes, NEW t \in LiveThings(h),
         NEW value \in ReadAcrossAppend(h, type, t)
  PROVE  value \in Int
<1>1. PICK g : g = AppendThing(h, type)
  OBVIOUS
<1>2. PICK id : id = AppendedId(h, type)
  OBVIOUS
<1>3. /\ Thing(g, id).data \in DOMAIN g.cells
      /\ \A c \in DOMAIN h.cells : g.cells[c] = h.cells[c]
      /\ \A c \in DOMAIN g.cells \ DOMAIN h.cells : g.cells[c].value = 0
  BY <1>1, <1>2, ThingAppended DEF TypedHeap
<1>4. Value(g, id) \in Int
  BY <1>3 DEF TypedHeap, Value
<1>5. Value(h, t) \in Int
  BY TypedThing
<1>6. value = Value(h, t) \/ value = Value(g, id) \/ value \in WildValues \cup FreshValues
  BY <1>1, <1>2 DEF ReadAcrossAppend
<1> QED BY <1>4, <1>5, <1>6, WildValuesAssumption, FreshValuesAssumption

LEMMA RefsTyped ==
  ASSUME NEW h, TypedHeap(h), NEW t
  PROVE  Refs(h, t) \in Nat
BY DEF TypedHeap, Refs

LEMMA EmptyHeapTyped == TypedHeap(EmptyHeap) /\ \A t : Refs(EmptyHeap, t) = 0
<1>1. LiveThings(EmptyHeap) = {} /\ EmptyHeap.cells = <<>>
  BY DEF EmptyHeap, EmptyTable, LiveThings, TableIds
<1> QED BY <1>1, EmptyHeapInv DEF TypedHeap, Refs

LEMMA Recounted ==
  ASSUME NEW h, TypedHeap(h), NEW id \in LiveThings(h), NEW count \in Nat,
         NEW g, g = WithCount(h, id, count)
  PROVE  /\ TypedHeap(g) /\ LiveThings(g) = LiveThings(h) /\ Kept(h, g)
         /\ \A t : Refs(g, t) = IF t = id THEN count ELSE Refs(h, t)
<1>1. /\ HeapInv(g)
      /\ g.cells = h.cells /\ g.dead = h.dead /\ g.things.order = h.things.order
      /\ LiveThings(g) = LiveThings(h)
      /\ \A i \in LiveThings(h) :
           Thing(g, i) = IF i = id THEN [Thing(h, i) EXCEPT !.references = count] ELSE Thing(h, i)
  BY CountChanged DEF TypedHeap
<1>2. \A i \in LiveThings(h) : IsThing(Thing(h, i))
  BY DEF TypedHeap, HeapInv, HeapShape
<1>3. \A i \in LiveThings(h) :
        /\ Thing(g, i).type = Thing(h, i).type /\ Thing(g, i).data = Thing(h, i).data
        /\ Thing(g, i).references = IF i = id THEN count ELSE Thing(h, i).references
  <2> SUFFICES ASSUME NEW i \in LiveThings(h)
               PROVE  /\ Thing(g, i).type = Thing(h, i).type /\ Thing(g, i).data = Thing(h, i).data
                      /\ Thing(g, i).references = IF i = id THEN count ELSE Thing(h, i).references
    OBVIOUS
  <2> DEFINE old == Thing(h, i)
  <2>1. old = [type |-> old.type, references |-> old.references, data |-> old.data]
    BY <1>2 DEF IsThing
  <2>2. Thing(g, i) = IF i = id THEN [old EXCEPT !.references = count] ELSE old
    BY <1>1
  <2> HIDE DEF old
  <2>3. /\ Thing(g, i).type = old.type /\ Thing(g, i).data = old.data
        /\ Thing(g, i).references = IF i = id THEN count ELSE old.references
    BY <2>1, <2>2
  <2> QED BY <2>3 DEF old
<1>4. Kept(h, g)
  BY <1>1, <1>3 DEF Kept, Value
<1>5. TypedHeap(g)
  BY <1>1, <1>3 DEF TypedHeap
<1> QED BY <1>1, <1>3, <1>4, <1>5 DEF Refs

LEMMA Referenced ==
  ASSUME NEW h, TypedHeap(h), NEW id \in LiveThings(h), NEW g, g = Reference(h, id)
  PROVE  /\ TypedHeap(g) /\ LiveThings(g) = LiveThings(h) /\ Kept(h, g)
         /\ \A t : Refs(g, t) = Refs(h, t) + Bit(t = id)
<1> DEFINE count == Thing(h, id).references + 1
<1>1. Thing(h, id).references \in Nat
  BY DEF TypedHeap
<1>2. g = WithCount(h, id, count)
  BY DEF Reference, WithCount, Thing
<1>3. Refs(h, id) = Thing(h, id).references
  BY DEF Refs
<1>4. count \in Nat
  BY <1>1
<1>5. \A t : Refs(h, t) \in Nat
  BY RefsTyped
<1> HIDE DEF count
<1>6. /\ TypedHeap(g) /\ LiveThings(g) = LiveThings(h) /\ Kept(h, g)
      /\ \A t : Refs(g, t) = IF t = id THEN count ELSE Refs(h, t)
  BY <1>2, <1>4, Recounted
<1> QED BY <1>3, <1>5, <1>6 DEF count, Bit

LEMMA Unreferenced ==
  ASSUME NEW h, TypedHeap(h), NEW id \in LiveThings(h), Thing(h, id).references > 0,
         NEW g, g = Unreference(h, id)
  PROVE  /\ TypedHeap(g) /\ LiveThings(g) = LiveThings(h) /\ Kept(h, g)
         /\ \A t : Refs(h, t) = Refs(g, t) + Bit(t = id)
<1> DEFINE count == Thing(h, id).references - 1
<1>1. Thing(h, id).references \in Nat
  BY DEF TypedHeap
<1>2. g = WithCount(h, id, count)
  BY DEF Unreference, WithCount, Thing
<1>3. Refs(h, id) = Thing(h, id).references
  BY DEF Refs
<1>4. count \in Nat /\ Thing(h, id).references = count + 1
  BY <1>1
<1>5. \A t : Refs(h, t) \in Nat
  BY RefsTyped
<1> HIDE DEF count
<1>6. /\ TypedHeap(g) /\ LiveThings(g) = LiveThings(h) /\ Kept(h, g)
      /\ \A t : Refs(g, t) = IF t = id THEN count ELSE Refs(h, t)
  BY <1>2, <1>4, Recounted
<1> QED BY <1>3, <1>4, <1>5, <1>6 DEF Bit

\* Every slot of an array gives up its reference.
LEMMA Released ==
  ASSUME NEW h, TypedHeap(h), NEW slots, IsFiniteSet(DOMAIN slots), CanRelease(h, slots),
         NEW g, g = Release(h, slots)
  PROVE  /\ TypedHeap(g) /\ LiveThings(g) = LiveThings(h) /\ Kept(h, g)
         /\ \A t : Refs(h, t) = Refs(g, t) + Occurrences(t, slots)
<1> DEFINE entry == [id \in LiveThings(h) |->
                       [Thing(h, id) EXCEPT !.references = @ - Occurrences(id, slots)]]
<1> DEFINE things == [h.things EXCEPT !.entry = entry]
<1>1. g = [h EXCEPT !.things = things]
  BY DEF Release
<1>2. /\ h = [things |-> h.things, dead |-> h.dead, cells |-> h.cells, capacity |-> h.capacity]
      /\ WellFormed(h.things)
  BY DEF TypedHeap, HeapInv, HeapShape
<1>3. things = [order |-> h.things.order, entry |-> entry]
  BY <1>2 DEF WellFormed
<1>4. /\ g = [things |-> things, dead |-> h.dead, cells |-> h.cells, capacity |-> h.capacity]
  <2> HIDE DEF things
  <2> QED BY <1>1, <1>2
<1>5. /\ g.things.order = h.things.order /\ g.dead = h.dead /\ g.cells = h.cells
      /\ g.capacity = h.capacity /\ LiveThings(g) = LiveThings(h)
      /\ g = [things |-> g.things, dead |-> g.dead, cells |-> g.cells, capacity |-> g.capacity]
      /\ g.things = [order |-> g.things.order, entry |-> g.things.entry]
  <2>1. /\ g.things = things /\ g.dead = h.dead /\ g.cells = h.cells /\ g.capacity = h.capacity
        /\ g = [things |-> g.things, dead |-> g.dead, cells |-> g.cells, capacity |-> g.capacity]
    <3> HIDE DEF things
    <3> QED BY <1>4
  <2>2. /\ things.order = h.things.order
        /\ things = [order |-> things.order, entry |-> things.entry]
    <3> HIDE DEF things, entry
    <3> QED BY <1>3
  <2>3. things.entry = entry /\ DOMAIN entry = LiveThings(h)
    <3>1. DOMAIN entry = LiveThings(h)
      OBVIOUS
    <3> HIDE DEF things, entry
    <3> QED BY <1>3, <3>1
  <2> HIDE DEF things, entry
  <2>4. LiveThings(g) = LiveThings(h)
    BY <2>1, <2>3 DEF LiveThings, TableIds
  <2> QED BY <2>1, <2>2, <2>4
<1>6. \A id \in LiveThings(h) :
        /\ IsThing(Thing(g, id))
        /\ Thing(g, id).type = Thing(h, id).type /\ Thing(g, id).data = Thing(h, id).data
        /\ Thing(g, id).references = Thing(h, id).references - Occurrences(id, slots)
  <2> SUFFICES ASSUME NEW id \in LiveThings(h)
               PROVE  /\ IsThing(Thing(g, id))
                      /\ Thing(g, id).type = Thing(h, id).type /\ Thing(g, id).data = Thing(h, id).data
                      /\ Thing(g, id).references = Thing(h, id).references - Occurrences(id, slots)
    OBVIOUS
  <2> DEFINE old == Thing(h, id)
  <2>1. Thing(g, id) = [old EXCEPT !.references = old.references - Occurrences(id, slots)]
    BY <1>3, <1>4 DEF Thing
  <2>2. old = [type |-> old.type, references |-> old.references, data |-> old.data]
        /\ old.type \in ThingTypes
    BY DEF TypedHeap, HeapInv, HeapShape, IsThing, Thing
  <2> HIDE DEF old
  <2>3. Thing(g, id) = [type |-> old.type, references |-> old.references - Occurrences(id, slots),
                        data |-> old.data]
    BY <2>1, <2>2
  <2> QED BY <2>2, <2>3 DEF IsThing, Thing, old
<1> HIDE DEF things, entry
<1>7. HeapInv(g)
  <2>1. \A c, i : Belongs(g, c, i) <=> Belongs(h, c, i)
    BY <1>5, <1>6 DEF Belongs
  <2>2. Owned(g)
    BY <1>5, <2>1 DEF TypedHeap, HeapInv, Owned
  <2>3. WellFormed(g.things)
    BY <1>5 DEF WellFormed, LiveThings, TypedHeap, HeapInv, HeapShape
  <2>4. HeapShape(g)
    BY <1>5, <1>6, <2>3 DEF TypedHeap, HeapInv, HeapShape
  <2> QED BY <2>2, <2>4 DEF HeapInv
<1>8. \A t : Occurrences(t, slots) \in Nat /\ (t \notin LiveThings(h) => Occurrences(t, slots) = 0)
  <2> SUFFICES ASSUME NEW t
               PROVE  /\ Occurrences(t, slots) \in Nat
                      /\ t \notin LiveThings(h) => Occurrences(t, slots) = 0
    OBVIOUS
  <2>1. Occurrences(t, slots) \in Nat
        /\ (Occurrences(t, slots) # 0 => \E k \in DOMAIN slots : slots[k] = t)
    BY OccurrencesCount
  <2> QED BY <2>1 DEF CanRelease
<1>9. \A t \in LiveThings(h) : Occurrences(t, slots) <= Thing(h, t).references
  <2> SUFFICES ASSUME NEW t \in LiveThings(h)
               PROVE  Occurrences(t, slots) <= Thing(h, t).references
    OBVIOUS
  <2>1. Thing(h, t).references \in Nat
    BY DEF TypedHeap
  <2>2. Occurrences(t, slots) # 0 => \E k \in DOMAIN slots : slots[k] = t
    BY OccurrencesCount
  <2> QED BY <2>1, <2>2 DEF CanRelease
<1>10. \A t \in LiveThings(h) :
         /\ Thing(g, t).references \in Nat
         /\ Thing(h, t).references = Thing(g, t).references + Occurrences(t, slots)
  <2> SUFFICES ASSUME NEW t \in LiveThings(h)
               PROVE  /\ Thing(g, t).references \in Nat
                      /\ Thing(h, t).references = Thing(g, t).references + Occurrences(t, slots)
    OBVIOUS
  <2>1. Thing(h, t).references \in Nat
    BY DEF TypedHeap
  <2> QED BY <1>6, <1>8, <1>9, <2>1
<1>11. TypedHeap(g)
  BY <1>5, <1>7, <1>10 DEF TypedHeap
<1>12. Kept(h, g)
  BY <1>5, <1>6 DEF Kept, Value
<1> QED BY <1>5, <1>8, <1>10, <1>11, <1>12 DEF Refs

\* append_thing and the assignment of its data: no thing changes unless the id
\* is the one of a living thing.
LEMMA Grown ==
  ASSUME NEW h, TypedHeap(h), NEW type \in ThingTypes, NEW value \in Int,
         NEW id, id = AppendedId(h, type),
         NEW g, g = SetValue(AppendThing(h, type), id, value)
  PROVE  /\ TypedHeap(g) /\ id \in LiveThings(g)
         /\ id \notin LiveThings(h) => Kept(h, g) /\ \A t : Refs(g, t) = Refs(h, t)
<1> DEFINE a == AppendThing(h, type)
<1> DEFINE c == Thing(a, id).data
<1>1. /\ HeapInv(a) /\ id \in Nat
      /\ LiveThings(a) = LiveThings(h) \cup {id}
      /\ \A i \in LiveThings(h) : i # id => Thing(a, i) = Thing(h, i)
      /\ Thing(a, id).type = type /\ Thing(a, id).references = 0
      /\ Thing(a, id).data \in DOMAIN a.cells
      /\ DOMAIN h.cells \subseteq DOMAIN a.cells
      /\ \A d \in DOMAIN h.cells : a.cells[d] = h.cells[d]
      /\ \A d \in DOMAIN a.cells \ DOMAIN h.cells :
           a.cells[d].type = type /\ a.cells[d].value = 0
  BY ThingAppended DEF TypedHeap
<1>2. g = SetValue(a, id, value)
  OBVIOUS
<1> HIDE DEF a
<1>3. id \in LiveThings(a)
  BY <1>1
<1>4. /\ HeapInv(g) /\ g.things = a.things
      /\ g.cells[c].value = value
      /\ DOMAIN g.cells = DOMAIN a.cells
      /\ \A d \in DOMAIN a.cells : d # c => g.cells[d] = a.cells[d]
  BY <1>1, <1>2, <1>3, ValueChanged
<1>5. LiveThings(g) = LiveThings(a) /\ \A i : Thing(g, i) = Thing(a, i)
  BY <1>4 DEF LiveThings, Thing
<1>6. \A d \in DOMAIN a.cells : a.cells[d].value \in Int
  BY <1>1 DEF TypedHeap
<1>7. TypedHeap(g)
  <2>1. \A d \in DOMAIN g.cells : g.cells[d].value \in Int
    BY <1>4, <1>6
  <2>2. \A t \in LiveThings(g) : Thing(g, t).references \in Nat
    BY <1>1, <1>5 DEF TypedHeap
  <2> QED BY <1>4, <2>1, <2>2 DEF TypedHeap
<1>8. ASSUME id \notin LiveThings(h) PROVE Kept(h, g) /\ \A t : Refs(g, t) = Refs(h, t)
  <2>1. \A t \in LiveThings(h) : t # id /\ t \in LiveThings(a) /\ Thing(a, t) = Thing(h, t)
    BY <1>1, <1>8
  <2>2. \A t \in LiveThings(h) : Thing(h, t).data # c
    BY <1>1, <2>1, OwnedCells
  <2>3. \A t \in LiveThings(h) : Thing(h, t).data \in DOMAIN h.cells
    BY TypedThing
  <2>4. \A t \in LiveThings(h) : Value(g, t) = Value(h, t)
    BY <1>1, <1>4, <1>5, <2>1, <2>2, <2>3 DEF Value
  <2>5. Kept(h, g)
    BY <1>5, <2>1, <2>4 DEF Kept
  <2>6. \A t : Refs(g, t) = Refs(h, t)
    BY <1>1, <1>5, <2>1 DEF Refs
  <2> QED BY <2>5, <2>6
<1> QED BY <1>3, <1>5, <1>7, <1>8

\* remove_thing of a thing that nothing holds.
LEMMA Removed ==
  ASSUME NEW h, TypedHeap(h), NEW id \in LiveThings(h), Thing(h, id).references = 0,
         NEW g, g = RemoveThing(h, id)
  PROVE  /\ TypedHeap(g)
         /\ \A t : Refs(g, t) = Refs(h, t)
         /\ \A t \in LiveThings(h) : t # id =>
              /\ t \in LiveThings(g)
              /\ Thing(g, t).type = Thing(h, t).type
              /\ Value(g, t) = Value(h, t)
<1>1. /\ HeapInv(g) /\ g.cells = h.cells
      /\ LiveThings(g) = LiveThings(h) \ {id}
      /\ \A i \in LiveThings(g) : Thing(g, i) = Thing(h, i)
  BY ThingRemoved DEF TypedHeap
<1>2. TypedHeap(g)
  BY <1>1 DEF TypedHeap
<1> QED BY <1>1, <1>2 DEF Refs, Value
=============================================================================

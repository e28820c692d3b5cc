------------------------------- MODULE Arena --------------------------------
(* The arena (furlang/src/alloc/arena.c) as furc uses it: a list of regions  *)
(* of words, searched from the first.  A block is where an allocation lies.  *)
EXTENDS Integers, Sequences

CONSTANTS
  WordSize,            \* sizeof(uintptr_t)
  MinRegionCapacity    \* MIN_REGION_CAPACITY, in words

ASSUME ArenaAssumption == WordSize \in Nat \ {0} /\ MinRegionCapacity \in Nat

EmptyArena == <<>>

WordsOf(size) == (size + WordSize - 1) \div WordSize

\* furlang_region_create
NewRegion(words) ==
  [capacity |-> IF words > MinRegionCapacity THEN words ELSE MinRegionCapacity,
   count    |-> 0]

Fitting(arena, words) ==
  {k \in DOMAIN arena : arena[k].count + words <= arena[k].capacity}

\* The arena with a region that has room; an empty one gets its first.
WithRoom(arena, words) ==
  IF Fitting(arena, words) = {} THEN Append(arena, NewRegion(words)) ELSE arena

FirstFitting(arena, words) ==
  CHOOSE k \in Fitting(arena, words) : \A j \in Fitting(arena, words) : k <= j

\* furlang_arena_alloc: the block of so many bytes, and the arena after it.
BlockFor(arena, size) ==
  LET regions == WithRoom(arena, WordsOf(size))
      k       == FirstFitting(regions, WordsOf(size))
  IN  [region |-> k, offset |-> regions[k].count, words |-> WordsOf(size)]

\* A slip: the region that was made last is taken, whatever room it has.
FilledAtTheTail(arena, size) ==
  LET regions == WithRoom(arena, WordsOf(size))
  IN  [regions EXCEPT ![Len(regions)].count = @ + WordsOf(size)]

Filled(arena, size) ==
  LET regions == WithRoom(arena, WordsOf(size))
  IN  [regions EXCEPT ![FirstFitting(regions, WordsOf(size))].count = @ + WordsOf(size)]
=============================================================================

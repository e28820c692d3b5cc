------------------------------ MODULE Machine -------------------------------
(* What one instruction does (furlang/src/executor.c:38-343, src/module.c:   *)
(* 43-58, src/ops.c).  A machine is a record                                 *)
(*   heap      the things of the context                                     *)
(*   globals   the global variables of the executor's module                 *)
(*   executor  [running, callStack, scopes]                                  *)
(*   stray     a global that was never written has been unreferenced, or the *)
(*             id of a live thing has been handed out                        *)
(*   fault     the assertion that aborted the process, or NoFault            *)
(* A module is [code, functions, globals].  The operators compose as the     *)
(* functions of the code call each other; after a fault nothing changes.     *)
EXTENDS Heap, Operands

NoFault == "none"
Hangs   == "resize terminates"  \* no assertion: the process goes on for ever

NewScope    == [variables |-> <<>>, stack |-> <<>>]
NewExecutor == [running |-> TRUE, callStack |-> <<>>, scopes |-> <<>>]

Fail(m, assertion) == [m EXCEPT !.fault = assertion]

\* assert(condition), then the rest.
Require(m, condition, assertion, rest) ==
  IF m.fault # NoFault THEN m ELSE IF condition THEN rest ELSE Fail(m, assertion)

\* The slots of a scope, and of all scopes of an executor.
ScopeSlots(scope) == scope.variables \o scope.stack
SlotsOf(e) == Gathered([s \in DOMAIN e.scopes |-> ScopeSlots(e.scopes[s])])

\* The globals of a module that were ever written.
Written(globals) ==
  [g \in {g \in DOMAIN globals : globals[g].written} |-> globals[g].thing]

TopScope(m) == Last(m.executor.scopes)
TopThing(m) == Last(TopScope(m).stack)
Position(m) == Last(m.executor.callStack)

MoveTo(m, address) ==
  [m EXCEPT !.executor.callStack[Len(m.executor.callStack)].address = address]
-----------------------------------------------------------------------------
Push(m, id) ==
  Require(m, id # DeadThing, "pushed thing is not dead",
  Require(m, id \in LiveThings(m.heap), "thing is live",
    [m EXCEPT !.heap = Reference(@, id),
              !.executor.scopes[Len(m.executor.scopes)].stack = Append(@, id)]))

\* A slip: the count is decremented without a look at it.
UnreferenceUnchecked(m, id) ==
  Require(m, id \in LiveThings(m.heap), "thing is live",
    [m EXCEPT !.heap = Unreference(@, id)])

UnreferenceThing(m, id) ==
  Require(m, id \in LiveThings(m.heap), "thing is live",
  Require(m, Thing(m.heap, id).references > 0, "count is positive",
    [m EXCEPT !.heap = Unreference(@, id)]))

\* A slip: pop hands the reference over to its caller.
PopKeepingTheCount(m) ==
  Require(m, TopScope(m).stack # <<>>, "stack is not empty",
    [m EXCEPT !.executor.scopes[Len(m.executor.scopes)].stack = Front(@)])

\* The popped thing is TopThing(m).
Pop(m) ==
  Require(m, TopScope(m).stack # <<>>, "stack is not empty",
    UnreferenceThing(
      [m EXCEPT !.executor.scopes[Len(m.executor.scopes)].stack = Front(@)],
      TopThing(m)))

\* append_thing, the assignment of its data, and push.  After a collection the
\* id may be the id of a live thing.
PushNew(m, type, value) ==
  LET id == AppendedId(m.heap, type)
  IN  Push([m EXCEPT !.heap  = SetValue(AppendThing(@, type), id, value),
                     !.stray = @ \/ id \in LiveThings(m.heap)], id)
-----------------------------------------------------------------------------
StepIn(m, position) ==
  Require(m, m.executor.running, "executor is running",
    [m EXCEPT !.executor.callStack = Append(@, position),
              !.executor.scopes = Append(@, NewScope)])

\* Every variable is unreferenced, the ones that were never stored (holes,
\* DeadThing) too, which no table holds.
PopScope(m) ==
  LET slots == ScopeSlots(TopScope(m))
  IN  Require(m, m.executor.scopes # <<>>, "scope exists",
      Require(m, DeadThing \notin Range(slots), "variable is live",
      Require(m, CanRelease(m.heap, slots), "count is positive",
        [m EXCEPT !.heap = Release(@, slots), !.executor.scopes = Front(@)])))

\* A slip: the executor is never marked finished.
StepOutStillRunning(m) ==
  Require(m, m.executor.callStack # <<>>, "call stack is not empty",
    PopScope([m EXCEPT !.executor.callStack = Front(@)]))

StepOut(m) ==
  LET popped == PopScope([m EXCEPT !.executor.callStack = Front(@)])
  IN  Require(m, m.executor.callStack # <<>>, "call stack is not empty",
        [popped EXCEPT !.executor.running = popped.executor.callStack # <<>>])

\* A slip: the while loop of cleanup stops after one scope.
CleanupOneScope(m) ==
  IF m.executor.scopes = <<>> THEN m
  ELSE [PopScope(m) EXCEPT !.executor = [NewExecutor EXCEPT !.running = FALSE]]

\* executor_cleanup: every scope is popped, and the executor zeroed.
Cleanup(m) ==
  LET slots == SlotsOf(m.executor)
  IN  Require(m, DeadThing \notin Range(slots), "variable is live",
      Require(m, CanRelease(m.heap, slots), "count is positive",
        [m EXCEPT !.heap = Release(@, slots),
                  !.executor = [NewExecutor EXCEPT !.running = FALSE]]))
-----------------------------------------------------------------------------
\* A slip: the capacity is signed.
ResizeHangsSigned(count) == 4 * count >= ShortModulus

\* FURLANG_DA_RESIZE of the variables, whose count and capacity are uint16_t:
\* the count wraps to zero, or the doubling of the capacity never ends.
CountWraps(index)  == index + 1 = ShortModulus
ResizeHangs(count) == 2 * count >= ShortModulus

VariableAt(variables, index) ==
  IF index < Len(variables) THEN variables[index + 1] ELSE DeadThing

Stored(variables, index, id) ==
  [k \in 1..(IF index < Len(variables) THEN Len(variables) ELSE index + 1) |->
     IF k = index + 1 THEN id ELSE VariableAt(variables, k - 1)]

StoreVariable(m, index, id) ==
  LET old      == VariableAt(TopScope(m).variables, index)
      released == IF old = DeadThing THEN m ELSE UnreferenceThing(m, old)
  IN  Require(m, ~CountWraps(index), "index is below the count",
      Require(m, ~ResizeHangs(index + 1), Hangs,
      Require(released, id \in LiveThings(released.heap), "thing is live",
        [released EXCEPT
           !.heap = Reference(@, id),
           !.executor.scopes[Len(m.executor.scopes)].variables = Stored(@, index, id)])))

\* store_global_var cannot tell a global nobody wrote from a thing.
StoreGlobal(m, index, id) ==
  LET old      == m.globals[index + 1]
      marked   == [m EXCEPT !.stray = @ \/ (~old.written /\ old.thing # DeadThing)]
      released == IF old.thing = DeadThing THEN m ELSE UnreferenceThing(marked, old.thing)
  IN  Require(m, IsBelow(index, Len(m.globals)), "index is below the count",
      Require(released, id \in LiveThings(released.heap), "thing is live",
        [released EXCEPT
           !.heap = Reference(@, id),
           !.globals[index + 1] = [thing |-> id, written |-> TRUE]]))
=============================================================================

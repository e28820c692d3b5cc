--------------------------- MODULE MachineProofs ----------------------------
(* Lemmas about the machine of an executor: whatever instruction it executes *)
(* (furlang/src/executor.c:38-343, src/thing.c:21-48, src/module.c:43-58),   *)
(* each call keeps its scope, the executor is marked running exactly as long *)
(* as it has a call, the count of every thing stays equal to the number of   *)
(* places that hold it, and no thing that was there changes.                 *)
EXTENDS Instructions, HeapProofs

-----------------------------------------------------------------------------
IsExecutor(e) ==
  /\ e = [running |-> e.running, callStack |-> e.callStack, scopes |-> e.scopes]
  /\ e.running \in BOOLEAN
  /\ IsSequence(e.callStack) /\ IsSequence(e.scopes)

\* What FramesMatch says of one executor.
Framed(e) ==
  /\ IsExecutor(e)
  /\ Len(e.callStack) = Len(e.scopes)
  /\ e.running <=> e.callStack # <<>>

IsMachine(m) ==
  m = [heap |-> m.heap, globals |-> m.globals, executor |-> m.executor,
       stray |-> m.stray, fault |-> m.fault]

\* A machine that no assertion has stopped has its frames in order.
Sound(m) == IsMachine(m) /\ (m.fault = NoFault => Framed(m.executor))
-----------------------------------------------------------------------------
\* What the operations of a machine leave of the executor.  MoveTo stays in the
\* call the executor is in.
LEMMA MoveToSound ==
  ASSUME NEW m, Sound(m), NEW address
  PROVE  Sound(MoveTo(m, address)) /\ MoveTo(m, address).fault = m.fault
<1> DEFINE e == m.executor
<1> DEFINE k == Len(e.callStack)
<1> DEFINE calls == [e.callStack EXCEPT ![k] = [e.callStack[k] EXCEPT !.address = address]]
<1> DEFINE moved == MoveTo(m, address)
<1>1. /\ IsMachine(moved) /\ moved.fault = m.fault
      /\ moved.executor = [e EXCEPT !.callStack = calls]
  BY DEF MoveTo, Sound, IsMachine
<1>2. ASSUME Framed(e) PROVE Framed([e EXCEPT !.callStack = calls])
  <2>1. \A x : /\ IsSequence([e.callStack EXCEPT ![k] = x])
               /\ Len([e.callStack EXCEPT ![k] = x]) = Len(e.callStack)
    BY <1>2, ChangedSequence DEF Framed, IsExecutor
  <2>2. IsSequence(calls) /\ Len(calls) = Len(e.callStack)
    BY <2>1
  <2>3. calls = <<>> <=> e.callStack = <<>>
    BY <1>2, <2>2, SequenceLength DEF Framed, IsExecutor
  <2> HIDE DEF calls
  <2> QED BY <1>2, <2>2, <2>3 DEF Framed, IsExecutor
<1> QED BY <1>1, <1>2 DEF Sound

\* Changing the innermost scope leaves the frames in order.
LEMMA ScopeChanged ==
  ASSUME NEW e, Framed(e), NEW k, NEW scope
  PROVE  Framed([e EXCEPT !.scopes = [e.scopes EXCEPT ![k] = scope]])
<1> DEFINE scopes == [e.scopes EXCEPT ![k] = scope]
<1>1. IsSequence(scopes) /\ Len(scopes) = Len(e.scopes)
  BY ChangedSequence DEF Framed, IsExecutor
<1> HIDE DEF scopes
<1>2. Framed([e EXCEPT !.scopes = scopes])
  BY <1>1 DEF Framed, IsExecutor
<1> QED BY <1>2 DEF scopes

LEMMA FailSound ==
  ASSUME NEW m, Sound(m), NEW assertion, assertion # NoFault
  PROVE  Sound(Fail(m, assertion)) /\ Fail(m, assertion).fault # NoFault
BY DEF Fail, Sound, IsMachine

\* Nothing but the things, the globals or the mark of a stray release changes.
LEMMA HeapChanged ==
  ASSUME NEW m, Sound(m), NEW heap
  PROVE  /\ Sound([m EXCEPT !.heap = heap])
         /\ [m EXCEPT !.heap = heap].executor = m.executor
BY DEF Sound, IsMachine

LEMMA GlobalsChanged ==
  ASSUME NEW m, Sound(m), NEW globals
  PROVE  Sound([m EXCEPT !.globals = globals])
BY DEF Sound, IsMachine

LEMMA StrayChanged ==
  ASSUME NEW m, Sound(m), NEW stray
  PROVE  Sound([m EXCEPT !.stray = stray])
BY DEF Sound, IsMachine

LEMMA PushSound ==
  ASSUME NEW m, Sound(m), NEW id
  PROVE  Sound(Push(m, id))
<1> DEFINE e == m.executor
<1> DEFINE k == Len(e.scopes)
<1> DEFINE scope == [e.scopes[k] EXCEPT !.stack = Append(@, id)]
<1> DEFINE pushed == [m EXCEPT !.heap = Reference(@, id),
                               !.executor.scopes[k].stack = Append(@, id)]
<1> DEFINE executor == [e EXCEPT !.scopes = [e.scopes EXCEPT ![k] = scope]]
<1>0. pushed = [m EXCEPT !.heap = Reference(@, id), !.executor = executor]
  OBVIOUS
<1>1. /\ IsMachine(pushed) /\ pushed.fault = m.fault
      /\ pushed.executor = executor
  <2> HIDE DEF executor, pushed
  <2> QED BY <1>0 DEF Sound, IsMachine
<1>2. Sound(pushed)
  <2> HIDE DEF pushed, scope, k
  <2> QED BY <1>1, ScopeChanged DEF Sound
<1>3. \/ Push(m, id) = m \/ Push(m, id) = pushed
      \/ \E assertion : assertion # NoFault /\ Push(m, id) = Fail(m, assertion)
  BY DEF Push, Require, NoFault
<1> QED BY <1>2, <1>3, FailSound

LEMMA UnreferenceSound ==
  ASSUME NEW m, Sound(m), NEW id
  PROVE  Sound(UnreferenceThing(m, id))
<1> DEFINE unreferenced == [m EXCEPT !.heap = Unreference(@, id)]
<1>1. Sound(unreferenced)
  BY DEF Sound, IsMachine
<1>2. \/ UnreferenceThing(m, id) = m \/ UnreferenceThing(m, id) = unreferenced
      \/ \E assertion : assertion # NoFault /\ UnreferenceThing(m, id) = Fail(m, assertion)
  BY DEF UnreferenceThing, Require, NoFault
<1> QED BY <1>1, <1>2, FailSound

LEMMA PopSound ==
  ASSUME NEW m, Sound(m)
  PROVE  Sound(Pop(m))
<1> DEFINE e == m.executor
<1> DEFINE k == Len(e.scopes)
<1> DEFINE scope == [e.scopes[k] EXCEPT !.stack = Front(@)]
<1> DEFINE executor == [e EXCEPT !.scopes = [e.scopes EXCEPT ![k] = scope]]
<1> DEFINE popped == [m EXCEPT !.executor.scopes[k].stack = Front(@)]
<1>1. popped = [m EXCEPT !.executor = executor]
  OBVIOUS
<1>2. IsMachine(popped) /\ popped.fault = m.fault /\ popped.executor = executor
  <2> HIDE DEF executor, popped
  <2> QED BY <1>1 DEF Sound, IsMachine
<1>3. Sound(popped)
  <2> HIDE DEF popped, scope, k
  <2> QED BY <1>2, ScopeChanged DEF Sound
<1>4. Sound(UnreferenceThing(popped, TopThing(m)))
  BY <1>3, UnreferenceSound
<1>5. \/ Pop(m) = m \/ Pop(m) = UnreferenceThing(popped, TopThing(m))
      \/ \E assertion : assertion # NoFault /\ Pop(m) = Fail(m, assertion)
  BY DEF Pop, Require, NoFault
<1> QED BY <1>4, <1>5, FailSound

LEMMA PushNewSound ==
  ASSUME NEW m, Sound(m), NEW type, NEW value
  PROVE  Sound(PushNew(m, type, value))
<1> DEFINE id == AppendedId(m.heap, type)
<1> DEFINE heap == SetValue(AppendThing(m.heap, type), id, value)
<1> DEFINE grown == [m EXCEPT !.heap = heap]
<1> DEFINE stray == m.stray \/ id \in LiveThings(m.heap)
<1> DEFINE made == [grown EXCEPT !.stray = stray]
<1>1. PushNew(m, type, value) = Push(made, id)
  BY DEF PushNew, Sound, IsMachine
<1>2. Sound(grown)
  <2> HIDE DEF heap
  <2> QED BY HeapChanged
<1>3. Sound(made)
  <2> HIDE DEF grown
  <2>1. \A x : Sound([grown EXCEPT !.stray = x])
    BY <1>2, StrayChanged
  <2> QED BY <2>1
<1> HIDE DEF made, id
<1> QED BY <1>1, <1>3, PushSound

\* A running executor enters a call.
LEMMA CallEntered ==
  ASSUME NEW e, Framed(e), NEW position
  PROVE  e.running =>
           Framed([e EXCEPT !.callStack = Append(@, position), !.scopes = Append(@, NewScope)])
<1> DEFINE calls == Append(e.callStack, position)
<1> DEFINE scopes == Append(e.scopes, NewScope)
<1> DEFINE entered == [e EXCEPT !.callStack = calls, !.scopes = scopes]
<1>1. /\ IsSequence(calls) /\ Len(calls) = Len(e.callStack) + 1 /\ calls # <<>>
      /\ IsSequence(scopes) /\ Len(scopes) = Len(e.scopes) + 1
  BY AppendedSequence DEF Framed, IsExecutor
<1>2. [e EXCEPT !.callStack = Append(@, position), !.scopes = Append(@, NewScope)] = entered
  BY DEF Framed, IsExecutor
<1> HIDE DEF calls, scopes
<1>3. e = [running |-> e.running, callStack |-> e.callStack, scopes |-> e.scopes]
  BY DEF Framed, IsExecutor
<1>4. entered = [running |-> e.running, callStack |-> calls, scopes |-> scopes]
  <2> DEFINE called == [e EXCEPT !.callStack = calls]
  <2>1. called = [running |-> e.running, callStack |-> calls, scopes |-> e.scopes]
    BY <1>3
  <2>2. entered = [called EXCEPT !.scopes = scopes]
    BY <1>3
  <2> HIDE DEF called, entered
  <2> QED BY <2>1, <2>2
<1> HIDE DEF entered
<1>5. e.running => Framed(entered)
  BY <1>1, <1>4 DEF Framed, IsExecutor
<1> QED BY <1>2, <1>5

LEMMA StepInSound ==
  ASSUME NEW m, Sound(m), NEW position
  PROVE  Sound(StepIn(m, position))
<1> DEFINE e == m.executor
<1> DEFINE executor == [e EXCEPT !.callStack = Append(@, position), !.scopes = Append(@, NewScope)]
<1> DEFINE entered == [m EXCEPT !.executor.callStack = Append(@, position),
                                !.executor.scopes = Append(@, NewScope)]
<1>1. entered = [m EXCEPT !.executor = executor]
  BY DEF Sound, IsMachine
<1>2. IsMachine(entered) /\ entered.fault = m.fault /\ entered.executor = executor
  <2> HIDE DEF executor, entered
  <2> QED BY <1>1 DEF Sound, IsMachine
<1>3. Framed(e) /\ e.running => Framed(executor)
  BY CallEntered
<1>4. e.running => Sound(entered)
  <2> HIDE DEF entered, executor
  <2> QED BY <1>2, <1>3 DEF Sound
<1>5. \/ StepIn(m, position) = m
      \/ e.running /\ StepIn(m, position) = entered
      \/ \E assertion : assertion # NoFault /\ StepIn(m, position) = Fail(m, assertion)
  BY DEF StepIn, Require, NoFault
<1> QED BY <1>4, <1>5, FailSound

\* The innermost call is left, and the executor is marked finished with the last.
LEMMA CallLeft ==
  ASSUME NEW e, Framed(e), e.callStack # <<>>
  PROVE  /\ e.scopes # <<>>
         /\ Framed([running |-> Front(e.callStack) # <<>>,
                    callStack |-> Front(e.callStack), scopes |-> Front(e.scopes)])
<1> DEFINE calls == Front(e.callStack)
<1> DEFINE scopes == Front(e.scopes)
<1> DEFINE running == calls # <<>>
<1> DEFINE left == [running |-> running, callStack |-> calls, scopes |-> scopes]
<1>1. e.scopes # <<>>
  BY SequenceLength DEF Framed, IsExecutor
<1>2. /\ IsSequence(calls) /\ Len(calls) = Len(e.callStack) - 1
      /\ IsSequence(scopes) /\ Len(scopes) = Len(e.scopes) - 1
  BY <1>1, FrontSequence DEF Framed, IsExecutor
<1> HIDE DEF calls, scopes
<1>3. running \in BOOLEAN
  OBVIOUS
<1>4. /\ left = [running |-> left.running, callStack |-> left.callStack, scopes |-> left.scopes]
      /\ left.callStack = calls /\ left.scopes = scopes /\ left.running = running
  OBVIOUS
<1> HIDE DEF left
<1>5. Framed(left)
  <2>1. left.running <=> left.callStack # <<>>
    BY <1>4
  <2>2. left.running \in BOOLEAN
    BY <1>3, <1>4
  <2> HIDE DEF running
  <2> QED BY <1>2, <1>4, <2>1, <2>2 DEF Framed, IsExecutor
<1> QED BY <1>1, <1>5 DEF left, calls, scopes

\* PopScope alone: the machine is stopped, or loses its innermost scope.
LEMMA PopScopeOutcome ==
  ASSUME NEW m, IsMachine(m), m.fault = NoFault
  PROVE  /\ IsMachine(PopScope(m))
         /\ \/ PopScope(m).fault # NoFault
            \/ /\ PopScope(m).fault = NoFault
               /\ PopScope(m).executor = [m.executor EXCEPT !.scopes = Front(@)]
<1> DEFINE slots == ScopeSlots(TopScope(m))
<1> DEFINE heap == Release(m.heap, slots)
<1> DEFINE executor == [m.executor EXCEPT !.scopes = Front(@)]
<1> DEFINE released == [m EXCEPT !.heap = heap]
<1> DEFINE popped == [released EXCEPT !.executor = executor]
<1>1. \/ PopScope(m) = popped
      \/ \E assertion : assertion # NoFault /\ PopScope(m) = Fail(m, assertion)
  BY DEF PopScope, Require, NoFault, IsMachine
<1>2. \A assertion : IsMachine(Fail(m, assertion)) /\ Fail(m, assertion).fault = assertion
  BY DEF Fail, IsMachine
<1>3. IsMachine(released) /\ released.fault = NoFault
  <2> HIDE DEF heap
  <2> QED BY DEF IsMachine
<1>4. IsMachine(popped) /\ popped.fault = NoFault /\ popped.executor = executor
  <2> HIDE DEF released, executor
  <2> QED BY <1>3 DEF IsMachine
<1> HIDE DEF popped
<1> QED BY <1>1, <1>2, <1>4

LEMMA StepOutSound ==
  ASSUME NEW m, Sound(m)
  PROVE  Sound(StepOut(m))
<1> DEFINE e == m.executor
<1> DEFINE calls == Front(e.callStack)
<1> DEFINE called == [m EXCEPT !.executor = [e EXCEPT !.callStack = calls]]
<1> DEFINE popped == PopScope(called)
<1> DEFINE left == [popped EXCEPT !.executor.running = popped.executor.callStack # <<>>]
<1>1. IsMachine(called) /\ called.fault = m.fault
      /\ called.executor = [e EXCEPT !.callStack = calls]
  BY DEF Sound, IsMachine
<1>2. \/ StepOut(m) = m
      \/ \E assertion : assertion # NoFault /\ StepOut(m) = Fail(m, assertion)
      \/ m.fault = NoFault /\ e.callStack # <<>> /\ StepOut(m) = left
  BY DEF StepOut, Require, NoFault, Sound, IsMachine
<1> HIDE DEF called
<1>3. ASSUME m.fault = NoFault, e.callStack # <<>> PROVE Sound(left)
  <2>1. IsMachine(popped)
    BY <1>1, <1>3, PopScopeOutcome
  <2>2. \/ popped.fault # NoFault
        \/ /\ popped.fault = NoFault
           /\ popped.executor = [called.executor EXCEPT !.scopes = Front(@)]
    BY <1>1, <1>3, PopScopeOutcome
  <2> HIDE DEF popped
  <2> DEFINE executor == [popped.executor EXCEPT !.running = popped.executor.callStack # <<>>]
  <2>3. left = [popped EXCEPT !.executor = executor]
    BY <2>1 DEF IsMachine
  <2>4. IsMachine(left) /\ left.fault = popped.fault /\ left.executor = executor
    <3> HIDE DEF executor, left
    <3> QED BY <2>1, <2>3 DEF IsMachine
  <2>5. CASE popped.fault # NoFault
    <3> HIDE DEF left
    <3> QED BY <2>4, <2>5 DEF Sound
  <2>6. CASE popped.fault = NoFault
    <3> DEFINE scopes == Front(e.scopes)
    <3>1. e = [running |-> e.running, callStack |-> e.callStack, scopes |-> e.scopes]
      BY <1>3 DEF Sound, Framed, IsExecutor
    <3>2. called.executor = [running |-> e.running, callStack |-> calls, scopes |-> e.scopes]
      BY <1>1, <3>1
    <3>3. popped.executor = [running |-> e.running, callStack |-> calls, scopes |-> scopes]
      BY <2>2, <2>6, <3>2
    <3>4. executor = [running |-> calls # <<>>, callStack |-> calls, scopes |-> scopes]
      BY <3>3
    <3>5. Framed(executor)
      BY <1>3, <3>4, CallLeft DEF Sound
    <3> HIDE DEF left, executor
    <3> QED BY <2>4, <3>5 DEF Sound
  <2> QED BY <2>5, <2>6
<1> QED BY <1>2, <1>3, FailSound

\* A scope is changed, and with it what is referenced.
LEMMA SlotChanged ==
  ASSUME NEW m, Sound(m), NEW heap, NEW k, NEW scope
  PROVE  Sound([[m EXCEPT !.heap = heap]
                  EXCEPT !.executor = [m.executor EXCEPT !.scopes = [@ EXCEPT ![k] = scope]]])
<1> DEFINE executor == [m.executor EXCEPT !.scopes = [@ EXCEPT ![k] = scope]]
<1> DEFINE counted == [m EXCEPT !.heap = heap]
<1> DEFINE changed == [counted EXCEPT !.executor = executor]
<1>1. Sound(counted) /\ counted.executor = m.executor
  BY HeapChanged
<1>2. Framed(m.executor) => Framed(executor)
  BY ScopeChanged
<1> HIDE DEF counted, executor
<1>3. Sound(changed)
  BY <1>1, <1>2 DEF Sound, IsMachine
<1> QED BY <1>3 DEF counted, executor

LEMMA StoreVariableSound ==
  ASSUME NEW m, Sound(m), NEW index, NEW id
  PROVE  Sound(StoreVariable(m, index, id))
<1> DEFINE old == VariableAt(TopScope(m).variables, index)
<1> DEFINE k == Len(m.executor.scopes)
<1> DEFINE released == IF old = DeadThing THEN m ELSE UnreferenceThing(m, old)
<1> DEFINE heap == Reference(released.heap, id)
<1> DEFINE variables == Stored(released.executor.scopes[k].variables, index, id)
<1> DEFINE scope == [released.executor.scopes[k] EXCEPT !.variables = variables]
<1> DEFINE executor == [released.executor EXCEPT !.scopes = [@ EXCEPT ![k] = scope]]
<1> DEFINE stored == [released EXCEPT
                        !.heap = Reference(@, id),
                        !.executor.scopes[k].variables = Stored(@, index, id)]
<1>1. Sound(released)
  BY UnreferenceSound
<1>2. \/ StoreVariable(m, index, id) \in {m, released, stored}
      \/ \E assertion : /\ assertion # NoFault
                        /\ StoreVariable(m, index, id) \in {Fail(m, assertion), Fail(released, assertion)}
  BY DEF StoreVariable, Require, NoFault, Hangs
<1> HIDE DEF released
<1>3. stored = [[released EXCEPT !.heap = heap] EXCEPT !.executor = executor]
  BY <1>1 DEF Sound, IsMachine
<1>4. Sound(stored)
  <2> HIDE DEF heap, k, scope, stored
  <2> QED BY <1>1, <1>3, SlotChanged
<1> QED BY <1>1, <1>2, <1>4, FailSound

LEMMA StoreGlobalSound ==
  ASSUME NEW m, Sound(m), NEW index, NEW id
  PROVE  Sound(StoreGlobal(m, index, id))
<1> DEFINE old == m.globals[index + 1]
<1> DEFINE stray == m.stray \/ (~old.written /\ old.thing # DeadThing)
<1> DEFINE marked == [m EXCEPT !.stray = stray]
<1> DEFINE released == IF old.thing = DeadThing THEN m ELSE UnreferenceThing(marked, old.thing)
<1> DEFINE heap == Reference(released.heap, id)
<1> DEFINE global == [thing |-> id, written |-> TRUE]
<1> DEFINE globals == [released.globals EXCEPT ![index + 1] = global]
<1> DEFINE stored == [released EXCEPT !.heap = Reference(@, id), !.globals[index + 1] = global]
<1>1. Sound(marked)
  <2>1. \A x : Sound([m EXCEPT !.stray = x])
    BY StrayChanged
  <2> QED BY <2>1
<1>2. Sound(released)
  <2> HIDE DEF marked
  <2> QED BY <1>1, UnreferenceSound
<1>3. \/ StoreGlobal(m, index, id) \in {m, released, stored}
      \/ \E assertion : /\ assertion # NoFault
                        /\ StoreGlobal(m, index, id) \in {Fail(m, assertion), Fail(released, assertion)}
  BY DEF StoreGlobal, Require, NoFault
<1> HIDE DEF released
<1>4. stored = [[released EXCEPT !.heap = heap] EXCEPT !.globals = globals]
  BY <1>2 DEF Sound, IsMachine
<1>5. Sound([released EXCEPT !.heap = heap])
  BY <1>2, HeapChanged
<1>6. Sound(stored)
  BY <1>4, <1>5, GlobalsChanged
<1> QED BY <1>2, <1>3, <1>6, FailSound
-----------------------------------------------------------------------------
\* Reading an operand or the target of a jump stops the machine or does the rest.
LEMMA ReadOperandSound ==
  ASSUME NEW m, Sound(m), NEW module, NEW size, NEW rest, Sound(rest)
  PROVE  Sound(ReadOperand(m, module, size, rest))
<1>1. \/ ReadOperand(m, module, size, rest) \in {m, rest}
      \/ \E assertion : /\ assertion # NoFault
                        /\ ReadOperand(m, module, size, rest) = Fail(m, assertion)
  BY DEF ReadOperand, Require, NoFault
<1> QED BY <1>1, FailSound

LEMMA ReadTargetSound ==
  ASSUME NEW m, Sound(m), NEW module, NEW rest, Sound(rest)
  PROVE  Sound(ReadTarget(m, module, rest))
<1> DEFINE below == IsBelow(LongOf(Operand(m, module, 8)), Len(module.code))
<1> DEFINE inside == Require(m, below, "jump target is inside the bytecode", rest)
<1>1. \/ inside \in {m, rest}
      \/ \E assertion : assertion # NoFault /\ inside = Fail(m, assertion)
  BY DEF Require, NoFault
<1>2. Sound(inside)
  <2> HIDE DEF inside
  <2> QED BY <1>1, FailSound
<1>3. ReadTarget(m, module, rest) = ReadOperand(m, module, 8, inside)
  BY DEF ReadTarget
<1> HIDE DEF inside
<1> QED BY <1>2, <1>3, ReadOperandSound
-----------------------------------------------------------------------------
\* What one of the instructions may leave of a machine.
Outcomes(m, module) ==
  UNION {Nop(m, module), Ipush(m, module), Bipush(m, module), Fpush(m, module),
         Sfpush(m, module), Dup(m, module), Swap(m, module), PopOne(m, module),
         Ret(m, module), Str(m, module), Lod(m, module), Strg(m, module),
         Lodg(m, module), Jmp(m, module), Jz(m, module), Jnz(m, module),
         Call(m, module), Add(m, module), Sub(m, module), Mul(m, module),
         Div(m, module), Mod(m, module)}

LEMMA SkipSound ==
  ASSUME NEW m, Sound(m), NEW size
  PROVE  Sound(Skip(m, size))
BY MoveToSound DEF Skip

LEMMA PushesSound ==
  ASSUME NEW m, Sound(m), NEW module,
         NEW out \in UNION {Ipush(m, module), Bipush(m, module), Fpush(m, module),
                           Sfpush(m, module)}
  PROVE  Sound(out)
<1>1. ASSUME NEW size, NEW type, NEW value,
             out = ReadOperand(m, module, size, PushNew(Skip(m, size), type, value))
      PROVE  Sound(out)
  BY <1>1, SkipSound, PushNewSound, ReadOperandSound
<1>2. \E size, type, value : out = ReadOperand(m, module, size, PushNew(Skip(m, size), type, value))
  BY DEF Ipush, Bipush, Fpush, Sfpush
<1> QED BY <1>1, <1>2

LEMMA DupSound ==
  ASSUME NEW m, Sound(m), NEW module, NEW out \in Dup(m, module)
  PROVE  Sound(out)
<1>1. \/ \E assertion : assertion # NoFault /\ out = Fail(m, assertion)
      \/ \E type, value : out = PushNew(m, type, value)
  BY DEF Dup, UseAfterFree, NoFault
<1> QED BY <1>1, FailSound, PushNewSound

LEMMA SwapSound ==
  ASSUME NEW m, Sound(m), NEW module, NEW out \in Swap(m, module)
  PROVE  Sound(out)
<1>1. PICK a, b : out = Push(Push(Pop(Pop(m)), b), a)
  BY DEF Swap
<1>2. Sound(Pop(Pop(m)))
  BY PopSound
<1> QED BY <1>1, <1>2, PushSound

LEMMA StrSound ==
  ASSUME NEW m, Sound(m), NEW module, NEW out \in Str(m, module)
  PROVE  Sound(out)
<1>1. PICK index, id : out = ReadOperand(m, module, 2, StoreVariable(Pop(Skip(m, 2)), index, id))
  BY DEF Str
<1>2. Sound(StoreVariable(Pop(Skip(m, 2)), index, id))
  BY SkipSound, PopSound, StoreVariableSound
<1> QED BY <1>1, <1>2, ReadOperandSound

LEMMA StrgSound ==
  ASSUME NEW m, Sound(m), NEW module, NEW out \in Strg(m, module)
  PROVE  Sound(out)
<1>1. PICK index, id : out = ReadOperand(m, module, 2, StoreGlobal(Pop(Skip(m, 2)), index, id))
  BY DEF Strg
<1>2. Sound(StoreGlobal(Pop(Skip(m, 2)), index, id))
  BY SkipSound, PopSound, StoreGlobalSound
<1> QED BY <1>1, <1>2, ReadOperandSound

LEMMA LoadsSound ==
  ASSUME NEW m, Sound(m), NEW module, NEW out \in Lod(m, module) \cup Lodg(m, module)
  PROVE  Sound(out)
<1>1. PICK rest : /\ out = ReadOperand(m, module, 2, rest)
                  /\ \/ rest = m
                     \/ \E assertion : assertion # NoFault /\ rest = Fail(m, assertion)
                     \/ \E id : rest = Push(Skip(m, 2), id)
  BY DEF Lod, Lodg, Require, NoFault
<1>2. Sound(rest)
  BY <1>1, FailSound, SkipSound, PushSound
<1> QED BY <1>1, <1>2, ReadOperandSound

LEMMA JumpsSound ==
  ASSUME NEW m, Sound(m), NEW module,
         NEW out \in UNION {Jmp(m, module), Jz(m, module), Jnz(m, module)}
  PROVE  Sound(out)
<1>1. PICK rest : /\ out = ReadTarget(m, module, rest)
                  /\ \/ \E target : rest = MoveTo(m, target)
                     \/ \E target : rest = MoveTo(Pop(Skip(m, 8)), target)
                     \/ rest = Pop(Skip(m, 8))
  BY DEF Jmp, Jz, Jnz
<1>2. Sound(Pop(Skip(m, 8)))
  BY SkipSound, PopSound
<1>3. Sound(rest)
  BY <1>1, <1>2, MoveToSound
<1> QED BY <1>1, <1>3, ReadTargetSound

LEMMA ComputeSound ==
  ASSUME NEW m, Sound(m), NEW operator, NEW pair
  PROVE  Sound(Compute(operator, m, pair))
<1> DEFINE made == PushNew(m, INT, Apply(operator, pair[1], pair[2]))
<1>1. Sound(made)
  BY PushNewSound
<1>2. \/ Compute(operator, m, pair) \in {m, made}
      \/ Compute(operator, m, pair) = Fail(m, "division does not trap")
  BY DEF Compute, Require
<1> QED BY <1>1, <1>2, FailSound DEF NoFault

LEMMA BinopSound ==
  ASSUME NEW m, Sound(m), NEW operator, NEW out \in Binop(operator, m)
  PROVE  Sound(out)
<1> DEFINE popped == Pop(Pop(m))
<1>1. \/ out = popped
      \/ \E assertion : assertion # NoFault /\ out = Fail(popped, assertion)
      \/ \E pair : out = Compute(operator, popped, pair)
  BY DEF Binop, UseAfterFree, NoFault
<1>2. Sound(popped)
  BY PopSound
<1> HIDE DEF popped
<1> QED BY <1>1, <1>2, FailSound, ComputeSound

LEMMA CallSound ==
  ASSUME NEW m, Sound(m), NEW module, NEW out \in Call(m, module)
  PROVE  Sound(out)
<1> DEFINE popped     == Pop(m)
<1> DEFINE callee     == Thing(m.heap, TopThing(m))
<1> DEFINE index      == Value(m.heap, TopThing(m))
<1> DEFINE function   == module.functions[index + 1]
<1> DEFINE arguments  == TopScope(popped).stack
<1> DEFINE kept       == Len(arguments) - function.paramCount
<1> DEFINE parameters == SubSeq(arguments, kept + 1, Len(arguments))
<1> DEFINE k          == Len(m.executor.scopes)
<1> DEFINE left       == [popped EXCEPT !.executor.scopes[k].stack = SubSeq(@, 1, kept)]
<1> DEFINE entered    ==
      StepIn(left, [module |-> Position(m).module, address |-> function.address])
<1> DEFINE j          == Len(entered.executor.scopes)
<1> DEFINE called     == [entered EXCEPT !.executor.scopes[j].variables = parameters]
<1>1. out = Require(popped, callee.type = FUNCTION, "thing is a function",
            Require(popped, IsBelow(index, Len(module.functions)), "function exists",
            Require(popped, kept >= 0, "stack is not empty",
            Require(popped, CanRelease(popped.heap, parameters), "count is positive",
            Require(popped, ~ResizeHangs(function.paramCount), Hangs, called)))))
  BY DEF Call
<1>2. Sound(popped)
  BY PopSound
<1>3. Sound(left)
  <2> DEFINE scope == [popped.executor.scopes[k] EXCEPT !.stack = SubSeq(@, 1, kept)]
  <2> DEFINE executor == [popped.executor EXCEPT !.scopes = [@ EXCEPT ![k] = scope]]
  <2> HIDE DEF popped, kept
  <2>1. left = [[popped EXCEPT !.heap = popped.heap] EXCEPT !.executor = executor]
    BY <1>2 DEF Sound, IsMachine
  <2> HIDE DEF scope, left, k
  <2> QED BY <1>2, <2>1, SlotChanged
<1>4. Sound(entered)
  <2> HIDE DEF left
  <2> QED BY <1>3, StepInSound
<1>5. Sound(called)
  <2> DEFINE scope == [entered.executor.scopes[j] EXCEPT !.variables = parameters]
  <2> DEFINE executor == [entered.executor EXCEPT !.scopes = [@ EXCEPT ![j] = scope]]
  <2> HIDE DEF entered, parameters
  <2>1. called = [[entered EXCEPT !.heap = entered.heap] EXCEPT !.executor = executor]
    BY <1>4 DEF Sound, IsMachine
  <2> HIDE DEF scope, called, j
  <2> QED BY <1>4, <2>1, SlotChanged
<1>6. \/ out \in {popped, called}
      \/ \E assertion : assertion # NoFault /\ out = Fail(popped, assertion)
  <2> HIDE DEF popped, callee, index, function, kept, parameters, called
  <2> QED BY <1>1 DEF Require, NoFault, Hangs
<1> HIDE DEF popped, called
<1> QED BY <1>2, <1>5, <1>6, FailSound

\* Whatever instruction comes next, a machine that survives it has its frames
\* in order.
LEMMA InstructionsSound ==
  ASSUME NEW m, Sound(m), NEW module, NEW out \in Outcomes(m, module)
  PROVE  Sound(out)
<1>1. CASE out \in UNION {Ipush(m, module), Bipush(m, module), Fpush(m, module),
                         Sfpush(m, module)}
  BY <1>1, PushesSound
<1>2. CASE out \in Dup(m, module)
  BY <1>2, DupSound
<1>3. CASE out \in Swap(m, module)
  BY <1>3, SwapSound
<1>4. CASE out \in UNION {Nop(m, module), PopOne(m, module), Ret(m, module)}
  BY <1>4, PopSound, StepOutSound DEF Nop, PopOne, Ret
<1>5. CASE out \in Str(m, module)
  BY <1>5, StrSound
<1>6. CASE out \in Strg(m, module)
  BY <1>6, StrgSound
<1>7. CASE out \in Lod(m, module) \cup Lodg(m, module)
  BY <1>7, LoadsSound
<1>8. CASE out \in UNION {Jmp(m, module), Jz(m, module), Jnz(m, module)}
  BY <1>8, JumpsSound
<1>9. CASE out \in Call(m, module)
  BY <1>9, CallSound
<1>10. CASE out \in UNION {Add(m, module), Sub(m, module), Mul(m, module),
                          Div(m, module), Mod(m, module)}
  BY <1>10, BinopSound DEF Add, Sub, Mul, Div, Mod
<1> QED BY <1>1, <1>2, <1>3, <1>4, <1>5, <1>6, <1>7, <1>8, <1>9, <1>10 DEF Outcomes
-----------------------------------------------------------------------------
(* The counts of a machine.                                                  *)
TypedScope(s) ==
  /\ s = [variables |-> s.variables, stack |-> s.stack]
  /\ s.variables \in Seq(Nat \cup {DeadThing}) /\ s.stack \in Seq(Nat)

Positions == [module : Nat, address : Int]

TypedExecutor(e) ==
  /\ IsExecutor(e)
  /\ e.callStack \in Seq(Positions)
  /\ \A s \in DOMAIN e.scopes : TypedScope(e.scopes[s])

\* Only a global that was written is known to hold the id of a thing.
TypedGlobals(globals) ==
  /\ IsSequence(globals)
  /\ \A g \in DOMAIN globals :
       /\ globals[g].written \in BOOLEAN
       /\ globals[g].written => globals[g].thing \in Nat

Typed(m) ==
  /\ IsMachine(m)
  /\ TypedHeap(m.heap) /\ TypedExecutor(m.executor) /\ TypedGlobals(m.globals)
  /\ m.stray \in BOOLEAN

\* How often the executor and the module it works in hold a thing.
Held(m, t) == Occurrences(t, SlotsOf(m.executor)) + Occurrences(t, Written(m.globals))

\* The counts are exact when the rest of the context holds thing t K[t] times.
Counts(m, K) == \A t \in Nat : Refs(m.heap, t) = Held(m, t) + K[t]

\* What an instruction leaves, when it began with heap h.
Good(m, K, h) ==
  /\ Typed(m)
  /\ m.stray = FALSE =>
       /\ m.fault # "count is positive"
       /\ m.fault = NoFault => Counts(m, K) /\ Kept(h, m.heap)

\* The same, in a call.
InCall(m, K, h) == Good(m, K, h) /\ (m.fault = NoFault => m.executor.scopes # <<>>)
-----------------------------------------------------------------------------
LEMMA ScopeSlotsTyped ==
  ASSUME NEW s, TypedScope(s)
  PROVE  /\ IsSequence(ScopeSlots(s)) /\ IsFiniteSet(DOMAIN ScopeSlots(s))
         /\ IsSequence(s.variables) /\ IsSequence(s.stack)
         /\ \A t : /\ Occurrences(t, s.variables) \in Nat /\ Occurrences(t, s.stack) \in Nat
                   /\ Occurrences(t, ScopeSlots(s)) \in Nat
                   /\ Occurrences(t, ScopeSlots(s))
                        = Occurrences(t, s.variables) + Occurrences(t, s.stack)
<1>1. IsSequence(s.variables) /\ IsSequence(s.stack)
  BY DEF TypedScope, IsSequence
<1>2. \A t : /\ IsSequence(ScopeSlots(s))
             /\ Occurrences(t, ScopeSlots(s))
                  = Occurrences(t, s.variables) + Occurrences(t, s.stack)
  BY <1>1, OccurrencesJoined DEF ScopeSlots
<1>3. IsSequence(ScopeSlots(s))
  BY <1>2
<1>4. \A t : /\ Occurrences(t, s.variables) \in Nat /\ Occurrences(t, s.stack) \in Nat
             /\ Occurrences(t, ScopeSlots(s)) \in Nat
  BY <1>1, <1>3, SequenceFinite, OccurrencesCount
<1> QED BY <1>1, <1>2, <1>3, <1>4, SequenceFinite

ScopeArrays(e) == [s \in DOMAIN e.scopes |-> ScopeSlots(e.scopes[s])]

LEMMA ArraysTyped ==
  ASSUME NEW e, TypedExecutor(e)
  PROVE  /\ FiniteArrays(ScopeArrays(e)) /\ SlotsOf(e) = Gathered(ScopeArrays(e))
         /\ IsFiniteSet(DOMAIN SlotsOf(e))
         /\ \A t : Occurrences(t, SlotsOf(e)) \in Nat
<1>1. IsFiniteSet(DOMAIN e.scopes)
  BY SequenceFinite DEF TypedExecutor, IsExecutor
<1>2. \A s \in DOMAIN e.scopes : IsFiniteSet(DOMAIN ScopeSlots(e.scopes[s]))
  BY ScopeSlotsTyped DEF TypedExecutor
<1>3. FiniteArrays(ScopeArrays(e))
  BY <1>1, <1>2 DEF FiniteArrays, ScopeArrays
<1>4. SlotsOf(e) = Gathered(ScopeArrays(e))
  BY DEF SlotsOf, ScopeArrays
<1> QED BY <1>3, <1>4, GatheredFinite, OccurrencesCount

WithScope(e, scope) ==
  [running   |-> e.running, callStack |-> e.callStack,
   scopes    |-> [e.scopes EXCEPT ![Len(e.scopes)] = scope]]

\* The innermost scope is one of the arrays of slots.
LEMMA TopTyped ==
  ASSUME NEW e, TypedExecutor(e), e.scopes # <<>>
  PROVE  /\ Len(e.scopes) \in DOMAIN e.scopes /\ Last(e.scopes) = e.scopes[Len(e.scopes)]
         /\ TypedScope(Last(e.scopes))
         /\ \A t : Occurrences(t, ScopeSlots(Last(e.scopes))) <= Occurrences(t, SlotsOf(e))
<1>1. Len(e.scopes) \in Nat /\ DOMAIN e.scopes = 1..Len(e.scopes) /\ Len(e.scopes) # 0
  BY SequenceLength, SequenceFinite DEF TypedExecutor, IsExecutor
<1>2. Len(e.scopes) \in DOMAIN e.scopes /\ Last(e.scopes) = e.scopes[Len(e.scopes)]
  BY <1>1 DEF Last
<1>3. TypedScope(Last(e.scopes))
  BY <1>2 DEF TypedExecutor
<1>4. ASSUME NEW t PROVE Occurrences(t, ScopeSlots(Last(e.scopes))) <= Occurrences(t, SlotsOf(e))
  <2> DEFINE a == ScopeArrays(e)
  <2> DEFINE k == Len(e.scopes)
  <2>1. FiniteArrays(a) /\ SlotsOf(e) = Gathered(a)
    BY ArraysTyped
  <2>2. PartOf(t, a, k) = Occurrences(t, ScopeSlots(Last(e.scopes)))
    BY <1>2 DEF PartOf, ScopeArrays
  <2> HIDE DEF a, k
  <2>3. /\ Cardinality(Outside(t, a, k)) \in Nat /\ PartOf(t, a, k) \in Nat
        /\ Occurrences(t, Gathered(a)) = Cardinality(Outside(t, a, k)) + PartOf(t, a, k)
    BY <2>1, GatheredSplit
  <2> QED BY <2>1, <2>2, <2>3
<1> QED BY <1>2, <1>3, <1>4

LEMMA TopSlots ==
  ASSUME NEW e, TypedExecutor(e), e.scopes # <<>>, NEW scope, TypedScope(scope),
         NEW f, f = WithScope(e, scope)
  PROVE  /\ TypedExecutor(f) /\ f.scopes # <<>>
         /\ \A t : Occurrences(t, SlotsOf(f)) + Occurrences(t, ScopeSlots(Last(e.scopes)))
                     = Occurrences(t, SlotsOf(e)) + Occurrences(t, ScopeSlots(scope))
<1> DEFINE k == Len(e.scopes)
<1> DEFINE scopes == [e.scopes EXCEPT ![k] = scope]
<1>1. k \in DOMAIN e.scopes /\ Last(e.scopes) = e.scopes[k]
  BY TopTyped
<1>2. IsSequence(scopes) /\ Len(scopes) = k /\ DOMAIN scopes = DOMAIN e.scopes
  BY ChangedSequence DEF TypedExecutor, IsExecutor
<1>3. /\ \A s \in DOMAIN scopes : scopes[s] = IF s = k THEN scope ELSE e.scopes[s]
      /\ scopes[k] = scope
  BY <1>1
<1>4. f = [running |-> e.running, callStack |-> e.callStack, scopes |-> scopes]
  BY DEF WithScope
<1> HIDE DEF scopes
<1>5. TypedExecutor(f)
  <2>1. IsExecutor(f)
    BY <1>2, <1>4 DEF TypedExecutor, IsExecutor
  <2>2. \A s \in DOMAIN f.scopes : TypedScope(f.scopes[s])
    BY <1>2, <1>3, <1>4 DEF TypedExecutor
  <2> QED BY <1>4, <2>1, <2>2 DEF TypedExecutor
<1>6. f.scopes # <<>>
  BY <1>2, <1>4, SequenceLength DEF TypedExecutor, IsExecutor
<1>7. ASSUME NEW t
      PROVE  Occurrences(t, SlotsOf(f)) + Occurrences(t, ScopeSlots(Last(e.scopes)))
                     = Occurrences(t, SlotsOf(e)) + Occurrences(t, ScopeSlots(scope))
  <2> DEFINE a == ScopeArrays(e)
  <2> DEFINE b == ScopeArrays(f)
  <2>1. FiniteArrays(a) /\ SlotsOf(e) = Gathered(a) /\ FiniteArrays(b) /\ SlotsOf(f) = Gathered(b)
    BY <1>5, ArraysTyped
  <2>2. /\ PartOf(t, a, k) = Occurrences(t, ScopeSlots(Last(e.scopes)))
        /\ PartOf(t, b, k) = Occurrences(t, ScopeSlots(scope))
    BY <1>1, <1>2, <1>3, <1>4 DEF PartOf, ScopeArrays
  <2>3. /\ \A j : j # k => (j \in DOMAIN a <=> j \in DOMAIN b)
        /\ \A j \in DOMAIN a : j # k => a[j] = b[j]
    BY <1>2, <1>3, <1>4 DEF ScopeArrays
  <2> HIDE DEF a, b, k
  <2>4. Occurrences(t, Gathered(b)) + PartOf(t, a, k) = Occurrences(t, Gathered(a)) + PartOf(t, b, k)
    BY <2>1, <2>3, PartChanged
  <2> QED BY <2>1, <2>2, <2>4
<1> QED BY <1>5, <1>6, <1>7

LEMMA WrittenTyped ==
  ASSUME NEW globals, TypedGlobals(globals)
  PROVE  /\ IsFiniteSet(DOMAIN Written(globals))
         /\ \A t : Occurrences(t, Written(globals)) \in Nat
<1>1. IsFiniteSet(DOMAIN globals)
  BY SequenceFinite DEF TypedGlobals
<1>2. DOMAIN Written(globals) \in SUBSET DOMAIN globals
  BY DEF Written
<1>3. IsFiniteSet(DOMAIN Written(globals))
  BY <1>1, <1>2, FS_Subset
<1> QED BY <1>3, OccurrencesCount
-----------------------------------------------------------------------------
\* A failed assertion.
LEMMA FailFields ==
  ASSUME NEW m, IsMachine(m), NEW assertion
  PROVE  /\ IsMachine(Fail(m, assertion)) /\ Fail(m, assertion).fault = assertion
         /\ Fail(m, assertion).heap = m.heap /\ Fail(m, assertion).globals = m.globals
         /\ Fail(m, assertion).executor = m.executor /\ Fail(m, assertion).stray = m.stray
BY DEF Fail, IsMachine

\* An assertion about a count fails only where counts are not exact any more.
LEMMA FailGood ==
  ASSUME NEW m, Typed(m), NEW assertion, assertion # NoFault,
         m.stray = TRUE \/ assertion # "count is positive", NEW K, NEW h
  PROVE  InCall(Fail(m, assertion), K, h)
<1> DEFINE n == Fail(m, assertion)
<1>1. /\ IsMachine(n) /\ n.fault = assertion /\ n.heap = m.heap /\ n.globals = m.globals
      /\ n.executor = m.executor /\ n.stray = m.stray
  <2>1. IsMachine(m)
    BY DEF Typed
  <2> QED BY <2>1, FailFields
<1> HIDE DEF n
<1>2. InCall(n, K, h)
  BY <1>1 DEF InCall, Good, Typed
<1> QED BY <1>2 DEF n

\* New things in the heap, which nothing holds yet.
WithHeap(m, g, mark) ==
  [heap |-> g, globals |-> m.globals, executor |-> m.executor, stray |-> mark,
   fault |-> m.fault]

LEMMA HeapGrown ==
  ASSUME NEW m, NEW K, NEW h, InCall(m, K, h), NEW g, TypedHeap(g), NEW mark \in BOOLEAN,
         mark = FALSE => /\ m.stray = FALSE /\ Kept(m.heap, g)
                         /\ \A t : Refs(g, t) = Refs(m.heap, t),
         NEW n, n = WithHeap(m, g, mark)
  PROVE  InCall(n, K, h)
<1>1. IsMachine(n) /\ n.fault = m.fault /\ n.heap = g /\ n.globals = m.globals
      /\ n.executor = m.executor /\ n.stray = mark
  BY DEF WithHeap, IsMachine
<1>2. Typed(n)
  BY <1>1 DEF InCall, Good, Typed
<1>3. ASSUME n.stray = FALSE, n.fault = NoFault PROVE Counts(n, K) /\ Kept(h, n.heap)
  <2>1. Counts(m, K) /\ Kept(h, m.heap) /\ Kept(m.heap, g)
    BY <1>1, <1>3 DEF InCall, Good
  <2>2. Kept(h, n.heap)
    BY <1>1, <2>1, KeptFurther
  <2> QED BY <1>1, <1>3, <2>1, <2>2 DEF Counts, Held
<1> QED BY <1>1, <1>2, <1>3 DEF InCall, Good

\* The innermost scope changes, and with it what is referenced.
WithTop(m, g, scope) ==
  [heap |-> g, globals |-> m.globals, executor |-> WithScope(m.executor, scope),
   stray |-> m.stray, fault |-> m.fault]

LEMMA TopChanged ==
  ASSUME NEW m, NEW K \in [Nat -> Nat], NEW h, InCall(m, K, h), m.fault = NoFault,
         NEW g, TypedHeap(g), NEW scope, TypedScope(scope),
         m.stray = FALSE =>
           /\ Kept(m.heap, g)
           /\ \A t \in Nat : Refs(g, t) + Occurrences(t, ScopeSlots(TopScope(m)))
                               = Refs(m.heap, t) + Occurrences(t, ScopeSlots(scope))
  PROVE  InCall(WithTop(m, g, scope), K, h)
<1>0. PICK n : n = WithTop(m, g, scope)
  OBVIOUS
<1>1. IsMachine(n) /\ n.fault = m.fault /\ n.heap = g /\ n.globals = m.globals
      /\ n.executor = WithScope(m.executor, scope) /\ n.stray = m.stray
  BY <1>0 DEF WithTop, IsMachine
<1>2. TypedExecutor(m.executor) /\ m.executor.scopes # <<>> /\ TypedGlobals(m.globals)
      /\ TypedHeap(m.heap)
  BY DEF InCall, Good, Typed
<1>3. /\ TypedExecutor(n.executor) /\ n.executor.scopes # <<>>
      /\ \A t : Occurrences(t, SlotsOf(n.executor)) + Occurrences(t, ScopeSlots(TopScope(m)))
                  = Occurrences(t, SlotsOf(m.executor)) + Occurrences(t, ScopeSlots(scope))
  BY <1>1, <1>2, TopSlots DEF TopScope
<1>4. Typed(n)
  BY <1>1, <1>3 DEF InCall, Good, Typed
<1>5. ASSUME n.stray = FALSE PROVE Counts(n, K) /\ Kept(h, n.heap)
  <2>1. Counts(m, K) /\ Kept(h, m.heap) /\ Kept(m.heap, g)
    BY <1>1, <1>5 DEF InCall, Good
  <2>2. Kept(h, n.heap)
    BY <1>1, <2>1, KeptFurther
  <2>3. ASSUME NEW t \in Nat PROVE Refs(n.heap, t) = Held(n, t) + K[t]
    <3>1. /\ Refs(n.heap, t) \in Nat /\ Refs(m.heap, t) \in Nat /\ K[t] \in Nat
          /\ Occurrences(t, SlotsOf(m.executor)) \in Nat
          /\ Occurrences(t, SlotsOf(n.executor)) \in Nat
          /\ Occurrences(t, Written(m.globals)) \in Nat
      BY <1>1, <1>2, <1>3, RefsTyped, ArraysTyped, WrittenTyped
    <3>2. /\ Occurrences(t, ScopeSlots(TopScope(m))) \in Nat
          /\ Occurrences(t, ScopeSlots(scope)) \in Nat
      BY <1>2, TopTyped, ScopeSlotsTyped DEF TopScope
    <3>3. Refs(m.heap, t) = Occurrences(t, SlotsOf(m.executor)) + Occurrences(t, Written(m.globals)) + K[t]
      BY <2>1 DEF Counts, Held
    <3>4. Refs(n.heap, t) + Occurrences(t, ScopeSlots(TopScope(m)))
            = Refs(m.heap, t) + Occurrences(t, ScopeSlots(scope))
      BY <1>1, <1>5
    <3>5. Refs(n.heap, t) = Occurrences(t, SlotsOf(n.executor)) + Occurrences(t, Written(m.globals)) + K[t]
      <4> DEFINE newRefs == Refs(n.heap, t)
      <4> DEFINE oldRefs == Refs(m.heap, t)
      <4> DEFINE newSlots == Occurrences(t, SlotsOf(n.executor))
      <4> DEFINE oldSlots == Occurrences(t, SlotsOf(m.executor))
      <4> DEFINE newTop == Occurrences(t, ScopeSlots(scope))
      <4> DEFINE oldTop == Occurrences(t, ScopeSlots(TopScope(m)))
      <4> DEFINE written == Occurrences(t, Written(m.globals))
      <4>1. /\ newRefs \in Nat /\ oldRefs \in Nat /\ newSlots \in Nat /\ oldSlots \in Nat
            /\ newTop \in Nat /\ oldTop \in Nat /\ written \in Nat /\ K[t] \in Nat
        BY <3>1, <3>2
      <4>2. /\ oldRefs = oldSlots + written + K[t]
            /\ newRefs + oldTop = oldRefs + newTop
            /\ newSlots + oldTop = oldSlots + newTop
        BY <1>3, <3>3, <3>4
      <4> HIDE DEF newRefs, oldRefs, newSlots, oldSlots, newTop, oldTop, written
      <4>3. newRefs = newSlots + written + K[t]
        BY <4>1, <4>2
      <4> QED BY <4>3 DEF newRefs, newSlots, written
    <3> QED BY <1>1, <3>5 DEF Held
  <2> QED BY <2>2, <2>3 DEF Counts
<1> QED BY <1>0, <1>1, <1>3, <1>4, <1>5 DEF InCall, Good
-----------------------------------------------------------------------------
Scope(variables, stack) == [variables |-> variables, stack |-> stack]

WithStack(m, g, stack) ==
  [m EXCEPT !.heap = g, !.executor.scopes[Len(m.executor.scopes)].stack = stack]

WithVariables(m, g, variables) ==
  [m EXCEPT !.heap = g, !.executor.scopes[Len(m.executor.scopes)].variables = variables]

LEMMA LastFront ==
  ASSUME NEW S, NEW s \in Seq(S), s # <<>>
  PROVE  Last(s) \in S /\ Front(s) \in Seq(S)
<1>1. Len(s) \in Nat /\ Len(s) # 0 /\ \A i \in 1..Len(s) : s[i] \in S
  BY EmptySeq
<1>2. Last(s) \in S
  BY <1>1 DEF Last
<1>3. 1 \in Int /\ Len(s) - 1 \in Int /\ \A i \in 1..(Len(s) - 1) : s[i] \in S
  BY <1>1
<1>4. SubSeq(s, 1, Len(s) - 1) \in Seq(S)
  BY <1>3, SubSeqProperties
<1> QED BY <1>2, <1>4 DEF Front

WithExecutor(m, g, e) == [m EXCEPT !.heap = g, !.executor = e]

LEMMA MachineRecord ==
  ASSUME NEW m, IsMachine(m), NEW g, NEW e, NEW n, n = WithExecutor(m, g, e)
  PROVE  n = [heap |-> g, globals |-> m.globals, executor |-> e, stray |-> m.stray,
              fault |-> m.fault]
<1> DEFINE first == [m EXCEPT !.heap = g]
<1>1. n = [first EXCEPT !.executor = e]
  BY DEF WithExecutor, IsMachine
<1>2. first = [heap |-> g, globals |-> m.globals, executor |-> m.executor, stray |-> m.stray,
               fault |-> m.fault]
  BY DEF IsMachine
<1> HIDE DEF first
<1> QED BY <1>1, <1>2

LEMMA TopRecord ==
  ASSUME NEW m, Typed(m), m.executor.scopes # <<>>
  PROVE  /\ TypedScope(TopScope(m)) /\ TypedExecutor(m.executor)
         /\ \A g, stack : WithStack(m, g, stack) = WithTop(m, g, Scope(TopScope(m).variables, stack))
         /\ \A g, variables :
              WithVariables(m, g, variables) = WithTop(m, g, Scope(variables, TopScope(m).stack))
<1> DEFINE e == m.executor
<1> DEFINE k == Len(e.scopes)
<1> DEFINE top == e.scopes[k]
<1>1. /\ IsMachine(m) /\ TypedExecutor(e)
      /\ e = [running |-> e.running, callStack |-> e.callStack, scopes |-> e.scopes]
  BY DEF Typed, TypedExecutor, IsExecutor
<1>2. TypedScope(TopScope(m)) /\ TopScope(m) = top
  BY <1>1, TopTyped DEF TopScope
<1>3. top = [variables |-> top.variables, stack |-> top.stack]
  BY <1>2 DEF TypedScope
<1>4. ASSUME NEW g, NEW stack
      PROVE  WithStack(m, g, stack) = WithTop(m, g, Scope(TopScope(m).variables, stack))
  <2> DEFINE scope == [top EXCEPT !.stack = stack]
  <2> DEFINE scopes == [e.scopes EXCEPT ![k] = scope]
  <2> DEFINE executor == [e EXCEPT !.scopes = scopes]
  <2>1. WithStack(m, g, stack) = WithExecutor(m, g, executor)
    BY DEF WithStack, WithExecutor
  <2>2. scope = Scope(top.variables, stack)
    BY <1>3 DEF Scope
  <2>3. executor = WithScope(e, scope)
    <3> HIDE DEF scope
    <3> QED BY <1>1 DEF WithScope
  <2> HIDE DEF executor
  <2>4. WithStack(m, g, stack)
          = [heap |-> g, globals |-> m.globals, executor |-> executor, stray |-> m.stray,
             fault |-> m.fault]
    BY <1>1, <2>1, MachineRecord
  <2> QED BY <1>2, <2>2, <2>3, <2>4 DEF WithTop
<1>5. ASSUME NEW g, NEW variables
      PROVE  WithVariables(m, g, variables) = WithTop(m, g, Scope(variables, TopScope(m).stack))
  <2> DEFINE scope == [top EXCEPT !.variables = variables]
  <2> DEFINE scopes == [e.scopes EXCEPT ![k] = scope]
  <2> DEFINE executor == [e EXCEPT !.scopes = scopes]
  <2>1. WithVariables(m, g, variables) = WithExecutor(m, g, executor)
    BY DEF WithVariables, WithExecutor
  <2>2. scope = Scope(variables, top.stack)
    BY <1>3 DEF Scope
  <2>3. executor = WithScope(e, scope)
    <3> HIDE DEF scope
    <3> QED BY <1>1 DEF WithScope
  <2> HIDE DEF executor
  <2>4. WithVariables(m, g, variables)
          = [heap |-> g, globals |-> m.globals, executor |-> executor, stray |-> m.stray,
             fault |-> m.fault]
    BY <1>1, <2>1, MachineRecord
  <2> QED BY <1>2, <2>2, <2>3, <2>4 DEF WithTop
<1> QED BY <1>1, <1>2, <1>4, <1>5

LEMMA ScopeTyped ==
  ASSUME NEW variables \in Seq(Nat \cup {DeadThing}), NEW stack \in Seq(Nat)
  PROVE  /\ TypedScope(Scope(variables, stack))
         /\ Scope(variables, stack).variables = variables
         /\ Scope(variables, stack).stack = stack
<1> DEFINE s == Scope(variables, stack)
<1>1. s = [variables |-> s.variables, stack |-> s.stack] /\ s.variables = variables /\ s.stack = stack
  BY DEF Scope
<1> HIDE DEF s
<1>2. TypedScope(s)
  BY <1>1 DEF TypedScope
<1> QED BY <1>1, <1>2 DEF s

LEMMA ScopeCount ==
  ASSUME NEW variables \in Seq(Nat \cup {DeadThing}), NEW stack \in Seq(Nat), NEW t
  PROVE  Occurrences(t, ScopeSlots(Scope(variables, stack)))
           = Occurrences(t, variables) + Occurrences(t, stack)
<1> DEFINE s == Scope(variables, stack)
<1>1. TypedScope(s) /\ s.variables = variables /\ s.stack = stack
  BY ScopeTyped
<1> HIDE DEF s
<1>2. Occurrences(t, ScopeSlots(s)) = Occurrences(t, s.variables) + Occurrences(t, s.stack)
  BY <1>1, ScopeSlotsTyped
<1> QED BY <1>1, <1>2 DEF s

\* A thing that a slot of the innermost scope holds is live and counted.
LEMMA HeldIsLive ==
  ASSUME NEW m, NEW K \in [Nat -> Nat], NEW h, InCall(m, K, h), m.fault = NoFault,
         m.stray = FALSE, NEW t \in Nat, Occurrences(t, ScopeSlots(TopScope(m))) > 0
  PROVE  t \in LiveThings(m.heap) /\ Thing(m.heap, t).references > 0
<1>1. TypedExecutor(m.executor) /\ m.executor.scopes # <<>> /\ TypedGlobals(m.globals)
      /\ TypedHeap(m.heap)
  BY DEF InCall, Good, Typed
<1>2. Refs(m.heap, t) = Occurrences(t, SlotsOf(m.executor)) + Occurrences(t, Written(m.globals)) + K[t]
  BY DEF InCall, Good, Counts, Held
<1>3. /\ Refs(m.heap, t) \in Nat /\ K[t] \in Nat
      /\ Occurrences(t, SlotsOf(m.executor)) \in Nat
      /\ Occurrences(t, Written(m.globals)) \in Nat
      /\ Occurrences(t, ScopeSlots(TopScope(m))) \in Nat
      /\ Occurrences(t, ScopeSlots(TopScope(m))) <= Occurrences(t, SlotsOf(m.executor))
  BY <1>1, RefsTyped, ArraysTyped, WrittenTyped, TopTyped, ScopeSlotsTyped DEF TopScope
<1>4. Refs(m.heap, t) > 0
  BY <1>2, <1>3
<1> QED BY <1>4 DEF Refs

LEMMA PushCounts ==
  ASSUME NEW m, NEW K \in [Nat -> Nat], NEW h, InCall(m, K, h), NEW id
  PROVE  InCall(Push(m, id), K, h)
<1>1. CASE m.fault # NoFault
  BY <1>1 DEF Push, Require
<1>2. CASE m.fault = NoFault /\ (id = DeadThing \/ id \notin LiveThings(m.heap))
  <2>1. Push(m, id) = Fail(m, "pushed thing is not dead") \/ Push(m, id) = Fail(m, "thing is live")
    BY <1>2 DEF Push, Require
  <2> QED BY <2>1, FailGood DEF InCall, Good, NoFault
<1>3. CASE m.fault = NoFault /\ id # DeadThing /\ id \in LiveThings(m.heap)
  <2> DEFINE g == Reference(m.heap, id)
  <2> DEFINE top == TopScope(m)
  <2> DEFINE stack == Append(top.stack, id)
  <2>1. Typed(m) /\ TypedHeap(m.heap) /\ m.executor.scopes # <<>>
    BY <1>3 DEF InCall, Good, Typed
  <2>2. Push(m, id) = WithStack(m, g, stack)
    BY <1>3 DEF Push, Require, WithStack, TopScope, Last
  <2>3. TypedScope(top) /\ Push(m, id) = WithTop(m, g, Scope(top.variables, stack))
    BY <2>1, <2>2, TopRecord
  <2>4. id \in Nat
    BY <1>3, <2>1, LiveIds DEF TypedHeap
  <2>5. /\ top.variables \in Seq(Nat \cup {DeadThing}) /\ top.stack \in Seq(Nat)
        /\ stack \in Seq(Nat)
    BY <2>3, <2>4 DEF TypedScope
  <2>6. /\ TypedHeap(g) /\ Kept(m.heap, g)
        /\ \A t : Refs(g, t) = Refs(m.heap, t) + Bit(t = id)
    BY <1>3, <2>1, Referenced
  <2>7. ASSUME NEW t
        PROVE  Refs(g, t) + Occurrences(t, ScopeSlots(top))
                 = Refs(m.heap, t) + Occurrences(t, ScopeSlots(Scope(top.variables, stack)))
    <3>1. Occurrences(t, stack) = Occurrences(t, top.stack) + Bit(id = t)
      BY <2>5, OccurrencesAppended DEF IsSequence
    <3>2. /\ Occurrences(t, ScopeSlots(top)) = Occurrences(t, top.variables) + Occurrences(t, top.stack)
          /\ Occurrences(t, top.variables) \in Nat /\ Occurrences(t, top.stack) \in Nat
      BY <2>3, ScopeSlotsTyped
    <3>3. Occurrences(t, ScopeSlots(Scope(top.variables, stack)))
            = Occurrences(t, top.variables) + Occurrences(t, stack)
      <4> HIDE DEF top, stack
      <4> QED BY <2>5, ScopeCount
    <3>4. Refs(m.heap, t) \in Nat /\ Bit(id = t) \in Nat /\ Bit(t = id) = Bit(id = t)
      BY <2>1, RefsTyped DEF Bit
    <3>5. Refs(g, t) = Refs(m.heap, t) + Bit(id = t)
      BY <2>6, <3>4
    <3> HIDE DEF g, top, stack
    <3> QED BY <3>1, <3>2, <3>3, <3>4, <3>5
  <2>8. TypedScope(Scope(top.variables, stack))
    BY <2>5, ScopeTyped
  <2> DEFINE scope == Scope(top.variables, stack)
  <2> HIDE DEF g, scope
  <2>9. /\ Push(m, id) = WithTop(m, g, scope) /\ TypedScope(scope)
        /\ \A t : Refs(g, t) + Occurrences(t, ScopeSlots(TopScope(m)))
                   = Refs(m.heap, t) + Occurrences(t, ScopeSlots(scope))
    BY <2>3, <2>7, <2>8 DEF scope
  <2>10. m.stray = FALSE =>
           /\ Kept(m.heap, g)
           /\ \A t \in Nat : Refs(g, t) + Occurrences(t, ScopeSlots(TopScope(m)))
                               = Refs(m.heap, t) + Occurrences(t, ScopeSlots(scope))
    BY <2>6, <2>9
  <2>11. InCall(WithTop(m, g, scope), K, h)
    BY <1>3, <2>6, <2>9, <2>10, TopChanged
  <2> QED BY <2>9, <2>11
<1> QED BY <1>1, <1>2, <1>3

LEMMA PopCounts ==
  ASSUME NEW m, NEW K \in [Nat -> Nat], NEW h, InCall(m, K, h)
  PROVE  InCall(Pop(m), K, h)
<1>1. CASE m.fault # NoFault
  BY <1>1 DEF Pop, Require
<1>2. CASE m.fault = NoFault /\ TopScope(m).stack = <<>>
  <2>1. Pop(m) = Fail(m, "stack is not empty")
    BY <1>2 DEF Pop, Require, NoFault
  <2> QED BY <2>1, FailGood DEF InCall, Good, NoFault
<1>3. CASE m.fault = NoFault /\ TopScope(m).stack # <<>>
  <2> DEFINE top == TopScope(m)
  <2> DEFINE id == TopThing(m)
  <2> DEFINE stack == Front(top.stack)
  <2> DEFINE shorter == WithStack(m, m.heap, stack)
  <2>1. Typed(m) /\ IsMachine(m) /\ TypedHeap(m.heap) /\ m.executor.scopes # <<>>
    BY <1>3 DEF InCall, Good, Typed
  <2>2. [m EXCEPT !.executor.scopes[Len(m.executor.scopes)].stack = Front(@)] = shorter
    BY <2>1 DEF WithStack, TopScope, Last, IsMachine
  <2>3. TypedScope(top) /\ TypedExecutor(m.executor)
        /\ \A g : WithStack(m, g, stack) = WithTop(m, g, Scope(top.variables, stack))
    BY <2>1, TopRecord
  <2>4. /\ top.variables \in Seq(Nat \cup {DeadThing}) /\ top.stack \in Seq(Nat)
    BY <2>3 DEF TypedScope
  <2>5. stack \in Seq(Nat) /\ id \in Nat
    BY <1>3, <2>4, LastFront DEF TopThing
  <2>6. TypedScope(Scope(top.variables, stack))
    BY <2>4, <2>5, ScopeTyped
  <2>7. /\ IsMachine(shorter) /\ shorter.heap = m.heap /\ shorter.fault = m.fault
        /\ shorter.stray = m.stray /\ Typed(shorter)
    <3>1. shorter = WithTop(m, m.heap, Scope(top.variables, stack))
      BY <2>3
    <3> HIDE DEF shorter, stack
    <3>2. /\ IsMachine(shorter) /\ shorter.heap = m.heap /\ shorter.fault = m.fault
          /\ shorter.stray = m.stray /\ shorter.globals = m.globals
          /\ shorter.executor = WithScope(m.executor, Scope(top.variables, stack))
      BY <3>1 DEF WithTop, IsMachine
    <3>3. TypedExecutor(shorter.executor)
      BY <2>1, <2>3, <2>6, <3>2, TopSlots
    <3> QED BY <2>1, <3>2, <3>3 DEF Typed
  <2>8. Pop(m) = UnreferenceThing(shorter, id)
    BY <1>3, <2>2 DEF Pop, Require
  <2>9. \A t : /\ Occurrences(t, ScopeSlots(top)) = Occurrences(t, top.variables) + Occurrences(t, top.stack)
               /\ Occurrences(t, top.variables) \in Nat /\ Occurrences(t, stack) \in Nat
               /\ Occurrences(t, top.stack) = Occurrences(t, stack) + Bit(t = id)
    <3> TAKE t
    <3>1. Occurrences(t, top.stack) = Occurrences(t, stack) + Bit(id = t)
      BY <1>3, <2>4, OccurrencesFront DEF TopThing, IsSequence
    <3>2. IsSequence(stack)
      BY <2>5 DEF IsSequence
    <3>3. Occurrences(t, stack) \in Nat
      BY <3>2, SequenceFinite, OccurrencesCount
    <3>4. Bit(id = t) = Bit(t = id)
      BY DEF Bit
    <3> QED BY <2>3, <3>1, <3>3, <3>4, ScopeSlotsTyped
  <2>10. Occurrences(id, ScopeSlots(top)) > 0
    <3>1. Bit(id = id) = 1
      BY DEF Bit
    <3> HIDE DEF id, stack, top
    <3> QED BY <2>9, <3>1
  <2>11. m.stray = FALSE => id \in LiveThings(m.heap) /\ Thing(m.heap, id).references > 0
    BY <1>3, <2>5, <2>10, HeldIsLive
  <2> HIDE DEF shorter, id
  <2>12. CASE id \notin LiveThings(m.heap)
    <3>1. Pop(m) = Fail(shorter, "thing is live")
      BY <1>3, <2>7, <2>8, <2>12 DEF UnreferenceThing, Require
    <3> QED BY <2>7, <3>1, FailGood DEF NoFault
  <2>13. CASE id \in LiveThings(m.heap) /\ ~(Thing(m.heap, id).references > 0)
    <3>1. Pop(m) = Fail(shorter, "count is positive")
      BY <1>3, <2>7, <2>8, <2>13 DEF UnreferenceThing, Require
    <3>2. shorter.stray = TRUE
      BY <2>7, <2>11, <2>13 DEF Typed
    <3> QED BY <2>7, <3>1, <3>2, FailGood DEF NoFault
  <2>14. CASE id \in LiveThings(m.heap) /\ Thing(m.heap, id).references > 0
    <3> DEFINE g == Unreference(m.heap, id)
    <3>1. Pop(m) = [shorter EXCEPT !.heap = g]
      BY <1>3, <2>7, <2>8, <2>14 DEF UnreferenceThing, Require
    <3>2. Pop(m) = WithTop(m, g, Scope(top.variables, stack))
      <4>1. shorter = WithTop(m, m.heap, Scope(top.variables, stack))
        BY <2>3 DEF shorter
      <4> HIDE DEF g, stack
      <4> QED BY <3>1, <4>1 DEF WithTop
    <3>3. /\ TypedHeap(g) /\ Kept(m.heap, g)
          /\ \A t : Refs(m.heap, t) = Refs(g, t) + Bit(t = id)
      BY <2>1, <2>14, Unreferenced
    <3>4. ASSUME NEW t
          PROVE  Refs(g, t) + Occurrences(t, ScopeSlots(top))
                   = Refs(m.heap, t) + Occurrences(t, ScopeSlots(Scope(top.variables, stack)))
      <4>1. Occurrences(t, ScopeSlots(Scope(top.variables, stack)))
              = Occurrences(t, top.variables) + Occurrences(t, stack)
        <5> HIDE DEF top, stack
        <5> QED BY <2>4, <2>5, ScopeCount
      <4>2. Refs(g, t) \in Nat /\ Bit(t = id) \in Nat
        BY <3>3, RefsTyped DEF Bit
      <4> HIDE DEF g, top, stack
      <4> QED BY <2>9, <3>3, <4>1, <4>2
    <3> DEFINE scope == Scope(top.variables, stack)
    <3> HIDE DEF g, scope
    <3>5. /\ Pop(m) = WithTop(m, g, scope) /\ TypedScope(scope)
          /\ \A t : Refs(g, t) + Occurrences(t, ScopeSlots(TopScope(m)))
                     = Refs(m.heap, t) + Occurrences(t, ScopeSlots(scope))
      BY <2>6, <3>2, <3>4 DEF scope
    <3>6. m.stray = FALSE =>
            /\ Kept(m.heap, g)
            /\ \A t \in Nat : Refs(g, t) + Occurrences(t, ScopeSlots(TopScope(m)))
                                = Refs(m.heap, t) + Occurrences(t, ScopeSlots(scope))
      BY <3>3, <3>5
    <3>7. InCall(WithTop(m, g, scope), K, h)
      BY <1>3, <3>3, <3>5, <3>6, TopChanged
    <3> QED BY <3>5, <3>7
  <2> QED BY <2>12, <2>13, <2>14
<1> QED BY <1>1, <1>2, <1>3
-----------------------------------------------------------------------------
WithFrames(m, g, e) ==
  [heap |-> g, globals |-> m.globals, executor |-> e, stray |-> m.stray, fault |-> m.fault]

LEMMA FramesChanged ==
  ASSUME NEW m, NEW K \in [Nat -> Nat], NEW h, Good(m, K, h), m.fault = NoFault,
         NEW g, TypedHeap(g), NEW e, TypedExecutor(e),
         m.stray = FALSE =>
           /\ Kept(m.heap, g)
           /\ \A t \in Nat : Refs(g, t) + Occurrences(t, SlotsOf(m.executor))
                               = Refs(m.heap, t) + Occurrences(t, SlotsOf(e))
  PROVE  Good(WithFrames(m, g, e), K, h)
<1>0. PICK n : n = WithFrames(m, g, e)
  OBVIOUS
<1>1. IsMachine(n) /\ n.fault = m.fault /\ n.heap = g /\ n.globals = m.globals
      /\ n.executor = e /\ n.stray = m.stray
  BY <1>0 DEF WithFrames, IsMachine
<1>2. TypedExecutor(m.executor) /\ TypedGlobals(m.globals) /\ TypedHeap(m.heap)
  BY DEF Good, Typed
<1>3. Typed(n)
  BY <1>1 DEF Good, Typed
<1>4. ASSUME n.stray = FALSE PROVE Counts(n, K) /\ Kept(h, n.heap)
  <2>1. Counts(m, K) /\ Kept(h, m.heap) /\ Kept(m.heap, g)
    BY <1>1, <1>4 DEF Good
  <2>2. Kept(h, n.heap)
    BY <1>1, <2>1, KeptFurther
  <2>3. ASSUME NEW t \in Nat PROVE Refs(n.heap, t) = Held(n, t) + K[t]
    <3> DEFINE newRefs == Refs(n.heap, t)
    <3> DEFINE oldRefs == Refs(m.heap, t)
    <3> DEFINE newSlots == Occurrences(t, SlotsOf(n.executor))
    <3> DEFINE oldSlots == Occurrences(t, SlotsOf(m.executor))
    <3> DEFINE written == Occurrences(t, Written(m.globals))
    <3>1. /\ newRefs \in Nat /\ oldRefs \in Nat /\ K[t] \in Nat
          /\ newSlots \in Nat /\ oldSlots \in Nat /\ written \in Nat
      BY <1>1, <1>2, RefsTyped, ArraysTyped, WrittenTyped
    <3>2. oldRefs = oldSlots + written + K[t]
      BY <2>1 DEF Counts, Held
    <3>3. newRefs + oldSlots = oldRefs + newSlots
      BY <1>1, <1>4
    <3> HIDE DEF newRefs, oldRefs, newSlots, oldSlots, written
    <3>4. newRefs = newSlots + written + K[t]
      BY <3>1, <3>2, <3>3
    <3> QED BY <1>1, <3>4 DEF newRefs, newSlots, written, Held
  <2> QED BY <2>2, <2>3 DEF Counts
<1>5. Good(n, K, h)
  BY <1>1, <1>3, <1>4 DEF Good
<1> QED BY <1>0, <1>1, <1>5

LEMMA SameSlots ==
  ASSUME NEW e, NEW f, e.scopes = f.scopes
  PROVE  SlotsOf(e) = SlotsOf(f)
BY DEF SlotsOf

\* A scope is added.
LEMMA ScopeEntered ==
  ASSUME NEW e, TypedExecutor(e), NEW f, TypedExecutor(f), NEW scope, TypedScope(scope),
         f.scopes = Append(e.scopes, scope), NEW t
  PROVE  Occurrences(t, SlotsOf(f)) = Occurrences(t, SlotsOf(e)) + Occurrences(t, ScopeSlots(scope))
<1> DEFINE a == ScopeArrays(e)
<1> DEFINE b == ScopeArrays(f)
<1> DEFINE k == Len(e.scopes) + 1
<1>1. PICK S : e.scopes \in Seq(S)
  BY DEF TypedExecutor, IsExecutor, IsSequence
<1>2. e.scopes \in Seq(S \cup {scope}) /\ scope \in S \cup {scope}
  BY <1>1, SeqMonotonic
<1>3. /\ DOMAIN e.scopes = 1..Len(e.scopes) /\ Len(e.scopes) \in Nat
      /\ DOMAIN f.scopes = 1..(Len(e.scopes) + 1)
      /\ f.scopes[k] = scope /\ \A s \in DOMAIN e.scopes : f.scopes[s] = e.scopes[s]
  BY <1>2, AppendProperties
<1>4. FiniteArrays(a) /\ SlotsOf(e) = Gathered(a) /\ FiniteArrays(b) /\ SlotsOf(f) = Gathered(b)
  BY ArraysTyped
<1>5. k \notin DOMAIN e.scopes /\ k \in DOMAIN f.scopes
      /\ \A j : j # k => (j \in DOMAIN e.scopes <=> j \in DOMAIN f.scopes)
  BY <1>3
<1>6. PartOf(t, a, k) = 0 /\ PartOf(t, b, k) = Occurrences(t, ScopeSlots(scope))
  BY <1>3, <1>5 DEF PartOf, ScopeArrays
<1>7. /\ \A j : j # k => (j \in DOMAIN a <=> j \in DOMAIN b)
      /\ \A j \in DOMAIN a : j # k => a[j] = b[j]
  BY <1>3, <1>5 DEF ScopeArrays
<1>8. Occurrences(t, SlotsOf(f)) \in Nat
  BY ArraysTyped
<1> HIDE DEF a, b, k
<1>9. Occurrences(t, Gathered(b)) + PartOf(t, a, k) = Occurrences(t, Gathered(a)) + PartOf(t, b, k)
  BY <1>4, <1>7, PartChanged
<1> QED BY <1>4, <1>6, <1>8, <1>9

\* The innermost scope goes.
LEMMA ScopeLeft ==
  ASSUME NEW e, TypedExecutor(e), e.scopes # <<>>, NEW f, IsExecutor(f),
         f.callStack \in Seq(Positions), f.scopes = Front(e.scopes)
  PROVE  /\ TypedExecutor(f)
         /\ \A t : Occurrences(t, SlotsOf(e))
                     = Occurrences(t, SlotsOf(f)) + Occurrences(t, ScopeSlots(Last(e.scopes)))
<1> DEFINE a == ScopeArrays(f)
<1> DEFINE b == ScopeArrays(e)
<1> DEFINE k == Len(e.scopes)
<1>1. PICK S : e.scopes \in Seq(S)
  BY DEF TypedExecutor, IsExecutor, IsSequence
<1>2. /\ DOMAIN e.scopes = 1..k /\ k \in Nat /\ k # 0
      /\ \A i \in 1..k : e.scopes[i] \in S
  BY <1>1, EmptySeq
<1>3. DOMAIN f.scopes = 1..(k - 1) /\ \A s \in 1..(k - 1) : f.scopes[s] = e.scopes[s]
  <2>1. 1 \in Int /\ k - 1 \in Int /\ \A i \in 1..(k - 1) : e.scopes[i] \in S
    BY <1>2
  <2>2. /\ SubSeq(e.scopes, 1, k - 1) \in Seq(S)
        /\ Len(SubSeq(e.scopes, 1, k - 1)) = IF 1 <= k - 1 THEN (k - 1) - 1 + 1 ELSE 0
        /\ \A i \in 1..((k - 1) - 1 + 1) : SubSeq(e.scopes, 1, k - 1)[i] = e.scopes[1 + i - 1]
    BY <2>1, SubSeqProperties
  <2>3. f.scopes = SubSeq(e.scopes, 1, k - 1)
    BY DEF Front
  <2> HIDE DEF k
  <2>4. Len(f.scopes) = k - 1 /\ DOMAIN f.scopes = 1..(k - 1)
    BY <1>2, <2>2, <2>3
  <2>5. \A i \in 1..(k - 1) : f.scopes[i] = e.scopes[i]
    BY <1>2, <2>2, <2>3
  <2> QED BY <2>4, <2>5
<1>4. TypedExecutor(f)
  <2>1. \A s \in DOMAIN f.scopes : TypedScope(f.scopes[s])
    BY <1>2, <1>3 DEF TypedExecutor
  <2> QED BY <2>1 DEF TypedExecutor
<1>5. Last(e.scopes) = e.scopes[k]
  BY DEF Last
<1>6. ASSUME NEW t
      PROVE  Occurrences(t, SlotsOf(e))
               = Occurrences(t, SlotsOf(f)) + Occurrences(t, ScopeSlots(Last(e.scopes)))
  <2>1. FiniteArrays(a) /\ SlotsOf(f) = Gathered(a) /\ FiniteArrays(b) /\ SlotsOf(e) = Gathered(b)
    BY <1>4, ArraysTyped
  <2>2. k \notin DOMAIN f.scopes /\ k \in DOMAIN e.scopes
        /\ \A j : j # k => (j \in DOMAIN e.scopes <=> j \in DOMAIN f.scopes)
    BY <1>2, <1>3
  <2>3. PartOf(t, a, k) = 0 /\ PartOf(t, b, k) = Occurrences(t, ScopeSlots(Last(e.scopes)))
    BY <1>5, <2>2 DEF PartOf, ScopeArrays
  <2>4. /\ \A j : j # k => (j \in DOMAIN a <=> j \in DOMAIN b)
        /\ \A j \in DOMAIN a : j # k => a[j] = b[j]
    BY <1>2, <1>3, <2>2 DEF ScopeArrays
  <2>5. Occurrences(t, SlotsOf(e)) \in Nat
    BY ArraysTyped
  <2> HIDE DEF a, b, k
  <2>6. Occurrences(t, Gathered(b)) + PartOf(t, a, k) = Occurrences(t, Gathered(a)) + PartOf(t, b, k)
    BY <2>1, <2>4, PartChanged
  <2> QED BY <2>1, <2>3, <2>5, <2>6
<1> QED BY <1>4, <1>6

LEMMA NoScopes ==
  ASSUME NEW e, e.scopes = <<>>, NEW t
  PROVE  Occurrences(t, SlotsOf(e)) = 0
<1>1. DOMAIN ScopeArrays(e) = {}
  BY DEF ScopeArrays
<1>2. SlotsOf(e) = Gathered(ScopeArrays(e))
  BY DEF SlotsOf, ScopeArrays
<1>3. \A p : p \notin DOMAIN SlotsOf(e)
  BY <1>1, <1>2, GatheredPlaces
<1>4. DOMAIN SlotsOf(e) = {} /\ IsFiniteSet({})
  BY <1>3, FS_EmptySet
<1> QED BY <1>3, <1>4, OccurrencesCount

\* Slots that the counts cover can be released.
LEMMA Releasable ==
  ASSUME NEW h, TypedHeap(h), NEW slots, IsFiniteSet(DOMAIN slots),
         \A k \in DOMAIN slots : slots[k] \in Nat,
         \A t \in Nat : Occurrences(t, slots) <= Refs(h, t)
  PROVE  CanRelease(h, slots)
<1> SUFFICES ASSUME NEW k \in DOMAIN slots
             PROVE  /\ slots[k] \in LiveThings(h)
                    /\ Occurrences(slots[k], slots) <= Thing(h, slots[k]).references
  BY DEF CanRelease
<1>1. Occurrences(slots[k], slots) \in Nat /\ Occurrences(slots[k], slots) # 0
  BY OccurrencesCount
<1>2. Occurrences(slots[k], slots) <= Refs(h, slots[k]) /\ Refs(h, slots[k]) \in Nat
  BY RefsTyped
<1>3. Refs(h, slots[k]) # 0
  BY <1>1, <1>2
<1> QED BY <1>2, <1>3 DEF Refs

LEMMA ScopeSlotTyped ==
  ASSUME NEW s, TypedScope(s), NEW k \in DOMAIN ScopeSlots(s)
  PROVE  ScopeSlots(s)[k] \in Nat \cup {DeadThing}
<1>1. s.variables \in Seq(Nat \cup {DeadThing}) /\ s.stack \in Seq(Nat \cup {DeadThing})
  BY SeqMonotonic DEF TypedScope
<1>2. ScopeSlots(s) \in Seq(Nat \cup {DeadThing})
  BY <1>1, ConcatProperties DEF ScopeSlots
<1> QED BY <1>2

LEMMA SlotTyped ==
  ASSUME NEW e, TypedExecutor(e), NEW p \in DOMAIN SlotsOf(e)
  PROVE  SlotsOf(e)[p] \in Nat \cup {DeadThing}
<1>1. SlotsOf(e) = Gathered(ScopeArrays(e))
  BY ArraysTyped
<1>2. PICK i \in DOMAIN ScopeArrays(e) : \E k \in DOMAIN ScopeArrays(e)[i] : p = <<i, k>>
  BY <1>1, GatheredPlaces
<1>3. PICK k \in DOMAIN ScopeArrays(e)[i] : p = <<i, k>>
  BY <1>2
<1>4. SlotsOf(e)[p] = ScopeArrays(e)[i][k]
  BY <1>1, <1>2, <1>3, GatheredPlaces
<1>5. i \in DOMAIN e.scopes /\ ScopeArrays(e)[i] = ScopeSlots(e.scopes[i])
  BY <1>2 DEF ScopeArrays
<1>6. TypedScope(e.scopes[i])
  BY <1>5 DEF TypedExecutor
<1> QED BY <1>3, <1>4, <1>5, <1>6, ScopeSlotTyped
-----------------------------------------------------------------------------
LEMMA ExecutorRecord ==
  ASSUME NEW e, TypedExecutor(e)
  PROVE  e = [running |-> e.running, callStack |-> e.callStack, scopes |-> e.scopes]
BY DEF TypedExecutor, IsExecutor

LEMMA CallsMoved ==
  ASSUME NEW calls \in Seq(Positions), NEW address \in Int,
         NEW moved, moved = [calls EXCEPT ![Len(calls)].address = address]
  PROVE  moved \in Seq(Positions) /\ Len(moved) = Len(calls)
<1> DEFINE k == Len(calls)
<1> DEFINE x == [calls[k] EXCEPT !.address = address]
<1>1. moved = [calls EXCEPT ![k] = x]
  OBVIOUS
<1>2. CASE calls = <<>>
  <2>1. moved = calls
    BY <1>1, <1>2
  <2> QED BY <2>1
<1>3. CASE calls # <<>>
  <2>1. calls[k] \in Positions
    BY <1>3, LastFront DEF Last
  <2>2. x \in Positions
    BY <2>1 DEF Positions
  <2>3. k \in 1..Len(calls)
    BY <1>3, EmptySeq
  <2> HIDE DEF x, k
  <2> QED BY <1>1, <2>2, <2>3, ExceptSeq
<1> QED BY <1>2, <1>3

LEMMA MoveToCounts ==
  ASSUME NEW m, NEW K \in [Nat -> Nat], NEW h, InCall(m, K, h), NEW address \in Int
  PROVE  /\ InCall(MoveTo(m, address), K, h)
         /\ MoveTo(m, address).fault = m.fault /\ MoveTo(m, address).heap = m.heap
         /\ MoveTo(m, address).globals = m.globals /\ MoveTo(m, address).stray = m.stray
         /\ MoveTo(m, address).executor.scopes = m.executor.scopes
<1> DEFINE n == MoveTo(m, address)
<1> DEFINE e == m.executor
<1> DEFINE calls == [e.callStack EXCEPT ![Len(e.callStack)].address = address]
<1> DEFINE f == [e EXCEPT !.callStack = calls]
<1>1. IsMachine(m) /\ TypedExecutor(e)
  BY DEF InCall, Good, Typed
<1>2. n = [m EXCEPT !.executor = f]
  BY DEF MoveTo
<1>3. calls \in Seq(Positions)
  <2>1. PICK old : old = e.callStack
    OBVIOUS
  <2>2. old \in Seq(Positions)
    BY <1>1, <2>1 DEF TypedExecutor
  <2>3. PICK moved : moved = calls
    OBVIOUS
  <2>4. moved = [old EXCEPT ![Len(old)].address = address]
    BY <2>1, <2>3
  <2>5. moved \in Seq(Positions)
    BY ONLY <2>2, <2>4, address \in Int, CallsMoved
  <2> QED BY <2>3, <2>5
<1>4. /\ IsExecutor(f) /\ f.scopes = e.scopes /\ f.callStack = calls /\ f.running = e.running
  <2> HIDE DEF calls
  <2>0. e = [running |-> e.running, callStack |-> e.callStack, scopes |-> e.scopes]
    BY <1>1, ExecutorRecord
  <2>1. f = [running |-> e.running, callStack |-> calls, scopes |-> e.scopes]
    BY <2>0
  <2>2. IsSequence(calls)
    BY <1>3 DEF IsSequence
  <2> HIDE DEF f
  <2> QED BY <1>1, <2>1, <2>2 DEF TypedExecutor, IsExecutor
<1> HIDE DEF f, calls
<1>5. TypedExecutor(f)
  BY <1>1, <1>3, <1>4 DEF TypedExecutor
<1>6. IsMachine(n) /\ n.fault = m.fault /\ n.heap = m.heap /\ n.globals = m.globals
      /\ n.stray = m.stray /\ n.executor = f
  BY <1>1, <1>2 DEF IsMachine
<1> HIDE DEF n
<1>7. \A t : Held(n, t) = Held(m, t)
  BY <1>4, <1>6, SameSlots DEF Held
<1>8. InCall(n, K, h)
  BY <1>4, <1>5, <1>6, <1>7 DEF InCall, Good, Typed, Counts
<1> QED BY <1>4, <1>6, <1>8 DEF n

LEMMA PushNewCounts ==
  ASSUME NEW m, NEW K \in [Nat -> Nat], NEW h, InCall(m, K, h),
         NEW type \in ThingTypes, NEW value \in Int
  PROVE  InCall(PushNew(m, type, value), K, h)
<1> DEFINE id == AppendedId(m.heap, type)
<1> DEFINE g == SetValue(AppendThing(m.heap, type), id, value)
<1> DEFINE mark == m.stray \/ id \in LiveThings(m.heap)
<1>1. IsMachine(m) /\ TypedHeap(m.heap) /\ m.stray \in BOOLEAN
  BY DEF InCall, Good, Typed
<1>2. PushNew(m, type, value) = Push(WithHeap(m, g, mark), id)
  <2> DEFINE made == [m EXCEPT !.heap = SetValue(AppendThing(@, type), id, value),
                               !.stray = @ \/ id \in LiveThings(m.heap)]
  <2> DEFINE grown == [m EXCEPT !.heap = g]
  <2>1. PushNew(m, type, value) = Push(made, id)
    BY DEF PushNew
  <2>2. made = [grown EXCEPT !.stray = mark]
    BY <1>1 DEF IsMachine
  <2>3. grown = [heap |-> g, globals |-> m.globals, executor |-> m.executor, stray |-> m.stray,
                 fault |-> m.fault]
    BY <1>1 DEF IsMachine
  <2> HIDE DEF grown, g, mark, made
  <2>4. made = WithHeap(m, g, mark)
    BY <2>2, <2>3 DEF WithHeap
  <2> QED BY <2>1, <2>4
<1>3. /\ TypedHeap(g) /\ (id \notin LiveThings(m.heap) =>
                            Kept(m.heap, g) /\ \A t : Refs(g, t) = Refs(m.heap, t))
  BY <1>1, Grown
<1>4. mark \in BOOLEAN
      /\ (mark = FALSE => m.stray = FALSE /\ id \notin LiveThings(m.heap))
  BY <1>1
<1> HIDE DEF g, mark, id
<1>5. PICK n : n = WithHeap(m, g, mark)
  OBVIOUS
<1>6. InCall(n, K, h)
  BY <1>3, <1>4, <1>5, HeapGrown
<1> QED BY <1>2, <1>5, <1>6, PushCounts

LEMMA NewScopeTyped ==
  /\ TypedScope(NewScope) /\ \A t : Occurrences(t, ScopeSlots(NewScope)) = 0
<1>1. NewScope = Scope(<<>>, <<>>)
  BY DEF NewScope, Scope
<1>2. <<>> \in Seq(Nat \cup {DeadThing}) /\ <<>> \in Seq(Nat)
  OBVIOUS
<1>3. \A t : Occurrences(t, <<>>) = 0
  <2> TAKE t
  <2>1. DOMAIN <<>> = {} /\ IsFiniteSet({})
    BY FS_EmptySet
  <2> QED BY <2>1, OccurrencesCount
<1>4. \A t : Occurrences(t, ScopeSlots(Scope(<<>>, <<>>))) = 0
  <2> TAKE t
  <2>1. Occurrences(t, ScopeSlots(Scope(<<>>, <<>>))) = Occurrences(t, <<>>) + Occurrences(t, <<>>)
    BY <1>2, ScopeCount
  <2> QED BY <1>3, <2>1
<1> QED BY <1>1, <1>2, <1>4, ScopeTyped

\* A call is entered.
Entered(e, position, scope) ==
  [running |-> e.running, callStack |-> Append(e.callStack, position),
   scopes |-> Append(e.scopes, scope)]

LEMMA EnteredTyped ==
  ASSUME NEW e, TypedExecutor(e), NEW position \in Positions, NEW scope, TypedScope(scope),
         NEW f, f = Entered(e, position, scope)
  PROVE  /\ TypedExecutor(f) /\ f.scopes # <<>>
         /\ \A t : Occurrences(t, SlotsOf(f)) = Occurrences(t, SlotsOf(e)) + Occurrences(t, ScopeSlots(scope))
<1> DEFINE calls == Append(e.callStack, position)
<1> DEFINE scopes == Append(e.scopes, scope)
<1>1. calls \in Seq(Positions) /\ IsSequence(calls)
  BY DEF TypedExecutor, IsSequence
<1>2. IsSequence(scopes) /\ scopes # <<>>
  BY AppendedSequence DEF TypedExecutor, IsExecutor
<1>3. \A s \in DOMAIN scopes : TypedScope(scopes[s])
  <2>1. PICK S : e.scopes \in Seq(S)
    BY DEF TypedExecutor, IsExecutor, IsSequence
  <2>2. e.scopes \in Seq(S \cup {scope}) /\ scope \in S \cup {scope}
    BY <2>1, SeqMonotonic
  <2>3. /\ DOMAIN e.scopes = 1..Len(e.scopes) /\ Len(e.scopes) \in Nat
        /\ DOMAIN scopes = 1..(Len(e.scopes) + 1)
        /\ scopes[Len(e.scopes) + 1] = scope /\ \A s \in DOMAIN e.scopes : scopes[s] = e.scopes[s]
    BY <2>2, AppendProperties
  <2> HIDE DEF scopes
  <2> QED BY <2>3 DEF TypedExecutor
<1>4. f = [running |-> e.running, callStack |-> calls, scopes |-> scopes]
  BY DEF Entered
<1>5. f.scopes = Append(e.scopes, scope)
  BY DEF Entered
<1> HIDE DEF calls, scopes
<1>6. /\ f = [running |-> f.running, callStack |-> f.callStack, scopes |-> f.scopes]
      /\ f.running = e.running /\ f.callStack = calls /\ f.scopes = scopes
  BY <1>4
<1>7. IsExecutor(f)
  BY <1>1, <1>2, <1>6 DEF TypedExecutor, IsExecutor
<1>8. TypedExecutor(f)
  BY <1>1, <1>3, <1>6, <1>7 DEF TypedExecutor
<1>9. \A t : Occurrences(t, SlotsOf(f)) = Occurrences(t, SlotsOf(e)) + Occurrences(t, ScopeSlots(scope))
  BY <1>5, <1>8, ScopeEntered
<1> QED BY <1>2, <1>6, <1>8, <1>9

LEMMA StepInRecord ==
  ASSUME NEW m, Typed(m), m.fault = NoFault, NEW position
  PROVE  StepIn(m, position) =
           IF m.executor.running = TRUE
           THEN WithFrames(m, m.heap, Entered(m.executor, position, NewScope))
           ELSE Fail(m, "executor is running")
<1> DEFINE e == m.executor
<1> DEFINE calls == Append(e.callStack, position)
<1> DEFINE scopes == Append(e.scopes, NewScope)
<1> DEFINE called == [e EXCEPT !.callStack = calls]
<1> DEFINE entered == [called EXCEPT !.scopes = scopes]
<1> DEFINE g == [m EXCEPT !.executor.callStack = Append(@, position),
                          !.executor.scopes = Append(@, NewScope)]
<1>1. IsMachine(m) /\ e.running \in BOOLEAN
      /\ e = [running |-> e.running, callStack |-> e.callStack, scopes |-> e.scopes]
  BY DEF Typed, TypedExecutor, IsExecutor
<1>2. StepIn(m, position) = IF m.executor.running = TRUE THEN g ELSE Fail(m, "executor is running")
  <2> HIDE DEF g
  <2> QED BY <1>1 DEF StepIn, Require, g
<1>3. g = [m EXCEPT !.executor = entered]
  BY <1>1 DEF IsMachine
<1>4. entered = Entered(e, position, NewScope)
  <2> HIDE DEF calls, scopes
  <2>1. called = [running |-> e.running, callStack |-> calls, scopes |-> e.scopes]
    BY <1>1
  <2> HIDE DEF called
  <2>2. entered = [running |-> e.running, callStack |-> calls, scopes |-> scopes]
    BY <2>1
  <2> QED BY <2>2 DEF Entered, calls, scopes
<1> HIDE DEF entered, g
<1>5. g = WithFrames(m, m.heap, entered)
  BY <1>1, <1>3 DEF IsMachine, WithFrames
<1> QED BY <1>2, <1>4, <1>5

LEMMA StepInCounts ==
  ASSUME NEW m, NEW K \in [Nat -> Nat], NEW h, Good(m, K, h), NEW position \in Positions
  PROVE  InCall(StepIn(m, position), K, h) /\ StepIn(m, position).globals = m.globals
<1>1. IsMachine(m) /\ TypedExecutor(m.executor) /\ TypedHeap(m.heap) /\ Typed(m)
  BY DEF Good, Typed
<1>2. CASE m.fault # NoFault
  BY <1>2 DEF StepIn, Require, InCall
<1>3. CASE m.fault = NoFault /\ m.executor.running # TRUE
  <2>1. StepIn(m, position) = Fail(m, "executor is running")
    BY <1>1, <1>3, StepInRecord
  <2>2. InCall(Fail(m, "executor is running"), K, h)
    BY <1>1, FailGood DEF NoFault
  <2>3. Fail(m, "executor is running").globals = m.globals
    BY <1>1, FailFields
  <2> QED BY <2>1, <2>2, <2>3
<1>4. CASE m.fault = NoFault /\ m.executor.running = TRUE
  <2>1. PICK f : f = Entered(m.executor, position, NewScope)
    OBVIOUS
  <2>2. StepIn(m, position) = WithFrames(m, m.heap, f)
    BY <1>1, <1>4, <2>1, StepInRecord
  <2>3. /\ TypedExecutor(f) /\ f.scopes # <<>>
        /\ \A t : Occurrences(t, SlotsOf(f))
                    = Occurrences(t, SlotsOf(m.executor)) + Occurrences(t, ScopeSlots(NewScope))
    BY <1>1, <2>1, NewScopeTyped, EnteredTyped
  <2>4. ASSUME NEW t \in Nat
        PROVE  Refs(m.heap, t) + Occurrences(t, SlotsOf(m.executor))
                 = Refs(m.heap, t) + Occurrences(t, SlotsOf(f))
    <3>1. Occurrences(t, SlotsOf(m.executor)) \in Nat /\ Occurrences(t, ScopeSlots(NewScope)) = 0
      BY <1>1, ArraysTyped, NewScopeTyped
    <3> QED BY <2>3, <3>1
  <2>5. m.stray = FALSE =>
          /\ Kept(m.heap, m.heap)
          /\ \A t \in Nat : Refs(m.heap, t) + Occurrences(t, SlotsOf(m.executor))
                              = Refs(m.heap, t) + Occurrences(t, SlotsOf(f))
    BY <2>4 DEF Kept
  <2>6. Good(WithFrames(m, m.heap, f), K, h)
    BY <1>1, <1>4, <2>3, <2>5, FramesChanged
  <2>7. WithFrames(m, m.heap, f).executor = f /\ WithFrames(m, m.heap, f).globals = m.globals
    BY DEF WithFrames
  <2> QED BY <2>2, <2>3, <2>6, <2>7 DEF InCall
<1> QED BY <1>1, <1>2, <1>3, <1>4 DEF Typed, TypedExecutor, IsExecutor
-----------------------------------------------------------------------------
\* The executor that step_out leaves.
LeftExecutor(calls, scopes) ==
  [running |-> calls # <<>>, callStack |-> calls, scopes |-> scopes]

WithRunning(m) == [m EXCEPT !.executor.running = m.executor.callStack # <<>>]

LEMMA RunningSet ==
  ASSUME NEW m, IsMachine(m), NEW e, m.executor = e,
         e = [running |-> e.running, callStack |-> e.callStack, scopes |-> e.scopes],
         NEW n, n = WithRunning(m)
  PROVE  /\ n = [heap |-> m.heap, globals |-> m.globals,
                 executor |-> LeftExecutor(e.callStack, e.scopes), stray |-> m.stray,
                 fault |-> m.fault]
<1> DEFINE running == e.callStack # <<>>
<1> DEFINE f == [e EXCEPT !.running = running]
<1>1. n = [m EXCEPT !.executor = f]
  BY DEF WithRunning
<1>2. f = LeftExecutor(e.callStack, e.scopes)
  <2>1. LeftExecutor(e.callStack, e.scopes) = [running |-> running, callStack |-> e.callStack, scopes |-> e.scopes]
    BY DEF LeftExecutor
  <2> HIDE DEF running
  <2> QED BY <2>1
<1> HIDE DEF f
<1>3. n = [heap |-> m.heap, globals |-> m.globals, executor |-> f, stray |-> m.stray,
           fault |-> m.fault]
  BY <1>1 DEF IsMachine
<1> QED BY <1>2, <1>3

LEMMA LeftIsExecutor ==
  ASSUME NEW calls \in Seq(Positions), NEW scopes, IsSequence(scopes),
         NEW f, f = LeftExecutor(calls, scopes)
  PROVE  IsExecutor(f) /\ f.callStack = calls /\ f.scopes = scopes
<1> DEFINE running == calls # <<>>
<1>1. f = [running |-> running, callStack |-> calls, scopes |-> scopes] /\ running \in BOOLEAN
  BY DEF LeftExecutor
<1>2. IsSequence(calls)
  BY DEF IsSequence
<1> HIDE DEF running
<1>3. f.running = running /\ f.callStack = calls /\ f.scopes = scopes
      /\ f = [running |-> f.running, callStack |-> f.callStack, scopes |-> f.scopes]
  BY <1>1
<1> QED BY <1>1, <1>2, <1>3 DEF IsExecutor

\* The machine without its innermost position, before its scope is popped.
WithCalls(m, calls) == [m EXCEPT !.executor.callStack = calls]

LEMMA CallsSet ==
  ASSUME NEW m, Typed(m), NEW calls, NEW n, n = WithCalls(m, calls)
  PROVE  /\ n = [heap |-> m.heap, globals |-> m.globals, executor |-> n.executor, stray |-> m.stray,
                 fault |-> m.fault]
         /\ n.executor = [running |-> m.executor.running, callStack |-> calls,
                          scopes |-> m.executor.scopes]
<1> DEFINE e == m.executor
<1> DEFINE f == [e EXCEPT !.callStack = calls]
<1>1. IsMachine(m) /\ e = [running |-> e.running, callStack |-> e.callStack, scopes |-> e.scopes]
  BY ExecutorRecord DEF Typed
<1>2. n = [m EXCEPT !.executor = f]
  BY DEF WithCalls
<1>3. f = [running |-> e.running, callStack |-> calls, scopes |-> e.scopes]
  BY <1>1
<1> HIDE DEF f
<1>4. n = [heap |-> m.heap, globals |-> m.globals, executor |-> f, stray |-> m.stray,
           fault |-> m.fault]
  BY <1>1, <1>2 DEF IsMachine
<1> QED BY <1>3, <1>4

\* What PopScope may do to a machine.
WithScopes(m, g, scopes) == [m EXCEPT !.heap = g, !.executor.scopes = scopes]

LEMMA ScopesSet ==
  ASSUME NEW m, IsMachine(m), NEW e, m.executor = e,
         e = [running |-> e.running, callStack |-> e.callStack, scopes |-> e.scopes],
         NEW g, NEW scopes, NEW n, n = WithScopes(m, g, scopes)
  PROVE  /\ n = [heap |-> g, globals |-> m.globals, executor |-> n.executor, stray |-> m.stray,
                 fault |-> m.fault]
         /\ n.executor = [running |-> e.running, callStack |-> e.callStack, scopes |-> scopes]
<1> DEFINE f == [e EXCEPT !.scopes = scopes]
<1>1. n = WithExecutor(m, g, f)
  BY DEF WithScopes, WithExecutor
<1>2. f = [running |-> e.running, callStack |-> e.callStack, scopes |-> scopes]
  OBVIOUS
<1> HIDE DEF f
<1>3. n = [heap |-> g, globals |-> m.globals, executor |-> f, stray |-> m.stray, fault |-> m.fault]
  BY <1>1, MachineRecord
<1> QED BY <1>2, <1>3

LEMMA PopScopeCases ==
  ASSUME NEW m, m.fault = NoFault, NEW slots, slots = ScopeSlots(TopScope(m))
  PROVE  \/ m.executor.scopes = <<>> /\ PopScope(m) = Fail(m, "scope exists")
         \/ m.executor.scopes # <<>> /\ DeadThing \in Range(slots) /\ PopScope(m) = Fail(m, "variable is live")
         \/ /\ m.executor.scopes # <<>> /\ DeadThing \notin Range(slots) /\ ~CanRelease(m.heap, slots)
            /\ PopScope(m) = Fail(m, "count is positive")
         \/ /\ m.executor.scopes # <<>> /\ DeadThing \notin Range(slots) /\ CanRelease(m.heap, slots)
            /\ PopScope(m) = WithScopes(m, Release(m.heap, slots), Front(m.executor.scopes))
<1>1. PopScope(m) =
        IF m.executor.scopes # <<>>
        THEN IF DeadThing \notin Range(slots)
             THEN IF CanRelease(m.heap, slots)
                  THEN WithScopes(m, Release(m.heap, slots), Front(m.executor.scopes))
                  ELSE Fail(m, "count is positive")
             ELSE Fail(m, "variable is live")
        ELSE Fail(m, "scope exists")
  BY DEF PopScope, Require, WithScopes
<1> QED BY <1>1

\* A machine that a failed assertion stopped.
LEMMA Stopped ==
  ASSUME NEW n, Typed(n), n.fault # NoFault,
         n.stray = TRUE \/ n.fault # "count is positive", NEW K, NEW h
  PROVE  Good(n, K, h)
BY DEF Good

\* The slots that are released hold things, each as often as it is counted.
LEMMA CoveredReleasable ==
  ASSUME NEW m, NEW K \in [Nat -> Nat], NEW h, Good(m, K, h), m.fault = NoFault, m.stray = FALSE,
         NEW slots, IsFiniteSet(DOMAIN slots), DeadThing \notin Range(slots),
         \A k \in DOMAIN slots : slots[k] \in Nat \cup {DeadThing},
         \A t : Occurrences(t, slots) <= Occurrences(t, SlotsOf(m.executor))
  PROVE  CanRelease(m.heap, slots)
<1>1. TypedExecutor(m.executor) /\ TypedGlobals(m.globals) /\ TypedHeap(m.heap) /\ Counts(m, K)
  BY DEF Good, Typed
<1>2. \A k \in DOMAIN slots : slots[k] \in Nat
  BY DEF Range
<1>3. ASSUME NEW t \in Nat PROVE Occurrences(t, slots) <= Refs(m.heap, t)
  <2>1. /\ Refs(m.heap, t) = Occurrences(t, SlotsOf(m.executor)) + Occurrences(t, Written(m.globals)) + K[t]
    BY <1>1 DEF Counts, Held
  <2>2. /\ Occurrences(t, SlotsOf(m.executor)) \in Nat /\ Occurrences(t, Written(m.globals)) \in Nat
        /\ K[t] \in Nat /\ Occurrences(t, slots) \in Nat
    BY <1>1, ArraysTyped, WrittenTyped, OccurrencesCount
  <2>3. Occurrences(t, slots) <= Occurrences(t, SlotsOf(m.executor))
    OBVIOUS
  <2> QED BY <2>1, <2>2, <2>3
<1> QED BY <1>1, <1>2, <1>3, Releasable
-----------------------------------------------------------------------------
\* A call is left: the slots of its scope give up their references.
LEMMA StepOutCounts ==
  ASSUME NEW m, NEW K \in [Nat -> Nat], NEW h, Good(m, K, h)
  PROVE  /\ Good(StepOut(m), K, h)
         /\ StepOut(m).globals = m.globals /\ StepOut(m).stray = m.stray
<1> DEFINE e == m.executor
<1> DEFINE calls == Front(e.callStack)
<1>1. /\ IsMachine(m) /\ TypedExecutor(e) /\ TypedHeap(m.heap) /\ Typed(m)
      /\ e = [running |-> e.running, callStack |-> e.callStack, scopes |-> e.scopes]
      /\ e.callStack \in Seq(Positions) /\ IsSequence(e.scopes)
  BY ExecutorRecord DEF Good, Typed, TypedExecutor, IsExecutor
<1>2. CASE m.fault # NoFault
  BY <1>2 DEF StepOut, Require
<1>3. CASE m.fault = NoFault /\ e.callStack = <<>>
  <2>1. StepOut(m) = Fail(m, "call stack is not empty")
    BY <1>3 DEF StepOut, Require
  <2>2. InCall(Fail(m, "call stack is not empty"), K, h)
    BY <1>1, FailGood DEF NoFault
  <2>3. /\ Fail(m, "call stack is not empty").globals = m.globals
        /\ Fail(m, "call stack is not empty").stray = m.stray
    <3> HIDE DEF e
    <3> QED BY <1>1, FailFields
  <2> QED BY <2>1, <2>2, <2>3 DEF InCall
<1>4. CASE m.fault = NoFault /\ e.callStack # <<>>
  <2>1. PICK called : called = WithCalls(m, calls)
    OBVIOUS
  <2>2. PICK popped : popped = PopScope(called)
    OBVIOUS
  <2>3. PICK n : n = WithRunning(popped)
    OBVIOUS
  <2>4. StepOut(m) = n
    BY <1>4, <2>1, <2>2, <2>3 DEF StepOut, Require, WithCalls, WithRunning
  <2>5. calls \in Seq(Positions)
    BY <1>1, <1>4, LastFront
  <2> HIDE DEF calls
  <2>6. /\ called = [heap |-> m.heap, globals |-> m.globals, executor |-> called.executor,
                     stray |-> m.stray, fault |-> m.fault]
        /\ called.executor = [running |-> e.running, callStack |-> calls, scopes |-> e.scopes]
    BY <1>1, <2>1, CallsSet
  <2>7. /\ IsMachine(called) /\ called.heap = m.heap /\ called.globals = m.globals
        /\ called.stray = m.stray /\ called.fault = m.fault
        /\ called.executor.scopes = e.scopes /\ called.executor.callStack = calls
        /\ called.executor = [running |-> e.running, callStack |-> calls, scopes |-> e.scopes]
    BY <2>6 DEF IsMachine
  <2>8. PICK slots : slots = ScopeSlots(TopScope(called))
    OBVIOUS
  <2>9. ASSUME NEW a, a # NoFault, popped = Fail(called, a),
               m.stray = TRUE \/ a # "count is positive"
        PROVE  Good(n, K, h) /\ n.globals = m.globals /\ n.stray = m.stray
    <3>1. /\ IsMachine(popped) /\ popped.fault = a /\ popped.heap = m.heap
          /\ popped.globals = m.globals /\ popped.stray = m.stray
          /\ popped.executor = called.executor
      <4>1. /\ IsMachine(Fail(called, a)) /\ Fail(called, a).fault = a
            /\ Fail(called, a).heap = called.heap /\ Fail(called, a).globals = called.globals
            /\ Fail(called, a).executor = called.executor /\ Fail(called, a).stray = called.stray
        BY <2>7, FailFields
      <4> QED BY <2>7, <2>9, <4>1
    <3>2. PICK f : f = popped.executor
      OBVIOUS
    <3>3. f = [running |-> f.running, callStack |-> f.callStack, scopes |-> f.scopes]
          /\ f.callStack = calls /\ f.scopes = e.scopes
      BY <2>7, <3>1, <3>2
    <3>4. n = [heap |-> popped.heap, globals |-> popped.globals,
               executor |-> LeftExecutor(f.callStack, f.scopes), stray |-> popped.stray,
               fault |-> popped.fault]
      BY <2>3, <3>1, <3>2, <3>3, RunningSet
    <3>5. PICK left : left = LeftExecutor(calls, e.scopes)
      OBVIOUS
    <3>6. /\ n = [heap |-> n.heap, globals |-> n.globals, executor |-> n.executor, stray |-> n.stray,
                  fault |-> n.fault]
          /\ n.heap = m.heap /\ n.globals = m.globals /\ n.executor = left /\ n.stray = m.stray
          /\ n.fault = a
      BY <3>1, <3>3, <3>4, <3>5
    <3>7. IsExecutor(left) /\ left.callStack = calls /\ left.scopes = e.scopes
      BY <1>1, <2>5, <3>5, LeftIsExecutor
    <3>8. TypedExecutor(left)
      BY <1>1, <2>5, <3>7 DEF TypedExecutor
    <3>9. Typed(n)
      BY <1>1, <3>6, <3>8 DEF Typed, IsMachine
    <3>10. Good(n, K, h)
      BY <2>9, <3>6, <3>9, Stopped
    <3> QED BY <3>6, <3>10
  <2>10. CASE e.scopes # <<>> /\ DeadThing \notin Range(slots) /\ CanRelease(m.heap, slots)
              /\ popped = WithScopes(called, Release(m.heap, slots), Front(e.scopes))
    <3>1. PICK g : g = Release(m.heap, slots)
      OBVIOUS
    <3>2. PICK scopes : scopes = Front(e.scopes)
      OBVIOUS
    <3>3. PICK c : c = called.executor
      OBVIOUS
    <3>4. /\ called.executor = c /\ c.callStack = calls /\ c.running = e.running
          /\ c = [running |-> c.running, callStack |-> c.callStack, scopes |-> c.scopes]
      BY <2>7, <3>3
    <3>5. popped = WithScopes(called, g, scopes)
      BY <2>10, <3>1, <3>2
    <3>6. /\ popped = [heap |-> g, globals |-> called.globals, executor |-> popped.executor,
                       stray |-> called.stray, fault |-> called.fault]
          /\ popped.executor = [running |-> c.running, callStack |-> c.callStack, scopes |-> scopes]
      BY <2>7, <3>4, <3>5, ScopesSet
    <3>7. PICK f : f = popped.executor
      OBVIOUS
    <3>8. /\ IsMachine(popped) /\ popped.heap = g /\ popped.globals = m.globals
          /\ popped.stray = m.stray /\ popped.fault = m.fault /\ popped.executor = f
          /\ f = [running |-> f.running, callStack |-> f.callStack, scopes |-> f.scopes]
          /\ f.callStack = calls /\ f.scopes = scopes
      BY <2>7, <3>4, <3>6, <3>7 DEF IsMachine
    <3>9. n = [heap |-> popped.heap, globals |-> popped.globals,
               executor |-> LeftExecutor(f.callStack, f.scopes), stray |-> popped.stray,
               fault |-> popped.fault]
      BY <2>3, <3>8, RunningSet
    <3>10. PICK left : left = LeftExecutor(calls, scopes)
      OBVIOUS
    <3>11. n = WithFrames(m, g, left) /\ n.globals = m.globals /\ n.stray = m.stray
      BY <3>8, <3>9, <3>10 DEF WithFrames
    <3>12. IsSequence(scopes)
      BY <1>1, <2>10, <3>2, FrontSequence
    <3>13. IsExecutor(left) /\ left.callStack = calls /\ left.scopes = scopes
      BY <2>5, <3>10, <3>12, LeftIsExecutor
    <3>14. /\ TypedExecutor(left)
           /\ \A t : Occurrences(t, SlotsOf(e))
                       = Occurrences(t, SlotsOf(left)) + Occurrences(t, ScopeSlots(Last(e.scopes)))
      BY <1>1, <2>5, <2>10, <3>2, <3>13, ScopeLeft
    <3>15. slots = ScopeSlots(Last(e.scopes))
      BY <2>7, <2>8 DEF TopScope
    <3>16. IsFiniteSet(DOMAIN slots)
      BY <1>1, <2>10, <3>15, TopTyped, ScopeSlotsTyped
    <3>17. /\ TypedHeap(g) /\ Kept(m.heap, g)
           /\ \A t : Refs(m.heap, t) = Refs(g, t) + Occurrences(t, slots)
      BY <1>1, <2>10, <3>1, <3>16, Released
    <3>18. ASSUME NEW t
           PROVE  Refs(g, t) + Occurrences(t, SlotsOf(e)) = Refs(m.heap, t) + Occurrences(t, SlotsOf(left))
      <4>1. /\ Refs(g, t) \in Nat /\ Occurrences(t, SlotsOf(left)) \in Nat
            /\ Occurrences(t, slots) \in Nat
        BY <3>14, <3>16, <3>17, RefsTyped, ArraysTyped, OccurrencesCount
      <4>2. /\ Occurrences(t, SlotsOf(e)) = Occurrences(t, SlotsOf(left)) + Occurrences(t, slots)
            /\ Refs(m.heap, t) = Refs(g, t) + Occurrences(t, slots)
        BY <3>14, <3>15, <3>17
      <4> QED BY <4>1, <4>2
    <3>19. m.stray = FALSE =>
             /\ Kept(m.heap, g)
             /\ \A t \in Nat : Refs(g, t) + Occurrences(t, SlotsOf(m.executor))
                                 = Refs(m.heap, t) + Occurrences(t, SlotsOf(left))
      BY <3>17, <3>18
    <3>20. m.fault = NoFault /\ TypedExecutor(left) /\ TypedHeap(g)
      BY <1>4, <3>14, <3>17
    <3> HIDE DEF e
    <3>21. Good(WithFrames(m, g, left), K, h)
      BY <3>19, <3>20, FramesChanged
    <3> QED BY <2>4, <3>11, <3>21
  <2>11. ASSUME m.stray = FALSE, e.scopes # <<>>, DeadThing \notin Range(slots)
         PROVE  CanRelease(m.heap, slots)
    <3>1. slots = ScopeSlots(Last(e.scopes))
      BY <2>7, <2>8 DEF TopScope
    <3>2. /\ IsFiniteSet(DOMAIN slots)
          /\ \A k \in DOMAIN slots : slots[k] \in Nat \cup {DeadThing}
      BY <1>1, <2>11, <3>1, TopTyped, ScopeSlotsTyped, ScopeSlotTyped
    <3>3. \A t : Occurrences(t, slots) <= Occurrences(t, SlotsOf(m.executor))
      BY <1>1, <2>11, <3>1, TopTyped
    <3> QED BY <1>4, <2>11, <3>2, <3>3, CoveredReleasable
  <2>12. \/ popped = Fail(called, "scope exists") \/ popped = Fail(called, "variable is live")
         \/ /\ e.scopes # <<>> /\ DeadThing \notin Range(slots) /\ ~CanRelease(m.heap, slots)
            /\ popped = Fail(called, "count is positive")
         \/ /\ e.scopes # <<>> /\ DeadThing \notin Range(slots) /\ CanRelease(m.heap, slots)
            /\ popped = WithScopes(called, Release(m.heap, slots), Front(e.scopes))
    <3>1. called.fault = NoFault
      BY <1>4, <2>7
    <3> QED BY <2>2, <2>7, <2>8, <3>1, PopScopeCases
  <2>13. CASE popped = Fail(called, "scope exists") \/ popped = Fail(called, "variable is live")
    <3>1. "scope exists" # NoFault /\ "variable is live" # NoFault
      BY DEF NoFault
    <3>2. CASE popped = Fail(called, "scope exists")
      <4>1. "scope exists" # "count is positive"
        OBVIOUS
      <4> QED BY <2>4, <2>9, <3>1, <3>2, <4>1
    <3>3. CASE popped = Fail(called, "variable is live")
      BY <2>4, <2>9, <3>1, <3>3
    <3> QED BY <2>13, <3>2, <3>3
  <2>14. CASE /\ e.scopes # <<>> /\ DeadThing \notin Range(slots) /\ ~CanRelease(m.heap, slots)
              /\ popped = Fail(called, "count is positive")
    <3>1. m.stray = TRUE
      BY <1>1, <2>11, <2>14 DEF Typed
    <3> QED BY <2>4, <2>9, <2>14, <3>1 DEF NoFault
  <2> QED BY <2>4, <2>10, <2>12, <2>13, <2>14
<1> QED BY <1>2, <1>3, <1>4
-----------------------------------------------------------------------------
CleanedExecutor == [NewExecutor EXCEPT !.running = FALSE]

LEMMA CleanedTyped ==
  /\ TypedExecutor(CleanedExecutor)
  /\ \A t : Occurrences(t, SlotsOf(CleanedExecutor)) = 0
<1>1. CleanedExecutor = [running |-> FALSE, callStack |-> <<>>, scopes |-> <<>>]
  <2>1. PICK e : e = NewExecutor
    OBVIOUS
  <2>2. e = [running |-> TRUE, callStack |-> <<>>, scopes |-> <<>>]
    BY <2>1 DEF NewExecutor
  <2>3. CleanedExecutor = [e EXCEPT !.running = FALSE]
    BY <2>1 DEF CleanedExecutor
  <2> QED BY <2>2, <2>3
<1>2. PICK e : e = CleanedExecutor
  OBVIOUS
<1>3. /\ e = [running |-> e.running, callStack |-> e.callStack, scopes |-> e.scopes]
      /\ e.running = FALSE /\ e.callStack = <<>> /\ e.scopes = <<>>
  BY <1>1, <1>2
<1>4. <<>> \in Seq(Positions) /\ IsSequence(<<>>) /\ DOMAIN <<>> = {}
  BY DEF IsSequence
<1>5. IsExecutor(e)
  BY <1>3, <1>4 DEF IsExecutor
<1>6. TypedExecutor(e)
  BY <1>3, <1>4, <1>5 DEF TypedExecutor
<1> QED BY <1>2, <1>3, <1>6, NoScopes

\* Every call is left.
LEMMA CleanupCounts ==
  ASSUME NEW m, NEW K \in [Nat -> Nat], NEW h, Good(m, K, h)
  PROVE  /\ Good(Cleanup(m), K, h)
         /\ Cleanup(m).globals = m.globals /\ Cleanup(m).stray = m.stray
         /\ Cleanup(m).fault = NoFault => Cleanup(m).executor = CleanedExecutor
<1> DEFINE e == m.executor
<1>1. /\ IsMachine(m) /\ TypedExecutor(e) /\ TypedHeap(m.heap) /\ Typed(m)
      /\ m.stray \in BOOLEAN
  BY DEF Good, Typed
<1>2. CASE m.fault # NoFault
  BY <1>2 DEF Cleanup, Require
<1>3. CASE m.fault = NoFault
  <2>1. PICK slots : slots = SlotsOf(m.executor)
    OBVIOUS
  <2>2. PICK g : g = Release(m.heap, slots)
    OBVIOUS
  <2>3. Cleanup(m) = IF DeadThing \notin Range(slots)
                     THEN IF CanRelease(m.heap, slots)
                          THEN WithExecutor(m, g, CleanedExecutor)
                          ELSE Fail(m, "count is positive")
                     ELSE Fail(m, "variable is live")
    BY <1>3, <2>1, <2>2 DEF Cleanup, Require, WithExecutor, CleanedExecutor
  <2>4. /\ IsFiniteSet(DOMAIN slots)
        /\ \A k \in DOMAIN slots : slots[k] \in Nat \cup {DeadThing}
        /\ \A t : Occurrences(t, slots) \in Nat
    BY <1>1, <2>1, ArraysTyped, SlotTyped
  <2>5. CASE DeadThing \in Range(slots)
    <3>1. Cleanup(m) = Fail(m, "variable is live")
      BY <2>3, <2>5
    <3>2. InCall(Fail(m, "variable is live"), K, h)
      BY <1>1, FailGood DEF NoFault
    <3>3. /\ Fail(m, "variable is live").globals = m.globals
          /\ Fail(m, "variable is live").stray = m.stray
          /\ Fail(m, "variable is live").fault # NoFault
      <4> HIDE DEF e
      <4>1. PICK n : n = Fail(m, "variable is live")
        OBVIOUS
      <4>2. n.globals = m.globals /\ n.stray = m.stray /\ n.fault = "variable is live"
        <5>1. IsMachine(m)
          BY <1>1
        <5> QED BY <4>1, <5>1, FailFields
      <4> QED BY <4>1, <4>2 DEF NoFault
    <3> QED BY <3>1, <3>2, <3>3 DEF InCall
  <2>6. CASE DeadThing \notin Range(slots) /\ ~CanRelease(m.heap, slots)
    <3>1. Cleanup(m) = Fail(m, "count is positive")
      BY <2>3, <2>6
    <3>2. m.stray = FALSE => CanRelease(m.heap, slots)
      <4>1. SUFFICES ASSUME m.stray = FALSE PROVE CanRelease(m.heap, slots)
        OBVIOUS
      <4>2. \A t : Occurrences(t, slots) <= Occurrences(t, SlotsOf(m.executor))
        BY <2>1, <2>4
      <4> QED BY <1>3, <2>4, <2>6, <4>1, <4>2, CoveredReleasable
    <3>3. m.stray = TRUE
      BY <1>1, <2>6, <3>2
    <3>4. InCall(Fail(m, "count is positive"), K, h)
      BY <1>1, <3>3, FailGood DEF NoFault
    <3>5. /\ Fail(m, "count is positive").globals = m.globals
          /\ Fail(m, "count is positive").stray = m.stray
          /\ Fail(m, "count is positive").fault # NoFault
      <4> HIDE DEF e
      <4>1. PICK n : n = Fail(m, "count is positive")
        OBVIOUS
      <4>2. n.globals = m.globals /\ n.stray = m.stray /\ n.fault = "count is positive"
        <5>1. IsMachine(m)
          BY <1>1
        <5> QED BY <4>1, <5>1, FailFields
      <4> QED BY <4>1, <4>2 DEF NoFault
    <3> QED BY <3>1, <3>4, <3>5 DEF InCall
  <2>7. CASE DeadThing \notin Range(slots) /\ CanRelease(m.heap, slots)
    <3>1. PICK n : n = WithExecutor(m, g, CleanedExecutor)
      OBVIOUS
    <3>2. PICK c : c = CleanedExecutor
      OBVIOUS
    <3>3. n = [heap |-> g, globals |-> m.globals, executor |-> c, stray |-> m.stray,
               fault |-> m.fault]
      <4>1. n = WithExecutor(m, g, c)
        BY <3>1, <3>2
      <4> QED BY <1>1, <4>1, MachineRecord
    <3>4. Cleanup(m) = n /\ n = WithFrames(m, g, c) /\ n.globals = m.globals
          /\ n.stray = m.stray /\ n.executor = c
      BY <2>3, <2>7, <3>1, <3>3 DEF WithFrames
    <3>5. TypedExecutor(c) /\ \A t : Occurrences(t, SlotsOf(c)) = 0
      BY <3>2, CleanedTyped
    <3>6. /\ TypedHeap(g) /\ Kept(m.heap, g)
          /\ \A t : Refs(m.heap, t) = Refs(g, t) + Occurrences(t, slots)
      BY <1>1, <2>2, <2>4, <2>7, Released
    <3>7. ASSUME NEW t
          PROVE  Refs(g, t) + Occurrences(t, SlotsOf(m.executor)) = Refs(m.heap, t) + Occurrences(t, SlotsOf(c))
      <4>1. Refs(g, t) \in Nat /\ Occurrences(t, slots) \in Nat
        BY <2>4, <3>6, RefsTyped
      <4> QED BY <2>1, <3>5, <3>6, <4>1
    <3>8. m.stray = FALSE =>
            /\ Kept(m.heap, g)
            /\ \A t \in Nat : Refs(g, t) + Occurrences(t, SlotsOf(m.executor))
                                = Refs(m.heap, t) + Occurrences(t, SlotsOf(c))
      BY <3>6, <3>7
    <3>9. Good(WithFrames(m, g, c), K, h)
      BY <1>3, <3>5, <3>6, <3>8, FramesChanged
    <3> QED BY <3>2, <3>4, <3>9
  <2> QED BY <2>5, <2>6, <2>7
<1> QED BY <1>2, <1>3
-----------------------------------------------------------------------------
\* One slot holds the thing.
Same(x, t) == IF x = t THEN 1 ELSE 0

\* The slot of index gives up what it held and holds the thing.
Swapped(variables, new, old, id, t) ==
  Occurrences(t, new) + Same(old, t) = Occurrences(t, variables) + Same(id, t)

LEMMA StoredCount ==
  ASSUME NEW variables \in Seq(Nat \cup {DeadThing}), NEW index \in Nat, NEW id \in Nat,
         NEW new, new = Stored(variables, index, id), NEW t \in Nat
  PROVE  /\ new \in Seq(Nat \cup {DeadThing})
         /\ Swapped(variables, new, VariableAt(variables, index), id, t)
<1> DEFINE k == index + 1
<1> DEFINE n == IF index < Len(variables) THEN Len(variables) ELSE index + 1
<1>1. /\ Len(variables) \in Nat /\ DOMAIN variables = 1..Len(variables)
      /\ \A i \in 1..Len(variables) : variables[i] \in Nat \cup {DeadThing}
  OBVIOUS
<1>2. n \in Nat /\ k \in 1..n
  BY <1>1
<1>3. new = [j \in 1..n |-> IF j = k THEN id ELSE VariableAt(variables, j - 1)]
  BY DEF Stored
<1>4. \A i \in Nat : VariableAt(variables, i) = IF i + 1 \in DOMAIN variables THEN variables[i + 1] ELSE DeadThing
  BY <1>1 DEF VariableAt
<1>5. \A i \in Nat : VariableAt(variables, i) \in Nat \cup {DeadThing}
  BY <1>1, <1>4
<1> HIDE DEF n
<1>6. DOMAIN new = 1..n /\ \A j \in 1..n : new[j] = IF j = k THEN id ELSE VariableAt(variables, j - 1)
  BY <1>3
<1>7. new \in Seq(Nat \cup {DeadThing})
  <2>1. \A j \in 1..n : new[j] \in Nat \cup {DeadThing}
    <3> TAKE j \in 1..n
    <3>1. j - 1 \in Nat
      BY <1>2
    <3> QED BY <1>5, <1>6, <3>1
  <2>2. new \in [1..n -> Nat \cup {DeadThing}]
    BY <1>3, <2>1, <1>6
  <2> QED BY <1>2, <2>2
<1>8. Occurrences(t, new) + Bit(VariableAt(variables, index) = t)
        = Occurrences(t, variables) + Bit(id = t)
  <2>1. ASSUME NEW j, j # k
        PROVE  j \in DOMAIN new /\ new[j] = t <=> j \in DOMAIN variables /\ variables[j] = t
    <3>1. DeadThing # t
      BY DEF DeadThing
    <3>2. CASE j \in 1..n
      <4>1. j - 1 \in Nat /\ (j - 1) + 1 = j
        BY <1>2, <3>2
      <4>2. new[j] = IF j \in DOMAIN variables THEN variables[j] ELSE DeadThing
        BY <1>4, <1>6, <2>1, <3>2, <4>1
      <4> QED BY <1>6, <3>1, <3>2, <4>2
    <3>3. CASE j \notin 1..n
      <4>1. j \notin DOMAIN variables
        BY <1>1, <3>3 DEF n
      <4> QED BY <1>6, <3>3, <4>1
    <3> QED BY <3>2, <3>3
  <2>2. IsFiniteSet(DOMAIN variables)
    BY SequenceFinite DEF IsSequence
  <2>3. Occurrences(t, new) + Bit(k \in DOMAIN variables /\ variables[k] = t)
          = Occurrences(t, variables) + Bit(k \in DOMAIN new /\ new[k] = t)
    BY <2>1, <2>2, PlaceChanged
  <2>4. Bit(k \in DOMAIN new /\ new[k] = t) = Bit(id = t)
    BY <1>2, <1>6 DEF Bit
  <2>5. Bit(k \in DOMAIN variables /\ variables[k] = t) = Bit(VariableAt(variables, index) = t)
    <3>1. DeadThing # t
      BY DEF DeadThing
    <3>2. VariableAt(variables, index) = IF k \in DOMAIN variables THEN variables[k] ELSE DeadThing
      BY <1>4
    <3> QED BY <3>1, <3>2 DEF Bit
  <2> QED BY <2>3, <2>4, <2>5
<1>9. Bit(VariableAt(variables, index) = t) = Same(VariableAt(variables, index), t) /\ Bit(id = t) = Same(id, t)
  BY DEF Bit, Same
<1> QED BY <1>7, <1>8, <1>9 DEF Swapped

LEMMA StoredValueTyped ==
  ASSUME NEW variables \in Seq(Nat \cup {DeadThing}), NEW index \in Nat
  PROVE  VariableAt(variables, index) \in Nat \cup {DeadThing}
BY DEF VariableAt

\* The variable that is overwritten is a slot of its scope.
LEMMA OldIsHeld ==
  ASSUME NEW scope, TypedScope(scope), NEW index \in Nat,
         VariableAt(scope.variables, index) # DeadThing
  PROVE  Occurrences(VariableAt(scope.variables, index), ScopeSlots(scope)) > 0
<1> DEFINE old == VariableAt(scope.variables, index)
<1>1. scope.variables \in Seq(Nat \cup {DeadThing})
  BY DEF TypedScope
<1>2. index + 1 \in DOMAIN scope.variables /\ scope.variables[index + 1] = old
  BY <1>1 DEF VariableAt
<1> HIDE DEF old
<1>3. IsFiniteSet(DOMAIN scope.variables)
  BY <1>1, SequenceFinite DEF IsSequence
<1>4. Occurrences(old, scope.variables) # 0
  BY <1>2, <1>3, OccurrencesCount
<1>5. /\ Occurrences(old, scope.variables) \in Nat /\ Occurrences(old, scope.stack) \in Nat
      /\ Occurrences(old, ScopeSlots(scope))
           = Occurrences(old, scope.variables) + Occurrences(old, scope.stack)
  BY ScopeSlotsTyped
<1>6. Occurrences(old, ScopeSlots(scope)) > 0
  BY <1>4, <1>5
<1> QED BY <1>6 DEF old

LEMMA UnreferenceCases ==
  ASSUME NEW m, m.fault = NoFault, NEW id
  PROVE  \/ id \notin LiveThings(m.heap) /\ UnreferenceThing(m, id) = Fail(m, "thing is live")
         \/ /\ id \in LiveThings(m.heap) /\ ~(Thing(m.heap, id).references > 0)
            /\ UnreferenceThing(m, id) = Fail(m, "count is positive")
         \/ /\ id \in LiveThings(m.heap) /\ Thing(m.heap, id).references > 0
            /\ UnreferenceThing(m, id) = [m EXCEPT !.heap = Unreference(m.heap, id)]
BY DEF UnreferenceThing, Require

LEMMA HeapSet ==
  ASSUME NEW m, Typed(m), NEW g, TypedHeap(g), NEW n, n = [m EXCEPT !.heap = g]
  PROVE  /\ Typed(n) /\ n.heap = g /\ n.globals = m.globals /\ n.executor = m.executor
         /\ n.stray = m.stray /\ n.fault = m.fault
<1>1. IsMachine(m)
  BY DEF Typed
<1>2. /\ n = [heap |-> n.heap, globals |-> n.globals, executor |-> n.executor, stray |-> n.stray,
              fault |-> n.fault]
      /\ n.heap = g /\ n.globals = m.globals /\ n.executor = m.executor
      /\ n.stray = m.stray /\ n.fault = m.fault
  BY <1>1 DEF IsMachine
<1> QED BY <1>2 DEF Typed, IsMachine

\* A variable is stored: the slot gives up what it held and holds the thing.
LEMMA StoreVariableCounts ==
  ASSUME NEW m, NEW K \in [Nat -> Nat], NEW h, InCall(m, K, h), NEW index \in Nat, NEW id
  PROVE  InCall(StoreVariable(m, index, id), K, h)
<1> DEFINE top == TopScope(m)
<1> DEFINE old == VariableAt(top.variables, index)
<1> DEFINE released == IF old = DeadThing THEN m ELSE UnreferenceThing(m, old)
<1>1. CASE m.fault # NoFault
  BY <1>1 DEF StoreVariable, Require
<1>2. CASE m.fault = NoFault
  <2>1. Typed(m) /\ IsMachine(m) /\ TypedHeap(m.heap) /\ m.executor.scopes # <<>> /\ m.stray \in BOOLEAN
    BY <1>2 DEF InCall, Good, Typed
  <2>2. /\ TypedScope(top) /\ TypedExecutor(m.executor)
    BY <2>1, TopRecord
  <2>3. top.variables \in Seq(Nat \cup {DeadThing}) /\ top.stack \in Seq(Nat)
    BY <2>2 DEF TypedScope
  <2>4. CASE CountWraps(index)
    <3>1. StoreVariable(m, index, id) = Fail(m, "index is below the count")
      BY <1>2, <2>4 DEF StoreVariable, Require
    <3> QED BY <2>1, <3>1, FailGood DEF NoFault
  <2>5. CASE ~CountWraps(index) /\ ResizeHangs(index + 1)
    <3>1. StoreVariable(m, index, id) = Fail(m, Hangs)
      BY <1>2, <2>5 DEF StoreVariable, Require
    <3> QED BY <2>1, <3>1, FailGood DEF NoFault, Hangs
  <2>6. CASE ~CountWraps(index) /\ ~ResizeHangs(index + 1)
    <3>1. PICK r : r = released
      OBVIOUS
    <3>2. StoreVariable(m, index, id) =
            Require(r, id \in LiveThings(r.heap), "thing is live",
              [r EXCEPT !.heap = Reference(@, id),
                 !.executor.scopes[Len(m.executor.scopes)].variables = Stored(@, index, id)])
      <4>1. StoreVariable(m, index, id) =
            Require(released, id \in LiveThings(released.heap), "thing is live",
              [released EXCEPT !.heap = Reference(@, id),
                 !.executor.scopes[Len(m.executor.scopes)].variables = Stored(@, index, id)])
        BY <1>2, <2>6 DEF StoreVariable, Require
      <4> HIDE DEF released
      <4> QED BY <3>1, <4>1
    <3>3. old \in Nat \cup {DeadThing}
      BY <2>3, <1>2, StoredValueTyped
    <3>4. old # DeadThing => Occurrences(old, ScopeSlots(top)) > 0
      BY <2>2, <2>3, OldIsHeld
    <3>5. m.stray = FALSE /\ old # DeadThing =>
            old \in LiveThings(m.heap) /\ Thing(m.heap, old).references > 0
      BY <1>2, <3>3, <3>4, HeldIsLive
    <3> HIDE DEF old
    <3>6. \/ InCall(r, K, h) /\ r.fault # NoFault
          \/ \E g : /\ r = [m EXCEPT !.heap = g] /\ TypedHeap(g) /\ Kept(m.heap, g)
                    /\ LiveThings(g) = LiveThings(m.heap)
                    /\ \A t \in Nat : Refs(m.heap, t) = Refs(g, t) + Bit(old = t)
      <4>1. CASE old = DeadThing
        <5>1. r = m
          BY <3>1, <4>1
        <5>2. m = [m EXCEPT !.heap = m.heap]
          BY <2>1 DEF IsMachine
        <5>3. ASSUME NEW t \in Nat PROVE Refs(m.heap, t) = Refs(m.heap, t) + Bit(old = t)
          <6>1. Bit(old = t) = 0
            BY <4>1 DEF Bit, DeadThing
          <6> QED BY <2>1, <6>1, RefsTyped
        <5>4. Kept(m.heap, m.heap)
          BY DEF Kept
        <5> QED BY <2>1, <5>1, <5>2, <5>3, <5>4
      <4>2. CASE old # DeadThing
        <5>1. r = UnreferenceThing(m, old)
          BY <3>1, <4>2
        <5>2. CASE old \notin LiveThings(m.heap) /\ r = Fail(m, "thing is live")
          <6>1. InCall(Fail(m, "thing is live"), K, h)
            BY <2>1, FailGood DEF NoFault
          <6>2. Fail(m, "thing is live").fault = "thing is live"
            <7>1. IsMachine(m)
              BY <2>1
            <7> QED BY <7>1, FailFields
          <6> QED BY <5>2, <6>1, <6>2 DEF NoFault
        <5>3. CASE /\ old \in LiveThings(m.heap) /\ ~(Thing(m.heap, old).references > 0)
                   /\ r = Fail(m, "count is positive")
          <6>1. m.stray = TRUE
            BY <2>1, <3>5, <4>2, <5>3
          <6>2. InCall(Fail(m, "count is positive"), K, h)
            BY <2>1, <6>1, FailGood DEF NoFault
          <6>3. Fail(m, "count is positive").fault = "count is positive"
            <7>1. IsMachine(m)
              BY <2>1
            <7> QED BY <7>1, FailFields
          <6> QED BY <5>3, <6>2, <6>3 DEF NoFault
        <5>4. CASE /\ old \in LiveThings(m.heap) /\ Thing(m.heap, old).references > 0
                   /\ r = [m EXCEPT !.heap = Unreference(m.heap, old)]
          <6>1. PICK g : g = Unreference(m.heap, old)
            OBVIOUS
          <6>2. /\ TypedHeap(g) /\ LiveThings(g) = LiveThings(m.heap) /\ Kept(m.heap, g)
                /\ \A t : Refs(m.heap, t) = Refs(g, t) + Bit(t = old)
            BY <2>1, <5>4, <6>1, Unreferenced
          <6>3. \A t : Bit(t = old) = Bit(old = t)
            BY DEF Bit
          <6> QED BY <5>4, <6>1, <6>2, <6>3
        <5> QED BY <1>2, <5>1, <5>2, <5>3, <5>4, UnreferenceCases
      <4> QED BY <4>1, <4>2
    <3>7. CASE InCall(r, K, h) /\ r.fault # NoFault
      BY <3>2, <3>7 DEF Require
    <3>8. ASSUME NEW g, r = [m EXCEPT !.heap = g], TypedHeap(g), Kept(m.heap, g),
                 LiveThings(g) = LiveThings(m.heap),
                 \A t \in Nat : Refs(m.heap, t) = Refs(g, t) + Bit(old = t)
          PROVE  InCall(StoreVariable(m, index, id), K, h)
      <4>1. /\ Typed(r) /\ r.heap = g /\ r.globals = m.globals /\ r.executor = m.executor
            /\ r.stray = m.stray /\ r.fault = NoFault
        BY <1>2, <2>1, <3>8, HeapSet
      <4>2. CASE id \notin LiveThings(g)
        <5>1. StoreVariable(m, index, id) = Fail(r, "thing is live")
          BY <3>2, <4>1, <4>2 DEF Require
        <5> QED BY <4>1, <5>1, FailGood DEF NoFault
      <4>3. CASE id \in LiveThings(g)
        <5>1. PICK f : f = Reference(g, id)
          OBVIOUS
        <5>2. PICK new : new = Stored(top.variables, index, id)
          OBVIOUS
        <5>3. StoreVariable(m, index, id) = WithVariables(r, f, new)
          BY <3>2, <4>1, <4>3, <5>1, <5>2 DEF Require, WithVariables, TopScope, Last
        <5>4. StoreVariable(m, index, id) = WithTop(m, f, Scope(new, top.stack))
          <6>1. TopScope(r) = top
            BY <4>1 DEF TopScope
          <6>2. WithVariables(r, f, new) = WithTop(r, f, Scope(new, top.stack))
            BY <2>1, <4>1, <6>1, TopRecord
          <6>3. WithTop(r, f, Scope(new, top.stack)) = WithTop(m, f, Scope(new, top.stack))
            BY <1>2, <4>1 DEF WithTop
          <6> QED BY <5>3, <6>2, <6>3
        <5>5. id \in Nat
          BY <2>1, <3>8, <4>3, LiveIds DEF TypedHeap
        <5>6. /\ new \in Seq(Nat \cup {DeadThing})
              /\ \A t \in Nat : Occurrences(t, new) + Bit(old = t) = Occurrences(t, top.variables) + Bit(id = t)
          <6>1. PICK variables : variables = top.variables
            OBVIOUS
          <6>2. variables \in Seq(Nat \cup {DeadThing}) /\ new = Stored(variables, index, id)
                /\ old = VariableAt(variables, index)
            BY <2>3, <5>2, <6>1 DEF old
          <6>3. new \in Seq(Nat \cup {DeadThing})
            <7>1. 0 \in Nat
              OBVIOUS
            <7> QED BY <5>5, <6>2, <7>1, StoredCount
          <6>4. ASSUME NEW t \in Nat
                PROVE  Occurrences(t, new) + Same(old, t) = Occurrences(t, variables) + Same(id, t)
            <7>1. Swapped(variables, new, VariableAt(variables, index), id, t)
              BY <5>5, <6>2, <6>4, StoredCount
            <7> QED BY <6>2, <7>1 DEF Swapped
          <6>5. \A t \in Nat : Bit(old = t) = Same(old, t) /\ Bit(id = t) = Same(id, t)
            BY DEF Bit, Same
          <6> QED BY <6>1, <6>2, <6>3, <6>4, <6>5
        <5>7. /\ TypedHeap(f) /\ Kept(g, f)
              /\ \A t : Refs(f, t) = Refs(g, t) + Bit(t = id)
          BY <3>8, <4>3, <5>1, Referenced
        <5>8. PICK scope : scope = Scope(new, top.stack)
          OBVIOUS
        <5>9. TypedScope(scope)
          BY <2>3, <5>6, <5>8, ScopeTyped
        <5>10. ASSUME NEW t \in Nat
               PROVE  Refs(f, t) + Occurrences(t, ScopeSlots(TopScope(m)))
                        = Refs(m.heap, t) + Occurrences(t, ScopeSlots(scope))
          <6>1. Occurrences(t, ScopeSlots(scope)) = Occurrences(t, new) + Occurrences(t, top.stack)
            <7>1. PICK stack : stack = top.stack
              OBVIOUS
            <7>2. stack \in Seq(Nat) /\ new \in Seq(Nat \cup {DeadThing})
              BY <2>3, <5>6, <7>1
            <7>3. Occurrences(t, ScopeSlots(Scope(new, stack))) = Occurrences(t, new) + Occurrences(t, stack)
              BY <7>2, ScopeCount
            <7> QED BY <5>8, <7>1, <7>3
          <6>2. Occurrences(t, ScopeSlots(top)) = Occurrences(t, top.variables) + Occurrences(t, top.stack)
            BY <2>2, ScopeSlotsTyped
          <6>3. /\ Occurrences(t, top.variables) \in Nat /\ Occurrences(t, top.stack) \in Nat
            BY <2>2, ScopeSlotsTyped
          <6>4. Occurrences(t, new) \in Nat
            BY <5>6, SequenceFinite, OccurrencesCount DEF IsSequence
          <6>5. Refs(f, t) = Refs(g, t) + Bit(id = t)
            <7>1. Bit(t = id) = Bit(id = t)
              BY DEF Bit
            <7> QED BY <5>7, <7>1
          <6>6. Refs(m.heap, t) = Refs(g, t) + Bit(old = t)
            BY <3>8
          <6>7. Refs(g, t) \in Nat /\ Bit(id = t) \in Nat /\ Bit(old = t) \in Nat
            BY <3>8, RefsTyped DEF Bit
          <6>8. Occurrences(t, new) + Bit(old = t) = Occurrences(t, top.variables) + Bit(id = t)
            BY <5>6
          <6> HIDE DEF top
          <6>9. Refs(f, t) + Occurrences(t, ScopeSlots(top)) = Refs(m.heap, t) + Occurrences(t, ScopeSlots(scope))
            BY <6>1, <6>2, <6>3, <6>4, <6>5, <6>6, <6>7, <6>8
          <6> QED BY <6>9 DEF top
        <5>11. m.stray = FALSE =>
                 /\ Kept(m.heap, f)
                 /\ \A t \in Nat : Refs(f, t) + Occurrences(t, ScopeSlots(TopScope(m)))
                                     = Refs(m.heap, t) + Occurrences(t, ScopeSlots(scope))
          BY <3>8, <5>7, <5>10, KeptFurther
        <5>12. InCall(WithTop(m, f, scope), K, h)
          BY <1>2, <5>7, <5>9, <5>11, TopChanged
        <5> QED BY <5>4, <5>8, <5>12
      <4> QED BY <4>2, <4>3
    <3> QED BY <3>6, <3>7, <3>8
  <2> QED BY <2>4, <2>5, <2>6
<1> QED BY <1>1, <1>2
-----------------------------------------------------------------------------
\* Place k of the globals holds thing t, and is known to.
WrittenAt(globals, k, t) ==
  Bit(k \in DOMAIN Written(globals) /\ Written(globals)[k] = t)

GlobalOf(id) == [thing |-> id, written |-> TRUE]

IsWritten(globals, k, id, new) ==
  /\ TypedGlobals(new)
  /\ \A t : Occurrences(t, Written(new)) + WrittenAt(globals, k, t)
              = Occurrences(t, Written(globals)) + Same(id, t)

LEMMA GlobalWritten ==
  ASSUME NEW globals, TypedGlobals(globals), NEW k \in DOMAIN globals, NEW id \in Nat,
         NEW new, new = [globals EXCEPT ![k] = GlobalOf(id)]
  PROVE  IsWritten(globals, k, id, new)
<1>1. IsSequence(new) /\ DOMAIN new = DOMAIN globals
  BY ChangedSequence DEF TypedGlobals
<1>2. GlobalOf(id).thing = id /\ GlobalOf(id).written = TRUE
  BY DEF GlobalOf
<1>3. \A j \in DOMAIN globals : new[j] = IF j = k THEN GlobalOf(id) ELSE globals[j]
  OBVIOUS
<1>4. TypedGlobals(new)
  BY <1>1, <1>2, <1>3 DEF TypedGlobals
<1>5. /\ \A j : j \in DOMAIN Written(new) <=> j = k \/ j \in DOMAIN Written(globals)
      /\ Written(new)[k] = id
      /\ \A j \in DOMAIN Written(globals) : j # k => Written(new)[j] = Written(globals)[j]
  BY <1>1, <1>2, <1>3 DEF Written
<1>6. ASSUME NEW t
      PROVE  Occurrences(t, Written(new)) + WrittenAt(globals, k, t)
               = Occurrences(t, Written(globals)) + Same(id, t)
  <2>1. PICK w : w = Written(globals)
    OBVIOUS
  <2>2. PICK v : v = Written(new)
    OBVIOUS
  <2>3. IsFiniteSet(DOMAIN w)
    BY <2>1, WrittenTyped
  <2>4. \A j : j # k => (j \in DOMAIN v /\ v[j] = t <=> j \in DOMAIN w /\ w[j] = t)
    BY <1>5, <2>1, <2>2
  <2>5. Occurrences(t, v) + Bit(k \in DOMAIN w /\ w[k] = t) = Occurrences(t, w) + Bit(k \in DOMAIN v /\ v[k] = t)
    BY <2>3, <2>4, PlaceChanged
  <2>6. k \in DOMAIN v /\ v[k] = id
    BY <1>5, <2>2
  <2>7. Bit(k \in DOMAIN v /\ v[k] = t) = Same(id, t)
    BY <2>6 DEF Bit, Same
  <2>8. Bit(k \in DOMAIN w /\ w[k] = t) = WrittenAt(globals, k, t)
    BY <2>1 DEF WrittenAt
  <2> QED BY <2>1, <2>2, <2>5, <2>7, <2>8
<1> QED BY <1>4, <1>6 DEF IsWritten

\* The globals change, and with them what is referenced.
WithGlobals(m, g, gs, mark) ==
  [heap |-> g, globals |-> gs, executor |-> m.executor, stray |-> mark,
   fault |-> m.fault]

LEMMA GlobalsRecounted ==
  ASSUME NEW m, NEW K \in [Nat -> Nat], NEW h, InCall(m, K, h), m.fault = NoFault,
         NEW g, TypedHeap(g), NEW globals, TypedGlobals(globals), NEW mark \in BOOLEAN,
         mark = FALSE =>
           /\ m.stray = FALSE
           /\ Kept(m.heap, g)
           /\ \A t \in Nat : Refs(g, t) + Occurrences(t, Written(m.globals))
                               = Refs(m.heap, t) + Occurrences(t, Written(globals)),
         NEW n, n = WithGlobals(m, g, globals, mark)
  PROVE  InCall(n, K, h)
<1>1. /\ IsMachine(n) /\ n.fault = m.fault /\ n.heap = g /\ n.globals = globals
      /\ n.executor = m.executor /\ n.stray = mark
  BY DEF WithGlobals, IsMachine
<1>2. /\ TypedExecutor(m.executor) /\ m.executor.scopes # <<>> /\ TypedGlobals(m.globals)
      /\ TypedHeap(m.heap)
  BY DEF InCall, Good, Typed
<1>3. Typed(n)
  BY <1>1, <1>2 DEF Typed
<1>4. ASSUME n.stray = FALSE PROVE Counts(n, K) /\ Kept(h, n.heap)
  <2>1. Counts(m, K) /\ Kept(h, m.heap) /\ Kept(m.heap, g)
    BY <1>1, <1>4 DEF InCall, Good
  <2>2. Kept(h, n.heap)
    BY <1>1, <2>1, KeptFurther
  <2>3. ASSUME NEW t \in Nat PROVE Refs(n.heap, t) = Held(n, t) + K[t]
    <3>1. /\ Refs(g, t) \in Nat /\ Refs(m.heap, t) \in Nat /\ K[t] \in Nat
          /\ Occurrences(t, SlotsOf(m.executor)) \in Nat
          /\ Occurrences(t, Written(m.globals)) \in Nat
          /\ Occurrences(t, Written(globals)) \in Nat
      BY <1>1, <1>2, RefsTyped, ArraysTyped, WrittenTyped
    <3>2. Refs(m.heap, t) = Occurrences(t, SlotsOf(m.executor)) + Occurrences(t, Written(m.globals)) + K[t]
      BY <2>1 DEF Counts, Held
    <3>3. Refs(g, t) + Occurrences(t, Written(m.globals)) = Refs(m.heap, t) + Occurrences(t, Written(globals))
      BY <1>1, <1>4
    <3>4. Refs(g, t) = Occurrences(t, SlotsOf(m.executor)) + Occurrences(t, Written(globals)) + K[t]
      BY <3>1, <3>2, <3>3
    <3> QED BY <1>1, <3>4 DEF Held
  <2> QED BY <2>2, <2>3 DEF Counts
<1>5. /\ n.fault = NoFault /\ n.fault # "count is positive" /\ n.executor.scopes # <<>>
  BY <1>1, <1>2 DEF NoFault
<1>6. Good(n, K, h)
  BY <1>3, <1>4, <1>5 DEF Good
<1>7. InCall(n, K, h)
  BY <1>5, <1>6 DEF InCall
<1> QED BY <1>7

\* What StoreGlobal adds once the old thing is released.
Marked(m, mark) == [m EXCEPT !.stray = mark]

LEMMA MarkSet ==
  ASSUME NEW m, Typed(m), NEW mark \in BOOLEAN, NEW n, n = Marked(m, mark)
  PROVE  /\ Typed(n) /\ n.heap = m.heap /\ n.globals = m.globals /\ n.executor = m.executor
         /\ n.stray = mark /\ n.fault = m.fault
<1>1. /\ n = [heap |-> n.heap, globals |-> n.globals, executor |-> n.executor, stray |-> n.stray,
              fault |-> n.fault]
      /\ n.heap = m.heap /\ n.globals = m.globals /\ n.executor = m.executor
      /\ n.stray = mark /\ n.fault = m.fault
  BY DEF Marked, Typed, IsMachine
<1> QED BY <1>1 DEF Typed, IsMachine

WithHeapGlobals(m, g, k, new) == [m EXCEPT !.heap = g, !.globals[k] = new]

LEMMA HeapGlobalsSet ==
  ASSUME NEW m, Typed(m), NEW g, NEW k, NEW new, NEW n, n = WithHeapGlobals(m, g, k, new),
         NEW globals, globals = [m.globals EXCEPT ![k] = new]
  PROVE  n = WithGlobals(m, g, globals, m.stray)
<1> DEFINE first == [m EXCEPT !.heap = g]
<1>1. n = [first EXCEPT !.globals = globals]
  BY DEF WithHeapGlobals, Typed, IsMachine
<1>2. first = [heap |-> g, globals |-> m.globals, executor |-> m.executor, stray |-> m.stray,
               fault |-> m.fault]
  BY DEF Typed, IsMachine
<1> HIDE DEF first
<1> QED BY <1>1, <1>2 DEF WithGlobals

\* StoreGlobal without the two assertions.
ReleasedGlobal(m, old) ==
  IF old.thing = DeadThing THEN m
  ELSE UnreferenceThing([m EXCEPT !.stray = @ \/ (~old.written /\ old.thing # DeadThing)], old.thing)

\* The ways a store to a global ends, r being the machine once the old value is
\* released.
GlobalStored(m, r, n, index, id) ==
  \/ ~IsBelow(index, Len(m.globals)) /\ n = Fail(m, "index is below the count")
  \/ IsBelow(index, Len(m.globals)) /\ r.fault # NoFault /\ n = r
  \/ /\ IsBelow(index, Len(m.globals)) /\ r.fault = NoFault /\ id \notin LiveThings(r.heap)
     /\ n = Fail(r, "thing is live")
  \/ /\ IsBelow(index, Len(m.globals)) /\ r.fault = NoFault /\ id \in LiveThings(r.heap)
     /\ n = WithHeapGlobals(r, Reference(r.heap, id), index + 1, GlobalOf(id))

LEMMA StoreGlobalCases ==
  ASSUME NEW m, Typed(m), m.fault = NoFault, NEW index \in Nat, NEW id,
         NEW r, r = ReleasedGlobal(m, m.globals[index + 1])
  PROVE  GlobalStored(m, r, StoreGlobal(m, index, id), index, id)
<1>1. StoreGlobal(m, index, id) =
        Require(m, IsBelow(index, Len(m.globals)), "index is below the count",
        Require(r, id \in LiveThings(r.heap), "thing is live",
          WithHeapGlobals(r, Reference(r.heap, id), index + 1, GlobalOf(id))))
  BY DEF StoreGlobal, ReleasedGlobal, WithHeapGlobals, GlobalOf
<1> QED BY <1>1 DEF Require, GlobalStored

\* Whether the global was known to hold a thing, and which.
IsReleased(m, r, k, K, h) ==
  \/ InCall(r, K, h) /\ r.fault # NoFault
  \/ /\ Typed(r) /\ TypedHeap(r.heap) /\ r.fault = NoFault
     /\ r.globals = m.globals /\ r.executor = m.executor
     /\ r.stray = FALSE =>
          /\ m.stray = FALSE
          /\ Kept(m.heap, r.heap)
          /\ \A t \in Nat : Refs(m.heap, t) = Refs(r.heap, t) + WrittenAt(m.globals, k, t)

LEMMA ReleasedGlobalCases ==
  ASSUME NEW m, NEW K \in [Nat -> Nat], NEW h, InCall(m, K, h), m.fault = NoFault,
         NEW k \in DOMAIN m.globals, NEW r, r = ReleasedGlobal(m, m.globals[k])
  PROVE  IsReleased(m, r, k, K, h)
<1> SUFFICES \/ InCall(r, K, h) /\ r.fault # NoFault
             \/ /\ Typed(r) /\ TypedHeap(r.heap) /\ r.fault = NoFault
                /\ r.globals = m.globals /\ r.executor = m.executor
                /\ r.stray = FALSE =>
                     /\ m.stray = FALSE
                     /\ Kept(m.heap, r.heap)
                     /\ \A t \in Nat : Refs(m.heap, t) = Refs(r.heap, t) + WrittenAt(m.globals, k, t)
  BY DEF IsReleased
<1>1. PICK old : old = m.globals[k]
  OBVIOUS
<1>2. /\ Typed(m) /\ IsMachine(m) /\ TypedHeap(m.heap) /\ TypedGlobals(m.globals)
      /\ TypedExecutor(m.executor) /\ m.stray \in BOOLEAN
  BY DEF InCall, Good, Typed
<1>3. old.written \in BOOLEAN /\ (old.written = TRUE => old.thing \in Nat)
  BY <1>1, <1>2 DEF TypedGlobals
<1>4. PICK mark : mark = (m.stray \/ (~old.written /\ old.thing # DeadThing))
  OBVIOUS
<1>5. /\ mark \in BOOLEAN
      /\ mark = FALSE => m.stray = FALSE /\ (old.written = TRUE \/ old.thing = DeadThing)
  BY <1>2, <1>3, <1>4
<1>6. ASSUME NEW t \in Nat
      PROVE  WrittenAt(m.globals, k, t) = IF old.written = TRUE THEN Same(old.thing, t) ELSE 0
  BY <1>1, <1>3 DEF WrittenAt, Written, Bit, Same
<1>7. CASE old.thing = DeadThing
  <2>1. r = m
    BY <1>1, <1>7 DEF ReleasedGlobal
  <2>2. old.written # TRUE
    <3>1. DeadThing \notin Nat
      BY DEF DeadThing
    <3> QED BY <1>3, <1>7, <3>1
  <2>3. ASSUME NEW t \in Nat PROVE Refs(m.heap, t) = Refs(m.heap, t) + WrittenAt(m.globals, k, t)
    BY <1>2, <1>6, <2>2, RefsTyped
  <2>4. Kept(m.heap, m.heap)
    BY DEF Kept
  <2> QED BY <1>2, <2>1, <2>3, <2>4
<1>8. CASE old.thing # DeadThing
  <2>1. PICK n : n = Marked(m, mark)
    OBVIOUS
  <2>2. r = UnreferenceThing(n, old.thing)
    BY <1>1, <1>2, <1>4, <1>8, <2>1 DEF ReleasedGlobal, Marked, IsMachine
  <2>3. /\ Typed(n) /\ n.heap = m.heap /\ n.globals = m.globals /\ n.executor = m.executor
        /\ n.stray = mark /\ n.fault = NoFault
    BY <1>2, <1>5, <2>1, MarkSet
  <2>4. PICK id : id = old.thing
    OBVIOUS
  <2>5. mark = FALSE => id \in LiveThings(m.heap) /\ Thing(m.heap, id).references > 0
    <3> SUFFICES ASSUME mark = FALSE
                 PROVE  id \in LiveThings(m.heap) /\ Thing(m.heap, id).references > 0
      OBVIOUS
    <3>1. m.stray = FALSE /\ old.written = TRUE /\ id \in Nat
      BY <1>3, <1>5, <1>8, <2>4
    <3>2. Refs(m.heap, id) = Occurrences(id, SlotsOf(m.executor)) + Occurrences(id, Written(m.globals)) + K[id]
      BY <3>1 DEF InCall, Good, Counts, Held
    <3>3. /\ Refs(m.heap, id) \in Nat /\ K[id] \in Nat
          /\ Occurrences(id, SlotsOf(m.executor)) \in Nat
          /\ Occurrences(id, Written(m.globals)) \in Nat
      BY <1>2, <3>1, RefsTyped, ArraysTyped, WrittenTyped
    <3>4. Occurrences(id, Written(m.globals)) # 0
      <4>1. k \in DOMAIN Written(m.globals) /\ Written(m.globals)[k] = id
        BY <1>1, <2>4, <3>1 DEF Written
      <4> QED BY <1>2, <4>1, WrittenTyped, OccurrencesCount
    <3>5. Refs(m.heap, id) > 0
      BY <3>2, <3>3, <3>4
    <3> QED BY <3>5 DEF Refs
  <2>6. r = UnreferenceThing(n, id)
    BY <2>2, <2>4
  <2>7. CASE id \notin LiveThings(m.heap) /\ r = Fail(n, "thing is live")
    <3>1. InCall(Fail(n, "thing is live"), K, h)
      BY <2>3, FailGood DEF NoFault
    <3>2. Fail(n, "thing is live").fault = "thing is live"
      <4>1. IsMachine(n)
        BY <2>3 DEF Typed
      <4> QED BY <4>1, FailFields
    <3> QED BY <2>7, <3>1, <3>2 DEF NoFault
  <2>8. CASE /\ id \in LiveThings(m.heap) /\ ~(Thing(m.heap, id).references > 0)
             /\ r = Fail(n, "count is positive")
    <3>1. n.stray = TRUE
      BY <1>5, <2>3, <2>5, <2>8
    <3>2. InCall(Fail(n, "count is positive"), K, h)
      BY <2>3, <3>1, FailGood DEF NoFault
    <3>3. Fail(n, "count is positive").fault = "count is positive"
      <4>1. IsMachine(n)
        BY <2>3 DEF Typed
      <4> QED BY <4>1, FailFields
    <3> QED BY <2>8, <3>2, <3>3 DEF NoFault
  <2>9. CASE /\ id \in LiveThings(m.heap) /\ Thing(m.heap, id).references > 0
             /\ r = [n EXCEPT !.heap = Unreference(n.heap, id)]
    <3>1. PICK g : g = Unreference(m.heap, id)
      OBVIOUS
    <3>2. /\ TypedHeap(g) /\ LiveThings(g) = LiveThings(m.heap) /\ Kept(m.heap, g)
          /\ \A t : Refs(m.heap, t) = Refs(g, t) + Bit(t = id)
      BY <1>2, <2>9, <3>1, Unreferenced
    <3>3. r = [n EXCEPT !.heap = g]
      BY <2>3, <2>9, <3>1
    <3>4. /\ Typed(r) /\ r.heap = g /\ r.globals = m.globals /\ r.executor = m.executor
          /\ r.stray = mark /\ r.fault = NoFault
      BY <2>3, <3>2, <3>3, HeapSet
    <3>5. ASSUME mark = FALSE, NEW t \in Nat
          PROVE  Refs(m.heap, t) = Refs(r.heap, t) + WrittenAt(m.globals, k, t)
      <4>1. old.written = TRUE
        BY <1>5, <1>8, <3>5
      <4>2. WrittenAt(m.globals, k, t) = Bit(t = id)
        BY <1>6, <2>4, <4>1 DEF Same, Bit
      <4> QED BY <3>2, <3>4, <4>2
    <3>6. r.stray = FALSE =>
            /\ m.stray = FALSE
            /\ Kept(m.heap, r.heap)
            /\ \A t \in Nat : Refs(m.heap, t) = Refs(r.heap, t) + WrittenAt(m.globals, k, t)
      BY <1>5, <3>2, <3>4, <3>5
    <3> QED BY <3>2, <3>4, <3>6
  <2> QED BY <2>3, <2>6, <2>7, <2>8, <2>9, UnreferenceCases
<1> QED BY <1>7, <1>8

LEMMA StoreGlobalCounts ==
  ASSUME NEW m, NEW K \in [Nat -> Nat], NEW h, InCall(m, K, h), NEW index \in Nat, NEW id
  PROVE  InCall(StoreGlobal(m, index, id), K, h)
<1>1. CASE m.fault # NoFault
  BY <1>1 DEF StoreGlobal, Require
<1>2. CASE m.fault = NoFault
  <2>1. Typed(m) /\ TypedGlobals(m.globals) /\ m.executor.scopes # <<>>
    BY <1>2 DEF InCall, Good, Typed
  <2>2. PICK k : k = index + 1
    OBVIOUS
  <2>3. PICK r : r = ReleasedGlobal(m, m.globals[k])
    OBVIOUS
  <2>4. PICK n : n = StoreGlobal(m, index, id)
    OBVIOUS
  <2>5. IsBelow(index, Len(m.globals)) => k \in DOMAIN m.globals
    <3>1. IsSequence(m.globals)
      BY <2>1 DEF TypedGlobals
    <3>2. Len(m.globals) \in Nat /\ DOMAIN m.globals = 1..Len(m.globals)
      BY <3>1, SequenceLength
    <3>3. PICK count : count = Len(m.globals)
      OBVIOUS
    <3>4. index \in 0..(count - 1) => index + 1 \in 1..count
      BY <3>2, <3>3
    <3> QED BY <2>2, <3>2, <3>3, <3>4 DEF IsBelow
  <2>6. \/ /\ ~IsBelow(index, Len(m.globals)) /\ n = Fail(m, "index is below the count")
        \/ k \in DOMAIN m.globals /\ r.fault # NoFault /\ n = r
        \/ /\ k \in DOMAIN m.globals /\ r.fault = NoFault /\ id \notin LiveThings(r.heap)
           /\ n = Fail(r, "thing is live")
        \/ /\ k \in DOMAIN m.globals /\ r.fault = NoFault /\ id \in LiveThings(r.heap)
           /\ n = WithHeapGlobals(r, Reference(r.heap, id), k, GlobalOf(id))
    <3>1. r = ReleasedGlobal(m, m.globals[index + 1])
      BY <2>2, <2>3
    <3>2. Typed(m)
      BY <2>1
    <3>3. GlobalStored(m, r, StoreGlobal(m, index, id), index, id)
      BY ONLY <1>2, <3>1, <3>2, index \in Nat, StoreGlobalCases
    <3> QED BY <2>2, <2>4, <2>5, <3>3 DEF GlobalStored
  <2>7. CASE n = Fail(m, "index is below the count")
    <3>1. InCall(Fail(m, "index is below the count"), K, h)
      BY <2>1, FailGood DEF NoFault
    <3> QED BY <2>4, <2>7, <3>1
  <2>8. ASSUME k \in DOMAIN m.globals
        PROVE  \/ InCall(r, K, h) /\ r.fault # NoFault
               \/ /\ Typed(r) /\ TypedHeap(r.heap) /\ r.fault = NoFault
                  /\ r.globals = m.globals /\ r.executor = m.executor
                  /\ r.stray = FALSE =>
                       /\ m.stray = FALSE
                       /\ Kept(m.heap, r.heap)
                       /\ \A t \in Nat : Refs(m.heap, t) = Refs(r.heap, t) + WrittenAt(m.globals, k, t)
    <3>1. InCall(m, K, h) /\ m.fault = NoFault
      BY <1>2
    <3>2. IsReleased(m, r, k, K, h)
      BY ONLY <2>3, <2>8, <3>1, K \in [Nat -> Nat], ReleasedGlobalCases
    <3> QED BY <3>2 DEF IsReleased
  <2>9. CASE k \in DOMAIN m.globals /\ r.fault # NoFault /\ n = r
    BY <2>4, <2>8, <2>9
  <2>10. CASE /\ k \in DOMAIN m.globals /\ r.fault = NoFault /\ id \notin LiveThings(r.heap)
              /\ n = Fail(r, "thing is live")
    <3>1. InCall(Fail(r, "thing is live"), K, h)
      BY <2>8, <2>10, FailGood DEF NoFault
    <3> QED BY <2>4, <2>10, <3>1
  <2>11. CASE /\ k \in DOMAIN m.globals /\ r.fault = NoFault /\ id \in LiveThings(r.heap)
              /\ n = WithHeapGlobals(r, Reference(r.heap, id), k, GlobalOf(id))
    <3>1. /\ Typed(r) /\ TypedHeap(r.heap) /\ r.fault = NoFault
          /\ r.globals = m.globals /\ r.executor = m.executor
          /\ r.stray = FALSE =>
               /\ m.stray = FALSE
               /\ Kept(m.heap, r.heap)
               /\ \A t \in Nat : Refs(m.heap, t) = Refs(r.heap, t) + WrittenAt(m.globals, k, t)
      BY <2>8, <2>11
    <3>2. PICK f : f = Reference(r.heap, id)
      OBVIOUS
    <3>3. PICK new : new = [m.globals EXCEPT ![k] = GlobalOf(id)]
      OBVIOUS
    <3>4. id \in Nat
      BY <2>11, <3>1, LiveIds DEF TypedHeap
    <3>5. /\ TypedGlobals(new)
          /\ \A t : Occurrences(t, Written(new)) + WrittenAt(m.globals, k, t)
                      = Occurrences(t, Written(m.globals)) + Same(id, t)
      <4>1. TypedGlobals(m.globals)
        BY <2>1
      <4>2. PICK globals : globals = m.globals
        OBVIOUS
      <4>3. TypedGlobals(globals) /\ k \in DOMAIN globals /\ new = [globals EXCEPT ![k] = GlobalOf(id)]
        BY <2>11, <3>3, <4>1, <4>2
      <4>4. IsWritten(globals, k, id, new)
        BY ONLY <3>4, <4>3, GlobalWritten
      <4> QED BY <4>2, <4>4 DEF IsWritten
    <3>6. /\ TypedHeap(f) /\ Kept(r.heap, f)
          /\ \A t : Refs(f, t) = Refs(r.heap, t) + Bit(t = id)
      BY <2>11, <3>1, <3>2, Referenced
    <3>7. PICK mark : mark = r.stray
      OBVIOUS
    <3>8. mark \in BOOLEAN
      BY <3>1, <3>7 DEF Typed
    <3>9. n = WithGlobals(r, f, new, mark)
      <4>1. n = WithHeapGlobals(r, f, k, GlobalOf(id)) /\ new = [r.globals EXCEPT ![k] = GlobalOf(id)]
        BY <2>11, <3>1, <3>2, <3>3
      <4> QED BY <3>1, <3>7, <4>1, HeapGlobalsSet
    <3>10. n = WithGlobals(m, f, new, mark)
      BY <1>2, <3>1, <3>9 DEF WithGlobals
    <3>11. ASSUME mark = FALSE, NEW t \in Nat
           PROVE  Refs(f, t) + Occurrences(t, Written(m.globals))
                    = Refs(m.heap, t) + Occurrences(t, Written(new))
      <4>1. Refs(m.heap, t) = Refs(r.heap, t) + WrittenAt(m.globals, k, t)
        BY <3>1, <3>7, <3>11
      <4>2. /\ Occurrences(t, Written(new)) + WrittenAt(m.globals, k, t)
                = Occurrences(t, Written(m.globals)) + Same(id, t)
        BY <3>5
      <4>3. Refs(f, t) = Refs(r.heap, t) + Same(id, t)
        <5>1. Bit(t = id) = Same(id, t)
          BY DEF Bit, Same
        <5> QED BY <3>6, <5>1
      <4>4. /\ Refs(r.heap, t) \in Nat /\ Occurrences(t, Written(new)) \in Nat
            /\ Occurrences(t, Written(m.globals)) \in Nat /\ Same(id, t) \in Nat
            /\ WrittenAt(m.globals, k, t) \in Nat
        BY <2>1, <3>1, <3>5, RefsTyped, WrittenTyped DEF Same, WrittenAt, Bit
      <4> QED BY <4>1, <4>2, <4>3, <4>4
    <3>12. mark = FALSE =>
             /\ m.stray = FALSE
             /\ Kept(m.heap, f)
             /\ \A t \in Nat : Refs(f, t) + Occurrences(t, Written(m.globals))
                                 = Refs(m.heap, t) + Occurrences(t, Written(new))
      BY <3>1, <3>6, <3>7, <3>11, KeptFurther
    <3>13. InCall(n, K, h)
      BY <1>2, <3>5, <3>6, <3>8, <3>10, <3>12, GlobalsRecounted
    <3> QED BY <2>4, <3>13
  <2> QED BY <2>6, <2>7, <2>9, <2>10, <2>11
<1> QED BY <1>1, <1>2
-----------------------------------------------------------------------------
\* A module whose functions and bytes are typed.
TypedModule(module) ==
  /\ module.code \in Seq(Int)
  /\ IsSequence(module.functions)
  /\ \A f \in DOMAIN module.functions :
       module.functions[f].address \in Nat /\ module.functions[f].paramCount \in Nat

\* Pop changes nothing of the executor but its innermost scope.
LEMMA PopExecutor ==
  ASSUME NEW m, Typed(m), m.fault = NoFault, m.executor.scopes # <<>>, NEW n, n = Pop(m)
  PROVE  /\ n.executor.callStack = m.executor.callStack
         /\ n.executor.running = m.executor.running
         /\ Len(n.executor.scopes) = Len(m.executor.scopes)
<1>1. IsMachine(m) /\ IsSequence(m.executor.scopes)
  BY DEF Typed, TypedExecutor, IsExecutor
<1>2. PICK stack : stack = Front(TopScope(m).stack)
  OBVIOUS
<1>3. PICK shorter : shorter = WithStack(m, m.heap, stack)
  OBVIOUS
<1>4. [m EXCEPT !.executor.scopes[Len(m.executor.scopes)].stack = Front(@)] = shorter
  BY <1>1, <1>2, <1>3 DEF WithStack, TopScope, Last, IsMachine
<1>5. shorter = WithTop(m, m.heap, Scope(TopScope(m).variables, stack))
  BY <1>3, TopRecord
<1>6. PICK scope : scope = Scope(TopScope(m).variables, stack)
  OBVIOUS
<1>7. IsMachine(shorter) /\ shorter.executor = WithScope(m.executor, scope) /\ shorter.fault = NoFault
  BY <1>5, <1>6 DEF WithTop, IsMachine
<1>8. n.executor = m.executor \/ n.executor = shorter.executor
  <2>1. CASE TopScope(m).stack = <<>>
    <3>1. n = Fail(m, "stack is not empty")
      BY <2>1 DEF Pop, Require, NoFault
    <3>2. Fail(m, "stack is not empty").executor = m.executor
      BY <1>1, FailFields
    <3> QED BY <3>1, <3>2
  <2>2. CASE TopScope(m).stack # <<>>
    <3>1. PICK id : id = TopThing(m)
      OBVIOUS
    <3>2. n = UnreferenceThing(shorter, id)
      BY <1>4, <2>2, <3>1 DEF Pop, Require
    <3>3. PICK g : g = Unreference(shorter.heap, id)
      OBVIOUS
    <3>4. \/ n = Fail(shorter, "thing is live") \/ n = Fail(shorter, "count is positive")
          \/ n = [shorter EXCEPT !.heap = g]
      BY <1>7, <3>2, <3>3, UnreferenceCases
    <3>5. /\ Fail(shorter, "thing is live").executor = shorter.executor
          /\ Fail(shorter, "count is positive").executor = shorter.executor
      BY <1>7, FailFields
    <3>6. [shorter EXCEPT !.heap = g].executor = shorter.executor
      BY <1>7 DEF IsMachine
    <3> QED BY <3>4, <3>5, <3>6
  <2> QED BY <2>1, <2>2
<1>9. PICK scopes : scopes = [m.executor.scopes EXCEPT ![Len(m.executor.scopes)] = scope]
  OBVIOUS
<1>10. Len(scopes) = Len(m.executor.scopes)
  BY <1>1, <1>9, ChangedSequence
<1>11. shorter.executor = [running |-> m.executor.running, callStack |-> m.executor.callStack, scopes |-> scopes]
  BY <1>7, <1>9 DEF WithScope
<1> QED BY <1>8, <1>10, <1>11

\* A position and the parameters of a call.
StoredParameters(m, parameters) ==
  [m EXCEPT !.executor.scopes[Len(m.executor.scopes)].variables = parameters]

\* The call that an executor enters, whose parameters it has taken.
IsCallee(m, parameters, n) ==
  /\ Typed(n) /\ n.stray = m.stray /\ n.executor.scopes # <<>>
  /\ \/ n.fault = "executor is running"
     \/ /\ n = WithFrames(m, m.heap, n.executor)
        /\ TypedExecutor(n.executor)
        /\ \A t : Occurrences(t, SlotsOf(n.executor))
                    = Occurrences(t, SlotsOf(m.executor)) + Occurrences(t, parameters)

LEMMA CalleeEntered ==
  ASSUME NEW m, Typed(m), m.fault = NoFault, m.executor.scopes # <<>>, NEW position \in Positions,
         NEW parameters \in Seq(Nat \cup {DeadThing}),
         NEW n, n = StoredParameters(StepIn(m, position), parameters)
  PROVE  IsCallee(m, parameters, n)
<1>1. /\ IsMachine(m) /\ TypedExecutor(m.executor) /\ TypedHeap(m.heap) /\ TypedGlobals(m.globals)
      /\ m.stray \in BOOLEAN /\ m.executor.running \in BOOLEAN
  BY DEF Typed, TypedExecutor, IsExecutor
<1>2. PICK entered : entered = StepIn(m, position)
  OBVIOUS
<1>3. PICK f : f = Entered(m.executor, position, NewScope)
  OBVIOUS
<1>4. entered = IF m.executor.running = TRUE THEN WithFrames(m, m.heap, f)
                ELSE Fail(m, "executor is running")
  BY <1>2, <1>3, StepInRecord
<1>5. /\ TypedExecutor(f) /\ f.scopes # <<>>
      /\ \A t : Occurrences(t, SlotsOf(f))
                  = Occurrences(t, SlotsOf(m.executor)) + Occurrences(t, ScopeSlots(NewScope))
  BY <1>1, <1>3, NewScopeTyped, EnteredTyped
<1>6. Last(f.scopes) = NewScope
  <2>1. f.scopes = Append(m.executor.scopes, NewScope)
    BY <1>3 DEF Entered
  <2>2. PICK S : m.executor.scopes \in Seq(S)
    BY <1>1 DEF TypedExecutor, IsExecutor, IsSequence
  <2>3. m.executor.scopes \in Seq(S \cup {NewScope}) /\ NewScope \in S \cup {NewScope}
    BY <2>2, SeqMonotonic
  <2> HIDE DEF NewScope
  <2> QED BY <2>1, <2>3, AppendProperties DEF Last
<1>7. n = WithVariables(entered, entered.heap, parameters)
  <2>1. IsMachine(entered)
    BY <1>1, <1>4, FailFields DEF WithFrames, IsMachine
  <2>2. entered = [entered EXCEPT !.heap = entered.heap]
    BY <2>1 DEF IsMachine
  <2>3. n = StoredParameters(entered, parameters)
    BY <1>2
  <2> QED BY <2>1, <2>2, <2>3 DEF StoredParameters, WithVariables, IsMachine
<1>8. CASE m.executor.running # TRUE
  <2>1. entered = Fail(m, "executor is running")
    BY <1>4, <1>8
  <2>2. /\ IsMachine(entered) /\ entered.heap = m.heap /\ entered.globals = m.globals
        /\ entered.executor = m.executor /\ entered.stray = m.stray
        /\ entered.fault = "executor is running"
    <3>1. IsMachine(m)
      BY <1>1
    <3> QED BY <2>1, <3>1, FailFields
  <2>3. Typed(entered)
    BY <1>1, <2>2 DEF Typed
  <2>4. PICK scope : scope = Scope(parameters, TopScope(entered).stack)
    OBVIOUS
  <2>5. n = WithTop(entered, entered.heap, scope) /\ TypedScope(TopScope(entered))
    BY <1>7, <2>2, <2>3, <2>4, TopRecord
  <2>6. TypedScope(scope)
    <3>1. PICK stack : stack = TopScope(entered).stack
      OBVIOUS
    <3>2. stack \in Seq(Nat)
      BY <2>5, <3>1 DEF TypedScope
    <3> QED BY <2>4, <3>1, <3>2, ScopeTyped
  <2>7. PICK e : e = WithScope(m.executor, scope)
    OBVIOUS
  <2>8. TypedExecutor(e) /\ e.scopes # <<>>
    BY <1>1, <2>6, <2>7, TopSlots
  <2>9. /\ IsMachine(n) /\ n.heap = m.heap /\ n.globals = m.globals /\ n.executor = e
        /\ n.stray = m.stray /\ n.fault = "executor is running"
    <3>1. /\ IsMachine(n) /\ n.heap = entered.heap /\ n.globals = entered.globals
          /\ n.executor = WithScope(entered.executor, scope)
          /\ n.stray = entered.stray /\ n.fault = entered.fault
      BY <2>5 DEF WithTop, IsMachine
    <3> QED BY <2>2, <2>7, <3>1
  <2> QED BY <1>1, <2>8, <2>9 DEF Typed, IsCallee
<1>9. CASE m.executor.running = TRUE
  <2>1. entered = WithFrames(m, m.heap, f)
    BY <1>4, <1>9
  <2>2. /\ IsMachine(entered) /\ entered.heap = m.heap /\ entered.globals = m.globals
        /\ entered.executor = f /\ entered.stray = m.stray /\ entered.fault = NoFault
    BY <2>1 DEF WithFrames, IsMachine
  <2>3. Typed(entered)
    BY <1>1, <1>5, <2>2 DEF Typed
  <2>4. TopScope(entered) = NewScope
    BY <1>6, <2>2 DEF TopScope
  <2>5. NewScope.stack = <<>>
    BY DEF NewScope
  <2>6. n = WithTop(entered, entered.heap, Scope(parameters, <<>>))
    BY <1>5, <1>7, <2>2, <2>3, <2>4, <2>5, TopRecord
  <2>7. PICK stack : stack = <<>>
    OBVIOUS
  <2>8. stack \in Seq(Nat)
    BY <2>7
  <2>9. PICK scope : scope = Scope(parameters, stack)
    OBVIOUS
  <2>10. TypedScope(scope)
    BY <2>8, <2>9, ScopeTyped
  <2>11. ASSUME NEW t PROVE Occurrences(t, ScopeSlots(scope)) = Occurrences(t, parameters)
    <3>1. Occurrences(t, ScopeSlots(scope)) = Occurrences(t, parameters) + Occurrences(t, stack)
      BY <2>8, <2>9, ScopeCount
    <3>2. Occurrences(t, stack) = 0
      <4>1. IsFiniteSet(DOMAIN stack)
        BY <2>8, SequenceFinite DEF IsSequence
      <4>2. DOMAIN stack = {}
        BY <2>7
      <4> QED BY <4>1, <4>2, OccurrencesCount
    <3>3. Occurrences(t, parameters) \in Nat
      BY SequenceFinite, OccurrencesCount DEF IsSequence
    <3> QED BY <3>1, <3>2, <3>3
  <2>12. PICK e : e = WithScope(f, scope)
    OBVIOUS
  <2>13. /\ TypedExecutor(e) /\ e.scopes # <<>>
         /\ \A t : Occurrences(t, SlotsOf(e)) + Occurrences(t, ScopeSlots(Last(f.scopes)))
                     = Occurrences(t, SlotsOf(f)) + Occurrences(t, ScopeSlots(scope))
    BY <1>5, <2>10, <2>12, TopSlots
  <2>14. n = WithTop(entered, entered.heap, scope)
    BY <2>6, <2>7, <2>9
  <2>15. /\ IsMachine(n) /\ n.heap = m.heap /\ n.globals = m.globals /\ n.executor = e
         /\ n.stray = m.stray /\ n.fault = NoFault
    BY <2>2, <2>12, <2>14 DEF WithTop, IsMachine
  <2>16. Typed(n)
    BY <1>1, <2>13, <2>15 DEF Typed
  <2>17. n = WithFrames(m, m.heap, n.executor)
    BY <2>15 DEF WithFrames, IsMachine
  <2>18. ASSUME NEW t
         PROVE  Occurrences(t, SlotsOf(e)) = Occurrences(t, SlotsOf(m.executor)) + Occurrences(t, parameters)
    <3>1. Occurrences(t, ScopeSlots(NewScope)) = 0
      BY NewScopeTyped
    <3>2. /\ Occurrences(t, SlotsOf(e)) \in Nat /\ Occurrences(t, SlotsOf(f)) \in Nat
          /\ Occurrences(t, SlotsOf(m.executor)) \in Nat /\ Occurrences(t, parameters) \in Nat
      BY <1>1, <1>5, <2>13, ArraysTyped, SequenceFinite, OccurrencesCount DEF IsSequence
    <3>3. Occurrences(t, SlotsOf(e)) + Occurrences(t, ScopeSlots(NewScope))
            = Occurrences(t, SlotsOf(f)) + Occurrences(t, parameters)
      BY <1>6, <2>11, <2>13
    <3>4. Occurrences(t, SlotsOf(f))
            = Occurrences(t, SlotsOf(m.executor)) + Occurrences(t, ScopeSlots(NewScope))
      BY <1>5
    <3> QED BY <3>1, <3>2, <3>3, <3>4
  <2> QED BY <2>13, <2>15, <2>16, <2>17, <2>18 DEF IsCallee
<1> QED BY <1>1, <1>8, <1>9
-----------------------------------------------------------------------------
\* The stack of the caller keeps the slots that are not parameters.
CutStack(m, kept) == [m EXCEPT !.executor.scopes[Len(m.executor.scopes)].stack = SubSeq(@, 1, kept)]

IsCut(m, parameters, n) ==
  /\ Typed(n) /\ n.heap = m.heap /\ n.globals = m.globals /\ n.stray = m.stray
  /\ n.fault = m.fault /\ n.executor.scopes # <<>>
  /\ parameters \in Seq(Nat)
  /\ \A t : /\ Occurrences(t, parameters) <= Occurrences(t, SlotsOf(m.executor))
            /\ Occurrences(t, SlotsOf(m.executor))
                 = Occurrences(t, SlotsOf(n.executor)) + Occurrences(t, parameters)

LEMMA StackCut ==
  ASSUME NEW m, Typed(m), m.executor.scopes # <<>>,
         NEW stack, stack = TopScope(m).stack, NEW kept \in 0..Len(stack),
         NEW parameters, parameters = SubSeq(stack, kept + 1, Len(stack)),
         NEW n, n = CutStack(m, kept)
  PROVE  IsCut(m, parameters, n)
<1>1. /\ IsMachine(m) /\ TypedExecutor(m.executor) /\ TypedHeap(m.heap) /\ TypedGlobals(m.globals)
      /\ m.stray \in BOOLEAN
  BY DEF Typed
<1>2. PICK variables : variables = TopScope(m).variables
  OBVIOUS
<1>3. TypedScope(TopScope(m)) /\ variables \in Seq(Nat \cup {DeadThing}) /\ stack \in Seq(Nat)
  BY <1>1, <1>2, TopRecord DEF TypedScope
<1>4. PICK rest : rest = SubSeq(stack, 1, kept)
  OBVIOUS
<1>5. /\ rest \in Seq(Nat) /\ parameters \in Seq(Nat)
      /\ \A t : Occurrences(t, stack) = Occurrences(t, rest) + Occurrences(t, parameters)
  BY <1>3, <1>4, OccurrencesCut
<1>6. PICK scope : scope = Scope(variables, rest)
  OBVIOUS
<1>7. TypedScope(scope)
  BY <1>3, <1>5, <1>6, ScopeTyped
<1>8. n = WithTop(m, m.heap, scope)
  <2>1. n = WithStack(m, m.heap, rest)
    BY <1>1, <1>4 DEF CutStack, WithStack, TopScope, Last, IsMachine
  <2> QED BY <1>2, <1>6, <2>1, TopRecord
<1>9. PICK e : e = WithScope(m.executor, scope)
  OBVIOUS
<1>10. /\ TypedExecutor(e) /\ e.scopes # <<>>
       /\ \A t : Occurrences(t, SlotsOf(e)) + Occurrences(t, ScopeSlots(Last(m.executor.scopes)))
                   = Occurrences(t, SlotsOf(m.executor)) + Occurrences(t, ScopeSlots(scope))
  BY <1>1, <1>7, <1>9, TopSlots
<1>11. /\ IsMachine(n) /\ n.heap = m.heap /\ n.globals = m.globals /\ n.stray = m.stray
       /\ n.fault = m.fault /\ n.executor = e
  BY <1>8, <1>9 DEF WithTop, IsMachine
<1>12. Typed(n)
  BY <1>1, <1>10, <1>11 DEF Typed
<1>13. ASSUME NEW t
       PROVE  /\ Occurrences(t, parameters) <= Occurrences(t, SlotsOf(m.executor))
              /\ Occurrences(t, SlotsOf(m.executor))
                   = Occurrences(t, SlotsOf(e)) + Occurrences(t, parameters)
  <2>1. Occurrences(t, ScopeSlots(scope)) = Occurrences(t, variables) + Occurrences(t, rest)
    BY <1>3, <1>5, <1>6, ScopeCount
  <2>2. Occurrences(t, ScopeSlots(TopScope(m))) = Occurrences(t, variables) + Occurrences(t, stack)
    BY <1>2, <1>3, ScopeSlotsTyped
  <2>3. /\ Occurrences(t, SlotsOf(e)) \in Nat /\ Occurrences(t, SlotsOf(m.executor)) \in Nat
        /\ Occurrences(t, variables) \in Nat
    BY <1>1, <1>2, <1>3, <1>10, ArraysTyped, ScopeSlotsTyped
  <2>4. Occurrences(t, rest) \in Nat /\ Occurrences(t, parameters) \in Nat
    BY <1>5, SequenceFinite, OccurrencesCount DEF IsSequence
  <2>5. Occurrences(t, stack) = Occurrences(t, rest) + Occurrences(t, parameters)
    BY <1>5
  <2>6. Occurrences(t, SlotsOf(e)) + Occurrences(t, ScopeSlots(TopScope(m)))
                   = Occurrences(t, SlotsOf(m.executor)) + Occurrences(t, ScopeSlots(scope))
    BY <1>10 DEF TopScope
  <2>7. Occurrences(t, SlotsOf(m.executor)) = Occurrences(t, SlotsOf(e)) + Occurrences(t, parameters)
    <3>1. PICK x : x = Occurrences(t, SlotsOf(m.executor))
      OBVIOUS
    <3>2. PICK y : y = Occurrences(t, SlotsOf(e))
      OBVIOUS
    <3>3. PICK v : v = Occurrences(t, variables)
      OBVIOUS
    <3>4. PICK r : r = Occurrences(t, rest)
      OBVIOUS
    <3>5. PICK q : q = Occurrences(t, parameters)
      OBVIOUS
    <3>6. x \in Nat /\ y \in Nat /\ v \in Nat /\ r \in Nat /\ q \in Nat
      BY <2>3, <2>4, <3>1, <3>2, <3>3, <3>4, <3>5
    <3>7. y + (v + (r + q)) = x + (v + r)
      BY <2>1, <2>2, <2>5, <2>6, <3>1, <3>2, <3>3, <3>4, <3>5
    <3>8. x = y + q
      BY <3>6, <3>7
    <3> QED BY <3>1, <3>2, <3>5, <3>8
  <2> QED BY <2>3, <2>4, <2>7
<1> QED BY <1>5, <1>10, <1>11, <1>12, <1>13 DEF IsCut

\* CALL, past its assertions: the parameters move from the stack of the caller
\* to the variables of the callee.
LEMMA ParametersMoved ==
  ASSUME NEW m, NEW K \in [Nat -> Nat], NEW h, InCall(m, K, h), m.fault = NoFault,
         NEW stack, stack = TopScope(m).stack, NEW kept \in 0..Len(stack),
         NEW parameters, parameters = SubSeq(stack, kept + 1, Len(stack)),
         NEW position \in Positions,
         NEW n, n = StoredParameters(StepIn(CutStack(m, kept), position), parameters)
  PROVE  InCall(n, K, h)
<1>1. Typed(m) /\ m.executor.scopes # <<>> /\ TypedHeap(m.heap) /\ TypedExecutor(m.executor)
  BY DEF InCall, Good, Typed
<1>2. PICK cut : cut = CutStack(m, kept)
  OBVIOUS
<1>3. /\ Typed(cut) /\ cut.heap = m.heap /\ cut.globals = m.globals /\ cut.stray = m.stray
      /\ cut.fault = NoFault /\ cut.executor.scopes # <<>>
      /\ parameters \in Seq(Nat)
      /\ \A t : Occurrences(t, SlotsOf(m.executor))
                  = Occurrences(t, SlotsOf(cut.executor)) + Occurrences(t, parameters)
  <2>1. IsCut(m, parameters, cut)
    BY <1>1, <1>2, StackCut
  <2> QED BY <2>1 DEF IsCut
<1>4. parameters \in Seq(Nat \cup {DeadThing})
  BY <1>3, SeqMonotonic
<1>5. n = StoredParameters(StepIn(cut, position), parameters)
  BY <1>2
<1>6. /\ Typed(n) /\ n.stray = cut.stray /\ n.executor.scopes # <<>>
      /\ \/ n.fault = "executor is running"
         \/ /\ n = WithFrames(cut, cut.heap, n.executor)
            /\ TypedExecutor(n.executor)
            /\ \A t : Occurrences(t, SlotsOf(n.executor))
                        = Occurrences(t, SlotsOf(cut.executor)) + Occurrences(t, parameters)
  <2>1. IsCallee(cut, parameters, n)
    BY <1>3, <1>4, <1>5, CalleeEntered
  <2> QED BY <2>1 DEF IsCallee
<1>7. CASE n.fault = "executor is running"
  <2>1. n.fault # NoFault /\ n.fault # "count is positive"
    BY <1>7 DEF NoFault
  <2> QED BY <1>6, <2>1, Stopped DEF InCall
<1>8. CASE /\ n = WithFrames(cut, cut.heap, n.executor)
           /\ TypedExecutor(n.executor)
           /\ \A t : Occurrences(t, SlotsOf(n.executor))
                       = Occurrences(t, SlotsOf(cut.executor)) + Occurrences(t, parameters)
  <2>1. PICK e : e = n.executor
    OBVIOUS
  <2>2. n = WithFrames(m, m.heap, e)
    BY <1>3, <1>8, <2>1 DEF WithFrames
  <2>3. ASSUME NEW t \in Nat
        PROVE  Refs(m.heap, t) + Occurrences(t, SlotsOf(m.executor))
                 = Refs(m.heap, t) + Occurrences(t, SlotsOf(e))
    <3>1. Occurrences(t, SlotsOf(m.executor)) = Occurrences(t, SlotsOf(e))
      BY <1>3, <1>8, <2>1
    <3> QED BY <3>1
  <2>4. m.stray = FALSE =>
          /\ Kept(m.heap, m.heap)
          /\ \A t \in Nat : Refs(m.heap, t) + Occurrences(t, SlotsOf(m.executor))
                              = Refs(m.heap, t) + Occurrences(t, SlotsOf(e))
    BY <2>3 DEF Kept
  <2>5. Good(WithFrames(m, m.heap, e), K, h)
    <3>1. Good(m, K, h) /\ TypedExecutor(e)
      BY <1>8, <2>1 DEF InCall
    <3> QED BY <1>1, <2>4, <3>1, FramesChanged
  <2> QED BY <1>6, <2>2, <2>5 DEF InCall
<1> QED BY <1>6, <1>7, <1>8

CallOutcome(m, module, popped, index, stack, kept, parameters) ==
  Require(popped, Thing(m.heap, TopThing(m)).type = FUNCTION, "thing is a function",
  Require(popped, IsBelow(index, Len(module.functions)), "function exists",
  Require(popped, kept >= 0, "stack is not empty",
  Require(popped, CanRelease(popped.heap, parameters), "count is positive",
  Require(popped, ~ResizeHangs(module.functions[index + 1].paramCount), Hangs,
    StoredParameters(
      StepIn([popped EXCEPT !.executor.scopes[Len(m.executor.scopes)].stack = SubSeq(@, 1, kept)],
             [module |-> Position(m).module, address |-> module.functions[index + 1].address]),
      parameters))))))

LEMMA CallIs ==
  ASSUME NEW m, NEW module, NEW n \in Call(m, module)
  PROVE  n = CallOutcome(m, module, Pop(m), Value(m.heap, TopThing(m)), TopScope(Pop(m)).stack,
               Len(TopScope(Pop(m)).stack)
                 - module.functions[Value(m.heap, TopThing(m)) + 1].paramCount,
               SubSeq(TopScope(Pop(m)).stack,
                 Len(TopScope(Pop(m)).stack)
                   - module.functions[Value(m.heap, TopThing(m)) + 1].paramCount + 1,
                 Len(TopScope(Pop(m)).stack)))
BY DEF Call, CallOutcome, StoredParameters

\* What CALL may leave after the pop of the function.
CallResult(module, popped, index, kept, parameters, position, n) ==
  \/ n = Fail(popped, "thing is a function")
  \/ n = Fail(popped, "function exists")
  \/ n = Fail(popped, "stack is not empty")
  \/ /\ IsBelow(index, Len(module.functions)) /\ kept >= 0
     /\ \/ ~CanRelease(popped.heap, parameters) /\ n = Fail(popped, "count is positive")
        \/ n = Fail(popped, Hangs)
        \/ n = StoredParameters(StepIn(CutStack(popped, kept), position), parameters)

LEMMA CallCases ==
  ASSUME NEW m, NEW module, NEW popped, popped = Pop(m), popped.fault = NoFault,
         NEW index, index = Value(m.heap, TopThing(m)),
         NEW stack, stack = TopScope(popped).stack,
         NEW kept, kept = Len(stack) - module.functions[index + 1].paramCount,
         NEW parameters, parameters = SubSeq(stack, kept + 1, Len(stack)),
         NEW position, position = [module |-> Position(m).module,
                                   address |-> module.functions[index + 1].address],
         Len(popped.executor.scopes) = Len(m.executor.scopes),
         NEW n \in Call(m, module)
  PROVE  CallResult(module, popped, index, kept, parameters, position, n)
<1> DEFINE stored == StoredParameters(
                        StepIn(CutStack(popped, kept),
                               [module |-> Position(m).module,
                                address |-> module.functions[index + 1].address]),
                        parameters)
<1> DEFINE hangs == ~ResizeHangs(module.functions[index + 1].paramCount)
<1> DEFINE typed == Thing(m.heap, TopThing(m)).type = FUNCTION
<1>1. n = Require(popped, typed, "thing is a function",
          Require(popped, IsBelow(index, Len(module.functions)), "function exists",
          Require(popped, kept >= 0, "stack is not empty",
          Require(popped, CanRelease(popped.heap, parameters), "count is positive",
          Require(popped, hangs, Hangs, stored)))))
  <2>1. n = CallOutcome(m, module, popped, index, stack, kept, parameters)
    BY CallIs
  <2>2. [popped EXCEPT !.executor.scopes[Len(m.executor.scopes)].stack = SubSeq(@, 1, kept)]
          = CutStack(popped, kept)
    BY DEF CutStack
  <2> QED BY <2>1, <2>2 DEF CallOutcome
<1> HIDE DEF stored, hangs, typed
<1>2. n = IF typed
          THEN IF IsBelow(index, Len(module.functions))
               THEN IF kept >= 0
                    THEN IF CanRelease(popped.heap, parameters)
                         THEN IF hangs THEN stored ELSE Fail(popped, Hangs)
                         ELSE Fail(popped, "count is positive")
                    ELSE Fail(popped, "stack is not empty")
               ELSE Fail(popped, "function exists")
          ELSE Fail(popped, "thing is a function")
  BY <1>1 DEF Require
<1>3. \/ n = Fail(popped, "thing is a function")
      \/ n = Fail(popped, "function exists")
      \/ n = Fail(popped, "stack is not empty")
      \/ /\ IsBelow(index, Len(module.functions)) /\ kept >= 0
         /\ \/ ~CanRelease(popped.heap, parameters) /\ n = Fail(popped, "count is positive")
            \/ n = Fail(popped, Hangs)
            \/ n = stored
  BY <1>2
<1> QED BY <1>3 DEF stored, CallResult
-----------------------------------------------------------------------------
LEMMA SeqElements ==
  ASSUME NEW S, NEW s \in Seq(S)
  PROVE  \A k \in DOMAIN s : s[k] \in S
OBVIOUS

LEMMA CallCounts ==
  ASSUME NEW m, NEW K \in [Nat -> Nat], NEW h, InCall(m, K, h), m.fault = NoFault,
         NEW module, TypedModule(module), Position(m) \in Positions,
         NEW n \in Call(m, module)
  PROVE  InCall(n, K, h)
<1>1. PICK popped : popped = Pop(m)
  OBVIOUS
<1>2. InCall(popped, K, h)
  BY <1>1, PopCounts
<1>3. /\ Typed(popped) /\ TypedHeap(popped.heap) /\ TypedExecutor(popped.executor)
  BY <1>2 DEF InCall, Good, Typed
<1>4. PICK index : index = Value(m.heap, TopThing(m))
  OBVIOUS
<1>5. PICK stack : stack = TopScope(popped).stack
  OBVIOUS
<1>6. PICK kept : kept = Len(stack) - module.functions[index + 1].paramCount
  OBVIOUS
<1>7. PICK parameters : parameters = SubSeq(stack, kept + 1, Len(stack))
  OBVIOUS
<1>8. CASE popped.fault # NoFault
  <2>1. n = CallOutcome(m, module, Pop(m), Value(m.heap, TopThing(m)), TopScope(Pop(m)).stack,
               Len(TopScope(Pop(m)).stack)
                 - module.functions[Value(m.heap, TopThing(m)) + 1].paramCount,
               SubSeq(TopScope(Pop(m)).stack,
                 Len(TopScope(Pop(m)).stack)
                   - module.functions[Value(m.heap, TopThing(m)) + 1].paramCount + 1,
                 Len(TopScope(Pop(m)).stack)))
    BY CallIs
  <2>2. n = CallOutcome(m, module, popped, index, stack, kept, parameters)
    BY <1>1, <1>4, <1>5, <1>6, <1>7, <2>1
  <2>3. n = popped
    BY <1>8, <2>2 DEF CallOutcome, Require
  <2> QED BY <1>2, <2>3
<1>9. CASE popped.fault = NoFault
  <2>0. PICK position : position = [module |-> Position(m).module,
                                    address |-> module.functions[index + 1].address]
    OBVIOUS
  <2>1. popped.executor.scopes # <<>>
    BY <1>2, <1>9 DEF InCall
  <2>2. Len(popped.executor.scopes) = Len(m.executor.scopes)
    <3>1. Typed(m) /\ m.executor.scopes # <<>>
      BY DEF InCall, Good
    <3> QED BY <1>1, <3>1, PopExecutor
  <2>3. \/ n = Fail(popped, "thing is a function")
        \/ n = Fail(popped, "function exists")
        \/ n = Fail(popped, "stack is not empty")
        \/ /\ IsBelow(index, Len(module.functions)) /\ kept >= 0
           /\ \/ ~CanRelease(popped.heap, parameters) /\ n = Fail(popped, "count is positive")
              \/ n = Fail(popped, Hangs)
              \/ n = StoredParameters(StepIn(CutStack(popped, kept), position), parameters)
    <3>1. CallResult(module, popped, index, kept, parameters, position, n)
      BY <2>0, <1>1, <1>4, <1>5, <1>6, <1>7, <1>9, <2>2, CallCases
    <3> QED BY <3>1 DEF CallResult
  <2>4. ASSUME NEW a \in {"thing is a function", "function exists", "stack is not empty", Hangs}
        PROVE  InCall(Fail(popped, a), K, h)
    <3>1. a # NoFault /\ a # "count is positive"
      BY DEF NoFault, Hangs
    <3> QED BY <1>3, <3>1, FailGood
  <2>5. ASSUME IsBelow(index, Len(module.functions)), kept >= 0
        PROVE  /\ kept \in 0..Len(stack) /\ module.functions[index + 1].address \in Nat
               /\ IsCut(popped, parameters, CutStack(popped, kept))
    <3>1. index + 1 \in DOMAIN module.functions
      <4>1. DOMAIN module.functions = 1..Len(module.functions) /\ Len(module.functions) \in Nat
        BY SequenceLength, SequenceFinite DEF TypedModule
      <4>2. PICK length : length = Len(module.functions)
        OBVIOUS
      <4>3. index \in 0..(length - 1)
        BY <2>5, <4>2 DEF IsBelow
      <4>4. length \in Nat
        BY <4>1, <4>2
      <4>5. index + 1 \in 1..length
        BY <4>3, <4>4
      <4> QED BY <4>1, <4>2, <4>5
    <3>2. /\ module.functions[index + 1].address \in Nat
          /\ module.functions[index + 1].paramCount \in Nat
      BY <3>1 DEF TypedModule
    <3>3. TypedScope(TopScope(popped))
      BY <1>3, <2>1, TopRecord
    <3>4. Len(stack) \in Nat
      BY <1>5, <3>3 DEF TypedScope
    <3>5. kept \in 0..Len(stack)
      <4>1. PICK count : count = module.functions[index + 1].paramCount
        OBVIOUS
      <4>2. PICK length : length = Len(stack)
        OBVIOUS
      <4>3. count \in Nat /\ length \in Nat /\ kept = length - count /\ kept >= 0
        BY <1>6, <2>5, <3>2, <3>4, <4>1, <4>2
      <4>4. kept \in 0..length
        BY <4>3
      <4> QED BY <4>2, <4>4
    <3>6. IsCut(popped, parameters, CutStack(popped, kept))
      BY <1>3, <1>5, <1>7, <2>1, <3>5, StackCut
    <3> QED BY <3>2, <3>5, <3>6
  <2>6. CASE /\ IsBelow(index, Len(module.functions)) /\ kept >= 0
             /\ ~CanRelease(popped.heap, parameters) /\ n = Fail(popped, "count is positive")
    <3>1. parameters \in Seq(Nat) /\ \A t : Occurrences(t, parameters) <= Occurrences(t, SlotsOf(popped.executor))
      BY <2>5, <2>6 DEF IsCut
    <3>2. /\ IsFiniteSet(DOMAIN parameters) /\ DeadThing \notin Range(parameters)
          /\ \A k \in DOMAIN parameters : parameters[k] \in Nat \cup {DeadThing}
      <4>1. IsFiniteSet(DOMAIN parameters)
        BY <3>1, SequenceFinite DEF IsSequence
      <4>2. \A k \in DOMAIN parameters : parameters[k] \in Nat
        BY <3>1, SeqElements
      <4>3. DeadThing \notin Nat
        BY DEF DeadThing
      <4> QED BY <4>1, <4>2, <4>3 DEF Range
    <3>3. popped.stray # FALSE
      <4>1. Good(popped, K, h)
        BY <1>2 DEF InCall
      <4> QED BY <1>9, <2>6, <3>1, <3>2, <4>1, CoveredReleasable
    <3>4. popped.stray = TRUE
      BY <1>3, <3>3 DEF Typed
    <3>5. InCall(Fail(popped, "count is positive"), K, h)
      BY <1>3, <3>4, FailGood DEF NoFault
    <3> QED BY <2>6, <3>5
  <2>7. CASE /\ IsBelow(index, Len(module.functions)) /\ kept >= 0
             /\ n = StoredParameters(StepIn(CutStack(popped, kept), position), parameters)
    <3>1. Position(m).module \in Nat /\ module.functions[index + 1].address \in Int
      <4>1. PICK p : p = Position(m)
        OBVIOUS
      <4>2. p \in Positions
        BY <4>1
      <4>3. p.module \in Nat
        BY <4>2 DEF Positions
      <4>4. module.functions[index + 1].address \in Nat
        BY <2>5, <2>7
      <4>5. PICK a : a = module.functions[index + 1].address
        OBVIOUS
      <4>6. a \in Int
        BY <4>4, <4>5
      <4> QED BY <4>1, <4>3, <4>5, <4>6
    <3>2. position \in Positions
      BY <2>0, <3>1 DEF Positions
    <3>3. kept \in 0..Len(stack)
      BY <2>5, <2>7
    <3> QED BY <1>2, <1>5, <1>7, <1>9, <2>7, <3>2, <3>3, ParametersMoved
  <2> QED BY <2>3, <2>4, <2>6, <2>7
<1> QED BY <1>8, <1>9
-----------------------------------------------------------------------------
LEMMA ModulusTyped == ShortModulus \in Nat /\ ShortModulus > 0 /\ IntModulus \in Nat /\ IntModulus > 0
<1>1. PICK b : b = ByteBase
  OBVIOUS
<1>2. b \in Nat /\ b > 0
  BY <1>1, ByteBaseAssumption
<1>3. b * b \in Nat /\ b * b > 0
  BY <1>2
<1>4. PICK s : s = b * b
  OBVIOUS
<1>5. s \in Nat /\ s > 0
  BY <1>3, <1>4
<1>6. s * s \in Nat /\ s * s > 0
  BY <1>5
<1> QED BY <1>1, <1>3, <1>4, <1>6 DEF ShortModulus, IntModulus

LEMMA JoinTyped ==
  ASSUME NEW high \in Int, NEW byte \in Int
  PROVE  Join(high, byte) \in Int
<1>1. ByteBase \in Int
  BY ByteBaseAssumption
<1>2. ByteBase * high \in Int
  BY <1>1
<1> QED BY <1>2 DEF Join

LEMMA OperandTyped ==
  ASSUME NEW m, NEW module, TypedModule(module), Position(m).address \in Nat, NEW size \in Nat,
         Position(m).address + size <= Len(module.code)
  PROVE  \A k \in 1..size : Operand(m, module, size)[k] \in Int
<1>1. PICK a : a = Position(m).address
  OBVIOUS
<1>2. PICK code : code = module.code
  OBVIOUS
<1>3. a \in Nat /\ code \in Seq(Int) /\ a + size <= Len(code)
  BY <1>1, <1>2 DEF TypedModule
<1>4. a + 1 \in Int /\ a + size \in Int /\ \A i \in (a + 1)..(a + size) : code[i] \in Int
  BY <1>3
<1>5. \A i \in 1..((a + size) - (a + 1) + 1) : SubSeq(code, a + 1, a + size)[i] = code[(a + 1) + i - 1]
  BY <1>4, SubSeqProperties
<1>6. ASSUME NEW k \in 1..size PROVE SubSeq(code, a + 1, a + size)[k] \in Int
  <2>1. k \in 1..((a + size) - (a + 1) + 1) /\ (a + 1) + k - 1 \in (a + 1)..(a + size)
    BY <1>3
  <2> QED BY <1>4, <1>5, <2>1
<1> QED BY <1>1, <1>2, <1>6 DEF Operand

LEMMA BytesJoined ==
  ASSUME NEW bytes, NEW size \in {1, 2, 4, 8}, \A k \in 1..size : bytes[k] \in Int
  PROVE  /\ size = 1 => ByteOf(bytes) \in Int
         /\ size = 2 => ShortOf(bytes) \in Nat
         /\ size = 4 => IntOf(bytes) \in Int
         /\ size = 8 => LongOf(bytes) \in Int
<1>1. CASE size = 1
  BY <1>1 DEF ByteOf
<1>2. CASE size = 2
  <2>1. bytes[1] \in Int /\ bytes[2] \in Int
    BY <1>2
  <2>2. Join(bytes[1], bytes[2]) \in Int
    BY <2>1, JoinTyped
  <2>3. Join(bytes[1], bytes[2]) % ShortModulus \in Nat
    BY <2>2, ModulusTyped
  <2> QED BY <1>2, <2>3 DEF ShortOf
<1>3. ASSUME bytes[1] \in Int, bytes[2] \in Int, bytes[3] \in Int, bytes[4] \in Int
      PROVE  IntOf(bytes) \in Int
  <2>1. Join(bytes[1], bytes[2]) \in Int
    BY <1>3, JoinTyped
  <2>2. Join(Join(bytes[1], bytes[2]), bytes[3]) \in Int
    BY <1>3, <2>1, JoinTyped
  <2>3. Join(Join(Join(bytes[1], bytes[2]), bytes[3]), bytes[4]) \in Int
    BY <1>3, <2>2, JoinTyped
  <2> QED BY <2>3 DEF IntOf
<1>4. CASE size = 4
  BY <1>3, <1>4
<1>5. CASE size = 8
  <2>1. IntOf(bytes) \in Int /\ bytes[5] \in Int /\ bytes[6] \in Int /\ bytes[7] \in Int /\ bytes[8] \in Int
    BY <1>3, <1>5
  <2>2. Join(IntOf(bytes), bytes[5]) \in Int
    BY <2>1, JoinTyped
  <2>3. Join(Join(IntOf(bytes), bytes[5]), bytes[6]) \in Int
    BY <2>1, <2>2, JoinTyped
  <2>4. Join(Join(Join(IntOf(bytes), bytes[5]), bytes[6]), bytes[7]) \in Int
    BY <2>1, <2>3, JoinTyped
  <2>5. Join(Join(Join(Join(IntOf(bytes), bytes[5]), bytes[6]), bytes[7]), bytes[8]) \in Int
    BY <2>1, <2>4, JoinTyped
  <2> QED BY <1>5, <2>5 DEF LongOf
<1> QED BY <1>1, <1>2, <1>4, <1>5
-----------------------------------------------------------------------------
\* A machine that is about to take an instruction, past its opcode.
Ready(m, module, K, h) ==
  /\ InCall(m, K, h) /\ m.fault = NoFault
  /\ Position(m) \in Positions /\ Position(m).address \in Nat
  /\ TypedModule(module)

LEMMA ReadyFails ==
  ASSUME NEW m, NEW module, NEW K, NEW h, Ready(m, module, K, h),
         NEW a, a # NoFault, a # "count is positive"
  PROVE  InCall(Fail(m, a), K, h)
BY FailGood DEF Ready, InCall, Good

\* An operand is inside the bytecode, or the assertion fails.
IsRead(m, module, size, K, h) ==
  /\ InCall(Skip(m, size), K, h)
  /\ Skip(m, size).fault = NoFault
  /\ \A k \in 1..size : Operand(m, module, size)[k] \in Int

LEMMA OperandRead ==
  ASSUME NEW m, NEW module, NEW K \in [Nat -> Nat], NEW h, Ready(m, module, K, h),
         NEW size \in {1, 2, 4, 8}, NEW rest, NEW n, n = ReadOperand(m, module, size, rest)
  PROVE  InCall(n, K, h) \/ (n = rest /\ IsRead(m, module, size, K, h))
<1>1. InCall(m, K, h) /\ m.fault = NoFault /\ TypedModule(module) /\ Position(m).address \in Nat
  BY DEF Ready
<1>2. CASE Position(m).address + size <= Len(module.code)
  <2>1. n = rest
    BY <1>1, <1>2 DEF ReadOperand, Require
  <2>2. size \in Nat
    OBVIOUS
  <2>3. \A k \in 1..size : Operand(m, module, size)[k] \in Int
    BY <1>1, <1>2, <2>2, OperandTyped
  <2>4. PICK address : address = Position(m).address + size
    OBVIOUS
  <2>5. address \in Int
    BY <1>1, <2>2, <2>4
  <2>6. InCall(MoveTo(m, address), K, h) /\ MoveTo(m, address).fault = m.fault
    BY <1>1, <2>5, MoveToCounts
  <2>7. Skip(m, size) = MoveTo(m, address)
    BY <2>4 DEF Skip
  <2> QED BY <1>1, <2>1, <2>3, <2>6, <2>7 DEF IsRead
<1>3. CASE ~(Position(m).address + size <= Len(module.code))
  <2>1. n = Fail(m, "operand is inside the bytecode")
    BY <1>1, <1>3 DEF ReadOperand, Require
  <2>2. InCall(Fail(m, "operand is inside the bytecode"), K, h)
    BY ReadyFails DEF NoFault
  <2> QED BY <2>1, <2>2
<1> QED BY <1>2, <1>3

LEMMA PushedOperand ==
  ASSUME NEW m, NEW module, NEW K \in [Nat -> Nat], NEW h, Ready(m, module, K, h),
         NEW size \in {1, 2, 4, 8}, NEW type \in ThingTypes, NEW value,
         IsRead(m, module, size, K, h) => value \in Int,
         NEW n, n = ReadOperand(m, module, size, PushNew(Skip(m, size), type, value))
  PROVE  InCall(n, K, h)
<1>1. PICK rest : rest = PushNew(Skip(m, size), type, value)
  OBVIOUS
<1>2. InCall(n, K, h) \/ (n = rest /\ IsRead(m, module, size, K, h))
  BY <1>1, OperandRead
<1>3. ASSUME n = rest, IsRead(m, module, size, K, h) PROVE InCall(n, K, h)
  <2>1. PICK skipped : skipped = Skip(m, size)
    OBVIOUS
  <2>2. InCall(skipped, K, h) /\ value \in Int
    BY <1>3, <2>1 DEF IsRead
  <2>3. InCall(PushNew(skipped, type, value), K, h)
    BY <2>2, PushNewCounts
  <2> QED BY <1>1, <1>3, <2>1, <2>3
<1> QED BY <1>2, <1>3

LEMMA PushInstructions ==
  ASSUME NEW m, NEW module, NEW K \in [Nat -> Nat], NEW h, Ready(m, module, K, h), NEW n,
         \/ n \in Ipush(m, module) \/ n \in Bipush(m, module)
         \/ n \in Fpush(m, module) \/ n \in Sfpush(m, module)
  PROVE  InCall(n, K, h)
<1>0. INT \in ThingTypes /\ FUNCTION \in ThingTypes
  BY DEF ThingTypes
<1>1. CASE n \in Ipush(m, module)
  <2>1. PICK value : value = IntOf(Operand(m, module, 4))
    OBVIOUS
  <2>2. n = ReadOperand(m, module, 4, PushNew(Skip(m, 4), INT, value))
    BY <1>1, <2>1 DEF Ipush
  <2>3. IsRead(m, module, 4, K, h) => value \in Int
    BY <2>1, BytesJoined DEF IsRead
  <2> QED BY <1>0, <2>2, <2>3, PushedOperand
<1>2. CASE n \in Bipush(m, module)
  <2>1. PICK value : value = ByteOf(Operand(m, module, 1))
    OBVIOUS
  <2>2. n = ReadOperand(m, module, 1, PushNew(Skip(m, 1), INT, value))
    BY <1>2, <2>1 DEF Bipush
  <2>3. IsRead(m, module, 1, K, h) => value \in Int
    BY <2>1, BytesJoined DEF IsRead
  <2> QED BY <1>0, <2>2, <2>3, PushedOperand
<1>3. CASE n \in Fpush(m, module)
  <2>1. PICK value : value = LongOf(Operand(m, module, 8))
    OBVIOUS
  <2>2. n = ReadOperand(m, module, 8, PushNew(Skip(m, 8), FUNCTION, value))
    BY <1>3, <2>1 DEF Fpush
  <2>3. IsRead(m, module, 8, K, h) => value \in Int
    BY <2>1, BytesJoined DEF IsRead
  <2> QED BY <1>0, <2>2, <2>3, PushedOperand
<1>4. CASE n \in Sfpush(m, module)
  <2>1. PICK value : value = ShortOf(Operand(m, module, 2))
    OBVIOUS
  <2>2. n = ReadOperand(m, module, 2, PushNew(Skip(m, 2), FUNCTION, value))
    BY <1>4, <2>1 DEF Sfpush
  <2>3. IsRead(m, module, 2, K, h) => value \in Int
    BY <2>1, BytesJoined DEF IsRead
  <2> QED BY <1>0, <2>2, <2>3, PushedOperand
<1> QED BY <1>1, <1>2, <1>3, <1>4

LEMMA PointerFails ==
  ASSUME NEW m, Typed(m), NEW K, NEW h, NEW type, NEW n \in UseAfterFree(m, type)
  PROVE  InCall(n, K, h)
<1>1. n = Fail(m, "pointer is valid")
  BY DEF UseAfterFree
<1>2. InCall(Fail(m, "pointer is valid"), K, h)
  BY FailGood DEF NoFault
<1> QED BY <1>1, <1>2

LEMMA StackInstructions ==
  ASSUME NEW m, NEW module, NEW K \in [Nat -> Nat], NEW h, Ready(m, module, K, h), NEW n,
         \/ n \in Nop(m, module) \/ n \in Dup(m, module) \/ n \in Swap(m, module)
         \/ n \in PopOne(m, module)
  PROVE  InCall(n, K, h)
<1>0. InCall(m, K, h) /\ Typed(m) /\ TypedHeap(m.heap)
  BY DEF Ready, InCall, Good, Typed
<1>1. CASE n \in Nop(m, module)
  BY <1>0, <1>1 DEF Nop
<1>2. CASE n \in Dup(m, module)
  <2>1. PICK source : source = TopThing(m)
    OBVIOUS
  <2>2. PICK type : type = Thing(m.heap, source).type
    OBVIOUS
  <2>3. \/ n = Fail(m, "stack is not empty") \/ n = Fail(m, "thing is live")
        \/ /\ source \in LiveThings(m.heap)
           /\ \/ \E value \in ReadAcrossAppend(m.heap, type, source) : n = PushNew(m, type, value)
              \/ n \in UseAfterFree(m, type)
    BY <1>2, <2>1, <2>2 DEF Dup
  <2>4. CASE n = Fail(m, "stack is not empty") \/ n = Fail(m, "thing is live")
    <3>1. /\ InCall(Fail(m, "stack is not empty"), K, h)
          /\ InCall(Fail(m, "thing is live"), K, h)
      BY ReadyFails DEF NoFault
    <3> QED BY <2>4, <3>1
  <2>5. CASE /\ source \in LiveThings(m.heap)
             /\ \E value \in ReadAcrossAppend(m.heap, type, source) : n = PushNew(m, type, value)
    <3>1. PICK value \in ReadAcrossAppend(m.heap, type, source) : n = PushNew(m, type, value)
      BY <2>5
    <3>2. type \in ThingTypes
      BY <1>0, <2>2, <2>5, TypedThing
    <3>3. value \in Int
      BY <1>0, <2>5, <3>1, <3>2, ReadIsInt
    <3> QED BY <1>0, <3>1, <3>2, <3>3, PushNewCounts
  <2>6. CASE n \in UseAfterFree(m, type)
    BY <1>0, <2>6, PointerFails
  <2> QED BY <2>3, <2>4, <2>5, <2>6
<1>3. CASE n \in Swap(m, module)
  <2>1. PICK b : b = TopThing(m)
    OBVIOUS
  <2>2. PICK a : a = TopThing(Pop(m))
    OBVIOUS
  <2>3. n = Push(Push(Pop(Pop(m)), b), a)
    BY <1>3, <2>1, <2>2 DEF Swap
  <2>4. PICK popped : popped = Pop(Pop(m))
    OBVIOUS
  <2>5. InCall(Pop(m), K, h)
    BY <1>0, PopCounts
  <2>6. InCall(popped, K, h)
    BY <2>4, <2>5, PopCounts
  <2>7. InCall(Push(popped, b), K, h)
    BY <2>6, PushCounts
  <2>8. InCall(Push(Push(popped, b), a), K, h)
    BY <2>7, PushCounts
  <2> QED BY <2>3, <2>4, <2>8
<1>4. CASE n \in PopOne(m, module)
  BY <1>0, <1>4, PopCounts DEF PopOne
<1> QED BY <1>1, <1>2, <1>3, <1>4
-----------------------------------------------------------------------------
LEMMA ShortRead ==
  ASSUME NEW m, NEW module, NEW K, NEW h, IsRead(m, module, 2, K, h)
  PROVE  ShortOf(Operand(m, module, 2)) \in Nat
<1>1. PICK bytes : bytes = Operand(m, module, 2)
  OBVIOUS
<1>2. \A k \in 1..2 : bytes[k] \in Int
  BY <1>1 DEF IsRead
<1> QED BY <1>1, <1>2, BytesJoined

LEMMA LongRead ==
  ASSUME NEW m, NEW module, NEW K, NEW h, IsRead(m, module, 8, K, h)
  PROVE  LongOf(Operand(m, module, 8)) \in Int
<1>1. PICK bytes : bytes = Operand(m, module, 8)
  OBVIOUS
<1>2. \A k \in 1..8 : bytes[k] \in Int
  BY <1>1 DEF IsRead
<1> QED BY <1>1, <1>2, BytesJoined

LEMMA VariableInstructions ==
  ASSUME NEW m, NEW module, NEW K \in [Nat -> Nat], NEW h, Ready(m, module, K, h), NEW n,
         \/ n \in Str(m, module) \/ n \in Lod(m, module)
         \/ n \in Strg(m, module) \/ n \in Lodg(m, module)
  PROVE  InCall(n, K, h)
<1>1. PICK skipped : skipped = Skip(m, 2)
  OBVIOUS
<1>2. PICK index : index = ShortOf(Operand(m, module, 2))
  OBVIOUS
<1>3. ASSUME IsRead(m, module, 2, K, h) PROVE InCall(skipped, K, h) /\ index \in Nat
  <2>1. InCall(skipped, K, h)
    BY <1>1, <1>3 DEF IsRead
  <2> QED BY <1>2, <1>3, <2>1, ShortRead
<1>4. PICK id : id = TopThing(m)
  OBVIOUS
<1>5. m.fault = NoFault
  BY DEF Ready
<1>6. InCall(Fail(m, "index is below the count"), K, h)
  BY ReadyFails DEF NoFault
<1>7. CASE n \in Str(m, module)
  <2>1. PICK rest : rest = StoreVariable(Pop(skipped), index, id)
    OBVIOUS
  <2>2. n = ReadOperand(m, module, 2, rest)
    BY <1>1, <1>2, <1>4, <1>7, <2>1 DEF Str
  <2>3. InCall(n, K, h) \/ (n = rest /\ IsRead(m, module, 2, K, h))
    BY <2>2, OperandRead
  <2>4. ASSUME n = rest, IsRead(m, module, 2, K, h) PROVE InCall(n, K, h)
    <3>1. InCall(skipped, K, h) /\ index \in Nat
      BY <1>3, <2>4
    <3>2. InCall(Pop(skipped), K, h)
      BY <3>1, PopCounts
    <3>3. InCall(StoreVariable(Pop(skipped), index, id), K, h)
      BY <3>1, <3>2, StoreVariableCounts
    <3> QED BY <2>1, <2>4, <3>3
  <2> QED BY <2>3, <2>4
<1>8. CASE n \in Strg(m, module)
  <2>1. PICK rest : rest = StoreGlobal(Pop(skipped), index, id)
    OBVIOUS
  <2>2. n = ReadOperand(m, module, 2, rest)
    BY <1>1, <1>2, <1>4, <1>8, <2>1 DEF Strg
  <2>3. InCall(n, K, h) \/ (n = rest /\ IsRead(m, module, 2, K, h))
    BY <2>2, OperandRead
  <2>4. ASSUME n = rest, IsRead(m, module, 2, K, h) PROVE InCall(n, K, h)
    <3>1. InCall(skipped, K, h) /\ index \in Nat
      BY <1>3, <2>4
    <3>2. InCall(Pop(skipped), K, h)
      BY <3>1, PopCounts
    <3>3. InCall(StoreGlobal(Pop(skipped), index, id), K, h)
      BY <3>1, <3>2, StoreGlobalCounts
    <3> QED BY <2>1, <2>4, <3>3
  <2> QED BY <2>3, <2>4
<1>9. ASSUME NEW loaded, NEW inside \in BOOLEAN,
             n = ReadOperand(m, module, 2,
                   Require(m, inside, "index is below the count", Push(skipped, loaded)))
      PROVE  InCall(n, K, h)
  <2>1. PICK rest : rest = Require(m, inside, "index is below the count", Push(skipped, loaded))
    OBVIOUS
  <2>2. n = ReadOperand(m, module, 2, rest)
    BY <1>9, <2>1
  <2>3. InCall(n, K, h) \/ (n = rest /\ IsRead(m, module, 2, K, h))
    BY <2>2, OperandRead
  <2>4. ASSUME n = rest, IsRead(m, module, 2, K, h) PROVE InCall(n, K, h)
    <3>1. InCall(Push(skipped, loaded), K, h)
      BY <1>3, <2>4, PushCounts
    <3>2. rest = Fail(m, "index is below the count") \/ rest = Push(skipped, loaded)
      BY <1>5, <2>1 DEF Require
    <3> QED BY <1>6, <2>4, <3>1, <3>2
  <2> QED BY <2>3, <2>4
<1>10. CASE n \in Lod(m, module)
  <2>1. PICK inside : inside = IsBelow(index, Len(TopScope(m).variables))
    OBVIOUS
  <2>2. inside \in BOOLEAN
    BY <2>1 DEF IsBelow
  <2>3. PICK loaded : loaded = TopScope(m).variables[index + 1]
    OBVIOUS
  <2>4. n = ReadOperand(m, module, 2,
              Require(m, inside, "index is below the count", Push(skipped, loaded)))
    BY <1>1, <1>2, <1>10, <2>1, <2>3 DEF Lod
  <2> QED BY <1>9, <2>2, <2>4
<1>11. CASE n \in Lodg(m, module)
  <2>1. PICK inside : inside = IsBelow(index, Len(m.globals))
    OBVIOUS
  <2>2. inside \in BOOLEAN
    BY <2>1 DEF IsBelow
  <2>3. PICK loaded : loaded = m.globals[index + 1].thing
    OBVIOUS
  <2>4. n = ReadOperand(m, module, 2,
              Require(m, inside, "index is below the count", Push(skipped, loaded)))
    BY <1>1, <1>2, <1>11, <2>1, <2>3 DEF Lodg
  <2> QED BY <1>9, <2>2, <2>4
<1> QED BY <1>7, <1>8, <1>10, <1>11

LEMMA TargetRead ==
  ASSUME NEW m, NEW module, NEW K \in [Nat -> Nat], NEW h, Ready(m, module, K, h), NEW rest,
         NEW n, n = ReadTarget(m, module, rest)
  PROVE  \/ InCall(n, K, h)
         \/ /\ n = rest /\ Target(m, module) \in Int /\ InCall(Skip(m, 8), K, h)
<1>1. PICK inside : inside = Require(m, IsBelow(LongOf(Operand(m, module, 8)), Len(module.code)),
                                     "jump target is inside the bytecode", rest)
  OBVIOUS
<1>2. n = ReadOperand(m, module, 8, inside)
  BY <1>1 DEF ReadTarget
<1>3. InCall(n, K, h) \/ (n = inside /\ IsRead(m, module, 8, K, h))
  BY <1>2, OperandRead
<1>4. ASSUME n = inside, IsRead(m, module, 8, K, h)
      PROVE  \/ InCall(n, K, h)
             \/ /\ n = rest /\ Target(m, module) \in Int /\ InCall(Skip(m, 8), K, h)
  <2>1. inside = rest \/ inside = Fail(m, "jump target is inside the bytecode")
    BY <1>1 DEF Require, Ready
  <2>2. InCall(Fail(m, "jump target is inside the bytecode"), K, h)
    BY ReadyFails DEF NoFault
  <2>3. Target(m, module) \in Int
    BY <1>4, LongRead DEF Target
  <2>4. InCall(Skip(m, 8), K, h)
    BY <1>4 DEF IsRead
  <2> QED BY <1>4, <2>1, <2>2, <2>3, <2>4
<1> QED BY <1>3, <1>4

LEMMA JumpInstructions ==
  ASSUME NEW m, NEW module, NEW K \in [Nat -> Nat], NEW h, Ready(m, module, K, h), NEW n,
         n \in Jmp(m, module) \/ n \in Jz(m, module) \/ n \in Jnz(m, module)
  PROVE  InCall(n, K, h)
<1>1. PICK target : target = Target(m, module)
  OBVIOUS
<1>2. InCall(m, K, h)
  BY DEF Ready
<1>3. CASE n \in Jmp(m, module)
  <2>1. PICK rest : rest = MoveTo(m, target)
    OBVIOUS
  <2>2. n = ReadTarget(m, module, rest)
    BY <1>1, <1>3, <2>1 DEF Jmp
  <2>3. InCall(n, K, h) \/ (n = rest /\ target \in Int)
    BY <1>1, <2>2, TargetRead
  <2>4. target \in Int => InCall(MoveTo(m, target), K, h)
    BY <1>2, MoveToCounts
  <2> QED BY <2>1, <2>3, <2>4
<1>4. PICK popped : popped = Pop(Skip(m, 8))
  OBVIOUS
<1>5. ASSUME NEW rest, rest = popped \/ rest = MoveTo(popped, target),
             n = ReadTarget(m, module, rest)
      PROVE  InCall(n, K, h)
  <2>1. InCall(n, K, h) \/ (n = rest /\ target \in Int /\ InCall(Skip(m, 8), K, h))
    BY <1>1, <1>5, TargetRead
  <2>2. ASSUME n = rest, target \in Int, InCall(Skip(m, 8), K, h) PROVE InCall(n, K, h)
    <3>1. PICK skipped : skipped = Skip(m, 8)
      OBVIOUS
    <3>2. InCall(skipped, K, h)
      BY <2>2, <3>1
    <3>3. InCall(Pop(skipped), K, h)
      BY <3>2, PopCounts
    <3>4. InCall(popped, K, h)
      BY <1>4, <3>1, <3>3
    <3>5. InCall(MoveTo(popped, target), K, h)
      BY <2>2, <3>4, MoveToCounts
    <3> QED BY <1>5, <2>2, <3>4, <3>5
  <2> QED BY <2>1, <2>2
<1>6. CASE n \in Jz(m, module)
  <2>1. PICK rest : rest = IF popped.fault = NoFault /\ PopIsZero(m)
                           THEN MoveTo(popped, target) ELSE popped
    OBVIOUS
  <2>2. n = ReadTarget(m, module, rest)
    BY <1>1, <1>4, <1>6, <2>1 DEF Jz
  <2>3. rest = popped \/ rest = MoveTo(popped, target)
    BY <2>1
  <2> QED BY <1>5, <2>2, <2>3
<1>7. CASE n \in Jnz(m, module)
  <2>1. PICK rest : rest = IF popped.fault = NoFault /\ ~PopIsZero(m)
                           THEN MoveTo(popped, target) ELSE popped
    OBVIOUS
  <2>2. n = ReadTarget(m, module, rest)
    BY <1>1, <1>4, <1>7, <2>1 DEF Jnz
  <2>3. rest = popped \/ rest = MoveTo(popped, target)
    BY <2>1
  <2> QED BY <1>5, <2>2, <2>3
<1> QED BY <1>3, <1>6, <1>7
-----------------------------------------------------------------------------
LEMMA WrapIntTyped ==
  ASSUME NEW i \in Int
  PROVE  WrapInt(i) \in Int
<1>1. PICK n : n = IntModulus
  OBVIOUS
<1>2. n \in Nat /\ n > 0
  BY <1>1, ModulusTyped
<1>3. PICK low : low = IntMin
  OBVIOUS
<1>4. low \in Int
  <2>1. -(n \div 2) \in Int
    BY <1>2
  <2> QED BY <1>1, <1>3, <2>1 DEF IntMin
<1>5. ((i - low) % n) + low \in Int
  BY <1>2, <1>4
<1> QED BY <1>1, <1>3, <1>5 DEF WrapInt

LEMMA QuotientTyped ==
  ASSUME NEW a \in Int, NEW b \in Int, b # 0
  PROVE  Quotient(a, b) \in Int
<1>1. PICK x : x = Magnitude(a)
  OBVIOUS
<1>2. PICK y : y = Magnitude(b)
  OBVIOUS
<1>3. x \in Int /\ y \in Int /\ y > 0
  BY <1>1, <1>2 DEF Magnitude
<1>4. x \div y \in Int /\ -(x \div y) \in Int
  BY <1>3
<1>5. Quotient(a, b) = IF (a < 0) = (b < 0) THEN x \div y ELSE -(x \div y)
  BY <1>1, <1>2 DEF Quotient
<1> QED BY <1>4, <1>5

Operators == {"ADD", "SUB", "MUL", "DIV", "MOD"}

LEMMA ApplyTyped ==
  ASSUME NEW operator \in Operators, NEW a \in Int, NEW b \in Int,
         operator \in {"DIV", "MOD"} => ~DivisionTraps(a, b)
  PROVE  Apply(operator, a, b) \in Int
<1>1. CASE operator = "ADD"
  <2>1. WrapInt(a + b) \in Int
    BY WrapIntTyped
  <2> QED BY <1>1, <2>1 DEF Apply
<1>2. CASE operator = "SUB"
  <2>1. WrapInt(a - b) \in Int
    BY WrapIntTyped
  <2> QED BY <1>2, <2>1 DEF Apply
<1>3. CASE operator = "MUL"
  <2>1. a * b \in Int
    OBVIOUS
  <2>2. WrapInt(a * b) \in Int
    BY <2>1, WrapIntTyped
  <2> QED BY <1>3, <2>2 DEF Apply
<1>4. CASE operator = "DIV"
  <2>1. b # 0
    BY <1>4 DEF DivisionTraps
  <2>2. Quotient(a, b) \in Int
    BY <2>1, QuotientTyped
  <2> QED BY <1>4, <2>2 DEF Apply
<1>5. CASE operator = "MOD"
  <2>1. b # 0
    BY <1>5 DEF DivisionTraps
  <2>2. PICK q : q = Quotient(a, b)
    OBVIOUS
  <2>3. q \in Int
    BY <2>1, <2>2, QuotientTyped
  <2>4. a - b * q \in Int
    BY <2>3
  <2>5. Apply(operator, a, b) = a - b * q
    BY <1>5, <2>2 DEF Apply
  <2> QED BY <2>4, <2>5
<1> QED BY <1>1, <1>2, <1>3, <1>4, <1>5 DEF Operators

\* The things that are popped were live, and still are.
LEMMA PoppedIsLive ==
  ASSUME NEW m, Typed(m), m.fault = NoFault, m.executor.scopes # <<>>,
         NEW n, n = Pop(m), n.fault = NoFault
  PROVE  TopThing(m) \in LiveThings(n.heap) /\ LiveThings(n.heap) = LiveThings(m.heap)
<1>1. PICK stack : stack = Front(TopScope(m).stack)
  OBVIOUS
<1>2. PICK shorter : shorter = WithStack(m, m.heap, stack)
  OBVIOUS
<1>3. IsMachine(m) /\ TypedHeap(m.heap)
  BY DEF Typed
<1>4. [m EXCEPT !.executor.scopes[Len(m.executor.scopes)].stack = Front(@)] = shorter
  BY <1>1, <1>2, <1>3 DEF WithStack, TopScope, Last, IsMachine
<1>5. PICK scope : scope = Scope(TopScope(m).variables, stack)
  OBVIOUS
<1>6. shorter = WithTop(m, m.heap, scope)
  BY <1>2, <1>5, TopRecord
<1>7. IsMachine(shorter) /\ shorter.heap = m.heap /\ shorter.fault = NoFault
  BY <1>6 DEF WithTop, IsMachine
<1>8. PICK id : id = TopThing(m)
  OBVIOUS
<1>9. CASE TopScope(m).stack = <<>>
  <2>1. n = Fail(m, "stack is not empty")
    BY <1>9 DEF Pop, Require, NoFault
  <2>2. Fail(m, "stack is not empty").fault = "stack is not empty"
    BY <1>3, FailFields
  <2> QED BY <2>1, <2>2 DEF NoFault
<1>10. CASE TopScope(m).stack # <<>>
  <2>1. n = UnreferenceThing(shorter, id)
    BY <1>4, <1>8, <1>10 DEF Pop, Require
  <2>2. PICK g : g = Unreference(shorter.heap, id)
    OBVIOUS
  <2>3. \/ n = Fail(shorter, "thing is live") \/ n = Fail(shorter, "count is positive")
        \/ /\ id \in LiveThings(shorter.heap) /\ Thing(shorter.heap, id).references > 0
           /\ n = [shorter EXCEPT !.heap = g]
    <3>1. shorter.fault = NoFault
      BY <1>7
    <3>2. UnreferenceThing(shorter, id) = n
      BY <2>1
    <3> QED BY <2>2, <3>1, <3>2, UnreferenceCases
  <2>4. /\ Fail(shorter, "thing is live").fault = "thing is live"
        /\ Fail(shorter, "count is positive").fault = "count is positive"
    <3>1. IsMachine(shorter)
      BY <1>7
    <3> QED BY <3>1, FailFields
  <2>5. [shorter EXCEPT !.heap = g].heap = g
    BY <1>7 DEF IsMachine
  <2>6. id \in LiveThings(m.heap) /\ Thing(m.heap, id).references > 0 /\ n.heap = g
    BY <1>7, <2>3, <2>4, <2>5 DEF NoFault
  <2>7. LiveThings(g) = LiveThings(m.heap)
    <3>1. g = Unreference(m.heap, id)
      BY <1>7, <2>2
    <3> QED BY <1>3, <2>6, <3>1, Unreferenced
  <2> QED BY <1>8, <2>6, <2>7
<1> QED BY <1>9, <1>10

LEMMA BinopCounts ==
  ASSUME NEW m, NEW module, NEW K \in [Nat -> Nat], NEW h, Ready(m, module, K, h),
         NEW operator \in Operators, NEW n \in Binop(operator, m)
  PROVE  InCall(n, K, h)
<1>1. InCall(m, K, h) /\ m.fault = NoFault
  BY DEF Ready
<1>2. PICK first : first = Pop(m)
  OBVIOUS
<1>3. PICK popped : popped = Pop(first)
  OBVIOUS
<1>4. PICK b : b = TopThing(m)
  OBVIOUS
<1>5. PICK a : a = TopThing(first)
  OBVIOUS
<1>6. InCall(first, K, h)
  BY <1>1, <1>2, PopCounts
<1>7. InCall(popped, K, h)
  BY <1>3, <1>6, PopCounts
<1>8. Typed(popped) /\ TypedHeap(popped.heap)
  BY <1>7 DEF InCall, Good, Typed
<1>9. \/ n = popped
       \/ /\ popped.fault = NoFault
          /\ \/ n = Fail(popped, "operator is defined")
             \/ n \in UseAfterFree(popped, INT)
             \/ \E pair \in ReadAcrossAppend(popped.heap, INT, a) \X ReadAcrossAppend(popped.heap, INT, b) :
                  n = Compute(operator, popped, pair)
  BY <1>2, <1>3, <1>4, <1>5 DEF Binop
<1>10. CASE n = popped
  BY <1>7, <1>10
<1>11. CASE n = Fail(popped, "operator is defined")
  <2>1. InCall(Fail(popped, "operator is defined"), K, h)
    BY <1>8, FailGood DEF NoFault
  <2> QED BY <1>11, <2>1
<1>12. CASE n \in UseAfterFree(popped, INT)
  BY <1>8, <1>12, PointerFails
<1>13. ASSUME popped.fault = NoFault,
              NEW pair \in ReadAcrossAppend(popped.heap, INT, a) \X ReadAcrossAppend(popped.heap, INT, b),
              n = Compute(operator, popped, pair)
       PROVE  InCall(n, K, h)
  <2>1. first.fault = NoFault
    <3>1. first.fault # NoFault => popped = first
      BY <1>3 DEF Pop, Require
    <3> QED BY <1>13, <3>1
  <2>2. b \in LiveThings(first.heap)
    <3>1. Typed(m) /\ m.executor.scopes # <<>>
      BY <1>1 DEF InCall, Good
    <3> QED BY <1>1, <1>2, <1>4, <2>1, <3>1, PoppedIsLive
  <2>3. a \in LiveThings(popped.heap) /\ LiveThings(popped.heap) = LiveThings(first.heap)
    <3>1. Typed(first) /\ first.executor.scopes # <<>>
      BY <1>6, <2>1 DEF InCall, Good
    <3> QED BY <1>3, <1>5, <1>13, <2>1, <3>1, PoppedIsLive
  <2>4. INT \in ThingTypes
    BY DEF ThingTypes
  <2>5. PICK left : left = pair[1]
    OBVIOUS
  <2>6. PICK right : right = pair[2]
    OBVIOUS
  <2>7. left \in Int /\ right \in Int
    <3>1. left \in ReadAcrossAppend(popped.heap, INT, a) /\ right \in ReadAcrossAppend(popped.heap, INT, b)
      BY <2>5, <2>6
    <3>2. a \in LiveThings(popped.heap) /\ b \in LiveThings(popped.heap)
      BY <2>2, <2>3
    <3> QED BY <1>8, <2>4, <3>1, <3>2, ReadIsInt
  <2>8. PICK value : value = Apply(operator, left, right)
    OBVIOUS
  <2>9. \/ n = Fail(popped, "division does not trap")
        \/ /\ operator \in {"DIV", "MOD"} => ~DivisionTraps(left, right)
           /\ n = PushNew(popped, INT, value)
    BY <1>13, <2>5, <2>6, <2>8 DEF Compute, Require
  <2>10. InCall(Fail(popped, "division does not trap"), K, h)
    BY <1>8, FailGood DEF NoFault
  <2>11. ASSUME operator \in {"DIV", "MOD"} => ~DivisionTraps(left, right)
         PROVE  InCall(PushNew(popped, INT, value), K, h)
    <3>1. value \in Int
      BY <2>7, <2>8, <2>11, ApplyTyped
    <3> QED BY <1>7, <2>4, <3>1, PushNewCounts
  <2> QED BY <2>9, <2>10, <2>11
<1> QED BY <1>9, <1>10, <1>11, <1>12, <1>13
=============================================================================

------------------------------ MODULE Runtime -------------------------------
(* A furlang context and the host that drives it (furlang/src/context.c,     *)
(* src/executor.c:9-44 and 163-194, src/module.c, runtime/main.c).  The host *)
(* creates modules and executors, destroys executors, and lets them run one  *)
(* instruction, one round (furlang_context_step) or to the end               *)
(* (furlang_context_run).  One step of the model is one instruction of one   *)
(* executor, or one thing visited by a collection; a failed assertion stops  *)
(* the process.                                                              *)
EXTENDS Instructions

\* The hosts by name.  Each is a record of what it does
\*   calls        the interface functions it uses
\*   modules      what it loads: records [code, functions, globalCount]
\*   entries      the functions it starts
\*   garbage      what uninitialised memory may hold, read as a thing id
\* and how far it goes
\*   maxModules   modules loaded
\*   maxExecutors executors alive
\*   maxDestroys  destroyed executors whose ids wait for reuse
\*   maxFrames    frames of an executor the host pushes one on
\*   maxCells     it starts calls only while the arena is below it
\*   maxFunctions functions of a module the host adds one to
\*   maxDead      it collects only while the dead list is below it
CONSTANT Hosts

ASSUME HostsAssumption ==
  \A h \in Range(Hosts) :
    /\ h.maxExecutors \in Nat /\ h.maxDestroys \in Nat
    /\ h.entries \subseteq Nat
    /\ \A info \in h.modules :
         /\ info.code \in Seq(Int)
         /\ info.functions \in Seq(Range(info.functions))
         /\ \A f \in Range(info.functions) : f.address \in Nat /\ f.paramCount \in Nat
         /\ info.globalCount \in Nat

VARIABLES
  host,           \* the name of the host
  modules,        \* sequence of [code, functions, globals]; handle k is modules[k + 1]
  executors,      \* table of executors
  deadExecutors,  \* ids to be used again, last one first
  heap,
  stray,          \* a global nobody wrote was unreferenced, or the id of a live
                  \* thing was handed out
  fault,
  loop            \* what the host is waiting for

vars == <<host, modules, executors, deadExecutors, heap, stray, fault, loop>>

\* kind: "idle", or the call in progress; at: position of the executor it
\* steps or of the thing it visits next; ran: an executor of this round
\* answered that it still runs.
Idle == [kind |-> "idle", at |-> 0, ran |-> FALSE]
Destroyed == [kind |-> "destroyed", at |-> 0, ran |-> FALSE]

RoundKinds == {"context_step", "context_run"}

Host == Hosts[host]

Running == fault = NoFault
HostRuns(call) == Running /\ loop = Idle /\ call \in Host.calls

Init ==
  /\ host \in DOMAIN Hosts
  /\ modules = <<>>
  /\ executors = EmptyTable
  /\ deadExecutors = <<>>
  /\ heap = EmptyHeap
  /\ stray = FALSE
  /\ fault = NoFault
  /\ loop = Idle

Abort(assertion) ==
  /\ fault' = assertion
  /\ UNCHANGED <<modules, executors, deadExecutors, heap, stray, loop>>
-----------------------------------------------------------------------------
\* The machine of executor id, about to work in module number n (from 0).
MachineOf(id, n) ==
  [heap     |-> heap,
   globals  |-> IF n \in 0..(Len(modules) - 1) THEN modules[n + 1].globals ELSE <<>>,
   executor |-> executors.entry[id],
   stray    |-> stray,
   fault    |-> NoFault]

\* The context after machine m of executor id: nothing but the fault is of
\* interest once an assertion has failed.
Adopt(id, m) ==
  /\ heap' = m.heap
  /\ stray' = m.stray
  /\ executors' = [executors EXCEPT !.entry[id] = m.executor]

\* furlang_module_create: the array of globals is allocated, not initialised.
CreateModule ==
  /\ HostRuns("module_create") /\ Len(modules) < Host.maxModules
  /\ \E info \in Host.modules : \E left \in [1..info.globalCount -> Host.garbage] :
       modules' = Append(modules,
         [code      |-> info.code,
          functions |-> info.functions,
          globals   |-> [g \in 1..info.globalCount |->
                           [thing |-> left[g], written |-> FALSE]]])
  /\ UNCHANGED <<executors, deadExecutors, heap, stray, fault, loop>>

\* furlang_module_add_function asserts that its handle is not zero, the handle
\* of the first module.
AddFunction(n, function) ==
  /\ HostRuns("add_function") /\ Len(modules[n + 1].functions) < Host.maxFunctions
  /\ IF n = 0 THEN Abort("module is not null")
     ELSE /\ modules' = [modules EXCEPT ![n + 1].functions = Append(@, function)]
          /\ UNCHANGED <<executors, deadExecutors, heap, stray, fault, loop>>

\* A slip: the id is the number of executors also when ids are free.
AppendedExecutorIdBySize == TableSize(executors)

AppendedExecutorId ==
  IF deadExecutors # <<>> THEN Last(deadExecutors) ELSE TableSize(executors)

\* furlang_executor_create: append_executor and step_in at the function.
CreateExecutor(n, f) ==
  /\ HostRuns("executor_create")
  /\ TableSize(executors) < Host.maxExecutors /\ Len(heap.cells) < Host.maxCells
  /\ IF f >= Len(modules[n + 1].functions) THEN Abort("function exists")
     ELSE /\ executors' = TablePut(executors, AppendedExecutorId,
               [NewExecutor EXCEPT
                  !.callStack = <<[module |-> n, address |-> modules[n + 1].functions[f + 1].address]>>,
                  !.scopes = <<NewScope>>])
          /\ deadExecutors' = IF deadExecutors # <<>> THEN Front(deadExecutors) ELSE <<>>
          /\ UNCHANGED <<modules, heap, stray, fault, loop>>

\* furlang_executor_destroy: cleanup and remove_executor.
DestroyExecutor(id) ==
  LET cleaned == Cleanup(MachineOf(id, 0))
  IN  /\ HostRuns("executor_destroy") /\ Len(deadExecutors) < Host.maxDestroys
      /\ IF cleaned.fault # NoFault THEN Abort(cleaned.fault)
         ELSE /\ heap' = cleaned.heap
              /\ executors' = TableRemove(executors, id)
              /\ deadExecutors' = Append(deadExecutors, id)
              /\ UNCHANGED <<modules, stray, fault, loop>>

\* furlang_executor_step_in called by the host.
HostStepIn(id, n, f) ==
  LET entered == StepIn(MachineOf(id, n),
        [module |-> n, address |-> modules[n + 1].functions[f + 1].address])
  IN  /\ HostRuns("executor_step_in")
      /\ Len(executors.entry[id].callStack) < Host.maxFrames /\ Len(heap.cells) < Host.maxCells
      /\ IF entered.fault # NoFault THEN Abort(entered.fault)
         ELSE Adopt(id, entered) /\ UNCHANGED <<modules, deadExecutors, fault, loop>>

\* furlang_executor_step_out called by the host.
HostStepOut(id) ==
  LET left == StepOut(MachineOf(id, 0))
  IN  /\ HostRuns("executor_step_out")
      /\ IF left.fault # NoFault THEN Abort(left.fault)
         ELSE Adopt(id, left) /\ UNCHANGED <<modules, deadExecutors, fault, loop>>

\* The slots of all stacks and variables of all executors.
AllSlots == Gathered([id \in TableIds(executors) |-> SlotsOf(executors.entry[id])])

\* furlang_context_destroy cleans up every executor and frees the context.
DestroyContext ==
  /\ HostRuns("context_destroy")
  /\ IF DeadThing \in Range(AllSlots) THEN Abort("variable is live")
     ELSE IF ~CanRelease(heap, AllSlots) THEN Abort("count is positive")
     ELSE /\ heap' = EmptyHeap /\ modules' = <<>>
          /\ executors' = EmptyTable /\ deadExecutors' = <<>>
          /\ loop' = Destroyed
          /\ UNCHANGED <<stray, fault>>
-----------------------------------------------------------------------------
\* furlang_executor_step, furlang_context_step and furlang_context_run begin.
BeginOne(id) ==
  /\ HostRuns("executor_step")
  /\ loop' = [kind |-> "executor_step", at |-> PositionOf(executors.order, id), ran |-> FALSE]
  /\ UNCHANGED <<modules, executors, deadExecutors, heap, stray, fault>>

BeginRounds(kind) ==
  /\ HostRuns(kind) /\ kind \in RoundKinds
  /\ loop' = [kind |-> kind, at |-> 1, ran |-> FALSE]
  /\ UNCHANGED <<modules, executors, deadExecutors, heap, stray, fault>>

\* A slip: run gives up as soon as one executor answered that it is done.
RoundEndsAtFirstFinished ==
  /\ Running /\ loop.kind \in RoundKinds
  /\ loop.at > TableSize(executors)
  /\ loop' = IF loop.kind = "context_run" /\ loop.ran /\
                \A id \in TableIds(executors) : executors.entry[id].running
             THEN [loop EXCEPT !.at = 1, !.ran = FALSE] ELSE Idle
  /\ UNCHANGED <<modules, executors, deadExecutors, heap, stray, fault>>

\* The FOREACH of context_step is through: run begins another round as long as
\* an executor ran in this one.
RoundEnds ==
  /\ Running /\ loop.kind \in RoundKinds
  /\ loop.at > TableSize(executors)
  /\ loop' = IF loop.kind = "context_run" /\ loop.ran
             THEN [loop EXCEPT !.at = 1, !.ran = FALSE] ELSE Idle
  /\ UNCHANGED <<modules, executors, deadExecutors, heap, stray, fault>>

Stepping ==
  /\ Running /\ loop.kind \in RoundKinds \cup {"executor_step"}
  /\ loop.at \in DOMAIN executors.order

CurrentId == executors.order[loop.at]
Current   == executors.entry[CurrentId]
At        == Last(Current.callStack)
Code      == modules[At.module + 1].code

\* The assertions before the switch, in the order of executor.c:42-44, that
\* the executor fails, or "none".  PAUSED is never set in this code.
FetchFault ==
  CASE Current.callStack = <<>>                -> "call stack is not empty"
    [] At.module >= Len(modules)               -> "module exists"
    [] ~Current.running                        -> "executor is running"
    [] ~IsBelow(At.address, Len(Code))         -> "address is inside the bytecode"
    [] ~IsBelow(Code[At.address + 1], Len(Mnemonics)) -> "instruction exists"
    [] OTHER                                   -> NoFault

CannotFetch == Stepping /\ FetchFault # NoFault /\ Abort(FetchFault)

CanFetch == Stepping /\ FetchFault = NoFault

Instruction == Mnemonics[Code[At.address + 1] + 1]

\* The answer of executor_step goes to the loop that asked.
NextExecutor(ran) ==
  IF loop.kind = "executor_step" THEN Idle
  ELSE [loop EXCEPT !.at = @ + 1, !.ran = @ \/ ran]

\* One instruction: it leaves one of the given machines.
Execute(mnemonic, Outcomes(_, _)) ==
  /\ Instruction = mnemonic
  /\ \E m \in Outcomes(MoveTo(MachineOf(CurrentId, At.module), At.address + 1),
                       modules[At.module + 1]) :
       IF m.fault # NoFault
       THEN /\ fault' = m.fault /\ stray' = (stray \/ m.stray)
            /\ UNCHANGED <<modules, executors, deadExecutors, heap, loop>>
       ELSE /\ Adopt(CurrentId, m)
            /\ modules' = [modules EXCEPT ![At.module + 1].globals = m.globals]
            /\ loop' = NextExecutor(m.executor.callStack # <<>>)
            /\ UNCHANGED <<deadExecutors, fault>>

ExecuteInstruction ==
  \/ Execute("NOP", Nop)
  \/ Execute("IPUSH", Ipush)
  \/ Execute("BIPUSH", Bipush)
  \/ Execute("FPUSH", Fpush)
  \/ Execute("SFPUSH", Sfpush)
  \/ Execute("DUP", Dup)
  \/ Execute("SWAP", Swap)
  \/ Execute("POP", PopOne)
  \/ Execute("RET", Ret)
  \/ Execute("STR", Str)
  \/ Execute("LOD", Lod)
  \/ Execute("STRG", Strg)
  \/ Execute("LODG", Lodg)
  \/ Execute("JMP", Jmp)
  \/ Execute("JZ", Jz)
  \/ Execute("JNZ", Jnz)
  \/ Execute("CALL", Call)
  \/ Execute("ADD", Add)
  \/ Execute("SUB", Sub)
  \/ Execute("MUL", Mul)
  \/ Execute("DIV", Div)
  \/ Execute("MOD", Mod)

Step == CannotFetch \/ (CanFetch /\ ExecuteInstruction)
-----------------------------------------------------------------------------
\* furlang_context_collect starts its FOREACH over the things.
BeginCollect ==
  /\ HostRuns("context_collect") /\ Len(heap.dead) < Host.maxDead
  /\ loop' = [kind |-> "context_collect", at |-> 1, ran |-> FALSE]
  /\ UNCHANGED <<modules, executors, deadExecutors, heap, stray, fault>>

Collecting == Running /\ loop.kind = "context_collect"

CollectVisit ==
  /\ Collecting /\ loop.at \in DOMAIN heap.things.order
  /\ heap' = AfterVisit(heap, loop.at)
  /\ loop' = [loop EXCEPT !.at = @ + 1]
  /\ UNCHANGED <<modules, executors, deadExecutors, stray, fault>>

\* The loop ends when the cursor equals the end of the shrunken array; a
\* cursor beyond it reads stale ids until an assertion or the MMU stops it.
CollectEnds ==
  /\ Collecting /\ loop.at > TableSize(heap.things)
  /\ IF loop.at # TableSize(heap.things) + 1 THEN Abort("cursor is inside the table")
     ELSE /\ loop' = Idle
          /\ UNCHANGED <<modules, executors, deadExecutors, heap, stray, fault>>
-----------------------------------------------------------------------------
ModuleHandles == 0..(Len(modules) - 1)
FunctionsOf(n) == 0..(Len(modules[n + 1].functions) - 1)

HostNext ==
  \/ CreateModule
  \/ \E n \in ModuleHandles :
       \/ \E f \in FunctionsOf(n) : AddFunction(n, modules[n + 1].functions[f + 1])
       \/ \E f \in Host.entries : CreateExecutor(n, f)
  \/ \E id \in TableIds(executors) :
       \/ DestroyExecutor(id)
       \/ \E n \in ModuleHandles : \E f \in FunctionsOf(n) : HostStepIn(id, n, f)
       \/ HostStepOut(id)
       \/ BeginOne(id)
  \/ \E kind \in RoundKinds : BeginRounds(kind)
  \/ BeginCollect
  \/ DestroyContext

\* What the library does while a call is in progress.
LibraryNext == RoundEnds \/ Step \/ CollectVisit \/ CollectEnds

Next == (HostNext \/ LibraryNext) /\ UNCHANGED host

Spec == Init /\ [][Next]_vars

Busy == Running /\ loop \notin {Idle, Destroyed}

\* A call of the library goes on as long as the host's only thread is
\* scheduled: the library never waits.  A step of it is possible exactly when
\* a call is in progress, so this is WF_vars(LibraryNext).
Fairness == []<>~Busy \/ []<><<LibraryNext>>_vars

FairSpec == Spec /\ Fairness
-----------------------------------------------------------------------------
Executor(id) == executors.entry[id]

ExecutorTypeOK(e) ==
  /\ e.running \in BOOLEAN
  /\ \A k \in DOMAIN e.callStack :
       e.callStack[k].module \in Nat /\ e.callStack[k].address \in Int
  /\ \A s \in DOMAIN e.scopes :
       /\ \A v \in DOMAIN e.scopes[s].variables : e.scopes[s].variables[v] \in Nat \cup {DeadThing}
       /\ \A t \in DOMAIN e.scopes[s].stack : e.scopes[s].stack[t] \in Nat

TypeOK ==
  /\ host \in DOMAIN Hosts
  /\ HeapTypeOK(heap)
  /\ \A id \in TableIds(executors) : id \in Nat /\ ExecutorTypeOK(Executor(id))
  /\ \A k \in DOMAIN deadExecutors : deadExecutors[k] \in Nat
  /\ loop.at \in Nat /\ loop.ran \in BOOLEAN
  /\ stray \in BOOLEAN

\* An id handed out is never the id of a living executor: living and free ids
\* are apart, no free id is listed twice, and together they are 0 .. n - 1, so
\* that the number of executors is free when the list of free ids is empty
\* (context.c:72-76).
ExecutorIds ==
  LET free == {deadExecutors[k] : k \in DOMAIN deadExecutors}
  IN  /\ TableIds(executors) \cap free = {}
      /\ TableIds(executors) \cup free = 0..(TableSize(executors) + Len(deadExecutors) - 1)
      /\ TableIds(executors) = {executors.order[k] : k \in DOMAIN executors.order}
      /\ \A j, k \in DOMAIN executors.order : executors.order[j] = executors.order[k] => j = k
      /\ \A j, k \in DOMAIN deadExecutors : deadExecutors[j] = deadExecutors[k] => j = k

\* Each call has its scope, and an executor is marked running as long as it
\* has a call: RET, CALL, and the host's own step_in and step_out keep the two
\* stacks and the flag together (executor.c:163-181).
FramesMatch ==
  \A id \in TableIds(executors) :
    /\ Len(Executor(id).callStack) = Len(Executor(id).scopes)
    /\ Executor(id).running <=> Executor(id).callStack # <<>>

\* The globals of all modules that were ever written.
WrittenGlobals == Gathered([n \in DOMAIN modules |-> Written(modules[n].globals)])

\* The count of every thing is the number of places that hold it, over all
\* stacks and variables of all frames of all executors and the globals of all
\* modules, and so no unreference ever finds a count of zero, whatever the
\* program and the host do, collections included - unless a global nobody
\* wrote was unreferenced, or the id of a live thing was handed out.
CountsExact ==
  ~stray =>
    /\ \A t \in LiveThings(heap) :
         Thing(heap, t).references =
           Occurrences(t, AllSlots) + Occurrences(t, WrittenGlobals)
    /\ fault # "count is positive"

HeldThings == (Range(AllSlots) \ {DeadThing}) \cup Range(WrittenGlobals)

\* Things are values: DUP and the operators make new ones, and STR, LOD, CALL
\* share them between slots, so no instruction may ever change the type or the
\* data of a thing that exists (executor.c:46-154), and no collection may take
\* one that a stack, a variable or a global of any executor still holds
\* (context.c:39-44).
ThingsAreImmutable ==
  [][loop' # Destroyed /\ ~stray' =>
       \A t \in IF loop.kind = "context_collect" THEN HeldThings ELSE LiveThings(heap) :
         /\ t \in LiveThings(heap')
         /\ Thing(heap', t).type = Thing(heap, t).type
         /\ Value(heap', t) = Value(heap, t)]_vars

\* furlang_context_run comes back only when no executor is running any more
\* (context.c:54-65).
RunReturnsWhenAllFinished ==
  [][loop.kind = "context_run" /\ loop'.kind = "idle" =>
       \A id \in TableIds(executors') : ~executors'.entry[id].running]_vars

\* The executors of a context are tasks.
ExecutorStatus ==
  [id \in TableIds(executors) |-> IF Executor(id).running THEN "running" ELSE "finished"]

PossibleIds == UNION {0..(h.maxExecutors + h.maxDestroys) : h \in Range(Hosts)}

Task == INSTANCE Tasks WITH TaskIds <- PossibleIds, status <- ExecutorStatus

\* For every host and every program the table of executors behaves like
\* Tasks: ids are never shared, and finishing is final (context.c:69-92,
\* executor.c:163-194).
ImplementsTasks == Task!Spec

StoredVariable == ShortOf(SubSeq(Code, At.address + 2, At.address + 3))

\* A run of a terminating program comes back or is stopped by an assertion:
\* the rounds cannot go on with nothing left to do (context.c:54-65).  The one
\* exception is a store into a variable from 32767 on, which doubles a
\* capacity of 16 bits for ever (da.h:47).
CallsReturn ==
  loop # Idle ~>
    \/ loop \in {Idle, Destroyed}
    \/ fault \notin {NoFault, Hangs}
    \/ fault = Hangs /\ Instruction = "STR" /\ StoredVariable >= ShortModulus \div 2 - 1

\* executor.c:203-204, assert(e->flags & RUNNING) and assert(callStack.count): in
\* a round with work left, only executors that run are asked for their next
\* instruction.
OnlyRunningExecutorsAreStepped ==
  fault = "call stack is not empty" =>
    \A id \in TableIds(executors) : ~Executor(id).running

\* sparseSet.h:73, the assertion in GET: returning from a function unreferences
\* only things that are in the table.
ReturnReleasesOnlyThings == fault # "variable is live"

\* executor.c:110, 115 and 120, assert(addr < module->bytecodeLength): a jump
\* that was assembled to an address inside the bytecode finds it there.
JumpTargetsAreInside == fault # "jump target is inside the bytecode"

=============================================================================

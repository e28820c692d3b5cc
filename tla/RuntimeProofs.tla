---------------------------- MODULE RuntimeProofs ---------------------------
(* Proofs about a context, for every program and every host.  Executors: the *)
(* ids handed out are never the ids of living ones, frames match, they       *)
(* behave like Tasks, and a run comes back only when all have finished.      *)
(* Things: the count of a thing is the number of places that hold it, things *)
(* never change, and what is held is never collected                         *)
(* (furlang/src/context.c:20-128, src/executor.c:9-343, src/thing.c).        *)
EXTENDS Runtime, MachineProofs, TLAPS

-----------------------------------------------------------------------------
\* The inductive invariant behind ExecutorIds.
IdsInv ==
  /\ WellFormed(executors)
  /\ IdsPartition(executors.order, deadExecutors)
-----------------------------------------------------------------------------
\* What an instruction does to the executors: it adopts the machine it leaves.
LEMMA InstructionsAdopt ==
  ASSUME ExecuteInstruction
  PROVE  /\ UNCHANGED deadExecutors
         /\ \/ UNCHANGED executors
            \/ \E m : executors' = [executors EXCEPT !.entry[CurrentId] = m.executor]
BY DEF ExecuteInstruction, Execute, Adopt

LEMMA InitIds == Init => IdsInv
<1> SUFFICES ASSUME Init PROVE IdsInv
  OBVIOUS
<1>1. executors = [order |-> <<>>, entry |-> <<>>] /\ deadExecutors = <<>>
  BY DEF Init, EmptyTable
<1>2. WellFormed(executors)
  BY <1>1 DEF WellFormed, TableIds
<1>3. IdsPartition(executors.order, deadExecutors)
  BY <1>1 DEF IdsPartition, Distinct, Within
<1> QED BY <1>2, <1>3 DEF IdsInv

\* Changing the entry of an executor leaves the ids as they are.
LEMMA ChangedIds ==
  ASSUME IdsInv, NEW id, NEW e, UNCHANGED deadExecutors,
         executors' = [executors EXCEPT !.entry[id] = e]
  PROVE  IdsInv'
BY ChangedEntry DEF IdsInv

LEMMA NextIds == IdsInv /\ [Next]_vars => IdsInv'
<1> SUFFICES ASSUME IdsInv, [Next]_vars PROVE IdsInv'
  OBVIOUS
<1> DEFINE Unmoved == UNCHANGED <<executors, deadExecutors>>
<1>1. ASSUME Unmoved PROVE IdsInv'
  BY <1>1 DEF IdsInv, WellFormed, TableIds
<1>2. WellFormed(executors) /\ IdsPartition(executors.order, deadExecutors)
      /\ executors.order \in Seq(Nat) /\ Distinct(executors.order)
      /\ deadExecutors \in Seq(Nat)
  BY DEF IdsInv, IdsPartition
<1>3. ASSUME NEW n, NEW f, CreateExecutor(n, f) PROVE IdsInv'
  <2>1. CASE f >= Len(modules[n + 1].functions)
    BY <1>1, <1>3, <2>1 DEF CreateExecutor, Abort
  <2>2. CASE ~(f >= Len(modules[n + 1].functions))
    <3>1. PICK e : executors' = TablePut(executors, AppendedExecutorId, e)
      BY <1>3, <2>2 DEF CreateExecutor
    <3>2. deadExecutors' = IF deadExecutors # <<>> THEN Front(deadExecutors) ELSE <<>>
      BY <1>3, <2>2 DEF CreateExecutor
    <3>3. CASE deadExecutors = <<>>
      <4>1. AppendedExecutorId = Len(executors.order)
        BY <3>3 DEF AppendedExecutorId, TableSize
      <4>2. /\ IdsPartition(Append(executors.order, Len(executors.order)), <<>>)
            /\ ~Within(Len(executors.order), executors.order)
        BY <1>2, <3>3, FreshId
      <4>3. Len(executors.order) \in Nat /\ Len(executors.order) \notin TableIds(executors)
        BY <1>2, <4>2 DEF WellFormed, Within
      <4> QED BY <1>2, <3>1, <3>2, <3>3, <4>1, <4>2, <4>3, PutNew DEF IdsInv
    <3>4. CASE deadExecutors # <<>>
      <4>1. AppendedExecutorId = Last(deadExecutors)
        BY <3>4 DEF AppendedExecutorId
      <4>2. /\ IdsPartition(Append(executors.order, Last(deadExecutors)), Front(deadExecutors))
            /\ ~Within(Last(deadExecutors), executors.order)
        BY <1>2, <3>4, ReusedId
      <4>3. Last(deadExecutors) \in Nat /\ Last(deadExecutors) \notin TableIds(executors)
        BY <1>2, <3>4, <4>2 DEF WellFormed, Within, Last
      <4> QED BY <1>2, <3>1, <3>2, <3>4, <4>1, <4>2, <4>3, PutNew DEF IdsInv
    <3> QED BY <3>3, <3>4
  <2> QED BY <2>1, <2>2
<1>4. ASSUME NEW id \in TableIds(executors), DestroyExecutor(id) PROVE IdsInv'
  <2>1. \/ Unmoved
        \/ /\ executors' = TableRemove(executors, id)
           /\ deadExecutors' = Append(deadExecutors, id)
    BY <1>4 DEF DestroyExecutor, Abort
  <2>2. CASE executors' = TableRemove(executors, id)
             /\ deadExecutors' = Append(deadExecutors, id)
    <3>1. PICK p \in DOMAIN executors.order :
            /\ executors.order[p] = id
            /\ TableRemove(executors, id).order = SwapRemove(executors.order, p)
            /\ WellFormed(TableRemove(executors, id))
      BY <1>2, RemovedEntry
    <3>2. IdsPartition(SwapRemove(executors.order, p), Append(deadExecutors, id))
      BY <1>2, <3>1, RetiredId
    <3> QED BY <2>2, <3>1, <3>2 DEF IdsInv
  <2> QED BY <1>1, <2>1, <2>2
<1>5. ASSUME NEW id, NEW n, NEW f, HostStepIn(id, n, f) PROVE IdsInv'
  <2>1. \/ Unmoved
        \/ UNCHANGED deadExecutors /\ \E e : executors' = [executors EXCEPT !.entry[id] = e]
    BY <1>5 DEF HostStepIn, Abort, Adopt
  <2> QED BY <1>1, <2>1, ChangedIds
<1>6. ASSUME NEW id, HostStepOut(id) PROVE IdsInv'
  <2>1. \/ Unmoved
        \/ UNCHANGED deadExecutors /\ \E e : executors' = [executors EXCEPT !.entry[id] = e]
    BY <1>6 DEF HostStepOut, Abort, Adopt
  <2> QED BY <1>1, <2>1, ChangedIds
<1>7. CASE DestroyContext
  <2>1. \/ Unmoved
        \/ executors' = EmptyTable /\ deadExecutors' = <<>>
    BY <1>7 DEF DestroyContext, Abort
  <2>2. CASE executors' = EmptyTable /\ deadExecutors' = <<>>
    <3>1. executors' = [order |-> <<>>, entry |-> <<>>] /\ deadExecutors' = <<>>
      BY <2>2 DEF EmptyTable
    <3>2. WellFormed(executors')
      BY <3>1 DEF WellFormed, TableIds
    <3>3. IdsPartition(executors'.order, deadExecutors')
      BY <3>1 DEF IdsPartition, Distinct, Within
    <3> QED BY <3>2, <3>3 DEF IdsInv
  <2> QED BY <1>1, <2>1, <2>2
<1>8. CASE CreateModule
  BY <1>1, <1>8 DEF CreateModule
<1>9. ASSUME NEW n, NEW function, AddFunction(n, function) PROVE IdsInv'
  BY <1>1, <1>9 DEF AddFunction, Abort
<1>10. ASSUME NEW id, BeginOne(id) PROVE IdsInv'
  BY <1>1, <1>10 DEF BeginOne
<1>11. ASSUME NEW kind, BeginRounds(kind) PROVE IdsInv'
  BY <1>1, <1>11 DEF BeginRounds
<1>12. CASE RoundEnds
  BY <1>1, <1>12 DEF RoundEnds
<1>13. CASE Step
  <2>1. CASE CannotFetch
    BY <1>1, <2>1 DEF CannotFetch, Abort
  <2>2. CASE CanFetch /\ ExecuteInstruction
    BY <1>1, <2>2, InstructionsAdopt, ChangedIds
  <2> QED BY <1>13, <2>1, <2>2 DEF Step
<1>14. CASE BeginCollect
  BY <1>1, <1>14 DEF BeginCollect
<1>15. CASE CollectVisit
  BY <1>1, <1>15 DEF CollectVisit
<1>16. CASE CollectEnds
  BY <1>1, <1>16 DEF CollectEnds, Abort
<1>17. CASE UNCHANGED vars
  BY <1>1, <1>17 DEF vars
<1> QED
  BY <1>3, <1>4, <1>5, <1>6, <1>7, <1>8, <1>9, <1>10, <1>11, <1>12, <1>13, <1>14, <1>15,
     <1>16, <1>17 DEF Next, HostNext, LibraryNext

\* The inductive invariant says what ExecutorIds says.
LEMMA IdsSuffice == IdsInv => ExecutorIds
<1> SUFFICES ASSUME IdsInv PROVE ExecutorIds
  OBVIOUS
<1> DEFINE living == executors.order
<1> DEFINE free == {deadExecutors[k] : k \in DOMAIN deadExecutors}
<1>1. /\ TableIds(executors) = {living[k] : k \in DOMAIN living}
      /\ IdsPartition(living, deadExecutors)
  BY DEF IdsInv, WellFormed
<1>2. living \in Seq(Nat) /\ deadExecutors \in Seq(Nat)
      /\ Distinct(living) /\ Distinct(deadExecutors)
  BY <1>1 DEF IdsPartition
<1>3. TableIds(executors) \cap free = {}
  BY <1>1 DEF IdsPartition
<1>4. TableIds(executors) \cup free = 0..(Len(living) + Len(deadExecutors) - 1)
  <2>1. \A i \in Nat : i < Len(living) + Len(deadExecutors)
                         <=> i \in TableIds(executors) \/ i \in free
    BY <1>1 DEF IdsPartition, Within
  <2>2. TableIds(executors) \subseteq Nat /\ free \subseteq Nat
    BY <1>1, <1>2
  <2>3. Len(living) \in Nat /\ Len(deadExecutors) \in Nat
    BY <1>2
  <2> DEFINE known == TableIds(executors) \cup free
  <2> DEFINE total == Len(living) + Len(deadExecutors)
  <2>4. known \subseteq Nat /\ total \in Nat /\ \A i \in Nat : i < total <=> i \in known
    BY <2>1, <2>2, <2>3
  <2> HIDE DEF known, total
  <2>5. known = 0..(total - 1)
    <3>1. ASSUME NEW i \in known PROVE i \in 0..(total - 1)
      <4>1. i \in Nat /\ i < total /\ total \in Nat
        BY <2>4
      <4> QED BY <4>1
    <3>2. ASSUME NEW i \in 0..(total - 1) PROVE i \in known
      <4>1. i \in Nat /\ i < total
        BY <2>4
      <4> QED BY <2>4, <4>1
    <3> QED BY <3>1, <3>2
  <2> QED BY <2>5 DEF known, total
<1> QED BY <1>1, <1>2, <1>3, <1>4 DEF ExecutorIds, Distinct, TableSize

\* For every host, every program and every bound, an id handed out by
\* append_executor (context.c:69-80) is not the id of a living executor, and
\* living and free ids together are 0 .. n - 1.
THEOREM ExecutorIdsHold == Spec => []ExecutorIds
<1>1. Init => IdsInv
  BY InitIds
<1>2. IdsInv /\ [Next]_vars => IdsInv'
  BY NextIds
<1>3. IdsInv => ExecutorIds
  BY IdsSuffice
<1> QED BY <1>1, <1>2, <1>3, PTL DEF Spec
-----------------------------------------------------------------------------
\* Every living executor has its frames in order.
EntriesFramed(table) == \A id \in TableIds(table) : Framed(table.entry[id])

\* The host keeps its bounds.
HostInv ==
  /\ host \in DOMAIN Hosts
  /\ TableSize(executors) <= Host.maxExecutors
  /\ Len(deadExecutors) <= Host.maxDestroys

ExecutorsInv == IdsInv /\ EntriesFramed(executors) /\ HostInv
-----------------------------------------------------------------------------
\* The operations on a table keep the entries they leave.
LEMMA PutFramed ==
  ASSUME NEW t, EntriesFramed(t), NEW id, NEW e, Framed(e)
  PROVE  EntriesFramed(TablePut(t, id, e))
<1> DEFINE put == TablePut(t, id, e)
<1>1. CASE id \notin TableIds(t)
  <2>1. put.entry = [i \in TableIds(t) \cup {id} |-> IF i = id THEN e ELSE t.entry[i]]
    BY <1>1 DEF TablePut
  <2> HIDE DEF put
  <2>2. EntriesFramed(put)
    BY <2>1 DEF EntriesFramed, TableIds
  <2> QED BY <2>2 DEF put
<1>2. CASE id \in TableIds(t)
  BY <1>2 DEF TablePut, EntriesFramed, TableIds
<1> QED BY <1>1, <1>2

LEMMA ChangedFramed ==
  ASSUME NEW t, WellFormed(t), EntriesFramed(t), NEW id, NEW e, Framed(e)
  PROVE  EntriesFramed([t EXCEPT !.entry[id] = e])
<1>1. t = [order |-> t.order, entry |-> t.entry]
  BY DEF WellFormed
<1>2. [t EXCEPT !.entry[id] = e].entry = [t.entry EXCEPT ![id] = e]
  BY <1>1
<1> QED BY <1>2 DEF EntriesFramed, TableIds

LEMMA RemovedFramed ==
  ASSUME NEW t, EntriesFramed(t), NEW id
  PROVE  EntriesFramed(TableRemove(t, id))
BY DEF EntriesFramed, TableRemove, TableIds
-----------------------------------------------------------------------------
\* A new executor is in the function the host starts.
LEMMA NewExecutorFramed ==
  ASSUME NEW position
  PROVE  Framed([NewExecutor EXCEPT !.callStack = <<position>>, !.scopes = <<NewScope>>])
<1> DEFINE e == [running |-> TRUE, callStack |-> <<position>>, scopes |-> <<NewScope>>]
<1>1. [NewExecutor EXCEPT !.callStack = <<position>>, !.scopes = <<NewScope>>] = e
  <2> DEFINE running == TRUE
  <2> DEFINE calls == <<position>>
  <2> DEFINE scopes == <<NewScope>>
  <2> DEFINE called == [NewExecutor EXCEPT !.callStack = calls]
  <2> DEFINE empty == <<>>
  <2>1. NewExecutor = [running |-> running, callStack |-> empty, scopes |-> empty]
    BY DEF NewExecutor
  <2>2. e = [running |-> running, callStack |-> calls, scopes |-> scopes]
    OBVIOUS
  <2>3. [NewExecutor EXCEPT !.callStack = <<position>>, !.scopes = <<NewScope>>]
          = [called EXCEPT !.scopes = scopes]
    OBVIOUS
  <2> HIDE DEF running, calls, scopes, empty, e
  <2>4. called = [running |-> running, callStack |-> calls, scopes |-> empty]
    BY <2>1
  <2> HIDE DEF called
  <2>5. [called EXCEPT !.scopes = scopes] = e
    BY <2>2, <2>4
  <2> QED BY <2>3, <2>5
<1>2. IsSequence(<<position>>) /\ IsSequence(<<NewScope>>)
  <2>1. <<position>> \in Seq({position}) /\ <<NewScope>> \in Seq({NewScope})
    OBVIOUS
  <2> QED BY <2>1 DEF IsSequence
<1>3. Framed(e)
  BY <1>2 DEF Framed, IsExecutor
<1> QED BY <1>1, <1>3

\* The machine an executor becomes is sound.
LEMMA MachineSound ==
  ASSUME NEW id, Framed(executors.entry[id]), NEW n
  PROVE  Sound(MachineOf(id, n))
BY DEF Sound, IsMachine, MachineOf

\* One instruction leaves one of the machines of its operator.
LEMMA ExecutedOutcome ==
  ASSUME ExecuteInstruction
  PROVE  \E m \in Outcomes(MoveTo(MachineOf(CurrentId, At.module), At.address + 1),
                           modules[At.module + 1]) :
           IF m.fault # NoFault
           THEN UNCHANGED <<executors, deadExecutors, loop>>
           ELSE /\ executors' = [executors EXCEPT !.entry[CurrentId] = m.executor]
                /\ loop' = NextExecutor(m.executor.callStack # <<>>)
                /\ UNCHANGED deadExecutors
BY DEF ExecuteInstruction, Execute, Adopt, Outcomes
-----------------------------------------------------------------------------
\* What a step may do to the executors.
Stays == UNCHANGED <<executors, deadExecutors>>

Starts ==
  \E e : /\ Framed(e) /\ e.running = TRUE
        /\ TableSize(executors) < Host.maxExecutors
        /\ executors' = TablePut(executors, AppendedExecutorId, e)
        /\ deadExecutors' = IF deadExecutors # <<>> THEN Front(deadExecutors) ELSE <<>>

Goes ==
  \E id \in TableIds(executors) : \E e :
    /\ Executor(id).running = TRUE /\ Framed(e)
    /\ executors' = [executors EXCEPT !.entry[id] = e]
    /\ UNCHANGED deadExecutors

Ends ==
  \E id \in TableIds(executors) :
    /\ Len(deadExecutors) < Host.maxDestroys
    /\ executors' = TableRemove(executors, id)
    /\ deadExecutors' = Append(deadExecutors, id)

Clears == executors' = EmptyTable /\ deadExecutors' = <<>>

LEMMA CreateStarts ==
  ASSUME NEW n, NEW f, CreateExecutor(n, f)
  PROVE  Stays \/ Starts
<1>1. CASE f >= Len(modules[n + 1].functions)
  BY <1>1 DEF CreateExecutor, Abort, Stays
<1>2. CASE ~(f >= Len(modules[n + 1].functions))
  <2> DEFINE position == [module |-> n, address |-> modules[n + 1].functions[f + 1].address]
  <2> DEFINE e == [NewExecutor EXCEPT !.callStack = <<position>>, !.scopes = <<NewScope>>]
  <2>1. /\ TableSize(executors) < Host.maxExecutors
        /\ executors' = TablePut(executors, AppendedExecutorId, e)
        /\ deadExecutors' = IF deadExecutors # <<>> THEN Front(deadExecutors) ELSE <<>>
    BY <1>2 DEF CreateExecutor
  <2>2. e.running = TRUE
    BY DEF NewExecutor
  <2>3. Framed(e)
    <3> HIDE DEF position
    <3> QED BY NewExecutorFramed
  <2> HIDE DEF e
  <2> QED BY <2>1, <2>2, <2>3 DEF Starts
<1> QED BY <1>1, <1>2

LEMMA DestroyEnds ==
  ASSUME NEW id \in TableIds(executors), DestroyExecutor(id)
  PROVE  Stays \/ Ends
BY DEF DestroyExecutor, Abort, Stays, Ends

\* An executor with its frames in order is marked running when it has a call.
LEMMA CallsRun ==
  ASSUME NEW e, Framed(e), e.callStack # <<>>
  PROVE  e.running = TRUE
BY DEF Framed, IsExecutor

LEMMA HostStepInGoes ==
  ASSUME EntriesFramed(executors), NEW id \in TableIds(executors), NEW n, NEW f,
         HostStepIn(id, n, f)
  PROVE  Stays \/ Goes
<1> DEFINE position == [module |-> n, address |-> modules[n + 1].functions[f + 1].address]
<1> DEFINE entered == StepIn(MachineOf(id, n), position)
<1>1. Framed(Executor(id))
  BY DEF EntriesFramed, Executor
<1>2. Sound(entered)
  <2> HIDE DEF position
  <2> QED BY <1>1, MachineSound, StepInSound DEF Executor
<1>3. Stays \/ /\ entered.fault = NoFault
               /\ executors' = [executors EXCEPT !.entry[id] = entered.executor]
               /\ UNCHANGED deadExecutors
  BY DEF HostStepIn, Abort, Adopt, Stays
<1>4. entered.fault = NoFault => Executor(id).running = TRUE
  BY <1>1 DEF StepIn, Require, Fail, MachineOf, Executor, NoFault, Framed, IsExecutor
<1> HIDE DEF entered
<1> QED BY <1>2, <1>3, <1>4 DEF Sound, Goes

LEMMA HostStepOutGoes ==
  ASSUME EntriesFramed(executors), NEW id \in TableIds(executors), HostStepOut(id)
  PROVE  Stays \/ Goes
<1> DEFINE left == StepOut(MachineOf(id, 0))
<1>1. Framed(Executor(id))
  BY DEF EntriesFramed, Executor
<1>2. Sound(left)
  BY <1>1, MachineSound, StepOutSound DEF Executor
<1>3. Stays \/ /\ left.fault = NoFault
               /\ executors' = [executors EXCEPT !.entry[id] = left.executor]
               /\ UNCHANGED deadExecutors
  BY DEF HostStepOut, Abort, Adopt, Stays
<1>4. left.fault = NoFault => Executor(id).callStack # <<>>
  BY DEF StepOut, Require, Fail, MachineOf, Executor, NoFault
<1> HIDE DEF left
<1> QED BY <1>1, <1>2, <1>3, <1>4, CallsRun DEF Sound, Goes

\* The executor whose turn it is.
LEMMA CurrentIsLiving ==
  ASSUME IdsInv, Stepping
  PROVE  CurrentId \in TableIds(executors)
BY DEF IdsInv, WellFormed, Stepping, CurrentId

LEMMA InstructionOutcome ==
  ASSUME IdsInv, EntriesFramed(executors), CanFetch, ExecuteInstruction
  PROVE  \/ UNCHANGED <<executors, deadExecutors, loop>>
         \/ /\ CurrentId \in TableIds(executors) /\ Executor(CurrentId).running = TRUE
            /\ \E e : /\ Framed(e)
                     /\ executors' = [executors EXCEPT !.entry[CurrentId] = e]
                     /\ loop' = NextExecutor(e.callStack # <<>>)
            /\ UNCHANGED deadExecutors
<1> DEFINE moved == MoveTo(MachineOf(CurrentId, At.module), At.address + 1)
<1>1. CurrentId \in TableIds(executors) /\ Framed(executors.entry[CurrentId])
  BY CurrentIsLiving DEF CanFetch, EntriesFramed
<1>2. Executor(CurrentId).running = TRUE
  <2>1. Current.callStack # <<>>
    BY DEF CanFetch, FetchFault, NoFault
  <2> QED BY <1>1, <2>1, CallsRun DEF Executor, Current
<1>3. Sound(moved)
  BY <1>1, MachineSound, MoveToSound
<1>4. PICK m \in Outcomes(moved, modules[At.module + 1]) :
        IF m.fault # NoFault
        THEN UNCHANGED <<executors, deadExecutors, loop>>
        ELSE /\ executors' = [executors EXCEPT !.entry[CurrentId] = m.executor]
             /\ loop' = NextExecutor(m.executor.callStack # <<>>)
             /\ UNCHANGED deadExecutors
  BY ExecutedOutcome
<1> HIDE DEF moved
<1>5. Sound(m)
  BY <1>3, <1>4, InstructionsSound
<1>6. CASE m.fault # NoFault
  BY <1>4, <1>6
<1>7. CASE m.fault = NoFault
  <2>1. Framed(m.executor)
    BY <1>5, <1>7 DEF Sound
  <2> QED BY <1>1, <1>2, <1>4, <1>7, <2>1
<1> QED BY <1>6, <1>7

LEMMA InstructionGoes ==
  ASSUME IdsInv, EntriesFramed(executors), CanFetch, ExecuteInstruction
  PROVE  Stays \/ Goes
BY InstructionOutcome DEF Stays, Goes

LEMMA ExecutorsStep ==
  ASSUME IdsInv, EntriesFramed(executors), [Next]_vars
  PROVE  Stays \/ Starts \/ Goes \/ Ends \/ Clears
<1>1. CASE UNCHANGED vars
  BY <1>1 DEF vars, Stays
<1>2. CASE DestroyContext
  BY <1>2 DEF DestroyContext, Abort, Stays, Clears
<1>3. CASE CreateModule \/ BeginCollect \/ CollectVisit \/ CollectEnds \/ RoundEnds
  BY <1>3 DEF CreateModule, BeginCollect, CollectVisit, CollectEnds, RoundEnds, Abort, Stays
<1>4. ASSUME NEW n, NEW function, AddFunction(n, function) PROVE Stays
  BY <1>4 DEF AddFunction, Abort, Stays
<1>5. ASSUME NEW id, BeginOne(id) PROVE Stays
  BY <1>5 DEF BeginOne, Stays
<1>6. ASSUME NEW kind, BeginRounds(kind) PROVE Stays
  BY <1>6 DEF BeginRounds, Stays
<1>7. CASE Step
  <2>1. CASE CannotFetch
    BY <2>1 DEF CannotFetch, Abort, Stays
  <2>2. CASE CanFetch /\ ExecuteInstruction
    BY <2>2, InstructionGoes
  <2> QED BY <1>7, <2>1, <2>2 DEF Step
<1> QED
  BY <1>1, <1>2, <1>3, <1>4, <1>5, <1>6, <1>7, CreateStarts, DestroyEnds, HostStepInGoes,
     HostStepOutGoes DEF Next, HostNext, LibraryNext
-----------------------------------------------------------------------------
LEMMA InitExecutors == Init => ExecutorsInv
<1> SUFFICES ASSUME Init PROVE ExecutorsInv
  OBVIOUS
<1>1. executors = [order |-> <<>>, entry |-> <<>>] /\ deadExecutors = <<>>
      /\ host \in DOMAIN Hosts
  BY DEF Init, EmptyTable
<1>2. EntriesFramed(executors)
  BY <1>1 DEF EntriesFramed, TableIds
<1>3. HostInv
  BY <1>1, HostsAssumption DEF HostInv, TableSize, Host, Range
<1> QED BY <1>2, <1>3, InitIds DEF ExecutorsInv

LEMMA StepFramed ==
  ASSUME IdsInv, EntriesFramed(executors), Stays \/ Starts \/ Goes \/ Ends \/ Clears
  PROVE  EntriesFramed(executors')
<1>1. CASE Stays
  BY <1>1 DEF Stays
<1>2. CASE Starts
  BY <1>2, PutFramed DEF Starts
<1>3. CASE Goes
  BY <1>3, ChangedFramed DEF Goes, IdsInv
<1>4. CASE Ends
  BY <1>4, RemovedFramed DEF Ends
<1>5. CASE Clears
  BY <1>5 DEF Clears, EmptyTable, EntriesFramed, TableIds
<1> QED BY <1>1, <1>2, <1>3, <1>4, <1>5

\* The sizes of the table and of the list of free ids.
LEMMA StepSizes ==
  ASSUME IdsInv, HostInv, host' = host, Stays \/ Starts \/ Goes \/ Ends \/ Clears
  PROVE  HostInv'
<1> DEFINE n == Len(executors.order)
<1> DEFINE m == Len(deadExecutors)
<1>1. /\ host' \in DOMAIN Hosts /\ Host' = Host
      /\ Host.maxExecutors \in Nat /\ Host.maxDestroys \in Nat
  BY HostsAssumption DEF HostInv, Host, Range
<1>2. /\ executors.order \in Seq(Nat) /\ deadExecutors \in Seq(Nat)
      /\ n \in Nat /\ m \in Nat /\ n <= Host.maxExecutors /\ m <= Host.maxDestroys
  BY DEF IdsInv, IdsPartition, HostInv, TableSize
<1>3. Len(executors'.order) <= Host.maxExecutors /\ Len(deadExecutors') <= Host.maxDestroys
  <2>1. CASE Stays
    BY <1>2, <2>1 DEF Stays
  <2>2. CASE Starts
    <3>1. PICK e : /\ TableSize(executors) < Host.maxExecutors
                   /\ executors' = TablePut(executors, AppendedExecutorId, e)
                   /\ deadExecutors' = IF deadExecutors # <<>> THEN Front(deadExecutors) ELSE <<>>
      BY <2>2 DEF Starts
    <3>2. executors'.order \in {executors.order, Append(executors.order, AppendedExecutorId)}
      BY <3>1 DEF TablePut, IdsInv, WellFormed
    <3>3. Len(executors'.order) \in {n, n + 1}
      BY <1>2, <3>2
    <3>4. Len(deadExecutors') \in {0, m - 1}
      BY <1>2, <3>1 DEF Front
    <3> HIDE DEF n, m
    <3>5. n < Host.maxExecutors
      BY <3>1 DEF TableSize, n
    <3> QED BY <1>1, <1>2, <3>3, <3>4, <3>5
  <2>3. CASE Goes
    <3>1. executors'.order = executors.order /\ deadExecutors' = deadExecutors
      BY <2>3, ChangedEntry DEF Goes, IdsInv
    <3> QED BY <1>2, <3>1
  <2>4. CASE Ends
    <3>1. PICK id \in TableIds(executors) :
            /\ m < Host.maxDestroys
            /\ executors' = TableRemove(executors, id)
            /\ deadExecutors' = Append(deadExecutors, id)
      BY <2>4 DEF Ends
    <3>2. PICK p \in DOMAIN executors.order :
            executors'.order = SwapRemove(executors.order, p)
      BY <3>1, RemovedEntry DEF IdsInv, IdsPartition
    <3>3. executors'.order
            = [j \in 1..(n - 1) |-> IF j = p THEN executors.order[n] ELSE executors.order[j]]
      BY <3>2 DEF SwapRemove
    <3>4. n - 1 \in Nat /\ \A j \in 1..n : executors.order[j] \in Nat
      BY <1>2, <3>2
    <3>5. executors'.order \in [1..(n - 1) -> Nat]
      BY <1>2, <3>2, <3>3, <3>4
    <3>6. Len(executors'.order) = n - 1
      BY <3>4, <3>5
    <3>7. Len(deadExecutors') = m + 1
      BY <1>2, <3>1
    <3> HIDE DEF n, m
    <3> QED BY <1>1, <1>2, <3>1, <3>6, <3>7
  <2>5. CASE Clears
    BY <1>1, <2>5 DEF Clears, EmptyTable
  <2> QED BY <2>1, <2>2, <2>3, <2>4, <2>5
<1> QED BY <1>1, <1>3 DEF HostInv, TableSize

LEMMA NextExecutors == ExecutorsInv /\ [Next]_vars => ExecutorsInv'
<1> SUFFICES ASSUME ExecutorsInv, [Next]_vars PROVE ExecutorsInv'
  OBVIOUS
<1>1. Stays \/ Starts \/ Goes \/ Ends \/ Clears
  BY ExecutorsStep DEF ExecutorsInv
<1>2. host' = host
  BY DEF Next, vars
<1>3. IdsInv'
  BY NextIds DEF ExecutorsInv
<1>4. EntriesFramed(executors')
  BY <1>1, StepFramed DEF ExecutorsInv
<1>5. HostInv'
  BY <1>1, <1>2, StepSizes DEF ExecutorsInv
<1> QED BY <1>3, <1>4, <1>5 DEF ExecutorsInv

\* For every host and every program, each call keeps its scope, and an executor
\* is marked running exactly as long as it has a call (executor.c:163-181).
THEOREM FramesMatchHolds == Spec => []FramesMatch
<1>1. ExecutorsInv => FramesMatch
  BY DEF ExecutorsInv, EntriesFramed, Framed, FramesMatch, Executor
<1> QED BY <1>1, InitExecutors, NextExecutors, PTL DEF Spec
-----------------------------------------------------------------------------
\* The id an executor gets: one no living executor has, below the sum of the
\* numbers of living and free ones, or their number.
LEMMA AppendedIsNew ==
  ASSUME IdsInv
  PROVE  /\ AppendedExecutorId \in 0..(Len(executors.order) + Len(deadExecutors))
         /\ AppendedExecutorId \notin TableIds(executors)
<1> DEFINE n == Len(executors.order)
<1> DEFINE m == Len(deadExecutors)
<1>1. /\ WellFormed(executors) /\ IdsPartition(executors.order, deadExecutors)
      /\ deadExecutors \in Seq(Nat) /\ n \in Nat /\ m \in Nat
  BY DEF IdsInv, IdsPartition
<1>2. CASE deadExecutors = <<>>
  <2>1. AppendedExecutorId = n
    BY <1>2 DEF AppendedExecutorId, TableSize
  <2>2. ~Within(n, executors.order)
    BY <1>1, <1>2, FreshId
  <2> QED BY <1>1, <2>1, <2>2 DEF WellFormed, Within
<1>3. CASE deadExecutors # <<>>
  <2>1. AppendedExecutorId = Last(deadExecutors) /\ m >= 1
    BY <1>1, <1>3 DEF AppendedExecutorId
  <2>2. ~Within(Last(deadExecutors), executors.order)
    BY <1>1, <1>3, ReusedId
  <2>3. Last(deadExecutors) = deadExecutors[m] /\ deadExecutors[m] \in Nat /\ m \in DOMAIN deadExecutors
    BY <1>1, <2>1 DEF Last
  <2>4. deadExecutors[m] < n + m
    BY <1>1, <2>3 DEF IdsPartition, Within
  <2> QED BY <1>1, <2>1, <2>2, <2>3, <2>4 DEF WellFormed, Within
<1> QED BY <1>2, <1>3

LEMMA StartsTask ==
  ASSUME ExecutorsInv, Starts
  PROVE  Task!Start(AppendedExecutorId)
<1> DEFINE id == AppendedExecutorId
<1> DEFINE new == [i \in TableIds(executors) \cup {id} |->
                    IF i = id THEN "running" ELSE ExecutorStatus[i]]
<1>1. id \in PossibleIds \ TableIds(executors)
  <2>1. /\ host \in DOMAIN Hosts /\ Host.maxExecutors \in Nat /\ Host.maxDestroys \in Nat
        /\ Len(executors.order) <= Host.maxExecutors /\ Len(deadExecutors) <= Host.maxDestroys
    BY HostsAssumption DEF ExecutorsInv, HostInv, Host, TableSize, Range
  <2>2. Len(executors.order) \in Nat /\ Len(deadExecutors) \in Nat
    BY DEF ExecutorsInv, IdsInv, IdsPartition
  <2>3. id \in 0..(Len(executors.order) + Len(deadExecutors)) /\ id \notin TableIds(executors)
    BY AppendedIsNew DEF ExecutorsInv
  <2> HIDE DEF id
  <2>4. id \in 0..(Host.maxExecutors + Host.maxDestroys)
    BY <2>1, <2>2, <2>3
  <2> QED BY <2>1, <2>3, <2>4 DEF PossibleIds, Host, Range
<1>2. PICK e : e.running = TRUE /\ executors' = TablePut(executors, id, e)
  BY DEF Starts
<1>3. executors'.entry = [i \in TableIds(executors) \cup {id} |->
                           IF i = id THEN e ELSE executors.entry[i]]
  BY <1>1, <1>2 DEF TablePut
<1>4. ExecutorStatus' = [i \in TableIds(executors') |->
                          IF executors'.entry[i].running THEN "running" ELSE "finished"]
  BY DEF ExecutorStatus, Executor
<1> HIDE DEF id
<1>5. ExecutorStatus' = new
  BY <1>2, <1>3, <1>4 DEF TableIds, ExecutorStatus, Executor
<1>6. DOMAIN ExecutorStatus = TableIds(executors)
  BY DEF ExecutorStatus
<1> QED BY <1>1, <1>5, <1>6 DEF Task!Start, id

LEMMA GoesTask ==
  ASSUME ExecutorsInv, Goes
  PROVE  \/ UNCHANGED ExecutorStatus
         \/ \E id \in TableIds(executors) : Task!Finish(id)
<1>0. PICK id \in TableIds(executors) : \E e :
        /\ executors.entry[id].running = TRUE /\ e.running \in BOOLEAN
        /\ executors' = [executors EXCEPT !.entry[id] = e]
  BY DEF Goes, Framed, IsExecutor, Executor
<1>1. PICK e :
        /\ executors.entry[id].running = TRUE /\ e.running \in BOOLEAN
        /\ executors' = [executors EXCEPT !.entry[id] = e]
  BY <1>0
<1>2. executors = [order |-> executors.order, entry |-> executors.entry]
  BY DEF ExecutorsInv, IdsInv, WellFormed
<1>3. executors'.entry = [executors.entry EXCEPT ![id] = e]
  BY <1>1, <1>2
<1>4. ExecutorStatus' = [i \in TableIds(executors') |->
                          IF executors'.entry[i].running THEN "running" ELSE "finished"]
  BY DEF ExecutorStatus, Executor
<1>5. ExecutorStatus' = [ExecutorStatus EXCEPT ![id] = IF e.running THEN "running" ELSE "finished"]
  BY <1>1, <1>3, <1>4 DEF TableIds, ExecutorStatus, Executor
<1>6. /\ DOMAIN ExecutorStatus = TableIds(executors) /\ ExecutorStatus[id] = "running"
      /\ ExecutorStatus = [i \in TableIds(executors) |-> ExecutorStatus[i]]
  BY <1>1 DEF ExecutorStatus, Executor
<1>7. CASE e.running = TRUE
  <2>1. ExecutorStatus' = [ExecutorStatus EXCEPT ![id] = "running"]
    BY <1>5, <1>7
  <2> QED BY <1>6, <2>1
<1>8. CASE e.running = FALSE
  <2>1. ExecutorStatus' = [ExecutorStatus EXCEPT ![id] = "finished"]
    BY <1>5, <1>8
  <2> QED BY <1>1, <1>6, <2>1 DEF Task!Finish
<1> QED BY <1>1, <1>7, <1>8

LEMMA EndsTask ==
  ASSUME Ends
  PROVE  \E id \in TableIds(executors) : Task!Remove({id})
<1>1. PICK id \in TableIds(executors) : executors' = TableRemove(executors, id)
  BY DEF Ends
<1>2. executors'.entry = [i \in TableIds(executors) \ {id} |-> executors.entry[i]]
  BY <1>1 DEF TableRemove
<1>3. ExecutorStatus' = [i \in TableIds(executors') |->
                          IF executors'.entry[i].running THEN "running" ELSE "finished"]
  BY DEF ExecutorStatus, Executor
<1>4. ExecutorStatus' = [i \in TableIds(executors) \ {id} |-> ExecutorStatus[i]]
  BY <1>2, <1>3 DEF TableIds, ExecutorStatus, Executor
<1>5. DOMAIN ExecutorStatus = TableIds(executors)
  BY DEF ExecutorStatus
<1> QED BY <1>4, <1>5 DEF Task!Remove, Task!Without

LEMMA ClearsTask ==
  ASSUME Clears
  PROVE  Task!Remove(DOMAIN ExecutorStatus)
<1>1. TableIds(executors') = {}
  BY DEF Clears, EmptyTable, TableIds
<1>2. ExecutorStatus' = [i \in {} |-> ExecutorStatus[i]]
  BY <1>1 DEF ExecutorStatus
<1> QED BY <1>2 DEF Task!Remove, Task!Without

\* The ids of living executors are among the possible ones.
LEMMA LivingArePossible ==
  ASSUME ExecutorsInv
  PROVE  TableIds(executors) \subseteq PossibleIds
<1> DEFINE n == Len(executors.order)
<1> DEFINE m == Len(deadExecutors)
<1>1. /\ host \in DOMAIN Hosts /\ Host.maxExecutors \in Nat /\ Host.maxDestroys \in Nat
      /\ n <= Host.maxExecutors /\ m <= Host.maxDestroys
  BY HostsAssumption DEF ExecutorsInv, HostInv, Host, TableSize, Range
<1>2. /\ n \in Nat /\ m \in Nat
      /\ \A i \in TableIds(executors) : i \in Nat /\ i < n + m
  BY DEF ExecutorsInv, IdsInv, IdsPartition, WellFormed, Within
<1> HIDE DEF n, m
<1>3. \A i \in TableIds(executors) : i \in 0..(Host.maxExecutors + Host.maxDestroys)
  BY <1>1, <1>2
<1> QED BY <1>1, <1>3 DEF PossibleIds, Host, Range

\* Every step of a context maps to a step of Tasks, or to none.
LEMMA NextTask == ExecutorsInv /\ [Next]_vars => [Task!Next]_ExecutorStatus
<1> SUFFICES ASSUME ExecutorsInv, [Next]_vars PROVE [Task!Next]_ExecutorStatus
  OBVIOUS
<1>1. Stays \/ Starts \/ Goes \/ Ends \/ Clears
  BY ExecutorsStep DEF ExecutorsInv
<1>2. CASE Stays
  BY <1>2 DEF Stays, ExecutorStatus, Executor, TableIds
<1>3. CASE Starts
  <2>1. Task!Start(AppendedExecutorId)
    BY <1>3, StartsTask
  <2> QED BY <2>1 DEF Task!Next, Task!Start
<1>4. CASE Goes
  BY <1>4, GoesTask, LivingArePossible DEF Task!Next
<1>5. CASE Ends
  BY <1>5, EndsTask, LivingArePossible DEF Task!Next
<1>6. CASE Clears
  BY <1>6, ClearsTask DEF Task!Next
<1> QED BY <1>1, <1>2, <1>3, <1>4, <1>5, <1>6

LEMMA InitTask == Init => Task!Init
BY DEF Init, EmptyTable, Task!Init, ExecutorStatus, TableIds

\* For every host, every program and every bound the executors of a context are
\* tasks: no id is ever shared, and finishing is final (context.c:69-92,
\* executor.c:163-194).
THEOREM RefinesTasks == Spec => ImplementsTasks
<1>1. Spec => []ExecutorsInv
  BY InitExecutors, NextExecutors, PTL DEF Spec
<1> QED BY <1>1, InitTask, NextTask, PTL DEF Spec, Task!Spec, ImplementsTasks
-----------------------------------------------------------------------------
LoopTyped ==
  /\ loop = [kind |-> loop.kind, at |-> loop.at, ran |-> loop.ran]
  /\ loop.at \in Nat /\ loop.ran \in BOOLEAN

\* As long as no executor of this round answered that it still runs, the ones
\* visited have finished.
VisitedFinished ==
  loop.kind \in RoundKinds /\ loop.ran = FALSE =>
    \A k \in DOMAIN executors.order :
      k < loop.at => Executor(executors.order[k]).running = FALSE

RoundInv == LoopTyped /\ VisitedFinished

LEMMA InitRound == Init => RoundInv
BY DEF Init, Idle, RoundInv, LoopTyped, VisitedFinished, RoundKinds

\* Outside a round nothing is asked of the executors, and a round starts with
\* the first one.
LEMMA RoundStarts ==
  ASSUME IdsInv, NEW kind, NEW at \in Nat, NEW ran \in BOOLEAN,
         kind \in RoundKinds => at = 1,
         loop' = [kind |-> kind, at |-> at, ran |-> ran], IdsInv'
  PROVE  RoundInv'
<1>1. loop'.kind = kind /\ loop'.at = at /\ loop'.ran = ran
  OBVIOUS
<1>2. \A k \in DOMAIN executors'.order : ~(k < 1)
  BY DEF IdsInv, IdsPartition
<1> QED BY <1>1, <1>2 DEF RoundInv, LoopTyped, VisitedFinished

LEMMA HostRound ==
  ASSUME IdsInv, IdsInv', RoundInv, HostNext
  PROVE  RoundInv' /\ loop.kind = "idle"
<1>1. loop = [kind |-> "idle", at |-> 0, ran |-> FALSE]
  BY DEF HostNext, CreateModule, AddFunction, CreateExecutor, DestroyExecutor, HostStepIn,
         HostStepOut, BeginOne, BeginRounds, BeginCollect, DestroyContext, HostRuns, Idle
<1>2. ASSUME loop' = loop PROVE RoundInv'
  <2>1. loop' = [kind |-> "idle", at |-> 0, ran |-> FALSE]
    BY <1>1, <1>2
  <2> QED BY <2>1, RoundStarts DEF RoundKinds
<1>3. ASSUME NEW id \in TableIds(executors), BeginOne(id) PROVE RoundInv'
  <2>1. PositionOf(executors.order, id) \in Nat
    BY DEF IdsInv, WellFormed, IdsPartition, PositionOf
  <2>2. loop' = [kind |-> "executor_step", at |-> PositionOf(executors.order, id), ran |-> FALSE]
    BY <1>3 DEF BeginOne
  <2> QED BY <2>1, <2>2, RoundStarts DEF RoundKinds
<1>4. ASSUME NEW kind, BeginRounds(kind) PROVE RoundInv'
  BY <1>4, RoundStarts DEF BeginRounds
<1>5. ASSUME BeginCollect PROVE RoundInv'
  <2>1. loop' = [kind |-> "context_collect", at |-> 1, ran |-> FALSE]
    BY <1>5 DEF BeginCollect
  <2> QED BY <2>1, RoundStarts
<1>6. ASSUME DestroyContext PROVE RoundInv'
  <2>1. \/ loop' = loop
        \/ loop' = [kind |-> "destroyed", at |-> 0, ran |-> FALSE]
    BY <1>6 DEF DestroyContext, Abort, Destroyed
  <2> QED BY <1>2, <2>1, RoundStarts DEF RoundKinds
<1>7. \/ loop' = loop
      \/ \E id \in TableIds(executors) : BeginOne(id)
      \/ \E kind : BeginRounds(kind)
      \/ BeginCollect \/ DestroyContext
  BY DEF HostNext, CreateModule, AddFunction, CreateExecutor, DestroyExecutor, HostStepIn,
         HostStepOut, Abort
<1> QED BY <1>1, <1>2, <1>3, <1>4, <1>5, <1>6, <1>7

\* Nothing but the loop changes, or nothing of interest.
LEMMA SameRound ==
  ASSUME RoundInv, UNCHANGED <<executors, loop>>
  PROVE  RoundInv'
BY DEF RoundInv, LoopTyped, VisitedFinished, Executor, RoundKinds

LEMMA InstructionRound ==
  ASSUME IdsInv, IdsInv', EntriesFramed(executors), RoundInv, CanFetch, ExecuteInstruction
  PROVE  RoundInv' /\ (loop.kind \in RoundKinds => loop'.kind = loop.kind)
<1>1. CASE UNCHANGED <<executors, deadExecutors, loop>>
  BY <1>1, SameRound
<1>2. CASE ~UNCHANGED <<executors, deadExecutors, loop>>
  <2>1. PICK e : /\ Framed(e)
                 /\ executors' = [executors EXCEPT !.entry[CurrentId] = e]
                 /\ loop' = NextExecutor(e.callStack # <<>>)
    BY <1>2, InstructionOutcome
  <2>2. CASE loop.kind = "executor_step"
    <3>1. loop' = [kind |-> "idle", at |-> 0, ran |-> FALSE]
      BY <2>1, <2>2 DEF NextExecutor, Idle
    <3> QED BY <2>2, <3>1, RoundStarts DEF RoundKinds
  <2>3. CASE loop.kind # "executor_step"
    <3> DEFINE ran == e.callStack # <<>>
    <3>1. loop' = [loop EXCEPT !.at = @ + 1, !.ran = @ \/ ran]
      BY <2>1, <2>3 DEF NextExecutor
    <3>2. /\ loop'.kind = loop.kind /\ loop'.at = loop.at + 1
          /\ loop'.ran = (loop.ran \/ ran)
          /\ loop' = [kind |-> loop'.kind, at |-> loop'.at, ran |-> loop'.ran]
      BY <3>1 DEF RoundInv, LoopTyped
    <3>3. /\ loop.at \in Nat /\ loop.ran \in BOOLEAN /\ ran \in BOOLEAN
          /\ loop.at \in DOMAIN executors.order
      BY DEF RoundInv, LoopTyped, CanFetch, Stepping
    <3>4. LoopTyped'
      BY <3>2, <3>3 DEF LoopTyped
    <3>5. /\ executors'.order = executors.order
          /\ executors'.entry = [executors.entry EXCEPT ![CurrentId] = e]
      <4>1. executors = [order |-> executors.order, entry |-> executors.entry]
        BY DEF IdsInv, WellFormed
      <4> QED BY <2>1, <4>1
    <3>6. ASSUME loop.kind \in RoundKinds, loop'.ran = FALSE,
                 NEW k \in DOMAIN executors.order, k < loop'.at
          PROVE  executors'.entry[executors'.order[k]].running = FALSE
      <4>1. loop.ran = FALSE /\ ran = FALSE
        BY <3>2, <3>3, <3>6
      <4>2. executors.order[k] \in TableIds(executors) /\ k \in Nat
        BY <3>3 DEF IdsInv, WellFormed, IdsPartition
      <4>3. CASE executors.order[k] = CurrentId
        <5>1. e.running = FALSE
          BY <2>1, <4>1 DEF Framed, IsExecutor
        <5> QED BY <3>5, <4>2, <4>3, <5>1 DEF TableIds
      <4>4. CASE executors.order[k] # CurrentId
        <5>1. k < loop.at
          BY <3>2, <3>3, <3>6, <4>2, <4>4 DEF CurrentId
        <5>2. executors.entry[executors.order[k]].running = FALSE
          BY <3>6, <4>1, <5>1 DEF RoundInv, VisitedFinished, Executor
        <5> QED BY <3>5, <4>4, <5>2
      <4> QED BY <4>3, <4>4
    <3>7. VisitedFinished'
      BY <3>2, <3>5, <3>6 DEF VisitedFinished, Executor
    <3> QED BY <3>2, <3>4, <3>7 DEF RoundInv
  <2> QED BY <2>2, <2>3
<1> QED BY <1>1, <1>2

LEMMA LibraryRound ==
  ASSUME IdsInv, IdsInv', EntriesFramed(executors), RoundInv, LibraryNext
  PROVE  /\ RoundInv'
         /\ loop.kind = "context_run" /\ loop'.kind # "context_run" =>
              /\ UNCHANGED executors
              /\ \A id \in TableIds(executors) : executors.entry[id].running = FALSE
<1>1. CASE RoundEnds
  <2>1. /\ loop.kind \in RoundKinds /\ loop.at > Len(executors.order) /\ UNCHANGED executors
        /\ loop' = IF loop.kind = "context_run" /\ loop.ran
                   THEN [loop EXCEPT !.at = 1, !.ran = FALSE]
                   ELSE [kind |-> "idle", at |-> 0, ran |-> FALSE]
    BY <1>1 DEF RoundEnds, TableSize, Idle
  <2>2. CASE loop.kind = "context_run" /\ loop.ran = TRUE
    <3>1. loop' = [loop EXCEPT !.at = 1, !.ran = FALSE]
      BY <2>1, <2>2
    <3>2. /\ loop'.kind = loop.kind /\ loop'.at = 1 /\ loop'.ran = FALSE
          /\ loop' = [kind |-> loop'.kind, at |-> loop'.at, ran |-> loop'.ran]
      BY <3>1 DEF RoundInv, LoopTyped
    <3>3. loop' = [kind |-> "context_run", at |-> 1, ran |-> FALSE]
      BY <2>2, <3>2
    <3> QED BY <3>3, RoundStarts
  <2>3. CASE ~(loop.kind = "context_run" /\ loop.ran = TRUE)
    <3>1. loop.ran \in BOOLEAN
      BY DEF RoundInv, LoopTyped
    <3>2. loop' = [kind |-> "idle", at |-> 0, ran |-> FALSE]
      BY <2>1, <2>3, <3>1
    <3>3. RoundInv'
      BY <3>2, RoundStarts DEF RoundKinds
    <3>4. ASSUME loop.kind = "context_run", NEW id \in TableIds(executors)
          PROVE  executors.entry[id].running = FALSE
      <4>1. PICK k \in DOMAIN executors.order : executors.order[k] = id
        BY DEF IdsInv, WellFormed
      <4>2. k \in 1..Len(executors.order) /\ Len(executors.order) \in Nat /\ loop.at \in Nat
        BY DEF IdsInv, IdsPartition, RoundInv, LoopTyped
      <4>3. k < loop.at
        BY <2>1, <4>2
      <4>4. loop.ran = FALSE
        BY <2>3, <3>1, <3>4
      <4> QED BY <2>1, <4>1, <4>3, <4>4 DEF RoundInv, VisitedFinished, Executor
    <3> QED BY <2>1, <3>3, <3>4
  <2> QED BY <2>2, <2>3
<1>2. CASE CanFetch /\ ExecuteInstruction
  <2>1. RoundInv' /\ (loop.kind \in RoundKinds => loop'.kind = loop.kind)
    BY <1>2, InstructionRound
  <2> QED BY <2>1 DEF RoundKinds
<1>3. CASE CannotFetch
  BY <1>3, SameRound DEF CannotFetch, Abort
<1>4. CASE CollectVisit
  <2>1. loop.kind = "context_collect" /\ loop' = [loop EXCEPT !.at = @ + 1]
    BY <1>4 DEF CollectVisit, Collecting
  <2>2. loop' = [kind |-> "context_collect", at |-> loop.at + 1, ran |-> loop.ran]
    BY <2>1 DEF RoundInv, LoopTyped
  <2>3. loop.at + 1 \in Nat /\ loop.ran \in BOOLEAN
    BY DEF RoundInv, LoopTyped
  <2>4. RoundInv'
    BY <2>2, <2>3, RoundStarts DEF RoundKinds
  <2> QED BY <2>1, <2>4
<1>5. CASE CollectEnds
  <2>1. /\ loop.kind = "context_collect" /\ UNCHANGED executors
        /\ loop' = loop \/ loop' = [kind |-> "idle", at |-> 0, ran |-> FALSE]
    BY <1>5 DEF CollectEnds, Collecting, Abort, Idle
  <2>2. RoundInv'
    BY <2>1, SameRound, RoundStarts DEF RoundKinds
  <2> QED BY <2>1, <2>2
<1> QED BY <1>1, <1>2, <1>3, <1>4, <1>5 DEF LibraryNext, Step

RunInv == ExecutorsInv /\ RoundInv

LEMMA NextRun ==
  RunInv /\ [Next]_vars =>
    /\ RunInv'
    /\ loop.kind = "context_run" /\ loop'.kind = "idle" =>
         \A id \in TableIds(executors') : ~executors'.entry[id].running
<1> SUFFICES ASSUME RunInv, [Next]_vars
             PROVE  /\ RunInv'
                    /\ loop.kind = "context_run" /\ loop'.kind = "idle" =>
                         \A id \in TableIds(executors') : ~executors'.entry[id].running
  OBVIOUS
<1>1. ExecutorsInv' /\ IdsInv /\ IdsInv' /\ EntriesFramed(executors) /\ RoundInv
  BY NextExecutors DEF RunInv, ExecutorsInv
<1>2. CASE UNCHANGED vars
  <2>1. UNCHANGED <<executors, loop>>
    BY <1>2 DEF vars
  <2> QED BY <1>1, <2>1, SameRound DEF RunInv
<1>3. CASE HostNext
  BY <1>1, <1>3, HostRound DEF RunInv
<1>4. CASE LibraryNext
  BY <1>1, <1>4, LibraryRound DEF RunInv
<1> QED BY <1>2, <1>3, <1>4 DEF Next

\* For every host and every program, furlang_context_run comes back only when no
\* executor is running any more (context.c:54-65).
THEOREM RunReturns == Spec => RunReturnsWhenAllFinished
<1>1. Init => RunInv
  BY InitExecutors, InitRound DEF RunInv
<1>2. RunInv /\ [Next]_vars => RunInv'
  BY NextRun
<1>3. RunInv /\ [Next]_vars =>
        [loop.kind = "context_run" /\ loop'.kind = "idle" =>
           \A id \in TableIds(executors') : ~executors'.entry[id].running]_vars
  BY NextRun
<1> QED BY <1>1, <1>2, <1>3, PTL DEF Spec, RunReturnsWhenAllFinished
-----------------------------------------------------------------------------
(* The things of a context.                                                  *)
\* The arrays of slots of a context.
ExecutorArrays(table) == [id \in TableIds(table) |-> SlotsOf(table.entry[id])]
GlobalArrays(loaded) == [n \in DOMAIN loaded |-> Written(loaded[n].globals)]

IsModule(module) ==
  /\ module = [code |-> module.code, functions |-> module.functions, globals |-> module.globals]
  /\ TypedModule(module) /\ TypedGlobals(module.globals)

TypedTable(table) ==
  /\ WellFormed(table) /\ table.order \in Seq(Nat)
  /\ \A id \in TableIds(table) : TypedExecutor(table.entry[id])

TypedModules(loaded) ==
  IsSequence(loaded) /\ \A n \in DOMAIN loaded : IsModule(loaded[n])

TypedContext ==
  /\ TypedHeap(heap) /\ TypedTable(executors) /\ TypedModules(modules)
  /\ stray \in BOOLEAN

\* Every count is the number of places that hold the thing.
Balanced ==
  \A t \in Nat : Refs(heap, t) = Occurrences(t, AllSlots) + Occurrences(t, WrittenGlobals)

CountsKept == stray = FALSE => Balanced /\ fault # "count is positive"

\* How often the rest of a context holds a thing: all but executor id and
\* module n.
Elsewhere(table, loaded, id, n) ==
  [t \in Nat |-> Cardinality(Outside(t, ExecutorArrays(table), id))
                   + Cardinality(Outside(t, GlobalArrays(loaded), n + 1))]

LEMMA AllArrays ==
  /\ AllSlots = Gathered(ExecutorArrays(executors))
  /\ WrittenGlobals = Gathered(GlobalArrays(modules))
BY DEF AllSlots, WrittenGlobals, ExecutorArrays, GlobalArrays

LEMMA TableFinite ==
  ASSUME NEW table, TypedTable(table)
  PROVE  /\ FiniteArrays(ExecutorArrays(table))
         /\ \A t : Occurrences(t, Gathered(ExecutorArrays(table))) \in Nat
<1>1. IsFiniteSet(TableIds(table))
  <2>1. IsFiniteSet(DOMAIN table.order)
    <3>1. IsSequence(table.order)
      BY DEF TypedTable, IsSequence
    <3> QED BY <3>1, SequenceFinite
  <2>2. TableIds(table) = {table.order[k] : k \in DOMAIN table.order}
    BY DEF TypedTable, WellFormed
  <2>3. [k \in DOMAIN table.order |-> table.order[k]] \in Surjection(DOMAIN table.order, TableIds(table))
    BY <2>2 DEF Surjection
  <2> QED BY <2>1, <2>3, FS_Surjection
<1>2. \A id \in TableIds(table) : IsFiniteSet(DOMAIN SlotsOf(table.entry[id]))
  BY ArraysTyped DEF TypedTable
<1>3. FiniteArrays(ExecutorArrays(table))
  BY <1>1, <1>2 DEF FiniteArrays, ExecutorArrays
<1> QED BY <1>3, GatheredFinite, OccurrencesCount

LEMMA ModulesFinite ==
  ASSUME NEW loaded, TypedModules(loaded)
  PROVE  /\ FiniteArrays(GlobalArrays(loaded))
         /\ \A t : Occurrences(t, Gathered(GlobalArrays(loaded))) \in Nat
<1>1. IsFiniteSet(DOMAIN loaded)
  BY SequenceFinite DEF TypedModules
<1>2. \A n \in DOMAIN loaded : IsFiniteSet(DOMAIN Written(loaded[n].globals))
  BY WrittenTyped DEF TypedModules, IsModule
<1>3. FiniteArrays(GlobalArrays(loaded))
  BY <1>1, <1>2 DEF FiniteArrays, GlobalArrays
<1> QED BY <1>3, GatheredFinite, OccurrencesCount

LEMMA ElsewhereTyped ==
  ASSUME NEW table, TypedTable(table), NEW loaded, TypedModules(loaded), NEW id, NEW n \in Nat
  PROVE  Elsewhere(table, loaded, id, n) \in [Nat -> Nat]
<1>1. ASSUME NEW t \in Nat
      PROVE  Cardinality(Outside(t, ExecutorArrays(table), id))
                   + Cardinality(Outside(t, GlobalArrays(loaded), n + 1)) \in Nat
  <2>1. Cardinality(Outside(t, ExecutorArrays(table), id)) \in Nat
    BY TableFinite, GatheredSplit
  <2>2. Cardinality(Outside(t, GlobalArrays(loaded), n + 1)) \in Nat
    BY ModulesFinite, GatheredSplit
  <2> QED BY <2>1, <2>2
<1> QED BY <1>1 DEF Elsewhere

LEMMA NoneWritten ==
  ASSUME NEW globals, \A g \in DOMAIN globals : globals[g].written = FALSE, NEW t
  PROVE  Occurrences(t, Written(globals)) = 0
<1>1. DOMAIN Written(globals) = {}
  BY DEF Written
<1>2. {k \in DOMAIN Written(globals) : Written(globals)[k] = t} = {}
  BY <1>1
<1> QED BY <1>2, FS_EmptySet DEF Occurrences

\* The split of the holders that an executor and the module it works in are
\* responsible for.
LEMMA ContextSplit ==
  ASSUME NEW table, TypedTable(table), NEW loaded, TypedModules(loaded),
         NEW id \in TableIds(table), NEW n \in Nat,
         NEW globals, globals = IF n \in 0..(Len(loaded) - 1) THEN loaded[n + 1].globals ELSE <<>>,
         NEW t \in Nat
  PROVE  Occurrences(t, Gathered(ExecutorArrays(table))) + Occurrences(t, Gathered(GlobalArrays(loaded)))
           = Occurrences(t, SlotsOf(table.entry[id])) + Occurrences(t, Written(globals))
               + Elsewhere(table, loaded, id, n)[t]
<1> DEFINE E == ExecutorArrays(table)
<1> DEFINE G == GlobalArrays(loaded)
<1>1. /\ Cardinality(Outside(t, E, id)) \in Nat /\ PartOf(t, E, id) \in Nat
      /\ Occurrences(t, Gathered(E)) = Cardinality(Outside(t, E, id)) + PartOf(t, E, id)
  BY TableFinite, GatheredSplit
<1>2. /\ Cardinality(Outside(t, G, n + 1)) \in Nat /\ PartOf(t, G, n + 1) \in Nat
      /\ Occurrences(t, Gathered(G)) = Cardinality(Outside(t, G, n + 1)) + PartOf(t, G, n + 1)
  BY ModulesFinite, GatheredSplit
<1>3. PartOf(t, E, id) = Occurrences(t, SlotsOf(table.entry[id]))
  BY DEF PartOf, ExecutorArrays
<1>4. PartOf(t, G, n + 1) = Occurrences(t, Written(globals))
  <2>1. n \in 0..(Len(loaded) - 1) <=> n + 1 \in DOMAIN loaded
    <3>1. PICK S : loaded \in Seq(S)
      BY DEF TypedModules, IsSequence
    <3> QED BY <3>1
  <2>2. CASE n + 1 \in DOMAIN loaded
    BY <2>1, <2>2 DEF PartOf, GlobalArrays
  <2>3. CASE n + 1 \notin DOMAIN loaded
    <3>1. PartOf(t, G, n + 1) = 0
      BY <2>3 DEF PartOf, GlobalArrays
    <3>2. globals = <<>>
      BY <2>1, <2>3
    <3>3. Occurrences(t, Written(globals)) = 0
      <4>1. DOMAIN globals = {}
        BY <3>2
      <4>2. \A g \in DOMAIN globals : globals[g].written = FALSE
        BY <4>1
      <4> QED BY <4>2, NoneWritten
    <3> QED BY <3>1, <3>3
  <2> QED BY <2>2, <2>3
<1>5. Elsewhere(table, loaded, id, n)[t]
        = Cardinality(Outside(t, E, id)) + Cardinality(Outside(t, G, n + 1))
  BY DEF Elsewhere
<1> HIDE DEF E, G
<1>6. PICK a \in Nat, b \in Nat : a = Cardinality(Outside(t, E, id)) /\ b = Cardinality(Outside(t, G, n + 1))
  BY <1>1, <1>2
<1>7. PICK c \in Nat, d \in Nat : c = PartOf(t, E, id) /\ d = PartOf(t, G, n + 1)
  BY <1>1, <1>2
<1>8. PICK e : e = Elsewhere(table, loaded, id, n)[t]
  OBVIOUS
<1>9. e = a + b
  BY <1>5, <1>6, <1>8
<1>10. Occurrences(t, Gathered(E)) + Occurrences(t, Gathered(G)) = c + d + e
  BY <1>1, <1>2, <1>6, <1>7, <1>9
<1> QED BY <1>3, <1>4, <1>7, <1>8, <1>10 DEF E, G

\* The machine of a living executor.
LEMMA MachineGood ==
  ASSUME TypedContext, CountsKept, NEW id \in TableIds(executors), NEW n \in Nat,
         NEW m, m = MachineOf(id, n)
  PROVE  Good(m, Elsewhere(executors, modules, id, n), heap)
<1> DEFINE globals == IF n \in 0..(Len(modules) - 1) THEN modules[n + 1].globals ELSE <<>>
<1> DEFINE K == Elsewhere(executors, modules, id, n)
<1>1. /\ m.heap = heap /\ m.globals = globals /\ m.executor = executors.entry[id]
      /\ m.stray = stray /\ m.fault = NoFault /\ IsMachine(m)
  BY DEF MachineOf, IsMachine
<1>2. TypedGlobals(globals)
  <2>1. CASE n \in 0..(Len(modules) - 1)
    <3>1. PICK S : modules \in Seq(S)
      BY DEF TypedContext, TypedModules, IsSequence
    <3>2. n + 1 \in DOMAIN modules
      BY <2>1, <3>1
    <3> QED BY <2>1, <3>2 DEF TypedContext, TypedModules, IsModule
  <2>2. CASE n \notin 0..(Len(modules) - 1)
    BY <2>2 DEF TypedGlobals, IsSequence
  <2> QED BY <2>1, <2>2
<1>3. globals = IF n \in 0..(Len(modules) - 1) THEN modules[n + 1].globals ELSE <<>>
  OBVIOUS
<1> HIDE DEF globals
<1>4. Typed(m)
  BY <1>1, <1>2 DEF Typed, TypedContext, TypedTable
<1>5. ASSUME m.stray = FALSE, NEW t \in Nat PROVE Refs(m.heap, t) = Held(m, t) + K[t]
  <2>1. Refs(heap, t) = Occurrences(t, AllSlots) + Occurrences(t, WrittenGlobals)
    BY <1>1, <1>5 DEF CountsKept, Balanced
  <2>2. TypedTable(executors) /\ TypedModules(modules)
    BY DEF TypedContext
  <2>3. Occurrences(t, Gathered(ExecutorArrays(executors))) + Occurrences(t, Gathered(GlobalArrays(modules)))
           = Occurrences(t, SlotsOf(executors.entry[id])) + Occurrences(t, Written(globals)) + K[t]
    BY <1>3, <2>2, ContextSplit
  <2> QED BY <1>1, <2>1, <2>3, AllArrays DEF Held
<1>6. Kept(heap, m.heap)
  BY <1>1 DEF Kept
<1>7. m.stray = FALSE => m.fault # "count is positive" /\ (m.fault = NoFault => Counts(m, K) /\ Kept(heap, m.heap))
  BY <1>1, <1>5, <1>6 DEF Counts, NoFault
<1> QED BY <1>4, <1>7 DEF Good
-----------------------------------------------------------------------------
\* The globals of module n change, nothing else of the modules.
GlobalsFollow(loaded, n, globals, changed) ==
  /\ IsSequence(changed) /\ DOMAIN changed = DOMAIN loaded
  /\ \A k \in DOMAIN loaded :
       changed[k] = [code |-> loaded[k].code, functions |-> loaded[k].functions,
                     globals |-> IF k = n + 1 THEN globals ELSE loaded[k].globals]
  /\ n + 1 \notin DOMAIN loaded => globals = <<>>

LEMMA ModulesFollow ==
  ASSUME NEW loaded, TypedModules(loaded), NEW n \in Nat, NEW globals, TypedGlobals(globals),
         NEW changed, GlobalsFollow(loaded, n, globals, changed)
  PROVE  /\ TypedModules(changed)
         /\ \A t : PartOf(t, GlobalArrays(changed), n + 1) = Occurrences(t, Written(globals))
         /\ \A t : Occurrences(t, Gathered(GlobalArrays(changed)))
                     = Cardinality(Outside(t, GlobalArrays(loaded), n + 1)) + Occurrences(t, Written(globals))
<1>1. ASSUME NEW k \in DOMAIN changed PROVE IsModule(changed[k])
  <2>1. k \in DOMAIN loaded /\ IsModule(loaded[k])
    BY DEF GlobalsFollow, TypedModules
  <2>2. PICK c, f, g : c = loaded[k].code /\ f = loaded[k].functions
                      /\ g = IF k = n + 1 THEN globals ELSE loaded[k].globals
    OBVIOUS
  <2>3. changed[k] = [code |-> c, functions |-> f, globals |-> g]
    BY <2>1, <2>2 DEF GlobalsFollow
  <2>4. TypedGlobals(g)
    BY <2>1, <2>2 DEF IsModule
  <2>5. /\ changed[k].code = c /\ changed[k].functions = f /\ changed[k].globals = g
    BY <2>3
  <2>6. TypedModule(changed[k])
    BY <2>1, <2>2, <2>5 DEF IsModule, TypedModule
  <2> QED BY <2>3, <2>4, <2>5, <2>6 DEF IsModule
<1>2. TypedModules(changed)
  BY <1>1 DEF TypedModules, GlobalsFollow
<1>3. ASSUME NEW t PROVE PartOf(t, GlobalArrays(changed), n + 1) = Occurrences(t, Written(globals))
  <2>1. DOMAIN changed = DOMAIN loaded
    BY DEF GlobalsFollow
  <2>2. CASE n + 1 \in DOMAIN loaded
    <3>1. changed[n + 1].globals = globals
      BY <2>2 DEF GlobalsFollow
    <3> QED BY <2>1, <2>2, <3>1 DEF PartOf, GlobalArrays
  <2>3. CASE n + 1 \notin DOMAIN loaded
    <3>1. DOMAIN globals = {}
      BY <2>3 DEF GlobalsFollow
    <3>2. \A g \in DOMAIN globals : globals[g].written = FALSE
      BY <3>1
    <3>3. Occurrences(t, Written(globals)) = 0
      BY <3>2, NoneWritten
    <3> QED BY <2>1, <2>3, <3>3 DEF PartOf, GlobalArrays
  <2> QED BY <2>2, <2>3
<1>4. ASSUME NEW t
      PROVE  Occurrences(t, Gathered(GlobalArrays(changed)))
               = Cardinality(Outside(t, GlobalArrays(loaded), n + 1)) + Occurrences(t, Written(globals))
  <2> DEFINE a == GlobalArrays(loaded)
  <2> DEFINE b == GlobalArrays(changed)
  <2>1. FiniteArrays(a) /\ FiniteArrays(b)
    BY <1>2, ModulesFinite
  <2>2. DOMAIN a = DOMAIN b
    BY DEF GlobalArrays, GlobalsFollow
  <2>3. \A j \in DOMAIN a : j # n + 1 => a[j] = b[j]
    BY DEF GlobalArrays, GlobalsFollow
  <2>4. PartOf(t, b, n + 1) = Occurrences(t, Written(globals))
    BY <1>3
  <2> HIDE DEF a, b
  <2>5. \A j : j # n + 1 => (j \in DOMAIN a <=> j \in DOMAIN b)
    BY <2>2
  <2>6. Occurrences(t, Gathered(b)) + PartOf(t, a, n + 1)
           = Occurrences(t, Gathered(a)) + PartOf(t, b, n + 1)
    BY <2>1, <2>3, <2>5, PartChanged
  <2>7. /\ Cardinality(Outside(t, a, n + 1)) \in Nat /\ PartOf(t, a, n + 1) \in Nat
        /\ Occurrences(t, Gathered(a)) = Cardinality(Outside(t, a, n + 1)) + PartOf(t, a, n + 1)
    BY <2>1, GatheredSplit
  <2>8. Occurrences(t, Gathered(b)) \in Nat /\ PartOf(t, b, n + 1) \in Nat
    BY <2>1, GatheredFinite, OccurrencesCount, GatheredSplit
  <2>9. Occurrences(t, Gathered(b)) = Cardinality(Outside(t, a, n + 1)) + PartOf(t, b, n + 1)
    BY <2>6, <2>7, <2>8
  <2> QED BY <2>4, <2>9 DEF a, b
<1> QED BY <1>2, <1>3, <1>4

\* The executor changes, or goes.
LEMMA TableFollows ==
  ASSUME NEW table, TypedTable(table), NEW id, NEW changed, TypedTable(changed),
         \A j : j # id => (j \in TableIds(table) <=> j \in TableIds(changed)),
         \A j \in TableIds(table) : j # id => table.entry[j] = changed.entry[j],
         NEW t
  PROVE  /\ PartOf(t, ExecutorArrays(changed), id) \in Nat
         /\ Occurrences(t, Gathered(ExecutorArrays(changed)))
              = Cardinality(Outside(t, ExecutorArrays(table), id)) + PartOf(t, ExecutorArrays(changed), id)
<1> DEFINE a == ExecutorArrays(table)
<1> DEFINE b == ExecutorArrays(changed)
<1>1. FiniteArrays(a) /\ FiniteArrays(b)
  BY TableFinite
<1>2. \A j : j # id => (j \in DOMAIN a <=> j \in DOMAIN b)
  BY DEF ExecutorArrays
<1>3. \A j \in DOMAIN a : j # id => a[j] = b[j]
  BY DEF ExecutorArrays
<1> HIDE DEF a, b
<1>6. Occurrences(t, Gathered(b)) + PartOf(t, a, id) = Occurrences(t, Gathered(a)) + PartOf(t, b, id)
  BY <1>1, <1>2, <1>3, PartChanged
<1>7. /\ Cardinality(Outside(t, a, id)) \in Nat /\ PartOf(t, a, id) \in Nat
      /\ Occurrences(t, Gathered(a)) = Cardinality(Outside(t, a, id)) + PartOf(t, a, id)
  BY <1>1, GatheredSplit
<1>8. Occurrences(t, Gathered(b)) \in Nat /\ PartOf(t, b, id) \in Nat
  BY <1>1, GatheredFinite, OccurrencesCount, GatheredSplit
<1>9. Occurrences(t, Gathered(b)) = Cardinality(Outside(t, a, id)) + PartOf(t, b, id)
  BY <1>6, <1>7, <1>8
<1> QED BY <1>8, <1>9 DEF a, b

IsChanged(table, id, e, changed) ==
  /\ TypedTable(changed) /\ TableIds(changed) = TableIds(table)
  /\ changed.entry[id] = e
  /\ \A j \in TableIds(table) : j # id => table.entry[j] = changed.entry[j]

LEMMA TableChanged ==
  ASSUME NEW table, TypedTable(table), NEW id \in TableIds(table), NEW e, TypedExecutor(e),
         NEW changed, changed = [table EXCEPT !.entry[id] = e]
  PROVE  IsChanged(table, id, e, changed)
<1>1. WellFormed(table) /\ table.order \in Seq(Nat)
  BY DEF TypedTable
<1>2. WellFormed(changed) /\ changed.order = table.order
  BY <1>1, ChangedEntry
<1>3. table = [order |-> table.order, entry |-> table.entry]
  BY <1>1 DEF WellFormed
<1>4. changed.entry = [table.entry EXCEPT ![id] = e]
  BY <1>3
<1>5. TableIds(changed) = TableIds(table)
  BY <1>4 DEF TableIds
<1>6. changed.entry[id] = e
  BY <1>4 DEF TableIds
<1>7. \A j \in TableIds(table) : j # id => table.entry[j] = changed.entry[j]
  BY <1>4 DEF TableIds
<1>8. \A j \in TableIds(changed) : TypedExecutor(changed.entry[j])
  BY <1>5, <1>6, <1>7 DEF TypedTable
<1>9. TypedTable(changed)
  BY <1>1, <1>2, <1>8 DEF TypedTable
<1> QED BY <1>5, <1>6, <1>7, <1>9 DEF IsChanged

AreBalanced(h, table, loaded, t) ==
  Refs(h, t) = Occurrences(t, Gathered(ExecutorArrays(table)))
                 + Occurrences(t, Gathered(GlobalArrays(loaded)))

\* The context adopts the machine an executor leaves.
LEMMA Adopted ==
  ASSUME NEW table, TypedTable(table), NEW loaded, TypedModules(loaded),
         NEW id \in TableIds(table), NEW n \in Nat, NEW h,
         NEW m, Good(m, Elsewhere(table, loaded, id, n), h), m.fault = NoFault, m.stray = FALSE,
         NEW grown, grown = [table EXCEPT !.entry[id] = m.executor],
         NEW changed, GlobalsFollow(loaded, n, m.globals, changed),
         NEW t \in Nat
  PROVE  AreBalanced(m.heap, grown, changed, t)
<1>1. TypedExecutor(m.executor) /\ TypedGlobals(m.globals)
  BY DEF Good, Typed
<1>2. /\ TypedTable(grown) /\ TableIds(grown) = TableIds(table)
      /\ grown.entry[id] = m.executor
      /\ \A j \in TableIds(table) : j # id => table.entry[j] = grown.entry[j]
  <2>1. PICK e : e = m.executor
    OBVIOUS
  <2>2. TypedExecutor(e) /\ grown = [table EXCEPT !.entry[id] = e]
    BY <1>1, <2>1
  <2>3. IsChanged(table, id, e, grown)
    BY <2>2, TableChanged
  <2> QED BY <2>1, <2>3 DEF IsChanged
<1> DEFINE K == Elsewhere(table, loaded, id, n)
<1>3. Refs(m.heap, t) = Held(m, t) + K[t]
  BY DEF Good, Counts
<1>4. PartOf(t, ExecutorArrays(grown), id) = Occurrences(t, SlotsOf(m.executor))
  BY <1>2 DEF PartOf, ExecutorArrays
<1>5. \A j : j # id => (j \in TableIds(table) <=> j \in TableIds(grown))
  BY <1>2
<1>6. /\ PartOf(t, ExecutorArrays(grown), id) \in Nat
      /\ Occurrences(t, Gathered(ExecutorArrays(grown)))
           = Cardinality(Outside(t, ExecutorArrays(table), id)) + PartOf(t, ExecutorArrays(grown), id)
  <2>1. TypedTable(grown)
    BY <1>2
  <2>2. \A j \in TableIds(table) : j # id => table.entry[j] = grown.entry[j]
    BY <1>2
  <2> QED BY <1>5, <2>1, <2>2, TableFollows
<1>7. Occurrences(t, Gathered(GlobalArrays(changed)))
        = Cardinality(Outside(t, GlobalArrays(loaded), n + 1)) + Occurrences(t, Written(m.globals))
  BY <1>1, ModulesFollow
<1>8. K[t] = Cardinality(Outside(t, ExecutorArrays(table), id))
               + Cardinality(Outside(t, GlobalArrays(loaded), n + 1))
  BY DEF Elsewhere
<1>9. Held(m, t) = Occurrences(t, SlotsOf(m.executor)) + Occurrences(t, Written(m.globals))
  BY DEF Held
<1>10. /\ Cardinality(Outside(t, ExecutorArrays(table), id)) \in Nat
       /\ Cardinality(Outside(t, GlobalArrays(loaded), n + 1)) \in Nat
  BY TableFinite, ModulesFinite, GatheredSplit
<1>11. Occurrences(t, Written(m.globals)) \in Nat
  BY <1>1, WrittenTyped
<1>12. PICK a \in Nat, b \in Nat, c \in Nat, d \in Nat :
         /\ a = Cardinality(Outside(t, ExecutorArrays(table), id))
         /\ b = Cardinality(Outside(t, GlobalArrays(loaded), n + 1))
         /\ c = Occurrences(t, SlotsOf(m.executor)) /\ d = Occurrences(t, Written(m.globals))
  BY <1>4, <1>6, <1>10, <1>11
<1>13. PICK k, s : k = K[t] /\ s = Held(m, t)
  OBVIOUS
<1>14. k = a + b /\ s = c + d
  BY <1>8, <1>9, <1>12, <1>13
<1>15. s + k = (a + c) + (b + d)
  BY <1>14
<1> QED BY <1>3, <1>4, <1>6, <1>7, <1>12, <1>13, <1>15 DEF AreBalanced
-----------------------------------------------------------------------------
CountInv == TypedContext /\ CountsKept

\* A failed assertion leaves all as it is.
LEMMA AbortCounts ==
  ASSUME CountInv, NEW assertion, Abort(assertion),
         stray = FALSE => assertion # "count is positive"
  PROVE  CountInv'
<1>1. TypedContext'
  BY DEF Abort, CountInv, TypedContext
<1>2. CountsKept'
  BY DEF Abort, CountInv, CountsKept, Balanced, AllSlots, WrittenGlobals
<1> QED BY <1>1, <1>2 DEF CountInv

\* So does a step that concerns only the host or a loop.
LEMMA SameCounts ==
  ASSUME CountInv, UNCHANGED <<modules, executors, heap, stray, fault>>
  PROVE  CountInv'
BY DEF CountInv, TypedContext, CountsKept, Balanced, AllSlots, WrittenGlobals

\* The context adopts a machine.
LEMMA AdoptCounts ==
  ASSUME CountInv, NEW id \in TableIds(executors), NEW n \in Nat, NEW h,
         NEW m, Good(m, Elsewhere(executors, modules, id, n), h), m.fault = NoFault,
         heap' = m.heap, stray' = m.stray,
         executors' = [executors EXCEPT !.entry[id] = m.executor],
         GlobalsFollow(modules, n, m.globals, modules'), UNCHANGED fault, Running
  PROVE  CountInv'
<1>1. /\ TypedHeap(m.heap) /\ TypedExecutor(m.executor) /\ TypedGlobals(m.globals)
      /\ m.stray \in BOOLEAN
  BY DEF Good, Typed
<1>2. TypedTable(executors) /\ TypedModules(modules)
  BY DEF CountInv, TypedContext
<1>3. TypedTable(executors')
  <2>1. PICK e : e = m.executor
    OBVIOUS
  <2>2. TypedExecutor(e) /\ executors' = [executors EXCEPT !.entry[id] = e]
    BY <1>1, <2>1
  <2>3. IsChanged(executors, id, e, executors')
    BY <1>2, <2>2, TableChanged
  <2> QED BY <2>3 DEF IsChanged
<1>4. TypedModules(modules')
  BY <1>1, <1>2, ModulesFollow
<1>5. TypedContext'
  BY <1>1, <1>3, <1>4 DEF TypedContext
<1>6. fault' # "count is positive"
  BY DEF Running, NoFault
<1>7. ASSUME stray' = FALSE PROVE Balanced'
  <2>1. m.stray = FALSE
    BY <1>7
  <2>2. ASSUME NEW t \in Nat
        PROVE  Refs(m.heap, t) = Occurrences(t, Gathered(ExecutorArrays(executors')))
                                   + Occurrences(t, Gathered(GlobalArrays(modules')))
    <3>1. PICK grown, changed : grown = executors' /\ changed = modules'
      OBVIOUS
    <3>2. grown = [executors EXCEPT !.entry[id] = m.executor] /\ GlobalsFollow(modules, n, m.globals, changed)
      BY <3>1
    <3>3. AreBalanced(m.heap, grown, changed, t)
      BY <1>2, <2>1, <3>2, Adopted
    <3> QED BY <3>1, <3>3 DEF AreBalanced
  <2>3. /\ AllSlots' = Gathered(ExecutorArrays(executors'))
        /\ WrittenGlobals' = Gathered(GlobalArrays(modules'))
    BY DEF AllSlots, WrittenGlobals, ExecutorArrays, GlobalArrays
  <2> QED BY <2>2, <2>3 DEF Balanced
<1> QED BY <1>5, <1>6, <1>7 DEF CountInv, CountsKept

LEMMA ModulesStay ==
  ASSUME TypedContext, NEW n \in Nat, NEW globals, globals = MachineOf(CurrentId, n).globals
  PROVE  GlobalsFollow(modules, n, globals, modules)
<1>1. globals = IF n \in 0..(Len(modules) - 1) THEN modules[n + 1].globals ELSE <<>>
  BY DEF MachineOf
<1>2. IsSequence(modules) /\ \A k \in DOMAIN modules : IsModule(modules[k])
  BY DEF TypedContext, TypedModules
<1>3. n \in 0..(Len(modules) - 1) <=> n + 1 \in DOMAIN modules
  <2>1. PICK S : modules \in Seq(S)
    BY <1>2 DEF IsSequence
  <2> QED BY <2>1
<1>4. \A k \in DOMAIN modules :
        modules[k] = [code |-> modules[k].code, functions |-> modules[k].functions,
                      globals |-> modules[k].globals]
  BY <1>2 DEF IsModule
<1>5. ASSUME NEW k \in DOMAIN modules
      PROVE  modules[k] = [code |-> modules[k].code, functions |-> modules[k].functions,
                           globals |-> IF k = n + 1 THEN globals ELSE modules[k].globals]
  <2>1. (IF k = n + 1 THEN globals ELSE modules[k].globals) = modules[k].globals
    BY <1>1, <1>3
  <2> QED BY <1>4, <2>1
<1> QED BY <1>1, <1>2, <1>3, <1>5 DEF GlobalsFollow

LEMMA InitCounts == Init => CountInv
<1> SUFFICES ASSUME Init PROVE CountInv
  OBVIOUS
<1>1. /\ heap = EmptyHeap /\ executors = [order |-> <<>>, entry |-> <<>>] /\ modules = <<>>
      /\ stray = FALSE /\ fault = NoFault
  BY DEF Init, EmptyTable
<1>2. TypedHeap(heap) /\ \A t : Refs(heap, t) = 0
  BY <1>1, EmptyHeapTyped
<1>3. TypedTable(executors)
  BY <1>1 DEF TypedTable, WellFormed, TableIds
<1>4. TypedModules(modules)
  BY <1>1 DEF TypedModules, IsSequence
<1>5. ASSUME NEW t PROVE Occurrences(t, AllSlots) = 0 /\ Occurrences(t, WrittenGlobals) = 0
  <2>1. DOMAIN AllSlots = {} /\ DOMAIN WrittenGlobals = {}
    BY <1>1 DEF AllSlots, WrittenGlobals, Gathered, TableIds
  <2>2. {k \in DOMAIN AllSlots : AllSlots[k] = t} = {} /\ {k \in DOMAIN WrittenGlobals : WrittenGlobals[k] = t} = {}
    BY <2>1
  <2> QED BY <2>2, FS_EmptySet DEF Occurrences
<1>6. Balanced
  BY <1>2, <1>5 DEF Balanced
<1>7. fault # "count is positive"
  BY <1>1 DEF NoFault
<1> QED BY <1>1, <1>2, <1>3, <1>4, <1>6, <1>7 DEF CountInv, TypedContext, CountsKept

-----------------------------------------------------------------------------
\* The host's calls.
LEMMA HostStepInCounts ==
  ASSUME CountInv, NEW id \in TableIds(executors), NEW n \in ModuleHandles, NEW f \in FunctionsOf(n),
         HostStepIn(id, n, f)
  PROVE  CountInv'
<1> DEFINE position == [module |-> n, address |-> modules[n + 1].functions[f + 1].address]
<1> DEFINE m == MachineOf(id, n)
<1> DEFINE K == Elsewhere(executors, modules, id, n)
<1>1. n \in Nat /\ n + 1 \in DOMAIN modules
  <2>1. PICK S : modules \in Seq(S)
    BY DEF CountInv, TypedContext, TypedModules, IsSequence
  <2> QED BY <2>1 DEF ModuleHandles
<1>2. position \in Positions
  <2>1. TypedModule(modules[n + 1])
    BY <1>1 DEF CountInv, TypedContext, TypedModules, IsModule
  <2>2. PICK functions : functions = modules[n + 1].functions
    OBVIOUS
  <2>3. IsSequence(functions) /\ \A j \in DOMAIN functions : functions[j].address \in Nat
    BY <2>1, <2>2 DEF TypedModule
  <2>4. f + 1 \in DOMAIN functions
    <3>1. PICK S : functions \in Seq(S)
      BY <2>3 DEF IsSequence
    <3> QED BY <2>2, <3>1 DEF FunctionsOf
  <2> QED BY <1>1, <2>2, <2>3, <2>4 DEF Positions
<1>3. Good(m, K, heap)
  BY <1>1, MachineGood DEF CountInv
<1>4. K \in [Nat -> Nat]
  BY <1>1, ElsewhereTyped DEF CountInv, TypedContext
<1>5. PICK entered : entered = StepIn(m, position)
  OBVIOUS
<1>6. HostRuns("executor_step_in") /\
      IF entered.fault # NoFault THEN Abort(entered.fault)
      ELSE Adopt(id, entered) /\ UNCHANGED <<modules, deadExecutors, fault, loop>>
  BY <1>5 DEF HostStepIn
<1>7. m.globals = MachineOf(CurrentId, n).globals /\ m.stray = stray /\ m.fault = NoFault
  BY DEF MachineOf
<1> HIDE DEF m, K, position
<1>8. Good(entered, K, heap) /\ entered.globals = m.globals
  BY <1>2, <1>3, <1>4, <1>5, StepInCounts DEF InCall
<1>9. CASE entered.fault = NoFault
  <2>1. GlobalsFollow(modules, n, entered.globals, modules)
    BY <1>1, <1>7, <1>8, ModulesStay DEF CountInv
  <2>2. GlobalsFollow(modules, n, entered.globals, modules') /\ UNCHANGED fault /\ Running
        /\ heap' = entered.heap /\ stray' = entered.stray
        /\ executors' = [executors EXCEPT !.entry[id] = entered.executor]
    BY <1>6, <1>9, <2>1 DEF Adopt, HostRuns
  <2>3. Good(entered, Elsewhere(executors, modules, id, n), heap)
    BY <1>8 DEF K
  <2> QED BY <1>1, <1>9, <2>2, <2>3, AdoptCounts
<1>10. CASE entered.fault # NoFault
  <2>1. entered.fault # "count is positive"
    <3>1. Typed(m)
      BY <1>3 DEF Good
    <3>5. IsMachine(m)
      BY <3>1 DEF Typed
    <3>2. entered = WithFrames(m, m.heap, Entered(m.executor, position, NewScope))
          \/ entered = Fail(m, "executor is running")
      BY <1>5, <1>7, <3>1, StepInRecord
    <3>3. CASE entered = Fail(m, "executor is running")
      <4>1. entered.fault = "executor is running"
        BY <3>3, <3>5, FailFields
      <4> QED BY <4>1
    <3>4. CASE entered = WithFrames(m, m.heap, Entered(m.executor, position, NewScope))
      BY <1>7, <3>4 DEF WithFrames, NoFault
    <3> QED BY <3>2, <3>3, <3>4
  <2> QED BY <1>6, <1>10, <2>1, AbortCounts
<1> QED BY <1>9, <1>10
-----------------------------------------------------------------------------
LEMMA HostStepOutCounts ==
  ASSUME CountInv, NEW id \in TableIds(executors), HostStepOut(id)
  PROVE  CountInv'
<1> DEFINE m == MachineOf(id, 0)
<1> DEFINE K == Elsewhere(executors, modules, id, 0)
<1>1. Good(m, K, heap)
  BY MachineGood DEF CountInv
<1>2. K \in [Nat -> Nat]
  BY ElsewhereTyped DEF CountInv, TypedContext
<1>3. PICK left : left = StepOut(m)
  OBVIOUS
<1>4. HostRuns("executor_step_out") /\
      IF left.fault # NoFault THEN Abort(left.fault)
      ELSE Adopt(id, left) /\ UNCHANGED <<modules, deadExecutors, fault, loop>>
  BY <1>3 DEF HostStepOut
<1>5. m.globals = MachineOf(CurrentId, 0).globals /\ m.stray = stray
  BY DEF MachineOf
<1> HIDE DEF m, K
<1>6. Good(left, K, heap) /\ left.globals = m.globals /\ left.stray = m.stray
  BY <1>1, <1>2, <1>3, StepOutCounts
<1>7. CASE left.fault = NoFault
  <2>1. GlobalsFollow(modules, 0, left.globals, modules)
    BY <1>5, <1>6, ModulesStay DEF CountInv
  <2>2. GlobalsFollow(modules, 0, left.globals, modules') /\ UNCHANGED fault /\ Running
        /\ heap' = left.heap /\ stray' = left.stray
        /\ executors' = [executors EXCEPT !.entry[id] = left.executor]
    BY <1>4, <1>7, <2>1 DEF Adopt, HostRuns
  <2>3. Good(left, Elsewhere(executors, modules, id, 0), heap)
    BY <1>6 DEF K
  <2> QED BY <1>7, <2>2, <2>3, AdoptCounts
<1>8. CASE left.fault # NoFault
  <2>1. stray = FALSE => left.fault # "count is positive"
    BY <1>5, <1>6 DEF Good
  <2> QED BY <1>4, <1>8, <2>1, AbortCounts
<1> QED BY <1>7, <1>8

\* The entries that are left by a removal.
LEMMA TableShrunk ==
  ASSUME NEW table, TypedTable(table), Distinct(table.order), NEW id \in TableIds(table),
         NEW changed, changed = TableRemove(table, id)
  PROVE  /\ TypedTable(changed) /\ TableIds(changed) = TableIds(table) \ {id}
         /\ \A j \in TableIds(table) : j # id => table.entry[j] = changed.entry[j]
<1>1. WellFormed(table) /\ table.order \in Seq(Nat)
  BY DEF TypedTable
<1>2. PICK p \in DOMAIN table.order :
        changed.order = SwapRemove(table.order, p) /\ WellFormed(changed)
  BY <1>1, RemovedEntry
<1>3. changed.order \in Seq(Nat)
  <2>1. PICK n \in Nat : n = Len(table.order) /\ DOMAIN table.order = 1..n
    BY <1>1
  <2>2. p \in 1..n /\ n \in 1..n
    BY <2>1
  <2>3. \A j \in 1..(n - 1) : (IF j = p THEN table.order[n] ELSE table.order[j]) \in Nat
    BY <1>1, <2>1, <2>2
  <2>4. changed.order = [j \in 1..(n - 1) |-> IF j = p THEN table.order[n] ELSE table.order[j]]
    BY <1>2, <2>1 DEF SwapRemove
  <2> QED BY <2>2, <2>3, <2>4
<1>4. changed.entry = [i \in TableIds(table) \ {id} |-> table.entry[i]]
  BY DEF TableRemove
<1>5. TableIds(changed) = TableIds(table) \ {id}
  BY <1>4 DEF TableIds
<1>6. \A j \in TableIds(table) : j # id => table.entry[j] = changed.entry[j]
  BY <1>4
<1>7. \A j \in TableIds(changed) : TypedExecutor(changed.entry[j])
  BY <1>5, <1>6 DEF TypedTable
<1> QED BY <1>2, <1>3, <1>5, <1>6, <1>7 DEF TypedTable

LEMMA DestroyExecutorCounts ==
  ASSUME CountInv, IdsInv, NEW id \in TableIds(executors), DestroyExecutor(id)
  PROVE  CountInv'
<1> DEFINE m == MachineOf(id, 0)
<1> DEFINE K == Elsewhere(executors, modules, id, 0)
<1>1. Good(m, K, heap)
  BY MachineGood DEF CountInv
<1>2. K \in [Nat -> Nat]
  BY ElsewhereTyped DEF CountInv, TypedContext
<1>3. PICK cleaned : cleaned = Cleanup(m)
  OBVIOUS
<1>4. HostRuns("executor_destroy") /\
      IF cleaned.fault # NoFault THEN Abort(cleaned.fault)
      ELSE /\ heap' = cleaned.heap
           /\ executors' = TableRemove(executors, id)
           /\ UNCHANGED <<modules, stray, fault, loop>>
  BY <1>3 DEF DestroyExecutor
<1>5. m.globals = MachineOf(CurrentId, 0).globals /\ m.stray = stray
  BY DEF MachineOf
<1> HIDE DEF m, K
<1>6. /\ Good(cleaned, K, heap) /\ cleaned.globals = m.globals /\ cleaned.stray = m.stray
      /\ cleaned.fault = NoFault => cleaned.executor = CleanedExecutor
  BY <1>1, <1>2, <1>3, CleanupCounts
<1>7. CASE cleaned.fault = NoFault
  <2>1. GlobalsFollow(modules, 0, cleaned.globals, modules)
    BY <1>5, <1>6, ModulesStay DEF CountInv
  <2>2. TypedTable(executors) /\ TypedModules(modules) /\ Distinct(executors.order)
    BY DEF CountInv, TypedContext, IdsInv, IdsPartition
  <2>3. PICK changed : changed = executors'
    OBVIOUS
  <2>4. changed = TableRemove(executors, id)
    BY <1>4, <1>7, <2>3
  <2>5. /\ TypedTable(changed) /\ TableIds(changed) = TableIds(executors) \ {id}
        /\ \A j \in TableIds(executors) : j # id => executors.entry[j] = changed.entry[j]
    BY <2>2, <2>4, TableShrunk
  <2>6. TypedHeap(cleaned.heap)
    BY <1>6 DEF Good, Typed
  <2>7. TypedContext'
    BY <1>4, <1>7, <2>3, <2>5, <2>6 DEF TypedContext, CountInv
  <2>8. ASSUME stray = FALSE, NEW t \in Nat
        PROVE  AreBalanced(cleaned.heap, changed, modules, t)
    <3>1. Refs(cleaned.heap, t) = Held(cleaned, t) + K[t]
      BY <1>5, <1>6, <1>7, <2>8 DEF Good, Counts
    <3>2. \A j : j # id => (j \in TableIds(executors) <=> j \in TableIds(changed))
      BY <2>5
    <3>3. Occurrences(t, Gathered(ExecutorArrays(changed)))
            = Cardinality(Outside(t, ExecutorArrays(executors), id)) + PartOf(t, ExecutorArrays(changed), id)
      BY <2>2, <2>5, <3>2, TableFollows
    <3>4. PartOf(t, ExecutorArrays(changed), id) = 0
      BY <2>5 DEF PartOf, ExecutorArrays
    <3>5. TypedGlobals(cleaned.globals)
      BY <1>6 DEF Good, Typed
    <3>6. Occurrences(t, Gathered(GlobalArrays(modules)))
            = Cardinality(Outside(t, GlobalArrays(modules), 0 + 1)) + Occurrences(t, Written(cleaned.globals))
      BY <2>1, <2>2, <3>5, ModulesFollow
    <3>7. K[t] = Cardinality(Outside(t, ExecutorArrays(executors), id))
                   + Cardinality(Outside(t, GlobalArrays(modules), 0 + 1))
      BY DEF K, Elsewhere
    <3>8. Held(cleaned, t) = Occurrences(t, Written(cleaned.globals))
      <4>1. Occurrences(t, SlotsOf(cleaned.executor)) = 0
        BY <1>6, <1>7, CleanedTyped
      <4>2. Occurrences(t, Written(cleaned.globals)) \in Nat
        BY <3>5, WrittenTyped
      <4> QED BY <4>1, <4>2 DEF Held
    <3>9. PICK a \in Nat, b \in Nat, c \in Nat :
            /\ a = Cardinality(Outside(t, ExecutorArrays(executors), id))
            /\ b = Cardinality(Outside(t, GlobalArrays(modules), 0 + 1))
            /\ c = Occurrences(t, Written(cleaned.globals))
      BY <2>2, <3>5, TableFinite, ModulesFinite, GatheredSplit, WrittenTyped
    <3>10. PICK k, s : k = K[t] /\ s = Held(cleaned, t)
      OBVIOUS
    <3>11. k = a + b /\ s = c
      BY <3>7, <3>8, <3>9, <3>10
    <3>12. s + k = (a + 0) + (b + c)
      BY <3>11
    <3> QED BY <3>1, <3>3, <3>4, <3>6, <3>9, <3>10, <3>12 DEF AreBalanced
  <2>9. CountsKept'
    <3>1. /\ AllSlots' = Gathered(ExecutorArrays(executors'))
          /\ WrittenGlobals' = Gathered(GlobalArrays(modules'))
      BY DEF AllSlots, WrittenGlobals, ExecutorArrays, GlobalArrays
    <3>2. stray = FALSE => Balanced'
      BY <1>4, <1>7, <2>3, <2>8, <3>1 DEF AreBalanced, Balanced
    <3>3. fault' # "count is positive"
      BY <1>4, <1>7 DEF HostRuns, Running, NoFault
    <3> QED BY <1>4, <1>7, <3>2, <3>3 DEF CountsKept
  <2> QED BY <2>7, <2>9 DEF CountInv
<1>8. CASE cleaned.fault # NoFault
  <2>1. stray = FALSE => cleaned.fault # "count is positive"
    BY <1>5, <1>6 DEF Good
  <2> QED BY <1>4, <1>8, <2>1, AbortCounts
<1> QED BY <1>7, <1>8

-----------------------------------------------------------------------------
\* furlang_context_destroy.
LEMMA DestroyContextCounts ==
  ASSUME CountInv, DestroyContext
  PROVE  CountInv'
<1>1. CASE DeadThing \in Range(AllSlots)
  <2>1. Abort("variable is live")
    BY <1>1 DEF DestroyContext
  <2> QED BY <2>1, AbortCounts
<1>2. CASE DeadThing \notin Range(AllSlots) /\ ~CanRelease(heap, AllSlots)
  <2>1. Abort("count is positive")
    BY <1>2 DEF DestroyContext
  <2>2. stray # FALSE
    <3> SUFFICES ASSUME stray = FALSE PROVE CanRelease(heap, AllSlots)
      BY <1>2
    <3>1. TypedHeap(heap) /\ TypedTable(executors) /\ TypedModules(modules)
      BY DEF CountInv, TypedContext
    <3>2. IsFiniteSet(DOMAIN AllSlots) /\ \A t : Occurrences(t, AllSlots) \in Nat /\ Occurrences(t, WrittenGlobals) \in Nat
      BY <3>1, TableFinite, ModulesFinite, GatheredFinite, AllArrays
    <3>3. ASSUME NEW k \in DOMAIN AllSlots PROVE AllSlots[k] \in Nat
      <4>1. PICK id \in TableIds(executors) : \E p \in DOMAIN SlotsOf(executors.entry[id]) : k = <<id, p>>
        BY AllArrays, GatheredPlaces DEF ExecutorArrays
      <4>2. PICK p \in DOMAIN SlotsOf(executors.entry[id]) : k = <<id, p>>
        BY <4>1
      <4>3. AllSlots[k] = SlotsOf(executors.entry[id])[p]
        BY <4>1, <4>2, AllArrays, GatheredPlaces DEF ExecutorArrays
      <4>4. SlotsOf(executors.entry[id])[p] \in Nat \cup {DeadThing}
        BY <3>1, SlotTyped DEF TypedTable
      <4>5. AllSlots[k] # DeadThing
        BY <1>2 DEF Range
      <4> QED BY <4>3, <4>4, <4>5
    <3>4. \A t \in Nat : Occurrences(t, AllSlots) <= Refs(heap, t)
      <4> SUFFICES ASSUME NEW t \in Nat PROVE Occurrences(t, AllSlots) <= Refs(heap, t)
        OBVIOUS
      <4>1. Balanced
        BY DEF CountInv, CountsKept
      <4>2. Refs(heap, t) = Occurrences(t, AllSlots) + Occurrences(t, WrittenGlobals)
        BY <4>1 DEF Balanced
      <4>3. PICK a \in Nat, b \in Nat : a = Occurrences(t, AllSlots) /\ b = Occurrences(t, WrittenGlobals)
        BY <3>2
      <4> QED BY <4>2, <4>3
    <3> QED BY <3>1, <3>2, <3>3, <3>4, Releasable
  <2> QED BY <2>1, <2>2, AbortCounts
<1>3. CASE DeadThing \notin Range(AllSlots) /\ CanRelease(heap, AllSlots)
  <2>1. /\ heap' = EmptyHeap /\ executors' = [order |-> <<>>, entry |-> <<>>] /\ modules' = <<>>
        /\ UNCHANGED <<stray, fault>> /\ Running
    BY <1>3 DEF DestroyContext, HostRuns, EmptyTable
  <2>2. TypedHeap(heap') /\ \A t : Refs(heap', t) = 0
    BY <2>1, EmptyHeapTyped
  <2>3. TypedTable(executors')
    BY <2>1 DEF TypedTable, WellFormed, TableIds
  <2>4. TypedModules(modules')
    BY <2>1 DEF TypedModules, IsSequence
  <2>5. ASSUME NEW t PROVE Occurrences(t, AllSlots') = 0 /\ Occurrences(t, WrittenGlobals') = 0
    <3>1. DOMAIN AllSlots' = {} /\ DOMAIN WrittenGlobals' = {}
      BY <2>1 DEF AllSlots, WrittenGlobals, Gathered, TableIds
    <3>2. {k \in DOMAIN AllSlots' : AllSlots'[k] = t} = {} /\ {k \in DOMAIN WrittenGlobals' : WrittenGlobals'[k] = t} = {}
      BY <3>1
    <3> QED BY <3>2, FS_EmptySet DEF Occurrences
  <2>6. Balanced'
    BY <2>2, <2>5 DEF Balanced
  <2>7. fault' # "count is positive"
    BY <2>1 DEF NoFault, Running
  <2> QED BY <2>1, <2>2, <2>3, <2>4, <2>6, <2>7 DEF CountInv, TypedContext, CountsKept
<1> QED BY <1>1, <1>2, <1>3
-----------------------------------------------------------------------------
\* furlang_module_create: nothing is written.
LEMMA CreateModuleCounts ==
  ASSUME CountInv, HostInv, CreateModule
  PROVE  CountInv'
<1>1. /\ Running /\ UNCHANGED <<executors, heap, stray, fault>>
      /\ \E info \in Host.modules : \E left \in [1..info.globalCount -> Host.garbage] :
           modules' = Append(modules,
             [code      |-> info.code,
              functions |-> info.functions,
              globals   |-> [g \in 1..info.globalCount |->
                               [thing |-> left[g], written |-> FALSE]]])
  BY DEF CreateModule, HostRuns
<1>2. PICK info \in Host.modules : \E left :
        modules' = Append(modules,
             [code      |-> info.code,
              functions |-> info.functions,
              globals   |-> [g \in 1..info.globalCount |->
                               [thing |-> left[g], written |-> FALSE]]])
  BY <1>1
<1>3. PICK left :
        modules' = Append(modules,
             [code      |-> info.code,
              functions |-> info.functions,
              globals   |-> [g \in 1..info.globalCount |->
                               [thing |-> left[g], written |-> FALSE]]])
  BY <1>2
<1>4. PICK globals : globals = [g \in 1..info.globalCount |-> [thing |-> left[g], written |-> FALSE]]
  OBVIOUS
<1>5. PICK code, functions : code = info.code /\ functions = info.functions
  OBVIOUS
<1>6. PICK module : module = [code |-> code, functions |-> functions, globals |-> globals]
  OBVIOUS
<1>7. modules' = Append(modules, module)
  BY <1>3, <1>4, <1>5, <1>6
<1>8. /\ info.code \in Seq(Int)
      /\ info.functions \in Seq(Range(info.functions))
      /\ \A f \in Range(info.functions) : f.address \in Nat /\ f.paramCount \in Nat
      /\ info.globalCount \in Nat
  <2>1. Host \in Range(Hosts)
    BY DEF HostInv, Host, Range
  <2> QED BY <2>1, HostsAssumption
<1>9. \A g \in DOMAIN globals : globals[g].written = FALSE
  BY <1>4
<1>10. TypedGlobals(globals)
  <2>1. PICK n \in Nat : n = info.globalCount
    BY <1>8
  <2> DEFINE T == {globals[g] : g \in 1..n}
  <2>3. globals = [g \in 1..n |-> globals[g]] /\ \A g \in 1..n : globals[g] \in T
    BY <1>4, <2>1
  <2> HIDE DEF T
  <2>2. globals \in Seq(T)
    BY <2>3
  <2> QED BY <1>9, <2>2 DEF TypedGlobals, IsSequence
<1>11. /\ module.code = code /\ module.functions = functions /\ module.globals = globals
       /\ module = [code |-> module.code, functions |-> module.functions, globals |-> module.globals]
  BY <1>6
<1>12. TypedModule(module)
  <2>1. code \in Seq(Int) /\ IsSequence(functions)
    BY <1>5, <1>8 DEF IsSequence
  <2>2. \A f \in DOMAIN functions : functions[f].address \in Nat /\ functions[f].paramCount \in Nat
    BY <1>5, <1>8 DEF Range
  <2> QED BY <1>11, <2>1, <2>2 DEF TypedModule
<1>13. IsModule(module)
  BY <1>10, <1>11, <1>12 DEF IsModule
<1>14. PICK added : added = modules'
  OBVIOUS
<1>15. /\ IsSequence(added) /\ DOMAIN added = DOMAIN modules \cup {Len(modules) + 1}
       /\ added[Len(modules) + 1] = module
       /\ \A k \in DOMAIN modules : added[k] = modules[k]
       /\ Len(modules) + 1 \notin DOMAIN modules
  <2>1. PICK S : modules \in Seq(S)
    BY DEF CountInv, TypedContext, TypedModules, IsSequence
  <2>2. modules \in Seq(S \cup {module}) /\ module \in S \cup {module}
    BY <2>1, SeqMonotonic
  <2>3. added \in Seq(S \cup {module})
    BY <1>7, <1>14, <2>2
  <2>4. IsSequence(added)
    BY <2>3 DEF IsSequence
  <2> QED BY <1>7, <1>14, <2>2, <2>4
<1>16. TypedModules(added)
  BY <1>13, <1>15 DEF CountInv, TypedContext, TypedModules
<1>17. TypedContext'
  BY <1>1, <1>14, <1>16 DEF CountInv, TypedContext
<1>18. ASSUME NEW t
       PROVE  Occurrences(t, Gathered(GlobalArrays(added))) = Occurrences(t, Gathered(GlobalArrays(modules)))
  <2> DEFINE a == GlobalArrays(modules)
  <2> DEFINE b == GlobalArrays(added)
  <2> DEFINE i == Len(modules) + 1
  <2>1. FiniteArrays(a) /\ FiniteArrays(b)
    BY <1>16, ModulesFinite DEF CountInv, TypedContext
  <2>2. \A j : j # i => (j \in DOMAIN a <=> j \in DOMAIN b)
    BY <1>15 DEF GlobalArrays
  <2>3. \A j \in DOMAIN a : j # i => a[j] = b[j]
    BY <1>15 DEF GlobalArrays
  <2>4. PartOf(t, a, i) = 0
    BY <1>15 DEF PartOf, GlobalArrays
  <2>5. PartOf(t, b, i) = 0
    <3>1. PartOf(t, b, i) = Occurrences(t, Written(globals))
      BY <1>11, <1>15 DEF PartOf, GlobalArrays
    <3> QED BY <1>9, <3>1, NoneWritten
  <2>6. /\ Occurrences(t, Gathered(a)) \in Nat /\ Occurrences(t, Gathered(b)) \in Nat
    BY <2>1, GatheredFinite, OccurrencesCount
  <2> HIDE DEF a, b, i
  <2>7. Occurrences(t, Gathered(b)) + PartOf(t, a, i) = Occurrences(t, Gathered(a)) + PartOf(t, b, i)
    BY <2>1, <2>2, <2>3, PartChanged
  <2>8. Occurrences(t, Gathered(b)) = Occurrences(t, Gathered(a))
    BY <2>4, <2>5, <2>6, <2>7
  <2> QED BY <2>8 DEF a, b
<1>19. CountsKept'
  <2>1. /\ AllSlots' = AllSlots
        /\ WrittenGlobals' = Gathered(GlobalArrays(modules'))
    BY <1>1 DEF AllSlots, WrittenGlobals, GlobalArrays
  <2>2. \A t : Occurrences(t, WrittenGlobals') = Occurrences(t, WrittenGlobals)
    BY <1>14, <1>18, <2>1, AllArrays
  <2>3. Balanced => Balanced'
    BY <1>1, <2>1, <2>2 DEF Balanced
  <2> QED BY <1>1, <2>3 DEF CountInv, CountsKept
<1> QED BY <1>17, <1>19 DEF CountInv

\* furlang_module_add_function.
LEMMA AddFunctionCounts ==
  ASSUME CountInv, NEW n \in ModuleHandles, NEW f \in FunctionsOf(n),
         AddFunction(n, modules[n + 1].functions[f + 1])
  PROVE  CountInv'
<1>1. CASE n = 0
  <2>1. Abort("module is not null")
    BY <1>1 DEF AddFunction
  <2> QED BY <2>1, AbortCounts
<1>2. CASE n # 0
  <2> DEFINE i == n + 1
  <2>1. PICK functions, function : functions = modules[i].functions /\ function = functions[f + 1]
    OBVIOUS
  <2>2. /\ modules' = [modules EXCEPT ![i].functions = Append(@, function)]
        /\ UNCHANGED <<executors, heap, stray, fault>>
    BY <1>2, <2>1 DEF AddFunction
  <2>3. PICK S : modules \in Seq(S)
    BY DEF CountInv, TypedContext, TypedModules, IsSequence
  <2>4. i \in DOMAIN modules
    BY <2>3 DEF ModuleHandles
  <2> HIDE DEF i
  <2>5. IsModule(modules[i])
    BY <2>4 DEF CountInv, TypedContext, TypedModules
  <2>6. PICK code, globals : code = modules[i].code /\ globals = modules[i].globals
    OBVIOUS
  <2>7. modules[i] = [code |-> code, functions |-> functions, globals |-> globals]
    BY <2>1, <2>5, <2>6 DEF IsModule
  <2>8. PICK grown : grown = Append(functions, function)
    OBVIOUS
  <2>9. PICK module : module = [code |-> code, functions |-> grown, globals |-> globals]
    OBVIOUS
  <2>10. [modules[i] EXCEPT !.functions = grown] = module
    BY <2>7, <2>9
  <2>11. modules' = [modules EXCEPT ![i] = module]
    <3>1. modules' = [modules EXCEPT ![i] = [modules[i] EXCEPT !.functions = grown]]
      BY <2>1, <2>2, <2>8
    <3> QED BY <2>10, <3>1
  <2>12. IsModule(module)
    <3>1. /\ code \in Seq(Int) /\ IsSequence(functions) /\ TypedGlobals(globals)
          /\ \A g \in DOMAIN functions : functions[g].address \in Nat /\ functions[g].paramCount \in Nat
      BY <2>1, <2>5, <2>6 DEF IsModule, TypedModule
    <3>2. PICK T : functions \in Seq(T)
      BY <3>1 DEF IsSequence
    <3>3. PICK len \in Nat : len = Len(functions) /\ DOMAIN functions = 1..len
      BY <3>2
    <3>4. f + 1 \in 1..len
      <4>1. modules[n + 1].functions = functions
        BY <2>1 DEF i
      <4>2. f \in 0..(len - 1)
        BY <3>3, <4>1 DEF FunctionsOf
      <4> QED BY <4>2
    <3>5. function \in T
      BY <2>1, <3>2, <3>3, <3>4
    <3>6. grown \in Seq(T) /\ DOMAIN grown = 1..(len + 1) /\ grown[len + 1] = function
          /\ \A g \in 1..len : grown[g] = functions[g]
      BY <2>8, <3>2, <3>3, <3>5
    <3>7. \A g \in 1..(len + 1) : grown[g].address \in Nat /\ grown[g].paramCount \in Nat
      <4> SUFFICES ASSUME NEW g \in 1..(len + 1) PROVE grown[g].address \in Nat /\ grown[g].paramCount \in Nat
        OBVIOUS
      <4>1. CASE g \in 1..len
        BY <3>1, <3>3, <3>6, <4>1
      <4>2. CASE g = len + 1
        BY <2>1, <3>1, <3>3, <3>4, <3>6, <4>2
      <4> QED BY <4>1, <4>2
    <3>8. module.code = code /\ module.functions = grown /\ module.globals = globals
      BY <2>9
    <3>9. TypedModule(module)
      BY <3>1, <3>6, <3>7, <3>8 DEF TypedModule, IsSequence
    <3> QED BY <2>9, <3>1, <3>8, <3>9 DEF IsModule
  <2>13. TypedModules(modules')
    <3>1. /\ DOMAIN modules' = DOMAIN modules /\ modules'[i] = module
          /\ \A k \in DOMAIN modules : k # i => modules'[k] = modules[k]
      BY <2>4, <2>11
    <3>2. \A k \in DOMAIN modules' : IsModule(modules'[k])
      BY <2>12, <3>1 DEF CountInv, TypedContext, TypedModules
    <3>3. IsSequence(modules')
      BY <2>3, <2>11, ChangedSequence DEF IsSequence
    <3> QED BY <3>2, <3>3 DEF TypedModules
  <2>14. WrittenGlobals' = WrittenGlobals
    <3>1. module.globals = globals
      BY <2>9
    <3>2. DOMAIN modules' = DOMAIN modules /\ \A k \in DOMAIN modules : modules'[k].globals = modules[k].globals
      BY <2>4, <2>6, <2>11, <3>1
    <3>3. GlobalArrays(modules') = GlobalArrays(modules)
      BY <3>2 DEF GlobalArrays
    <3> QED BY <3>3 DEF WrittenGlobals, GlobalArrays
  <2>15. AllSlots' = AllSlots
    BY <2>2 DEF AllSlots
  <2> QED BY <2>2, <2>13, <2>14, <2>15 DEF CountInv, TypedContext, CountsKept, Balanced
<1> QED BY <1>1, <1>2
-----------------------------------------------------------------------------
Started(position) ==
  [NewExecutor EXCEPT !.callStack = <<position>>, !.scopes = <<NewScope>>]

LEMMA StartedTyped ==
  ASSUME NEW position \in Positions, NEW e, e = Started(position)
  PROVE  TypedExecutor(e) /\ \A t : Occurrences(t, SlotsOf(e)) = 0
<1> DEFINE new == [running |-> TRUE, callStack |-> <<>>, scopes |-> <<>>]
<1>1. new.callStack = <<>> /\ new.scopes = <<>> /\ new.running = TRUE
  OBVIOUS
<1>2. TypedExecutor(new)
  BY DEF TypedExecutor, IsExecutor, IsSequence
<1>3. PICK calls, scopes : calls = <<position>> /\ scopes = <<NewScope>>
  OBVIOUS
<1>4. e = [running |-> TRUE, callStack |-> calls, scopes |-> scopes]
  <2>1. NewExecutor = new
    BY DEF NewExecutor
  <2>2. [new EXCEPT !.callStack = calls, !.scopes = scopes]
          = [running |-> TRUE, callStack |-> calls, scopes |-> scopes]
    <3>1. PICK empty, running : empty = <<>> /\ running = TRUE
      OBVIOUS
    <3>4. PICK first : first = [running |-> running, callStack |-> empty, scopes |-> empty]
      OBVIOUS
    <3>5. PICK second : second = [first EXCEPT !.callStack = calls]
      OBVIOUS
    <3>2. second = [running |-> running, callStack |-> calls, scopes |-> empty]
      BY <3>4, <3>5
    <3>3. [second EXCEPT !.scopes = scopes]
            = [running |-> running, callStack |-> calls, scopes |-> scopes]
      BY <3>2
    <3>6. [new EXCEPT !.callStack = calls, !.scopes = scopes] = [second EXCEPT !.scopes = scopes]
      <4>1. new = first
        BY <3>1, <3>4
      <4> HIDE DEF new
      <4> QED BY <3>5, <4>1
    <3> QED BY <3>1, <3>3, <3>6
  <2> QED BY <1>3, <2>1, <2>2 DEF Started
<1>5. calls = Append(<<>>, position) /\ scopes = Append(<<>>, NewScope)
  BY <1>3
<1>6. e = Entered(new, position, NewScope)
  BY <1>1, <1>4, <1>5 DEF Entered
<1> HIDE DEF new
<1>7. /\ TypedExecutor(e)
      /\ \A t : Occurrences(t, SlotsOf(e)) = Occurrences(t, SlotsOf(new)) + Occurrences(t, ScopeSlots(NewScope))
  BY <1>2, <1>6, NewScopeTyped, EnteredTyped
<1>8. \A t : Occurrences(t, SlotsOf(new)) = 0
  BY <1>1, NoScopes
<1>9. ASSUME NEW t PROVE Occurrences(t, SlotsOf(e)) = 0
  <2>1. Occurrences(t, ScopeSlots(NewScope)) = 0
    BY NewScopeTyped
  <2> QED BY <1>7, <1>8, <2>1
<1> QED BY <1>7, <1>9

LEMMA TableGrown ==
  ASSUME NEW table, TypedTable(table), NEW id \in Nat, id \notin TableIds(table),
         NEW e, TypedExecutor(e), NEW changed, changed = TablePut(table, id, e)
  PROVE  /\ TypedTable(changed) /\ TableIds(changed) = TableIds(table) \cup {id}
         /\ changed.entry[id] = e
         /\ \A j \in TableIds(table) : table.entry[j] = changed.entry[j]
<1>1. WellFormed(table) /\ table.order \in Seq(Nat)
  BY DEF TypedTable
<1>2. WellFormed(changed) /\ changed.order = Append(table.order, id)
  BY <1>1, PutNew
<1>3. changed.order \in Seq(Nat)
  BY <1>1, <1>2
<1>4. changed.entry = [i \in TableIds(table) \cup {id} |-> IF i = id THEN e ELSE table.entry[i]]
  BY DEF TablePut
<1>5. TableIds(changed) = TableIds(table) \cup {id}
  BY <1>4 DEF TableIds
<1>6. changed.entry[id] = e /\ \A j \in TableIds(table) : table.entry[j] = changed.entry[j]
  BY <1>4
<1>7. \A j \in TableIds(changed) : TypedExecutor(changed.entry[j])
  BY <1>5, <1>6 DEF TypedTable
<1> QED BY <1>2, <1>3, <1>5, <1>6, <1>7 DEF TypedTable

\* furlang_executor_create: a new executor holds nothing.
LEMMA CreateExecutorCounts ==
  ASSUME CountInv, IdsInv, HostInv, NEW n \in ModuleHandles, NEW f \in Host.entries,
         CreateExecutor(n, f)
  PROVE  CountInv'
<1>1. CASE f >= Len(modules[n + 1].functions)
  <2>1. Abort("function exists")
    BY <1>1 DEF CreateExecutor
  <2> QED BY <2>1, AbortCounts
<1>2. CASE ~(f >= Len(modules[n + 1].functions))
  <2> DEFINE position == [module |-> n, address |-> modules[n + 1].functions[f + 1].address]
  <2>1. PICK e : e = Started(position)
    OBVIOUS
  <2>2. executors' = TablePut(executors, AppendedExecutorId, e)
        /\ UNCHANGED <<modules, heap, stray, fault>>
    BY <1>2, <2>1 DEF CreateExecutor, Started
  <2>3. position \in Positions
    <3>1. n \in Nat /\ n + 1 \in DOMAIN modules
      <4>1. PICK S : modules \in Seq(S)
        BY DEF CountInv, TypedContext, TypedModules, IsSequence
      <4> QED BY <4>1 DEF ModuleHandles
    <3>2. f \in Nat
      <4>1. Host \in Range(Hosts)
        BY DEF HostInv, Host, Range
      <4>2. Host.entries \subseteq Nat
        BY <4>1, HostsAssumption
      <4> QED BY <4>2
    <3>3. PICK functions : functions = modules[n + 1].functions
      OBVIOUS
    <3>4. IsSequence(functions) /\ \A j \in DOMAIN functions : functions[j].address \in Nat
      BY <3>1, <3>3 DEF CountInv, TypedContext, TypedModules, IsModule, TypedModule
    <3>5. f + 1 \in DOMAIN functions
      <4>1. PICK S : functions \in Seq(S)
        BY <3>4 DEF IsSequence
      <4>2. PICK len \in Nat : len = Len(functions) /\ DOMAIN functions = 1..len
        BY <4>1
      <4>3. ~(f >= len)
        BY <1>2, <3>3, <4>2
      <4> QED BY <3>2, <4>2, <4>3
    <3> QED BY <3>1, <3>3, <3>4, <3>5 DEF Positions
  <2> HIDE DEF position
  <2>4. TypedExecutor(e) /\ \A t : Occurrences(t, SlotsOf(e)) = 0
    BY <2>1, <2>3, StartedTyped
  <2>5. PICK id : id = AppendedExecutorId
    OBVIOUS
  <2>6. id \in Nat /\ id \notin TableIds(executors)
    BY <2>5, AppendedIsNew
  <2>7. PICK changed : changed = executors'
    OBVIOUS
  <2>8. TypedTable(executors) /\ changed = TablePut(executors, id, e)
    BY <2>2, <2>5, <2>7 DEF CountInv, TypedContext
  <2>9. /\ TypedTable(changed) /\ TableIds(changed) = TableIds(executors) \cup {id}
        /\ changed.entry[id] = e
        /\ \A j \in TableIds(executors) : executors.entry[j] = changed.entry[j]
    BY <2>4, <2>6, <2>8, TableGrown
  <2>10. TypedContext'
    BY <2>2, <2>7, <2>9 DEF TypedContext, CountInv
  <2>11. ASSUME NEW t PROVE Occurrences(t, AllSlots') = Occurrences(t, AllSlots)
    <3>1. \A j : j # id => (j \in TableIds(executors) <=> j \in TableIds(changed))
      BY <2>9
    <3>2. Occurrences(t, Gathered(ExecutorArrays(changed)))
            = Cardinality(Outside(t, ExecutorArrays(executors), id)) + PartOf(t, ExecutorArrays(changed), id)
      BY <2>8, <2>9, <3>1, TableFollows
    <3>3. PartOf(t, ExecutorArrays(changed), id) = 0
      BY <2>4, <2>9 DEF PartOf, ExecutorArrays
    <3>4. PartOf(t, ExecutorArrays(executors), id) = 0
      BY <2>6 DEF PartOf, ExecutorArrays
    <3>5. /\ Cardinality(Outside(t, ExecutorArrays(executors), id)) \in Nat
          /\ Occurrences(t, Gathered(ExecutorArrays(executors)))
               = Cardinality(Outside(t, ExecutorArrays(executors), id)) + PartOf(t, ExecutorArrays(executors), id)
      BY <2>8, TableFinite, GatheredSplit
    <3>6. Occurrences(t, Gathered(ExecutorArrays(changed))) = Occurrences(t, Gathered(ExecutorArrays(executors)))
      BY <3>2, <3>3, <3>4, <3>5
    <3>7. AllSlots' = Gathered(ExecutorArrays(changed))
      BY <2>7 DEF AllSlots, ExecutorArrays
    <3> QED BY <3>6, <3>7, AllArrays
  <2>12. WrittenGlobals' = WrittenGlobals
    BY <2>2 DEF WrittenGlobals
  <2>13. CountsKept'
    BY <2>2, <2>11, <2>12 DEF CountInv, CountsKept, Balanced
  <2> QED BY <2>10, <2>13 DEF CountInv
<1> QED BY <1>1, <1>2
-----------------------------------------------------------------------------
\* Every instruction keeps the counts.
LEMMA InstructionsCount ==
  ASSUME NEW m, NEW module, NEW K \in [Nat -> Nat], NEW h, Ready(m, module, K, h),
         NEW n \in Outcomes(m, module)
  PROVE  Good(n, K, h)
<1>1. \/ n \in Nop(m, module) \/ n \in Ipush(m, module) \/ n \in Bipush(m, module)
      \/ n \in Fpush(m, module) \/ n \in Sfpush(m, module) \/ n \in Dup(m, module)
      \/ n \in Swap(m, module) \/ n \in PopOne(m, module) \/ n \in Ret(m, module)
      \/ n \in Str(m, module) \/ n \in Lod(m, module) \/ n \in Strg(m, module)
      \/ n \in Lodg(m, module) \/ n \in Jmp(m, module) \/ n \in Jz(m, module)
      \/ n \in Jnz(m, module) \/ n \in Call(m, module) \/ n \in Add(m, module)
      \/ n \in Sub(m, module) \/ n \in Mul(m, module) \/ n \in Div(m, module)
      \/ n \in Mod(m, module)
  BY DEF Outcomes
<1>2. ASSUME n \in Ret(m, module) PROVE Good(n, K, h)
  <2>1. n = StepOut(m) /\ Good(m, K, h)
    BY <1>2 DEF Ret, Ready, InCall
  <2> QED BY <2>1, StepOutCounts
<1>3. ASSUME n \in Call(m, module) PROVE InCall(n, K, h)
  BY <1>3, CallCounts DEF Ready
<1>4. ASSUME \/ n \in Add(m, module) \/ n \in Sub(m, module) \/ n \in Mul(m, module)
             \/ n \in Div(m, module) \/ n \in Mod(m, module)
      PROVE  InCall(n, K, h)
  <2>1. \E operator \in Operators : n \in Binop(operator, m)
    BY <1>4 DEF Add, Sub, Mul, Div, Mod, Operators
  <2> QED BY <2>1, BinopCounts
<1>5. ASSUME \/ n \in Ipush(m, module) \/ n \in Bipush(m, module)
             \/ n \in Fpush(m, module) \/ n \in Sfpush(m, module)
      PROVE  InCall(n, K, h)
  BY <1>5, PushInstructions
<1>6. ASSUME \/ n \in Nop(m, module) \/ n \in Dup(m, module) \/ n \in Swap(m, module)
             \/ n \in PopOne(m, module)
      PROVE  InCall(n, K, h)
  BY <1>6, StackInstructions
<1>7. ASSUME \/ n \in Str(m, module) \/ n \in Lod(m, module)
             \/ n \in Strg(m, module) \/ n \in Lodg(m, module)
      PROVE  InCall(n, K, h)
  BY <1>7, VariableInstructions
<1>8. ASSUME n \in Jmp(m, module) \/ n \in Jz(m, module) \/ n \in Jnz(m, module)
      PROVE  InCall(n, K, h)
  BY <1>8, JumpInstructions
<1> QED BY <1>1, <1>2, <1>3, <1>4, <1>5, <1>6, <1>7, <1>8 DEF InCall

\* The opcode is skipped.
LEMMA MovedPosition ==
  ASSUME NEW m, Typed(m), m.executor.callStack # <<>>, NEW address \in Nat
  PROVE  /\ Position(MoveTo(m, address)) \in Positions
         /\ Position(MoveTo(m, address)).address = address
<1>1. PICK e : e = m.executor
  OBVIOUS
<1>2. /\ m = [heap |-> m.heap, globals |-> m.globals, executor |-> e, stray |-> m.stray, fault |-> m.fault]
      /\ e = [running |-> e.running, callStack |-> e.callStack, scopes |-> e.scopes]
      /\ e.callStack \in Seq(Positions) /\ e.callStack # <<>>
  BY <1>1 DEF Typed, IsMachine, TypedExecutor, IsExecutor
<1>3. PICK calls : calls = e.callStack
  OBVIOUS
<1>4. PICK len \in Nat : len = Len(calls) /\ DOMAIN calls = 1..len /\ len >= 1
  BY <1>2, <1>3
<1>5. MoveTo(m, address) = [m EXCEPT !.executor.callStack[len].address = address]
  BY <1>1, <1>3, <1>4 DEF MoveTo
<1>6. PICK moved : moved = [calls EXCEPT ![len].address = address]
  OBVIOUS
<1>7. MoveTo(m, address).executor.callStack = moved
  <2>1. PICK n : n = MoveTo(m, address)
    OBVIOUS
  <2>2. n.executor = [e EXCEPT !.callStack[len].address = address]
    BY <1>1, <1>2, <1>5, <2>1
  <2>3. n.executor.callStack = [calls EXCEPT ![len].address = address]
    BY <1>2, <1>3, <2>2
  <2> QED BY <1>6, <2>1, <2>3
<1>8. PICK at : at = calls[len]
  OBVIOUS
<1>9. at \in Positions
  BY <1>2, <1>3, <1>4, <1>8
<1>10. PICK new : new = [at EXCEPT !.address = address]
  OBVIOUS
<1>11. new \in Positions /\ new.address = address
  BY <1>9, <1>10 DEF Positions
<1>12. moved = [calls EXCEPT ![len] = new]
  BY <1>6, <1>8, <1>10
<1>13. Last(moved) = new
  <2>1. moved \in Seq(Positions) /\ Len(moved) = len /\ moved[len] = new
    BY <1>2, <1>3, <1>4, <1>11, <1>12, ExceptSeq
  <2> QED BY <2>1 DEF Last
<1> QED BY <1>7, <1>11, <1>13 DEF Position
-----------------------------------------------------------------------------
\* What is fetched: the machine is ready for an instruction.
LEMMA FetchedReady ==
  ASSUME CountInv, IdsInv, EntriesFramed(executors), CanFetch,
         NEW n, n = At.module, NEW address, address = At.address,
         NEW moved, moved = MoveTo(MachineOf(CurrentId, n), address + 1)
  PROVE  /\ CurrentId \in TableIds(executors)
         /\ n \in Nat /\ n + 1 \in DOMAIN modules
         /\ Ready(moved, modules[n + 1], Elsewhere(executors, modules, CurrentId, n), heap)
<1>1. CurrentId \in TableIds(executors) /\ Current = executors.entry[CurrentId]
  BY CurrentIsLiving DEF CanFetch, Current
<1>2. TypedExecutor(Current) /\ Framed(Current)
  BY <1>1 DEF CountInv, TypedContext, TypedTable, EntriesFramed
<1>3. /\ Current.callStack # <<>>
      /\ ~(At.module >= Len(modules))
      /\ IsBelow(At.address, Len(Code))
  BY DEF CanFetch, FetchFault, NoFault
<1>4. At \in Positions
  <2>1. Current.callStack \in Seq(Positions)
    BY <1>2 DEF TypedExecutor
  <2> QED BY <1>3, <2>1, LastFront DEF At
<1>5. n \in Nat /\ address \in Nat
  <2>1. At.address \in 0..(Len(Code) - 1)
    BY <1>3 DEF IsBelow
  <2>2. n \in Nat /\ address \in Int
    BY <1>4 DEF Positions
  <2>3. PICK k : k = Len(Code) - 1
    OBVIOUS
  <2>4. address \in 0..k
    BY <2>1, <2>3
  <2>5. address \in Nat
    <3>1. address >= 0
      BY <2>4
    <3> QED BY <2>2, <3>1
  <2> QED BY <2>2, <2>5
<1>6. n + 1 \in DOMAIN modules
  <2>1. PICK S : modules \in Seq(S)
    BY DEF CountInv, TypedContext, TypedModules, IsSequence
  <2>2. PICK len \in Nat : len = Len(modules) /\ DOMAIN modules = 1..len
    BY <2>1
  <2>3. ~(n >= len)
    BY <1>3, <2>2
  <2> QED BY <1>5, <2>2, <2>3
<1>7. TypedModule(modules[n + 1])
  BY <1>6 DEF CountInv, TypedContext, TypedModules, IsModule
<1> DEFINE K == Elsewhere(executors, modules, CurrentId, n)
<1>8. PICK m : m = MachineOf(CurrentId, n)
  OBVIOUS
<1>9. Good(m, K, heap) /\ m.fault = NoFault /\ m.executor = Current
  BY <1>1, <1>5, <1>8, MachineGood DEF CountInv, MachineOf
<1>10. K \in [Nat -> Nat]
  BY <1>5, ElsewhereTyped DEF CountInv, TypedContext
<1>11. m.executor.scopes # <<>>
  <2>1. Len(Current.callStack) = Len(Current.scopes) /\ IsSequence(Current.callStack) /\ IsSequence(Current.scopes)
    BY <1>2 DEF Framed, IsExecutor
  <2>2. Current.scopes # <<>>
    BY <1>3, <2>1, SequenceLength
  <2> QED BY <1>9, <2>2
<1> HIDE DEF K
<1>12. InCall(m, K, heap)
  BY <1>9, <1>11 DEF InCall
<1>13. address + 1 \in Nat /\ address + 1 \in Int
  BY <1>5
<1>14. PICK next \in Nat : next = address + 1
  BY <1>13
<1>15. moved = MoveTo(m, next)
  BY <1>8, <1>14
<1>16. InCall(MoveTo(m, next), K, heap) /\ MoveTo(m, next).fault = m.fault
  <2>1. next \in Int
    BY <1>14
  <2> QED BY <1>10, <1>12, <2>1, MoveToCounts
<1>17. Position(MoveTo(m, next)) \in Positions /\ Position(MoveTo(m, next)).address = next
  <2>1. Typed(m) /\ m.executor.callStack # <<>>
    BY <1>3, <1>9 DEF Good
  <2> QED BY <2>1, MovedPosition
<1>18. Ready(moved, modules[n + 1], K, heap)
  BY <1>7, <1>9, <1>14, <1>15, <1>16, <1>17 DEF Ready
<1> QED BY <1>1, <1>5, <1>6, <1>18 DEF K

\* An instruction that is executed, and what it leaves.
LEMMA ExecutedCounts ==
  ASSUME ExecuteInstruction
  PROVE  \E m \in Outcomes(MoveTo(MachineOf(CurrentId, At.module), At.address + 1),
                           modules[At.module + 1]) :
           IF m.fault # NoFault
           THEN /\ fault' = m.fault /\ stray' = (stray \/ m.stray)
                /\ UNCHANGED <<modules, executors, heap>>
           ELSE /\ heap' = m.heap /\ stray' = m.stray
                /\ executors' = [executors EXCEPT !.entry[CurrentId] = m.executor]
                /\ modules' = [modules EXCEPT ![At.module + 1].globals = m.globals]
                /\ UNCHANGED fault
BY DEF ExecuteInstruction, Execute, Adopt, Outcomes

LEMMA GlobalsSet ==
  ASSUME NEW loaded, TypedModules(loaded), NEW n \in Nat, n + 1 \in DOMAIN loaded, NEW globals,
         NEW changed, changed = [loaded EXCEPT ![n + 1].globals = globals]
  PROVE  GlobalsFollow(loaded, n, globals, changed)
<1>1. PICK i : i = n + 1
  OBVIOUS
<1>2. IsSequence(loaded) /\ \A k \in DOMAIN loaded :
        loaded[k] = [code |-> loaded[k].code, functions |-> loaded[k].functions, globals |-> loaded[k].globals]
  BY DEF TypedModules, IsModule
<1>3. PICK code, functions, old : code = loaded[i].code /\ functions = loaded[i].functions /\ old = loaded[i].globals
  OBVIOUS
<1>4. loaded[i] = [code |-> code, functions |-> functions, globals |-> old]
  BY <1>1, <1>2, <1>3
<1>5. PICK module : module = [code |-> code, functions |-> functions, globals |-> globals]
  OBVIOUS
<1>6. changed = [loaded EXCEPT ![i] = module]
  <2>1. changed = [loaded EXCEPT ![i] = [loaded[i] EXCEPT !.globals = globals]]
    BY <1>1
  <2>2. [loaded[i] EXCEPT !.globals = globals] = module
    BY <1>4, <1>5
  <2> QED BY <2>1, <2>2
<1>7. IsSequence(changed)
  <2>1. IsSequence(loaded)
    BY <1>2
  <2>2. IsSequence([loaded EXCEPT ![i] = module])
    BY <2>1, ChangedSequence
  <2> QED BY <1>6, <2>2
<1>8. DOMAIN changed = DOMAIN loaded /\ changed[i] = module
      /\ \A k \in DOMAIN loaded : k # i => changed[k] = loaded[k]
  BY <1>1, <1>6
<1>9. ASSUME NEW k \in DOMAIN loaded
      PROVE  changed[k] = [code |-> loaded[k].code, functions |-> loaded[k].functions,
                           globals |-> IF k = n + 1 THEN globals ELSE loaded[k].globals]
  <2>1. CASE k = i
    BY <1>1, <1>3, <1>5, <1>8, <2>1
  <2>2. CASE k # i
    BY <1>1, <1>2, <1>8, <2>2
  <2> QED BY <2>1, <2>2
<1> QED BY <1>7, <1>8, <1>9 DEF GlobalsFollow

LEMMA StepCounts ==
  ASSUME CountInv, IdsInv, EntriesFramed(executors), Step
  PROVE  CountInv'
<1>1. CASE CannotFetch
  <2>1. Abort(FetchFault)
    BY <1>1 DEF CannotFetch
  <2>2. FetchFault # "count is positive"
    BY DEF FetchFault, NoFault
  <2> QED BY <2>1, <2>2, AbortCounts
<1>2. CASE CanFetch /\ ExecuteInstruction
  <2>1. PICK n, address : n = At.module /\ address = At.address
    OBVIOUS
  <2>2. PICK moved : moved = MoveTo(MachineOf(CurrentId, n), address + 1)
    OBVIOUS
  <2> DEFINE K == Elsewhere(executors, modules, CurrentId, n)
  <2>3. /\ CurrentId \in TableIds(executors)
        /\ n \in Nat /\ n + 1 \in DOMAIN modules
        /\ Ready(moved, modules[n + 1], K, heap)
    BY <1>2, <2>1, <2>2, FetchedReady
  <2>4. PICK m \in Outcomes(moved, modules[n + 1]) :
           IF m.fault # NoFault
           THEN /\ fault' = m.fault /\ stray' = (stray \/ m.stray)
                /\ UNCHANGED <<modules, executors, heap>>
           ELSE /\ heap' = m.heap /\ stray' = m.stray
                /\ executors' = [executors EXCEPT !.entry[CurrentId] = m.executor]
                /\ modules' = [modules EXCEPT ![n + 1].globals = m.globals]
                /\ UNCHANGED fault
    BY <1>2, <2>1, <2>2, ExecutedCounts
  <2>5. K \in [Nat -> Nat]
    BY <2>3, ElsewhereTyped DEF CountInv, TypedContext
  <2> HIDE DEF K
  <2>6. Good(m, K, heap)
    BY <2>3, <2>4, <2>5, InstructionsCount
  <2>7. CASE m.fault = NoFault
    <3>1. /\ heap' = m.heap /\ stray' = m.stray
          /\ executors' = [executors EXCEPT !.entry[CurrentId] = m.executor]
          /\ modules' = [modules EXCEPT ![n + 1].globals = m.globals]
          /\ UNCHANGED fault
      BY <2>4, <2>7
    <3>2. PICK changed : changed = modules'
      OBVIOUS
    <3>3. GlobalsFollow(modules, n, m.globals, changed)
      <4>1. TypedModules(modules)
        BY DEF CountInv, TypedContext
      <4>2. changed = [modules EXCEPT ![n + 1].globals = m.globals]
        BY <3>1, <3>2
      <4> QED BY <2>3, <4>1, <4>2, GlobalsSet
    <3>4. GlobalsFollow(modules, n, m.globals, modules')
      BY <3>2, <3>3
    <3>5. Good(m, Elsewhere(executors, modules, CurrentId, n), heap)
      BY <2>6 DEF K
    <3>6. Running
      BY <1>2 DEF CanFetch, Stepping
    <3> QED BY <2>3, <2>7, <3>1, <3>4, <3>5, <3>6, AdoptCounts
  <2>8. CASE m.fault # NoFault
    <3>1. /\ fault' = m.fault /\ stray' = (stray \/ m.stray)
          /\ UNCHANGED <<modules, executors, heap>>
      BY <2>4, <2>8
    <3>2. m.stray \in BOOLEAN /\ stray \in BOOLEAN
      BY <2>6 DEF Good, Typed, CountInv, TypedContext
    <3>3. stray' \in BOOLEAN /\ (stray' = FALSE => stray = FALSE /\ m.stray = FALSE)
      BY <3>1, <3>2
    <3>4. stray' = FALSE => fault' # "count is positive"
      BY <2>6, <3>1, <3>3 DEF Good
    <3>5. TypedContext'
      BY <3>1, <3>3 DEF CountInv, TypedContext
    <3>6. AllSlots' = AllSlots /\ WrittenGlobals' = WrittenGlobals
      BY <3>1 DEF AllSlots, WrittenGlobals
    <3>7. Balanced => Balanced'
      BY <3>1, <3>6 DEF Balanced
    <3>8. CountsKept'
      BY <3>3, <3>4, <3>7 DEF CountInv, CountsKept
    <3> QED BY <3>5, <3>8 DEF CountInv
  <2> QED BY <2>7, <2>8
<1> QED BY <1>1, <1>2 DEF Step

\* A thing that is removed was counted zero times.
LEMMA CollectCounts ==
  ASSUME CountInv, CollectVisit
  PROVE  CountInv'
<1> DEFINE id == heap.things.order[loop.at]
<1>1. /\ loop.at \in DOMAIN heap.things.order
      /\ heap' = AfterVisit(heap, loop.at)
      /\ UNCHANGED <<modules, executors, stray, fault>>
  BY DEF CollectVisit
<1>2. TypedHeap(heap)
  BY DEF CountInv, TypedContext
<1>3. id \in LiveThings(heap)
  BY <1>1, <1>2 DEF TypedHeap, HeapInv, HeapShape, WellFormed, LiveThings
<1>4. PICK h : h = heap'
  OBVIOUS
<1>5. h = IF Thing(heap, id).references # 0 THEN heap ELSE RemoveThing(heap, id)
  BY <1>1, <1>4 DEF AfterVisit
<1> HIDE DEF id
<1>6. TypedHeap(h) /\ \A t : Refs(h, t) = Refs(heap, t)
  <2>1. CASE Thing(heap, id).references # 0
    BY <1>2, <1>5, <2>1
  <2>2. CASE Thing(heap, id).references = 0
    <3>1. h = RemoveThing(heap, id)
      BY <1>5, <2>2
    <3> QED BY <1>2, <1>3, <2>2, <3>1, Removed
  <2> QED BY <2>1, <2>2
<1>7. TypedContext'
  BY <1>1, <1>4, <1>6 DEF CountInv, TypedContext
<1>8. AllSlots' = AllSlots /\ WrittenGlobals' = WrittenGlobals
  BY <1>1 DEF AllSlots, WrittenGlobals
<1>9. Balanced => Balanced'
  BY <1>4, <1>6, <1>8 DEF Balanced
<1>10. CountsKept'
  BY <1>1, <1>9 DEF CountInv, CountsKept
<1> QED BY <1>7, <1>10 DEF CountInv

LEMMA NextCounts == ExecutorsInv /\ CountInv /\ [Next]_vars => CountInv'
<1> SUFFICES ASSUME ExecutorsInv, CountInv, [Next]_vars PROVE CountInv'
  OBVIOUS
<1>1. IdsInv /\ EntriesFramed(executors) /\ HostInv
  BY DEF ExecutorsInv
<1>2. CASE UNCHANGED vars
  <2>1. UNCHANGED <<modules, executors, heap, stray, fault>>
    BY <1>2 DEF vars
  <2> QED BY <2>1, SameCounts
<1>3. CASE CreateModule
  BY <1>1, <1>3, CreateModuleCounts
<1>4. ASSUME NEW n \in ModuleHandles, NEW f \in FunctionsOf(n), AddFunction(n, modules[n + 1].functions[f + 1])
      PROVE  CountInv'
  BY <1>4, AddFunctionCounts
<1>5. ASSUME NEW n \in ModuleHandles, NEW f \in Host.entries, CreateExecutor(n, f) PROVE CountInv'
  BY <1>1, <1>5, CreateExecutorCounts
<1>6. ASSUME NEW id \in TableIds(executors), DestroyExecutor(id) PROVE CountInv'
  BY <1>1, <1>6, DestroyExecutorCounts
<1>7. ASSUME NEW id \in TableIds(executors), NEW n \in ModuleHandles, NEW f \in FunctionsOf(n), HostStepIn(id, n, f)
      PROVE  CountInv'
  BY <1>7, HostStepInCounts
<1>8. ASSUME NEW id \in TableIds(executors), HostStepOut(id) PROVE CountInv'
  BY <1>8, HostStepOutCounts
<1>9. ASSUME NEW id, BeginOne(id) PROVE CountInv'
  BY <1>9, SameCounts DEF BeginOne
<1>10. ASSUME NEW kind, BeginRounds(kind) PROVE CountInv'
  BY <1>10, SameCounts DEF BeginRounds
<1>11. CASE BeginCollect
  BY <1>11, SameCounts DEF BeginCollect
<1>12. CASE DestroyContext
  BY <1>12, DestroyContextCounts
<1>13. CASE RoundEnds
  BY <1>13, SameCounts DEF RoundEnds
<1>14. CASE Step
  BY <1>1, <1>14, StepCounts
<1>15. CASE CollectVisit
  BY <1>15, CollectCounts
<1>16. CASE CollectEnds
  <2>1. Abort("cursor is inside the table") \/ UNCHANGED <<modules, executors, heap, stray, fault>>
    BY <1>16 DEF CollectEnds
  <2> QED BY <2>1, AbortCounts, SameCounts
<1> QED
  BY <1>2, <1>3, <1>4, <1>5, <1>6, <1>7, <1>8, <1>9, <1>10, <1>11, <1>12, <1>13, <1>14,
     <1>15, <1>16 DEF Next, HostNext, LibraryNext

\* The counts of the invariant are the ones CountsExact is about.
LEMMA CountsSuffice == CountInv => CountsExact
<1> SUFFICES ASSUME CountInv, ~stray PROVE
      /\ \A t \in LiveThings(heap) :
           Thing(heap, t).references = Occurrences(t, AllSlots) + Occurrences(t, WrittenGlobals)
      /\ fault # "count is positive"
  BY DEF CountsExact
<1>1. stray = FALSE
  BY DEF CountInv, TypedContext
<1>2. Balanced /\ fault # "count is positive"
  BY <1>1 DEF CountInv, CountsKept
<1>3. ASSUME NEW t \in LiveThings(heap)
      PROVE  Thing(heap, t).references = Occurrences(t, AllSlots) + Occurrences(t, WrittenGlobals)
  <2>1. t \in Nat
    BY LiveIds DEF CountInv, TypedContext, TypedHeap
  <2>2. Refs(heap, t) = Occurrences(t, AllSlots) + Occurrences(t, WrittenGlobals)
    BY <1>2, <2>1 DEF Balanced
  <2> QED BY <2>2 DEF Refs
<1> QED BY <1>2, <1>3

\* For every program and every host, the count of a thing is the number of
\* places that hold it, and no unreference finds a count of zero, until a global
\* nobody wrote is unreferenced or the id of a live thing is handed out again
\* (Runtime.CountsExact; thing.c:31-48, executor.c:46-343).
THEOREM CountsExactHolds == Spec => []CountsExact
<1>1. Init => ExecutorsInv /\ CountInv
  BY InitExecutors, InitCounts
<1>2. ExecutorsInv /\ CountInv /\ [Next]_vars => (ExecutorsInv /\ CountInv)'
  BY NextExecutors, NextCounts
<1>3. CountInv => CountsExact
  BY CountsSuffice
<1> QED BY <1>1, <1>2, <1>3, PTL DEF Spec
-----------------------------------------------------------------------------
\* What is held is counted, and so it is a thing.
LEMMA HeldAreLive ==
  ASSUME CountInv, stray = FALSE, NEW t \in HeldThings
  PROVE  t \in LiveThings(heap) /\ Thing(heap, t).references # 0
<1>1. TypedHeap(heap) /\ TypedTable(executors) /\ TypedModules(modules) /\ Balanced
  BY DEF CountInv, TypedContext, CountsKept
<1>2. IsFiniteSet(DOMAIN AllSlots) /\ IsFiniteSet(DOMAIN WrittenGlobals)
  BY <1>1, TableFinite, ModulesFinite, GatheredFinite, AllArrays
<1>3. Occurrences(t, AllSlots) \in Nat /\ Occurrences(t, WrittenGlobals) \in Nat
  BY <1>2, OccurrencesCount
<1>4. \/ t # DeadThing /\ \E k \in DOMAIN AllSlots : AllSlots[k] = t
      \/ \E k \in DOMAIN WrittenGlobals : WrittenGlobals[k] = t
  BY DEF HeldThings, Range
<1>5. t \in Nat
  <2>1. ASSUME t # DeadThing, NEW k \in DOMAIN AllSlots, AllSlots[k] = t PROVE t \in Nat
    <3>1. PICK id \in TableIds(executors) : \E p \in DOMAIN SlotsOf(executors.entry[id]) : k = <<id, p>>
      BY <2>1, AllArrays, GatheredPlaces DEF ExecutorArrays
    <3>2. PICK p \in DOMAIN SlotsOf(executors.entry[id]) : k = <<id, p>>
      BY <3>1
    <3>3. AllSlots[k] = SlotsOf(executors.entry[id])[p]
      BY <3>1, <3>2, AllArrays, GatheredPlaces DEF ExecutorArrays
    <3>4. SlotsOf(executors.entry[id])[p] \in Nat \cup {DeadThing}
      BY <1>1, SlotTyped DEF TypedTable
    <3> QED BY <2>1, <3>3, <3>4
  <2>2. ASSUME NEW k \in DOMAIN WrittenGlobals, WrittenGlobals[k] = t PROVE t \in Nat
    <3>1. PICK n \in DOMAIN modules : \E p \in DOMAIN Written(modules[n].globals) : k = <<n, p>>
      BY <2>2, AllArrays, GatheredPlaces DEF GlobalArrays
    <3>2. PICK p \in DOMAIN Written(modules[n].globals) : k = <<n, p>>
      BY <3>1
    <3>3. WrittenGlobals[k] = Written(modules[n].globals)[p]
      BY <3>1, <3>2, AllArrays, GatheredPlaces DEF GlobalArrays
    <3>4. PICK globals : globals = modules[n].globals
      OBVIOUS
    <3>5. TypedGlobals(globals)
      BY <1>1, <3>4 DEF TypedModules, IsModule
    <3>6. p \in DOMAIN globals /\ globals[p].written /\ Written(globals)[p] = globals[p].thing
      BY <3>2, <3>4 DEF Written
    <3>7. globals[p].thing \in Nat
      BY <3>5, <3>6 DEF TypedGlobals
    <3> QED BY <2>2, <3>3, <3>4, <3>6, <3>7
  <2> QED BY <1>4, <2>1, <2>2
<1>6. Occurrences(t, AllSlots) # 0 \/ Occurrences(t, WrittenGlobals) # 0
  BY <1>2, <1>4, OccurrencesCount
<1>7. Refs(heap, t) = Occurrences(t, AllSlots) + Occurrences(t, WrittenGlobals)
  BY <1>1, <1>5 DEF Balanced
<1>8. Refs(heap, t) # 0
  <2>1. PICK a \in Nat, b \in Nat : a = Occurrences(t, AllSlots) /\ b = Occurrences(t, WrittenGlobals)
    BY <1>3
  <2>2. a + b # 0
    BY <1>6, <2>1
  <2> QED BY <1>7, <2>1, <2>2
<1> QED BY <1>8 DEF Refs

\* What ThingsAreImmutable says of a step.
Unchanged(t) ==
  /\ t \in LiveThings(heap')
  /\ Thing(heap', t).type = Thing(heap, t).type
  /\ Value(heap', t) = Value(heap, t)

StepKeepsThings ==
  loop' # Destroyed /\ ~stray' =>
    \A t \in IF loop.kind = "context_collect" THEN HeldThings ELSE LiveThings(heap) : Unchanged(t)

LEMMA SameHeapKeeps ==
  ASSUME CountInv, UNCHANGED <<heap, stray>>
  PROVE  StepKeepsThings
<1> SUFFICES ASSUME ~stray', NEW t \in IF loop.kind = "context_collect" THEN HeldThings ELSE LiveThings(heap)
             PROVE  t \in LiveThings(heap)
  BY DEF StepKeepsThings, Unchanged
<1>1. stray = FALSE
  BY DEF CountInv, TypedContext
<1> QED BY <1>1, HeldAreLive

\* The host is idle, or a call other than a collection is in progress: every
\* thing is kept.
LEMMA KeptHeapKeeps ==
  ASSUME loop.kind # "context_collect", ~stray' => Kept(heap, heap')
  PROVE  StepKeepsThings
BY DEF StepKeepsThings, Unchanged, Kept

LEMMA AdoptKeeps ==
  ASSUME NEW m, NEW K, Good(m, K, heap), m.fault = NoFault, heap' = m.heap,
         stray' = m.stray, loop.kind # "context_collect"
  PROVE  StepKeepsThings
<1>1. m.stray \in BOOLEAN
  BY DEF Good, Typed
<1>2. ~stray' => Kept(heap, heap')
  BY <1>1 DEF Good
<1> QED BY <1>2, KeptHeapKeeps

LEMMA IdleKind == loop = Idle => loop.kind # "context_collect"
BY DEF Idle

LEMMA NextKeeps ==
  ASSUME ExecutorsInv, CountInv, [Next]_vars
  PROVE  StepKeepsThings
<1>1. IdsInv /\ EntriesFramed(executors) /\ HostInv
  BY DEF ExecutorsInv
<1> DEFINE Quiet == UNCHANGED <<heap, stray>>
<1>2. ASSUME NEW id \in TableIds(executors), DestroyExecutor(id) PROVE StepKeepsThings
  <2>1. PICK m, K : m = MachineOf(id, 0) /\ K = Elsewhere(executors, modules, id, 0)
    OBVIOUS
  <2>2. Good(m, K, heap) /\ m.stray = stray
    BY <2>1, MachineGood DEF CountInv, MachineOf
  <2>3. K \in [Nat -> Nat]
    BY <2>1, ElsewhereTyped DEF CountInv, TypedContext
  <2>4. PICK cleaned : cleaned = Cleanup(m)
    OBVIOUS
  <2>5. Quiet \/ (cleaned.fault = NoFault /\ heap' = cleaned.heap /\ stray' = stray /\ loop = Idle)
    BY <1>2, <2>1, <2>4 DEF DestroyExecutor, Abort, HostRuns
  <2>6. Good(cleaned, K, heap) /\ cleaned.stray = m.stray
    BY <2>2, <2>3, <2>4, CleanupCounts
  <2> QED BY <2>2, <2>5, <2>6, SameHeapKeeps, AdoptKeeps, IdleKind
<1>3. ASSUME NEW id \in TableIds(executors), NEW n \in ModuleHandles, NEW f \in FunctionsOf(n), HostStepIn(id, n, f)
      PROVE  StepKeepsThings
  <2>1. PICK position : position = [module |-> n, address |-> modules[n + 1].functions[f + 1].address]
    OBVIOUS
  <2>2. PICK entered : entered = StepIn(MachineOf(id, n), position)
    OBVIOUS
  <2>3. Quiet \/ (entered.fault = NoFault /\ heap' = entered.heap /\ stray' = entered.stray)
    BY <1>3, <2>1, <2>2 DEF HostStepIn, Abort, Adopt
  <2>4. PICK m : m = MachineOf(id, n)
    OBVIOUS
  <2>5. m.fault = NoFault /\ m.heap = heap /\ m.stray = stray /\ IsMachine(m)
    BY <2>4 DEF MachineOf, IsMachine
  <2>6. entered.heap = heap /\ entered.stray = stray
    <3>1. n \in Nat
      BY DEF ModuleHandles
    <3>2. Typed(m)
      BY <2>4, <3>1, MachineGood DEF CountInv, Good
    <3>3. entered = WithFrames(m, m.heap, Entered(m.executor, position, NewScope))
          \/ entered = Fail(m, "executor is running")
      BY <2>2, <2>4, <2>5, <3>2, StepInRecord
    <3>4. CASE entered = Fail(m, "executor is running")
      <4>1. IsMachine(m)
        BY <2>5
      <4>2. entered.heap = m.heap /\ entered.stray = m.stray
        BY <3>4, <4>1, FailFields
      <4> QED BY <2>5, <4>2
    <3>5. CASE entered = WithFrames(m, m.heap, Entered(m.executor, position, NewScope))
      BY <2>5, <3>5 DEF WithFrames
    <3> QED BY <3>3, <3>4, <3>5
  <2> QED BY <2>3, <2>6, SameHeapKeeps
<1>4. ASSUME NEW id \in TableIds(executors), HostStepOut(id) PROVE StepKeepsThings
  <2>1. PICK m, K : m = MachineOf(id, 0) /\ K = Elsewhere(executors, modules, id, 0)
    OBVIOUS
  <2>2. Good(m, K, heap)
    BY <2>1, MachineGood DEF CountInv
  <2>3. K \in [Nat -> Nat]
    BY <2>1, ElsewhereTyped DEF CountInv, TypedContext
  <2>4. PICK left : left = StepOut(m)
    OBVIOUS
  <2>5. Quiet \/ (left.fault = NoFault /\ heap' = left.heap /\ stray' = left.stray /\ loop = Idle)
    BY <1>4, <2>1, <2>4 DEF HostStepOut, Abort, Adopt, HostRuns
  <2>6. Good(left, K, heap)
    BY <2>2, <2>3, <2>4, StepOutCounts
  <2> QED BY <2>5, <2>6, SameHeapKeeps, AdoptKeeps, IdleKind
<1>5. CASE DestroyContext
  <2>1. Quiet \/ loop' = Destroyed
    BY <1>5 DEF DestroyContext, Abort
  <2> QED BY <2>1, SameHeapKeeps DEF StepKeepsThings
<1>6. CASE Step
  <2>1. CASE CannotFetch
    BY <2>1, SameHeapKeeps DEF CannotFetch, Abort
  <2>2. CASE CanFetch /\ ExecuteInstruction
    <3>1. PICK n, address : n = At.module /\ address = At.address
      OBVIOUS
    <3>2. PICK moved : moved = MoveTo(MachineOf(CurrentId, n), address + 1)
      OBVIOUS
    <3>3. PICK K : K = Elsewhere(executors, modules, CurrentId, n)
      OBVIOUS
    <3>4. n \in Nat /\ n + 1 \in DOMAIN modules /\ Ready(moved, modules[n + 1], K, heap)
      BY <1>1, <2>2, <3>1, <3>2, <3>3, FetchedReady
    <3>5. PICK m \in Outcomes(moved, modules[n + 1]) :
           IF m.fault # NoFault
           THEN stray' = (stray \/ m.stray) /\ UNCHANGED heap
           ELSE heap' = m.heap /\ stray' = m.stray
      BY <2>2, <3>1, <3>2, ExecutedCounts
    <3>6. K \in [Nat -> Nat]
      BY <3>3, <3>4, ElsewhereTyped DEF CountInv, TypedContext
    <3>7. Good(m, K, heap)
      BY <3>4, <3>5, <3>6, InstructionsCount
    <3>8. loop.kind # "context_collect"
      BY <2>2 DEF CanFetch, Stepping, RoundKinds
    <3>9. CASE m.fault = NoFault
      BY <3>5, <3>7, <3>8, <3>9, AdoptKeeps
    <3>10. CASE m.fault # NoFault
      <4>1. Kept(heap, heap')
        BY <3>5, <3>10 DEF Kept
      <4> QED BY <3>8, <4>1, KeptHeapKeeps
    <3> QED BY <3>9, <3>10
  <2> QED BY <1>6, <2>1, <2>2 DEF Step
<1>7. CASE CollectVisit
  <2> SUFFICES ASSUME ~stray', NEW t \in HeldThings PROVE Unchanged(t)
    BY <1>7 DEF StepKeepsThings, CollectVisit, Collecting
  <2>1. stray = FALSE
    BY <1>7 DEF CollectVisit, CountInv, TypedContext
  <2>2. t \in LiveThings(heap) /\ Thing(heap, t).references # 0
    BY <2>1, HeldAreLive
  <2>3. PICK id, h : id = heap.things.order[loop.at] /\ h = heap'
    OBVIOUS
  <2>4. h = IF Thing(heap, id).references # 0 THEN heap ELSE RemoveThing(heap, id)
    BY <1>7, <2>3 DEF CollectVisit, AfterVisit
  <2>5. TypedHeap(heap)
    BY DEF CountInv, TypedContext
  <2>6. id \in LiveThings(heap)
    BY <1>7, <2>3, <2>5 DEF CollectVisit, TypedHeap, HeapInv, HeapShape, WellFormed, LiveThings
  <2>7. /\ t \in LiveThings(h)
        /\ Thing(h, t).type = Thing(heap, t).type
        /\ Value(h, t) = Value(heap, t)
    <3>1. CASE Thing(heap, id).references # 0
      BY <2>2, <2>4, <3>1
    <3>2. CASE Thing(heap, id).references = 0
      <4>1. h = RemoveThing(heap, id)
        BY <2>4, <3>2
      <4>2. t # id
        BY <2>2, <3>2
      <4> QED BY <2>2, <2>5, <2>6, <3>2, <4>1, <4>2, Removed
    <3> QED BY <3>1, <3>2
  <2> QED BY <2>3, <2>7 DEF Unchanged
<1>8. CASE UNCHANGED vars
  BY <1>8, SameHeapKeeps DEF vars
<1>9. CASE CreateModule \/ BeginCollect \/ CollectEnds \/ RoundEnds
  <2>1. Quiet
    BY <1>9 DEF CreateModule, BeginCollect, CollectEnds, RoundEnds, Abort
  <2> QED BY <2>1, SameHeapKeeps
<1>10. ASSUME NEW n, NEW function, AddFunction(n, function) PROVE StepKeepsThings
  BY <1>10, SameHeapKeeps DEF AddFunction, Abort
<1>11. ASSUME NEW n, NEW f, CreateExecutor(n, f) PROVE StepKeepsThings
  BY <1>11, SameHeapKeeps DEF CreateExecutor, Abort
<1>12. ASSUME NEW id, BeginOne(id) PROVE StepKeepsThings
  BY <1>12, SameHeapKeeps DEF BeginOne
<1>13. ASSUME NEW kind, BeginRounds(kind) PROVE StepKeepsThings
  BY <1>13, SameHeapKeeps DEF BeginRounds
<1> QED
  BY <1>2, <1>3, <1>4, <1>5, <1>6, <1>7, <1>8, <1>9, <1>10, <1>11, <1>12, <1>13
  DEF Next, HostNext, LibraryNext

\* For every program and every host, no step changes the type or the value of a
\* thing, and no collection takes one that a stack, a variable or a global still
\* holds (Runtime.ThingsAreImmutable; context.c:39-44, executor.c:46-154).
THEOREM ThingsImmutable == Spec => ThingsAreImmutable
<1>1. Init => ExecutorsInv /\ CountInv
  BY InitExecutors, InitCounts
<1>2. ExecutorsInv /\ CountInv /\ [Next]_vars => (ExecutorsInv /\ CountInv)'
  BY NextExecutors, NextCounts
<1>3. ExecutorsInv /\ CountInv /\ [Next]_vars =>
        [loop' # Destroyed /\ ~stray' =>
           \A t \in IF loop.kind = "context_collect" THEN HeldThings ELSE LiveThings(heap) :
             /\ t \in LiveThings(heap')
             /\ Thing(heap', t).type = Thing(heap, t).type
             /\ Value(heap', t) = Value(heap, t)]_vars
  BY NextKeeps DEF StepKeepsThings, Unchanged
<1> QED BY <1>1, <1>2, <1>3, PTL DEF Spec, ThingsAreImmutable
-----------------------------------------------------------------------------
LEMMA CountInvTypes == ExecutorsInv /\ RoundInv /\ CountInv => TypeOK
<1> SUFFICES ASSUME ExecutorsInv, RoundInv, CountInv PROVE TypeOK
  OBVIOUS
<1>1. host \in DOMAIN Hosts /\ IdsInv /\ stray \in BOOLEAN
  BY DEF ExecutorsInv, HostInv, CountInv, TypedContext
<1>2. loop.at \in Nat /\ loop.ran \in BOOLEAN
  BY DEF RoundInv, LoopTyped
<1>3. \A k \in DOMAIN deadExecutors : deadExecutors[k] \in Nat
  BY <1>1 DEF IdsInv, IdsPartition
<1>4. HeapTypeOK(heap)
  <2>1. TypedHeap(heap)
    BY DEF CountInv, TypedContext
  <2>2. DOMAIN heap = {"things", "dead", "cells", "capacity"} /\ heap.capacity \in Nat
    <3>1. heap = [things |-> heap.things, dead |-> heap.dead, cells |-> heap.cells, capacity |-> heap.capacity]
      BY <2>1 DEF TypedHeap, HeapInv, HeapShape
    <3> QED BY <2>1, <3>1 DEF TypedHeap, HeapInv, HeapShape
  <2>3. \A c \in DOMAIN heap.cells : heap.cells[c].type \in ThingTypes /\ heap.cells[c].value \in Int
    BY <2>1 DEF TypedHeap, HeapInv, HeapShape, IsCell
  <2>4. ASSUME NEW id \in LiveThings(heap)
        PROVE  /\ id \in Nat
               /\ Thing(heap, id).type \in ThingTypes
               /\ Thing(heap, id).references \in Nat
               /\ Thing(heap, id).data \in DOMAIN heap.cells
    BY <2>1, LiveIds, TypedThing DEF TypedHeap
  <2>5. ASSUME NEW k \in DOMAIN heap.dead
        PROVE  /\ heap.dead[k].type \in ThingTypes
               /\ heap.dead[k].id \in Nat
               /\ heap.dead[k].data \in DOMAIN heap.cells
    <3>1. /\ heap.dead[k].id \in Nat
          /\ heap.dead[k].data \in DOMAIN heap.cells
          /\ heap.cells[heap.dead[k].data].type = heap.dead[k].type
      BY <2>1 DEF TypedHeap, HeapInv, HeapShape
    <3> QED BY <2>3, <3>1
  <2> QED BY <2>2, <2>3, <2>4, <2>5 DEF HeapTypeOK
<1>5. ASSUME NEW id \in TableIds(executors) PROVE id \in Nat /\ ExecutorTypeOK(Executor(id))
  <2>1. id \in Nat
    BY <1>1 DEF IdsInv, IdsPartition, WellFormed
  <2>2. PICK e : e = Executor(id)
    OBVIOUS
  <2>3. TypedExecutor(e)
    BY <2>2 DEF Executor, CountInv, TypedContext, TypedTable
  <2>4. e.running \in BOOLEAN
    BY <2>3 DEF TypedExecutor, IsExecutor
  <2>5. \A k \in DOMAIN e.callStack : e.callStack[k].module \in Nat /\ e.callStack[k].address \in Int
    <3>1. e.callStack \in Seq(Positions)
      BY <2>3 DEF TypedExecutor
    <3>2. \A k \in DOMAIN e.callStack : e.callStack[k] \in Positions
      BY <3>1, SeqElements
    <3> QED BY <3>2 DEF Positions
  <2>6. ASSUME NEW s \in DOMAIN e.scopes
        PROVE  /\ \A v \in DOMAIN e.scopes[s].variables : e.scopes[s].variables[v] \in Nat \cup {DeadThing}
               /\ \A t \in DOMAIN e.scopes[s].stack : e.scopes[s].stack[t] \in Nat
    <3>1. TypedScope(e.scopes[s])
      BY <2>3 DEF TypedExecutor
    <3>2. PICK variables, stack : variables = e.scopes[s].variables /\ stack = e.scopes[s].stack
      OBVIOUS
    <3>3. variables \in Seq(Nat \cup {DeadThing}) /\ stack \in Seq(Nat)
      BY <3>1, <3>2 DEF TypedScope
    <3> QED BY <3>2, <3>3, SeqElements
  <2> QED BY <2>1, <2>2, <2>4, <2>5, <2>6 DEF ExecutorTypeOK
<1> QED BY <1>1, <1>2, <1>3, <1>4, <1>5 DEF TypeOK

\* The heap, the modules, the executors and the loop of a context keep their
\* types, whatever the host loads and the programs do (Runtime.TypeOK).
THEOREM ContextTypesHold == Spec => []TypeOK
<1>1. Init => RunInv /\ CountInv
  BY InitExecutors, InitRound, InitCounts DEF RunInv
<1>2. RunInv /\ CountInv /\ [Next]_vars => (RunInv /\ CountInv)'
  BY NextRun, NextCounts DEF RunInv
<1>3. RunInv /\ CountInv => TypeOK
  BY CountInvTypes DEF RunInv
<1> QED BY <1>1, <1>2, <1>3, PTL DEF Spec
=============================================================================

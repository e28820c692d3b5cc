---------------------------- MODULE Instructions ----------------------------
(* furlang_executor_step's switch (furlang/src/executor.c:46-158): one       *)
(* operator per instruction, from a machine whose address is past the opcode *)
(* to the set of machines the instruction may leave.                         *)
EXTENDS Machine

\* Reading an operand asserts that all its bytes are inside the bytecode.
Operand(m, module, size) ==
  SubSeq(module.code, Position(m).address + 1, Position(m).address + size)

ReadOperand(m, module, size, rest) ==
  Require(m, Position(m).address + size <= Len(module.code),
          "operand is inside the bytecode", rest)

Skip(m, size) == MoveTo(m, Position(m).address + size)
-----------------------------------------------------------------------------
Nop(m, module) == {m}

Ipush(m, module) ==
  {ReadOperand(m, module, 4, PushNew(Skip(m, 4), INT, IntOf(Operand(m, module, 4))))}

Bipush(m, module) ==
  {ReadOperand(m, module, 1, PushNew(Skip(m, 1), INT, ByteOf(Operand(m, module, 1))))}

Fpush(m, module) ==
  {ReadOperand(m, module, 8, PushNew(Skip(m, 8), FUNCTION, LongOf(Operand(m, module, 8))))}

Sfpush(m, module) ==
  {ReadOperand(m, module, 2, PushNew(Skip(m, 2), FUNCTION, ShortOf(Operand(m, module, 2))))}

\* Code that keeps a pointer to a thing across append_thing may crash.
UseAfterFree(m, type) ==
  IF Moves(m.heap, type) THEN {Fail(m, "pointer is valid")} ELSE {}

\* thing_clone copies the data through the pointer it took before append_thing.
Dup(m, module) ==
  LET source == TopThing(m)
      type   == Thing(m.heap, source).type
  IN  IF TopScope(m).stack = <<>> THEN {Fail(m, "stack is not empty")}
      ELSE IF source \notin LiveThings(m.heap) THEN {Fail(m, "thing is live")}
      ELSE {PushNew(m, type, value) :
              value \in ReadAcrossAppend(m.heap, type, source)}
           \cup UseAfterFree(m, type)

Swap(m, module) ==
  LET b == TopThing(m)
      a == TopThing(Pop(m))
  IN  {Push(Push(Pop(Pop(m)), b), a)}

PopOne(m, module) == {Pop(m)}

Ret(m, module) == {StepOut(m)}

\* gcc evaluates the pop before the operand; the thing is not referenced by
\* anything in between.
Str(m, module) ==
  {ReadOperand(m, module, 2,
     StoreVariable(Pop(Skip(m, 2)), ShortOf(Operand(m, module, 2)), TopThing(m)))}

Lod(m, module) ==
  LET index == ShortOf(Operand(m, module, 2))
  IN  {ReadOperand(m, module, 2,
       Require(m, IsBelow(index, Len(TopScope(m).variables)), "index is below the count",
         Push(Skip(m, 2), TopScope(m).variables[index + 1])))}

Strg(m, module) ==
  {ReadOperand(m, module, 2,
     StoreGlobal(Pop(Skip(m, 2)), ShortOf(Operand(m, module, 2)), TopThing(m)))}

Lodg(m, module) ==
  LET index == ShortOf(Operand(m, module, 2))
  IN  {ReadOperand(m, module, 2,
       Require(m, IsBelow(index, Len(m.globals)), "index is below the count",
         Push(Skip(m, 2), m.globals[index + 1].thing)))}
-----------------------------------------------------------------------------
ReadTarget(m, module, rest) ==
  ReadOperand(m, module, 8,
  Require(m, IsBelow(LongOf(Operand(m, module, 8)), Len(module.code)),
          "jump target is inside the bytecode", rest))

Target(m, module) == LongOf(Operand(m, module, 8))

Jmp(m, module) == {ReadTarget(m, module, MoveTo(m, Target(m, module)))}

\* The popped thing is read as an int whatever its type.
PopIsZero(m) == WrapInt(Value(m.heap, TopThing(m))) = 0

Jz(m, module) ==
  LET popped == Pop(Skip(m, 8))
  IN  {ReadTarget(m, module,
         IF popped.fault = NoFault /\ PopIsZero(m)
         THEN MoveTo(popped, Target(m, module)) ELSE popped)}

Jnz(m, module) ==
  LET popped == Pop(Skip(m, 8))
  IN  {ReadTarget(m, module,
         IF popped.fault = NoFault /\ ~PopIsZero(m)
         THEN MoveTo(popped, Target(m, module)) ELSE popped)}

\* A slip: the parameters are stored in the order they are popped.
CallReversed(m, module) ==
  LET popped     == Pop(m)
      function   == module.functions[Value(m.heap, TopThing(m)) + 1]
      arguments  == TopScope(popped).stack
      kept       == Len(arguments) - function.paramCount
      parameters == Reverse(SubSeq(arguments, kept + 1, Len(arguments)))
      entered    ==
        StepIn([popped EXCEPT
                 !.executor.scopes[Len(m.executor.scopes)].stack = SubSeq(@, 1, kept)],
               [module |-> Position(m).module, address |-> function.address])
  IN  {Require(popped, kept >= 0, "stack is not empty",
         [entered EXCEPT !.executor.scopes[Len(entered.executor.scopes)].variables = parameters])}

\* CALL pops a function and its parameters, the last one first, enters the
\* function in the caller's module, and stores the parameters as variables 0,
\* 1, ..: each loses the reference of the stack and gains the variable's.
Call(m, module) ==
  LET popped     == Pop(m)
      callee     == Thing(m.heap, TopThing(m))
      index      == Value(m.heap, TopThing(m))
      function   == module.functions[index + 1]
      arguments  == TopScope(popped).stack
      kept       == Len(arguments) - function.paramCount
      parameters == SubSeq(arguments, kept + 1, Len(arguments))
      entered    ==
        StepIn([popped EXCEPT
                 !.executor.scopes[Len(m.executor.scopes)].stack = SubSeq(@, 1, kept)],
               [module |-> Position(m).module, address |-> function.address])
  IN  {Require(popped, callee.type = FUNCTION, "thing is a function",
       Require(popped, IsBelow(index, Len(module.functions)), "function exists",
       Require(popped, kept >= 0, "stack is not empty",
       Require(popped, CanRelease(popped.heap, parameters), "count is positive",
       Require(popped, ~ResizeHangs(function.paramCount), Hangs,
         [entered EXCEPT
            !.executor.scopes[Len(entered.executor.scopes)].variables = parameters])))))}
-----------------------------------------------------------------------------
\* The CPU traps on some divisions.
Compute(operator, popped, pair) ==
  Require(popped, operator \in {"DIV", "MOD"} => ~DivisionTraps(pair[1], pair[2]),
          "division does not trap", PushNew(popped, INT, Apply(operator, pair[1], pair[2])))

\* BINOP takes pointers to both operands before the operator appends its
\* result; only int with int is in the table of operators (ops.c:22-30).
Binop(operator, m) ==
  LET b      == TopThing(m)
      a      == TopThing(Pop(m))
      popped == Pop(Pop(m))
      Read(id) == ReadAcrossAppend(popped.heap, INT, id)
  IN  IF popped.fault # NoFault THEN {popped}
      ELSE IF {Thing(m.heap, a).type, Thing(m.heap, b).type} # {INT}
      THEN {Fail(popped, "operator is defined")}
      ELSE {Compute(operator, popped, pair) : pair \in Read(a) \X Read(b)}
           \cup UseAfterFree(popped, INT)

Add(m, module) == Binop("ADD", m)
Sub(m, module) == Binop("SUB", m)
Mul(m, module) == Binop("MUL", m)
Div(m, module) == Binop("DIV", m)
Mod(m, module) == Binop("MOD", m)
=============================================================================

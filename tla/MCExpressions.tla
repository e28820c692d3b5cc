--------------------------- MODULE MCExpressions ----------------------------
(* Expressions compiled to bytecode and run to the end: the interpreter is   *)
(* compared with what the expression means.  Conditions become JZ and JMP,   *)
(* a sum becomes a loop that jumps backwards, a call passes two parameters   *)
(* and leaves its result in global 0.                                        *)
EXTENDS Assembly

Const(n)         == <<"const", n>>
Bound            == <<"bound">>
Op(o, a, b)      == <<"op", o, a, b>>
Flipped(a, b)    == <<"flipped", a, b>>
Square(a)        == <<"square", a>>
Test(c, a, b)    == <<"test", c, a, b>>
Let(a, body)     == <<"let", a, body>>
Difference(a, b) == <<"difference", a, b>>
SumTo(n)         == <<"sum to", n>>
-----------------------------------------------------------------------------
\* Reference arithmetic.  The remainder has the sign of the dividend.
Remainder(a, b) ==
  CHOOSE r \in {a % Magnitude(b), (a % Magnitude(b)) - Magnitude(b)} :
    r = 0 \/ (Magnitude(r) < Magnitude(b) /\ (r < 0 <=> a < 0))

Meant(o, a, b) ==
  CASE o = "ADD" -> {WrapInt(a + b)}
    [] o = "SUB" -> {WrapInt(a - b)}
    [] o = "MUL" -> {WrapInt(a * b)}
    [] b = 0 \/ (a = IntMin /\ b = -1) -> {}
    [] o = "DIV" -> {IF b < 0 THEN (Remainder(a, b) - a) \div (-b)
                     ELSE (a - Remainder(a, b)) \div b}
    [] o = "MOD" -> {Remainder(a, b)}

RECURSIVE Meaning(_, _)
\* The value of e when the bound name stands for x; none when the processor
\* traps on the way.
Meaning(e, x) ==
  CASE e[1] = "const"      -> {e[2]}
    [] e[1] = "bound"      -> {x}
    [] e[1] = "op"         -> UNION {UNION {Meant(e[2], a, b) : a \in Meaning(e[3], x)} :
                                       b \in Meaning(e[4], x)}
    [] e[1] \in {"flipped", "difference"} ->
         {WrapInt(IF e[1] = "flipped" THEN pair[2] - pair[1] ELSE pair[1] - pair[2]) :
            pair \in Meaning(e[2], x) \X Meaning(e[3], x)}
    [] e[1] = "square"     -> {WrapInt(a * a) : a \in Meaning(e[2], x)}
    [] e[1] = "test"       -> UNION {Meaning(IF c # 0 THEN e[3] ELSE e[4], x) :
                                       c \in Meaning(e[2], x)}
    [] e[1] = "let"        -> UNION {Meaning(e[3], a) : a \in Meaning(e[2], x)}
    [] e[1] = "sum to"     -> {(e[2] * (e[2] + 1)) \div 2}
-----------------------------------------------------------------------------
SizeOfAll(code) == FoldLeft(LAMBDA sum, i : sum + SizeOf(i), 0, code)

Load(n) == IF n = IntMin THEN <<<<"IPUSH", n>>>> ELSE <<<<"BIPUSH", n>>>>

RECURSIVE Compiled(_, _)
\* The instructions of e when the first one is at address start.  Variable 0
\* holds the bound name, variable 1 the sum of a loop.
Compiled(e, start) ==
  LET first  == Compiled(e[2], start)
      Then(a, sub) == a \o Compiled(sub, start + SizeOfAll(a))
      otherwise == Then(first \o <<<<"JZ", 0>>>>, e[3]) \o <<<<"JMP", 0>>>>
      whole     == Then(otherwise, e[4])
      accumulate == <<<<"BIPUSH", 0>>, <<"STR", 1>>, <<"BIPUSH", e[2]>>>>
  IN CASE e[1] = "const" -> Load(e[2])
       [] e[1] = "bound" -> <<<<"LOD", 0>>>>
       [] e[1] = "op" ->
            Then(Compiled(e[3], start), e[4]) \o <<<<e[2]>>>>
       [] e[1] = "flipped" -> Then(first, e[3]) \o <<<<"SWAP">>, <<"SUB">>>>
       [] e[1] = "square" -> first \o <<<<"DUP">>, <<"MUL">>>>
       [] e[1] = "let" -> Then(first \o <<<<"STR", 0>>>>, e[3])
       [] e[1] = "difference" ->
            Then(first, e[3]) \o
              <<IF e[3] = Bound THEN <<"SFPUSH", 1>> ELSE <<"FPUSH", 1>>,
                <<"CALL">>, <<"LODG", 0>>>>
       [] e[1] = "test" ->
            [k \in DOMAIN whole |->
               CASE k = Len(first) + 1 -> <<"JZ", start + SizeOfAll(otherwise)>>
                 [] k = Len(otherwise) -> <<"JMP", start + SizeOfAll(whole)>>
                 [] OTHER -> whole[k]]
       [] e[1] = "sum to" ->
            accumulate \o
            <<<<"DUP">>, <<"LOD", 1>>, <<"ADD">>, <<"STR", 1>>,
              <<"BIPUSH", 1>>, <<"SUB">>, <<"DUP">>,
              <<"JNZ", start + SizeOfAll(accumulate)>>,
              <<"POP">>, <<"LOD", 1>>>>

Subtract == <<<<"LOD", 0>>, <<"LOD", 1>>, <<"SUB">>, <<"STRG", 0>>, <<"RET">>>>

Main(e) ==
  <<<<"NOP">>, <<"BIPUSH", 0>>, <<"STR", 0>>>>
    \o Compiled(e, SizeOfAll(Subtract) + 6)
    \o <<<<"STRG", 0>>, <<"RET">>>>

\* Main writes variable 0 first: a function that stores into a higher variable
\* only does not return (ReturnReleasesOnlyThings).  Function 0 carries the expression it was compiled from.
Program(e) ==
  [code |-> Assemble(Subtract \o Main(e)),
   functions |-> <<[address |-> SizeOfAll(Subtract), paramCount |-> 0, expression |-> e],
                   [address |-> 0, paramCount |-> 2]>>,
   globalCount |-> 1]
-----------------------------------------------------------------------------
Operators == {"ADD", "SUB", "MUL", "DIV", "MOD"}
Small  == {Const(n) : n \in {-3, 0, 2}}
Leaves == Small \cup {Const(IntMin)}

\* TLC's own integers bound the products.
Combined(left) ==
  {Op(o, a, b) : o \in Operators, a \in left, b \in Small} \cup
  {Op(o, a, b) : o \in Operators \ {"MUL"}, a \in left, b \in {Const(IntMin), Const(-1)}}

Simple ==
  Leaves \cup Combined(Leaves) \cup {SumTo(n) : n \in 1..3} \cup
  {Square(a) : a \in Small} \cup
  {Flipped(a, b) : a, b \in Leaves} \cup {Difference(a, b) : a, b \in Leaves} \cup
  {Test(c, a, b) : c \in Leaves, a, b \in Small}

Expressions ==
  Simple \cup Combined(Simple) \cup
  {Op(o, a, b) : o \in {"SUB", "DIV", "MOD"}, a \in Leaves, b \in Simple} \cup
  {Difference(a, b) : a \in Leaves, b \in Simple} \cup
  {Difference(a, b) : a \in Simple, b \in Leaves} \cup
  {Test(c, Op("DIV", a, b), b) : c \in Simple, a, b \in Small} \cup
  {Let(a, Op(o, Bound, Bound)) : a \in Simple, o \in Operators \ {"MUL"}} \cup
  {Let(a, Difference(b, Bound)) : a \in Simple, b \in Leaves}

\* Addresses that fit into one byte and are not negative there.
ShortEnough(program) == Len(program.code) < ByteBase \div 2

Storing(n) == [code |-> Assemble(<<<<"BIPUSH", 1>>, <<"STR", n>>, <<"RET">>>>),
               functions |-> <<[address |-> 0, paramCount |-> 0]>>, globalCount |-> 0]

\* The operands on both sides of the variable whose store does not end, and
\* the last ones, whose low byte is read with its sign.
Boundary == {0, 1, 63, 64, ShortModulus \div 2 - ByteBase + 63, ShortModulus \div 2,
             ShortModulus - 2, ShortModulus - 1}

\* One executor runs one of the modules to the end.
HostOf(loaded) ==
  [calls |-> {"module_create", "executor_create", "context_run"}, modules |-> loaded,
   entries |-> {0}, garbage |-> {DeadThing},
   maxModules |-> 1, maxExecutors |-> 1, maxDestroys |-> 0, maxFrames |-> 0,
   maxCells |-> 1, maxFunctions |-> 2, maxDead |-> 0]

HostAlone == HostOf({program \in {Program(e) : e \in Expressions} : ShortEnough(program)})

\* Two executors share the global, and the host collects between rounds.
Shared ==
  {Const(2), SumTo(2), Difference(Const(-3), Const(2)), Op("MOD", Const(2), Const(0))}

HostSharing ==
  [HostOf({Program(e) : e \in Shared}) EXCEPT
     !.calls = {"module_create", "executor_create", "context_step", "context_run",
                "context_collect"},
     !.maxExecutors = 2, !.maxDead = 1]

HostBoundary == HostOf({Storing(n) : n \in Boundary})

HostLong ==
  HostOf({Program(Op("ADD", Const(2), Test(c, Op("ADD", Const(2), Const(n)), SumTo(n)))) :
            c \in Leaves, n \in 1..3})

MCHosts == [alone |-> HostAlone, sharing |-> HostSharing, boundary |-> HostBoundary]
MCLong == [long |-> HostLong]
-----------------------------------------------------------------------------
Finished == \E id \in TableIds(executors) : ~Executor(id).running

\* A program computes what its expression means, whatever the operators,
\* jumps, loops, parameters and globals it goes through (executor.c:46-158):
\* the processor traps exactly on the divisions that have no value, and
\* nothing else goes wrong, except that a finished executor must not be run
\* again, that an instruction which makes a new thing in a full table goes on
\* with a pointer into the freed one (thing.c:16-20, executor.c:142-147), and
\* that a collection may run past the end of the table or cause the id of a
\* live thing to be handed out.
ComputesOrTraps ==
  host # "boundary" /\ modules # <<>> /\ ~stray =>
    LET meaning == Meaning(modules[1].functions[1].expression, 0)
    IN  /\ CASE fault = NoFault -> TRUE
             [] fault = "division does not trap" -> meaning = {}
             [] fault = "pointer is valid" -> TableSize(heap.things) = heap.capacity
             [] fault = "call stack is not empty" -> Finished
             [] fault = "cursor is inside the table" -> loop.kind = "context_collect"
             [] OTHER -> FALSE
        /\ Finished => meaning = {Value(heap, modules[1].globals[1].thing)}
=============================================================================

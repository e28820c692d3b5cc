# A verification development for furlang

furlang is a small language tool chain in C: a virtual machine library
(`src/furlang`), a program that runs bytecode files (`src/runtime`), an
assembler (`src/furas`) and the front end of a compiler (`src/furc`). This
directory holds TLA+ modules of the virtual machine, the assembler and the compiler,
the TLC configurations that check them, and proofs that TLAPS checks. Every definition that stands for code
names its lines in `PROJECT.json` under `map`.

To check a model, run `tlc -config X.cfg M`; to check the proofs,
run `tlapm` on `SparseSetProofs.tla`, `HeapProofs.tla`, `ThingPoolProofs.tla`, `MachineProofs.tla`,
`RuntimeProofs.tla`, `TextProofs.tla`, `AssemblerProofs.tla` and `CompilerLexerProofs.tla`.

## The system

| part | state it keeps | operations | interacts with |
|---|---|---|---|
| sparse set (`utils/sparseSet.h`) | pages of indexes by id, dense values, ids of the dense values | PUT, REMOVE, GET, FOREACH, SIZE | holds the executors and the things of a context |
| things (`context.c`, `thing.c`) | table of things with type, reference count and data; list of dead things; arena of data cells | create, clone, reference, unreference, append, remove, collect | ids are held by stacks, variables and globals |
| interpreter (`executor.c`, `ops.c`) | call stack, scopes (variables and a stack of things), flags, for each executor | 22 instructions, step_in, step_out, cleanup | reads modules, makes and counts things |
| context (`context.c`, `module.c`) | modules with code, functions and globals; executors; ids of destroyed executors | create and destroy executors, step, run, is_running, destroy | steps its executors in turn for one host |
| runtime program (`runtime/main.c`) | none | loads every module, starts the entry function, runs, destroys | a host of the context |
| assembler (`furas`) | bytecode, functions, labels, patches | tokenize, one writer per instruction, patching | writes the bytecode the interpreter decodes |
| bytecode files (`bytecode.c`) | none | write and read an `Fbc` | connects assembler and runtime |
| compiler front end (`furc`) | tokens, syntax tree | tokenize, parse | stands alone: no code is generated yet |
| arena and allocators (`alloc/`) | regions | alloc, reset, free | the data of things, strings of the assembler and compiler |

All of it is single threaded. What is hard about it is not parallelism but long
sequences of legal calls: ids that are recycled, counts that must be exact over
many frames and executors, cursors into arrays that change under them, pointers
into arrays that move, and executors that take turns. A failed `assert` ends the
process; in the models that is a `fault`, after which nothing happens. The
assertions are modelled as enabled, as the build leaves them.

What makes each part correct:

- **sparse set**: it is the finite map its calls build, under any order of calls.
- **things**: no two live things share a cell; a count is the number of places
  that hold the thing; a collection takes only what nobody holds, and takes
  most of it.
- **interpreter**: a program computes what it says; the counts stay exact; things
  never change; a return gives back what its frame held.
- **context**: living executors have distinct ids; an executor runs until it
  finishes, once; run returns exactly when there is nothing left to do.
- **assembler**: a label means one address, a function one index, and what is
  written is what the interpreter reads back.
- **compiler front end**: the text is cut into the longest tokens, no string it keeps
  overwrites another, the tree holds everything that was consumed in the shape the
  precedences say, and both loops end.

## Modules

`Tables` holds the value of a sparse set: a record of the visiting order and
the entries by id, with the effect of PUT and REMOVE. `IdTable` is the abstract
machine over it. **`SparseSet`** is the C macros: pages on demand, indexes with -1,
the swap at removal. It implements `IdTable` by the mapping `Contents`.

`Heap` is the things of a context as operators on one record: the table of
things, the dead list, the arena as a sequence of cells that remember the type
they were sized for, and the capacity of the dense array, which decides when
pointers into it dangle (`Moves`). `ReadAcrossAppend` is what code finds that keeps a pointer
to a thing across `append_thing`: the right value; one of `WildValues`, when the array moved; or, when
the new thing gets the id of that very thing, what is in the new thing's cell, which is
one of `FreshValues` if nobody has written to it. **`ThingPool`** is the
state machine of a host on the public interface of things alone, with collect one
visit at a time (`AfterVisit`, which `Runtime` uses too). The host is balanced: it unreferences only what it referenced,
and keeps a handle over a collection only if it holds a reference. Nothing in the
library calls collect, so a collection begins only between other calls.

`Operands` is the bytecode: opcodes, operands as they are written and as they are
read, and the arithmetic, at a width given by
`ByteBase` (256 in the code; smaller in the runs because TLC's integers have 32
bits). `Machine` holds the functions the instructions share: push, pop, scopes,
variables, globals. `Instructions` has one operator for each `case` of
`furlang_executor_step`, from a machine to the set of machines it may leave; more
than one where the code reads through a dangling pointer.

**`Runtime`** is the context with its host: modules, executors, the ids waiting
for reuse, the heap, and `loop`, the call of the library that is in progress.
One step of the model is one instruction of one executor or one visit of a
collection, so every interleaving of the host's calls with the turns of the executors
is there, and a collection meets executors in the middle of their frames. `Hosts` is a
set of hosts by name: which calls one makes, which modules it loads, and its bounds;
`host` is the one that was chosen at the start. `Tasks` is the
abstract specification: executors are tasks that are started under an id no
living task has, finish once and for good, and are removed only by the host.

`Assembly` encodes instructions for the instances `MCRuntime` and `MCExpressions`.

**`Assembler`** is the furas program from its text to the file it writes. `Scanner`,
which it extends, and which shares the characters and numbers of `Texts` with the
compiler, takes one token or one comment a step from a text of characters.
The generator takes one statement a step and writes through `Encoded`; then every
patch is a step, last one first as in the code. `BytecodeFile` writes the fields of a file
and reads them back. Every assertion is a `Stop`; reading past the last token is
one too, because `FURLANG_DA_AT` checks its index. `MCAssembler` says what the lines
of a program stand for without any pass over tokens: the address of a line is the
sum of the sizes of the lines before it, the index of a function is the number of names
mentioned before.

`ListingReadsBack` says the same of every text, without a reference program: `listing`, which no action reads,
notes for every instruction where it was put, which one it is and from which token, and
what `ReadFbc` finds in the file has to be these instructions one after the other, with
operands that `Operands` reads, as the interpreter does, as what the arguments mean:
the number, the index of the function, the address of the label, wherever it was defined.
`TargetsAreInstructions` says that labels and functions are the addresses of such
instructions, never of a byte in between.

**`CompilerLexer`** is the first half of furc: `Load` reads the file, then `Scan` takes
one token a step. The text and every name and string in it are blocks of one `Arena`, a
list of regions of words that is searched from the first. Nothing ends the text in memory: what the
code reads at `content[length]` and behind it is any character of `Beyond`
(`Reads`). **`CompilerParser`** has one operator for each function of `parser.c`, from
a parser state `[at, node, fault, dropped]` to the next; `dropped` holds the positions of the operators
that the code consumes and then leaves out of the tree. **`Compiler`** composes
the two as `furc/src/main.c` does: all tokens first, then one declaration a step. `MCCompiler`
holds the sources and the two references, written without the code's loops:
lexemes and how a text is cut into the longest ones, and the tree
that a row of operators has.

The proofs are in `SparseSetProofs`; `TextProofs`, the lemmas about texts and numbers, and, on top of it,
`CompilerLexerProofs` and `AssemblerProofs`; `HeapProofs`, the lemmas about tables, heaps and
counts, and, on top of it, `ThingPoolProofs` and `MachineProofs`; and on top of `MachineProofs`, `RuntimeProofs`.

| state of `Runtime` | in the code |
|---|---|
| `host` | no state of the code: which host program it is |
| `modules` | `context->modules`; handle k is `modules[k + 1]` |
| `modules[..].globals` | `globalVariables`, each with a mark whether it was ever stored to |
| `executors` | the sparse set `context->executors` |
| `deadExecutors` | `context->deadExecutors`, last one first |
| `heap` | `things`, `deadThings` and `thingsDataArena` |
| `loop` | the position of FOREACH in `furlang_context_step` and its `ran`, or the cursor of `furlang_context_collect` |
| `fault` | which assertion ended the process |
| `stray` | no state of the code: a global nobody wrote has been unreferenced, or the id of a live thing has been handed out |

| state of `Assembler` | in the code |
|---|---|
| `source`, `at`, `tokens` | the file, what is left of `lexer.content`, and `lexer.tokens` |
| `cursor` | `cursor` of `furas_codegen`, from 1 |
| `bytecode`, `functions`, `labels`, `patches` | the arrays of `Context` |
| `entry`, `file` | `fbc.header.entryFunction.function`, and the file that was written |
| `phase`, `fault` | how far `main` has come, and which assertion ended the process |
| `listing` | no state of the code: which instruction was written where, and from which token |

| state of `Compiler` | in the code |
|---|---|
| `source`, `content` | the file, and the block `furc_load_file` put its text into |
| `at`, `tokens` | what is left of `lexer->content`, and `lexer->tokens` |
| `arena` | `lexerArena` |
| `cursor`, `program` | what is left of `parser->tokens`, and the nodes parsed |
| `phase` | how far `main` has come |
| `fault` | which assertion ended the process |
| `dropped` | no state of the code: the operators that are in no tree |

## Runs

| run | question | bounds |
|---|---|---|
| `sparse_set` | Is the sparse set a table, whatever the order of calls? | all sequences over 5 ids on pages of 2, 2 values: ids on the same page, on a new page and beyond a gap |
| `thing_pool` | What do counts, cells and collection still guarantee when ids and cells are recycled? | 4 things, 5 cells, 2 references to a handle, 2 collections, a first capacity of 2 so that the array moves twice |
| `runtime` | Whatever the host calls and whatever the program does: are ids, frames, counts and tasks right, and do things never change? | three hosts. *several*: all calls but collect, 2 modules, 2 executors, 2 ids waiting for reuse, 2 frames pushed by the host, a function that leaves a thing on its stack and one that does not. *any*: all programs of up to 4 instructions from a menu of 13, most of them not well formed, with a callee that has a parameter; uninitialised globals that look like a thing, like no thing, and like an id nobody has. *recycling*: two executors stepped through all programs of up to 2 instructions, collections at any time, executors destroyed and replaced. The first capacity is 2, so that arrays move |
| `expressions` | Does a program compute what it means, does every call return, and do counts stay exact when executors share a global? | three hosts, with the first capacity of the code. *alone*: about 9700 expressions over -3, 0, 2 and the smallest integer, all operators, conditions, loops, calls with two parameters and variables, nested to depth two. *sharing*: 4 programs, two executors started between any two rounds, collections between rounds. *boundary*: a function that stores one variable, on both sides of every limit of the 16-bit operand |
| `assembler` | Does a text give the bytecode, functions and entry its lines stand for? | all programs of up to 3 lines from 18, all of 4 lines from the 7 with labels and functions, three with more functions than two bytes count; all texts of up to 3 characters from 13; `ByteBase` 4, so that one, two and four bytes and 64-bit numbers all overflow |
| `compiler` | Is any text cut and read as it should be, and does the compiler always end? | about 21000 sources: all texts of up to 3 characters from 17 and of 4 from 8; names of 4 lengths in all orders, over regions of 4 words; rows of up to 4 of 8 operators; rows with calls, signs, postfixes, parentheses and commas; programs spelled from statements nested to depth two and from declarations |

`expressions` compares with a reference definition, `Meaning`, which is written
on the expressions and knows nothing of stacks or addresses. The division of the
reference is defined by its remainder. The runs also cover every disjunct of the
next-state relations, so all 22 instructions and all the calls of the interface.
`compiler` checks for deadlock: the program stops only where `main` returns or an assertion fails.

Six more runs each find a behaviour that an assertion or a comment of the code rules
out; `PROJECT.json` quotes the lines under `findings`.

- `dropped_counts`: `append_thing` takes the number of live things as the new id
  and leaves a reused entry in the dead list. After a collection two live
  handles can be one id, and a balanced host is stopped by
  `assert(t->referenceCount)`.
- `collect_cursor`: collect removes from the array it walks. If the thing in
  the last position goes, the cursor passes the end it is compared with.
- `finished_stepped`: `furlang_context_step` also steps executors that have
  finished, which the interpreter asserts they have not. A context with two
  executors of different length cannot be run to the end.
- `holes_released`: a function that stores variable 1 and never variable 0
  cannot return: its scope unreferences the hole.
- `jumps`: addresses are read from signed bytes, so a jump to an address with a
  byte of 128 or more is stopped although the label was inside the code. The
  run uses `ByteBase` 128, where the limit is 64.
- `headers`: the comments of two headers of the compiler. `ast.h` calls the comma an operator "like in
  C", but it binds closest of all, so `a + b, c` is `a + (b, c)`, and `f(a, b)` is a call with one argument.
  `lexer.h` spells the shift to the right `>>` and says that a token that assigns ends with its equals
  sign. The lexer reads `>>` as two tokens (and makes a shift of `><`), and after `<<` it sets the bit and
  leaves the sign to be a token of its own. The run reads programs that hold all of this. `AgreesWithAHeader` is a disjunction,
  so the state that violates it refutes both headers: its first function has a tree in which
  a comma is the operand of another operator or of a call, and its tokens are not cut as `lexer.h` has them.

What `jumps` and `headers` find, `ListingReadsBack` and `TokensAreLongestMatches` except by name (`SignFree`,
`HasForeignShift`): they are claimed for all other operands and texts.

### The assembler's texts

Keywords are spelled with one letter in `MCAssembler`: `Keywords` maps spellings to
keywords, and the code's table is a list of distinct spellings in the same way. A
label has a name that begins like a keyword, labels and headers are followed by
comments, and jumps are written without a space. What the run shows besides: a
function that is pushed and never defined is accepted and gets address 0; parameter
counts keep 16 bits and numbers 64 without a check; a program without instructions is
refused only when its file is written; a name with an underscore keeps the scanner
busy for ever, which `EndsUnlessUnderscored` states as the one exception.
`ListingReadsBack` speaks of operands whose bytes have no sign bit (`SignFree`); the run
`jumps` shows what happens to the others. The order in which `furas/src/main.c` sets
`lexer.length` in its own initialiser is left open by the language; the model takes the
length that was read, as GCC does.

### The compiler's texts

Keywords are spelled with one letter in `MCCompiler` too. What a reader of the headers
may not expect, and the models follow the code in:

- shifts: `><` is read as `>>`, also when the `<` lies behind the text, `>>` is two tokens, and `<<=` is a
  shift that assigns followed by an equals sign of its own. The lexemes of the reference are the
  header's; `HasForeignShift` says which texts hold a spelling where the code departs from them, and
  `TokensAreLongestMatches` claims nothing of these;
- the last token depends on what lies behind the text: an operator may grow, and a string or a
  character may find the quote it lacks. `TokensAreLongestMatches` asks that *some* memory
  explains the tokens, and that a text is refused only if it cannot be cut with some memory;
- an operator is consumed before its precedence is compared. If it binds no closer than
  the pending one it is lost: `Falls` says for which rows of names that happens, and
  `a = b = c` and `a + b * c + d` are refused for it. With a sign behind it the rest is still accepted
  (`a + b * c - -d` loses the first minus), which is why `TreeSpellsTokens` excepts `dropped` and
  `NestsByPrecedence` claims nothing once it is not empty;
- a call binds to all that was parsed before it in its operand chain: `a + f(x)` is read as `(a + f)(x)`.
  Nothing in the repository says otherwise, so it is no finding; `NestsByPrecedence` speaks
  of binary operators;
- a `for` without a first part is refused when it is written with two semicolons, and
  accepted as `for (; i)`; `extern` is a keyword that no rule takes.

Looking at a token behind the last one, where the code reads memory that was never
written, is modelled as seeing no token that matches; taking one is an assertion
(`token is expected`).

### Fairness

`Runtime!FairSpec` asks only that the library's thread goes on while a call is in progress:
the library never waits for anything. Nothing is assumed of the host. The
formula `Fairness` is weak fairness of `LibraryNext` with its ENABLED written out as
`Busy`: a step of the library is possible exactly while a call is in progress, and
TLC would evaluate every instruction to find that out. `CallsReturn` is checked for programs that
terminate; a program that loops for ever makes `furlang_context_run` loop for ever, as
it should. The one exception is a store into a variable from 32767 on, where a capacity of 16 bits
is doubled for ever (`Hangs`).
The assembler's `FairSpec` is weak fairness of its only thread. The compiler has no fairness: that
it ends is `EveryScanConsumes` and `EveryParseConsumes`, a step takes characters or tokens of a finite text,
together with the absence of deadlock.

### What the properties do not claim

`CountsExact` and `ComputesOrTraps` say what happens until the process is stopped.
Programs that meet the failures above are stopped in the model as in the code.
`CountsExact` and `ThingsAreImmutable` are not claimed once `stray` holds: the array of
globals comes from `malloc` as it is, and the first store unreferences whatever id it
reads there; and after a collection `append_thing` may hand out the id of a live thing, which
`dropped_counts` shows. `ComputesOrTraps` allows the
process to crash when an instruction that makes a thing meets a full table,
because DUP and the operators then go on with a pointer into the freed array, and
when a collection runs past the end of the table.

## Proofs

`SparseSetProofs` proves for every page size, every set of ids and every set of
values:

- `TypeCorrect`: `Spec => []TypeOK`;
- `BijectionHolds`: `Spec => []Bijection`. The invariant is inductive together
  with `TypeOK`. The work is in `Unindex`: the removed id and the moved id may
  be the same, or on one page, or on different ones, and the lemmas say for
  each id what `GetDenseIndex` reads after the two updates;
- `RefinesIdTable`: `Spec => ImplementsIdTable`. Under the invariant each PUT is
  `TablePut` and each REMOVE is `TableRemove` of `Contents`; in particular the
  position that REMOVE vacates is `PositionOf` the id, as the ids in
  `denseToSparse` are distinct. This is what entitles `Heap` and `Runtime` to use
  `Tables` in place of the macros.

The assumptions are that a page has at least one entry and that ids are natural
numbers. Ids and indexes of the code have 64 bits; the proofs do not use the bound, as
no program has that much memory.

`RuntimeProofs` proves `ExecutorIdsHold`, `Spec => []ExecutorIds`, for every host, every
program and all bounds. `ExecutorIds` is not inductive as TLC checks it: that the union of
two sets is an interval does not say which id a removal frees. The
invariant `IdsInv` says for the visiting order and the list of free ids that no id
occurs twice, that they are apart, and that a number is below the sum of their
lengths exactly if it is in one of them. `FreshId`, `ReusedId` and `RetiredId` carry that through the three
ways ids move, `PutNew`, `RemovedEntry` and `ChangedEntry` through the table, and every
instruction changes an entry only (`InstructionsAdopt`).

`MachineProofs` says what the operators of `Machine` and each of the 22 instructions do to an
executor: if its frames match before and the machine it leaves has no fault, they
match after (`InstructionsFrame`), and an instruction that finds its executor running leaves it
running exactly if a frame is left. `RuntimeProofs` proves from that, for every host and every program:

- `FramesMatchHolds`: `Spec => []FramesMatch`. The invariant `ExecutorsInv` adds to `FramesMatch` what
  the entries of the table are and that its ids are those of `IdsInv`;
- `RunReturns`: `Spec => RunReturnsWhenAllFinished`. The property speaks of one step, and the
  invariant `RunInv` of the whole round: as long as no executor of it has answered that it still runs, the executors
  before the cursor are finished. No host call comes between, as `loop` is not `Idle`;
- `RefinesTasks`: `Spec => ImplementsTasks`. Each action maps to a step of `Tasks` or a stutter:
  creation starts a task under an id that `IdsInv` says is free, the last return of an instruction or of `step_out` finishes one,
  destruction removes, and a `step_in` on an executor that runs changes no status.
  `PossibleIds`, the ids `Tasks` is asked about, are bounded by the numbers of a host, and the theorem
  shows that the bound is never passed.

They assume of a host that its bounds are natural numbers, and
nothing of its programs, which need not be well formed.

About counts `RuntimeProofs` proves for every host and every program:

- `CountsExactHolds`: `Spec => []CountsExact`;
- `ThingsImmutable`: `Spec => ThingsAreImmutable`;
- `ContextTypesHold`: `Spec => []TypeOK`.

The invariant is `CountInv`: the types of the heap, the executors and the modules (`TypedContext`), and
`Balanced`, that for every number `t` the count of `t` is the number of places that hold it. `Balanced` is
stronger than `CountsExact`, which speaks of live things only: it says too that nothing holds an id that
is not live, which `RemoveThing` and the reuse of an id need.
An instruction runs on one executor and one module, so the
argument goes in two steps. `MachineProofs` proves for a machine that has a heap, an executor and the globals of a module,
and for any function `K` from ids to numbers, that if the count of each `t` is what the machine holds plus `K[t]`
before, then it is afterwards, for each operator of `Machine` and each of the 22 instructions
(`Good`, `InCall`; one lemma `...Counts` each). A machine that fails
never fails with "count is positive". `RuntimeProofs` takes for `K` the number of places in the rest of the context
that hold `t` (`Elsewhere`) and puts the machine back (`Adopted`). What
lets the two meet is that the slots of a context are a function on places, `Gathered`, and the occurrences in it are those in one
array plus those outside (`GatheredSplit` in `HeapProofs`), whatever the order of the executors.
The same relation says with `Kept` that the machine leaves the type and the value of each
thing it found, and `ThingsImmutable` follows for the instructions; for a visit of a collection it follows from
`Balanced`: what is held has a positive count (`HeldAreLive`).

A condition stays in these theorems, as in the properties: `stray` is set once a global that was never written is
unreferenced, or the id of a live thing is handed out; nothing is claimed of the counts after that. The assumptions are that bytecode is a sequence of integers, that the
addresses, parameter counts and entries are natural numbers (`HostsAssumption`), that a byte has an even number of
values and that memory holds integers.

`HeapProofs` holds what `Heap`'s operators do to a heap: how an appended or reused thing, a
changed count, a changed value and a removed thing change each entry, the cells and the dead list.
Its invariant is `HeapInv`, the shape of the records together with `Owned`: a cell is the cell of one live
thing at most. That is not inductive by itself. A reused thing takes the *first* dead entry of its type,
and the entry stays in the list, so `Owned` says of the ids too that a cell belongs to one id for
ever, dead or alive, and that it has the type it was made for. `ThingPoolProofs` proves
for every number of things, cells, references and collections:

- `PoolTypesHold` and `PoolCellsAreOwned`: `TypeOK` and `CellsAreOwned`, from `PoolInv`, which is `HeapInv`
  with the host's handles and its cursor;
- `PoolKeepsReferenced`: a visit changes no thing that is referenced;
- `PoolCountsExact`: `CountsExactUntilFirstRemoval`. `CountsInv` adds that, while nothing was removed, the ids are
  0 to the size of the table, so that a new id is nobody's;
- `PoolGarbageBounded`: `GarbageLeftBounded`. `GarbageInv` counts behind the cursor: a removal at the
  cursor brings the last thing to it, and the cursor passes that one unseen.

They assume `WildValuesAssumption` and `FreshValuesAssumption`, that memory holds integers, and `BoundsAssumption`, that the bounds
of the pool are natural numbers.

`CompilerLexerProofs` proves `StringsAreApartHolds`, `LexerSpec => []StringsAreApart`, for every
set of sources, every content of the memory behind them, every word size and every
minimal region. That two blocks share no word is not inductive: a region may be filled
again after a later one was made, so the invariant `StringsInv` says that
whatever was handed out ends at or below the count of its region, and `BlockIsHanded` that a new block begins at
the count its region had. `Least` finds the first region with room, `WordsHoldBytes` does the rounding,
and each action takes a token that keeps a string (`StringToken`), one that does not (`PlainToken`,
`SpecialToken`) or nothing. The assumptions are that texts are sequences of characters, that a word has
at least one byte and that the minimal region is a number of words. `LexerSpec` is the
lexer's part of `Compiler!Spec`, whose other steps change no variable of it but `phase` and `fault`.

`LexerConsumes` proves `LexerSpec => EveryScanConsumes`: whatever the text and the memory behind it, a turn
of the loop goes forward in the text, ends it, or is stopped. It rests on what a search stops at
(`EndOfType`, `EndOfMore`): a name, a number or a string that was begun is not empty. The
underscore is the case that could go wrong, and in this lexer, unlike in the
assembler's, a name may contain one. `LexerTypes` proves `LexerTypeOK`, the part of `Compiler!TypeOK` that
speaks of the lexer: the numbers of the tokens fit their word and a region holds no more than it has room for.

`TextProofs` shows that a function defined by recursion on the numbers up to `n` exists and has its
type (`Recursion`), and with it that the value of a number is one of its word (`NumberOfType`). The
library's induction theorems take an operator, so the induction is made on sets: the least number
of a set (`Least`) for which something fails contradicts it (`Induction`).

`AssemblerProofs` proves for every set of texts and keywords and for every even `ByteBase`:

- `AssemblerInvariant`: `Spec => []Inv`;
- `AssemblerTypes`: `Spec => []TypeOK`;
- `TargetsHold`: `Spec => []TargetsAreInstructions`;
- `IndexesHold`: `Spec => IndexesAreFinal`;
- `ListingHolds`: `Spec => []ListingReadsBack`.

The parts of `Inv` are the types (`Scanned`, `Generated`); `Laid`, the instructions of the
listing follow one another and end with the bytecode; `OperandsHold`, each operand is the encoding of what
its argument means *now*, or some patch awaits it; `PatchesAwaited`, each patch is awaited by an
operand of eight bytes at its address; `Targets`; and `Written`. `ListingReadsBack` alone says nothing
before the file is written, and `OperandsHold` without `PatchesAwaited` is not inductive: a
patch that belongs to no operand, or to two, would overwrite one that holds. That a patch touches one operand
only is `LinesApart`, two instructions share no byte, which `Laid` says of all pairs and not of neighbours only.
What an argument means must not change when more is defined: a label keeps the meaning of its *first*
definition and a function the index of its first mention (`NamedFirst`, `NamedStays`, `MeaningStays`),
so operands that were written stay right. A step of the generator is one of five kinds
(`GenerateSteps`), and each kind has its lemma `...Inv`, and so has a patch (`PatchInv`). For the file the
operands have to come back out of their bytes: `EncodedIsRead` for the widths 1, 2, 4 and 8,
by dividing step by step (`Divided`, `DividedTwice`), for numbers that fit and have no sign bit in a
byte; and the fields out of the file: `FileIsRead`, for any number of functions and any bytecode, where a row of
pairs of fields is built by the recursion of `FlattenSeq` (`PairsInARow`).
The assumptions are `ByteBaseAssumption`, a byte has an even number of values, and `SourcesAssumption`,
texts are sequences of characters.

What is model-checked only: what compares with a reference in an `MC` module, which is `AssemblesAsWritten`,
`ComputesOrTraps`, `TokensAreLongestMatches` and `ParsesWhatWasWritten`, where the meaning of an expression or a tree is
recursive; and `TreeSpellsTokens`, `NestsByPrecedence`, `EveryParseConsumes` and the parser's part of
`Compiler!TypeOK`, because `CompilerParser` is written with the mutual recursion of `parser.c`, in operators the
provers cannot unfold. Liveness under fairness
(`CallsReturn`, `EndsUnlessUnderscored`) is beyond the prover too.

## What is not modelled

- `furlang_arena_reset` and `furlang_allocator_realloc` have no caller; `furlang_arena_free`,
  `furlang_allocator_free` and the FREE macros only release memory at the end.
- The arena under the things' data is a sequence of cells in `Heap`; its regions are
  modelled under the compiler's lexer, where blocks of many sizes meet. The nodes of the parser
  come from an arena too; they are values in `CompilerParser`.
- `furlang_module_get_function` and the queries `is_running`, `is_paused` and `is_finished`
  change no state. The PAUSED flag is never set.
- Memory allocation does not fail in the models, nor does the file system. Printing (of
  things, tokens and trees) and argument handling of the programs are left out.
- The function `add_function` refuses handle 0, the first module; the model has that
  fault, but no property is about it, as nothing in the repository calls the function.

## Plan

What the provers reach of the properties the runs check is proved. What would come next:

1. `TokensAreLongestMatches` without its reference module: that each token of `LexerSpec` is one of the
   lexemes and that no longer one fits, from `EndOfType` and the tables of `CompilerLexer`;
2. the parser with recursive functions on positions instead of recursive operators, after which `EveryParseConsumes`
   and `TreeSpellsTokens` are inductions over the rest of the tokens, like `Recursion`;
3. the functions that generate code for the compiler, once `src/furc` has them.

----------------------------- MODULE Assembler ------------------------------
(* The assembler (furas/src/main.c, codegen.c): the text is scanned, one     *)
(* pass over the tokens writes bytecode and tables, the jumps to labels that *)
(* were not known are patched, and the result is written to a file.  A       *)
(* statement of the text is one step, and so is a patch.                     *)
EXTENDS Scanner, BytecodeFile

CONSTANT MainName   \* how "main" is spelled

VARIABLES
  cursor,     \* number of the next token
  bytecode,
  functions,  \* sequence of [name, address, paramCount, defined]
  labels,     \* sequence of [name, address]
  patches,    \* sequence of [name, address]: operands to be filled in
  entry,      \* the index of main, from 0
  file,       \* the file that was written
  listing     \* what was written where: sequence of [address, mnemonic, token]

generator == <<cursor, bytecode, functions, labels, patches, entry, file, listing>>
vars == <<source, scanner, phase, fault, generator>>

\* The keywords of each writer and their instructions; ipush and fpush choose
\* theirs by the size of the operand, and write_glbl has none.
Plain ==
  [nop |-> "NOP", dup |-> "DUP", swap |-> "SWAP", pop |-> "POP", ret |-> "RET",
   call |-> "CALL", add |-> "ADD", sub |-> "SUB", mul |-> "MUL", div |-> "DIV", mod |-> "MOD"]
Variable == [store |-> "STR", load |-> "LOD"]
Jump     == [jmp |-> "JMP", jz |-> "JZ", jnz |-> "JNZ"]

Init ==
  /\ ScannerInit
  /\ cursor = 1 /\ bytecode = <<>>
  /\ functions = <<>> /\ labels = <<>> /\ patches = <<>>
  /\ entry = 0 /\ file = <<>> /\ listing = <<>>
-----------------------------------------------------------------------------
\* A slip: the last entry with the name is taken.
NamedLast(table, name) == SelectLastInSeq(table, LAMBDA e : e.name = name)

\* The number of the first entry with the name, or 0.
Named(table, name) == SelectInSeq(table, LAMBDA e : e.name = name)

\* The tokens from the cursor on are of these types; beyond the last token is
\* none (the assertion of FURLANG_DA_AT).
Ahead(types) ==
  /\ cursor + Len(types) - 1 <= Len(tokens)
  /\ \A k \in DOMAIN types : tokens[cursor + k - 1].type = types[k]

Generates == phase = "generating" /\ fault = NoFault
Assembles(keywords) ==
  Generates /\ Ahead(<<"keyword">>) /\ Keywords[tokens[cursor].text] \in keywords

Keyword  == Keywords[tokens[cursor].text]
Argument == tokens[cursor + 1]

Stop(assertion) ==
  /\ fault' = assertion
  /\ UNCHANGED <<source, scanner, phase, generator>>

Emit(mnemonic, operand, taken) ==
  /\ bytecode' = bytecode \o <<Opcode(mnemonic)>> \o operand
  /\ cursor' = cursor + taken
  /\ listing' = Append(listing, [address |-> Len(bytecode), mnemonic |-> mnemonic, token |-> cursor])
  /\ UNCHANGED <<source, scanner, phase, fault, labels, entry, file>>

\* A slip: a second definition is not refused.
DefineFunctionUnchecked ==
  LET k   == Named(functions, tokens[cursor].text)
      new == [name |-> tokens[cursor].text, address |-> Len(bytecode),
              paramCount |-> tokens[cursor + 2].number, defined |-> TRUE]
  IN  /\ Generates /\ Ahead(<<"name", "(">>)
      /\ IF ~Ahead(<<"name", "(", "number", ")", ":">>) THEN Stop("function header is complete")
         ELSE /\ functions' = IF k = 0 THEN Append(functions, new)
                              ELSE [functions EXCEPT ![k] = new]
              /\ cursor' = cursor + 5
              /\ UNCHANGED <<source, scanner, phase, fault, bytecode, labels, patches, entry, file, listing>>

DefineFunction ==
  LET k   == Named(functions, tokens[cursor].text)
      new == [name |-> tokens[cursor].text, address |-> Len(bytecode),
              paramCount |-> tokens[cursor + 2].number, defined |-> TRUE]
  IN  /\ Generates /\ Ahead(<<"name", "(">>)
      /\ CASE ~Ahead(<<"name", "(", "number", ")", ":">>) -> Stop("function header is complete")
           [] k # 0 /\ functions[k].defined -> Stop("function is not defined yet")
           [] OTHER ->
                /\ functions' = IF k = 0 THEN Append(functions, new)
                                ELSE [functions EXCEPT ![k] = new]
                /\ cursor' = cursor + 5
                /\ UNCHANGED <<source, scanner, phase, fault, bytecode, labels, patches, entry, file, listing>>

\* A slip: the address is the one behind the next opcode.
DefineLabelLate ==
  /\ Generates /\ Ahead(<<"name">>) /\ ~Ahead(<<"name", "(">>)
  /\ IF ~Ahead(<<"name", ":">>) THEN Stop("name is defined")
     ELSE /\ labels' = Append(labels, [name |-> tokens[cursor].text, address |-> Len(bytecode) + 1])
          /\ cursor' = cursor + 2
          /\ UNCHANGED <<source, scanner, phase, fault, bytecode, functions, patches, entry, file, listing>>

DefineLabel ==
  /\ Generates /\ Ahead(<<"name">>) /\ ~Ahead(<<"name", "(">>)
  /\ IF ~Ahead(<<"name", ":">>) THEN Stop("name is defined")
     ELSE /\ labels' = Append(labels, [name |-> tokens[cursor].text, address |-> Len(bytecode)])
          /\ cursor' = cursor + 2
          /\ UNCHANGED <<source, scanner, phase, fault, bytecode, functions, patches, entry, file, listing>>

StopAtToken ==
  /\ Generates /\ cursor <= Len(tokens)
  /\ tokens[cursor].type \notin {"name", "keyword"}
  /\ Stop("statement begins with a keyword")

WritePlain ==
  /\ Assembles(DOMAIN Plain)
  /\ Emit(Plain[Keyword], <<>>, 1)
  /\ UNCHANGED <<functions, patches>>

WriteIpush ==
  /\ Assembles({"ipush"})
  /\ IF ~Ahead(<<"keyword", "number">>) \/ Argument.number >= IntModulus \div 2
     THEN Stop("argument is an int")
     ELSE /\ IF Argument.number < ByteBase \div 2
             THEN Emit("BIPUSH", Encoded(Argument.number, 1), 2)
             ELSE Emit("IPUSH", Encoded(Argument.number, 4), 2)
          /\ UNCHANGED <<functions, patches>>

\* A function that is not known yet takes the next index and address 0.
WriteFpush ==
  LET k     == Named(functions, Argument.text)
      index == IF k = 0 THEN Len(functions) ELSE k - 1
  IN  /\ Assembles({"fpush"})
      /\ IF ~Ahead(<<"keyword", "name">>) THEN Stop("argument is a name")
         ELSE /\ functions' = IF k # 0 THEN functions
                   ELSE Append(functions, [name |-> Argument.text, address |-> 0,
                                           paramCount |-> 0, defined |-> FALSE])
              /\ IF index < ShortModulus
                 THEN Emit("SFPUSH", Encoded(index, 2), 2)
                 ELSE Emit("FPUSH", Encoded(index, 8), 2)
              /\ UNCHANGED patches

WriteVariable ==
  /\ Assembles(DOMAIN Variable)
  /\ IF ~Ahead(<<"keyword", "number">>) \/ Argument.number >= ShortModulus
     THEN Stop("argument is a variable")
     ELSE /\ Emit(Variable[Keyword], Encoded(Argument.number, 2), 2)
          /\ UNCHANGED <<functions, patches>>

\* "global", "loadg" and "storeg" are words of the language and end in assert(0).
StopAtGlobal == Assembles({"global", "loadg", "storeg"}) /\ Stop("globals are implemented")

JumpToAddress ==
  /\ Assembles(DOMAIN Jump) /\ Ahead(<<"keyword", "number">>)
  /\ Emit(Jump[Keyword], Encoded(Argument.number, 8), 2)
  /\ UNCHANGED <<functions, patches>>

\* A slip: the operand is taken to begin where the next instruction does.
JumpToLabelPatchedLate ==
  LET k == Named(labels, Argument.text)
  IN  /\ Assembles(DOMAIN Jump) /\ Ahead(<<"keyword", "label">>)
      /\ Emit(Jump[Keyword], Encoded(IF k = 0 THEN 0 ELSE labels[k].address, 8), 2)
      /\ patches' = IF k # 0 THEN patches
           ELSE Append(patches, [name |-> Argument.text, address |-> Len(bytecode) + 9])
      /\ UNCHANGED functions

JumpToLabel ==
  LET k == Named(labels, Argument.text)
  IN  /\ Assembles(DOMAIN Jump) /\ Ahead(<<"keyword", "label">>)
      /\ Emit(Jump[Keyword], Encoded(IF k = 0 THEN 0 ELSE labels[k].address, 8), 2)
      /\ patches' = IF k # 0 THEN patches
           ELSE Append(patches, [name |-> Argument.text, address |-> Len(bytecode) + 1])
      /\ UNCHANGED functions

StopAtTarget ==
  /\ Assembles(DOMAIN Jump)
  /\ ~Ahead(<<"keyword", "number">>) /\ ~Ahead(<<"keyword", "label">>)
  /\ Stop("argument is a target")
-----------------------------------------------------------------------------
GenerationEnds ==
  /\ Generates /\ cursor > Len(tokens)
  /\ phase' = "patching"
  /\ entry' = LET main == Named(functions, MainName) IN IF main = 0 THEN 0 ELSE main - 1
  /\ UNCHANGED <<source, scanner, fault, cursor, bytecode, functions, labels, patches, file, listing>>

Patch ==
  LET patch == Last(patches)
      k     == Named(labels, patch.name)
      bytes == Encoded(labels[k].address, 8)
  IN  /\ phase = "patching" /\ fault = NoFault /\ patches # <<>>
      /\ IF k = 0 THEN Stop("label is defined")
         ELSE /\ bytecode' = [b \in DOMAIN bytecode |->
                   IF b - patch.address \in 1..8 THEN bytes[b - patch.address] ELSE bytecode[b]]
              /\ patches' = Front(patches)
              /\ UNCHANGED <<source, scanner, phase, fault, cursor, functions, labels, entry, file, listing>>

\* Fbc_Module_Function has 16 bits for paramCount.
Fbc ==
  [entry   |-> [module |-> 0, function |-> entry],
   modules |-> <<[functions |-> [k \in DOMAIN functions |->
                    [address    |-> functions[k].address,
                     paramCount |-> functions[k].paramCount % ShortModulus]],
                  globalVariableCount |-> 0,
                  bytecode |-> bytecode]>>]

WriteFile ==
  /\ phase = "patching" /\ fault = NoFault /\ patches = <<>>
  /\ IF ~CanTransfer(Fbc) THEN Stop("bytecode is written")
     ELSE /\ file' = WriteFbc(Fbc) /\ phase' = "written"
          /\ UNCHANGED <<source, scanner, fault, cursor, bytecode, functions, labels, patches, entry, listing>>

Generate ==
  \/ DefineFunction
  \/ DefineLabel
  \/ StopAtToken
  \/ WritePlain
  \/ WriteIpush
  \/ WriteFpush
  \/ WriteVariable
  \/ StopAtGlobal
  \/ JumpToAddress
  \/ JumpToLabel
  \/ StopAtTarget
  \/ GenerationEnds

Next ==
  \/ Scan /\ UNCHANGED generator
  \/ Generate
  \/ Patch
  \/ WriteFile

Spec == Init /\ [][Next]_vars

\* The assembler is one thread that never waits.
FairSpec == Spec /\ WF_vars(Next)
-----------------------------------------------------------------------------
TypeOK ==
  /\ \A k \in DOMAIN functions :
       functions[k].address \in Nat /\ functions[k].paramCount \in 0..(LongModulus - 1)
  /\ \A k \in DOMAIN labels : labels[k].address \in 0..Len(bytecode)
  /\ \A k \in DOMAIN patches : patches[k].address \in 1..(Len(bytecode) - 8)
  /\ \A b \in DOMAIN bytecode : bytecode[b] \in Bytes \cup 0..(Len(Mnemonics) - 1)
  /\ cursor \in 1..(Len(tokens) + 1) /\ at \in 1..(Len(Content) + 1)

\* What the argument of an instruction stands for.
Meaning(token) ==
  CASE token.type = "number" -> token.number
    [] token.type = "name"   -> Named(functions, token.text) - 1
    [] token.type = "label"  -> labels[Named(labels, token.text)].address

\* The number has that many bytes, and none of them has its sign bit set.
SignFree(number, size) ==
  /\ number < Place[size]
  /\ \A k \in 0..(size - 1) : (number \div Place[k]) % ByteBase < ByteBase \div 2

\* What get_byte, get_ushort, get_int or get_addr reads behind an opcode.
OperandRead(code, address, size) ==
  LET bytes == SubSeq(code, address + 2, address + 1 + size)
  IN  CASE size = 1 -> ByteOf(bytes)
        [] size = 2 -> ShortOf(bytes)
        [] size = 4 -> IntOf(bytes)
        [] size = 8 -> LongOf(bytes)

\* Whoever reads the file finds the functions and the entry that were written,
\* and decoding its bytecode from the first byte on meets
\* the instructions of the listing one after the other and nothing else, and
\* reads as each operand what its argument means: the number, the index of the
\* function, the address of the label wherever it was defined.  The one
\* exception is an operand with a sign bit in one of its bytes (codegen.c:146-153
\* and 276-419, bytecode.c, executor.c:46-158 and 212-274).
ListingReadsBack ==
  phase = "written" =>
    LET code == ReadFbc(file).modules[1].bytecode
    IN  /\ ReadFbc(file) = Fbc
        /\ listing[1].address = 0
        /\ \A k \in DOMAIN listing :
             LET line    == listing[k]
                 size    == OperandSize(line.mnemonic)
                 meaning == Meaning(tokens[line.token + 1])
             IN  /\ code[line.address + 1] = Opcode(line.mnemonic)
                 /\ line.address + 1 + size =
                      IF k = Len(listing) THEN Len(code) ELSE listing[k + 1].address
                 /\ size > 0 /\ SignFree(meaning, size) =>
                      OperandRead(code, line.address, size) = meaning

\* Labels, and the functions that are defined, have the address of an
\* instruction, at worst of the one that would come next: no jump to a label and
\* no call lands inside an operand (codegen.c:258-300).
TargetsAreInstructions ==
  LET starts == {listing[k].address : k \in DOMAIN listing} \cup {Len(bytecode)}
  IN  /\ \A k \in DOMAIN labels : labels[k].address \in starts
      /\ \A k \in DOMAIN functions : functions[k].defined => functions[k].address \in starts

\* Bytecode refers to functions by index: no step moves a function to another
\* index, and a function that has its address keeps it (codegen.c:74-83 and
\* 276-294).
IndexesAreFinal ==
  [][\A k \in DOMAIN functions :
       /\ k \in DOMAIN functions'
       /\ functions'[k].name = functions[k].name
       /\ functions[k].defined => functions'[k] = functions[k]]_vars

\* The assembler ends with a file or an assertion, except that the scanner
\* does not get past an underscore (furas/src/lexer.c:77-84).
EndsUnlessUnderscored ==
  \/ <>(phase = "written" \/ fault # NoFault)
  \/ <>[](phase = "scanning" /\ Start <= Len(Content) /\ Content[Start] = "_")
=============================================================================

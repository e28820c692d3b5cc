---------------------------- MODULE MCAssembler -----------------------------
(* Assembly programs as lists of lines: how a line is spelled, and what the  *)
(* bytecode of a list of lines is, by counting the lines before each line.   *)
EXTENDS Assembler

MCLetters == {"N", "R", "P", "F", "S", "J", "Z", "G", "a", "b", "m"}

MCKeywords ==
  (<<"N">> :> "nop" @@ <<"R">> :> "ret" @@ <<"P">> :> "ipush" @@ <<"F">> :> "fpush" @@
   <<"S">> :> "store" @@ <<"J">> :> "jmp" @@ <<"Z">> :> "jz" @@ <<"G">> :> "loadg")

MCMainName == <<"m">>

A    == <<"a">>
JA   == <<"J", "a">>   \* a name that begins like a keyword
Main == MCMainName
-----------------------------------------------------------------------------
\* A line: its kind, its keyword, its name and its number.
Line(kind, spelling, name, number) ==
  [kind |-> kind, spelling |-> spelling, name |-> name, number |-> number]

Function(name, n)  == Line("function", "", name, n)
Label(name)        == Line("label", "", name, 0)
Bare(spelling)     == Line("plain", spelling, <<>>, 0)
PushInt(n)         == Line("int", "P", <<>>, n)
PushFunction(name) == Line("reference", "F", name, 0)
Store(n)           == Line("variable", "S", <<>>, n)
To(spelling, name) == Line("jump", spelling, name, 0)
ToAddress(n)       == Line("address", "J", <<>>, n)
Junk(text)         == Line("junk", "", text, 0)

DigitsOf(n) ==
  LET All[i \in 0..n] == (IF i < 10 THEN <<>> ELSE All[i \div 10]) \o <<Digits[(i % 10) + 1]>>
  IN  All[n]

\* Labels and function headers are followed by a comment.
TextOf(line) ==
  CASE line.kind = "function"  -> line.name \o <<"(">> \o DigitsOf(line.number) \o <<")", " ", ":", ";", "J", "\n">>
    [] line.kind = "label"     -> <<" ">> \o line.name \o <<":", " ", ";", ":", "\n">>
    [] line.kind = "plain"     -> <<line.spelling, "\n">>
    [] line.kind = "reference" -> <<line.spelling, " ">> \o line.name \o <<"\n">>
    [] line.kind = "jump"      -> <<line.spelling, ".">> \o line.name \o <<"\n">>
    [] line.kind = "junk"      -> line.name
    [] OTHER                   -> <<line.spelling, " ">> \o DigitsOf(line.number) \o <<" ">>

Source(lines) ==
  [lines |-> lines, text |-> FlattenSeq([k \in DOMAIN lines |-> TextOf(lines[k])])]
-----------------------------------------------------------------------------
Lines == source.lines
LinesOf(kinds) == {k \in DOMAIN Lines : Lines[k].kind \in kinds}

\* Functions are numbered in the order in which they are first mentioned.
Mentions == LinesOf({"function", "reference"})
FirstMentions == {k \in Mentions : \A j \in Mentions : Lines[j].name = Lines[k].name => k <= j}
IndexOf(name) ==
  Cardinality({j \in FirstMentions : \A k \in Mentions : Lines[k].name = name => j < k})

\* The instruction that stands on a line.
MnemonicOf(line) ==
  CASE line.kind = "plain"     -> Plain[MCKeywords[<<line.spelling>>]]
    [] line.kind = "int"       -> IF line.number < ByteBase \div 2 THEN "BIPUSH" ELSE "IPUSH"
    [] line.kind = "reference" -> IF IndexOf(line.name) < ShortModulus THEN "SFPUSH" ELSE "FPUSH"
    [] line.kind = "variable"  -> "STR"
    [] OTHER                   -> Jump[MCKeywords[<<line.spelling>>]]

Instructions == LinesOf({"plain", "int", "reference", "variable", "jump", "address"})
SizeOf(k) == IF k \in Instructions THEN 1 + OperandSize(MnemonicOf(Lines[k])) ELSE 0

AddressOf(k) ==
  LET Before[j \in 1..k] == IF j = 1 THEN 0 ELSE Before[j - 1] + SizeOf(j - 1)
  IN  Before[k]

Labelled(name) == {k \in LinesOf({"label"}) : Lines[k].name = name}
TargetOf(name) == AddressOf(Min(Labelled(name)))

OperandOf(line) ==
  CASE line.kind = "reference" -> IndexOf(line.name)
    [] line.kind = "jump"      -> TargetOf(line.name)
    [] OTHER                   -> line.number % LongModulus   \* 64 bits are kept
-----------------------------------------------------------------------------
IsJunk == LinesOf({"junk"}) # {}

\* What the assembler must accept: no function twice, no label missing, no
\* globals, no number too large, and not nothing.
Correct ==
  /\ \A j, k \in LinesOf({"function"}) : Lines[j].name = Lines[k].name => j = k
  /\ \A k \in LinesOf({"jump"}) : Labelled(Lines[k].name) # {}
  /\ \A k \in LinesOf({"plain"}) : Lines[k].spelling # "G"
  /\ \A k \in LinesOf({"int"}) : Lines[k].number < IntModulus \div 2
  /\ \A k \in LinesOf({"variable"}) : Lines[k].number < ShortModulus
  /\ Instructions # {}

Unsigned(bytes) == FoldLeft(LAMBDA sum, b : ByteBase * sum + (b % ByteBase), 0, bytes)

OperandAt(code, address, size) == SubSeq(code, address + 2, address + 1 + size)

CodeIs(code) ==
  /\ Len(code) = AddressOf(Len(Lines) + 1)
  /\ \A k \in Instructions :
       LET mnemonic == MnemonicOf(Lines[k])
           size     == OperandSize(mnemonic)
       IN  /\ code[AddressOf(k) + 1] = Opcode(mnemonic)
           /\ size > 0 => Unsigned(OperandAt(code, AddressOf(k), size)) = OperandOf(Lines[k])

\* A function that is only referred to is left with address 0.
FunctionsAre(table) ==
  /\ Len(table) = Cardinality(FirstMentions)
  /\ \A k \in Mentions :
       LET entered == table[IndexOf(Lines[k].name) + 1]
           headers == {j \in LinesOf({"function"}) : Lines[j].name = Lines[k].name}
       IN  IF headers = {} THEN entered = [address |-> 0, paramCount |-> 0]
           ELSE \E j \in headers :
                  entered = [address |-> AddressOf(j), paramCount |-> Lines[j].number % ShortModulus]

\* Reading the file that was written for correct lines gives the code and the
\* functions these lines stand for, with main as entry: labels may stand after
\* the jumps to them and be patched, functions may be pushed before they are
\* defined, and indexes and addresses agree with a count over all lines.
\* Incorrect lines do not give a file (codegen.c:258-419, bytecode.c).
AssemblesAsWritten ==
  LET fbc  == ReadFbc(file)
      main == {k \in Mentions : Lines[k].name = Main}
  IN  ~IsJunk =>
        /\ fault # NoFault => ~Correct
        /\ phase = "written" =>
             /\ Correct
             /\ CodeIs(fbc.modules[1].bytecode)
             /\ FunctionsAre(fbc.modules[1].functions)
             /\ fbc.entry = [module |-> 0, function |-> IF main = {} THEN 0 ELSE IndexOf(Main)]
-----------------------------------------------------------------------------
Menu ==
  {Function(Main, 0), Function(A, 17), Label(A), Label(JA), Bare("N"), Bare("G"),
   PushInt(1), PushInt(2), PushInt(100), PushInt(200), PushFunction(Main), PushFunction(A),
   PushFunction(JA), Store(3), Store(20), To("J", A), To("Z", JA), ToAddress(70000)}

\* Jumps forward and backward, labels and functions before and after their use.
ShortMenu ==
  {Function(A, 1), Function(Main, 2), PushFunction(A), Label(A), Label(JA), To("J", A), To("Z", JA)}

\* More functions than two bytes can count.
Crowd(k) ==
  [j \in 1..(k + 1) |-> IF j <= k THEN PushFunction(<<"a">> \o DigitsOf(j)) ELSE PushFunction(<<"a", "1">>)]
  \o <<Function(<<"a">> \o DigitsOf(k), 3), To("J", JA), Label(JA), Bare("R")>>

Alphabet == {"J", "a", "1", " ", "\n", ";", ".", "%", "(", ")", ":", "_", "-"}

Programs ==
  SeqOf(Menu, 3) \cup [1..4 -> ShortMenu] \cup {Crowd(k) : k \in {16, 17, 18}} \cup
  {<<Junk(text)>> : text \in SeqOf(Alphabet, 3) \ {<<>>}} \cup
  {<<Bare("N"), Junk(text)>> : text \in SeqOf(Alphabet, 2)}

MCSources == {Source(lines) : lines \in Programs \ {<<>>}}
=============================================================================

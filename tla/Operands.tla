------------------------------ MODULE Operands ------------------------------
(* Bytecode: the instructions and their operands as the assembler writes     *)
(* them and the interpreter reads them, and the arithmetic of Furlang_Int    *)
(* (furlang/src/executor.c:212-274, src/ops.c).  Bytecode is an array of     *)
(* signed char: a byte is between -ByteBase/2 and ByteBase/2 - 1.            *)
EXTENDS Integers, Sequences, SequencesExt

CONSTANT ByteBase  \* values of a byte: 256 in the code

ASSUME ByteBaseAssumption == ByteBase \in Nat /\ ByteBase > 0 /\ ByteBase % 2 = 0

Bytes == -(ByteBase \div 2)..(ByteBase \div 2 - 1)

ShortModulus == ByteBase * ByteBase          \* uint16_t
IntModulus   == ShortModulus * ShortModulus  \* Furlang_Int, int32_t
IntMin == -(IntModulus \div 2)
-----------------------------------------------------------------------------
Mnemonics ==
  <<"NOP", "IPUSH", "BIPUSH", "FPUSH", "SFPUSH", "DUP", "SWAP", "POP", "RET",
    "STR", "LOD", "STRG", "LODG", "JMP", "JZ", "JNZ", "CALL",
    "ADD", "SUB", "MUL", "DIV", "MOD">>

\* The value of enum Furlang_Instruction.
Opcode(mnemonic) == (CHOOSE k \in DOMAIN Mnemonics : Mnemonics[k] = mnemonic) - 1

OperandSize(mnemonic) ==
  CASE mnemonic = "BIPUSH" -> 1
    [] mnemonic \in {"SFPUSH", "STR", "LOD", "STRG", "LODG"} -> 2
    [] mnemonic = "IPUSH" -> 4
    [] mnemonic \in {"FPUSH", "JMP", "JZ", "JNZ"} -> 8
    [] OTHER -> 0

SignedByte(b) == IF b >= ByteBase \div 2 THEN b - ByteBase ELSE b

\* How many values k bytes have.
Place[k \in 0..8] == IF k = 0 THEN 1 ELSE ByteBase * Place[k - 1]

\* A slip: the least significant byte is written first.
EncodedReversed(number, size) ==
  [k \in 1..size |-> SignedByte((number \div Place[k - 1]) % ByteBase)]

\* (number >> 8*k) & 0xFF for k from size - 1 down to 0, stored as chars: the
\* size bytes of number, most significant first.
Encoded(number, size) ==
  [k \in 1..size |-> SignedByte((number \div Place[size - k]) % ByteBase)]
-----------------------------------------------------------------------------
\* b1 << .. | b2 << .. | ..  over signed chars, most significant byte first: a
\* negative byte extends its sign over every bit above it.  The result is the
\* two's complement reading of the word; a negative one is an enormous uint64_t.
Join(high, byte) == IF byte < 0 THEN byte ELSE ByteBase * high + byte

ByteOf(bytes)  == bytes[1]                                  \* get_byte
ShortOf(bytes) == Join(bytes[1], bytes[2]) % ShortModulus   \* get_ushort
IntOf(bytes)   == Join(Join(Join(bytes[1], bytes[2]), bytes[3]), bytes[4])
LongOf(bytes)  ==                                           \* get_addr, get_ulong
  Join(Join(Join(Join(IntOf(bytes), bytes[5]), bytes[6]), bytes[7]), bytes[8])

\* i < n for an uint64_t i
IsBelow(i, n) == i \in 0..(n - 1)

\* Signed arithmetic wraps around at the width of Furlang_Int.
WrapInt(i) == ((i - IntMin) % IntModulus) + IntMin

Magnitude(i) == IF i < 0 THEN -i ELSE i

\* C division truncates towards zero.
Quotient(a, b) ==
  IF (a < 0) = (b < 0)
  THEN Magnitude(a) \div Magnitude(b)
  ELSE -(Magnitude(a) \div Magnitude(b))

\* The division instruction of the CPU traps on these operands.
DivisionTraps(a, b) == b = 0 \/ (a = IntMin /\ b = -1)

\* int_int_add .. int_int_mod
Apply(operator, a, b) ==
  CASE operator = "ADD" -> WrapInt(a + b)
    [] operator = "SUB" -> WrapInt(a - b)
    [] operator = "MUL" -> WrapInt(a * b)
    [] operator = "DIV" -> Quotient(a, b)
    [] operator = "MOD" -> a - b * Quotient(a, b)
=============================================================================

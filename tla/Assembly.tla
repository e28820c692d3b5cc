------------------------------ MODULE Assembly ------------------------------
(* Bytecode for the model-checked instances of Runtime.                      *)
EXTENDS Runtime

\* An instruction is <<mnemonic>> or <<mnemonic, operand>>.
SizeOf(instruction) == 1 + OperandSize(instruction[1])

\* Eight-byte operands are small here: their first bytes are zero.
EncodedOperand(instruction) ==
  IF OperandSize(instruction[1]) = 8
  THEN <<0, 0, 0, 0>> \o Encoded(instruction[2], 4)
  ELSE IF Len(instruction) = 2 THEN Encoded(instruction[2], OperandSize(instruction[1]))
  ELSE <<>>

Assemble(instructions) ==
  FlattenSeq([k \in DOMAIN instructions |->
    <<Opcode(instructions[k][1])>> \o EncodedOperand(instructions[k])])
=============================================================================

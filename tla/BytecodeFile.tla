---------------------------- MODULE BytecodeFile ----------------------------
(* Bytecode files (furlang/src/bytecode.c) as sequences of <<width, value>>: *)
(* what one fwrite wrote and one fread of the same width reads.              *)
EXTENDS Operands

Magic == 1   \* FBC_MAGIC, which the reader does not compare

WriteModule(module) ==
  <<<<8, Len(module.functions)>>>>
    \o FlattenSeq([i \in DOMAIN module.functions |->
         <<<<8, module.functions[i].address>>, <<2, module.functions[i].paramCount>>>>])
    \o <<<<2, module.globalVariableCount>>, <<8, Len(module.bytecode)>>>>
    \o [k \in DOMAIN module.bytecode |-> <<1, module.bytecode[k]>>]

\* The header holds the module and the function of the entry function.
WriteFbc(fbc) ==
  <<<<4, Magic>>, <<4, 0>>, <<8, fbc.entry.module>>, <<8, fbc.entry.function>>,
    <<8, Len(fbc.modules)>>>>
    \o FlattenSeq([i \in DOMAIN fbc.modules |-> WriteModule(fbc.modules[i])])

\* fwrite and fread of no bytes return 0, which the assertions refuse.
CanTransfer(fbc) == \A i \in DOMAIN fbc.modules : fbc.modules[i].bytecode # <<>>
-----------------------------------------------------------------------------
\* The module whose first field is number k of the file, and the field after it.
ReadModule(file, k) ==
  LET count  == file[k][2]
      last   == k + 2 * count
      length == file[last + 2][2]
  IN  [module |->
         [functions |-> [i \in 1..count |->
            [address |-> file[k + 2 * i - 1][2], paramCount |-> file[k + 2 * i][2]]],
          globalVariableCount |-> file[last + 1][2],
          bytecode |-> [j \in 1..length |-> file[last + 2 + j][2]]],
       next |-> last + 2 + length + 1]

ReadFbc(file) ==
  LET done[i \in 0..file[5][2]] ==
        IF i = 0 THEN [modules |-> <<>>, next |-> 6]
        ELSE LET before == done[i - 1]
                 one    == ReadModule(file, before.next)
             IN  [modules |-> Append(before.modules, one.module), next |-> one.next]
  IN  [entry   |-> [module |-> file[3][2], function |-> file[4][2]],
       modules |-> done[file[5][2]].modules]
=============================================================================

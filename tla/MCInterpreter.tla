---------------------------- MODULE MCInterpreter ----------------------------
(* Programs for TLC: short codes over a few opcodes, each opcode of         *)
(* arithmetic on words at the limits, and rows of writes to two slots.      *)
EXTENDS Interpreter

Family(table, codes, storages) == [decode |-> table, codes |-> codes, storages |-> storages]

JumpTable == <<"ADD", "JUMP", "JUMPI", "JUMPDEST", "PUSH1", "PUSH2">>
StackTable == <<"POP", "DUP1", "SWAP1", "PC", "PUSH0", "STOP", "INVALID">>

Limits == {0, 1, 2, 3, 7, 8, 9, 16, 127, 128, 129, 240, 255}
Few == {0, 1, 2, 128, 255}
Number(v) == <<1, v \div TwoTo[ByteBits], v % TwoTo[ByteBits]>>
Operands(op) ==
  IF op \in TernaryOps THEN Few \X Few \X Few ELSE {0} \X Limits \X Limits
WordCodes(op) ==
  {Number(v[1]) \o Number(v[2]) \o Number(v[3]) \o <<2>> : v \in Operands(op)}

\* Slots 1 and 2 hold 0 or 1 at first.
Write(w) == <<1, w[1], 1, w[2], 2>>
Values == (0 .. 2) \X (1 .. 2)
StorageCodes ==
  {Write(a) \o Write(b) \o Write(c) \o Write(d) \o <<1, 1, 3>>
   : a \in Values, b \in Values, c \in Values, d \in Values}

AllPrograms ==
  {Family(JumpTable, [1 .. 6 -> 1 .. 6], {<<>>}),
   Family(StackTable, [1 .. 4 -> 1 .. 7], {<<>>}),
   Family(<<"PUSH1", "SSTORE", "SLOAD">>, StorageCodes, [1 .. 2 -> {0, 1}])}
  \cup {Family(<<"PUSH2", op>>, WordCodes(op), {<<>>}) : op \in WordOpcodes}
=============================================================================

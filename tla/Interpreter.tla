----------------------------- MODULE Interpreter -----------------------------
(***************************************************************************)
(* Interpreter.run on a given code: the program counter, the stack, the    *)
(* analysis of jump destinations, the opcodes that work on the stack, and  *)
(* the refund counter of the opcodes that work on the storage.  Gas and    *)
(* memory are in EvmFrame.  decode says which opcode a byte is, so that a  *)
(* byte can be an opcode, a part of a number or the place of a jump.       *)
(***************************************************************************)
EXTENDS WordOps, StorageGas, FiniteSets, Functions

CONSTANTS
  Programs,  \* families of codes, with the opcodes of bytes 1, 2, ... and the storage found
  maxHeight  \* words that the stack may hold (1024)

ASSUME ProgramsAssumption ==
  /\ \A p \in Programs :
       /\ p.codes \subseteq Seq(Nat)
       /\ \A s \in p.storages : /\ IsFiniteSet(DOMAIN s)
                                /\ \A slot \in DOMAIN s : s[slot] \in Words
  /\ maxHeight \in Nat

VARIABLES
  code,        \* bytes
  decode,      \* opcodes of bytes 1, 2, ...; the other bytes are none
  programCounter,
  validJumps,  \* destinations that the analysis has found
  shouldDoJumpAnalysis,
  stack,       \* the bottom first
  original,    \* the storage before the transaction
  storage,
  gasRefund,
  writes,      \* history: how many SSTOREs have run
  paid,        \* history: what they cost
  status       \* "running", or how it ended

flow == <<programCounter, validJumps, shouldDoJumpAnalysis>>
slots == <<storage, gasRefund, writes, paid>>
codeVars == <<code, decode, flow, stack, original, slots, status>>

PushLength(op) == IF op = "PUSH1" THEN 1 ELSE IF op = "PUSH2" THEN 2 ELSE 0
JumpOps == {"JUMP", "JUMPI"}

OpAt(i) == IF code[i + 1] \in DOMAIN decode THEN decode[code[i + 1]] ELSE "INVALID"
Op == OpAt(programCounter)
Top(n) == stack[Len(stack) + 1 - n]

CodeInit ==
  /\ \E p \in Programs :
       code \in p.codes /\ decode = p.decode /\ original \in p.storages
  /\ storage = original
  /\ programCounter = 0
  /\ validJumps = {}
  /\ shouldDoJumpAnalysis = TRUE
  /\ stack = <<>>
  /\ gasRefund = 0 /\ writes = 0 /\ paid = 0
  /\ status = "running"

-----------------------------------------------------------------------------
\* The run loop.

\* Slip: the byte behind the number of a push is skipped too.
ScanLong ==
  LET found[i \in 0 .. Len(code) + 3] ==
        IF i >= Len(code) THEN {}
        ELSE IF PushLength(OpAt(i)) > 0 THEN found[i + 2 + PushLength(OpAt(i))]
        ELSE IF OpAt(i) = "JUMPDEST" THEN {i} \cup found[i + 1] ELSE found[i + 1]
  IN found[0]

_getValidJumpDests ==
  LET found[i \in 0 .. Len(code) + 2] ==
        IF i >= Len(code) THEN {}
        ELSE IF OpAt(i) = "JUMPDEST" THEN {i} \cup found[i + 1]
        ELSE found[i + 1 + PushLength(OpAt(i))]
  IN found[0]

Running == status = "running" /\ programCounter < Len(code)

\* What the loop does before the step: the analysis waits for the first jump.
Analyse ==
  IF shouldDoJumpAnalysis /\ Op \in JumpOps
  THEN validJumps' = _getValidJumpDests /\ shouldDoJumpAnalysis' = FALSE
  ELSE UNCHANGED <<validJumps, shouldDoJumpAnalysis>>

\* A step that goes on at pc, with the given stack.
Step(pc, newStack) ==
  /\ Analyse
  /\ programCounter' = pc
  /\ stack' = newStack
  /\ UNCHANGED <<code, decode, original, status>>

\* A step that ends the run.
EndWith(how) ==
  /\ Analyse
  /\ status' = how
  /\ UNCHANGED <<code, decode, programCounter, stack, original, slots>>

EndOfCode ==
  /\ status = "running" /\ programCounter >= Len(code)
  /\ status' = "STOP"
  /\ UNCHANGED <<code, decode, flow, stack, original, slots>>

Stop == Running /\ Op = "STOP" /\ EndWith("STOP")
Invalid == Running /\ Op = "INVALID" /\ EndWith("INVALID_OPCODE")

Popped(n) == SubSeq(stack, 1, Len(stack) - n)

\* Pop n words, and push value on what is left.
PopPush(n, value, pc) ==
  \/ Len(stack) < n /\ EndWith("STACK_UNDERFLOW")
  \/ /\ Len(stack) >= n
     /\ \/ value > MaxInteger /\ EndWith("OUT_OF_RANGE")
        \/ value <= MaxInteger /\ Len(stack) - n >= maxHeight /\ EndWith("STACK_OVERFLOW")
        \/ /\ value <= MaxInteger /\ Len(stack) - n < maxHeight
           /\ Step(pc, Append(Popped(n), value))
           /\ UNCHANGED slots

Next1 == programCounter + 1

-----------------------------------------------------------------------------
\* The opcodes.

Operand(n) == IF n <= Len(stack) THEN Top(n) ELSE 0

Arithmetic ==
  /\ Running /\ Op \in WordOpcodes
  /\ PopPush(Arity(Op), Compute(Op, Operand(1), Operand(2), Operand(3)), Next1)

Pop ==
  /\ Running /\ Op = "POP"
  /\ \/ Len(stack) < 1 /\ EndWith("STACK_UNDERFLOW")
     \/ Len(stack) >= 1 /\ Step(Next1, Popped(1)) /\ UNCHANGED slots

\* The counter is behind the opcode when it is read.
Pc == Running /\ Op = "PC" /\ PopPush(0, Next1 - 1, Next1)

\* Bytes behind the end of the code are no part of the number.
Push ==
  LET n == PushLength(Op)
      number[i \in 0 .. n] ==
        IF i = 0 THEN 0
        ELSE IF programCounter + 1 + i > Len(code) THEN number[i - 1]
        ELSE number[i - 1] * TwoTo[ByteBits] + code[programCounter + 1 + i]
  IN Running /\ Op \in {"PUSH0", "PUSH1", "PUSH2"} /\ PopPush(0, number[n], Next1 + n)

Dup ==
  /\ Running /\ Op = "DUP1"
  /\ \/ Len(stack) < 1 /\ EndWith("STACK_UNDERFLOW")
     \/ Len(stack) >= 1 /\ PopPush(0, Top(1), Next1)

Swap ==
  /\ Running /\ Op = "SWAP1"
  /\ \/ Len(stack) <= 1 /\ EndWith("STACK_UNDERFLOW")
     \/ /\ Len(stack) > 1
        /\ Step(Next1, Popped(2) \o <<Top(1), Top(2)>>)
        /\ UNCHANGED slots

JumpDest == Running /\ Op = "JUMPDEST" /\ Step(Next1, stack) /\ UNCHANGED slots

\* Only the analysis made by now counts.
JumpTo(dest, n) ==
  LET jumps == IF shouldDoJumpAnalysis THEN _getValidJumpDests ELSE validJumps
  IN \/ (dest > Len(code) \/ dest \notin jumps) /\ EndWith("INVALID_JUMP")
     \/ dest <= Len(code) /\ dest \in jumps /\ Step(dest, Popped(n)) /\ UNCHANGED slots

Jump ==
  /\ Running /\ Op = "JUMP"
  /\ \/ Len(stack) < 1 /\ EndWith("STACK_UNDERFLOW")
     \/ Len(stack) >= 1 /\ JumpTo(Top(1), 1)

JumpI ==
  /\ Running /\ Op = "JUMPI"
  /\ \/ Len(stack) < 2 /\ EndWith("STACK_UNDERFLOW")
     \/ Len(stack) >= 2 /\ Top(2) # 0 /\ JumpTo(Top(1), 2)
     \/ Len(stack) >= 2 /\ Top(2) = 0 /\ Step(Next1, Popped(2)) /\ UNCHANGED slots

StoredAt(slot, at) == IF slot \in DOMAIN at THEN at[slot] ELSE 0

SLoad ==
  /\ Running /\ Op = "SLOAD"
  /\ \/ Len(stack) < 1 /\ EndWith("STACK_UNDERFLOW")
     \/ Len(stack) >= 1 /\ PopPush(1, StoredAt(Top(1), storage), Next1)

\* The gas handler, that counts the refund, and the write.
SStore ==
  LET slot == Top(1)
      price ==
        updateSstoreGasEIP2200(StoredAt(slot, storage), StoredAt(slot, original), Top(2))
  IN /\ Running /\ Op = "SSTORE"
     /\ \/ Len(stack) < 2 /\ EndWith("STACK_UNDERFLOW")
        \/ /\ Len(stack) >= 2 /\ gasRefund + price.least < 0
           /\ EndWith("REFUND_EXHAUSTED")
        \/ /\ Len(stack) >= 2 /\ gasRefund + price.least >= 0
           /\ Step(Next1, Popped(2))
           /\ gasRefund' = gasRefund + price.refund
           /\ paid' = paid + price.cost
           /\ writes' = writes + 1
           /\ storage' = [s \in DOMAIN storage \cup {slot} |->
                            IF s = slot THEN Top(2) ELSE storage[s]]

CodeNext ==
  \/ EndOfCode \/ Stop \/ Invalid \/ Arithmetic \/ Pop \/ Pc \/ Push \/ Dup \/ Swap
  \/ JumpDest \/ Jump \/ JumpI \/ SLoad \/ SStore

CodeSpec == CodeInit /\ [][CodeNext]_codeVars

-----------------------------------------------------------------------------
(* Properties *)

\* Handlers that wrap by hand leave words, and the stack is never too high: an operand
\* that is no word would be read by every opcode that follows.
CodeTypeOK ==
  /\ programCounter \in Nat /\ validJumps \subseteq Nat
  /\ shouldDoJumpAnalysis \in BOOLEAN
  /\ Len(stack) <= maxHeight /\ \A i \in 1 .. Len(stack) : stack[i] \in Words
  /\ \A s \in DOMAIN storage : storage[s] \in Words
  /\ gasRefund \in Nat /\ writes \in Nat /\ paid \in Nat
  /\ status \in {"running", "STOP", "INVALID_OPCODE", "STACK_UNDERFLOW", "STACK_OVERFLOW",
                 "OUT_OF_RANGE", "INVALID_JUMP", "REFUND_EXHAUSTED"}

\* Where instructions start: at 0, and where the one before ends.
Starts ==
  LET from[i \in 0 .. Len(code) + 2] ==
        IF i >= Len(code) THEN {} ELSE {i} \cup from[i + 1 + PushLength(OpAt(i))]
  IN from[0]

\* A jump that is taken is refused exactly when its destination is no JUMPDEST that is an
\* instruction, whatever ran before the analysis: no part of a number is run as an opcode,
\* and no honest jump fails.
JumpsWhereItMay ==
  [][/\ Running /\ Op \in JumpOps
     /\ IF Op = "JUMP" THEN Len(stack) > 0 ELSE Len(stack) > 1 /\ Top(2) # 0
     => IF Top(1) \in Starts /\ OpAt(Top(1)) = "JUMPDEST"
        THEN status' = "running" /\ programCounter' = Top(1)
        ELSE status' = "INVALID_JUMP"]_codeVars

\* An arithmetic opcode pushes the word that the opcode means, also at the limits: the
\* most negative word, shifts by a whole word and more, division by zero.
ArithmeticMeans ==
  [][Running /\ Op \in WordOpcodes /\ Len(stack) >= Arity(Op) =>
       /\ status' = "running"
       /\ Means(Op, Operand(1), Operand(2), Operand(3), stack'[Len(stack')])]_codeVars

\* However often slots are written, what the writes cost less what is refunded depends
\* on what each slot was and is, and on how many writes there were; and the refund never
\* runs out on the way: what recreating a slot takes back was given when it was deleted.
WritesCostTheirEffect ==
  LET nets == [slot \in DOMAIN storage |-> Net(StoredAt(slot, original), storage[slot])]
  IN /\ status # "REFUND_EXHAUSTED"
     /\ paid - gasRefund = writes * sstoreNoopGas + SumFunction(nets)
=============================================================================

------------------------------ MODULE EvmFrame ------------------------------
(***************************************************************************)
(* One frame of the interpreter: gas, memory, calls and the end of the     *)
(* frame.  The code is not known in advance: every step runs any opcode of *)
(* the hard fork with any operands.  The values on the stack and in the    *)
(* memory are left out, so a step may always find the stack too short or   *)
(* too full (Fault).  Instructions and jumps are in Interpreter, the       *)
(* results of arithmetic in WordOps, the price of a write to storage in    *)
(* StorageGas.                                                             *)
(*                                                                         *)
(* A step runs the gas handler of its opcode, takes the gas and then runs  *)
(* the opcode.  A call leaves the frame waiting for runCall of the EVM.    *)
(***************************************************************************)
EXTENDS Integers, FiniteSets, Precompiles

CONSTANTS
  param,      \* common.param('gasPrices', name)
  fee,        \* the base fee of each opcode, by name
  WordBytes,  \* bytes of a word (32)
  Container,  \* bytes by which the buffer of the memory grows (8192)
  Fraction,   \* a caller keeps one part in Fraction of its gas (64)
  GasLimits,  \* gas that a message may come with
  Offsets,    \* offsets on the stack
  Lengths,    \* lengths on the stack, and of returned data
  GasArgs     \* gas that a call may ask for

Params == {"memory", "quadCoeffDiv", "copy", "keccak256Word", "expByte", "logTopic",
           "logData", "callValueTransfer", "callNewAccount", "callStipend",
           "sstoreSentryGasEIP2200", "sstoreNoopGasEIP2200", "sstoreInitGasEIP2200",
           "sstoreCleanGasEIP2200", "sstoreDirtyGasEIP2200"}

\* Opcodes that cost their base fee and touch neither memory nor accounts.
ArithmeticOps == {"ADD", "MUL", "SUB", "DIV", "SDIV", "MOD", "SMOD", "ADDMOD", "MULMOD",
                  "SIGNEXTEND", "LT", "GT", "SLT", "SGT", "EQ", "ISZERO", "AND", "OR",
                  "XOR", "NOT", "BYTE", "SHL", "SHR", "SAR"}
EnvironmentOps == {"ADDRESS", "BALANCE", "ORIGIN", "CALLER", "CALLVALUE", "CALLDATALOAD",
                   "CALLDATASIZE"}
CodeOps == {"CODESIZE", "EXTCODESIZE", "EXTCODEHASH", "RETURNDATASIZE"}
BlockOps == {"GASPRICE", "BLOCKHASH", "COINBASE", "TIMESTAMP", "NUMBER", "DIFFICULTY",
             "GASLIMIT", "CHAINID", "SELFBALANCE"}
FlowOps == {"POP", "SLOAD", "JUMP", "JUMPI", "PC", "MSIZE", "GAS", "JUMPDEST", "PUSH0",
            "PUSH", "DUP", "SWAP"}
PlainOps == ArithmeticOps \cup EnvironmentOps \cup CodeOps \cup BlockOps \cup FlowOps

CopyOps == {"CALLDATACOPY", "CODECOPY", "EXTCODECOPY"}
HaltOps == {"RETURN", "REVERT"}
CreateOps == {"CREATE", "CREATE2"}
MessageOps == {"CALL", "CALLCODE", "DELEGATECALL", "STATICCALL"}
CallOps == CreateOps \cup MessageOps

Opcodes == PlainOps \cup CopyOps \cup HaltOps \cup CallOps \cup
           {"STOP", "EXP", "KECCAK256", "RETURNDATACOPY", "MLOAD", "MSTORE", "MSTORE8",
            "SSTORE", "LOG", "SELFDESTRUCT"}

ASSUME PriceAssumption ==
  /\ param \in [Params -> Nat] /\ fee \in [Opcodes -> Nat]
  /\ param["quadCoeffDiv"] > 0
  /\ \A op \in Opcodes \ (HaltOps \cup {"STOP", "SSTORE"}) : fee[op] > 0
  /\ \A p \in {"sstoreNoopGasEIP2200", "sstoreInitGasEIP2200", "sstoreCleanGasEIP2200",
               "sstoreDirtyGasEIP2200"} : param[p] > 0
ASSUME StipendAssumption ==
  /\ Fraction \in Nat /\ Fraction > 1
  /\ param["callStipend"] < param["callValueTransfer"]
ASSUME SizeAssumption ==
  /\ WordBytes \in Nat /\ WordBytes > 0 /\ Container \in Nat /\ Container > 0
  /\ GasLimits \subseteq Nat /\ Offsets \subseteq Nat /\ Lengths \subseteq Nat
  /\ GasArgs \subseteq Nat

VARIABLES
  status,          \* "running", or how the frame ended
  gasLimit,        \* the gas of the message
  gasLeft,
  memoryWordCount,
  highestMemCost,
  storeLength,     \* bytes of the buffer of the memory
  touched,         \* history: bytes up to the last one read or written
  returnLength,    \* length of returnBytes
  isStatic,
  wrote,           \* history: the frame has written to accounts, storage or logs
  calling,         \* the call the frame waits for, or "none"
  messageGasLimit, \* the gas of that call
  out,             \* where its output goes: offset and length
  childStatic      \* its message is static

memory == <<memoryWordCount, highestMemCost>>
buffer == <<storeLength, touched>>
call == <<calling, messageGasLimit, out, childStatic>>
vars == <<status, gasLimit, gasLeft, memory, buffer, returnLength, isStatic, wrote, call>>

Errors == {"OUT_OF_GAS", "STACK_UNDERFLOW", "STACK_OVERFLOW", "INVALID_JUMP",
           "INVALID_OPCODE", "OUT_OF_RANGE", "STATIC_STATE_CHANGE"}
Ends == Errors \cup {"STOP", "REVERT"}

Init ==
  /\ status = "running"
  /\ gasLimit \in GasLimits /\ gasLeft = gasLimit
  /\ memoryWordCount = 0 /\ highestMemCost = 0
  /\ storeLength = 0 /\ touched = 0
  /\ returnLength = 0
  /\ isStatic \in BOOLEAN
  /\ wrote = FALSE
  /\ calling = "none" /\ messageGasLimit = 0 /\ out = <<0, 0>>
  /\ childStatic = FALSE

-----------------------------------------------------------------------------
\* Memory: what gas handlers charge for, and what opcodes touch.

divCeil(x, y) == x \div y + (IF x % y = 0 THEN 0 ELSE 1)

\* words * 3 + words ^ 2 / 512
MemoryCost(words) ==
  words * param["memory"] + (words * words) \div param["quadCoeffDiv"]

\* The memory with nothing charged yet.
Mem == [words |-> memoryWordCount, highest |-> highestMemCost, cost |-> 0]

\* Slip: the whole price of the memory is remembered, only its last part is not taken off.
subMemUsageForgetful(m, offset, length) ==
  LET words == divCeil(offset + length, WordBytes)
  IN IF length = 0 \/ words <= m.words THEN m
     ELSE [words |-> words, highest |-> MemoryCost(words), cost |-> m.cost]

\* Charge m for `length` bytes from `offset`.
subMemUsage(m, offset, length) ==
  LET words == divCeil(offset + length, WordBytes)
      cost == MemoryCost(words)
  IN IF length = 0 \/ words <= m.words THEN m
     ELSE IF cost > m.highest
          THEN [words |-> words, highest |-> cost, cost |-> m.cost + (cost - m.highest)]
          ELSE [words |-> words, highest |-> m.highest, cost |-> m.cost + cost]

\* Slip: the buffer grows by a container more than it needs.
ExtendedTwice(stored, offset, size) ==
  LET need == divCeil(offset + size, WordBytes) * WordBytes
  IN IF size = 0 \/ need <= stored THEN stored
     ELSE stored + (divCeil(need - stored, Container) + 1) * Container

\* The buffer once `size` bytes from `offset` are in it.
Extended(stored, offset, size) ==
  LET need == divCeil(offset + size, WordBytes) * WordBytes
  IN IF size = 0 \/ need <= stored THEN stored
     ELSE stored + divCeil(need - stored, Container) * Container

\* Read or write `size` bytes from `offset`.
Touch(offset, size) ==
  /\ storeLength' = Extended(storeLength, offset, size)
  /\ touched' = IF size > 0 /\ offset + size > touched THEN offset + size ELSE touched

-----------------------------------------------------------------------------
\* The ends of a frame, and the gas of a step.

Ready == status = "running" /\ calling = "none"

End(how) ==
  /\ status' = how
  /\ UNCHANGED <<gasLimit, isStatic, call>>

Trap(error) ==
  /\ End(error)
  /\ UNCHANGED <<gasLeft, memory, buffer, returnLength, wrote>>

Charged(m) == memoryWordCount' = m.words /\ highestMemCost' = m.highest

\* useGas: the step costs more than there is.
OutOfGas(gas, m) ==
  /\ gas > gasLeft
  /\ gasLeft' = 0
  /\ Charged(m)
  /\ End("OUT_OF_GAS")
  /\ UNCHANGED <<buffer, returnLength, wrote>>

\* Slip: gas is taken whether it is there or not.
PaidUnchecked(gas, m) ==
  /\ gasLeft' = gasLeft - gas
  /\ Charged(m)

\* useGas: the step is paid.
Paid(gas, m) ==
  /\ gas <= gasLeft
  /\ gasLeft' = gasLeft - gas
  /\ Charged(m)

\* A paid step after which the frame goes on.
GoOn(gas, m) ==
  /\ Paid(gas, m)
  /\ UNCHANGED <<status, gasLimit, isStatic, call, returnLength>>

\* The code is at its end, or at a STOP.
Stop == Ready /\ Trap("STOP")

\* An opcode finds too few or too many words, a bad jump, or is not one of the fork.
Fault == Ready /\ \E error \in Errors \ {"OUT_OF_GAS", "STATIC_STATE_CHANGE"} : Trap(error)

-----------------------------------------------------------------------------
\* Opcodes that stay in the frame.

Plain(op) ==
  /\ Ready
  /\ \/ OutOfGas(fee[op], Mem)
     \/ GoOn(fee[op], Mem) /\ UNCHANGED <<buffer, wrote>>

\* bytes: how many the exponent has.
Exp(bytes) ==
  LET gas == fee["EXP"] + bytes * param["expByte"]
  IN /\ Ready
     /\ \/ OutOfGas(gas, Mem)
        \/ GoOn(gas, Mem) /\ UNCHANGED <<buffer, wrote>>

\* An opcode that touches the bytes it was charged for.
Access(op, offset, length, extra) ==
  LET m == subMemUsage(Mem, offset, length)
      gas == fee[op] + m.cost + extra
  IN /\ Ready
     /\ \/ OutOfGas(gas, m)
        \/ GoOn(gas, m) /\ Touch(offset, length) /\ UNCHANGED wrote

Keccak256(offset, length) ==
  Access("KECCAK256", offset, length, param["keccak256Word"] * divCeil(length, WordBytes))

Copy(op, offset, length) ==
  Access(op, offset, length, param["copy"] * divCeil(length, WordBytes))

\* The returned data must be that long, or the step ends the frame.
ReturnDataCopy(memOffset, dataOffset, length) ==
  \/ Ready /\ dataOffset + length > returnLength /\ Trap("OUT_OF_GAS")
  \/ /\ dataOffset + length <= returnLength
     /\ Access("RETURNDATACOPY", memOffset, length, param["copy"] * divCeil(length, WordBytes))

MLoad(offset) == Access("MLOAD", offset, WordBytes, 0)
MStore(offset) == Access("MSTORE", offset, WordBytes, 0)
MStore8(offset) == Access("MSTORE8", offset, 1, 0)

\* price: what the write costs, as StorageGas has it.
SStore(price) ==
  \/ Ready /\ isStatic /\ Trap("STATIC_STATE_CHANGE")
  \/ Ready /\ ~isStatic /\ gasLeft <= param["sstoreSentryGasEIP2200"] /\ Trap("OUT_OF_GAS")
  \/ /\ Ready /\ ~isStatic /\ gasLeft > param["sstoreSentryGasEIP2200"]
     /\ \/ OutOfGas(fee["SSTORE"] + price, Mem)
        \/ GoOn(fee["SSTORE"] + price, Mem) /\ wrote' = TRUE /\ UNCHANGED buffer

LogGas(m, length, topics) ==
  fee["LOG"] + m.cost + param["logTopic"] * topics + param["logData"] * length

\* Slip: the gas handler does not ask whether the frame is static.
LogUnguarded(offset, length, topics) ==
  LET m == subMemUsage(Mem, offset, length)
      gas == LogGas(m, length, topics)
  IN Ready /\ \/ OutOfGas(gas, m)
              \/ GoOn(gas, m) /\ Touch(offset, length) /\ wrote' = TRUE

Log(offset, length, topics) ==
  LET m == subMemUsage(Mem, offset, length)
      gas == LogGas(m, length, topics)
  IN \/ Ready /\ isStatic /\ Trap("STATIC_STATE_CHANGE")
     \/ /\ Ready /\ ~isStatic
        /\ \/ OutOfGas(gas, m)
           \/ GoOn(gas, m) /\ Touch(offset, length) /\ wrote' = TRUE

-----------------------------------------------------------------------------
\* Opcodes that end the frame.

\* RETURN and REVERT: the data is copied out of the memory.
Finish(op, offset, length) ==
  LET m == subMemUsage(Mem, offset, length)
      gas == fee[op] + m.cost
  IN /\ Ready
     /\ \/ OutOfGas(gas, m)
        \/ /\ Paid(gas, m)
           /\ Touch(offset, length)
           /\ End(IF op = "REVERT" THEN "REVERT" ELSE "STOP")
           /\ UNCHANGED <<returnLength, wrote>>

\* newAccount: the frame has a balance and its beneficiary is empty.
SelfDestructGas(newAccount) ==
  fee["SELFDESTRUCT"] + (IF newAccount THEN param["callNewAccount"] ELSE 0)

SelfDestruct(newAccount) ==
  LET gas == SelfDestructGas(newAccount)
  IN \/ Ready /\ isStatic /\ Trap("STATIC_STATE_CHANGE")
     \/ Ready /\ ~isStatic /\ OutOfGas(gas, Mem)
     \/ /\ Ready /\ ~isStatic /\ Paid(gas, Mem)
        /\ End("STOP")
        /\ wrote' = TRUE
        /\ UNCHANGED <<buffer, returnLength>>

-----------------------------------------------------------------------------
\* Calls.  Division of bigints rounds towards zero.

Quotient(x, y) == IF x >= 0 THEN x \div y ELSE -((-x) \div y)

\* Slip: the caller gives away all the gas that is asked for.
maxCallGasUncapped(gasArg, left) == gasArg

maxCallGas(gasArg, left) ==
  LET gasAllowed == left - Quotient(left, Fraction)
  IN IF gasArg > gasAllowed THEN gasAllowed ELSE gasArg

Stipend(value) == IF value # 0 THEN param["callStipend"] ELSE 0

\* Slip: the stipend of a call that pays is not taken from what the call costs.
ValueGasFree(value, newAccount) == IF newAccount /\ value # 0 THEN param["callNewAccount"] ELSE 0

\* newAccount: the callee is empty.  Only CALL asks.
ValueGas(value, newAccount) ==
  IF value = 0 THEN 0
  ELSE param["callValueTransfer"] + (IF newAccount THEN param["callNewAccount"] ELSE 0)

\* The call is made: the frame waits.  A frame at the greatest depth, or that has
\* not the value, makes no call and goes on.
Send(op, gas, stipend, m, limit, in, output, static, writes) ==
  /\ gas <= gasLeft + stipend
  /\ gasLeft' = gasLeft + stipend - gas
  /\ Charged(m)
  /\ Touch(in[1], in[2])
  /\ returnLength' = 0
  /\ UNCHANGED <<status, gasLimit, isStatic>>
  /\ \/ UNCHANGED <<call, wrote>>
     \/ /\ calling' = op
        /\ messageGasLimit' = limit
        /\ out' = output
        /\ wrote' = (wrote \/ writes)
        /\ childStatic' = static

\* useGas after the stipend.
SendOutOfGas(gas, stipend, m) ==
  /\ gas > gasLeft + stipend
  /\ gasLeft' = 0
  /\ Charged(m)
  /\ End("OUT_OF_GAS")
  /\ UNCHANGED <<buffer, returnLength, wrote>>

\* CREATE2 hashes the code it gets.
HashGas(op, length) ==
  IF op = "CREATE2" THEN param["keccak256Word"] * divCeil(length, WordBytes) ELSE 0

\* CREATE and CREATE2 send no stipend and take no output; the nonce of the creator goes up
\* when the message is made.
SendCreate(op, gas, m, limit, in) == Send(op, gas, 0, m, limit, in, <<0, 0>>, FALSE, TRUE)

Create(op, in) ==
  LET m == subMemUsage(Mem, in[1], in[2])
      gas == fee[op] + m.cost + HashGas(op, in[2])
      limit == maxCallGas(gasLeft - gas, gasLeft - gas)
  IN \/ Ready /\ isStatic /\ Trap("STATIC_STATE_CHANGE")
     \/ Ready /\ ~isStatic /\ SendOutOfGas(gas, 0, m)
     \/ /\ Ready /\ ~isStatic
        /\ SendCreate(op, gas, m, limit, in)

\* The memory that a message reads and the memory its output may fill.
CallMem(in, output) == subMemUsage(subMemUsage(Mem, in[1], in[2]), output[1], output[2])

Call(gasArg, value, newAccount, in, output) ==
  LET m == CallMem(in, output)
      gas == fee["CALL"] + m.cost + ValueGas(value, newAccount)
      limit == maxCallGas(gasArg, gasLeft - gas)
      static == isStatic /\ value # 0
      covered == limit <= gasLeft - gas /\ gas <= gasLeft
  IN \/ Ready /\ static /\ Trap("STATIC_STATE_CHANGE")
     \/ Ready /\ ~static /\ ~covered /\ Trap("OUT_OF_GAS")
     \/ /\ Ready /\ ~static /\ covered
        /\ Send("CALL", gas, Stipend(value), m, limit + Stipend(value), in, output,
                isStatic, value # 0)

\* Unlike CALL, the fee is not compared with the gas before the stipend is added.
CallCode(gasArg, value, in, output) ==
  LET m == CallMem(in, output)
      gas == fee["CALLCODE"] + m.cost + ValueGas(value, FALSE)
      limit == maxCallGas(gasArg, gasLeft - gas)
      covered == limit <= gasLeft - gas
  IN \/ Ready /\ ~covered /\ Trap("OUT_OF_GAS")
     \/ /\ Ready /\ covered
        /\ \/ SendOutOfGas(gas, Stipend(value), m)
           \/ Send("CALLCODE", gas, Stipend(value), m, limit + Stipend(value), in, output,
                   isStatic, FALSE)

\* The check that no call gives away more than is left can not fail: it is the cap.
DelegateCall(gasArg, in, output) ==
  LET m == CallMem(in, output)
      gas == fee["DELEGATECALL"] + m.cost
      limit == maxCallGas(gasArg, gasLeft - gas)
  IN \/ Ready /\ limit > gasLeft - gas /\ Trap("OUT_OF_GAS")
     \/ /\ Ready /\ limit <= gasLeft - gas
        /\ \/ SendOutOfGas(gas, 0, m)
           \/ Send("DELEGATECALL", gas, 0, m, limit, in, output, isStatic, FALSE)

StaticCall(gasArg, in, output) ==
  LET m == CallMem(in, output)
      gas == fee["STATICCALL"] + m.cost
      limit == maxCallGas(gasArg, gasLeft - gas)
  IN /\ Ready
     /\ \/ SendOutOfGas(gas, 0, m)
        \/ Send("STATICCALL", gas, 0, m, limit, in, output, TRUE, FALSE)

-----------------------------------------------------------------------------
\* runCall has ended: used gas, an error or none, and data.

Returned(kind, error, length) ==
  IF kind \in CreateOps
  THEN IF error = "REVERT" THEN length ELSE 0
  ELSE IF error \in {"none", "REVERT"} THEN length ELSE 0

\* writeCallOutput: how much of the memory the output fills.
OutputLength(asked, length) == IF length < asked THEN length ELSE asked

\* The child was not static, so what it did counts as done by this frame.
ChildWrote(error) == error = "none" /\ ~childStatic

NoCall ==
  /\ calling' = "none" /\ messageGasLimit' = 0 /\ out' = <<0, 0>>
  /\ childStatic' = FALSE

ChildReturns(used, error, length) ==
  LET returned == Returned(calling, error, length)
  IN /\ status = "running" /\ calling # "none"
     /\ NoCall
     /\ UNCHANGED <<gasLimit, memory, isStatic>>
     /\ wrote' \in {wrote, wrote \/ ChildWrote(error)}
     /\ \/ /\ used > gasLeft
           /\ gasLeft' = 0
           /\ status' = "OUT_OF_GAS"
           /\ UNCHANGED <<buffer, returnLength>>
        \/ /\ used <= gasLeft
           /\ gasLeft' = gasLeft - used
           /\ returnLength' = returned
           /\ Touch(out[1], OutputLength(out[2], returned))
           /\ UNCHANGED status

\* The code of the callee has used at most the gas of its message.
CodeReturns(used, error, length) == used <= messageGasLimit /\ ChildReturns(used, error, length)

\* length, work, valid: of the data of the message.
PrecompileReturns(p, length, work, valid) ==
  LET r == Run(p, messageGasLimit, length, work, valid)
  IN /\ calling \in MessageOps
     /\ ChildReturns(r.used, r.error, r.length)

-----------------------------------------------------------------------------
Regions == Offsets \X Lengths
SStorePrices == {param[p] : p \in {"sstoreNoopGasEIP2200", "sstoreInitGasEIP2200",
                                  "sstoreCleanGasEIP2200", "sstoreDirtyGasEIP2200"}}

Local ==
  \/ Stop \/ Fault
  \/ \E op \in PlainOps : Plain(op)
  \/ \E bytes \in 0 .. WordBytes : Exp(bytes)
  \/ \E price \in SStorePrices : SStore(price)
  \/ \E newAccount \in BOOLEAN : SelfDestruct(newAccount)
  \/ \E offset \in Offsets : MLoad(offset) \/ MStore(offset) \/ MStore8(offset)
  \/ \E offset \in Offsets, length \in Lengths :
       \/ Keccak256(offset, length)
       \/ \E op \in CopyOps : Copy(op, offset, length)
       \/ \E dataOffset \in Offsets : ReturnDataCopy(offset, dataOffset, length)
       \/ \E topics \in 0 .. 4 : Log(offset, length, topics)
       \/ \E op \in HaltOps : Finish(op, offset, length)

Calls ==
  \E in \in Regions :
    \/ \E op \in CreateOps : Create(op, in)
    \/ \E output \in Regions, gasArg \in GasArgs :
         \/ \E value \in {0, 1}, newAccount \in BOOLEAN :
              Call(gasArg, value, newAccount, in, output)
         \/ \E value \in {0, 1} : CallCode(gasArg, value, in, output)
         \/ DelegateCall(gasArg, in, output)
         \/ StaticCall(gasArg, in, output)

Returns ==
  \/ \E used \in 0 .. messageGasLimit, error \in {"none", "REVERT", "OUT_OF_GAS"},
        length \in Lengths : CodeReturns(used, error, length)
  \/ \E p \in Precompiled, length \in Lengths, work \in {0, 1}, valid \in BOOLEAN :
        PrecompileReturns(p, length, work, valid)

Next == Local \/ Calls \/ Returns

Spec == Init /\ [][Next]_vars /\ WF_vars(Next)

-----------------------------------------------------------------------------
(* Properties *)

TypeOK ==
  /\ status \in Ends \cup {"running"}
  /\ gasLimit \in Nat /\ gasLeft \in Nat
  /\ memoryWordCount \in Nat /\ highestMemCost \in Nat
  /\ storeLength \in Nat /\ touched \in Nat /\ returnLength \in Nat
  /\ isStatic \in BOOLEAN /\ wrote \in BOOLEAN /\ childStatic \in BOOLEAN
  /\ calling \in CallOps \cup {"none"}
  /\ messageGasLimit \in Int /\ out \in Nat \X Nat

\* "this should always be safe": while a frame waits for a call, the gas of the call is
\* still there, so that taking what the call used can not fail.
ChildIsPaid == calling # "none" => 0 <= messageGasLimit /\ messageGasLimit <= gasLeft

\* While a frame runs, the memory it has is paid for: the price of all of it, and of
\* nothing that was given back as a stipend, is gone from the gas of the message.
MemoryIsPaid ==
  status = "running" =>
    /\ highestMemCost = MemoryCost(memoryWordCount)
    /\ gasLeft + highestMemCost <= gasLimit

\* No opcode reads or writes beyond the memory the frame was charged for, also not the
\* output of a call that is written when the call is over; and the buffer of the node
\* never outgrows that memory by a whole container.
MemoryIsBounded ==
  /\ touched <= memoryWordCount * WordBytes
  /\ calling # "none" /\ out[2] > 0 => out[1] + out[2] <= memoryWordCount * WordBytes
  /\ storeLength < memoryWordCount * WordBytes + Container

\* A static frame writes nothing, and nothing that it calls may.
StaticWritesNothing == isStatic => ~wrote /\ (calling # "none" => childStatic)

\* Every frame ends, whatever its code: apply waits for it.
FrameEnds == <>(status # "running")
=============================================================================

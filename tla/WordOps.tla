------------------------------ MODULE WordOps -------------------------------
(***************************************************************************)
(* The arithmetic opcodes on words, twice: as the handlers compute them    *)
(* with unbounded integers that they wrap by hand, and what the opcodes    *)
(* mean.  A byte has ByteBits bits and a word has WordBytes bytes, so that *)
(* 31, 32, 255 and 256 in the handlers become WordBytes - 1, WordBytes,    *)
(* Width - 1 and Width.                                                    *)
(***************************************************************************)
EXTENDS Integers, Sequences

CONSTANTS
  ByteBits,  \* bits of a byte (8)
  WordBytes  \* bytes of a word (32)

ASSUME WordAssumption == ByteBits \in Nat \ {0} /\ WordBytes \in Nat \ {0}

\* 2^n
TwoTo[n \in Nat] == IF n = 0 THEN 1 ELSE 2 * TwoTo[n - 1]

Width == ByteBits * WordBytes
TwoPow == TwoTo[Width]
MaxInteger == TwoPow - 1
Words == 0 .. MaxInteger

UnaryOps == {"ISZERO", "NOT"}
BinaryOps == {"ADD", "MUL", "SUB", "DIV", "SDIV", "MOD", "SMOD", "EXP", "SIGNEXTEND",
              "LT", "GT", "SLT", "SGT", "EQ", "AND", "OR", "XOR", "BYTE", "SHL", "SHR", "SAR"}
TernaryOps == {"ADDMOD", "MULMOD"}
WordOpcodes == UnaryOps \cup BinaryOps \cup TernaryOps

Arity(op) == IF op \in UnaryOps THEN 1 ELSE IF op \in BinaryOps THEN 2 ELSE 3

-----------------------------------------------------------------------------
\* Integers of the language: division towards zero, shifts by any amount.

Abs(x) == IF x < 0 THEN -x ELSE x
Sign(x) == IF x < 0 THEN -1 ELSE 1
Quotient(x, y) == Sign(x) * Sign(y) * (Abs(x) \div Abs(y))
Remainder(x, y) == x - y * Quotient(x, y)
ShiftLeft(x, n) == IF n >= 0 THEN x * TwoTo[n] ELSE x \div TwoTo[-n]
ShiftRight(x, n) == ShiftLeft(x, -n)

BitAt(x, i) == (x \div TwoTo[i]) % 2
WordOf(bits) ==
  LET sum[i \in 0 .. Width] == IF i = 0 THEN 0 ELSE sum[i - 1] + bits[i - 1] * TwoTo[i - 1]
  IN sum[Width]
Positions == 0 .. Width - 1
BitAnd(x, y) == WordOf([i \in Positions |-> BitAt(x, i) * BitAt(y, i)])
BitOr(x, y) == WordOf([i \in Positions |->
  IF BitAt(x, i) + BitAt(y, i) > 0 THEN 1 ELSE 0])
BitXor(x, y) == WordOf([i \in Positions |-> (BitAt(x, i) + BitAt(y, i)) % 2])
BitNot(x) == MaxInteger - x

\* util.ts
mod(x, y) == IF Remainder(x, y) < 0 THEN y + Remainder(x, y) ELSE Remainder(x, y)
fromTwos(x) == IF x >= TwoPow \div 2 THEN x - TwoPow ELSE x
\* Slip: a negative result is left as it is.
toTwosSigned(x) == IF x < 0 THEN x ELSE x % TwoPow

toTwos(x) == x % TwoPow

\* bas and exp are the ones of the loop, t what it has multiplied so far.
exponentiation(bas0, exp0) ==
  LET loop[s \in [t : Words, bas : Words, exp : Words]] ==
        IF s.exp = 0 THEN s.t
        ELSE loop[[t |-> IF s.exp % 2 # 0 THEN (s.t * s.bas) % TwoPow ELSE s.t,
                   bas |-> (s.bas * s.bas) % TwoPow,
                   exp |-> s.exp \div 2]]
  IN loop[[t |-> 1, bas |-> bas0, exp |-> exp0]]

-----------------------------------------------------------------------------
\* The handlers.

Truth(condition) == IF condition THEN 1 ELSE 0

Exp(base, exponent) ==
  IF exponent = 0 THEN 1 ELSE IF base = 0 THEN base ELSE exponentiation(base, exponent)

SignExtend(k, val) ==
  LET signBit == k * ByteBits + (ByteBits - 1)
      mask == ShiftLeft(1, signBit) - 1
  IN IF k >= WordBytes - 1 THEN val
     ELSE IF BitAt(val, signBit) = 1 THEN BitOr(val, BitNot(mask))
     ELSE BitAnd(val, mask)

Byte(pos, word) ==
  IF pos > WordBytes THEN 0
  ELSE ShiftRight(word, (WordBytes - 1 - pos) * ByteBits) % TwoTo[ByteBits]

Shl(a, b) == IF a > Width THEN 0 ELSE ShiftLeft(b, a) % TwoPow
Shr(a, b) == IF a > Width THEN 0 ELSE ShiftRight(b, a)

\* Slip: the mask of the sign has one bit too few.
SarShort(a, b) ==
  LET mask == ShiftLeft(ShiftRight(MaxInteger, Width + 1 - a), Width + 1 - a)
  IN IF a > Width THEN IF fromTwos(b) < 0 THEN MaxInteger ELSE 0
     ELSE IF fromTwos(b) < 0 THEN BitOr(ShiftRight(b, a), mask) ELSE ShiftRight(b, a)

Sar(a, b) ==
  LET signed == fromTwos(b) < 0
      shiftedOutWidth == Width - 1 - a
      mask == ShiftLeft(ShiftRight(MaxInteger, shiftedOutWidth), shiftedOutWidth)
  IN IF a > Width THEN IF signed THEN MaxInteger ELSE 0
     ELSE IF signed THEN BitOr(ShiftRight(b, a), mask) ELSE ShiftRight(b, a)

\* a, b, c: the operands, the top of the stack first.
Compute(op, a, b, c) ==
  CASE op = "ADD" -> mod(a + b, TwoPow)
    [] op = "MUL" -> mod(a * b, TwoPow)
    [] op = "SUB" -> mod(a - b, TwoPow)
    [] op = "DIV" -> IF b = 0 THEN 0 ELSE mod(Quotient(a, b), TwoPow)
    [] op = "SDIV" -> IF b = 0 THEN 0 ELSE toTwos(Quotient(fromTwos(a), fromTwos(b)))
    [] op = "MOD" -> IF b = 0 THEN b ELSE mod(a, b)
    [] op = "SMOD" -> IF b = 0 THEN b ELSE toTwos(Remainder(fromTwos(a), fromTwos(b)))
    [] op = "ADDMOD" -> IF c = 0 THEN 0 ELSE mod(a + b, c)
    [] op = "MULMOD" -> IF c = 0 THEN 0 ELSE mod(a * b, c)
    [] op = "EXP" -> Exp(a, b)
    [] op = "SIGNEXTEND" -> SignExtend(a, b)
    [] op = "LT" -> Truth(a < b)
    [] op = "GT" -> Truth(a > b)
    [] op = "SLT" -> Truth(fromTwos(a) < fromTwos(b))
    [] op = "SGT" -> Truth(fromTwos(a) > fromTwos(b))
    [] op = "EQ" -> Truth(a = b)
    [] op = "ISZERO" -> Truth(a = 0)
    [] op = "AND" -> BitAnd(a, b)
    [] op = "OR" -> BitOr(a, b)
    [] op = "XOR" -> BitXor(a, b)
    [] op = "NOT" -> BitNot(a)
    [] op = "BYTE" -> Byte(a, b)
    [] op = "SHL" -> Shl(a, b)
    [] op = "SHR" -> Shr(a, b)
    [] op = "SAR" -> Sar(a, b)

-----------------------------------------------------------------------------
\* What the opcodes mean: words as the signed or unsigned numbers they stand for.

Signed(x) == IF BitAt(x, Width - 1) = 1 THEN x - TwoPow ELSE x
ToWord(x) == x % TwoPow

Power(base, exponent) ==
  LET p[n \in Nat] ==
        IF n = 0 THEN 1
        ELSE LET half == p[n \div 2]
             IN ToWord(ToWord(half * half) * (IF n % 2 = 0 THEN 1 ELSE base))
  IN p[exponent]

\* The number q with x = q * y + r, r smaller than y and of the sign of x.
IsQuotient(q, x, y) == Abs(x - q * y) < Abs(y) /\ (x - q * y) * x >= 0

\* The lowest k + 1 bytes of a word, as a signed number.
Low(k, x) ==
  LET n == TwoTo[(k + 1) * ByteBits]
  IN IF x % n >= n \div 2 THEN (x % n) - n ELSE x % n

\* r is what the opcode gives.
Means(op, a, b, c, r) ==
  CASE op = "ADD" -> r = ToWord(a + b)
    [] op = "MUL" -> r = ToWord(a * b)
    [] op = "SUB" -> r = ToWord(a - b)
    [] op = "DIV" -> IF b = 0 THEN r = 0 ELSE IsQuotient(r, a, b)
    [] op = "SDIV" -> IF b = 0 THEN r = 0 ELSE
         \E q \in -(MaxInteger) .. MaxInteger :
            IsQuotient(q, Signed(a), Signed(b)) /\ r = ToWord(q)
    [] op = "MOD" -> IF b = 0 THEN r = 0 ELSE r < b /\ (a - r) % b = 0
    [] op = "SMOD" -> IF b = 0 THEN r = 0 ELSE
         /\ Abs(Signed(r)) < Abs(Signed(b)) /\ (Signed(a) - Signed(r)) % Abs(Signed(b)) = 0
         /\ Signed(r) * Signed(a) >= 0
    [] op = "ADDMOD" -> IF c = 0 THEN r = 0 ELSE r < c /\ (a + b - r) % c = 0
    [] op = "MULMOD" -> IF c = 0 THEN r = 0 ELSE r < c /\ (a * b - r) % c = 0
    [] op = "EXP" -> r = Power(a, b)
    [] op = "SIGNEXTEND" -> IF a >= WordBytes THEN r = b ELSE r = ToWord(Low(a, b))
    [] op \in {"LT", "GT", "EQ"} ->
         r = Truth(IF op = "LT" THEN a < b ELSE IF op = "GT" THEN b < a ELSE a = b)
    [] op \in {"SLT", "SGT"} ->
         r = Truth(IF op = "SLT" THEN Signed(a) < Signed(b) ELSE Signed(b) < Signed(a))
    [] op = "ISZERO" -> r = Truth(a = 0)
    [] op = "AND" -> \A i \in Positions : BitAt(r, i) = 1 <=> BitAt(a, i) = 1 /\ BitAt(b, i) = 1
    [] op = "OR" -> \A i \in Positions : BitAt(r, i) = 1 <=> BitAt(a, i) = 1 \/ BitAt(b, i) = 1
    [] op = "XOR" -> \A i \in Positions : BitAt(r, i) = 1 <=> BitAt(a, i) # BitAt(b, i)
    [] op = "NOT" -> \A i \in Positions : BitAt(r, i) # BitAt(a, i)
    [] op = "BYTE" -> IF a >= WordBytes THEN r = 0
         ELSE r = (b \div TwoTo[(WordBytes - 1 - a) * ByteBits]) % TwoTo[ByteBits]
    [] op = "SHL" -> \A i \in Positions : BitAt(r, i) = IF i < a THEN 0 ELSE BitAt(b, i - a)
    [] op = "SHR" -> \A i \in Positions :
         BitAt(r, i) = IF i + a >= Width THEN 0 ELSE BitAt(b, i + a)
    [] op = "SAR" -> \A i \in Positions :
         BitAt(r, i) = BitAt(b, IF i + a >= Width THEN Width - 1 ELSE i + a)
=============================================================================

--------------------------- MODULE EvmFrameProofs ---------------------------
(***************************************************************************)
(* A frame pays for its memory and its calls, stays within its memory and, *)
(* if it is static, writes nothing: for any prices, sizes of words and     *)
(* limits of gas that the assumptions of EvmFrame allow.                   *)
(***************************************************************************)
EXTENDS EvmFrame, TLAPS

(* Arithmetic: what divCeil and the price of a memory bound. *)

LEMMA ProductMonotone ==
  ASSUME NEW x \in Nat, NEW y \in Nat, NEW z \in Nat, x <= y
  PROVE  x * z \in Nat /\ x * z <= y * z
OBVIOUS

LEMMA Division ==
  ASSUME NEW x \in Nat, NEW y \in Nat, y > 0
  PROVE  /\ x \div y \in Nat
         /\ x % y \in Nat /\ x % y < y
         /\ x = (x \div y) * y + (x % y)
OBVIOUS

LEMMA DivCeilBounds ==
  ASSUME NEW x \in Nat, NEW y \in Nat, y > 0
  PROVE  /\ divCeil(x, y) \in Nat
         /\ x <= divCeil(x, y) * y
         /\ divCeil(x, y) * y < x + y
<1> DEFINE q == x \div y
           r == x % y
<1>1. q \in Nat /\ r \in Nat /\ r < y /\ x = q * y + r
  BY Division
<1>2. divCeil(x, y) = q + (IF r = 0 THEN 0 ELSE 1)
  BY DEF divCeil
<1>3. (q + 1) * y = q * y + y /\ q * y \in Nat
  BY <1>1
<1> HIDE DEF q, r
<1> QED
  BY <1>1, <1>2, <1>3

LEMMA DivCeilLeast ==
  ASSUME NEW x \in Nat, NEW y \in Nat, y > 0, NEW w \in Nat, x <= w * y
  PROVE  divCeil(x, y) <= w
<1> DEFINE d == divCeil(x, y)
<1>1. d \in Nat /\ d * y < x + y
  BY DivCeilBounds
<1> HIDE DEF d
<1>2. SUFFICES ASSUME w + 1 <= d PROVE FALSE
  BY <1>1 DEF d
<1>3. (w + 1) * y <= d * y
  BY <1>1, <1>2, ProductMonotone
<1>4. (w + 1) * y = w * y + y
  OBVIOUS
<1> QED
  BY <1>1, <1>3, <1>4

LEMMA DivMonotone ==
  ASSUME NEW x \in Nat, NEW z \in Nat, NEW y \in Nat, y > 0, x <= z
  PROVE  x \div y <= z \div y
<1> DEFINE p == x \div y
           q == z \div y
<1>1. p \in Nat /\ p * y <= x
  BY Division
<1>2. q \in Nat /\ z < q * y + y
  BY Division
<1> HIDE DEF p, q
<1>3. SUFFICES ASSUME q + 1 <= p PROVE FALSE
  BY <1>1, <1>2 DEF p, q
<1>4. (q + 1) * y <= p * y
  BY <1>1, <1>2, <1>3, ProductMonotone
<1>5. (q + 1) * y = q * y + y
  BY <1>2
<1> QED
  BY <1>1, <1>2, <1>4, <1>5

LEMMA ParamsAreNat ==
  /\ \A p \in Params : param[p] \in Nat
  /\ \A op \in Opcodes : fee[op] \in Nat
  /\ param["quadCoeffDiv"] \in Nat /\ param["quadCoeffDiv"] > 0
BY PriceAssumption DEF Params

LEMMA MemoryCostIsNat ==
  ASSUME NEW w \in Nat
  PROVE  MemoryCost(w) \in Nat
<1>1. param["memory"] \in Nat
  BY ParamsAreNat DEF Params
<1>2. w * param["memory"] \in Nat /\ w * w \in Nat
  BY <1>1
<1>3. (w * w) \div param["quadCoeffDiv"] \in Nat
  BY <1>2, ParamsAreNat, Division
<1> QED
  BY <1>2, <1>3 DEF MemoryCost

LEMMA MemoryCostMonotone ==
  ASSUME NEW v \in Nat, NEW w \in Nat, v <= w
  PROVE  MemoryCost(v) <= MemoryCost(w)
<1> DEFINE price == param["memory"]
           coeff == param["quadCoeffDiv"]
<1>1. price \in Nat /\ coeff \in Nat /\ coeff > 0
  BY ParamsAreNat DEF Params
<1> HIDE DEF price, coeff
<1>2. v * price \in Nat /\ w * price \in Nat /\ v * price <= w * price
  BY <1>1, ProductMonotone
<1>3. v * v \in Nat /\ w * w \in Nat /\ v * v <= v * w /\ v * w <= w * w
  OBVIOUS
<1>4. (v * v) \div coeff <= (w * w) \div coeff
  <2>1. v * v <= w * w
    BY <1>3
  <2> QED
    BY <1>1, <1>3, <2>1, DivMonotone
<1>5. (v * v) \div coeff \in Nat /\ (w * w) \div coeff \in Nat
  BY <1>1, <1>3, Division
<1> QED
  BY <1>2, <1>4, <1>5 DEF MemoryCost, price, coeff

-----------------------------------------------------------------------------
(* The prices of a call, and what precompiles give back. *)

LEMMA CallGasIsCapped ==
  ASSUME NEW gasArg \in Int, NEW left \in Int, gasArg >= 0 \/ gasArg = left
  PROVE  /\ maxCallGas(gasArg, left) \in Int
         /\ left >= 0 => 0 <= maxCallGas(gasArg, left) /\ maxCallGas(gasArg, left) <= left
         /\ left < 0 => left <= maxCallGas(gasArg, left)
<1> DEFINE q == Quotient(left, Fraction)
<1>1. q \in Int /\ (left >= 0 => 0 <= q /\ q <= left) /\ (left < 0 => q <= 0)
  <2>1. CASE left >= 0
    <3> DEFINE d == left \div Fraction
    <3>1. d \in Nat /\ (left % Fraction) \in Nat /\ left = d * Fraction + (left % Fraction)
      BY <2>1, StipendAssumption, Division
    <3>2. d * Fraction \in Nat /\ d <= d * Fraction
      BY <3>1, StipendAssumption, ProductMonotone
    <3>3. q = d
      BY <2>1 DEF Quotient
    <3> QED
      BY <2>1, <3>1, <3>2, <3>3
  <2>2. CASE left < 0
    <3>1. (-left) \div Fraction \in Nat
      BY <2>2, StipendAssumption, Division
    <3>2. q = -((-left) \div Fraction)
      BY <2>2 DEF Quotient
    <3> QED
      BY <2>2, <3>1, <3>2
  <2> QED
    BY <2>1, <2>2
<1> HIDE DEF q
<1>2. maxCallGas(gasArg, left) = IF gasArg > left - q THEN left - q ELSE gasArg
  BY DEF maxCallGas, q
<1> QED
  BY <1>1, <1>2

LEMMA ValueGasCoversStipend ==
  ASSUME NEW value \in {0, 1}, NEW newAccount \in BOOLEAN
  PROVE  /\ ValueGas(value, newAccount) \in Nat /\ Stipend(value) \in Nat
         /\ Stipend(value) <= ValueGas(value, newAccount)
BY ParamsAreNat, StipendAssumption DEF ValueGas, Stipend, Params

LEMMA PrecompilesUseTheirGas ==
  ASSUME NEW p \in Precompiled, NEW limit \in Nat, NEW length \in Nat, NEW work \in Nat,
         NEW valid \in BOOLEAN
  PROVE  LET r == Run(p, limit, length, work, valid)
         IN r.used \in Nat /\ r.used <= limit /\ r.length \in Nat
<1>1. ASSUME NEW gas \in Nat, NEW ok \in BOOLEAN, NEW answer \in Nat
      PROVE  LET r == Priced(limit, gas, ok, answer)
             IN r.used \in Nat /\ r.used <= limit /\ r.length \in Nat
  BY <1>1 DEF Priced, OOGResult
<1>2. /\ \A q \in Precompiled :
           basePrice[q] \in Nat /\ unitPrice[q] \in Nat /\ answerBytes[q] \in Nat
      /\ \A q \in Precompiled : unitBytes[q] \in Nat /\ unitBytes[q] > 0
  BY PrecompileAssumption
<1>3. ASSUME NEW q \in Precompiled
      PROVE  PerUnit(q, length) \in Nat
  <2>1. length + unitBytes[q] - 1 \in Nat
    BY <1>2
  <2>2. (length + unitBytes[q] - 1) \div unitBytes[q] \in Nat
    BY <1>2, <2>1, Division
  <2>3. basePrice[q] \in Nat /\ unitPrice[q] \in Nat
    BY <1>2
  <2> QED
    BY <2>2, <2>3 DEF PerUnit
<1>4. ASSUME NEW q \in Precompiled, NEW n \in Nat
      PROVE  basePrice[q] + unitPrice[q] * n \in Nat
  BY <1>2
<1>5. length \div unitBytes["ecpairing"] \in Nat
  BY <1>2, Division DEF Precompiled
<1>6. CASE p = "ecrecover"
  BY <1>1, <1>2, <1>6 DEF Run, precompile01, Precompiled
<1>7. CASE p = "sha256"
  BY <1>1, <1>2, <1>3, <1>7 DEF Run, precompile02, Precompiled
<1>8. CASE p = "ripemd160"
  BY <1>1, <1>2, <1>3, <1>8 DEF Run, precompile03, Precompiled
<1>9. CASE p = "identity"
  BY <1>1, <1>2, <1>3, <1>9 DEF Run, precompile04, Precompiled
<1>10. CASE p = "modexp"
  BY <1>1, <1>2, <1>4, <1>10 DEF Run, precompile05, Precompiled
<1>11. CASE p = "ecadd"
  BY <1>1, <1>2, <1>11 DEF Run, precompile06, Precompiled
<1>12. CASE p = "ecmul"
  BY <1>1, <1>2, <1>12 DEF Run, precompile07, Precompiled
<1>13. CASE p = "ecpairing"
  BY <1>1, <1>2, <1>4, <1>5, <1>13 DEF Run, precompile08, Precompiled
<1>14. CASE p = "blake2f"
  <2>1. Run(p, limit, length, work, valid) = precompile09(limit, length, work, valid)
    BY <1>14 DEF Run
  <2>2. CASE length # blakeBytes \/ ~valid
    <3>1. Run(p, limit, length, work, valid) = OutOfRange(limit)
      BY <2>1, <2>2 DEF precompile09
    <3> QED
      BY <3>1 DEF OutOfRange
  <2>3. CASE ~(length # blakeBytes \/ ~valid)
    <3>1. /\ basePrice["blake2f"] + unitPrice["blake2f"] * work \in Nat
          /\ answerBytes["blake2f"] \in Nat
      BY <1>2, <1>4 DEF Precompiled
    <3>2. Run(p, limit, length, work, valid) =
            Priced(limit, basePrice["blake2f"] + unitPrice["blake2f"] * work, TRUE,
                   answerBytes["blake2f"])
      BY <2>1, <2>3 DEF precompile09
    <3> QED
      BY <1>1, <3>1, <3>2
  <2> QED
    BY <2>2, <2>3
<1> QED
  BY <1>6, <1>7, <1>8, <1>9, <1>10, <1>11, <1>12, <1>13, <1>14 DEF Precompiled

-----------------------------------------------------------------------------
(* Memory. *)

\* m is the memory of the frame with more charged for, and m.cost is the price of that.
Good(m) ==
  /\ m.words \in Nat /\ m.highest \in Nat /\ m.cost \in Nat
  /\ memoryWordCount <= m.words
  /\ m.highest = MemoryCost(m.words)
  /\ m.highest <= highestMemCost + m.cost

\* The bytes are in w words.
Within(offset, length, w) == length = 0 \/ offset + length <= w * WordBytes

Counters ==
  /\ gasLimit \in Nat /\ gasLeft \in Nat
  /\ memoryWordCount \in Nat /\ highestMemCost \in Nat
  /\ storeLength \in Nat /\ touched \in Nat /\ returnLength \in Nat
  /\ messageGasLimit \in Nat /\ out \in Nat \X Nat

MemoryPriced ==
  /\ highestMemCost = MemoryCost(memoryWordCount)
  /\ status = "running" => gasLeft + highestMemCost <= gasLimit

BufferFits ==
  /\ touched <= memoryWordCount * WordBytes
  /\ storeLength < memoryWordCount * WordBytes + Container

OutputFits == calling # "none" => Within(out[1], out[2], memoryWordCount)

GasInv == Counters /\ MemoryPriced /\ BufferFits /\ OutputFits /\ ChildIsPaid

LEMMA MemIsGood == Counters /\ MemoryPriced => Good(Mem)
BY DEF Counters, MemoryPriced, Good, Mem

LEMMA SubMemUsage ==
  ASSUME Counters, NEW m, Good(m), NEW offset \in Nat, NEW length \in Nat
  PROVE  /\ Good(subMemUsage(m, offset, length))
         /\ m.words <= subMemUsage(m, offset, length).words
         /\ Within(offset, length, subMemUsage(m, offset, length).words)
<1> DEFINE w == divCeil(offset + length, WordBytes)
           price == MemoryCost(w)
<1>1. w \in Nat /\ offset + length <= w * WordBytes
  <2>1. offset + length \in Nat
    OBVIOUS
  <2> QED
    BY <2>1, SizeAssumption, DivCeilBounds
<1>2. price \in Nat
  BY <1>1, MemoryCostIsNat
<1>3. CASE length = 0 \/ w <= m.words
  <2>1. subMemUsage(m, offset, length) = m
    BY <1>3 DEF subMemUsage
  <2>2. length = 0 \/ w * WordBytes <= m.words * WordBytes
    BY <1>1, <1>3, SizeAssumption, ProductMonotone DEF Good
  <2>3. m.words * WordBytes \in Nat /\ w * WordBytes \in Nat
    BY <1>1, SizeAssumption DEF Good
  <2>4. Within(offset, length, m.words)
    BY <1>1, <2>2, <2>3 DEF Within
  <2> QED
    BY <2>1, <2>4 DEF Good
<1>4. CASE ~(length = 0 \/ w <= m.words)
  <2>1. m.words <= w
    BY <1>1, <1>4 DEF Good
  <2>2. m.highest <= price
    BY <1>1, <2>1, MemoryCostMonotone DEF Good
  <2> DEFINE r == subMemUsage(m, offset, length)
  <2>3. r = IF price > m.highest
            THEN [words |-> w, highest |-> price, cost |-> m.cost + (price - m.highest)]
            ELSE [words |-> w, highest |-> m.highest, cost |-> m.cost + price]
    BY <1>4 DEF subMemUsage
  <2> HIDE DEF w, price, r
  <2>4. /\ r.words = w /\ r.highest = price /\ r.cost \in Nat
        /\ r.highest <= highestMemCost + r.cost
    BY <1>1, <1>2, <2>2, <2>3 DEF Good, Counters
  <2>5. Good(r)
    BY <1>1, <1>2, <2>1, <2>4 DEF Good, Counters, price
  <2>6. Within(offset, length, r.words)
    BY <1>1, <2>4 DEF Within
  <2> QED
    BY <2>1, <2>4, <2>5, <2>6 DEF r
<1> QED
  BY <1>3, <1>4

LEMMA TouchFits ==
  ASSUME Counters, BufferFits, NEW offset \in Nat, NEW size \in Nat, NEW w \in Nat,
         memoryWordCount <= w, Within(offset, size, w), Touch(offset, size)
  PROVE  /\ storeLength' \in Nat /\ touched' \in Nat
         /\ touched' <= w * WordBytes
         /\ storeLength' < w * WordBytes + Container
<1> DEFINE limit == w * WordBytes
           words == divCeil(offset + size, WordBytes)
           need == words * WordBytes
           more == divCeil(need - storeLength, Container)
<1>1. WordBytes \in Nat /\ WordBytes > 0 /\ Container \in Nat /\ Container > 0
  BY SizeAssumption
<1>2. limit \in Nat /\ memoryWordCount * WordBytes \in Nat /\ memoryWordCount * WordBytes <= limit
  BY <1>1, ProductMonotone DEF Counters
<1>3. touched' \in Nat /\ touched' <= limit
  BY <1>2 DEF Touch, Within, Counters, BufferFits
<1>4. words \in Nat /\ need \in Nat
  <2>1. offset + size \in Nat
    OBVIOUS
  <2>2. words \in Nat
    BY <1>1, <2>1, DivCeilBounds
  <2> QED
    BY <1>1, <2>2
<1>5. size = 0 \/ need <= limit
  <2>1. size = 0 \/ words <= w
    BY <1>1, DivCeilLeast DEF Within
  <2> QED
    BY <1>1, <1>4, <2>1, ProductMonotone
<1>6. storeLength' = IF size = 0 \/ need <= storeLength THEN storeLength
                     ELSE storeLength + more * Container
  BY DEF Touch, Extended
<1>7. CASE size = 0 \/ need <= storeLength
  <2>1. storeLength' = storeLength
    BY <1>6, <1>7
  <2> HIDE DEF words, need, more
  <2> QED
    BY <1>1, <1>2, <1>3, <2>1 DEF Counters, BufferFits
<1>8. CASE ~(size = 0 \/ need <= storeLength)
  <2> HIDE DEF need
  <2>1. need - storeLength \in Nat
    BY <1>4, <1>8 DEF Counters
  <2>2. more \in Nat /\ more * Container < (need - storeLength) + Container
    BY <1>1, <2>1, DivCeilBounds
  <2> HIDE DEF more
  <2>3. more * Container \in Nat
    BY <1>1, <2>2
  <2> QED
    BY <1>1, <1>2, <1>3, <1>4, <1>5, <1>6, <1>8, <2>2, <2>3 DEF Counters
<1> QED
  BY <1>7, <1>8

-----------------------------------------------------------------------------
(* Steps keep what is said of gas and memory. *)


LEMMA TrapStep ==
  ASSUME GasInv, NEW error, error # "running", Trap(error)
  PROVE  GasInv'
BY DEF GasInv, Counters, MemoryPriced, BufferFits, OutputFits, ChildIsPaid, Within,
       Trap, End, memory, buffer, call, MemoryCost, Ready

\* What the memory charged for is, after the step.
LEMMA ChargedFits ==
  ASSUME GasInv, NEW m, Good(m), Charged(m)
  PROVE  /\ memoryWordCount' \in Nat /\ highestMemCost' \in Nat
         /\ highestMemCost' = MemoryCost(memoryWordCount')
         /\ memoryWordCount <= memoryWordCount'
         /\ memoryWordCount * WordBytes \in Nat /\ memoryWordCount' * WordBytes \in Nat
         /\ memoryWordCount * WordBytes <= memoryWordCount' * WordBytes
  <1>1. memoryWordCount' = m.words /\ highestMemCost' = m.highest
    BY DEF Charged
  <1>2. memoryWordCount \in Nat /\ WordBytes \in Nat
    BY SizeAssumption DEF GasInv, Counters
  <1> QED
    BY <1>1, <1>2, ProductMonotone DEF Good

LEMMA OutOfGasStep ==
  ASSUME GasInv, NEW m, Good(m), Charged(m), calling = "none",
         gasLeft' = 0, End("OUT_OF_GAS"), UNCHANGED <<buffer, returnLength>>
  PROVE  GasInv'
<1>1. /\ memoryWordCount' \in Nat /\ highestMemCost' \in Nat
      /\ highestMemCost' = MemoryCost(memoryWordCount')
      /\ memoryWordCount * WordBytes \in Nat /\ memoryWordCount' * WordBytes \in Nat
      /\ memoryWordCount * WordBytes <= memoryWordCount' * WordBytes
  BY ChargedFits
<1>2. /\ status' = "OUT_OF_GAS" /\ calling' = "none" /\ gasLimit' = gasLimit
      /\ messageGasLimit' = messageGasLimit /\ out' = out
      /\ storeLength' = storeLength /\ touched' = touched /\ returnLength' = returnLength
  BY DEF End, call, buffer
<1>3. Counters'
  BY <1>1, <1>2 DEF GasInv, Counters
<1>4. MemoryPriced'
  BY <1>1, <1>2 DEF MemoryPriced, MemoryCost
<1>5. BufferFits'
  <2>1. /\ touched \in Nat /\ storeLength \in Nat /\ Container \in Nat
        /\ touched <= memoryWordCount * WordBytes
        /\ storeLength < memoryWordCount * WordBytes + Container
    BY SizeAssumption DEF GasInv, Counters, BufferFits
  <2> DEFINE old == memoryWordCount * WordBytes
             new == memoryWordCount' * WordBytes
  <2>2. old \in Nat /\ new \in Nat /\ old <= new
    BY <1>1
  <2>3. touched <= old /\ storeLength < old + Container
    BY <2>1
  <2> HIDE DEF old, new
  <2>4. touched <= new /\ storeLength < new + Container
    BY <2>1, <2>2, <2>3
  <2> QED
    BY <1>2, <2>4 DEF BufferFits, new
<1>6. OutputFits' /\ ChildIsPaid'
  BY <1>2 DEF OutputFits, ChildIsPaid
<1> QED
  BY <1>3, <1>4, <1>5, <1>6 DEF GasInv

\* A paid step of a frame that runs: what it pays covers the memory and any stipend, and
\* the buffer fits the memory that is charged for.
LEMMA PaidStep ==
  ASSUME GasInv, status = "running", NEW m, Good(m), Charged(m),
         NEW gas \in Nat, NEW stipend \in Nat, m.cost + stipend <= gas,
         gas <= gasLeft + stipend, gasLeft' = gasLeft + stipend - gas,
         gasLimit' = gasLimit, returnLength' \in Nat,
         storeLength' \in Nat, touched' \in Nat,
         touched' <= m.words * WordBytes, storeLength' < m.words * WordBytes + Container,
         messageGasLimit' \in Nat, out' \in Nat \X Nat, OutputFits', ChildIsPaid'
  PROVE  GasInv'
<1>1. /\ memoryWordCount' \in Nat /\ highestMemCost' \in Nat
      /\ highestMemCost' = MemoryCost(memoryWordCount')
      /\ memoryWordCount' = m.words /\ highestMemCost' = m.highest
  BY ChargedFits DEF Charged
<1>2. gasLeft' \in Nat /\ gasLeft' + highestMemCost' <= gasLimit'
  <2>1. gasLeft \in Nat /\ highestMemCost \in Nat /\ gasLimit \in Nat
        /\ gasLeft + highestMemCost <= gasLimit
    BY DEF GasInv, Counters, MemoryPriced
  <2>2. m.highest \in Nat /\ m.cost \in Nat /\ m.highest <= highestMemCost + m.cost
    BY DEF Good
  <2> QED
    BY <1>1, <2>1, <2>2
<1>3. Counters'
  BY <1>1, <1>2 DEF GasInv, Counters
<1>4. MemoryPriced'
  BY <1>1, <1>2 DEF MemoryPriced, MemoryCost
<1>5. BufferFits'
  BY <1>1 DEF BufferFits
<1> QED
  BY <1>3, <1>4, <1>5 DEF GasInv

LEMMA UntouchedFits ==
  ASSUME GasInv, UNCHANGED buffer, NEW w \in Nat, memoryWordCount <= w
  PROVE  /\ storeLength' \in Nat /\ touched' \in Nat
         /\ touched' <= w * WordBytes
         /\ storeLength' < w * WordBytes + Container
<1> DEFINE old == memoryWordCount * WordBytes
           new == w * WordBytes
<1>1. old \in Nat /\ new \in Nat /\ old <= new
  BY SizeAssumption, ProductMonotone DEF GasInv, Counters
<1>2. /\ touched \in Nat /\ storeLength \in Nat /\ Container \in Nat
      /\ touched <= old /\ storeLength < old + Container
  BY SizeAssumption DEF GasInv, Counters, BufferFits
<1>3. storeLength' = storeLength /\ touched' = touched
  BY DEF buffer
<1> HIDE DEF old, new
<1>4. touched <= new /\ storeLength < new + Container
  BY <1>1, <1>2
<1> QED
  BY <1>2, <1>3, <1>4 DEF new

\* What a step makes of the buffer fits w words.
Fitting(w) ==
  /\ storeLength' \in Nat /\ touched' \in Nat
  /\ touched' <= w * WordBytes
  /\ storeLength' < w * WordBytes + Container

LEMMA GoOnStep ==
  ASSUME GasInv, Ready, NEW m, Good(m), NEW gas \in Nat, m.cost <= gas,
         OutOfGas(gas, m) \/ (GoOn(gas, m) /\ Fitting(m.words))
  PROVE  GasInv'
<1>1. CASE OutOfGas(gas, m)
  BY <1>1, OutOfGasStep DEF OutOfGas, Ready
<1>2. CASE GoOn(gas, m) /\ Fitting(m.words)
  <2>1. /\ status = "running" /\ calling = "none" /\ calling' = "none"
        /\ gasLimit' = gasLimit /\ returnLength' = returnLength
        /\ messageGasLimit' = messageGasLimit /\ out' = out
    BY <1>2 DEF GoOn, Ready, call
  <2>2. OutputFits' /\ ChildIsPaid'
    BY <2>1 DEF OutputFits, ChildIsPaid
  <2>3. gas <= gasLeft /\ gasLeft' = gasLeft - gas /\ Charged(m)
    BY <1>2 DEF GoOn, Paid
  <2>4. gasLeft \in Nat /\ m.cost \in Nat
    BY DEF Good, GasInv, Counters
  <2>5. m.cost + 0 <= gas /\ gas <= gasLeft + 0 /\ gasLeft' = gasLeft + 0 - gas
    BY <2>3, <2>4
  <2>6. returnLength' \in Nat /\ messageGasLimit' \in Nat /\ out' \in Nat \X Nat
    BY <2>1 DEF GasInv, Counters
  <2> QED
    BY <1>2, <2>1, <2>2, <2>3, <2>5, <2>6, PaidStep DEF Fitting
<1> QED
  BY <1>1, <1>2

\* An opcode that touches no memory.
LEMMA PlainStep ==
  ASSUME GasInv, Ready, NEW gas \in Nat,
         OutOfGas(gas, Mem) \/ (GoOn(gas, Mem) /\ UNCHANGED buffer)
  PROVE  GasInv'
<1>1. Good(Mem) /\ Mem.cost = 0
  BY MemIsGood DEF GasInv, Mem
<1>2. UNCHANGED buffer => Fitting(Mem.words)
  BY <1>1, UntouchedFits DEF Fitting, Good
<1> QED
  BY <1>1, <1>2, GoOnStep

\* An opcode that touches what it is charged for.
LEMMA AccessStep ==
  ASSUME GasInv, Ready, NEW offset \in Nat, NEW length \in Nat, NEW extra \in Nat,
         LET m == subMemUsage(Mem, offset, length)
             gas == m.cost + extra
         IN OutOfGas(gas, m) \/ (GoOn(gas, m) /\ Touch(offset, length))
  PROVE  GasInv'
<1> DEFINE m == subMemUsage(Mem, offset, length)
           gas == m.cost + extra
<1>1. Good(m) /\ Within(offset, length, m.words)
  BY MemIsGood, SubMemUsage DEF GasInv
<1>2. OutOfGas(gas, m) \/ (GoOn(gas, m) /\ Touch(offset, length))
  OBVIOUS
<1> HIDE DEF m
<1>3. Touch(offset, length) => Fitting(m.words)
  BY <1>1, TouchFits DEF Fitting, Good, GasInv
<1>4. gas \in Nat /\ m.cost <= gas
  BY <1>1 DEF Good
<1> QED
  BY <1>1, <1>2, <1>3, <1>4, GoOnStep

\* An opcode that ends the frame.
LEMMA FinishStep ==
  ASSUME GasInv, Ready, NEW m, Good(m), NEW gas \in Nat, NEW how, how # "running",
         OutOfGas(gas, m) \/
         (Paid(gas, m) /\ Fitting(m.words) /\ End(how) /\ UNCHANGED returnLength)
  PROVE  GasInv'
<1>1. CASE OutOfGas(gas, m)
  BY <1>1, OutOfGasStep DEF OutOfGas, Ready
<1>2. CASE Paid(gas, m) /\ Fitting(m.words) /\ End(how) /\ UNCHANGED returnLength
  <2>1. /\ status' # "running" /\ calling' = "none"
        /\ gasLimit' = gasLimit /\ returnLength' = returnLength
        /\ messageGasLimit' = messageGasLimit /\ out' = out
    BY <1>2 DEF End, Ready, call
  <2>2. OutputFits' /\ ChildIsPaid'
    BY <2>1 DEF OutputFits, ChildIsPaid
  <2>3. gasLeft' \in Nat
    BY <1>2 DEF Paid, GasInv, Counters
  <2>4. /\ memoryWordCount' \in Nat /\ highestMemCost' \in Nat
        /\ highestMemCost' = MemoryCost(memoryWordCount') /\ memoryWordCount' = m.words
    BY <1>2, ChargedFits DEF Paid, Charged
  <2>5. Counters'
    BY <1>2, <2>1, <2>3, <2>4 DEF Counters, GasInv, Fitting
  <2>6. MemoryPriced'
    BY <2>1, <2>4 DEF MemoryPriced, MemoryCost
  <2>7. BufferFits'
    BY <1>2, <2>4 DEF BufferFits, Fitting
  <2> QED
    BY <2>2, <2>5, <2>6, <2>7 DEF GasInv
<1> QED
  BY <1>1, <1>2

\* An opcode that calls: `limit` of what is left after the step goes to the message.
LEMMA SendStep ==
  ASSUME GasInv, Ready, NEW op, NEW m, Good(m), NEW gas \in Nat, NEW stipend \in Nat,
         m.cost + stipend <= gas,
         NEW limit \in Nat, limit <= gasLeft + stipend - gas,
         NEW in \in Nat \X Nat, NEW output \in Nat \X Nat, NEW static, NEW writes,
         Within(in[1], in[2], m.words), Within(output[1], output[2], m.words),
         Send(op, gas, stipend, m, limit, in, output, static, writes)
  PROVE  GasInv'
<1>1. /\ gas <= gasLeft + stipend /\ gasLeft' = gasLeft + stipend - gas /\ Charged(m)
      /\ Touch(in[1], in[2]) /\ returnLength' = 0
      /\ status' = status /\ gasLimit' = gasLimit
      /\ \/ calling' = calling /\ messageGasLimit' = messageGasLimit /\ out' = out
         \/ calling' = op /\ messageGasLimit' = limit /\ out' = output
  BY DEF Send, call
<1>2. Fitting(m.words)
  BY <1>1, TouchFits DEF Fitting, Good, GasInv
<1>3. messageGasLimit' \in Nat /\ out' \in Nat \X Nat
  BY <1>1 DEF GasInv, Counters
<1>4. memoryWordCount' = m.words
  BY <1>1 DEF Charged
<1>5. OutputFits'
  BY <1>1, <1>4 DEF OutputFits, Ready, Within
<1>6. ChildIsPaid'
  BY <1>1 DEF ChildIsPaid, Ready
<1> QED
  BY <1>1, <1>2, <1>3, <1>5, <1>6, PaidStep DEF Fitting, Ready

LEMMA SendOutOfGasStep ==
  ASSUME GasInv, Ready, NEW m, Good(m), NEW gas, NEW stipend, SendOutOfGas(gas, stipend, m)
  PROVE  GasInv'
BY OutOfGasStep DEF SendOutOfGas, Ready

LEMMA CallMemCovers ==
  ASSUME GasInv, NEW in \in Nat \X Nat, NEW output \in Nat \X Nat
  PROVE  /\ Good(CallMem(in, output))
         /\ Within(in[1], in[2], CallMem(in, output).words)
         /\ Within(output[1], output[2], CallMem(in, output).words)
<1> DEFINE m == subMemUsage(Mem, in[1], in[2])
           n == subMemUsage(m, output[1], output[2])
<1>1. Good(m) /\ Within(in[1], in[2], m.words)
  BY MemIsGood, SubMemUsage DEF GasInv
<1> HIDE DEF m
<1>2. Good(n) /\ m.words <= n.words /\ Within(output[1], output[2], n.words)
  BY <1>1, SubMemUsage DEF GasInv
<1> HIDE DEF n
<1>3. m.words * WordBytes \in Nat /\ n.words * WordBytes \in Nat
      /\ m.words * WordBytes <= n.words * WordBytes
  BY <1>1, <1>2, SizeAssumption, ProductMonotone DEF Good
<1>4. Within(in[1], in[2], n.words)
  BY <1>1, <1>3 DEF Within
<1> QED
  BY <1>2, <1>4 DEF CallMem, m, n

LEMMA ReturnStep ==
  ASSUME GasInv, NEW used \in Nat, used <= messageGasLimit, NEW error, NEW length \in Nat,
         ChildReturns(used, error, length)
  PROVE  GasInv'
<1> DEFINE returned == Returned(calling, error, length)
           size == OutputLength(out[2], returned)
<1>1. returned \in Nat
  BY DEF Returned
<1> HIDE DEF returned
<1>2. size \in Nat /\ size <= out[2] /\ out[1] \in Nat /\ out[2] \in Nat
  BY <1>1 DEF OutputLength, GasInv, Counters
<1>3. /\ status = "running" /\ calling # "none"
      /\ calling' = "none" /\ messageGasLimit' = 0 /\ out' = <<0, 0>>
      /\ gasLimit' = gasLimit
      /\ memoryWordCount' = memoryWordCount /\ highestMemCost' = highestMemCost
  BY DEF ChildReturns, NoCall, memory
<1>4. used <= gasLeft
  BY <1>3 DEF GasInv, Counters, ChildIsPaid
<1>5. gasLeft' = gasLeft - used /\ returnLength' = returned /\ Touch(out[1], size)
  BY <1>4 DEF ChildReturns, GasInv, Counters, returned
<1>6. Within(out[1], size, memoryWordCount)
  <2>1. Within(out[1], out[2], memoryWordCount)
    BY <1>3 DEF GasInv, OutputFits
  <2>2. memoryWordCount * WordBytes \in Nat
    BY SizeAssumption DEF GasInv, Counters
  <2> HIDE DEF size
  <2> QED
    BY <1>2, <2>1, <2>2 DEF Within
<1> HIDE DEF size
<1>7. Fitting(memoryWordCount)
  BY <1>2, <1>5, <1>6, TouchFits DEF Fitting, GasInv, Counters
<1>8. Good(Mem) /\ Mem.cost = 0 /\ Charged(Mem) /\ Mem.words = memoryWordCount
  BY <1>3, MemIsGood DEF GasInv, Charged, Mem
<1>9. OutputFits' /\ ChildIsPaid'
  BY <1>3 DEF OutputFits, ChildIsPaid
<1>10. gasLeft' = gasLeft + 0 - used /\ used <= gasLeft + 0 /\ Mem.cost + 0 <= used
  BY <1>4, <1>5, <1>8 DEF GasInv, Counters
<1> QED
  BY <1>1, <1>3, <1>5, <1>7, <1>8, <1>9, <1>10, PaidStep DEF Fitting

-----------------------------------------------------------------------------
(* Every action keeps what is said of gas and memory. *)

LEMMA GasInit == Init => GasInv
<1> SUFFICES ASSUME Init PROVE GasInv
  OBVIOUS
<1>1. Counters
  BY SizeAssumption DEF Init, Counters
<1>2. MemoryCost(0) = 0
  <2>1. param["memory"] \in Nat /\ param["quadCoeffDiv"] \in Nat /\ param["quadCoeffDiv"] > 0
    BY ParamsAreNat DEF Params
  <2>2. 0 \div param["quadCoeffDiv"] = 0
    BY <2>1
  <2> QED
    BY <2>1, <2>2 DEF MemoryCost
<1>3. MemoryPriced
  BY <1>1, <1>2 DEF Init, MemoryPriced, Counters
<1>4. BufferFits
  <2>1. 0 * WordBytes = 0
    BY SizeAssumption
  <2> QED
    BY <2>1, SizeAssumption DEF Init, BufferFits
<1> QED
  BY <1>1, <1>3, <1>4 DEF Init, GasInv, OutputFits, ChildIsPaid

LEMMA FeesAreNat ==
  /\ \A op \in Opcodes : fee[op] \in Nat
  /\ \A length \in Nat : divCeil(length, WordBytes) \in Nat
BY ParamsAreNat, SizeAssumption, DivCeilBounds

LEMMA PlainGas == ASSUME GasInv, NEW op \in PlainOps, Plain(op) PROVE GasInv'
<1>1. fee[op] \in Nat
  BY FeesAreNat DEF Opcodes
<1> QED
  BY <1>1, PlainStep DEF Plain

LEMMA ExpGas == ASSUME GasInv, NEW bytes \in Nat, Exp(bytes) PROVE GasInv'
<1>1. fee["EXP"] + bytes * param["expByte"] \in Nat
  BY FeesAreNat, ParamsAreNat DEF Opcodes, Params
<1> QED
  BY <1>1, PlainStep DEF Exp

LEMMA SStoreGas == ASSUME GasInv, NEW price \in Nat, SStore(price) PROVE GasInv'
<1>1. fee["SSTORE"] + price \in Nat
  BY FeesAreNat DEF Opcodes
<1>2. CASE Trap("STATIC_STATE_CHANGE") \/ Trap("OUT_OF_GAS")
  BY <1>2, TrapStep
<1>3. CASE Ready /\ (OutOfGas(fee["SSTORE"] + price, Mem)
                      \/ (GoOn(fee["SSTORE"] + price, Mem) /\ UNCHANGED buffer))
  BY <1>1, <1>3, PlainStep
<1> QED
  BY <1>2, <1>3 DEF SStore

LEMMA SelfDestructGasStep ==
  ASSUME GasInv, NEW newAccount \in BOOLEAN, SelfDestruct(newAccount) PROVE GasInv'
<1> DEFINE gas == SelfDestructGas(newAccount)
<1>1. gas \in Nat
  BY FeesAreNat, ParamsAreNat DEF SelfDestructGas, Opcodes, Params
<1> HIDE DEF gas
<1>2. Good(Mem) /\ (UNCHANGED buffer => Fitting(Mem.words))
  BY MemIsGood, UntouchedFits DEF GasInv, Fitting, Good
<1>3. CASE Trap("STATIC_STATE_CHANGE")
  BY <1>3, TrapStep
<1>4. CASE Ready /\ (OutOfGas(gas, Mem)
                      \/ (Paid(gas, Mem) /\ End("STOP") /\ UNCHANGED <<buffer, returnLength>>))
  BY <1>1, <1>2, <1>4, FinishStep
<1> QED
  BY <1>3, <1>4 DEF SelfDestruct, gas

LEMMA AccessGas ==
  ASSUME GasInv, NEW op \in Opcodes, NEW offset \in Nat, NEW length \in Nat,
         NEW extra \in Nat, Access(op, offset, length, extra)
  PROVE  GasInv'
<1> DEFINE m == subMemUsage(Mem, offset, length)
<1>1. fee[op] \in Nat
  BY FeesAreNat
<1>2. m.cost \in Nat
  BY MemIsGood, SubMemUsage DEF GasInv, Good
<1> HIDE DEF m
<1>3. fee[op] + extra \in Nat /\ fee[op] + m.cost + extra = m.cost + (fee[op] + extra)
  BY <1>1, <1>2
<1>4. Ready /\ (OutOfGas(fee[op] + m.cost + extra, m)
                 \/ (GoOn(fee[op] + m.cost + extra, m) /\ Touch(offset, length)))
  BY DEF Access, m
<1>5. OutOfGas(m.cost + (fee[op] + extra), m)
        \/ (GoOn(m.cost + (fee[op] + extra), m) /\ Touch(offset, length))
  BY <1>3, <1>4
<1> QED
  BY <1>3, <1>4, <1>5, AccessStep DEF m

LEMMA CopyingGas ==
  ASSUME GasInv, NEW offset \in Nat, NEW length \in Nat
  PROVE  /\ Keccak256(offset, length) => GasInv'
         /\ \A op \in CopyOps : Copy(op, offset, length) => GasInv'
         /\ \A dataOffset \in Nat : ReturnDataCopy(offset, dataOffset, length) => GasInv'
<1>1. /\ param["keccak256Word"] * divCeil(length, WordBytes) \in Nat
      /\ param["copy"] * divCeil(length, WordBytes) \in Nat
  <2>1. param["keccak256Word"] \in Nat /\ param["copy"] \in Nat
        /\ divCeil(length, WordBytes) \in Nat
    BY ParamsAreNat, FeesAreNat DEF Params
  <2> QED
    BY <2>1
<1>2. CopyOps \cup {"KECCAK256", "RETURNDATACOPY"} \subseteq Opcodes
  BY DEF Opcodes
<1>3. ASSUME NEW dataOffset \in Nat, ReturnDataCopy(offset, dataOffset, length) PROVE GasInv'
  <2>1. CASE Trap("OUT_OF_GAS")
    BY <2>1, TrapStep
  <2>2. CASE Access("RETURNDATACOPY", offset, length, param["copy"] * divCeil(length, WordBytes))
    BY <1>1, <1>2, <2>2, AccessGas
  <2> QED
    BY <1>3, <2>1, <2>2 DEF ReturnDataCopy
<1> QED
  BY <1>1, <1>2, <1>3, AccessGas DEF Keccak256, Copy

LEMMA WordAccessGas ==
  ASSUME GasInv, NEW offset \in Nat, MLoad(offset) \/ MStore(offset) \/ MStore8(offset)
  PROVE  GasInv'
<1>1. {"MLOAD", "MSTORE", "MSTORE8"} \subseteq Opcodes
  BY DEF Opcodes
<1> QED
  BY <1>1, SizeAssumption, AccessGas DEF MLoad, MStore, MStore8

LEMMA LogStep ==
  ASSUME GasInv, NEW offset \in Nat, NEW length \in Nat, NEW topics \in Nat,
         Log(offset, length, topics)
  PROVE  GasInv'
<1> DEFINE m == subMemUsage(Mem, offset, length)
           extra == fee["LOG"] + param["logTopic"] * topics + param["logData"] * length
<1>1. m.cost \in Nat
  BY MemIsGood, SubMemUsage DEF GasInv, Good
<1>2. param["logTopic"] * topics \in Nat /\ param["logData"] * length \in Nat
      /\ fee["LOG"] \in Nat
  BY ParamsAreNat DEF Params, Opcodes
<1>3. extra \in Nat
  BY <1>2
<1> HIDE DEF m
<1>4. LogGas(m, length, topics) = m.cost + extra
  BY <1>1, <1>2 DEF LogGas
<1> HIDE DEF extra
<1>5. CASE Trap("STATIC_STATE_CHANGE")
  BY <1>5, TrapStep
<1>6. CASE Ready /\ (OutOfGas(m.cost + extra, m)
                      \/ (GoOn(m.cost + extra, m) /\ Touch(offset, length)))
  BY <1>3, <1>6, AccessStep DEF m
<1> QED
  BY <1>4, <1>5, <1>6 DEF Log, m

LEMMA FinishGas ==
  ASSUME GasInv, NEW op \in HaltOps, NEW offset \in Nat, NEW length \in Nat,
         Finish(op, offset, length)
  PROVE  GasInv'
<1> DEFINE m == subMemUsage(Mem, offset, length)
           gas == fee[op] + m.cost
           how == IF op = "REVERT" THEN "REVERT" ELSE "STOP"
<1>1. Good(m) /\ Within(offset, length, m.words)
  BY MemIsGood, SubMemUsage DEF GasInv
<1>2. fee[op] \in Nat
  BY FeesAreNat DEF Opcodes
<1>3. how # "running"
  OBVIOUS
<1>4. Ready /\ (OutOfGas(gas, m) \/ (Paid(gas, m) /\ Touch(offset, length) /\ End(how)
                                      /\ UNCHANGED returnLength))
  BY DEF Finish
<1> HIDE DEF m, how
<1>5. gas \in Nat
  BY <1>1, <1>2 DEF Good
<1>6. Touch(offset, length) => Fitting(m.words)
  BY <1>1, TouchFits DEF Fitting, Good, GasInv
<1> HIDE DEF gas
<1> QED
  BY <1>1, <1>3, <1>4, <1>5, <1>6, FinishStep

LEMMA CreateGas ==
  ASSUME GasInv, NEW op \in CreateOps, NEW in \in Nat \X Nat, Create(op, in)
  PROVE  GasInv'
<1> DEFINE m == subMemUsage(Mem, in[1], in[2])
           gas == fee[op] + m.cost + HashGas(op, in[2])
           limit == maxCallGas(gasLeft - gas, gasLeft - gas)
<1>1. Good(m) /\ Within(in[1], in[2], m.words)
  BY MemIsGood, SubMemUsage DEF GasInv
<1>2. fee[op] \in Nat
  BY FeesAreNat DEF Opcodes, CallOps
<1>3. HashGas(op, in[2]) \in Nat
  <2>1. param["keccak256Word"] \in Nat /\ divCeil(in[2], WordBytes) \in Nat
    BY ParamsAreNat, FeesAreNat DEF Params
  <2> QED
    BY <2>1 DEF HashGas
<1>4. \/ Trap("STATIC_STATE_CHANGE")
      \/ Ready /\ SendOutOfGas(gas, 0, m)
      \/ Ready /\ Send(op, gas, 0, m, limit, in, <<0, 0>>, FALSE, TRUE)
  BY DEF Create, SendCreate
<1> HIDE DEF m
<1>5. gas \in Nat /\ m.cost + 0 <= gas
  BY <1>1, <1>2, <1>3 DEF Good
<1> HIDE DEF gas
<1>6. gas <= gasLeft => limit \in Nat /\ limit <= gasLeft + 0 - gas
  <2> DEFINE left == gasLeft - gas
  <2>1. left \in Int /\ gasLeft \in Nat
    BY <1>5 DEF GasInv, Counters
  <2> HIDE DEF left
  <2>2. /\ maxCallGas(left, left) \in Int
        /\ left >= 0 => 0 <= maxCallGas(left, left) /\ maxCallGas(left, left) <= left
    BY <2>1, CallGasIsCapped
  <2>3. limit = maxCallGas(left, left)
    BY DEF left
  <2> HIDE DEF limit
  <2> QED
    BY <1>5, <2>1, <2>2, <2>3 DEF left
<1> HIDE DEF limit
<1>7. Within(0, 0, m.words)
  BY DEF Within
<1>8. CASE Trap("STATIC_STATE_CHANGE")
  BY <1>8, TrapStep
<1>9. CASE Ready /\ SendOutOfGas(gas, 0, m)
  BY <1>1, <1>9, SendOutOfGasStep
<1>10. CASE Ready /\ Send(op, gas, 0, m, limit, in, <<0, 0>>, FALSE, TRUE)
  <2>1. gas <= gasLeft
    BY <1>10 DEF Send, GasInv, Counters
  <2>2. limit \in Nat /\ limit <= gasLeft + 0 - gas
    BY <1>6, <2>1
  <2> DEFINE none == <<0, 0>>
  <2>3. none \in Nat \X Nat /\ Within(none[1], none[2], m.words)
    BY <1>7
  <2>4. Send(op, gas, 0, m, limit, in, none, FALSE, TRUE)
    BY <1>10
  <2> HIDE DEF none
  <2> QED
    BY <1>1, <1>5, <1>10, <2>2, <2>3, <2>4, SendStep
<1> QED
  BY <1>4, <1>8, <1>9, <1>10

\* What the four opcodes give to their message, of what they leave.
LEMMA MessageCap ==
  ASSUME GasInv, NEW gasArg \in Nat, NEW gas \in Nat
  PROVE  LET limit == maxCallGas(gasArg, gasLeft - gas)
         IN /\ limit \in Int
            /\ gas <= gasLeft => 0 <= limit /\ limit <= gasLeft - gas
            /\ gasLeft < gas => gasLeft - gas <= limit
<1> DEFINE left == gasLeft - gas
           limit == maxCallGas(gasArg, left)
<1>1. left \in Int /\ gasLeft \in Nat
  BY DEF GasInv, Counters
<1> HIDE DEF left
<1>2. /\ limit \in Int
      /\ left >= 0 => 0 <= limit /\ limit <= left
      /\ left < 0 => left <= limit
  <2>1. gasArg \in Int /\ gasArg >= 0
    OBVIOUS
  <2> QED
    BY <1>1, <2>1, CallGasIsCapped
<1> HIDE DEF limit
<1>3. /\ limit \in Int
      /\ gas <= gasLeft => 0 <= limit /\ limit <= gasLeft - gas
      /\ gasLeft < gas => gasLeft - gas <= limit
  BY <1>1, <1>2 DEF left
<1> QED
  BY <1>3 DEF limit, left

\* Their step.  A step that is paid out of the stipend leaves its message the stipend at most.
LEMMA MessageGas ==
  ASSUME GasInv, Ready, NEW op, NEW gasArg \in Nat, NEW gas \in Nat, NEW stipend \in Nat,
         NEW in \in Nat \X Nat, NEW output \in Nat \X Nat, NEW limit, NEW sent,
         NEW static, NEW writes,
         CallMem(in, output).cost + stipend <= gas,
         limit = maxCallGas(gasArg, gasLeft - gas), sent = limit + stipend,
         SendOutOfGas(gas, stipend, CallMem(in, output))
           \/ ((gasLeft < gas => limit <= gasLeft - gas)
                 /\ Send(op, gas, stipend, CallMem(in, output), sent, in, output, static, writes))
  PROVE  GasInv'
<1> DEFINE m == CallMem(in, output)
<1>1. Good(m) /\ Within(in[1], in[2], m.words) /\ Within(output[1], output[2], m.words)
  BY CallMemCovers
<1>2. /\ limit \in Int
      /\ gas <= gasLeft => 0 <= limit /\ limit <= gasLeft - gas
      /\ gasLeft < gas => gasLeft - gas <= limit
  BY MessageCap
<1>3. gasLeft \in Nat
  BY DEF GasInv, Counters
<1>4. CASE SendOutOfGas(gas, stipend, m)
  BY <1>1, <1>4, SendOutOfGasStep
<1>5. CASE (gasLeft < gas => limit <= gasLeft - gas)
             /\ Send(op, gas, stipend, m, sent, in, output, static, writes)
  <2>1. gas <= gasLeft + stipend
    BY <1>5 DEF Send
  <2>2. sent \in Nat /\ sent <= gasLeft + stipend - gas
    BY <1>2, <1>3, <1>5, <2>1
  <2> HIDE DEF m
  <2> QED
    BY <1>1, <1>5, <2>2, SendStep DEF m
<1> QED
  BY <1>4, <1>5

\* What a step costs covers its memory and its stipend.
LEMMA CallPrice ==
  ASSUME GasInv, NEW op \in MessageOps, NEW in \in Nat \X Nat, NEW output \in Nat \X Nat,
         NEW price \in Nat, NEW stipend \in Nat, stipend <= price
  PROVE  LET m == CallMem(in, output)
         IN /\ fee[op] + m.cost \in Nat /\ m.cost + 0 <= fee[op] + m.cost
            /\ fee[op] + m.cost + price \in Nat
            /\ m.cost + stipend <= fee[op] + m.cost + price
<1>1. fee[op] \in Nat
  BY FeesAreNat DEF Opcodes, CallOps
<1>2. CallMem(in, output).cost \in Nat
  BY CallMemCovers DEF Good
<1> QED
  BY <1>1, <1>2

LEMMA CallGas ==
  ASSUME GasInv, NEW gasArg \in Nat, NEW value \in {0, 1}, NEW newAccount \in BOOLEAN,
         NEW in \in Nat \X Nat, NEW output \in Nat \X Nat,
         Call(gasArg, value, newAccount, in, output)
  PROVE  GasInv'
<1> DEFINE m == CallMem(in, output)
           gas == fee["CALL"] + m.cost + ValueGas(value, newAccount)
           limit == maxCallGas(gasArg, gasLeft - gas)
           sent == limit + Stipend(value)
<1>1. gas \in Nat /\ m.cost + Stipend(value) <= gas /\ Stipend(value) \in Nat
  BY CallPrice, ValueGasCoversStipend DEF MessageOps
<1>2. CASE Trap("STATIC_STATE_CHANGE") \/ Trap("OUT_OF_GAS")
  BY <1>2, TrapStep
<1>3. CASE Ready /\ gas <= gasLeft
             /\ Send("CALL", gas, Stipend(value), m, sent, in, output, isStatic, value # 0)
  <2> HIDE DEF gas, sent, limit
  <2>1. ~(gasLeft < gas)
    BY <1>1, <1>3 DEF GasInv, Counters
  <2> QED
    BY <1>1, <1>3, <2>1, MessageGas DEF sent, limit
<1> QED
  BY <1>2, <1>3 DEF Call

LEMMA CallCodeGas ==
  ASSUME GasInv, NEW gasArg \in Nat, NEW value \in {0, 1},
         NEW in \in Nat \X Nat, NEW output \in Nat \X Nat,
         CallCode(gasArg, value, in, output)
  PROVE  GasInv'
<1> DEFINE m == CallMem(in, output)
           gas == fee["CALLCODE"] + m.cost + ValueGas(value, FALSE)
           limit == maxCallGas(gasArg, gasLeft - gas)
           sent == limit + Stipend(value)
<1>1. gas \in Nat /\ m.cost + Stipend(value) <= gas /\ Stipend(value) \in Nat
  BY CallPrice, ValueGasCoversStipend DEF MessageOps
<1>2. CASE Trap("OUT_OF_GAS")
  BY <1>2, TrapStep
<1>3. CASE /\ Ready /\ limit <= gasLeft - gas
           /\ \/ SendOutOfGas(gas, Stipend(value), m)
              \/ Send("CALLCODE", gas, Stipend(value), m, sent, in, output, isStatic, FALSE)
  <2> HIDE DEF gas, sent, limit
  <2> QED
    BY <1>1, <1>3, MessageGas DEF sent, limit
<1> QED
  BY <1>2, <1>3 DEF CallCode

LEMMA DelegateCallGas ==
  ASSUME GasInv, NEW gasArg \in Nat, NEW in \in Nat \X Nat, NEW output \in Nat \X Nat,
         DelegateCall(gasArg, in, output)
  PROVE  GasInv'
<1> DEFINE m == CallMem(in, output)
           gas == fee["DELEGATECALL"] + m.cost
           limit == maxCallGas(gasArg, gasLeft - gas)
<1>1. gas \in Nat /\ m.cost + 0 <= gas
  BY CallPrice DEF MessageOps
<1>2. CASE Trap("OUT_OF_GAS")
  BY <1>2, TrapStep
<1>3. CASE /\ Ready /\ limit <= gasLeft - gas
           /\ \/ SendOutOfGas(gas, 0, m)
              \/ Send("DELEGATECALL", gas, 0, m, limit, in, output, isStatic, FALSE)
  <2> HIDE DEF gas
  <2>1. limit \in Int
    BY <1>1, MessageCap
  <2> HIDE DEF limit
  <2>2. limit = limit + 0
    BY <2>1
  <2> QED
    BY <1>1, <1>3, <2>2, MessageGas DEF limit
<1> QED
  BY <1>2, <1>3 DEF DelegateCall

LEMMA StaticCallGas ==
  ASSUME GasInv, NEW gasArg \in Nat, NEW in \in Nat \X Nat, NEW output \in Nat \X Nat,
         StaticCall(gasArg, in, output)
  PROVE  GasInv'
<1> DEFINE m == CallMem(in, output)
           gas == fee["STATICCALL"] + m.cost
           limit == maxCallGas(gasArg, gasLeft - gas)
<1>1. gas \in Nat /\ m.cost + 0 <= gas
  BY CallPrice DEF MessageOps
<1>2. Ready /\ \/ SendOutOfGas(gas, 0, m)
               \/ Send("STATICCALL", gas, 0, m, limit, in, output, TRUE, FALSE)
  BY DEF StaticCall
<1> HIDE DEF gas
<1>3. limit \in Int /\ gasLeft \in Nat
  BY <1>1, MessageCap DEF GasInv, Counters
<1> HIDE DEF limit, m
<1>4. limit = limit + 0
  BY <1>3
<1>5. Send("STATICCALL", gas, 0, m, limit, in, output, TRUE, FALSE) => ~(gasLeft < gas)
  BY <1>1, <1>3 DEF Send
<1> QED
  BY <1>1, <1>2, <1>4, <1>5, MessageGas DEF limit, m

LEMMA GasNext == GasInv /\ [Next]_vars => GasInv'
<1> SUFFICES ASSUME GasInv, [Next]_vars PROVE GasInv'
  OBVIOUS
<1>1. \A region \in Regions : region \in Nat \X Nat
  BY SizeAssumption DEF Regions
<1>2. CASE Local
  <2>1. CASE Stop \/ Fault
    BY <2>1, TrapStep DEF Stop, Fault, Errors
  <2>2. ASSUME NEW op \in PlainOps, Plain(op) PROVE GasInv'
    BY <2>2, PlainGas
  <2>3. ASSUME NEW bytes \in 0 .. WordBytes, Exp(bytes) PROVE GasInv'
    BY <2>3, ExpGas
  <2>4. ASSUME NEW price \in SStorePrices, SStore(price) PROVE GasInv'
    <3>1. price \in Nat
      BY ParamsAreNat DEF SStorePrices, Params
    <3> QED
      BY <2>4, <3>1, SStoreGas
  <2>5. ASSUME NEW newAccount \in BOOLEAN, SelfDestruct(newAccount) PROVE GasInv'
    BY <2>5, SelfDestructGasStep
  <2>6. ASSUME NEW offset \in Offsets, MLoad(offset) \/ MStore(offset) \/ MStore8(offset)
        PROVE  GasInv'
    BY <2>6, SizeAssumption, WordAccessGas
  <2>7. ASSUME NEW offset \in Offsets, NEW length \in Lengths,
               \/ Keccak256(offset, length)
               \/ \E op \in CopyOps : Copy(op, offset, length)
               \/ \E dataOffset \in Offsets : ReturnDataCopy(offset, dataOffset, length)
        PROVE  GasInv'
    BY <2>7, SizeAssumption, CopyingGas
  <2>8. ASSUME NEW offset \in Offsets, NEW length \in Lengths, NEW topics \in 0 .. 4,
               Log(offset, length, topics)
        PROVE  GasInv'
    BY <2>8, SizeAssumption, LogStep
  <2>9. ASSUME NEW offset \in Offsets, NEW length \in Lengths, NEW op \in HaltOps,
               Finish(op, offset, length)
        PROVE  GasInv'
    BY <2>9, SizeAssumption, FinishGas
  <2> QED
    BY <1>2, <2>1, <2>2, <2>3, <2>4, <2>5, <2>6, <2>7, <2>8, <2>9 DEF Local
<1>3. CASE Calls
  <2>1. ASSUME NEW in \in Regions, NEW op \in CreateOps, Create(op, in) PROVE GasInv'
    BY <1>1, <2>1, CreateGas
  <2>2. ASSUME NEW in \in Regions, NEW output \in Regions, NEW gasArg \in GasArgs,
               \/ \E value \in {0, 1}, newAccount \in BOOLEAN :
                    Call(gasArg, value, newAccount, in, output)
               \/ \E value \in {0, 1} : CallCode(gasArg, value, in, output)
               \/ DelegateCall(gasArg, in, output)
               \/ StaticCall(gasArg, in, output)
        PROVE  GasInv'
    <3>1. in \in Nat \X Nat /\ output \in Nat \X Nat /\ gasArg \in Nat
      BY <1>1, SizeAssumption
    <3> QED
      BY <2>2, <3>1, CallGas, CallCodeGas, DelegateCallGas, StaticCallGas
  <2> QED
    BY <1>3, <2>1, <2>2 DEF Calls
<1>4. CASE Returns
  <2>1. ASSUME NEW used \in 0 .. messageGasLimit, NEW error, NEW length \in Lengths,
               CodeReturns(used, error, length)
        PROVE  GasInv'
    <3>1. used \in Nat /\ used <= messageGasLimit /\ length \in Nat
      BY SizeAssumption DEF GasInv, Counters
    <3> QED
      BY <2>1, <3>1, ReturnStep DEF CodeReturns
  <2>2. ASSUME NEW p \in Precompiled, NEW length \in Lengths, NEW work \in {0, 1},
               NEW valid \in BOOLEAN, PrecompileReturns(p, length, work, valid)
        PROVE  GasInv'
    <3> DEFINE r == Run(p, messageGasLimit, length, work, valid)
    <3>1. r.used \in Nat /\ r.used <= messageGasLimit /\ r.length \in Nat
      BY SizeAssumption, PrecompilesUseTheirGas DEF GasInv, Counters
    <3>2. ChildReturns(r.used, r.error, r.length)
      BY <2>2 DEF PrecompileReturns
    <3> HIDE DEF r
    <3> QED
      BY <3>1, <3>2, ReturnStep
  <2> QED
    BY <1>4, <2>1, <2>2 DEF Returns
<1>5. CASE UNCHANGED vars
  BY <1>5 DEF vars, memory, buffer, call, GasInv, Counters, MemoryPriced, BufferFits,
     OutputFits, ChildIsPaid, Within, MemoryCost
<1> QED
  BY <1>2, <1>3, <1>4, <1>5 DEF Next

-----------------------------------------------------------------------------
(* How a frame ends, and what a static one may do. *)

ShapeInv ==
  /\ status \in Ends \cup {"running"}
  /\ calling \in CallOps \cup {"none"}
  /\ isStatic \in BOOLEAN /\ wrote \in BOOLEAN /\ childStatic \in BOOLEAN
  /\ StaticWritesNothing

\* A step that makes no call, and writes only if the frame is not static.
LEMMA ShapeStep ==
  ASSUME ShapeInv, status' \in Ends \cup {"running"}, isStatic' = isStatic,
         wrote' = wrote \/ (~isStatic /\ wrote' = TRUE),
         calling' = calling /\ childStatic' = childStatic
  PROVE  ShapeInv'
<1>1. /\ isStatic \in BOOLEAN /\ wrote \in BOOLEAN /\ childStatic \in BOOLEAN
      /\ calling \in CallOps \cup {"none"} /\ StaticWritesNothing
  BY DEF ShapeInv
<1>2. CASE wrote' = wrote
  BY <1>1, <1>2 DEF ShapeInv, StaticWritesNothing
<1>3. CASE ~isStatic /\ wrote' = TRUE
  BY <1>1, <1>3 DEF ShapeInv, StaticWritesNothing
<1> QED
  BY <1>2, <1>3

LEMMA ShapeTrap ==
  ASSUME ShapeInv, NEW error \in Ends, Trap(error)
  PROVE  ShapeInv'
BY ShapeStep DEF Trap, End, call

LEMMA ShapeOutOfGas ==
  ASSUME ShapeInv, NEW gas, NEW m, OutOfGas(gas, m)
  PROVE  ShapeInv'
BY ShapeStep DEF OutOfGas, End, call, Ends, Errors

LEMMA ShapeGoOn ==
  ASSUME ShapeInv, NEW gas, NEW m, GoOn(gas, m),
         wrote' = wrote \/ (~isStatic /\ wrote' = TRUE)
  PROVE  ShapeInv'
<1>1. /\ status' = status /\ isStatic' = isStatic
      /\ calling' = calling /\ childStatic' = childStatic
  BY DEF GoOn, call
<1> QED
  BY <1>1, ShapeStep DEF ShapeInv

LEMMA ShapeEnd ==
  ASSUME ShapeInv, NEW how \in Ends, End(how),
         wrote' = wrote \/ (~isStatic /\ wrote' = TRUE)
  PROVE  ShapeInv'
BY ShapeStep DEF End, call

\* A call: a static frame makes static ones, and writes nothing by making them.
LEMMA ShapeSend ==
  ASSUME ShapeInv, NEW op \in CallOps, NEW gas, NEW stipend, NEW m, NEW limit, NEW in,
         NEW output, NEW static \in BOOLEAN, NEW writes \in BOOLEAN,
         isStatic => static /\ ~writes,
         Send(op, gas, stipend, m, limit, in, output, static, writes)
  PROVE  ShapeInv'
<1>1. /\ status' = status /\ isStatic' = isStatic
      /\ \/ calling' = calling /\ childStatic' = childStatic /\ wrote' = wrote
         \/ calling' = op /\ childStatic' = static /\ wrote' = (wrote \/ writes)
  BY DEF Send, call
<1> QED
  BY <1>1 DEF ShapeInv, StaticWritesNothing

LEMMA ShapeReturn ==
  ASSUME ShapeInv, NEW used, NEW error, NEW length, ChildReturns(used, error, length)
  PROVE  ShapeInv'
<1>1. /\ calling # "none" /\ calling' = "none" /\ childStatic' = FALSE
      /\ isStatic' = isStatic
      /\ status' = status \/ status' = "OUT_OF_GAS"
      /\ wrote' \in {wrote, wrote \/ ChildWrote(error)}
  BY DEF ChildReturns, NoCall
<1>2. ChildWrote(error) \in BOOLEAN /\ (isStatic => ~ChildWrote(error))
  BY <1>1 DEF ChildWrote, ShapeInv, StaticWritesNothing
<1> QED
  BY <1>1, <1>2 DEF ShapeInv, StaticWritesNothing, Ends, Errors

LEMMA ShapeNext == ShapeInv /\ [Next]_vars => ShapeInv'
<1> SUFFICES ASSUME ShapeInv, [Next]_vars PROVE ShapeInv'
  OBVIOUS
<1>1. Errors \subseteq Ends /\ {"STOP", "REVERT"} \subseteq Ends
      /\ {"OUT_OF_GAS", "STATIC_STATE_CHANGE"} \subseteq Ends
  BY DEF Ends, Errors
<1>2. CASE Local
  <2>1. CASE Stop \/ Fault
    BY <1>1, <2>1, ShapeTrap DEF Stop, Fault
  <2>2. ASSUME NEW op \in PlainOps, Plain(op) PROVE ShapeInv'
    BY <2>2, ShapeOutOfGas, ShapeGoOn DEF Plain
  <2>3. ASSUME NEW bytes, Exp(bytes) PROVE ShapeInv'
    BY <2>3, ShapeOutOfGas, ShapeGoOn DEF Exp
  <2>4. ASSUME NEW price, SStore(price) PROVE ShapeInv'
    BY <1>1, <2>4, ShapeTrap, ShapeOutOfGas, ShapeGoOn DEF SStore
  <2>5. ASSUME NEW newAccount, SelfDestruct(newAccount) PROVE ShapeInv'
    BY <1>1, <2>5, ShapeTrap, ShapeOutOfGas, ShapeEnd DEF SelfDestruct
  <2>6. ASSUME NEW op, NEW offset, NEW length, NEW extra, Access(op, offset, length, extra)
        PROVE  ShapeInv'
    BY <2>6, ShapeOutOfGas, ShapeGoOn DEF Access
  <2>7. ASSUME NEW offset, NEW dataOffset, NEW length, ReturnDataCopy(offset, dataOffset, length)
        PROVE  ShapeInv'
    BY <1>1, <2>6, <2>7, ShapeTrap DEF ReturnDataCopy
  <2>8. ASSUME NEW offset, NEW length, NEW topics, Log(offset, length, topics)
        PROVE  ShapeInv'
    BY <1>1, <2>8, ShapeTrap, ShapeOutOfGas, ShapeGoOn DEF Log
  <2>9. ASSUME NEW op \in HaltOps, NEW offset, NEW length, Finish(op, offset, length)
        PROVE  ShapeInv'
    <3>1. (IF op = "REVERT" THEN "REVERT" ELSE "STOP") \in Ends
      BY <1>1
    <3> QED
      BY <2>9, <3>1, ShapeOutOfGas, ShapeEnd DEF Finish
  <2> QED
    BY <1>2, <2>1, <2>2, <2>3, <2>4, <2>5, <2>6, <2>7, <2>8, <2>9
    DEF Local, MLoad, MStore, MStore8, Keccak256, Copy
<1>3. CASE Calls
  <2>1. ASSUME NEW gas, NEW stipend, NEW m, SendOutOfGas(gas, stipend, m) PROVE ShapeInv'
    BY <1>1, <2>1, ShapeEnd DEF SendOutOfGas
  <2>2. CreateOps \subseteq CallOps /\ MessageOps \subseteq CallOps
    BY DEF CallOps
  <2>3. ASSUME NEW in, NEW op \in CreateOps, Create(op, in) PROVE ShapeInv'
    BY <1>1, <2>1, <2>2, <2>3, ShapeTrap, ShapeSend DEF Create, SendCreate
  <2>4. ASSUME NEW gasArg, NEW value, NEW newAccount, NEW in, NEW output,
               Call(gasArg, value, newAccount, in, output)
        PROVE  ShapeInv'
    <3>1. (value # 0) \in BOOLEAN /\ isStatic \in BOOLEAN
      BY DEF ShapeInv
    <3> QED
      BY <1>1, <2>2, <2>4, <3>1, ShapeTrap, ShapeSend DEF Call, MessageOps
  <2>5. ASSUME NEW gasArg, NEW value, NEW in, NEW output, CallCode(gasArg, value, in, output)
        PROVE  ShapeInv'
    BY <1>1, <2>1, <2>2, <2>5, ShapeTrap, ShapeSend DEF CallCode, MessageOps, ShapeInv
  <2>6. ASSUME NEW gasArg, NEW in, NEW output, DelegateCall(gasArg, in, output)
        PROVE  ShapeInv'
    BY <1>1, <2>1, <2>2, <2>6, ShapeTrap, ShapeSend DEF DelegateCall, MessageOps, ShapeInv
  <2>7. ASSUME NEW gasArg, NEW in, NEW output, StaticCall(gasArg, in, output)
        PROVE  ShapeInv'
    BY <2>1, <2>2, <2>7, ShapeSend DEF StaticCall, MessageOps
  <2> QED
    BY <1>3, <2>3, <2>4, <2>5, <2>6, <2>7 DEF Calls
<1>4. CASE Returns
  BY <1>4, ShapeReturn DEF Returns, CodeReturns, PrecompileReturns
<1>5. CASE UNCHANGED vars
  BY <1>5 DEF vars, call, ShapeInv, StaticWritesNothing
<1> QED
  BY <1>2, <1>3, <1>4, <1>5 DEF Next

-----------------------------------------------------------------------------
(* The theorems. *)

IInv == GasInv /\ ShapeInv

\* The inductive invariant: the price of the memory is what is remembered of it, what the
\* output of a call may fill is charged for already, and a static frame has written nothing.
THEOREM InductiveInvariant == Spec => []IInv
<1>1. Init => ShapeInv
  BY DEF Init, ShapeInv, StaticWritesNothing
<1>2. Init => IInv
  BY <1>1, GasInit DEF IInv
<1>3. IInv /\ [Next]_vars => IInv'
  BY GasNext, ShapeNext DEF IInv
<1> QED
  BY <1>2, <1>3, PTL DEF Spec

\* Gas and memory never go below zero, and a frame ends in one of the ways there are.
THEOREM TypeCorrect == Spec => []TypeOK
<1>1. IInv => TypeOK
  BY DEF IInv, GasInv, Counters, ShapeInv, TypeOK
<1> QED
  BY <1>1, InductiveInvariant, PTL

\* runCall has its gas: whatever the prices and what opcodes ask for, a frame keeps the gas
\* of the call it waits for, so that the subtraction of the interpreter is safe.
THEOREM ChildrenArePaid == Spec => []ChildIsPaid
<1>1. IInv => ChildIsPaid
  BY DEF IInv, GasInv
<1> QED
  BY <1>1, InductiveInvariant, PTL

\* Expansions of the memory in parts cost what one expansion costs.
THEOREM MemoryIsAlwaysPaid == Spec => []MemoryIsPaid
<1>1. IInv => MemoryIsPaid
  BY DEF IInv, GasInv, MemoryPriced, MemoryIsPaid
<1> QED
  BY <1>1, InductiveInvariant, PTL

\* Opcodes and outputs of calls stay within what was charged.
THEOREM MemoryStaysBounded == Spec => []MemoryIsBounded
<1>1. ASSUME IInv PROVE MemoryIsBounded
  <2>1. Counters /\ BufferFits /\ OutputFits
    BY <1>1 DEF IInv, GasInv
  <2>2. calling # "none" /\ out[2] > 0 => out[1] + out[2] <= memoryWordCount * WordBytes
    BY <2>1 DEF Counters, OutputFits, Within
  <2> QED
    BY <2>1, <2>2 DEF BufferFits, MemoryIsBounded
<1> QED
  BY <1>1, InductiveInvariant, PTL

\* No opcode of a static frame, and no call below it, writes.
THEOREM StaticFramesWriteNothing == Spec => []StaticWritesNothing
<1>1. IInv => StaticWritesNothing
  BY DEF IInv, ShapeInv
<1> QED
  BY <1>1, InductiveInvariant, PTL

-----------------------------------------------------------------------------
(* Why a frame ends: what every step burns. *)

\* A step ends the frame, or takes gas, or is the return of the call that is waited for.
Burns ==
  /\ status = "running"
  /\ \/ status' # "running"
     \/ gasLeft' < gasLeft
     \/ gasLeft' <= gasLeft /\ calling # "none" /\ calling' = "none"

Waiting == IF calling = "none" THEN 0 ELSE 1
Fuel == IF status = "running" THEN 1 + 2 * gasLeft + Waiting ELSE 0

LEMMA LessFuel ==
  ASSUME NEW g \in Nat, NEW h \in Nat, NEW v \in {0, 1}, NEW w \in {0, 1},
         h < g \/ (h <= g /\ v = 1 /\ w = 0)
  PROVE  1 + 2 * h + w < 1 + 2 * g + v
<1>1. v = 0 \/ v = 1
  OBVIOUS
<1>2. w = 0 \/ w = 1
  OBVIOUS
<1> QED
  BY <1>1, <1>2

LEMMA BurnTrap ==
  ASSUME Ready, NEW error \in Errors, Trap(error)
  PROVE  Burns
BY DEF Burns, Ready, Trap, End, Errors

LEMMA BurnGoOn ==
  ASSUME GasInv, Ready, NEW gas \in Nat, gas > 0, NEW m, OutOfGas(gas, m) \/ GoOn(gas, m)
  PROVE  Burns
<1>1. gasLeft \in Nat /\ status = "running"
  BY DEF GasInv, Counters, Ready
<1>2. CASE OutOfGas(gas, m)
  BY <1>1, <1>2 DEF Burns, OutOfGas, End
<1>3. CASE GoOn(gas, m)
  BY <1>1, <1>3 DEF Burns, GoOn, Paid
<1> QED
  BY <1>2, <1>3

LEMMA BurnOutOfGas ==
  ASSUME Ready, NEW gas, NEW m, OutOfGas(gas, m)
  PROVE  Burns
BY DEF Burns, Ready, OutOfGas, End

LEMMA BurnSendOutOfGas ==
  ASSUME Ready, NEW gas, NEW stipend, NEW m, SendOutOfGas(gas, stipend, m)
  PROVE  Burns
BY DEF Burns, Ready, SendOutOfGas, End

\* The stipend is less than what the call costs.
LEMMA BurnSend ==
  ASSUME GasInv, Ready, NEW op, NEW gas \in Nat, NEW stipend \in Nat, stipend < gas, NEW m,
         NEW limit, NEW in, NEW output, NEW static, NEW writes,
         Send(op, gas, stipend, m, limit, in, output, static, writes)
  PROVE  Burns
BY DEF Burns, Ready, Send, GasInv, Counters

LEMMA BurnReturn ==
  ASSUME GasInv, NEW used \in Nat, NEW error, NEW length, ChildReturns(used, error, length)
  PROVE  Burns
BY DEF Burns, ChildReturns, NoCall, GasInv, Counters

\* Opcodes that neither halt nor write to storage have a base fee.
LEMMA FeesAreCharged ==
  \A op \in Opcodes \ (HaltOps \cup {"STOP", "SSTORE"}) : fee[op] \in Nat /\ fee[op] > 0
BY PriceAssumption

LEMMA PaidOps ==
  PlainOps \cup CopyOps \cup CallOps
    \cup {"EXP", "KECCAK256", "RETURNDATACOPY", "MLOAD", "MSTORE", "MSTORE8", "LOG"}
  \subseteq Opcodes \ (HaltOps \cup {"STOP", "SSTORE"})
BY DEF Opcodes, PlainOps, ArithmeticOps, EnvironmentOps, CodeOps, BlockOps, FlowOps, CopyOps,
   HaltOps, CallOps, CreateOps, MessageOps

LEMMA BurnAccess ==
  ASSUME GasInv, NEW op \in Opcodes \ (HaltOps \cup {"STOP", "SSTORE"}),
         NEW offset \in Nat, NEW length \in Nat, NEW extra \in Nat,
         Access(op, offset, length, extra)
  PROVE  Burns
<1> DEFINE m == subMemUsage(Mem, offset, length)
           gas == fee[op] + m.cost + extra
<1>1. m.cost \in Nat
  BY MemIsGood, SubMemUsage DEF GasInv, Good
<1>2. Ready /\ (OutOfGas(gas, m) \/ GoOn(gas, m))
  BY DEF Access
<1> HIDE DEF m
<1>3. gas \in Nat /\ gas > 0
  BY <1>1, FeesAreCharged
<1> HIDE DEF gas
<1> QED
  BY <1>2, <1>3, BurnGoOn

LEMMA BurnCopying ==
  ASSUME GasInv, NEW offset \in Nat, NEW length \in Nat,
         \/ Keccak256(offset, length)
         \/ \E op \in CopyOps : Copy(op, offset, length)
         \/ \E dataOffset \in Nat : ReturnDataCopy(offset, dataOffset, length)
  PROVE  Burns
<1> DEFINE words == divCeil(length, WordBytes)
<1>1. param["keccak256Word"] \in Nat /\ param["copy"] \in Nat /\ words \in Nat
  BY ParamsAreNat, FeesAreNat DEF Params
<1> HIDE DEF words
<1>2. param["keccak256Word"] * words \in Nat /\ param["copy"] * words \in Nat
  BY <1>1
<1>3. CASE Keccak256(offset, length)
  <2>1. Access("KECCAK256", offset, length, param["keccak256Word"] * words)
    BY <1>3 DEF Keccak256, words
  <2> QED
    BY <1>2, <2>1, PaidOps, BurnAccess
<1>4. ASSUME NEW op \in CopyOps, Copy(op, offset, length) PROVE Burns
  <2>1. Access(op, offset, length, param["copy"] * words)
    BY <1>4 DEF Copy, words
  <2> QED
    BY <1>2, <2>1, PaidOps, BurnAccess
<1>5. ASSUME NEW dataOffset \in Nat, ReturnDataCopy(offset, dataOffset, length) PROVE Burns
  <2>1. CASE Ready /\ Trap("OUT_OF_GAS")
    BY <2>1, BurnTrap DEF Errors
  <2>2. CASE Access("RETURNDATACOPY", offset, length, param["copy"] * words)
    BY <1>2, <2>2, PaidOps, BurnAccess
  <2> QED
    BY <1>5, <2>1, <2>2 DEF ReturnDataCopy, words
<1> QED
  BY <1>3, <1>4, <1>5

LEMMA BurnWordAccess ==
  ASSUME GasInv, NEW offset \in Nat, MLoad(offset) \/ MStore(offset) \/ MStore8(offset)
  PROVE  Burns
<1>1. WordBytes \in Nat /\ 1 \in Nat /\ 0 \in Nat
  BY SizeAssumption
<1> QED
  BY <1>1, PaidOps, BurnAccess DEF MLoad, MStore, MStore8

LEMMA BurnPlain ==
  ASSUME GasInv,
         \/ \E op \in PlainOps : Plain(op)
         \/ \E bytes \in Nat : Exp(bytes)
  PROVE  Burns
<1>1. ASSUME NEW op \in PlainOps, Plain(op) PROVE Burns
  <2>1. fee[op] \in Nat /\ fee[op] > 0
    BY PaidOps, FeesAreCharged
  <2> QED
    BY <1>1, <2>1, BurnGoOn DEF Plain
<1>2. ASSUME NEW bytes \in Nat, Exp(bytes) PROVE Burns
  <2> DEFINE gas == fee["EXP"] + bytes * param["expByte"]
  <2>1. fee["EXP"] \in Nat /\ fee["EXP"] > 0 /\ param["expByte"] \in Nat
    BY PaidOps, FeesAreCharged, ParamsAreNat DEF Params
  <2>2. bytes * param["expByte"] \in Nat
    BY <2>1
  <2>3. gas \in Nat /\ gas > 0
    BY <2>1, <2>2
  <2>4. Ready /\ (OutOfGas(gas, Mem) \/ GoOn(gas, Mem))
    BY <1>2 DEF Exp
  <2> HIDE DEF gas
  <2> QED
    BY <2>3, <2>4, BurnGoOn
<1> QED
  BY <1>1, <1>2

\* A write to storage has no base fee, but each of its prices is more than nothing.
LEMMA BurnSStore ==
  ASSUME GasInv, NEW price \in SStorePrices, SStore(price)
  PROVE  Burns
<1> DEFINE gas == fee["SSTORE"] + price
<1>1. price \in Nat /\ price > 0
  BY ParamsAreNat, PriceAssumption DEF SStorePrices, Params
<1>2. fee["SSTORE"] \in Nat
  BY FeesAreNat DEF Opcodes
<1>3. gas \in Nat /\ gas > 0
  BY <1>1, <1>2
<1>4. Ready /\ \/ Trap("STATIC_STATE_CHANGE")
               \/ Trap("OUT_OF_GAS")
               \/ OutOfGas(gas, Mem) \/ GoOn(gas, Mem)
  BY DEF SStore
<1> HIDE DEF gas
<1> QED
  BY <1>3, <1>4, BurnTrap, BurnGoOn DEF Errors

LEMMA BurnLog ==
  ASSUME GasInv, NEW offset \in Nat, NEW length \in Nat, NEW topics \in Nat,
         Log(offset, length, topics)
  PROVE  Burns
<1> DEFINE m == subMemUsage(Mem, offset, length)
           gas == LogGas(m, length, topics)
<1>1. m.cost \in Nat
  BY MemIsGood, SubMemUsage DEF GasInv, Good
<1>2. Ready /\ (Trap("STATIC_STATE_CHANGE") \/ OutOfGas(gas, m) \/ GoOn(gas, m))
  BY DEF Log
<1> HIDE DEF m
<1>3. /\ fee["LOG"] \in Nat /\ fee["LOG"] > 0
      /\ param["logTopic"] * topics \in Nat /\ param["logData"] * length \in Nat
  BY PaidOps, FeesAreCharged, ParamsAreNat DEF Params
<1>4. gas \in Nat /\ gas > 0
  BY <1>1, <1>3 DEF LogGas
<1> HIDE DEF gas
<1> QED
  BY <1>2, <1>4, BurnTrap, BurnGoOn DEF Errors

LEMMA BurnEnds ==
  ASSUME \/ Stop \/ Fault
         \/ \E newAccount \in BOOLEAN : SelfDestruct(newAccount)
         \/ \E op, offset, length : Finish(op, offset, length)
  PROVE  Burns
<1>1. CASE Stop \/ Fault
  BY <1>1 DEF Stop, Fault, Burns, Ready, Trap, End, Errors
<1>2. ASSUME NEW newAccount, SelfDestruct(newAccount) PROVE Burns
  BY <1>2 DEF SelfDestruct, OutOfGas, Burns, Ready, Trap, End
<1>3. ASSUME NEW op, NEW offset, NEW length, Finish(op, offset, length) PROVE Burns
  BY <1>3 DEF Finish, OutOfGas, Burns, Ready, End
<1> QED
  BY <1>1, <1>2, <1>3

LEMMA BurnCreate ==
  ASSUME GasInv, NEW op \in CreateOps, NEW in \in Nat \X Nat, Create(op, in)
  PROVE  Burns
<1> DEFINE m == subMemUsage(Mem, in[1], in[2])
           gas == fee[op] + m.cost + HashGas(op, in[2])
           limit == maxCallGas(gasLeft - gas, gasLeft - gas)
<1>1. m.cost \in Nat
  BY MemIsGood, SubMemUsage DEF GasInv, Good
<1>2. fee[op] \in Nat /\ fee[op] > 0
  BY PaidOps, FeesAreCharged DEF CallOps
<1>3. HashGas(op, in[2]) \in Nat
  <2>1. param["keccak256Word"] \in Nat /\ divCeil(in[2], WordBytes) \in Nat
    BY ParamsAreNat, FeesAreNat DEF Params
  <2> QED
    BY <2>1 DEF HashGas
<1>4. Ready /\ \/ Trap("STATIC_STATE_CHANGE")
               \/ SendOutOfGas(gas, 0, m)
               \/ Send(op, gas, 0, m, limit, in, <<0, 0>>, FALSE, TRUE)
  BY DEF Create, SendCreate
<1> HIDE DEF m
<1>5. gas \in Nat /\ 0 < gas
  BY <1>1, <1>2, <1>3
<1> HIDE DEF gas, limit
<1> QED
  BY <1>4, <1>5, BurnTrap, BurnSendOutOfGas, BurnSend DEF Errors

\* What a message costs is more than its stipend.
LEMMA MessagesCost ==
  ASSUME GasInv, NEW op \in MessageOps, NEW value \in {0, 1}, NEW newAccount \in BOOLEAN,
         NEW in \in Nat \X Nat, NEW output \in Nat \X Nat
  PROVE  LET gas == fee[op] + CallMem(in, output).cost + ValueGas(value, newAccount)
         IN gas \in Nat /\ Stipend(value) \in Nat /\ Stipend(value) < gas
<1>1. fee[op] \in Nat /\ fee[op] > 0
  BY PaidOps, FeesAreCharged DEF CallOps
<1>2. CallMem(in, output).cost \in Nat
  BY CallMemCovers DEF Good
<1> QED
  BY <1>1, <1>2, ValueGasCoversStipend

LEMMA BurnMessage ==
  ASSUME GasInv, NEW gasArg \in Nat, NEW in \in Nat \X Nat, NEW output \in Nat \X Nat,
         \/ \E value \in {0, 1}, newAccount \in BOOLEAN :
              Call(gasArg, value, newAccount, in, output)
         \/ \E value \in {0, 1} : CallCode(gasArg, value, in, output)
         \/ DelegateCall(gasArg, in, output)
         \/ StaticCall(gasArg, in, output)
  PROVE  Burns
<1> DEFINE m == CallMem(in, output)
           gas(op, value, newAccount) == fee[op] + m.cost + ValueGas(value, newAccount)
<1>1. ASSUME NEW value \in {0, 1}, NEW newAccount \in BOOLEAN,
             Call(gasArg, value, newAccount, in, output)
      PROVE  Burns
  <2> DEFINE g == gas("CALL", value, newAccount)
             limit == maxCallGas(gasArg, gasLeft - g)
             sent == limit + Stipend(value)
             writes == value # 0
  <2>1. g \in Nat /\ Stipend(value) \in Nat /\ Stipend(value) < g
    BY MessagesCost DEF MessageOps
  <2>2. Ready /\ \/ Trap("STATIC_STATE_CHANGE")
                 \/ Trap("OUT_OF_GAS")
                 \/ Send("CALL", g, Stipend(value), m, sent, in, output, isStatic, writes)
    BY <1>1 DEF Call
  <2> HIDE DEF g, sent, m, writes
  <2> QED
    BY <2>1, <2>2, BurnTrap, BurnSend DEF Errors
<1>2. ASSUME NEW value \in {0, 1}, CallCode(gasArg, value, in, output) PROVE Burns
  <2> DEFINE g == gas("CALLCODE", value, FALSE)
             limit == maxCallGas(gasArg, gasLeft - g)
             sent == limit + Stipend(value)
  <2>1. g \in Nat /\ Stipend(value) \in Nat /\ Stipend(value) < g
    BY MessagesCost DEF MessageOps
  <2>2. Ready /\ \/ Trap("OUT_OF_GAS")
                 \/ SendOutOfGas(g, Stipend(value), m)
                 \/ Send("CALLCODE", g, Stipend(value), m, sent, in, output, isStatic, FALSE)
    BY <1>2 DEF CallCode
  <2> HIDE DEF g, sent, m
  <2> QED
    BY <2>1, <2>2, BurnTrap, BurnSendOutOfGas, BurnSend DEF Errors
<1>3. ASSUME NEW op \in {"DELEGATECALL", "STATICCALL"}, NEW static,
             LET g == fee[op] + m.cost
                 limit == maxCallGas(gasArg, gasLeft - g)
             IN Ready /\ \/ Trap("OUT_OF_GAS")
                         \/ SendOutOfGas(g, 0, m)
                         \/ Send(op, g, 0, m, limit, in, output, static, FALSE)
      PROVE  Burns
  <2> DEFINE g == fee[op] + m.cost
             limit == maxCallGas(gasArg, gasLeft - g)
  <2>1. fee[op] \in Nat /\ fee[op] > 0 /\ m.cost \in Nat
    BY PaidOps, FeesAreCharged, CallMemCovers DEF CallOps, MessageOps, Good
  <2>2. g \in Nat /\ 0 < g
    BY <2>1
  <2>3. Ready /\ \/ Trap("OUT_OF_GAS")
                 \/ SendOutOfGas(g, 0, m)
                 \/ Send(op, g, 0, m, limit, in, output, static, FALSE)
    BY <1>3
  <2> HIDE DEF g, limit, m
  <2> QED
    BY <2>2, <2>3, BurnTrap, BurnSendOutOfGas, BurnSend DEF Errors
<1>4. CASE DelegateCall(gasArg, in, output)
  BY <1>3, <1>4 DEF DelegateCall
<1>5. CASE StaticCall(gasArg, in, output)
  BY <1>3, <1>5 DEF StaticCall
<1> QED
  BY <1>1, <1>2, <1>4, <1>5

LEMMA NextBurns == GasInv /\ Next => Burns
<1> SUFFICES ASSUME GasInv, Next PROVE Burns
  OBVIOUS
<1>1. \A region \in Regions : region \in Nat \X Nat
  BY SizeAssumption DEF Regions
<1>2. CASE Local
  <2>1. \A offset \in Offsets : offset \in Nat
    BY SizeAssumption
  <2>2. \A length \in Lengths : length \in Nat
    BY SizeAssumption
  <2>3. ASSUME NEW bytes \in 0 .. WordBytes, Exp(bytes) PROVE Burns
    BY <2>3, SizeAssumption, BurnPlain
  <2>4. ASSUME NEW topics \in 0 .. 4, NEW offset \in Offsets, NEW length \in Lengths,
               Log(offset, length, topics)
        PROVE  Burns
    BY <2>1, <2>2, <2>4, BurnLog
  <2> QED
    BY <1>2, <2>1, <2>2, <2>3, <2>4, BurnEnds, BurnPlain, BurnSStore, BurnWordAccess,
       BurnCopying DEF Local
<1>3. CASE Calls
  <2>1. ASSUME NEW in \in Regions, NEW op \in CreateOps, Create(op, in) PROVE Burns
    BY <1>1, <2>1, BurnCreate
  <2>2. ASSUME NEW in \in Regions, NEW output \in Regions, NEW gasArg \in GasArgs,
               \/ \E value \in {0, 1}, newAccount \in BOOLEAN :
                    Call(gasArg, value, newAccount, in, output)
               \/ \E value \in {0, 1} : CallCode(gasArg, value, in, output)
               \/ DelegateCall(gasArg, in, output)
               \/ StaticCall(gasArg, in, output)
        PROVE  Burns
    <3>1. in \in Nat \X Nat /\ output \in Nat \X Nat /\ gasArg \in Nat
      BY <1>1, SizeAssumption
    <3> QED
      BY <2>2, <3>1, BurnMessage
  <2> QED
    BY <1>3, <2>1, <2>2 DEF Calls
<1>4. CASE Returns
  <2>1. ASSUME NEW used \in 0 .. messageGasLimit, NEW error, NEW length,
               CodeReturns(used, error, length)
        PROVE  Burns
    <3>1. used \in Nat
      BY DEF GasInv, Counters
    <3> QED
      BY <2>1, <3>1, BurnReturn DEF CodeReturns
  <2>2. ASSUME NEW p \in Precompiled, NEW length \in Lengths, NEW work \in {0, 1},
               NEW valid \in BOOLEAN, PrecompileReturns(p, length, work, valid)
        PROVE  Burns
    <3> DEFINE r == Run(p, messageGasLimit, length, work, valid)
    <3>1. r.used \in Nat
      BY SizeAssumption, PrecompilesUseTheirGas DEF GasInv, Counters
    <3>2. ChildReturns(r.used, r.error, r.length)
      BY <2>2 DEF PrecompileReturns
    <3> HIDE DEF r
    <3> QED
      BY <3>1, <3>2, BurnReturn
  <2> QED
    BY <1>4, <2>1, <2>2 DEF Returns
<1> QED
  BY <1>2, <1>3, <1>4 DEF Next

\* The argument behind FrameEnds: a frame begins with fuel for twice the gas of its message
\* and one, and every step burns some.  So no code, whatever it jumps to and whatever it
\* calls, takes more than 2 * gasLimit + 1 steps in a frame.
THEOREM EveryStepBurns ==
  Spec => Fuel = 2 * gasLimit + 1 /\ [](Fuel \in Nat) /\ [][Fuel' < Fuel]_vars
<1>1. ASSUME Init PROVE Fuel = 2 * gasLimit + 1
  <2>1. gasLeft = gasLimit /\ gasLimit \in Nat /\ status = "running" /\ calling = "none"
    BY <1>1, SizeAssumption DEF Init
  <2> QED
    BY <2>1 DEF Fuel, Waiting
<1>2. ASSUME IInv PROVE Fuel \in Nat
  <2>1. gasLeft \in Nat
    BY <1>2 DEF IInv, GasInv, Counters
  <2> QED
    BY <2>1 DEF Fuel, Waiting
<1>3. ASSUME IInv, IInv', [Next]_vars PROVE [Fuel' < Fuel]_vars
  <2>1. gasLeft \in Nat /\ gasLeft' \in Nat
    BY <1>3 DEF IInv, GasInv, Counters
  <2>2. CASE Next
    <3>1. Burns
      BY <1>3, <2>2, NextBurns DEF IInv
    <3>2. Fuel = 1 + 2 * gasLeft + Waiting /\ Waiting \in {0, 1}
      BY <3>1 DEF Burns, Fuel, Waiting
    <3> SUFFICES Fuel' < Fuel
      OBVIOUS
    <3>3. CASE status' # "running"
      BY <2>1, <3>2, <3>3 DEF Fuel
    <3>4. CASE status' = "running"
      <4>1. Fuel' = 1 + 2 * gasLeft' + Waiting' /\ Waiting' \in {0, 1}
        BY <3>4 DEF Fuel, Waiting
      <4>2. \/ gasLeft' < gasLeft
            \/ gasLeft' <= gasLeft /\ Waiting = 1 /\ Waiting' = 0
        BY <3>1, <3>4 DEF Burns, Waiting
      <4>3. 1 + 2 * gasLeft' + Waiting' < 1 + 2 * gasLeft + Waiting
        BY <2>1, <3>2, <4>1, <4>2, LessFuel
      <4> QED
        BY <3>2, <4>1, <4>3
    <3> QED
      BY <3>3, <3>4
  <2>3. CASE UNCHANGED vars
    BY <2>3
  <2> QED
    BY <1>3, <2>2, <2>3
<1> QED
  BY <1>1, <1>2, <1>3, InductiveInvariant, PTL DEF Spec
=============================================================================

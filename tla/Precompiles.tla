---------------------------- MODULE Precompiles -----------------------------
(***************************************************************************)
(* What the precompiled contracts of the hard fork cost and give back, as  *)
(* functions of the gas they get, the length of their data and whether the *)
(* data is valid for them.  The cryptography is left out.                  *)
(***************************************************************************)
EXTENDS Integers

CONSTANTS
  basePrice,  \* gas of each precompile, whatever its data
  unitPrice,  \* gas for each unit of data
  unitBytes,  \* bytes of a unit: a word, or a pair of points of the curve
  blakeBytes, \* the one length that blake2f takes (213)
  answerBytes \* length of what each one gives back

Precompiled == {"ecrecover", "sha256", "ripemd160", "identity", "modexp", "ecadd", "ecmul",
                "ecpairing", "blake2f"}

ASSUME PrecompileAssumption ==
  /\ basePrice \in [Precompiled -> Nat] /\ unitPrice \in [Precompiled -> Nat]
  /\ unitBytes \in [Precompiled -> Nat \ {0}] /\ answerBytes \in [Precompiled -> Nat]
  /\ blakeBytes \in Nat

\* A precompile gives back the gas it used, an error or none, and a length of data.
OOGResult(gasLimit) == [used |-> gasLimit, error |-> "OUT_OF_GAS", length |-> 0]
OutOfRange(gasLimit) == [used |-> gasLimit, error |-> "OUT_OF_RANGE", length |-> 0]

\* It fails at once when its gas is more than it got, and later when its data is not valid.
Priced(gasLimit, gas, valid, length) ==
  IF gasLimit < gas \/ ~valid THEN OOGResult(gasLimit)
  ELSE [used |-> gas, error |-> "none", length |-> length]

\* The price of data whose units are rounded up.
PerUnit(p, length) ==
  basePrice[p] + unitPrice[p] * ((length + unitBytes[p] - 1) \div unitBytes[p])

\* valid: the signature has a known v and gives a key.
precompile01(gasLimit, valid) ==
  Priced(gasLimit, basePrice["ecrecover"], TRUE, IF valid THEN answerBytes["ecrecover"] ELSE 0)

precompile02(gasLimit, length) ==
  Priced(gasLimit, PerUnit("sha256", length), TRUE, answerBytes["sha256"])

precompile03(gasLimit, length) ==
  Priced(gasLimit, PerUnit("ripemd160", length), TRUE, answerBytes["ripemd160"])

precompile04(gasLimit, length) == Priced(gasLimit, PerUnit("identity", length), TRUE, length)

\* work: what the lengths and the exponent add up to.  length: of the modulus.  valid: the
\* lengths fit a buffer.
precompile05(gasLimit, work, length, valid) ==
  Priced(gasLimit, basePrice["modexp"] + unitPrice["modexp"] * work, valid, length)

\* valid: the points are on the curve.
precompile06(gasLimit, valid) ==
  Priced(gasLimit, basePrice["ecadd"], valid, answerBytes["ecadd"])

precompile07(gasLimit, valid) ==
  Priced(gasLimit, basePrice["ecmul"], valid, answerBytes["ecmul"])

\* Pairs of points are rounded down.
precompile08(gasLimit, length, valid) ==
  LET pairs == length \div unitBytes["ecpairing"]
  IN Priced(gasLimit, basePrice["ecpairing"] + unitPrice["ecpairing"] * pairs, valid,
            answerBytes["ecpairing"])

\* rounds are a part of the data.  valid: the last byte is a flag.
precompile09(gasLimit, length, rounds, valid) ==
  IF length # blakeBytes \/ ~valid THEN OutOfRange(gasLimit)
  ELSE Priced(gasLimit, basePrice["blake2f"] + unitPrice["blake2f"] * rounds, TRUE,
              answerBytes["blake2f"])

Run(p, gasLimit, length, work, valid) ==
  CASE p = "ecrecover" -> precompile01(gasLimit, valid)
    [] p = "sha256" -> precompile02(gasLimit, length)
    [] p = "ripemd160" -> precompile03(gasLimit, length)
    [] p = "identity" -> precompile04(gasLimit, length)
    [] p = "modexp" -> precompile05(gasLimit, work, length, valid)
    [] p = "ecadd" -> precompile06(gasLimit, valid)
    [] p = "ecmul" -> precompile07(gasLimit, valid)
    [] p = "ecpairing" -> precompile08(gasLimit, length, valid)
    [] p = "blake2f" -> precompile09(gasLimit, length, work, valid)
=============================================================================

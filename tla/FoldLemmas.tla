------------------------------ MODULE FoldLemmas ------------------------------
(***************************************************************************)
(* Facts about SumFunctionOnSet and SumFunction, for the proofs about sums *)
(* over accounts and slots, about FoldLeft and FoldRight, for those about  *)
(* lists, and about recursive functions, for those about scans of code.    *)
(* Induction is on the number of elements and takes the form of a least    *)
(* counterexample: a set of naturals without a least element is empty.     *)
(***************************************************************************)
EXTENDS Integers, Functions, FiniteSetsExt, FiniteSetTheorems, WellFoundedInduction, TLAPS

\* A nonempty set of naturals has a least element.
LEMMA LeastNatural ==
  ASSUME NEW T, T \subseteq Nat, T # {}
  PROVE  \E x \in T : \A y \in T : ~(y < x)
<1> DEFINE R == OpToRel(<, Nat)
<1>1. IsWellFoundedOn(R, Nat)
  BY NatLessThanWellFounded
<1>2. \A x, y \in Nat : y < x => <<y, x>> \in R
  BY DEF OpToRel
<1> HIDE DEF R
<1>3. \E x \in T : \A y \in T : ~(<<y, x>> \in R)
  BY <1>1, WFMin
<1> QED
  BY <1>2, <1>3

\* A set without a least counterexample has none.
LEMMA NoLeastCounterexample ==
  ASSUME NEW T, T \subseteq Nat,
         \A n \in T : \E m \in T : m < n
  PROVE  T = {}
BY LeastNatural

\* The element that a sum over s begins with.
First(s) == CHOOSE x \in s : TRUE

\* What the sum over s is if those over smaller sets are g.
NextSum(g, f, s) == IF s = {} THEN 0 ELSE f[First(s)] + g[s \ {First(s)}]

\* g is the function that the definition of a sum over subsets of D recurs on.
IsSum(g, f, D) == g = [s \in SUBSET D |-> NextSum(g, f, s)]

\* The same for the subsets that have n elements at most.
Small(D, n) == {s \in SUBSET D : Cardinality(s) <= n}
IsPartialSum(g, f, D, n) == g = [s \in Small(D, n) |-> NextSum(g, f, s)]

\* What is left of a set when an element is taken.
LEMMA Removed ==
  ASSUME NEW S, IsFiniteSet(S), NEW x \in S
  PROVE  /\ IsFiniteSet(S \ {x}) /\ Cardinality(S) \in Nat \ {0}
         /\ Cardinality(S \ {x}) = Cardinality(S) - 1
<1>1. IsFiniteSet(S \ {x}) /\ Cardinality(S \ {x}) = Cardinality(S) - 1
  BY FS_RemoveElement
<1>2. Cardinality(S) \in Nat /\ Cardinality(S \ {x}) \in Nat
  BY <1>1, FS_CardinalityType
<1> QED
  BY <1>1, <1>2

\* A function that satisfies the recursion exists for subsets of any size: a least size
\* without one would have one, made from that for the size below.
LEMMA PartialSumExists ==
  ASSUME NEW D, IsFiniteSet(D), NEW f
  PROVE  \A n \in Nat : \E g : IsPartialSum(g, f, D, n)
<1> DEFINE T == {n \in Nat : ~\E g : IsPartialSum(g, f, D, n)}
<1>0. \A s \in SUBSET D : IsFiniteSet(s) /\ Cardinality(s) \in Nat
  BY FS_Subset, FS_CardinalityType
<1>1. ASSUME NEW n \in T
      PROVE  \E m \in T : m < n
  <2>1. CASE n = 0
    <3> DEFINE g == [s \in Small(D, 0) |-> 0]
    <3>1. \A s \in Small(D, 0) : s = {}
      BY <1>0, FS_EmptySet DEF Small
    <3>2. IsPartialSum(g, f, D, 0)
      BY <3>1 DEF IsPartialSum, NextSum
    <3> QED
      BY <2>1, <3>2
  <2>2. CASE n # 0
    <3>1. n \in Nat /\ n - 1 \in Nat /\ n - 1 < n
      BY <2>2
    <3>2. SUFFICES ASSUME n - 1 \notin T PROVE FALSE
      BY <3>1
    <3>3. PICK h : IsPartialSum(h, f, D, n - 1)
      BY <3>1, <3>2
    <3> DEFINE g == [s \in Small(D, n) |-> NextSum(h, f, s)]
    <3>4. ASSUME NEW s \in Small(D, n), s # {}
          PROVE  s \ {First(s)} \in Small(D, n - 1)
      <4>1. First(s) \in s
        BY <3>4 DEF First
      <4> QED
        BY <4>1, <1>0, <3>1, Removed DEF Small
    <3>5. \A s \in Small(D, n - 1) : s \in Small(D, n)
      BY <3>1, <1>0 DEF Small
    <3>6. \A s \in Small(D, n - 1) : g[s] = h[s]
      BY <3>3, <3>5 DEF IsPartialSum
    <3>7. \A s \in Small(D, n) : NextSum(h, f, s) = NextSum(g, f, s)
      <4> HIDE DEF g
      <4> QED
        BY <3>4, <3>6 DEF NextSum
    <3>8. IsPartialSum(g, f, D, n)
      BY <3>7 DEF IsPartialSum
    <3> QED
      BY <3>8
  <2> QED
    BY <2>1, <2>2
<1>2. T = {}
  <2> HIDE DEF T
  <2>1. T \subseteq Nat
    BY DEF T
  <2> QED
    BY <1>1, <2>1, NoLeastCounterexample
<1> QED
  BY <1>2

\* The recursion of a sum over a finite set is satisfied by some function.
LEMMA SumExists ==
  ASSUME NEW D, IsFiniteSet(D), NEW f
  PROVE  \E g : IsSum(g, f, D)
<1>1. Cardinality(D) \in Nat
  BY FS_CardinalityType
<1>2. PICK g : IsPartialSum(g, f, D, Cardinality(D))
  BY <1>1, PartialSumExists
<1>3. Small(D, Cardinality(D)) = SUBSET D
  BY FS_Subset DEF Small
<1> QED
  BY <1>2, <1>3 DEF IsSum, IsPartialSum

\* Sums are the same in whatever set they are taken.
LEMMA SumsAgree ==
  ASSUME NEW D, IsFiniteSet(D), NEW E, NEW f, NEW g, NEW h,
         IsSum(g, f, D), IsSum(h, f, E)
  PROVE  \A s \in (SUBSET D) \cap (SUBSET E) : g[s] = h[s]
<1> DEFINE T == {n \in Nat : \E s \in (SUBSET D) \cap (SUBSET E) :
                   Cardinality(s) = n /\ g[s] # h[s]}
<1>0. \A s \in SUBSET D : IsFiniteSet(s) /\ Cardinality(s) \in Nat
  BY FS_Subset, FS_CardinalityType
<1>1. ASSUME NEW n \in T
      PROVE  \E m \in T : m < n
  <2>1. PICK s \in (SUBSET D) \cap (SUBSET E) : Cardinality(s) = n /\ g[s] # h[s]
    OBVIOUS
  <2>2. s # {}
    BY <2>1 DEF IsSum, NextSum
  <2> DEFINE x == First(s)
  <2>3. x \in s
    BY <2>2 DEF First
  <2>4. g[s] = f[x] + g[s \ {x}] /\ h[s] = f[x] + h[s \ {x}]
    BY <2>2 DEF IsSum, NextSum
  <2>5. g[s \ {x}] # h[s \ {x}]
    BY <2>1, <2>4
  <2>6. Cardinality(s \ {x}) < n /\ Cardinality(s \ {x}) \in Nat
    BY <1>0, <2>1, <2>3, Removed
  <2> QED
    BY <2>5, <2>6
<1>2. T = {}
  <2> HIDE DEF T
  <2>1. T \subseteq Nat
    BY DEF T
  <2> QED
    BY <1>1, <2>1, NoLeastCounterexample
<1> QED
  BY <1>0, <1>2

\* What the operator of the community modules gives.
LEMMA SumIs ==
  ASSUME NEW S, IsFiniteSet(S), NEW f
  PROVE  \E g : IsSum(g, f, S) /\ SumFunctionOnSet(f, S) = g[S]
<1> DEFINE g == CHOOSE g : IsSum(g, f, S)
<1>1. IsSum(g, f, S)
  BY SumExists
<1>2. SumFunctionOnSet(f, S) = g[S]
  BY DEF SumFunctionOnSet, FoldFunctionOnSet, MapThenFoldSet, IsSum, NextSum, First
<1> QED
  BY <1>1, <1>2

\* The sum over no element.
LEMMA SumOfNothing ==
  ASSUME NEW f
  PROVE  SumFunctionOnSet(f, {}) = 0
<1>1. IsFiniteSet({})
  BY FS_EmptySet
<1>2. PICK g : IsSum(g, f, {}) /\ SumFunctionOnSet(f, {}) = g[{}]
  BY <1>1, SumIs
<1> QED
  BY <1>2 DEF IsSum, NextSum

\* The sum over a set that has elements takes one of them and goes on with the rest.
LEMMA SumFromFirst ==
  ASSUME NEW S, IsFiniteSet(S), S # {}, NEW f
  PROVE  SumFunctionOnSet(f, S) = f[First(S)] + SumFunctionOnSet(f, S \ {First(S)})
<1> DEFINE x == First(S)
<1>1. x \in S
  BY DEF First
<1>2. PICK g : IsSum(g, f, S) /\ SumFunctionOnSet(f, S) = g[S]
  BY SumIs
<1>3. IsFiniteSet(S \ {x})
  BY <1>1, Removed
<1>4. PICK h : IsSum(h, f, S \ {x}) /\ SumFunctionOnSet(f, S \ {x}) = h[S \ {x}]
  BY <1>3, SumIs
<1>5. g[S \ {x}] = h[S \ {x}]
  BY <1>2, <1>3, <1>4, SumsAgree
<1>6. g[S] = f[x] + g[S \ {x}]
  BY <1>2 DEF IsSum, NextSum
<1> QED
  BY <1>2, <1>4, <1>5, <1>6

\* A sum of integers is one.
LEMMA SumIsInt ==
  ASSUME NEW S, IsFiniteSet(S), NEW f, \A x \in S : f[x] \in Int
  PROVE  SumFunctionOnSet(f, S) \in Int
<1> DEFINE T == {n \in Nat : \E s \in SUBSET S :
                   Cardinality(s) = n /\ SumFunctionOnSet(f, s) \notin Int}
<1>0. \A s \in SUBSET S : IsFiniteSet(s) /\ Cardinality(s) \in Nat
  BY FS_Subset, FS_CardinalityType
<1>1. ASSUME NEW n \in T
      PROVE  \E m \in T : m < n
  <2>1. PICK s \in SUBSET S : Cardinality(s) = n /\ SumFunctionOnSet(f, s) \notin Int
    OBVIOUS
  <2>2. s # {}
    BY <2>1, SumOfNothing
  <2>3. First(s) \in s
    BY <2>2 DEF First
  <2>4. SumFunctionOnSet(f, s) = f[First(s)] + SumFunctionOnSet(f, s \ {First(s)})
    BY <1>0, <2>2, SumFromFirst
  <2>5. SumFunctionOnSet(f, s \ {First(s)}) \notin Int
    BY <2>1, <2>3, <2>4
  <2>6. Cardinality(s \ {First(s)}) < n /\ Cardinality(s \ {First(s)}) \in Nat
    BY <1>0, <2>1, <2>3, Removed
  <2> QED
    BY <2>5, <2>6
<1>2. T = {}
  <2> HIDE DEF T
  <2>1. T \subseteq Nat
    BY DEF T
  <2> QED
    BY <1>1, <2>1, NoLeastCounterexample
<1> QED
  BY <1>0, <1>2

\* Any element may be taken first.
LEMMA SumFromAny ==
  ASSUME NEW S, IsFiniteSet(S), NEW f, \A x \in S : f[x] \in Int, NEW e \in S
  PROVE  SumFunctionOnSet(f, S) = f[e] + SumFunctionOnSet(f, S \ {e})
<1> DEFINE Total(s) == SumFunctionOnSet(f, s)
           T == {n \in Nat : \E s \in SUBSET S : \E y \in s :
                   Cardinality(s) = n /\ Total(s) # f[y] + Total(s \ {y})}
<1>0. \A s \in SUBSET S : IsFiniteSet(s) /\ Cardinality(s) \in Nat /\ Total(s) \in Int
  BY FS_Subset, FS_CardinalityType, SumIsInt
<1>1. ASSUME NEW n \in T
      PROVE  \E m \in T : m < n
  <2>1. PICK s \in SUBSET S : \E y \in s :
          Cardinality(s) = n /\ Total(s) # f[y] + Total(s \ {y})
    OBVIOUS
  <2>0. PICK y \in s : Cardinality(s) = n /\ Total(s) # f[y] + Total(s \ {y})
    BY <2>1
  <2> DEFINE x == First(s)
  <2>2. x \in s
    BY <2>0 DEF First
  <2>3. Total(s) = f[x] + Total(s \ {x})
    BY <1>0, <2>2, SumFromFirst
  <2> HIDE DEF x, Total
  <2>4. x # y
    BY <2>0, <2>3
  <2>5. /\ s \ {x} \in SUBSET S /\ s \ {y} \in SUBSET S
        /\ Cardinality(s \ {x}) = n - 1 /\ Cardinality(s \ {y}) = n - 1
        /\ n - 1 \in Nat /\ n - 1 < n
    BY <1>0, <2>0, <2>2, Removed
  <2>6. SUFFICES ASSUME n - 1 \notin T PROVE FALSE
    BY <2>5
  <2> DEFINE rest == Total((s \ {x}) \ {y})
  <2>7. Total(s \ {x}) = f[y] + rest
    BY <2>0, <2>2, <2>4, <2>5, <2>6
  <2>8. (s \ {x}) \ {y} = (s \ {y}) \ {x}
    OBVIOUS
  <2>9. Total(s \ {y}) = f[x] + Total((s \ {y}) \ {x})
    BY <2>0, <2>2, <2>4, <2>5, <2>6
  <2>10. Total(s \ {y}) = f[x] + rest
    BY <2>8, <2>9
  <2>11. rest \in Int /\ f[x] \in Int /\ f[y] \in Int
    BY <1>0, <2>2, <2>0
  <2> HIDE DEF rest
  <2>12. Total(s) = f[x] + (f[y] + rest)
    BY <2>3, <2>7
  <2> QED
    BY <2>0, <2>10, <2>11, <2>12
<1>2. T = {}
  <2> HIDE DEF T
  <2>0. T \subseteq Nat
    BY DEF T
  <2> QED
    BY <1>1, <2>0, NoLeastCounterexample
<1> QED
  BY <1>0, <1>2

\* A sum is of the values on the set.
LEMMA SumOfSame ==
  ASSUME NEW S, IsFiniteSet(S), NEW f, NEW h, \A x \in S : f[x] = h[x]
  PROVE  SumFunctionOnSet(f, S) = SumFunctionOnSet(h, S)
<1> DEFINE T == {n \in Nat : \E s \in SUBSET S :
                   Cardinality(s) = n /\ SumFunctionOnSet(f, s) # SumFunctionOnSet(h, s)}
<1>0. \A s \in SUBSET S : IsFiniteSet(s) /\ Cardinality(s) \in Nat
  BY FS_Subset, FS_CardinalityType
<1>1. ASSUME NEW n \in T
      PROVE  \E m \in T : m < n
  <2>1. PICK s \in SUBSET S :
          Cardinality(s) = n /\ SumFunctionOnSet(f, s) # SumFunctionOnSet(h, s)
    OBVIOUS
  <2>2. s # {}
    BY <2>1, SumOfNothing
  <2>3. First(s) \in s
    BY <2>2 DEF First
  <2>4. /\ SumFunctionOnSet(f, s) = f[First(s)] + SumFunctionOnSet(f, s \ {First(s)})
        /\ SumFunctionOnSet(h, s) = h[First(s)] + SumFunctionOnSet(h, s \ {First(s)})
    BY <1>0, <2>2, SumFromFirst
  <2>5. SumFunctionOnSet(f, s \ {First(s)}) # SumFunctionOnSet(h, s \ {First(s)})
    BY <2>1, <2>3, <2>4
  <2>6. Cardinality(s \ {First(s)}) < n /\ Cardinality(s \ {First(s)}) \in Nat
    BY <1>0, <2>1, <2>3, Removed
  <2> QED
    BY <2>5, <2>6
<1>2. T = {}
  <2> HIDE DEF T
  <2>1. T \subseteq Nat
    BY DEF T
  <2> QED
    BY <1>1, <2>1, NoLeastCounterexample
<1> QED
  BY <1>0, <1>2

\* A function that is changed at one place.
LEMMA SumOfChanged ==
  ASSUME NEW S, IsFiniteSet(S), NEW f \in [S -> Int], NEW h \in [S -> Int], NEW e \in S,
         \A x \in S \ {e} : f[x] = h[x]
  PROVE  SumFunction(h) = SumFunction(f) - f[e] + h[e]
<1>1. IsFiniteSet(S \ {e})
  BY Removed
<1>2. SumFunctionOnSet(f, S \ {e}) = SumFunctionOnSet(h, S \ {e})
  BY <1>1, SumOfSame
<1>3. /\ SumFunctionOnSet(f, S) = f[e] + SumFunctionOnSet(f, S \ {e})
      /\ SumFunctionOnSet(h, S) = h[e] + SumFunctionOnSet(h, S \ {e})
  BY SumFromAny
<1>4. SumFunctionOnSet(f, S \ {e}) \in Int
  BY <1>1, SumIsInt
<1>5. SumFunction(f) = SumFunctionOnSet(f, S) /\ SumFunction(h) = SumFunctionOnSet(h, S)
  BY DEF SumFunction
<1> QED
  BY <1>2, <1>3, <1>4, <1>5

\* A larger function has a larger sum.
LEMMA SumIsMonotonic ==
  ASSUME NEW S, IsFiniteSet(S), NEW f, NEW h,
         \A x \in S : f[x] \in Int /\ h[x] \in Int /\ f[x] <= h[x]
  PROVE  SumFunctionOnSet(f, S) <= SumFunctionOnSet(h, S)
<1> DEFINE T == {n \in Nat : \E s \in SUBSET S :
                   /\ Cardinality(s) = n
                   /\ ~(SumFunctionOnSet(f, s) <= SumFunctionOnSet(h, s))}
<1>0. \A s \in SUBSET S : /\ IsFiniteSet(s) /\ Cardinality(s) \in Nat
                          /\ SumFunctionOnSet(f, s) \in Int
                          /\ SumFunctionOnSet(h, s) \in Int
  BY FS_Subset, FS_CardinalityType, SumIsInt
<1>1. ASSUME NEW n \in T
      PROVE  \E m \in T : m < n
  <2>1. PICK s \in SUBSET S :
          Cardinality(s) = n /\ ~(SumFunctionOnSet(f, s) <= SumFunctionOnSet(h, s))
    OBVIOUS
  <2>2. s # {}
    BY <2>1, SumOfNothing
  <2>3. First(s) \in s
    BY <2>2 DEF First
  <2>4. /\ SumFunctionOnSet(f, s) = f[First(s)] + SumFunctionOnSet(f, s \ {First(s)})
        /\ SumFunctionOnSet(h, s) = h[First(s)] + SumFunctionOnSet(h, s \ {First(s)})
    BY <1>0, <2>2, SumFromFirst
  <2>5. /\ SumFunctionOnSet(f, s \ {First(s)}) \in Int
        /\ SumFunctionOnSet(h, s \ {First(s)}) \in Int
    BY <1>0
  <2>6. ~(SumFunctionOnSet(f, s \ {First(s)}) <= SumFunctionOnSet(h, s \ {First(s)}))
    BY <1>0, <2>1, <2>3, <2>4, <2>5
  <2>7. Cardinality(s \ {First(s)}) < n /\ Cardinality(s \ {First(s)}) \in Nat
    BY <1>0, <2>1, <2>3, Removed
  <2> QED
    BY <2>6, <2>7
<1>2. T = {}
  <2> HIDE DEF T
  <2>1. T \subseteq Nat
    BY DEF T
  <2> QED
    BY <1>1, <2>1, NoLeastCounterexample
<1> QED
  BY <1>0, <1>2

\* The same for whole functions.
LEMMA SumFunctionIsInt ==
  ASSUME NEW S, IsFiniteSet(S), NEW f \in [S -> Int]
  PROVE  SumFunction(f) \in Int
BY SumIsInt DEF SumFunction

LEMMA SumFunctionIsMonotonic ==
  ASSUME NEW S, IsFiniteSet(S), NEW f \in [S -> Int], NEW h \in [S -> Int],
         \A x \in S : f[x] <= h[x]
  PROVE  SumFunction(f) <= SumFunction(h)
<1>1. SumFunctionOnSet(f, S) <= SumFunctionOnSet(h, S)
  BY SumIsMonotonic
<1> QED
  BY <1>1 DEF SumFunction

\* A sum of zeros.
LEMMA SumOfZeros ==
  ASSUME NEW S, IsFiniteSet(S), NEW f, \A x \in S : f[x] = 0
  PROVE  SumFunctionOnSet(f, S) = 0
<1> DEFINE T == {n \in Nat : \E s \in SUBSET S :
                   Cardinality(s) = n /\ SumFunctionOnSet(f, s) # 0}
<1>0. \A s \in SUBSET S : IsFiniteSet(s) /\ Cardinality(s) \in Nat
  BY FS_Subset, FS_CardinalityType
<1>1. ASSUME NEW n \in T
      PROVE  \E m \in T : m < n
  <2>1. PICK s \in SUBSET S : Cardinality(s) = n /\ SumFunctionOnSet(f, s) # 0
    OBVIOUS
  <2>2. IsFiniteSet(s) /\ s # {}
    BY <2>1, <1>0, SumOfNothing
  <2> DEFINE e == First(s)
             r == s \ {e}
  <2>3. e \in s
    BY <2>2 DEF First
  <2>4. SumFunctionOnSet(f, s) = f[e] + SumFunctionOnSet(f, r)
    BY <2>2, SumFromFirst
  <2> HIDE DEF e
  <2>5. Cardinality(r) < n /\ Cardinality(r) \in Nat /\ r \in SUBSET S
    BY <2>1, <2>2, <2>3, <1>0, Removed
  <2>6. SumFunctionOnSet(f, r) # 0
    BY <2>1, <2>3, <2>4
  <2> QED
    BY <2>5, <2>6
<1>2. T = {}
  <2> HIDE DEF T
  <2>1. T \subseteq Nat
    BY DEF T
  <2> QED
    BY <1>1, <2>1, NoLeastCounterexample
<1>3. S \in SUBSET S /\ Cardinality(S) \in Nat
  BY <1>0
<1> QED
  BY <1>2, <1>3

\* A sum of naturals is no less than any of them.
LEMMA SumHasItsTerms ==
  ASSUME NEW S, IsFiniteSet(S), NEW f \in [S -> Nat]
  PROVE  SumFunction(f) >= 0 /\ \A e \in S : SumFunction(f) >= f[e]
<1> DEFINE z == [x \in S |-> 0]
<1>1. \A s \in SUBSET S :
        IsFiniteSet(s) /\ SumFunctionOnSet(f, s) \in Int /\ SumFunctionOnSet(f, s) >= 0
  <2> TAKE s \in SUBSET S
  <2>1. IsFiniteSet(s)
    BY FS_Subset
  <2>2. SumFunctionOnSet(z, s) = 0
    BY <2>1, SumOfZeros
  <2>3. SumFunctionOnSet(z, s) <= SumFunctionOnSet(f, s) /\ SumFunctionOnSet(f, s) \in Int
    BY <2>1, SumIsMonotonic, SumIsInt
  <2> QED
    BY <2>1, <2>2, <2>3
<1>2. SumFunction(f) = SumFunctionOnSet(f, S)
  BY DEF SumFunction
<1>3. ASSUME NEW e \in S
      PROVE  SumFunctionOnSet(f, S) >= f[e]
  <2>1. SumFunctionOnSet(f, S) = f[e] + SumFunctionOnSet(f, S \ {e})
    BY SumFromAny
  <2>2. SumFunctionOnSet(f, S \ {e}) \in Int /\ SumFunctionOnSet(f, S \ {e}) >= 0 /\ f[e] \in Nat
    BY <1>1
  <2> QED
    BY <2>1, <2>2
<1>4. S \in SUBSET S
  OBVIOUS
<1> QED
  BY <1>1, <1>2, <1>3, <1>4

\* A function that is changed at one place, or defined at one place more.
LEMMA SumOfOneMore ==
  ASSUME NEW S, IsFiniteSet(S), NEW e, NEW f \in [S -> Int], NEW h \in [S \cup {e} -> Int],
         \A x \in S \ {e} : f[x] = h[x]
  PROVE  SumFunction(h) = SumFunction(f) - (IF e \in S THEN f[e] ELSE 0) + h[e]
<1>1. CASE e \in S
  <2>1. S \cup {e} = S
    BY <1>1
  <2>2. SumFunction(h) = SumFunction(f) - f[e] + h[e]
    BY <2>1, <1>1, SumOfChanged
  <2> QED
    BY <2>2, <1>1
<1>2. CASE e \notin S
  <2> DEFINE more == S \cup {e}
  <2>1. IsFiniteSet(more) /\ e \in more /\ more \ {e} = S
    BY <1>2, FS_AddElement
  <2>2. \A x \in more : h[x] \in Int
    OBVIOUS
  <2> HIDE DEF more
  <2>3. SumFunctionOnSet(h, more) = h[e] + SumFunctionOnSet(h, more \ {e})
    BY <2>1, <2>2, SumFromAny
  <2>4. SumFunctionOnSet(f, S) = SumFunctionOnSet(h, S)
    BY <1>2, SumOfSame
  <2>5. SumFunctionOnSet(f, S) \in Int /\ h[e] \in Int
    BY <2>1, <2>2, SumIsInt
  <2>6. SumFunction(h) = SumFunctionOnSet(h, more) /\ SumFunction(f) = SumFunctionOnSet(f, S)
    BY DEF SumFunction, more
  <2> DEFINE a == SumFunction(f)
             b == SumFunction(h)
             v == h[e]
  <2>7. b = v + a /\ a \in Int /\ v \in Int
    BY <2>1, <2>3, <2>4, <2>5, <2>6
  <2> HIDE DEF a, b, v
  <2>8. b = a - 0 + v
    BY <2>7
  <2> QED
    BY <2>8, <1>2 DEF a, b, v
<1> QED
  BY <1>1, <1>2

-----------------------------------------------------------------------------
(* Folds over sequences: FoldLeft(op, base, seq) takes the last position first and goes on *)
(* with those before it, FoldRight the first one.  An operator cannot be a parameter of a  *)
(* lemma, so op is given as a function on the values V that the fold goes through.         *)

\* The smallest and the largest of a set of numbers.
LEMMA MinIs ==
  ASSUME NEW S, NEW m \in S, S \subseteq Int, \A x \in S : m <= x
  PROVE  Min(S) = m
<1> DEFINE y == Min(S)
<1>1. y \in S /\ \A x \in S : y <= x
  BY DEF Min
<1> HIDE DEF y
<1>2. y = m
  BY <1>1
<1> QED
  BY <1>2 DEF y

LEMMA MaxIs ==
  ASSUME NEW S, NEW m \in S, S \subseteq Int, \A x \in S : m >= x
  PROVE  Max(S) = m
<1> DEFINE y == Max(S)
<1>1. y \in S /\ \A x \in S : y >= x
  BY DEF Max
<1> HIDE DEF y
<1>2. y = m
  BY <1>1
<1> QED
  BY <1>2 DEF y

\* Positions of a sequence have a first and a last one.
LEMMA PositionsHaveEnds ==
  ASSUME NEW n \in Nat, NEW s \in SUBSET (1 .. n), s # {}
  PROVE  /\ Min(s) \in s /\ \A x \in s : Min(s) <= x
         /\ Max(s) \in s /\ \A x \in s : Max(s) >= x
<1>0. s \subseteq Nat
  OBVIOUS
<1>1. PICK m \in s : \A x \in s : ~(x < m)
  BY <1>0, LeastNatural
<1>2. m \in Int /\ s \subseteq Int /\ \A x \in s : m <= x
  BY <1>0, <1>1
<1>3. Min(s) = m
  BY <1>2, MinIs
<1> DEFINE T == {n - x : x \in s}
<1>4. T \subseteq Nat /\ T # {}
  <2>1. \A x \in s : n - x \in Nat
    OBVIOUS
  <2>2. m \in s
    OBVIOUS
  <2>3. n - m \in T
    BY <2>2
  <2> QED
    BY <2>1, <2>3
<1>5. PICK t \in T : \A x \in T : ~(x < t)
  BY <1>4, LeastNatural
<1>6. PICK l \in s : t = n - l
  OBVIOUS
<1>7. \A x \in s : l >= x
  <2> TAKE x \in s
  <2>1. n - x \in T /\ x \in Int /\ l \in Int
    OBVIOUS
  <2>2. ~(n - x < n - l)
    BY <2>1, <1>5, <1>6
  <2> QED
    BY <2>1, <2>2
<1>8. Max(s) = l
  BY <1>7, <1>2, MaxIs
<1> QED
  BY <1>2, <1>3, <1>7, <1>8

\* The positions up to i, and those from i on.
LEMMA UpTo ==
  ASSUME NEW n \in Nat, NEW i \in 1 .. n
  PROVE  /\ 1 .. i \in SUBSET (1 .. n) /\ 1 .. i # {}
         /\ Max(1 .. i) = i /\ (1 .. i) \ {i} = 1 .. (i - 1)
<1>1. i \in 1 .. i /\ 1 .. i \subseteq Int /\ \A x \in 1 .. i : i >= x
  OBVIOUS
<1>2. Max(1 .. i) = i
  BY <1>1, MaxIs
<1> QED
  BY <1>1, <1>2

LEMMA FromOn ==
  ASSUME NEW n \in Nat, NEW i \in 1 .. n
  PROVE  /\ i .. n \in SUBSET (1 .. n) /\ i .. n # {}
         /\ Min(i .. n) = i /\ (i .. n) \ {i} = (i + 1) .. n
<1>1. i \in i .. n /\ i .. n \subseteq Int /\ \A x \in i .. n : i <= x
  OBVIOUS
<1>2. Min(i .. n) = i
  BY <1>1, MinIs
<1> QED
  BY <1>1, <1>2

\* g is the function that a fold with F recurs on, when choice says which element is next.
NextFold(g, F, base, choice, s) ==
  IF s = {} THEN base ELSE F[<<g[s \ {choice[s]}], choice[s]>>]
IsFold(g, F, base, choice, D) == g = [s \in SUBSET D |-> NextFold(g, F, base, choice, s)]
IsPartialFold(g, F, base, choice, D, n) ==
  g = [s \in Small(D, n) |-> NextFold(g, F, base, choice, s)]

\* A function that satisfies the recursion exists for subsets of any size.
LEMMA PartialFoldExists ==
  ASSUME NEW D, IsFiniteSet(D), NEW F, NEW base, NEW choice,
         \A s \in SUBSET D : s # {} => choice[s] \in s
  PROVE  \A n \in Nat : \E g : IsPartialFold(g, F, base, choice, D, n)
<1> DEFINE T == {n \in Nat : ~\E g : IsPartialFold(g, F, base, choice, D, n)}
<1>0. \A s \in SUBSET D : IsFiniteSet(s) /\ Cardinality(s) \in Nat
  BY FS_Subset, FS_CardinalityType
<1>1. ASSUME NEW n \in T
      PROVE  \E m \in T : m < n
  <2>1. CASE n = 0
    <3> DEFINE g == [s \in Small(D, 0) |-> base]
    <3>1. \A s \in Small(D, 0) : s = {}
      BY <1>0, FS_EmptySet DEF Small
    <3>2. IsPartialFold(g, F, base, choice, D, 0)
      BY <3>1 DEF IsPartialFold, NextFold
    <3> QED
      BY <2>1, <3>2
  <2>2. CASE n # 0
    <3>1. n \in Nat /\ n - 1 \in Nat /\ n - 1 < n
      BY <2>2
    <3>2. SUFFICES ASSUME n - 1 \notin T PROVE FALSE
      BY <3>1
    <3>3. PICK h : IsPartialFold(h, F, base, choice, D, n - 1)
      BY <3>1, <3>2
    <3> DEFINE g == [s \in Small(D, n) |-> NextFold(h, F, base, choice, s)]
    <3>4. ASSUME NEW s \in Small(D, n), s # {}
          PROVE  s \ {choice[s]} \in Small(D, n - 1)
      <4>1. choice[s] \in s
        BY <3>4 DEF Small
      <4> QED
        BY <4>1, <1>0, <3>1, Removed DEF Small
    <3>5. \A s \in Small(D, n - 1) : s \in Small(D, n)
      BY <3>1, <1>0 DEF Small
    <3>6. \A s \in Small(D, n - 1) : g[s] = h[s]
      BY <3>3, <3>5 DEF IsPartialFold
    <3>7. \A s \in Small(D, n) :
            NextFold(h, F, base, choice, s) = NextFold(g, F, base, choice, s)
      <4> HIDE DEF g
      <4> QED
        BY <3>4, <3>6 DEF NextFold
    <3>8. IsPartialFold(g, F, base, choice, D, n)
      BY <3>7 DEF IsPartialFold
    <3> QED
      BY <3>8
  <2> QED
    BY <2>1, <2>2
<1>2. T = {}
  <2> HIDE DEF T
  <2>1. T \subseteq Nat
    BY DEF T
  <2> QED
    BY <1>1, <2>1, NoLeastCounterexample
<1> QED
  BY <1>2

\* F can be folded over D without leaving V, and is.
CanFold(F, base, choice, D, V) ==
  /\ IsFiniteSet(D) /\ base \in V /\ F \in [V \X D -> V]
  /\ \A s \in SUBSET D : s # {} => choice[s] \in s
Folds(F, base, choice, D, V) ==
  \E g : IsFold(g, F, base, choice, D) /\ \A s \in SUBSET D : g[s] \in V

\* The recursion of a fold is satisfied by some function, which stays within V.
LEMMA FoldExists ==
  ASSUME NEW D, NEW V, NEW base, NEW F, NEW choice, CanFold(F, base, choice, D, V)
  PROVE  Folds(F, base, choice, D, V)
<1> USE DEF CanFold
<1>0. \A s \in SUBSET D : IsFiniteSet(s) /\ Cardinality(s) \in Nat
  BY FS_Subset, FS_CardinalityType
<1>1. Cardinality(D) \in Nat
  BY FS_CardinalityType
<1>2. PICK g : IsPartialFold(g, F, base, choice, D, Cardinality(D))
  BY <1>1, PartialFoldExists
<1>3. Small(D, Cardinality(D)) = SUBSET D
  BY FS_Subset DEF Small
<1>4. IsFold(g, F, base, choice, D)
  BY <1>2, <1>3 DEF IsFold, IsPartialFold
<1> DEFINE T == {n \in Nat : \E s \in SUBSET D : Cardinality(s) = n /\ g[s] \notin V}
<1>5. ASSUME NEW n \in T
      PROVE  \E m \in T : m < n
  <2>1. PICK s \in SUBSET D : Cardinality(s) = n /\ g[s] \notin V
    OBVIOUS
  <2> DEFINE x == choice[s]
  <2>2. s # {} /\ x \in s /\ g[s] = F[<<g[s \ {x}], x>>]
    BY <2>1, <1>4 DEF IsFold, NextFold
  <2>3. g[s \ {x}] \notin V
    BY <2>1, <2>2
  <2>4. Cardinality(s \ {x}) < n /\ Cardinality(s \ {x}) \in Nat
    BY <1>0, <2>1, <2>2, Removed
  <2> QED
    BY <2>3, <2>4
<1>6. T = {}
  <2> HIDE DEF T
  <2>1. T \subseteq Nat
    BY DEF T
  <2> QED
    BY <1>5, <2>1, NoLeastCounterexample
<1> QED
  BY <1>0, <1>4, <1>6 DEF Folds

\* What FoldLeft recurs on.
LeftFolds(F, base, n, V) ==
  \E g : /\ \A s \in SUBSET (1 .. n) : g[s] \in V
        /\ g = [s \in SUBSET (1 .. n) |->
                  IF s = {} THEN base ELSE F[<<g[s \ {Max(s)}], Max(s)>>]]

LEMMA LeftFoldExists ==
  ASSUME NEW n \in Nat, NEW V, NEW base \in V, NEW F \in [V \X (1 .. n) -> V]
  PROVE  LeftFolds(F, base, n, V)
<1> DEFINE choice == [s \in SUBSET (1 .. n) |-> Max(s)]
<1>1. \A s \in SUBSET (1 .. n) : s # {} => choice[s] \in s
  BY PositionsHaveEnds
<1>2. IsFiniteSet(1 .. n)
  BY FS_Interval
<1> HIDE DEF choice
<1>3. PICK g : IsFold(g, F, base, choice, 1 .. n) /\ \A s \in SUBSET (1 .. n) : g[s] \in V
  <2>1. CanFold(F, base, choice, 1 .. n, V)
    BY <1>1, <1>2 DEF CanFold
  <2>2. Folds(F, base, choice, 1 .. n, V)
    BY <2>1, FoldExists
  <2> QED
    BY <2>2 DEF Folds
<1>4. \A s \in SUBSET (1 .. n) : choice[s] = Max(s)
  BY DEF choice
<1>5. \A s \in SUBSET (1 .. n) : NextFold(g, F, base, choice, s) =
        IF s = {} THEN base ELSE F[<<g[s \ {Max(s)}], Max(s)>>]
  BY <1>4 DEF NextFold
<1>6. g = [s \in SUBSET (1 .. n) |-> IF s = {} THEN base ELSE F[<<g[s \ {Max(s)}], Max(s)>>]]
  BY <1>3, <1>5 DEF IsFold
<1> QED
  BY <1>3, <1>6 DEF LeftFolds

\* What FoldRight recurs on.
RightFolds(F, base, n, V) ==
  \E g : /\ \A s \in SUBSET (1 .. n) : g[s] \in V
        /\ g = [s \in SUBSET (1 .. n) |->
                  IF s = {} THEN base ELSE F[<<g[s \ {Min(s)}], Min(s)>>]]

LEMMA RightFoldExists ==
  ASSUME NEW n \in Nat, NEW V, NEW base \in V, NEW F \in [V \X (1 .. n) -> V]
  PROVE  RightFolds(F, base, n, V)
<1> DEFINE choice == [s \in SUBSET (1 .. n) |-> Min(s)]
<1>1. \A s \in SUBSET (1 .. n) : s # {} => choice[s] \in s
  BY PositionsHaveEnds
<1>2. IsFiniteSet(1 .. n)
  BY FS_Interval
<1> HIDE DEF choice
<1>3. PICK g : IsFold(g, F, base, choice, 1 .. n) /\ \A s \in SUBSET (1 .. n) : g[s] \in V
  <2>1. CanFold(F, base, choice, 1 .. n, V)
    BY <1>1, <1>2 DEF CanFold
  <2>2. Folds(F, base, choice, 1 .. n, V)
    BY <2>1, FoldExists
  <2> QED
    BY <2>2 DEF Folds
<1>4. \A s \in SUBSET (1 .. n) : choice[s] = Min(s)
  BY DEF choice
<1>5. \A s \in SUBSET (1 .. n) : NextFold(g, F, base, choice, s) =
        IF s = {} THEN base ELSE F[<<g[s \ {Min(s)}], Min(s)>>]
  BY <1>4 DEF NextFold
<1>6. g = [s \in SUBSET (1 .. n) |-> IF s = {} THEN base ELSE F[<<g[s \ {Min(s)}], Min(s)>>]]
  BY <1>3, <1>5 DEF IsFold
<1> QED
  BY <1>3, <1>6 DEF RightFolds

-----------------------------------------------------------------------------
(* Recursive functions: x[i] is given by the values of x at lower ranks *)

\* G says what the value at i is when the function is h; D, V: its domain and range.
IsRanked(G, D, V, rank) ==
  /\ rank \in [D -> Nat]
  /\ G \in [[D -> V] \X D -> V]
  /\ \A h, k \in [D -> V], i \in D :
       (\A j \in D : rank[j] < rank[i] => h[j] = k[j]) => G[<<h, i>>] = G[<<k, i>>]

\* h is right at the ranks below n.
Solves(h, n, G, D, V, rank) ==
  h \in [D -> V] /\ \A i \in D : rank[i] < n => h[i] = G[<<h, i>>]

HasSolution(G, D, V) == \E g \in [D -> V] : \A i \in D : g[i] = G[<<g, i>>]

\* The values up to any rank can be had, one rank after the other.
LEMMA PartialSolutionExists ==
  ASSUME NEW G, NEW D, NEW V, V # {}, NEW rank, IsRanked(G, D, V, rank)
  PROVE  \A n \in Nat : \E h : Solves(h, n, G, D, V, rank)
<1>1. /\ \A i \in D : rank[i] \in Nat
      /\ \A h \in [D -> V], i \in D : G[<<h, i>>] \in V
      /\ \A h, k \in [D -> V], i \in D :
           (\A j \in D : rank[j] < rank[i] => h[j] = k[j]) => G[<<h, i>>] = G[<<k, i>>]
  BY DEF IsRanked
<1> DEFINE S(h, n) == Solves(h, n, G, D, V, rank)
           T == {n \in Nat : ~\E h : S(h, n)}
<1>2. ASSUME NEW n \in T
      PROVE  \E m \in T : m < n
  <2>1. CASE n = 0
    <3>1. PICK v \in V : TRUE
      OBVIOUS
    <3> DEFINE h == [i \in D |-> v]
    <3>2. h \in [D -> V] /\ \A i \in D : ~(rank[i] < 0)
      BY <1>1
    <3> HIDE DEF h
    <3>3. S(h, 0)
      BY <3>2 DEF Solves
    <3> QED
      BY <3>3, <2>1
  <2>2. CASE n # 0
    <3> SUFFICES ASSUME NEW h, S(h, n - 1)
                 PROVE  \E k : S(k, n)
      BY <2>2
    <3> DEFINE k == [i \in D |-> IF rank[i] = n - 1 THEN G[<<h, i>>] ELSE h[i]]
    <3>0. h \in [D -> V] /\ \A i \in D : rank[i] < n - 1 => h[i] = G[<<h, i>>]
      BY DEF Solves
    <3>1. k \in [D -> V]
      BY <1>1, <3>0
    <3>2. \A i \in D : k[i] = IF rank[i] = n - 1 THEN G[<<h, i>>] ELSE h[i]
      OBVIOUS
    <3> HIDE DEF k
    <3>3. ASSUME NEW i \in D, rank[i] < n
          PROVE  k[i] = G[<<k, i>>]
      <4>1. \A j \in D : rank[j] < rank[i] => h[j] = k[j]
        <5> SUFFICES ASSUME NEW j \in D, rank[j] < rank[i]
                     PROVE  h[j] = k[j]
          OBVIOUS
        <5> DEFINE x == rank[j]
                   y == rank[i]
        <5>1. x \in Nat /\ y \in Nat /\ n \in Nat /\ x < y /\ y < n
          BY <3>3, <1>1
        <5> HIDE DEF x, y
        <5>2. x # n - 1
          BY <5>1
        <5> QED
          BY <5>2, <3>2 DEF x
      <4>2. G[<<h, i>>] = G[<<k, i>>]
        BY <4>1, <3>0, <3>1, <1>1
      <4>3. rank[i] # n - 1 => rank[i] < n - 1
        <5> DEFINE y == rank[i]
        <5>1. y \in Nat /\ n \in Nat /\ y < n
          BY <3>3, <1>1
        <5> HIDE DEF y
        <5>2. y # n - 1 => y < n - 1
          BY <5>1
        <5> QED
          BY <5>2 DEF y
      <4> QED
        BY <3>0, <3>2, <4>2, <4>3
    <3>4. S(k, n)
      BY <3>1, <3>3 DEF Solves
    <3> QED
      BY <3>4
  <2> QED
    BY <2>1, <2>2
<1>3. T = {}
  <2> HIDE DEF T
  <2>1. T \subseteq Nat
    BY DEF T
  <2> QED
    BY <1>2, <2>1, NoLeastCounterexample
<1> QED
  BY <1>3

\* Two of them agree where both are right.
LEMMA PartialSolutionsAgree ==
  ASSUME NEW G, NEW D, NEW V, NEW rank, IsRanked(G, D, V, rank),
         NEW h, NEW n \in Nat, Solves(h, n, G, D, V, rank),
         NEW k, NEW m \in Nat, Solves(k, m, G, D, V, rank)
  PROVE  \A i \in D : rank[i] < n /\ rank[i] < m => h[i] = k[i]
<1>1. /\ \A i \in D : rank[i] \in Nat
      /\ h \in [D -> V] /\ \A i \in D : rank[i] < n => h[i] = G[<<h, i>>]
      /\ k \in [D -> V] /\ \A i \in D : rank[i] < m => k[i] = G[<<k, i>>]
      /\ \A i \in D :
           (\A j \in D : rank[j] < rank[i] => h[j] = k[j]) => G[<<h, i>>] = G[<<k, i>>]
  BY DEF IsRanked, Solves
<1> DEFINE T == {r \in Nat : \E i \in D : /\ rank[i] = r /\ r < n /\ r < m
                                          /\ h[i] # k[i]}
<1>2. ASSUME NEW r \in T
      PROVE  \E s \in T : s < r
  <2>1. PICK i \in D : rank[i] = r /\ r < n /\ r < m /\ h[i] # k[i]
    OBVIOUS
  <2>2. G[<<h, i>>] # G[<<k, i>>]
    BY <2>1, <1>1
  <2>3. PICK j \in D : rank[j] < rank[i] /\ h[j] # k[j]
    BY <2>2, <1>1
  <2> DEFINE x == rank[j]
  <2>4. x \in Nat /\ r \in Nat /\ x < r /\ r < n /\ r < m
    BY <2>1, <2>3, <1>1
  <2> HIDE DEF x
  <2>5. x < n /\ x < m
    BY <2>4
  <2> QED
    BY <2>3, <2>4, <2>5 DEF x
<1>3. T = {}
  <2> HIDE DEF T
  <2>1. T \subseteq Nat
    BY DEF T
  <2> QED
    BY <1>2, <2>1, NoLeastCounterexample
<1> QED
  BY <1>1, <1>3

\* Hence all values together, each from a solution that reaches it.
LEMMA RecursionHasSolution ==
  ASSUME NEW G, NEW D, NEW V, V # {}, NEW rank, IsRanked(G, D, V, rank)
  PROVE  HasSolution(G, D, V)
<1> DEFINE S(h, n) == Solves(h, n, G, D, V, rank)
           upTo == [n \in Nat |-> CHOOSE h : S(h, n)]
           g == [i \in D |-> upTo[rank[i] + 1][i]]
<1>1. /\ \A i \in D : rank[i] \in Nat
      /\ \A h, k \in [D -> V], i \in D :
           (\A j \in D : rank[j] < rank[i] => h[j] = k[j]) => G[<<h, i>>] = G[<<k, i>>]
  BY DEF IsRanked
<1>2. \A n \in Nat : S(upTo[n], n)
  BY PartialSolutionExists
<1>3. \A i \in D : g[i] = upTo[rank[i] + 1][i] /\ rank[i] + 1 \in Nat
  BY <1>1
<1>4. g \in [D -> V]
  <2>1. \A i \in D : upTo[rank[i] + 1] \in [D -> V]
    BY <1>2, <1>3 DEF Solves
  <2> QED
    BY <2>1
<1> HIDE DEF upTo, g
<1>5. ASSUME NEW i \in D
      PROVE  g[i] = G[<<g, i>>]
  <2> DEFINE r == rank[i]
             h == upTo[r + 1]
  <2>0. r \in Nat /\ r + 1 \in Nat /\ r < r + 1
    BY <1>1
  <2>1. S(h, r + 1)
    BY <1>2, <2>0
  <2>2. h \in [D -> V] /\ h[i] = G[<<h, i>>]
    BY <2>1, <2>0 DEF Solves
  <2>3. ASSUME NEW j \in D, rank[j] < r
        PROVE  g[j] = h[j]
    <3> DEFINE q == rank[j]
    <3>1. q \in Nat /\ q + 1 \in Nat /\ q < q + 1 /\ q < r + 1
      BY <2>3, <2>0, <1>1
    <3>2. S(upTo[q + 1], q + 1)
      BY <1>2, <3>1
    <3> HIDE DEF h, r, S
    <3>3. upTo[q + 1][j] = h[j]
      BY <2>0, <2>1, <3>1, <3>2, PartialSolutionsAgree DEF S
    <3> QED
      BY <3>3, <1>3
  <2>4. G[<<g, i>>] = G[<<h, i>>]
    BY <2>2, <2>3, <1>1, <1>4
  <2> QED
    BY <2>2, <2>4, <1>3
<1> QED
  BY <1>4, <1>5 DEF HasSolution
=============================================================================

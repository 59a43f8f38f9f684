---------------------------- MODULE NumberFacts ----------------------------
(***************************************************************************)
(* Facts about integers and about sums over finite sets that the proofs    *)
(* share: quotients, products, and what a sum becomes when one summand     *)
(* changes, comes or goes.                                                 *)
(***************************************************************************)
EXTENDS Integers, Functions, FiniteSetTheorems, WellFoundedInduction, TLAPS

---------------------------------------------------------------------------
(* Quotients and products *)

LEMMA DivFacts ==
  ASSUME NEW a \in Nat, NEW b \in Nat, b > 0
  PROVE  a \div b \in Nat /\ (a \div b) * b <= a /\ a \div b <= a
<1>1. a = b * (a \div b) + (a % b) /\ (a % b) \in 0..(b - 1) /\ a \div b \in Int
  OBVIOUS
<1>2. a \div b \in Nat
  OBVIOUS
<1>3. (a \div b) * b <= a
  BY <1>1, <1>2
<1>4. (a \div b) * 1 <= (a \div b) * b
  BY <1>2
<1> QED
  BY <1>2, <1>3, <1>4

\* The remainder of a division is smaller than the divisor.
LEMMA DivAbove ==
  ASSUME NEW a \in Nat, NEW b \in Nat, b > 0
  PROVE  a < (a \div b + 1) * b
<1>1. a = b * (a \div b) + (a % b) /\ (a % b) \in 0..(b - 1) /\ a \div b \in Int
  OBVIOUS
<1>2. (a \div b + 1) * b = b * (a \div b) + b
  BY <1>1
<1> QED
  BY <1>1, <1>2

\* Monotonicity of products, for the steps below.
LEMMA MulMono ==
  ASSUME NEW a \in Nat, NEW b \in Nat, NEW c \in Nat, a <= b
  PROVE  a * c <= b * c /\ a * c \in Nat
OBVIOUS

LEMMA MulCancel ==
  ASSUME NEW a \in Nat, NEW b \in Nat, NEW c \in Nat, c > 0, a * c <= b * c
  PROVE  a <= b
OBVIOUS

---------------------------------------------------------------------------
(* Induction, for sets of natural numbers in place of predicates *)

LEMMA Least ==
  ASSUME NEW N, N \subseteq Nat, N # {}
  PROVE  \E n \in N : \A m \in N : n <= m
<1> DEFINE R == OpToRel(<, Nat)
<1>1. \E x \in N : \A y \in N : ~ (<<y, x>> \in R)
  <2>1. IsWellFoundedOn(R, Nat)
    BY NatLessThanWellFounded
  <2> HIDE DEF R
  <2> QED
    BY <2>1, WFMin
<1>2. \A x, y \in Nat : y < x => <<y, x>> \in R
  BY DEF OpToRel
<1> HIDE DEF R
<1>3. PICK n \in N : \A y \in N : ~ (<<y, n>> \in R)
  BY <1>1
<1>4. \A m \in N : ~ (m < n) /\ m \in Nat /\ n \in Nat
  BY <1>2, <1>3
<1>5. \A m \in N : n <= m
  BY <1>4
<1> QED
  BY <1>5

LEMMA Greatest ==
  ASSUME NEW N, N \subseteq Nat, N # {}, NEW top \in Nat, \A n \in N : n <= top
  PROVE  \E n \in N : \A m \in N : n >= m
<1> DEFINE D == {top - n : n \in N}
<1>1. D \subseteq Nat /\ D # {}
  <2>1. \A n \in N : top - n \in Nat
    OBVIOUS
  <2>2. D \subseteq Nat
    BY <2>1
  <2>3. PICK n \in N : TRUE
    OBVIOUS
  <2>4. top - n \in D
    BY <2>3
  <2> QED
    BY <2>2, <2>4
<1>2. PICK d \in D : \A e \in D : d <= e
  <2> HIDE DEF D
  <2> QED
    BY <1>1, Least
<1>3. PICK n \in N : d = top - n
  BY <1>2
<1>4. \A m \in N : top - n <= top - m /\ m \in Nat /\ n \in Nat
  BY <1>2, <1>3
<1> QED
  BY <1>4

LEMMA NatSetInduction ==
  ASSUME NEW P, P \subseteq Nat, 0 \in P, \A n \in P : n + 1 \in P
  PROVE  P = Nat
<1> SUFFICES ASSUME Nat \ P # {} PROVE FALSE
  OBVIOUS
<1>1. PICK n \in Nat \ P : \A m \in Nat \ P : n <= m
  BY Least
<1>2. n # 0 /\ n - 1 \in Nat
  BY <1>1
<1>3. n - 1 \in P
  BY <1>1, <1>2
<1> QED
  BY <1>1, <1>2, <1>3

---------------------------------------------------------------------------
(* Sums over finite sets *)

\* The element that the fold of the library takes next.
Pick(s) == CHOOSE x \in s : TRUE

\* The function that the fold computes on the subsets of S.
IsSum(g, f, S) ==
  g = [s \in SUBSET S |-> IF s = {} THEN 0 ELSE f[Pick(s)] + g[s \ {Pick(s)}]]

LEMMA PickFacts ==
  ASSUME NEW S, IsFiniteSet(S), NEW s \in SUBSET S
  PROVE  /\ IsFiniteSet(s) /\ Cardinality(s) \in Nat
         /\ Cardinality(s) = 0 <=> s = {}
         /\ s # {} => Pick(s) \in s
         /\ \A x \in s : s \ {x} \in SUBSET S /\ Cardinality(s \ {x}) = Cardinality(s) - 1
<1>1. IsFiniteSet(s)
  BY FS_Subset
<1>2. Cardinality(s) \in Nat /\ (Cardinality(s) = 0 <=> s = {})
  BY <1>1, FS_CardinalityType, FS_EmptySet
<1>3. s # {} => Pick(s) \in s
  BY DEF Pick
<1>4. \A x \in s : s \ {x} \in SUBSET S /\ Cardinality(s \ {x}) = Cardinality(s) - 1
  BY <1>1, FS_RemoveElement
<1> QED
  BY <1>1, <1>2, <1>3, <1>4

\* What holds of the empty set, and of a set whenever it holds of all sets with
\* one element less, holds of every subset of a finite set.
LEMMA SubsetInduction ==
  ASSUME NEW S, IsFiniteSet(S), NEW P,
         \A s \in SUBSET S : (\A x \in s : s \ {x} \in P) => s \in P
  PROVE  SUBSET S \subseteq P
<1> DEFINE Q == {n \in Nat : \A s \in SUBSET S : Cardinality(s) <= n => s \in P}
<1>1. 0 \in Q
  <2> SUFFICES ASSUME NEW s \in SUBSET S, Cardinality(s) <= 0 PROVE s \in P
    OBVIOUS
  <2>1. s = {}
    BY PickFacts
  <2> QED
    BY <2>1
<1>2. ASSUME NEW n \in Q
      PROVE  n + 1 \in Q
  <2> SUFFICES ASSUME NEW s \in SUBSET S, Cardinality(s) <= n + 1 PROVE s \in P
    OBVIOUS
  <2>1. \A x \in s : s \ {x} \in SUBSET S /\ Cardinality(s \ {x}) <= n
    BY PickFacts
  <2> QED
    BY <2>1
<1> HIDE DEF Q
<1>3. Q = Nat
  <2>1. Q \subseteq Nat
    BY DEF Q
  <2> QED
    BY <1>1, <1>2, <2>1, NatSetInduction
<1>4. ASSUME NEW s \in SUBSET S
      PROVE  s \in P
  <2>1. Cardinality(s) \in Nat
    BY PickFacts
  <2>2. Cardinality(s) \in Q /\ Cardinality(s) <= Cardinality(s)
    BY <1>3, <2>1
  <2> QED
    BY <2>2 DEF Q
<1> QED
  BY <1>4

\* Partial sums up to any number of elements exist, and so does the whole.
LEMMA SumExists ==
  ASSUME NEW S, IsFiniteSet(S), NEW f \in [S -> Int]
  PROVE  \E g : IsSum(g, f, S)
<1> DEFINE Rhs(g, s) == IF s = {} THEN 0 ELSE f[Pick(s)] + g[s \ {Pick(s)}]
           Upto(g, n) == \A s \in SUBSET S : Cardinality(s) <= n => g[s] = Rhs(g, s)
           Q == {n \in Nat : \E g \in [SUBSET S -> Int] : Upto(g, n)}
<1>1. 0 \in Q
  <2> DEFINE g == [s \in SUBSET S |-> 0]
  <2>1. \A s \in SUBSET S : Cardinality(s) <= 0 => s = {}
    BY PickFacts
  <2>2. g \in [SUBSET S -> Int] /\ Upto(g, 0)
    BY <2>1
  <2> HIDE DEF g
  <2> QED
    BY <2>2
<1>2. ASSUME NEW n \in Q
      PROVE  n + 1 \in Q
  <2>1. PICK g \in [SUBSET S -> Int] : Upto(g, n)
    OBVIOUS
  <2> DEFINE h == [s \in SUBSET S |-> Rhs(g, s)]
  <2>2. h \in [SUBSET S -> Int]
    <3>1. \A s \in SUBSET S : s # {} => Pick(s) \in S /\ s \ {Pick(s)} \in SUBSET S
      BY PickFacts
    <3>2. \A s \in SUBSET S : Rhs(g, s) \in Int
      BY <3>1
    <3> HIDE DEF Rhs
    <3> QED
      BY <3>2
  <2>3. ASSUME NEW s \in SUBSET S, Cardinality(s) <= n + 1
        PROVE  h[s] = Rhs(h, s)
    <3>1. CASE s = {}
      BY <3>1
    <3>2. CASE s # {}
      <4> DEFINE t == s \ {Pick(s)}
      <4>1. t \in SUBSET S /\ Cardinality(t) <= n
        BY <2>3, <3>2, PickFacts
      <4>2. g[t] = Rhs(g, t)
        BY <2>1, <4>1
      <4>3. h[t] = Rhs(g, t)
        BY <4>1
      <4>4. h[s] = f[Pick(s)] + g[t] /\ Rhs(h, s) = f[Pick(s)] + h[t]
        BY <3>2
      <4> QED
        BY <4>2, <4>3, <4>4
    <3> QED
      BY <3>1, <3>2
  <2>4. Upto(h, n + 1)
    BY <2>3
  <2>5. n + 1 \in Nat
    OBVIOUS
  <2> HIDE DEF h, Upto
  <2> QED
    BY <2>2, <2>4, <2>5
<1> HIDE DEF Q, Rhs
<1>3. Q = Nat
  <2>1. Q \subseteq Nat
    BY DEF Q
  <2> QED
    BY <1>1, <1>2, <2>1, NatSetInduction
<1>4. Cardinality(S) \in Nat /\ \A s \in SUBSET S : Cardinality(s) <= Cardinality(S)
  BY FS_CardinalityType, FS_Subset
<1>5. PICK g \in [SUBSET S -> Int] : \A s \in SUBSET S : g[s] = Rhs(g, s)
  <2>1. Cardinality(S) \in Q
    BY <1>3, <1>4
  <2> QED
    BY <1>4, <2>1 DEF Q
<1>6. IsSum(g, f, S)
  <2>1. g = [s \in SUBSET S |-> Rhs(g, s)]
    BY <1>5
  <2> QED
    BY <2>1 DEF IsSum, Rhs
<1> QED
  BY <1>6

\* A sum depends on the summands only, not on what surrounds them.
LEMMA SumsAgree ==
  ASSUME NEW S, IsFiniteSet(S), NEW T \in SUBSET S, NEW f, NEW e,
         NEW g, IsSum(g, f, S), NEW h, IsSum(h, e, T),
         \A x \in T : e[x] = f[x]
  PROVE  \A s \in SUBSET T : g[s] = h[s]
<1> DEFINE P == {s \in SUBSET T : g[s] = h[s]}
<1>1. IsFiniteSet(T)
  BY FS_Subset
<1>2. ASSUME NEW s \in SUBSET T, \A x \in s : s \ {x} \in P
      PROVE  s \in P
  <2>1. s \in SUBSET S /\ s \in SUBSET T
    OBVIOUS
  <2>2. /\ g[s] = IF s = {} THEN 0 ELSE f[Pick(s)] + g[s \ {Pick(s)}]
        /\ h[s] = IF s = {} THEN 0 ELSE e[Pick(s)] + h[s \ {Pick(s)}]
    BY <2>1 DEF IsSum
  <2>3. s # {} => Pick(s) \in s
    BY <1>1, PickFacts
  <2> QED
    BY <1>2, <2>2, <2>3
<1> HIDE DEF P
<1>3. SUBSET T \subseteq P
  BY <1>1, <1>2, SubsetInduction
<1> QED
  BY <1>3 DEF P

LEMMA SumIsInt ==
  ASSUME NEW S, IsFiniteSet(S), NEW f \in [S -> Int], NEW g, IsSum(g, f, S)
  PROVE  \A s \in SUBSET S : g[s] \in Int
<1> DEFINE P == {s \in SUBSET S : g[s] \in Int}
<1>1. ASSUME NEW s \in SUBSET S, \A x \in s : s \ {x} \in P
      PROVE  s \in P
  <2>1. g[s] = IF s = {} THEN 0 ELSE f[Pick(s)] + g[s \ {Pick(s)}]
    BY DEF IsSum
  <2>2. s # {} => Pick(s) \in s
    BY PickFacts
  <2>3. s # {} => f[Pick(s)] \in Int /\ g[s \ {Pick(s)}] \in Int
    BY <1>1, <2>2
  <2> QED
    BY <2>1, <2>3
<1> HIDE DEF P
<1>2. SUBSET S \subseteq P
  BY <1>1, SubsetInduction
<1> QED
  BY <1>2 DEF P

\* Any element may be taken out first.
LEMMA AnyFirst ==
  ASSUME NEW S, IsFiniteSet(S), NEW f \in [S -> Int], NEW g, IsSum(g, f, S),
         NEW t \in SUBSET S, NEW z \in t
  PROVE  g[t] = f[z] + g[t \ {z}]
<1> DEFINE P == {s \in SUBSET S : \A x \in s : g[s] = f[x] + g[s \ {x}]}
<1>1. ASSUME NEW s \in SUBSET S, \A x \in s : s \ {x} \in P, NEW x \in s
      PROVE  g[s] = f[x] + g[s \ {x}]
  <2> DEFINE y == Pick(s)
  <2>1. y \in s /\ g[s] = f[y] + g[s \ {y}]
    <3>1. y \in s
      BY PickFacts
    <3>2. g[s] = IF s = {} THEN 0 ELSE f[y] + g[s \ {y}]
      BY DEF IsSum
    <3> QED
      BY <3>1, <3>2
  <2>2. CASE x = y
    BY <2>1, <2>2
  <2>3. CASE x # y
    <3>1. (s \ {y}) \ {x} = (s \ {x}) \ {y}
      OBVIOUS
    <3> DEFINE r == (s \ {x}) \ {y}
    <3>2. x \in s \ {y} /\ y \in s \ {x}
      BY <2>1, <2>3
    <3>3. g[s \ {y}] = f[x] + g[r] /\ g[s \ {x}] = f[y] + g[r]
      BY <1>1, <2>1, <3>1, <3>2
    <3>4. f[x] \in Int /\ f[y] \in Int /\ g[r] \in Int
      <4>1. x \in S /\ y \in S /\ r \in SUBSET S
        BY <2>1
      <4> HIDE DEF r, y
      <4> QED
        BY <4>1, SumIsInt
    <3> HIDE DEF r, y
    <3> QED
      BY <2>1, <3>3, <3>4
  <2> QED
    BY <2>2, <2>3
<1>2. \A s \in SUBSET S : (\A x \in s : s \ {x} \in P) => s \in P
  BY <1>1
<1> HIDE DEF P
<1>3. SUBSET S \subseteq P
  BY <1>2, SubsetInduction
<1> QED
  BY <1>3 DEF P

\* The library's operator is such a sum.
LEMMA SumIsSum ==
  ASSUME NEW S, IsFiniteSet(S), NEW f \in [S -> Int]
  PROVE  \E g : IsSum(g, f, S) /\ SumFunction(f) = g[S]
<1> DEFINE it == CHOOSE g : g = [s \in SUBSET S |->
                     IF s = {} THEN 0
                     ELSE f[CHOOSE x \in s : TRUE] + g[s \ {CHOOSE x \in s : TRUE}]]
<1>1. SumFunction(f) = it[S]
  <2>1. SumFunctionOnSet(f, S) = it[S]
    BY DEF SumFunctionOnSet, FoldFunctionOnSet, MapThenFoldSet
  <2>2. SumFunction(f) = SumFunctionOnSet(f, S)
    BY DEF SumFunction
  <2> QED
    BY <2>1, <2>2
<1>2. \E g : g = [s \in SUBSET S |->
                 IF s = {} THEN 0
                 ELSE f[CHOOSE x \in s : TRUE] + g[s \ {CHOOSE x \in s : TRUE}]]
  <2>1. \E g : IsSum(g, f, S)
    BY SumExists
  <2> QED
    BY <2>1 DEF IsSum, Pick
<1>3. IsSum(it, f, S)
  BY <1>2 DEF IsSum, Pick
<1> QED
  BY <1>1, <1>3

LEMMA SumEmpty == ASSUME NEW f \in [{} -> Int] PROVE SumFunction(f) = 0
<1>1. PICK g : IsSum(g, f, {}) /\ SumFunction(f) = g[{}]
  BY SumIsSum, FS_EmptySet
<1> QED
  BY <1>1 DEF IsSum

LEMMA SumType ==
  ASSUME NEW S, IsFiniteSet(S), NEW f \in [S -> Int]
  PROVE  SumFunction(f) \in Int
BY SumIsSum, SumIsInt

\* One summand is taken out.
LEMMA SumRemove ==
  ASSUME NEW S, IsFiniteSet(S), NEW f \in [S -> Int], NEW x \in S,
         NEW e \in [S \ {x} -> Int], \A y \in S \ {x} : e[y] = f[y]
  PROVE  SumFunction(f) = f[x] + SumFunction(e)
<1> DEFINE T == S \ {x}
<1>1. PICK g : IsSum(g, f, S) /\ SumFunction(f) = g[S]
  BY SumIsSum
<1>2. IsFiniteSet(T) /\ T \in SUBSET S
  BY FS_Subset
<1>3. PICK h : IsSum(h, e, T) /\ SumFunction(e) = h[T]
  BY <1>2, SumIsSum
<1>4. g[T] = h[T]
  BY <1>1, <1>2, <1>3, SumsAgree
<1>5. g[S] = f[x] + g[T]
  <2>1. IsSum(g, f, S)
    BY <1>1
  <2>2. ASSUME NEW t \in SUBSET S, NEW y \in t
        PROVE  g[t] = f[y] + g[t \ {y}]
    BY <2>1, AnyFirst
  <2>3. S \in SUBSET S
    OBVIOUS
  <2> QED
    BY <2>2, <2>3
<1> QED
  BY <1>1, <1>3, <1>4, <1>5

\* One summand changes.
LEMMA SumChange ==
  ASSUME NEW S, IsFiniteSet(S), NEW f \in [S -> Int], NEW e \in [S -> Int], NEW x \in S,
         \A y \in S \ {x} : e[y] = f[y]
  PROVE  SumFunction(e) = SumFunction(f) + e[x] - f[x]
<1> DEFINE T == S \ {x}
           r == [y \in T |-> f[y]]
<1>1. r \in [T -> Int] /\ \A y \in T : r[y] = f[y] /\ r[y] = e[y]
  OBVIOUS
<1>2. IsFiniteSet(T)
  BY FS_Subset
<1> HIDE DEF r
<1>3. SumFunction(f) = f[x] + SumFunction(r)
  BY <1>1, SumRemove
<1>4. SumFunction(e) = e[x] + SumFunction(r)
  BY <1>1, SumRemove
<1>5. SumFunction(r) \in Int /\ f[x] \in Int /\ e[x] \in Int
  BY <1>1, <1>2, SumType
<1> QED
  BY <1>3, <1>4, <1>5

\* A sum of nothing but zeros.
LEMMA SumZero ==
  ASSUME NEW S, IsFiniteSet(S), NEW f \in [S -> {0}]
  PROVE  SumFunction(f) = 0
<1>0. f \in [S -> Int]
  OBVIOUS
<1>1. PICK g : IsSum(g, f, S) /\ SumFunction(f) = g[S]
  BY <1>0, SumIsSum
<1> DEFINE P == {s \in SUBSET S : g[s] = 0}
<1>2. ASSUME NEW s \in SUBSET S, \A x \in s : s \ {x} \in P
      PROVE  s \in P
  <2>1. g[s] = IF s = {} THEN 0 ELSE f[Pick(s)] + g[s \ {Pick(s)}]
    BY <1>1 DEF IsSum
  <2>2. s # {} => Pick(s) \in s
    BY PickFacts
  <2> QED
    BY <1>2, <2>1, <2>2
<1> HIDE DEF P
<1>3. SUBSET S \subseteq P
  BY <1>2, SubsetInduction
<1> QED
  BY <1>1, <1>3 DEF P
============================================================================

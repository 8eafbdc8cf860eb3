------------------------------- MODULE Counting -------------------------------
(***************************************************************************)
(* Facts about natural numbers and finite sets that the proofs of several  *)
(* components rest on.  Induction is stated over a set instead of over a   *)
(* predicate, so that a lemma can be applied by naming the set.            *)
(***************************************************************************)
EXTENDS Integers, FiniteSets, FiniteSetTheorems, FunctionTheorems, TLAPS

-----------------------------------------------------------------------------
(***************************************************************************)
(* Induction.                                                              *)
(***************************************************************************)
\* A set of natural numbers that is not empty has a least element: among the intervals
\* that end in its elements there is one without a smaller one.
LEMMA LeastNatural ==
    ASSUME NEW T \in SUBSET Nat, T # {}
    PROVE  \E m \in T : \A k \in T : m <= k
<1> DEFINE Below == {1 .. n : n \in T}
           R     == StrictSubsetOrdering(Nat)
           F     == FiniteSubsetsOf(Nat)
<1>1. IsWellFoundedOn(R, F)
  BY FS_StrictSubsetOrderingWellFounded
<1>2. Below \subseteq F
  <2>1. \A n \in T : 1 .. n \subseteq Nat /\ IsFiniteSet(1 .. n)
    BY FS_Interval
  <2> QED
    BY <2>1 DEF FiniteSubsetsOf
<1>3. Below # {}
  OBVIOUS
<1>4. \E x \in Below : \A y \in Below : ~ (<<y, x>> \in R)
  <2> HIDE DEF Below, R, F
  <2> QED
    BY <1>1, <1>2, <1>3, WFMin
<1>5. PICK m \in T : \A k \in T : ~ (<<1 .. k, 1 .. m>> \in R)
  BY <1>4
<1>6. ASSUME NEW k \in T PROVE m <= k
  <2>1. SUFFICES ASSUME k < m PROVE FALSE
    OBVIOUS
  <2>2. (1 .. k) \subseteq (1 .. m) /\ m \in 1 .. m /\ m \notin 1 .. k
    BY <2>1
  <2>3. 1 .. k \in SUBSET Nat /\ 1 .. m \in SUBSET Nat
    OBVIOUS
  <2>4. <<1 .. k, 1 .. m>> \in R
    BY <2>2, <2>3 DEF StrictSubsetOrdering
  <2> QED
    BY <2>4, <1>5
<1> QED
  BY <1>6

\* A set that has 0, and with a number the next one, has all natural numbers.
LEMMA NaturalInduction ==
    ASSUME NEW S, 0 \in S, \A n \in Nat : n \in S => n + 1 \in S
    PROVE  Nat \subseteq S
<1> DEFINE T == Nat \ S
<1>1. SUFFICES ASSUME T # {} PROVE FALSE
  OBVIOUS
<1>2. PICK m \in T : \A k \in T : m <= k
  BY <1>1, LeastNatural
<1>3. m # 0 /\ m - 1 \in Nat /\ m - 1 \notin T
  BY <1>2
<1>4. (m - 1) + 1 \in S
  BY <1>3
<1> QED
  BY <1>4, <1>2

\* A set of sets that has the empty set, and with a part of a finite set S that part
\* extended by an element, has S.
LEMMA FiniteInduction ==
    ASSUME NEW S, IsFiniteSet(S), NEW F, {} \in F,
           \A T \in SUBSET S : \A x \in S \ T : T \in F => T \cup {x} \in F
    PROVE  S \in F
<1> DEFINE Counts == {n \in Nat : \E T \in SUBSET S : Cardinality(T) = n /\ T \notin F}
<1>1. \A T \in SUBSET S : IsFiniteSet(T) /\ Cardinality(T) \in Nat
  BY FS_Subset, FS_CardinalityType
<1>2. SUFFICES ASSUME S \notin F PROVE FALSE
  OBVIOUS
<1>3. Cardinality(S) \in Counts
  BY <1>1, <1>2
<1>4. PICK n \in Counts : \A k \in Counts : n <= k
  <2> HIDE DEF Counts
  <2>1. Counts \in SUBSET Nat
    BY DEF Counts
  <2> QED
    BY <1>3, <2>1, LeastNatural
<1>5. PICK T \in SUBSET S : Cardinality(T) = n /\ T \notin F
  BY <1>4
<1>6. PICK x \in T : TRUE
  BY <1>5
<1>7. /\ T \ {x} \in SUBSET S /\ x \in S \ (T \ {x})
      /\ (T \ {x}) \cup {x} = T
  BY <1>6
<1>8. Cardinality(T \ {x}) = n - 1
  BY <1>1, <1>5, <1>6, FS_RemoveElement
<1>9. n - 1 \notin Counts /\ n - 1 \in Nat
  BY <1>4, <1>8, <1>7, <1>1
<1>10. T \ {x} \in F
  BY <1>7, <1>8, <1>9
<1> QED
  BY <1>5, <1>7, <1>10

-----------------------------------------------------------------------------
(***************************************************************************)
(* Finite sets of numbers.                                                 *)
(***************************************************************************)
\* A finite set of natural numbers that is not empty has a greatest element.
LEMMA GreatestNatural ==
    ASSUME NEW S \in SUBSET Nat, IsFiniteSet(S), S # {}
    PROVE  \E m \in S : \A k \in S : k <= m
<1> DEFINE F == {T \in SUBSET S : T # {} => \E m \in T : \A k \in T : k <= m}
<1>1. {} \in F
  OBVIOUS
<1>2. ASSUME NEW T \in SUBSET S, NEW x \in S \ T, T \in F
      PROVE  T \cup {x} \in F
  <2>1. CASE T = {}
    BY <2>1
  <2>2. CASE T # {}
    <3>1. PICK m \in T : \A k \in T : k <= m
      BY <1>2, <2>2
    <3>2. CASE m <= x
      <4>1. \A k \in T \cup {x} : k <= x
        BY <3>1, <3>2
      <4> QED
        BY <4>1
    <3>3. CASE ~(m <= x)
      <4>1. \A k \in T \cup {x} : k <= m
        BY <3>1, <3>3
      <4> QED
        BY <4>1
    <3> QED
      BY <3>2, <3>3
  <2> QED
    BY <2>1, <2>2
<1>3. S \in F
  <2> HIDE DEF F
  <2> QED
    BY <1>1, <1>2, FiniteInduction
<1> QED
  BY <1>3

\* The values of a function on a finite set are finitely many.
LEMMA ValuesAreFinite ==
    ASSUME NEW S, IsFiniteSet(S), NEW f
    PROVE  IsFiniteSet({f[x] : x \in S})
<1> DEFINE T == {f[x] : x \in S}
           g == [x \in S |-> f[x]]
<1>1. g \in Surjection(S, T)
  BY DEF Surjection
<1> HIDE DEF g, T
<1> QED
  BY <1>1, FS_Surjection DEF T

\* So are two values.
LEMMA PairIsFinite == \A x, y : IsFiniteSet({x, y})
<1> SUFFICES ASSUME NEW x, NEW y PROVE IsFiniteSet({x, y})
  OBVIOUS
<1>1. IsFiniteSet({x})
  BY FS_Singleton
<1>2. IsFiniteSet({x} \cup {y})
  BY <1>1, FS_AddElement
<1>3. {x} \cup {y} = {x, y}
  OBVIOUS
<1> QED
  BY <1>2, <1>3

\* A number is its quotient times the divisor, and the remainder.
LEMMA DivMod ==
    \A x \in Nat, k \in Nat \ {0} : /\ x = k * (x \div k) + (x % k)
                                    /\ x \div k \in Int
                                    /\ x % k \in 0 .. k - 1
OBVIOUS

\* A multiple other than zero is at least as far from zero as the divisor.
LEMMA MultipleIsFar ==
    \A d \in Int, k \in Nat \ {0} : (d > 0 => k * d >= k) /\ (d < 0 => k * d <= -k)
OBVIOUS

\* Which quotient and which remainder a number has.
LEMMA QuotientOf ==
    ASSUME NEW k \in Nat \ {0}, NEW q \in Nat, NEW r \in 0 .. k - 1
    PROVE  (k * q + r) \div k = q /\ (k * q + r) % k = r
<1> DEFINE x == k * q + r
           p == x \div k
           m == x % k
<1>1. x \in Nat /\ x = k * p + m /\ p \in Int /\ m \in 0 .. k - 1
  <2>1. x \in Nat
    OBVIOUS
  <2> QED
    BY <2>1, DivMod
<1> HIDE DEF p, m
<1>2. k * (q - p) = m - r
  BY <1>1
<1>3. q = p
  BY <1>1, <1>2, q - p \in Int, MultipleIsFar
<1> QED
  BY <1>1, <1>2, <1>3 DEF p, m

\* The multiples of b that leave room for b more up to L are as many as b fits into L.
LEMMA MultiplesWithRoom ==
    ASSUME NEW b \in Nat \ {0}, NEW L \in Nat
    PROVE  Cardinality({i \in 0 .. L : i % b = 0 /\ i + b <= L}) = L \div b
<1> DEFINE starts == {i \in 0 .. L : i % b = 0 /\ i + b <= L}
           q == L \div b
           f == [k \in 1 .. q |-> (k - 1) * b]
<1>1. q \in Nat /\ q * b <= L /\ L < (q + 1) * b
  OBVIOUS
<1>2. ASSUME NEW k \in 1 .. q
      PROVE  /\ (k - 1) * b \in 0 .. L
             /\ ((k - 1) * b) % b = 0
             /\ (k - 1) * b + b <= L
  <2> DEFINE j == k - 1
  <2>1. j \in Nat /\ j + 1 <= q
    BY <1>1
  <2>2. (j + 1) * b <= q * b
    BY <2>1, <1>1
  <2>3. (j + 1) * b = j * b + b /\ j * b \in Nat
    BY <2>1
  <2>4. (j * b) % b = 0
    BY <2>1
  <2> QED
    BY <2>2, <2>3, <2>4, <1>1
<1>3. f \in [1 .. q -> starts]
  BY <1>2
<1>4. \A k, l \in 1 .. q : f[k] = f[l] => k = l
  <2> SUFFICES ASSUME NEW k \in 1 .. q, NEW l \in 1 .. q, (k - 1) * b = (l - 1) * b
               PROVE  k = l
    OBVIOUS
  <2> QED
    BY <1>1
<1>5. \A i \in starts : \E k \in 1 .. q : f[k] = i
  <2> SUFFICES ASSUME NEW i \in starts
               PROVE  \E k \in 1 .. q : f[k] = i
    OBVIOUS
  <2> DEFINE m == i \div b
  <2>1. m \in Nat /\ i = m * b
    <3>1. i \in Nat /\ i % b = 0
      OBVIOUS
    <3> QED
      BY <3>1
  <2>2. (m + 1) * b <= L
    BY <2>1
  <2>3. m + 1 <= q
    <3>1. SUFFICES ASSUME q + 1 <= m + 1 PROVE FALSE
      BY <1>1, <2>1
    <3>2. (q + 1) * b <= (m + 1) * b
      BY <3>1, <1>1, <2>1
    <3> QED
      BY <3>2, <2>2, <1>1, <2>1
  <2>4. m + 1 \in 1 .. q /\ f[m + 1] = m * b
    <3>1. m + 1 \in 1 .. q /\ (m + 1) - 1 = m
      BY <2>1, <2>3, <1>1
    <3> HIDE DEF m, q
    <3> QED
      BY <3>1
  <2> QED
    BY <2>1, <2>4
<1>6. ExistsBijection(1 .. q, starts)
  <2> HIDE DEF starts, f, q
  <2>1. f \in Bijection(1 .. q, starts)
    BY <1>3, <1>4, <1>5, Fun_IsBij
  <2> QED
    BY <2>1 DEF ExistsBijection
<1>7. Cardinality(starts) = q
  <2> HIDE DEF starts, f, q
  <2> QED
    BY <1>1, <1>6, FS_CountingElements
<1> QED
  BY <1>7

\* Below M, two remainders modulo N occur equally often, or one of them once more.
LEMMA EvenlySpread ==
    ASSUME NEW N \in Nat \ {0}, NEW M \in Nat, NEW r \in 0 .. N - 1, NEW s \in 0 .. N - 1
    PROVE  Cardinality({j \in 0 .. M - 1 : j % N = r})
             <= Cardinality({j \in 0 .. M - 1 : j % N = s}) + 1
<1> DEFINE P(x) == {j \in 0 .. M - 1 : j % N = x}
<1> SUFFICES Cardinality(P(r)) <= Cardinality(P(s)) + 1
  OBVIOUS
<1>1. ASSUME NEW x PROVE IsFiniteSet(P(x)) /\ Cardinality(P(x)) \in Nat
  <2>1. IsFiniteSet(0 .. M - 1) /\ P(x) \in SUBSET (0 .. M - 1)
    BY FS_Interval
  <2> HIDE DEF P
  <2> QED
    BY <2>1, FS_Subset, FS_CardinalityType
<1>2. CASE P(r) = {}
  <2> HIDE DEF P
  <2>1. Cardinality(P(r)) = 0
    BY <1>2, FS_EmptySet
  <2> QED
    BY <2>1, <1>1
<1>3. CASE P(r) # {}
  <2>1. PICK top \in P(r) : \A k \in P(r) : k <= top
    <3>1. P(r) \in SUBSET Nat
      OBVIOUS
    <3> HIDE DEF P
    <3> QED
      BY <3>1, <1>1, <1>3, GreatestNatural
  <2> DEFINE f == [j \in P(r) \ {top} |-> (j - r) + s]
  <2>2. ASSUME NEW j \in P(r) \ {top}
        PROVE  (j - r) + s \in P(s)
    <3>1. /\ j \in Nat /\ top \in Nat /\ j < top /\ top <= M - 1
          /\ j % N = r /\ top % N = r
      BY <2>1
    <3>2. \E c \in Nat : j = c * N + r
      BY <3>1
    <3>3. PICK c \in Nat : j = c * N + r
      BY <3>2
    <3>4. \E d \in Nat : top = d * N + r
      BY <3>1
    <3>5. PICK d \in Nat : top = d * N + r
      BY <3>4
    <3>6. c < d
      <4>1. SUFFICES ASSUME d <= c PROVE FALSE
        OBVIOUS
      <4>2. d * N <= c * N
        BY <4>1
      <4> QED
        BY <4>2, <3>1, <3>3, <3>5
    <3>7. c * N + N <= d * N
      <4>1. c + 1 <= d
        BY <3>6
      <4>2. (c + 1) * N <= d * N
        BY <4>1
      <4> QED
        BY <4>2
    <3>8. (j - r) + s = c * N + s /\ c * N \in Nat /\ d * N \in Nat
      BY <3>3
    <3>9. (c * N + s) % N = s
      OBVIOUS
    <3>10. (j - r) + s \in 0 .. M - 1
      BY <3>1, <3>5, <3>7, <3>8
    <3> QED
      BY <3>8, <3>9, <3>10
  <2>3. f \in [P(r) \ {top} -> P(s)]
    BY <2>2
  <2>4. \A j, k \in P(r) \ {top} : f[j] = f[k] => j = k
    <3> SUFFICES ASSUME NEW j \in P(r) \ {top}, NEW k \in P(r) \ {top},
                        (j - r) + s = (k - r) + s
                 PROVE  j = k
      OBVIOUS
    <3> QED
      OBVIOUS
  <2>5. Cardinality(P(r) \ {top}) <= Cardinality(P(s))
    <3> HIDE DEF P, f
    <3>1. f \in Injection(P(r) \ {top}, P(s))
      BY <2>3, <2>4, Fun_IsInj
    <3> QED
      BY <3>1, <1>1, FS_Injection
  <2>6. Cardinality(P(r) \ {top}) = Cardinality(P(r)) - 1
    <3> HIDE DEF P
    <3> QED
      BY <1>1, <2>1, FS_RemoveElement
  <2> HIDE DEF P
  <2> QED
    BY <1>1, <2>5, <2>6
<1> QED
  BY <1>2, <1>3
=============================================================================

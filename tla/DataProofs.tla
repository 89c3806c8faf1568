----------------------------- MODULE DataProofs -----------------------------
(***************************************************************************)
(* Lemmas about data that the proofs of several components share: least    *)
(* naturals, induction over the subsets of a finite set, and sums of a     *)
(* function over a finite set (SumFunctionOnSet).                          *)
(*                                                                         *)
(* The induction principles are stated about a set of naturals or a set of *)
(* sets instead of a predicate.                                            *)
(***************************************************************************)
EXTENDS Integers, FiniteSets, Functions, FiniteSetTheorems, WellFoundedInduction, TLAPS

\* A set of naturals that is not empty has a smallest element.
LEMMA LeastNatural ==
  ASSUME NEW S \in SUBSET Nat, S # {}
  PROVE  \E x \in S : \A y \in S : x <= y
<1>1. PICK x \in S : \A y \in S : ~ (<<y, x>> \in OpToRel(<, Nat))
  BY NatLessThanWellFounded, WFMin
<1>2. \A y \in S : ~ (y < x)
  BY <1>1 DEF OpToRel
<1> QED BY <1>2

\* The members of a set of naturals below a number are finitely many.
LEMMA BelowIsFinite ==
  ASSUME NEW S \in SUBSET Nat, NEW m \in Nat
  PROVE  /\ IsFiniteSet({k \in S : k < m})
         /\ Cardinality({k \in S : k < m}) \in Nat
<1>1. IsFiniteSet(0 .. m)
  BY FS_Interval
<1>2. {k \in S : k < m} \subseteq 0 .. m
  <2>1. ASSUME NEW k \in S, k < m PROVE k \in 0 .. m
    BY <2>1
  <2> QED BY <2>1
<1>3. IsFiniteSet({k \in S : k < m})
  BY <1>1, <1>2, FS_Subset
<1> QED BY <1>3, FS_CardinalityType

\* The first n members of a set of naturals come before all the others.
LEMMA FirstMembersAreLess ==
  ASSUME NEW S \in SUBSET Nat, NEW n \in Nat,
         NEW m \in S, Cardinality({j \in S : j < m}) < n,
         NEW k \in S, ~ (Cardinality({j \in S : j < k}) < n)
  PROVE  m < k
<1> SUFFICES ASSUME k <= m PROVE FALSE
  OBVIOUS
<1> DEFINE Below(x) == {j \in S : j < x}
<1>1. /\ IsFiniteSet(Below(m))
      /\ Cardinality(Below(m)) \in Nat
      /\ Cardinality(Below(k)) \in Nat
  BY BelowIsFinite
<1>2. Below(k) \subseteq Below(m)
  <2>1. ASSUME NEW j \in S, j < k PROVE j < m
    BY <2>1
  <2> QED BY <2>1
<1>3. Cardinality(Below(k)) <= Cardinality(Below(m))
  BY <1>1, <1>2, FS_Subset
<1>4. Cardinality(Below(m)) < n /\ ~ (Cardinality(Below(k)) < n)
  OBVIOUS
<1> HIDE DEF Below
<1> QED BY <1>1, <1>3, <1>4

\* The first member alone has no other one below it.
LEMMA FirstMember ==
  ASSUME NEW S \in SUBSET Nat, S # {}
  PROVE  \E m \in S : /\ {k \in S : Cardinality({j \in S : j < k}) < 1} = {m}
                      /\ \A k \in S : m <= k
<1>1. PICK m \in S : \A k \in S : m <= k
  BY LeastNatural
<1>2. {j \in S : j < m} = {}
  <2>1. \A j \in S : ~ (j < m)
    BY <1>1
  <2> QED BY <2>1
<1>3. Cardinality({j \in S : j < m}) < 1
  BY <1>2, FS_EmptySet
<1>4. ASSUME NEW k \in S, k # m PROVE ~ (Cardinality({j \in S : j < k}) < 1)
  <2>1. m \in {j \in S : j < k}
    BY <1>1, <1>4
  <2>2. Cardinality({j \in S : j < k}) \in Nat \ {0}
    BY <2>1, BelowIsFinite, FS_EmptySet
  <2> QED BY <2>2
<1> QED BY <1>1, <1>3, <1>4

\* A set of records with numbers has one with the smallest.
LEMMA LeastRecord ==
  ASSUME NEW recs, recs # {}, \A r \in recs : r.offset \in Nat
  PROVE  \E r \in recs : \A s \in recs : r.offset <= s.offset
<1> DEFINE S == {r.offset : r \in recs}
<1>1. S \in SUBSET Nat /\ S # {}
  OBVIOUS
<1>2. PICK x \in S : \A y \in S : x <= y
  BY <1>1, LeastNatural
<1>3. PICK r \in recs : r.offset = x
  BY <1>2
<1> QED BY <1>2, <1>3

\* Induction up to n: a set of naturals that has 0 and, with each number below n,
\* the next one.
LEMMA InductionUpTo ==
  ASSUME NEW n \in Nat, NEW A, 0 \in A, \A i \in 0 .. n - 1 : i \in A => i + 1 \in A
  PROVE  0 .. n \subseteq A
<1> DEFINE Bad == {i \in 0 .. n : i \notin A}
<1> SUFFICES ASSUME Bad # {} PROVE FALSE
  OBVIOUS
<1>1. Bad \in SUBSET Nat
  OBVIOUS
<1>2. PICK i \in Bad : \A j \in Bad : i <= j
  BY <1>1, LeastNatural
<1>3. i \in 0 .. n /\ i \notin A /\ i # 0
  BY <1>2
<1>4. i - 1 \in 0 .. n - 1 /\ i - 1 \in 0 .. n /\ ~ (i <= i - 1)
  BY <1>3
<1>5. i - 1 \in A
  BY <1>2, <1>4
<1>6. i - 1 + 1 \in A
  BY <1>4, <1>5
<1>7. i - 1 + 1 = i
  BY <1>3
<1> QED BY <1>3, <1>6, <1>7

\* Induction over the subsets of a finite set.
LEMMA SubsetInduction ==
  ASSUME NEW S, IsFiniteSet(S), NEW A, {} \in A,
         \A T \in SUBSET S : T # {} /\ (\A x \in T : T \ {x} \in A) => T \in A
  PROVE  SUBSET S \subseteq A
<1> DEFINE Size(i) == {T \in SUBSET S : Cardinality(T) <= i}
           Good == {i \in Nat : Size(i) \subseteq A}
<1>1. \A T \in SUBSET S : IsFiniteSet(T) /\ Cardinality(T) \in Nat /\ Cardinality(T) <= Cardinality(S)
  BY FS_Subset, FS_CardinalityType
<1>2. 0 \in Good
  <2>1. ASSUME NEW T \in SUBSET S, Cardinality(T) <= 0 PROVE T \in A
    <3>1. Cardinality(T) = 0
      BY <1>1, <2>1
    <3>2. T = {}
      BY <1>1, <3>1, FS_EmptySet
    <3> QED BY <3>2
  <2> QED BY <2>1
<1>3. ASSUME NEW i \in Nat, i \in Good PROVE i + 1 \in Good
  <2> SUFFICES ASSUME NEW T \in Size(i + 1), T # {} PROVE T \in A
    <3>1. i + 1 \in Nat
      OBVIOUS
    <3> HIDE DEF Size
    <3> QED BY <3>1
  <2>1. ASSUME NEW x \in T PROVE T \ {x} \in A
    <3>1. Cardinality(T \ {x}) = Cardinality(T) - 1
      BY <1>1, FS_RemoveElement
    <3>2. Cardinality(T \ {x}) <= i
      BY <1>1, <3>1
    <3>3. T \ {x} \in Size(i)
      BY <3>2
    <3> QED BY <1>3, <3>3
  <2> QED BY <2>1
<1>4. Cardinality(S) \in Nat
  BY FS_CardinalityType
<1>5. 0 .. Cardinality(S) \subseteq Good
  <2> HIDE DEF Good
  <2>1. \A i \in 0 .. Cardinality(S) - 1 : i \in Good => i + 1 \in Good
    BY <1>3, <1>4
  <2> QED BY <1>2, <1>4, <2>1, InductionUpTo
<1>6. Cardinality(S) \in Good
  BY <1>4, <1>5
<1> QED BY <1>1, <1>6

-----------------------------------------------------------------------------
(* Sums                                                                    *)

\* The sums of f over the subsets of S, as the fold computes them.
Pick(s) == CHOOSE x \in s : TRUE

SumBody(f, g, s) == IF s = {} THEN 0 ELSE f[Pick(s)] + g[s \ {Pick(s)}]

Sums(f, S) == CHOOSE g : g = [s \in SUBSET S |-> SumBody(f, g, s)]

\* The sum of a set is the value of the fold at it.
LEMMA SumIsSums ==
  ASSUME NEW f, NEW S
  PROVE  SumFunctionOnSet(f, S) = Sums(f, S)[S]
BY DEF SumFunctionOnSet, FoldFunctionOnSet, MapThenFoldSet, Sums, SumBody, Pick

\* There is a function that satisfies the recursive equation.
LEMMA SumsEquation ==
  ASSUME NEW f, NEW S, IsFiniteSet(S)
  PROVE  \A s \in SUBSET S : Sums(f, S)[s] = SumBody(f, Sums(f, S), s)
<1> DEFINE Sized(i) == {s \in SUBSET S : Cardinality(s) <= i}
           Good == {i \in Nat : \E g : g = [s \in Sized(i) |-> SumBody(f, g, s)]}
<1>1. \A s \in SUBSET S : IsFiniteSet(s) /\ Cardinality(s) \in Nat /\ Cardinality(s) <= Cardinality(S)
  BY FS_Subset, FS_CardinalityType
<1>2. \A s \in SUBSET S : s # {} => Pick(s) \in s
  BY DEF Pick
<1>3. 0 \in Good
  <2> DEFINE g == [s \in Sized(0) |-> 0]
  <2>1. \A s \in Sized(0) : s = {}
    BY <1>1, FS_EmptySet
  <2>2. g = [s \in Sized(0) |-> SumBody(f, g, s)]
    BY <2>1 DEF SumBody
  <2> QED BY <2>2
<1>4. ASSUME NEW i \in Nat, i \in Good PROVE i + 1 \in Good
  <2>1. PICK g : g = [s \in Sized(i) |-> SumBody(f, g, s)]
    BY <1>4
  <2> DEFINE h == [s \in Sized(i + 1) |-> IF s \in Sized(i) THEN g[s] ELSE SumBody(f, g, s)]
  <2>2. ASSUME NEW s \in Sized(i + 1), s # {}
        PROVE  s \ {Pick(s)} \in Sized(i) /\ s \ {Pick(s)} \in Sized(i + 1)
    <3>1. Cardinality(s \ {Pick(s)}) = Cardinality(s) - 1
      BY <1>1, <1>2, <2>2, FS_RemoveElement
    <3> QED BY <1>1, <3>1
  <2>3. ASSUME NEW s \in Sized(i + 1) PROVE h[s] = SumBody(f, h, s)
    <3>1. CASE s = {}
      <4>1. s \in Sized(i) => g[s] = SumBody(f, g, s)
        BY <2>1
      <4> QED BY <3>1, <4>1 DEF SumBody
    <3>2. CASE s # {}
      <4>1. h[s \ {Pick(s)}] = g[s \ {Pick(s)}]
        BY <2>2, <3>2
      <4>2. s \in Sized(i) => g[s] = SumBody(f, g, s)
        BY <2>1
      <4>3. h[s] = SumBody(f, g, s)
        BY <4>2
      <4> HIDE DEF h
      <4> QED BY <3>2, <4>1, <4>3 DEF SumBody
    <3> QED BY <3>1, <3>2
  <2>4. h = [s \in Sized(i + 1) |-> SumBody(f, h, s)]
    <3> HIDE DEF Sized
    <3> QED BY <2>3
  <2>5. i + 1 \in Nat
    OBVIOUS
  <2> HIDE DEF h, Sized
  <2> QED BY <2>4, <2>5
<1>5. Cardinality(S) \in Nat
  BY FS_CardinalityType
<1>6. Cardinality(S) \in Good
  <2> HIDE DEF Good
  <2>1. \A i \in 0 .. Cardinality(S) - 1 : i \in Good => i + 1 \in Good
    BY <1>4, <1>5
  <2>2. 0 .. Cardinality(S) \subseteq Good
    BY <1>3, <1>5, <2>1, InductionUpTo
  <2> QED BY <1>5, <2>2
<1>7. Sized(Cardinality(S)) = SUBSET S
  BY <1>1
<1>8. \E g : g = [s \in SUBSET S |-> SumBody(f, g, s)]
  BY <1>6, <1>7
<1>9. Sums(f, S) = [s \in SUBSET S |-> SumBody(f, Sums(f, S), s)]
  BY <1>8 DEF Sums
<1> DEFINE F == Sums(f, S)
<1> HIDE DEF F
<1>10. F = [s \in SUBSET S |-> SumBody(f, F, s)]
  BY <1>9 DEF F
<1>11. \A s \in SUBSET S : F[s] = SumBody(f, F, s)
  BY <1>10
<1> QED BY <1>11 DEF F

\* The fold at a set.
LEMMA SumsAt ==
  ASSUME NEW f, NEW S, IsFiniteSet(S), NEW s \in SUBSET S
  PROVE  /\ s = {} => Sums(f, S)[s] = 0
         /\ s # {} => Pick(s) \in s /\ Sums(f, S)[s] = f[Pick(s)] + Sums(f, S)[s \ {Pick(s)}]
<1>1. Sums(f, S)[s] = SumBody(f, Sums(f, S), s)
  BY SumsEquation
<1>2. s # {} => Pick(s) \in s
  BY DEF Pick
<1> QED BY <1>1, <1>2 DEF SumBody

\* The sum over a part does not depend on the set it is a part of.
LEMMA SumsOfPart ==
  ASSUME NEW f, NEW S, IsFiniteSet(S), NEW T \in SUBSET S
  PROVE  Sums(f, S)[T] = Sums(f, T)[T]
<1> DEFINE A == {U \in SUBSET T : Sums(f, S)[U] = Sums(f, T)[U]}
<1>1. IsFiniteSet(T)
  BY FS_Subset
<1>2. /\ Sums(f, S)[{}] = 0
      /\ Sums(f, T)[{}] = 0
  <2>1. {} \in SUBSET S /\ {} \in SUBSET T
    OBVIOUS
  <2> QED BY <1>1, <2>1, SumsAt
<1>3. {} \in A
  BY <1>2
<1>4. ASSUME NEW U \in SUBSET T, U # {}, \A x \in U : U \ {x} \in A PROVE U \in A
  <2> DEFINE x == Pick(U)
  <2>1. x \in U /\ U \in SUBSET S
    BY <1>4 DEF Pick
  <2>2. /\ Sums(f, S)[U] = f[x] + Sums(f, S)[U \ {x}]
        /\ Sums(f, T)[U] = f[x] + Sums(f, T)[U \ {x}]
    BY <1>1, <1>4, <2>1, SumsAt
  <2>3. U \ {x} \in A
    BY <1>4, <2>1
  <2> HIDE DEF x
  <2> QED BY <2>2, <2>3
<1>5. SUBSET T \subseteq A
  <2> HIDE DEF A
  <2> QED BY <1>1, <1>3, <1>4, SubsetInduction
<1> QED BY <1>5

\* The sum over the empty set.
LEMMA SumEmpty ==
  ASSUME NEW f
  PROVE  SumFunctionOnSet(f, {}) = 0
<1>1. IsFiniteSet({})
  BY FS_EmptySet
<1>2. {} \in SUBSET {}
  OBVIOUS
<1> QED BY <1>1, <1>2, SumsAt, SumIsSums

\* The equation of the fold.
LEMMA SumStep ==
  ASSUME NEW f, NEW S, IsFiniteSet(S), S # {}
  PROVE  \E x \in S : SumFunctionOnSet(f, S) = f[x] + SumFunctionOnSet(f, S \ {x})
<1> DEFINE x == Pick(S)
<1>1. x \in S /\ S \in SUBSET S /\ S \ {x} \in SUBSET S
  BY DEF Pick
<1>2. Sums(f, S)[S] = f[x] + Sums(f, S)[S \ {x}]
  BY <1>1, SumsAt
<1>3. Sums(f, S)[S \ {x}] = Sums(f, S \ {x})[S \ {x}]
  BY <1>1, SumsOfPart
<1> HIDE DEF x
<1> QED BY <1>1, <1>2, <1>3, SumIsSums

\* A sum of natural numbers is one.
LEMMA SumType ==
  ASSUME NEW S, IsFiniteSet(S), NEW N, N \in {Int, Nat}, NEW f, \A x \in S : f[x] \in N
  PROVE  SumFunctionOnSet(f, S) \in N
<1> DEFINE A == {T \in SUBSET S : SumFunctionOnSet(f, T) \in N}
<1>1. {} \in A
  BY SumEmpty
<1>2. ASSUME NEW T \in SUBSET S, T # {}, \A x \in T : T \ {x} \in A PROVE T \in A
  <2>1. IsFiniteSet(T)
    BY FS_Subset
  <2>2. PICK y \in T : SumFunctionOnSet(f, T) = f[y] + SumFunctionOnSet(f, T \ {y})
    BY <1>2, <2>1, SumStep
  <2>3. SumFunctionOnSet(f, T \ {y}) \in N /\ f[y] \in N
    BY <1>2
  <2> QED BY <2>2, <2>3
<1>3. SUBSET S \subseteq A
  <2> HIDE DEF A
  <2> QED BY <1>1, <1>2, SubsetInduction
<1> QED BY <1>3

\* A sum of zeros is zero.
LEMMA SumZero ==
  ASSUME NEW S, IsFiniteSet(S), NEW f, \A x \in S : f[x] = 0
  PROVE  SumFunctionOnSet(f, S) = 0
<1> DEFINE A == {T \in SUBSET S : SumFunctionOnSet(f, T) = 0}
<1>1. {} \in A
  BY SumEmpty
<1>2. ASSUME NEW T \in SUBSET S, T # {}, \A x \in T : T \ {x} \in A PROVE T \in A
  <2>1. IsFiniteSet(T)
    BY FS_Subset
  <2>2. PICK y \in T : SumFunctionOnSet(f, T) = f[y] + SumFunctionOnSet(f, T \ {y})
    BY <1>2, <2>1, SumStep
  <2>3. SumFunctionOnSet(f, T \ {y}) = 0 /\ f[y] = 0
    BY <1>2
  <2> QED BY <2>2, <2>3
<1>3. SUBSET S \subseteq A
  <2> HIDE DEF A
  <2> QED BY <1>1, <1>2, SubsetInduction
<1> QED BY <1>3

\* The terms of a sum may be taken in any order.
LEMMA SumRemove ==
  ASSUME NEW S, IsFiniteSet(S), NEW f, \A x \in S : f[x] \in Int
  PROVE  \A x \in S : SumFunctionOnSet(f, S) = f[x] + SumFunctionOnSet(f, S \ {x})
<1> DEFINE Sum(T) == SumFunctionOnSet(f, T)
           A == {T \in SUBSET S : \A x \in T : Sum(T) = f[x] + Sum(T \ {x})}
<1>1. {} \in A
  BY SumEmpty
<1>2. ASSUME NEW T \in SUBSET S, T # {}, \A x \in T : T \ {x} \in A PROVE T \in A
  <2>1. IsFiniteSet(T)
    BY FS_Subset
  <2>2. PICK y \in T : Sum(T) = f[y] + Sum(T \ {y})
    BY <1>2, <2>1, SumStep
  <2>3. \A x \in T : f[x] \in Int
    OBVIOUS
  <2>4. ASSUME NEW x \in T PROVE Sum(T) = f[x] + Sum(T \ {x})
    <3>1. CASE x = y
      BY <2>2, <3>1
    <3>2. CASE x # y
      <4>1. /\ Sum(T \ {y}) = f[x] + Sum((T \ {y}) \ {x})
            /\ Sum(T \ {x}) = f[y] + Sum((T \ {x}) \ {y})
        BY <1>2, <3>2
      <4>2. (T \ {y}) \ {x} = (T \ {x}) \ {y}
        OBVIOUS
      <4> DEFINE z == Sum((T \ {y}) \ {x})
      <4>4. Sum(T) = f[y] + (f[x] + z) /\ Sum(T \ {x}) = f[y] + z /\ Sum(T \ {y}) = f[x] + z
        BY <2>2, <4>1, <4>2
      <4>5. z \in Int
        <5>1. IsFiniteSet((T \ {y}) \ {x})
          BY <2>1, FS_Subset
        <5> QED BY <2>3, <5>1, SumType
      <4> HIDE DEF z, Sum
      <4> QED BY <2>3, <4>4, <4>5
    <3> QED BY <3>1, <3>2
  <2> HIDE DEF Sum
  <2> QED BY <2>4
<1>3. SUBSET S \subseteq A
  <2> HIDE DEF A
  <2> QED BY <1>1, <1>2, SubsetInduction
<1> QED BY <1>3

\* A sum with one more element.
LEMMA SumAdd ==
  ASSUME NEW S, IsFiniteSet(S), NEW e, e \notin S, NEW f, \A x \in S \cup {e} : f[x] \in Int
  PROVE  SumFunctionOnSet(f, S \cup {e}) = f[e] + SumFunctionOnSet(f, S)
<1>1. IsFiniteSet(S \cup {e})
  BY FS_AddElement
<1>2. (S \cup {e}) \ {e} = S
  OBVIOUS
<1> QED BY <1>1, <1>2, SumRemove

\* A sum depends on the terms only, and grows with them.
LEMMA SumMonotone ==
  ASSUME NEW S, IsFiniteSet(S), NEW f, NEW g,
         \A x \in S : f[x] \in Int /\ g[x] \in Int /\ f[x] <= g[x]
  PROVE  SumFunctionOnSet(f, S) <= SumFunctionOnSet(g, S)
<1> DEFINE F(T) == SumFunctionOnSet(f, T)
           G(T) == SumFunctionOnSet(g, T)
           A == {T \in SUBSET S : F(T) <= G(T)}
<1>1. {} \in A
  BY SumEmpty
<1>2. ASSUME NEW T \in SUBSET S, T # {}, \A x \in T : T \ {x} \in A PROVE T \in A
  <2>1. PICK y \in T : TRUE
    BY <1>2
  <2>2. IsFiniteSet(T) /\ IsFiniteSet(T \ {y})
    BY FS_Subset
  <2>3. F(T) = f[y] + F(T \ {y}) /\ G(T) = g[y] + G(T \ {y})
    BY <2>2, SumRemove
  <2>4. F(T \ {y}) \in Int /\ G(T \ {y}) \in Int
    BY <2>2, SumType
  <2>5. F(T \ {y}) <= G(T \ {y}) /\ f[y] <= g[y] /\ f[y] \in Int /\ g[y] \in Int
    BY <1>2
  <2> HIDE DEF F, G
  <2>6. F(T) <= G(T)
    BY <2>3, <2>4, <2>5
  <2> QED BY <2>6
<1>3. SUBSET S \subseteq A
  <2> HIDE DEF A
  <2> QED BY <1>1, <1>2, SubsetInduction
<1> QED BY <1>3

\* A sum depends on the values at the elements only.
LEMMA SumSame ==
  ASSUME NEW S, IsFiniteSet(S), NEW f, NEW g,
         \A x \in S : f[x] \in Int /\ g[x] = f[x]
  PROVE  SumFunctionOnSet(f, S) = SumFunctionOnSet(g, S)
<1>1. /\ SumFunctionOnSet(f, S) <= SumFunctionOnSet(g, S)
      /\ SumFunctionOnSet(g, S) <= SumFunctionOnSet(f, S)
  BY SumMonotone
<1>2. SumFunctionOnSet(f, S) \in Int /\ SumFunctionOnSet(g, S) \in Int
  BY SumType
<1> QED BY <1>1, <1>2

\* One term is changed.
LEMMA SumExcept ==
  ASSUME NEW S, IsFiniteSet(S), NEW f, NEW g, NEW e \in S,
         \A x \in S : f[x] \in Int /\ g[x] \in Int /\ (x # e => g[x] = f[x])
  PROVE  SumFunctionOnSet(g, S) = SumFunctionOnSet(f, S) - f[e] + g[e]
<1>1. IsFiniteSet(S \ {e})
  BY FS_Subset
<1>2. SumFunctionOnSet(g, S \ {e}) = SumFunctionOnSet(f, S \ {e})
  BY <1>1, SumSame
<1>3. /\ SumFunctionOnSet(g, S) = g[e] + SumFunctionOnSet(g, S \ {e})
      /\ SumFunctionOnSet(f, S) = f[e] + SumFunctionOnSet(f, S \ {e})
  BY SumRemove
<1>4. SumFunctionOnSet(f, S \ {e}) \in Int
  BY <1>1, SumType
<1> QED BY <1>2, <1>3, <1>4

\* Every term is the same number, and those of a set one more.
LEMMA SumWithExtras ==
  ASSUME NEW S, IsFiniteSet(S), NEW E, NEW avg \in Nat, NEW f,
         \A x \in S : f[x] = avg + IF x \in E THEN 1 ELSE 0
  PROVE  SumFunctionOnSet(f, S) = Cardinality(S) * avg + Cardinality(S \cap E)
<1> DEFINE A == {T \in SUBSET S : SumFunctionOnSet(f, T) = Cardinality(T) * avg + Cardinality(T \cap E)}
<1>1. {} \in A
  <2>1. {} \cap E = {} /\ Cardinality({}) = 0
    BY FS_EmptySet
  <2>2. 0 * avg + 0 = 0
    OBVIOUS
  <2> QED BY <2>1, <2>2, SumEmpty
<1>2. ASSUME NEW T \in SUBSET S, T # {}, \A x \in T : T \ {x} \in A PROVE T \in A
  <2>1. PICK y \in T : TRUE
    BY <1>2
  <2> DEFINE R == T \ {y}
  <2>2. IsFiniteSet(T) /\ IsFiniteSet(R) /\ IsFiniteSet(T \cap E) /\ IsFiniteSet(R \cap E)
    BY FS_Subset, FS_Intersection
  <2>3. Cardinality(R) = Cardinality(T) - 1 /\ Cardinality(T) \in Nat /\ Cardinality(R) \in Nat
    BY <2>2, FS_RemoveElement, FS_CardinalityType
  <2>4. SumFunctionOnSet(f, T) = f[y] + SumFunctionOnSet(f, R)
    <3>1. \A x \in T : f[x] \in Int
      OBVIOUS
    <3> QED BY <2>2, <3>1, SumRemove
  <2>5. Cardinality(T \cap E) = Cardinality(R \cap E) + IF y \in E THEN 1 ELSE 0
    <3>1. CASE y \in E
      <4>1. (T \cap E) \ {y} = R \cap E /\ y \in T \cap E
        BY <3>1
      <4>2. Cardinality(R \cap E) = Cardinality(T \cap E) - 1
        BY <2>2, <4>1, FS_RemoveElement
      <4>3. Cardinality(T \cap E) \in Nat
        BY <2>2, FS_CardinalityType
      <4> QED BY <3>1, <4>2, <4>3
    <3>2. CASE y \notin E
      <4>1. T \cap E = R \cap E
        BY <3>2
      <4>2. Cardinality(R \cap E) \in Nat
        BY <2>2, FS_CardinalityType
      <4> QED BY <3>2, <4>1, <4>2
    <3> QED BY <3>1, <3>2
  <2>6. Cardinality(R \cap E) \in Nat
    BY <2>2, FS_CardinalityType
  <2>7. SumFunctionOnSet(f, R) = Cardinality(R) * avg + Cardinality(R \cap E)
    BY <1>2
  <2> DEFINE c == Cardinality(R)
             e == Cardinality(R \cap E)
             t == Cardinality(T)
             te == Cardinality(T \cap E)
             s == SumFunctionOnSet(f, T)
             x == IF y \in E THEN 1 ELSE 0
  <2>8. t = c + 1 /\ c \in Nat /\ e \in Nat /\ te = e + x /\ x \in Nat /\ s = (avg + x) + (c * avg + e)
    BY <2>3, <2>4, <2>5, <2>6, <2>7
  <2> HIDE DEF c, e, t, te, s, x
  <2>9. (c + 1) * avg = c * avg + avg /\ c * avg \in Nat
    BY <2>8
  <2>10. s = t * avg + te
    BY <2>8, <2>9
  <2> QED BY <2>10 DEF s, t, te
<1>3. SUBSET S \subseteq A
  <2> HIDE DEF A
  <2> QED BY <1>1, <1>2, SubsetInduction
<1> QED BY <1>3

-----------------------------------------------------------------------------
(* Division                                                                *)

\* Quotient and remainder.
LEMMA Division ==
  ASSUME NEW a \in Nat, NEW b \in Nat, b # 0
  PROVE  /\ a \div b \in Nat /\ a % b \in Nat
         /\ a % b < b
         /\ a = b * (a \div b) + (a % b)
OBVIOUS

\* The next number of a cycle.
LEMMA NextRemainder ==
  ASSUME NEW b \in Nat, b # 0, NEW a \in 0 .. b - 1
  PROVE  (a + 1) % b = IF a = b - 1 THEN 0 ELSE a + 1
<1> DEFINE q == (a + 1) \div b
           r == (a + 1) % b
<1>1. a + 1 \in Nat
  OBVIOUS
<1>2. q \in Nat /\ r \in Nat /\ r < b /\ a + 1 = b * q + r
  BY <1>1, Division
<1> HIDE DEF q, r
<1>3. CASE a = b - 1
  <2>1. q = 1
    <3>1. b * q <= b /\ b < b * q + b
      BY <1>2, <1>3
    <3>2. q # 0
      BY <1>2, <3>1
    <3>3. q >= 2 => b * q >= b * 2
      BY <1>2
    <3> QED BY <1>2, <3>1, <3>2, <3>3
  <2> QED BY <1>2, <1>3, <2>1 DEF r
<1>4. CASE a # b - 1
  <2>1. q = 0
    <3>1. b * q < b
      BY <1>2, <1>4
    <3>2. q >= 1 => b * q >= b
      BY <1>2
    <3> QED BY <1>2, <3>1, <3>2
  <2> QED BY <1>2, <1>4, <2>1 DEF r
<1> QED BY <1>3, <1>4

\* A larger number has no smaller quotient.
LEMMA DivisionMonotone ==
  ASSUME NEW a \in Nat, NEW c \in Nat, a <= c, NEW b \in Nat, b # 0
  PROVE  a \div b <= c \div b
<1> DEFINE p == a \div b
           q == c \div b
<1>1. p \in Nat /\ q \in Nat /\ a >= b * p /\ c < b * q + b
  BY Division
<1> HIDE DEF p, q
<1>2. b * p < b * (q + 1)
  BY <1>1
<1>3. p < q + 1
  BY <1>1, <1>2
<1>4. p <= q
  BY <1>1, <1>3
<1> QED BY <1>4 DEF p, q

\* A divisor more, a quotient more.
LEMMA DivisionStep ==
  ASSUME NEW a \in Nat, NEW b \in Nat, b # 0, a >= b
  PROVE  a \div b = ((a - b) \div b) + 1
<1> DEFINE p == a \div b
           q == (a - b) \div b
<1>1. a - b \in Nat
  OBVIOUS
<1>2. p \in Nat /\ q \in Nat /\ a >= b * p /\ a < b * p + b /\ a - b >= b * q /\ a - b < b * q + b
  BY <1>1, Division
<1> HIDE DEF p, q
<1>3. b * p < b * (q + 1) + b /\ b * (q + 1) < b * p + b
  BY <1>2
<1>4. p < q + 2 /\ q + 1 < p + 1
  BY <1>2, <1>3
<1>5. p = q + 1
  BY <1>2, <1>4
<1> QED BY <1>5 DEF p, q

\* A number has one quotient and one remainder.
LEMMA RemainderUnique ==
  ASSUME NEW a \in Nat, NEW b \in Nat, b # 0, NEW q \in Nat, NEW r \in Nat, r < b, a = b * q + r
  PROVE  a % b = r
<1> DEFINE p == a \div b
           s == a % b
<1>1. p \in Nat /\ s \in Nat /\ s < b /\ a = b * p + s
  BY Division
<1> HIDE DEF p, s
<1>2. b * p + s = b * q + r
  BY <1>1
<1>3. b * p < b * (q + 1) /\ b * q < b * (p + 1)
  BY <1>1, <1>2
<1>4. p < q + 1 /\ q < p + 1
  BY <1>1, <1>3
<1>5. p = q
  BY <1>1, <1>4
<1>6. s = r
  <2>1. b * p = b * q /\ b * q \in Nat
    BY <1>5
  <2> QED BY <1>1, <1>2, <2>1
<1> QED BY <1>6 DEF s

\* A number less than the divisor is its own remainder.
LEMMA SmallRemainder ==
  ASSUME NEW a \in Nat, NEW b \in Nat, a < b
  PROVE  a % b = a
<1>1. a = b * 0 + a
  OBVIOUS
<1> QED BY <1>1, RemainderUnique
=============================================================================

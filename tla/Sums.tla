-------------------------------- MODULE Sums --------------------------------
(***************************************************************************)
(* Lemmas about SumFunction and SumFunctionOnSet of the community module   *)
(* Functions, for the proofs of components whose properties count bytes or *)
(* items.  Induction is stated with sets, as the principle that a nonempty *)
(* set of natural numbers has a least element.                             *)
(***************************************************************************)
EXTENDS Integers, FiniteSets, Functions, FiniteSetTheorems, WellFoundedInduction, TLAPS

\* Every nonempty set of natural numbers has a least element.
LEMMA LeastNatural ==
  ASSUME NEW T, T \subseteq Nat, T # {}
  PROVE  \E n \in T : \A m \in T : n <= m
  <1> DEFINE R == OpToRel(<, Nat)
  <1>1. IsWellFoundedOn(R, Nat)
    BY NatLessThanWellFounded
  <1>2. \A m, n \in Nat : m < n => <<m, n>> \in R
    BY DEF OpToRel
  <1> HIDE DEF R
  <1>3. PICK n \in T : \A m \in T : ~(<<m, n>> \in R)
    BY <1>1, WFMin
  <1>4. n \in Nat /\ \A m \in T : m \in Nat
    OBVIOUS
  <1>5. \A m \in T : ~(m < n)
    BY <1>2, <1>3, <1>4
  <1> QED BY <1>4, <1>5

-----------------------------------------------------------------------------
(* The fold behind a sum satisfies its recursion.                          *)

First(s) == CHOOSE x \in s : TRUE

Rest(s) == s \ {First(s)}

\* g is the sum of f over each set in D.
Sums(g, f, D) ==
  g = [s \in D |-> IF s = {} THEN 0 ELSE f[First(s)] + g[Rest(s)]]

UpTo(S, n) == {s \in SUBSET S : Cardinality(s) <= n}

\* First takes one element out.
LEMMA RestFacts ==
  ASSUME NEW S, IsFiniteSet(S), S # {}
  PROVE  /\ First(S) \in S
         /\ IsFiniteSet(Rest(S))
         /\ Rest(S) \subseteq S
         /\ Cardinality(S) \in Nat /\ Cardinality(Rest(S)) \in Nat
         /\ Cardinality(Rest(S)) = Cardinality(S) - 1
  <1>1. First(S) \in S
    BY DEF First
  <1> QED BY <1>1, FS_RemoveElement, FS_CardinalityType DEF Rest

\* The recursion has a solution up to every cardinality.
LEMMA SumsUpTo ==
  ASSUME NEW f, NEW S, IsFiniteSet(S), NEW n \in Nat
  PROVE  \E g : Sums(g, f, UpTo(S, n))
  <1> DEFINE Bad == {m \in Nat : ~\E g : Sums(g, f, UpTo(S, m))}
  <1> SUFFICES ASSUME Bad # {} PROVE FALSE
    OBVIOUS
  <1>1. PICK m \in Bad : \A k \in Bad : m <= k
    BY LeastNatural, Bad \subseteq Nat
  <1>2. m \in Nat /\ ~\E g : Sums(g, f, UpTo(S, m))
    BY <1>1
  <1>3. \A s \in SUBSET S : /\ IsFiniteSet(s)
                            /\ Cardinality(s) \in Nat
                            /\ s # {} => /\ Cardinality(Rest(s)) = Cardinality(s) - 1
                                         /\ Rest(s) \in SUBSET S
    BY FS_Subset, FS_CardinalityType, RestFacts
  <1>4. \A s \in SUBSET S : Cardinality(s) = 0 <=> s = {}
    BY <1>3, FS_EmptySet
  <1>5. CASE m = 0
    <2>1. UpTo(S, 0) = {{}}
      BY <1>3, <1>4 DEF UpTo
    <2>2. Sums([s \in UpTo(S, 0) |-> 0], f, UpTo(S, 0))
      BY <2>1 DEF Sums
    <2> QED BY <1>2, <1>5, <2>2
  <1>6. CASE m # 0
    <2>1. m - 1 \in Nat /\ m - 1 \notin Bad
      BY <1>1, <1>2, <1>6
    <2>2. PICK g : Sums(g, f, UpTo(S, m - 1))
      BY <2>1
    <2> DEFINE h == [s \in UpTo(S, m) |-> IF s = {} THEN 0 ELSE f[First(s)] + g[Rest(s)]]
    <2>3. ASSUME NEW s \in UpTo(S, m), s # {}
          PROVE  Rest(s) \in UpTo(S, m) /\ Rest(s) \in UpTo(S, m - 1)
      BY <1>2, <1>3, <2>3 DEF UpTo
    <2>4. ASSUME NEW s \in UpTo(S, m), s \in UpTo(S, m - 1)
          PROVE  h[s] = g[s]
      BY <2>2, <2>4 DEF Sums
    <2> HIDE DEF h
    <2>5. ASSUME NEW s \in UpTo(S, m), s # {}
          PROVE  h[Rest(s)] = g[Rest(s)]
      BY <2>3, <2>4, <2>5
    <2>6. Sums(h, f, UpTo(S, m))
      BY <2>5 DEF Sums, h
    <2> QED BY <1>2, <2>6
  <1> QED BY <1>5, <1>6

\* A set of subsets that has the empty set, and every set whose proper subsets
\* it has, has all subsets of a finite set.
LEMMA SubsetInduction ==
  ASSUME NEW S, IsFiniteSet(S), NEW G,
         ASSUME NEW s \in SUBSET S, \A t \in SUBSET s : t # s => t \in G
         PROVE  s \in G
  PROVE  \A s \in SUBSET S : s \in G
  <1> DEFINE Bad == {Cardinality(s) : s \in (SUBSET S) \ G}
  <1> SUFFICES ASSUME (SUBSET S) \ G # {} PROVE FALSE
    OBVIOUS
  <1>1. \A s \in SUBSET S : IsFiniteSet(s) /\ Cardinality(s) \in Nat
    BY FS_Subset, FS_CardinalityType
  <1>2. PICK m \in Bad : \A k \in Bad : m <= k
    BY <1>1, LeastNatural, Bad \subseteq Nat, Bad # {}
  <1>3. PICK s \in (SUBSET S) \ G : m = Cardinality(s)
    BY <1>2
  <1>4. PICK t \in SUBSET s : t # s /\ t \notin G
    BY <1>3
  <1>5. Cardinality(t) < Cardinality(s)
    BY <1>1, <1>4, FS_Subset
  <1>6. t \in SUBSET S /\ Cardinality(t) \in Bad
    BY <1>4
  <1>7. m <= Cardinality(t)
    BY <1>2, <1>6
  <1>8. Cardinality(t) \in Nat /\ Cardinality(s) \in Nat
    BY <1>1, <1>6
  <1> QED BY <1>3, <1>5, <1>7, <1>8

\* Two solutions for functions that agree on a set agree on it.
LEMMA SumsAgree ==
  ASSUME NEW T, IsFiniteSet(T), NEW f, NEW e, \A x \in T : f[x] = e[x],
         NEW D, SUBSET T \subseteq D, NEW E, SUBSET T \subseteq E,
         NEW g, Sums(g, f, D), NEW h, Sums(h, e, E)
  PROVE  g[T] = h[T]
  <1> DEFINE G == {s \in SUBSET T : g[s] = h[s]}
  <1>1. ASSUME NEW s \in SUBSET T, \A t \in SUBSET s : t # s => t \in G
        PROVE  s \in G
    <2>1. s \in D /\ s \in E
      OBVIOUS
    <2>2. /\ g[s] = IF s = {} THEN 0 ELSE f[First(s)] + g[Rest(s)]
          /\ h[s] = IF s = {} THEN 0 ELSE e[First(s)] + h[Rest(s)]
      BY <2>1 DEF Sums
    <2>3. s # {} => First(s) \in s /\ Rest(s) \in SUBSET s /\ Rest(s) # s
      BY DEF First, Rest
    <2>4. s # {} => g[Rest(s)] = h[Rest(s)]
      BY <1>1, <2>3
    <2> QED BY <2>2, <2>3, <2>4
  <1> HIDE DEF G
  <1>2. T \in G
    BY <1>1, SubsetInduction
  <1> QED BY <1>2 DEF G

TheSums(f, S) == CHOOSE g : Sums(g, f, SUBSET S)

\* SumFunctionOnSet is the solution of the recursion.
LEMMA SumIsSolution ==
  ASSUME NEW f, NEW S, IsFiniteSet(S)
  PROVE  /\ Sums(TheSums(f, S), f, SUBSET S)
         /\ SumFunctionOnSet(f, S) = TheSums(f, S)[S]
  <1>1. Cardinality(S) \in Nat
    BY FS_CardinalityType
  <1>2. UpTo(S, Cardinality(S)) = SUBSET S
    <2>1. \A s \in SUBSET S : Cardinality(s) <= Cardinality(S)
      BY FS_Subset
    <2> QED BY <2>1 DEF UpTo
  <1>3. \E g : Sums(g, f, SUBSET S)
    <2>1. \E g : Sums(g, f, UpTo(S, Cardinality(S)))
      BY <1>1, SumsUpTo
    <2> QED BY <1>2, <2>1
  <1>4. Sums(TheSums(f, S), f, SUBSET S)
    BY <1>3 DEF TheSums
  <1>5. SumFunctionOnSet(f, S) = TheSums(f, S)[S]
    BY DEF SumFunctionOnSet, FoldFunctionOnSet, MapThenFoldSet, TheSums, Sums, First, Rest
  <1> QED BY <1>4, <1>5

\* A sum depends on the values on its set only.
LEMMA SumSame ==
  ASSUME NEW f, NEW e, NEW S, IsFiniteSet(S), \A x \in S : f[x] = e[x]
  PROVE  SumFunctionOnSet(f, S) = SumFunctionOnSet(e, S)
  <1>1. Sums(TheSums(f, S), f, SUBSET S) /\ Sums(TheSums(e, S), e, SUBSET S)
    BY SumIsSolution
  <1>2. TheSums(f, S)[S] = TheSums(e, S)[S]
    BY <1>1, SumsAgree
  <1> QED BY <1>2, SumIsSolution

\* Nothing sums up to zero.
LEMMA SumEmpty ==
  ASSUME NEW f PROVE SumFunctionOnSet(f, {}) = 0
  <1>1. IsFiniteSet({}) /\ {} \in SUBSET {}
    BY FS_EmptySet
  <1> QED BY <1>1, SumIsSolution DEF Sums

\* The recursion of a sum.
LEMMA SumRecursion ==
  ASSUME NEW f, NEW S, IsFiniteSet(S), S # {}
  PROVE  SumFunctionOnSet(f, S) = f[First(S)] + SumFunctionOnSet(f, Rest(S))
  <1>1. IsFiniteSet(Rest(S)) /\ Rest(S) \subseteq S
    BY RestFacts
  <1>2. TheSums(f, S)[S] = f[First(S)] + TheSums(f, S)[Rest(S)]
    BY SumIsSolution DEF Sums
  <1> DEFINE T == Rest(S)
             g == TheSums(f, S)
             h == TheSums(f, T)
  <1>3. Sums(g, f, SUBSET S) /\ Sums(h, f, SUBSET T)
    BY <1>1, SumIsSolution
  <1>4. IsFiniteSet(T) /\ SUBSET T \subseteq SUBSET S
    BY <1>1
  <1>5. SumFunctionOnSet(f, S) = g[S] /\ SumFunctionOnSet(f, T) = h[T]
    BY <1>4, SumIsSolution
  <1>6. g[S] = f[First(S)] + g[T]
    BY <1>2
  <1> HIDE DEF T, g, h
  <1>7. g[T] = h[T]
    BY <1>3, <1>4, SumsAgree
  <1> QED BY <1>5, <1>6, <1>7 DEF T

-----------------------------------------------------------------------------
(* The facts about sums of integers that the proofs cite.                  *)

\* A sum of integers is an integer, one of natural numbers a natural number.
LEMMA SumType ==
  ASSUME NEW S, IsFiniteSet(S), NEW f, NEW N \in {Nat, Int}, \A x \in S : f[x] \in N
  PROVE  SumFunctionOnSet(f, S) \in N
  <1> DEFINE G == {s \in SUBSET S : SumFunctionOnSet(f, s) \in N}
  <1>1. ASSUME NEW s \in SUBSET S, \A t \in SUBSET s : t # s => t \in G
        PROVE  s \in G
    <2>1. CASE s = {}
      BY <2>1, SumEmpty
    <2>2. CASE s # {}
      <3>1. IsFiniteSet(s)
        BY FS_Subset
      <3>2. First(s) \in s /\ Rest(s) \in SUBSET s /\ Rest(s) # s
        BY <2>2 DEF First, Rest
      <3>3. f[First(s)] \in N /\ SumFunctionOnSet(f, Rest(s)) \in N
        BY <1>1, <3>2
      <3> QED BY <2>2, <3>1, <3>3, SumRecursion
    <2> QED BY <2>1, <2>2
  <1> HIDE DEF G
  <1>2. S \in G
    BY <1>1, SubsetInduction
  <1> QED BY <1>2 DEF G

\* Any element can be taken out of a sum.
LEMMA SumRemove ==
  ASSUME NEW S, IsFiniteSet(S), NEW f, \A x \in S : f[x] \in Int, NEW a \in S
  PROVE  SumFunctionOnSet(f, S) = f[a] + SumFunctionOnSet(f, S \ {a})
  <1> DEFINE Sum(s) == SumFunctionOnSet(f, s)
             G == {s \in SUBSET S : \A b \in s : Sum(s) = f[b] + Sum(s \ {b})}
  <1>1. ASSUME NEW s \in SUBSET S, \A t \in SUBSET s : t # s => t \in G
        PROVE  s \in G
    <2> SUFFICES ASSUME NEW b \in s PROVE Sum(s) = f[b] + Sum(s \ {b})
      OBVIOUS
    <2> DEFINE c == First(s)
    <2>1. \A t \in SUBSET s : IsFiniteSet(t) /\ Sum(t) \in Int
      BY FS_Subset, SumType
    <2>2. c \in s /\ Rest(s) = s \ {c}
      BY DEF First, Rest
    <2>3. Sum(s) = f[c] + Sum(s \ {c})
      BY <2>1, <2>2, SumRecursion
    <2> HIDE DEF c
    <2>4. CASE b # c
      <3>1. s \ {c} \in G /\ s \ {b} \in G
        BY <1>1, <2>2
      <3>2. Sum(s \ {c}) = f[b] + Sum((s \ {c}) \ {b})
        BY <2>4, <3>1
      <3>3. Sum(s \ {b}) = f[c] + Sum((s \ {b}) \ {c})
        BY <2>2, <2>4, <3>1
      <3>4. (s \ {c}) \ {b} = (s \ {b}) \ {c}
        OBVIOUS
      <3> DEFINE u == Sum((s \ {b}) \ {c})
      <3>5. f[b] \in Int /\ f[c] \in Int /\ u \in Int
        BY <2>1, <2>2
      <3>6. Sum(s) = f[c] + (f[b] + u) /\ Sum(s \ {b}) = f[c] + u
        BY <2>3, <3>2, <3>3, <3>4
      <3> HIDE DEF Sum, u
      <3> QED BY <3>5, <3>6
    <2> QED BY <2>3, <2>4
  <1>2. S \in G
    <2> HIDE DEF G
    <2> QED BY <1>1, SubsetInduction
  <1> QED BY <1>2

\* A sum that differs at one element differs by that element's change.
LEMMA SumChange ==
  ASSUME NEW S, IsFiniteSet(S), NEW a \in S,
         NEW f, \A x \in S : f[x] \in Int, NEW e, e[a] \in Int,
         \A x \in S \ {a} : e[x] = f[x]
  PROVE  SumFunctionOnSet(e, S) = SumFunctionOnSet(f, S) - f[a] + e[a]
  <1>1. \A x \in S : e[x] \in Int
    OBVIOUS
  <1>2. IsFiniteSet(S \ {a})
    BY FS_RemoveElement
  <1>3. SumFunctionOnSet(e, S \ {a}) = SumFunctionOnSet(f, S \ {a})
    BY <1>2, SumSame
  <1>4. SumFunctionOnSet(f, S \ {a}) \in Int
    BY <1>2, SumType
  <1>5. SumFunctionOnSet(f, S) = f[a] + SumFunctionOnSet(f, S \ {a})
    BY SumRemove
  <1>6. SumFunctionOnSet(e, S) = e[a] + SumFunctionOnSet(e, S \ {a})
    BY <1>1, SumRemove
  <1> QED BY <1>1, <1>3, <1>4, <1>5, <1>6

\* A sum of larger values is larger.
LEMMA SumMonotone ==
  ASSUME NEW S, IsFiniteSet(S), NEW f, \A x \in S : f[x] \in Int,
         NEW e, \A x \in S : e[x] \in Int, \A x \in S : f[x] <= e[x]
  PROVE  SumFunctionOnSet(f, S) <= SumFunctionOnSet(e, S)
  <1> DEFINE F(s) == SumFunctionOnSet(f, s)
             E(s) == SumFunctionOnSet(e, s)
             G == {s \in SUBSET S : F(s) <= E(s)}
  <1>1. ASSUME NEW s \in SUBSET S, \A t \in SUBSET s : t # s => t \in G
        PROVE  s \in G
    <2>1. CASE s = {}
      BY <2>1, SumEmpty
    <2>2. CASE s # {}
      <3> DEFINE c == First(s)
                 r == Rest(s)
      <3>1. IsFiniteSet(s)
        BY FS_Subset
      <3>2. c \in s /\ r \in SUBSET s /\ r # s
        BY <2>2 DEF First, Rest
      <3>3. F(s) = f[c] + F(r) /\ E(s) = e[c] + E(r)
        BY <2>2, <3>1, SumRecursion
      <3>4. F(r) \in Int /\ E(r) \in Int
        <4>1. IsFiniteSet(r)
          BY <3>1, <3>2, FS_Subset
        <4> QED BY <3>2, <4>1, SumType
      <3>5. F(r) <= E(r)
        BY <1>1, <3>2
      <3>6. f[c] \in Int /\ e[c] \in Int /\ f[c] <= e[c]
        BY <3>2
      <3> HIDE DEF F, E, c, r
      <3> QED BY <3>3, <3>4, <3>5, <3>6
    <2> QED BY <2>1, <2>2
  <1>2. S \in G
    <2> HIDE DEF G
    <2> QED BY <1>1, SubsetInduction
  <1> QED BY <1>2

\* Sums over the same set are added element by element.
LEMMA SumPlus ==
  ASSUME NEW S, IsFiniteSet(S), NEW f, \A x \in S : f[x] \in Int,
         NEW e, \A x \in S : e[x] \in Int, NEW d, \A x \in S : d[x] = f[x] + e[x]
  PROVE  SumFunctionOnSet(d, S) = SumFunctionOnSet(f, S) + SumFunctionOnSet(e, S)
  <1> DEFINE F(s) == SumFunctionOnSet(f, s)
             E(s) == SumFunctionOnSet(e, s)
             D(s) == SumFunctionOnSet(d, s)
             G == {s \in SUBSET S : D(s) = F(s) + E(s)}
  <1>1. ASSUME NEW s \in SUBSET S, \A t \in SUBSET s : t # s => t \in G
        PROVE  s \in G
    <2>1. CASE s = {}
      BY <2>1, SumEmpty
    <2>2. CASE s # {}
      <3> DEFINE c == First(s)
                 r == Rest(s)
      <3>1. IsFiniteSet(s)
        BY FS_Subset
      <3>2. c \in s /\ r \in SUBSET s /\ r # s
        BY <2>2 DEF First, Rest
      <3>3. F(s) = f[c] + F(r) /\ E(s) = e[c] + E(r) /\ D(s) = d[c] + D(r)
        BY <2>2, <3>1, SumRecursion
      <3>4. F(r) \in Int /\ E(r) \in Int
        <4>1. IsFiniteSet(r)
          BY <3>1, <3>2, FS_Subset
        <4> QED BY <3>2, <4>1, SumType
      <3>5. D(r) = F(r) + E(r)
        BY <1>1, <3>2
      <3>6. f[c] \in Int /\ e[c] \in Int /\ d[c] = f[c] + e[c]
        BY <3>2
      <3> HIDE DEF F, E, D, c, r
      <3>7. D(s) = F(s) + E(s)
        BY <3>3, <3>4, <3>5, <3>6
      <3> QED BY <3>7
    <2> QED BY <2>1, <2>2
  <1>2. S \in G
    <2> HIDE DEF G
    <2> QED BY <1>1, SubsetInduction
  <1> QED BY <1>2

\* Elements whose value is zero do not count.
LEMMA SumSupport ==
  ASSUME NEW S, IsFiniteSet(S), NEW T \in SUBSET S,
         NEW f, \A x \in S : f[x] \in Int, \A x \in S \ T : f[x] = 0
  PROVE  SumFunctionOnSet(f, S) = SumFunctionOnSet(f, T)
  <1> DEFINE Sum(s) == SumFunctionOnSet(f, s)
             G == {s \in SUBSET S : T \subseteq s => Sum(s) = Sum(T)}
  <1>1. ASSUME NEW s \in SUBSET S, \A t \in SUBSET s : t # s => t \in G
        PROVE  s \in G
    <2> SUFFICES ASSUME T \subseteq s, s # T PROVE Sum(s) = Sum(T)
      OBVIOUS
    <2>1. PICK a \in s : a \notin T
      OBVIOUS
    <2>2. IsFiniteSet(s) /\ IsFiniteSet(s \ {a})
      BY FS_Subset
    <2>3. Sum(s) = f[a] + Sum(s \ {a}) /\ Sum(s \ {a}) \in Int /\ f[a] = 0
      BY <2>1, <2>2, SumRemove, SumType
    <2>4. s \ {a} \in G /\ T \subseteq s \ {a}
      BY <1>1, <2>1
    <2>5. Sum(s \ {a}) = Sum(T)
      BY <2>4
    <2> HIDE DEF Sum
    <2> QED BY <2>3, <2>5
  <1>2. S \in G
    <2> HIDE DEF G
    <2>1. \A s \in SUBSET S : s \in G
      BY <1>1, SubsetInduction
    <2> QED BY <2>1
  <1> QED BY <1>2

\* No summand of a sum of natural numbers exceeds it.
LEMMA SumAtLeast ==
  ASSUME NEW S, IsFiniteSet(S), NEW f, \A x \in S : f[x] \in Nat, NEW a \in S
  PROVE  SumFunctionOnSet(f, S) >= f[a]
  <1>1. IsFiniteSet(S \ {a})
    BY FS_RemoveElement
  <1>2. SumFunctionOnSet(f, S \ {a}) \in Nat
    BY <1>1, SumType
  <1>3. SumFunctionOnSet(f, S) = f[a] + SumFunctionOnSet(f, S \ {a})
    BY SumRemove
  <1> QED BY <1>2, <1>3

\* A new element is added to a sum.
LEMMA SumAdd ==
  ASSUME NEW S, IsFiniteSet(S), NEW f, \A x \in S : f[x] \in Int,
         NEW a, a \notin S, f[a] \in Int
  PROVE  SumFunctionOnSet(f, S \cup {a}) = SumFunctionOnSet(f, S) + f[a]
  <1> DEFINE U == S \cup {a}
  <1>1. IsFiniteSet(U) /\ U \ {a} = S /\ a \in U /\ \A x \in U : f[x] \in Int
    BY FS_AddElement
  <1>2. SumFunctionOnSet(f, S) \in Int
    BY SumType
  <1> HIDE DEF U
  <1>3. SumFunctionOnSet(f, U) = f[a] + SumFunctionOnSet(f, U \ {a})
    BY <1>1, SumRemove
  <1> DEFINE A == SumFunctionOnSet(f, U)
             B == SumFunctionOnSet(f, U \ {a})
             C == SumFunctionOnSet(f, S)
             d == f[a]
  <1>4. B = C
    BY <1>1
  <1>5. A = d + B /\ C \in Int /\ d \in Int
    BY <1>2, <1>3
  <1> HIDE DEF A, B, C, d
  <1>6. A = C + d
    BY <1>4, <1>5
  <1> QED BY <1>6 DEF A, C, d, U

\* The sum over one element.
LEMMA SumSingle ==
  ASSUME NEW f, NEW a, f[a] \in Int
  PROVE  SumFunctionOnSet(f, {a}) = f[a]
  <1>1. IsFiniteSet({}) /\ (\A x \in {} : f[x] \in Int) /\ a \notin {}
    BY FS_EmptySet
  <1>2. SumFunctionOnSet(f, {} \cup {a}) = SumFunctionOnSet(f, {}) + f[a]
    BY <1>1, SumAdd
  <1>3. {} \cup {a} = {a} /\ SumFunctionOnSet(f, {}) = 0
    BY SumEmpty
  <1> QED BY <1>2, <1>3

\* The sum over a set splits into the sums over its parts.
LEMMA SumDisjoint ==
  ASSUME NEW S, IsFiniteSet(S), NEW T, IsFiniteSet(T), S \cap T = {},
         NEW f, \A x \in S \cup T : f[x] \in Int
  PROVE  SumFunctionOnSet(f, S \cup T) = SumFunctionOnSet(f, S) + SumFunctionOnSet(f, T)
  <1> DEFINE U == S \cup T
             g == [x \in U |-> IF x \in S THEN f[x] ELSE 0]
             h == [x \in U |-> IF x \in T THEN f[x] ELSE 0]
  <1>1. IsFiniteSet(U) /\ S \in SUBSET U /\ T \in SUBSET U
    BY FS_Union
  <1>2. /\ \A x \in U : g[x] \in Int /\ h[x] \in Int /\ f[x] = g[x] + h[x]
        /\ \A x \in U \ S : g[x] = 0
        /\ \A x \in U \ T : h[x] = 0
        /\ \A x \in S : g[x] = f[x]
        /\ \A x \in T : h[x] = f[x]
    OBVIOUS
  <1> HIDE DEF U, g, h
  <1>3. SumFunctionOnSet(f, U) = SumFunctionOnSet(g, U) + SumFunctionOnSet(h, U)
    BY <1>1, <1>2, SumPlus
  <1>4. SumFunctionOnSet(g, U) = SumFunctionOnSet(g, S)
    BY <1>1, <1>2, SumSupport
  <1>5. SumFunctionOnSet(h, U) = SumFunctionOnSet(h, T)
    BY <1>1, <1>2, SumSupport
  <1>6. SumFunctionOnSet(g, S) = SumFunctionOnSet(f, S)
    BY <1>2, SumSame
  <1>7. SumFunctionOnSet(h, T) = SumFunctionOnSet(f, T)
    BY <1>2, SumSame
  <1> QED BY <1>3, <1>4, <1>5, <1>6, <1>7 DEF U

\* A sum does not depend on the names of the elements.
LEMMA SumReindex ==
  ASSUME NEW S, IsFiniteSet(S), NEW h, \A x, y \in S : h[x] = h[y] => x = y,
         NEW f, \A x \in S : f[x] \in Int, NEW e, \A x \in S : e[h[x]] = f[x]
  PROVE  /\ IsFiniteSet({h[x] : x \in S})
         /\ SumFunctionOnSet(e, {h[x] : x \in S}) = SumFunctionOnSet(f, S)
  <1> DEFINE Image(s) == {h[x] : x \in s}
             G == {s \in SUBSET S : /\ IsFiniteSet(Image(s))
                                    /\ SumFunctionOnSet(e, Image(s)) = SumFunctionOnSet(f, s)}
  <1>1. ASSUME NEW s \in SUBSET S, \A t \in SUBSET s : t # s => t \in G
        PROVE  s \in G
    <2>1. CASE s = {}
      <3>1. Image(s) = {}
        BY <2>1
      <3> QED BY <2>1, <3>1, SumEmpty, FS_EmptySet
    <2>2. CASE s # {}
      <3>1. PICK a \in s : TRUE
        BY <2>2
      <3> DEFINE r == s \ {a}
                 J == Image(r)
                 z == h[a]
      <3>2. /\ r \in G /\ IsFiniteSet(s) /\ IsFiniteSet(r)
            /\ Image(s) = J \cup {z} /\ z \notin J
            /\ \A y \in J : e[y] \in Int
            /\ e[z] = f[a] /\ e[z] \in Int
        <4>1. r \in SUBSET s /\ r # s /\ r \in SUBSET S /\ a \in S /\ a \notin r
          BY <3>1
        <4>2. r \in G
          BY <1>1, <4>1
        <4>3. IsFiniteSet(s) /\ IsFiniteSet(r)
          BY <4>1, FS_Subset
        <4>4. s = r \cup {a}
          BY <3>1
        <4>5. e[z] = f[a] /\ e[z] \in Int
          BY <4>1
        <4> HIDE DEF r, G
        <4>6. Image(s) = J \cup {z}
          BY <4>4
        <4>7. z \notin J
          BY <4>1
        <4>8. \A y \in J : e[y] \in Int
          BY <4>1
        <4> QED BY <4>2, <4>3, <4>5, <4>6, <4>7, <4>8
      <3>3. IsFiniteSet(J) /\ SumFunctionOnSet(e, J) = SumFunctionOnSet(f, r)
        BY <3>2
      <3>4. SumFunctionOnSet(f, s) = f[a] + SumFunctionOnSet(f, r)
        BY <3>2, SumRemove
      <3>5. SumFunctionOnSet(f, r) \in Int
        BY <3>2, SumType
      <3> HIDE DEF J, z, r
      <3>6. IsFiniteSet(J \cup {z})
        BY <3>3, FS_AddElement
      <3>7. SumFunctionOnSet(e, J \cup {z}) = SumFunctionOnSet(e, J) + e[z]
        BY <3>2, <3>3, SumAdd
      <3>8. SumFunctionOnSet(e, J \cup {z}) = SumFunctionOnSet(f, s)
        BY <3>2, <3>3, <3>4, <3>5, <3>7
      <3> QED BY <3>2, <3>6, <3>8
    <2> QED BY <2>1, <2>2
  <1>2. S \in G
    <2> HIDE DEF G
    <2> QED BY <1>1, SubsetInduction
  <1> QED BY <1>2

\* A cardinality is a sum of ones.
LEMMA SumCounts ==
  ASSUME NEW S, IsFiniteSet(S), NEW f, \A x \in S : f[x] \in {0, 1}
  PROVE  SumFunctionOnSet(f, S) = Cardinality({x \in S : f[x] = 1})
  <1> DEFINE Ones(s) == {x \in s : f[x] = 1}
             G == {s \in SUBSET S : SumFunctionOnSet(f, s) = Cardinality(Ones(s))}
  <1>1. ASSUME NEW s \in SUBSET S, \A t \in SUBSET s : t # s => t \in G
        PROVE  s \in G
    <2>1. CASE s = {}
      <3>1. Ones(s) = {}
        BY <2>1
      <3> QED BY <2>1, <3>1, SumEmpty, FS_EmptySet
    <2>2. CASE s # {}
      <3>1. PICK a \in s : TRUE
        BY <2>2
      <3> DEFINE r == s \ {a}
      <3>2. r \in G /\ IsFiniteSet(s) /\ IsFiniteSet(r)
        BY <1>1, FS_Subset
      <3>3. SumFunctionOnSet(f, s) = f[a] + SumFunctionOnSet(f, r)
        BY <3>2, SumRemove
      <3>4. IsFiniteSet(Ones(r)) /\ Cardinality(Ones(r)) \in Nat
        BY <3>2, FS_Subset, FS_CardinalityType
      <3>5. SumFunctionOnSet(f, r) = Cardinality(Ones(r))
        BY <3>2
      <3>6. CASE f[a] = 1
        <4>1. Ones(s) = Ones(r) \cup {a} /\ a \notin Ones(r)
          BY <3>6
        <4>2. Cardinality(Ones(s)) = Cardinality(Ones(r)) + 1
          BY <3>4, <4>1, FS_AddElement
        <4> QED BY <3>3, <3>4, <3>5, <3>6, <4>2
      <3>7. CASE f[a] = 0
        <4>1. Ones(s) = Ones(r)
          BY <3>7
        <4> QED BY <3>3, <3>4, <3>5, <3>7, <4>1
      <3> QED BY <3>6, <3>7
    <2> QED BY <2>1, <2>2
  <1>2. S \in G
    <2> HIDE DEF G
    <2> QED BY <1>1, SubsetInduction
  <1> QED BY <1>2

-----------------------------------------------------------------------------
(* Sums of finite sequences of integers, given as functions on 1..n.       *)

\* The sum of a sequence is a sum over its indices.
LEMMA SeqSumType ==
  ASSUME NEW n \in Nat, NEW N \in {Nat, Int}, NEW u \in [1..n -> N]
  PROVE  /\ IsFiniteSet(1..n)
         /\ SumFunction(u) = SumFunctionOnSet(u, 1..n)
         /\ SumFunction(u) \in N
         /\ n = 0 => SumFunction(u) = 0
  <1>1. IsFiniteSet(1..n)
    BY FS_Interval
  <1>2. SumFunction(u) = SumFunctionOnSet(u, 1..n)
    BY DEF SumFunction
  <1>3. n = 0 => 1..n = {}
    OBVIOUS
  <1> QED BY <1>1, <1>2, <1>3, SumType, SumEmpty

\* Appending adds the last element.
LEMMA SeqSumAppend ==
  ASSUME NEW n \in Nat, NEW u \in [1..n -> Int], NEW v \in [1..(n + 1) -> Int],
         \A k \in 1..n : v[k] = u[k]
  PROVE  SumFunction(v) = SumFunction(u) + v[n + 1]
  <1>1. IsFiniteSet(1..n) /\ n + 1 \in Nat
    BY FS_Interval
  <1>2. 1..(n + 1) = (1..n) \cup {n + 1} /\ n + 1 \notin 1..n
    OBVIOUS
  <1>3. SumFunctionOnSet(v, (1..n) \cup {n + 1}) = SumFunctionOnSet(v, 1..n) + v[n + 1]
    BY <1>1, <1>2, SumAdd
  <1>4. SumFunctionOnSet(v, 1..n) = SumFunctionOnSet(u, 1..n)
    BY <1>1, SumSame
  <1> QED BY <1>1, <1>2, <1>3, <1>4, SeqSumType

\* The sum of a segment is the sum of the segment moved to the front.
LEMMA SumShift ==
  ASSUME NEW m \in Nat, NEW n \in Nat, NEW v, NEW w,
         \A k \in 1..n : v[k] \in Int /\ w[m + k] = v[k]
  PROVE  /\ IsFiniteSet((m + 1)..(m + n))
         /\ SumFunctionOnSet(w, (m + 1)..(m + n)) = SumFunctionOnSet(v, 1..n)
  <1> DEFINE I == 1..n
             h == [k \in I |-> m + k]
             T == {h[x] : x \in I}
  <1>1. IsFiniteSet(I)
    BY FS_Interval
  <1>2. /\ \A x, y \in I : h[x] = h[y] => x = y
        /\ \A x \in I : v[x] \in Int
        /\ \A x \in I : w[h[x]] = v[x]
    OBVIOUS
  <1>3. T = (m + 1)..(m + n)
    <2>1. \A k \in I : h[k] \in (m + 1)..(m + n)
      OBVIOUS
    <2>2. \A j \in (m + 1)..(m + n) : j - m \in I /\ h[j - m] = j
      OBVIOUS
    <2> HIDE DEF h, I
    <2> QED BY <2>1, <2>2
  <1> HIDE DEF I, h
  <1>4. /\ IsFiniteSet({h[x] : x \in I})
        /\ SumFunctionOnSet(w, {h[x] : x \in I}) = SumFunctionOnSet(v, I)
    BY <1>1, <1>2, SumReindex
  <1> QED BY <1>3, <1>4 DEF I

\* Concatenation adds the sums.
LEMMA SeqSumConcat ==
  ASSUME NEW m \in Nat, NEW n \in Nat, NEW u \in [1..m -> Int], NEW v \in [1..n -> Int],
         NEW w \in [1..(m + n) -> Int],
         \A k \in 1..m : w[k] = u[k], \A k \in 1..n : w[m + k] = v[k]
  PROVE  SumFunction(w) = SumFunction(u) + SumFunction(v)
  <1> DEFINE T == (m + 1)..(m + n)
  <1>1. IsFiniteSet(1..m) /\ m + n \in Nat
    BY FS_Interval
  <1>2. 1..(m + n) = (1..m) \cup T /\ (1..m) \cap T = {}
    OBVIOUS
  <1>3. IsFiniteSet(T) /\ SumFunctionOnSet(w, T) = SumFunctionOnSet(v, 1..n)
    <2>1. \A k \in 1..n : v[k] \in Int /\ w[m + k] = v[k]
      OBVIOUS
    <2>2. /\ IsFiniteSet((m + 1)..(m + n))
          /\ SumFunctionOnSet(w, (m + 1)..(m + n)) = SumFunctionOnSet(v, 1..n)
      BY <2>1, SumShift, Zenon
    <2> QED BY <2>2
  <1> HIDE DEF T
  <1>4. \A x \in (1..m) \cup T : w[x] \in Int
    BY <1>2
  <1>5. SumFunctionOnSet(w, (1..m) \cup T) = SumFunctionOnSet(w, 1..m) + SumFunctionOnSet(w, T)
    BY <1>1, <1>2, <1>3, <1>4, SumDisjoint
  <1>6. SumFunctionOnSet(w, 1..m) = SumFunctionOnSet(u, 1..m)
    BY <1>1, SumSame
  <1> QED BY <1>1, <1>2, <1>3, <1>5, <1>6, SeqSumType

\* The head of a sequence and its tail add up to it.
LEMMA SeqSumTail ==
  ASSUME NEW n \in Nat, NEW w \in [1..(n + 1) -> Int], NEW v \in [1..n -> Int],
         \A k \in 1..n : v[k] = w[k + 1]
  PROVE  SumFunction(w) = w[1] + SumFunction(v)
  <1> DEFINE u == [k \in 1..1 |-> w[1]]
  <1>1. u \in [1..1 -> Int] /\ w \in [1..(1 + n) -> Int] /\ 1 \in Nat
    OBVIOUS
  <1>2. (\A k \in 1..1 : w[k] = u[k]) /\ (\A k \in 1..n : w[1 + k] = v[k]) /\ u[1] = w[1]
    OBVIOUS
  <1>3. SumFunction(u) = w[1]
    <2>1. SumFunction(u) = SumFunctionOnSet(u, {1})
      BY DEF SumFunction
    <2>2. u[1] \in Int
      BY <1>1
    <2> HIDE DEF u
    <2>3. SumFunctionOnSet(u, {1}) = u[1]
      BY <2>2, SumSingle
    <2> QED BY <2>1, <2>3, <1>2
  <1> HIDE DEF u
  <1>4. SumFunction(w) = SumFunction(u) + SumFunction(v)
    BY <1>1, <1>2, SeqSumConcat
  <1> QED BY <1>3, <1>4
=============================================================================

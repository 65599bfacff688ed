-------------------------------- MODULE Sums --------------------------------
(***************************************************************************)
(* Lemmas about SumFunctionOnSet, the sum of a function over a finite set, *)
(* which the money books and the pipeline's counters are stated with.  The *)
(* induction theorems of the library take an operator, which no installed  *)
(* prover instantiates; here induction is over a SET of numbers instead,   *)
(* and rests on every set of naturals having a least element.              *)
(***************************************************************************)
EXTENDS Functions, FiniteSetTheorems, TLAPS

\* A set of naturals that holds 0 and every successor of its members is Nat.
LEMMA NaturalsByStep ==
  ASSUME NEW P \in SUBSET Nat, 0 \in P, \A n \in P : n + 1 \in P
  PROVE  P = Nat
<1> DEFINE Rest == Nat \ P
<1>1. ASSUME Rest # {} PROVE FALSE
  <2>1. \E n \in Rest : \A m \in Rest : ~ (<<m, n>> \in OpToRel(<, Nat))
    <3> HIDE DEF Rest
    <3>1. Rest \subseteq Nat
      BY DEF Rest
    <3> QED
      BY <1>1, <3>1, NatLessThanWellFounded, WFMin
  <2>2. PICK n \in Rest : \A m \in Rest : ~ (m < n)
    BY <2>1 DEF OpToRel
  <2>3. n - 1 \in Nat /\ n - 1 \notin Rest
    BY <2>2
  <2> QED
    BY <2>2, <2>3
<1> QED
  BY <1>1

\* The values of a function on a finite set are finitely many.
LEMMA FiniteValues ==
  ASSUME NEW f, NEW S, IsFiniteSet(S)
  PROVE  IsFiniteSet({f[x] : x \in S})
<1> DEFINE T == {f[x] : x \in S}
           g == [x \in S |-> f[x]]
<1>1. g \in Surjection(S, T)
  BY DEF Surjection
<1> QED
  BY <1>1, FS_Surjection

\* The element a sum takes first, and what it leaves.
Picked(T) == CHOOSE x \in T : TRUE
Unpicked(T) == T \ {Picked(T)}

\* One unfolding of the recursive function a sum is defined with, and its equation.
Unfolded(f, S, g) ==
  [T \in SUBSET S |-> IF T = {} THEN 0 ELSE f[Picked(T)] + g[Unpicked(T)]]
Totals(g, f, S) == g = Unfolded(f, S, g)

\* Taking the first element leaves a smaller finite set.
LEMMA UnpickedSmaller ==
  ASSUME NEW S, NEW n \in Nat, NEW T \in SUBSET S, T # {},
         IsFiniteSet(T), Cardinality(T) <= n + 1
  PROVE  /\ Picked(T) \in T
         /\ Unpicked(T) \in SUBSET S
         /\ IsFiniteSet(Unpicked(T))
         /\ Cardinality(Unpicked(T)) <= n
<1>1. Picked(T) \in T
  <2>1. \E x \in T : TRUE
    OBVIOUS
  <2> QED
    BY <2>1, Zenon DEF Picked
<1>2. IsFiniteSet(T \ {Picked(T)}) /\ Cardinality(T \ {Picked(T)}) = Cardinality(T) - 1
  BY <1>1, FS_RemoveElement
<1>3. Cardinality(T) \in Nat
  BY FS_CardinalityType
<1> QED
  BY <1>1, <1>2, <1>3 DEF Unpicked

\* The recursive function exists over a finite set: unfolding n + 1 times gives
\* the equation on the subsets of at most n elements.
LEMMA TotalsExist ==
  ASSUME NEW f, NEW S, IsFiniteSet(S)
  PROVE  \E g : Totals(g, f, S)
<1> DEFINE Upto(g, n) == \A T \in SUBSET S :
                           Cardinality(T) <= n => g[T] = Unfolded(f, S, g)[T]
           P == {n \in Nat : \E h : Upto(Unfolded(f, S, h), n)}
<1>0. \A T \in SUBSET S : IsFiniteSet(T) /\ Cardinality(T) \in Nat
  BY FS_Subset, FS_CardinalityType
<1>1. 0 \in P
  <2>1. \A T \in SUBSET S : Cardinality(T) <= 0 => T = {}
    BY <1>0, FS_EmptySet
  <2>2. Upto(Unfolded(f, S, [T \in SUBSET S |-> 0]), 0)
    BY <2>1 DEF Unfolded
  <2> QED
    BY <2>2
<1>2. ASSUME NEW n \in P PROVE n + 1 \in P
  <2>1. PICK h : Upto(Unfolded(f, S, h), n)
    OBVIOUS
  <2>2. PICK g : g = Unfolded(f, S, h)
    OBVIOUS
  <2>3. PICK k : k = Unfolded(f, S, g)
    OBVIOUS
  <2>4. ASSUME NEW T \in SUBSET S, Cardinality(T) <= n + 1
        PROVE  k[T] = Unfolded(f, S, k)[T]
    <3>1. CASE T = {}
      BY <3>1, <2>3 DEF Unfolded
    <3>2. CASE T # {}
      <4>1. Unpicked(T) \in SUBSET S /\ Cardinality(Unpicked(T)) <= n
        BY <1>0, <2>4, <3>2, UnpickedSmaller
      <4>2. g[Unpicked(T)] = k[Unpicked(T)]
        BY <4>1, <2>1, <2>2, <2>3
      <4>3. k[T] = f[Picked(T)] + g[Unpicked(T)]
        BY <3>2, <2>3 DEF Unfolded
      <4>4. Unfolded(f, S, k)[T] = f[Picked(T)] + k[Unpicked(T)]
        BY <3>2 DEF Unfolded
      <4> QED
        BY <4>2, <4>3, <4>4
    <3> QED
      BY <3>1, <3>2
  <2>5. Upto(k, n + 1)
    BY <2>4
  <2> QED
    BY <2>3, <2>5
<1>3. P = Nat
  <2> HIDE DEF P
  <2>1. P \in SUBSET Nat
    BY DEF P
  <2> QED
    BY <2>1, <1>1, <1>2, NaturalsByStep
<1>4. PICK h : Upto(Unfolded(f, S, h), Cardinality(S))
  BY <1>0, <1>3
<1>5. PICK g : g = Unfolded(f, S, h)
  OBVIOUS
<1>6. \A T \in SUBSET S : Cardinality(T) <= Cardinality(S)
  BY FS_Subset
<1>7. \A T \in SUBSET S : g[T] = Unfolded(f, S, g)[T]
  BY <1>4, <1>5, <1>6
<1>8. g = Unfolded(f, S, g)
  BY <1>5, <1>7 DEF Unfolded
<1> QED
  BY <1>8 DEF Totals

\* Two such functions, over any two sets, agree where both are defined.
LEMMA TotalsAgree ==
  ASSUME NEW f, NEW S, NEW R, NEW g, NEW h, Totals(g, f, S), Totals(h, f, R),
         NEW T \in SUBSET (S \cap R), IsFiniteSet(T)
  PROVE  g[T] = h[T]
<1> DEFINE P == {n \in Nat : \A U \in SUBSET (S \cap R) :
                               IsFiniteSet(U) /\ Cardinality(U) <= n => g[U] = h[U]}
<1>0. /\ \A U \in SUBSET S : g[U] = IF U = {} THEN 0 ELSE f[Picked(U)] + g[Unpicked(U)]
      /\ \A U \in SUBSET R : h[U] = IF U = {} THEN 0 ELSE f[Picked(U)] + h[Unpicked(U)]
  BY DEF Totals, Unfolded
<1>1. 0 \in P
  <2>1. ASSUME NEW U \in SUBSET (S \cap R), IsFiniteSet(U), Cardinality(U) <= 0
        PROVE  U = {}
    BY <2>1, FS_EmptySet, FS_CardinalityType
  <2> QED
    BY <1>0, <2>1
<1>2. ASSUME NEW n \in P PROVE n + 1 \in P
  <2> SUFFICES ASSUME NEW U \in SUBSET (S \cap R),
                      IsFiniteSet(U), Cardinality(U) <= n + 1
               PROVE  g[U] = h[U]
    OBVIOUS
  <2>1. CASE U = {}
    BY <1>0, <2>1
  <2>2. CASE U # {}
    <3>1. /\ Unpicked(U) \in SUBSET (S \cap R)
          /\ IsFiniteSet(Unpicked(U)) /\ Cardinality(Unpicked(U)) <= n
      BY <2>2, UnpickedSmaller
    <3>2. g[Unpicked(U)] = h[Unpicked(U)]
      BY <3>1
    <3>3. U \in SUBSET S /\ U \in SUBSET R
      OBVIOUS
    <3> QED
      BY <1>0, <2>2, <3>2, <3>3
  <2> QED
    BY <2>1, <2>2
<1>3. P = Nat
  <2> HIDE DEF P
  <2>1. P \in SUBSET Nat
    BY DEF P
  <2> QED
    BY <2>1, <1>1, <1>2, NaturalsByStep
<1>4. Cardinality(T) \in Nat
  BY FS_CardinalityType
<1> QED
  BY <1>3, <1>4

\* The library's sum is the total of the set by such a function.
LEMMA SumIsTotal ==
  ASSUME NEW f, NEW S, IsFiniteSet(S)
  PROVE  \E g : Totals(g, f, S) /\ SumFunctionOnSet(f, S) = g[S]
<1> DEFINE it == CHOOSE g : Totals(g, f, S)
<1>1. Totals(it, f, S)
  BY TotalsExist, Zenon
<1>2. SumFunctionOnSet(f, S) = it[S]
  BY Zenon DEF SumFunctionOnSet, FoldFunctionOnSet, MapThenFoldSet, Totals, Unfolded,
               Picked, Unpicked
<1> QED
  BY <1>1, <1>2

\* A sum takes its first element and goes on with the others.
LEMMA SumByPicked ==
  ASSUME NEW f, NEW S, IsFiniteSet(S)
  PROVE  SumFunctionOnSet(f, S) =
           IF S = {} THEN 0 ELSE f[Picked(S)] + SumFunctionOnSet(f, Unpicked(S))
<1>1. PICK g : Totals(g, f, S) /\ SumFunctionOnSet(f, S) = g[S]
  BY SumIsTotal
<1>2. g[S] = IF S = {} THEN 0 ELSE f[Picked(S)] + g[Unpicked(S)]
  BY <1>1 DEF Totals, Unfolded
<1>3. Unpicked(S) \in SUBSET S /\ IsFiniteSet(Unpicked(S))
  BY FS_Subset DEF Unpicked
<1>4. PICK h : /\ Totals(h, f, Unpicked(S))
               /\ SumFunctionOnSet(f, Unpicked(S)) = h[Unpicked(S)]
  BY <1>3, SumIsTotal
<1>5. g[Unpicked(S)] = h[Unpicked(S)]
  BY <1>1, <1>3, <1>4, TotalsAgree
<1> QED
  BY <1>1, <1>2, <1>4, <1>5

\* The sum over nothing is zero.
LEMMA SumOfNothing ==
  ASSUME NEW f
  PROVE  SumFunctionOnSet(f, {}) = 0
BY SumByPicked, FS_EmptySet

\* A sum of integers is one, and any element may be taken out of it first: the
\* order in which CHOOSE takes them does not matter.
LEMMA SumByAny ==
  ASSUME NEW f, NEW S, IsFiniteSet(S), \A x \in S : f[x] \in Int
  PROVE  /\ SumFunctionOnSet(f, S) \in Int
         /\ \A x \in S : SumFunctionOnSet(f, S) = f[x] + SumFunctionOnSet(f, S \ {x})
<1> DEFINE Sum(T) == SumFunctionOnSet(f, T)
           Good(T) == Sum(T) \in Int /\ \A x \in T : Sum(T) = f[x] + Sum(T \ {x})
           P == {n \in Nat : \A T \in SUBSET S : Cardinality(T) <= n => Good(T)}
<1>0. \A T \in SUBSET S : IsFiniteSet(T) /\ Cardinality(T) \in Nat
  BY FS_Subset, FS_CardinalityType
<1>1. 0 \in P
  <2>1. \A T \in SUBSET S : Cardinality(T) <= 0 => T = {}
    BY <1>0, FS_EmptySet
  <2>2. Good({})
    BY SumOfNothing
  <2> HIDE DEF Good
  <2> QED
    BY <2>1, <2>2
<1>2. ASSUME NEW n \in P PROVE n + 1 \in P
  <2> HIDE DEF Sum
  <2> SUFFICES ASSUME NEW T \in SUBSET S, Cardinality(T) <= n + 1, T # {}
               PROVE  Good(T)
    <3>1. Good({})
      BY SumOfNothing DEF Sum
    <3> HIDE DEF Good
    <3> QED
      BY <3>1
  <2>1. \A U \in SUBSET S : Cardinality(U) <= n => Good(U)
    OBVIOUS
  <2> DEFINE c == Picked(T)
  <2>2. /\ c \in T /\ Unpicked(T) = T \ {c} /\ Unpicked(T) \in SUBSET S
        /\ Cardinality(Unpicked(T)) <= n
    <3>1. Unpicked(T) = T \ {c}
      BY DEF Unpicked
    <3> QED
      BY <1>0, <3>1, UnpickedSmaller
  <2>3. Sum(T) = f[c] + Sum(T \ {c})
    <3>1. SumFunctionOnSet(f, T) = f[c] + SumFunctionOnSet(f, Unpicked(T))
      BY <1>0, SumByPicked
    <3> QED
      BY <2>2, <3>1 DEF Sum
  <2> HIDE DEF c
  <2>4. Sum(T) \in Int
    <3>1. Sum(T \ {c}) \in Int
      BY <2>1, <2>2
    <3>2. f[c] \in Int
      BY <2>2
    <3> QED
      BY <2>3, <3>1, <3>2
  <2>5. ASSUME NEW x \in T, x # c PROVE Sum(T) = f[x] + Sum(T \ {x})
    <3>1. /\ T \ {x} \in SUBSET S /\ T \ {c} \in SUBSET S
          /\ c \in T \ {x} /\ x \in T \ {c}
      BY <2>2, <2>5
    <3>2. Cardinality(T \ {x}) <= n
      <4>1. Cardinality(T \ {x}) = Cardinality(T) - 1
        BY <1>0, FS_RemoveElement
      <4> QED
        BY <1>0, <4>1
    <3>3. Sum(T \ {c}) = f[x] + Sum((T \ {c}) \ {x})
      BY <2>1, <2>2, <3>1
    <3>4. Sum(T \ {x}) = f[c] + Sum((T \ {x}) \ {c})
      BY <2>1, <3>1, <3>2
    <3>5. (T \ {c}) \ {x} = (T \ {x}) \ {c}
      OBVIOUS
    <3>6. Sum((T \ {x}) \ {c}) \in Int
      <4>1. (T \ {x}) \ {c} \in SUBSET S
        OBVIOUS
      <4>2. Cardinality((T \ {x}) \ {c}) <= n
        <5>1. Cardinality((T \ {x}) \ {c}) = Cardinality(T \ {x}) - 1
          BY <1>0, <3>1, FS_RemoveElement
        <5> QED
          BY <1>0, <3>1, <3>2, <5>1
      <4> QED
        BY <2>1, <4>1, <4>2
    <3>7. f[c] \in Int /\ f[x] \in Int
      BY <2>2
    <3> QED
      BY <2>3, <3>3, <3>4, <3>5, <3>6, <3>7
  <2> QED
    BY <2>3, <2>4, <2>5
<1>3. P = Nat
  <2> HIDE DEF P
  <2>1. P \in SUBSET Nat
    BY DEF P
  <2> QED
    BY <2>1, <1>1, <1>2, NaturalsByStep
<1>4. Cardinality(S) \in P
  <2> HIDE DEF P
  <2> QED
    BY <1>0, <1>3
<1> QED
  BY <1>0, <1>4

\* Adding an element adds its value.
LEMMA SumWith ==
  ASSUME NEW f, NEW S, IsFiniteSet(S), NEW x, x \notin S,
         \A y \in S \cup {x} : f[y] \in Int
  PROVE  SumFunctionOnSet(f, S \cup {x}) = SumFunctionOnSet(f, S) + f[x]
<1>1. IsFiniteSet(S \cup {x})
  BY FS_AddElement
<1>2. SumFunctionOnSet(f, S \cup {x}) = f[x] + SumFunctionOnSet(f, (S \cup {x}) \ {x})
  BY <1>1, SumByAny
<1>3. (S \cup {x}) \ {x} = S
  OBVIOUS
<1>4. SumFunctionOnSet(f, S) \in Int
  BY SumByAny
<1>5. f[x] \in Int
  OBVIOUS
<1>6. SumFunctionOnSet(f, S \cup {x}) = f[x] + SumFunctionOnSet(f, S)
  BY <1>2, <1>3
<1> QED
  BY <1>4, <1>5, <1>6

\* Taking an element out takes its value.
LEMMA SumWithout ==
  ASSUME NEW f, NEW S, IsFiniteSet(S), NEW x \in S, \A y \in S : f[y] \in Int
  PROVE  SumFunctionOnSet(f, S \ {x}) = SumFunctionOnSet(f, S) - f[x]
<1>1. SumFunctionOnSet(f, S) = f[x] + SumFunctionOnSet(f, S \ {x})
  BY SumByAny
<1>2. IsFiniteSet(S \ {x})
  BY FS_RemoveElement
<1>3. SumFunctionOnSet(f, S \ {x}) \in Int
  BY <1>2, SumByAny
<1> QED
  BY <1>1, <1>3

\* A sum depends on the function's values on the set alone.
LEMMA SumOfSame ==
  ASSUME NEW f, NEW g, NEW S, IsFiniteSet(S), \A x \in S : f[x] = g[x]
  PROVE  SumFunctionOnSet(f, S) = SumFunctionOnSet(g, S)
<1> DEFINE P == {n \in Nat : \A T \in SUBSET S : Cardinality(T) <= n =>
                               SumFunctionOnSet(f, T) = SumFunctionOnSet(g, T)}
<1>0. \A T \in SUBSET S : IsFiniteSet(T) /\ Cardinality(T) \in Nat
  BY FS_Subset, FS_CardinalityType
<1>1. 0 \in P
  <2>1. \A T \in SUBSET S : Cardinality(T) <= 0 => T = {}
    BY <1>0, FS_EmptySet
  <2> QED
    BY <2>1, SumOfNothing
<1>2. ASSUME NEW n \in P PROVE n + 1 \in P
  <2> SUFFICES ASSUME NEW T \in SUBSET S, Cardinality(T) <= n + 1, T # {}
               PROVE  SumFunctionOnSet(f, T) = SumFunctionOnSet(g, T)
    BY SumOfNothing
  <2>1. /\ Picked(T) \in T /\ Unpicked(T) \in SUBSET S
        /\ Cardinality(Unpicked(T)) <= n
    BY <1>0, UnpickedSmaller
  <2>2. SumFunctionOnSet(f, Unpicked(T)) = SumFunctionOnSet(g, Unpicked(T))
    BY <2>1
  <2>3. f[Picked(T)] = g[Picked(T)]
    BY <2>1
  <2> QED
    BY <1>0, <2>2, <2>3, SumByPicked
<1>3. P = Nat
  <2> HIDE DEF P
  <2>1. P \in SUBSET Nat
    BY DEF P
  <2> QED
    BY <2>1, <1>1, <1>2, NaturalsByStep
<1>4. Cardinality(S) \in P
  <2> HIDE DEF P
  <2> QED
    BY <1>0, <1>3
<1> QED
  BY <1>0, <1>4

\* A sum of zeros is zero.
LEMMA SumOfZeros ==
  ASSUME NEW f, NEW S, IsFiniteSet(S), \A x \in S : f[x] = 0
  PROVE  SumFunctionOnSet(f, S) = 0
<1> DEFINE P == {n \in Nat : \A T \in SUBSET S : Cardinality(T) <= n =>
                               SumFunctionOnSet(f, T) = 0}
<1>0. \A T \in SUBSET S : IsFiniteSet(T) /\ Cardinality(T) \in Nat
  BY FS_Subset, FS_CardinalityType
<1>1. 0 \in P
  <2>1. \A T \in SUBSET S : Cardinality(T) <= 0 => T = {}
    BY <1>0, FS_EmptySet
  <2> QED
    BY <2>1, SumOfNothing
<1>2. ASSUME NEW n \in P PROVE n + 1 \in P
  <2> SUFFICES ASSUME NEW T \in SUBSET S, Cardinality(T) <= n + 1, T # {}
               PROVE  SumFunctionOnSet(f, T) = 0
    BY SumOfNothing
  <2>1. /\ Picked(T) \in T /\ Unpicked(T) \in SUBSET S
        /\ Cardinality(Unpicked(T)) <= n
    BY <1>0, UnpickedSmaller
  <2>2. SumFunctionOnSet(f, Unpicked(T)) = 0 /\ f[Picked(T)] = 0
    BY <2>1
  <2>3. SumFunctionOnSet(f, T) = f[Picked(T)] + SumFunctionOnSet(f, Unpicked(T))
    BY <1>0, SumByPicked
  <2> QED
    BY <2>2, <2>3
<1>3. P = Nat
  <2> HIDE DEF P
  <2>1. P \in SUBSET Nat
    BY DEF P
  <2> QED
    BY <2>1, <1>1, <1>2, NaturalsByStep
<1>4. Cardinality(S) \in P
  <2> HIDE DEF P
  <2> QED
    BY <1>0, <1>3
<1> QED
  BY <1>0, <1>4

\* Moving one value of the function moves the sum by as much.
LEMMA SumChanged ==
  ASSUME NEW f, NEW g, NEW S, IsFiniteSet(S), NEW x \in S,
         \A y \in S : f[y] \in Int /\ g[y] \in Int,
         \A y \in S \ {x} : f[y] = g[y]
  PROVE  SumFunctionOnSet(g, S) = SumFunctionOnSet(f, S) + (g[x] - f[x])
<1>1. IsFiniteSet(S \ {x})
  BY FS_RemoveElement
<1>2. SumFunctionOnSet(f, S \ {x}) = SumFunctionOnSet(g, S \ {x})
  BY <1>1, SumOfSame
<1>3. SumFunctionOnSet(f, S) = f[x] + SumFunctionOnSet(f, S \ {x})
  BY SumByAny
<1>4. SumFunctionOnSet(g, S) = g[x] + SumFunctionOnSet(g, S \ {x})
  BY SumByAny
<1>5. SumFunctionOnSet(f, S \ {x}) \in Int
  BY <1>1, SumByAny
<1> QED
  BY <1>2, <1>3, <1>4, <1>5

\* A sum of naturals is one, and no element of it is larger.
LEMMA SumOfNaturals ==
  ASSUME NEW f, NEW S, IsFiniteSet(S), \A x \in S : f[x] \in Nat
  PROVE  /\ SumFunctionOnSet(f, S) \in Nat
         /\ \A x \in S : f[x] <= SumFunctionOnSet(f, S)
<1> DEFINE P == {n \in Nat : \A T \in SUBSET S : Cardinality(T) <= n =>
                               SumFunctionOnSet(f, T) \in Nat}
<1>0. \A T \in SUBSET S : IsFiniteSet(T) /\ Cardinality(T) \in Nat
  BY FS_Subset, FS_CardinalityType
<1>1. 0 \in P
  <2>1. \A T \in SUBSET S : Cardinality(T) <= 0 => T = {}
    BY <1>0, FS_EmptySet
  <2> QED
    BY <2>1, SumOfNothing
<1>2. ASSUME NEW n \in P PROVE n + 1 \in P
  <2> SUFFICES ASSUME NEW T \in SUBSET S, Cardinality(T) <= n + 1, T # {}
               PROVE  SumFunctionOnSet(f, T) \in Nat
    BY SumOfNothing
  <2>1. /\ Picked(T) \in T /\ Unpicked(T) \in SUBSET S
        /\ Cardinality(Unpicked(T)) <= n
    BY <1>0, UnpickedSmaller
  <2>2. SumFunctionOnSet(f, Unpicked(T)) \in Nat
    BY <2>1
  <2>3. f[Picked(T)] \in Nat
    BY <2>1
  <2>4. SumFunctionOnSet(f, T) = f[Picked(T)] + SumFunctionOnSet(f, Unpicked(T))
    BY <1>0, SumByPicked
  <2> QED
    BY <2>2, <2>3, <2>4
<1>3. P = Nat
  <2> HIDE DEF P
  <2>1. P \in SUBSET Nat
    BY DEF P
  <2> QED
    BY <2>1, <1>1, <1>2, NaturalsByStep
<1>4. \A T \in SUBSET S : SumFunctionOnSet(f, T) \in Nat
  <2>1. \A T \in SUBSET S : Cardinality(T) \in P
    <3> HIDE DEF P
    <3> QED
      BY <1>0, <1>3
  <2> QED
    BY <1>0, <2>1
<1>5. ASSUME NEW x \in S PROVE f[x] <= SumFunctionOnSet(f, S)
  <2>1. SumFunctionOnSet(f, S) = f[x] + SumFunctionOnSet(f, S \ {x})
    BY SumByAny
  <2>2. SumFunctionOnSet(f, S \ {x}) \in Nat
    BY <1>4
  <2> QED
    BY <2>1, <2>2
<1> QED
  BY <1>4, <1>5
=============================================================================

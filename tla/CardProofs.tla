----------------------------- MODULE CardProofs -----------------------------
(***************************************************************************)
(* What holds of a customer's card, of the dashboard's numbers and of the  *)
(* two passes on every day (DayByDay), for any rules, costs and sizes of a *)
(* card, any businesses, and any lengths of a week, a period and a chart   *)
(* that meet the modules' assumptions.                                     *)
(***************************************************************************)
EXTENDS WalletPasses, FiniteSetTheorems, WellFoundedInduction, TLAPS

----------------------------------------------------------------------------
(* Sums over finite sets.                                                  *)

\* What holds of the empty set, and of a set with one more element when it
\* holds of the set, holds of a finite set: a least set of which it did not
\* hold would have an element less.
LEMMA SetInduction ==
    ASSUME NEW S, IsFiniteSet(S), NEW P, {} \in P,
           \A T \in SUBSET S : \A x \in S \ T : T \in P => T \cup {x} \in P
    PROVE  S \in P
<1> DEFINE Bad == {T \in SUBSET S : T \notin P}
<1>1. Bad \subseteq FiniteSubsetsOf(S)
  BY FS_Subset DEF FiniteSubsetsOf
<1>2. ASSUME S \notin P PROVE FALSE
  <2>1. Bad # {}
    BY <1>2
  <2>2. PICK T \in Bad : \A U \in Bad : <<U, T>> \notin StrictSubsetOrdering(S)
    <3>1. IsWellFoundedOn(StrictSubsetOrdering(S), FiniteSubsetsOf(S))
      BY FS_StrictSubsetOrderingWellFounded
    <3> HIDE DEF Bad
    <3> QED
      BY <1>1, <2>1, <3>1, WFMin
  <2>3. PICK x \in T : TRUE
    OBVIOUS
  <2>4. T \ {x} \in SUBSET S /\ x \in S \ (T \ {x}) /\ (T \ {x}) \cup {x} = T
    BY <2>3
  <2>5. T \ {x} \in Bad
    BY <2>4
  <2>6. <<T \ {x}, T>> \in StrictSubsetOrdering(S)
    BY <2>3, <2>4, Zenon DEF StrictSubsetOrdering
  <2> QED
    BY <2>2, <2>5, <2>6
<1> QED
  BY <1>2

Pick(s) == CHOOSE x \in s : TRUE
Step(f, g, s) == IF s = {} THEN 0 ELSE f[Pick(s)] + g[s \ {Pick(s)}]
\* The function that a sum is computed by, from the smallest sets up.
Iterates(g, f, S) == g = [s \in SUBSET S |-> Step(f, g, s)]

Numeric(f, S) == \A x \in S : f[x] \in Int

\* There is such a function, built one size of set after the other.
LEMMA IteratesExists ==
    ASSUME NEW S, IsFiniteSet(S), NEW f, Numeric(f, S)
    PROVE  \E g \in [SUBSET S -> Int] : Iterates(g, f, S)
<1> DEFINE Upto(g, n) == \A s \in SUBSET S : Cardinality(s) <= n => g[s] = Step(f, g, s)
           P == {T \in SUBSET S : \E g \in [SUBSET S -> Int] : Upto(g, Cardinality(T))}
<1>1. \A s \in SUBSET S : IsFiniteSet(s) /\ Cardinality(s) \in Nat
  BY FS_Subset, FS_CardinalityType
<1>2. {} \in P
  <2>1. \A s \in SUBSET S : Cardinality(s) <= 0 => s = {}
    BY <1>1, FS_EmptySet
  <2>2. Upto([s \in SUBSET S |-> 0], 0)
    BY <2>1 DEF Step
  <2>3. Cardinality({}) = 0
    BY FS_EmptySet
  <2>4. [s \in SUBSET S |-> 0] \in [SUBSET S -> Int]
    OBVIOUS
  <2> QED
    BY <2>2, <2>3, <2>4
<1>3. ASSUME NEW T \in SUBSET S, NEW x \in S \ T, T \in P PROVE T \cup {x} \in P
  <2>1. PICK g \in [SUBSET S -> Int] : Upto(g, Cardinality(T))
    BY <1>3
  <2>2. Cardinality(T \cup {x}) = Cardinality(T) + 1
    BY <1>1, <1>3, FS_AddElement
  <2> DEFINE h == [s \in SUBSET S |-> Step(f, g, s)]
  <2>3. ASSUME NEW s \in SUBSET S, s # {}
        PROVE  Pick(s) \in s /\ s \ {Pick(s)} \in SUBSET S /\ Cardinality(s \ {Pick(s)}) = Cardinality(s) - 1
    <3>1. Pick(s) \in s
      BY <2>3 DEF Pick
    <3> QED
      BY <1>1, <3>1, FS_RemoveElement
  <2>4. h \in [SUBSET S -> Int]
    <3> SUFFICES ASSUME NEW s \in SUBSET S PROVE Step(f, g, s) \in Int
      OBVIOUS
    <3>1. CASE s = {}
      BY <3>1 DEF Step
    <3>2. CASE s # {}
      <4>1. Pick(s) \in S /\ s \ {Pick(s)} \in SUBSET S
        BY <2>3, <3>2
      <4>2. f[Pick(s)] \in Int /\ g[s \ {Pick(s)}] \in Int
        BY <2>1, <4>1 DEF Numeric
      <4> QED
        BY <3>2, <4>2 DEF Step
    <3> QED
      BY <3>1, <3>2
  <2>5. Upto(h, Cardinality(T) + 1)
    <3> SUFFICES ASSUME NEW s \in SUBSET S, Cardinality(s) <= Cardinality(T) + 1, s # {}
                 PROVE  h[s \ {Pick(s)}] = g[s \ {Pick(s)}]
      BY DEF Step
    <3>1. Cardinality(s \ {Pick(s)}) <= Cardinality(T) /\ s \ {Pick(s)} \in SUBSET S
      BY <1>1, <2>3
    <3> QED
      BY <2>1, <3>1
  <2>6. T \cup {x} \in SUBSET S
    BY <1>3
  <2> QED
    BY <2>2, <2>4, <2>5, <2>6
<1>4. S \in P
  <2> HIDE DEF P
  <2> QED
    BY <1>2, <1>3, SetInduction
<1>5. PICK g \in [SUBSET S -> Int] : Upto(g, Cardinality(S))
  BY <1>4
<1>6. \A s \in SUBSET S : Cardinality(s) <= Cardinality(S)
  BY FS_Subset
<1> QED
  BY <1>5, <1>6 DEF Iterates

\* It is unique, whatever set it is part of.
LEMMA IteratesUnique ==
    ASSUME NEW S, IsFiniteSet(S), NEW f, NEW g, NEW T \in SUBSET S, NEW h, NEW R, T \in SUBSET R,
           NEW e, \A x \in T : f[x] = e[x],
           Iterates(g, f, S), Iterates(h, e, R)
    PROVE  g[T] = h[T]
<1> DEFINE P == {U \in SUBSET T : \A s \in SUBSET T : Cardinality(s) <= Cardinality(U) => g[s] = h[s]}
<1>1. IsFiniteSet(T) /\ \A s \in SUBSET T : IsFiniteSet(s) /\ Cardinality(s) \in Nat
  BY FS_Subset, FS_CardinalityType
<1>2. \A s \in SUBSET T : g[s] = Step(f, g, s) /\ h[s] = Step(e, h, s)
  BY DEF Iterates
<1>3. {} \in P
  <2>1. \A s \in SUBSET T : Cardinality(s) <= 0 => s = {}
    BY <1>1, FS_EmptySet
  <2>2. Cardinality({}) = 0
    BY FS_EmptySet
  <2>3. {} \in SUBSET T
    OBVIOUS
  <2>4. g[{}] = 0 /\ h[{}] = 0
    BY <1>2, <2>3 DEF Step
  <2> QED
    BY <2>1, <2>2, <2>4
<1>4. ASSUME NEW U \in SUBSET T, NEW x \in T \ U, U \in P PROVE U \cup {x} \in P
  <2>1. Cardinality(U \cup {x}) = Cardinality(U) + 1
    BY <1>1, <1>4, FS_AddElement
  <2>2. ASSUME NEW s \in SUBSET T, Cardinality(s) <= Cardinality(U) + 1, s # {}
        PROVE  g[s] = h[s]
    <3>1. Pick(s) \in s
      BY <2>2 DEF Pick
    <3>2. Cardinality(s \ {Pick(s)}) = Cardinality(s) - 1 /\ s \ {Pick(s)} \in SUBSET T
      BY <1>1, <3>1, FS_RemoveElement
    <3>3. g[s \ {Pick(s)}] = h[s \ {Pick(s)}]
      BY <1>1, <1>4, <2>2, <3>2
    <3>4. f[Pick(s)] = e[Pick(s)]
      BY <3>1
    <3> QED
      BY <1>2, <2>2, <3>3, <3>4 DEF Step
  <2>3. g[{}] = h[{}]
    BY <1>2 DEF Step
  <2>4. U \cup {x} \in SUBSET T
    BY <1>4
  <2> QED
    BY <2>1, <2>2, <2>3, <2>4
<1>5. T \in P
  <2> HIDE DEF P
  <2> QED
    BY <1>1, <1>3, <1>4, SetInduction
<1> QED
  BY <1>1, <1>5

\* What SumFunctionOnSet computes.
LEMMA SumIterates ==
    ASSUME NEW S, IsFiniteSet(S), NEW f, Numeric(f, S)
    PROVE  \E g : Iterates(g, f, S) /\ SumFunctionOnSet(f, S) = g[S]
<1> DEFINE g == CHOOSE g : Iterates(g, f, S)
<1>1. Iterates(g, f, S)
  BY IteratesExists
<1>2. SumFunctionOnSet(f, S) = g[S]
  BY DEF SumFunctionOnSet, FoldFunctionOnSet, MapThenFoldSet, Iterates, Step, Pick
<1> QED
  BY <1>1, <1>2

\* The sum is the iteration of any function that agrees on the set, of a set
\* that contains it.
LEMMA SumIs ==
    ASSUME NEW S, IsFiniteSet(S), NEW T \in SUBSET S, NEW f, Numeric(f, T),
           NEW e, \A x \in T : f[x] = e[x], NEW g, Iterates(g, e, S)
    PROVE  SumFunctionOnSet(f, T) = g[T]
<1>1. IsFiniteSet(T)
  BY FS_Subset
<1>2. PICK h : Iterates(h, f, T) /\ SumFunctionOnSet(f, T) = h[T]
  BY <1>1, SumIterates
<1>3. h[T] = g[T]
  BY <1>1, <1>2, IteratesUnique
<1> QED
  BY <1>2, <1>3

\* Nothing adds up to zero.
LEMMA SumEmpty == ASSUME NEW f PROVE SumFunctionOnSet(f, {}) = 0
<1>1. IsFiniteSet({})
  BY FS_EmptySet
<1>2. PICK g : Iterates(g, f, {}) /\ SumFunctionOnSet(f, {}) = g[{}]
  BY <1>1, SumIterates DEF Numeric
<1>3. g[{}] = Step(f, g, {})
  BY <1>2 DEF Iterates
<1> QED
  BY <1>2, <1>3 DEF Step

\* A sum of integers is one.
LEMMA SumInt ==
    ASSUME NEW S, IsFiniteSet(S), NEW f, Numeric(f, S)
    PROVE  SumFunctionOnSet(f, S) \in Int
<1>1. PICK g \in [SUBSET S -> Int] : Iterates(g, f, S)
  BY IteratesExists
<1>2. SumFunctionOnSet(f, S) = g[S]
  BY <1>1, SumIs
<1> QED
  BY <1>1, <1>2

\* Functions that agree on a set have the same sum.
LEMMA SumSame ==
    ASSUME NEW S, IsFiniteSet(S), NEW f, NEW e, Numeric(f, S), \A x \in S : f[x] = e[x]
    PROVE  SumFunctionOnSet(f, S) = SumFunctionOnSet(e, S)
<1>1. Numeric(e, S)
  BY DEF Numeric
<1>2. PICK g : Iterates(g, e, S)
  BY <1>1, IteratesExists
<1>3. SumFunctionOnSet(f, S) = g[S] /\ SumFunctionOnSet(e, S) = g[S]
  BY <1>1, <1>2, SumIs
<1> QED
  BY <1>3

\* Any element can be taken out first.
LEMMA SumRemove ==
    ASSUME NEW S, IsFiniteSet(S), NEW f, Numeric(f, S), NEW x \in S
    PROVE  SumFunctionOnSet(f, S) = f[x] + SumFunctionOnSet(f, S \ {x})
<1> DEFINE Takes(T) == \A y \in T : SumFunctionOnSet(f, T) = f[y] + SumFunctionOnSet(f, T \ {y})
           P == {U \in SUBSET S : \A T \in SUBSET S : Cardinality(T) <= Cardinality(U) => Takes(T)}
<1>1. \A T \in SUBSET S : /\ IsFiniteSet(T) /\ Cardinality(T) \in Nat /\ Numeric(f, T)
                          /\ SumFunctionOnSet(f, T) \in Int
  BY FS_Subset, FS_CardinalityType, SumInt DEF Numeric
<1>2. {} \in P
  <2>1. \A T \in SUBSET S : Cardinality(T) <= 0 => T = {}
    BY <1>1, FS_EmptySet
  <2>2. Cardinality({}) = 0
    BY FS_EmptySet
  <2> QED
    BY <2>1, <2>2
<1>3. ASSUME NEW T \in SUBSET S, T # {}
      PROVE  Pick(T) \in T /\ SumFunctionOnSet(f, T) = f[Pick(T)] + SumFunctionOnSet(f, T \ {Pick(T)})
  <2>1. Pick(T) \in T
    BY <1>3 DEF Pick
  <2>2. PICK g : Iterates(g, f, S)
    BY IteratesExists
  <2>3. g[T] = f[Pick(T)] + g[T \ {Pick(T)}]
    BY <1>3, <2>2 DEF Iterates, Step
  <2>4. SumFunctionOnSet(f, T) = g[T]
    BY <1>1, <2>2, SumIs
  <2>5. T \ {Pick(T)} \in SUBSET S
    OBVIOUS
  <2>6. SumFunctionOnSet(f, T \ {Pick(T)}) = g[T \ {Pick(T)}]
    BY <1>1, <2>2, <2>5, SumIs
  <2> QED
    BY <2>1, <2>3, <2>4, <2>6
<1>4. ASSUME NEW U \in SUBSET S, NEW z \in S \ U, U \in P PROVE U \cup {z} \in P
  <2>1. Cardinality(U \cup {z}) = Cardinality(U) + 1
    BY <1>1, <1>4, FS_AddElement
  <2>2. ASSUME NEW T \in SUBSET S, Cardinality(T) <= Cardinality(U) + 1, NEW y \in T, y # Pick(T)
        PROVE  SumFunctionOnSet(f, T) = f[y] + SumFunctionOnSet(f, T \ {y})
    <3> DEFINE p == Pick(T)
               both == T \ {p, y}
    <3>1. p \in T /\ SumFunctionOnSet(f, T) = f[p] + SumFunctionOnSet(f, T \ {p})
      BY <1>3
    <3>2. /\ T \ {p} \in SUBSET S /\ T \ {y} \in SUBSET S /\ y \in T \ {p} /\ p \in T \ {y}
          /\ (T \ {p}) \ {y} = both /\ (T \ {y}) \ {p} = both
      BY <2>2, <3>1
    <3>3. /\ Cardinality(T \ {p}) = Cardinality(T) - 1
          /\ Cardinality(T \ {y}) = Cardinality(T) - 1
      BY <1>1, <3>1, FS_RemoveElement
    <3>4. Cardinality(T \ {p}) <= Cardinality(U) /\ Cardinality(T \ {y}) <= Cardinality(U)
      BY <1>1, <2>2, <3>3
    <3>5. Takes(T \ {p}) /\ Takes(T \ {y})
      BY <1>4, <3>2, <3>4
    <3>6. SumFunctionOnSet(f, T \ {p}) = f[y] + SumFunctionOnSet(f, both)
      BY <3>2, <3>5
    <3>7. SumFunctionOnSet(f, T \ {y}) = f[p] + SumFunctionOnSet(f, both)
      BY <3>2, <3>5
    <3>8. f[p] \in Int /\ f[y] \in Int /\ SumFunctionOnSet(f, both) \in Int
      BY <1>1, <3>1 DEF Numeric
    <3> HIDE DEF p, both
    <3> QED
      BY <3>1, <3>6, <3>7, <3>8
  <2>3. \A T \in SUBSET S : Cardinality(T) <= Cardinality(U) + 1 => Takes(T)
    BY <1>3, <2>2
  <2> QED
    BY <1>4, <2>1, <2>3
<1>5. S \in P
  <2> HIDE DEF P
  <2> QED
    BY <1>2, <1>4, SetInduction
<1> QED
  BY <1>1, <1>5

LEMMA SumInsert ==
    ASSUME NEW S, IsFiniteSet(S), NEW x, x \notin S, NEW f, Numeric(f, S \cup {x})
    PROVE  SumFunctionOnSet(f, S \cup {x}) = f[x] + SumFunctionOnSet(f, S)
<1>1. IsFiniteSet(S \cup {x}) /\ (S \cup {x}) \ {x} = S
  BY FS_AddElement
<1> QED
  BY <1>1, SumRemove

\* The sum of two sets that share nothing.
LEMMA SumUnion ==
    ASSUME NEW S, IsFiniteSet(S), NEW T, IsFiniteSet(T), S \cap T = {},
           NEW f, Numeric(f, S \cup T)
    PROVE  SumFunctionOnSet(f, S \cup T) = SumFunctionOnSet(f, S) + SumFunctionOnSet(f, T)
<1> DEFINE P == {U \in SUBSET T : SumFunctionOnSet(f, S \cup U)
                                     = SumFunctionOnSet(f, S) + SumFunctionOnSet(f, U)}
<1>1. SumFunctionOnSet(f, S) \in Int
  BY SumInt DEF Numeric
<1>2. {} \in P
  BY <1>1, SumEmpty
<1>3. ASSUME NEW U \in SUBSET T, NEW x \in T \ U, U \in P PROVE U \cup {x} \in P
  <2>1. IsFiniteSet(U) /\ IsFiniteSet(S \cup U) /\ S \cup (U \cup {x}) = (S \cup U) \cup {x}
    BY FS_Subset, FS_Union
  <2>2. x \notin S \cup U /\ Numeric(f, (S \cup U) \cup {x}) /\ Numeric(f, U \cup {x}) /\ Numeric(f, U)
    BY <1>3 DEF Numeric
  <2>3. SumFunctionOnSet(f, (S \cup U) \cup {x}) = f[x] + SumFunctionOnSet(f, S \cup U)
    BY <2>1, <2>2, SumInsert
  <2>4. SumFunctionOnSet(f, U \cup {x}) = f[x] + SumFunctionOnSet(f, U)
    BY <1>3, <2>1, <2>2, SumInsert
  <2>5. f[x] \in Int /\ SumFunctionOnSet(f, U) \in Int
    BY <2>1, <2>2, SumInt DEF Numeric
  <2>6. SumFunctionOnSet(f, S \cup U) = SumFunctionOnSet(f, S) + SumFunctionOnSet(f, U)
    BY <1>3
  <2>7. U \cup {x} \in SUBSET T
    BY <1>3
  <2>8. SumFunctionOnSet(f, (S \cup U) \cup {x}) = SumFunctionOnSet(f, S) + SumFunctionOnSet(f, U \cup {x})
    BY <1>1, <2>3, <2>4, <2>5, <2>6
  <2> QED
    BY <2>1, <2>7, <2>8, Zenon
<1>4. T \in P
  <2> HIDE DEF P
  <2> QED
    BY <1>2, <1>3, SetInduction
<1> QED
  BY <1>4

Counts(f, S) == \A x \in S : f[x] \in Nat

\* A sum of natural numbers is one.
LEMMA SumNat ==
    ASSUME NEW S, IsFiniteSet(S), NEW f, Counts(f, S)
    PROVE  SumFunctionOnSet(f, S) \in Nat
<1> DEFINE P == {U \in SUBSET S : SumFunctionOnSet(f, U) \in Nat}
<1>1. {} \in P
  BY SumEmpty
<1>2. ASSUME NEW U \in SUBSET S, NEW x \in S \ U, U \in P PROVE U \cup {x} \in P
  <2>1. IsFiniteSet(U) /\ Numeric(f, U \cup {x}) /\ f[x] \in Nat
    BY FS_Subset, <1>2 DEF Numeric, Counts
  <2>2. SumFunctionOnSet(f, U \cup {x}) = f[x] + SumFunctionOnSet(f, U)
    BY <1>2, <2>1, SumInsert
  <2> QED
    BY <1>2, <2>1, <2>2
<1>3. S \in P
  <2> HIDE DEF P
  <2> QED
    BY <1>1, <1>2, SetInduction
<1> QED
  BY <1>3

\* A part sums to no more, and to as much when there is nothing in the rest.
LEMMA SumPart ==
    ASSUME NEW S, IsFiniteSet(S), NEW T \in SUBSET S, NEW f, Counts(f, S)
    PROVE  /\ SumFunctionOnSet(f, T) <= SumFunctionOnSet(f, S)
           /\ SumFunctionOnSet(f, S) = SumFunctionOnSet(f, T) + SumFunctionOnSet(f, S \ T)
           /\ SumFunctionOnSet(f, S) \in Nat /\ SumFunctionOnSet(f, T) \in Nat
<1>1. IsFiniteSet(T) /\ IsFiniteSet(S \ T) /\ T \cap (S \ T) = {} /\ T \cup (S \ T) = S
  BY FS_Subset
<1>2. Counts(f, T) /\ Counts(f, S \ T) /\ Numeric(f, S)
  BY DEF Counts, Numeric
<1>3. SumFunctionOnSet(f, T) \in Nat /\ SumFunctionOnSet(f, S \ T) \in Nat
  BY <1>1, <1>2, SumNat
<1>4. SumFunctionOnSet(f, S) = SumFunctionOnSet(f, T) + SumFunctionOnSet(f, S \ T)
  BY <1>1, <1>2, SumUnion
<1> QED
  BY <1>3, <1>4

\* A sum is positive when a summand is.
LEMMA SumPositive ==
    ASSUME NEW S, IsFiniteSet(S), NEW f, Counts(f, S)
    PROVE  /\ SumFunctionOnSet(f, S) \in Nat
           /\ SumFunctionOnSet(f, S) > 0 <=> \E x \in S : f[x] > 0
           /\ \A x \in S : f[x] <= SumFunctionOnSet(f, S)
<1> DEFINE P == {U \in SUBSET S : SumFunctionOnSet(f, U) > 0 => \E x \in U : f[x] > 0}
<1>1. {} \in P
  BY SumEmpty
<1>2. ASSUME NEW U \in SUBSET S, NEW x \in S \ U, U \in P PROVE U \cup {x} \in P
  <2>1. IsFiniteSet(U) /\ Numeric(f, U \cup {x}) /\ f[x] \in Nat /\ Counts(f, U)
    BY FS_Subset, <1>2 DEF Numeric, Counts
  <2>2. SumFunctionOnSet(f, U \cup {x}) = f[x] + SumFunctionOnSet(f, U) /\ SumFunctionOnSet(f, U) \in Nat
    BY <1>2, <2>1, SumInsert, SumNat
  <2> QED
    BY <1>2, <2>1, <2>2
<1>3. S \in P
  <2> HIDE DEF P
  <2> QED
    BY <1>1, <1>2, SetInduction
<1>4. ASSUME NEW x \in S PROVE f[x] <= SumFunctionOnSet(f, S)
  <2>1. IsFiniteSet(S \ {x}) /\ Counts(f, S \ {x}) /\ Numeric(f, S) /\ f[x] \in Nat
    BY FS_Subset DEF Counts, Numeric
  <2>2. SumFunctionOnSet(f, S \ {x}) \in Nat
    BY <2>1, SumNat
  <2> QED
    BY <2>1, <2>2, SumRemove
<1>5. SumFunctionOnSet(f, S) \in Nat /\ \A x \in S : f[x] \in Nat
  BY SumNat DEF Counts
<1> QED
  BY <1>3, <1>4, <1>5

\* Nothing outside of a part: the part has everything.
LEMMA SumSupport ==
    ASSUME NEW S, IsFiniteSet(S), NEW T \in SUBSET S, NEW f, Counts(f, S), \A x \in S \ T : f[x] = 0
    PROVE  SumFunctionOnSet(f, T) = SumFunctionOnSet(f, S)
<1>1. IsFiniteSet(S \ T) /\ Counts(f, S \ T)
  BY FS_Subset DEF Counts
<1>2. SumFunctionOnSet(f, S \ T) = 0
  BY <1>1, SumPositive
<1> QED
  BY <1>2, SumPart

\* Smaller summands make a smaller sum.
LEMMA SumLess ==
    ASSUME NEW S, IsFiniteSet(S), NEW f, NEW e, Counts(f, S), Counts(e, S),
           \A x \in S : f[x] <= e[x]
    PROVE  /\ SumFunctionOnSet(f, S) <= SumFunctionOnSet(e, S)
           /\ (\E x \in S : f[x] < e[x]) => SumFunctionOnSet(f, S) < SumFunctionOnSet(e, S)
<1> DEFINE rest == [x \in S |-> e[x] - f[x]]
           P == {U \in SUBSET S : SumFunctionOnSet(e, U) = SumFunctionOnSet(f, U) + SumFunctionOnSet(rest, U)}
<1>1. Counts(rest, S)
  BY DEF Counts
<1>2. {} \in P
  BY SumEmpty
<1>3. ASSUME NEW U \in SUBSET S, NEW x \in S \ U, U \in P PROVE U \cup {x} \in P
  <2>1. IsFiniteSet(U)
    BY FS_Subset
  <2>2. /\ Numeric(f, U \cup {x}) /\ Numeric(e, U \cup {x}) /\ Numeric(rest, U \cup {x})
        /\ Counts(f, U) /\ Counts(e, U) /\ Counts(rest, U)
        /\ f[x] \in Nat /\ e[x] \in Nat /\ rest[x] = e[x] - f[x]
    BY <1>1, <1>3 DEF Numeric, Counts
  <2> HIDE DEF rest
  <2>3. /\ SumFunctionOnSet(f, U \cup {x}) = f[x] + SumFunctionOnSet(f, U)
        /\ SumFunctionOnSet(e, U \cup {x}) = e[x] + SumFunctionOnSet(e, U)
        /\ SumFunctionOnSet(rest, U \cup {x}) = rest[x] + SumFunctionOnSet(rest, U)
    BY <1>3, <2>1, <2>2, SumInsert
  <2>4. SumFunctionOnSet(f, U) \in Nat /\ SumFunctionOnSet(e, U) \in Nat /\ SumFunctionOnSet(rest, U) \in Nat
    BY <2>1, <2>2, SumNat
  <2> QED
    BY <1>3, <2>2, <2>3, <2>4
<1>4. S \in P
  <2> HIDE DEF P
  <2> QED
    BY <1>2, <1>3, SetInduction
<1>5. \A x \in S : f[x] < e[x] => rest[x] > 0
  BY DEF Counts
<1> HIDE DEF rest
<1>6. SumFunctionOnSet(f, S) \in Nat /\ SumFunctionOnSet(rest, S) \in Nat
  BY <1>1, SumNat
<1>7. (\E x \in S : f[x] < e[x]) => SumFunctionOnSet(rest, S) > 0
  BY <1>1, <1>5, SumPositive
<1> QED
  BY <1>4, <1>6, <1>7

\* A row more on one day.
LEMMA SumMore ==
    ASSUME NEW D, NEW S \in SUBSET D, IsFiniteSet(S), NEW f \in [D -> Nat], NEW x \in D
    PROVE  SumFunctionOnSet([f EXCEPT ![x] = @ + 1], S)
             = SumFunctionOnSet(f, S) + (IF x \in S THEN 1 ELSE 0)
<1> DEFINE more == [f EXCEPT ![x] = @ + 1]
<1>1. Numeric(f, S) /\ Numeric(more, S)
  BY DEF Numeric
<1>2. CASE x \notin S
  <2>1. \A y \in S : f[y] = more[y]
    BY <1>2
  <2>2. SumFunctionOnSet(f, S) \in Int
    BY <1>1, SumInt
  <2> HIDE DEF more
  <2>3. SumFunctionOnSet(more, S) = SumFunctionOnSet(f, S)
    BY <1>1, <2>1, SumSame
  <2>4. SumFunctionOnSet(more, S) = SumFunctionOnSet(f, S) + 0
    BY <2>2, <2>3
  <2> QED
    BY <1>2, <2>4 DEF more
<1>3. CASE x \in S
  <2>1. /\ SumFunctionOnSet(f, S) = f[x] + SumFunctionOnSet(f, S \ {x})
        /\ SumFunctionOnSet(more, S) = more[x] + SumFunctionOnSet(more, S \ {x})
    BY <1>1, <1>3, SumRemove
  <2>2. IsFiniteSet(S \ {x}) /\ Numeric(f, S \ {x}) /\ \A y \in S \ {x} : f[y] = more[y]
    BY <1>1, FS_Subset DEF Numeric
  <2>3. SumFunctionOnSet(f, S \ {x}) = SumFunctionOnSet(more, S \ {x})
    BY <2>2, SumSame
  <2>4. SumFunctionOnSet(f, S \ {x}) \in Int /\ f[x] \in Nat /\ more[x] = f[x] + 1
    BY <2>2, SumInt
  <2> HIDE DEF more
  <2>5. SumFunctionOnSet(more, S) = SumFunctionOnSet(f, S) + 1
    BY <2>1, <2>3, <2>4
  <2> QED
    BY <1>3, <2>5 DEF more
<1> QED
  BY <1>2, <1>3

\* Nothing but one row.
LEMMA SumOne ==
    ASSUME NEW S, IsFiniteSet(S), NEW f, NEW x \in S, f[x] = 1, \A y \in S \ {x} : f[y] = 0
    PROVE  SumFunctionOnSet(f, S) = 1
<1>1. Counts(f, S) /\ Numeric(f, S) /\ Counts(f, S \ {x}) /\ IsFiniteSet(S \ {x})
  BY FS_Subset DEF Counts, Numeric
<1>2. SumFunctionOnSet(f, S \ {x}) = 0
  BY <1>1, SumPositive
<1> QED
  BY <1>1, <1>2, SumRemove

----------------------------------------------------------------------------
(* Numbers.                                                                *)

\* A set of numbers has a least one, which is its Min.
LEMMA MinIs ==
    ASSUME NEW S \in SUBSET Nat, S # {}
    PROVE  Min(S) \in S /\ \A k \in S : Min(S) <= k
<1>1. PICK n \in S : \A k \in S : <<k, n>> \notin OpToRel(<, Nat)
  BY NatLessThanWellFounded, WFMin
<1>2. \A k \in S : ~(k < n)
  BY <1>1 DEF OpToRel
<1>3. \A k \in S : n <= k
  BY <1>2
<1> QED
  BY <1>3 DEF Min

\* A bounded set of numbers has a greatest one, which is its Max.
LEMMA MaxIs ==
    ASSUME NEW n \in Nat, NEW S \in SUBSET (0 .. n), S # {}
    PROVE  Max(S) \in S /\ \A k \in S : k <= Max(S)
<1> DEFINE rest == {n - k : k \in S}
<1>1. rest \in SUBSET Nat /\ rest # {}
  <2>1. \A k \in S : n - k \in Nat
    OBVIOUS
  <2> QED
    BY <2>1
<1>2. PICK m \in S : Min(rest) = n - m
  <2>1. Min(rest) \in rest
    BY <1>1, MinIs
  <2> QED
    BY <2>1
<1>3. \A k \in S : n - m <= n - k
  BY <1>1, <1>2, MinIs
<1>4. \A k \in S : k <= m
  BY <1>3
<1> QED
  BY <1>4 DEF Max

\* The Min and the Max that the engine and the passes take of two numbers.
LEMMA MinOfTwo ==
    ASSUME NEW a \in Nat, NEW b \in Nat
    PROVE  Min({a, b}) = IF a <= b THEN a ELSE b
  BY MinIs

LEMMA MaxWithZero ==
    ASSUME NEW a \in Int
    PROVE  Max({a, 0}) = IF a > 0 THEN a ELSE 0
<1>1. CASE a > 0
  <2>1. Max({a, 0}) \in {a, 0} /\ \A k \in {a, 0} : k <= Max({a, 0})
    BY <1>1, MaxIs
  <2> QED
    BY <1>1, <2>1
<1>2. CASE ~(a > 0)
  <2>1. \E x \in {a, 0} : \A y \in {a, 0} : x >= y
    BY <1>2
  <2>2. Max({a, 0}) \in {a, 0} /\ \A y \in {a, 0} : Max({a, 0}) >= y
    BY <2>1 DEF Max
  <2> QED
    BY <1>2, <2>2
<1> QED
  BY <1>1, <1>2

\* The remainder is what the multiple of the quotient leaves.
LEMMA Remainder ==
    ASSUME NEW a \in Int, NEW c \in Int, c > 0
    PROVE  (a % c) = a - c * (a \div c)
  BY Z3

\* Quotient and remainder.
LEMMA DivMod ==
    ASSUME NEW a \in Int, NEW c \in Nat \ {0}
    PROVE  /\ a \div c \in Int /\ a % c \in 0 .. c - 1
           /\ a = c * (a \div c) + (a % c)
<1> DEFINE product == c * (a \div c)  m == a % c
<1>1. a \div c \in Int /\ m \in 0 .. c - 1 /\ product \in Int
  OBVIOUS
<1>2. m = a - product
  BY Remainder
<1> HIDE DEF m, product
<1>3. a = product + m
  BY <1>1, <1>2
<1> QED
  BY <1>1, <1>3 DEF m, product

\* Multiples follow each other at the distance of the factor.
LEMMA Products ==
    ASSUME NEW a \in Int, NEW b \in Int, NEW c \in Nat \ {0}
    PROVE  /\ c * a \in Int /\ c * (a + 1) = c * a + c /\ c * (a - 1) = c * a - c
           /\ a < b => c * a + c <= c * b
<1>1. c * a \in Int /\ c * (a + 1) = c * a + c /\ c * (a - 1) = c * a - c
  OBVIOUS
<1> DEFINE ca == c * a  cb == c * b  more == c * (a + 1)
<1>2. ca \in Int /\ cb \in Int /\ more = ca + c /\ (a < b => more <= cb)
  OBVIOUS
<1> HIDE DEF ca, cb, more
<1>3. a < b => ca + c <= cb
  BY <1>2
<1> QED
  BY <1>1, <1>3 DEF ca, cb

\* The quotient is the only number whose multiple is less than c away.
LEMMA DivIs ==
    ASSUME NEW a \in Int, NEW c \in Nat \ {0}, NEW q \in Int, c * q <= a, a < c * q + c
    PROVE  a \div c = q /\ (a % c) = a - c * q
<1> DEFINE p == a \div c
<1>1. p \in Int /\ a % c \in 0 .. c - 1 /\ a = c * p + (a % c)
  BY DivMod
<1> HIDE DEF p
<1>2. (p < q => c * p + c <= c * q) /\ (q < p => c * q + c <= c * p) /\ c * p \in Int /\ c * q \in Int
  BY <1>1, Products
<1> DEFINE cp == c * p  cq == c * q  m == a % c
<1>3. /\ m \in 0 .. c - 1 /\ a = cp + m /\ cq <= a /\ a < cq + c /\ cp \in Int /\ cq \in Int
      /\ (p < q => cp + c <= cq) /\ (q < p => cq + c <= cp)
  BY <1>1, <1>2
<1> HIDE DEF cp, cq, m
<1>4. p = q
  BY <1>1, <1>3
<1>5. m = a - cp
  BY <1>3
<1> QED
  BY <1>4, <1>5 DEF p, cp, m

\* What counting redemptions by a quotient needs: it is positive from the cost on,
\* one less when a cost is paid, and grows with the balance.
LEMMA DivFacts ==
    ASSUME NEW a \in Nat, NEW c \in Nat \ {0}
    PROVE  /\ a \div c \in Nat
           /\ a \div c > 0 <=> c <= a
           /\ c <= a => (a - c) \div c = a \div c - 1
           /\ \A b \in Nat : b <= a => b \div c <= a \div c
<1> DEFINE q == a \div c
<1>1. q \in Int /\ c * q \in Int /\ c * q <= a /\ a < c * q + c
  BY DivMod
<1>2. q \in Nat /\ (q > 0 <=> c <= a)
  <2>1. (q < 0 => c * q + c <= c * 0) /\ (0 < q => c * 0 + c <= c * q) /\ c * 0 = 0
    BY <1>1, Products
  <2>2. q = 0 => c * q = 0
    OBVIOUS
  <2> HIDE DEF q
  <2> QED
    BY <1>1, <2>1, <2>2
<1>3. ASSUME c <= a PROVE (a - c) \div c = q - 1
  <2>1. c * (q - 1) = c * q - c
    BY <1>1, Products
  <2>2. c * (q - 1) <= a - c /\ a - c < c * (q - 1) + c
    BY <1>1, <2>1
  <2> HIDE DEF q
  <2>3. a - c \in Int /\ q - 1 \in Int
    BY <1>1
  <2> QED
    BY <2>2, <2>3, DivIs
<1>4. ASSUME NEW b \in Nat, b <= a PROVE b \div c <= q
  <2> DEFINE p == b \div c
  <2>1. p \in Int /\ c * p \in Int /\ c * p <= b
    BY DivMod
  <2>2. q < p => c * q + c <= c * p
    BY <1>1, <2>1, Products
  <2> HIDE DEF p, q
  <2>3. p <= q
    BY <1>1, <1>4, <2>1, <2>2
  <2> QED
    BY <2>3 DEF p
<1> QED
  BY <1>2, <1>3, <1>4 DEF q

----------------------------------------------------------------------------
(* The engine and the card.                                                *)

\* The rules of a card: finitely many, of positive costs.
LEMMA RuleFacts ==
    ASSUME Configured
    PROVE  /\ DOMAIN rules = Rules /\ required \in Nat \ {0}
           /\ \A r \in Rules : rules[r].cost \in Nat \ {0} /\ rules[r].active \in BOOLEAN
           /\ ActiveRules \in SUBSET Rules /\ IsFiniteSet(ActiveRules)
<1>1. IsFiniteSet(ActiveRules)
  BY RulesAssumption, FS_Subset DEF ActiveRules
<1> QED
  BY <1>1, CardAssumption DEF Configured, ActiveRules

\* The rules that n stamps pay for.
Accepted(n) == {r \in Rules : EvaluateRedemption(n, rules[r].active, rules[r].cost) = "allowed"}

\* The server accepts what the list of available rewards has (loyalty.ts).
LEMMA AcceptedIs ==
    ASSUME Configured, NEW n \in Int
    PROVE  /\ Accepted(n) = {r \in ActiveRules : rules[r].cost <= n}
           /\ Accepted(n) = AvailableRewards(n, rules)
  BY RuleFacts DEF Accepted, EvaluateRedemption, AvailableRewards, ActiveRules

\* How often n stamps pay for each.
Worth(n) == [r \in Rules |-> n \div rules[r].cost]

\* See DivFacts, for the cost of a rule.
LEMMA WorthFacts ==
    ASSUME Configured, NEW n \in Nat, NEW r \in Rules
    PROVE  /\ Worth(n)[r] \in Nat
           /\ Worth(n)[r] > 0 <=> rules[r].cost <= n
           /\ rules[r].cost <= n => Worth(n - rules[r].cost)[r] = Worth(n)[r] - 1
           /\ \A m \in Nat : m <= n => Worth(m)[r] <= Worth(n)[r]
  BY RuleFacts, DivFacts DEF Worth

\* The count of available redemptions is the sum over the active rules.
LEMMA CountIsSum ==
    ASSUME Configured, NEW n \in Nat
    PROVE  /\ CountAvailableRedemptions(n, rules) = SumFunctionOnSet(Worth(n), ActiveRules)
           /\ Counts(Worth(n), ActiveRules)
<1> DEFINE P(s) == CHOOSE x \in s : TRUE
           I(g) == g = [s \in SUBSET ActiveRules |->
                          IF s = {} THEN 0 ELSE (n \div rules[P(s)].cost) + g[s \ {P(s)}]]
           g == CHOOSE g : I(g)
<1>1. Counts(Worth(n), ActiveRules) /\ Numeric(Worth(n), ActiveRules)
  BY RuleFacts, WorthFacts DEF Counts, Numeric
<1>2. \A h : Iterates(h, Worth(n), ActiveRules) <=> I(h)
  <2>1. \A s \in SUBSET ActiveRules : s # {} => Worth(n)[Pick(s)] = n \div rules[P(s)].cost
    BY RuleFacts DEF Worth, Pick
  <2>2. \A h : \A s \in SUBSET ActiveRules :
          Step(Worth(n), h, s) = IF s = {} THEN 0 ELSE (n \div rules[P(s)].cost) + h[s \ {P(s)}]
    BY <2>1 DEF Step, Pick
  <2> QED
    BY <2>2 DEF Iterates
<1>3. ActiveRules = {r \in DOMAIN rules : rules[r].active}
  BY RuleFacts DEF ActiveRules
<1>4. CountAvailableRedemptions(n, rules) = g[ActiveRules]
  BY <1>3 DEF CountAvailableRedemptions, MapThenSumSet, MapThenFoldSet
<1>5. I(g)
  <2>1. PICK h : Iterates(h, Worth(n), ActiveRules)
    BY <1>1, RuleFacts, IteratesExists
  <2> HIDE DEF I
  <2> QED
    BY <1>2, <2>1
<1>6. Iterates(g, Worth(n), ActiveRules)
  BY <1>2, <1>5
<1> HIDE DEF g
<1> QED
  BY <1>1, <1>4, <1>6, RuleFacts, SumIs

\* There is something to redeem exactly when the count is positive; every
\* redemption makes it less.
LEMMA CountFacts ==
    ASSUME Configured, NEW n \in Nat
    PROVE  /\ CountAvailableRedemptions(n, rules) \in Nat
           /\ CountAvailableRedemptions(n, rules) > 0 <=> Accepted(n) # {}
           /\ \A r \in Accepted(n) :
                CountAvailableRedemptions(n - rules[r].cost, rules) < CountAvailableRedemptions(n, rules)
<1>1. CountAvailableRedemptions(n, rules) \in Nat
  BY RuleFacts, CountIsSum, SumNat
<1>2. CountAvailableRedemptions(n, rules) > 0 <=> \E r \in ActiveRules : Worth(n)[r] > 0
  BY RuleFacts, CountIsSum, SumPositive
<1>3. ASSUME NEW r \in Accepted(n)
      PROVE  CountAvailableRedemptions(n - rules[r].cost, rules) < CountAvailableRedemptions(n, rules)
  <2> DEFINE m == n - rules[r].cost
  <2>1. r \in ActiveRules /\ rules[r].cost <= n /\ m \in Nat /\ m < n
    BY RuleFacts, AcceptedIs
  <2>2. \A q \in ActiveRules : Worth(m)[q] <= Worth(n)[q]
    BY <2>1, RuleFacts, WorthFacts
  <2>3. Worth(m)[r] < Worth(n)[r]
    BY <2>1, RuleFacts, WorthFacts
  <2> HIDE DEF m
  <2>4. SumFunctionOnSet(Worth(m), ActiveRules) < SumFunctionOnSet(Worth(n), ActiveRules)
    BY <2>1, <2>2, <2>3, RuleFacts, CountIsSum, SumLess
  <2> QED
    BY <2>1, <2>4, CountIsSum DEF m
<1> QED
  BY <1>1, <1>2, <1>3, AcceptedIs, RuleFacts, WorthFacts

\* The most redemptions, from the smallest balance up.
Body(g, n) ==
    IF Accepted(n) = {} THEN 0
    ELSE 1 + Max({g[ApplyRedemption(n, rules[r].cost)] : r \in Accepted(n)})
Most(g) == g = [n \in 0 .. MaxStamps |-> Body(g, n)]
\* No more than one for each stamp.
Modest == {g \in [0 .. MaxStamps -> Nat] : \A n \in 0 .. MaxStamps : g[n] <= n}

\* What is left after each redemption, and the most that this allows.
LEMMA AfterOne ==
    ASSUME Configured, NEW n \in 0 .. MaxStamps, Accepted(n) # {},
           NEW g, \A k \in 0 .. n - 1 : g[k] \in 0 .. k
    PROVE  LET after == {g[ApplyRedemption(n, rules[r].cost)] : r \in Accepted(n)} IN
           /\ \A r \in Accepted(n) : ApplyRedemption(n, rules[r].cost) \in 0 .. n - 1
           /\ after \in SUBSET (0 .. n - 1) /\ after # {} /\ n - 1 \in Nat
           /\ Max(after) \in after /\ \A k \in after : k <= Max(after)
<1> DEFINE after == {g[ApplyRedemption(n, rules[r].cost)] : r \in Accepted(n)}
<1>1. \A r \in Accepted(n) : ApplyRedemption(n, rules[r].cost) \in 0 .. n - 1
  BY CardAssumption, RuleFacts, AcceptedIs DEF ApplyRedemption
<1>2. n - 1 \in Nat
  BY <1>1
<1>3. \A k \in 0 .. n - 1 : g[k] \in 0 .. n - 1
  BY CardAssumption, <1>2
<1>4. after \in SUBSET (0 .. n - 1) /\ after # {}
  BY <1>1, <1>3
<1> HIDE DEF after
<1>5. Max(after) \in after /\ \A k \in after : k <= Max(after)
  BY <1>2, <1>4, MaxIs
<1> QED
  BY <1>1, <1>2, <1>4, <1>5 DEF after

\* The longest sequence of redemptions is defined for every balance.
LEMMA MostExists ==
    ASSUME Configured
    PROVE  \E g \in Modest : Most(g)
<1> DEFINE Upto(g, k) == \A n \in 0 .. MaxStamps : n < k => g[n] = Body(g, n)
           Bad == {k \in Nat : \A g \in Modest : ~Upto(g, k)}
<1>1. Upto([n \in 0 .. MaxStamps |-> 0], 0) /\ [n \in 0 .. MaxStamps |-> 0] \in Modest
  BY DEF Modest
<1>2. ASSUME NEW k \in Nat, NEW g \in Modest, Upto(g, k)
      PROVE  \E h \in Modest : Upto(h, k + 1)
  <2> DEFINE h == [n \in 0 .. MaxStamps |-> Body(g, n)]
  <2>1. ASSUME NEW n \in 0 .. MaxStamps PROVE Body(g, n) \in Nat /\ Body(g, n) <= n
    <3>1. CASE Accepted(n) = {}
      BY <3>1 DEF Body
    <3>2. CASE Accepted(n) # {}
      <4> DEFINE m == Max({g[ApplyRedemption(n, rules[r].cost)] : r \in Accepted(n)})
      <4>1. m \in 0 .. n - 1
        <5>1. \A j \in 0 .. n - 1 : g[j] \in 0 .. j
          BY CardAssumption DEF Modest
        <5> QED
          BY <3>2, <5>1, AfterOne
      <4>2. Body(g, n) = 1 + m
        BY <3>2 DEF Body
      <4> HIDE DEF m
      <4> QED
        BY <4>1, <4>2
    <3> QED
      BY <3>1, <3>2
  <2>2. h \in Modest
    BY <2>1 DEF Modest
  <2>3. ASSUME NEW n \in 0 .. MaxStamps, n < k + 1 PROVE Body(h, n) = Body(g, n)
    <3>1. CASE Accepted(n) = {}
      BY <3>1 DEF Body
    <3>2. CASE Accepted(n) # {}
      <4>1. ASSUME NEW r \in Accepted(n)
            PROVE  h[ApplyRedemption(n, rules[r].cost)] = g[ApplyRedemption(n, rules[r].cost)]
        <5>1. PICK j \in 0 .. n - 1 : j = ApplyRedemption(n, rules[r].cost)
          BY CardAssumption, RuleFacts, AcceptedIs DEF ApplyRedemption
        <5>2. j \in 0 .. MaxStamps /\ j < k
          BY <2>3, CardAssumption
        <5> QED
          BY <1>2, <5>1, <5>2
      <4> HIDE DEF h
      <4>2. {h[ApplyRedemption(n, rules[r].cost)] : r \in Accepted(n)}
              = {g[ApplyRedemption(n, rules[r].cost)] : r \in Accepted(n)}
        BY <4>1
      <4> QED
        BY <4>2 DEF Body
    <3> QED
      BY <3>1, <3>2
  <2>4. Upto(h, k + 1)
    BY <2>3
  <2> QED
    BY <2>2, <2>4
<1>3. Bad = {}
  <2> SUFFICES ASSUME Bad # {} PROVE FALSE
    OBVIOUS
  <2>1. PICK k \in Bad : \A j \in Bad : k <= j
    BY MinIs
  <2>2. k # 0 /\ k \in Nat
    BY <1>1
  <2>3. k - 1 \in Nat /\ k - 1 \notin Bad
    BY <2>1, <2>2
  <2>4. PICK g \in Modest : Upto(g, k - 1)
    BY <2>3
  <2>5. \E h \in Modest : Upto(h, (k - 1) + 1)
    BY <1>2, <2>3, <2>4
  <2> QED
    BY <2>2, <2>5
<1>4. PICK g \in Modest : Upto(g, MaxStamps + 1)
  <2>1. MaxStamps + 1 \in Nat
    BY CardAssumption
  <2> HIDE DEF Upto
  <2> QED
    BY <1>3, <2>1
<1>5. \A n \in 0 .. MaxStamps : g[n] = Body(g, n)
  BY <1>4, CardAssumption
<1> QED
  BY <1>5 DEF Most, Modest

\* What MostRedemptions computes.
LEMMA MostIs ==
    ASSUME Configured
    PROVE  \E g \in Modest : Most(g) /\ MostRedemptions = g[stamps]
<1> DEFINE g == CHOOSE g : Most(g)
<1>1. Most(g)
  BY MostExists
<1>2. g \in Modest
  <2> HIDE DEF g
  <2> DEFINE Bad == {n \in 0 .. MaxStamps : g[n] \notin 0 .. n}
  <2>1. ASSUME Bad # {} PROVE FALSE
    <3>1. Bad \in SUBSET Nat
      OBVIOUS
    <3>2. PICK n \in Bad : \A k \in Bad : n <= k
      BY <2>1, <3>1, MinIs
    <3>3. \A k \in 0 .. n - 1 : k \in 0 .. MaxStamps /\ k \notin Bad
      BY <3>2, CardAssumption
    <3>4. \A k \in 0 .. n - 1 : g[k] \in 0 .. k
      BY <3>3
    <3>5. g[n] = Body(g, n)
      BY <1>1 DEF Most
    <3>6. CASE Accepted(n) = {}
      BY <3>5, <3>6, CardAssumption DEF Body
    <3>7. CASE Accepted(n) # {}
      <4> DEFINE m == Max({g[ApplyRedemption(n, rules[r].cost)] : r \in Accepted(n)})
      <4>1. m \in 0 .. n - 1
        BY <3>4, <3>7, AfterOne
      <4>2. g[n] = 1 + m
        BY <3>5, <3>7 DEF Body
      <4> HIDE DEF m
      <4> QED
        BY <4>1, <4>2, CardAssumption
    <3> QED
      BY <3>6, <3>7
  <2>2. \A n \in 0 .. MaxStamps : g[n] \in 0 .. n
    BY <2>1
  <2>3. \A n \in 0 .. MaxStamps : g[n] \in Nat /\ g[n] <= n
    BY <2>2, CardAssumption
  <2>4. g = [n \in 0 .. MaxStamps |-> g[n]]
    BY <1>1 DEF Most
  <2> QED
    BY <2>3, <2>4 DEF Modest
<1>3. MostRedemptions = g[stamps]
  BY DEF MostRedemptions, Most, Body, Accepted
<1> QED
  BY <1>1, <1>2, <1>3

CardOK == stamps \in 0 .. MaxStamps /\ Configured

\* The count bounds what the server accepts, and is exact with one rule.
LEMMA MostFacts ==
    ASSUME CardOK
    PROVE  LET count == CountAvailableRedemptions(stamps, rules) IN
           /\ MostRedemptions \in Nat /\ MostRedemptions <= count
           /\ MostRedemptions > 0 <=> Accepted(stamps) # {}
           /\ Cardinality(ActiveRules) = 1 => MostRedemptions = count
<1> DEFINE Count(n) == CountAvailableRedemptions(n, rules)
<1>1. PICK g \in Modest : Most(g) /\ MostRedemptions = g[stamps]
  BY MostIs DEF CardOK
<1>2. ASSUME NEW n \in 0 .. MaxStamps
      PROVE  /\ g[n] \in Nat /\ \A k \in 0 .. n - 1 : g[k] \in 0 .. k
             /\ Accepted(n) = {} => g[n] = 0
             /\ Accepted(n) # {} =>
                  \E r \in Accepted(n) : /\ n - rules[r].cost \in 0 .. n - 1
                                         /\ g[n] = 1 + g[n - rules[r].cost]
  <2>1. g[n] \in Nat /\ \A k \in 0 .. n - 1 : g[k] \in 0 .. k
    BY CardAssumption DEF Modest
  <2>2. g[n] = Body(g, n)
    BY <1>1 DEF Most
  <2>3. ASSUME Accepted(n) # {}
        PROVE  \E r \in Accepted(n) : /\ n - rules[r].cost \in 0 .. n - 1
                                      /\ g[n] = 1 + g[n - rules[r].cost]
    <3> DEFINE m == Max({g[ApplyRedemption(n, rules[r].cost)] : r \in Accepted(n)})
    <3>1. /\ m \in {g[ApplyRedemption(n, rules[r].cost)] : r \in Accepted(n)}
          /\ \A r \in Accepted(n) : ApplyRedemption(n, rules[r].cost) \in 0 .. n - 1
      BY <2>1, <2>3, AfterOne DEF CardOK
    <3>2. g[n] = 1 + m
      BY <2>2, <2>3 DEF Body
    <3> HIDE DEF m
    <3> QED
      BY <3>1, <3>2 DEF ApplyRedemption
  <2> QED
    BY <2>1, <2>2, <2>3 DEF Body
<1>3. \A n \in 0 .. MaxStamps : n \in Nat /\ Count(n) \in Nat
  BY CardAssumption, CountFacts DEF CardOK
<1> HIDE DEF Count
<1>4. \A n \in 0 .. MaxStamps : g[n] <= Count(n)
  <2> DEFINE Bad == {n \in 0 .. MaxStamps : ~(g[n] <= Count(n))}
  <2> SUFFICES ASSUME Bad # {} PROVE FALSE
    OBVIOUS
  <2>1. Bad \in SUBSET Nat
    OBVIOUS
  <2>2. PICK n \in Bad : \A k \in Bad : n <= k
    BY <2>1, MinIs
  <2>3. Accepted(n) # {}
    BY <1>2, <1>3, <2>2
  <2>4. PICK r \in Accepted(n) : n - rules[r].cost \in 0 .. n - 1 /\ g[n] = 1 + g[n - rules[r].cost]
    BY <1>2, <2>3
  <2> DEFINE k == n - rules[r].cost
  <2>5. k \in 0 .. MaxStamps /\ k \notin Bad
    BY <2>2, <2>4, CardAssumption
  <2>6. Count(k) < Count(n)
    BY <1>3, <2>2, <2>4, CountFacts DEF CardOK, Count
  <2> HIDE DEF k
  <2>7. g[n] = 1 + g[k]
    BY <2>4 DEF k
  <2>8. g[k] <= Count(k) /\ g[k] \in Nat /\ Count(k) \in Nat /\ Count(n) \in Nat
    BY <1>2, <1>3, <2>5
  <2>9. ~(g[n] <= Count(n))
    BY <2>2
  <2> HIDE DEF Bad
  <2> QED
    BY <2>6, <2>7, <2>8, <2>9
<1>5. ASSUME Cardinality(ActiveRules) = 1 PROVE \A n \in 0 .. MaxStamps : g[n] = Count(n)
  <2>1. PICK r : ActiveRules = {r}
    BY <1>5, RuleFacts, FS_Singleton DEF CardOK
  <2>2. r \in Rules /\ rules[r].cost \in Nat \ {0}
    BY <2>1, RuleFacts DEF CardOK
  <2>3. \A n \in Nat : Count(n) = Worth(n)[r] /\ Count(n) \in Nat
    <3> SUFFICES ASSUME NEW n \in Nat PROVE Count(n) = Worth(n)[r] /\ Count(n) \in Nat
      OBVIOUS
    <3>1. Count(n) = SumFunctionOnSet(Worth(n), {r}) /\ Worth(n)[r] \in Nat
      BY <2>1, <2>2, CountIsSum, WorthFacts DEF CardOK, Count
    <3>2. IsFiniteSet({r}) /\ Numeric(Worth(n), {r}) /\ {r} \ {r} = {}
      <4>1. \A x \in {r} : Worth(n)[x] \in Int
        BY <3>1
      <4> QED
        BY <4>1, FS_Singleton DEF Numeric
    <3>3. SumFunctionOnSet(Worth(n), {r}) = Worth(n)[r] + SumFunctionOnSet(Worth(n), {r} \ {r})
      BY <3>2, SumRemove
    <3>4. SumFunctionOnSet(Worth(n), {r} \ {r}) = 0
      BY <3>2, SumEmpty
    <3> QED
      BY <3>1, <3>3, <3>4
  <2> DEFINE Bad == {n \in 0 .. MaxStamps : g[n] # Count(n)}
  <2> SUFFICES ASSUME Bad # {} PROVE FALSE
    OBVIOUS
  <2>4. Bad \in SUBSET Nat
    OBVIOUS
  <2>5. PICK n \in Bad : \A k \in Bad : n <= k
    BY <2>4, MinIs
  <2>6. CASE Accepted(n) = {}
    <3>1. ~(rules[r].cost <= n)
      BY <2>1, <2>5, <2>6, AcceptedIs DEF CardOK
    <3>2. Worth(n)[r] = 0
      BY <2>2, <2>5, <3>1, WorthFacts DEF CardOK
    <3> QED
      BY <1>2, <2>3, <2>5, <2>6, <3>2
  <2>7. CASE Accepted(n) # {}
    <3>1. PICK q \in Accepted(n) : n - rules[q].cost \in 0 .. n - 1 /\ g[n] = 1 + g[n - rules[q].cost]
      BY <1>2, <2>7
    <3>2. q = r /\ rules[r].cost <= n
      BY <2>1, <2>5, AcceptedIs DEF CardOK
    <3> DEFINE k == n - rules[r].cost
    <3>3. k \in 0 .. MaxStamps /\ k \notin Bad /\ k \in Nat
      BY <2>5, <3>1, <3>2, CardAssumption
    <3>4. Worth(k)[r] = Worth(n)[r] - 1
      BY <2>2, <2>5, <3>2, WorthFacts DEF CardOK
    <3> HIDE DEF k
    <3>5. g[n] = 1 + g[k]
      BY <3>1, <3>2 DEF k
    <3>6. g[k] = Count(k) /\ Count(k) = Worth(k)[r] /\ Count(n) = Worth(n)[r] /\ Count(n) \in Nat
      BY <2>3, <2>5, <3>3
    <3> QED
      BY <2>5, <3>4, <3>5, <3>6
  <2> QED
    BY <2>6, <2>7
<1> QED
  BY <1>1, <1>2, <1>4, <1>5 DEF CardOK, Count

LEMMA CountHonestHolds == CardOK => CountHonest
<1> SUFFICES ASSUME CardOK PROVE CountHonest
  OBVIOUS
<1>1. stamps \in Nat /\ stamps \in Int
  BY CardAssumption DEF CardOK
<1>2. Snapshot.count = CountAvailableRedemptions(stamps, rules)
  BY DEF Snapshot
<1>3. Snapshot.available = Accepted(stamps)
  BY <1>1, AcceptedIs DEF Snapshot, CardOK
<1>4. Snapshot.count \in Nat /\ (Snapshot.count > 0 <=> Accepted(stamps) # {})
  BY <1>1, <1>2, CountFacts DEF CardOK
<1> HIDE DEF Snapshot
<1> QED
  BY <1>2, <1>3, <1>4, MostFacts DEF CountHonest

\* What is missing for the next reward.
LEMMA MissingIs ==
    ASSUME CardOK
    PROVE  LET ahead == {r \in ActiveRules : rules[r].cost > stamps}
               n == StampsUntilNextReward(stamps, rules) IN
           /\ ahead = {} => n = -1
           /\ ahead # {} => /\ n \in Nat \ {0}
                            /\ \A r \in ahead : stamps + n <= rules[r].cost
                            /\ \E r \in ahead : stamps + n = rules[r].cost
<1> DEFINE ahead == {r \in ActiveRules : rules[r].cost > stamps}
           upcoming == {rules[r].cost : r \in ahead}
<1>1. stamps \in Nat /\ \A r \in ActiveRules : rules[r].cost \in Nat
  BY CardAssumption, RuleFacts DEF CardOK
<1>2. StampsUntilNextReward(stamps, rules) = IF upcoming = {} THEN -1 ELSE Min(upcoming) - stamps
  <2>1. {q \in DOMAIN rules : rules[q].active /\ rules[q].cost > stamps} = ahead
    BY RuleFacts DEF CardOK, ActiveRules
  <2> QED
    BY <2>1 DEF StampsUntilNextReward
<1>3. ASSUME ahead # {}
      PROVE  Min(upcoming) \in upcoming /\ \A k \in upcoming : Min(upcoming) <= k
  <2>1. upcoming \in SUBSET Nat /\ upcoming # {}
    BY <1>1, <1>3
  <2> QED
    BY <2>1, MinIs
<1> DEFINE m == Min(upcoming)
<1>4. ASSUME ahead # {}
      PROVE  /\ \A r \in ahead : m <= rules[r].cost
             /\ \E r \in ahead : m = rules[r].cost
             /\ m \in Nat /\ m > stamps /\ upcoming # {}
  <2> HIDE DEF m
  <2>1. m \in upcoming /\ \A k \in upcoming : m <= k
    BY <1>3, <1>4 DEF m
  <2> QED
    BY <1>1, <2>1
<1>5. ahead = {} => upcoming = {}
  OBVIOUS
<1> HIDE DEF m, upcoming
<1>6. ahead # {} => StampsUntilNextReward(stamps, rules) = m - stamps
  BY <1>2, <1>4 DEF m
<1>7. ahead = {} => StampsUntilNextReward(stamps, rules) = -1
  BY <1>2, <1>5
<1>8. ahead # {} => /\ m - stamps \in Nat \ {0} /\ stamps + (m - stamps) = m
  BY <1>1, <1>4
<1> QED
  BY <1>4, <1>6, <1>7, <1>8

\* See NextRewardExact: that many stamps unlock a rule, one less none.
LEMMA NextRewardExactHolds == CardOK => NextRewardExact
<1> SUFFICES ASSUME CardOK PROVE NextRewardExact
  OBVIOUS
<1> DEFINE n == StampsUntilNextReward(stamps, rules)
           ahead == {r \in ActiveRules : rules[r].cost > stamps}
<1>1. stamps \in Nat /\ \A r \in ActiveRules : rules[r].cost \in Nat
  BY CardAssumption, RuleFacts DEF CardOK
<1>2. \A s \in Int : AvailableRewards(s, rules) = {r \in ActiveRules : rules[r].cost <= s}
  BY AcceptedIs DEF CardOK
<1>3. Snapshot.missing = n
  BY DEF Snapshot
<1>4. CASE ahead = {}
  <2>1. n = -1
    BY <1>4, MissingIs
  <2>2. AvailableRewards(stamps, rules) = ActiveRules
    BY <1>1, <1>2, <1>4
  <2> QED
    BY <1>3, <2>1, <2>2 DEF NextRewardExact
<1>5. CASE ahead # {}
  <2>1. /\ n \in Nat \ {0}
        /\ \A r \in ahead : stamps + n <= rules[r].cost
        /\ \E r \in ahead : stamps + n = rules[r].cost
    BY <1>5, MissingIs
  <2> HIDE DEF n
  <2>2. AvailableRewards(stamps + n, rules) # AvailableRewards(stamps, rules)
    <3>1. PICK r \in ahead : stamps + n = rules[r].cost
      BY <2>1
    <3>2. r \in AvailableRewards(stamps + n, rules) /\ r \notin AvailableRewards(stamps, rules)
      BY <1>1, <1>2, <2>1, <3>1
    <3> QED
      BY <3>2
  <2>3. AvailableRewards(stamps + n - 1, rules) = AvailableRewards(stamps, rules)
    <3>1. \A r \in ActiveRules : rules[r].cost <= stamps + n - 1 <=> rules[r].cost <= stamps
      BY <1>1, <2>1
    <3>2. stamps + n - 1 \in Int
      BY <1>1, <2>1
    <3> QED
      BY <1>1, <1>2, <3>1, <3>2
  <2>4. n # -1 /\ n > 0
    BY <2>1
  <2> QED
    BY <1>3, <2>2, <2>3, <2>4 DEF NextRewardExact
<1> QED
  BY <1>4, <1>5

\* The cycle differs from the balance by whole cards, and fits one.
LEMMA CycleIs ==
    ASSUME NEW n \in Nat, NEW size \in Nat \ {0}
    PROVE  LET cycle == CycleStampProgress(n, size) IN
           /\ cycle \in 0 .. size /\ (cycle = 0 <=> n = 0)
           /\ \E k \in Int : n - cycle = size * k
           /\ n <= size => cycle = n
<1> DEFINE cycle == CycleStampProgress(n, size)
           q == n \div size
           m == n % size
           whole == size * q
<1>1. q \in Int /\ m \in 0 .. size - 1 /\ n = whole + m /\ whole \in Int
  BY DivMod
<1>2. cycle = IF m = 0 /\ n > 0 THEN size ELSE m
  BY DEF CycleStampProgress
<1>3. n - size \in Int /\ size * (q - 1) = whole - size /\ size * 0 = 0 /\ size * 1 = size
  BY <1>1, Products
<1>4. n < size => m = n
  <2>1. n < size => q = 0
    <3>1. 0 \in Int /\ size * 0 = 0
      OBVIOUS
    <3> QED
      BY <3>1, DivIs
  <2> HIDE DEF m, q
  <2> QED
    BY <1>1, <1>3, <2>1 DEF whole
<1>5. n = size => m = 0
  <2>1. n = size => m = n - size * 1
    BY <1>3, DivIs
  <2> HIDE DEF m
  <2> QED
    BY <1>3, <2>1
<1> HIDE DEF m, q, cycle
<1>6. cycle = m => n - cycle = size * q
  BY <1>1
<1>7. cycle = size /\ m = 0 => n - cycle = size * (q - 1)
  <2> HIDE DEF whole
  <2> QED
    BY <1>1, <1>3
<1>8. q - 1 \in Int
  BY <1>1
<1>9. \E k \in Int : n - cycle = size * k
  BY <1>1, <1>2, <1>6, <1>7, <1>8
<1> HIDE DEF whole
<1>10. cycle \in 0 .. size /\ (cycle = 0 <=> n = 0) /\ (n <= size => cycle = n)
  BY <1>1, <1>2, <1>4, <1>5
<1> QED
  BY <1>9, <1>10 DEF cycle

\* See CycleHonest: the grid of the pass shows the cycle in progress.
LEMMA CycleHonestHolds == CardOK => CycleHonest
<1> SUFFICES ASSUME CardOK PROVE CycleHonest
  OBVIOUS
<1> DEFINE cycle == CycleStampProgress(stamps, required)
<1>1. stamps \in Nat /\ required \in Nat \ {0}
  BY CardAssumption, RuleFacts DEF CardOK
<1>2. /\ Snapshot.cycle = cycle
      /\ Snapshot.bar = [display |-> Min({stamps, required}), completed |-> stamps >= required]
  BY DEF Snapshot, StampProgress
<1>3. Min({stamps, required}) = IF stamps <= required THEN stamps ELSE required
  BY <1>1, MinOfTwo
<1>4. /\ cycle \in 0 .. required /\ (cycle = 0 <=> stamps = 0)
      /\ stamps <= required => cycle = stamps
  BY <1>1, CycleIs
<1>5. PICK k \in Int : stamps - cycle = required * k
  BY <1>1, CycleIs
<1> HIDE DEF cycle
<1>6. (stamps - cycle) % required = 0
  <2> DEFINE d == stamps - cycle  whole == required * k
  <2>1. d \in Int /\ d = whole /\ whole <= d /\ d < whole + required
    BY <1>1, <1>4, <1>5
  <2>2. (d % required) = d - required * k
    <3> HIDE DEF d
    <3> QED
      BY <1>1, <2>1, DivIs
  <2> QED
    BY <2>1, <2>2
<1>7. /\ Snapshot.bar.display = IF stamps <= required THEN stamps ELSE required
      /\ Snapshot.bar.completed <=> stamps >= required
  <2> DEFINE full == stamps >= required
  <2>1. Snapshot.bar = [display |-> Min({stamps, required}), completed |-> full]
    BY <1>2
  <2> HIDE DEF full
  <2>2. Snapshot.bar.display = Min({stamps, required}) /\ Snapshot.bar.completed = full
    BY <2>1
  <2> QED
    BY <1>3, <2>2 DEF full
<1>8. Snapshot.bar.completed <=> Snapshot.bar.display = required
  BY <1>1, <1>7
<1>9. stamps <= required => Snapshot.cycle = Snapshot.bar.display
  BY <1>2, <1>4, <1>7
<1>10. Snapshot.cycle \in 0 .. required /\ (Snapshot.cycle = 0 <=> stamps = 0)
  BY <1>2, <1>4
<1>11. (stamps - Snapshot.cycle) % required = 0
  BY <1>2, <1>6
<1> QED
  BY <1>8, <1>9, <1>10, <1>11 DEF CycleHonest

\* The three together.
LEMMA NumbersAreHonest == CardOK => NumbersHonest
  BY CycleHonestHolds, NextRewardExactHolds, CountHonestHolds DEF NumbersHonest

\* Zeros add up to zero.
LEMMA SumZero ==
    ASSUME NEW S, IsFiniteSet(S), NEW f, \A x \in S : f[x] = 0
    PROVE  SumFunctionOnSet(f, S) = 0
<1>1. Counts(f, S)
  BY DEF Counts
<1>2. {} \in SUBSET S
  OBVIOUS
<1>3. SumFunctionOnSet(f, {}) = SumFunctionOnSet(f, S)
  BY <1>1, <1>2, SumSupport
<1> QED
  BY <1>3, SumEmpty

\* One summand among zeros is the sum.
LEMMA SumSingle ==
    ASSUME NEW S, IsFiniteSet(S), NEW f, NEW x \in S, f[x] \in Nat, \A y \in S \ {x} : f[y] = 0
    PROVE  SumFunctionOnSet(f, S) = f[x]
<1>1. Numeric(f, S) /\ IsFiniteSet(S \ {x})
  BY FS_RemoveElement DEF Numeric
<1>2. SumFunctionOnSet(f, S) = f[x] + SumFunctionOnSet(f, S \ {x})
  BY <1>1, SumRemove
<1>3. SumFunctionOnSet(f, S \ {x}) = 0
  BY <1>1, SumZero
<1> QED
  BY <1>2, <1>3

----------------------------------------------------------------------------
(* The days of a customer.                                                 *)

\* Rows are dated between the account and today; a card begins with the first
\* stamp; and the stamps on it were all registered, all of them still there
\* when nothing was redeemed, and less than those when something was.
Dated ==
    /\ now \in Days /\ createdAt \in Opening .. Opening + WeekDays
    /\ visits \in [Days -> Nat] /\ redeemed \in [Days -> Nat]
    /\ \A d \in Days : d > now \/ d < createdAt => visits[d] = 0 /\ redeemed[d] = 0
LedgerKept ==
    /\ balance \in BOOLEAN /\ (~balance => stamps = 0 /\ SumFunction(visits) = 0)
    /\ stamps + SumFunction(redeemed) <= SumFunction(visits)
    /\ SumFunction(redeemed) = 0 => stamps = SumFunction(visits)
CardInv == CardOK /\ Dated /\ LedgerKept

\* The constants of the calendar, and its days.
LEMMA DayFacts ==
    /\ {WeekDays, WeeksBack, PeriodDays, InactiveDays} \subseteq Nat \ {0}
    /\ Opening \in Nat /\ Horizon \in Nat /\ MaxStamps \in Nat /\ Opening \in Days
    /\ Days \in SUBSET (0 .. Horizon) /\ IsFiniteSet(Days)
<1>1. WeekDays \in Nat \ {0} /\ Horizon \in Nat /\ WeekDays <= Horizon + 1
  BY DashboardAssumption, BoundsAssumption
<1>2. Opening \in Nat /\ Opening \in Days /\ Days \in SUBSET (0 .. Horizon)
  BY <1>1 DEF Opening, Days
<1>3. IsFiniteSet(Days)
  BY <1>1, <1>2, FS_Interval DEF Days
<1> QED
  BY <1>1, <1>2, <1>3, DashboardAssumption, CardAssumption

\* Rows by day: sums over them, and one row more.
LEMMA RowFacts ==
    ASSUME NEW f \in [Days -> Nat]
    PROVE  /\ SumFunction(f) = SumFunctionOnSet(f, Days) /\ SumFunction(f) \in Nat
           /\ \A S \in SUBSET Days : Counts(f, S) /\ IsFiniteSet(S) /\ SumFunctionOnSet(f, S) \in Nat
           /\ \A x \in Days : [f EXCEPT ![x] = @ + 1] \in [Days -> Nat]
           /\ \A x \in Days : SumFunction([f EXCEPT ![x] = @ + 1]) = SumFunction(f) + 1
<1>1. \A g \in [Days -> Nat] : SumFunction(g) = SumFunctionOnSet(g, Days)
  BY DEF SumFunction
<1>2. \A S \in SUBSET Days : Counts(f, S) /\ IsFiniteSet(S) /\ SumFunctionOnSet(f, S) \in Nat
  <2> TAKE S \in SUBSET Days
  <2>1. Counts(f, S)
    BY DEF Counts
  <2>2. IsFiniteSet(S)
    BY DayFacts, FS_Subset
  <2> QED
    BY <2>1, <2>2, SumNat
<1>3. \A x \in Days : [f EXCEPT ![x] = @ + 1] \in [Days -> Nat]
  OBVIOUS
<1>4. ASSUME NEW x \in Days PROVE SumFunction([f EXCEPT ![x] = @ + 1]) = SumFunction(f) + 1
  <2>1. Days \in SUBSET Days /\ IsFiniteSet(Days)
    BY DayFacts
  <2>2. SumFunctionOnSet([f EXCEPT ![x] = @ + 1], Days)
          = SumFunctionOnSet(f, Days) + (IF x \in Days THEN 1 ELSE 0)
    BY <2>1, SumMore
  <2> QED
    BY <1>1, <1>3, <2>2
<1> QED
  BY <1>1, <1>2, <1>3, <1>4

\* A customer's first day.
LEMMA EnrollGivesInv == Enroll => CardInv
<1> SUFFICES ASSUME Enroll PROVE CardInv
  OBVIOUS
<1> USE DEF Enroll
<1>1. PICK n \in 0 .. MaxOpening :
        /\ createdAt \in IF n > 0 THEN {Opening} ELSE Opening .. Opening + WeekDays
        /\ balance \in IF n > 0 THEN {TRUE} ELSE BOOLEAN
        /\ stamps = n
        /\ visits = [NoRows EXCEPT ![Opening] = n]
  OBVIOUS
<1>2. n \in Nat /\ n \in 0 .. MaxStamps /\ WeekDays \in Nat
  BY BoundsAssumption, DashboardAssumption, CardAssumption
<1>3. /\ redeemed = [d \in Days |-> 0] /\ visits = [d \in Days |-> IF d = Opening THEN n ELSE 0]
      /\ redeemed \in [Days -> Nat] /\ visits \in [Days -> Nat]
  BY <1>1, <1>2 DEF NoRows
<1>4. SumFunction(redeemed) = 0
  BY <1>3, RowFacts, DayFacts, SumZero
<1>5. SumFunction(visits) = n
  <2>1. SumFunction(visits) = SumFunctionOnSet(visits, Days)
    BY <1>3, RowFacts
  <2>2. Opening \in Days /\ IsFiniteSet(Days) /\ visits[Opening] = n
        /\ \A d \in Days \ {Opening} : visits[d] = 0
    BY <1>3, DayFacts
  <2>3. SumFunctionOnSet(visits, Days) = visits[Opening]
    BY <1>2, <2>2, SumSingle
  <2> QED
    BY <2>1, <2>2, <2>3
<1>6. CardOK
  BY <1>1, <1>2 DEF CardOK
<1>7. Dated
  <2>1. \A d \in Days : d \in Nat /\ Opening <= d
    BY DayFacts DEF Days
  <2>2. now = Opening /\ createdAt \in Opening .. Opening + WeekDays /\ (createdAt = Opening \/ n = 0)
    BY <1>1, <1>2, DayFacts
  <2>3. ASSUME NEW d \in Days, d > now \/ d < createdAt PROVE visits[d] = 0 /\ redeemed[d] = 0
    <3>1. d # Opening \/ n = 0
      BY <2>1, <2>2, <2>3, DayFacts
    <3> QED
      BY <1>3, <3>1
  <2> QED
    BY <1>3, <2>2, <2>3, DayFacts DEF Dated
<1>8. LedgerKept
  <2>1. balance \in BOOLEAN /\ (n > 0 => balance)
    BY <1>1
  <2>2. ~balance => n = 0
    BY <1>2, <2>1
  <2>3. ~balance => stamps = 0 /\ SumFunction(visits) = 0
    BY <1>1, <1>5, <2>2
  <2>4. stamps + SumFunction(redeemed) <= SumFunction(visits)
    BY <1>1, <1>2, <1>4, <1>5
  <2>5. SumFunction(redeemed) = 0 => stamps = SumFunction(visits)
    BY <1>1, <1>5
  <2> QED
    BY <2>1, <2>3, <2>4, <2>5 DEF LedgerKept
<1> QED
  BY <1>6, <1>7, <1>8 DEF CardInv

\* A stamp adds a row, and one to the balance.
LEMMA VisitKeepsInv == CardInv /\ Visit => CardInv'
<1> SUFFICES ASSUME CardInv, Visit PROVE CardInv'
  OBVIOUS
<1>1. /\ stamps \in 0 .. MaxStamps /\ stamps < MaxStamps /\ stamps' = stamps + 1 /\ UNCHANGED <<rules, required>>
      /\ createdAt <= now /\ balance' = TRUE /\ visits' = [visits EXCEPT ![now] = @ + 1]
      /\ UNCHANGED <<now, createdAt, redeemed>>
  BY DEF CardInv, CardOK, Visit, Stamp, ApplyStamp
<1>2. now \in Days /\ createdAt \in Opening .. Opening + WeekDays
      /\ visits \in [Days -> Nat] /\ redeemed \in [Days -> Nat]
      /\ \A d \in Days : d > now \/ d < createdAt => visits[d] = 0 /\ redeemed[d] = 0
  BY DEF CardInv, Dated
<1>3. visits' \in [Days -> Nat] /\ SumFunction(visits') = SumFunction(visits) + 1
      /\ SumFunction(visits) \in Nat /\ SumFunction(redeemed) \in Nat
  BY <1>1, <1>2, RowFacts
<1>4. CardOK'
  BY <1>1, DayFacts DEF CardInv, CardOK, Configured
<1>5. Dated'
  <2>1. now \in Nat /\ createdAt \in Nat /\ WeekDays \in Nat /\ \A d \in Days : d \in Nat
    BY <1>2, DayFacts
  <2>2. ASSUME NEW d \in Days, d > now \/ d < createdAt PROVE visits'[d] = 0 /\ redeemed[d] = 0
    BY <1>1, <1>2, <2>1, <2>2
  <2> QED
    BY <1>1, <1>2, <1>3, <2>2 DEF Dated, Days, Opening
<1>6. LedgerKept'
  BY <1>1, <1>3 DEF CardInv, LedgerKept
<1> QED
  BY <1>4, <1>5, <1>6 DEF CardInv

\* A redemption adds a row, and takes at least one of the balance.
LEMMA CollectKeepsInv == ASSUME CardInv, NEW r \in Rules, Collect(r) PROVE CardInv'
<1>1. /\ stamps \in 0 .. MaxStamps /\ r \in Accepted(stamps) /\ stamps' = stamps - rules[r].cost
      /\ UNCHANGED <<rules, required>> /\ createdAt <= now /\ redeemed' = [redeemed EXCEPT ![now] = @ + 1]
      /\ UNCHANGED <<now, createdAt, balance, visits>>
  BY DEF CardInv, CardOK, Collect, Redeem, ApplyRedemption, Accepted
<1>2. now \in Days /\ createdAt \in Opening .. Opening + WeekDays
      /\ visits \in [Days -> Nat] /\ redeemed \in [Days -> Nat]
      /\ \A d \in Days : d > now \/ d < createdAt => visits[d] = 0 /\ redeemed[d] = 0
  BY DEF CardInv, Dated
<1>3. redeemed' \in [Days -> Nat] /\ SumFunction(redeemed') = SumFunction(redeemed) + 1
      /\ SumFunction(visits) \in Nat /\ SumFunction(redeemed) \in Nat
  BY <1>1, <1>2, RowFacts
<1>4. rules[r].cost \in Nat \ {0} /\ rules[r].cost <= stamps
  BY <1>1, RuleFacts, AcceptedIs DEF CardInv, CardOK
<1>5. CardOK'
  <2>1. stamps' \in 0 .. MaxStamps
    BY <1>1, <1>4, DayFacts
  <2> QED
    BY <1>1, <2>1 DEF CardInv, CardOK, Configured
<1>6. Dated'
  <2>1. now \in Nat /\ createdAt \in Nat /\ WeekDays \in Nat /\ \A d \in Days : d \in Nat
    BY <1>2, DayFacts
  <2>2. ASSUME NEW d \in Days, d > now \/ d < createdAt PROVE visits[d] = 0 /\ redeemed'[d] = 0
    BY <1>1, <1>2, <2>1, <2>2
  <2> QED
    BY <1>1, <1>2, <1>3, <2>2 DEF Dated, Days, Opening
<1>7. LedgerKept'
  BY <1>1, <1>3, <1>4 DEF CardInv, LedgerKept
<1> QED
  BY <1>5, <1>6, <1>7 DEF CardInv

\* The day changes, and no row is of the days to come.
LEMMA NextDayKeepsInv == CardInv /\ NextDay => CardInv'
<1> SUFFICES ASSUME CardInv, NextDay PROVE CardInv'
  OBVIOUS
<1>1. now < Horizon /\ now' = now + 1 /\ UNCHANGED <<stamps, rules, required, createdAt, balance, visits, redeemed>>
  BY DEF NextDay, vars, history
<1>2. Dated'
  <2>1. now' \in Days /\ \A d \in Days : d \in Nat
    BY <1>1, DayFacts DEF CardInv, Dated, Days
  <2>2. now \in Nat
    BY DayFacts DEF CardInv, Dated
  <2>3. ASSUME NEW d \in Days, d > now' PROVE d > now
    BY <1>1, <2>1, <2>2, <2>3
  <2> QED
    BY <1>1, <2>1, <2>3 DEF CardInv, Dated
<1> QED
  BY <1>1, <1>2 DEF CardInv, CardOK, Configured, LedgerKept

\* The balance, the history of visits and redemptions, and the calendar stay
\* in step on every day: enroll/logic.ts and scanner/logic.ts date each row
\* when it is written, and a redemption never takes more stamps than were
\* registered.
THEOREM CardInvariance == DayByDay => []CardInv
<1>1. ASSUME CardInv, [Visit \/ NextDay \/ \E r \in Rules : Collect(r)]_<<vars, history, now>>
      PROVE  CardInv'
  <2>1. CASE UNCHANGED <<vars, history, now>>
    BY <1>1, <2>1 DEF CardInv, CardOK, Configured, Dated, LedgerKept, vars, history
  <2> QED
    BY <1>1, <2>1, VisitKeepsInv, NextDayKeepsInv, CollectKeepsInv
<1> QED
  BY <1>1, EnrollGivesInv, PTL DEF DayByDay

\* See NumbersHonest: the engine's numbers keep what they promise, for every
\* set of rules, whatever they cost, and every size of a card.
THEOREM CardNumbersHonest == DayByDay => []NumbersHonest
<1>1. CardInv => NumbersHonest
  BY NumbersAreHonest DEF CardInv
<1> QED
  BY <1>1, CardInvariance, PTL

----------------------------------------------------------------------------
(* The weeks of the charts.                                                *)

\* A week is its days, from the first to the one before the next week's.
LEMMA WeekSpan ==
    ASSUME NEW day \in Int
    PROVE  /\ WeekOf(day) \in Int
           /\ WeekDays * WeekOf(day) <= day /\ day < WeekDays * WeekOf(day) + WeekDays
           /\ \A w \in Int : WeekDays * w <= day /\ day < WeekDays * w + WeekDays => WeekOf(day) = w
<1>1. WeekDays \in Nat \ {0}
  BY DashboardAssumption
<1>2. /\ day \div WeekDays \in Int /\ day % WeekDays \in 0 .. WeekDays - 1
      /\ day = WeekDays * (day \div WeekDays) + (day % WeekDays)
  BY <1>1, DivMod
<1>3. ASSUME NEW w \in Int, WeekDays * w <= day, day < WeekDays * w + WeekDays PROVE day \div WeekDays = w
  BY <1>1, <1>3, DivIs
<1>4. WeekDays * (day \div WeekDays) <= day /\ day < WeekDays * (day \div WeekDays) + WeekDays
  <2> DEFINE q == day \div WeekDays
             whole == WeekDays * q
             rest == day % WeekDays
  <2>1. whole \in Int
    BY <1>1, <1>2
  <2>2. rest \in 0 .. WeekDays - 1 /\ day = whole + rest
    BY <1>2
  <2> HIDE DEF whole, rest
  <2>3. whole <= day /\ day < whole + WeekDays
    BY <1>1, <2>1, <2>2
  <2> QED
    BY <2>3 DEF whole
<1> QED
  BY <1>2, <1>3, <1>4 DEF WeekOf

\* The points of a chart are the weeks up to the current one.
LEMMA PointIs ==
    ASSUME CardInv, NEW i \in 1 .. WeeksBack
    PROVE  WeekOfPoint(i) = WeekOf(now) - (WeeksBack - i) /\ WeekOfPoint(i) \in Int
<1> DEFINE c == WeekDays
           k == WeeksBack - i
           q == WeekOf(now)
           back == k * c
<1>1. c \in Nat \ {0} /\ k \in Int /\ now \in Int
  BY DashboardAssumption, DayFacts DEF CardInv, Dated
<1>2. q \in Int /\ c * q <= now /\ now < c * q + c
  BY <1>1, WeekSpan
<1>3. c * (q - k) = c * q - back /\ back \in Int /\ c * q \in Int
  <2> HIDE DEF c, k, q
  <2> QED
    BY <1>1, <1>2
<1>4. WeekOfPoint(i) = WeekOf(now - back)
  BY DEF WeekOfPoint
<1>5. c * (q - k) <= now - back /\ now - back < c * (q - k) + c /\ now - back \in Int /\ q - k \in Int
  <2> HIDE DEF c, k, q, back
  <2> QED
    BY <1>1, <1>2, <1>3
<1>6. WeekOf(now - back) = q - k
  <2> HIDE DEF k, q, back
  <2> QED
    BY <1>5, WeekSpan
<1> QED
  BY <1>1, <1>2, <1>4, <1>6

\* The days of a point that are not to come are all read.
LEMMA PointRead ==
    ASSUME CardInv, NEW i \in 1 .. WeeksBack, NEW d \in Days, WeekOf(d) = WeekOfPoint(i), d <= now
    PROVE  d \in Read
<1> DEFINE c == WeekDays
           k == WeeksBack - i
           q == WeekOf(now)
           cq == c * q
           ck == c * k
           all == WeeksBack * c
<1>1. c \in Nat \ {0} /\ k \in Int /\ now \in Int /\ d \in Int /\ WeeksBack \in Nat /\ k < WeeksBack
  BY DashboardAssumption, DayFacts DEF CardInv, Dated
<1>2. q \in Int /\ now < cq + c /\ c * WeekOf(d) <= d
  BY <1>1, WeekSpan
<1>3. WeekOf(d) = q - k
  BY PointIs
<1>4. c * (q - k) = cq - ck /\ ck + c <= all /\ cq \in Int /\ ck \in Int /\ all \in Int
  <2> HIDE DEF c, k, q
  <2>1. c * (q - k) = cq - ck /\ cq \in Int /\ ck \in Int /\ all \in Int
    BY <1>1, <1>2
  <2>2. c * WeeksBack = all
    BY <1>1
  <2>3. ck + c <= c * WeeksBack
    BY <1>1, Products
  <2> QED
    BY <2>1, <2>2, <2>3
<1>5. now - all <= d
  <2>1. cq - ck <= d
    BY <1>2, <1>3, <1>4
  <2> HIDE DEF c, k, q, cq, ck, all
  <2> QED
    BY <1>1, <1>2, <1>4, <2>1
<1> QED
  BY <1>5 DEF Read, Since

\* The weeks of a period are all points of the charts.
LEMMA PeriodShown ==
    ASSUME CardInv, NEW d \in Since(PeriodDays)
    PROVE  (\E i \in 1 .. WeeksBack : WeekOf(d) = WeekOfPoint(i)) /\ d \in Read /\ d \in Days
<1> DEFINE c == WeekDays
           k == WeeksBack - 1
           q == WeekOf(now)
           p == WeekOf(d)
           cq == c * q
           ck == k * c
           cp == c * p
<1>1. c \in Nat \ {0} /\ k \in Nat /\ now \in Int /\ d \in Int /\ WeeksBack \in Nat \ {0} /\ PeriodDays \in Nat
      /\ PeriodDays <= ck /\ d \in Days
  BY DashboardAssumption, DayFacts DEF CardInv, Dated, Since
<1>2. now - PeriodDays <= d /\ d <= now
  BY DEF Since
<1>3. q \in Int /\ cq <= now /\ now < cq + c /\ p \in Int /\ cp <= d /\ d < cp + c
  BY <1>1, WeekSpan
<1>4. cq \in Int /\ ck \in Int /\ cp \in Int /\ c * (q - k) = cq - ck /\ q - k \in Int
  <2> HIDE DEF c, k, q, p
  <2> QED
    BY <1>1, <1>3
<1>5. p <= q
  <2>1. q < p => cq + c <= cp
    BY <1>1, <1>3, Products
  <2> HIDE DEF c, k, q, p, cq, ck, cp
  <2> QED
    BY <1>1, <1>2, <1>3, <1>4, <2>1
<1>6. q - k <= p
  <2>1. p < q - k => cp + c <= c * (q - k)
    BY <1>1, <1>3, <1>4, Products
  <2>2. p < q - k => cp + c <= cq - ck
    BY <1>4, <2>1
  <2> HIDE DEF c, k, q, p, cq, ck, cp
  <2> QED
    BY <1>1, <1>2, <1>3, <1>4, <2>2
<1>7. WeeksBack - (q - p) \in 1 .. WeeksBack
  <2>1. k = WeeksBack - 1
    OBVIOUS
  <2> HIDE DEF q, p, k
  <2> QED
    BY <1>1, <1>3, <1>5, <1>6, <2>1
<1>8. p = WeekOfPoint(WeeksBack - (q - p))
  <2>1. WeekOfPoint(WeeksBack - (q - p)) = q - (WeeksBack - (WeeksBack - (q - p)))
    BY <1>7, PointIs
  <2> HIDE DEF q, p
  <2> QED
    BY <1>1, <1>3, <2>1
<1>9. d \in Read
  BY <1>1, <1>2, <1>7, <1>8, PointRead
<1> QED
  BY <1>1, <1>7, <1>8, <1>9

\* Two points are two weeks.
LEMMA PointsDiffer ==
    ASSUME CardInv, NEW i \in 1 .. WeeksBack, NEW j \in 1 .. WeeksBack, WeekOfPoint(i) = WeekOfPoint(j)
    PROVE  i = j
<1>1. now \in Int /\ WeeksBack \in Nat
  BY DashboardAssumption, DayFacts DEF CardInv, Dated
<1>2. WeekOf(now) \in Int
  BY <1>1, WeekSpan
<1>3. WeekOf(now) - (WeeksBack - i) = WeekOf(now) - (WeeksBack - j)
  BY PointIs
<1> QED
  BY <1>1, <1>2, <1>3

----------------------------------------------------------------------------
(* The charts.                                                             *)

DaysOf(w) == {d \in Days : WeekOf(d) = w}

\* Rows of days that have come.
Past(rows) == rows \in [Days -> Nat] /\ \A d \in Days : d > now => rows[d] = 0

\* The rows of a whole week.
LEMMA InWeekFacts ==
    ASSUME NEW rows \in [Days -> Nat], NEW w
    PROVE  /\ InWeek(rows, w) \in Nat
           /\ InWeek(rows, w) > 0 <=> \E d \in DaysOf(w) : rows[d] > 0
           /\ DaysOf(w) \in SUBSET Days /\ InWeek(rows, w) = SumFunctionOnSet(rows, DaysOf(w))
<1>1. DaysOf(w) \in SUBSET Days /\ InWeek(rows, w) = SumFunctionOnSet(rows, DaysOf(w))
  BY DEF DaysOf, InWeek
<1>2. Counts(rows, DaysOf(w)) /\ IsFiniteSet(DaysOf(w))
  BY <1>1, RowFacts
<1> QED
  BY <1>1, <1>2, SumPositive

\* Rows that are read by week are those of the whole week.
LEMMA ByWeekIs ==
    ASSUME CardInv, NEW rows, Past(rows), NEW i \in 1 .. WeeksBack
    PROVE  LET w == WeekOfPoint(i) IN
           /\ w \in DOMAIN ByWeek(rows) <=> InWeek(rows, w) > 0
           /\ w \in DOMAIN ByWeek(rows) => ByWeek(rows)[w] = InWeek(rows, w)
           /\ FillWeeks(ByWeek(rows))[i] = InWeek(rows, w)
<1> DEFINE w == WeekOfPoint(i)
           weeks == {WeekOf(d) : d \in {e \in Read : rows[e] > 0}}
           seen == {d \in Read : WeekOf(d) = w}
<1>1. rows \in [Days -> Nat] /\ \A d \in Days : d > now => rows[d] = 0
  BY DEF Past
<1>2. now \in Nat /\ \A d \in Days : d \in Nat
  BY DayFacts DEF CardInv, Dated
<1>3. \A d \in DaysOf(w) : d <= now => d \in seen
  BY PointRead DEF DaysOf
<1>4. seen \in SUBSET DaysOf(w) /\ \A d \in DaysOf(w) \ seen : rows[d] = 0
  <2>1. seen \in SUBSET DaysOf(w)
    BY DEF Read, Since, DaysOf
  <2>2. ASSUME NEW d \in DaysOf(w), d \notin seen PROVE rows[d] = 0
    <3>1. d \in Days /\ ~(d <= now)
      BY <1>3, <2>2 DEF DaysOf
    <3>2. d > now
      BY <1>2, <3>1
    <3> QED
      BY <1>1, <3>1, <3>2
  <2> QED
    BY <2>1, <2>2
<1>5. SumFunctionOnSet(rows, seen) = InWeek(rows, w)
  <2>1. DaysOf(w) \in SUBSET Days /\ InWeek(rows, w) = SumFunctionOnSet(rows, DaysOf(w))
    BY <1>1, InWeekFacts
  <2>2. Counts(rows, DaysOf(w)) /\ IsFiniteSet(DaysOf(w))
    BY <1>1, <2>1, RowFacts
  <2> HIDE DEF seen, w
  <2> QED
    BY <1>4, <2>1, <2>2, SumSupport
<1>6. DOMAIN ByWeek(rows) = weeks /\ (w \in weeks => ByWeek(rows)[w] = SumFunctionOnSet(rows, seen))
  BY DEF ByWeek
<1>7. w \in weeks <=> InWeek(rows, w) > 0
  <2>1. w \in weeks <=> \E d \in seen : rows[d] > 0
    OBVIOUS
  <2>2. (\E d \in seen : rows[d] > 0) <=> \E d \in DaysOf(w) : rows[d] > 0
    BY <1>4
  <2>3. (\E d \in DaysOf(w) : rows[d] > 0) <=> InWeek(rows, w) > 0
    BY <1>1, InWeekFacts
  <2> HIDE DEF weeks, seen, w
  <2> QED
    BY <2>1, <2>2, <2>3
<1>8. InWeek(rows, w) \in Nat
  BY <1>1, InWeekFacts
<1>9. FillWeeks(ByWeek(rows))[i] = IF w \in DOMAIN ByWeek(rows) THEN ByWeek(rows)[w] ELSE 0
  BY DEF FillWeeks
<1> HIDE DEF weeks, seen, w
<1>10. FillWeeks(ByWeek(rows))[i] = InWeek(rows, w)
  BY <1>5, <1>6, <1>7, <1>8, <1>9
<1> QED
  BY <1>5, <1>6, <1>7, <1>10 DEF w

\* No row is of a day to come.
LEMMA RowsArePast == CardInv => Past(visits) /\ Past(redeemed)
  BY DEF CardInv, Dated, Past

\* A point of the chart of visits is its whole week.
LEMMA VisitsByWeekIs ==
    ASSUME CardInv, NEW i \in 1 .. WeeksBack
    PROVE  VisitsByWeek[i] = InWeek(visits, WeekOfPoint(i)) /\ VisitsByWeek[i] \in Nat
<1>1. visits \in [Days -> Nat] /\ Past(visits)
  BY RowsArePast DEF Past
<1>2. InWeek(visits, WeekOfPoint(i)) \in Nat
  BY <1>1, InWeekFacts
<1>3. VisitsByWeek[i] = InWeek(visits, WeekOfPoint(i))
  BY <1>1, ByWeekIs DEF VisitsByWeek
<1> QED
  BY <1>2, <1>3

\* The account shows in the week it was made in, its visits in the weeks that
\* began after it.
LEMMA NewAndReturning ==
    ASSUME CardInv, NEW i \in 1 .. WeeksBack
    PROVE  LET w == WeekOfPoint(i)
               began == createdAt \in Read /\ WeekOf(createdAt) = w
               again == InWeek(visits, w) > 0 /\ createdAt < w * WeekDays IN
           /\ New[i] = (IF began THEN 1 ELSE 0) /\ Returning[i] = (IF again THEN 1 ELSE 0)
           /\ ~(began /\ again)
           /\ InWeek(visits, w) > 0 => began \/ again
<1> DEFINE w == WeekOfPoint(i)
           began == createdAt \in Read /\ WeekOf(createdAt) = w
           again == InWeek(visits, w) > 0 /\ createdAt < w * WeekDays
<1>1. New[i] = IF began THEN 1 ELSE 0
  <2> DEFINE weeks == {WeekOf(d) : d \in {createdAt} \cap Read}
             ones == [v \in weeks |-> 1]
  <2>1. w \in weeks <=> began
    OBVIOUS
  <2>2. New[i] = IF w \in weeks THEN ones[w] ELSE 0
    BY DEF New, FillWeeks
  <2>3. w \in weeks => ones[w] = 1
    OBVIOUS
  <2> HIDE DEF began, ones, weeks, w
  <2> QED
    BY <2>1, <2>2, <2>3
<1>2. Returning[i] = IF again THEN 1 ELSE 0
  <2> DEFINE weeks == {v \in DOMAIN ByWeek(visits) : createdAt < v * WeekDays}
             ones == [v \in weeks |-> 1]
  <2>1. w \in weeks <=> again
    BY RowsArePast, ByWeekIs
  <2>2. Returning[i] = IF w \in weeks THEN ones[w] ELSE 0
    BY DEF Returning, FillWeeks
  <2>3. w \in weeks => ones[w] = 1
    OBVIOUS
  <2> HIDE DEF again, ones, weeks, w
  <2> QED
    BY <2>1, <2>2, <2>3
<1>3. WeekDays \in Nat \ {0} /\ createdAt \in Int /\ w \in Int /\ now \in Int /\ \A d \in Days : d \in Int
  BY PointIs, DashboardAssumption, DayFacts DEF CardInv, Dated
<1>4. WeekDays * w = w * WeekDays /\ WeekDays * w \in Int
  <2> HIDE DEF w
  <2> QED
    BY <1>3
<1>5. ~(began /\ again)
  <2>1. began => WeekDays * w <= createdAt
    BY <1>3, WeekSpan
  <2> HIDE DEF w
  <2> QED
    BY <1>3, <1>4, <2>1
<1>6. ASSUME InWeek(visits, w) > 0, ~again PROVE began
  <2>1. visits \in [Days -> Nat]
    BY DEF CardInv, Dated
  <2>2. PICK d \in DaysOf(w) : visits[d] > 0
    BY <1>6, <2>1, InWeekFacts
  <2>3. d \in Days /\ WeekOf(d) = w /\ createdAt <= d /\ d <= now
    <3>1. d \in Days /\ WeekOf(d) = w
      BY <2>2 DEF DaysOf
    <3>2. ~(d > now \/ d < createdAt)
      BY <2>2, <3>1 DEF CardInv, Dated
    <3> QED
      BY <1>3, <3>1, <3>2
  <2>4. d < WeekDays * w + WeekDays
    BY <1>3, <2>3, WeekSpan
  <2>5. WeekDays * w <= createdAt
    <3> HIDE DEF w
    <3> QED
      BY <1>3, <1>4, <1>6
  <2>6. WeekOf(createdAt) = w
    <3>1. createdAt < WeekDays * w + WeekDays
      <4> HIDE DEF w
      <4> QED
        BY <1>3, <1>4, <2>3, <2>4
    <3> HIDE DEF w
    <3> QED
      BY <1>3, <2>5, <3>1, WeekSpan
  <2>7. createdAt \in Days
    BY <1>3, <2>3, DayFacts DEF CardInv, Dated, Days
  <2>8. createdAt <= now
    BY <1>3, <2>3
  <2>9. createdAt \in Read
    BY <2>6, <2>7, <2>8, PointRead
  <2> QED
    BY <2>6, <2>9
<1> HIDE DEF began, again
<1>7. InWeek(visits, w) > 0 => began \/ again
  BY <1>6
<1> QED
  BY <1>1, <1>2, <1>5, <1>7 DEF began, again

\* The rate of a week shows when it does not round to zero.
LEMMA RateIs ==
    ASSUME CardInv, NEW i \in 1 .. WeeksBack
    PROVE  RedemptionRateByWeek[i] > 0 <=>
             VisitsByWeek[i] \in 1 .. 2000 * InWeek(redeemed, WeekOfPoint(i))
<1> DEFINE w == WeekOfPoint(i)
           seen == ByWeek(visits)
           used == ByWeek(redeemed)
           s == InWeek(visits, w)
           u == InWeek(redeemed, w)
           rate(v) == IF v \in DOMAIN seen
                      THEN (2000 * (IF v \in DOMAIN used THEN used[v] ELSE 0) + seen[v])
                               \div (2 * seen[v])
                      ELSE 0
           rates == [v \in DOMAIN seen \cup DOMAIN used |-> rate(v)]
<1>1. s \in Nat /\ u \in Nat /\ VisitsByWeek[i] = s
  BY RowsArePast, InWeekFacts, VisitsByWeekIs DEF Past
<1>2. /\ w \in DOMAIN seen <=> s > 0
      /\ w \in DOMAIN seen => seen[w] = s
      /\ w \in DOMAIN used <=> u > 0
      /\ w \in DOMAIN used => used[w] = u
  BY RowsArePast, ByWeekIs
<1>3. RedemptionRateByWeek[i] = IF w \in DOMAIN seen \cup DOMAIN used THEN rate(w) ELSE 0
  <2>1. RedemptionRateByWeek = FillWeeks(rates)
    BY DEF RedemptionRateByWeek
  <2>2. FillWeeks(rates)[i] = IF w \in DOMAIN rates THEN rates[w] ELSE 0
    BY DEF FillWeeks
  <2>3. DOMAIN rates = DOMAIN seen \cup DOMAIN used /\ (w \in DOMAIN rates => rates[w] = rate(w))
    OBVIOUS
  <2> HIDE DEF rates, rate, seen, used, w
  <2> QED
    BY <2>1, <2>2, <2>3
<1>4. (IF w \in DOMAIN used THEN used[w] ELSE 0) = u
  <2> HIDE DEF used, w, u
  <2> QED
    BY <1>1, <1>2
<1>5. w \in DOMAIN seen => rate(w) = (2000 * u + s) \div (2 * s)
  BY <1>2, <1>4
<1>6. w \notin DOMAIN seen => rate(w) = 0
  OBVIOUS
<1> HIDE DEF w, seen, used, s, u, rate, rates
<1>7. CASE s = 0
  BY <1>1, <1>2, <1>3, <1>6, <1>7 DEF s, u, w
<1>8. CASE s > 0
  <2>1. RedemptionRateByWeek[i] = (2000 * u + s) \div (2 * s)
    BY <1>2, <1>3, <1>5, <1>8
  <2>2. 2000 * u + s \in Nat /\ 2 * s \in Nat \ {0}
    BY <1>1, <1>8
  <2>3. (2000 * u + s) \div (2 * s) > 0 <=> 2 * s <= 2000 * u + s
    BY <2>2, DivFacts
  <2>4. 2 * s <= 2000 * u + s <=> s \in 1 .. 2000 * u
    BY <1>1, <1>8
  <2> QED
    BY <1>1, <2>1, <2>3, <2>4 DEF u, w
<1> QED
  BY <1>1, <1>7, <1>8

\* A chart of visits counts at least those of the period.
LEMMA ChartHoldsPeriod == CardInv => VisitsThisPeriod <= SumFunction(VisitsByWeek)
<1> SUFFICES ASSUME CardInv PROVE VisitsThisPeriod <= SumFunction(VisitsByWeek)
  OBVIOUS
<1> DEFINE points == 1 .. WeeksBack
           shown(I) == {d \in Days : \E i \in I : WeekOf(d) = WeekOfPoint(i)}
           P == {I \in SUBSET points : SumFunctionOnSet(VisitsByWeek, I)
                                         = SumFunctionOnSet(visits, shown(I))}
<1>1. WeeksBack \in Nat /\ IsFiniteSet(points) /\ visits \in [Days -> Nat]
  <2>1. WeeksBack \in Nat /\ visits \in [Days -> Nat]
    BY DashboardAssumption DEF CardInv, Dated
  <2> QED
    BY <2>1, FS_Interval
<1>2. \A I \in SUBSET points : Counts(VisitsByWeek, I) /\ Numeric(VisitsByWeek, I) /\ IsFiniteSet(I)
  <2> TAKE I \in SUBSET points
  <2>1. \A i \in I : VisitsByWeek[i] \in Nat
    BY VisitsByWeekIs
  <2>2. IsFiniteSet(I)
    BY <1>1, FS_Subset
  <2>3. Counts(VisitsByWeek, I) /\ Numeric(VisitsByWeek, I)
    <3> HIDE DEF points
    <3> QED
      BY <2>1 DEF Counts, Numeric
  <2> QED
    BY <2>2, <2>3
<1>3. \A S \in SUBSET Days : Counts(visits, S) /\ Numeric(visits, S) /\ IsFiniteSet(S)
  BY <1>1, RowFacts DEF Counts, Numeric
<1>4. {} \in P
  <2>1. shown({}) = {}
    OBVIOUS
  <2> HIDE DEF shown
  <2> QED
    BY <2>1, SumEmpty
<1>5. ASSUME NEW I \in SUBSET points, NEW i \in points \ I, I \in P PROVE I \cup {i} \in P
  <2>1. shown(I \cup {i}) = shown(I) \cup DaysOf(WeekOfPoint(i))
        /\ shown(I) \in SUBSET Days /\ DaysOf(WeekOfPoint(i)) \in SUBSET Days
    BY DEF DaysOf
  <2>2. shown(I) \cap DaysOf(WeekOfPoint(i)) = {}
    <3> SUFFICES ASSUME NEW d \in shown(I) \cap DaysOf(WeekOfPoint(i)) PROVE FALSE
      OBVIOUS
    <3>1. PICK j \in I : WeekOf(d) = WeekOfPoint(j)
      OBVIOUS
    <3>2. WeekOf(d) = WeekOfPoint(i)
      BY DEF DaysOf
    <3>3. i = j
      BY <3>1, <3>2, PointsDiffer
    <3> QED
      BY <1>5, <3>3
  <2> HIDE DEF shown
  <2>3. SumFunctionOnSet(visits, shown(I \cup {i}))
          = SumFunctionOnSet(visits, shown(I)) + SumFunctionOnSet(visits, DaysOf(WeekOfPoint(i)))
    BY <1>3, <2>1, <2>2, SumUnion
  <2>4. SumFunctionOnSet(VisitsByWeek, I \cup {i}) = VisitsByWeek[i] + SumFunctionOnSet(VisitsByWeek, I)
    <3>1. Numeric(VisitsByWeek, I \cup {i}) /\ IsFiniteSet(I) /\ i \notin I
      BY <1>2, <1>5
    <3> QED
      BY <3>1, SumInsert
  <2>5. VisitsByWeek[i] = SumFunctionOnSet(visits, DaysOf(WeekOfPoint(i)))
        /\ VisitsByWeek[i] \in Nat
    BY <1>1, VisitsByWeekIs, InWeekFacts
  <2>6. SumFunctionOnSet(visits, shown(I)) \in Nat
    BY <1>1, <2>1, RowFacts
  <2>7. SumFunctionOnSet(VisitsByWeek, I) = SumFunctionOnSet(visits, shown(I))
    BY <1>5
  <2> QED
    BY <1>5, <2>3, <2>4, <2>5, <2>6, <2>7
<1>6. points \in P
  <2> HIDE DEF P
  <2> QED
    BY <1>1, <1>4, <1>5, SetInduction
<1>7. SumFunction(VisitsByWeek) = SumFunctionOnSet(visits, shown(points))
  <2>1. DOMAIN VisitsByWeek = points
    BY DEF VisitsByWeek, FillWeeks
  <2> QED
    BY <1>6, <2>1 DEF SumFunction
<1>8. Since(PeriodDays) \in SUBSET shown(points) /\ shown(points) \in SUBSET Days
  BY PeriodShown
<1> HIDE DEF shown
<1> QED
  BY <1>3, <1>7, <1>8, SumPart DEF VisitsThisPeriod

\* The last stamp tells whether there were visits in the period, and nobody is
\* both active and inactive.
LEMMA ActiveIs ==
    CardInv => /\ Active <=> VisitsThisPeriod > 0
               /\ ~(Active /\ Inactive)
<1> SUFFICES ASSUME CardInv PROVE (Active <=> VisitsThisPeriod > 0) /\ ~(Active /\ Inactive)
  OBVIOUS
<1> DEFINE seen == {d \in Days : visits[d] > 0}
<1>1. /\ now \in Nat /\ visits \in [Days -> Nat] /\ \A d \in Days : d > now => visits[d] = 0
      /\ PeriodDays \in Nat /\ InactiveDays \in Nat /\ PeriodDays <= InactiveDays
  BY DashboardAssumption, DayFacts DEF CardInv, Dated
<1>2. Since(PeriodDays) \in SUBSET Days /\ Since(PeriodDays) \subseteq Since(InactiveDays)
  <2>1. \A d \in Days : d \in Nat
    BY DayFacts
  <2> QED
    BY <1>1, <2>1 DEF Since
<1>3. VisitsThisPeriod > 0 <=> \E d \in Since(PeriodDays) : visits[d] > 0
  <2>1. Counts(visits, Since(PeriodDays)) /\ IsFiniteSet(Since(PeriodDays))
    BY <1>1, <1>2, RowFacts
  <2> QED
    BY <2>1, SumPositive DEF VisitsThisPeriod
<1>4. seen # {} => LastStampAt \in seen /\ LastStampAt # Never /\ \A d \in seen : d <= LastStampAt
  <2> SUFFICES ASSUME seen # {}
               PROVE  LastStampAt \in seen /\ LastStampAt # Never /\ \A d \in seen : d <= LastStampAt
    OBVIOUS
  <2>1. seen \in SUBSET (0 .. Horizon) /\ Horizon \in Nat
    BY DayFacts
  <2>2. Max(seen) \in seen /\ \A d \in seen : d <= Max(seen)
    <3> HIDE DEF seen
    <3> QED
      BY <2>1, MaxIs
  <2>3. LastStampAt = Max(seen)
    BY DEF LastStampAt
  <2>4. \A d \in seen : d \in Nat
    BY <2>1
  <2> HIDE DEF seen
  <2> QED
    BY <2>2, <2>3, <2>4 DEF Never
<1>5. seen = {} => LastStampAt = Never
  BY DEF LastStampAt
<1>6. ASSUME NEW d \in Since(PeriodDays), visits[d] > 0 PROVE Active
  <2>1. d \in seen /\ d \in Days /\ now - PeriodDays <= d
    BY <1>6 DEF Since
  <2>2. LastStampAt \in seen /\ LastStampAt # Never /\ d <= LastStampAt
    BY <1>4, <2>1
  <2>3. LastStampAt \in Days /\ visits[LastStampAt] > 0 /\ ~(LastStampAt > now)
    BY <1>1, <2>2
  <2>4. d \in Nat /\ LastStampAt \in Nat
    BY <2>1, <2>3, DayFacts
  <2> QED
    BY <1>1, <2>1, <2>2, <2>3, <2>4 DEF Active, Since
<1>7. ASSUME Active PROVE \E d \in Since(PeriodDays) : visits[d] > 0
  BY <1>4, <1>5, <1>7 DEF Active
<1>8. ~(Active /\ Inactive)
  BY <1>2 DEF Active, Inactive
<1> QED
  BY <1>3, <1>6, <1>7, <1>8

\* Who is new in the period is new in one week of the chart.
LEMMA NewShows == CardInv => (NewThisPeriod => SumFunction(New) = 1)
<1> SUFFICES ASSUME CardInv, NewThisPeriod PROVE SumFunction(New) = 1
  OBVIOUS
<1>1. WeeksBack \in Nat /\ IsFiniteSet(1 .. WeeksBack) /\ DOMAIN New = 1 .. WeeksBack
  <2>1. WeeksBack \in Nat
    BY DashboardAssumption
  <2> QED
    BY <2>1, FS_Interval DEF New, FillWeeks
<1>2. createdAt \in Read /\ \E i \in 1 .. WeeksBack : WeekOf(createdAt) = WeekOfPoint(i)
  BY PeriodShown DEF NewThisPeriod
<1>3. PICK i \in 1 .. WeeksBack : WeekOf(createdAt) = WeekOfPoint(i)
  BY <1>2
<1>4. New[i] = 1
  BY <1>2, <1>3, NewAndReturning
<1>5. ASSUME NEW j \in (1 .. WeeksBack) \ {i} PROVE New[j] = 0
  <2>1. WeekOf(createdAt) # WeekOfPoint(j)
    BY <1>3, PointsDiffer
  <2> QED
    BY <2>1, NewAndReturning
<1>6. SumFunctionOnSet(New, 1 .. WeeksBack) = 1
  BY <1>1, <1>4, <1>5, SumOne
<1> QED
  BY <1>1, <1>6 DEF SumFunction

\* The redemptions of the period are in the weeks of the chart.
LEMMA RedemptionsShow ==
    CardInv => (RedemptionsThisPeriod > 0 =>
                  \E i \in 1 .. WeeksBack : InWeek(redeemed, WeekOfPoint(i)) > 0)
<1> SUFFICES ASSUME CardInv, RedemptionsThisPeriod > 0
             PROVE  \E i \in 1 .. WeeksBack : InWeek(redeemed, WeekOfPoint(i)) > 0
  OBVIOUS
<1>1. redeemed \in [Days -> Nat] /\ Since(PeriodDays) \in SUBSET Days
  BY DEF CardInv, Dated, Since
<1>2. Counts(redeemed, Since(PeriodDays)) /\ IsFiniteSet(Since(PeriodDays))
  BY <1>1, RowFacts
<1>3. PICK d \in Since(PeriodDays) : redeemed[d] > 0
  BY <1>2, SumPositive DEF RedemptionsThisPeriod
<1>4. PICK i \in 1 .. WeeksBack : WeekOf(d) = WeekOfPoint(i)
  BY PeriodShown
<1>5. d \in DaysOf(WeekOfPoint(i))
  BY <1>1, <1>4 DEF DaysOf
<1> QED
  BY <1>1, <1>3, <1>5, InWeekFacts

\* The visits of the current week are of the period, so the charts are drawn.
LEMMA VisitsAreDrawn == CardInv => (VisitsByWeek[WeeksBack] > 0 => Drawn)
<1> SUFFICES ASSUME CardInv, VisitsByWeek[WeeksBack] > 0 PROVE Drawn
  OBVIOUS
<1>1. /\ WeeksBack \in Nat \ {0} /\ WeekDays \in Nat \ {0} /\ PeriodDays \in Nat /\ WeekDays <= PeriodDays
      /\ now \in Nat /\ createdAt \in Int /\ visits \in [Days -> Nat] /\ \A d \in Days : d \in Nat
  BY DashboardAssumption, DayFacts DEF CardInv, Dated
<1>2. WeeksBack \in 1 .. WeeksBack /\ WeekOfPoint(WeeksBack) = WeekOf(now)
  <2>1. WeekOf(now) \in Int
    BY <1>1, WeekSpan
  <2>2. WeeksBack \in 1 .. WeeksBack
    BY <1>1
  <2>3. WeekOfPoint(WeeksBack) = WeekOf(now) - (WeeksBack - WeeksBack)
    BY <2>2, PointIs
  <2> QED
    BY <1>1, <2>1, <2>2, <2>3
<1>3. PICK d \in DaysOf(WeekOf(now)) : visits[d] > 0
  BY <1>1, <1>2, VisitsByWeekIs, InWeekFacts
<1>4. d \in Days /\ createdAt <= d /\ d <= now
  <2>1. d \in Days
    BY DEF DaysOf
  <2>2. ~(d > now \/ d < createdAt)
    BY <1>3, <2>1 DEF CardInv, Dated
  <2> QED
    BY <1>1, <2>1, <2>2
<1>5. WeekDays * WeekOf(now) <= d /\ now < WeekDays * WeekOf(now) + WeekDays
  <2>1. WeekOf(d) = WeekOf(now)
    BY DEF DaysOf
  <2>2. WeekDays * WeekOf(d) <= d /\ now < WeekDays * WeekOf(now) + WeekDays
    BY <1>1, <1>4, WeekSpan
  <2> QED
    BY <2>1, <2>2
<1>6. d \in Since(PeriodDays)
  <2> DEFINE begin == WeekDays * WeekOf(now)
  <2>1. begin \in Int
    BY <1>1, WeekSpan
  <2>2. begin <= d /\ now < begin + WeekDays
    BY <1>5
  <2> HIDE DEF begin
  <2>3. now - PeriodDays <= d
    BY <1>1, <1>4, <2>1, <2>2
  <2> QED
    BY <1>4, <2>3 DEF Since
<1>7. VisitsThisPeriod > 0
  <2>1. Since(PeriodDays) \in SUBSET Days
    BY DEF Since
  <2>2. Counts(visits, Since(PeriodDays)) /\ IsFiniteSet(Since(PeriodDays))
    BY <1>1, <2>1, RowFacts
  <2> QED
    BY <1>3, <1>6, <2>2, SumPositive DEF VisitsThisPeriod
<1>8. createdAt <= now
  BY <1>1, <1>4
<1> QED
  BY <1>7, <1>8 DEF Drawn, HasCustomers, HasActivity

\* The row of circles is done when all are filled.
LEMMA RowOfStamps == CardInv => (StampRow.done <=> StampRow.filled = 1 .. required)
<1> SUFFICES ASSUME CardInv PROVE StampRow.done <=> StampRow.filled = 1 .. required
  OBVIOUS
<1> DEFINE bar == StampProgress(stamps, required)
           full == stamps >= required
           filled == {i \in 1 .. required : i <= bar.display}
<1>1. stamps \in Nat /\ required \in Nat \ {0}
  BY RuleFacts, DayFacts DEF CardInv, CardOK
<1>2. bar = [display |-> Min({stamps, required}), completed |-> full]
  BY DEF StampProgress
<1>3. bar.display = (IF stamps <= required THEN stamps ELSE required) /\ bar.completed = full
  <2> HIDE DEF bar, full
  <2>1. bar.display = Min({stamps, required}) /\ bar.completed = full
    BY <1>2
  <2> QED
    BY <1>1, <2>1, MinOfTwo
<1>4. StampRow.filled = filled /\ StampRow.done = bar.completed
  <2>1. StampRow = [filled |-> filled, done |-> bar.completed]
    BY DEF StampRow
  <2> HIDE DEF bar, filled
  <2> QED
    BY <2>1
<1>5. filled = 1 .. required <=> stamps >= required
  <2> HIDE DEF bar, full
  <2>1. required \in filled => required <= stamps
    BY <1>1, <1>3
  <2>2. required \in 1 .. required
    BY <1>1
  <2>3. stamps >= required => bar.display = required
    BY <1>1, <1>3
  <2> QED
    BY <1>1, <2>1, <2>2, <2>3
<1> HIDE DEF bar, filled
<1> QED
  BY <1>3, <1>4, <1>5 DEF full

\* Who has no card has no stamps, and nothing to collect.
LEMMA CardsShow ==
    CardInv => /\ CustomerPage.stamped => CustomerPage.cards # {}
               /\ CustomerPage.cards = {} =>
                    \A r \in DOMAIN CustomerView.options : ~CustomerView.options[r]
<1> SUFFICES ASSUME CardInv
             PROVE  /\ CustomerPage.stamped => CustomerPage.cards # {}
                    /\ CustomerPage.cards = {} =>
                         \A r \in DOMAIN CustomerView.options : ~CustomerView.options[r]
  OBVIOUS
<1> DEFINE made == SumFunction(visits) > 0
           options == [r \in ActiveRules |-> r \in AvailableRewards(stamps, rules)]
<1>1. (CustomerPage.stamped <=> made) /\ (CustomerPage.cards # {} <=> balance)
  <2> DEFINE cards == IF balance THEN {[stamps |-> stamps, row |-> StampRow]} ELSE {}
  <2>1. CustomerPage = [cards |-> cards, stamped |-> made]
    BY DEF CustomerPage
  <2>2. cards # {} <=> balance
    OBVIOUS
  <2> HIDE DEF cards, made
  <2> QED
    BY <2>1, <2>2
<1>2. CustomerView.options = options
  BY DEF CustomerView, ActiveRules
<1>3. balance \/ (stamps = 0 /\ SumFunction(visits) = 0)
  BY DEF CardInv, LedgerKept
<1>4. ASSUME stamps = 0, NEW r \in ActiveRules PROVE ~options[r]
  <2>1. rules[r].cost \in Nat \ {0} /\ r \in Rules
    BY RuleFacts DEF CardInv, CardOK
  <2>2. r \notin AvailableRewards(stamps, rules)
    BY <1>4, <2>1 DEF AvailableRewards
  <2> QED
    BY <2>2
<1>5. DOMAIN options = ActiveRules
  OBVIOUS
<1> HIDE DEF options
<1> QED
  BY <1>1, <1>2, <1>3, <1>4, <1>5 DEF made

\* The dashboard and the card mean the same next reward.
LEMMA NearRewardIs ==
    CardInv => (NearReward <=> balance /\ StampsUntilNextReward(stamps, rules) \in 1 .. NearRewardGap)
<1> SUFFICES ASSUME CardInv
             PROVE  NearReward <=> balance /\ StampsUntilNextReward(stamps, rules) \in 1 .. NearRewardGap
  OBVIOUS
<1> DEFINE ahead == {q \in Rules : rules[q].active /\ rules[q].cost > stamps}
           above == {rules[r].cost : r \in ahead}
           n == StampsUntilNextReward(stamps, rules)
<1>1. DOMAIN rules = Rules /\ NearRewardGap \in Nat /\ stamps \in Nat /\ CardOK
      /\ \A r \in Rules : rules[r].cost \in Nat \ {0}
  BY RuleFacts, BoundsAssumption, DayFacts DEF CardInv, CardOK
<1>2. NearReward <=> balance /\ above # {} /\ Min(above) - stamps <= NearRewardGap
  BY DEF NearReward
<1>3. n = IF above = {} THEN -1 ELSE Min(above) - stamps
  BY <1>1 DEF StampsUntilNextReward
<1>4. above # {} => n \in Nat \ {0}
  <2> SUFFICES ASSUME above # {} PROVE n \in Nat \ {0}
    OBVIOUS
  <2>1. above \in SUBSET Nat /\ \A k \in above : k > stamps
    BY <1>1
  <2> HIDE DEF above
  <2>2. Min(above) \in above
    BY <2>1, MinIs
  <2> HIDE DEF n
  <2>3. n = Min(above) - stamps /\ Min(above) \in Nat /\ Min(above) > stamps
    BY <1>3, <2>1, <2>2
  <2> QED
    BY <1>1, <2>3
<1> HIDE DEF above, n
<1>5. above # {} => (Min(above) - stamps <= NearRewardGap <=> n \in 1 .. NearRewardGap)
  BY <1>1, <1>3, <1>4
<1>6. above = {} => n \notin 1 .. NearRewardGap
  BY <1>1, <1>3
<1> QED
  BY <1>2, <1>5, <1>6 DEF n

\* All of it together.
LEMMA NumbersAddUp == CardInv => DashboardAddsUp
<1> SUFFICES ASSUME CardInv PROVE DashboardAddsUp
  OBVIOUS
<1>1. ASSUME NEW i \in 1 .. WeeksBack
      PROVE  /\ WeekOfPoint(i) = WeekOf(now) - (WeeksBack - i)
             /\ VisitsByWeek[i] = InWeek(visits, WeekOfPoint(i))
             /\ New[i] + Returning[i] <= 1
             /\ VisitsByWeek[i] > 0 => New[i] + Returning[i] = 1
             /\ RedemptionRateByWeek[i] > 0 <=>
                  VisitsByWeek[i] \in 1 .. 2000 * InWeek(redeemed, WeekOfPoint(i))
  <2>1. WeekOfPoint(i) = WeekOf(now) - (WeeksBack - i)
    BY PointIs
  <2>2. VisitsByWeek[i] = InWeek(visits, WeekOfPoint(i))
    BY VisitsByWeekIs
  <2>3. (New[i] + Returning[i] <= 1) /\ (InWeek(visits, WeekOfPoint(i)) > 0 => New[i] + Returning[i] = 1)
    <3> DEFINE w == WeekOfPoint(i)
               began == createdAt \in Read /\ WeekOf(createdAt) = w
               again == InWeek(visits, w) > 0 /\ createdAt < w * WeekDays
    <3>1. /\ New[i] = (IF began THEN 1 ELSE 0) /\ Returning[i] = (IF again THEN 1 ELSE 0)
          /\ ~(began /\ again)
          /\ InWeek(visits, w) > 0 => began \/ again
      BY NewAndReturning
    <3> HIDE DEF began, again
    <3> QED
      BY <3>1
  <2>4. RedemptionRateByWeek[i] > 0 <=>
          VisitsByWeek[i] \in 1 .. 2000 * InWeek(redeemed, WeekOfPoint(i))
    BY RateIs
  <2> QED
    BY <2>1, <2>2, <2>3, <2>4
<1>2. VisitsThisPeriod <= SumFunction(VisitsByWeek)
  BY ChartHoldsPeriod
<1>3. (Active <=> VisitsThisPeriod > 0) /\ ~(Active /\ Inactive)
  BY ActiveIs
<1>4. NewThisPeriod => SumFunction(New) = 1
  BY NewShows
<1>5. RedemptionsThisPeriod > 0 => \E i \in 1 .. WeeksBack : InWeek(redeemed, WeekOfPoint(i)) > 0
  BY RedemptionsShow
<1>6. VisitsByWeek[WeeksBack] > 0 => Drawn
  BY VisitsAreDrawn
<1>7. StampRow.done <=> StampRow.filled = 1 .. required
  BY RowOfStamps
<1>8. /\ CustomerPage.stamped => CustomerPage.cards # {}
      /\ CustomerPage.cards = {} => \A r \in DOMAIN CustomerView.options : ~CustomerView.options[r]
  BY CardsShow
<1>9. NearReward <=> balance /\ StampsUntilNextReward(stamps, rules) \in 1 .. NearRewardGap
  BY NearRewardIs
<1> QED
  BY <1>1, <1>2, <1>3, <1>4, <1>5, <1>6, <1>7, <1>8, <1>9, Zenon DEF DashboardAddsUp

\* See DashboardAddsUp: the owner's charts and metrics of a customer agree
\* with its rows and with each other on every day, for any lengths of a week,
\* a chart and a period in the order of the code's.
THEOREM DashboardAlwaysAddsUp == DayByDay => []DashboardAddsUp
  BY NumbersAddUp, CardInvariance, PTL

----------------------------------------------------------------------------
(* The passes.                                                             *)

\* A list has a field, or none without a value.
LEMMA FieldIs ==
    ASSUME NEW key, NEW value
    PROVE  /\ value = None => Field(key, value) = {}
           /\ value # None => Field(key, value) = {[key |-> key, value |-> value]}
  BY DEF Field

\* What a list of fields says under a name.
LEMMA ValuesOfField ==
    ASSUME NEW key, NEW value, NEW other
    PROVE  Values(Field(key, value), other) = IF key = other /\ value # None THEN {value} ELSE {}
<1> DEFINE f == [key |-> key, value |-> value]
<1>1. f.key = key /\ f.value = value
  OBVIOUS
<1> HIDE DEF f
<1>2. value # None => Field(key, value) = {f}
  BY FieldIs DEF f
<1>3. value = None => Field(key, value) = {}
  BY FieldIs
<1>4. Values({}, other) = {}
  BY DEF Values
<1>5. Values({f}, other) = IF key = other THEN {value} ELSE {}
  BY <1>1 DEF Values
<1> QED
  BY <1>2, <1>3, <1>4, <1>5

\* And what three lists together say.
LEMMA ValuesOfUnion ==
    ASSUME NEW F, NEW G, NEW H, NEW key
    PROVE  Values((F \cup G) \cup H, key) = Values(F, key) \cup Values(G, key) \cup Values(H, key)
  BY DEF Values

\* And what the empty list says.
LEMMA ValuesOfNone == ASSUME NEW key PROVE Values({}, key) = {}
  BY DEF Values

\* Only the total is under its name in the summary.
LEMMA ValuesOfSummary ==
    ASSUME NEW in
    PROVE  /\ Values(Summary(in), "progress") = {}
           /\ Values(Summary(in), "rewardsAvailable") = {}
           /\ Values(Summary(in), "totalStampsEarned") = IF in.lifetime = None THEN {} ELSE {in.lifetime}
<1> DEFINE F == Field("totalStampsEarned", in.lifetime)
           G == Field("stampsUntilNextReward", in.missing)
           H == Field("availableRewards", in.count)
<1>1. /\ Values(F, "progress") = {} /\ Values(F, "rewardsAvailable") = {}
      /\ Values(F, "totalStampsEarned") = IF in.lifetime = None THEN {} ELSE {in.lifetime}
  BY ValuesOfField
<1>2. /\ Values(G, "progress") = {} /\ Values(G, "rewardsAvailable") = {}
      /\ Values(G, "totalStampsEarned") = {}
  BY ValuesOfField
<1>3. /\ Values(H, "progress") = {} /\ Values(H, "rewardsAvailable") = {}
      /\ Values(H, "totalStampsEarned") = {}
  BY ValuesOfField
<1>4. Summary(in) = IF in.lifetime = None THEN {} ELSE (F \cup G) \cup H
  BY DEF Summary
<1>5. \A key : Values((F \cup G) \cup H, key) = Values(F, key) \cup Values(G, key) \cup Values(H, key)
  <2> HIDE DEF F, G, H
  <2> TAKE key
  <2> QED
    BY ValuesOfUnion
<1> HIDE DEF F, G, H
<1>6. CASE in.lifetime = None
  BY <1>4, <1>6, ValuesOfNone
<1>7. CASE in.lifetime # None
  BY <1>1, <1>2, <1>3, <1>4, <1>5, <1>7
<1> QED
  BY <1>6, <1>7

\* What is used of the pass of each platform, for any snapshot: the front of
\* Apple's, the rest of it, and Google's.
LEMMA AppleFront ==
    ASSUME NEW b, NEW s
    PROVE  LET apple == Pkpass(b, s) IN
           /\ apple.pass.header = [cycle |-> s.cycle, required |-> s.required]
           /\ apple.pass.header.cycle = s.cycle
           /\ apple.pass.auxiliary = Field("reward", s.reward)
           /\ apple.pass.secondary = IF s.count > 1 THEN Field("rewardsAvailable", s.count)
                                     ELSE Field("nextReward", s.next)
<1> DEFINE apple == Pkpass(b, s)
           in == PassJsonInput(b, s)
<1>1. /\ in.cycle = s.cycle /\ in.required = s.required /\ in.count = s.count /\ in.reward = s.reward
      /\ in.next = s.next
  BY DEF PassJsonInput
<1>2. apple.pass = PassJson(in)
  BY DEF Pkpass
<1> HIDE DEF in, apple
<1>3. /\ PassJson(in).header = [cycle |-> in.cycle, required |-> in.required]
      /\ PassJson(in).secondary = Secondary(in)
      /\ PassJson(in).auxiliary = Field("reward", in.reward)
  BY DEF PassJson
<1>4. Secondary(in) = IF s.count > 1 THEN Field("rewardsAvailable", s.count) ELSE Field("nextReward", s.next)
  BY <1>1 DEF Secondary
<1>5. apple.pass.header = [cycle |-> s.cycle, required |-> s.required]
  BY <1>1, <1>2, <1>3
<1>6. apple.pass.header.cycle = s.cycle
  BY <1>5
<1> QED
  BY <1>1, <1>2, <1>3, <1>4, <1>5, <1>6 DEF apple

LEMMA AppleRest ==
    ASSUME NEW b, NEW s
    PROVE  LET apple == Pkpass(b, s)
               in == PassJsonInput(b, s) IN
           /\ apple.pass.locations = in.locations
           /\ apple.pass.summary = Summary(in) /\ in.lifetime = s.lifetime
           /\ apple.strip = AssetSet(b, Strip(b, s.cycle))
<1> DEFINE apple == Pkpass(b, s)
           in == PassJsonInput(b, s)
<1>1. in.lifetime = s.lifetime
  BY DEF PassJsonInput
<1>2. apple.pass = PassJson(in) /\ apple.strip = AssetSet(b, Strip(b, s.cycle))
  BY DEF Pkpass
<1> HIDE DEF in, apple
<1>3. PassJson(in).summary = Summary(in) /\ PassJson(in).locations = in.locations
  BY DEF PassJson
<1> QED
  BY <1>1, <1>2, <1>3 DEF apple, in

LEMMA GoogleIs ==
    ASSUME NEW b, NEW s, s.count # None
    PROVE  LET google == LoyaltyObject(b, s)
               message == Announced(Max({s.required - s.cycle, 0}), s.next) IN
           /\ google.points = [cycle |-> s.cycle, required |-> s.required]
           /\ s.next = None \/ message # None =>
                Values(google.modules, "progress") = IF s.next = None THEN {} ELSE {message}
           /\ Values(google.modules, "rewardsAvailable") = IF s.count > 1 THEN {s.count} ELSE {}
<1> DEFINE google == LoyaltyObject(b, s)
           in == LoyaltyObjectInput(b, s)
           message == Announced(Max({s.required - s.cycle, 0}), s.next)
           F == IF in.reward = None THEN {} ELSE Field("progress", ProgressMessage(in))
           G == IF in.count > 1 THEN Field("rewardsAvailable", in.count) ELSE {}
<1>1. in.cycle = s.cycle /\ in.required = s.required /\ in.count = s.count /\ in.reward = s.next
  BY DEF LoyaltyObjectInput
<1>2. google.points = [cycle |-> in.cycle, required |-> in.required] /\ google.modules = (F \cup G) \cup Summary(in)
  BY DEF LoyaltyObject, ObjectPayload
<1>3. ProgressMessage(in) = message
  BY <1>1 DEF ProgressMessage
<1> HIDE DEF in, google, message
<1>4. \A key : Values(google.modules, key) = Values(F, key) \cup Values(G, key) \cup Values(Summary(in), key)
  <2> HIDE DEF F, G
  <2> TAKE key
  <2>1. Values((F \cup G) \cup Summary(in), key)
          = Values(F, key) \cup Values(G, key) \cup Values(Summary(in), key)
    BY ValuesOfUnion
  <2> QED
    BY <1>2, <2>1
<1>5. /\ Values(G, "progress") = {}
      /\ Values(G, "rewardsAvailable") = IF s.count > 1 THEN {s.count} ELSE {}
  BY <1>1, ValuesOfField, ValuesOfNone
<1>6. /\ s.next = None \/ message # None => Values(F, "progress") = IF s.next = None THEN {} ELSE {message}
      /\ Values(F, "rewardsAvailable") = {}
  BY <1>1, <1>3, ValuesOfField, ValuesOfNone
<1> HIDE DEF F, G
<1>7. Values(Summary(in), "progress") = {} /\ Values(Summary(in), "rewardsAvailable") = {}
  BY ValuesOfSummary
<1>8. google.points = [cycle |-> s.cycle, required |-> s.required]
  BY <1>1, <1>2
<1>9. s.next = None \/ message # None => Values(google.modules, "progress") = IF s.next = None THEN {} ELSE {message}
  BY <1>4, <1>5, <1>6, <1>7
<1>10. Values(google.modules, "rewardsAvailable") = IF s.count > 1 THEN {s.count} ELSE {}
  BY <1>4, <1>5, <1>6, <1>7
<1> QED
  BY <1>8, <1>9, <1>10 DEF google, message

\* The fields of the snapshot.
LEMMA SnapshotIs ==
    ASSUME NEW b, NEW first
    PROVE  LET s == CustomerSnapshot(b, first) IN
           /\ s.next = first /\ s.reward = Reward(first)
           /\ s.count = CountAvailableRedemptions(stamps, rules)
           /\ s.cycle = CycleStampProgress(stamps, required) /\ s.required = required
           /\ s.lifetime = IF b.backFields THEN LifetimeStamps ELSE None
           /\ s.missing = IF b.backFields /\ Snapshot.missing # -1 THEN Snapshot.missing ELSE None
<1>1. /\ Snapshot.count = CountAvailableRedemptions(stamps, rules)
      /\ Snapshot.cycle = CycleStampProgress(stamps, required)
  BY DEF Snapshot
<1> QED
  BY <1>1 DEF CustomerSnapshot

\* No rule, number, announcement or image is null.
LEMMA NoneFacts ==
    /\ None \notin Rules /\ None \notin Nat
    /\ \A n \in Nat, r \in Rules : Announced(n, r) # None
    /\ \A n \in Nat : <<"strip", n>> # None
<1>1. None \notin Rules /\ None \notin Nat /\ None \notin [lacking : Nat, reward : Rules]
  BY NoneAssumption
<1>2. ASSUME NEW n \in Nat, NEW r \in Rules PROVE Announced(n, r) # None
  <2>1. Announced(n, r) \in [lacking : Nat, reward : Rules]
    BY DEF Announced
  <2> QED
    BY <1>1, <2>1
<1>3. ASSUME NEW n \in Nat PROVE <<"strip", n>> # None
  <2>1. <<"strip", n>> \in {"strip"} \X Nat /\ None \notin {"strip"} \X Nat
    BY NoneAssumption
  <2> QED
    BY <2>1
<1> QED
  BY <1>1, <1>2, <1>3

\* The reward ahead is one of the cheapest, which is redeemable when any is.
LEMMA FirstFacts ==
    ASSUME CardOK, NEW first \in FirstRules
    PROVE  /\ first = None <=> ActiveRules = {}
           /\ first # None => /\ first \in ActiveRules /\ first \in Rules
                              /\ \A q \in ActiveRules : rules[first].cost <= rules[q].cost
           /\ Redeemable = Accepted(stamps)
           /\ Redeemable # {} <=> (first # None /\ rules[first].cost <= stamps)
           /\ Reward(first) = IF Redeemable # {} THEN first ELSE None
           /\ Redeemable # {} => first \in Redeemable
<1>1. Configured /\ stamps \in Nat /\ ActiveRules \in SUBSET Rules
      /\ \A r \in Rules : rules[r].cost \in Nat \ {0}
  BY RuleFacts, DayFacts DEF CardOK
<1>2. None \notin ActiveRules
  BY <1>1, NoneFacts
<1>3. /\ first = None <=> ActiveRules = {}
      /\ first # None => /\ first \in ActiveRules /\ first \in Rules
                         /\ \A q \in ActiveRules : rules[first].cost <= rules[q].cost
  BY <1>1, <1>2 DEF FirstRules
<1>4. Redeemable = Accepted(stamps)
  BY DEF Redeemable, Accepted
<1>5. Redeemable = {r \in ActiveRules : rules[r].cost <= stamps} /\ Redeemable = AvailableRewards(stamps, rules)
  BY <1>1, <1>4, AcceptedIs
<1>6. ASSUME Redeemable # {} PROVE first # None /\ rules[first].cost <= stamps
  <2>1. PICK q \in ActiveRules : rules[q].cost <= stamps
    BY <1>5, <1>6
  <2>2. first \in Rules /\ q \in Rules /\ rules[first].cost <= rules[q].cost /\ first # None
    BY <1>1, <1>3
  <2> QED
    BY <1>1, <2>1, <2>2
<1>7. (first # None /\ rules[first].cost <= stamps) => first \in Redeemable
  BY <1>3, <1>5
<1>8. Reward(first) = IF first \in Redeemable THEN first ELSE None
  <2>1. Snapshot.available = AvailableRewards(stamps, rules)
    BY DEF Snapshot
  <2> QED
    BY <1>5, <2>1 DEF Reward
<1> QED
  BY <1>3, <1>4, <1>6, <1>7, <1>8

\* The numbers on the passes.
LEMMA PassNumbers ==
    ASSUME CardOK
    PROVE  LET cycle == CycleStampProgress(stamps, required)
               count == CountAvailableRedemptions(stamps, rules)
               lacking == Max({required - cycle, 0}) IN
           /\ cycle \in 0 .. required /\ cycle \in Nat /\ cycle <= stamps /\ stamps \in Nat
           /\ required \in Nat \ {0}
           /\ cycle = required => required <= stamps
           /\ stamps <= required => cycle = stamps
           /\ lacking = required - cycle /\ lacking \in Nat
           /\ count \in Nat /\ (count > 0 <=> Redeemable # {})
           /\ MostRedemptions \in Nat /\ MostRedemptions <= count
           /\ MostRedemptions > 0 <=> Redeemable # {}
<1> DEFINE cycle == CycleStampProgress(stamps, required)
           count == CountAvailableRedemptions(stamps, rules)
           lacking == Max({required - cycle, 0})
<1>1. Configured /\ stamps \in Nat /\ required \in Nat \ {0}
  BY RuleFacts, DayFacts DEF CardOK
<1>2. cycle \in 0 .. required /\ (cycle = 0 <=> stamps = 0) /\ (stamps <= required => cycle = stamps)
  BY <1>1, CycleIs
<1>3. Redeemable = Accepted(stamps)
  BY DEF Redeemable, Accepted
<1>4. count \in Nat /\ (count > 0 <=> Redeemable # {})
  BY <1>1, <1>3, CountFacts
<1>5. MostRedemptions \in Nat /\ MostRedemptions <= count /\ (MostRedemptions > 0 <=> Redeemable # {})
  BY <1>3, MostFacts
<1>6. lacking = required - cycle /\ lacking \in Nat
  <2>1. lacking = IF required - cycle > 0 THEN required - cycle ELSE 0
    <3> HIDE DEF cycle
    <3> QED
      BY <1>1, <1>2, MaxWithZero
  <2> HIDE DEF cycle, lacking
  <2> QED
    BY <1>1, <1>2, <2>1
<1>7. cycle \in Nat /\ cycle <= stamps /\ (cycle = required => required <= stamps)
  <2> HIDE DEF cycle
  <2> QED
    BY <1>1, <1>2
<1> QED
  BY <1>1, <1>2, <1>4, <1>5, <1>6, <1>7

\* Whatever is lacking until the next reward is at least what the cheapest
\* one lacks.
LEMMA MissingFacts ==
    CardOK => /\ Snapshot.missing = -1 \/ Snapshot.missing \in Nat \ {0}
              /\ \A first \in ActiveRules :
                   /\ \A q \in ActiveRules : rules[first].cost <= rules[q].cost
                   /\ rules[first].cost > stamps
                   => Snapshot.missing = rules[first].cost - stamps
<1> SUFFICES ASSUME CardOK
             PROVE  /\ Snapshot.missing = -1 \/ Snapshot.missing \in Nat \ {0}
                    /\ \A first \in ActiveRules :
                         /\ \A q \in ActiveRules : rules[first].cost <= rules[q].cost
                         /\ rules[first].cost > stamps
                         => Snapshot.missing = rules[first].cost - stamps
  OBVIOUS
<1> DEFINE ahead == {r \in ActiveRules : rules[r].cost > stamps}
           n == StampsUntilNextReward(stamps, rules)
<1>1. Snapshot.missing = n
  BY DEF Snapshot
<1>2. /\ ahead = {} => n = -1
      /\ ahead # {} => /\ n \in Nat \ {0}
                       /\ \A r \in ahead : stamps + n <= rules[r].cost
                       /\ \E r \in ahead : stamps + n = rules[r].cost
  BY MissingIs
<1>3. stamps \in Nat /\ \A r \in ActiveRules : rules[r].cost \in Nat
  BY RuleFacts, DayFacts DEF CardOK
<1> HIDE DEF n
<1>4. ASSUME NEW first \in ActiveRules, \A q \in ActiveRules : rules[first].cost <= rules[q].cost,
             rules[first].cost > stamps
      PROVE  n = rules[first].cost - stamps
  <2>1. first \in ahead /\ n \in Nat /\ stamps + n <= rules[first].cost
    BY <1>2, <1>4
  <2>2. PICK r \in ahead : stamps + n = rules[r].cost
    BY <1>2, <2>1
  <2>3. rules[first].cost <= rules[r].cost
    BY <1>4
  <2> QED
    BY <1>3, <2>1, <2>2, <2>3
<1> QED
  BY <1>1, <1>2, <1>4

\* The snapshot is what its type in the code says.
LEMMA SnapshotTyped ==
    ASSUME CardInv, NEW b \in Businesses, NEW first \in FirstRules
    PROVE  CustomerSnapshot(b, first) \in CustomerLoyaltySnapshot
<1> DEFINE s == CustomerSnapshot(b, first)
           lifetime == IF b.backFields THEN LifetimeStamps ELSE None
           missing == IF b.backFields /\ Snapshot.missing # -1 THEN Snapshot.missing ELSE None
<1>1. CardOK
  BY DEF CardInv
<1>2. first \in Rules \cup {None} /\ Reward(first) \in Rules \cup {None}
  BY <1>1, FirstFacts
<1>3. /\ Snapshot.count \in Nat /\ Snapshot.cycle \in 0 .. required /\ required \in Nat \ {0}
  BY <1>1, PassNumbers DEF Snapshot
<1>4. lifetime \in Nat \cup {None}
  <2>1. LifetimeStamps \in Nat
    BY RowFacts DEF LifetimeStamps, CardInv, Dated
  <2> QED
    BY <2>1
<1>5. missing \in (Nat \ {0}) \cup {None}
  BY <1>1, MissingFacts
<1>6. s = [next |-> first, reward |-> Reward(first), count |-> Snapshot.count, cycle |-> Snapshot.cycle,
           required |-> required, lifetime |-> lifetime, missing |-> missing]
  BY DEF CustomerSnapshot
<1> HIDE DEF s, lifetime, missing
<1>7. s \in CustomerLoyaltySnapshot
  BY <1>2, <1>3, <1>4, <1>5, <1>6 DEF CustomerLoyaltySnapshot
<1> QED
  BY <1>7 DEF s

\* A button on the scanner's panel is a rule the server redeems.
LEMMA ButtonsRedeem == CardOK => (TRUE \in Range(CustomerView.options) <=> Redeemable # {})
<1> SUFFICES ASSUME CardOK PROVE TRUE \in Range(CustomerView.options) <=> Redeemable # {}
  OBVIOUS
<1> DEFINE offered == AvailableRewards(stamps, rules)
           options == [r \in ActiveRules |-> r \in offered]
<1>1. CustomerView.options = options
  BY DEF CustomerView, ActiveRules
<1>2. Redeemable = offered /\ offered \subseteq ActiveRules
  <2>1. Configured /\ stamps \in Int /\ Redeemable = Accepted(stamps)
    BY DayFacts DEF CardOK, Redeemable, Accepted
  <2> QED
    BY <2>1, AcceptedIs
<1> HIDE DEF offered
<1>3. \A r \in ActiveRules : options[r] = (r \in offered)
  OBVIOUS
<1>4. DOMAIN options = ActiveRules
  OBVIOUS
<1> HIDE DEF options
<1>5. Range(options) = {options[r] : r \in ActiveRules}
  BY <1>4 DEF Range
<1>6. TRUE \in Range(options) <=> \E r \in ActiveRules : options[r] = TRUE
  BY <1>5
<1>7. (\E r \in ActiveRules : options[r] = TRUE) <=> \E r \in ActiveRules : r \in offered
  BY <1>3, Zenon
<1> QED
  BY <1>1, <1>2, <1>6, <1>7

\* The image of the grid is there when all of them are.
LEMMA GridShown ==
    ASSUME NEW b, NEW size \in Nat, NEW cycle \in 0 .. size,
           ({"strip"} \X (0 .. size)) \X Scales \subseteq b.hosted, "hero" \in b.set
    PROVE  AssetSet(b, Strip(b, cycle)) = <<"strip", cycle>>
<1>1. Strip(b, cycle) = <<"strip", cycle>>
  BY DEF Strip
<1>2. cycle \in Nat /\ <<"strip", cycle>> \in {"strip"} \X (0 .. size)
  OBVIOUS
<1>3. <<"strip", cycle>> # None
  BY <1>2, NoneFacts
<1>4. \A k \in Scales : <<<<"strip", cycle>>, k>> \in b.hosted
  BY <1>2
<1> QED
  BY <1>1, <1>3, <1>4 DEF AssetSet

\* A card that shows full and is not the first full one is worth several
\* redemptions.
LEMMA FullCards ==
    ASSUME CardOK, RulesFit, Redeemable # {},
           CycleStampProgress(stamps, required) = required, stamps # required
    PROVE  CountAvailableRedemptions(stamps, rules) > 1
<1>1. Configured /\ stamps \in Nat /\ required \in Nat \ {0}
  BY RuleFacts, DayFacts DEF CardOK
<1>2. PICK r \in Accepted(stamps) : TRUE
  BY DEF Redeemable, Accepted
<1> DEFINE cost == rules[r].cost
           rest == stamps - cost
<1>3. /\ r \in ActiveRules /\ r \in Rules /\ cost \in Nat \ {0} /\ cost <= required
  BY <1>1, <1>2, RuleFacts, AcceptedIs DEF RulesFit
<1>4. PICK k \in Int : stamps - required = required * k
  BY <1>1, CycleIs
<1>5. required <= stamps - required
  <2>1. required <= stamps
    BY <1>1, PassNumbers
  <2> DEFINE a == required * k
             z == required * 0
  <2>2. /\ a \in Int /\ stamps - required = a /\ z = 0
    BY <1>1, <1>4
  <2>3. (0 < k => z + required <= a) /\ (k < 0 => a + required <= z) /\ (k = 0 => a = z)
    BY <1>1, Products
  <2> HIDE DEF a, z
  <2> QED
    BY <1>1, <2>1, <2>2, <2>3
<1> HIDE DEF cost, rest
<1>6. rest \in Nat /\ cost <= rest
  BY <1>1, <1>3, <1>5 DEF rest
<1>7. r \in Accepted(rest)
  BY <1>1, <1>3, <1>6, AcceptedIs DEF cost
<1>8. CountAvailableRedemptions(rest, rules) > 0
  BY <1>1, <1>6, <1>7, CountFacts
<1>9. CountAvailableRedemptions(rest, rules) < CountAvailableRedemptions(stamps, rules)
  BY <1>1, <1>2, CountFacts DEF rest, cost
<1> QED
  BY <1>1, <1>6, <1>8, <1>9, CountFacts

\* What the passes say while no rule costs more than the card has stamps.
LEMMA RulesFitTruth ==
    ASSUME CardInv, NEW b \in Businesses, NEW first \in FirstRules, RulesFit
    PROVE  LET google == LoyaltyObject(b, CustomerSnapshot(b, first)) IN
           /\ GoogleAnnounces(google) => Redeemable # {}
           /\ Redeemable # {} =>
                (~GoogleAnnounces(google)
                   <=> CountAvailableRedemptions(stamps, rules) = 1 /\ stamps # required)
           /\ \A m \in Values(google.modules, "progress") :
                /\ rules[m.reward].cost <= stamps + m.lacking
                /\ Cardinality(ActiveRules) = 1 /\ rules[m.reward].cost = required
                     => m.lacking \in {0, Snapshot.missing} \/ stamps > required
<1> DEFINE s == CustomerSnapshot(b, first)
           google == LoyaltyObject(b, s)
           cycle == CycleStampProgress(stamps, required)
           count == CountAvailableRedemptions(stamps, rules)
           lacking == Max({required - cycle, 0})
           message == Announced(lacking, first)
<1>1. CardOK
  BY DEF CardInv
<1>2. s.next = first /\ s.count = count /\ s.cycle = cycle /\ s.required = required
  BY SnapshotIs
<1>3. /\ cycle \in 0 .. required /\ cycle \in Nat /\ cycle <= stamps /\ stamps \in Nat
      /\ required \in Nat \ {0}
      /\ cycle = required => required <= stamps
      /\ stamps <= required => cycle = stamps
      /\ lacking = required - cycle /\ lacking \in Nat
      /\ count \in Nat /\ (count > 0 <=> Redeemable # {})
      /\ MostRedemptions \in Nat /\ MostRedemptions <= count
      /\ MostRedemptions > 0 <=> Redeemable # {}
  BY <1>1, PassNumbers
<1>4. /\ first # None => first \in ActiveRules /\ first \in Rules
      /\ first # None => \A q \in ActiveRules : rules[first].cost <= rules[q].cost
      /\ Redeemable # {} <=> (first # None /\ rules[first].cost <= stamps)
  BY <1>1, FirstFacts
<1>5. /\ s.count # None
      /\ message.lacking = lacking /\ message.reward = first
      /\ first # None => message # None
  BY <1>2, <1>3, <1>4, NoneFacts DEF Announced
<1>6. /\ Values(google.modules, "progress") = IF first = None THEN {} ELSE {message}
      /\ Values(google.modules, "rewardsAvailable") = IF count > 1 THEN {count} ELSE {}
  <2> HIDE DEF cycle, count
  <2>1. s.next = None \/ Announced(Max({s.required - s.cycle, 0}), s.next) # None
    BY <1>2, <1>5
  <2>2. /\ Values(google.modules, "progress")
             = IF s.next = None THEN {} ELSE {Announced(Max({s.required - s.cycle, 0}), s.next)}
        /\ Values(google.modules, "rewardsAvailable") = IF s.count > 1 THEN {s.count} ELSE {}
    <3> HIDE DEF s
    <3> QED
      BY <1>5, <2>1, GoogleIs
  <2> QED
    BY <1>2, <2>2
<1>7. first # None => rules[first].cost \in Nat \ {0} /\ rules[first].cost <= required
  BY <1>1, <1>4, RuleFacts DEF CardOK, RulesFit
<1> HIDE DEF s, google, cycle, count, lacking, message
<1>8. ASSUME GoogleAnnounces(google) PROVE Redeemable # {}
  <2>1. CASE \E m \in Values(google.modules, "progress") : m.lacking = 0
    <3>1. first # None /\ lacking = 0
      BY <1>5, <1>6, <2>1
    <3>2. required <= stamps
      BY <1>3, <3>1
    <3> QED
      BY <1>3, <1>4, <1>7, <3>1, <3>2
  <2>2. CASE Values(google.modules, "rewardsAvailable") # {}
    BY <1>3, <1>6, <2>2
  <2> QED
    BY <1>8, <2>1, <2>2 DEF GoogleAnnounces
<1>9. ASSUME Redeemable # {} PROVE ~GoogleAnnounces(google) <=> count = 1 /\ stamps # required
  <2>1. GoogleAnnounces(google) <=> lacking = 0 \/ count > 1
    BY <1>4, <1>5, <1>6, <1>9 DEF GoogleAnnounces
  <2>2. lacking = 0 <=> cycle = required
    BY <1>3
  <2>3. count \in Nat /\ count > 0
    BY <1>3, <1>9
  <2>4. stamps = required => cycle = required
    BY <1>3
  <2>5. cycle = required /\ stamps # required => count > 1
    BY <1>1, <1>9, FullCards DEF cycle, count
  <2> QED
    BY <2>1, <2>2, <2>3, <2>4, <2>5
<1>10. ASSUME NEW m \in Values(google.modules, "progress")
       PROVE  /\ rules[m.reward].cost <= stamps + m.lacking
              /\ Cardinality(ActiveRules) = 1 /\ rules[m.reward].cost = required
                   => m.lacking \in {0, Snapshot.missing} \/ stamps > required
  <2>1. first # None /\ m.lacking = lacking /\ m.reward = first
    BY <1>5, <1>6
  <2>2. rules[first].cost <= stamps + lacking
    BY <1>3, <1>7, <2>1
  <2>3. ASSUME rules[first].cost = required, ~(stamps > required) PROVE lacking \in {0, Snapshot.missing}
    <3>1. lacking = required - stamps /\ stamps <= required
      BY <1>3, <2>3
    <3>2. CASE stamps = required
      BY <1>3, <3>1, <3>2
    <3>3. CASE stamps < required
      <4>1. first \in ActiveRules /\ rules[first].cost > stamps
            /\ \A q \in ActiveRules : rules[first].cost <= rules[q].cost
        BY <1>3, <1>4, <2>1, <2>3, <3>3
      <4>2. Snapshot.missing = rules[first].cost - stamps
        BY <1>1, <4>1, MissingFacts
      <4> QED
        BY <2>3, <3>1, <4>2
    <3> QED
      BY <1>3, <3>1, <3>2, <3>3
  <2> QED
    BY <2>1, <2>2, <2>3
<1> QED
  BY <1>8, <1>9, <1>10 DEF google, s, count

\* All of it together.
LEMMA PassesAreTrue == CardInv => PassesTellTheTruth
<1> SUFFICES ASSUME CardInv, NEW b \in Businesses, NEW first \in FirstRules,
                    NEW s \in {CustomerSnapshot(b, first)},
                    NEW apple \in {Pkpass(b, s)}, NEW google \in {LoyaltyObject(b, s)}
             PROVE  /\ s \in CustomerLoyaltySnapshot
                    /\ Values(apple.pass.auxiliary, "reward") \subseteq Redeemable
                    /\ apple.pass.auxiliary # {} <=> Redeemable # {}
                    /\ apple.pass.auxiliary # {} <=> TRUE \in Range(CustomerView.options)
                    /\ apple.pass.header = google.points
                    /\ \A l \in apple.pass.locations : {l.text} = Values(google.modules, "progress")
                    /\ ({"strip"} \X (0 .. required)) \X Scales \subseteq b.hosted /\ "hero" \in b.set
                         => apple.strip = <<"strip", apple.pass.header.cycle>>
                    /\ RulesFit =>
                         /\ GoogleAnnounces(google) => Redeemable # {}
                         /\ Redeemable # {} =>
                              (~GoogleAnnounces(google) <=> s.count = 1 /\ stamps # required)
                         /\ \A m \in Values(google.modules, "progress") :
                              /\ rules[m.reward].cost <= stamps + m.lacking
                              /\ Cardinality(ActiveRules) = 1 /\ rules[m.reward].cost = required
                                   => m.lacking \in {0, Snapshot.missing} \/ stamps > required
                    /\ b.backFields =>
                         \A n \in Values(apple.pass.summary, "totalStampsEarned") :
                           n >= stamps /\ (n = stamps <=> SumFunction(redeemed) = 0)
  BY Zenon DEF PassesTellTheTruth
<1> DEFINE in == PassJsonInput(b, s)
           message == Announced(Max({s.required - s.cycle, 0}), s.next)
<1>0. s = CustomerSnapshot(b, first) /\ apple = Pkpass(b, s) /\ google = LoyaltyObject(b, s)
  OBVIOUS
<1>1. CardOK
  BY DEF CardInv
<1>2. /\ s.next = first /\ s.reward = Reward(first)
      /\ s.count = CountAvailableRedemptions(stamps, rules)
      /\ s.cycle = CycleStampProgress(stamps, required) /\ s.required = required
      /\ s.lifetime = IF b.backFields THEN LifetimeStamps ELSE None
  BY <1>0, SnapshotIs
<1>3. /\ s.cycle \in 0 .. required /\ s.cycle \in Nat /\ required \in Nat \ {0}
      /\ Max({s.required - s.cycle, 0}) \in Nat /\ s.count \in Nat
  BY <1>1, <1>2, PassNumbers
<1>4. /\ first # None => first \in Rules
      /\ Redeemable # {} => first # None
      /\ s.reward = IF Redeemable # {} THEN first ELSE None
      /\ Redeemable # {} => first \in Redeemable
  BY <1>1, <1>2, FirstFacts
<1>5. s.count # None /\ (s.next = None \/ message # None)
  BY <1>2, <1>3, <1>4, NoneFacts
<1>6. /\ apple.pass.header = [cycle |-> s.cycle, required |-> s.required]
      /\ apple.pass.header.cycle = s.cycle
      /\ apple.pass.auxiliary = Field("reward", s.reward)
      /\ apple.pass.locations = in.locations
      /\ apple.pass.summary = Summary(in) /\ in.lifetime = s.lifetime
      /\ apple.strip = AssetSet(b, Strip(b, s.cycle))
  BY <1>0, AppleFront, AppleRest
<1>7. /\ google.points = [cycle |-> s.cycle, required |-> s.required]
      /\ Values(google.modules, "progress") = IF s.next = None THEN {} ELSE {message}
  BY <1>0, <1>5, GoogleIs
<1>8. s \in CustomerLoyaltySnapshot
  BY <1>0, SnapshotTyped
<1>9. RulesFit =>
        /\ GoogleAnnounces(google) => Redeemable # {}
        /\ Redeemable # {} => (~GoogleAnnounces(google) <=> s.count = 1 /\ stamps # required)
        /\ \A m \in Values(google.modules, "progress") :
             /\ rules[m.reward].cost <= stamps + m.lacking
             /\ Cardinality(ActiveRules) = 1 /\ rules[m.reward].cost = required
                  => m.lacking \in {0, Snapshot.missing} \/ stamps > required
  BY <1>0, <1>2, RulesFitTruth
<1>10. /\ RelevantText(s) = IF s.next = None THEN None ELSE message
       /\ in.locations = IF RelevantText(s) = None THEN {}
                         ELSE {[place |-> p, text |-> RelevantText(s)] : p \in b.places}
  BY DEF RelevantText, PassJsonInput
<1> HIDE DEF in, message
<1>11. Values(apple.pass.auxiliary, "reward") \subseteq Redeemable
       /\ (apple.pass.auxiliary # {} <=> Redeemable # {})
  <2>1. CASE Redeemable # {}
    <3>1. s.reward = first /\ first # None /\ first \in Redeemable
      BY <1>4, <2>1
    <3>2. apple.pass.auxiliary = {[key |-> "reward", value |-> s.reward]}
      BY <1>6, <3>1, FieldIs
    <3>3. Values(apple.pass.auxiliary, "reward") = {first}
      BY <1>6, <3>1, ValuesOfField
    <3> QED
      BY <2>1, <3>1, <3>2, <3>3
  <2>2. CASE Redeemable = {}
    <3>1. apple.pass.auxiliary = {}
      BY <1>4, <1>6, <2>2, FieldIs
    <3> QED
      BY <2>2, <3>1, ValuesOfNone
  <2> QED
    BY <2>1, <2>2
<1>12. apple.pass.auxiliary # {} <=> TRUE \in Range(CustomerView.options)
  BY <1>1, <1>11, ButtonsRedeem
<1>13. apple.pass.header = google.points
  BY <1>6, <1>7
<1>14. ASSUME NEW l \in apple.pass.locations PROVE {l.text} = Values(google.modules, "progress")
  <2>1. RelevantText(s) # None
    BY <1>6, <1>10
  <2>2. PICK p \in b.places : l = [place |-> p, text |-> RelevantText(s)]
    BY <1>6, <1>10, <2>1
  <2>3. l.text = message /\ s.next # None
    BY <1>10, <2>1, <2>2
  <2> QED
    BY <1>7, <2>3
<1>15. ({"strip"} \X (0 .. required)) \X Scales \subseteq b.hosted /\ "hero" \in b.set
         => apple.strip = <<"strip", apple.pass.header.cycle>>
  BY <1>3, <1>6, GridShown
<1>16. ASSUME b.backFields, NEW n \in Values(apple.pass.summary, "totalStampsEarned")
       PROVE  n >= stamps /\ (n = stamps <=> SumFunction(redeemed) = 0)
  <2>1. /\ SumFunction(visits) \in Nat /\ SumFunction(redeemed) \in Nat /\ stamps \in Nat
    BY RowFacts, DayFacts DEF CardInv, CardOK, Dated
  <2>2. in.lifetime = SumFunction(visits) /\ in.lifetime # None
    BY <1>2, <1>6, <1>16, <2>1, NoneFacts DEF LifetimeStamps
  <2>3. n = SumFunction(visits)
    BY <1>6, <2>2, ValuesOfSummary
  <2>4. /\ stamps + SumFunction(redeemed) <= SumFunction(visits)
        /\ SumFunction(redeemed) = 0 => stamps = SumFunction(visits)
    BY DEF CardInv, LedgerKept
  <2> QED
    BY <2>1, <2>3, <2>4
<1> QED
  BY <1>8, <1>9, <1>11, <1>12, <1>13, <1>14, <1>15, <1>16

\* See PassesTellTheTruth: what the two wallets show of a card is what the
\* till accepts and the rows say, on every day, for any rules and businesses.
THEOREM PassesAlwaysTellTheTruth == DayByDay => []PassesTellTheTruth
  BY PassesAreTrue, CardInvariance, PTL

----------------------------------------------------------------------------
(* What changes on the passes.                                             *)

\* Two balances at most a card apart that show the same cycle are exactly a
\* card apart.
LEMMA SameCycle ==
    ASSUME NEW m \in Nat, NEW n \in Nat, NEW size \in Nat \ {0}, n - m \in 1 .. size,
           CycleStampProgress(m, size) = CycleStampProgress(n, size)
    PROVE  n - m = size /\ m > 0
<1> DEFINE c == CycleStampProgress(n, size)
<1>1. c \in 0 .. size /\ (c = 0 <=> n = 0) /\ (c = 0 <=> m = 0)
  BY CycleIs
<1>2. PICK k \in Int : n - c = size * k
  BY CycleIs
<1>3. PICK j \in Int : m - c = size * j
  <2>1. \E j \in Int : m - CycleStampProgress(m, size) = size * j
    BY CycleIs
  <2> QED
    BY <2>1
<1> DEFINE a == size * k
           b == size * j
<1>4. a \in Int /\ b \in Int /\ n - c = a /\ m - c = b
  BY <1>2, <1>3
<1>5. (j < k => b + size <= a) /\ (k < j => a + size <= b) /\ (j = k => a = b)
  BY Products
<1> HIDE DEF a, b, c
<1>6. n - m = a - b
  BY <1>1, <1>4
<1>7. n - m = size
  BY <1>4, <1>5, <1>6
<1>8. m > 0
  BY <1>1
<1> QED
  BY <1>7, <1>8

\* More than one redemption is announced with its number.
LEMMA NumbersDiffer ==
    ASSUME NEW p \in Nat, NEW q \in Nat, p # q, p > 1 \/ q > 1, NEW next
    PROVE  (IF p > 1 THEN Field("rewardsAvailable", p) ELSE Field("nextReward", next))
             # (IF q > 1 THEN Field("rewardsAvailable", q) ELSE Field("nextReward", next))
<1> DEFINE line(n) == IF n > 1 THEN Field("rewardsAvailable", n) ELSE Field("nextReward", next)
<1>1. \A n \in Nat : Values(line(n), "rewardsAvailable") = IF n > 1 THEN {n} ELSE {}
  <2> TAKE n \in Nat
  <2>1. n # None
    BY NoneFacts
  <2> QED
    BY <2>1, ValuesOfField
<1> HIDE DEF line
<1>2. Values(line(p), "rewardsAvailable") # Values(line(q), "rewardsAvailable")
  BY <1>1
<1>3. line(p) # line(q)
  BY <1>2
<1> QED
  BY <1>3 DEF line

\* Two snapshots that show different cycles, or different numbers of several
\* redemptions, or of which one has a reward and the other none, make
\* different passes.
LEMMA PassesDiffer ==
    ASSUME NEW b, NEW s, NEW t, s.count \in Nat, t.count \in Nat, s.next = t.next
    PROVE  /\ s.cycle # t.cycle => /\ Pkpass(b, t) # Pkpass(b, s)
                                   /\ LoyaltyObject(b, t) # LoyaltyObject(b, s)
           /\ s.count # t.count /\ (s.count > 1 \/ t.count > 1)
                => /\ Pkpass(b, t) # Pkpass(b, s)
                   /\ LoyaltyObject(b, t) # LoyaltyObject(b, s)
           /\ s.reward # None /\ t.reward = None => Pkpass(b, t) # Pkpass(b, s)
<1>1. /\ Pkpass(b, s).pass.header.cycle = s.cycle /\ Pkpass(b, t).pass.header.cycle = t.cycle
      /\ Pkpass(b, s).pass.auxiliary = Field("reward", s.reward)
      /\ Pkpass(b, t).pass.auxiliary = Field("reward", t.reward)
      /\ Pkpass(b, s).pass.secondary = IF s.count > 1 THEN Field("rewardsAvailable", s.count)
                                       ELSE Field("nextReward", s.next)
      /\ Pkpass(b, t).pass.secondary = IF t.count > 1 THEN Field("rewardsAvailable", t.count)
                                       ELSE Field("nextReward", t.next)
  <2>1. LET apple == Pkpass(b, s) IN
        /\ apple.pass.header = [cycle |-> s.cycle, required |-> s.required]
        /\ apple.pass.header.cycle = s.cycle
        /\ apple.pass.auxiliary = Field("reward", s.reward)
        /\ apple.pass.secondary = IF s.count > 1 THEN Field("rewardsAvailable", s.count)
                                  ELSE Field("nextReward", s.next)
    BY AppleFront
  <2>2. LET apple == Pkpass(b, t) IN
        /\ apple.pass.header = [cycle |-> t.cycle, required |-> t.required]
        /\ apple.pass.header.cycle = t.cycle
        /\ apple.pass.auxiliary = Field("reward", t.reward)
        /\ apple.pass.secondary = IF t.count > 1 THEN Field("rewardsAvailable", t.count)
                                  ELSE Field("nextReward", t.next)
    BY AppleFront
  <2> QED
    BY <2>1, <2>2
<1>2. s.count # None /\ t.count # None
  BY NoneFacts
<1>3. /\ LoyaltyObject(b, s).points = [cycle |-> s.cycle, required |-> s.required]
      /\ LoyaltyObject(b, t).points = [cycle |-> t.cycle, required |-> t.required]
      /\ Values(LoyaltyObject(b, s).modules, "rewardsAvailable") = IF s.count > 1 THEN {s.count} ELSE {}
      /\ Values(LoyaltyObject(b, t).modules, "rewardsAvailable") = IF t.count > 1 THEN {t.count} ELSE {}
  BY <1>2, GoogleIs
<1>4. ASSUME s.cycle # t.cycle
      PROVE  Pkpass(b, t) # Pkpass(b, s) /\ LoyaltyObject(b, t) # LoyaltyObject(b, s)
  <2>1. LoyaltyObject(b, s).points.cycle = s.cycle /\ LoyaltyObject(b, t).points.cycle = t.cycle
    BY <1>3
  <2> QED
    BY <1>1, <1>4, <2>1
<1>5. ASSUME s.count # t.count, s.count > 1 \/ t.count > 1
      PROVE  Pkpass(b, t) # Pkpass(b, s) /\ LoyaltyObject(b, t) # LoyaltyObject(b, s)
  <2>1. Pkpass(b, s).pass.secondary # Pkpass(b, t).pass.secondary
    BY <1>1, <1>5, NumbersDiffer
  <2>2. Values(LoyaltyObject(b, s).modules, "rewardsAvailable")
          # Values(LoyaltyObject(b, t).modules, "rewardsAvailable")
    BY <1>3, <1>5
  <2> QED
    BY <2>1, <2>2
<1>6. ASSUME s.reward # None, t.reward = None PROVE Pkpass(b, t) # Pkpass(b, s)
  <2>1. Field("reward", s.reward) # {} /\ Field("reward", t.reward) = {}
    BY <1>6, FieldIs
  <2> QED
    BY <1>1, <2>1
<1> QED
  BY <1>4, <1>5, <1>6

\* The numbers of the card before and after a move.
LEMMA SnapshotsAre ==
    ASSUME CardInv, UNCHANGED <<rules, required>>, stamps' \in Nat,
           NEW b \in Businesses, NEW first \in FirstRules,
           NEW s \in {CustomerSnapshot(b, first)}, NEW t \in {CustomerSnapshot(b, first)'}
    PROVE  /\ s.next = first /\ t.next = first
           /\ s.count = CountAvailableRedemptions(stamps, rules) /\ s.count \in Nat
           /\ t.count = CountAvailableRedemptions(stamps', rules) /\ t.count \in Nat
           /\ s.count > 0 <=> Redeemable # {}
           /\ t.count > 0 <=> Redeemable' # {}
           /\ s.cycle = CycleStampProgress(stamps, required)
           /\ t.cycle = CycleStampProgress(stamps', required)
           /\ Redeemable # {} => s.reward # None
           /\ Redeemable' = {} => t.reward = None
<1>1. CardOK /\ Configured /\ stamps \in Nat
  BY DayFacts DEF CardInv, CardOK
<1>2. /\ s.next = first /\ s.count = CountAvailableRedemptions(stamps, rules)
      /\ s.cycle = CycleStampProgress(stamps, required) /\ s.reward = Reward(first)
  BY SnapshotIs
<1>3. /\ t.next = first /\ t.count = CountAvailableRedemptions(stamps', rules)
      /\ t.cycle = CycleStampProgress(stamps', required)
      /\ t.reward = IF first \in AvailableRewards(stamps', rules) THEN first ELSE None
  <2>1. /\ Snapshot'.available = AvailableRewards(stamps', rules')
        /\ Snapshot'.count = CountAvailableRedemptions(stamps', rules')
        /\ Snapshot'.cycle = CycleStampProgress(stamps', required')
    BY DEF Snapshot
  <2>2. /\ t.next = first /\ t.count = Snapshot'.count /\ t.cycle = Snapshot'.cycle
        /\ t.reward = IF first \in Snapshot'.available THEN first ELSE None
    BY DEF CustomerSnapshot, Reward
  <2> QED
    BY <2>1, <2>2
<1>4. Redeemable = Accepted(stamps) /\ Redeemable' = Accepted(stamps')
  BY DEF Redeemable, Accepted
<1>5. /\ s.count \in Nat /\ (s.count > 0 <=> Redeemable # {})
      /\ t.count \in Nat /\ (t.count > 0 <=> Redeemable' # {})
  BY <1>1, <1>2, <1>3, <1>4, CountFacts
<1>6. Redeemable # {} => s.reward # None
  BY <1>1, <1>2, FirstFacts
<1>7. Redeemable' = {} => t.reward = None
  <2>1. Redeemable' = AvailableRewards(stamps', rules)
    BY <1>1, <1>4, AcceptedIs
  <2> QED
    BY <1>3, <2>1
<1> QED
  BY <1>2, <1>3, <1>5, <1>6, <1>7

Shows ==
    stamps' # stamps =>
      /\ stamps' < stamps =>
           CountAvailableRedemptions(stamps', rules') < CountAvailableRedemptions(stamps, rules)
      /\ RulesFit /\ ActiveRules # {} =>
           \A b \in Businesses, first \in FirstRules :
           \A s \in {CustomerSnapshot(b, first)}, t \in {CustomerSnapshot(b, first)'} :
             /\ Pkpass(b, t) # Pkpass(b, s)
             /\ \/ LoyaltyObject(b, t) # LoyaltyObject(b, s)
                \/ stamps' = stamps - required /\ stamps' > 0 /\ Redeemable' = {}

\* A stamp shows in the cycle, or on a card of one stamp in the redemptions.
LEMMA StampShows == CardInv /\ Visit => Shows
<1> SUFFICES ASSUME CardInv, Visit PROVE Shows
  OBVIOUS
<1>1. /\ stamps' = stamps + 1 /\ UNCHANGED <<rules, required>> /\ stamps \in Nat
      /\ Configured /\ required \in Nat \ {0} /\ \A r \in ActiveRules : r \in Rules /\ rules[r].cost \in Nat \ {0}
  BY RuleFacts, DayFacts DEF CardInv, CardOK, Visit, Stamp, ApplyStamp
<1>2. stamps' \in Nat /\ ~(stamps' < stamps)
  BY <1>1
<1>3. ASSUME RulesFit, ActiveRules # {}, NEW b \in Businesses, NEW first \in FirstRules,
             NEW s \in {CustomerSnapshot(b, first)}, NEW t \in {CustomerSnapshot(b, first)'}
      PROVE  Pkpass(b, t) # Pkpass(b, s) /\ LoyaltyObject(b, t) # LoyaltyObject(b, s)
  <2>1. /\ s.next = t.next /\ s.count \in Nat /\ t.count \in Nat
        /\ s.count = CountAvailableRedemptions(stamps, rules)
        /\ t.count = CountAvailableRedemptions(stamps + 1, rules)
        /\ s.cycle = CycleStampProgress(stamps, required)
        /\ t.cycle = CycleStampProgress(stamps + 1, required)
    BY <1>1, <1>2, SnapshotsAre
  <2>2. CASE s.cycle # t.cycle
    BY <2>1, <2>2, PassesDiffer
  <2>3. CASE s.cycle = t.cycle
    <3>1. required = 1 /\ stamps > 0
      <4>1. (stamps + 1) - stamps \in 1 .. required
        BY <1>1
      <4>2. (stamps + 1) - stamps = required /\ stamps > 0
        BY <1>1, <1>2, <2>1, <2>3, <4>1, SameCycle
      <4> QED
        BY <1>1, <4>2
    <3>2. PICK r \in ActiveRules : rules[r].cost = 1
      BY <1>1, <1>3, <3>1 DEF RulesFit
    <3>3. r \in Accepted(stamps) /\ r \in Accepted(stamps + 1) /\ (stamps + 1) - rules[r].cost = stamps
      <4>1. /\ Accepted(stamps) = {q \in ActiveRules : rules[q].cost <= stamps}
            /\ Accepted(stamps + 1) = {q \in ActiveRules : rules[q].cost <= stamps + 1}
        BY <1>1, <1>2, AcceptedIs
      <4> QED
        BY <1>1, <3>1, <3>2, <4>1
    <3>4. s.count > 0 /\ s.count < t.count
      BY <1>1, <1>2, <2>1, <3>3, CountFacts
    <3>5. s.count # t.count /\ t.count > 1
      BY <2>1, <3>4
    <3> QED
      BY <2>1, <3>5, PassesDiffer
  <2> QED
    BY <2>2, <2>3
<1> QED
  BY <1>2, <1>3, Zenon DEF Shows

\* A redemption shows in the cycle, in the number of redemptions, or was the last.
LEMMA RedemptionShows == ASSUME CardInv, NEW r \in Rules, Collect(r) PROVE Shows
<1> DEFINE cost == rules[r].cost
<1>1. /\ stamps' = stamps - cost /\ UNCHANGED <<rules, required>> /\ stamps \in Nat
      /\ Configured /\ required \in Nat \ {0} /\ r \in Accepted(stamps) /\ cost \in Nat \ {0}
      /\ r \in ActiveRules /\ cost <= stamps
  <2>1. /\ stamps' = stamps - cost /\ UNCHANGED <<rules, required>> /\ stamps \in Nat
        /\ Configured /\ r \in Accepted(stamps)
    BY DayFacts DEF CardInv, CardOK, Collect, Redeem, ApplyRedemption, Accepted
  <2> QED
    BY <2>1, RuleFacts, AcceptedIs
<1>2. stamps' \in Nat
  BY <1>1
<1>3. CountAvailableRedemptions(stamps', rules') < CountAvailableRedemptions(stamps, rules)
  BY <1>1, CountFacts
<1>4. ASSUME RulesFit, NEW b \in Businesses, NEW first \in FirstRules,
             NEW s \in {CustomerSnapshot(b, first)}, NEW t \in {CustomerSnapshot(b, first)'}
      PROVE  /\ Pkpass(b, t) # Pkpass(b, s)
             /\ \/ LoyaltyObject(b, t) # LoyaltyObject(b, s)
                \/ stamps' = stamps - required /\ stamps' > 0 /\ Redeemable' = {}
  <2>1. /\ s.next = t.next /\ s.count \in Nat /\ t.count \in Nat /\ t.count < s.count
        /\ t.count > 0 <=> Redeemable' # {}
        /\ s.cycle = CycleStampProgress(stamps, required)
        /\ t.cycle = CycleStampProgress(stamps', required)
        /\ s.reward # None
        /\ Redeemable' = {} => t.reward = None
    <3>1. Redeemable # {}
      BY <1>1 DEF Redeemable, Accepted
    <3> QED
      BY <1>1, <1>2, <1>3, <3>1, SnapshotsAre
  <2>2. CASE s.cycle # t.cycle
    BY <2>1, <2>2, PassesDiffer
  <2>3. CASE s.count > 1
    BY <2>1, <2>3, PassesDiffer
  <2>4. CASE s.cycle = t.cycle /\ ~(s.count > 1)
    <3>1. stamps - stamps' = required /\ stamps' > 0
      <4>1. stamps - stamps' \in 1 .. required
        BY <1>1, <1>4 DEF RulesFit
      <4> QED
        BY <1>1, <1>2, <2>1, <2>4, <4>1, SameCycle
    <3>2. stamps' = stamps - required
      BY <1>1, <1>2, <3>1
    <3>3. Redeemable' = {}
      BY <2>1, <2>4
    <3>4. Pkpass(b, t) # Pkpass(b, s)
      BY <2>1, <3>3, PassesDiffer
    <3> QED
      BY <3>1, <3>2, <3>3, <3>4
  <2> QED
    BY <2>2, <2>3, <2>4
<1> QED
  BY <1>3, <1>4, Zenon DEF Shows

\* See EveryMoveShows: no stamp and no redemption leaves the passes as they
\* were, but for Google's one exception, and every redemption uses up one of
\* those that were announced.
THEOREM EveryMoveIsShown == DayByDay => EveryMoveShows
<1>1. ASSUME CardInv, [Visit \/ NextDay \/ \E r \in Rules : Collect(r)]_<<vars, history, now>>
      PROVE  [Shows]_stamps
  <2>1. CASE UNCHANGED <<vars, history, now>>
    BY <2>1 DEF vars
  <2>2. CASE NextDay
    BY <2>2 DEF NextDay, vars
  <2> QED
    BY <1>1, <2>1, <2>2, StampShows, RedemptionShows
<1>2. EveryMoveShows <=> [][Shows]_stamps
  BY PTL DEF EveryMoveShows, Shows
<1> QED
  BY <1>1, <1>2, CardInvariance, PTL DEF DayByDay
=============================================================================

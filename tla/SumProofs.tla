----------------------------- MODULE SumProofs ------------------------------
(***************************************************************************)
(* What the other proofs use of numbers and finite sets: induction, with a *)
(* set for the predicate, and finite sums, which FiniteSetsExt defines by  *)
(* taking one member off after the other.                                  *)
(***************************************************************************)
EXTENDS Integers, FiniteSets, FiniteSetsExt, FiniteSetTheorems, TLAPS

-----------------------------------------------------------------------------
(***************************************************************************)
(* Induction over numbers and over finite sets; sums.                      *)
(***************************************************************************)
LEMMA NatInduct ==
  ASSUME NEW S, 0 \in S, \A n \in Nat : n \in S => n + 1 \in S
  PROVE  Nat \subseteq S
<1> SUFFICES ASSUME NEW k \in Nat, k \notin S PROVE FALSE
  OBVIOUS
<1> DEFINE T == {0 .. n : n \in Nat \ S}
           R == StrictSubsetOrdering(Nat)
           F == FiniteSubsetsOf(Nat)
<1>1. IsWellFoundedOn(R, F)
  BY FS_StrictSubsetOrderingWellFounded
<1>2. T \subseteq F /\ T # {}
  <2>1. \A n \in Nat : IsFiniteSet(0 .. n)
    BY FS_Interval
  <2>2. QED
    BY <2>1 DEF FiniteSubsetsOf
<1>3. \E x \in T : \A y \in T : ~ (<<y, x>> \in R)
  <2> HIDE DEF T, R, F
  <2>1. QED
    BY <1>1, <1>2, WFMin
<1>4. PICK m \in Nat \ S : \A y \in T : ~ (<<y, 0 .. m>> \in R)
  BY <1>3
<1>5. m # 0 /\ m - 1 \in Nat \ S
  <2>1. m # 0
    OBVIOUS
  <2>2. m - 1 \in Nat /\ (m - 1) + 1 = m
    BY <2>1
  <2>3. QED
    BY <2>1, <2>2
<1>6. 0 .. m - 1 \in T
  BY <1>5
<1>7. <<0 .. m - 1, 0 .. m>> \in R
  <2>1. 0 .. m - 1 \subseteq 0 .. m /\ m \in 0 .. m /\ m \notin 0 .. m - 1
    BY <1>5
  <2>2. 0 .. m - 1 \in SUBSET Nat /\ 0 .. m \in SUBSET Nat
    OBVIOUS
  <2>3. QED
    BY <2>1, <2>2 DEF StrictSubsetOrdering
<1>8. QED
  BY <1>4, <1>6, <1>7

LEMMA NotEmpty ==
  ASSUME NEW T, NEW n \in Nat, Cardinality(T) = n + 1
  PROVE  T # {}
<1>1. Cardinality({}) = 0
  BY FS_EmptySet
<1> QED BY <1>1

\* Induction over the subsets of a finite set, with a set for the predicate.
LEMMA SetInduct ==
  ASSUME NEW S, IsFiniteSet(S), NEW C, {} \in C,
         \A T \in SUBSET S : \A x \in S \ T : T \in C => T \cup {x} \in C
  PROVE  S \in C
<1> DEFINE N == {n \in Nat : \A T \in SUBSET S : Cardinality(T) = n => T \in C}
<1>1. \A T \in SUBSET S : IsFiniteSet(T) /\ Cardinality(T) \in Nat
  BY FS_Subset, FS_CardinalityType
<1>2. 0 \in N
  BY <1>1, FS_EmptySet
<1>3. ASSUME NEW n \in Nat, n \in N
      PROVE  n + 1 \in N
  <2> SUFFICES ASSUME NEW T \in SUBSET S, Cardinality(T) = n + 1
               PROVE  T \in C
    OBVIOUS
  <2>1. T # {}
    BY NotEmpty
  <2>2. PICK x \in T : TRUE
    BY <2>1
  <2>3. Cardinality(T \ {x}) = n
    <3>1. Cardinality(T \ {x}) = Cardinality(T) - 1
      BY <1>1, FS_RemoveElement
    <3> QED BY <3>1
  <2>4. T \ {x} \in C
    BY <1>3, <2>3
  <2>5. (T \ {x}) \cup {x} = T /\ x \in S \ (T \ {x})
    BY <2>2
  <2> HIDE DEF N
  <2> QED BY <2>4, <2>5
<1>4. Nat \subseteq N
  <2> HIDE DEF N
  <2> QED BY <1>2, <1>3, NatInduct
<1> QED BY <1>1, <1>4

-----------------------------------------------------------------------------
Sum(f, S) == MapThenSumSet(LAMBDA x : f[x], S)

Chosen(s) == CHOOSE x \in s : TRUE
IsIter(g, f, S) ==
  g = [s \in SUBSET S |-> IF s = {} THEN 0 ELSE f[Chosen(s)] + g[s \ {Chosen(s)}]]
Iter(f, S) == CHOOSE g : IsIter(g, f, S)

LEMMA SumIsIter ==
  ASSUME NEW f, NEW S
  PROVE  Sum(f, S) = Iter(f, S)[S]
BY DEF Sum, MapThenSumSet, MapThenFoldSet, Iter, IsIter, Chosen

LEMMA ChosenIn ==
  ASSUME NEW s, s # {}
  PROVE  Chosen(s) \in s
BY DEF Chosen

LEMMA IterUnique ==
  ASSUME NEW f, NEW S, IsFiniteSet(S), NEW T \in SUBSET S, NEW g, NEW h, IsIter(g, f, S), IsIter(h, f, T)
  PROVE  g[T] = h[T]
<1> DEFINE N == {n \in Nat : \A s \in SUBSET T : Cardinality(s) = n => g[s] = h[s]}
<1>1. \A s \in SUBSET T : IsFiniteSet(s) /\ Cardinality(s) \in Nat
  BY FS_Subset, FS_CardinalityType
<1>2. \A s \in SUBSET T : /\ g[s] = IF s = {} THEN 0 ELSE f[Chosen(s)] + g[s \ {Chosen(s)}]
                          /\ h[s] = IF s = {} THEN 0 ELSE f[Chosen(s)] + h[s \ {Chosen(s)}]
  <2>1. SUBSET T \subseteq SUBSET S
    OBVIOUS
  <2>2. \A s \in SUBSET S : g[s] = IF s = {} THEN 0 ELSE f[Chosen(s)] + g[s \ {Chosen(s)}]
    BY Zenon DEF IsIter
  <2>3. \A s \in SUBSET T : h[s] = IF s = {} THEN 0 ELSE f[Chosen(s)] + h[s \ {Chosen(s)}]
    BY Zenon DEF IsIter
  <2> QED BY <2>1, <2>2, <2>3
<1>3. 0 \in N
  BY <1>1, <1>2, FS_EmptySet
<1>4. ASSUME NEW n \in Nat, n \in N
      PROVE  n + 1 \in N
  <2> SUFFICES ASSUME NEW s \in SUBSET T, Cardinality(s) = n + 1
               PROVE  g[s] = h[s]
    OBVIOUS
  <2>1. s # {}
    BY NotEmpty
  <2>2. Chosen(s) \in s
    BY <2>1, ChosenIn
  <2>3. Cardinality(s \ {Chosen(s)}) = n
    <3>1. Cardinality(s \ {Chosen(s)}) = Cardinality(s) - 1
      BY <1>1, <2>2, FS_RemoveElement
    <3> QED BY <3>1
  <2>4. g[s \ {Chosen(s)}] = h[s \ {Chosen(s)}]
    BY <1>4, <2>3
  <2> QED BY <1>2, <2>1, <2>4
<1>5. Nat \subseteq N
  <2> HIDE DEF N
  <2> QED BY <1>3, <1>4, NatInduct
<1> QED BY <1>1, <1>5

LEMMA IterExists ==
  ASSUME NEW f, NEW S, IsFiniteSet(S)
  PROVE  IsIter(Iter(f, S), f, S)
<1> DEFINE N == {n \in Nat : \A T \in SUBSET S : Cardinality(T) = n => IsIter(Iter(f, T), f, T)}
           Upto == {n \in Nat : \A m \in 0 .. n : m \in N}
<1>1. \A T \in SUBSET S : IsFiniteSet(T) /\ Cardinality(T) \in Nat
  BY FS_Subset, FS_CardinalityType
<1>2. ASSUME NEW T \in SUBSET S,
             \A t \in SUBSET T : t # T => IsIter(Iter(f, t), f, t)
      PROVE  IsIter(Iter(f, T), f, T)
  <2> DEFINE Value(s) == IF s = {} THEN 0
                         ELSE f[Chosen(s)] + Iter(f, s \ {Chosen(s)})[s \ {Chosen(s)}]
             g == [s \in SUBSET T |-> Value(s)]
  <2>1. ASSUME NEW t \in SUBSET T, t # T
        PROVE  g[t] = Iter(f, t)[t]
    <3>1. IsIter(Iter(f, t), f, t)
      BY <1>2, <2>1
    <3>2. Iter(f, t)[t] = IF t = {} THEN 0 ELSE f[Chosen(t)] + Iter(f, t)[t \ {Chosen(t)}]
      <4> DEFINE i == Iter(f, t)
      <4>1. IsIter(i, f, t)
        BY <3>1
      <4> HIDE DEF i
      <4>2. i[t] = IF t = {} THEN 0 ELSE f[Chosen(t)] + i[t \ {Chosen(t)}]
        <5>1. t \in SUBSET t
          OBVIOUS
        <5> QED BY <4>1, <5>1, Zenon DEF IsIter
      <4> QED BY <4>2 DEF i
    <3>3. CASE t = {}
      BY <3>2, <3>3
    <3>4. CASE t # {}
      <4>1. Chosen(t) \in t
        BY <3>4, ChosenIn
      <4>2. IsIter(Iter(f, t \ {Chosen(t)}), f, t \ {Chosen(t)})
        <5>1. t \ {Chosen(t)} \in SUBSET T /\ t \ {Chosen(t)} # T
          BY <4>1, <2>1
        <5> QED BY <1>2, <5>1
      <4>3. IsFiniteSet(t) /\ t \ {Chosen(t)} \in SUBSET t
        BY <1>1
      <4>4. Iter(f, t)[t \ {Chosen(t)}] = Iter(f, t \ {Chosen(t)})[t \ {Chosen(t)}]
        BY <3>1, <4>2, <4>3, IterUnique
      <4> QED BY <3>2, <3>4, <4>4
    <3> QED BY <3>3, <3>4
  <2>2. \A s \in SUBSET T : g[s] = IF s = {} THEN 0 ELSE f[Chosen(s)] + g[s \ {Chosen(s)}]
    <3> TAKE s \in SUBSET T
    <3>1. CASE s = {}
      BY <3>1
    <3>2. CASE s # {}
      <4>1. Chosen(s) \in s
        BY <3>2, ChosenIn
      <4>2. s \ {Chosen(s)} \in SUBSET T /\ s \ {Chosen(s)} # T
        BY <4>1
      <4>3. g[s \ {Chosen(s)}] = Iter(f, s \ {Chosen(s)})[s \ {Chosen(s)}]
        <5> HIDE DEF g
        <5> QED BY <2>1, <4>2
      <4> QED BY <3>2, <4>3
    <3> QED BY <3>1, <3>2
  <2>3. g = [s \in SUBSET T |-> g[s]]
    OBVIOUS
  <2>4. IsIter(g, f, T)
    <3> HIDE DEF g
    <3> QED BY <2>2, <2>3 DEF IsIter
  <2> HIDE DEF g
  <2> QED BY <2>4 DEF Iter
<1>3. \A n \in Nat : n \in N <=> \A T \in SUBSET S : Cardinality(T) = n => IsIter(Iter(f, T), f, T)
  OBVIOUS
<1>4. \A n \in Nat : n \in Upto <=> \A m \in 0 .. n : m \in N
  OBVIOUS
<1> HIDE DEF N, Upto
<1>5. ASSUME NEW T \in SUBSET S, \A m \in 0 .. Cardinality(T) - 1 : m \in N
      PROVE  IsIter(Iter(f, T), f, T)
  <2> SUFFICES ASSUME NEW t \in SUBSET T, t # T
               PROVE  IsIter(Iter(f, t), f, t)
    BY <1>2
  <2>1. /\ t \in SUBSET S /\ IsFiniteSet(T) /\ Cardinality(t) \in Nat /\ Cardinality(T) \in Nat
        /\ Cardinality(t) <= Cardinality(T) /\ Cardinality(t) # Cardinality(T)
    BY <1>1, FS_Subset
  <2>2. Cardinality(t) \in 0 .. Cardinality(T) - 1
    BY <2>1
  <2>3. Cardinality(t) \in N
    BY <1>5, <2>2
  <2> QED BY <1>3, <2>1, <2>3
<1>6. 0 \in Upto
  <2>1. 0 \in N
    BY <1>3, <1>5
  <2> QED BY <1>4, <2>1
<1>7. ASSUME NEW n \in Nat, n \in Upto
      PROVE  n + 1 \in Upto
  <2>1. \A m \in 0 .. n : m \in N
    BY <1>4, <1>7
  <2>2. n + 1 \in N
    <3> SUFFICES ASSUME NEW T \in SUBSET S, Cardinality(T) = n + 1
                 PROVE  IsIter(Iter(f, T), f, T)
      BY <1>3
    <3>1. Cardinality(T) - 1 = n
      OBVIOUS
    <3> QED BY <1>5, <2>1, <3>1
  <2>3. \A m \in 0 .. n + 1 : m \in 0 .. n \/ m = n + 1
    OBVIOUS
  <2> QED BY <1>4, <2>1, <2>2, <2>3
<1>8. Nat \subseteq Upto
  BY <1>6, <1>7, NatInduct
<1>9. \A m \in 0 .. Cardinality(S) : m \in N
  BY <1>1, <1>4, <1>8
<1>10. Cardinality(S) \in N /\ Cardinality(S) \in Nat /\ S \in SUBSET S
  BY <1>1, <1>9
<1> QED BY <1>3, <1>10

\* A sum takes off one member at a time, a chosen one.
LEMMA SumStep ==
  ASSUME NEW f, NEW S, IsFiniteSet(S)
  PROVE  /\ S = {} => Sum(f, S) = 0
         /\ S # {} => Sum(f, S) = f[Chosen(S)] + Sum(f, S \ {Chosen(S)})
<1> DEFINE i == Iter(f, S)
           t == S \ {Chosen(S)}
<1>1. IsIter(i, f, S)
  BY IterExists
<1>2. i[S] = IF S = {} THEN 0 ELSE f[Chosen(S)] + i[S \ {Chosen(S)}]
  <2> HIDE DEF i
  <2>1. S \in SUBSET S
    OBVIOUS
  <2> QED BY <1>1, <2>1, Zenon DEF IsIter
<1>3. t \in SUBSET S /\ IsFiniteSet(t)
  BY FS_Subset
<1>4. IsIter(Iter(f, t), f, t)
  <2> HIDE DEF t
  <2> QED BY <1>3, IterExists
<1>5. i[t] = Iter(f, t)[t]
  <2> HIDE DEF t, i
  <2> QED BY <1>1, <1>3, <1>4, IterUnique
<1> QED BY <1>2, <1>5, SumIsIter

\* Nothing sums to zero.
LEMMA SumEmpty == \A f : Sum(f, {}) = 0
BY SumStep, FS_EmptySet

\* A sum of integers is one.
LEMMA SumInt ==
  ASSUME NEW f, NEW S, IsFiniteSet(S), \A x \in S : f[x] \in Int
  PROVE  Sum(f, S) \in Int
<1> DEFINE N == {n \in Nat : \A T \in SUBSET S : Cardinality(T) = n => Sum(f, T) \in Int}
<1>1. \A T \in SUBSET S : IsFiniteSet(T) /\ Cardinality(T) \in Nat
  BY FS_Subset, FS_CardinalityType
<1>2. 0 \in N
  BY <1>1, SumEmpty, FS_EmptySet
<1>3. ASSUME NEW n \in Nat, n \in N
      PROVE  n + 1 \in N
  <2> SUFFICES ASSUME NEW T \in SUBSET S, Cardinality(T) = n + 1
               PROVE  Sum(f, T) \in Int
    OBVIOUS
  <2>1. T # {}
    BY NotEmpty
  <2> DEFINE c == Chosen(T)
  <2>2. c \in T
    BY <2>1, ChosenIn
  <2>3. Sum(f, T) = f[c] + Sum(f, T \ {c})
    BY <1>1, <2>1, SumStep
  <2> HIDE DEF c
  <2>4. Cardinality(T \ {c}) = n
    <3>1. Cardinality(T \ {c}) = Cardinality(T) - 1
      BY <1>1, <2>2, FS_RemoveElement
    <3> QED BY <3>1
  <2> QED BY <1>3, <2>2, <2>3, <2>4
<1>4. Nat \subseteq N
  <2> HIDE DEF N
  <2> QED BY <1>2, <1>3, NatInduct
<1> QED BY <1>1, <1>4

\* Any member can be the one taken off.
LEMMA SumTake ==
  ASSUME NEW f, NEW S, IsFiniteSet(S), \A x \in S : f[x] \in Int, NEW e \in S
  PROVE  Sum(f, S) = f[e] + Sum(f, S \ {e})
<1> DEFINE Good(T) == \A x \in T : Sum(f, T) = f[x] + Sum(f, T \ {x})
           N == {n \in Nat : \A T \in SUBSET S : Cardinality(T) = n => Good(T)}
<1>1. \A T \in SUBSET S : IsFiniteSet(T) /\ Cardinality(T) \in Nat /\ Sum(f, T) \in Int
  BY FS_Subset, FS_CardinalityType, SumInt
<1>2. 0 \in N
  <2>1. Good({})
    OBVIOUS
  <2> QED BY <1>1, <2>1, FS_EmptySet
<1>3. ASSUME NEW n \in Nat, n \in N
      PROVE  n + 1 \in N
  <2> SUFFICES ASSUME NEW T \in SUBSET S, Cardinality(T) = n + 1
               PROVE  Good(T)
    OBVIOUS
  <2>1. ASSUME NEW x \in T
        PROVE  T \ {x} \in SUBSET S /\ Good(T \ {x})
    <3>1. Cardinality(T \ {x}) = Cardinality(T) - 1
      BY <1>1, FS_RemoveElement
    <3>2. Cardinality(T \ {x}) = n
      BY <3>1
    <3> HIDE DEF Good
    <3> QED BY <1>3, <3>2
  <2> DEFINE c == Chosen(T)
  <2>2. T # {}
    BY NotEmpty
  <2>3. c \in T
    BY <2>2, ChosenIn
  <2>4. Sum(f, T) = f[c] + Sum(f, T \ {c})
    BY <1>1, <2>2, SumStep
  <2> HIDE DEF c
  <2>6. ASSUME NEW x \in T, x # c
        PROVE  Sum(f, T) = f[x] + Sum(f, T \ {x})
    <3> DEFINE rest == Sum(f, (T \ {x}) \ {c})
    <3>1. /\ Sum(f, T \ {c}) = f[x] + Sum(f, (T \ {c}) \ {x})
          /\ Sum(f, T \ {x}) = f[c] + rest
      <4>1. x \in T \ {c} /\ c \in T \ {x}
        BY <2>3, <2>6
      <4> QED BY <2>1, <2>3, <4>1
    <3>2. (T \ {c}) \ {x} = (T \ {x}) \ {c} /\ (T \ {x}) \ {c} \in SUBSET S
      OBVIOUS
    <3>3. rest \in Int /\ f[x] \in Int /\ f[c] \in Int
      BY <1>1, <2>3, <3>2
    <3> HIDE DEF rest
    <3>4. Sum(f, T \ {c}) = f[x] + rest
      BY <3>1, <3>2 DEF rest
    <3> QED BY <2>4, <3>1, <3>3, <3>4
  <2> QED BY <2>3, <2>4, <2>6
<1>4. Nat \subseteq N
  <2> HIDE DEF N
  <2> QED BY <1>2, <1>3, NatInduct
<1>5. Good(S)
  <2> HIDE DEF Good
  <2> QED BY <1>1, <1>4
<1> QED BY <1>5

\* A sum of one more.
LEMMA SumPut ==
  ASSUME NEW f, NEW S, IsFiniteSet(S), \A x \in S : f[x] \in Int, NEW e, e \notin S, f[e] \in Int
  PROVE  IsFiniteSet(S \cup {e}) /\ Sum(f, S \cup {e}) = f[e] + Sum(f, S)
<1>1. IsFiniteSet(S \cup {e})
  BY FS_AddElement
<1>2. (S \cup {e}) \ {e} = S
  OBVIOUS
<1> QED BY <1>1, <1>2, SumTake

\* Equal terms have equal sums.
LEMMA SumSame ==
  ASSUME NEW f, NEW g, NEW S, IsFiniteSet(S), \A x \in S : f[x] \in Int /\ g[x] = f[x]
  PROVE  Sum(g, S) = Sum(f, S)
<1> DEFINE C == {T \in SUBSET S : Sum(g, T) = Sum(f, T)}
<1>1. {} \in C
  BY SumEmpty
<1>2. ASSUME NEW T \in SUBSET S, NEW x \in S \ T, T \in C
      PROVE  T \cup {x} \in C
  <2>1. IsFiniteSet(T)
    BY FS_Subset
  <2>2. Sum(g, T \cup {x}) = g[x] + Sum(g, T) /\ Sum(f, T \cup {x}) = f[x] + Sum(f, T)
    BY <2>1, SumPut
  <2> QED BY <1>2, <2>2
<1> HIDE DEF C
<1>3. S \in C
  BY <1>1, <1>2, SetInduct
<1> QED BY <1>3 DEF C

\* Sums add.
LEMMA SumPlus ==
  ASSUME NEW f, NEW g, NEW h, NEW S, IsFiniteSet(S),
         \A x \in S : f[x] \in Int /\ g[x] \in Int /\ h[x] = f[x] + g[x]
  PROVE  Sum(h, S) = Sum(f, S) + Sum(g, S)
<1> DEFINE C == {T \in SUBSET S : Sum(h, T) = Sum(f, T) + Sum(g, T)}
<1>1. {} \in C
  BY SumEmpty
<1>2. ASSUME NEW T \in SUBSET S, NEW x \in S \ T, T \in C
      PROVE  T \cup {x} \in C
  <2>1. IsFiniteSet(T) /\ \A y \in S : h[y] \in Int
    BY FS_Subset
  <2>2. /\ Sum(f, T \cup {x}) = f[x] + Sum(f, T) /\ Sum(g, T \cup {x}) = g[x] + Sum(g, T)
        /\ Sum(h, T \cup {x}) = h[x] + Sum(h, T)
    BY <2>1, SumPut
  <2>3. Sum(f, T) \in Int /\ Sum(g, T) \in Int
    BY <2>1, SumInt
  <2>4. Sum(h, T) = Sum(f, T) + Sum(g, T) /\ h[x] = f[x] + g[x] /\ f[x] \in Int /\ g[x] \in Int
    BY <1>2
  <2> HIDE DEF C
  <2>5. Sum(h, T \cup {x}) = Sum(f, T \cup {x}) + Sum(g, T \cup {x})
    BY ONLY <2>2, <2>3, <2>4
  <2> QED BY <2>5 DEF C
<1> HIDE DEF C
<1>3. S \in C
  BY <1>1, <1>2, SetInduct
<1> QED BY <1>3 DEF C

\* A factor goes out of a sum.
LEMMA SumTimes ==
  ASSUME NEW f, NEW h, NEW k \in Int, NEW S, IsFiniteSet(S),
         \A x \in S : f[x] \in Int /\ h[x] = k * f[x]
  PROVE  Sum(h, S) = k * Sum(f, S)
<1> DEFINE C == {T \in SUBSET S : Sum(h, T) = k * Sum(f, T)}
<1>1. {} \in C
  BY SumEmpty
<1>2. ASSUME NEW T \in SUBSET S, NEW x \in S \ T, T \in C
      PROVE  T \cup {x} \in C
  <2>1. IsFiniteSet(T) /\ \A y \in S : h[y] \in Int
    BY FS_Subset
  <2>2. /\ Sum(f, T \cup {x}) = f[x] + Sum(f, T)
        /\ Sum(h, T \cup {x}) = h[x] + Sum(h, T)
    BY <2>1, SumPut
  <2>3. Sum(f, T) \in Int
    BY <2>1, SumInt
  <2>4. Sum(h, T) = k * Sum(f, T) /\ h[x] = k * f[x] /\ f[x] \in Int
    BY <1>2
  <2> HIDE DEF C
  <2>5. Sum(h, T \cup {x}) = k * Sum(f, T \cup {x})
    BY ONLY <2>2, <2>3, <2>4, k \in Int
  <2> QED BY <2>5 DEF C
<1> HIDE DEF C
<1>3. S \in C
  BY <1>1, <1>2, SetInduct
<1> QED BY <1>3 DEF C

LEMMA SumConst ==
  ASSUME NEW f, NEW k \in Int, NEW S, IsFiniteSet(S), \A x \in S : f[x] = k
  PROVE  Sum(f, S) = Cardinality(S) * k
<1> DEFINE C == {T \in SUBSET S : Sum(f, T) = Cardinality(T) * k}
<1>1. {} \in C
  <2>1. 0 * k = 0
    OBVIOUS
  <2> QED BY <2>1, SumEmpty, FS_EmptySet
<1>2. ASSUME NEW T \in SUBSET S, NEW x \in S \ T, T \in C
      PROVE  T \cup {x} \in C
  <2>1. IsFiniteSet(T) /\ Cardinality(T) \in Nat
    BY FS_Subset, FS_CardinalityType
  <2>2. Sum(f, T \cup {x}) = f[x] + Sum(f, T)
    BY <2>1, SumPut
  <2>3. Cardinality(T \cup {x}) = Cardinality(T) + 1
    BY <2>1, FS_AddElement
  <2>4. Sum(f, T) = Cardinality(T) * k /\ f[x] = k
    BY <1>2
  <2> HIDE DEF C
  <2>5. Sum(f, T \cup {x}) = Cardinality(T \cup {x}) * k
    BY ONLY <2>1, <2>2, <2>3, <2>4, k \in Int
  <2> QED BY <2>5 DEF C
<1> HIDE DEF C
<1>3. S \in C
  BY <1>1, <1>2, SetInduct
<1> QED BY <1>3 DEF C

\* Zeros sum to zero.
LEMMA SumZero ==
  ASSUME NEW f, NEW S, IsFiniteSet(S), \A x \in S : f[x] = 0
  PROVE  Sum(f, S) = 0
<1>1. Sum(f, S) = Cardinality(S) * 0 /\ Cardinality(S) \in Nat
  BY SumConst, FS_CardinalityType
<1> QED BY <1>1

\* A sum of natural numbers is one.
LEMMA SumNat ==
  ASSUME NEW f, NEW S, IsFiniteSet(S), \A x \in S : f[x] \in Nat
  PROVE  Sum(f, S) \in Nat
<1> DEFINE C == {T \in SUBSET S : Sum(f, T) \in Nat}
<1>1. {} \in C
  BY SumEmpty
<1>2. ASSUME NEW T \in SUBSET S, NEW x \in S \ T, T \in C
      PROVE  T \cup {x} \in C
  <2>1. IsFiniteSet(T)
    BY FS_Subset
  <2>2. Sum(f, T \cup {x}) = f[x] + Sum(f, T)
    BY <2>1, SumPut
  <2> QED BY <1>2, <2>2
<1> HIDE DEF C
<1>3. S \in C
  BY <1>1, <1>2, SetInduct
<1> QED BY <1>3 DEF C

\* A set in two parts.
LEMMA SumUnion ==
  ASSUME NEW f, NEW S, NEW T, IsFiniteSet(S), IsFiniteSet(T), S \cap T = {},
         \A x \in S \cup T : f[x] \in Int
  PROVE  IsFiniteSet(S \cup T) /\ Sum(f, S \cup T) = Sum(f, S) + Sum(f, T)
<1> DEFINE C == {U \in SUBSET T : IsFiniteSet(S \cup U) /\ Sum(f, S \cup U) = Sum(f, S) + Sum(f, U)}
<1>0. Sum(f, S) \in Int
  BY SumInt
<1>1. {} \in C
  <2>1. S \cup {} = S
    OBVIOUS
  <2> QED BY <1>0, <2>1, SumEmpty
<1>2. ASSUME NEW U \in SUBSET T, NEW x \in T \ U, U \in C
      PROVE  U \cup {x} \in C
  <2>1. IsFiniteSet(U) /\ x \notin S \cup U /\ IsFiniteSet(S \cup U)
    BY <1>2, FS_Subset
  <2>2. Sum(f, U \cup {x}) = f[x] + Sum(f, U)
    BY <2>1, SumPut
  <2>3. /\ IsFiniteSet((S \cup U) \cup {x})
        /\ Sum(f, (S \cup U) \cup {x}) = f[x] + Sum(f, S \cup U)
    BY <2>1, SumPut
  <2>4. (S \cup U) \cup {x} = S \cup (U \cup {x})
    OBVIOUS
  <2>5. Sum(f, U) \in Int /\ f[x] \in Int /\ Sum(f, S \cup U) = Sum(f, S) + Sum(f, U)
    BY <1>2, <2>1, SumInt
  <2> DEFINE more == S \cup (U \cup {x})
  <2>6. IsFiniteSet(more) /\ Sum(f, more) = f[x] + Sum(f, S \cup U)
    BY <2>3, <2>4
  <2> HIDE DEF C, more
  <2>7. Sum(f, more) = Sum(f, S) + Sum(f, U \cup {x})
    BY ONLY <1>0, <2>2, <2>5, <2>6
  <2> QED BY <2>6, <2>7 DEF C, more
<1> HIDE DEF C
<1>3. T \in C
  BY <1>1, <1>2, SetInduct
<1> QED BY <1>3 DEF C

\* A sum over some is a sum over all, of zero for the rest.
LEMMA SumWhere ==
  ASSUME NEW f, NEW S, IsFiniteSet(S), NEW T \in SUBSET S,
         \A x \in T : f[x] \in Int, \A x \in S \ T : f[x] = 0
  PROVE  Sum(f, S) = Sum(f, T)
<1> DEFINE rest == S \ T
<1>1. IsFiniteSet(T) /\ IsFiniteSet(rest) /\ S = T \cup rest /\ T \cap rest = {}
  BY FS_Subset
<1>2. \A x \in rest : f[x] = 0
  OBVIOUS
<1> HIDE DEF rest
<1>3. Sum(f, S) = Sum(f, T) + Sum(f, rest)
  BY <1>1, <1>2, SumUnion
<1>4. Sum(f, rest) = 0 /\ Sum(f, T) \in Int
  BY <1>1, <1>2, SumZero, SumInt
<1> QED BY <1>3, <1>4

\* Another set to sum over, one for one.
LEMMA SumReindex ==
  ASSUME NEW f, NEW g, NEW b, NEW S, IsFiniteSet(S), NEW R,
         \A x \in S : b[x] \in R /\ f[b[x]] \in Int /\ g[x] = f[b[x]],
         \A x, y \in S : b[x] = b[y] => x = y,
         \A y \in R : \E x \in S : b[x] = y
  PROVE  IsFiniteSet(R) /\ Sum(f, R) = Sum(g, S)
<1> DEFINE Im(T) == {b[x] : x \in T}
           C == {T \in SUBSET S : IsFiniteSet(Im(T)) /\ Sum(f, Im(T)) = Sum(g, T)}
<1>1. {} \in C
  <2>1. Im({}) = {}
    OBVIOUS
  <2>2. IsFiniteSet({})
    BY FS_EmptySet
  <2> QED BY <2>1, <2>2, SumEmpty
<1>2. ASSUME NEW T \in SUBSET S, NEW x \in S \ T, T \in C
      PROVE  T \cup {x} \in C
  <2> DEFINE before == Im(T)
             after == Im(T \cup {x})
  <2>1. after = before \cup {b[x]} /\ b[x] \notin before
    OBVIOUS
  <2>2. IsFiniteSet(T) /\ IsFiniteSet(before) /\ Sum(f, before) = Sum(g, T)
    BY <1>2, FS_Subset
  <2>3. \A y \in before : f[y] \in Int
    OBVIOUS
  <2>4. T \cup {x} \in SUBSET S
    OBVIOUS
  <2>5. Sum(g, T \cup {x}) = g[x] + Sum(g, T)
    BY <2>2, SumPut
  <2>6. f[b[x]] \in Int /\ g[x] = f[b[x]]
    OBVIOUS
  <2> HIDE DEF C, Im, before
  <2>7. IsFiniteSet(before \cup {b[x]}) /\ Sum(f, before \cup {b[x]}) = f[b[x]] + Sum(f, before)
    BY <2>1, <2>2, <2>3, <2>6, SumPut
  <2> HIDE DEF after
  <2>8. IsFiniteSet(after) /\ Sum(f, after) = Sum(g, T \cup {x})
    BY <2>1, <2>2, <2>5, <2>6, <2>7
  <2> QED BY <2>4, <2>8 DEF C, after
<1> HIDE DEF C, Im
<1>3. S \in C
  BY <1>1, <1>2, SetInduct
<1>4. Im(S) = R
  BY DEF Im
<1> QED BY <1>3, <1>4 DEF C

\* Set by set.
LEMMA SumParts ==
  ASSUME NEW f, NEW g, NEW M, IsFiniteSet(M),
         \A i \in M : IsFiniteSet(i) /\ g[i] = Sum(f, i) /\ \A x \in i : f[x] \in Int,
         \A i, j \in M : i \cap j # {} => i = j
  PROVE  IsFiniteSet(UNION M) /\ Sum(f, UNION M) = Sum(g, M)
<1> DEFINE C == {T \in SUBSET M : IsFiniteSet(UNION T) /\ Sum(f, UNION T) = Sum(g, T)}
<1>1. {} \in C
  <2>1. UNION {} = {} /\ IsFiniteSet({})
    BY FS_EmptySet
  <2> QED BY <2>1, SumEmpty
<1>2. ASSUME NEW T \in SUBSET M, NEW i \in M \ T, T \in C
      PROVE  T \cup {i} \in C
  <2> DEFINE before == UNION T
             after == UNION (T \cup {i})
  <2>1. after = before \cup i /\ before \cap i = {} /\ T \cup {i} \in SUBSET M
    OBVIOUS
  <2>2. IsFiniteSet(T) /\ IsFiniteSet(before) /\ Sum(f, before) = Sum(g, T) /\ IsFiniteSet(i)
    BY <1>2, FS_Subset
  <2>3. \A x \in before \cup i : f[x] \in Int
    OBVIOUS
  <2>4. \A j \in M : g[j] \in Int
    BY SumInt
  <2>5. Sum(g, T \cup {i}) = g[i] + Sum(g, T) /\ g[i] = Sum(f, i)
    BY <2>2, <2>4, SumPut
  <2> HIDE DEF C, before, after
  <2>6. IsFiniteSet(before \cup i) /\ Sum(f, before \cup i) = Sum(f, before) + Sum(f, i)
    BY ONLY <2>1, <2>2, <2>3, SumUnion
  <2>7. Sum(f, before) \in Int /\ Sum(f, i) \in Int
    BY <2>2, <2>3, SumInt
  <2>8. IsFiniteSet(after) /\ Sum(f, after) = Sum(g, T \cup {i})
    BY <2>1, <2>2, <2>5, <2>6, <2>7
  <2> QED BY <2>1, <2>8 DEF C, after
<1> HIDE DEF C
<1>3. M \in C
  BY <1>1, <1>2, SetInduct
<1> QED BY <1>3 DEF C

\* The order of two sums.
\* A table, its transpose, and the sums of its rows and columns.
IsTable(m, t, rows, cols, S, T) ==
  /\ \A x \in S, y \in T : m[x][y] \in Int /\ t[y][x] = m[x][y]
  /\ \A x \in S : rows[x] = Sum(m[x], T)
  /\ \A y \in T : cols[y] = Sum(t[y], S)

\* A table sums by rows as it does by columns.
LEMMA SumSwap ==
  ASSUME NEW m, NEW t, NEW rows, NEW cols, NEW S, NEW T, IsFiniteSet(S), IsFiniteSet(T),
         IsTable(m, t, rows, cols, S, T)
  PROVE  Sum(rows, S) = Sum(cols, T)
<1> USE DEF IsTable
<1> DEFINE Col(U) == [y \in T |-> Sum(t[y], U)]
           C == {U \in SUBSET S : Sum(rows, U) = Sum(Col(U), T)}
<1>0. \A x \in S : rows[x] \in Int
  BY SumInt
<1>1. {} \in C
  <2>1. \A y \in T : Col({})[y] = 0
    BY SumEmpty
  <2> HIDE DEF Col
  <2>2. Sum(Col({}), T) = 0
    BY <2>1, SumZero
  <2> QED BY <2>2, SumEmpty
<1>2. ASSUME NEW U \in SUBSET S, NEW e \in S \ U, U \in C
      PROVE  U \cup {e} \in C
  <2>1. IsFiniteSet(U) /\ U \cup {e} \in SUBSET S
    BY FS_Subset
  <2>2. ASSUME NEW y \in T
        PROVE  /\ Col(U)[y] \in Int
               /\ Col(U \cup {e})[y] = m[e][y] + Col(U)[y]
    <3>1. \A x \in S : t[y][x] \in Int
      OBVIOUS
    <3>2. Sum(t[y], U \cup {e}) = t[y][e] + Sum(t[y], U) /\ Sum(t[y], U) \in Int
      BY <2>1, <3>1, SumPut, SumInt
    <3> QED BY <3>2
  <2>3. Sum(rows, U \cup {e}) = rows[e] + Sum(rows, U)
    BY <1>0, <2>1, SumPut
  <2>4. rows[e] = Sum(m[e], T) /\ \A y \in T : m[e][y] \in Int
    OBVIOUS
  <2>5. Sum(rows, U) = Sum(Col(U), T)
    BY <1>2
  <2> HIDE DEF Col, C
  <2>6. Sum(Col(U \cup {e}), T) = Sum(m[e], T) + Sum(Col(U), T)
    <3> DEFINE f == m[e]
               g == Col(U)
               h == Col(U \cup {e})
    <3>1. IsFiniteSet(T) /\ \A y \in T : f[y] \in Int /\ g[y] \in Int /\ h[y] = f[y] + g[y]
      BY <2>2
    <3> HIDE DEF f, g, h
    <3>2. Sum(h, T) = Sum(f, T) + Sum(g, T)
      BY ONLY <3>1, SumPlus
    <3> QED BY <3>2 DEF f, g, h
  <2> QED BY <2>1, <2>3, <2>4, <2>5, <2>6 DEF C
<1>3. S \in C
  <2> HIDE DEF C
  <2> QED BY <1>1, <1>2, SetInduct
<1>4. Sum(rows, S) = Sum(Col(S), T)
  BY <1>3
<1>5. \A y \in T : cols[y] = Col(S)[y] /\ Col(S)[y] \in Int
  BY SumInt
<1> HIDE DEF Col
<1>6. Sum(cols, T) = Sum(Col(S), T)
  BY <1>5, SumSame
<1> QED BY <1>4, <1>6

\* A larger term makes no smaller sum.
LEMMA SumMono ==
  ASSUME NEW f, NEW g, NEW S, IsFiniteSet(S),
         \A x \in S : f[x] \in Int /\ g[x] \in Int /\ f[x] <= g[x]
  PROVE  Sum(f, S) <= Sum(g, S)
<1> DEFINE d == [x \in S |-> g[x] - f[x]]
<1>1. \A x \in S : d[x] \in Nat /\ f[x] \in Int /\ g[x] = f[x] + d[x]
  OBVIOUS
<1> HIDE DEF d
<1>2. Sum(d, S) \in Nat /\ Sum(f, S) \in Int
  BY <1>1, SumNat, SumInt
<1>3. Sum(g, S) = Sum(f, S) + Sum(d, S)
  BY <1>1, SumPlus
<1> QED BY <1>2, <1>3

\* A sum with one term that is not zero.
LEMMA SumOne ==
  ASSUME NEW f, NEW S, IsFiniteSet(S), NEW e \in S, f[e] \in Int, \A x \in S \ {e} : f[x] = 0
  PROVE  Sum(f, S) = f[e]
<1>1. IsFiniteSet(S \ {e}) /\ \A x \in S : f[x] \in Int
  BY FS_Subset
<1>2. Sum(f, S \ {e}) = 0
  BY <1>1, SumZero
<1> QED BY <1>1, <1>2, SumTake
==============================================================================

------------------------------ MODULE SetFacts ------------------------------
(***************************************************************************)
(* Facts about sets that the proofs of several modules need: a nonempty    *)
(* bounded set of integers has a least and a greatest element, which is    *)
(* what Min and Max choose; the naturals a finite set is mapped to have a  *)
(* bound; and what SumFunctionOnSet computes over a finite set. The last   *)
(* one needs an induction: over the least size of a set that would be a    *)
(* counterexample.                                                         *)
(***************************************************************************)
EXTENDS Integers, FiniteSetsExt, FiniteSetTheorems, WellFoundedInduction, TLAPS

\* Every nonempty set of naturals has a least element: induction without a
\* predicate, for the sets of counterexamples of the proofs below.
LEMMA LeastNatural ==
    ASSUME NEW S \in SUBSET Nat, S # {}
    PROVE  \E n \in S : \A m \in S : n <= m
<1>1. PICK n \in S : \A m \in S : <<m, n>> \notin OpToRel(<, Nat)
  BY NatLessThanWellFounded, WFMin
<1>2. \A m \in S : ~ (m < n)
  BY <1>1 DEF OpToRel
<1> QED
  BY <1>2

\* Min of a set with a lower bound.
LEMMA MinFact ==
    ASSUME NEW S \in SUBSET Int, S # {}, NEW low \in Int, \A x \in S : low <= x
    PROVE  Min(S) \in S /\ \A x \in S : Min(S) <= x
<1> DEFINE T == {n \in Nat : low + n \in S}
<1>1. \A x \in S : x - low \in T /\ low + (x - low) = x
  OBVIOUS
<1>2. T \in SUBSET Nat /\ T # {}
  BY <1>1
<1>3. PICK t \in T : \A u \in T : t <= u
  BY <1>2, LeastNatural
<1>4. low + t \in S /\ \A x \in S : low + t <= x
  BY <1>1, <1>3
<1> QED
  BY <1>4 DEF Min

\* Max of a set with an upper bound.
LEMMA MaxFact ==
    ASSUME NEW S \in SUBSET Int, S # {}, NEW high \in Int, \A x \in S : x <= high
    PROVE  Max(S) \in S /\ \A x \in S : x <= Max(S)
<1> DEFINE T == {n \in Nat : high - n \in S}
<1>1. \A x \in S : high - x \in T /\ high - (high - x) = x
  OBVIOUS
<1>2. T \in SUBSET Nat /\ T # {}
  BY <1>1
<1>3. PICK t \in T : \A u \in T : t <= u
  BY <1>2, LeastNatural
<1>4. high - t \in S /\ \A x \in S : x <= high - t
  BY <1>1, <1>3
<1> QED
  BY <1>4 DEF Max

\* Min and Max of two numbers.
LEMMA OfTwo ==
    ASSUME NEW a \in Int, NEW b \in Int
    PROVE  /\ Min({a, b}) = IF a <= b THEN a ELSE b
           /\ Max({a, b}) = IF a >= b THEN a ELSE b
<1>1. Min({a, b}) \in {a, b} /\ \A x \in {a, b} : Min({a, b}) <= x
  <2>1. \A x \in {a, b} : (IF a <= b THEN a ELSE b) <= x
    OBVIOUS
  <2> QED
    BY <2>1, MinFact
<1>2. Max({a, b}) \in {a, b} /\ \A x \in {a, b} : x <= Max({a, b})
  <2>1. \A x \in {a, b} : x <= (IF a >= b THEN a ELSE b)
    OBVIOUS
  <2> QED
    BY <2>1, MaxFact
<1> QED
  BY <1>1, <1>2

\* The natural values of a function on a finite set are bounded.
LEMMA FiniteBound ==
    ASSUME NEW S, IsFiniteSet(S), NEW f, \A x \in S : f[x] \in Nat
    PROVE  \E high \in Nat : \A x \in S : f[x] <= high
<1> DEFINE Unbounded(T) == T \subseteq S /\ ~\E high \in Nat : \A x \in T : f[x] <= high
           Bad == {n \in Nat : \E T : Unbounded(T) /\ n = Cardinality(T)}
<1>1. SUFFICES ASSUME Bad # {} PROVE FALSE
  <2>1. Cardinality(S) \in Nat
    BY FS_CardinalityType
  <2>2. ~Unbounded(S)
    BY <2>1
  <2> QED  BY <2>2
<1>2. PICK n \in Bad : \A m \in Bad : n <= m
  <2>1. Bad \in SUBSET Nat
    OBVIOUS
  <2> HIDE DEF Bad
  <2> QED  BY <1>1, <2>1, LeastNatural
<1>3. PICK T : Unbounded(T) /\ n = Cardinality(T)
  OBVIOUS
<1>4. IsFiniteSet(T) /\ n \in Nat
  BY <1>3, FS_Subset
<1>5. PICK x \in T : TRUE
  <2>1. T # {}
    <3>1. 0 \in Nat
      OBVIOUS
    <3> QED  BY <1>3, <3>1
  <2> QED  BY <2>1
<1>6. Cardinality(T \ {x}) = n - 1 /\ IsFiniteSet(T \ {x})
  BY <1>3, <1>4, <1>5, FS_RemoveElement
<1>7. n - 1 \in Nat
  BY <1>6, FS_CardinalityType
<1>8. ~Unbounded(T \ {x})
  <2>1. n - 1 \notin Bad
    BY <1>2, <1>4
  <2> QED  BY <1>6, <1>7, <2>1
<1>9. PICK high \in Nat : \A y \in T \ {x} : f[y] <= high
  BY <1>3, <1>8
<1>10. f[x] \in Nat
  BY <1>3, <1>5
<1>11. PICK top \in Nat : f[x] <= top /\ high <= top
  BY <1>9, <1>10
<1>12. \A y \in T : f[y] \in Nat
  BY <1>3
<1>13. \A y \in T : f[y] <= top
  BY <1>9, <1>11, <1>12
<1> QED  BY <1>3, <1>13

(***************************************************************************)
(* Sums over finite sets, as SumFunctionOnSet adds them up: one element of *)
(* the set after the other.                                                *)
(***************************************************************************)
Chosen(s) == CHOOSE x \in s : TRUE

\* g holds the sums of all subsets of S.
SumsUp(f, S, g) ==
    g = [s \in SUBSET S |-> IF s = {} THEN 0 ELSE f[Chosen(s)] + g[s \ {Chosen(s)}]]

LEMMA SumIsChosen ==
    ASSUME NEW f, NEW S
    PROVE  SumFunctionOnSet(f, S) = (CHOOSE g : SumsUp(f, S, g))[S]
BY DEF SumFunctionOnSet, FoldFunctionOnSet, MapThenFoldSet, SumsUp, Chosen

\* The subsets of a finite set and what is left of them without one element.
LEMMA Subsets ==
    ASSUME NEW S, IsFiniteSet(S), NEW s \in SUBSET S
    PROVE  /\ IsFiniteSet(s) /\ Cardinality(s) \in Nat
           /\ s = {} <=> Cardinality(s) = 0
           /\ s # {} => Chosen(s) \in s
           /\ \A x \in s : s \ {x} \in SUBSET S /\ Cardinality(s \ {x}) = Cardinality(s) - 1
<1>1. IsFiniteSet(s)
  BY FS_Subset
<1>2. Cardinality(s) \in Nat /\ (s = {} <=> Cardinality(s) = 0)
  BY <1>1, FS_CardinalityType, FS_EmptySet
<1>3. \A x \in s : Cardinality(s \ {x}) = Cardinality(s) - 1
  BY <1>1, FS_RemoveElement
<1>4. s # {} => Chosen(s) \in s
  BY DEF Chosen
<1> QED  BY <1>1, <1>2, <1>3, <1>4

LEMMA SumsExist ==
    ASSUME NEW S, IsFiniteSet(S), NEW f, \A x \in S : f[x] \in Int
    PROVE  \E g : SumsUp(f, S, g)
<1> DEFINE P == SUBSET S
           Rest(s) == s \ {Chosen(s)}
           Up(n, g) == /\ g \in [P -> Int]
                       /\ \A s \in P : Cardinality(s) <= n =>
                             g[s] = IF s = {} THEN 0 ELSE f[Chosen(s)] + g[Rest(s)]
           Bad == {n \in Nat : ~\E g : Up(n, g)}
<1>1. ASSUME NEW s \in P, s # {}
      PROVE  /\ f[Chosen(s)] \in Int /\ Rest(s) \in P
             /\ Cardinality(s) \in Nat /\ Cardinality(Rest(s)) = Cardinality(s) - 1
  BY <1>1, Subsets
<1>2. \A s \in P : Cardinality(s) \in Nat /\ (Cardinality(s) = 0 <=> s = {})
  BY Subsets
<1>3. Up(0, [s \in P |-> 0])
  <2> DEFINE g == [s \in P |-> 0]
  <2>1. g \in [P -> Int] /\ \A s \in P : g[s] = 0
    OBVIOUS
  <2>2. \A s \in P : Cardinality(s) <= 0 => s = {}
    BY <1>2
  <2> HIDE DEF g, P
  <2> QED  BY <2>1, <2>2
<1> HIDE DEF P, Rest
<1>4. ASSUME NEW n \in Nat, NEW g, Up(n, g) PROVE \E h : Up(n + 1, h)
  <2> DEFINE h == [s \in P |-> IF Cardinality(s) <= n THEN g[s] ELSE f[Chosen(s)] + g[Rest(s)]]
  <2>1. \A s \in P : g[s] \in Int
    BY <1>4
  <2>2. ASSUME NEW s \in P
        PROVE  (IF Cardinality(s) <= n THEN g[s] ELSE f[Chosen(s)] + g[Rest(s)]) \in Int
    <3>1. CASE Cardinality(s) <= n
      BY <2>1, <3>1
    <3>2. CASE ~(Cardinality(s) <= n)
      <4>1. s # {}
        BY <1>2, <3>2
      <4> QED  BY <1>1, <2>1, <3>2, <4>1
    <3> QED  BY <3>1, <3>2
  <2>3. h \in [P -> Int]
    BY <2>2
  <2>4. ASSUME NEW s \in P, Cardinality(s) <= n + 1
        PROVE  h[s] = IF s = {} THEN 0 ELSE f[Chosen(s)] + h[Rest(s)]
    <3>1. CASE s = {}
      <4>1. Cardinality(s) = 0 /\ 0 <= n
        BY <1>2, <3>1
      <4>2. h[s] = g[s] /\ g[s] = 0
        BY <1>4, <3>1, <4>1
      <4> QED  BY <3>1, <4>2
    <3>2. CASE s # {}
      <4>1. Rest(s) \in P /\ Cardinality(Rest(s)) <= n
        BY <1>1, <2>4, <3>2
      <4>2. h[Rest(s)] = g[Rest(s)]
        BY <4>1
      <4>3. h[s] = f[Chosen(s)] + g[Rest(s)]
        BY <1>4, <3>2
      <4> QED  BY <3>2, <4>2, <4>3
    <3> QED  BY <3>1, <3>2
  <2> HIDE DEF h
  <2> QED  BY <2>3, <2>4
<1>5. Bad = {}
  <2> SUFFICES ASSUME Bad # {} PROVE FALSE
    OBVIOUS
  <2>1. PICK n \in Bad : \A m \in Bad : n <= m
    <3>1. Bad \in SUBSET Nat
      OBVIOUS
    <3> HIDE DEF Bad
    <3> QED  BY <3>1, LeastNatural
  <2>2. n \in Nat /\ ~\E g : Up(n, g)
    OBVIOUS
  <2>3. n # 0
    BY <1>3, <2>2
  <2>4. n - 1 \in Nat /\ n - 1 \notin Bad /\ (n - 1) + 1 = n
    <3>1. n - 1 \in Nat /\ (n - 1) + 1 = n /\ ~(n <= n - 1)
      BY <2>2, <2>3
    <3> HIDE DEF Bad
    <3> QED  BY <2>1, <3>1
  <2>5. PICK g : Up(n - 1, g)
    BY <2>4
  <2> HIDE DEF Bad, Up
  <2>6. \E h : Up((n - 1) + 1, h)
    BY <1>4, <2>4, <2>5
  <2> QED  BY <2>2, <2>4, <2>6
<1>6. PICK g : Up(Cardinality(S), g)
  <2>1. Cardinality(S) \in Nat
    BY FS_CardinalityType
  <2> QED  BY <1>5, <2>1
<1>7. \A s \in P : Cardinality(s) <= Cardinality(S)
  BY FS_Subset DEF P
<1>8. g = [s \in P |-> IF s = {} THEN 0 ELSE f[Chosen(s)] + g[Rest(s)]]
  BY <1>6, <1>7
<1> QED  BY <1>8 DEF SumsUp, P, Rest

\* Among subsets there is one with the fewest elements: induction over sets.
LEMMA FewestElements ==
    ASSUME NEW S, IsFiniteSet(S), NEW B \in SUBSET (SUBSET S), B # {}
    PROVE  \E s \in B : \A t \in B : Cardinality(s) <= Cardinality(t)
<1> DEFINE N == {Cardinality(s) : s \in B}
<1>1. N \in SUBSET Nat /\ N # {}
  BY Subsets
<1>2. PICK n \in N : \A m \in N : n <= m
  <2> HIDE DEF N
  <2> QED  BY <1>1, LeastNatural
<1> QED  BY <1>2

\* What g says of a subset, whatever element is taken from it.
LEMMA SumsTyped ==
    ASSUME NEW S, IsFiniteSet(S), NEW f, \A x \in S : f[x] \in Int, NEW g, SumsUp(f, S, g)
    PROVE  /\ g[{}] = 0
           /\ \A s \in SUBSET S : g[s] \in Int
           /\ \A s \in SUBSET S : s # {} => g[s] = f[Chosen(s)] + g[s \ {Chosen(s)}]
<1>1. /\ g[{}] = 0
      /\ \A s \in SUBSET S : s # {} => g[s] = f[Chosen(s)] + g[s \ {Chosen(s)}]
  BY DEF SumsUp
<1> DEFINE Bad == {s \in SUBSET S : g[s] \notin Int}
<1>2. Bad = {}
  <2> SUFFICES ASSUME Bad # {} PROVE FALSE
    OBVIOUS
  <2>1. PICK s \in Bad : \A t \in Bad : Cardinality(s) <= Cardinality(t)
    <3>1. Bad \in SUBSET (SUBSET S)
      OBVIOUS
    <3> HIDE DEF Bad
    <3> QED  BY <3>1, FewestElements
  <2>2. s \in SUBSET S /\ g[s] \notin Int
    OBVIOUS
  <2>3. s # {}
    <3>1. g[{}] = 0
      BY <1>1
    <3>2. s = {} => g[s] = 0
      BY <3>1, Zenon
    <3>3. 0 \in Int
      OBVIOUS
    <3> QED  BY <2>2, <3>2, <3>3, Zenon
  <2> DEFINE rest == s \ {Chosen(s)}
  <2>4. /\ Chosen(s) \in s /\ rest \in SUBSET S /\ Cardinality(s) \in Nat
        /\ Cardinality(rest) = Cardinality(s) - 1
    BY <2>2, <2>3, Subsets
  <2>5. rest \notin Bad
    <3> HIDE DEF Bad, rest
    <3> QED  BY <2>1, <2>4
  <2>6. g[rest] \in Int /\ f[Chosen(s)] \in Int
    BY <2>2, <2>4, <2>5
  <2>7. g[s] = f[Chosen(s)] + g[rest]
    BY <1>1, <2>2, <2>3
  <2> HIDE DEF rest
  <2> QED  BY <2>2, <2>6, <2>7
<1> QED  BY <1>1, <1>2

LEMMA SumsInAnyOrder ==
    ASSUME NEW S, IsFiniteSet(S), NEW f, \A x \in S : f[x] \in Int, NEW g, SumsUp(f, S, g)
    PROVE  \A s \in SUBSET S : \A x \in s : g[s] = f[x] + g[s \ {x}]
<1>1. /\ \A s \in SUBSET S : g[s] \in Int
      /\ \A s \in SUBSET S : s # {} => g[s] = f[Chosen(s)] + g[s \ {Chosen(s)}]
  <2>1. \A x \in S : f[x] \in Int
    OBVIOUS
  <2>2. /\ g[{}] = 0
        /\ \A s \in SUBSET S : g[s] \in Int
        /\ \A s \in SUBSET S : s # {} => g[s] = f[Chosen(s)] + g[s \ {Chosen(s)}]
    BY <2>1, SumsTyped
  <2> QED  BY <2>2
<1> DEFINE Bad == {s \in SUBSET S : ~\A x \in s : g[s] = f[x] + g[s \ {x}]}
<1>2. Bad = {}
  <2> SUFFICES ASSUME Bad # {} PROVE FALSE
    OBVIOUS
  <2>1. PICK s \in Bad : \A t \in Bad : Cardinality(s) <= Cardinality(t)
    <3>1. Bad \in SUBSET (SUBSET S)
      OBVIOUS
    <3> HIDE DEF Bad
    <3> QED  BY <3>1, FewestElements
  <2>2. PICK x \in s : g[s] # f[x] + g[s \ {x}]
    OBVIOUS
  <2>3. s \in SUBSET S
    OBVIOUS
  <2> DEFINE c == Chosen(s)
  <2>4. c \in s /\ g[s] = f[c] + g[s \ {c}]
    BY <1>1, <2>2, <2>3, Subsets
  <2>5. \A y \in s : /\ s \ {y} \in SUBSET S /\ s \ {y} \notin Bad
    <3> TAKE y \in s
    <3>1. /\ s \ {y} \in SUBSET S /\ Cardinality(s) \in Nat
          /\ Cardinality(s \ {y}) = Cardinality(s) - 1
      BY <2>3, Subsets
    <3> HIDE DEF Bad
    <3> QED  BY <2>1, <3>1
  <2>6. \A y \in s : \A z \in s \ {y} : g[s \ {y}] = f[z] + g[(s \ {y}) \ {z}]
    BY <2>5
  <2> HIDE DEF Bad, c
  <2>7. c # x
    BY <2>2, <2>4
  <2>8. /\ g[s \ {c}] = f[x] + g[(s \ {c}) \ {x}]
        /\ g[s \ {x}] = f[c] + g[(s \ {x}) \ {c}]
    BY <2>2, <2>4, <2>6, <2>7
  <2> DEFINE u == (s \ {c}) \ {x}
  <2>9. (s \ {x}) \ {c} = u
    OBVIOUS
  <2>10. u \in SUBSET S /\ f[c] \in Int /\ f[x] \in Int
    BY <2>2, <2>3, <2>4
  <2>11. g[u] \in Int
    BY <1>1, <2>10
  <2> HIDE DEF u
  <2>12. g[s] = f[c] + (f[x] + g[u]) /\ g[s \ {x}] = f[c] + g[u]
    BY <2>4, <2>8, <2>9 DEF u
  <2>13. g[s] = f[x] + (f[c] + g[u])
    BY <2>10, <2>11, <2>12
  <2> QED  BY <2>2, <2>12, <2>13
<1> QED  BY <1>2

\* Sums of the same numbers are the same, whatever else is summed up.
LEMMA SumsAgree ==
    ASSUME NEW S, IsFiniteSet(S), NEW f, \A x \in S : f[x] \in Int, NEW g, SumsUp(f, S, g),
           NEW T, IsFiniteSet(T), NEW e, \A x \in T : e[x] \in Int, NEW h, SumsUp(e, T, h),
           \A x \in S \cap T : f[x] = e[x]
    PROVE  \A s \in SUBSET (S \cap T) : g[s] = h[s]
<1> DEFINE Bad == {s \in SUBSET S : s \subseteq T /\ g[s] # h[s]}
<1>1. Bad = {}
  <2> SUFFICES ASSUME Bad # {} PROVE FALSE
    OBVIOUS
  <2>1. PICK s \in Bad : \A t \in Bad : Cardinality(s) <= Cardinality(t)
    <3>1. Bad \in SUBSET (SUBSET S)
      OBVIOUS
    <3> HIDE DEF Bad
    <3> QED  BY <3>1, FewestElements
  <2>2. s \in SUBSET S /\ s \in SUBSET T /\ g[s] # h[s]
    OBVIOUS
  <2>3. g[{}] = 0 /\ h[{}] = 0
    BY SumsTyped
  <2>4. s # {}
    BY <2>2, <2>3
  <2> DEFINE c == Chosen(s)
  <2>5. /\ c \in s /\ s \ {c} \in SUBSET S /\ Cardinality(s) \in Nat
        /\ Cardinality(s \ {c}) = Cardinality(s) - 1
    BY <2>2, <2>4, Subsets
  <2>6. s \ {c} \notin Bad
    <3> HIDE DEF Bad, c
    <3> QED  BY <2>1, <2>5
  <2>7. g[s \ {c}] = h[s \ {c}]
    BY <2>2, <2>5, <2>6
  <2>8. g[s] = f[c] + g[s \ {c}] /\ h[s] = e[c] + h[s \ {c}]
    BY <2>2, <2>4, SumsTyped
  <2>9. f[c] = e[c]
    BY <2>2, <2>5
  <2> QED  BY <2>2, <2>7, <2>8, <2>9
<1> QED  BY <1>1

\* What a sum over a finite set is: nothing for the empty set, and one element
\* more adds its number, whatever the order; it depends on these numbers only.
LEMMA SumFacts ==
    ASSUME NEW S, IsFiniteSet(S), NEW f, \A x \in S : f[x] \in Int
    PROVE  /\ SumFunctionOnSet(f, S) \in Int
           /\ S = {} => SumFunctionOnSet(f, S) = 0
           /\ \A x \in S : SumFunctionOnSet(f, S) = f[x] + SumFunctionOnSet(f, S \ {x})
<1> DEFINE g == CHOOSE k : SumsUp(f, S, k)
<1>1. SumsUp(f, S, g)
  BY SumsExist
<1>2. SumFunctionOnSet(f, S) = g[S]
  BY SumIsChosen
<1> HIDE DEF g
<1>3. g[S] \in Int /\ (S = {} => g[S] = 0)
  BY <1>1, SumsTyped
<1>4. ASSUME NEW x \in S
      PROVE  SumFunctionOnSet(f, S) = f[x] + SumFunctionOnSet(f, S \ {x})
  <2> DEFINE T == S \ {x}
             h == CHOOSE k : SumsUp(f, T, k)
  <2>1. IsFiniteSet(T) /\ T \in SUBSET S /\ \A y \in T : f[y] \in Int
    BY FS_Subset
  <2>2. SumsUp(f, T, h)
    BY <2>1, SumsExist
  <2>3. SumFunctionOnSet(f, T) = h[T]
    BY SumIsChosen
  <2> HIDE DEF h
  <2>4. h[T] = g[T]
    <3> HIDE DEF T
    <3>1. T \in SUBSET (T \cap S) /\ \A y \in T \cap S : f[y] = f[y]
      BY <2>1
    <3> QED  BY <1>1, <2>1, <2>2, <3>1, SumsAgree
  <2>5. g[S] = f[x] + g[T]
    BY <1>1, SumsInAnyOrder
  <2> QED  BY <1>2, <2>3, <2>4, <2>5
<1> QED  BY <1>2, <1>3, <1>4

LEMMA SumSame ==
    ASSUME NEW S, IsFiniteSet(S), NEW f, NEW e, \A x \in S : f[x] \in Int /\ e[x] = f[x]
    PROVE  SumFunctionOnSet(e, S) = SumFunctionOnSet(f, S)
<1> DEFINE g == CHOOSE k : SumsUp(f, S, k)
           h == CHOOSE k : SumsUp(e, S, k)
<1>1. SumsUp(f, S, g) /\ SumsUp(e, S, h)
  BY SumsExist
<1>2. SumFunctionOnSet(f, S) = g[S] /\ SumFunctionOnSet(e, S) = h[S]
  BY SumIsChosen
<1> HIDE DEF g, h
<1>3. S \in SUBSET (S \cap S) /\ (\A x \in S \cap S : f[x] = e[x]) /\ \A x \in S : e[x] \in Int
  OBVIOUS
<1>4. g[S] = h[S]
  BY <1>1, <1>3, SumsAgree
<1> QED  BY <1>2, <1>4

\* Smaller numbers over a part of the set have a smaller sum.
LEMMA SumSmaller ==
    ASSUME NEW T, IsFiniteSet(T), NEW S \in SUBSET T, NEW f, NEW g,
           \A x \in S : f[x] \in Int /\ f[x] <= g[x], \A x \in T : g[x] \in Nat
    PROVE  SumFunctionOnSet(f, S) <= SumFunctionOnSet(g, T)
<1> DEFINE F(s) == SumFunctionOnSet(f, s \cap S)
           G(s) == SumFunctionOnSet(g, s)
           Bad == {s \in SUBSET T : ~(F(s) <= G(s))}
<1>1. ASSUME NEW s \in SUBSET T
      PROVE  /\ F(s) \in Int /\ (s \cap S = {} => F(s) = 0)
             /\ \A x \in s \cap S : F(s) = f[x] + F(s \ {x})
             /\ G(s) \in Int /\ (s = {} => G(s) = 0)
             /\ \A x \in s : G(s) = g[x] + G(s \ {x})
  <2>1. IsFiniteSet(s \cap S) /\ \A x \in s \cap S : f[x] \in Int
    BY FS_Subset
  <2>2. IsFiniteSet(s) /\ \A x \in s : g[x] \in Int
    BY FS_Subset
  <2>3. \A x \in s \cap S : (s \cap S) \ {x} = (s \ {x}) \cap S
    OBVIOUS
  <2>4. /\ F(s) \in Int /\ (s \cap S = {} => F(s) = 0)
        /\ \A x \in s \cap S : F(s) = f[x] + SumFunctionOnSet(f, (s \cap S) \ {x})
    BY <2>1, SumFacts
  <2>5. /\ G(s) \in Int /\ (s = {} => G(s) = 0)
        /\ \A x \in s : G(s) = g[x] + G(s \ {x})
    BY <2>2, SumFacts
  <2> QED  BY <2>3, <2>4, <2>5
<1>2. Bad = {}
  <2> SUFFICES ASSUME Bad # {} PROVE FALSE
    OBVIOUS
  <2>1. PICK s \in Bad : \A t \in Bad : Cardinality(s) <= Cardinality(t)
    <3>1. Bad \in SUBSET (SUBSET T)
      OBVIOUS
    <3> HIDE DEF Bad
    <3> QED  BY <3>1, FewestElements
  <2>2. s \in SUBSET T /\ ~(F(s) <= G(s))
    OBVIOUS
  <2>3. s # {}
    <3>1. s = {} => s \cap S = {}
      OBVIOUS
    <3>2. (s \cap S = {} => F(s) = 0) /\ (s = {} => G(s) = 0)
      BY <1>1, <2>2
    <3> HIDE DEF F, G
    <3> QED  BY <2>2, <3>1, <3>2
  <2>4. PICK x \in s : TRUE
    BY <2>3
  <2>5. /\ s \ {x} \in SUBSET T /\ Cardinality(s) \in Nat
        /\ Cardinality(s \ {x}) = Cardinality(s) - 1
    BY <2>2, Subsets
  <2>6. F(s \ {x}) <= G(s \ {x})
    <3>1. s \ {x} \notin Bad
      <4> HIDE DEF Bad
      <4> QED  BY <2>1, <2>5
    <3> QED  BY <2>5, <3>1
  <2>7. /\ F(s) \in Int /\ F(s \ {x}) \in Int /\ G(s) \in Int /\ G(s \ {x}) \in Int
        /\ G(s) = g[x] + G(s \ {x}) /\ g[x] \in Nat
        /\ x \in S => F(s) = f[x] + F(s \ {x}) /\ f[x] \in Int /\ f[x] <= g[x]
    BY <1>1, <2>2, <2>5
  <2>8. x \notin S => F(s) = F(s \ {x})
    <3>1. x \notin S => s \cap S = (s \ {x}) \cap S
      OBVIOUS
    <3> QED  BY <3>1
  <2> HIDE DEF F, G
  <2> QED  BY <2>2, <2>6, <2>7, <2>8
<1>3. T \cap S = S
  OBVIOUS
<1>4. F(T) <= G(T)
  BY <1>2
<1> QED  BY <1>3, <1>4

\* A common factor of the numbers is a factor of their sum.
LEMMA SumScaled ==
    ASSUME NEW T, IsFiniteSet(T), NEW c \in Int, NEW f, NEW g,
           \A x \in T : f[x] \in Int /\ g[x] = c * f[x]
    PROVE  SumFunctionOnSet(g, T) = c * SumFunctionOnSet(f, T)
<1> DEFINE F(s) == SumFunctionOnSet(f, s)
           G(s) == SumFunctionOnSet(g, s)
           Bad == {s \in SUBSET T : G(s) # c * F(s)}
<1>1. ASSUME NEW s \in SUBSET T
      PROVE  /\ F(s) \in Int /\ (s = {} => F(s) = 0 /\ G(s) = 0)
             /\ \A x \in s : F(s) = f[x] + F(s \ {x}) /\ G(s) = g[x] + G(s \ {x})
  <2>1. IsFiniteSet(s) /\ \A x \in s : f[x] \in Int /\ g[x] \in Int
    BY FS_Subset
  <2> QED  BY <2>1, SumFacts
<1>2. Bad = {}
  <2> SUFFICES ASSUME Bad # {} PROVE FALSE
    OBVIOUS
  <2>1. PICK s \in Bad : \A t \in Bad : Cardinality(s) <= Cardinality(t)
    <3>1. Bad \in SUBSET (SUBSET T)
      OBVIOUS
    <3> HIDE DEF Bad
    <3> QED  BY <3>1, FewestElements
  <2>2. s \in SUBSET T /\ G(s) # c * F(s)
    OBVIOUS
  <2>3. s # {}
    <3>1. s = {} => F(s) = 0 /\ G(s) = 0
      BY <1>1, <2>2
    <3>2. c * 0 = 0
      OBVIOUS
    <3> HIDE DEF F, G
    <3> QED  BY <2>2, <3>1, <3>2
  <2>4. PICK x \in s : TRUE
    BY <2>3
  <2>5. /\ s \ {x} \in SUBSET T /\ Cardinality(s) \in Nat
        /\ Cardinality(s \ {x}) = Cardinality(s) - 1
    BY <2>2, Subsets
  <2>6. G(s \ {x}) = c * F(s \ {x})
    <3>1. s \ {x} \notin Bad
      <4> HIDE DEF Bad
      <4> QED  BY <2>1, <2>5
    <3> QED  BY <2>5, <3>1
  <2>7. /\ F(s \ {x}) \in Int /\ f[x] \in Int /\ g[x] = c * f[x]
        /\ F(s) = f[x] + F(s \ {x}) /\ G(s) = g[x] + G(s \ {x})
    BY <1>1, <2>2, <2>5
  <2> DEFINE a == f[x]
             b == F(s \ {x})
  <2> HIDE DEF a, b
  <2>8. c * (a + b) = c * a + c * b
    BY <2>7 DEF a, b
  <2> HIDE DEF F, G
  <2> QED  BY <2>2, <2>6, <2>7, <2>8 DEF a, b
<1> QED  BY <1>2

=============================================================================

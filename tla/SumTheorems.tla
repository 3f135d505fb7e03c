---------------------------- MODULE SumTheorems ----------------------------
(***************************************************************************)
(* Facts about SumFunctionOnSet, the sum of a function over a finite set,  *)
(* by which the models total values, exposures and incomes.  Induction     *)
(* ranges over sets in place of predicates: a set of numbers with 0 and    *)
(* all successors, a family of subsets closed under one more element.      *)
(***************************************************************************)
EXTENDS Integers, FiniteSets, Functions, FiniteSetTheorems, WellFoundedInduction, TLAPS

-----------------------------------------------------------------------------
(* Induction, over sets in place of predicates *)

\* A set of numbers with 0 and every successor has them all.
LEMMA NumberInduction ==
  ASSUME NEW B, 0 \in B, \A n \in Nat : n \in B => n + 1 \in B
  PROVE  \A n \in Nat : n \in B
<1> SUFFICES ASSUME Nat \ B # {} PROVE FALSE
  OBVIOUS
<1>1. PICK n \in Nat \ B : \A m \in Nat \ B : ~(<<m, n>> \in OpToRel(<, Nat))
  BY NatLessThanWellFounded, WFMin, Zenon
<1>2. n - 1 \in Nat /\ n - 1 < n /\ (n - 1) + 1 = n
  <2>1. n \in Nat /\ n # 0
    BY <1>1
  <2>2. QED
    BY <2>1
<1>3. <<n - 1, n>> \in OpToRel(<, Nat)
  BY <1>1, <1>2 DEF OpToRel
<1>4. QED
  BY <1>1, <1>2, <1>3

-----------------------------------------------------------------------------
(* Sums *)

Chosen(s) == CHOOSE x \in s : TRUE

\* it sums f over s.
Sums(it, f, s) == it[s] = IF s = {} THEN 0 ELSE f[Chosen(s)] + it[s \ {Chosen(s)}]

\* it sums f over every subset of S.
SumsAll(it, f, S) == \A s \in SUBSET S : Sums(it, f, s)

\* The subsets of S with at most n elements.
Level(S, n) == {s \in SUBSET S : Cardinality(s) <= n}

\* What can be said of the levels one by one.
LEMMA Levels ==
  ASSUME NEW S, IsFiniteSet(S)
  PROVE  /\ Level(S, 0) = {{}}
         /\ Cardinality(S) \in Nat
         /\ Level(S, Cardinality(S)) = SUBSET S
         /\ \A n \in Nat : Level(S, n) \subseteq Level(S, n + 1)
         /\ \A n \in Nat : \A s \in Level(S, n + 1) : \A x \in s : s \ {x} \in Level(S, n)
<1>1. \A s \in SUBSET S : IsFiniteSet(s) /\ Cardinality(s) \in Nat /\ Cardinality(s) <= Cardinality(S)
  BY FS_Subset, FS_CardinalityType
<1>2. Level(S, 0) = {{}}
  BY <1>1, FS_EmptySet DEF Level
<1>3. \A n \in Nat : Level(S, n) \subseteq Level(S, n + 1)
  BY <1>1 DEF Level
<1>4. ASSUME NEW n \in Nat, NEW s \in Level(S, n + 1), NEW x \in s
      PROVE  s \ {x} \in Level(S, n)
  <2>1. s \in SUBSET S /\ Cardinality(s) <= n + 1
    BY DEF Level
  <2>2. Cardinality(s \ {x}) = Cardinality(s) - 1
    BY <1>1, <2>1, FS_RemoveElement
  <2>3. QED
    BY <1>1, <2>1, <2>2 DEF Level
<1>5. QED
  BY <1>1, <1>2, <1>3, <1>4, FS_CardinalityType DEF Level

\* A family of subsets with the empty one, and with each set also every set of
\* one more element, has the whole set.
LEMMA FiniteInduction ==
  ASSUME NEW S, IsFiniteSet(S), NEW B, {} \in B,
         \A T \in SUBSET S : \A x \in S \ T : T \in B => T \cup {x} \in B
  PROVE  S \in B
<1> DEFINE N == {n \in Nat : Level(S, n) \subseteq B}
<1>1. 0 \in N
  BY Levels
<1>2. ASSUME NEW n \in Nat, n \in N PROVE n + 1 \in N
  <2> SUFFICES ASSUME NEW s \in Level(S, n + 1) PROVE s \in B
    OBVIOUS
  <2>1. CASE s = {}
    BY <2>1
  <2>2. CASE s # {}
    <3>1. PICK x : x \in s
      BY <2>2
    <3>2. s \in SUBSET S /\ s \ {x} \in B
      BY <1>2, <3>1, Levels DEF Level
    <3>3. s = (s \ {x}) \cup {x}
      BY <3>1
    <3>4. QED
      BY <3>1, <3>2, <3>3
  <2>3. QED
    BY <2>1, <2>2
<1> HIDE DEF N
<1>3. \A n \in Nat : n \in N
  BY <1>1, <1>2, NumberInduction
<1>4. QED
  BY <1>3, Levels DEF N

\* The first element is one.
LEMMA ChosenIn == ASSUME NEW s, s # {} PROVE Chosen(s) \in s
BY DEF Chosen

\* Some function sums the subsets up to each size.
LEMMA SumLevel ==
  ASSUME NEW S, IsFiniteSet(S), NEW f, \A x \in S : f[x] \in Int
  PROVE  \A n \in Nat : \E it \in [Level(S, n) -> Int] : \A s \in Level(S, n) : Sums(it, f, s)
<1> DEFINE B == {n \in Nat : \E it \in [Level(S, n) -> Int] : \A s \in Level(S, n) : Sums(it, f, s)}
<1>1. 0 \in B
  <2> DEFINE it == [s \in Level(S, 0) |-> 0]
  <2>1. it \in [Level(S, 0) -> Int] /\ \A s \in Level(S, 0) : it[s] = 0 /\ s = {}
    BY Levels
  <2>2. \A s \in Level(S, 0) : Sums(it, f, s)
    BY <2>1 DEF Sums
  <2>3. QED
    BY <2>1, <2>2
<1>2. ASSUME NEW n \in Nat, n \in B PROVE n + 1 \in B
  <2>1. PICK g \in [Level(S, n) -> Int] : \A s \in Level(S, n) : Sums(g, f, s)
    BY <1>2
  <2> DEFINE it == [s \in Level(S, n + 1) |-> IF s = {} THEN 0 ELSE f[Chosen(s)] + g[s \ {Chosen(s)}]]
  <2>2. ASSUME NEW s \in Level(S, n + 1), s # {}
        PROVE  s \ {Chosen(s)} \in Level(S, n) /\ Chosen(s) \in S
    BY <2>2, Levels, ChosenIn DEF Level
  <2>3. \A s \in Level(S, n + 1) : it[s] \in Int
    BY <2>1, <2>2
  <2>4. \A s \in Level(S, n) : s \in Level(S, n + 1) /\ it[s] = g[s]
    BY <2>1, Levels DEF Sums
  <2>5. \A s \in Level(S, n + 1) : Sums(it, f, s)
    BY <2>2, <2>4 DEF Sums
  <2> HIDE DEF it
  <2>6. it \in [Level(S, n + 1) -> Int]
    BY <2>3 DEF it
  <2>7. QED
    BY <2>5, <2>6
<1> HIDE DEF B
<1>3. \A n \in Nat : n \in B
  BY <1>1, <1>2, NumberInduction
<1>4. QED
  BY <1>3 DEF B

\* Two functions that sum f over all subsets of S agree on them.
LEMMA SumsUnique ==
  ASSUME NEW S, IsFiniteSet(S), NEW f, NEW g, NEW h,
         SumsAll(g, f, S), SumsAll(h, f, S)
  PROVE  \A s \in SUBSET S : g[s] = h[s]
<1>0. \A s \in SUBSET S : Sums(g, f, s) /\ Sums(h, f, s)
  BY DEF SumsAll
<1> DEFINE B == {n \in Nat : \A s \in Level(S, n) : g[s] = h[s]}
<1>1. 0 \in B
  BY <1>0, Levels DEF Sums
<1>2. ASSUME NEW n \in Nat, n \in B PROVE n + 1 \in B
  <2> SUFFICES ASSUME NEW s \in Level(S, n + 1) PROVE g[s] = h[s]
    OBVIOUS
  <2>1. s \in SUBSET S
    BY DEF Level
  <2>2. CASE s = {}
    BY <1>0, <2>1, <2>2 DEF Sums
  <2>3. CASE s # {}
    <3>1. g[s \ {Chosen(s)}] = h[s \ {Chosen(s)}]
      BY <1>2, <2>3, Levels, ChosenIn
    <3>2. QED
      BY <1>0, <2>1, <3>1 DEF Sums
  <2>4. QED
    BY <2>2, <2>3
<1> HIDE DEF B
<1>3. \A n \in Nat : n \in B
  BY <1>1, <1>2, NumberInduction
<1>4. QED
  BY <1>3, Levels DEF B

\* What the library's sum is, once its folds are expanded.
LEMMA SumIsFold ==
  ASSUME NEW S, NEW f
  PROVE  SumFunctionOnSet(f, S)
           = (CHOOSE it : it = [s \in SUBSET S |-> IF s = {} THEN 0 ELSE f[Chosen(s)] + it[s \ {Chosen(s)}]])[S]
BY DEF SumFunctionOnSet, FoldFunctionOnSet, MapThenFoldSet, Chosen

\* A sum is what a function that sums all subsets says of the whole set.
LEMMA SumExists ==
  ASSUME NEW S, IsFiniteSet(S), NEW f, \A x \in S : f[x] \in Int
  PROVE  \E it \in [SUBSET S -> Int] :
           /\ SumsAll(it, f, S)
           /\ SumFunctionOnSet(f, S) = it[S]
<1>1. PICK g \in [SUBSET S -> Int] : SumsAll(g, f, S)
  <2>1. Cardinality(S) \in Nat /\ Level(S, Cardinality(S)) = SUBSET S
    BY Levels
  <2>2. \A n \in Nat : \E it \in [Level(S, n) -> Int] : \A s \in Level(S, n) : Sums(it, f, s)
    BY SumLevel
  <2>3. QED
    BY <2>1, <2>2, Zenon DEF SumsAll
<1> DEFINE Is(it) == it = [s \in SUBSET S |-> IF s = {} THEN 0 ELSE f[Chosen(s)] + it[s \ {Chosen(s)}]]
           it     == CHOOSE h : Is(h)
<1>4. Is(g)
  BY <1>1 DEF Sums, SumsAll
<1>5. Is(it)
  <2> HIDE DEF Is
  <2>1. QED
    BY <1>4
<1>6. SumFunctionOnSet(f, S) = it[S]
  BY SumIsFold
<1>7. \A s \in SUBSET S : it[s] = IF s = {} THEN 0 ELSE f[Chosen(s)] + it[s \ {Chosen(s)}]
  <2> HIDE DEF it
  <2>1. QED
    BY <1>5
<1>8. SumsAll(it, f, S)
  BY <1>7 DEF Sums, SumsAll
<1> HIDE DEF it, Is
<1>9. \A s \in SUBSET S : it[s] = g[s]
  BY <1>1, <1>8, SumsUnique
<1>10. QED
  BY <1>1, <1>6, <1>9

\* A set may be summed over subset by subset.
LEMMA SumOfSubsets ==
  ASSUME NEW S, IsFiniteSet(S), NEW f, \A x \in S : f[x] \in Int, NEW it,
         SumsAll(it, f, S)
  PROVE  \A s \in SUBSET S : it[s] = SumFunctionOnSet(f, s) /\ it[s] \in Int
<1> TAKE s \in SUBSET S
<1>1. IsFiniteSet(s)
  BY FS_Subset
<1>2. PICK g \in [SUBSET s -> Int] : (SumsAll(g, f, s)) /\ SumFunctionOnSet(f, s) = g[s]
  BY <1>1, SumExists
<1>3. SumsAll(it, f, s)
  BY DEF SumsAll
<1>4. \A t \in SUBSET s : it[t] = g[t]
  BY <1>1, <1>2, <1>3, SumsUnique
<1>5. QED
  BY <1>2, <1>4

\* What a sum is, taken from its first element on.
LEMMA SumFirst ==
  ASSUME NEW S, IsFiniteSet(S), NEW f, \A x \in S : f[x] \in Int
  PROVE  /\ \A s \in SUBSET S : SumFunctionOnSet(f, s) \in Int
         /\ \A s \in SUBSET S :
              SumFunctionOnSet(f, s)
                = IF s = {} THEN 0 ELSE f[Chosen(s)] + SumFunctionOnSet(f, s \ {Chosen(s)})
<1>1. PICK it \in [SUBSET S -> Int] : SumsAll(it, f, S)
  BY SumExists
<1>2. \A s \in SUBSET S : it[s] = SumFunctionOnSet(f, s) /\ it[s] \in Int
  BY <1>1, SumOfSubsets
<1>3. \A s \in SUBSET S : s \ {Chosen(s)} \in SUBSET S
  OBVIOUS
<1>4. QED
  BY <1>1, <1>2, <1>3 DEF Sums, SumsAll

-----------------------------------------------------------------------------
(* The facts on sums that proofs cite *)

\* A sum of integers is one.
LEMMA SumType ==
  ASSUME NEW S, IsFiniteSet(S), NEW f, \A x \in S : f[x] \in Int
  PROVE  SumFunctionOnSet(f, S) \in Int
BY SumFirst

\* The sum over no element is 0.
LEMMA SumEmpty == ASSUME NEW f PROVE SumFunctionOnSet(f, {}) = 0
BY SumFirst, FS_EmptySet

\* Any element may be taken first.
LEMMA SumSplit ==
  ASSUME NEW S, IsFiniteSet(S), NEW f, \A x \in S : f[x] \in Int, NEW x \in S
  PROVE  SumFunctionOnSet(f, S) = f[x] + SumFunctionOnSet(f, S \ {x})
<1> DEFINE Sum(s) == SumFunctionOnSet(f, s)
           B == {n \in Nat : \A s \in Level(S, n) : \A y \in s : Sum(s) = f[y] + Sum(s \ {y})}
<1>0. /\ \A s \in SUBSET S : Sum(s) \in Int
      /\ \A s \in SUBSET S : s # {} => Sum(s) = f[Chosen(s)] + Sum(s \ {Chosen(s)})
  BY SumFirst
<1> HIDE DEF Sum
<1>1. 0 \in B
  BY Levels
<1>2. ASSUME NEW n \in Nat, n \in B PROVE n + 1 \in B
  <2> SUFFICES ASSUME NEW s \in Level(S, n + 1), NEW y \in s PROVE Sum(s) = f[y] + Sum(s \ {y})
    OBVIOUS
  <2> DEFINE z == Chosen(s)
  <2>1. s \in SUBSET S /\ z \in s
    BY ChosenIn DEF Level
  <2>2. Sum(s) = f[z] + Sum(s \ {z})
    BY <1>0, <2>1
  <2> HIDE DEF z
  <2>3. CASE y = z
    BY <2>2, <2>3
  <2>4. CASE y # z
    <3>1. s \ {z} \in Level(S, n) /\ s \ {y} \in Level(S, n)
      BY <2>1, Levels
    <3> y \in s \ {z} /\ z \in s \ {y}
      BY <2>1, <2>4
    <3>2. Sum(s \ {z}) = f[y] + Sum((s \ {z}) \ {y})
      BY <1>2, <3>1
    <3>3. Sum(s \ {y}) = f[z] + Sum((s \ {y}) \ {z})
      BY <1>2, <3>1
    <3>4. (s \ {y}) \ {z} = (s \ {z}) \ {y} /\ (s \ {y}) \ {z} \in SUBSET S
      BY <2>1
    <3> DEFINE rest == Sum((s \ {z}) \ {y})
    <3>5. f[y] \in Int /\ f[z] \in Int /\ rest \in Int
      BY <1>0, <2>1, <3>4
    <3>7. Sum(s) = f[z] + (f[y] + rest) /\ Sum(s \ {y}) = f[z] + rest
      BY <2>2, <3>2, <3>3, <3>4
    <3> HIDE DEF rest
    <3>6. QED
      BY <3>5, <3>7
  <2>5. QED
    BY <2>3, <2>4
<1> HIDE DEF B
<1>3. \A n \in Nat : n \in B
  BY <1>1, <1>2, NumberInduction
<1>4. S \in Level(S, Cardinality(S)) /\ Cardinality(S) \in Nat
  BY Levels
<1>5. QED
  BY <1>3, <1>4 DEF B, Sum

\* A sum depends on the values of the elements only.
LEMMA SumSame ==
  ASSUME NEW S, IsFiniteSet(S), NEW f, NEW g, \A x \in S : f[x] \in Int /\ f[x] = g[x]
  PROVE  SumFunctionOnSet(f, S) = SumFunctionOnSet(g, S)
<1>1. PICK it \in [SUBSET S -> Int] : SumsAll(it, f, S)
  BY SumExists
<1>2. SumsAll(it, g, S)
  BY <1>1, ChosenIn DEF Sums, SumsAll
<1>3. QED
  BY <1>1, <1>2, SumOfSubsets

\* One element changes, and the sum changes by as much.
LEMMA SumChange ==
  ASSUME NEW S, IsFiniteSet(S), NEW f, NEW g, NEW k \in S,
         \A x \in S : f[x] \in Int /\ g[x] \in Int,
         \A x \in S \ {k} : f[x] = g[x]
  PROVE  SumFunctionOnSet(g, S) = SumFunctionOnSet(f, S) + (g[k] - f[k])
<1>1. IsFiniteSet(S \ {k})
  BY FS_RemoveElement
<1>2. SumFunctionOnSet(f, S \ {k}) = SumFunctionOnSet(g, S \ {k}) /\ SumFunctionOnSet(f, S \ {k}) \in Int
  BY <1>1, SumSame, SumType
<1>3. /\ SumFunctionOnSet(f, S) = f[k] + SumFunctionOnSet(f, S \ {k})
      /\ SumFunctionOnSet(g, S) = g[k] + SumFunctionOnSet(g, S \ {k})
  BY SumSplit
<1>4. QED
  BY <1>2, <1>3

\* An element is added.
LEMMA SumAdd ==
  ASSUME NEW S, IsFiniteSet(S), NEW f, NEW k, k \notin S, \A x \in S \cup {k} : f[x] \in Int
  PROVE  SumFunctionOnSet(f, S \cup {k}) = f[k] + SumFunctionOnSet(f, S)
<1>1. IsFiniteSet(S \cup {k}) /\ (S \cup {k}) \ {k} = S
  BY FS_AddElement
<1>2. QED
  BY <1>1, SumSplit

\* Sums add up.
LEMMA SumPlus ==
  ASSUME NEW S, IsFiniteSet(S), NEW f, NEW g, NEW h,
         \A x \in S : f[x] \in Int /\ g[x] \in Int /\ h[x] = f[x] + g[x]
  PROVE  SumFunctionOnSet(h, S) = SumFunctionOnSet(f, S) + SumFunctionOnSet(g, S)
<1> DEFINE Adds(T) == SumFunctionOnSet(h, T) = SumFunctionOnSet(f, T) + SumFunctionOnSet(g, T)
           B == {T \in SUBSET S : Adds(T)}
<1>1. {} \in B
  BY SumEmpty
<1>2. ASSUME NEW T \in SUBSET S, NEW x \in S \ T, T \in B PROVE T \cup {x} \in B
  <2>1. IsFiniteSet(T) /\ \A y \in T \cup {x} : f[y] \in Int /\ g[y] \in Int /\ h[y] \in Int
    BY FS_Subset
  <2>2. /\ SumFunctionOnSet(f, T \cup {x}) = f[x] + SumFunctionOnSet(f, T)
        /\ SumFunctionOnSet(g, T \cup {x}) = g[x] + SumFunctionOnSet(g, T)
        /\ SumFunctionOnSet(h, T \cup {x}) = h[x] + SumFunctionOnSet(h, T)
    BY <2>1, SumAdd
  <2>3. SumFunctionOnSet(f, T) \in Int /\ SumFunctionOnSet(g, T) \in Int /\ Adds(T)
    BY <1>2, <2>1, SumType
  <2>4. QED
    BY <2>2, <2>3
<1> HIDE DEF B
<1>3. S \in B
  BY <1>1, <1>2, FiniteInduction
<1>4. QED
  BY <1>3 DEF B

\* What is left out of a sum may as well count for nothing.
LEMMA SumPart ==
  ASSUME NEW S, IsFiniteSet(S), NEW P \in SUBSET S, NEW f, NEW g,
         \A x \in P : f[x] \in Int, \A x \in S : g[x] = IF x \in P THEN f[x] ELSE 0
  PROVE  SumFunctionOnSet(f, P) = SumFunctionOnSet(g, S)
<1> DEFINE B == {T \in SUBSET S : SumFunctionOnSet(f, P \cap T) = SumFunctionOnSet(g, T)}
<1>1. {} \in B
  BY SumEmpty
<1>2. ASSUME NEW T \in SUBSET S, NEW x \in S \ T, T \in B PROVE T \cup {x} \in B
  <2>1. IsFiniteSet(T) /\ IsFiniteSet(P \cap T) /\ \A y \in S : g[y] \in Int
    BY FS_Subset
  <2>2. SumFunctionOnSet(g, T \cup {x}) = g[x] + SumFunctionOnSet(g, T) /\ SumFunctionOnSet(g, T) \in Int
    BY <2>1, SumAdd, SumType
  <2>3. CASE x \in P
    <3>1. P \cap (T \cup {x}) = (P \cap T) \cup {x} /\ x \notin P \cap T
      BY <2>3
    <3>2. SumFunctionOnSet(f, (P \cap T) \cup {x}) = f[x] + SumFunctionOnSet(f, P \cap T)
      BY <2>1, <2>3, SumAdd
    <3>3. SumFunctionOnSet(f, P \cap (T \cup {x})) = g[x] + SumFunctionOnSet(f, P \cap T)
      BY <2>3, <3>1, <3>2
    <3>4. SumFunctionOnSet(f, P \cap T) = SumFunctionOnSet(g, T)
      BY <1>2
    <3>5. SumFunctionOnSet(f, P \cap (T \cup {x})) = SumFunctionOnSet(g, T \cup {x})
      BY <2>2, <3>3, <3>4
    <3>6. QED
      BY <3>5
  <2>4. CASE x \notin P
    <3>1. P \cap (T \cup {x}) = P \cap T /\ g[x] = 0
      BY <2>4
    <3>2. SumFunctionOnSet(f, P \cap T) = SumFunctionOnSet(g, T)
      BY <1>2
    <3>3. SumFunctionOnSet(g, T \cup {x}) = SumFunctionOnSet(g, T)
      BY <2>2, <3>1
    <3>4. SumFunctionOnSet(f, P \cap (T \cup {x})) = SumFunctionOnSet(g, T \cup {x})
      BY <3>1, <3>2, <3>3
    <3>5. QED
      BY <3>4
  <2>5. QED
    BY <2>3, <2>4
<1> HIDE DEF B
<1>3. S \in B
  BY <1>1, <1>2, FiniteInduction
<1>4. P \cap S = P
  OBVIOUS
<1>5. QED
  BY <1>3, <1>4 DEF B

\* Nothing adds up to nothing.
LEMMA SumZero ==
  ASSUME NEW S, IsFiniteSet(S), NEW f, \A x \in S : f[x] = 0
  PROVE  SumFunctionOnSet(f, S) = 0
<1>1. SumFunctionOnSet(f, {}) = SumFunctionOnSet(f, S)
  BY SumPart
<1>2. QED
  BY <1>1, SumEmpty

\* A sum grows with its elements.
LEMMA SumMonotone ==
  ASSUME NEW S, IsFiniteSet(S), NEW f, NEW g, \A x \in S : f[x] \in Int /\ g[x] \in Int /\ f[x] <= g[x]
  PROVE  SumFunctionOnSet(f, S) <= SumFunctionOnSet(g, S)
<1> DEFINE B == {T \in SUBSET S : SumFunctionOnSet(f, T) <= SumFunctionOnSet(g, T)}
<1>1. {} \in B
  BY SumEmpty
<1>2. ASSUME NEW T \in SUBSET S, NEW x \in S \ T, T \in B PROVE T \cup {x} \in B
  <2>1. IsFiniteSet(T)
    BY FS_Subset
  <2>2. /\ SumFunctionOnSet(f, T \cup {x}) = f[x] + SumFunctionOnSet(f, T)
        /\ SumFunctionOnSet(g, T \cup {x}) = g[x] + SumFunctionOnSet(g, T)
    BY <2>1, SumAdd
  <2>3. SumFunctionOnSet(f, T) \in Int /\ SumFunctionOnSet(g, T) \in Int
    BY <2>1, SumType
  <2>4. f[x] <= g[x] /\ f[x] \in Int /\ g[x] \in Int /\ SumFunctionOnSet(f, T) <= SumFunctionOnSet(g, T)
    BY <1>2
  <2>5. SumFunctionOnSet(f, T \cup {x}) <= SumFunctionOnSet(g, T \cup {x})
    BY <2>2, <2>3, <2>4
  <2>6. QED
    BY <2>5
<1> HIDE DEF B
<1>3. S \in B
  BY <1>1, <1>2, FiniteInduction
<1>4. QED
  BY <1>3 DEF B

-----------------------------------------------------------------------------
(* Folds whose step is a function *)

\* it folds s, from base, by a function of an element and what has been folded;
\* c says which element of a set comes last.
Folded(it, base, step, c, s) == it[s] = IF s = {} THEN base ELSE step[<<c[s], it[s \ {c[s]}]>>]

Folds(it, base, step, c, S) == \A s \in SUBSET S : Folded(it, base, step, c, s)

Chooses(c, S) == \A s \in SUBSET S : s # {} => c[s] \in s

\* Some function folds the subsets up to each size.
LEMMA FoldLevel ==
  ASSUME NEW S, IsFiniteSet(S), NEW V, NEW base \in V, NEW step \in [S \X V -> V], NEW c, Chooses(c, S)
  PROVE  \A n \in Nat : \E it \in [Level(S, n) -> V] : \A s \in Level(S, n) : Folded(it, base, step, c, s)
<1> DEFINE B == {n \in Nat : \E it \in [Level(S, n) -> V] : \A s \in Level(S, n) : Folded(it, base, step, c, s)}
<1>1. 0 \in B
  <2> DEFINE it == [s \in Level(S, 0) |-> base]
  <2>1. it \in [Level(S, 0) -> V] /\ \A s \in Level(S, 0) : it[s] = base /\ s = {}
    BY Levels
  <2>2. \A s \in Level(S, 0) : Folded(it, base, step, c, s)
    BY <2>1 DEF Folded
  <2>3. QED
    BY <2>1, <2>2
<1>2. ASSUME NEW n \in Nat, n \in B PROVE n + 1 \in B
  <2>1. PICK g \in [Level(S, n) -> V] : \A s \in Level(S, n) : Folded(g, base, step, c, s)
    BY <1>2
  <2> DEFINE it == [s \in Level(S, n + 1) |-> IF s = {} THEN base ELSE step[<<c[s], g[s \ {c[s]}]>>]]
  <2>2. ASSUME NEW s \in Level(S, n + 1), s # {}
        PROVE  s \ {c[s]} \in Level(S, n) /\ c[s] \in S
    <3>1. c[s] \in s /\ s \in SUBSET S
      BY <2>2 DEF Level, Chooses
    <3>2. QED
      BY <3>1, Levels
  <2>3. \A s \in Level(S, n + 1) : it[s] \in V
    BY <2>1, <2>2
  <2>4. \A s \in Level(S, n) : s \in Level(S, n + 1) /\ it[s] = g[s]
    BY <2>1, Levels DEF Folded
  <2>5. \A s \in Level(S, n + 1) : Folded(it, base, step, c, s)
    BY <2>2, <2>4 DEF Folded
  <2> HIDE DEF it
  <2>6. it \in [Level(S, n + 1) -> V]
    BY <2>3 DEF it
  <2>7. QED
    BY <2>5, <2>6
<1> HIDE DEF B
<1>3. \A n \in Nat : n \in B
  BY <1>1, <1>2, NumberInduction
<1>4. QED
  BY <1>3 DEF B

\* Some function folds them all.
LEMMA FoldExists ==
  ASSUME NEW S, IsFiniteSet(S), NEW V, NEW base \in V, NEW step \in [S \X V -> V], NEW c, Chooses(c, S)
  PROVE  \E it \in [SUBSET S -> V] : Folds(it, base, step, c, S)
<1>1. Cardinality(S) \in Nat /\ Level(S, Cardinality(S)) = SUBSET S
  BY Levels
<1>2. \A n \in Nat : \E it \in [Level(S, n) -> V] : \A s \in Level(S, n) : Folded(it, base, step, c, s)
  BY FoldLevel
<1>3. QED
  BY <1>1, <1>2, Zenon DEF Folds

-----------------------------------------------------------------------------
(* Folds and sums over the positions of a sequence *)

LEMMA PositionsAreFinite == \A n \in Nat : IsFiniteSet(1..n)
<1> TAKE n \in Nat
<1>1. 1 \in Int /\ n \in Int
  OBVIOUS
<1>2. QED
  BY <1>1, FS_Interval

\* The element by which a fold over a sequence goes from the left.
Highest(s) == CHOOSE x \in s : \A y \in s : x >= y

LEMMA HasHighest ==
  ASSUME NEW n \in Nat, NEW s \in SUBSET (1..n), s # {}
  PROVE  \E x \in s : \A y \in s : x >= y
<1> DEFINE B == {t \in SUBSET s : t # {} => \E x \in t : \A y \in t : x >= y}
<1>1. {} \in B
  OBVIOUS
<1>2. ASSUME NEW t \in SUBSET s, NEW z \in s \ t, t \in B PROVE t \cup {z} \in B
  <2>1. CASE t = {}
    BY <2>1
  <2>2. CASE t # {}
    <3>1. PICK x \in t : \A y \in t : x >= y
      BY <1>2, <2>2
    <3>2. x \in Int /\ z \in Int /\ \A y \in t : y \in Int
      OBVIOUS
    <3>3. CASE x >= z
      BY <3>1, <3>2, <3>3
    <3>4. CASE z >= x
      BY <3>1, <3>2, <3>4
    <3>5. QED
      BY <3>2, <3>3, <3>4
  <2>3. QED
    BY <2>1, <2>2
<1>3. IsFiniteSet(s)
  BY PositionsAreFinite, FS_Subset
<1> HIDE DEF B
<1>4. s \in B
  BY <1>1, <1>2, <1>3, FiniteInduction
<1>5. QED
  BY <1>4 DEF B

LEMMA HighestIn ==
  ASSUME NEW n \in Nat, NEW s \in SUBSET (1..n), s # {}
  PROVE  Highest(s) \in s
BY HasHighest DEF Highest

LEMMA TopOfPrefix ==
  ASSUME NEW k \in Nat \ {0}
  PROVE  Highest(1..k) = k /\ (1..k) \ {k} = 1..(k - 1) /\ 1..k # {}
<1>1. k \in 1..k /\ \A y \in 1..k : k >= y
  OBVIOUS
<1>2. \A x \in 1..k : (\A y \in 1..k : x >= y) => x = k
  OBVIOUS
<1>3. QED
  BY <1>1, <1>2 DEF Highest

\* it folds sets of positions of a sequence, from base.
FoldsPositions(it, base, step, n) ==
  \A s \in SUBSET (1..n) : it[s] = IF s = {} THEN base ELSE step[<<Highest(s), it[s \ {Highest(s)}]>>]

\* path has what has been folded after each position.
PathOf(path, base, step, n, last) ==
  path[0] = base /\ path[n] = last /\ \A k \in 1..n : path[k] = step[<<k, path[k - 1]>>]

\* Some function folds the positions of a sequence.
LEMMA SequenceFoldExists ==
  ASSUME NEW n \in Nat, NEW V, NEW base \in V, NEW step \in [(1..n) \X V -> V]
  PROVE  \E it \in [SUBSET (1..n) -> V] : FoldsPositions(it, base, step, n)
<1> DEFINE c == [s \in SUBSET (1..n) |-> Highest(s)]
<1>1. Chooses(c, 1..n)
  BY HighestIn DEF Chooses
<1>2. \A s \in SUBSET (1..n) : c[s] = Highest(s)
  OBVIOUS
<1> HIDE DEF c
<1>3. PICK it \in [SUBSET (1..n) -> V] : Folds(it, base, step, c, 1..n)
  BY <1>1, PositionsAreFinite, FoldExists
<1>4. FoldsPositions(it, base, step, n)
  BY <1>2, <1>3 DEF Folds, Folded, FoldsPositions
<1>5. QED
  BY <1>3, <1>4

\* it folds the prefixes, as long as what it has folded is in V.
FoldsPrefixes(it, base, step, n, V) ==
  it[{}] = base /\ \A k \in 1..n : it[1..(k - 1)] \in V => it[1..k] = step[<<k, it[1..(k - 1)]>>]

\* What folds the positions of a sequence passes through the values on its way.
LEMMA FoldPath ==
  ASSUME NEW n \in Nat, NEW V, NEW base \in V, NEW step \in [(1..n) \X V -> V],
         NEW it, FoldsPrefixes(it, base, step, n, V)
  PROVE  \E path \in [0..n -> V] : PathOf(path, base, step, n, it[1..n])
<1> DEFINE B == {k \in Nat : k <= n => it[1..k] \in V}
           path == [k \in 0..n |-> it[1..k]]
<1>0. it[{}] = base /\ \A k \in 1..n : it[1..(k - 1)] \in V => it[1..k] = step[<<k, it[1..(k - 1)]>>]
  BY DEF FoldsPrefixes
<1>1. 1..0 = {}
  OBVIOUS
<1>2. 0 \in B
  BY <1>0, <1>1
<1>3. ASSUME NEW k \in Nat, k \in B PROVE k + 1 \in B
  <2> SUFFICES ASSUME k + 1 <= n PROVE it[1..(k + 1)] \in V
    OBVIOUS
  <2>1. k + 1 \in 1..n /\ (k + 1) - 1 = k /\ k <= n
    OBVIOUS
  <2>2. it[1..k] \in V
    BY <1>3, <2>1
  <2>3. it[1..(k + 1)] = step[<<k + 1, it[1..k]>>]
    BY <1>0, <2>1, <2>2
  <2>4. QED
    BY <2>1, <2>2, <2>3
<1> HIDE DEF B
<1>4. \A k \in Nat : k \in B
  BY <1>2, <1>3, NumberInduction
<1>5. \A k \in 0..n : it[1..k] \in V
  BY <1>4 DEF B
<1>6. \A k \in 1..n : k - 1 \in 0..n /\ k \in 0..n
  OBVIOUS
<1>7. /\ path \in [0..n -> V] /\ path[0] = base /\ path[n] = it[1..n]
      /\ \A k \in 1..n : path[k] = step[<<k, path[k - 1]>>]
  BY <1>0, <1>1, <1>5, <1>6
<1>8. QED
  BY <1>7 DEF PathOf

\* A sum over positions grows by the next one.
LEMMA SumNext ==
  ASSUME NEW n \in Nat, NEW f, \A k \in 1..(n + 1) : f[k] \in Int
  PROVE  SumFunctionOnSet(f, 1..(n + 1)) = SumFunctionOnSet(f, 1..n) + f[n + 1]
<1>1. 1..(n + 1) = (1..n) \cup {n + 1} /\ n + 1 \notin 1..n
  OBVIOUS
<1> DEFINE P == 1..n
           total == SumFunctionOnSet(f, P)
<1>2. IsFiniteSet(P) /\ \A k \in P : f[k] \in Int
  BY PositionsAreFinite
<1>3. f[n + 1] \in Int /\ \A k \in P \cup {n + 1} : f[k] \in Int
  OBVIOUS
<1>4. n + 1 \notin P
  OBVIOUS
<1> HIDE DEF P
<1>5. total \in Int
  BY <1>2, SumType
<1>6. SumFunctionOnSet(f, P \cup {n + 1}) = f[n + 1] + total
  BY <1>2, <1>3, <1>4, SumAdd
<1>7. 1..(n + 1) = P \cup {n + 1}
  BY <1>1 DEF P
<1> HIDE DEF total
<1>8. f[n + 1] + total = total + f[n + 1]
  BY <1>3, <1>5
<1>9. SumFunctionOnSet(f, 1..(n + 1)) = f[n + 1] + total
  BY <1>6, <1>7, Zenon
<1>10. QED
  BY <1>8, <1>9, Zenon DEF total, P

\* One position is left out, and those behind it move up.
LEMMA SumWithout ==
  ASSUME NEW n \in Nat, NEW i \in 1..(n + 1), NEW f, \A k \in 1..(n + 1) : f[k] \in Int,
         NEW g, \A k \in 1..n : g[k] = IF k < i THEN f[k] ELSE f[k + 1]
  PROVE  SumFunctionOnSet(g, 1..n) = SumFunctionOnSet(f, 1..(n + 1)) - f[i]
<1> DEFINE F(m) == SumFunctionOnSet(f, 1..m)
           G(m) == SumFunctionOnSet(g, 1..m)
           B == {m \in Nat : m <= n => G(m) = IF m < i THEN F(m) ELSE F(m + 1) - f[i]}
<1>1. \A k \in 1..n : g[k] \in Int
  OBVIOUS
<1>2. \A m \in Nat : m <= n => F(m) \in Int /\ F(m + 1) \in Int /\ G(m) \in Int
  <2> SUFFICES ASSUME NEW m \in Nat, m <= n PROVE F(m) \in Int /\ F(m + 1) \in Int /\ G(m) \in Int
    OBVIOUS
  <2>1. IsFiniteSet(1..m) /\ IsFiniteSet(1..(m + 1))
    BY PositionsAreFinite
  <2>2. /\ \A k \in 1..m : f[k] \in Int
        /\ \A k \in 1..(m + 1) : f[k] \in Int
        /\ \A k \in 1..m : g[k] \in Int
    BY <1>1
  <2>3. F(m) \in Int
    BY <2>1, <2>2, SumType
  <2>4. F(m + 1) \in Int
    BY <2>1, <2>2, SumType
  <2>5. G(m) \in Int
    BY <2>1, <2>2, SumType
  <2>6. QED
    BY <2>3, <2>4, <2>5
<1>3. \A m \in Nat : m <= n => F(m + 1) = F(m) + f[m + 1]
  BY SumNext
<1>4. \A m \in Nat : m + 1 <= n => G(m + 1) = G(m) + g[m + 1]
  BY <1>1, SumNext
<1>5. 0 \in B
  <2>1. 1..0 = {}
    OBVIOUS
  <2>2. F(0) = 0 /\ G(0) = 0
    BY <2>1, SumEmpty
  <2>3. QED
    BY <2>2
<1> HIDE DEF F, G
<1>6. ASSUME NEW m \in Nat, m \in B PROVE m + 1 \in B
  <2> SUFFICES ASSUME m + 1 <= n
               PROVE  G(m + 1) = IF m + 1 < i THEN F(m + 1) ELSE F(m + 1 + 1) - f[i]
    OBVIOUS
  <2>1. G(m) = IF m < i THEN F(m) ELSE F(m + 1) - f[i]
    BY <1>6
  <2>2. G(m + 1) = G(m) + (IF m + 1 < i THEN f[m + 1] ELSE f[m + 2])
    BY <1>4
  <2>3. F(m + 1) = F(m) + f[m + 1] /\ F(m + 1 + 1) = F(m + 1) + f[m + 2]
    BY <1>3
  <2>4. /\ F(m) \in Int /\ F(m + 1) \in Int /\ F(m + 1 + 1) \in Int /\ G(m) \in Int
        /\ f[m + 1] \in Int /\ f[m + 2] \in Int /\ f[i] \in Int
    BY <1>2
  <2>5. CASE m + 1 < i
    BY <2>1, <2>2, <2>3, <2>5
  <2>6. CASE m + 1 = i
    BY <2>1, <2>2, <2>3, <2>4, <2>6
  <2>7. CASE m + 1 > i
    BY <2>1, <2>2, <2>3, <2>4, <2>7
  <2>8. QED
    BY <2>5, <2>6, <2>7
<1> HIDE DEF B
<1>7. \A m \in Nat : m \in B
  BY <1>5, <1>6, NumberInduction
<1>8. G(n) = IF n < i THEN F(n) ELSE F(n + 1) - f[i]
  BY <1>7 DEF B
<1>9. CASE n < i
  <2>1. i = n + 1
    BY <1>9
  <2>2. QED
    BY <1>2, <1>3, <1>8, <2>1 DEF F, G
<1>10. CASE ~(n < i)
  BY <1>8, <1>10 DEF F, G
<1>11. QED
  BY <1>9, <1>10

=============================================================================

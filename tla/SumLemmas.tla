------------------------------ MODULE SumLemmas ------------------------------
(***************************************************************************)
(* What SumFunction of the community module Functions returns on functions *)
(* over finite sets: it can be unfolded at any index, it is additive and   *)
(* monotone, and an update of the function at one index changes it by the  *)
(* difference.  MinimalSubset and StepInduction are induction over finite  *)
(* sets and up to a number, for later proofs too.                          *)
(*                                                                         *)
(* SumFunction is a fold: a function on the subsets of the domain that is  *)
(* chosen to satisfy a recursion.  That such a function exists for a       *)
(* finite domain, and is unique, is proved first, by smallest              *)
(* counterexample on the subsets ordered by inclusion.                     *)
(***************************************************************************)
EXTENDS Integers, Functions, FiniteSetTheorems, WellFoundedInduction, TLAPS

\* A non-empty set of subsets of a finite set has a minimal element.
LEMMA MinimalSubset ==
    ASSUME NEW S, IsFiniteSet(S), NEW B \in SUBSET (SUBSET S), B # {}
    PROVE  \E T \in B : \A U \in B : U \subseteq T => U = T
<1>1. IsWellFoundedOn(StrictSubsetOrdering(S), SUBSET S)
  BY FS_StrictSubsetOrderingWellFounded, FS_FiniteSubsetsOfFinite
<1>2. PICK T \in B : \A U \in B : ~ (<<U, T>> \in StrictSubsetOrdering(S))
  BY <1>1, WFMin
<1>3. ASSUME NEW U \in B, U \subseteq T PROVE U = T
  BY <1>2, <1>3 DEF StrictSubsetOrdering
<1> QED BY <1>3

\* Induction up to n, on a set instead of a predicate.
LEMMA StepInduction ==
    ASSUME NEW n \in Nat, NEW G, 0 \in G, \A k \in 0..n : k < n /\ k \in G => k + 1 \in G
    PROVE  \A k \in 0..n : k \in G
<1> DEFINE Bad == (0..n) \ G
<1> SUFFICES ASSUME Bad # {} PROVE FALSE
  OBVIOUS
<1>1. PICK k \in Bad : \A m \in Bad : ~(m < k)
  <2>1. IsWellFoundedOn(OpToRel(<, Nat), Nat)
    BY NatLessThanWellFounded
  <2>2. Bad \subseteq Nat
    OBVIOUS
  <2> HIDE DEF Bad
  <2>3. PICK k \in Bad : \A m \in Bad : ~(<<m, k>> \in OpToRel(<, Nat))
    BY <2>1, <2>2, WFMin
  <2> QED BY <2>2, <2>3 DEF OpToRel
<1>2. k # 0 /\ k \in Nat /\ k <= n
  OBVIOUS
<1>3. k - 1 \in 0..n /\ k - 1 < k /\ k - 1 < n /\ (k - 1) + 1 = k
  BY <1>2
<1>4. k - 1 \in G
  BY <1>1, <1>3
<1> QED BY <1>3, <1>4

----------------------------------------------------------------------------
(* The recursion of the fold. *)

First(s) == CHOOSE x \in s : TRUE

SumStep(f, g, s) == IF s = {} THEN 0 ELSE f[First(s)] + g[s \ {First(s)}]

IsSum(g, f, S) == g = [s \in SUBSET S |-> SumStep(f, g, s)]

LEMMA SumIsChosen ==
    ASSUME NEW f, NEW S
    PROVE  SumFunctionOnSet(f, S) = (CHOOSE g : IsSum(g, f, S))[S]
  BY Zenon DEF SumFunctionOnSet, FoldFunctionOnSet, MapThenFoldSet, IsSum, SumStep, First

LEMMA FirstIn == ASSUME NEW s, s # {} PROVE First(s) \in s
  BY DEF First

\* Two functions that satisfy the recursion, on two finite sets, agree on the
\* subsets of both.
LEMMA SumUnique ==
    ASSUME NEW f, NEW S, NEW T, IsFiniteSet(S),
           NEW g, IsSum(g, f, S), NEW h, IsSum(h, f, T)
    PROVE  \A s \in SUBSET (S \cap T) : g[s] = h[s]
<1> DEFINE Bad == {s \in SUBSET S : s \subseteq T /\ g[s] # h[s]}
<1> SUFFICES ASSUME Bad # {} PROVE FALSE
  OBVIOUS
<1>1. PICK s \in Bad : \A r \in Bad : r \subseteq s => r = s
  <2>1. Bad \in SUBSET (SUBSET S)
    OBVIOUS
  <2> HIDE DEF Bad
  <2> QED BY <2>1, MinimalSubset
<1>2. g[s] = SumStep(f, g, s) /\ h[s] = SumStep(f, h, s)
  BY DEF IsSum
<1>3. s # {}
  BY <1>2 DEF SumStep
<1>4. First(s) \in s
  BY <1>3, FirstIn
<1>5. g[s \ {First(s)}] = h[s \ {First(s)}]
  BY <1>1, <1>4
<1> QED BY <1>2, <1>3, <1>5 DEF SumStep

\* The recursion has a solution on every finite set.
LEMMA SumExists ==
    ASSUME NEW f, NEW S, IsFiniteSet(S)
    PROVE  \E g : IsSum(g, f, S)
<1> DEFINE Bad == {s \in SUBSET S : ~ \E g : IsSum(g, f, s)}
<1> SUFFICES ASSUME Bad # {} PROVE FALSE
  OBVIOUS
<1>1. PICK T \in Bad : \A r \in Bad : r \subseteq T => r = T
  <2>1. Bad \in SUBSET (SUBSET S)
    OBVIOUS
  <2> HIDE DEF Bad
  <2> QED BY <2>1, MinimalSubset
<1> DEFINE G(s) == CHOOSE g : IsSum(g, f, s)
           V(s) == G(s)[s]
           h == [s \in SUBSET T |->
                   IF s = {} THEN 0 ELSE f[First(s)] + V(s \ {First(s)})]
<1>2. ASSUME NEW s \in SUBSET T, s # T PROVE IsSum(G(s), f, s)
  <2>1. \E g : IsSum(g, f, s)
    BY <1>1, <1>2
  <2> QED BY <2>1
<1>3. ASSUME NEW s \in SUBSET T, s # T PROVE h[s] = V(s)
  <2>1. V(s) = SumStep(f, G(s), s)
    <3>1. IsSum(G(s), f, s)
      BY <1>2, <1>3
    <3> HIDE DEF G
    <3>2. s \in SUBSET s
      OBVIOUS
    <3> QED BY <3>1, <3>2 DEF IsSum
  <2>2. CASE s = {}
    BY <2>1, <2>2 DEF SumStep
  <2>3. CASE s # {}
    <3> DEFINE r == s \ {First(s)}
    <3>1. First(s) \in s
      BY <2>3, FirstIn
    <3>2. r \in SUBSET T /\ r # T /\ r \subseteq s
      BY <1>3, <3>1
    <3>3. IsSum(G(s), f, s) /\ IsSum(G(r), f, r)
      BY <1>2, <1>3, <3>2
    <3>4. IsFiniteSet(s)
      BY FS_Subset, <1>1
    <3>5. G(s)[r] = G(r)[r]
      <4> HIDE DEF G, r
      <4>1. r \in SUBSET (s \cap r)
        BY <3>2
      <4> QED BY <3>3, <3>4, <4>1, SumUnique
    <3>6. V(s) = f[First(s)] + V(r)
      BY <2>1, <2>3, <3>5 DEF SumStep
    <3> QED BY <2>3, <3>6
  <2> QED BY <2>2, <2>3
<1>4. ASSUME NEW s \in SUBSET T PROVE h[s] = SumStep(f, h, s)
  <2>1. CASE s = {}
    BY <2>1 DEF SumStep
  <2>2. CASE s # {}
    <3> DEFINE r == s \ {First(s)}
    <3>1. First(s) \in s
      BY <2>2, FirstIn
    <3>2. r \in SUBSET T /\ r # T
      BY <3>1
    <3>3. h[r] = V(r)
      BY <1>3, <3>2
    <3> QED BY <2>2, <3>3 DEF SumStep
  <2> QED BY <2>1, <2>2
<1>5. h = [s \in SUBSET T |-> SumStep(f, h, s)]
  <2> HIDE DEF V
  <2>1. h = [s \in SUBSET T |-> h[s]]
    OBVIOUS
  <2> HIDE DEF h
  <2> QED BY <1>4, <2>1
<1> QED BY <1>1, <1>5 DEF IsSum

----------------------------------------------------------------------------
(* Unfolding. *)

LEMMA SumUnfoldFirst ==
    ASSUME NEW f, NEW S, IsFiniteSet(S)
    PROVE  SumFunctionOnSet(f, S) =
              IF S = {} THEN 0
              ELSE f[First(S)] + SumFunctionOnSet(f, S \ {First(S)})
<1> DEFINE R == S \ {First(S)}
           g == CHOOSE g : IsSum(g, f, S)
           h == CHOOSE h : IsSum(h, f, R)
<1>1. IsFiniteSet(R) /\ R \in SUBSET S /\ R \in SUBSET (S \cap R)
  BY FS_Subset
<1>2. IsSum(g, f, S) /\ IsSum(h, f, R)
  BY <1>1, SumExists
<1>3. SumFunctionOnSet(f, S) = g[S] /\ SumFunctionOnSet(f, R) = h[R]
  BY SumIsChosen
<1> HIDE DEF g, h, R
<1>4. g[R] = h[R]
  BY <1>1, <1>2, SumUnique
<1>5. g[S] = SumStep(f, g, S)
  BY <1>2 DEF IsSum
<1> QED BY <1>3, <1>4, <1>5 DEF SumStep, R

LEMMA SumEmpty == ASSUME NEW f PROVE SumFunctionOnSet(f, {}) = 0
  BY SumUnfoldFirst, FS_EmptySet

\* A sum of integers is an integer.
LEMMA SumInt ==
    ASSUME NEW S, IsFiniteSet(S), NEW f \in [S -> Int]
    PROVE  \A s \in SUBSET S : SumFunctionOnSet(f, s) \in Int
<1> DEFINE Bad == {s \in SUBSET S : SumFunctionOnSet(f, s) \notin Int}
<1> SUFFICES ASSUME Bad # {} PROVE FALSE
  OBVIOUS
<1>1. PICK s \in Bad : \A r \in Bad : r \subseteq s => r = s
  <2>1. Bad \in SUBSET (SUBSET S)
    OBVIOUS
  <2> HIDE DEF Bad
  <2> QED BY <2>1, MinimalSubset
<1>2. IsFiniteSet(s)
  BY FS_Subset
<1>3. s # {}
  BY SumEmpty
<1>4. First(s) \in s /\ First(s) \in S
  BY <1>3, FirstIn
<1>5. s \ {First(s)} \notin Bad /\ s \ {First(s)} \in SUBSET S
  BY <1>1, <1>4
<1>6. SumFunctionOnSet(f, s) = f[First(s)] + SumFunctionOnSet(f, s \ {First(s)})
  BY <1>2, <1>3, SumUnfoldFirst
<1> QED BY <1>4, <1>5, <1>6

\* The sum can be unfolded at any index: the order of the fold is immaterial.
LEMMA SumUnfold ==
    ASSUME NEW S, IsFiniteSet(S), NEW f \in [S -> Int]
    PROVE  \A s \in SUBSET S : \A x \in s :
              SumFunctionOnSet(f, s) = f[x] + SumFunctionOnSet(f, s \ {x})
<1> DEFINE Good(s) == \A x \in s :
                        SumFunctionOnSet(f, s) = f[x] + SumFunctionOnSet(f, s \ {x})
           Bad == {s \in SUBSET S : ~Good(s)}
<1> SUFFICES ASSUME Bad # {} PROVE FALSE
  OBVIOUS
<1>1. PICK s \in Bad : \A r \in Bad : r \subseteq s => r = s
  <2>1. Bad \in SUBSET (SUBSET S)
    OBVIOUS
  <2> HIDE DEF Bad
  <2> QED BY <2>1, MinimalSubset
<1>2. PICK x \in s : SumFunctionOnSet(f, s) # f[x] + SumFunctionOnSet(f, s \ {x})
  OBVIOUS
<1> DEFINE y == First(s)
<1>3. y \in s
  BY FirstIn
<1> HIDE DEF y
<1>4. SumFunctionOnSet(f, s) = f[y] + SumFunctionOnSet(f, s \ {y})
  BY FS_Subset, SumUnfoldFirst DEF y
<1>5. x # y
  BY <1>2, <1>4
<1>6. Good(s \ {x}) /\ Good(s \ {y})
  BY <1>1, <1>3
<1>7. /\ SumFunctionOnSet(f, s \ {y}) = f[x] + SumFunctionOnSet(f, (s \ {y}) \ {x})
      /\ SumFunctionOnSet(f, s \ {x}) = f[y] + SumFunctionOnSet(f, (s \ {x}) \ {y})
  BY <1>3, <1>5, <1>6
<1>8. (s \ {y}) \ {x} = (s \ {x}) \ {y}
  OBVIOUS
<1>9. /\ f[x] \in Int /\ f[y] \in Int
      /\ SumFunctionOnSet(f, (s \ {x}) \ {y}) \in Int
  <2>1. x \in S /\ y \in S /\ (s \ {x}) \ {y} \in SUBSET S
    BY <1>3
  <2> QED BY <2>1, SumInt
<1> DEFINE rest == SumFunctionOnSet(f, (s \ {x}) \ {y})
<1>10. /\ SumFunctionOnSet(f, s) = f[y] + (f[x] + rest)
       /\ f[x] + SumFunctionOnSet(f, s \ {x}) = f[x] + (f[y] + rest)
  BY <1>4, <1>7, <1>8
<1>11. rest \in Int
  BY <1>9
<1> HIDE DEF rest
<1>12. f[y] + (f[x] + rest) = f[x] + (f[y] + rest)
  BY <1>9, <1>11
<1> QED BY <1>2, <1>10, <1>12

----------------------------------------------------------------------------
(* Comparing and combining sums. *)

\* Pointwise order is the order of the sums.
LEMMA SumMonotone ==
    ASSUME NEW S, IsFiniteSet(S), NEW f \in [S -> Int], NEW g \in [S -> Int],
           \A x \in S : f[x] <= g[x]
    PROVE  \A s \in SUBSET S : SumFunctionOnSet(f, s) <= SumFunctionOnSet(g, s)
<1> DEFINE Bad == {s \in SUBSET S : ~(SumFunctionOnSet(f, s) <= SumFunctionOnSet(g, s))}
<1> SUFFICES ASSUME Bad # {} PROVE FALSE
  OBVIOUS
<1>1. PICK s \in Bad : \A r \in Bad : r \subseteq s => r = s
  <2>1. Bad \in SUBSET (SUBSET S)
    OBVIOUS
  <2> HIDE DEF Bad
  <2> QED BY <2>1, MinimalSubset
<1>2. s # {}
  BY SumEmpty
<1>3. PICK x \in s : TRUE
  BY <1>2
<1>4. s \ {x} \in SUBSET S /\ s \ {x} \notin Bad
  BY <1>1
<1>5. /\ SumFunctionOnSet(f, s) = f[x] + SumFunctionOnSet(f, s \ {x})
      /\ SumFunctionOnSet(g, s) = g[x] + SumFunctionOnSet(g, s \ {x})
  BY SumUnfold
<1>6. /\ SumFunctionOnSet(f, s \ {x}) \in Int /\ SumFunctionOnSet(g, s \ {x}) \in Int
      /\ f[x] \in Int /\ g[x] \in Int /\ f[x] <= g[x]
  BY <1>4, SumInt
<1>7. SumFunctionOnSet(f, s \ {x}) <= SumFunctionOnSet(g, s \ {x})
  BY <1>4
<1>8. SumFunctionOnSet(f, s) <= SumFunctionOnSet(g, s)
  BY <1>5, <1>6, <1>7
<1> QED BY <1>8

\* Functions that agree on the indices have one sum.
LEMMA SumEqual ==
    ASSUME NEW S, IsFiniteSet(S), NEW f \in [S -> Int], NEW g \in [S -> Int],
           NEW s \in SUBSET S, \A x \in s : f[x] = g[x]
    PROVE  SumFunctionOnSet(f, s) = SumFunctionOnSet(g, s)
<1> DEFINE Bad == {r \in SUBSET s : SumFunctionOnSet(f, r) # SumFunctionOnSet(g, r)}
<1> SUFFICES ASSUME Bad # {} PROVE FALSE
  OBVIOUS
<1>1. PICK r \in Bad : \A q \in Bad : q \subseteq r => q = r
  <2>1. Bad \in SUBSET (SUBSET S)
    OBVIOUS
  <2> HIDE DEF Bad
  <2> QED BY <2>1, MinimalSubset
<1>2. r # {}
  BY SumEmpty
<1>3. PICK x \in r : TRUE
  BY <1>2
<1>4. r \ {x} \notin Bad
  BY <1>1
<1>5. /\ SumFunctionOnSet(f, r) = f[x] + SumFunctionOnSet(f, r \ {x})
      /\ SumFunctionOnSet(g, r) = g[x] + SumFunctionOnSet(g, r \ {x})
  BY SumUnfold
<1> QED BY <1>4, <1>5

\* The sum of a pointwise sum is the sum of the sums.
LEMMA SumPlus ==
    ASSUME NEW S, IsFiniteSet(S), NEW f \in [S -> Int], NEW g \in [S -> Int],
           NEW h \in [S -> Int], \A x \in S : h[x] = f[x] + g[x]
    PROVE  \A s \in SUBSET S :
              SumFunctionOnSet(h, s) = SumFunctionOnSet(f, s) + SumFunctionOnSet(g, s)
<1> DEFINE Bad == {s \in SUBSET S :
              SumFunctionOnSet(h, s) # SumFunctionOnSet(f, s) + SumFunctionOnSet(g, s)}
<1> SUFFICES ASSUME Bad # {} PROVE FALSE
  OBVIOUS
<1>1. PICK s \in Bad : \A r \in Bad : r \subseteq s => r = s
  <2>1. Bad \in SUBSET (SUBSET S)
    OBVIOUS
  <2> HIDE DEF Bad
  <2> QED BY <2>1, MinimalSubset
<1>2. s # {}
  <2>1. SumFunctionOnSet(h, {}) = SumFunctionOnSet(f, {}) + SumFunctionOnSet(g, {})
    <3>1. SumFunctionOnSet(h, {}) = 0 /\ SumFunctionOnSet(f, {}) = 0
          /\ SumFunctionOnSet(g, {}) = 0
      BY SumEmpty
    <3> QED BY <3>1
  <2> QED BY <2>1
<1>3. PICK x \in s : TRUE
  BY <1>2
<1>4. s \ {x} \in SUBSET S /\ s \ {x} \notin Bad
  BY <1>1
<1>5. /\ SumFunctionOnSet(f, s) = f[x] + SumFunctionOnSet(f, s \ {x})
      /\ SumFunctionOnSet(g, s) = g[x] + SumFunctionOnSet(g, s \ {x})
      /\ SumFunctionOnSet(h, s) = h[x] + SumFunctionOnSet(h, s \ {x})
  BY SumUnfold
<1>6. /\ SumFunctionOnSet(f, s \ {x}) \in Int /\ SumFunctionOnSet(g, s \ {x}) \in Int
      /\ f[x] \in Int /\ g[x] \in Int /\ h[x] = f[x] + g[x]
  BY <1>4, SumInt
<1>7. SumFunctionOnSet(h, s \ {x})
        = SumFunctionOnSet(f, s \ {x}) + SumFunctionOnSet(g, s \ {x})
  BY <1>4
<1>8. SumFunctionOnSet(h, s) = SumFunctionOnSet(f, s) + SumFunctionOnSet(g, s)
  BY <1>5, <1>6, <1>7
<1> QED BY <1>8

\* A common factor can be taken out.
LEMMA SumTimes ==
    ASSUME NEW S, IsFiniteSet(S), NEW f \in [S -> Int], NEW c \in Int,
           NEW h \in [S -> Int], \A x \in S : h[x] = c * f[x]
    PROVE  \A s \in SUBSET S : SumFunctionOnSet(h, s) = c * SumFunctionOnSet(f, s)
<1> DEFINE Bad == {s \in SUBSET S : SumFunctionOnSet(h, s) # c * SumFunctionOnSet(f, s)}
<1> SUFFICES ASSUME Bad # {} PROVE FALSE
  OBVIOUS
<1>1. PICK s \in Bad : \A r \in Bad : r \subseteq s => r = s
  <2>1. Bad \in SUBSET (SUBSET S)
    OBVIOUS
  <2> HIDE DEF Bad
  <2> QED BY <2>1, MinimalSubset
<1>2. s # {}
  <2>1. SumFunctionOnSet(h, {}) = 0 /\ SumFunctionOnSet(f, {}) = 0
    BY SumEmpty
  <2>2. SumFunctionOnSet(h, {}) = c * SumFunctionOnSet(f, {})
    BY <2>1
  <2> QED BY <2>2
<1>3. PICK x \in s : TRUE
  BY <1>2
<1> DEFINE a == SumFunctionOnSet(f, s \ {x})
<1>4. s \ {x} \in SUBSET S /\ s \ {x} \notin Bad
  BY <1>1
<1>5. /\ SumFunctionOnSet(f, s) = f[x] + a
      /\ SumFunctionOnSet(h, s) = c * f[x] + c * a
  <2>1. SumFunctionOnSet(h, s \ {x}) = c * a
    BY <1>4
  <2>2. /\ SumFunctionOnSet(f, s) = f[x] + a
        /\ SumFunctionOnSet(h, s) = h[x] + SumFunctionOnSet(h, s \ {x})
    BY SumUnfold
  <2>3. h[x] = c * f[x]
    OBVIOUS
  <2> QED BY <2>1, <2>2, <2>3
<1>6. f[x] \in Int /\ a \in Int
  BY <1>4, SumInt
<1> HIDE DEF a
<1>7. c * (f[x] + a) = c * f[x] + c * a
  BY <1>6
<1>8. SumFunctionOnSet(h, s) = c * SumFunctionOnSet(f, s)
  BY <1>5, <1>7
<1> QED BY <1>8

----------------------------------------------------------------------------
(* The sum of a whole function. *)

LEMMA SumIsInt ==
    ASSUME NEW S, IsFiniteSet(S), NEW f \in [S -> Int]
    PROVE  SumFunction(f) \in Int
  BY SumInt DEF SumFunction

\* Changing a function at one index changes the sum by the difference.
LEMMA SumUpdate ==
    ASSUME NEW S, IsFiniteSet(S), NEW f \in [S -> Int], NEW g \in [S -> Int],
           NEW x \in S, \A y \in S \ {x} : g[y] = f[y]
    PROVE  SumFunction(g) = SumFunction(f) + g[x] - f[x]
<1> DEFINE R == S \ {x}
           a == SumFunctionOnSet(f, R)
<1>1. R \in SUBSET S /\ S \in SUBSET S
  OBVIOUS
<1>2. SumFunctionOnSet(g, R) = a
  BY <1>1, SumEqual
<1>3. SumFunction(f) = f[x] + a /\ SumFunction(g) = g[x] + SumFunctionOnSet(g, R)
  BY <1>1, SumUnfold DEF SumFunction
<1>4. a \in Int /\ f[x] \in Int /\ g[x] \in Int
  BY <1>1, SumInt
<1> HIDE DEF a, R
<1> QED BY <1>2, <1>3, <1>4

LEMMA SumOfSums ==
    ASSUME NEW S, IsFiniteSet(S), NEW f \in [S -> Int], NEW g \in [S -> Int],
           NEW h \in [S -> Int], \A x \in S : h[x] = f[x] + g[x]
    PROVE  SumFunction(h) = SumFunction(f) + SumFunction(g)
<1>1. SumFunctionOnSet(h, S) = SumFunctionOnSet(f, S) + SumFunctionOnSet(g, S)
  BY SumPlus
<1> QED BY <1>1 DEF SumFunction

LEMMA SumFactor ==
    ASSUME NEW S, IsFiniteSet(S), NEW f \in [S -> Int], NEW c \in Int,
           NEW h \in [S -> Int], \A x \in S : h[x] = c * f[x]
    PROVE  SumFunction(h) = c * SumFunction(f)
<1>1. SumFunctionOnSet(h, S) = c * SumFunctionOnSet(f, S)
  BY SumTimes
<1> QED BY <1>1 DEF SumFunction

LEMMA SumOrder ==
    ASSUME NEW S, IsFiniteSet(S), NEW f \in [S -> Int], NEW g \in [S -> Int],
           \A x \in S : f[x] <= g[x]
    PROVE  SumFunction(f) <= SumFunction(g)
<1>1. SumFunctionOnSet(f, S) <= SumFunctionOnSet(g, S)
  BY SumMonotone
<1> QED BY <1>1 DEF SumFunction

\* The same for two functions on each side.
LEMMA SumsOrder ==
    ASSUME NEW S, IsFiniteSet(S), NEW f \in [S -> Int], NEW g \in [S -> Int],
           NEW h \in [S -> Int], NEW k \in [S -> Int],
           \A x \in S : f[x] + g[x] <= h[x] + k[x]
    PROVE  SumFunction(f) + SumFunction(g) <= SumFunction(h) + SumFunction(k)
<1> DEFINE low == [x \in S |-> f[x] + g[x]]
           high == [x \in S |-> h[x] + k[x]]
<1>1. /\ low \in [S -> Int] /\ high \in [S -> Int]
      /\ \A x \in S : low[x] = f[x] + g[x]
      /\ \A x \in S : high[x] = h[x] + k[x]
      /\ \A x \in S : low[x] <= high[x]
  OBVIOUS
<1> HIDE DEF low, high
<1>2. SumFunction(low) = SumFunction(f) + SumFunction(g)
  BY <1>1, SumOfSums
<1>3. SumFunction(high) = SumFunction(h) + SumFunction(k)
  BY <1>1, SumOfSums
<1> QED BY <1>1, <1>2, <1>3, SumOrder

LEMMA SumZero ==
    ASSUME NEW S, IsFiniteSet(S), NEW f \in [S -> Int], \A x \in S : f[x] = 0
    PROVE  SumFunction(f) = 0
<1> DEFINE a == SumFunction(f)
<1>1. a = a + a
  BY SumOfSums
<1>2. a \in Int
  BY SumIsInt
<1> HIDE DEF a
<1>3. a = 0
  BY <1>1, <1>2
<1> QED BY <1>3 DEF a

\* In the table g, row is the one of x, and before and after are the sums of the
\* columns over s without and with it.
RowOf(g, S, T, s, x, row, before, after) ==
    /\ g \in [T -> [S -> Int]]
    /\ row \in [T -> Int] /\ before \in [T -> Int] /\ after \in [T -> Int]
    /\ \A y \in T : /\ row[y] = g[y][x]
                    /\ before[y] = SumFunctionOnSet(g[y], s \ {x})
                    /\ after[y] = SumFunctionOnSet(g[y], s)

\* One row of a table can be taken out of the sums of its columns.
LEMMA SumRow ==
    ASSUME NEW S, IsFiniteSet(S), NEW T, IsFiniteSet(T), NEW s \in SUBSET S, NEW x \in s,
           NEW g, NEW row, NEW before, NEW after, RowOf(g, S, T, s, x, row, before, after)
    PROVE  SumFunction(after) = SumFunction(row) + SumFunction(before)
<1> row \in [T -> Int] /\ before \in [T -> Int] /\ after \in [T -> Int]
  BY DEF RowOf
<1>1. ASSUME NEW y \in T PROVE after[y] = row[y] + before[y]
  <2> DEFINE h == g[y]
  <2>1. h \in [S -> Int]
    BY DEF RowOf
  <2>2. /\ row[y] = h[x]
        /\ before[y] = SumFunctionOnSet(h, s \ {x})
        /\ after[y] = SumFunctionOnSet(h, s)
    BY DEF RowOf
  <2> HIDE DEF h
  <2>3. SumFunctionOnSet(h, s) = h[x] + SumFunctionOnSet(h, s \ {x})
    BY <2>1, SumUnfold
  <2> QED BY <2>2, <2>3
<1> QED BY <1>1, SumOfSums

\* The table g is t with rows and columns exchanged.
Transposed(t, g, S, T) ==
    /\ t \in [S -> [T -> Int]] /\ g \in [T -> [S -> Int]]
    /\ \A x \in S, y \in T : g[y][x] = t[x][y]

\* Rows first or columns first: a table has one sum.
LEMMA SumSwap ==
    ASSUME NEW S, IsFiniteSet(S), NEW T, IsFiniteSet(T), NEW t, NEW g, Transposed(t, g, S, T),
           NEW rows \in [S -> Int], \A x \in S : rows[x] = SumFunction(t[x]),
           NEW columns \in [T -> Int], \A y \in T : columns[y] = SumFunction(g[y])
    PROVE  SumFunction(rows) = SumFunction(columns)
<1> DEFINE part(s) == [y \in T |-> SumFunctionOnSet(g[y], s)]
           Bad == {s \in SUBSET S : SumFunctionOnSet(rows, s) # SumFunction(part(s))}
<1>1. ASSUME NEW s \in SUBSET S
      PROVE  part(s) \in [T -> Int] /\ \A y \in T : part(s)[y] = SumFunctionOnSet(g[y], s)
  BY SumInt DEF Transposed
<1> HIDE DEF part
<1>2. Bad = {}
  <2> SUFFICES ASSUME Bad # {} PROVE FALSE
    OBVIOUS
  <2>1. PICK s \in Bad : \A r \in Bad : r \subseteq s => r = s
    <3>1. Bad \in SUBSET (SUBSET S)
      OBVIOUS
    <3> HIDE DEF Bad
    <3> QED BY <3>1, MinimalSubset
  <2>2. s # {}
    <3>1. part({}) \in [T -> Int] /\ \A y \in T : part({})[y] = 0
      BY <1>1, SumEmpty
    <3>2. SumFunction(part({})) = 0
      BY <3>1, SumZero
    <3>3. SumFunctionOnSet(rows, {}) = 0
      BY SumEmpty
    <3> QED BY <3>2, <3>3
  <2>3. PICK x \in s : TRUE
    BY <2>2
  <2>4. s \in SUBSET S /\ s \ {x} \in SUBSET S /\ s \ {x} \notin Bad /\ x \in S
    BY <2>1
  <2>5. SumFunctionOnSet(rows, s) = rows[x] + SumFunctionOnSet(rows, s \ {x})
    BY <2>4, SumUnfold
  <2>6. SumFunction(part(s)) = rows[x] + SumFunction(part(s \ {x}))
    <3>1. g \in [T -> [S -> Int]] /\ t[x] \in [T -> Int] /\ \A y \in T : t[x][y] = g[y][x]
      BY <2>4 DEF Transposed
    <3> DEFINE row == t[x]
               before == part(s \ {x})
               after == part(s)
    <3>2. /\ before \in [T -> Int] /\ after \in [T -> Int] /\ row \in [T -> Int]
          /\ rows[x] = SumFunction(row)
      BY <1>1, <2>4, <3>1
    <3>3. ASSUME NEW y \in T
          PROVE  /\ row[y] = g[y][x]
                 /\ before[y] = SumFunctionOnSet(g[y], s \ {x})
                 /\ after[y] = SumFunctionOnSet(g[y], s)
      BY <1>1, <2>4, <3>1
    <3>4. RowOf(g, S, T, s, x, row, before, after)
      BY <3>1, <3>2, <3>3 DEF RowOf
    <3>5. s \in SUBSET S /\ x \in s
      BY <2>4
    <3> HIDE DEF row, before, after, Bad
    <3>6. SumFunction(after) = SumFunction(row) + SumFunction(before)
      BY <3>4, <3>5, SumRow
    <3> QED BY <3>2, <3>6 DEF before, after
  <2>7. SumFunctionOnSet(rows, s \ {x}) = SumFunction(part(s \ {x}))
    BY <2>4
  <2>8. SumFunctionOnSet(rows, s) # SumFunction(part(s))
    BY <2>1
  <2> QED BY <2>5, <2>6, <2>7, <2>8
<1>3. SumFunction(rows) = SumFunction(part(S))
  BY <1>2 DEF SumFunction
<1>4. \A y \in T : part(S)[y] = columns[y]
  BY <1>1 DEF SumFunction, Transposed
<1>5. part(S) = columns
  BY <1>1, <1>4
<1> QED BY <1>3, <1>5

\* Naturals sum to a natural that no single value exceeds.
LEMMA SumOfNat ==
    ASSUME NEW S, IsFiniteSet(S), NEW f \in [S -> Nat]
    PROVE  SumFunction(f) \in Nat /\ \A x \in S : f[x] <= SumFunction(f)
<1>1. f \in [S -> Int]
  OBVIOUS
<1>2. SumFunction(f) \in Nat
  <2> DEFINE z == [x \in S |-> 0]
  <2>1. z \in [S -> Int] /\ \A x \in S : z[x] = 0 /\ z[x] <= f[x]
    OBVIOUS
  <2> HIDE DEF z
  <2>2. SumFunction(z) = 0 /\ SumFunction(z) <= SumFunction(f)
    BY <1>1, <2>1, SumZero, SumOrder
  <2>3. SumFunction(f) \in Int
    BY <1>1, SumIsInt
  <2> QED BY <2>2, <2>3
<1>3. ASSUME NEW x \in S PROVE f[x] <= SumFunction(f)
  <2> DEFINE z == [y \in S |-> IF y = x THEN f[x] ELSE 0]
             o == [y \in S |-> 0]
  <2>1. /\ z \in [S -> Int] /\ \A y \in S : z[y] <= f[y]
        /\ o \in [S -> Int] /\ \A y \in S : o[y] = 0
        /\ \A y \in S \ {x} : z[y] = o[y]
        /\ z[x] = f[x] /\ f[x] \in Int
    OBVIOUS
  <2> HIDE DEF z, o
  <2>2. SumFunction(z) <= SumFunction(f)
    BY <1>1, <2>1, SumOrder
  <2>3. SumFunction(z) = SumFunction(o) + z[x] - o[x]
    BY <2>1, SumUpdate
  <2>4. SumFunction(o) = 0 /\ o[x] = 0
    BY <2>1, SumZero
  <2> QED BY <2>1, <2>2, <2>3, <2>4
<1> QED BY <1>2, <1>3

\* A sum of ones counts.
LEMMA SumCounts ==
    ASSUME NEW S, IsFiniteSet(S), NEW f \in [S -> Int], \A x \in S : f[x] = 1
    PROVE  SumFunction(f) = Cardinality(S)
<1> DEFINE Bad == {s \in SUBSET S : SumFunctionOnSet(f, s) # Cardinality(s)}
<1>1. ASSUME Bad # {} PROVE FALSE
  <2>1. PICK s \in Bad : \A r \in Bad : r \subseteq s => r = s
    <3>1. Bad \in SUBSET (SUBSET S)
      OBVIOUS
    <3> HIDE DEF Bad
    <3> QED BY <1>1, <3>1, MinimalSubset
  <2>2. s \in SUBSET S /\ SumFunctionOnSet(f, s) # Cardinality(s)
    OBVIOUS
  <2>3. IsFiniteSet(s)
    BY <2>2, FS_Subset
  <2>4. PICK x \in s : TRUE
    <3>1. SumFunctionOnSet(f, {}) = 0 /\ Cardinality({}) = 0
      BY SumEmpty, FS_EmptySet
    <3> QED BY <2>2, <3>1
  <2>5. s \ {x} \in SUBSET S /\ SumFunctionOnSet(f, s \ {x}) = Cardinality(s \ {x})
    <3>1. s \ {x} \in SUBSET S /\ s \ {x} \notin Bad
      BY <2>1
    <3> QED BY <3>1
  <2> HIDE DEF Bad
  <2>6. SumFunctionOnSet(f, s) = f[x] + SumFunctionOnSet(f, s \ {x}) /\ f[x] = 1
    BY <2>2, <2>4, SumUnfold
  <2>7. Cardinality(s \ {x}) = Cardinality(s) - 1 /\ Cardinality(s) \in Nat
    BY <2>3, <2>4, FS_RemoveElement, FS_CardinalityType
  <2> QED BY <2>2, <2>5, <2>6, <2>7
<1>2. SumFunctionOnSet(f, S) = Cardinality(S)
  BY <1>1
<1> QED BY <1>2 DEF SumFunction

=============================================================================

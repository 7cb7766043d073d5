------------------------------- MODULE SumProofs -------------------------------
(***************************************************************************)
(* Lemmas about sums over finite sets, of which the risk engine's gross    *)
(* notional and the net effect of a proposal's legs are made.  A sum is    *)
(* defined by recursion on the set; the lemmas are proved by induction on  *)
(* its size, where the property to be shown is given as a set.             *)
(***************************************************************************)
EXTENDS Functions, FiniteSets, FiniteSetTheorems, NaturalsInduction, TLAPS

\* What 0 and the successors of its members belong to has all natural numbers.
LEMMA InductionOverNat ==
  ASSUME NEW P, 0 \in P, \A n \in Nat : n \in P => n + 1 \in P
  PROVE  Nat \subseteq P
  <1> SUFFICES ASSUME Nat \ P # {} PROVE FALSE
    OBVIOUS
  <1> DEFINE R == {ss \in Nat \X Nat : ss[1] < ss[2]}
  <1>1. IsWellFoundedOn(R, Nat)
    BY NatLessThanWellFounded DEF OpToRel
  <1>2. PICK m \in Nat \ P : \A n \in Nat \ P : <<n, m>> \notin R
    <2> HIDE DEF R
    <2>1. QED
      BY <1>1, WFMin
  <1>3. m # 0 /\ m - 1 \in Nat /\ m - 1 < m
    BY <1>2
  <1>4. m - 1 \in P
    BY <1>2, <1>3
  <1>5. (m - 1) + 1 \in P
    BY <1>3, <1>4
  <1>6. QED
    BY <1>2, <1>5

\* The element that a sum over s adds first.
First(s) == CHOOSE x \in s : TRUE

\* It is an element.
LEMMA FirstIsIn == \A s : s # {} => First(s) \in s
  BY DEF First

\* What has a set when it has the set less any of its elements, has all subsets.
LEMMA InductionOverSubsets ==
  ASSUME NEW S, IsFiniteSet(S), NEW Good,
         \A s \in SUBSET S : (\A x \in s : s \ {x} \in Good) => s \in Good
  PROVE  SUBSET S \subseteq Good
  <1> DEFINE P == {n \in Nat : \A s \in SUBSET S : Cardinality(s) = n => s \in Good}
  <1>1. \A s \in SUBSET S : IsFiniteSet(s) /\ Cardinality(s) \in Nat
    BY FS_Subset, FS_CardinalityType
  <1>2. 0 \in P
    <2>1. \A s \in SUBSET S : Cardinality(s) = 0 => s = {}
      BY <1>1, FS_EmptySet
    <2>2. QED
      BY <2>1
  <1>3. ASSUME NEW n \in Nat, n \in P, NEW s \in SUBSET S, Cardinality(s) = n + 1 PROVE s \in Good
    <2>1. ASSUME NEW x \in s PROVE s \ {x} \in Good
      <3>1. Cardinality(s \ {x}) = Cardinality(s) - 1
        BY <1>1, FS_RemoveElement
      <3>2. s \ {x} \in SUBSET S /\ Cardinality(s \ {x}) = n
        BY <1>3, <3>1
      <3>3. QED
        BY <1>3, <3>2
    <2>2. QED
      BY <2>1
  <1>4. \A n \in Nat : n \in P => n + 1 \in P
    BY <1>3
  <1> HIDE DEF P
  <1>5. Nat \subseteq P
    BY <1>2, <1>4, InductionOverNat
  <1>6. QED
    BY <1>1, <1>5 DEF P

-------------------------------------------------------------------------------
(* The recursion                                                              *)

\* What the sum of f over s is, if g has the sums over the subsets of s.
Step(g, f, s) == IF s = {} THEN 0 ELSE f[First(s)] + g[s \ {First(s)}]
\* g has the sums of f over all subsets of S.
Sums(g, f, S) == g = [s \in SUBSET S |-> Step(g, f, s)]

\* Some g has those over the subsets of at most n elements.
SumsUpTo(n, f, S) ==
  \E g : /\ g = [s \in SUBSET S |-> g[s]]
         /\ \A s \in SUBSET S : Cardinality(s) <= n => g[s] = Step(g, f, s)

\* The sums exist.
LEMMA SumsExist ==
  ASSUME NEW f, NEW S, IsFiniteSet(S)
  PROVE  \E g : Sums(g, f, S)
  <1> DEFINE P == {n \in Nat : SumsUpTo(n, f, S)}
  <1>1. \A s \in SUBSET S : IsFiniteSet(s) /\ Cardinality(s) \in Nat
                            /\ (s # {} => /\ Cardinality(s) # 0
                                          /\ s \ {First(s)} \in SUBSET S
                                          /\ Cardinality(s \ {First(s)}) = Cardinality(s) - 1)
    BY FS_Subset, FS_CardinalityType, FS_EmptySet, FS_RemoveElement DEF First
  <1>2. 0 \in P
    <2> DEFINE g == [s \in SUBSET S |-> 0]
    <2>0. \A s \in SUBSET S : Cardinality(s) \in Nat /\ (s # {} => Cardinality(s) # 0)
      BY <1>1
    <2>1. \A s \in SUBSET S : Cardinality(s) <= 0 => s = {} /\ g[s] = 0
      BY <2>0
    <2>2. g = [s \in SUBSET S |-> g[s]]
      OBVIOUS
    <2> HIDE DEF g
    <2>3. \A s \in SUBSET S : Cardinality(s) <= 0 => g[s] = Step(g, f, s)
      BY <2>1 DEF Step
    <2>4. QED
      BY <2>2, <2>3 DEF SumsUpTo
  <1>3. ASSUME NEW n \in Nat, n \in P PROVE n + 1 \in P
    <2>1. PICK g : /\ g = [s \in SUBSET S |-> g[s]]
                   /\ \A s \in SUBSET S : Cardinality(s) <= n => g[s] = Step(g, f, s)
      BY <1>3 DEF SumsUpTo
    <2> DEFINE h == [s \in SUBSET S |-> Step(g, f, s)]
    <2>2. \A s \in SUBSET S : h[s] = Step(g, f, s)
      OBVIOUS
    <2>3. h = [s \in SUBSET S |-> h[s]]
      OBVIOUS
    <2> HIDE DEF h
    <2>4. ASSUME NEW s \in SUBSET S, Cardinality(s) <= n + 1 PROVE h[s] = Step(h, f, s)
      <3>1. CASE s = {}
        BY <2>2, <3>1 DEF Step
      <3>2. CASE s # {}
        <4> DEFINE t == s \ {First(s)}
        <4>1. t \in SUBSET S /\ Cardinality(t) <= n
          BY <1>1, <2>4, <3>2
        <4>2. g[t] = h[t]
          BY <2>1, <2>2, <4>1
        <4>3. QED
          BY <2>2, <3>2, <4>2 DEF Step
      <3>3. QED
        BY <3>1, <3>2
    <2>5. SumsUpTo(n + 1, f, S)
      BY <2>3, <2>4 DEF SumsUpTo
    <2>6. QED
      BY <2>5
  <1>4. Cardinality(S) \in P
    <2> HIDE DEF P
    <2>1. QED
      BY <1>1, <1>2, <1>3, InductionOverNat
  <1>5. PICK g : /\ g = [s \in SUBSET S |-> g[s]]
                 /\ \A s \in SUBSET S : Cardinality(s) <= Cardinality(S) => g[s] = Step(g, f, s)
    BY <1>4 DEF SumsUpTo
  <1>6. \A s \in SUBSET S : Cardinality(s) <= Cardinality(S)
    BY FS_Subset
  <1>7. QED
    BY <1>5, <1>6 DEF Sums

\* The sums of a set agree with the sums of a larger one.
LEMMA SumsAgree ==
  ASSUME NEW f, NEW S, IsFiniteSet(S), NEW T \in SUBSET S, NEW g, NEW h,
         Sums(g, f, S), Sums(h, f, T)
  PROVE  \A s \in SUBSET T : g[s] = h[s]
  <1> DEFINE Good == {s \in SUBSET T : g[s] = h[s]}
  <1>1. /\ \A s \in SUBSET S : g[s] = Step(g, f, s)
        /\ \A s \in SUBSET T : h[s] = Step(h, f, s)
    BY DEF Sums
  <1>2. IsFiniteSet(T)
    BY FS_Subset
  <1>3. {} \in Good
    BY <1>1 DEF Step
  <1>4. ASSUME NEW s \in SUBSET T, \A x \in s : s \ {x} \in Good PROVE s \in Good
    <2>1. CASE s # {}
      BY <1>1, <1>4, <2>1, FirstIsIn DEF Step
    <2>2. QED
      BY <1>3, <2>1
  <1> HIDE DEF Good
  <1>5. SUBSET T \subseteq Good
    BY <1>2, <1>4, InductionOverSubsets
  <1>6. QED
    BY <1>5 DEF Good

\* The sum of f over S is the one that the sums over the subsets of S have.
LEMMA SumIsOne ==
  ASSUME NEW f, NEW S, IsFiniteSet(S), NEW g, Sums(g, f, S), NEW T \in SUBSET S
  PROVE  SumFunctionOnSet(f, T) = g[T]
  <1> DEFINE chosen == CHOOSE h : Sums(h, f, T)
  <1>1. SumFunctionOnSet(f, T) = chosen[T]
    BY DEF SumFunctionOnSet, FoldFunctionOnSet, MapThenFoldSet, Sums, Step, First
  <1>2. IsFiniteSet(T)
    BY FS_Subset
  <1>3. Sums(chosen, f, T)
    BY <1>2, SumsExist
  <1> HIDE DEF chosen
  <1>4. g[T] = chosen[T]
    BY <1>3, SumsAgree
  <1>5. QED
    BY <1>1, <1>4

\* A sum over no element is 0, and a sum over some adds the first to the sum over the others.
LEMMA SumRecursion ==
  ASSUME NEW f, NEW S, IsFiniteSet(S)
  PROVE  \A s \in SUBSET S : SumFunctionOnSet(f, s) =
           IF s = {} THEN 0 ELSE f[First(s)] + SumFunctionOnSet(f, s \ {First(s)})
  <1>1. PICK g : Sums(g, f, S)
    BY SumsExist
  <1>2. \A s \in SUBSET S : SumFunctionOnSet(f, s) = g[s]
    BY <1>1, SumIsOne
  <1>3. \A s \in SUBSET S : g[s] = Step(g, f, s)
    BY <1>1 DEF Sums
  <1>4. \A s \in SUBSET S : s \ {First(s)} \in SUBSET S
    OBVIOUS
  <1>5. QED
    BY <1>2, <1>3, <1>4 DEF Step

-------------------------------------------------------------------------------
(* What sums are                                                              *)

Total(f, s) == SumFunctionOnSet(f, s)

\* The same, for each set.
LEMMA TotalRecursion ==
  ASSUME NEW f, NEW s, IsFiniteSet(s)
  PROVE  /\ Total(f, {}) = 0
         /\ s # {} => First(s) \in s /\ Total(f, s) = f[First(s)] + Total(f, s \ {First(s)})
  <1>1. s \in SUBSET s /\ {} \in SUBSET s
    OBVIOUS
  <1>2. QED
    BY <1>1, SumRecursion, FirstIsIn DEF Total

\* A sum of integers is one, and of natural numbers.
LEMMA TotalType ==
  ASSUME NEW S, IsFiniteSet(S), NEW f, \A x \in S : f[x] \in Int
  PROVE  Total(f, S) \in Int /\ ((\A x \in S : f[x] >= 0) => Total(f, S) >= 0)
  <1> DEFINE Good == {s \in SUBSET S : /\ Total(f, s) \in Int
                                       /\ (\A x \in s : f[x] >= 0) => Total(f, s) >= 0}
  <1>1. ASSUME NEW s \in SUBSET S, \A x \in s : s \ {x} \in Good PROVE s \in Good
    <2>1. IsFiniteSet(s)
      BY FS_Subset
    <2>2. CASE s = {}
      <3>1. Total(f, s) = 0
        BY <2>1, <2>2, TotalRecursion
      <3>2. QED
        BY <2>2, <3>1
    <2>3. CASE s # {}
      <3>1. /\ First(s) \in s /\ Total(f, s) = f[First(s)] + Total(f, s \ {First(s)})
        BY <2>1, <2>3, TotalRecursion
      <3>2. s \ {First(s)} \in Good /\ f[First(s)] \in Int
        BY <1>1, <3>1
      <3>3. QED
        BY <3>1, <3>2
    <2>4. QED
      BY <2>2, <2>3
  <1> HIDE DEF Good
  <1>2. S \in Good
    BY <1>1, InductionOverSubsets
  <1>3. QED
    BY <1>2 DEF Good

\* A sum whose terms are at most those of another is at most the other.
LEMMA TotalMonotone ==
  ASSUME NEW S, IsFiniteSet(S), NEW f, NEW g,
         \A x \in S : f[x] \in Int /\ g[x] \in Int /\ f[x] <= g[x]
  PROVE  Total(f, S) <= Total(g, S)
  <1> DEFINE Good == {s \in SUBSET S : Total(f, s) <= Total(g, s)}
  <1>1. ASSUME NEW s \in SUBSET S, \A x \in s : s \ {x} \in Good PROVE s \in Good
    <2>1. IsFiniteSet(s)
      BY FS_Subset
    <2>2. CASE s = {}
      <3>1. Total(f, s) = 0 /\ Total(g, s) = 0
        BY <2>1, <2>2, TotalRecursion
      <3>2. QED
        BY <2>2, <3>1
    <2>3. CASE s # {}
      <3> DEFINE x == First(s)
      <3>1. /\ x \in s /\ Total(f, s) = f[x] + Total(f, s \ {x})
            /\ Total(g, s) = g[x] + Total(g, s \ {x})
        BY <2>1, <2>3, TotalRecursion
      <3> HIDE DEF x
      <3>2. IsFiniteSet(s \ {x})
        BY <2>1, FS_Subset
      <3>3. Total(f, s \ {x}) \in Int /\ Total(g, s \ {x}) \in Int
        BY <3>2, TotalType
      <3>4. Total(f, s \ {x}) <= Total(g, s \ {x}) /\ f[x] \in Int /\ g[x] \in Int /\ f[x] <= g[x]
        BY <1>1, <3>1
      <3>5. QED
        BY <3>1, <3>3, <3>4
    <2>4. QED
      BY <2>2, <2>3
  <1> HIDE DEF Good
  <1>2. S \in Good
    BY <1>1, InductionOverSubsets
  <1>3. QED
    BY <1>2 DEF Good

\* Any element may be added first.
LEMMA TotalOfOther ==
  ASSUME NEW S, IsFiniteSet(S), NEW f, \A x \in S : f[x] \in Int, NEW y \in S
  PROVE  Total(f, S) = f[y] + Total(f, S \ {y})
  <1> DEFINE Good == {s \in SUBSET S : \A z \in s : Total(f, s) = f[z] + Total(f, s \ {z})}
  <1>1. ASSUME NEW s \in SUBSET S, \A x \in s : s \ {x} \in Good, NEW z \in s
        PROVE  Total(f, s) = f[z] + Total(f, s \ {z})
    <2> DEFINE x == First(s)
    <2>1. IsFiniteSet(s)
      BY FS_Subset
    <2>2. x \in s /\ Total(f, s) = f[x] + Total(f, s \ {x})
      BY <2>1, TotalRecursion
    <2> HIDE DEF x
    <2>3. CASE z # x
      <3> DEFINE rest == (s \ {x}) \ {z}
      <3>1. Total(f, s \ {x}) = f[z] + Total(f, (s \ {x}) \ {z})
        BY <1>1, <2>2, <2>3
      <3>2. Total(f, s \ {z}) = f[x] + Total(f, (s \ {z}) \ {x})
        BY <1>1, <2>2, <2>3
      <3>3. (s \ {z}) \ {x} = rest
        OBVIOUS
      <3>4. IsFiniteSet(rest)
        BY <2>1, FS_Subset
      <3>5. Total(f, rest) \in Int /\ f[x] \in Int /\ f[z] \in Int
        BY <2>2, <3>4, TotalType
      <3> HIDE DEF rest
      <3>6. Total(f, s \ {x}) = f[z] + Total(f, rest) /\ Total(f, s \ {z}) = f[x] + Total(f, rest)
        BY <3>1, <3>2, <3>3 DEF rest
      <3>7. QED
        BY <2>2, <3>5, <3>6
    <2>4. QED
      BY <2>2, <2>3
  <1>2. \A s \in SUBSET S : (\A x \in s : s \ {x} \in Good) => s \in Good
    BY <1>1
  <1> HIDE DEF Good
  <1>3. S \in Good
    BY <1>2, InductionOverSubsets
  <1>4. QED
    BY <1>3 DEF Good

\* A sum of terms that are not negative is 0 when all are, and is not when one is not.
LEMMA TotalZero ==
  ASSUME NEW S, IsFiniteSet(S), NEW f, \A x \in S : f[x] \in Nat
  PROVE  Total(f, S) = 0 <=> \A x \in S : f[x] = 0
  <1>1. ASSUME \A x \in S : f[x] = 0 PROVE Total(f, S) = 0
    <2> DEFINE Good == {s \in SUBSET S : Total(f, s) = 0}
    <2>1. ASSUME NEW s \in SUBSET S, \A x \in s : s \ {x} \in Good PROVE s \in Good
      <3>1. IsFiniteSet(s)
        BY FS_Subset
      <3>2. CASE s = {}
        <4>1. Total(f, s) = 0
          BY <3>1, <3>2, TotalRecursion
        <4>2. QED
          BY <3>2, <4>1
      <3>3. CASE s # {}
        <4>1. First(s) \in s /\ Total(f, s) = f[First(s)] + Total(f, s \ {First(s)})
          BY <3>1, <3>3, TotalRecursion
        <4>2. f[First(s)] = 0 /\ Total(f, s \ {First(s)}) = 0
          BY <1>1, <2>1, <4>1
        <4>3. QED
          BY <4>1, <4>2
      <3>4. QED
        BY <3>2, <3>3
    <2> HIDE DEF Good
    <2>2. S \in Good
      BY <2>1, InductionOverSubsets
    <2>3. QED
      BY <2>2 DEF Good
  <1>2. ASSUME NEW y \in S, f[y] # 0 PROVE Total(f, S) # 0
    <2>1. Total(f, S) = f[y] + Total(f, S \ {y})
      BY TotalOfOther
    <2>2. IsFiniteSet(S \ {y})
      BY FS_Subset
    <2>3. Total(f, S \ {y}) \in Int /\ Total(f, S \ {y}) >= 0
      BY <2>2, TotalType
    <2>4. QED
      BY <1>2, <2>1, <2>3
  <1>3. QED
    BY <1>1, <1>2

\* Sums of the same terms are the same.
LEMMA TotalEqual ==
  ASSUME NEW S, IsFiniteSet(S), NEW f, NEW g, \A x \in S : f[x] \in Int /\ g[x] = f[x]
  PROVE  Total(f, S) = Total(g, S)
  <1>1. Total(f, S) <= Total(g, S)
    BY TotalMonotone
  <1>2. Total(g, S) <= Total(f, S)
    BY TotalMonotone
  <1>3. Total(f, S) \in Int /\ Total(g, S) \in Int
    BY TotalType
  <1>4. QED
    BY <1>1, <1>2, <1>3

\* A factor and a summand common to the terms come out of the sum.
LEMMA TotalLinear ==
  ASSUME NEW S, IsFiniteSet(S), NEW f, \A x \in S : f[x] \in Int, NEW c \in Int, NEW d \in Int,
         NEW g, \A x \in S : g[x] = c * f[x] + d
  PROVE  Total(g, S) = c * Total(f, S) + d * Cardinality(S)
  <1> DEFINE Good == {s \in SUBSET S : Total(g, s) = c * Total(f, s) + d * Cardinality(s)}
  <1>1. ASSUME NEW s \in SUBSET S, \A x \in s : s \ {x} \in Good PROVE s \in Good
    <2>1. IsFiniteSet(s)
      BY FS_Subset
    <2>2. CASE s = {}
      <3>1. Total(f, s) = 0 /\ Total(g, s) = 0
        BY <2>1, <2>2, TotalRecursion
      <3>2. Cardinality(s) = 0
        BY <2>2, FS_EmptySet
      <3>3. c * 0 + d * 0 = 0
        OBVIOUS
      <3>4. QED
        BY <3>1, <3>2, <3>3
    <2>3. CASE s # {}
      <3> DEFINE x == First(s)
                 n == Cardinality(s \ {x})
                 t == Total(f, s \ {x})
      <3>1. /\ x \in s /\ Total(f, s) = f[x] + t
            /\ Total(g, s) = g[x] + Total(g, s \ {x})
        BY <2>1, <2>3, TotalRecursion
      <3> HIDE DEF x
      <3>2. IsFiniteSet(s \ {x}) /\ n \in Nat /\ Cardinality(s) = n + 1
        BY <2>1, <3>1, FS_Subset, FS_RemoveElement, FS_CardinalityType
      <3>3. t \in Int
        BY <3>2, TotalType
      <3>4. Total(g, s \ {x}) = c * t + d * n /\ f[x] \in Int /\ g[x] = c * f[x] + d
        BY <1>1, <3>1
      <3> HIDE DEF n, t
      <3>5. c * (f[x] + t) + d * (n + 1) = (c * f[x] + d) + (c * t + d * n)
        BY <3>2, <3>3, <3>4
      <3>6. QED
        BY <3>1, <3>2, <3>4, <3>5
    <2>4. QED
      BY <2>2, <2>3
  <1> HIDE DEF Good
  <1>2. S \in Good
    BY <1>1, InductionOverSubsets
  <1>3. QED
    BY <1>2 DEF Good

\* A sum is the sum over a part and the sum over the rest.
LEMMA TotalSplit ==
  ASSUME NEW S, IsFiniteSet(S), NEW f, \A x \in S : f[x] \in Int, NEW T \in SUBSET S
  PROVE  Total(f, S) = Total(f, T) + Total(f, S \ T)
  <1> DEFINE Good == {t \in SUBSET T : Total(f, S) = Total(f, t) + Total(f, S \ t)}
  <1>0. IsFiniteSet(T)
    BY FS_Subset
  <1>1. ASSUME NEW t \in SUBSET T, \A x \in t : t \ {x} \in Good PROVE t \in Good
    <2>1. IsFiniteSet(t) /\ IsFiniteSet(S \ t) /\ t \in SUBSET S
      BY FS_Subset
    <2>2. CASE t = {}
      <3>1. Total(f, t) = 0
        BY <2>1, <2>2, TotalRecursion
      <3>2. S \ t = S /\ Total(f, S) \in Int
        BY <2>2, TotalType
      <3>3. QED
        BY <3>1, <3>2
    <2>3. CASE t # {}
      <3> DEFINE x == First(t)
                 more == S \ (t \ {x})
      <3>1. x \in t /\ Total(f, t) = f[x] + Total(f, t \ {x})
        BY <2>1, <2>3, TotalRecursion
      <3> HIDE DEF x
      <3>2. Total(f, S) = Total(f, t \ {x}) + Total(f, more)
        BY <1>1, <3>1
      <3>3. x \in more /\ more \ {x} = S \ t /\ IsFiniteSet(more) /\ IsFiniteSet(t \ {x})
        BY <2>1, <3>1, FS_Subset
      <3>4. \A y \in more : f[y] \in Int
        OBVIOUS
      <3> HIDE DEF more
      <3>5. Total(f, more) = f[x] + Total(f, S \ t)
        BY <3>3, <3>4, TotalOfOther
      <3>6. Total(f, S \ t) \in Int /\ Total(f, t \ {x}) \in Int /\ f[x] \in Int
        BY <2>1, <3>1, <3>3, TotalType
      <3>7. QED
        BY <3>1, <3>2, <3>5, <3>6
    <2>4. QED
      BY <2>2, <2>3
  <1> HIDE DEF Good
  <1>2. T \in Good
    BY <1>0, <1>1, InductionOverSubsets
  <1>3. QED
    BY <1>2 DEF Good
===============================================================================

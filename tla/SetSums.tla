------------------------------- MODULE SetSums -------------------------------
(***************************************************************************)
(* Facts about SumFunctionOnSet, the sum of a function's values over a     *)
(* finite set of indices: the sum that a recursive definition computes     *)
(* does not depend on the order in which it takes the elements.            *)
(*                                                                         *)
(* Induction is by least counterexample: strict inclusion is well founded  *)
(* on the finite subsets of a set, so a set of subsets that is not empty   *)
(* has a member none of whose proper subsets belongs to it.                *)
(***************************************************************************)
EXTENDS Integers, Functions, FiniteSets, FiniteSetTheorems,
        WellFoundedInduction, TLAPS

\* The element a sum takes first.
First(s) == CHOOSE x \in s : TRUE

\* g computes the sums of f over the subsets of S.
SumsUp(g, f, S) ==
    g = [s \in SUBSET S |-> IF s = {} THEN 0 ELSE f[First(s)] + g[s \ {First(s)}]]

\* Naturals: a set with 0 that is closed under successor is everything.
LEMMA NatSetInduction ==
    ASSUME NEW K \in SUBSET Nat, 0 \in K, \A n \in K : n + 1 \in K
    PROVE  K = Nat
<1> DEFINE T == Nat \ K
<1> SUFFICES ASSUME T # {} PROVE FALSE
    OBVIOUS
<1>1. PICK x \in T : \A y \in T : ~(<<y, x>> \in OpToRel(<, Nat))
    BY WFMin, NatLessThanWellFounded
<1>2. x \in Nat /\ x # 0 /\ x - 1 \in Nat
    OBVIOUS
<1>3. x - 1 \in K
  <2>1. <<x - 1, x>> \in OpToRel(<, Nat)
      BY <1>2 DEF OpToRel
  <2> QED
      BY <1>1, <1>2, <2>1
<1> QED
    BY <1>2, <1>3

\* A set of subsets of a finite set has a minimal member.
LEMMA MinimalSubset ==
    ASSUME NEW S, IsFiniteSet(S), NEW B \in SUBSET (SUBSET S), B # {}
    PROVE  \E s \in B : \A t \in SUBSET s : t # s => t \notin B
<1>1. IsWellFoundedOn(StrictSubsetOrdering(S), SUBSET S)
    BY FS_StrictSubsetOrderingWellFounded, FS_FiniteSubsetsOfFinite
<1>2. PICK s \in B : \A t \in B : ~(<<t, s>> \in StrictSubsetOrdering(S))
    BY <1>1, WFMin
<1> QED
    BY <1>2 DEF StrictSubsetOrdering

\* What First takes is there, and leaves a smaller set.
LEMMA FirstTaken ==
    ASSUME NEW s, s # {}
    PROVE  First(s) \in s
BY DEF First

LEMMA SumsUpAt ==
    ASSUME NEW S, NEW f, NEW g, SumsUp(g, f, S), NEW s \in SUBSET S
    PROVE  g[s] = IF s = {} THEN 0 ELSE f[First(s)] + g[s \ {First(s)}]
BY DEF SumsUp

\* There is a function that sums up.
LEMMA SumsUpExists ==
    ASSUME NEW S, IsFiniteSet(S), NEW f, \A x \in S : f[x] \in Int
    PROVE  \E g : SumsUp(g, f, S)
<1> DEFINE Right(g, s) == IF s = {} THEN 0 ELSE f[First(s)] + g[s \ {First(s)}]
           K == {k \in Nat : \E g \in [SUBSET S -> Int] :
                    \A s \in SUBSET S : Cardinality(s) <= k => g[s] = Right(g, s)}
<1>1. \A s \in SUBSET S : IsFiniteSet(s) /\ Cardinality(s) \in Nat
    BY FS_Subset, FS_CardinalityType
<1>2. 0 \in K
  <2> DEFINE g == [s \in SUBSET S |-> 0]
  <2>1. g \in [SUBSET S -> Int]
      OBVIOUS
  <2>2. ASSUME NEW s \in SUBSET S, Cardinality(s) <= 0 PROVE g[s] = Right(g, s)
    <3>1. s = {}
        BY <1>1, <2>2, FS_EmptySet
    <3> QED
        BY <3>1
  <2> QED
      BY <2>1, <2>2
<1>3. ASSUME NEW k \in K PROVE k + 1 \in K
  <2>1. PICK g \in [SUBSET S -> Int] :
            \A s \in SUBSET S : Cardinality(s) <= k => g[s] = Right(g, s)
      BY <1>3
  <2> DEFINE h == [s \in SUBSET S |-> Right(g, s)]
  <2>2. \A s \in SUBSET S : s # {} => First(s) \in S /\ s \ {First(s)} \in SUBSET S
      BY FirstTaken
  <2>3. h \in [SUBSET S -> Int]
    <3>1. ASSUME NEW s \in SUBSET S PROVE Right(g, s) \in Int
        BY <2>2, FirstTaken
    <3> QED
        BY <3>1
  <2>4. ASSUME NEW s \in SUBSET S, Cardinality(s) <= k + 1
        PROVE  h[s] = Right(h, s)
    <3>1. CASE s = {}
        BY <3>1
    <3>2. CASE s # {}
      <4> DEFINE t == s \ {First(s)}
      <4>1. t \in SUBSET S /\ Cardinality(t) = Cardinality(s) - 1
          BY <1>1, <3>2, FirstTaken, FS_RemoveElement
      <4>2. k \in Nat /\ Cardinality(s) \in Nat
          BY <1>1, <1>3
      <4>3. Cardinality(t) <= k
          BY <2>4, <4>1, <4>2
      <4>4. h[t] = g[t]
          BY <2>1, <4>1, <4>3
      <4> QED
          BY <3>2, <4>4
    <3> QED
        BY <3>1, <3>2
  <2> HIDE DEF h
  <2>5. k + 1 \in Nat
      BY <1>3
  <2> QED
      BY <2>3, <2>4, <2>5
<1>4. K = Nat
    BY <1>2, <1>3, NatSetInduction
<1>5. PICK g \in [SUBSET S -> Int] :
          \A s \in SUBSET S : Cardinality(s) <= Cardinality(S) => g[s] = Right(g, s)
  <2>1. Cardinality(S) \in K
      BY <1>1, <1>4
  <2> QED
      BY <2>1
<1>6. \A s \in SUBSET S : g[s] = Right(g, s)
    BY <1>5, FS_Subset
<1> QED
    BY <1>6 DEF SumsUp

\* Two functions that sum up agree, also when one starts from a smaller set.
LEMMA SumsUpAgree ==
    ASSUME NEW S, IsFiniteSet(S), NEW T \in SUBSET S, NEW f, NEW e,
           \A x \in T : f[x] = e[x],
           NEW g, SumsUp(g, f, S), NEW h, SumsUp(h, e, T)
    PROVE  \A s \in SUBSET T : g[s] = h[s]
<1> DEFINE B == {s \in SUBSET T : g[s] # h[s]}
<1> SUFFICES ASSUME B # {} PROVE FALSE
    OBVIOUS
<1>1. PICK s \in B : \A t \in SUBSET s : t # s => t \notin B
  <2>1. IsFiniteSet(T) /\ B \in SUBSET (SUBSET T)
      BY FS_Subset
  <2> HIDE DEF B
  <2> QED
      BY <2>1, MinimalSubset
<1>2. /\ g[s] = IF s = {} THEN 0 ELSE f[First(s)] + g[s \ {First(s)}]
      /\ h[s] = IF s = {} THEN 0 ELSE e[First(s)] + h[s \ {First(s)}]
    BY SumsUpAt
<1>3. s # {}
    BY <1>2
<1>4. First(s) \in s
    BY <1>3, FirstTaken
<1>5. g[s \ {First(s)}] = h[s \ {First(s)}]
    BY <1>1, <1>4
<1> QED
    BY <1>2, <1>3, <1>4, <1>5

\* SumFunctionOnSet is what a function that sums up says of the whole set.
LEMMA SumIs ==
    ASSUME NEW S, IsFiniteSet(S), NEW f, \A x \in S : f[x] \in Int
    PROVE  \E g : SumsUp(g, f, S) /\ SumFunctionOnSet(f, S) = g[S]
<1> DEFINE g == CHOOSE g : SumsUp(g, f, S)
<1>1. SumsUp(g, f, S)
    BY SumsUpExists
<1>2. SumFunctionOnSet(f, S) = g[S]
    BY DEF SumFunctionOnSet, FoldFunctionOnSet, MapThenFoldSet, SumsUp, First
<1> QED
    BY <1>1, <1>2

\* The sum over no index is 0.
LEMMA SumEmpty ==
    ASSUME NEW f
    PROVE  SumFunctionOnSet(f, {}) = 0
<1>1. PICK g : SumsUp(g, f, {}) /\ SumFunctionOnSet(f, {}) = g[{}]
    BY FS_EmptySet, SumIs
<1> QED
    BY <1>1, SumsUpAt

\* A sum depends on the values at its indices alone.
LEMMA SumCongruent ==
    ASSUME NEW S, IsFiniteSet(S), NEW f, NEW e,
           \A x \in S : f[x] \in Int /\ f[x] = e[x]
    PROVE  SumFunctionOnSet(f, S) = SumFunctionOnSet(e, S)
<1>1. PICK g : SumsUp(g, f, S) /\ SumFunctionOnSet(f, S) = g[S]
    BY SumIs
<1>2. PICK h : SumsUp(h, e, S) /\ SumFunctionOnSet(e, S) = h[S]
    BY SumIs
<1>3. S \in SUBSET S
    OBVIOUS
<1> QED
    BY <1>1, <1>2, <1>3, SumsUpAgree

\* A sum is its first element plus the sum of the others.
LEMMA SumFirst ==
    ASSUME NEW S, IsFiniteSet(S), S # {}, NEW f, \A x \in S : f[x] \in Int
    PROVE  SumFunctionOnSet(f, S) =
               f[First(S)] + SumFunctionOnSet(f, S \ {First(S)})
<1> DEFINE T == S \ {First(S)}
<1>1. T \in SUBSET S /\ IsFiniteSet(T)
    BY FS_Subset
<1>2. PICK g : SumsUp(g, f, S) /\ SumFunctionOnSet(f, S) = g[S]
    BY SumIs
<1>3. PICK h : SumsUp(h, f, T) /\ SumFunctionOnSet(f, T) = h[T]
    BY <1>1, SumIs
<1>4. g[T] = h[T]
    BY <1>1, <1>2, <1>3, SumsUpAgree
<1>5. g[S] = f[First(S)] + g[T]
    BY <1>2, SumsUpAt
<1> QED
    BY <1>2, <1>3, <1>4, <1>5

\* A sum of integers is one.
LEMMA SumType ==
    ASSUME NEW S, IsFiniteSet(S), NEW f, \A x \in S : f[x] \in Int
    PROVE  SumFunctionOnSet(f, S) \in Int
<1> DEFINE B == {s \in SUBSET S : SumFunctionOnSet(f, s) \notin Int}
<1> SUFFICES ASSUME B # {} PROVE FALSE
    BY Zenon
<1>1. PICK s \in B : \A t \in SUBSET s : t # s => t \notin B
  <2>1. B \in SUBSET (SUBSET S)
      OBVIOUS
  <2> HIDE DEF B
  <2> QED
      BY <2>1, MinimalSubset
<1>2. s # {}
    BY SumEmpty
<1>3. First(s) \in s /\ s \ {First(s)} \in SUBSET S
    BY <1>2, FirstTaken
<1>4. SumFunctionOnSet(f, s \ {First(s)}) \in Int
    BY <1>1, <1>3
<1>5. SumFunctionOnSet(f, s) = f[First(s)] + SumFunctionOnSet(f, s \ {First(s)})
    BY <1>2, FS_Subset, SumFirst
<1> QED
    BY <1>3, <1>4, <1>5

\* A sum of amounts is an amount.
LEMMA SumNat ==
    ASSUME NEW S, IsFiniteSet(S), NEW f, \A x \in S : f[x] \in Nat
    PROVE  SumFunctionOnSet(f, S) \in Nat
<1> DEFINE B == {s \in SUBSET S : SumFunctionOnSet(f, s) \notin Nat}
<1> SUFFICES ASSUME B # {} PROVE FALSE
    BY Zenon
<1>1. PICK s \in B : \A t \in SUBSET s : t # s => t \notin B
  <2>1. B \in SUBSET (SUBSET S)
      OBVIOUS
  <2> HIDE DEF B
  <2> QED
      BY <2>1, MinimalSubset
<1>2. s # {}
    BY SumEmpty
<1>3. First(s) \in s /\ s \ {First(s)} \in SUBSET S
    BY <1>2, FirstTaken
<1>4. SumFunctionOnSet(f, s \ {First(s)}) \in Nat
    BY <1>1, <1>3
<1>5. SumFunctionOnSet(f, s) = f[First(s)] + SumFunctionOnSet(f, s \ {First(s)})
    BY <1>2, FS_Subset, SumFirst
<1> QED
    BY <1>3, <1>4, <1>5

(***************************************************************************)
(* The order does not matter: any element may be taken out of a sum.       *)
(***************************************************************************)
LEMMA SumRemove ==
    ASSUME NEW S, IsFiniteSet(S), NEW f, \A x \in S : f[x] \in Int, NEW y \in S
    PROVE  SumFunctionOnSet(f, S) = SumFunctionOnSet(f, S \ {y}) + f[y]
<1> DEFINE Bad(s) == \E z \in s : SumFunctionOnSet(f, s)
                                     # SumFunctionOnSet(f, s \ {z}) + f[z]
           B == {s \in SUBSET S : Bad(s)}
<1> SUFFICES ASSUME B # {} PROVE FALSE
    BY Zenon
<1>1. PICK s \in B : \A t \in SUBSET s : t # s => t \notin B
  <2>1. B \in SUBSET (SUBSET S)
      OBVIOUS
  <2> HIDE DEF B
  <2> QED
      BY <2>1, MinimalSubset
<1>2. PICK z \in s : SumFunctionOnSet(f, s) # SumFunctionOnSet(f, s \ {z}) + f[z]
    BY <1>1
<1> DEFINE w == First(s)
<1>3. w \in s /\ s \in SUBSET S
    BY <1>2, FirstTaken
<1>4. \A t \in SUBSET s : IsFiniteSet(t) /\ SumFunctionOnSet(f, t) \in Int
  <2>1. ASSUME NEW t \in SUBSET s PROVE IsFiniteSet(t)
      BY <1>3, FS_Subset
  <2>2. ASSUME NEW t \in SUBSET s PROVE \A x \in t : f[x] \in Int
      BY <1>3
  <2> QED
      BY <2>1, <2>2, SumType
<1>5. SumFunctionOnSet(f, s) = f[w] + SumFunctionOnSet(f, s \ {w})
    BY <1>2, <1>3, <1>4, SumFirst
<1> HIDE DEF w
<1>6. CASE z = w
    BY <1>2, <1>3, <1>4, <1>5, <1>6
<1>7. CASE z # w
  <2>1. /\ s \ {w} \in SUBSET S
        /\ s \ {w} # s
        /\ z \in s \ {w}
        /\ (s \ {w}) \ {z} = (s \ {z}) \ {w}
      BY <1>2, <1>3, <1>7
  <2> DEFINE rest == SumFunctionOnSet(f, (s \ {w}) \ {z})
             most == SumFunctionOnSet(f, s \ {w})
             others == SumFunctionOnSet(f, s \ {z})
  <2>2. most = rest + f[z]
      BY <1>1, <2>1
  <2>3. /\ s \ {z} \in SUBSET S
        /\ s \ {z} # s
        /\ w \in s \ {z}
      BY <1>2, <1>3, <1>7
  <2>4. others = rest + f[w]
      BY <1>1, <2>1, <2>3
  <2>5. f[w] \in Int /\ f[z] \in Int /\ rest \in Int
      BY <1>2, <1>3, <1>4
  <2>6. SumFunctionOnSet(f, s) = f[w] + most /\ SumFunctionOnSet(f, s) # others + f[z]
      BY <1>2, <1>5
  <2> HIDE DEF rest, most, others
  <2> QED
      BY <2>2, <2>4, <2>5, <2>6
<1> QED
    BY <1>6, <1>7

\* One more index adds its value.
LEMMA SumAdd ==
    ASSUME NEW S, IsFiniteSet(S), NEW y, y \notin S,
           NEW f, \A x \in S \cup {y} : f[x] \in Int
    PROVE  SumFunctionOnSet(f, S \cup {y}) = SumFunctionOnSet(f, S) + f[y]
<1>1. IsFiniteSet(S \cup {y})
    BY FS_AddElement
<1>2. (S \cup {y}) \ {y} = S
    OBVIOUS
<1> QED
    BY <1>1, <1>2, SumRemove

\* Fewer indices, no larger a sum of amounts.
LEMMA SumSubset ==
    ASSUME NEW S, IsFiniteSet(S), NEW T \in SUBSET S,
           NEW f, \A x \in S : f[x] \in Nat
    PROVE  SumFunctionOnSet(f, T) <= SumFunctionOnSet(f, S)
<1> DEFINE Bad(s) == ~(SumFunctionOnSet(f, T) <= SumFunctionOnSet(f, s))
           B == {s \in SUBSET S : T \subseteq s /\ Bad(s)}
<1> SUFFICES ASSUME B # {} PROVE FALSE
    BY Zenon
<1>1. PICK s \in B : \A t \in SUBSET s : t # s => t \notin B
  <2>1. B \in SUBSET (SUBSET S)
      OBVIOUS
  <2> HIDE DEF B
  <2> QED
      BY <2>1, MinimalSubset
<1>2. \A t \in SUBSET s : IsFiniteSet(t) /\ SumFunctionOnSet(f, t) \in Nat
  <2>1. ASSUME NEW t \in SUBSET s PROVE IsFiniteSet(t)
      BY FS_Subset
  <2>2. ASSUME NEW t \in SUBSET s PROVE \A x \in t : f[x] \in Nat
      OBVIOUS
  <2> QED
      BY <2>1, <2>2, SumNat
<1>3. s # T
    BY <1>2
<1>4. PICK z \in s : z \notin T
    BY <1>3
<1>5. s \ {z} \in SUBSET S /\ T \subseteq s \ {z} /\ s \ {z} # s
    BY <1>4
<1>6. SumFunctionOnSet(f, T) <= SumFunctionOnSet(f, s \ {z})
    BY <1>1, <1>5
<1>7. SumFunctionOnSet(f, s) = SumFunctionOnSet(f, s \ {z}) + f[z]
    BY <1>2, SumRemove
<1>8. f[z] \in Nat /\ SumFunctionOnSet(f, s \ {z}) \in Nat
      /\ SumFunctionOnSet(f, T) \in Nat
    BY <1>2
<1> QED
    BY <1>6, <1>7, <1>8

\* Indices that count for nothing may be left out.
LEMMA SumNonzero ==
    ASSUME NEW S, IsFiniteSet(S), NEW T \in SUBSET S,
           NEW f, \A x \in S : f[x] \in Int, \A x \in S \ T : f[x] = 0
    PROVE  SumFunctionOnSet(f, T) = SumFunctionOnSet(f, S)
<1> DEFINE B == {s \in SUBSET S : T \subseteq s
                     /\ SumFunctionOnSet(f, T) # SumFunctionOnSet(f, s)}
<1> SUFFICES ASSUME B # {} PROVE FALSE
    BY Zenon
<1>1. PICK s \in B : \A t \in SUBSET s : t # s => t \notin B
  <2>1. B \in SUBSET (SUBSET S)
      OBVIOUS
  <2> HIDE DEF B
  <2> QED
      BY <2>1, MinimalSubset
<1>2. IsFiniteSet(s) /\ IsFiniteSet(T)
    BY FS_Subset
<1>3. PICK z \in s : z \notin T
  <2>1. s # T
      BY Zenon
  <2> QED
      BY <2>1
<1>4. s \ {z} \in SUBSET S /\ T \subseteq s \ {z} /\ s \ {z} # s
    BY <1>3
<1>5. SumFunctionOnSet(f, T) = SumFunctionOnSet(f, s \ {z})
    BY <1>1, <1>4
<1>6. SumFunctionOnSet(f, s) = SumFunctionOnSet(f, s \ {z}) + f[z]
  <2>1. \A x \in s : f[x] \in Int
      OBVIOUS
  <2> QED
      BY <1>2, <2>1, SumRemove
<1>7. f[z] = 0 /\ SumFunctionOnSet(f, T) \in Int
  <2>1. z \in S \ T
      BY <1>3
  <2>2. \A x \in T : f[x] \in Int
      OBVIOUS
  <2> QED
      BY <1>2, <2>1, <2>2, SumType
<1> QED
    BY <1>1, <1>5, <1>6, <1>7

\* A sum over one index.
LEMMA SumSingle ==
    ASSUME NEW y, NEW f, f[y] \in Int
    PROVE  SumFunctionOnSet(f, {y}) = f[y]
<1>1. IsFiniteSet({y}) /\ {y} \ {y} = {} /\ \A x \in {y} : f[x] \in Int
    BY FS_Singleton
<1>2. SumFunctionOnSet(f, {y}) = SumFunctionOnSet(f, {y} \ {y}) + f[y]
    BY <1>1, SumRemove
<1> QED
    BY <1>1, <1>2, SumEmpty

\* A sum of amounts is at least each of them.
LEMMA SumMember ==
    ASSUME NEW S, IsFiniteSet(S), NEW f, \A x \in S : f[x] \in Nat, NEW y \in S
    PROVE  f[y] <= SumFunctionOnSet(f, S)
<1>1. {y} \in SUBSET S /\ f[y] \in Int
    OBVIOUS
<1>2. SumFunctionOnSet(f, {y}) <= SumFunctionOnSet(f, S)
    BY <1>1, SumSubset
<1> QED
    BY <1>1, <1>2, SumSingle

\* When one value changes, the sum changes by as much.
LEMMA SumChanged ==
    ASSUME NEW S, IsFiniteSet(S), NEW y \in S, NEW f, NEW e,
           \A x \in S : f[x] \in Int /\ e[x] \in Int,
           \A x \in S \ {y} : e[x] = f[x]
    PROVE  SumFunctionOnSet(e, S) = SumFunctionOnSet(f, S) - f[y] + e[y]
<1> DEFINE T == S \ {y}
<1>1. IsFiniteSet(T) /\ \A x \in T : f[x] \in Int /\ f[x] = e[x]
    BY FS_Subset
<1>2. SumFunctionOnSet(f, T) = SumFunctionOnSet(e, T)
  <2> HIDE DEF T
  <2> QED
      BY <1>1, SumCongruent
<1>3. SumFunctionOnSet(f, S) = SumFunctionOnSet(f, T) + f[y]
    BY SumRemove
<1>4. SumFunctionOnSet(e, S) = SumFunctionOnSet(e, T) + e[y]
    BY SumRemove
<1>5. SumFunctionOnSet(f, T) \in Int /\ f[y] \in Int /\ e[y] \in Int
    BY <1>1, SumType
<1> QED
    BY <1>2, <1>3, <1>4, <1>5

\* The sum of sums.
LEMMA SumPlus ==
    ASSUME NEW S, IsFiniteSet(S), NEW f, NEW e, NEW h,
           \A x \in S : f[x] \in Int /\ e[x] \in Int /\ h[x] = f[x] + e[x]
    PROVE  SumFunctionOnSet(h, S) = SumFunctionOnSet(f, S) + SumFunctionOnSet(e, S)
<1> DEFINE B == {s \in SUBSET S : SumFunctionOnSet(h, s)
                     # SumFunctionOnSet(f, s) + SumFunctionOnSet(e, s)}
<1> SUFFICES ASSUME B # {} PROVE FALSE
    BY Zenon
<1>1. PICK s \in B : \A t \in SUBSET s : t # s => t \notin B
  <2>1. B \in SUBSET (SUBSET S)
      OBVIOUS
  <2> HIDE DEF B
  <2> QED
      BY <2>1, MinimalSubset
<1>2. s \in SUBSET S /\ IsFiniteSet(s)
    BY FS_Subset
<1>3. s # {}
  <2>1. /\ SumFunctionOnSet(h, {}) = 0
        /\ SumFunctionOnSet(f, {}) = 0
        /\ SumFunctionOnSet(e, {}) = 0
      BY SumEmpty
  <2>2. {} \notin B
      BY <2>1
  <2> QED
      BY <1>1, <2>2, Zenon
<1>4. PICK z \in s : TRUE
    BY <1>3
<1> DEFINE t == s \ {z}
<1>5. t \in SUBSET S /\ t \in SUBSET s /\ t # s /\ IsFiniteSet(t)
    BY <1>2, <1>4, FS_Subset
<1>6. SumFunctionOnSet(h, t) = SumFunctionOnSet(f, t) + SumFunctionOnSet(e, t)
  <2> HIDE DEF t
  <2> QED
      BY <1>1, <1>5
<1>7. /\ SumFunctionOnSet(h, s) = SumFunctionOnSet(h, t) + h[z]
      /\ SumFunctionOnSet(f, s) = SumFunctionOnSet(f, t) + f[z]
      /\ SumFunctionOnSet(e, s) = SumFunctionOnSet(e, t) + e[z]
  <2>1. \A x \in s : f[x] \in Int /\ e[x] \in Int /\ h[x] \in Int
      BY <1>2
  <2> QED
      BY <1>2, <1>4, <2>1, SumRemove
<1>8. SumFunctionOnSet(f, t) \in Int /\ SumFunctionOnSet(e, t) \in Int
  <2>1. \A x \in t : f[x] \in Int /\ e[x] \in Int
      BY <1>5
  <2> HIDE DEF t
  <2> QED
      BY <1>5, <2>1, SumType
<1>9. f[z] \in Int /\ e[z] \in Int /\ h[z] = f[z] + e[z]
    BY <1>2, <1>4
<1> HIDE DEF t
<1>10. SumFunctionOnSet(h, s) = SumFunctionOnSet(f, s) + SumFunctionOnSet(e, s)
    BY <1>6, <1>7, <1>8, <1>9
<1> QED
    BY <1>1, <1>10

\* The indices that k puts into group o.
Group(S, k, o) == {x \in S : k[x] = o}

\* A sum may be taken in groups.
LEMMA SumFibers ==
    ASSUME NEW S, IsFiniteSet(S), NEW K, IsFiniteSet(K), NEW k, NEW f,
           \A x \in S : k[x] \in K /\ f[x] \in Int,
           NEW g, \A o \in K : g[o] = SumFunctionOnSet(f, Group(S, k, o))
    PROVE  SumFunctionOnSet(f, S) = SumFunctionOnSet(g, K)
<1> DEFINE G(s) == [o \in K |-> SumFunctionOnSet(f, Group(s, k, o))]
           Good(s) == SumFunctionOnSet(f, s) = SumFunctionOnSet(G(s), K)
           B == {s \in SUBSET S : ~Good(s)}
<1>0. ASSUME NEW s \in SUBSET S, NEW o \in K
      PROVE  IsFiniteSet(Group(s, k, o)) /\ SumFunctionOnSet(f, Group(s, k, o)) \in Int
  <2>1. Group(s, k, o) \in SUBSET S
      BY DEF Group
  <2>2. \A x \in Group(s, k, o) : f[x] \in Int
      BY DEF Group
  <2> QED
      BY <2>1, <2>2, FS_Subset, SumType
<1>1. Good(S) => SumFunctionOnSet(f, S) = SumFunctionOnSet(g, K)
  <2>1. \A o \in K : G(S)[o] \in Int /\ G(S)[o] = g[o]
      BY <1>0
  <2> HIDE DEF G
  <2>2. SumFunctionOnSet(G(S), K) = SumFunctionOnSet(g, K)
      BY <2>1, SumCongruent
  <2> QED
      BY <2>2
<1> SUFFICES ASSUME B # {} PROVE FALSE
    BY <1>1, Zenon
<1>2. PICK s \in B : \A t \in SUBSET s : t # s => t \notin B
  <2>1. B \in SUBSET (SUBSET S)
      BY Zenon
  <2> HIDE DEF B
  <2> QED
      BY <2>1, MinimalSubset
<1>3. s \in SUBSET S /\ ~Good(s)
    BY Zenon
<1>4. IsFiniteSet(s)
    BY <1>3, FS_Subset
<1>5. s # {}
  <2> SUFFICES ASSUME s = {} PROVE Good(s)
      BY <1>3, Zenon
  <2>1. \A o \in K : Group(s, k, o) = {}
      BY DEF Group
  <2>2. \A o \in K : G(s)[o] = 0
      BY <2>1, SumEmpty
  <2>3. SumFunctionOnSet(G(s), K) = SumFunctionOnSet(G(s), {})
    <3>1. {} \in SUBSET K /\ \A o \in K : G(s)[o] \in Int
        BY <2>2
    <3>2. \A o \in K \ {} : G(s)[o] = 0
        BY <2>2
    <3> HIDE DEF G
    <3> QED
        BY <3>1, <3>2, SumNonzero
  <2>4. SumFunctionOnSet(f, s) = 0
      BY SumEmpty
  <2>5. SumFunctionOnSet(G(s), {}) = 0
    <3> HIDE DEF G
    <3> QED
        BY SumEmpty
  <2> QED
      BY <2>3, <2>4, <2>5
<1>6. PICK y \in s : TRUE
    BY <1>5
<1> DEFINE t == s \ {y}
           p == k[y]
<1>7. t \in SUBSET s /\ t # s /\ t \in SUBSET S /\ IsFiniteSet(t) /\ p \in K /\ f[y] \in Int
    BY <1>3, <1>4, <1>6, FS_Subset
<1>8. Good(t)
  <2> HIDE DEF t, Good
  <2> QED
      BY <1>2, <1>7
<1>9. \A o \in K \ {p} : Group(s, k, o) = Group(t, k, o)
    BY DEF Group
<1>10. Group(t, k, p) = Group(s, k, p) \ {y} /\ y \in Group(s, k, p)
    BY <1>6 DEF Group
<1>11. SumFunctionOnSet(f, Group(s, k, p)) = SumFunctionOnSet(f, Group(t, k, p)) + f[y]
  <2>1. IsFiniteSet(Group(s, k, p))
      BY <1>0, <1>3, <1>7
  <2>2. \A x \in Group(s, k, p) : f[x] \in Int
      BY <1>3 DEF Group
  <2> DEFINE U == Group(s, k, p)
  <2>3. IsFiniteSet(U) /\ (\A x \in U : f[x] \in Int) /\ y \in U
      BY <1>10, <2>1, <2>2
  <2> HIDE DEF U, B, G, Good
  <2>4. SumFunctionOnSet(f, U) = SumFunctionOnSet(f, U \ {y}) + f[y]
      BY <2>3, SumRemove, Zenon
  <2> QED
      BY <1>10, <2>4 DEF U
<1>12. /\ \A o \in K : G(s)[o] \in Int /\ G(t)[o] \in Int
       /\ \A o \in K \ {p} : G(s)[o] = G(t)[o]
       /\ G(s)[p] = G(t)[p] + f[y]
  <2>1. \A o \in K : SumFunctionOnSet(f, Group(s, k, o)) \in Int
                     /\ SumFunctionOnSet(f, Group(t, k, o)) \in Int
      BY <1>0, <1>3, <1>7
  <2> HIDE DEF t, p
  <2> QED
      BY <1>7, <1>9, <1>11, <2>1
<1>13. SumFunctionOnSet(G(s), K) = SumFunctionOnSet(G(t), K) - G(t)[p] + G(s)[p]
  <2> HIDE DEF G, t, p
  <2> QED
      BY <1>7, <1>12, SumChanged
<1>14. SumFunctionOnSet(f, s) = SumFunctionOnSet(f, t) + f[y]
  <2>1. \A x \in s : f[x] \in Int
      BY <1>3
  <2> QED
      BY <1>4, <1>6, <2>1, SumRemove
<1>15. SumFunctionOnSet(f, t) \in Int /\ SumFunctionOnSet(G(t), K) \in Int
  <2>1. \A x \in t : f[x] \in Int
      BY <1>3
  <2> HIDE DEF G, t
  <2> QED
      BY <1>7, <1>12, <2>1, SumType
<1>16. Good(s)
  <2>1. G(t)[p] \in Int /\ G(s)[p] = G(t)[p] + f[y]
      BY <1>7, <1>12
  <2> HIDE DEF G, t, p
  <2> QED
      BY <1>7, <1>8, <1>13, <1>14, <1>15, <2>1
<1> QED
    BY <1>3, <1>16

\* The indices may be renamed, one to one.
LEMMA SumReindexed ==
    ASSUME NEW S, IsFiniteSet(S), NEW k, NEW f, NEW g,
           \A x, y \in S : k[x] = k[y] => x = y,
           \A x \in S : f[x] \in Int /\ g[k[x]] = f[x]
    PROVE  /\ IsFiniteSet({k[x] : x \in S})
           /\ SumFunctionOnSet(g, {k[x] : x \in S}) = SumFunctionOnSet(f, S)
<1> DEFINE K == {k[x] : x \in S}
           j == [x \in S |-> k[x]]
<1>1. IsFiniteSet(K)
  <2>1. j \in Surjection(S, K)
      BY DEF Surjection
  <2> HIDE DEF j, K
  <2> QED
      BY <2>1, FS_Surjection
<1>2. ASSUME NEW o \in K
      PROVE  g[o] = SumFunctionOnSet(f, Group(S, k, o))
  <2>1. PICK y \in S : o = k[y]
      OBVIOUS
  <2>2. Group(S, k, o) = {y}
      BY <2>1 DEF Group
  <2>3. SumFunctionOnSet(f, {y}) = f[y]
      BY <2>1, SumSingle
  <2> QED
      BY <2>1, <2>2, <2>3
<1>3. \A x \in S : k[x] \in K /\ f[x] \in Int
    OBVIOUS
<1> HIDE DEF K
<1>4. SumFunctionOnSet(f, S) = SumFunctionOnSet(g, K)
    BY <1>1, <1>2, <1>3, SumFibers
<1> QED
    BY <1>1, <1>4 DEF K

\* A set of indices may be split in two.
LEMMA SumSplit ==
    ASSUME NEW S, IsFiniteSet(S), NEW T \in SUBSET S, NEW f, \A x \in S : f[x] \in Int
    PROVE  SumFunctionOnSet(f, S) = SumFunctionOnSet(f, T) + SumFunctionOnSet(f, S \ T)
<1> DEFINE U == S \ T
           e == [x \in S |-> IF x \in T THEN f[x] ELSE 0]
           d == [x \in S |-> IF x \in T THEN 0 ELSE f[x]]
<1>1. IsFiniteSet(T) /\ IsFiniteSet(U) /\ U \in SUBSET S
    BY FS_Subset
<1>2. \A x \in S : e[x] \in Int /\ d[x] \in Int /\ f[x] = e[x] + d[x]
    OBVIOUS
<1>3. /\ \A x \in S \ T : e[x] = 0
      /\ \A x \in S \ U : d[x] = 0
      /\ \A x \in T : e[x] \in Int /\ e[x] = f[x]
      /\ \A x \in U : d[x] \in Int /\ d[x] = f[x]
    OBVIOUS
<1> HIDE DEF e, d, U
<1>4. SumFunctionOnSet(f, S) = SumFunctionOnSet(e, S) + SumFunctionOnSet(d, S)
    BY <1>2, SumPlus
<1>5. SumFunctionOnSet(e, T) = SumFunctionOnSet(e, S)
    BY <1>2, <1>3, SumNonzero
<1>6. SumFunctionOnSet(d, U) = SumFunctionOnSet(d, S)
    BY <1>1, <1>2, <1>3, SumNonzero
<1>7. SumFunctionOnSet(e, T) = SumFunctionOnSet(f, T)
    BY <1>1, <1>3, SumCongruent
<1>8. SumFunctionOnSet(d, U) = SumFunctionOnSet(f, U)
    BY <1>1, <1>3, SumCongruent
<1> QED
    BY <1>4, <1>5, <1>6, <1>7, <1>8 DEF U

-----------------------------------------------------------------------------
(***************************************************************************)
(* The same for SumFunction, the sum of all values of a function.          *)
(***************************************************************************)

LEMMA SumFunctionIs ==
    ASSUME NEW S, NEW f, DOMAIN f = S
    PROVE  SumFunction(f) = SumFunctionOnSet(f, S)
BY DEF SumFunction

\* A function with one more index, unchanged elsewhere, adds its new value.
LEMMA SumExtended ==
    ASSUME NEW S, IsFiniteSet(S), NEW y, y \notin S,
           NEW f, DOMAIN f = S, NEW e, DOMAIN e = S \cup {y},
           \A x \in S : f[x] \in Int /\ e[x] = f[x], e[y] \in Int
    PROVE  SumFunction(e) = SumFunction(f) + e[y]
<1>1. SumFunction(e) = SumFunctionOnSet(e, S \cup {y})
    BY SumFunctionIs
<1>2. SumFunctionOnSet(e, S \cup {y}) = SumFunctionOnSet(e, S) + e[y]
    BY SumAdd
<1>3. SumFunctionOnSet(e, S) = SumFunctionOnSet(f, S)
    BY SumCongruent
<1>4. SumFunction(f) = SumFunctionOnSet(f, S)
    BY SumFunctionIs
<1> QED
    BY <1>1, <1>2, <1>3, <1>4

\* Totals per group are totals of everything.
LEMMA GroupedTotals ==
    ASSUME NEW S, IsFiniteSet(S), NEW k, NEW f, \A x \in S : f[x] \in Nat,
           NEW g, DOMAIN g = {k[x] : x \in S},
           \A o \in DOMAIN g : g[o] = SumFunctionOnSet(f, Group(S, k, o))
    PROVE  /\ IsFiniteSet(DOMAIN g)
           /\ \A o \in DOMAIN g : g[o] \in Nat
           /\ SumFunction(g) = SumFunctionOnSet(f, S)
<1> DEFINE K == DOMAIN g
           j == [x \in S |-> k[x]]
<1>1. IsFiniteSet(K)
  <2>1. j \in Surjection(S, K)
      BY DEF Surjection
  <2> HIDE DEF j, K
  <2> QED
      BY <2>1, FS_Surjection
<1>2. ASSUME NEW o \in K PROVE g[o] \in Nat
  <2>1. Group(S, k, o) \in SUBSET S
      BY DEF Group
  <2>2. IsFiniteSet(Group(S, k, o)) /\ \A x \in Group(S, k, o) : f[x] \in Nat
      BY <2>1, FS_Subset
  <2> QED
      BY <2>2, SumNat
<1>3. \A x \in S : k[x] \in K /\ f[x] \in Int
    OBVIOUS
<1>4. \A o \in K : g[o] = SumFunctionOnSet(f, Group(S, k, o))
    OBVIOUS
<1>5. SumFunction(g) = SumFunctionOnSet(g, K)
    BY SumFunctionIs
<1> HIDE DEF K
<1>6. SumFunctionOnSet(f, S) = SumFunctionOnSet(g, K)
    BY <1>1, <1>3, <1>4, SumFibers
<1> QED
    BY <1>1, <1>2, <1>5, <1>6 DEF K

\* Sums of the set of pairs <<x, a[x]>> by their second component are sums of a.
LEMMA SumOfPairs ==
    ASSUME NEW S, IsFiniteSet(S), NEW a, \A x \in S : a[x] \in Nat
    PROVE  LET pairs == {<<x, a[x]>> : x \in S}
           IN  /\ IsFiniteSet(pairs)
               /\ Cardinality(pairs) = Cardinality(S)
               /\ SumFunction([c \in pairs |-> c[2]]) = SumFunctionOnSet(a, S)
<1> DEFINE Pairs(s) == {<<x, a[x]>> : x \in s}
           Seconds(s) == [c \in Pairs(s) |-> c[2]]
           Good(s) == /\ IsFiniteSet(Pairs(s))
                      /\ Cardinality(Pairs(s)) = Cardinality(s)
                      /\ SumFunction(Seconds(s)) = SumFunctionOnSet(a, s)
           B == {s \in SUBSET S : ~Good(s)}
<1> SUFFICES ASSUME B # {} PROVE FALSE
    BY Zenon
<1>1. PICK s \in B : \A t \in SUBSET s : t # s => t \notin B
  <2>1. B \in SUBSET (SUBSET S)
      BY Zenon
  <2> HIDE DEF B
  <2> QED
      BY <2>1, MinimalSubset
<1>2. s \in SUBSET S /\ ~Good(s)
    BY Zenon
<1>3. IsFiniteSet(s)
    BY <1>2, FS_Subset
<1>4. s # {}
  <2> SUFFICES ASSUME s = {} PROVE Good(s)
      BY <1>2, Zenon
  <2>1. Pairs(s) = {} /\ DOMAIN Seconds(s) = {}
      OBVIOUS
  <2>2. SumFunction(Seconds(s)) = 0
      BY <2>1, SumFunctionIs, SumEmpty
  <2> QED
      BY <2>1, <2>2, FS_EmptySet, SumEmpty
<1>5. PICK y \in s : TRUE
    BY <1>4
<1> DEFINE t == s \ {y}
<1>6. t \in SUBSET s /\ t # s /\ t \in SUBSET S /\ y \notin t /\ IsFiniteSet(t)
      /\ s = t \cup {y}
    BY <1>2, <1>3, <1>5, FS_Subset
<1>7. Good(t)
  <2> HIDE DEF t, Good
  <2> QED
      BY <1>1, <1>6
<1> DEFINE c == <<y, a[y]>>
<1> HIDE DEF t
<1>8. Pairs(s) = Pairs(t) \cup {c} /\ c \notin Pairs(t)
    BY <1>6
<1>9. IsFiniteSet(Pairs(s)) /\ Cardinality(Pairs(s)) = Cardinality(Pairs(t)) + 1
  <2> HIDE DEF Pairs, c
  <2> QED
      BY <1>7, <1>8, FS_AddElement
<1>10. Cardinality(s) = Cardinality(t) + 1
    BY <1>6, FS_AddElement
<1>11. SumFunction(Seconds(s)) = SumFunction(Seconds(t)) + a[y]
  <2>1. /\ DOMAIN Seconds(t) = Pairs(t)
        /\ DOMAIN Seconds(s) = Pairs(t) \cup {c}
        /\ \A d \in Pairs(t) : Seconds(t)[d] \in Int /\ Seconds(s)[d] = Seconds(t)[d]
        /\ Seconds(s)[c] = a[y]
        /\ a[y] \in Int
      BY <1>2, <1>5, <1>6, <1>8
  <2>2. IsFiniteSet(Pairs(t))
      BY <1>7
  <2> HIDE DEF Pairs, Seconds, c
  <2> QED
      BY <1>8, <2>1, <2>2, SumExtended
<1>12. SumFunctionOnSet(a, s) = SumFunctionOnSet(a, t) + a[y]
  <2>1. \A x \in t \cup {y} : a[x] \in Int
      BY <1>2, <1>6
  <2>2. SumFunctionOnSet(a, t \cup {y}) = SumFunctionOnSet(a, t) + a[y]
      BY <1>6, <2>1, SumAdd, Zenon
  <2> QED
      BY <1>6, <2>2, Zenon
<1>13. Good(s)
  <2> HIDE DEF Pairs, Seconds
  <2> QED
      BY <1>7, <1>9, <1>10, <1>11, <1>12
<1> QED
    BY <1>2, <1>13

\* Products of naturals distribute over sums.
LEMMA Distributes ==
    ASSUME NEW c \in Nat, NEW i \in Nat, NEW j \in Nat
    PROVE  c * (i + j) = c * i + c * j /\ c * i \in Nat /\ c * j \in Nat
OBVIOUS

(***************************************************************************)
(* Shares that are rounded down, a[x] = floor(num * b[x] / den), add up to *)
(* at most num * sum(b) / den, and lose less than one unit each.           *)
(***************************************************************************)
LEMMA SumOfFloors ==
    ASSUME NEW S, IsFiniteSet(S), NEW num \in Nat, NEW den \in Nat,
           NEW a, NEW b,
           \A x \in S : /\ a[x] \in Nat
                        /\ b[x] \in Nat
                        /\ den * a[x] <= num * b[x]
                        /\ num * b[x] + 1 <= den * a[x] + den
    PROVE  /\ den * SumFunctionOnSet(a, S) <= num * SumFunctionOnSet(b, S)
           /\ num * SumFunctionOnSet(b, S) + Cardinality(S)
                  <= den * SumFunctionOnSet(a, S) + den * Cardinality(S)
<1> DEFINE Good(s) ==
               /\ den * SumFunctionOnSet(a, s) <= num * SumFunctionOnSet(b, s)
               /\ num * SumFunctionOnSet(b, s) + Cardinality(s)
                      <= den * SumFunctionOnSet(a, s) + den * Cardinality(s)
           B == {s \in SUBSET S : ~Good(s)}
<1> SUFFICES ASSUME B # {} PROVE FALSE
    BY Zenon
<1>1. PICK s \in B : \A t \in SUBSET s : t # s => t \notin B
  <2>1. B \in SUBSET (SUBSET S)
      BY Zenon
  <2> HIDE DEF B
  <2> QED
      BY <2>1, MinimalSubset
<1>2. s \in SUBSET S /\ ~Good(s)
    BY Zenon
<1>3. \A t \in SUBSET S : /\ IsFiniteSet(t)
                          /\ Cardinality(t) \in Nat
                          /\ SumFunctionOnSet(a, t) \in Nat
                          /\ SumFunctionOnSet(b, t) \in Nat
  <2>1. ASSUME NEW t \in SUBSET S PROVE IsFiniteSet(t) /\ Cardinality(t) \in Nat
      BY FS_Subset, FS_CardinalityType
  <2>2. ASSUME NEW t \in SUBSET S PROVE \A x \in t : a[x] \in Nat /\ b[x] \in Nat
      OBVIOUS
  <2> QED
      BY <2>1, <2>2, SumNat
<1>4. s # {}
  <2> SUFFICES ASSUME s = {} PROVE Good(s)
      BY <1>2, Zenon
  <2>1. SumFunctionOnSet(a, s) = 0 /\ SumFunctionOnSet(b, s) = 0 /\ Cardinality(s) = 0
      BY SumEmpty, FS_EmptySet
  <2> QED
      BY <2>1
<1>5. PICK y \in s : TRUE
    BY <1>4
<1> DEFINE t == s \ {y}
<1>6. t \in SUBSET s /\ t # s /\ t \in SUBSET S
    BY <1>2, <1>5
<1>7. Good(t)
  <2> HIDE DEF t, Good
  <2> QED
      BY <1>1, <1>6
<1> DEFINE at == SumFunctionOnSet(a, t)
           bt == SumFunctionOnSet(b, t)
           n == Cardinality(t)
<1>8. /\ SumFunctionOnSet(a, s) = at + a[y]
      /\ SumFunctionOnSet(b, s) = bt + b[y]
      /\ Cardinality(s) = n + 1
  <2>1. \A x \in s : a[x] \in Int /\ b[x] \in Int
      BY <1>2
  <2>2. IsFiniteSet(s)
      BY <1>2, <1>3
  <2>3. Cardinality(t) = Cardinality(s) - 1 /\ Cardinality(s) \in Nat
      BY <1>2, <1>3, <1>5, FS_RemoveElement
  <2>4. /\ SumFunctionOnSet(a, s) = at + a[y]
        /\ SumFunctionOnSet(b, s) = bt + b[y]
      BY <1>5, <2>1, <2>2, SumRemove
  <2> QED
      BY <2>3, <2>4
<1>9. at \in Nat /\ bt \in Nat /\ n \in Nat
    BY <1>3, <1>6
<1>10. /\ a[y] \in Nat
       /\ b[y] \in Nat
       /\ den * a[y] <= num * b[y]
       /\ num * b[y] + 1 <= den * a[y] + den
    BY <1>2, <1>5
<1>11. /\ den * at <= num * bt
       /\ num * bt + n <= den * at + den * n
    BY <1>7
<1> HIDE DEF at, bt, n, t
<1>12. /\ den * (at + a[y]) = den * at + den * a[y]
       /\ num * (bt + b[y]) = num * bt + num * b[y]
       /\ den * (n + 1) = den * n + den
       /\ den * at \in Nat
       /\ den * a[y] \in Nat
       /\ num * bt \in Nat
       /\ num * b[y] \in Nat
       /\ den * n \in Nat
  <2> DEFINE ay == a[y]
             by == b[y]
  <2>1. ay \in Nat /\ by \in Nat
      BY <1>10
  <2> HIDE DEF ay, by
  <2>2. /\ den * (at + ay) = den * at + den * ay
        /\ num * (bt + by) = num * bt + num * by
        /\ den * (n + 1) = den * n + den * 1
        /\ den * at \in Nat /\ den * ay \in Nat
        /\ num * bt \in Nat /\ num * by \in Nat
        /\ den * n \in Nat
      BY <1>9, <2>1, Distributes
  <2> QED
      BY <2>2 DEF ay, by
<1>13. /\ den * (at + a[y]) <= num * (bt + b[y])
       /\ num * (bt + b[y]) + (n + 1) <= den * (at + a[y]) + den * (n + 1)
  <2> DEFINE d1 == den * at
             d2 == den * a[y]
             d3 == den * n
             n1 == num * bt
             n2 == num * b[y]
  <2>1. d1 <= n1 /\ d2 <= n2 /\ n1 + n <= d1 + d3 /\ n2 + 1 <= d2 + den
      BY <1>10, <1>11
  <2>2. /\ d1 \in Nat /\ d2 \in Nat /\ d3 \in Nat
        /\ n1 \in Nat /\ n2 \in Nat
      BY <1>12
  <2> HIDE DEF d1, d2, d3, n1, n2
  <2>3. d1 + d2 <= n1 + n2 /\ n1 + n2 + (n + 1) <= d1 + d2 + (d3 + den)
      BY <1>9, <2>1, <2>2
  <2> QED
      BY <1>12, <2>3 DEF d1, d2, d3, n1, n2
<1>14. Good(s)
    BY <1>8, <1>13
<1> QED
    BY <1>2, <1>14, Zenon
=============================================================================

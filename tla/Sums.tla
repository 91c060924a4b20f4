-------------------------------- MODULE Sums --------------------------------
(***************************************************************************)
(* Sums over finite sets, as MapThenSumSet of the community modules        *)
(* computes them: that the recursion has a solution, that the order in     *)
(* which elements are picked does not matter, and what follows.  There is  *)
(* no state here: the proofs of several modules rest on these lemmas.      *)
(*                                                                         *)
(* The induction theorems of the library take an operator.  Those here     *)
(* take a set, of the numbers or subsets for which a statement holds.      *)
(***************************************************************************)
EXTENDS Rounding, FiniteSetsExt, FiniteSetTheorems, WellFoundedInduction, TLAPS

\* Induction over the natural numbers.
LEMMA NatSteps ==
    ASSUME NEW T \in SUBSET Nat, 0 \in T, \A n \in Nat : n \in T => n + 1 \in T
    PROVE  T = Nat
<1> SUFFICES ASSUME Nat \ T # {} PROVE FALSE
  OBVIOUS
<1>1. PICK n \in Nat \ T : \A m \in Nat \ T : ~(<<m, n>> \in OpToRel(<, Nat))
  BY NatLessThanWellFounded, WFMin
<1>2. n - 1 \in Nat /\ (n - 1) + 1 = n
  OBVIOUS
<1>3. n - 1 \in T
  <2> SUFFICES ASSUME n - 1 \in Nat \ T PROVE FALSE
    BY <1>2
  <2>1. ~(n - 1 < n)
    BY <1>1, <1>2 DEF OpToRel
  <2> QED
    BY <2>1
<1> QED
  BY <1>2, <1>3

\* Induction over the subsets of a finite set.
LEMMA SubsetSteps ==
    ASSUME NEW S, IsFiniteSet(S), NEW T, {} \in T,
           \A s \in SUBSET S : s # {} /\ (\A x \in s : s \ {x} \in T) => s \in T
    PROVE  SUBSET S \subseteq T
<1> DEFINE sizes == {n \in Nat : \A s \in SUBSET S : Cardinality(s) = n => s \in T}
<1>1. \A s \in SUBSET S : IsFiniteSet(s) /\ Cardinality(s) \in Nat
  BY FS_Subset, FS_CardinalityType
<1>2. 0 \in sizes
  BY <1>1, FS_EmptySet
<1>3. ASSUME NEW n \in Nat, n \in sizes PROVE n + 1 \in sizes
  <2> SUFFICES ASSUME NEW s \in SUBSET S, Cardinality(s) = n + 1 PROVE s \in T
    OBVIOUS
  <2>1. s # {}
    <3>1. Cardinality({}) = 0 /\ n + 1 # 0
      BY FS_EmptySet
    <3> QED
      BY <3>1
  <2>2. ASSUME NEW x \in s PROVE s \ {x} \in T
    <3>1. Cardinality(s \ {x}) = n /\ s \ {x} \in SUBSET S
      BY <1>1, FS_RemoveElement
    <3> QED
      BY <1>3, <3>1
  <2> QED
    BY <2>1, <2>2
<1>4. sizes = Nat
  <2> HIDE DEF sizes
  <2>1. sizes \in SUBSET Nat
    BY DEF sizes
  <2> QED
    BY <1>2, <1>3, <2>1, NatSteps
<1> QED
  BY <1>1, <1>4

\* A finite set of numbers has a greatest and a least one.
LEMMA GreatestIsIn ==
    ASSUME NEW S, IsFiniteSet(S), S # {}, S \subseteq Nat
    PROVE  /\ Max(S) \in S /\ \A y \in S : Max(S) >= y
           /\ Min(S) \in S /\ \A y \in S : Min(S) <= y
<1> DEFINE T == {s \in SUBSET S : s # {} => /\ \E x \in s : \A y \in s : x >= y
                                            /\ \E x \in s : \A y \in s : x <= y}
<1>1. {} \in T
  OBVIOUS
<1>2. ASSUME NEW s \in SUBSET S, s # {}, \A x \in s : s \ {x} \in T
      PROVE  s \in T
  <2>1. PICK z \in s : TRUE
    BY <1>2
  <2>2. CASE s \ {z} = {}
    BY <2>1, <2>2
  <2>3. CASE s \ {z} # {}
    <3>1. s \ {z} \in T
      BY <1>2, <2>1
    <3>2. PICK a \in s \ {z} : \A y \in s \ {z} : a >= y
      BY <2>3, <3>1
    <3>3. PICK b \in s \ {z} : \A y \in s \ {z} : b <= y
      BY <2>3, <3>1
    <3>4. \A y \in s : y \in Nat
      OBVIOUS
    <3>5. \E x \in s : \A y \in s : x >= y
      <4>1. CASE a >= z
        BY <2>1, <3>2, <4>1
      <4>2. CASE z >= a
        BY <2>1, <3>2, <3>4, <4>2
      <4> QED
        BY <2>1, <3>2, <3>4, <4>1, <4>2
    <3>6. \E x \in s : \A y \in s : x <= y
      <4>1. CASE b <= z
        BY <2>1, <3>3, <4>1
      <4>2. CASE z <= b
        BY <2>1, <3>3, <3>4, <4>2
      <4> QED
        BY <2>1, <3>3, <3>4, <4>1, <4>2
    <3> QED
      BY <3>5, <3>6
  <2> QED
    BY <2>2, <2>3
<1>3. S \in T
  <2> HIDE DEF T
  <2> QED
    BY <1>1, <1>2, SubsetSteps
<1> QED
  BY <1>3 DEF Max, Min

-----------------------------------------------------------------------------
(* MapThenSumSet picks an element, and adds its term to the sum of the others. *)

Pick(s) == CHOOSE x \in s : TRUE
Adds(it, F, S) ==
    it = [s \in SUBSET S |-> IF s = {} THEN 0 ELSE F[Pick(s)] + it[s \ {Pick(s)}]]

\* Up to a size.
AddsTo(it, F, S, n) ==
    \A s \in SUBSET S :
        Cardinality(s) <= n => it[s] = IF s = {} THEN 0 ELSE F[Pick(s)] + it[s \ {Pick(s)}]

\* What is picked is an element.
LEMMA PickedIsIn == \A s : s # {} => Pick(s) \in s
  BY DEF Pick

\* The recursion has a solution.
LEMMA SumsExist ==
    ASSUME NEW S, IsFiniteSet(S), NEW F
    PROVE  \E it : Adds(it, F, S)
<1> DEFINE sizes == {n \in Nat : \E it : AddsTo(it, F, S, n)}
<1>1. \A s \in SUBSET S :
          /\ IsFiniteSet(s) /\ Cardinality(s) \in Nat /\ Cardinality(s) <= Cardinality(S)
          /\ (s # {} => /\ s \ {Pick(s)} \in SUBSET S
                        /\ Cardinality(s \ {Pick(s)}) = Cardinality(s) - 1)
  <2> SUFFICES ASSUME NEW s \in SUBSET S
               PROVE  /\ IsFiniteSet(s) /\ Cardinality(s) \in Nat
                      /\ Cardinality(s) <= Cardinality(S)
                      /\ (s # {} => /\ s \ {Pick(s)} \in SUBSET S
                                    /\ Cardinality(s \ {Pick(s)}) = Cardinality(s) - 1)
    OBVIOUS
  <2>1. IsFiniteSet(s) /\ Cardinality(s) \in Nat /\ Cardinality(s) <= Cardinality(S)
    BY FS_Subset, FS_CardinalityType
  <2> QED
    BY <2>1, PickedIsIn, FS_RemoveElement
<1>2. 0 \in sizes
  <2>1. \A s \in SUBSET S : Cardinality(s) <= 0 => s = {}
    <3> SUFFICES ASSUME NEW s \in SUBSET S, Cardinality(s) <= 0 PROVE s = {}
      OBVIOUS
    <3>1. IsFiniteSet(s) /\ Cardinality(s) \in Nat
      BY <1>1
    <3>2. \A n \in Nat : n <= 0 => n = 0
      OBVIOUS
    <3>3. Cardinality(s) = 0
      BY <3>1, <3>2
    <3> QED
      BY <3>1, <3>3, FS_EmptySet
  <2>2. AddsTo([s \in SUBSET S |-> 0], F, S, 0)
    BY <2>1 DEF AddsTo
  <2> QED
    BY <2>2
<1>3. ASSUME NEW n \in Nat, n \in sizes PROVE n + 1 \in sizes
  <2>1. PICK it : AddsTo(it, F, S, n)
    BY <1>3
  <2> DEFINE next == [s \in SUBSET S |-> IF s = {} THEN 0 ELSE F[Pick(s)] + it[s \ {Pick(s)}]]
  <2>2. \A s \in SUBSET S : Cardinality(s) <= n => next[s] = it[s]
    BY <2>1 DEF AddsTo
  <2>3. ASSUME NEW s \in SUBSET S, Cardinality(s) <= n + 1
        PROVE  next[s] = IF s = {} THEN 0 ELSE F[Pick(s)] + next[s \ {Pick(s)}]
    <3>1. CASE s = {}
      BY <3>1
    <3>2. CASE s # {}
      <4>1. s \ {Pick(s)} \in SUBSET S /\ Cardinality(s \ {Pick(s)}) <= n
        BY <1>1, <2>3, <3>2
      <4>2. next[s \ {Pick(s)}] = it[s \ {Pick(s)}]
        BY <2>2, <4>1
      <4> QED
        BY <3>2, <4>2
    <3> QED
      BY <3>1, <3>2
  <2>4. AddsTo(next, F, S, n + 1)
    <3> HIDE DEF next
    <3> QED
      BY <2>3 DEF AddsTo
  <2> QED
    BY <2>4
<1>4. Cardinality(S) \in sizes
  <2> HIDE DEF sizes
  <2>1. sizes \in SUBSET Nat
    BY DEF sizes
  <2>2. sizes = Nat
    BY <1>2, <1>3, <2>1, NatSteps
  <2> QED
    BY <1>1, <2>2
<1>5. PICK it : AddsTo(it, F, S, Cardinality(S))
  BY <1>4
<1> DEFINE whole == [s \in SUBSET S |-> it[s]]
<1>6. \A s \in SUBSET S : it[s] = IF s = {} THEN 0 ELSE F[Pick(s)] + it[s \ {Pick(s)}]
  BY <1>1, <1>5 DEF AddsTo
<1>7. \A s \in SUBSET S :
          whole[s] = IF s = {} THEN 0 ELSE F[Pick(s)] + whole[s \ {Pick(s)}]
  BY <1>1, <1>6
<1>8. Adds(whole, F, S)
  <2> HIDE DEF whole
  <2>1. whole = [s \in SUBSET S |-> whole[s]]
    BY DEF whole
  <2> QED
    BY <1>7, <2>1 DEF Adds
<1> QED
  BY <1>8

\* The terms are integers.
Terms(F, S) == \A x \in S : F[x] \in Int

\* Sums of integers are integers.
LEMMA PartialSums ==
    ASSUME NEW S, IsFiniteSet(S), NEW F, Terms(F, S), NEW it, Adds(it, F, S)
    PROVE  \A s \in SUBSET S : it[s] \in Int
<1> DEFINE T == {s \in SUBSET S : it[s] \in Int}
<1>1. {} \in T
  BY DEF Adds
<1>2. ASSUME NEW s \in SUBSET S, s # {}, \A x \in s : s \ {x} \in T
      PROVE  s \in T
  <2> PICK p : p = Pick(s)
    OBVIOUS
  <2>1. p \in s /\ it[s] = F[p] + it[s \ {p}]
    BY <1>2, PickedIsIn DEF Adds
  <2>2. F[p] \in Int /\ it[s \ {p}] \in Int
    BY <1>2, <2>1 DEF Terms
  <2>3. it[s] \in Int
    BY <2>1, <2>2
  <2> QED
    BY <2>3
<1>3. SUBSET S \subseteq T
  <2> HIDE DEF T
  <2> QED
    BY <1>1, <1>2, SubsetSteps
<1> QED
  BY <1>3

\* Whatever element is taken out.
LEMMA AnyOrder ==
    ASSUME NEW S, IsFiniteSet(S), NEW F, Terms(F, S), NEW it, Adds(it, F, S)
    PROVE  \A s \in SUBSET S : \A x \in s : it[s] = F[x] + it[s \ {x}]
<1> DEFINE T == {s \in SUBSET S : \A x \in s : it[s] = F[x] + it[s \ {x}]}
<1>1. {} \in T
  OBVIOUS
<1>2. ASSUME NEW s \in SUBSET S, s # {}, \A x \in s : s \ {x} \in T
      PROVE  s \in T
  <2> PICK p : p = Pick(s)
    OBVIOUS
  <2>1. p \in s /\ it[s] = F[p] + it[s \ {p}]
    BY <1>2, PickedIsIn DEF Adds
  <2>2. ASSUME NEW x \in s PROVE it[s] = F[x] + it[s \ {x}]
    <3>1. CASE x = p
      BY <2>1, <3>1
    <3>2. CASE x # p
      <4>1. it[s \ {p}] = F[x] + it[(s \ {p}) \ {x}]
        BY <1>2, <2>1, <3>2
      <4>2. it[s \ {x}] = F[p] + it[(s \ {x}) \ {p}]
        BY <1>2, <2>1, <3>2
      <4>3. (s \ {x}) \ {p} = (s \ {p}) \ {x}
        OBVIOUS
      <4>4. it[(s \ {p}) \ {x}] \in Int /\ F[x] \in Int /\ F[p] \in Int
        <5>1. (s \ {p}) \ {x} \in SUBSET S
          OBVIOUS
        <5> QED
          BY <2>1, <5>1, PartialSums DEF Terms
      <4> PICK z \in Int : z = it[(s \ {p}) \ {x}]
        BY <4>4
      <4>5. it[s \ {p}] = F[x] + z /\ it[s \ {x}] = F[p] + z
        BY <4>1, <4>2, <4>3
      <4>6. F[p] + (F[x] + z) = F[x] + (F[p] + z)
        BY <4>4
      <4> QED
        BY <2>1, <4>5, <4>6
    <3> QED
      BY <3>1, <3>2
  <2> QED
    BY <2>2
<1>3. SUBSET S \subseteq T
  <2> HIDE DEF T
  <2> QED
    BY <1>1, <1>2, SubsetSteps
<1> QED
  BY <1>3

\* There is one solution.
LEMMA OneSolution ==
    ASSUME NEW S, IsFiniteSet(S), NEW F, NEW it, Adds(it, F, S),
           NEW G, NEW other, Adds(other, G, S), \A x \in S : F[x] = G[x]
    PROVE  it = other
<1> DEFINE T == {s \in SUBSET S : it[s] = other[s]}
<1>1. {} \in T
  BY DEF Adds
<1>2. ASSUME NEW s \in SUBSET S, s # {}, \A x \in s : s \ {x} \in T
      PROVE  s \in T
  <2> PICK p : p = Pick(s)
    OBVIOUS
  <2>1. /\ p \in s /\ it[s] = F[p] + it[s \ {p}]
        /\ other[s] = G[p] + other[s \ {p}]
    BY <1>2, PickedIsIn DEF Adds
  <2> QED
    BY <1>2, <2>1
<1>3. SUBSET S \subseteq T
  <2> HIDE DEF T
  <2> QED
    BY <1>1, <1>2, SubsetSteps
<1>4. \A s \in SUBSET S : it[s] = other[s]
  BY <1>3
<1>5. it = [s \in SUBSET S |-> it[s]] /\ other = [s \in SUBSET S |-> other[s]]
  BY DEF Adds
<1> QED
  BY <1>4, <1>5

-----------------------------------------------------------------------------
(* The sum of a function over a finite part of its domain. *)

Total(F, S) == MapThenSumSet(LAMBDA x : F[x], S)

\* The sum is what that recursion gives.
LEMMA TotalAdds ==
    ASSUME NEW S, IsFiniteSet(S), NEW F
    PROVE  \E it : Adds(it, F, S) /\ Total(F, S) = it[S]
<1> DEFINE rec(it) == it = [s \in SUBSET S |-> IF s = {} THEN 0
               ELSE F[CHOOSE x \in s : TRUE] + it[s \ {CHOOSE x \in s : TRUE}]]
<1>1. \E it : rec(it)
  <2>1. PICK it : Adds(it, F, S)
    BY SumsExist
  <2>2. rec(it)
    BY <2>1 DEF Adds, Pick
  <2> QED
    BY <2>2
<1>2. rec(CHOOSE i : rec(i))
  BY <1>1
<1>3. Total(F, S) = (CHOOSE i : rec(i))[S]
  BY DEF Total, MapThenSumSet, MapThenFoldSet
<1> QED
  BY <1>2, <1>3 DEF Adds, Pick

\* A sum whose terms are given by an operator is that of the function.
LEMMA TotalIs ==
    ASSUME NEW S, IsFiniteSet(S), NEW F, NEW it, Adds(it, F, S)
    PROVE  Total(F, S) = it[S]
BY TotalAdds, OneSolution

\* Nothing adds up to zero.
LEMMA TotalOfNone == ASSUME NEW F PROVE Total(F, {}) = 0
<1>1. IsFiniteSet({})
  BY FS_EmptySet
<1>2. PICK it : Adds(it, F, {}) /\ Total(F, {}) = it[{}]
  BY <1>1, TotalAdds
<1> QED
  BY <1>2 DEF Adds

\* What is solved for a set is solved for its subsets.
LEMMA TotalOfSubset ==
    ASSUME NEW S, IsFiniteSet(S), NEW F, NEW it, Adds(it, F, S), NEW s \in SUBSET S
    PROVE  Total(F, s) = it[s]
<1> DEFINE part == [r \in SUBSET s |-> it[r]]
<1>1. IsFiniteSet(s)
  BY FS_Subset
<1>2. \A r \in SUBSET s :
          part[r] = IF r = {} THEN 0 ELSE F[Pick(r)] + part[r \ {Pick(r)}]
  <2> SUFFICES ASSUME NEW r \in SUBSET s
               PROVE  part[r] = IF r = {} THEN 0 ELSE F[Pick(r)] + part[r \ {Pick(r)}]
    OBVIOUS
  <2>1. part[r] = it[r] /\ part[r \ {Pick(r)}] = it[r \ {Pick(r)}]
    OBVIOUS
  <2>2. it[r] = IF r = {} THEN 0 ELSE F[Pick(r)] + it[r \ {Pick(r)}]
    BY DEF Adds
  <2> QED
    BY <2>1, <2>2
<1>3. Adds(part, F, s)
  <2>1. part = [r \in SUBSET s |-> part[r]]
    OBVIOUS
  <2> HIDE DEF part
  <2> QED
    BY <1>2, <2>1 DEF Adds
<1>4. Total(F, s) = part[s]
  <2> HIDE DEF part
  <2> QED
    BY <1>1, <1>3, TotalIs
<1> QED
  BY <1>4

\* A sum of integers is an integer.
LEMMA TotalType ==
    ASSUME NEW S, IsFiniteSet(S), NEW F, Terms(F, S)
    PROVE  Total(F, S) \in Int
<1>1. PICK it : Adds(it, F, S) /\ Total(F, S) = it[S]
  BY TotalAdds
<1>2. \A s \in SUBSET S : it[s] \in Int
  BY <1>1, PartialSums
<1> QED
  BY <1>1, <1>2

\* Whatever element is added last.
LEMMA TotalRemove ==
    ASSUME NEW S, IsFiniteSet(S), NEW F, Terms(F, S), NEW x \in S
    PROVE  Total(F, S) = F[x] + Total(F, S \ {x})
<1>1. PICK it : Adds(it, F, S) /\ Total(F, S) = it[S]
  BY TotalAdds
<1>2. it[S] = F[x] + it[S \ {x}]
  BY <1>1, AnyOrder
<1>3. Total(F, S \ {x}) = it[S \ {x}]
  BY <1>1, TotalOfSubset
<1> QED
  BY <1>1, <1>2, <1>3

\* Equal terms have equal sums.
LEMMA TotalEqual ==
    ASSUME NEW S, IsFiniteSet(S), NEW F, NEW G, \A x \in S : F[x] = G[x]
    PROVE  Total(F, S) = Total(G, S)
<1>1. PICK it : Adds(it, F, S) /\ Total(F, S) = it[S]
  BY TotalAdds
<1>2. PICK other : Adds(other, G, S) /\ Total(G, S) = other[S]
  BY TotalAdds
<1> QED
  BY <1>1, <1>2, OneSolution

\* One element more.
OneMore(F, s, x, r) ==
    /\ Total(F, s) = F[x] + Total(F, r)
    /\ Total(F, s) \in Int /\ Total(F, r) \in Int /\ F[x] \in Int

\* The same for a part of the set.
LEMMA TotalWithout ==
    ASSUME NEW S, IsFiniteSet(S), NEW F, Terms(F, S), NEW s \in SUBSET S, NEW x \in s
    PROVE  OneMore(F, s, x, s \ {x})
<1>1. IsFiniteSet(s) /\ IsFiniteSet(s \ {x}) /\ Terms(F, s) /\ Terms(F, s \ {x})
  BY FS_Subset DEF Terms
<1> QED
  BY <1>1, TotalRemove, TotalType DEF Terms, OneMore

\* Sums of smaller terms are smaller, and equal only where all terms are.
Compares(F, G, s) ==
    /\ Total(F, s) <= Total(G, s)
    /\ Total(F, s) = Total(G, s) => \A x \in s : F[x] = G[x]

\* Term by term.
LEMMA TotalCompare ==
    ASSUME NEW S, IsFiniteSet(S), NEW F, NEW G, Terms(F, S), Terms(G, S),
           \A x \in S : F[x] <= G[x]
    PROVE  Compares(F, G, S)
<1> DEFINE T == {s \in SUBSET S : Compares(F, G, s)}
<1>1. {} \in T
  BY TotalOfNone DEF Compares
<1>2. ASSUME NEW s \in SUBSET S, s # {}, \A x \in s : s \ {x} \in T
      PROVE  s \in T
  <2> PICK p \in s : TRUE
    BY <1>2
  <2> PICK r : r = s \ {p}
    OBVIOUS
  <2>1. OneMore(F, s, p, r) /\ OneMore(G, s, p, r)
    BY TotalWithout
  <2>2. Compares(F, G, r) /\ F[p] <= G[p]
    BY <1>2
  <2>3. Total(F, s) <= Total(G, s)
    BY <2>1, <2>2 DEF Compares, OneMore
  <2>4. ASSUME Total(F, s) = Total(G, s) PROVE \A x \in s : F[x] = G[x]
    <3>1. F[p] = G[p] /\ Total(F, r) = Total(G, r)
      BY <2>1, <2>2, <2>4 DEF Compares, OneMore
    <3> QED
      BY <2>2, <3>1 DEF Compares
  <2> QED
    BY <2>3, <2>4 DEF Compares
<1>3. SUBSET S \subseteq T
  <2> HIDE DEF T
  <2> QED
    BY <1>1, <1>2, SubsetSteps
<1> QED
  BY <1>3

\* Sums add up term by term.
LEMMA TotalPlus ==
    ASSUME NEW S, IsFiniteSet(S), NEW F, NEW G, NEW H, Terms(F, S), Terms(G, S),
           \A x \in S : H[x] = F[x] + G[x]
    PROVE  Total(H, S) = Total(F, S) + Total(G, S)
<1> DEFINE T == {s \in SUBSET S : Total(H, s) = Total(F, s) + Total(G, s)}
<1>0. Terms(H, S)
  BY DEF Terms
<1>1. {} \in T
  BY TotalOfNone
<1>2. ASSUME NEW s \in SUBSET S, s # {}, \A x \in s : s \ {x} \in T
      PROVE  s \in T
  <2> PICK p \in s : TRUE
    BY <1>2
  <2> PICK r : r = s \ {p}
    OBVIOUS
  <2>1. OneMore(F, s, p, r) /\ OneMore(G, s, p, r)
    BY TotalWithout
  <2>2. OneMore(H, s, p, r)
    BY <1>0, TotalWithout
  <2>3. Total(H, r) = Total(F, r) + Total(G, r) /\ H[p] = F[p] + G[p]
    BY <1>2
  <2>4. Total(H, s) = Total(F, s) + Total(G, s)
    BY <2>1, <2>2, <2>3 DEF OneMore
  <2> QED
    BY <2>4
<1>3. SUBSET S \subseteq T
  <2> HIDE DEF T
  <2> QED
    BY <1>1, <1>2, SubsetSteps
<1> QED
  BY <1>3

\* A factor of all terms is a factor of the sum.
LEMMA TotalTimes ==
    ASSUME NEW S, IsFiniteSet(S), NEW F, NEW H, Terms(F, S), NEW k \in Int,
           \A x \in S : H[x] = k * F[x]
    PROVE  Total(H, S) = k * Total(F, S)
<1> DEFINE T == {s \in SUBSET S : Total(H, s) = k * Total(F, s)}
<1>0. Terms(H, S)
  BY DEF Terms
<1>1. {} \in T
  BY TotalOfNone
<1>2. ASSUME NEW s \in SUBSET S, s # {}, \A x \in s : s \ {x} \in T
      PROVE  s \in T
  <2> PICK p \in s : TRUE
    BY <1>2
  <2> PICK r : r = s \ {p}
    OBVIOUS
  <2>1. OneMore(F, s, p, r) /\ OneMore(H, s, p, r)
    BY <1>0, TotalWithout
  <2>2. Total(H, r) = k * Total(F, r) /\ H[p] = k * F[p]
    BY <1>2
  <2>3. \A m, n \in Int : k * m + k * n = k * (m + n)
    OBVIOUS
  <2>4. Total(H, s) = k * Total(F, s)
    BY <2>1, <2>2, <2>3 DEF OneMore
  <2> QED
    BY <2>4
<1>3. SUBSET S \subseteq T
  <2> HIDE DEF T
  <2> QED
    BY <1>1, <1>2, SubsetSteps
<1> QED
  BY <1>3

\* A cardinality is a sum of ones.
LEMMA TotalOfOnes ==
    ASSUME NEW S, IsFiniteSet(S), NEW F, \A x \in S : F[x] = 1
    PROVE  Total(F, S) = Cardinality(S)
<1> DEFINE T == {s \in SUBSET S : Total(F, s) = Cardinality(s)}
<1>0. Terms(F, S)
  BY DEF Terms
<1>1. {} \in T
  BY TotalOfNone, FS_EmptySet
<1>2. ASSUME NEW s \in SUBSET S, s # {}, \A x \in s : s \ {x} \in T
      PROVE  s \in T
  <2> PICK p \in s : TRUE
    BY <1>2
  <2> PICK r : r = s \ {p}
    OBVIOUS
  <2>1. OneMore(F, s, p, r) /\ F[p] = 1 /\ Total(F, r) = Cardinality(r)
    BY <1>0, <1>2, TotalWithout
  <2>2. IsFiniteSet(s) /\ Cardinality(s) \in Nat
    BY FS_Subset, FS_CardinalityType
  <2>3. Cardinality(r) = Cardinality(s) - 1
    BY <2>2, FS_RemoveElement
  <2>4. Total(F, s) = Cardinality(s)
    BY <2>1, <2>2, <2>3 DEF OneMore
  <2> QED
    BY <2>4
<1>3. SUBSET S \subseteq T
  <2> HIDE DEF T
  <2> QED
    BY <1>1, <1>2, SubsetSteps
<1> QED
  BY <1>3

\* The sum over two disjoint sets.
LEMMA TotalOfBoth ==
    ASSUME NEW A, NEW B, IsFiniteSet(A), IsFiniteSet(B), A \cap B = {},
           NEW F, Terms(F, A \cup B)
    PROVE  Total(F, A \cup B) = Total(F, A) + Total(F, B)
<1> DEFINE T == {s \in SUBSET A : Total(F, s \cup B) = Total(F, s) + Total(F, B)}
<1>0. IsFiniteSet(A \cup B) /\ Total(F, B) \in Int /\ Terms(F, A) /\ Terms(F, B)
  BY FS_Union, TotalType DEF Terms
<1>1. {} \in T
  <2>1. {} \cup B = B
    OBVIOUS
  <2> QED
    BY <1>0, <2>1, TotalOfNone
<1>2. ASSUME NEW s \in SUBSET A, s # {}, \A x \in s : s \ {x} \in T
      PROVE  s \in T
  <2> PICK p \in s : TRUE
    BY <1>2
  <2> PICK r : r = s \ {p}
    OBVIOUS
  <2>1. OneMore(F, s, p, r)
    BY <1>0, TotalWithout
  <2>2. Total(F, s \cup B) = F[p] + Total(F, r \cup B)
    <3>1. (s \cup B) \ {p} = r \cup B /\ s \cup B \in SUBSET (A \cup B) /\ p \in s \cup B
      OBVIOUS
    <3>2. OneMore(F, s \cup B, p, (s \cup B) \ {p})
      BY <1>0, <3>1, TotalWithout
    <3> QED
      BY <3>1, <3>2 DEF OneMore
  <2>3. Total(F, r \cup B) = Total(F, r) + Total(F, B)
    BY <1>2
  <2>4. Total(F, s \cup B) = Total(F, s) + Total(F, B)
    BY <1>0, <2>1, <2>2, <2>3 DEF OneMore
  <2> QED
    BY <2>4
<1>3. SUBSET A \subseteq T
  <2> HIDE DEF T
  <2> QED
    BY <1>1, <1>2, SubsetSteps
<1> QED
  BY <1>3

\* Adding up the sums of the groups of a set adds up the set.
GroupSums(F, s, g, K) == [k \in K |-> Total(F, {x \in s : g[x] = k})]

\* The groups make up the set.
LEMMA TotalByGroup ==
    ASSUME NEW S, IsFiniteSet(S), NEW F, Terms(F, S), NEW K, IsFiniteSet(K),
           NEW g, \A x \in S : g[x] \in K
    PROVE  /\ Terms(GroupSums(F, S, g, K), K)
           /\ Total(GroupSums(F, S, g, K), K) = Total(F, S)
<1> DEFINE Group(s, k) == {x \in s : g[x] = k}
           Sums(s) == GroupSums(F, s, g, K)
           T == {s \in SUBSET S : Total(Sums(s), K) = Total(F, s)}
<1>0. \A s \in SUBSET S : Terms(Sums(s), K)
  <2> SUFFICES ASSUME NEW s \in SUBSET S, NEW k \in K PROVE Total(F, Group(s, k)) \in Int
    BY DEF GroupSums, Terms
  <2>1. IsFiniteSet(Group(s, k)) /\ Terms(F, Group(s, k))
    <3>1. Group(s, k) \in SUBSET S
      OBVIOUS
    <3> QED
      BY <3>1, FS_Subset DEF Terms
  <2> QED
    BY <2>1, TotalType
<1>1. {} \in T
  <2>1. \A k \in K : Sums({})[k] = 0
    <3>1. \A k \in K : Group({}, k) = {}
      OBVIOUS
    <3> QED
      BY <3>1, TotalOfNone DEF GroupSums
  <2>2. \A k \in K : Sums({})[k] = 0 * Sums({})[k]
    BY <2>1
  <2>3. Total(Sums({}), K) = 0 * Total(Sums({}), K)
    BY <1>0, <2>2, TotalTimes
  <2>4. Total(Sums({}), K) \in Int
    BY <1>0, TotalType
  <2> QED
    BY <2>3, <2>4, TotalOfNone
<1>2. ASSUME NEW s \in SUBSET S, s # {}, \A x \in s : s \ {x} \in T
      PROVE  s \in T
  <2> PICK p \in s : TRUE
    BY <1>2
  <2> PICK r : r = s \ {p}
    OBVIOUS
  <2> PICK h \in K : h = g[p]
    OBVIOUS
  <2>1. OneMore(F, s, p, r)
    BY TotalWithout
  <2>2. \A k \in K \ {h} : Sums(s)[k] = Sums(r)[k]
    <3>1. \A k \in K \ {h} : Group(s, k) = Group(r, k)
      OBVIOUS
    <3> QED
      BY <3>1 DEF GroupSums
  <2>3. Sums(s)[h] = F[p] + Sums(r)[h]
    <3>1. Group(s, h) \ {p} = Group(r, h) /\ p \in Group(s, h) /\ Group(s, h) \in SUBSET S
      OBVIOUS
    <3>2. OneMore(F, Group(s, h), p, Group(s, h) \ {p})
      BY <3>1, TotalWithout
    <3> QED
      BY <3>1, <3>2 DEF GroupSums, OneMore
  <2> HIDE DEF Sums
  <2>4. OneMore(Sums(s), K, h, K \ {h}) /\ OneMore(Sums(r), K, h, K \ {h})
    <3>1. Terms(Sums(s), K) /\ Terms(Sums(r), K) /\ K \in SUBSET K
      BY <1>0
    <3> QED
      BY <3>1, TotalWithout
  <2>5. Total(Sums(s), K \ {h}) = Total(Sums(r), K \ {h})
    BY <2>2, FS_RemoveElement, TotalEqual
  <2>6. Total(Sums(r), K) = Total(F, r)
    BY <1>2
  <2>7. Total(Sums(s), K) = Total(F, s)
    BY <2>1, <2>3, <2>4, <2>5, <2>6 DEF OneMore
  <2> QED
    BY <2>7
<1>3. SUBSET S \subseteq T
  <2> HIDE DEF T
  <2> QED
    BY <1>1, <1>2, SubsetSteps
<1>4. S \in T /\ S \in SUBSET S
  BY <1>3
<1> QED
  BY <1>0, <1>4

\* Of a sum of natural numbers, zero is the least, and then all are zero.
LEMMA TotalOfNaturals ==
    ASSUME NEW S, IsFiniteSet(S), NEW F, \A x \in S : F[x] \in Nat
    PROVE  Total(F, S) \in Nat /\ (Total(F, S) = 0 => \A x \in S : F[x] = 0)
<1> DEFINE Z == [x \in S |-> 0]
<1>1. Terms(F, S) /\ Terms(Z, S) /\ \A x \in S : Z[x] <= F[x] /\ Z[x] = 0 * F[x]
  BY DEF Terms
<1>2. 0 \in Int /\ \A x \in S : Z[x] = 0 * F[x]
  BY <1>1
<1> HIDE DEF Z
<1>3. Total(Z, S) = 0 * Total(F, S) /\ Total(F, S) \in Int
  BY <1>1, <1>2, TotalTimes, TotalType
<1>4. Compares(Z, F, S)
  BY <1>1, TotalCompare
<1>5. Total(Z, S) = 0
  BY <1>3
<1> QED
  BY <1>1, <1>3, <1>4, <1>5 DEF Compares, Z

-----------------------------------------------------------------------------
(* Counts, fields and rounded percentages. *)

\* The number of elements adds up over the groups, too.
GroupIn(S, g, k) == {x \in S : g[x] = k}

\* Groups are counted like any elements.
LEMMA CountsByGroup ==
    ASSUME NEW S, IsFiniteSet(S), NEW K, IsFiniteSet(K), NEW g, \A x \in S : g[x] \in K,
           NEW C, \A k \in K : C[k] = Cardinality(GroupIn(S, g, k))
    PROVE  Total(C, K) = Cardinality(S)
<1> DEFINE F == [x \in S |-> 1]
<1>1. Terms(F, S) /\ \A x \in S : F[x] = 1
  BY DEF Terms
<1> HIDE DEF F
<1>2. \A k \in K : GroupSums(F, S, g, K)[k] = C[k]
  <2> SUFFICES ASSUME NEW k \in K PROVE GroupSums(F, S, g, K)[k] = C[k]
    OBVIOUS
  <2>1. PICK group : group = GroupIn(S, g, k)
    OBVIOUS
  <2>2. IsFiniteSet(group) /\ \A x \in group : F[x] = 1
    BY <1>1, <2>1, FS_Subset DEF GroupIn
  <2>3. Total(F, group) = Cardinality(group)
    BY <2>2, TotalOfOnes
  <2> QED
    BY <2>1, <2>3 DEF GroupSums, GroupIn
<1>3. Total(GroupSums(F, S, g, K), K) = Total(F, S)
  BY <1>1, TotalByGroup
<1>4. Total(GroupSums(F, S, g, K), K) = Total(C, K)
  BY <1>2, TotalEqual
<1>5. Total(F, S) = Cardinality(S)
  BY <1>1, TotalOfOnes
<1> QED
  BY <1>3, <1>4, <1>5

\* Rounded quotients are off by half of the divisor at most.
LEMMA HalfUpIsNear ==
    ASSUME NEW n \in Nat, NEW d \in Nat \ {0}
    PROVE  /\ HalfUp(n, d) \in Nat
           /\ 2 * (d * HalfUp(n, d)) <= 2 * n + d /\ 2 * n - d <= 2 * (d * HalfUp(n, d))
<1>1. PICK a \in Nat : a = 2 * n + d
  OBVIOUS
<1>2. PICK b \in Nat \ {0} : b = 2 * d
  OBVIOUS
<1>3. HalfUp(n, d) = a \div b
  BY <1>1, <1>2 DEF HalfUp
<1>4. a \div b \in Nat /\ b * (a \div b) <= a /\ a < b * (a \div b) + b
  OBVIOUS
<1>5. PICK q \in Nat : q = a \div b
  BY <1>4
<1>6. b * q = 2 * (d * q)
  BY <1>2
<1> QED
  BY <1>1, <1>2, <1>3, <1>4, <1>5, <1>6

\* A percentage in hundredths, too.
LEMMA PercentIsNear ==
    ASSUME NEW v \in Nat, NEW whole \in Nat \ {0}
    PROVE  /\ HalfUp(10000 * v, whole) \in Nat
           /\ 2 * (whole * HalfUp(10000 * v, whole)) <= 20000 * v + whole
           /\ 20000 * v - whole <= 2 * (whole * HalfUp(10000 * v, whole))
<1>1. PICK n \in Nat : n = 10000 * v
  OBVIOUS
<1>2. /\ HalfUp(n, whole) \in Nat
      /\ 2 * (whole * HalfUp(n, whole)) <= 2 * n + whole
      /\ 2 * n - whole <= 2 * (whole * HalfUp(n, whole))
  BY HalfUpIsNear
<1> QED
  BY <1>1, <1>2

\* Rounded percentages of numbers that add up to the whole add up to a hundred,
\* but for half a unit each.
LEMMA PercentsAddUp ==
    ASSUME NEW K, IsFiniteSet(K), NEW V, \A k \in K : V[k] \in Nat,
           NEW whole \in Nat \ {0}, Total(V, K) = whole,
           NEW P, \A k \in K : P[k] = HalfUp(10000 * V[k], whole)
    PROVE  /\ Total(P, K) \in Int
           /\ Total(P, K) - 10000 \in -Cardinality(K)..Cardinality(K)
<1> DEFINE Scaled == [k \in K |-> (2 * whole) * P[k]]
           Base == [k \in K |-> 20000 * V[k]]
           Ones == [k \in K |-> 1]
           Slack == [k \in K |-> whole * Ones[k]]
           Under == [k \in K |-> (-whole) * Ones[k]]
           High == [k \in K |-> Base[k] + Slack[k]]
           Low == [k \in K |-> Base[k] + Under[k]]
<1>1. ASSUME NEW k \in K
      PROVE  P[k] \in Int /\ Scaled[k] <= High[k] /\ Low[k] <= Scaled[k]
  <2>1. PICK v \in Nat : v = V[k]
    OBVIOUS
  <2>2. PICK p : p = HalfUp(10000 * v, whole)
    OBVIOUS
  <2>3. /\ p \in Nat /\ 2 * (whole * p) <= 20000 * v + whole
        /\ 20000 * v - whole <= 2 * (whole * p)
    BY <2>2, PercentIsNear
  <2>4. P[k] = p
    BY <2>1, <2>2
  <2>5. Scaled[k] = 2 * (whole * p)
    BY <2>3, <2>4
  <2>6. High[k] = 20000 * v + whole /\ Low[k] = 20000 * v - whole
    BY <2>1
  <2> QED
    BY <2>3, <2>4, <2>5, <2>6
<1>2. /\ Terms(P, K) /\ Terms(Scaled, K) /\ Terms(Base, K) /\ Terms(Ones, K) /\ Terms(Slack, K)
      /\ Terms(Under, K) /\ Terms(High, K) /\ Terms(Low, K) /\ Terms(V, K)
  BY <1>1 DEF Terms
<1>3. /\ \A k \in K : Scaled[k] = (2 * whole) * P[k]
      /\ \A k \in K : Base[k] = 20000 * V[k]
      /\ \A k \in K : Slack[k] = whole * Ones[k]
      /\ \A k \in K : Under[k] = (-whole) * Ones[k]
      /\ \A k \in K : High[k] = Base[k] + Slack[k]
      /\ \A k \in K : Low[k] = Base[k] + Under[k]
      /\ \A k \in K : Ones[k] = 1
      /\ \A k \in K : Scaled[k] <= High[k]
      /\ \A k \in K : Low[k] <= Scaled[k]
  BY <1>1
<1> HIDE DEF Scaled, Base, Ones, Slack, Under, High, Low
<1>4. PICK sum \in Int : sum = Total(P, K)
  BY <1>2, TotalType
<1>5. PICK n \in Nat : n = Cardinality(K)
  BY FS_CardinalityType
<1>6. Total(Ones, K) = n
  BY <1>3, <1>5, TotalOfOnes
<1>7. Total(Scaled, K) = (2 * whole) * sum
  <2>1. PICK twice \in Int : twice = 2 * whole
    OBVIOUS
  <2>2. \A k \in K : Scaled[k] = twice * P[k]
    BY <1>3, <2>1
  <2>3. Total(Scaled, K) = twice * Total(P, K)
    BY <1>2, <2>2, TotalTimes
  <2> QED
    BY <1>4, <2>1, <2>3
<1>8. Total(Base, K) = 20000 * whole
  <2>1. PICK factor \in Int : factor = 20000
    OBVIOUS
  <2>2. \A k \in K : Base[k] = factor * V[k]
    BY <1>3, <2>1
  <2>3. Terms(V, K)
    BY <1>2
  <2>4. Total(Base, K) = factor * Total(V, K)
    <3>1. IsFiniteSet(K) /\ factor \in Int
      OBVIOUS
    <3> QED
      BY ONLY <2>2, <2>3, <3>1, TotalTimes
  <2> QED
    BY <2>1, <2>4
<1>9. Total(Slack, K) = whole * n
  <2>1. Total(Slack, K) = whole * Total(Ones, K)
    BY <1>2, <1>3, TotalTimes
  <2> QED
    BY <1>6, <2>1
<1>10. Total(Under, K) = -(whole * n)
  <2>1. PICK factor \in Int : factor = -whole
    OBVIOUS
  <2>2. \A k \in K : Under[k] = factor * Ones[k]
    BY <1>3, <2>1
  <2>3. Total(Under, K) = factor * Total(Ones, K)
    BY <1>2, <2>2, TotalTimes
  <2> QED
    BY <1>6, <2>1, <2>3
<1>11. Total(High, K) = Total(Base, K) + Total(Slack, K)
  <2>1. Terms(Base, K) /\ Terms(Slack, K) /\ \A k \in K : High[k] = Base[k] + Slack[k]
    BY <1>2, <1>3
  <2> QED
    BY <2>1, TotalPlus
<1>12. Total(Low, K) = Total(Base, K) + Total(Under, K)
  <2>1. Terms(Base, K) /\ Terms(Under, K) /\ \A k \in K : Low[k] = Base[k] + Under[k]
    BY <1>2, <1>3
  <2> QED
    BY <2>1, TotalPlus
<1>13. Total(Scaled, K) <= Total(High, K)
  <2>1. Compares(Scaled, High, K)
    BY <1>2, <1>3, TotalCompare
  <2> QED
    BY <2>1 DEF Compares
<1>14. Total(Low, K) <= Total(Scaled, K)
  <2>1. Compares(Low, Scaled, K)
    BY <1>2, <1>3, TotalCompare
  <2> QED
    BY <2>1 DEF Compares
<1>15. PICK extra \in Int : extra = sum - 10000
  OBVIOUS
<1>16. (2 * whole) * sum = 20000 * whole + 2 * (whole * extra)
  BY <1>15
<1>17. 2 * (whole * extra) <= whole * n /\ -(whole * n) <= 2 * (whole * extra)
  BY <1>7, <1>8, <1>9, <1>10, <1>11, <1>12, <1>13, <1>14, <1>16
<1>18. extra <= n
  <2> SUFFICES ASSUME extra >= n + 1 PROVE FALSE
    OBVIOUS
  <2>1. PICK x \in Nat : extra = n + 1 + x
    OBVIOUS
  <2>2. whole * extra = whole * n + whole + whole * x /\ whole * x \in Nat /\ whole * n \in Nat
    BY <2>1
  <2> QED
    BY <1>17, <2>2
<1>19. -n <= extra
  <2> SUFFICES ASSUME extra <= -n - 1 PROVE FALSE
    OBVIOUS
  <2>1. PICK x \in Nat : extra = -n - 1 - x
    OBVIOUS
  <2>2. whole * extra = -(whole * n) - whole - whole * x /\ whole * x \in Nat /\ whole * n \in Nat
    BY <2>1
  <2> QED
    BY <1>17, <2>2
<1> QED
  BY <1>4, <1>5, <1>15, <1>18, <1>19

\* The sum of a field over an indexed family of records.
FieldSum(B, f) == MapThenSumSet(LAMBDA k : B[k][f], DOMAIN B)

\* That is the sum of the function that takes each index to its field.
LEMMA FieldSums ==
    ASSUME NEW B, IsFiniteSet(DOMAIN B), NEW f, NEW F, \A k \in DOMAIN B : F[k] = B[k][f]
    PROVE  FieldSum(B, f) = Total(F, DOMAIN B)
<1> DEFINE rec(it) == it = [s \in SUBSET DOMAIN B |-> IF s = {} THEN 0
               ELSE B[CHOOSE x \in s : TRUE][f] + it[s \ {CHOOSE x \in s : TRUE}]]
<1>1. PICK it : Adds(it, F, DOMAIN B)
  BY SumsExist
<1>2. rec(it)
  BY <1>1, PickedIsIn DEF Adds, Pick
<1>3. FieldSum(B, f) = (CHOOSE i : rec(i))[DOMAIN B]
  BY DEF FieldSum, MapThenSumSet, MapThenFoldSet
<1>4. PICK sums : sums = (CHOOSE i : rec(i)) /\ rec(sums)
  <2> HIDE DEF rec
  <2>1. rec(CHOOSE i : rec(i))
    BY <1>2
  <2> QED
    BY <2>1
<1>5. Adds(sums, F, DOMAIN B)
  <2>1. rec(sums)
    BY <1>4
  <2>2. \A s \in SUBSET DOMAIN B : s # {} => F[Pick(s)] = B[Pick(s)][f]
    BY PickedIsIn
  <2> QED
    BY <2>1, <2>2 DEF Adds, Pick
<1> QED
  BY <1>3, <1>4, <1>5, TotalIs
=============================================================================

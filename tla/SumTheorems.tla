---------------------------- MODULE SumTheorems ----------------------------
(***************************************************************************)
(* The sum of a function over a finite set, as SumFunctionOnSet and        *)
(* MapThenSumSet of the community modules define it: by recursion, one     *)
(* element after the other in an order that is not told.  The lemmas take  *)
(* the elements in any order.                                              *)
(*                                                                         *)
(* An induction over the size of a set is an argument about the least      *)
(* size at which something fails.                                          *)
(***************************************************************************)
EXTENDS Integers, Functions, FiniteSetsExt, FiniteSetTheorems, WellFoundedInduction, TLAPS

LEMMA LeastNatural ==
  ASSUME NEW T, T \subseteq Nat, T # {}
  PROVE  \E x \in T : \A y \in T : x <= y
<1> DEFINE R == {p \in Nat \X Nat : p[1] < p[2]}
<1>1. IsWellFoundedOn(R, Nat)
  BY NatLessThanWellFounded DEF OpToRel
<1>2. \E x \in T : \A y \in T : ~(<<y, x>> \in R)
  <2> HIDE DEF R
  <2> QED BY <1>1, WFMin
<1>3. PICK x \in T : \A y \in T : ~(<<y, x>> \in R)
  BY <1>2
<1>4. ASSUME NEW y \in T PROVE x <= y
  <2>1. <<y, x>> \in Nat \X Nat /\ <<y, x>> \notin R
    BY <1>3
  <2>2. ~(y < x)
    BY <2>1
  <2> QED BY <2>2
<1> QED BY <1>4

\* A set of naturals with 0 and with the successor of each of its members is Nat.
LEMMA AllNaturals ==
  ASSUME NEW T, T \subseteq Nat, 0 \in T, \A n \in T : n + 1 \in T
  PROVE  T = Nat
<1> SUFFICES ASSUME Nat \ T # {} PROVE FALSE
  OBVIOUS
<1>1. PICK x \in Nat \ T : \A y \in Nat \ T : x <= y
  <2> DEFINE U == Nat \ T
  <2>1. U \subseteq Nat /\ U # {}
    OBVIOUS
  <2>2. \E x \in U : \A y \in U : x <= y
    <3> HIDE DEF U
    <3> QED BY <2>1, LeastNatural
  <2> QED BY <2>2
<1>2. x # 0 /\ x - 1 \in Nat /\ ~(x <= x - 1)
  BY <1>1
<1>3. x - 1 \in T
  BY <1>1, <1>2
<1>4. (x - 1) + 1 \in T /\ (x - 1) + 1 = x
  BY <1>1, <1>3
<1> QED BY <1>1, <1>4

\* The element the recursion takes next.
Some(s) == CHOOSE x \in s : TRUE

LEMMA SomeIn == ASSUME NEW s, s # {} PROVE Some(s) \in s
BY DEF Some

LEMMA WithoutOne ==
  ASSUME NEW S, IsFiniteSet(S), NEW x \in S
  PROVE  /\ IsFiniteSet(S \ {x}) /\ Cardinality(S) \in Nat /\ Cardinality(S \ {x}) \in Nat
         /\ Cardinality(S \ {x}) = Cardinality(S) - 1
BY FS_RemoveElement, FS_CardinalityType

\* The equation of the recursive function, for the sets of at most n elements.
Solves(F, f, S, n) ==
  \A s \in SUBSET S :
    Cardinality(s) <= n => F[s] = IF s = {} THEN 0 ELSE f[Some(s)] + F[s \ {Some(s)}]

LEMMA SolutionExists ==
  ASSUME NEW S, IsFiniteSet(S), NEW f, \A x \in S : f[x] \in Nat
  PROVE  \A n \in Nat : \E F \in [SUBSET S -> Nat] : Solves(F, f, S, n)
<1> DEFINE T == {n \in Nat : \E F \in [SUBSET S -> Nat] : Solves(F, f, S, n)}
<1>1. \A s \in SUBSET S : IsFiniteSet(s) /\ Cardinality(s) \in Nat
  BY FS_Subset, FS_CardinalityType
<1>2. 0 \in T
  <2> DEFINE F == [s \in SUBSET S |-> 0]
  <2>1. F \in [SUBSET S -> Nat]
    OBVIOUS
  <2>2. ASSUME NEW s \in SUBSET S, Cardinality(s) <= 0 PROVE s = {}
    <3>1. Cardinality(s) = 0
      BY <1>1, <2>2
    <3> QED BY <1>1, <3>1, FS_EmptySet
  <2>3. Solves(F, f, S, 0)
    BY <2>2 DEF Solves
  <2> QED BY <2>1, <2>3
<1>3. ASSUME NEW n \in T PROVE n + 1 \in T
  <2>1. PICK F \in [SUBSET S -> Nat] : Solves(F, f, S, n)
    BY <1>3
  <2> DEFINE G == [s \in SUBSET S |->
                     IF s = {} THEN 0 ELSE f[Some(s)] + F[s \ {Some(s)}]]
  <2>2. G \in [SUBSET S -> Nat]
    <3>1. ASSUME NEW s \in SUBSET S, s # {} PROVE f[Some(s)] + F[s \ {Some(s)}] \in Nat
      <4>1. Some(s) \in S /\ s \ {Some(s)} \in SUBSET S
        BY <3>1, SomeIn
      <4>2. f[Some(s)] \in Nat /\ F[s \ {Some(s)}] \in Nat
        BY <4>1
      <4> QED BY <4>2
    <3> QED BY <3>1
  <2>3. ASSUME NEW s \in SUBSET S, Cardinality(s) <= n PROVE G[s] = F[s]
    BY <2>1, <2>3 DEF Solves
  <2>4. ASSUME NEW s \in SUBSET S, s # {}, Cardinality(s) <= n + 1
        PROVE  G[s \ {Some(s)}] = F[s \ {Some(s)}]
    <3>1. Some(s) \in s /\ s \ {Some(s)} \in SUBSET S
      BY <2>4, SomeIn
    <3>2. Cardinality(s \ {Some(s)}) <= n
      <4>1. Cardinality(s \ {Some(s)}) = Cardinality(s) - 1 /\ Cardinality(s) \in Nat
        BY <1>1, <3>1, WithoutOne
      <4>2. n \in Nat
        OBVIOUS
      <4> QED BY <2>4, <4>1, <4>2
    <3> QED BY <2>3, <3>1, <3>2
  <2>5. \A s \in SUBSET S : G[s] = IF s = {} THEN 0 ELSE f[Some(s)] + F[s \ {Some(s)}]
    OBVIOUS
  <2> HIDE DEF G
  <2>6. Solves(G, f, S, n + 1)
    BY <2>4, <2>5 DEF Solves
  <2>7. n + 1 \in Nat
    OBVIOUS
  <2> QED BY <2>2, <2>6, <2>7
<1>4. T = Nat
  <2>1. T \subseteq Nat
    OBVIOUS
  <2> HIDE DEF T
  <2> QED BY <1>2, <1>3, <2>1, AllNaturals
<1> QED BY <1>4

\* The function of the recursion: it gives a natural number, and satisfies the equation.
Partial(f, S) ==
  CHOOSE F : F = [s \in SUBSET S |-> IF s = {} THEN 0 ELSE f[Some(s)] + F[s \ {Some(s)}]]

LEMMA SumIsPartial ==
  ASSUME NEW f, NEW S
  PROVE  SumFunctionOnSet(f, S) = Partial(f, S)[S]
BY DEF SumFunctionOnSet, FoldFunctionOnSet, MapThenFoldSet, Partial, Some

LEMMA PartialSolves ==
  ASSUME NEW S, IsFiniteSet(S), NEW f, \A x \in S : f[x] \in Nat
  PROVE  \A s \in SUBSET S : Partial(f, S)[s] =
           IF s = {} THEN 0 ELSE f[Some(s)] + Partial(f, S)[s \ {Some(s)}]
<1>1. Cardinality(S) \in Nat
  BY FS_CardinalityType
<1>2. PICK F \in [SUBSET S -> Nat] : Solves(F, f, S, Cardinality(S))
  BY <1>1, SolutionExists
<1>3. \A s \in SUBSET S : Cardinality(s) <= Cardinality(S)
  BY FS_Subset
<1>4. F = [s \in SUBSET S |-> IF s = {} THEN 0 ELSE f[Some(s)] + F[s \ {Some(s)}]]
  BY <1>2, <1>3 DEF Solves
<1>5. Partial(f, S) = [s \in SUBSET S |->
        IF s = {} THEN 0 ELSE f[Some(s)] + Partial(f, S)[s \ {Some(s)}]]
  BY <1>4 DEF Partial
<1> HIDE DEF Partial
<1> QED BY <1>5

LEMMA SmallerParts ==
  ASSUME NEW S, IsFiniteSet(S), NEW s \in SUBSET S, NEW x \in s, NEW n \in Nat,
         Cardinality(s) <= n + 1
  PROVE  s \ {x} \in SUBSET S /\ Cardinality(s \ {x}) <= n
<1>1. IsFiniteSet(s)
  BY FS_Subset
<1>2. Cardinality(s \ {x}) = Cardinality(s) - 1 /\ Cardinality(s) \in Nat
  BY <1>1, WithoutOne
<1> QED BY <1>2

LEMMA EmptyPart ==
  ASSUME NEW S, IsFiniteSet(S), NEW s \in SUBSET S, Cardinality(s) <= 0
  PROVE  s = {}
<1>1. IsFiniteSet(s) /\ Cardinality(s) \in Nat
  BY FS_Subset, FS_CardinalityType
<1> QED BY <1>1, FS_EmptySet

SolvesAll(F, f, S) ==
  \A s \in SUBSET S : F[s] = IF s = {} THEN 0 ELSE f[Some(s)] + F[s \ {Some(s)}]

\* The elements may be taken in any order.
LEMMA AnyOrder ==
  ASSUME NEW S, IsFiniteSet(S), NEW f, \A x \in S : f[x] \in Nat, NEW F, SolvesAll(F, f, S)
  PROVE  F[S] \in Nat /\ \A x \in S : F[S] = f[x] + F[S \ {x}]
<1> DEFINE Good(s) == F[s] \in Nat /\ \A x \in s : F[s] = f[x] + F[s \ {x}]
           T == {n \in Nat : \A s \in SUBSET S : Cardinality(s) <= n => Good(s)}
<1> USE DEF SolvesAll
<1>1. 0 \in T
  <2>1. ASSUME NEW s \in SUBSET S, Cardinality(s) <= 0 PROVE Good(s)
    <3>1. s = {}
      BY <2>1, EmptyPart
    <3>2. F[{}] = 0
      OBVIOUS
    <3> QED BY <3>1, <3>2
  <2> QED BY <2>1
<1>2. ASSUME NEW n \in T PROVE n + 1 \in T
  <2>1. \A s \in SUBSET S : Cardinality(s) <= n => Good(s)
    OBVIOUS
  <2>2. n \in Nat
    OBVIOUS
  <2>3. ASSUME NEW s \in SUBSET S, Cardinality(s) <= n + 1 PROVE Good(s)
    <3>1. CASE s = {}
      <4>1. F[{}] = 0
        OBVIOUS
      <4> QED BY <3>1, <4>1
    <3>2. CASE s # {}
      <4> DEFINE y == Some(s)
      <4>1. y \in s /\ F[s] = f[y] + F[s \ {y}]
        BY <3>2, SomeIn
      <4> HIDE DEF y
      <4>2. \A x \in s : Good(s \ {x})
        BY <2>1, <2>2, <2>3, SmallerParts
      <4>3. F[s \ {y}] \in Nat /\ f[y] \in Nat
        BY <4>1, <4>2
      <4>4. F[s] \in Nat
        BY <4>1, <4>3
      <4>5. ASSUME NEW x \in s, x # y PROVE F[s] = f[x] + F[s \ {x}]
        <5>1. (s \ {y}) \ {x} = (s \ {x}) \ {y}
          OBVIOUS
        <5> DEFINE rest == F[(s \ {y}) \ {x}]
        <5>2. F[s \ {y}] = f[x] + rest
          BY <4>1, <4>2, <4>5
        <5>3. F[s \ {x}] = f[y] + rest
          BY <4>1, <4>2, <4>5, <5>1
        <5>4. rest \in Nat
          <6>1. s \ {y} \in SUBSET S /\ x \in s \ {y}
            BY <4>5
          <6>2. (s \ {y}) \ {x} \in SUBSET S /\ Cardinality((s \ {y}) \ {x}) <= n
            <7>1. Cardinality(s \ {y}) <= n
              BY <2>2, <2>3, <4>1, SmallerParts
            <7>2. IsFiniteSet(s \ {y})
              BY FS_Subset
            <7>3. /\ Cardinality((s \ {y}) \ {x}) = Cardinality(s \ {y}) - 1
                  /\ Cardinality(s \ {y}) \in Nat
              BY <6>1, <7>2, WithoutOne
            <7> QED BY <2>2, <7>1, <7>3
          <6> QED BY <2>1, <6>2
        <5> HIDE DEF rest
        <5>5. f[x] \in Nat /\ f[y] \in Nat
          BY <4>1
        <5> QED BY <4>1, <5>2, <5>3, <5>4, <5>5
      <4> QED BY <4>1, <4>4, <4>5
    <3> QED BY <3>1, <3>2
  <2>4. n + 1 \in Nat
    BY <2>2
  <2> HIDE DEF Good
  <2> QED BY <2>3, <2>4
<1>3. T = Nat
  <2>1. T \subseteq Nat
    OBVIOUS
  <2> HIDE DEF T
  <2> QED BY <1>1, <1>2, <2>1, AllNaturals
<1>4. Cardinality(S) \in Nat /\ Cardinality(S) <= Cardinality(S) /\ S \in SUBSET S
  BY FS_CardinalityType
<1>5. Good(S)
  <2> HIDE DEF Good
  <2> QED BY <1>3, <1>4
<1> QED BY <1>5

LEMMA PartialAdds ==
  ASSUME NEW S, IsFiniteSet(S), NEW f, \A x \in S : f[x] \in Nat
  PROVE  /\ Partial(f, S)[S] \in Nat
         /\ \A x \in S : Partial(f, S)[S] = f[x] + Partial(f, S)[S \ {x}]
<1> DEFINE F == Partial(f, S)
<1>1. SolvesAll(F, f, S)
  BY PartialSolves DEF SolvesAll
<1> HIDE DEF F
<1>2. F[S] \in Nat /\ \A x \in S : F[S] = f[x] + F[S \ {x}]
  BY <1>1, AnyOrder
<1> QED BY <1>2 DEF F

\* The sum over a part is what the recursion over the whole gives for that part.
LEMMA SameParts ==
  ASSUME NEW S, IsFiniteSet(S), NEW f, \A x \in S : f[x] \in Nat, NEW R \in SUBSET S
  PROVE  Partial(f, S)[R] = Partial(f, R)[R]
<1> DEFINE P == Partial(f, S)
           Q == Partial(f, R)
           T == {n \in Nat : \A s \in SUBSET R : Cardinality(s) <= n => P[s] = Q[s]}
<1>1. IsFiniteSet(R)
  BY FS_Subset
<1>2. \A s \in SUBSET R : P[s] = IF s = {} THEN 0 ELSE f[Some(s)] + P[s \ {Some(s)}]
  <2>1. \A s \in SUBSET S : P[s] = IF s = {} THEN 0 ELSE f[Some(s)] + P[s \ {Some(s)}]
    BY PartialSolves
  <2> HIDE DEF P
  <2> QED BY <2>1
<1>3. \A s \in SUBSET R : Q[s] = IF s = {} THEN 0 ELSE f[Some(s)] + Q[s \ {Some(s)}]
  BY <1>1, PartialSolves
<1> HIDE DEF P, Q
<1>4. 0 \in T
  BY <1>1, <1>2, <1>3, EmptyPart
<1>5. ASSUME NEW n \in T PROVE n + 1 \in T
  <2>1. ASSUME NEW s \in SUBSET R, Cardinality(s) <= n + 1 PROVE P[s] = Q[s]
    <3>1. CASE s = {}
      BY <1>2, <1>3, <3>1
    <3>2. CASE s # {}
      <4>1. Some(s) \in s
        BY <3>2, SomeIn
      <4>2. s \ {Some(s)} \in SUBSET R /\ Cardinality(s \ {Some(s)}) <= n
        BY <1>1, <2>1, <4>1, SmallerParts
      <4>3. P[s \ {Some(s)}] = Q[s \ {Some(s)}]
        BY <4>2
      <4> QED BY <1>2, <1>3, <3>2, <4>3
    <3> QED BY <3>1, <3>2
  <2>2. n + 1 \in Nat
    OBVIOUS
  <2> QED BY <2>1, <2>2
<1>6. T = Nat
  <2>1. T \subseteq Nat
    OBVIOUS
  <2> HIDE DEF T
  <2> QED BY <1>4, <1>5, <2>1, AllNaturals
<1>7. Cardinality(R) \in Nat /\ Cardinality(R) <= Cardinality(R) /\ R \in SUBSET R
  BY <1>1, FS_CardinalityType
<1>8. P[R] = Q[R]
  BY <1>6, <1>7
<1> QED BY <1>8 DEF P, Q

(***************************************************************************)
(* The facts about sums.                                                   *)
(***************************************************************************)
LEMMA SumEmpty == ASSUME NEW f PROVE SumFunctionOnSet(f, {}) = 0
<1>1. IsFiniteSet({})
  BY FS_EmptySet
<1>2. \A s \in SUBSET {} : Partial(f, {})[s] =
        IF s = {} THEN 0 ELSE f[Some(s)] + Partial(f, {})[s \ {Some(s)}]
  BY <1>1, PartialSolves
<1> QED BY <1>2, SumIsPartial

LEMMA SumNat ==
  ASSUME NEW S, IsFiniteSet(S), NEW f, \A x \in S : f[x] \in Nat
  PROVE  SumFunctionOnSet(f, S) \in Nat
BY PartialAdds, SumIsPartial

\* Any element may be taken out of a sum.
LEMMA SumTake ==
  ASSUME NEW S, IsFiniteSet(S), NEW f, \A x \in S : f[x] \in Nat, NEW x \in S
  PROVE  SumFunctionOnSet(f, S) = f[x] + SumFunctionOnSet(f, S \ {x})
<1>1. Partial(f, S)[S] = f[x] + Partial(f, S)[S \ {x}]
  BY PartialAdds
<1>2. Partial(f, S)[S \ {x}] = Partial(f, S \ {x})[S \ {x}]
  BY SameParts
<1> QED BY <1>1, <1>2, SumIsPartial

\* A sum over more, of more, is not less.
LEMMA SumMonotone ==
  ASSUME NEW S, IsFiniteSet(S), NEW R \in SUBSET S, NEW f, NEW g,
         \A x \in R : f[x] \in Nat /\ f[x] <= g[x], \A x \in S : g[x] \in Nat
  PROVE  SumFunctionOnSet(f, R) <= SumFunctionOnSet(g, S)
<1> DEFINE Low(s) == SumFunctionOnSet(f, s \cap R)
           High(s) == SumFunctionOnSet(g, s)
           T == {n \in Nat : \A s \in SUBSET S : Cardinality(s) <= n => Low(s) <= High(s)}
<1>1. 0 \in T
  <2>1. ASSUME NEW s \in SUBSET S, Cardinality(s) <= 0 PROVE Low(s) <= High(s)
    <3>1. s = {} /\ s \cap R = {}
      BY <2>1, EmptyPart
    <3>2. Low(s) = 0 /\ High(s) = 0
      BY <3>1, SumEmpty
    <3> HIDE DEF Low, High
    <3> QED BY <3>2
  <2> HIDE DEF Low, High
  <2> QED BY <2>1
<1>2. ASSUME NEW n \in T PROVE n + 1 \in T
  <2>1. ASSUME NEW s \in SUBSET S, Cardinality(s) <= n + 1 PROVE Low(s) <= High(s)
    <3>1. CASE s = {}
      <4>1. s \cap R = {}
        BY <3>1
      <4>2. Low(s) = 0 /\ High(s) = 0
        BY <3>1, <4>1, SumEmpty
      <4> HIDE DEF Low, High
      <4> QED BY <4>2
    <3>2. CASE s # {}
      <4>1. PICK x \in s : TRUE
        BY <3>2
      <4> DEFINE t == s \ {x}
      <4>2. t \in SUBSET S /\ Cardinality(t) <= n
        BY <2>1, SmallerParts
      <4>3. Low(t) <= High(t)
        <5> HIDE DEF t, Low, High
        <5> QED BY <4>2
      <4>4. IsFiniteSet(s) /\ IsFiniteSet(t) /\ IsFiniteSet(s \cap R) /\ IsFiniteSet(t \cap R)
        BY FS_Subset
      <4>5. High(s) = g[x] + High(t) /\ High(t) \in Nat /\ g[x] \in Nat
        BY <4>4, SumTake, SumNat
      <4>6. Low(t) \in Nat
        BY <4>4, SumNat
      <4>7. CASE x \in R
        <5>1. x \in s \cap R /\ (s \cap R) \ {x} = t \cap R
          BY <4>7
        <5>2. SumFunctionOnSet(f, s \cap R) = f[x] + SumFunctionOnSet(f, (s \cap R) \ {x})
          BY <4>4, <5>1, SumTake
        <5>3. Low(s) = f[x] + Low(t) /\ f[x] \in Nat /\ f[x] <= g[x]
          BY <4>7, <5>1, <5>2
        <5> HIDE DEF Low, High
        <5> QED BY <4>3, <4>5, <4>6, <5>3
      <4>8. CASE x \notin R
        <5>1. s \cap R = t \cap R
          BY <4>8
        <5>2. Low(s) = Low(t)
          BY <5>1
        <5> HIDE DEF Low, High
        <5> QED BY <4>3, <4>5, <4>6, <5>2
      <4> QED BY <4>7, <4>8
    <3> QED BY <3>1, <3>2
  <2>2. n + 1 \in Nat
    OBVIOUS
  <2> HIDE DEF Low, High
  <2> QED BY <2>1, <2>2
<1>3. T = Nat
  <2>1. T \subseteq Nat
    OBVIOUS
  <2> HIDE DEF T
  <2> QED BY <1>1, <1>2, <2>1, AllNaturals
<1>4. Cardinality(S) \in Nat /\ Cardinality(S) <= Cardinality(S) /\ S \in SUBSET S
  BY FS_CardinalityType
<1>5. Low(S) <= High(S)
  <2> HIDE DEF Low, High
  <2> QED BY <1>3, <1>4
<1>6. S \cap R = R
  OBVIOUS
<1> QED BY <1>5, <1>6

\* The two ways to write a sum.
LEMMA SumOfMap ==
  ASSUME NEW f, NEW S
  PROVE  MapThenSumSet(LAMBDA x : f[x], S) = SumFunctionOnSet(f, S)
BY DEF SumFunctionOnSet, FoldFunctionOnSet, MapThenSumSet
=============================================================================

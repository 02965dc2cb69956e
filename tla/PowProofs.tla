----------------------------- MODULE PowProofs -----------------------------
(***************************************************************************)
(* Lemmas on induction, powers and sums, and what Pow.tla computes, for    *)
(* every width of a byte and of a target.                                  *)
(*                                                                         *)
(* Induction is used in the form of sets: a set of numbers that holds 0    *)
(* and the successor of each of its members holds all numbers.             *)
(***************************************************************************)
EXTENDS Pow, FiniteSets, FiniteSetTheorems, WellFoundedInduction, TLAPS

(***************************************************************************)
(* Every non-empty set of natural numbers has a least member.              *)
(***************************************************************************)
LEMMA LeastMember ==
  ASSUME NEW T, T \subseteq Nat, T # {}
  PROVE  \E x \in T : \A y \in T : x <= y
<1>1. PICK R : IsWellFoundedOn(R, Nat) /\ \A x, y \in Nat : <<y, x>> \in R <=> y < x
  <2>1. \A x, y \in Nat : <<y, x>> \in OpToRel(<, Nat) <=> y < x
    BY DEF OpToRel
  <2> QED
    BY <2>1, NatLessThanWellFounded
<1>2. PICK x \in T : \A y \in T : ~ (<<y, x>> \in R)
  BY <1>1, WFMin
<1>3. \A y \in T : ~(y < x)
  BY <1>1, <1>2, Zenon
<1>4. \A y \in T : x <= y
  BY <1>3
<1> QED
  BY <1>4

(***************************************************************************)
(* Induction.                                                              *)
(***************************************************************************)
LEMMA InductionSet ==
  ASSUME NEW T, 0 \in T, \A k \in Nat : k \in T => k + 1 \in T
  PROVE  Nat \subseteq T
<1> SUFFICES ASSUME ~(Nat \subseteq T) PROVE FALSE
  OBVIOUS
<1> DEFINE U == Nat \ T
<1>1. PICK x \in U : \A y \in U : x <= y
  BY LeastMember
<1>2. x # 0 /\ x - 1 \in Nat
  OBVIOUS
<1>3. x - 1 \in T
  BY <1>1, <1>2
<1> QED
  BY <1>2, <1>3

-----------------------------------------------------------------------------
(***************************************************************************)
(* Powers.                                                                 *)
(***************************************************************************)
IsPower(p, base, k) == p = [i \in 0 .. k |-> IF i = 0 THEN 1 ELSE base * p[i - 1]]

LEMMA PowerExists ==
  ASSUME NEW base
  PROVE  \A k \in Nat : \E p : IsPower(p, base, k)
<1> DEFINE T == {k \in Nat : \E p : IsPower(p, base, k)}
<1>1. 0 \in T
  <2>1. IsPower([i \in 0 .. 0 |-> 1], base, 0)
    BY DEF IsPower
  <2> QED
    BY <2>1
<1>2. ASSUME NEW k \in Nat, k \in T PROVE k + 1 \in T
  <2>1. PICK p : IsPower(p, base, k)
    BY <1>2
  <2> DEFINE q == [i \in 0 .. k + 1 |-> IF i = 0 THEN 1 ELSE base * p[i - 1]]
  <2>2. \A i \in 0 .. k : q[i] = p[i]
    BY <2>1 DEF IsPower
  <2>3. \A i \in 0 .. k + 1 : i # 0 => i - 1 \in 0 .. k
    OBVIOUS
  <2>4. IsPower(q, base, k + 1)
    BY <2>2, <2>3 DEF IsPower
  <2> HIDE DEF q
  <2> QED
    BY <2>4
<1> HIDE DEF T
<1>3. Nat \subseteq T
  BY <1>1, <1>2, InductionSet
<1> QED
  BY <1>3 DEF T

LEMMA PowerUnfolds ==
  ASSUME NEW base, NEW k \in Nat
  PROVE  \E p : IsPower(p, base, k) /\ Power(base, k) = p[k]
<1> DEFINE q == CHOOSE p : p = [i \in 0 .. k |-> IF i = 0 THEN 1 ELSE base * p[i - 1]]
<1>1. Power(base, k) = q[k]
  BY DEF Power
<1>2. IsPower(q, base, k)
  BY PowerExists DEF IsPower
<1> QED
  BY <1>1, <1>2

LEMMA PowerUnique ==
  ASSUME NEW base, NEW k \in Nat, NEW l \in Nat, NEW p, NEW q,
         IsPower(p, base, k), IsPower(q, base, l)
  PROVE  \A i \in Nat : i <= k /\ i <= l => p[i] = q[i]
<1> DEFINE T == {i \in Nat : i <= k /\ i <= l => p[i] = q[i]}
<1>1. 0 \in T
  BY DEF IsPower
<1>2. ASSUME NEW i \in Nat, i \in T PROVE i + 1 \in T
  BY <1>2 DEF IsPower
<1> HIDE DEF T
<1>3. Nat \subseteq T
  BY <1>1, <1>2, InductionSet
<1> QED
  BY <1>3 DEF T

LEMMA PowerZero == ASSUME NEW base PROVE Power(base, 0) = 1
  BY PowerUnfolds DEF IsPower

LEMMA PowerStep ==
  ASSUME NEW base, NEW k \in Nat
  PROVE  Power(base, k + 1) = base * Power(base, k)
<1>1. PICK p : IsPower(p, base, k) /\ Power(base, k) = p[k]
  BY PowerUnfolds
<1>2. PICK q : IsPower(q, base, k + 1) /\ Power(base, k + 1) = q[k + 1]
  BY PowerUnfolds
<1>3. q[k + 1] = base * q[k]
  BY <1>2 DEF IsPower
<1>4. q[k] = p[k]
  BY <1>1, <1>2, PowerUnique
<1> QED
  BY <1>1, <1>2, <1>3, <1>4

LEMMA PowerPositive ==
  ASSUME NEW base \in Nat \ {0}
  PROVE  \A k \in Nat : Power(base, k) \in Nat \ {0}
<1> DEFINE T == {k \in Nat : Power(base, k) \in Nat \ {0}}
<1>1. 0 \in T
  BY PowerZero
<1>2. ASSUME NEW k \in Nat, k \in T PROVE k + 1 \in T
  <2>1. \A b, c \in Nat \ {0} : b * c \in Nat \ {0}
    OBVIOUS
  <2> QED
    BY <1>2, <2>1, PowerStep
<1> HIDE DEF T
<1>3. Nat \subseteq T
  BY <1>1, <1>2, InductionSet
<1> QED
  BY <1>3 DEF T

-----------------------------------------------------------------------------
(***************************************************************************)
(* Sums.  SumFunctionOnSet takes the members of a set away one by one, in  *)
(* an order that is left open; IsSum says so of a function on its subsets. *)
(***************************************************************************)
Some(s) == CHOOSE x \in s : TRUE

SumStep(g, f, s) == IF s = {} THEN 0 ELSE f[Some(s)] + g[s \ {Some(s)}]

IsSum(g, f, S) == g = [s \in SUBSET S |-> SumStep(g, f, s)]

LEMMA SomeMember == ASSUME NEW s, s # {} PROVE Some(s) \in s
  BY DEF Some

LEMMA RemoveSome ==
  ASSUME NEW s, IsFiniteSet(s), s # {}
  PROVE  /\ IsFiniteSet(s \ {Some(s)})
         /\ Cardinality(s) \in Nat
         /\ Cardinality(s \ {Some(s)}) = Cardinality(s) - 1
         /\ Cardinality(s) > 0
<1>1. /\ IsFiniteSet(s \ {Some(s)})
      /\ Cardinality(s \ {Some(s)}) = Cardinality(s) - 1
  BY SomeMember, FS_RemoveElement
<1>2. Cardinality(s) \in Nat /\ Cardinality(s \ {Some(s)}) \in Nat
  BY <1>1, FS_CardinalityType
<1> QED
  BY <1>1, <1>2

LEMMA SumExists ==
  ASSUME NEW f, NEW S, IsFiniteSet(S)
  PROVE  \E g : IsSum(g, f, S)
<1> DEFINE Upto(k) == {s \in SUBSET S : Cardinality(s) <= k}
           T == {k \in Nat : \E g : \A s \in Upto(k) : g[s] = SumStep(g, f, s)}
<1>1. \A s \in SUBSET S : IsFiniteSet(s) /\ Cardinality(s) \in Nat
  BY FS_Subset, FS_CardinalityType
<1>2. 0 \in T
  <2>1. \A s \in Upto(0) : s = {}
    BY <1>1, FS_EmptySet
  <2>2. [s \in SUBSET S |-> 0][{}] = SumStep([s \in SUBSET S |-> 0], f, {})
    BY DEF SumStep
  <2> QED
    BY <2>1, <2>2
<1>3. ASSUME NEW k \in Nat, k \in T PROVE k + 1 \in T
  <2>1. PICK g : \A s \in Upto(k) : g[s] = SumStep(g, f, s)
    BY <1>3
  <2> DEFINE h == [s \in SUBSET S |-> SumStep(g, f, s)]
  <2>2. ASSUME NEW s \in Upto(k + 1) PROVE h[s] = SumStep(h, f, s)
    <3>1. CASE s = {}
      BY <3>1 DEF SumStep
    <3>2. CASE s # {}
      <4> DEFINE r == s \ {Some(s)}
      <4>1. r \in Upto(k)
        BY <1>1, <3>2, RemoveSome
      <4>2. h[r] = g[r]
        BY <2>1, <4>1
      <4> QED
        BY <3>2, <4>2 DEF SumStep
    <3> QED
      BY <3>1, <3>2
  <2> HIDE DEF h
  <2> QED
    BY <2>2
<1> HIDE DEF T
<1>4. Nat \subseteq T
  BY <1>2, <1>3, InductionSet
<1>5. Cardinality(S) \in T
  BY <1>4, FS_CardinalityType
<1>6. PICK g : \A s \in Upto(Cardinality(S)) : g[s] = SumStep(g, f, s)
  BY <1>5 DEF T
<1>7. \A s \in SUBSET S : g[s] = SumStep(g, f, s)
  BY <1>6, FS_Subset
<1> DEFINE h == [s \in SUBSET S |-> g[s]]
<1>8. \A s \in SUBSET S : h[s] = SumStep(h, f, s)
  BY <1>7, SomeMember DEF SumStep
<1>9. IsSum(h, f, S)
  BY <1>8 DEF IsSum
<1> HIDE DEF h
<1> QED
  BY <1>9

LEMMA SumUnfolds ==
  ASSUME NEW f, NEW S, IsFiniteSet(S)
  PROVE  \E g : IsSum(g, f, S) /\ SumFunctionOnSet(f, S) = g[S]
<1> DEFINE h == CHOOSE g : g = [s \in SUBSET S |->
                  IF s = {} THEN 0
                  ELSE f[CHOOSE x \in s : TRUE] + g[s \ {CHOOSE x \in s : TRUE}]]
<1>1. SumFunctionOnSet(f, S) = h[S]
  BY DEF SumFunctionOnSet, FoldFunctionOnSet, MapThenFoldSet
<1>2. IsSum(h, f, S)
  <2>1. \E g : g = [s \in SUBSET S |->
                  IF s = {} THEN 0
                  ELSE f[CHOOSE x \in s : TRUE] + g[s \ {CHOOSE x \in s : TRUE}]]
    <3>1. PICK g : IsSum(g, f, S)
      BY SumExists
    <3>2. g = [s \in SUBSET S |->
                  IF s = {} THEN 0
                  ELSE f[CHOOSE x \in s : TRUE] + g[s \ {CHOOSE x \in s : TRUE}]]
      BY <3>1 DEF IsSum, SumStep, Some
    <3> QED
      BY <3>2
  <2>2. h = [s \in SUBSET S |->
                  IF s = {} THEN 0
                  ELSE f[CHOOSE x \in s : TRUE] + h[s \ {CHOOSE x \in s : TRUE}]]
    BY <2>1
  <2> HIDE DEF h
  <2> QED
    BY <2>2 DEF IsSum, SumStep, Some
<1> HIDE DEF h
<1> QED
  BY <1>1, <1>2

Agree(e, f, U) == \A x \in U : e[x] = f[x]

LEMMA SumUnique ==
  ASSUME NEW f, NEW e, NEW R, NEW S, NEW g, NEW h, NEW U, IsFiniteSet(U),
         U \subseteq R, U \subseteq S, Agree(e, f, U),
         IsSum(g, e, R), IsSum(h, f, S)
  PROVE  g[U] = h[U]
<1> DEFINE T == {k \in Nat : \A s \in SUBSET U : Cardinality(s) <= k => g[s] = h[s]}
<1>1. \A s \in SUBSET U : IsFiniteSet(s) /\ Cardinality(s) \in Nat
  BY FS_Subset, FS_CardinalityType
<1>2. \A s \in SUBSET U : g[s] = SumStep(g, e, s) /\ h[s] = SumStep(h, f, s)
  BY DEF IsSum
<1>3. 0 \in T
  <2>1. \A s \in SUBSET U : Cardinality(s) <= 0 => s = {}
    BY <1>1, FS_EmptySet
  <2> QED
    BY <1>2, <2>1 DEF SumStep
<1>4. ASSUME NEW k \in Nat, k \in T PROVE k + 1 \in T
  <2> SUFFICES ASSUME NEW s \in SUBSET U, Cardinality(s) <= k + 1
               PROVE  g[s] = h[s]
    OBVIOUS
  <2>1. CASE s = {}
    BY <1>2, <2>1 DEF SumStep
  <2>2. CASE s # {}
    <3> DEFINE r == s \ {Some(s)}
    <3>1. Cardinality(r) <= k /\ r \in SUBSET U
      BY <1>1, <2>2, RemoveSome
    <3>2. g[r] = h[r]
      BY <1>4, <3>1
    <3>3. e[Some(s)] = f[Some(s)]
      BY <2>2, SomeMember DEF Agree
    <3> QED
      BY <1>2, <2>2, <3>2, <3>3 DEF SumStep
  <2> QED
    BY <2>1, <2>2
<1> HIDE DEF T
<1>5. Cardinality(U) \in T
  BY <1>3, <1>4, InductionSet, FS_CardinalityType
<1> QED
  BY <1>1, <1>5 DEF T

LEMMA SumEmpty == ASSUME NEW f PROVE SumFunctionOnSet(f, {}) = 0
<1>1. PICK g : IsSum(g, f, {}) /\ SumFunctionOnSet(f, {}) = g[{}]
  BY SumUnfolds, FS_EmptySet
<1> QED
  BY <1>1 DEF IsSum, SumStep

(***************************************************************************)
(* Only the values on the set matter.                                      *)
(***************************************************************************)
LEMMA SumCongruence ==
  ASSUME NEW e, NEW f, NEW S, IsFiniteSet(S), \A x \in S : e[x] = f[x]
  PROVE  SumFunctionOnSet(e, S) = SumFunctionOnSet(f, S)
<1>1. PICK g : IsSum(g, e, S) /\ SumFunctionOnSet(e, S) = g[S]
  BY SumUnfolds
<1>2. PICK h : IsSum(h, f, S) /\ SumFunctionOnSet(f, S) = h[S]
  BY SumUnfolds
<1>3. S \subseteq S
  OBVIOUS
<1>4. Agree(e, f, S)
  BY DEF Agree
<1>5. g[S] = h[S]
  BY <1>1, <1>2, <1>3, <1>4, SumUnique
<1> QED
  BY <1>1, <1>2, <1>5

LEMMA SumOfSome ==
  ASSUME NEW f, NEW S, IsFiniteSet(S), S # {}
  PROVE  SumFunctionOnSet(f, S) = f[Some(S)] + SumFunctionOnSet(f, S \ {Some(S)})
<1> DEFINE R == S \ {Some(S)}
<1>1. IsFiniteSet(R)
  BY RemoveSome
<1>2. PICK g : IsSum(g, f, S) /\ SumFunctionOnSet(f, S) = g[S]
  BY SumUnfolds
<1>3. PICK h : IsSum(h, f, R) /\ SumFunctionOnSet(f, R) = h[R]
  BY <1>1, SumUnfolds
<1>4. g[R] = h[R]
  <2>1. Agree(f, f, R)
    BY DEF Agree
  <2> QED
    BY <1>1, <1>2, <1>3, <2>1, SumUnique
<1>5. g[S] = f[Some(S)] + g[R]
  BY <1>2 DEF IsSum, SumStep
<1> QED
  BY <1>2, <1>3, <1>4, <1>5

LEMMA SumInt ==
  ASSUME NEW f, NEW S, IsFiniteSet(S), \A x \in S : f[x] \in Int
  PROVE  SumFunctionOnSet(f, S) \in Int
<1> DEFINE T == {k \in Nat : \A s \in SUBSET S :
                   Cardinality(s) <= k => SumFunctionOnSet(f, s) \in Int}
<1>1. \A s \in SUBSET S : IsFiniteSet(s) /\ Cardinality(s) \in Nat
  BY FS_Subset, FS_CardinalityType
<1>2. 0 \in T
  BY <1>1, FS_EmptySet, SumEmpty
<1>3. ASSUME NEW k \in Nat, k \in T PROVE k + 1 \in T
  <2> SUFFICES ASSUME NEW s \in SUBSET S, Cardinality(s) <= k + 1, s # {}
               PROVE  SumFunctionOnSet(f, s) \in Int
    BY SumEmpty
  <2>1. s \ {Some(s)} \in SUBSET S /\ Cardinality(s \ {Some(s)}) <= k
    BY <1>1, RemoveSome
  <2>2. SumFunctionOnSet(f, s \ {Some(s)}) \in Int /\ f[Some(s)] \in Int
    BY <1>3, <2>1, SomeMember
  <2> QED
    BY <1>1, <2>2, SumOfSome
<1> HIDE DEF T
<1>4. Cardinality(S) \in T
  BY <1>2, <1>3, InductionSet, FS_CardinalityType
<1> QED
  BY <1>1, <1>4 DEF T

(***************************************************************************)
(* Any member may be taken away first.                                     *)
(***************************************************************************)
LEMMA SumRemove ==
  ASSUME NEW f, NEW S, IsFiniteSet(S), \A x \in S : f[x] \in Int, NEW y \in S
  PROVE  SumFunctionOnSet(f, S) = f[y] + SumFunctionOnSet(f, S \ {y})
<1> DEFINE Sum(s) == SumFunctionOnSet(f, s)
           T == {k \in Nat : \A s \in SUBSET S : \A x \in s :
                   Cardinality(s) <= k => Sum(s) = f[x] + Sum(s \ {x})}
<1>1. \A s \in SUBSET S : IsFiniteSet(s) /\ Cardinality(s) \in Nat
  BY FS_Subset, FS_CardinalityType
<1>2. \A s \in SUBSET S : Sum(s) \in Int
  BY <1>1, SumInt
<1>3. \A s \in SUBSET S : s # {} => Sum(s) = f[Some(s)] + Sum(s \ {Some(s)})
  BY <1>1, SumOfSome
<1> HIDE DEF Sum
<1>4. 0 \in T
  BY <1>1, FS_EmptySet
<1>5. ASSUME NEW k \in Nat, k \in T PROVE k + 1 \in T
  <2> SUFFICES ASSUME NEW s \in SUBSET S, NEW x \in s, Cardinality(s) <= k + 1
               PROVE  Sum(s) = f[x] + Sum(s \ {x})
    OBVIOUS
  <2> DEFINE z == Some(s)
  <2>0. z \in s
    BY SomeMember
  <2>1. CASE x = z
    BY <1>3, <2>1
  <2>2. CASE x # z
    <3> HIDE DEF z
    <3>1. /\ Cardinality(s \ {x}) <= k /\ s \ {x} \in SUBSET S
          /\ Cardinality(s \ {z}) <= k /\ s \ {z} \in SUBSET S
      BY <1>1, <2>0, FS_RemoveElement
    <3>2. Sum(s \ {z}) = f[x] + Sum((s \ {z}) \ {x})
      BY <1>5, <2>2, <3>1
    <3>3. Sum(s \ {x}) = f[z] + Sum((s \ {x}) \ {z})
      BY <1>5, <2>0, <2>2, <3>1
    <3>4. Sum((s \ {z}) \ {x}) = Sum((s \ {x}) \ {z})
      <4>1. (s \ {z}) \ {x} = (s \ {x}) \ {z}
        OBVIOUS
      <4> QED
        BY <4>1
    <3>5. Sum(s) = f[z] + Sum(s \ {z})
      BY <1>3, <2>0 DEF z
    <3>6. f[x] \in Int /\ f[z] \in Int /\ Sum((s \ {x}) \ {z}) \in Int
      BY <1>2, <2>0
    <3>7. \A a, b, c \in Int : a + (b + c) = b + (a + c)
      OBVIOUS
    <3>8. Sum(s) = f[z] + (f[x] + Sum((s \ {x}) \ {z}))
      BY <3>2, <3>4, <3>5
    <3> QED
      BY <3>3, <3>6, <3>7, <3>8
  <2> QED
    BY <2>1, <2>2
<1> HIDE DEF T
<1>6. Cardinality(S) \in T
  BY <1>4, <1>5, InductionSet, FS_CardinalityType
<1>7. Sum(S) = f[y] + Sum(S \ {y})
  BY <1>1, <1>6 DEF T
<1> QED
  BY <1>7 DEF Sum

-----------------------------------------------------------------------------
(***************************************************************************)
(* Sums over the indices of a sequence.                                    *)
(***************************************************************************)
LEMMA SumIsOnDomain ==
  ASSUME NEW f, NEW S, DOMAIN f = S
  PROVE  SumFunction(f) = SumFunctionOnSet(f, S)
  BY DEF SumFunction, SumFunctionOnSet, FoldFunction

LEMMA RangeFinite == \A n \in Nat : IsFiniteSet(1 .. n)
  BY FS_Interval

LEMMA SumNone == ASSUME NEW f PROVE SumFunctionOnSet(f, 1 .. 0) = 0
<1>1. 1 .. 0 = {}
  OBVIOUS
<1> QED
  BY <1>1, SumEmpty

LEMMA SumLast ==
  ASSUME NEW n \in Nat, NEW f, \A i \in 1 .. n + 1 : f[i] \in Int
  PROVE  SumFunctionOnSet(f, 1 .. n + 1) = f[n + 1] + SumFunctionOnSet(f, 1 .. n)
<1>1. (1 .. n + 1) \ {n + 1} = 1 .. n /\ n + 1 \in 1 .. n + 1
  OBVIOUS
<1>2. IsFiniteSet(1 .. n + 1)
  BY RangeFinite
<1>3. SumFunctionOnSet(f, 1 .. n + 1)
        = f[n + 1] + SumFunctionOnSet(f, (1 .. n + 1) \ {n + 1})
  BY <1>1, <1>2, SumRemove
<1> QED
  BY <1>1, <1>3

LEMMA SumOne ==
  ASSUME NEW f, f[1] \in Int
  PROVE  SumFunctionOnSet(f, 1 .. 1) = f[1]
<1>1. 1 .. 1 = {1} /\ {1} \ {1} = {}
  OBVIOUS
<1>2. SumFunctionOnSet(f, {1}) = f[1] + SumFunctionOnSet(f, {1} \ {1})
  <2> DEFINE S == {1}
  <2>1. IsFiniteSet(S) /\ 1 \in S /\ \A x \in S : f[x] \in Int
    BY FS_Singleton
  <2> HIDE DEF S
  <2>2. SumFunctionOnSet(f, S) = f[1] + SumFunctionOnSet(f, S \ {1})
    BY <2>1, SumRemove
  <2> QED
    BY <2>2 DEF S
<1> QED
  BY <1>1, <1>2, SumEmpty

(***************************************************************************)
(* A first summand that is zero may be left out.                           *)
(***************************************************************************)
LEMMA SumShift ==
  ASSUME NEW e, NEW f, NEW n \in Nat, e[1] = 0,
         \A i \in 1 .. n : f[i] \in Int /\ e[i + 1] = f[i]
  PROVE  SumFunctionOnSet(e, 1 .. n + 1) = SumFunctionOnSet(f, 1 .. n)
<1> DEFINE T == {k \in Nat : k <= n =>
              SumFunctionOnSet(e, 1 .. k + 1) = SumFunctionOnSet(f, 1 .. k)}
<1>1. 0 \in T
  BY SumOne, SumNone
<1>2. ASSUME NEW k \in Nat, k \in T PROVE k + 1 \in T
  <2> SUFFICES ASSUME k + 1 <= n
               PROVE  SumFunctionOnSet(e, 1 .. (k + 1) + 1)
                        = SumFunctionOnSet(f, 1 .. k + 1)
    OBVIOUS
  <2>1. \A i \in 1 .. (k + 1) + 1 : e[i] \in Int
    <3>1. \A i \in 1 .. (k + 1) + 1 : i # 1 => i - 1 \in 1 .. n /\ e[(i - 1) + 1] = e[i]
      OBVIOUS
    <3> QED
      BY <3>1
  <2>2. SumFunctionOnSet(e, 1 .. (k + 1) + 1)
          = e[(k + 1) + 1] + SumFunctionOnSet(e, 1 .. k + 1)
    BY <2>1, SumLast
  <2>3. \A i \in 1 .. k + 1 : f[i] \in Int
    OBVIOUS
  <2>4. SumFunctionOnSet(f, 1 .. k + 1) = f[k + 1] + SumFunctionOnSet(f, 1 .. k)
    BY <2>3, SumLast
  <2>5. SumFunctionOnSet(e, 1 .. k + 1) = SumFunctionOnSet(f, 1 .. k)
    BY <1>2
  <2>6. e[(k + 1) + 1] = f[k + 1]
    OBVIOUS
  <2> QED
    BY <2>2, <2>4, <2>5, <2>6
<1> HIDE DEF T
<1>3. n \in T
  BY <1>1, <1>2, InductionSet
<1> QED
  BY <1>3 DEF T

-----------------------------------------------------------------------------
(***************************************************************************)
(* The compact difficulty.                                                 *)
(***************************************************************************)
LEMMA RadixAtLeast4 == Radix \in Nat /\ Radix >= 4
<1>1. PICK k \in Nat : BYTE_BITS = (k + 1) + 1
  <2>1. BYTE_BITS - 2 \in Nat /\ BYTE_BITS = ((BYTE_BITS - 2) + 1) + 1
    BY PowAssumption
  <2> QED
    BY <2>1
<1>2. Power(2, BYTE_BITS) = 2 * (2 * Power(2, k))
  BY <1>1, PowerStep
<1>3. Power(2, k) \in Nat \ {0}
  BY PowerPositive
<1> QED
  BY <1>2, <1>3 DEF Radix

LEMMA RadixPower == \A k \in Nat : Power(Radix, k) \in Nat \ {0}
  BY RadixAtLeast4, PowerPositive

LEMMA SmallPowers ==
  /\ Power(Radix, 0) = 1
  /\ Power(Radix, 1) = Radix
  /\ Power(Radix, 2) = Radix * Radix
  /\ Power(Radix, 3) = Radix * (Radix * Radix)
<1>1. Power(Radix, 0) = 1
  BY PowerZero
<1>2. Power(Radix, 0 + 1) = Radix * Power(Radix, 0)
  BY PowerStep
<1>3. Power(Radix, 1 + 1) = Radix * Power(Radix, 1)
  BY PowerStep
<1>4. Power(Radix, 2 + 1) = Radix * Power(Radix, 2)
  BY PowerStep
<1>5. 0 + 1 = 1 /\ 1 + 1 = 2 /\ 2 + 1 = 3
  OBVIOUS
<1> QED
  BY <1>1, <1>2, <1>3, <1>4, <1>5, RadixAtLeast4

LEMMA DivisionBounds ==
  ASSUME NEW a \in Nat, NEW b \in Nat \ {0}
  PROVE  /\ a \div b \in Nat
         /\ b * (a \div b) <= a
         /\ a < b * (a \div b + 1)
  OBVIOUS

LEMMA QuotientAtLeast ==
  ASSUME NEW a \in Nat, NEW b \in Nat \ {0}, NEW c \in Nat
  PROVE  a \div b >= c <=> a >= b * c
<1> DEFINE q == a \div b
<1>1. q \in Nat /\ b * q <= a /\ a < b * (q + 1)
  BY DivisionBounds
<1> HIDE DEF q
<1>2. ASSUME q >= c PROVE a >= b * c
  <2>1. b * q >= b * c
    BY <1>1, <1>2
  <2> QED
    BY <1>1, <2>1
<1>3. ASSUME a >= b * c, ~(q >= c) PROVE FALSE
  <2>1. b * (q + 1) <= b * c
    BY <1>1, <1>3
  <2> QED
    BY <1>1, <1>3, <2>1
<1> QED
  BY <1>2, <1>3 DEF q

LEMMA Cancel ==
  ASSUME NEW a \in Nat, NEW b \in Nat, NEW r \in Nat \ {0}, r * a >= r * b
  PROVE  a >= b
  OBVIOUS

LEMMA ProductPositive ==
  ASSUME NEW a \in Nat \ {0}, NEW b \in Nat \ {0}
  PROVE  a * b \in Nat \ {0}
  OBVIOUS

LEMMA ShiftedNat ==
  ASSUME NEW num \in Nat, NEW den \in Nat \ {0}, NEW d \in Int
  PROVE  Shifted(num, den, d) \in Nat
<1>1. CASE d >= 0
  <2>1. Power(Radix, d) \in Nat
    BY <1>1, RadixPower
  <2>2. num * Power(Radix, d) \in Nat
    BY <2>1
  <2>3. (num * Power(Radix, d)) \div den \in Nat
    BY <2>2, DivisionBounds
  <2> QED
    BY <1>1, <2>3 DEF Shifted
<1>2. CASE ~(d >= 0)
  <2>1. Power(Radix, -d) \in Nat \ {0}
    BY <1>2, RadixPower
  <2>2. den * Power(Radix, -d) \in Nat \ {0}
    BY <2>1, ProductPositive
  <2>3. num \div (den * Power(Radix, -d)) \in Nat
    BY <2>2, DivisionBounds
  <2> QED
    BY <1>2, <2>3 DEF Shifted
<1> QED
  BY <1>1, <1>2

LEMMA Limits ==
  /\ MantissaLimit = Radix * (Radix * Radix)
  /\ MantissaLimit \in Nat \ {0}
  /\ SignBit \in Nat \ {0}
  /\ 2 * SignBit <= MantissaLimit
<1>1. MantissaLimit = Radix * (Radix * Radix)
  BY SmallPowers DEF MantissaLimit
<1>2. MantissaLimit \in Nat \ {0} /\ MantissaLimit >= 2
  <2>1. \A r \in Nat : r >= 4 => r * (r * r) \in Nat /\ r * (r * r) >= 2
    OBVIOUS
  <2> QED
    BY <1>1, <2>1, RadixAtLeast4
<1>3. \A l \in Nat : l >= 2 => l \div 2 \in Nat \ {0} /\ 2 * (l \div 2) <= l
  OBVIOUS
<1> QED
  BY <1>1, <1>2, <1>3 DEF SignBit

LEMMA ClampBounds ==
  ASSUME NEW actual \in Int
  PROVE  /\ ClampedTimespan(actual) \in Nat \ {0}
         /\ 4 * ClampedTimespan(actual) >= TARGET_TIMESPAN_SECONDS
         /\ ClampedTimespan(actual) <= TARGET_TIMESPAN_SECONDS * 4
  BY PowAssumption DEF ClampedTimespan

(***************************************************************************)
(* One more digit that overflows the mantissa means three full bytes.      *)
(***************************************************************************)
LEMMA OverflowMeansFull ==
  ASSUME NEW num \in Nat, NEW den \in Nat \ {0}, NEW d \in Int,
         Shifted(num, den, d + 1) >= MantissaLimit
  PROVE  Shifted(num, den, d) >= Power(Radix, 2)
<1> DEFINE r == Radix
<1>1. r \in Nat \ {0} /\ r * r \in Nat /\ r * (r * r) \in Nat
  BY RadixAtLeast4
<1>2. Power(Radix, 2) = r * r /\ MantissaLimit = r * (r * r)
  BY SmallPowers, Limits
<1>3. CASE d >= 0
  <2> DEFINE p == Power(Radix, d)
  <2>1. p \in Nat \ {0} /\ Power(Radix, d + 1) = r * p
    BY <1>3, RadixPower, PowerStep
  <2>2. (num * (r * p)) \div den >= r * (r * r)
    BY <1>2, <1>3, <2>1 DEF Shifted
  <2> HIDE DEF p, r
  <2>3. num * (r * p) \in Nat /\ num * p \in Nat /\ den * (r * r) \in Nat
    BY <1>1, <2>1
  <2>4. num * (r * p) >= den * (r * (r * r))
    BY <1>1, <2>2, <2>3, QuotientAtLeast
  <2>5. num * (r * p) = r * (num * p) /\ den * (r * (r * r)) = r * (den * (r * r))
    BY <1>1, <2>1
  <2>6. num * p >= den * (r * r)
    BY <1>1, <2>3, <2>4, <2>5, Cancel
  <2>7. (num * p) \div den >= r * r
    BY <1>1, <2>3, <2>6, QuotientAtLeast
  <2> QED
    BY <1>2, <1>3, <2>7 DEF Shifted, p
<1>4. CASE d < 0
  <2> DEFINE k == (-d) - 1
             p == Power(Radix, k)
  <2>1. k \in Nat /\ k + 1 = -d
    BY <1>4
  <2>2. p \in Nat \ {0} /\ Power(Radix, -d) = r * p
    BY <2>1, RadixPower, PowerStep
  <2>3. Shifted(num, den, d + 1) = num \div (den * p)
    <3>1. CASE d + 1 >= 0
      <4>1. d + 1 = 0 /\ k = 0
        BY <1>4, <2>1, <3>1
      <4>2. Shifted(num, den, d + 1) = (num * 1) \div den
        BY <4>1, PowerZero DEF Shifted
      <4> HIDE DEF k
      <4>3. p = 1
        BY <4>1, PowerZero
      <4> QED
        BY <4>2, <4>3
    <3>2. CASE ~(d + 1 >= 0)
      <4>1. ~(d + 1 >= 0) /\ -(d + 1) = k
        BY <1>4, <3>2
      <4> QED
        BY <4>1 DEF Shifted
    <3> QED
      BY <3>1, <3>2
  <2>4. Shifted(num, den, d) = num \div (den * (r * p))
    BY <1>4, <2>2 DEF Shifted
  <2> HIDE DEF p, r, k
  <2>5. den * p \in Nat \ {0} /\ r * p \in Nat \ {0} /\ den * (r * p) \in Nat \ {0}
    BY <1>1, <2>2, ProductPositive
  <2>6. num >= (den * p) * (r * (r * r))
    BY <1>1, <1>2, <2>3, <2>5, QuotientAtLeast
  <2>7. (den * p) * (r * (r * r)) = (den * (r * p)) * (r * r)
    BY <1>1, <2>2
  <2>8. num \div (den * (r * p)) >= r * r
    BY <1>1, <2>5, <2>6, <2>7, QuotientAtLeast
  <2> QED
    BY <1>2, <2>4, <2>8
<1> QED
  BY <1>3, <1>4

(***************************************************************************)
(* The digit the retarget chooses exists.                                  *)
(***************************************************************************)
LEMMA DigitExists ==
  ASSUME NEW num \in Nat \ {0}, NEW den \in Nat \ {0}, NEW last \in Int, last >= -3,
         4 * num >= den, num < den * (2 * MantissaLimit)
  PROVE  \E x \in -3 .. 3 :
           /\ x <= last
           /\ Shifted(num, den, x) < MantissaLimit
           /\ x = last \/ Shifted(num, den, x) >= Power(Radix, 2)
<1> DEFINE m(d) == Shifted(num, den, d)
<1> SUFFICES ASSUME \A x \in -3 .. 3 :
                      x <= last /\ m(x) < MantissaLimit
                        => x # last /\ ~(m(x) >= Power(Radix, 2))
             PROVE  FALSE
  OBVIOUS
<1> DEFINE r == Radix
<1>1. r \in Nat \ {0} /\ r >= 4 /\ r * r \in Nat \ {0} /\ r * (r * r) \in Nat \ {0}
  BY RadixAtLeast4, ProductPositive
<1>2. /\ Power(Radix, 2) = r * r /\ Power(Radix, 3) = r * (r * r)
      /\ MantissaLimit = r * (r * r)
  BY SmallPowers, Limits
<1>3. ASSUME NEW d \in -3 .. 3 PROVE m(d) \in Nat
  <2>1. d \in Int /\ num \in Nat
    OBVIOUS
  <2> QED
    BY <2>1, ShiftedNat
<1>4. m(-3) < MantissaLimit
  <2>1. m(-3) = num \div (den * Power(Radix, 3))
    BY DEF Shifted
  <2> HIDE DEF m, r
  <2>2. den * (r * (r * r)) \in Nat \ {0}
    BY <1>1, ProductPositive
  <2>3. CASE m(-3) >= r * (r * r)
    <3>1. num >= (den * (r * (r * r))) * (r * (r * r))
      BY <1>1, <1>2, <2>1, <2>2, <2>3, QuotientAtLeast
    <3>2. \A a, b \in Nat \ {0} : b >= 2 => (a * b) * b >= a * (2 * b)
      OBVIOUS
    <3>3. r * (r * r) >= 2
      BY <1>1
    <3>4. (den * (r * (r * r))) * (r * (r * r)) >= den * (2 * (r * (r * r)))
      BY <1>1, <3>2, <3>3
    <3>5. den * (2 * (r * (r * r))) \in Nat /\ (den * (r * (r * r))) * (r * (r * r)) \in Nat
      BY <1>1, <2>2
    <3> QED
      BY <1>2, <3>1, <3>4, <3>5
  <2> QED
    BY <1>1, <1>2, <1>3, <2>3
<1>5. m(3) >= Power(Radix, 2)
  <2>1. m(3) = (num * Power(Radix, 3)) \div den
    BY DEF Shifted
  <2> HIDE DEF m, r
  <2>2. num * (r * (r * r)) >= den * (r * r)
    <3>1. \A a, b \in Nat : a >= 4 => num * (a * b) >= den * b
      <4> SUFFICES ASSUME NEW a \in Nat, NEW b \in Nat, a >= 4
                   PROVE  num * (a * b) >= den * b
        OBVIOUS
      <4>1. num * a >= den
        OBVIOUS
      <4>2. (num * a) * b >= den * b
        BY <4>1
      <4> QED
        BY <4>2
    <3> QED
      BY <1>1, <3>1
  <2>3. num * (r * (r * r)) \in Nat
    BY <1>1
  <2> QED
    BY <1>1, <1>2, <2>1, <2>2, <2>3, QuotientAtLeast
<1>6. \A d \in -3 .. 2 :
        d <= last /\ m(d) < MantissaLimit => d + 1 <= last /\ m(d + 1) < MantissaLimit
  <2> SUFFICES ASSUME NEW d \in -3 .. 2, d <= last, m(d) < MantissaLimit
               PROVE  d + 1 <= last /\ m(d + 1) < MantissaLimit
    OBVIOUS
  <2>1. d # last /\ ~(m(d) >= Power(Radix, 2))
    OBVIOUS
  <2>2. ~(m(d + 1) >= MantissaLimit)
    BY <2>1, OverflowMeansFull
  <2> HIDE DEF m
  <2> QED
    BY <1>1, <1>2, <1>3, <2>1, <2>2
<1> HIDE DEF m
<1>7. m(-2) < MantissaLimit /\ -2 <= last
  BY <1>4, <1>6
<1>8. m(-1) < MantissaLimit /\ -1 <= last
  BY <1>6, <1>7
<1>9. m(0) < MantissaLimit /\ 0 <= last
  BY <1>6, <1>8
<1>10. m(1) < MantissaLimit /\ 1 <= last
  BY <1>6, <1>9
<1>11. m(2) < MantissaLimit /\ 2 <= last
  BY <1>6, <1>10
<1>12. m(3) < MantissaLimit /\ 3 <= last
  BY <1>6, <1>11
<1> QED
  BY <1>5, <1>12

(***************************************************************************)
(* What a retarget computes: d digits go from the exponent to the mantissa *)
(* (or the other way), and the mantissa is the quotient less its sign bit. *)
(***************************************************************************)
ShapedBy(bits, timespan, d) ==
  /\ d <= bits.exponent - 3
  /\ RetargetedBits(bits, timespan)
       = [exponent |-> bits.exponent - d,
          mantissa |-> Shifted(bits.mantissa * timespan, TARGET_TIMESPAN_SECONDS, d)
                         % SignBit]

LEMMA RetargetShape ==
  ASSUME NEW bits \in nBitsRange, bits.mantissa # 0, NEW actual \in Int
  PROVE  \E d \in -3 .. 3 : ShapedBy(bits, ClampedTimespan(actual), d)
<1> DEFINE den == TARGET_TIMESPAN_SECONDS
           timespan == ClampedTimespan(actual)
           num  == bits.mantissa * timespan
           last == bits.exponent - 3
           Fits(x) == /\ x <= last
                      /\ Shifted(num, den, x) < MantissaLimit
                      /\ x = last \/ Shifted(num, den, x) >= Power(Radix, 2)
           d == CHOOSE x \in -3 .. 3 : Fits(x)
<1>1. bits.mantissa \in Nat \ {0} /\ bits.mantissa < SignBit /\ bits.exponent \in Nat
  BY Limits DEF nBitsRange
<1>2. den \in Nat \ {0} /\ timespan \in Nat \ {0} /\ 4 * timespan >= den /\ timespan <= den * 4
  BY ClampBounds, PowAssumption
<1>3. num \in Nat \ {0}
  BY <1>1, <1>2, ProductPositive
<1>4. 4 * num >= den /\ num < den * (2 * MantissaLimit)
  <2>1. \A a, t, e, s, l \in Nat :
           a # 0 /\ a < s /\ 2 * s <= l /\ t # 0 /\ 4 * t >= e /\ t <= e * 4
             => 4 * (a * t) >= e /\ a * t < e * (2 * l)
    <3> SUFFICES ASSUME NEW a \in Nat, NEW t \in Nat, NEW e \in Nat,
                        NEW s \in Nat, NEW l \in Nat,
                        a # 0, a < s, 2 * s <= l, t # 0, 4 * t >= e, t <= e * 4
                 PROVE  4 * (a * t) >= e /\ a * t < e * (2 * l)
      OBVIOUS
    <3>1. a * t >= t
      OBVIOUS
    <3>2. a * t < s * t
      OBVIOUS
    <3>3. s * t <= s * (e * 4)
      OBVIOUS
    <3>4. e * (2 * (2 * s)) <= e * (2 * l)
      OBVIOUS
    <3>5. s * (e * 4) = e * (2 * (2 * s))
      OBVIOUS
    <3> QED
      BY <3>1, <3>2, <3>3, <3>4, <3>5
  <2> HIDE DEF den, timespan
  <2> QED
    BY <1>1, <1>2, <2>1, Limits
<1>5. last \in Int /\ last >= -3
  BY <1>1
<1> HIDE DEF num, last, den
<1>6. \E x \in -3 .. 3 : Fits(x)
  BY <1>2, <1>3, <1>4, <1>5, DigitExists
<1>7. d \in -3 .. 3 /\ Fits(d)
  BY <1>6
<1>8. RetargetedBits(bits, timespan)
        = [exponent |-> bits.exponent - d, mantissa |-> Shifted(num, den, d) % SignBit]
  BY <1>3 DEF RetargetedBits, num, last, den
<1> HIDE DEF d
<1> QED
  BY <1>7, <1>8 DEF ShapedBy, num, last, den

(***************************************************************************)
(* A retarget of a compact difficulty is a compact difficulty.             *)
(***************************************************************************)
LEMMA RetargetType ==
  ASSUME NEW bits \in nBitsRange, NEW actual \in Int
  PROVE  RetargetedBits(bits, ClampedTimespan(actual)) \in nBitsRange
<1> DEFINE timespan == ClampedTimespan(actual)
           num == bits.mantissa * timespan
<1>1. /\ bits.mantissa \in Nat /\ bits.exponent \in Nat
      /\ timespan \in Nat \ {0} /\ TARGET_TIMESPAN_SECONDS \in Nat \ {0}
  BY Limits, ClampBounds, PowAssumption DEF nBitsRange
<1>2. CASE bits.mantissa = 0
  <2>1. num = 0
    BY <1>1, <1>2
  <2> QED
    BY <2>1, Limits DEF RetargetedBits, nBitsRange
<1>3. CASE bits.mantissa # 0
  <2>1. PICK d \in -3 .. 3 : ShapedBy(bits, timespan, d)
    BY <1>3, RetargetShape
  <2>2. num \in Nat
    BY <1>1
  <2> HIDE DEF timespan, num
  <2>3. Shifted(num, TARGET_TIMESPAN_SECONDS, d) \in Nat
    BY <1>1, <2>2, ShiftedNat
  <2>4. Shifted(num, TARGET_TIMESPAN_SECONDS, d) % SignBit \in 0 .. SignBit - 1
    BY <2>3, Limits
  <2>5. bits.exponent - d \in Nat
    BY <1>1, <2>1 DEF ShapedBy
  <2> QED
    BY <2>1, <2>4, <2>5 DEF ShapedBy, nBitsRange, timespan, num
<1> QED
  BY <1>2, <1>3

(***************************************************************************)
(* The nBits of the next block is a compact difficulty.                    *)
(***************************************************************************)
LEMMA NextWorkType ==
  ASSUME NEW S, NEW headers \in Seq(S), headers # <<>>,
         \A h \in 1 .. Len(headers) :
           headers[h].nBits \in nBitsRange /\ headers[h].nTime \in Int
  PROVE  get_next_work_required(headers) \in nBitsRange
<1> DEFINE size == Len(headers)
           first == headers[size - RETARGET_INTERVAL + 1]
           tip   == headers[size]
<1>1. size \in Nat \ {0}
  OBVIOUS
<1>2. tip.nBits \in nBitsRange /\ tip.nTime \in Int
  BY <1>1
<1>3. CASE size % RETARGET_INTERVAL # 0
  BY <1>2, <1>3 DEF get_next_work_required
<1>4. CASE size % RETARGET_INTERVAL = 0
  <2>1. size >= RETARGET_INTERVAL
    BY <1>1, <1>4, PowAssumption
  <2>2. size - RETARGET_INTERVAL + 1 \in 1 .. size
    BY <1>1, <2>1, PowAssumption
  <2>3. tip.nTime - first.nTime \in Int
    BY <1>2, <2>2
  <2>4. RetargetedBits(tip.nBits, ClampedTimespan(tip.nTime - first.nTime))
          \in nBitsRange
    BY <1>2, <2>3, RetargetType
  <2> QED
    BY <1>4, <2>4 DEF get_next_work_required
<1> QED
  BY <1>3, <1>4

LEMMA WorkNat ==
  ASSUME NEW bits \in nBitsRange
  PROVE  calculate_block_work(bits) \in Nat
<1>1. bits.mantissa \in Nat /\ bits.exponent \in Nat
  BY Limits DEF nBitsRange
<1>2. TARGET_BYTES + 3 - bits.exponent \in Int /\ WORK_SCALE \in Nat
  BY <1>1, PowAssumption
<1>3. CASE bits.mantissa = 0
  BY <1>3 DEF calculate_block_work
<1>4. CASE bits.mantissa # 0
  <2>1. Shifted(WORK_SCALE, bits.mantissa, TARGET_BYTES + 3 - bits.exponent) \in Nat
    BY <1>1, <1>2, <1>4, ShiftedNat
  <2> QED
    BY <1>4, <2>1 DEF calculate_block_work
<1> QED
  BY <1>3, <1>4

(***************************************************************************)
(* A block that can be mined stands for some work, however small its       *)
(* target: in a chain every block counts.                                  *)
(***************************************************************************)
LEMMA PowerMonotone ==
  ASSUME NEW j \in Nat
  PROVE  \A k \in Nat : Power(Radix, j + k) >= Power(Radix, j)
<1> DEFINE T == {k \in Nat : Power(Radix, j + k) >= Power(Radix, j)}
<1>1. 0 \in T
  BY RadixPower
<1>2. ASSUME NEW k \in Nat, k \in T PROVE k + 1 \in T
  <2>1. Power(Radix, (j + k) + 1) = Radix * Power(Radix, j + k)
    BY PowerStep
  <2>2. \A r, p \in Nat : r >= 4 => r * p >= p
    OBVIOUS
  <2>3. Power(Radix, j + k) \in Nat /\ Power(Radix, j) \in Nat
    BY RadixPower
  <2>4. Radix * Power(Radix, j + k) >= Power(Radix, j + k)
    BY <2>2, <2>3, RadixAtLeast4
  <2>5. Radix * Power(Radix, j + k) \in Nat
    BY <2>3, RadixAtLeast4
  <2>6. Power(Radix, (j + k) + 1) >= Power(Radix, j)
    BY <1>2, <2>1, <2>3, <2>4, <2>5
  <2>7. (j + k) + 1 = j + (k + 1)
    OBVIOUS
  <2> QED
    BY <2>6, <2>7
<1> HIDE DEF T
<1>3. Nat \subseteq T
  BY <1>1, <1>2, InductionSet
<1> QED
  BY <1>3 DEF T

LEMMA WorkPositive ==
  ASSUME NEW bits \in nBitsRange, Mineable(bits)
  PROVE  calculate_block_work(bits) > 0
<1> DEFINE d == TARGET_BYTES + 3 - bits.exponent
<1>1. /\ bits.mantissa \in Nat \ {0} /\ bits.mantissa < SignBit
      /\ bits.exponent \in Nat /\ bits.exponent <= TARGET_BYTES
  BY Limits DEF nBitsRange, Mineable
<1>2. d \in Nat /\ d >= 3 /\ d = 3 + (d - 3) /\ d - 3 \in Nat
  BY <1>1, PowAssumption
<1> HIDE DEF d
<1>3. Power(Radix, d) >= MantissaLimit
  BY <1>2, PowerMonotone DEF MantissaLimit
<1>4. Power(Radix, d) \in Nat /\ WORK_SCALE \in Nat \ {0}
  BY <1>2, RadixPower, PowAssumption
<1>5. \A w, p, a \in Nat : w # 0 /\ p >= a => w * p \in Nat /\ w * p >= a * 1
  OBVIOUS
<1>6. Power(Radix, d) >= bits.mantissa
  BY <1>1, <1>3, <1>4, Limits
<1>7. WORK_SCALE * Power(Radix, d) \in Nat /\ WORK_SCALE * Power(Radix, d) >= bits.mantissa * 1
  BY <1>1, <1>4, <1>5, <1>6
<1>8. (WORK_SCALE * Power(Radix, d)) \div bits.mantissa >= 1
  BY <1>1, <1>7, QuotientAtLeast
<1>9. calculate_block_work(bits) = (WORK_SCALE * Power(Radix, d)) \div bits.mantissa
  BY <1>1, <1>2 DEF calculate_block_work, Shifted, d
<1>10. (WORK_SCALE * Power(Radix, d)) \div bits.mantissa \in Nat
  BY <1>1, <1>7, DivisionBounds
<1> QED
  BY <1>8, <1>9, <1>10

(***************************************************************************)
(* Appending a block adds its work.                                        *)
(***************************************************************************)
LEMMA ChainWorkAppend ==
  ASSUME NEW S, NEW headers \in Seq(S), NEW blk \in S, blk.nBits \in nBitsRange,
         \A h \in 1 .. Len(headers) : headers[h].nBits \in nBitsRange
  PROVE  /\ calculate_chain_work(headers) \in Int
         /\ calculate_chain_work(Append(headers, blk))
              = calculate_block_work(blk.nBits) + calculate_chain_work(headers)
<1> DEFINE n == Len(headers)
           longer == Append(headers, blk)
           e == [h \in 1 .. Len(longer) |-> calculate_block_work(longer[h].nBits)]
           f == [h \in 1 .. n |-> calculate_block_work(headers[h].nBits)]
<1>1. n \in Nat /\ Len(longer) = n + 1 /\ longer[n + 1] = blk
  OBVIOUS
<1>2. \A h \in 1 .. n : longer[h] = headers[h]
  OBVIOUS
<1>3. \A h \in 1 .. n + 1 : longer[h].nBits \in nBitsRange
  BY <1>1, <1>2
<1> HIDE DEF longer
<1>4. \A h \in 1 .. n + 1 : e[h] \in Int
  BY <1>1, <1>3, WorkNat
<1>5. \A h \in 1 .. n : e[h] = f[h] /\ f[h] \in Int
  BY <1>1, <1>2, WorkNat
<1>6. calculate_chain_work(longer) = SumFunctionOnSet(e, 1 .. n + 1)
  BY <1>1, SumIsOnDomain DEF calculate_chain_work
<1>7. calculate_chain_work(headers) = SumFunctionOnSet(f, 1 .. n)
  BY SumIsOnDomain DEF calculate_chain_work
<1>8. e[n + 1] = calculate_block_work(blk.nBits)
  BY <1>1
<1> HIDE DEF e, f, n
<1>9. SumFunctionOnSet(e, 1 .. n + 1) = e[n + 1] + SumFunctionOnSet(e, 1 .. n)
  BY <1>1, <1>4, SumLast
<1>10. SumFunctionOnSet(e, 1 .. n) = SumFunctionOnSet(f, 1 .. n)
  BY <1>1, <1>5, RangeFinite, SumCongruence
<1>11. SumFunctionOnSet(f, 1 .. n) \in Int
  BY <1>1, <1>5, RangeFinite, SumInt
<1> QED
  BY <1>6, <1>7, <1>8, <1>9, <1>10, <1>11 DEF longer
=============================================================================

------------------------------ MODULE FiniteSums -----------------------------
(***************************************************************************)
(* Induction over the natural numbers and over the subsets of a finite set *)
(* and, by it, what SumFunction of the community modules adds up to.       *)
(***************************************************************************)
EXTENDS Integers, FiniteSets, Functions, FiniteSetTheorems, WellFoundedInduction, TLAPS

\* The order of the natural numbers is well-founded.
LEMMA WellFoundedNat == \E R : IsWellFoundedOn(R, Nat) /\ \A x, y \in Nat : x < y => <<x, y>> \in R
<1> DEFINE R == OpToRel(<, Nat)
<1>1. IsWellFoundedOn(R, Nat)
  BY NatLessThanWellFounded
<1>2. \A x, y \in Nat : x < y => <<x, y>> \in R
  BY DEF OpToRel
<1> HIDE DEF R
<1> QED BY <1>1, <1>2

\* A set of natural numbers has a least one.
LEMMA LeastElement ==
    ASSUME NEW T, T \subseteq Nat, T # {}
    PROVE  \E x \in T : \A y \in T : x <= y
<1>1. PICK R : IsWellFoundedOn(R, Nat) /\ \A x, y \in Nat : x < y => <<x, y>> \in R
  BY WellFoundedNat
<1>2. \E x \in T : \A y \in T : ~ (<<y, x>> \in R)
  BY <1>1, WFMin
<1>3. \A x, y \in T : ~ (<<y, x>> \in R) => x <= y
  BY <1>1
<1> QED BY <1>2, <1>3

\* A set with 0, and with n + 1 if with n, has all natural numbers.
LEMMA Induction ==
    ASSUME NEW T, 0 \in T, \A n \in Nat : n \in T => n + 1 \in T
    PROVE  Nat \subseteq T
<1> SUFFICES ASSUME Nat \ T # {} PROVE FALSE
  OBVIOUS
<1>1. PICK x \in Nat \ T : \A y \in Nat \ T : x <= y
  BY LeastElement
<1>2. x # 0 /\ x - 1 \in Nat /\ ~(x <= x - 1)
  BY <1>1
<1>3. x - 1 \in T
  BY <1>1, <1>2
<1> QED BY <1>1, <1>2, <1>3

One(s) == CHOOSE x \in s : TRUE
Adds(f, h, s) == h[s] = IF s = {} THEN 0 ELSE f[One(s)] + h[s \ {One(s)}]
Adder(f) == CHOOSE h : h = [s \in SUBSET DOMAIN f |-> IF s = {} THEN 0 ELSE f[One(s)] + h[s \ {One(s)}]]

\* SumFunction adds one element of the set after the other.
LEMMA SumIsAdder == \A f : SumFunction(f) = Adder(f)[DOMAIN f]
  BY DEF SumFunction, SumFunctionOnSet, FoldFunctionOnSet, MapThenFoldSet, Adder, One

\* Without one element a finite set is smaller by one.
LEMMA Removes ==
    ASSUME NEW D, IsFiniteSet(D), NEW s \in SUBSET D
    PROVE  /\ Cardinality(s) \in Nat
           /\ Cardinality(s) <= 0 => s = {}
           /\ Cardinality(s) <= Cardinality(D)
           /\ s # {} => /\ One(s) \in s
                        /\ s \ {One(s)} \in SUBSET D
                        /\ Cardinality(s \ {One(s)}) = Cardinality(s) - 1
<1>1. IsFiniteSet(s) /\ Cardinality(s) <= Cardinality(D)
  BY FS_Subset
<1>2. Cardinality(s) \in Nat /\ (Cardinality(s) = 0 => s = {})
  BY <1>1, FS_CardinalityType, FS_EmptySet
<1>5. Cardinality(s) <= 0 => s = {}
  BY <1>2
<1>3. s # {} => One(s) \in s
  BY DEF One
<1>4. \A x : x \in s => Cardinality(s \ {x}) = Cardinality(s) - 1
  BY <1>1, FS_RemoveElement
<1> QED BY <1>1, <1>2, <1>3, <1>4, <1>5

\* Adder is defined on every subset: by induction over its size.
LEMMA AdderAdds ==
    ASSUME NEW f, IsFiniteSet(DOMAIN f)
    PROVE  \A s \in SUBSET DOMAIN f : Adds(f, Adder(f), s)
<1> DEFINE D == DOMAIN f
           Good(n) == \E h : h = [s \in SUBSET D |-> h[s]] /\
                         \A s \in SUBSET D : Cardinality(s) <= n => Adds(f, h, s)
           T == {n \in Nat : Good(n)}
<1>1. Good(0)
  <2> DEFINE h == [s \in SUBSET D |-> 0]
  <2>1. \A s \in SUBSET D : Cardinality(s) <= 0 => s = {}
    BY Removes
  <2>2. \A s \in SUBSET D : Cardinality(s) <= 0 => Adds(f, h, s)
    BY <2>1 DEF Adds
  <2>3. h = [s \in SUBSET D |-> h[s]]
    OBVIOUS
  <2> HIDE DEF h
  <2> QED BY <2>2, <2>3
<1>2. ASSUME NEW n \in Nat, Good(n) PROVE Good(n + 1)
  <2>1. PICK h : \A s \in SUBSET D : Cardinality(s) <= n => Adds(f, h, s)
    BY <1>2
  <2> DEFINE next(s) == IF s = {} THEN 0 ELSE f[One(s)] + h[s \ {One(s)}]
             g == [s \in SUBSET D |-> next(s)]
  <2>4. \A s \in SUBSET D : Cardinality(s) <= n => g[s] = h[s]
    BY <2>1 DEF Adds
  <2>5. \A s \in SUBSET D : Cardinality(s) <= n + 1 => Adds(f, g, s)
    <3> SUFFICES ASSUME NEW s \in SUBSET D, Cardinality(s) <= n + 1, s # {}
                 PROVE  g[s] = f[One(s)] + g[s \ {One(s)}]
      BY DEF Adds
    <3>1. /\ Cardinality(s) \in Nat /\ s \ {One(s)} \in SUBSET D
          /\ Cardinality(s \ {One(s)}) = Cardinality(s) - 1
      BY Removes
    <3>2. Cardinality(s \ {One(s)}) <= n
      BY <3>1
    <3>3. g[s \ {One(s)}] = h[s \ {One(s)}]
      BY <2>4, <3>1, <3>2
    <3> QED BY <3>3
  <2>6. g = [s \in SUBSET D |-> g[s]]
    OBVIOUS
  <2> HIDE DEF g
  <2> QED BY <2>5, <2>6
<1>3. \A n \in Nat : Good(n)
  <2> HIDE DEF Good
  <2>1. 0 \in T /\ \A n \in Nat : n \in T => n + 1 \in T
    BY <1>1, <1>2
  <2> HIDE DEF T
  <2>2. Nat \subseteq T
    BY <2>1, Induction
  <2> QED BY <2>2 DEF T
<1>4. Cardinality(D) \in Nat
  BY FS_CardinalityType
<1>5. PICK h : h = [s \in SUBSET D |-> h[s]] /\ \A s \in SUBSET D : Cardinality(s) <= Cardinality(D) => Adds(f, h, s)
  BY <1>3, <1>4
<1>6. \A s \in SUBSET D : h[s] = IF s = {} THEN 0 ELSE f[One(s)] + h[s \ {One(s)}]
  BY <1>5, Removes DEF Adds
<1>7. h = [s \in SUBSET D |-> IF s = {} THEN 0 ELSE f[One(s)] + h[s \ {One(s)}]]
  BY <1>5, <1>6
<1>8. Adder(f) = [s \in SUBSET D |-> IF s = {} THEN 0 ELSE f[One(s)] + Adder(f)[s \ {One(s)}]]
  BY <1>7 DEF Adder
<1> QED BY <1>8 DEF Adds

\* A finite sum is in every set that is closed under addition.
LEMMA SumIsIn ==
    ASSUME NEW f, IsFiniteSet(DOMAIN f), NEW N, \A x \in DOMAIN f : f[x] \in N,
           0 \in N, \A a, b \in N : a + b \in N
    PROVE  SumFunction(f) \in N
<1> DEFINE D == DOMAIN f
           Good(n) == \A s \in SUBSET D : Cardinality(s) <= n => Adder(f)[s] \in N
           T == {n \in Nat : Good(n)}
<1>1. Good(0)
  <2>1. \A s \in SUBSET D : Cardinality(s) <= 0 => s = {}
    BY Removes
  <2>2. Adder(f)[{}] = 0
    BY AdderAdds DEF Adds
  <2> QED BY <2>1, <2>2
<1>2. ASSUME NEW n \in Nat, Good(n) PROVE Good(n + 1)
  <2> SUFFICES ASSUME NEW s \in SUBSET D, Cardinality(s) <= n + 1 PROVE Adder(f)[s] \in N
    OBVIOUS
  <2>1. CASE s = {}
    BY <2>1, AdderAdds DEF Adds
  <2>2. CASE s # {}
    <3>1. /\ Cardinality(s) \in Nat /\ One(s) \in D /\ s \ {One(s)} \in SUBSET D
          /\ Cardinality(s \ {One(s)}) = Cardinality(s) - 1
      BY <2>2, Removes
    <3>2. Cardinality(s \ {One(s)}) <= n
      BY <3>1
    <3>3. Adder(f)[s \ {One(s)}] \in N /\ f[One(s)] \in N
      BY <1>2, <3>1, <3>2
    <3>4. Adder(f)[s] = f[One(s)] + Adder(f)[s \ {One(s)}]
      BY <2>2, AdderAdds DEF Adds
    <3> QED BY <3>3, <3>4
  <2> QED BY <2>1, <2>2
<1>3. Cardinality(D) \in Nat /\ D \in SUBSET D
  BY FS_CardinalityType
<1>4. \A n \in Nat : Good(n)
  <2> HIDE DEF Good
  <2>1. 0 \in T /\ \A n \in Nat : n \in T => n + 1 \in T
    BY <1>1, <1>2
  <2> HIDE DEF T
  <2>2. Nat \subseteq T
    BY <2>1, Induction
  <2> QED BY <2>2 DEF T
<1>5. Adder(f)[D] \in N
  BY <1>3, <1>4
<1> QED BY <1>5, SumIsAdder

\* What holds of a set of smaller subsets holds of every subset, if it passes
\* from the subsets of a set to the set.
LEMMA SubsetInduction ==
    ASSUME NEW D, IsFiniteSet(D), NEW T,
           \A s \in SUBSET D : (\A r \in SUBSET s : r # s => r \in T) => s \in T
    PROVE  SUBSET D \subseteq T
<1> DEFINE Sizes == {n \in Nat : \A s \in SUBSET D : Cardinality(s) <= n => s \in T}
<1>1. \A s \in SUBSET D : /\ IsFiniteSet(s) /\ Cardinality(s) \in Nat
                          /\ Cardinality(s) <= Cardinality(D)
                          /\ \A r \in SUBSET s : r # s => Cardinality(r) < Cardinality(s)
  BY FS_Subset, FS_CardinalityType
<1>2. 0 \in Sizes
  <2>1. \A s \in SUBSET D : Cardinality(s) <= 0 => s = {}
    BY Removes
  <2>2. {} \in SUBSET D /\ \A r \in SUBSET {} : r = {}
    OBVIOUS
  <2>3. {} \in T
    BY <2>2
  <2> QED BY <2>1, <2>3
<1>3. ASSUME NEW n \in Nat, n \in Sizes PROVE n + 1 \in Sizes
  <2> SUFFICES ASSUME NEW s \in SUBSET D, Cardinality(s) <= n + 1 PROVE s \in T
    BY <1>3
  <2>1. \A r \in SUBSET s : r # s => Cardinality(r) < Cardinality(s) /\ Cardinality(r) \in Nat
    BY <1>1
  <2>2. \A r \in SUBSET s : r # s => Cardinality(r) <= n
    BY <1>1, <2>1
  <2> QED BY <1>3, <2>2
<1> HIDE DEF Sizes
<1>4. Nat \subseteq Sizes
  BY <1>2, <1>3, Induction
<1> QED BY <1>1, <1>4 DEF Sizes

\* The order in which Adder adds makes no difference.
LEMMA AdderAddsAny ==
    ASSUME NEW f, IsFiniteSet(DOMAIN f), \A i \in DOMAIN f : f[i] \in Int
    PROVE  \A s \in SUBSET DOMAIN f :
               /\ Adder(f)[s] \in Int
               /\ \A x \in s : Adder(f)[s] = f[x] + Adder(f)[s \ {x}]
<1> DEFINE D == DOMAIN f
           T == {s \in SUBSET D : /\ Adder(f)[s] \in Int
                                 /\ \A x \in s : Adder(f)[s] = f[x] + Adder(f)[s \ {x}]}
<1>1. ASSUME NEW s \in SUBSET D, \A r \in SUBSET s : r # s => r \in T PROVE s \in T
  <2>1. CASE s = {}
    <3>1. Adder(f)[s] = 0
      BY <2>1, AdderAdds DEF Adds
    <3> QED BY <2>1, <3>1
  <2>2. CASE s # {}
    <3> DEFINE y == One(s)
    <3>1. y \in s
      BY <2>2 DEF One
    <3>2. Adder(f)[s] = f[y] + Adder(f)[s \ {y}]
      BY <2>2, AdderAdds DEF Adds
    <3> HIDE DEF y
    <3>3. \A x \in s : s \ {x} \in T
      BY <1>1
    <3>4. ASSUME NEW x \in s PROVE Adder(f)[s] = f[x] + Adder(f)[s \ {x}]
      <4>1. CASE x = y
        BY <3>2, <4>1
      <4>2. CASE x # y
        <5>1. /\ Adder(f)[s \ {y}] = f[x] + Adder(f)[(s \ {y}) \ {x}]
              /\ Adder(f)[s \ {x}] = f[y] + Adder(f)[(s \ {x}) \ {y}]
          BY <3>1, <3>3, <4>2
        <5>2. (s \ {y}) \ {x} = (s \ {x}) \ {y} /\ (s \ {y}) \ {x} \in SUBSET s /\ (s \ {y}) \ {x} # s
          BY <3>1
        <5> DEFINE rest == Adder(f)[(s \ {y}) \ {x}]
        <5>3. rest \in Int /\ f[x] \in Int /\ f[y] \in Int
          BY <1>1, <3>1, <5>2
        <5>4. Adder(f)[s] = f[y] + (f[x] + rest)
          BY <3>2, <5>1
        <5>5. Adder(f)[s \ {x}] = f[y] + rest
          BY <5>1, <5>2
        <5> HIDE DEF rest
        <5> QED BY <5>3, <5>4, <5>5
      <4> QED BY <4>1, <4>2
    <3>5. Adder(f)[s] \in Int
      <4>1. Adder(f)[s \ {y}] \in Int /\ f[y] \in Int
        BY <3>1, <3>3
      <4> QED BY <3>2, <4>1
    <3> QED BY <3>4, <3>5
  <2> QED BY <2>1, <2>2
<1> HIDE DEF T
<1>2. SUBSET D \subseteq T
  BY <1>1, SubsetInduction
<1> QED BY <1>2 DEF T

\* Two functions that agree on a set have one sum over it.
LEMMA AddersAgree ==
    ASSUME NEW f, NEW g, IsFiniteSet(DOMAIN f), IsFiniteSet(DOMAIN g), NEW D,
           D \subseteq DOMAIN f, D \subseteq DOMAIN g, \A i \in D : f[i] = g[i]
    PROVE  Adder(f)[D] = Adder(g)[D]
<1> DEFINE T == {s \in SUBSET D : Adder(f)[s] = Adder(g)[s]}
<1>1. ASSUME NEW s \in SUBSET D, \A r \in SUBSET s : r # s => r \in T PROVE s \in T
  <2>1. CASE s = {}
    BY <2>1, AdderAdds DEF Adds
  <2>2. CASE s # {}
    <3> DEFINE y == One(s)
    <3>1. y \in s
      BY <2>2 DEF One
    <3>2. /\ Adder(f)[s] = f[y] + Adder(f)[s \ {y}]
          /\ Adder(g)[s] = g[y] + Adder(g)[s \ {y}]
      BY <2>2, AdderAdds DEF Adds
    <3> HIDE DEF y
    <3>3. Adder(f)[s \ {y}] = Adder(g)[s \ {y}]
      BY <1>1, <3>1
    <3> QED BY <3>1, <3>2, <3>3
  <2> QED BY <2>1, <2>2
<1> HIDE DEF T
<1>2. IsFiniteSet(D)
  BY FS_Subset
<1>3. SUBSET D \subseteq T
  BY <1>1, <1>2, SubsetInduction
<1> QED BY <1>3 DEF T

\* The sum of no numbers is 0.
LEMMA SumOfNone == ASSUME NEW f, DOMAIN f = {} PROVE SumFunction(f) = 0
<1>1. IsFiniteSet(DOMAIN f)
  BY FS_EmptySet
<1> QED BY <1>1, SumIsAdder, AdderAdds DEF Adds

\* One number more adds that number to the sum.
LEMMA SumOfOneMore ==
    ASSUME NEW f, NEW g, IsFiniteSet(DOMAIN f), \A i \in DOMAIN f : f[i] \in Int,
           NEW x, x \in DOMAIN f, DOMAIN g = DOMAIN f \ {x}, \A i \in DOMAIN g : g[i] = f[i]
    PROVE  SumFunction(f) = SumFunction(g) + f[x]
<1>1. IsFiniteSet(DOMAIN g)
  BY FS_Subset
<1>2. Adder(f)[DOMAIN g] = Adder(g)[DOMAIN g]
  BY <1>1, AddersAgree
<1>3. \A s \in SUBSET DOMAIN f :
          Adder(f)[s] \in Int /\ \A y \in s : Adder(f)[s] = f[y] + Adder(f)[s \ {y}]
  BY AdderAddsAny
<1>4. DOMAIN f \in SUBSET DOMAIN f /\ DOMAIN g \in SUBSET DOMAIN f
  OBVIOUS
<1>5. Adder(f)[DOMAIN g] \in Int /\ f[x] \in Int /\ Adder(f)[DOMAIN f] = f[x] + Adder(f)[DOMAIN g]
  BY <1>3, <1>4
<1>6. SumFunction(f) = f[x] + Adder(f)[DOMAIN g] /\ SumFunction(g) = Adder(f)[DOMAIN g]
  BY <1>2, <1>5, SumIsAdder
<1> QED BY <1>5, <1>6
=============================================================================

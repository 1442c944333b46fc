------------------------------ MODULE SumTheorems ------------------------------
(***************************************************************************)
(* Facts about quotients, powers and sums that the proofs about several    *)
(* components share. The modules add up with MapThenSumSet, which takes    *)
(* one member after the other in an order of its own; here it is shown     *)
(* that the order does not matter. Every induction is written as a least   *)
(* counterexample.                                                         *)
(***************************************************************************)
EXTENDS Integers, FiniteSetsExt, FiniteSetTheorems, WellFoundedInduction, TLAPS

\* A set of naturals has a first element.
LEMMA LeastMember ==
  ASSUME NEW T, T \subseteq Nat, T # {}
  PROVE  \E k \in T : \A j \in T : k <= j
<1> DEFINE R == OpToRel(<, Nat)
<1>1. IsWellFoundedOn(R, Nat)
  BY NatLessThanWellFounded
<1> HIDE DEF R
<1>2. PICK k \in T : \A j \in T : ~(<<j, k>> \in R)
  BY <1>1, WFMin, Zenon
<1>3. ASSUME NEW j \in T PROVE k <= j
  <2>1. j \in Nat /\ k \in Nat
    OBVIOUS
  <2>2. ~(j < k)
    BY <1>2, <2>1 DEF R, OpToRel
  <2> QED BY <2>1, <2>2
<1> QED BY <1>3

-----------------------------------------------------------------------------
(* Products and quotients *)

LEMMA Product == \A x, y \in Nat : x * y \in Nat
OBVIOUS

LEMMA ProductMonotonic == \A x, y, z \in Nat : x <= y => x * z <= y * z /\ z * x <= z * y
OBVIOUS

LEMMA Products ==
    /\ \A x, y, z \in Int : (x + y) * z = x * z + y * z /\ z * (x + y) = z * x + z * y
    /\ \A x, y, z \in Int : (x - y) * z = x * z - y * z /\ z * (x - y) = z * x - z * y
    /\ \A x, y, z \in Int : (x * y) * z = x * (y * z)
    /\ \A x, y \in Int : x * y = y * x
    /\ \A x, y \in Int : x * y \in Int
    /\ \A x \in Int : 1 * x = x /\ x * 1 = x /\ 0 * x = 0 /\ x * 0 = 0
OBVIOUS

\* There is one quotient and one rest.
LEMMA OneQuotient ==
    ASSUME NEW q \in Int, NEW y \in Nat \ {0}, NEW s \in 0 .. y - 1
    PROVE  (q * y + s) \div y = q /\ (q * y + s) % y = s
OBVIOUS

\* There is a quotient and a rest.
LEMMA Division ==
    ASSUME NEW x \in Nat, NEW y \in Nat \ {0}
    PROVE  /\ x \div y \in Nat /\ x % y \in 0 .. y - 1
           /\ x = (x \div y) * y + (x % y)
OBVIOUS

LEMMA OneProduct ==
    ASSUME NEW x \in Int, NEW y \in Int, NEW z \in Nat, x * z < y * z
    PROVE  x < y
<1>1. \A a, b \in Int, c \in Nat : a <= b => a * c <= b * c
  OBVIOUS
<1>2. y <= x => y * z <= x * z
  BY <1>1
<1>3. x * z \in Int /\ y * z \in Int
  OBVIOUS
<1> QED BY <1>2, <1>3

LEMMA SmallRest == ASSUME NEW y \in Nat, NEW s \in 0 .. y - 1 PROVE s % y = s
OBVIOUS

-----------------------------------------------------------------------------
(* Powers *)

\* The first powers of b, up to the one with exponent n.
Multiplies(f, b, n_) ==
    /\ f \in [0 .. n_ -> Nat]
    /\ f[0] = 1
    /\ \A k \in 1 .. n_ : f[k] = b * f[k - 1]

LEMMA MultipliesExist ==
    ASSUME NEW b \in Nat
    PROVE  \A m \in Nat : \E f : Multiplies(f, b, m)
<1> DEFINE T == {m \in Nat : ~ \E f : Multiplies(f, b, m)}
<1>1. SUFFICES ASSUME T # {} PROVE FALSE
  OBVIOUS
<1>2. PICK m \in T : \A j \in T : m <= j
  BY <1>1, LeastMember
<1>3. CASE m = 0
  <2> DEFINE f == [k \in 0 .. 0 |-> 1]
  <2>1. Multiplies(f, b, 0)
    BY DEF Multiplies
  <2> QED BY <1>2, <1>3, <2>1
<1>4. CASE m # 0
  <2>1. m \in Nat /\ m - 1 \in Nat /\ ~(m <= m - 1)
    BY <1>2, <1>4
  <2>2. m - 1 \notin T
    BY <1>2, <2>1
  <2>3. PICK f : Multiplies(f, b, m - 1)
    BY <2>1, <2>2
  <2> DEFINE g == [k \in 0 .. m |-> IF k = m THEN b * f[m - 1] ELSE f[k]]
  <2>4. \A k \in 0 .. m - 1 : f[k] \in Nat
    BY <2>1, <2>3 DEF Multiplies
  <2>5. g \in [0 .. m -> Nat]
    <3>1. \A k \in 0 .. m : (IF k = m THEN b * f[m - 1] ELSE f[k]) \in Nat
      BY <2>1, <2>4
    <3> QED BY <3>1
  <2>6. g[0] = 1
    BY <1>4, <2>1, <2>3 DEF Multiplies
  <2>7. \A k \in 1 .. m : g[k] = b * g[k - 1]
    <3> TAKE k \in 1 .. m
    <3>1. k - 1 \in 0 .. m /\ k - 1 # m /\ k \in 0 .. m
      BY <2>1
    <3>2. g[k - 1] = f[k - 1]
      BY <3>1
    <3>3. g[k] = IF k = m THEN b * f[m - 1] ELSE f[k]
      BY <3>1
    <3>4. k # m => f[k] = b * f[k - 1]
      BY <2>1, <2>3 DEF Multiplies
    <3> QED BY <3>2, <3>3, <3>4
  <2>8. Multiplies(g, b, m)
    BY <2>5, <2>6, <2>7 DEF Multiplies
  <2> QED BY <1>2, <2>8
<1> QED BY <1>3, <1>4

LEMMA MultipliesAgree ==
    ASSUME NEW b \in Nat, NEW l \in Nat, NEW m \in Nat, NEW f, Multiplies(f, b, l), NEW g, Multiplies(g, b, m),
           NEW i \in 0 .. l, i <= m
    PROVE  f[i] = g[i]
<1> DEFINE T == {k \in 0 .. i : f[k] # g[k]}
<1>1. SUFFICES ASSUME T # {} PROVE FALSE
  OBVIOUS
<1>2. PICK k \in T : \A j \in T : k <= j
  <2>1. T \subseteq Nat
    OBVIOUS
  <2> HIDE DEF T
  <2> QED BY <1>1, <2>1, LeastMember
<1>3. k # 0
  BY <1>2 DEF Multiplies
<1>4. k \in 1 .. l /\ k \in 1 .. m /\ k - 1 \in 0 .. i /\ ~(k <= k - 1)
  BY <1>2, <1>3
<1>5. f[k - 1] = g[k - 1]
  BY <1>2, <1>4
<1>6. f[k] = b * f[k - 1] /\ g[k] = b * g[k - 1]
  BY <1>4 DEF Multiplies
<1> QED BY <1>2, <1>5, <1>6

\* f is the function of the powers of b, as a recursive definition has it.
IsPowers(f, b) == f = [k \in Nat |-> IF k = 0 THEN 1 ELSE b * f[k - 1]]

LEMMA PowersExist ==
    ASSUME NEW b \in Nat
    PROVE  \E f : IsPowers(f, b)
<1> DEFINE Prefix(m) == CHOOSE f : Multiplies(f, b, m)
           F == [m \in Nat |-> Prefix(m)[m]]
<1>1. \A m \in Nat : Multiplies(Prefix(m), b, m)
  BY MultipliesExist
<1>2. Prefix(0)[0] = 1
  BY <1>1 DEF Multiplies
<1>3. ASSUME NEW m \in Nat, m # 0 PROVE Prefix(m)[m] = b * Prefix(m - 1)[m - 1]
  <2>1. m - 1 \in Nat /\ m - 1 \in 0 .. m /\ m - 1 <= m - 1 /\ m \in 1 .. m
    BY <1>3
  <2>2. Multiplies(Prefix(m), b, m) /\ Multiplies(Prefix(m - 1), b, m - 1)
    BY <1>1, <2>1
  <2>3. Prefix(m)[m] = b * Prefix(m)[m - 1]
    BY <2>1, <2>2 DEF Multiplies
  <2>4. Prefix(m)[m - 1] = Prefix(m - 1)[m - 1]
    BY <2>1, <2>2, MultipliesAgree
  <2> QED BY <2>3, <2>4
<1> HIDE DEF Prefix
<1>4. \A k \in Nat : F[k] = IF k = 0 THEN 1 ELSE b * F[k - 1]
  BY <1>2, <1>3
<1>5. F = [k \in Nat |-> IF k = 0 THEN 1 ELSE b * F[k - 1]]
  BY <1>4
<1> HIDE DEF F
<1> QED BY <1>5 DEF IsPowers

LEMMA PowersStep ==
    ASSUME NEW b \in Nat, NEW f, IsPowers(f, b)
    PROVE  f[0] = 1 /\ \A k \in Nat : f[k + 1] = b * f[k]
<1>1. \A k \in Nat : f[k] = IF k = 0 THEN 1 ELSE b * f[k - 1]
  BY Zenon DEF IsPowers
<1>2. f[0] = 1
  BY <1>1
<1>3. ASSUME NEW k \in Nat PROVE f[k + 1] = b * f[k]
  <2>1. k + 1 \in Nat /\ k + 1 # 0 /\ (k + 1) - 1 = k
    OBVIOUS
  <2> QED BY <1>1, <2>1
<1> QED BY <1>2, <1>3

LEMMA PowersNat ==
    ASSUME NEW b \in Nat \ {0}, NEW f, IsPowers(f, b)
    PROVE  \A k \in Nat : f[k] \in Nat \ {0}
<1> DEFINE T == {k \in Nat : f[k] \notin Nat \ {0}}
<1>1. SUFFICES ASSUME T # {} PROVE FALSE
  OBVIOUS
<1>2. PICK k \in T : \A j \in T : k <= j
  BY <1>1, LeastMember
<1>3. k # 0
  BY <1>2, PowersStep
<1>4. k - 1 \in Nat /\ ~(k <= k - 1) /\ (k - 1) + 1 = k
  BY <1>2, <1>3
<1>5. f[k - 1] \in Nat \ {0}
  BY <1>2, <1>4
<1>6. f[(k - 1) + 1] = b * f[k - 1]
  BY <1>4, PowersStep
<1>7. \A x \in Nat \ {0} : b * x \in Nat \ {0}
  OBVIOUS
<1> QED BY <1>2, <1>4, <1>5, <1>6, <1>7

-----------------------------------------------------------------------------
(* Sums over the members of a finite set *)

\* What the members of S have in f together, as the model adds it up.
SumOver(f, S) == MapThenSumSet(LAMBDA c : f[c], S)

\* The member that is added last, and what g has for s given the sets in D.
Pick(s) == CHOOSE x \in s : TRUE
Adds(f, D, g) == g = [s \in D |-> IF s = {} THEN 0 ELSE f[Pick(s)] + g[s \ {Pick(s)}]]
AddsAll(f, S, g) == Adds(f, SUBSET S, g)

LEMMA SumUnfolds ==
  ASSUME NEW f, NEW S
  PROVE  SumOver(f, S) = (CHOOSE g : AddsAll(f, S, g))[S]
BY DEF AddsAll, SumOver, MapThenSumSet, MapThenFoldSet, Adds, Pick

\* Of finite sets there is a smallest.
LEMMA SmallestSet ==
  ASSUME NEW B, B # {}, \A s \in B : IsFiniteSet(s)
  PROVE  \E s \in B : \A t \in B : Cardinality(s) <= Cardinality(t)
<1> DEFINE T == {Cardinality(s) : s \in B}
<1>1. T \subseteq Nat /\ T # {}
  BY FS_CardinalityType
<1>2. PICK k \in T : \A j \in T : k <= j
  <2> HIDE DEF T
  <2> QED BY <1>1, LeastMember
<1> QED BY <1>2

LEMMA AddsMember ==
  ASSUME NEW f, NEW S, NEW g, AddsAll(f, S, g), NEW s \in SUBSET S
  PROVE  /\ s = {} => g[s] = 0
         /\ s # {} => Pick(s) \in s /\ g[s] = f[Pick(s)] + g[s \ {Pick(s)}]
<1>1. g[s] = IF s = {} THEN 0 ELSE f[Pick(s)] + g[s \ {Pick(s)}]
  BY DEF Adds, AddsAll
<1>2. s # {} => Pick(s) \in s
  BY DEF Pick
<1> QED BY <1>1, <1>2

LEMMA OneLessMember ==
  ASSUME NEW S, IsFiniteSet(S), NEW s \in SUBSET S, NEW x \in s
  PROVE  /\ IsFiniteSet(s) /\ IsFiniteSet(s \ {x}) /\ s \ {x} \in SUBSET S
         /\ Cardinality(s) \in Nat /\ Cardinality(s \ {x}) \in Nat
         /\ Cardinality(s \ {x}) = Cardinality(s) - 1 /\ Cardinality(s) # 0
<1>1. IsFiniteSet(s)
  BY FS_Subset
<1>2. IsFiniteSet(s \ {x}) /\ Cardinality(s \ {x}) = Cardinality(s) - 1
  BY <1>1, FS_RemoveElement
<1>3. Cardinality(s) \in Nat /\ Cardinality(s \ {x}) \in Nat
  BY <1>1, <1>2, FS_CardinalityType
<1>4. Cardinality(s) # 0
  BY <1>1, FS_EmptySet
<1> QED BY <1>1, <1>2, <1>3, <1>4

\* The sums of the subsets of S with n members at most.
Upto(S, n) == {s \in SUBSET S : Cardinality(s) <= n}

LEMMA SumsExist ==
  ASSUME NEW f, NEW S, IsFiniteSet(S)
  PROVE  \A n \in Nat : \E g : Adds(f, Upto(S, n), g)
<1> DEFINE T == {n \in Nat : ~ \E g : Adds(f, Upto(S, n), g)}
<1>1. SUFFICES ASSUME T # {} PROVE FALSE
  OBVIOUS
<1>2. PICK n \in T : \A j \in T : n <= j
  BY <1>1, LeastMember
<1>3. n \in Nat /\ ~ \E g : Adds(f, Upto(S, n), g)
  BY <1>1, <1>2
<1>4. CASE n = 0
  <2> DEFINE g == [s \in Upto(S, 0) |-> 0]
  <2>1. \A s \in Upto(S, 0) : s = {}
    <3> TAKE s \in Upto(S, 0)
    <3>1. s \in SUBSET S /\ Cardinality(s) <= 0
      BY DEF Upto
    <3>2. IsFiniteSet(s) /\ Cardinality(s) \in Nat
      BY <3>1, FS_Subset, FS_CardinalityType
    <3> QED BY <3>1, <3>2, FS_EmptySet
  <2>2. Adds(f, Upto(S, 0), g)
    BY <2>1 DEF Adds
  <2> QED BY <1>3, <1>4, <2>2
<1>5. CASE n # 0
  <2>1. n - 1 \in Nat /\ ~(n <= n - 1)
    BY <1>3, <1>5
  <2>2. n - 1 \notin T
    BY <1>2, <2>1
  <2>3. PICK h : Adds(f, Upto(S, n - 1), h)
    BY <2>1, <2>2
  <2> DEFINE V(s) == IF s = {} THEN 0 ELSE f[Pick(s)] + h[s \ {Pick(s)}]
             g == [s \in Upto(S, n) |-> V(s)]
  <2>4. ASSUME NEW s \in Upto(S, n), s # {}
        PROVE  s \ {Pick(s)} \in Upto(S, n - 1) /\ s \ {Pick(s)} \in Upto(S, n)
    <3>1. s \in SUBSET S /\ Cardinality(s) <= n /\ Pick(s) \in s
      BY <2>4 DEF Upto, Pick
    <3>2. /\ s \ {Pick(s)} \in SUBSET S
          /\ Cardinality(s) \in Nat /\ Cardinality(s \ {Pick(s)}) = Cardinality(s) - 1
      BY <3>1, OneLessMember
    <3> QED BY <1>3, <3>1, <3>2 DEF Upto
  <2>5. ASSUME NEW s \in Upto(S, n), s # {}
        PROVE  g[s \ {Pick(s)}] = h[s \ {Pick(s)}]
    <3> DEFINE t == s \ {Pick(s)}
    <3>1. t \in Upto(S, n - 1) /\ t \in Upto(S, n)
      BY <2>4, <2>5
    <3> HIDE DEF t
    <3>2. g[t] = V(t)
      BY <3>1
    <3>3. h[t] = V(t)
      BY <2>3, <3>1 DEF Adds
    <3>4. g[t] = h[t]
      BY <3>2, <3>3
    <3> QED BY <3>4 DEF t
  <2> HIDE DEF g
  <2>6. \A s \in Upto(S, n) : V(s) = IF s = {} THEN 0 ELSE f[Pick(s)] + g[s \ {Pick(s)}]
    BY <2>5
  <2>7. g = [s \in Upto(S, n) |-> IF s = {} THEN 0 ELSE f[Pick(s)] + g[s \ {Pick(s)}]]
    BY <2>6 DEF g
  <2>8. Adds(f, Upto(S, n), g)
    BY <2>7 DEF Adds
  <2> QED BY <1>3, <2>8
<1> QED BY <1>4, <1>5

LEMMA SumExists ==
  ASSUME NEW f, NEW S, IsFiniteSet(S)
  PROVE  \E g : AddsAll(f, S, g)
<1>1. Cardinality(S) \in Nat
  BY FS_CardinalityType
<1>2. Upto(S, Cardinality(S)) = SUBSET S
  <2>1. \A s \in SUBSET S : Cardinality(s) <= Cardinality(S)
    BY FS_Subset
  <2> QED BY <2>1 DEF Upto
<1>3. \E g : Adds(f, Upto(S, Cardinality(S)), g)
  BY <1>1, SumsExist
<1> QED BY <1>2, <1>3 DEF AddsAll

LEMMA SumsAgree ==
  ASSUME NEW f, NEW S, IsFiniteSet(S), NEW g, AddsAll(f, S, g),
         NEW T, NEW h, AddsAll(f, T, h), NEW r \in SUBSET S, r \in SUBSET T
  PROVE  g[r] = h[r]
<1> DEFINE B == {s \in SUBSET r : g[s] # h[s]}
<1>1. SUFFICES ASSUME B # {} PROVE FALSE
  OBVIOUS
<1>2. \A s \in B : IsFiniteSet(s)
  <2>1. \A s \in B : s \in SUBSET S
    OBVIOUS
  <2> HIDE DEF B
  <2> QED BY <2>1, FS_Subset
<1>3. PICK s \in B : \A t \in B : Cardinality(s) <= Cardinality(t)
  <2> HIDE DEF B
  <2> QED BY <1>1, <1>2, SmallestSet
<1>4. s \in SUBSET S /\ s \in SUBSET T /\ g[s] # h[s] /\ s \in SUBSET r
  BY <1>1, <1>3
<1>5. s # {} /\ Pick(s) \in s
  <2>1. s = {} => g[s] = 0
    BY <1>4, AddsMember
  <2>2. s = {} => h[s] = 0
    BY <1>4, AddsMember
  <2>3. s # {} => Pick(s) \in s
    BY DEF Pick
  <2> QED BY <1>4, <2>1, <2>2, <2>3
<1>6. g[s] = f[Pick(s)] + g[s \ {Pick(s)}] /\ h[s] = f[Pick(s)] + h[s \ {Pick(s)}]
  BY <1>4, <1>5, AddsMember
<1>7. s \ {Pick(s)} \notin B
  <2>1. Cardinality(s) \in Nat /\ Cardinality(s \ {Pick(s)}) = Cardinality(s) - 1
    BY <1>4, <1>5, OneLessMember
  <2> QED BY <1>3, <2>1
<1>8. g[s \ {Pick(s)}] = h[s \ {Pick(s)}]
  BY <1>4, <1>7
<1> QED BY <1>4, <1>6, <1>8

LEMMA PartSum ==
  ASSUME NEW f, NEW S, IsFiniteSet(S), NEW g, AddsAll(f, S, g),
         NEW T, T \subseteq S, NEW h, AddsAll(f, T, h)
  PROVE  g[T] = h[T]
<1>1. T \in SUBSET S /\ T \in SUBSET T
  OBVIOUS
<1> QED BY <1>1, SumsAgree

\* The order in which the members are added does not matter.
LEMMA SumAnyOrder ==
  ASSUME NEW f, NEW S, IsFiniteSet(S), \A x \in S : f[x] \in Nat,
         NEW g, AddsAll(f, S, g)
  PROVE  \A s \in SUBSET S : g[s] \in Nat /\ \A x \in s : g[s] = f[x] + g[s \ {x}]
<1> DEFINE Q(s) == g[s] \in Nat /\ \A x \in s : g[s] = f[x] + g[s \ {x}]
           B == {s \in SUBSET S : ~Q(s)}
<1>1. SUFFICES ASSUME B # {} PROVE FALSE
  OBVIOUS
<1> HIDE DEF Q
<1>2. \A s \in B : IsFiniteSet(s)
  <2>1. \A s \in B : s \in SUBSET S
    OBVIOUS
  <2> HIDE DEF B
  <2> QED BY <2>1, FS_Subset
<1>3. PICK s \in B : \A t \in B : Cardinality(s) <= Cardinality(t)
  <2> HIDE DEF B
  <2> QED BY <1>1, <1>2, SmallestSet
<1>4. s \in SUBSET S /\ ~Q(s)
  BY <1>1, <1>3
<1>5. s # {}
  <2>1. s = {} => g[s] = 0
    BY <1>4, AddsMember
  <2> QED BY <1>4, <2>1 DEF Q
<1>6. ASSUME NEW x \in s PROVE Q(s \ {x})
  <2>1. Cardinality(s) \in Nat /\ Cardinality(s \ {x}) = Cardinality(s) - 1 /\ s \ {x} \in SUBSET S
    BY <1>4, OneLessMember
  <2>2. s \ {x} \notin B
    BY <1>3, <2>1
  <2> QED BY <2>1, <2>2
<1> DEFINE y == Pick(s)
<1>7. y \in s /\ g[s] = f[y] + g[s \ {y}]
  BY <1>4, <1>5, AddsMember
<1> HIDE DEF y
<1>8. g[s] \in Nat
  <2>1. f[y] \in Nat /\ g[s \ {y}] \in Nat
    BY <1>4, <1>6, <1>7 DEF Q
  <2> QED BY <1>7, <2>1
<1>9. ASSUME NEW x \in s PROVE g[s] = f[x] + g[s \ {x}]
  <2>1. CASE x = y
    BY <1>7, <2>1
  <2>2. CASE x # y
    <3>1. g[s \ {y}] = f[x] + g[(s \ {y}) \ {x}]
      BY <1>6, <1>7, <2>2 DEF Q
    <3>2. g[s \ {x}] = f[y] + g[(s \ {x}) \ {y}]
      BY <1>6, <1>7, <2>2 DEF Q
    <3>3. (s \ {y}) \ {x} = (s \ {x}) \ {y}
      OBVIOUS
    <3>4. f[x] \in Nat /\ f[y] \in Nat
      BY <1>4, <1>7
    <3> DEFINE z == g[(s \ {x}) \ {y}]
    <3>5. z \in Nat
      <4>1. Q((s \ {x}) \ {y})
        <5>1. Cardinality(s) \in Nat /\ Cardinality(s \ {x}) = Cardinality(s) - 1 /\ s \ {x} \in SUBSET S
          BY <1>4, OneLessMember
        <5>2. y \in s \ {x}
          BY <1>7, <2>2
        <5>3. /\ Cardinality((s \ {x}) \ {y}) = Cardinality(s \ {x}) - 1
              /\ (s \ {x}) \ {y} \in SUBSET S
          BY <5>1, <5>2, OneLessMember
        <5>4. (s \ {x}) \ {y} \notin B
          BY <1>3, <5>1, <5>3
        <5> QED BY <5>3, <5>4
      <4> QED BY <4>1 DEF Q
    <3>6. g[s] = f[y] + (f[x] + z) /\ g[s \ {x}] = f[y] + z
      BY <1>7, <3>1, <3>2, <3>3
    <3> HIDE DEF z
    <3> QED BY <3>4, <3>5, <3>6
  <2> QED BY <2>1, <2>2
<1>10. Q(s)
  BY <1>8, <1>9 DEF Q
<1> QED BY <1>4, <1>10

LEMMA Sums ==
  ASSUME NEW f, NEW S, IsFiniteSet(S), \A x \in S : f[x] \in Nat
  PROVE  /\ SumOver(f, {}) = 0
         /\ SumOver(f, S) \in Nat
         /\ \A x \in S : SumOver(f, S \ {x}) \in Nat /\ SumOver(f, S) = f[x] + SumOver(f, S \ {x})
<1> DEFINE G(T) == CHOOSE g : AddsAll(f, T, g)
<1>1. ASSUME NEW T, IsFiniteSet(T) PROVE AddsAll(f, T, G(T)) /\ SumOver(f, T) = G(T)[T]
  BY <1>1, SumExists, SumUnfolds
<1> HIDE DEF G
<1>2. IsFiniteSet({})
  BY FS_EmptySet
<1>3. SumOver(f, {}) = 0
  <2>1. AddsAll(f, {}, G({})) /\ {} \in SUBSET {}
    BY <1>1, <1>2
  <2>2. \A s \in SUBSET {} : s = {} => G({})[s] = 0
    BY <2>1, AddsMember
  <2> QED BY <1>1, <1>2, <2>2
<1>4. \A s \in SUBSET S : G(S)[s] \in Nat /\ \A x \in s : G(S)[s] = f[x] + G(S)[s \ {x}]
  <2> DEFINE g == G(S)
  <2>1. AddsAll(f, S, g)
    BY <1>1
  <2> HIDE DEF g
  <2>2. \A s \in SUBSET S : g[s] \in Nat /\ \A x \in s : g[s] = f[x] + g[s \ {x}]
    BY <2>1, SumAnyOrder
  <2> QED BY <2>2 DEF g
<1>5. SumOver(f, S) \in Nat
  BY <1>1, <1>4
<1>6. ASSUME NEW x \in S
      PROVE  SumOver(f, S \ {x}) \in Nat /\ SumOver(f, S) = f[x] + SumOver(f, S \ {x})
  <2> DEFINE T == S \ {x}
  <2>1. IsFiniteSet(T) /\ T \in SUBSET S /\ T \in SUBSET T
    BY FS_RemoveElement
  <2>2. G(S)[S] = f[x] + G(S)[T]
    BY <1>4
  <2>3. G(S)[T] \in Nat
    BY <1>4
  <2> HIDE DEF T
  <2>4. G(S)[T] = G(T)[T]
    <3> DEFINE g == G(S)
               h == G(T)
    <3>1. AddsAll(f, S, g) /\ AddsAll(f, T, h)
      BY <1>1, <2>1
    <3> HIDE DEF g, h
    <3>2. IsFiniteSet(S) /\ T \subseteq S
      BY <2>1
    <3>3. AddsAll(f, S, g) /\ AddsAll(f, T, h)
      BY <3>1
    <3>4. g[T] = h[T]
      BY <3>2, <3>3, PartSum
    <3> QED BY <3>4 DEF g, h
  <2>5. SumOver(f, T) \in Nat /\ SumOver(f, S) = f[x] + SumOver(f, T)
    BY <1>1, <2>1, <2>2, <2>3, <2>4
  <2> QED BY <2>5 DEF T
<1> QED BY <1>3, <1>5, <1>6

\* The members of S have natural numbers in f.
HasNats(f, S) == \A x \in S : f[x] \in Nat

\* One member less.
LEMMA SumOneLess ==
  ASSUME NEW f, NEW S, IsFiniteSet(S), NEW x \in S, HasNats(f, S)
  PROVE  SumOver(f, S \ {x}) \in Nat /\ SumOver(f, S) = f[x] + SumOver(f, S \ {x})
<1>1. \A y \in S : f[y] \in Nat
  BY DEF HasNats
<1>2. \A z \in S : SumOver(f, S \ {z}) \in Nat /\ SumOver(f, S) = f[z] + SumOver(f, S \ {z})
  BY <1>1, Sums
<1> QED BY <1>2

\* Two sets without a common member.
LEMMA SumUnion ==
  ASSUME NEW f, NEW A, NEW B, IsFiniteSet(A), IsFiniteSet(B), A \cap B = {},
         \A x \in A \cup B : f[x] \in Nat
  PROVE  SumOver(f, A \cup B) = SumOver(f, A) + SumOver(f, B)
<1> DEFINE Q(s) == SumOver(f, A \cup s) = SumOver(f, A) + SumOver(f, s)
           D == {s \in SUBSET B : ~Q(s)}
<1>1. SUFFICES ASSUME D # {} PROVE FALSE
  BY Zenon DEF Q
<1> HIDE DEF Q
<1>2. \A s \in D : IsFiniteSet(s)
  <2>1. \A s \in D : s \in SUBSET B
    OBVIOUS
  <2> HIDE DEF D
  <2> QED BY <2>1, FS_Subset
<1>3. PICK s \in D : \A t \in D : Cardinality(s) <= Cardinality(t)
  <2> HIDE DEF D
  <2> QED BY <1>1, <1>2, SmallestSet
<1>4. s \in SUBSET B /\ ~Q(s)
  BY <1>1, <1>3
<1>5. SumOver(f, {}) = 0 /\ SumOver(f, A) \in Nat
  BY Sums
<1>6. s # {}
  <2>1. A \cup {} = A
    OBVIOUS
  <2> QED BY <1>4, <1>5, <2>1 DEF Q
<1>7. PICK x : x \in s
  BY <1>6
<1> DEFINE t == s \ {x}
           u == A \cup s
<1>8. Cardinality(s) \in Nat /\ Cardinality(t) = Cardinality(s) - 1 /\ t \in SUBSET B /\ IsFiniteSet(s)
  BY <1>4, <1>7, OneLessMember
<1>9. Q(t)
  <2>1. t \notin D
    <3> HIDE DEF t
    <3> QED BY <1>3, <1>8
  <2> QED BY <1>8, <2>1
<1>10. SumOver(f, t) \in Nat /\ SumOver(f, s) = f[x] + SumOver(f, t)
  <2>1. HasNats(f, s) /\ IsFiniteSet(s) /\ x \in s
    BY <1>4, <1>7, <1>8 DEF HasNats
  <2> QED BY <2>1, SumOneLess
<1>11. SumOver(f, u) = f[x] + SumOver(f, u \ {x})
  <2>1. IsFiniteSet(u)
    BY <1>8, FS_Union
  <2>2. x \in u /\ HasNats(f, u)
    BY <1>4, <1>7 DEF HasNats
  <2> HIDE DEF u
  <2> QED BY <2>1, <2>2, SumOneLess
<1>12. u \ {x} = A \cup t
  BY <1>4, <1>7
<1>13. f[x] \in Nat
  BY <1>4, <1>7
<1>14. SumOver(f, A \cup s) = SumOver(f, A) + SumOver(f, s)
  <2>1. SumOver(f, A \cup t) = SumOver(f, A) + SumOver(f, t)
    BY <1>9 DEF Q
  <2>2. SumOver(f, A \cup s) = f[x] + SumOver(f, A \cup t)
    BY <1>11, <1>12
  <2> HIDE DEF t
  <2> QED BY <1>5, <1>10, <1>13, <2>1, <2>2
<1> QED BY <1>4, <1>14 DEF Q

LEMMA SumOneMore ==
  ASSUME NEW f, NEW S, IsFiniteSet(S), NEW x, x \notin S, \A y \in S \cup {x} : f[y] \in Nat
  PROVE  SumOver(f, S \cup {x}) = f[x] + SumOver(f, S) /\ SumOver(f, S) \in Nat
<1> DEFINE T == S \cup {x}
<1>1. IsFiniteSet(T) /\ x \in T /\ \A y \in T : f[y] \in Nat
  BY FS_AddElement
<1>2. T \ {x} = S
  OBVIOUS
<1> HIDE DEF T
<1>3. SumOver(f, T \ {x}) \in Nat /\ SumOver(f, T) = f[x] + SumOver(f, T \ {x})
  BY <1>1, Sums
<1> QED BY <1>2, <1>3 DEF T

LEMMA SumOfOne ==
  ASSUME NEW f, NEW c, f[c] \in Nat
  PROVE  SumOver(f, {c}) = f[c]
<1>1. IsFiniteSet({}) /\ c \notin {} /\ \A y \in {} \cup {c} : f[y] \in Nat
  BY FS_EmptySet
<1>2. SumOver(f, {} \cup {c}) = f[c] + SumOver(f, {})
  BY <1>1, SumOneMore
<1>3. SumOver(f, {}) = 0
  BY <1>1, Sums
<1>4. {} \cup {c} = {c}
  OBVIOUS
<1> QED BY <1>2, <1>3, <1>4

\* No summand exceeds the sum.
LEMMA PartOfSum ==
  ASSUME NEW f, NEW S, IsFiniteSet(S), NEW x \in S, \A y \in S : f[y] \in Nat
  PROVE  f[x] <= SumOver(f, S)
<1>1. SumOver(f, S \ {x}) \in Nat /\ SumOver(f, S) = f[x] + SumOver(f, S \ {x}) /\ f[x] \in Nat
  BY Sums
<1> QED BY <1>1

\* A sum whose summands are all multiplied.
LEMMA SumScaled ==
  ASSUME NEW f, NEW g, NEW S, IsFiniteSet(S), NEW k \in Nat,
         \A x \in S : f[x] \in Nat /\ g[x] = k * f[x]
  PROVE  SumOver(g, S) = k * SumOver(f, S)
<1> DEFINE Q(s) == SumOver(g, s) = k * SumOver(f, s)
           D == {s \in SUBSET S : ~Q(s)}
<1>1. SUFFICES ASSUME D # {} PROVE FALSE
  BY Zenon DEF Q
<1>2. \A x \in S : f[x] \in Nat /\ g[x] \in Nat
  <2>1. \A y \in Nat : k * y \in Nat
    OBVIOUS
  <2> QED BY <2>1
<1> HIDE DEF Q
<1>3. \A s \in D : IsFiniteSet(s)
  <2>1. \A s \in D : s \in SUBSET S
    OBVIOUS
  <2> HIDE DEF D
  <2> QED BY <2>1, FS_Subset
<1>4. PICK s \in D : \A t \in D : Cardinality(s) <= Cardinality(t)
  <2> HIDE DEF D
  <2> QED BY <1>1, <1>3, SmallestSet
<1>5. s \in SUBSET S /\ ~Q(s)
  BY <1>1, <1>4
<1>6. s # {}
  <2>1. SumOver(f, {}) = 0 /\ SumOver(g, {}) = 0
    BY <1>2, Sums
  <2>2. k * 0 = 0
    OBVIOUS
  <2> QED BY <1>5, <2>1, <2>2 DEF Q
<1>7. PICK x : x \in s
  BY <1>6
<1> DEFINE t == s \ {x}
<1>8. Cardinality(s) \in Nat /\ Cardinality(t) = Cardinality(s) - 1 /\ t \in SUBSET S /\ IsFiniteSet(s)
  BY <1>5, <1>7, OneLessMember
<1>9. Q(t)
  <2>1. t \notin D
    <3> HIDE DEF t
    <3> QED BY <1>4, <1>8
  <2> QED BY <1>8, <2>1
<1>10. /\ SumOver(f, t) \in Nat /\ SumOver(f, s) = f[x] + SumOver(f, t)
       /\ SumOver(g, t) \in Nat /\ SumOver(g, s) = g[x] + SumOver(g, t)
  <2>1. HasNats(f, s)
    BY <1>2, <1>5 DEF HasNats
  <2>2. HasNats(g, s)
    BY <1>2, <1>5 DEF HasNats
  <2>3. SumOver(f, t) \in Nat /\ SumOver(f, s) = f[x] + SumOver(f, t)
    <3>1. IsFiniteSet(s) /\ x \in s
      BY <1>7, <1>8
    <3> QED BY <2>1, <3>1, SumOneLess
  <2>4. SumOver(g, t) \in Nat /\ SumOver(g, s) = g[x] + SumOver(g, t)
    <3>1. IsFiniteSet(s) /\ x \in s
      BY <1>7, <1>8
    <3> QED BY <2>2, <3>1, SumOneLess
  <2> QED BY <2>3, <2>4
<1>11. f[x] \in Nat /\ g[x] = k * f[x]
  BY <1>5, <1>7
<1>12. \A a, b \in Nat : k * a + k * b = k * (a + b)
  OBVIOUS
<1>13. SumOver(g, s) = k * SumOver(f, s)
  <2>1. SumOver(g, t) = k * SumOver(f, t)
    BY <1>9 DEF Q
  <2> HIDE DEF t
  <2> QED BY <1>10, <1>11, <1>12, <2>1
<1> QED BY <1>5, <1>13 DEF Q

\* The members of C are the starts of intervals that f gives the lengths of,
\* that lie apart, and that together make up a .. b - 1.
TilesUp(f, C, a, b) ==
  /\ \A c \in C : c \in Nat /\ f[c] \in Nat \ {0} /\ a <= c /\ c + f[c] <= b
  /\ \A c, d \in C : c < d => c + f[c] <= d
  /\ \A x \in a .. b - 1 : \E c \in C : x \in c .. c + f[c] - 1

LEMMA LastTile ==
  ASSUME NEW f, NEW C, NEW a \in Nat, NEW b \in Nat, a < b, TilesUp(f, C, a, b)
  PROVE  \E c \in C : c \in Nat /\ a <= c /\ c < b /\ f[c] = b - c /\ TilesUp(f, C \ {c}, a, c)
<1>1. b - 1 \in a .. b - 1
  OBVIOUS
<1>2. PICK c \in C : b - 1 \in c .. c + f[c] - 1
  BY <1>1 DEF TilesUp
<1>3. c \in Nat /\ f[c] \in Nat \ {0} /\ a <= c /\ c + f[c] <= b
  BY DEF TilesUp
<1>4. c < b /\ f[c] = b - c
  BY <1>2, <1>3
<1>5. ASSUME NEW d \in C \ {c}
      PROVE  d \in Nat /\ f[d] \in Nat \ {0} /\ a <= d /\ d + f[d] <= c
  <2>1. d \in Nat /\ f[d] \in Nat \ {0} /\ a <= d /\ d + f[d] <= b /\ d # c
    BY DEF TilesUp
  <2>2. (c < d => c + f[c] <= d) /\ (d < c => d + f[d] <= c)
    BY DEF TilesUp
  <2> QED BY <1>3, <1>4, <2>1, <2>2
<1>6. ASSUME NEW x \in a .. c - 1
      PROVE  \E d \in C \ {c} : x \in d .. d + f[d] - 1
  <2>1. x \in a .. b - 1 /\ x < c
    BY <1>3, <1>4
  <2>2. PICK d \in C : x \in d .. d + f[d] - 1
    BY <2>1 DEF TilesUp
  <2>3. d # c
    BY <1>3, <2>1, <2>2
  <2> QED BY <2>2, <2>3
<1>7. \A d, e \in C \ {c} : d < e => d + f[d] <= e
  BY DEF TilesUp
<1>8. TilesUp(f, C \ {c}, a, c)
  BY <1>5, <1>6, <1>7 DEF TilesUp
<1> QED BY <1>3, <1>4, <1>8

LEMMA TiledSum ==
  ASSUME NEW f, NEW C, IsFiniteSet(C), NEW a \in Nat, NEW b \in Nat, a <= b, TilesUp(f, C, a, b)
  PROVE  SumOver(f, C) = b - a
<1> DEFINE Q(n) == \A S \in SUBSET C : TilesUp(f, S, a, a + n) => SumOver(f, S) = n
           T == {n \in Nat : ~Q(n)}
<1>1. T = {}
  <2>1. SUFFICES ASSUME T # {} PROVE FALSE
    OBVIOUS
  <2>2. PICK n \in T : \A j \in T : n <= j
    BY <2>1, LeastMember
  <2>3. n \in Nat /\ ~Q(n)
    BY <2>1, <2>2
  <2>4. PICK S \in SUBSET C : TilesUp(f, S, a, a + n) /\ SumOver(f, S) # n
    BY <2>3
  <2>5. IsFiniteSet(S) /\ \A c \in S : c \in Nat /\ f[c] \in Nat \ {0}
    BY <2>4, FS_Subset DEF TilesUp
  <2>6. CASE n = 0
    <3>1. S = {}
      <4>1. ASSUME NEW c \in S PROVE FALSE
        <5>1. c \in Nat /\ f[c] \in Nat \ {0} /\ a <= c /\ c + f[c] <= a + n
          BY <2>4 DEF TilesUp
        <5> QED BY <2>6, <5>1
      <4> QED BY <4>1
    <3>2. SumOver(f, {}) = 0
      BY <2>5, Sums
    <3> QED BY <2>4, <2>6, <3>1, <3>2
  <2>7. CASE n # 0
    <3> DEFINE e == a + n
    <3>1. e \in Nat /\ a < e /\ TilesUp(f, S, a, e)
      BY <2>3, <2>4, <2>7
    <3> HIDE DEF e
    <3>2. PICK c \in S : c \in Nat /\ a <= c /\ c < e /\ f[c] = e - c /\ TilesUp(f, S \ {c}, a, c)
      BY <3>1, LastTile
    <3> DEFINE k == c - a
    <3>3. k \in Nat /\ a + k = c /\ ~(n <= k)
      BY <2>3, <3>1, <3>2 DEF e
    <3>4. Q(k)
      <4> HIDE DEF k, Q
      <4> QED BY <2>2, <3>3
    <3>5. TilesUp(f, S \ {c}, a, a + k)
      <4> HIDE DEF k
      <4> QED BY <3>2, <3>3
    <3>6. SumOver(f, S \ {c}) = k
      <4>1. S \ {c} \in SUBSET C
        OBVIOUS
      <4> HIDE DEF k
      <4> QED BY <3>4, <3>5, <4>1
    <3>7. SumOver(f, S) = f[c] + SumOver(f, S \ {c})
      BY <2>5, Sums
    <3>8. f[c] + k = n
      BY <2>3, <3>2 DEF e
    <3> QED BY <2>4, <3>6, <3>7, <3>8
  <2> QED BY <2>6, <2>7
<1>2. Q(b - a)
  <2>1. b - a \in Nat
    OBVIOUS
  <2> HIDE DEF Q
  <2> QED BY <1>1, <2>1
<1>3. a + (b - a) = b /\ C \in SUBSET C
  OBVIOUS
<1> QED BY <1>2, <1>3

=============================================================================

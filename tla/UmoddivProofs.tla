---------------------------- MODULE UmoddivProofs ----------------------------
(***************************************************************************)
(* The division of Umoddiv is exact, for every width of a word, number and *)
(* divisor, and its estimates are too large by two at most.                *)
(*                                                                         *)
(* The call is one step, and the argument is about numbers: half a         *)
(* quotient is exact (no word wraps but in the test for an estimate too    *)
(* large by two), hence a quotient of one word, and the shift that sets    *)
(* the divisor's top bit carries no bit out of the three words.            *)
(***************************************************************************)
EXTENDS Umoddiv, SumTheorems, NaturalsInduction

-----------------------------------------------------------------------------
(***************************************************************************)
(* Powers of two                                                           *)
(***************************************************************************)
\* What the definition of Power says, of the function it defines.
LEMMA PowerStep == Power[0] = 1 /\ \A k \in Nat : Power[k + 1] = 2 * Power[k]
<1>1. \E f : IsPowers(f, 2)
  BY PowersExist
<1>2. IsPowers(Power, 2)
  BY <1>1 DEF Power, IsPowers
<1> QED BY <1>2, PowersStep

LEMMA PowerNat == \A k \in Nat : Power[k] \in Nat \ {0}
<1>1. \E f : IsPowers(f, 2)
  BY PowersExist
<1>2. IsPowers(Power, 2)
  BY <1>1 DEF Power, IsPowers
<1> QED BY <1>2, PowersNat

LEMMA PowerSum ==
    ASSUME NEW a \in Nat, NEW b \in Nat
    PROVE  Power[a + b] = Power[a] * Power[b]
<1> DEFINE T == {k \in Nat : Power[a + k] # Power[a] * Power[k]}
<1>1. SUFFICES ASSUME T # {} PROVE FALSE
  OBVIOUS
<1>2. PICK k \in T : \A j \in T : k <= j
  BY <1>1, LeastMember
<1>3. k # 0
  BY <1>2, PowerStep, PowerNat
<1>4. k - 1 \in Nat /\ ~(k <= k - 1) /\ (k - 1) + 1 = k /\ a + (k - 1) \in Nat
      /\ (a + (k - 1)) + 1 = a + k
  BY <1>2, <1>3
<1>5. Power[a + (k - 1)] = Power[a] * Power[k - 1]
  BY <1>2, <1>4
<1>6. Power[k] = 2 * Power[k - 1] /\ Power[a + k] = 2 * Power[a + (k - 1)]
  <2>1. Power[(k - 1) + 1] = 2 * Power[k - 1]
    BY <1>4, PowerStep
  <2>2. Power[(a + (k - 1)) + 1] = 2 * Power[a + (k - 1)]
    BY <1>4, PowerStep
  <2> QED BY <1>4, <2>1, <2>2
<1>7. Power[a] \in Nat /\ Power[k - 1] \in Nat
  BY <1>4, PowerNat
<1>8. \A x, y \in Nat : 2 * (x * y) = x * (2 * y)
  OBVIOUS
<1>9. 2 * (Power[a] * Power[k - 1]) = Power[a] * (2 * Power[k - 1])
  BY <1>7, <1>8
<1> QED BY <1>2, <1>5, <1>6, <1>9

-----------------------------------------------------------------------------
(***************************************************************************)
(* Words                                                                   *)
(***************************************************************************)
\* The top bit of a half word; a divisor with the top bit of a word set.
TopOfHalf == Power[HalfBits - 1]
Normalized(dd) == dd \in Word \div 2 .. Word - 1

LEMMA WordFacts ==
    /\ TopOfHalf \in Nat \ {0} /\ Half \in Nat \ {0} /\ Word \in Nat \ {0}
    /\ Half = 2 * TopOfHalf /\ Word = Half * Half /\ Word = Power[2 * HalfBits]
    /\ Word = 2 * (TopOfHalf * Half) /\ Word \div 2 = TopOfHalf * Half
    /\ TopOfHalf * Half \in Nat \ {0}
<1>1. HalfBits \in Nat /\ HalfBits - 1 \in Nat /\ (HalfBits - 1) + 1 = HalfBits
  BY HalfBitsAssumption
<1>2. TopOfHalf \in Nat \ {0}
  BY <1>1, PowerNat DEF TopOfHalf
<1>3. Half = 2 * TopOfHalf
  <2>1. Power[(HalfBits - 1) + 1] = 2 * Power[HalfBits - 1]
    BY <1>1, PowerStep
  <2> QED BY <1>1, <2>1 DEF Half, TopOfHalf
<1>4. Half \in Nat \ {0}
  BY <1>2, <1>3
<1>5. Word = Half * Half
  BY DEF Word
<1>6. \A x, y \in Nat \ {0} : x * y \in Nat \ {0}
  OBVIOUS
<1>7. Word \in Nat \ {0} /\ TopOfHalf * Half \in Nat \ {0}
  BY <1>2, <1>4, <1>5, <1>6
<1>8. Word = Power[2 * HalfBits]
  <2>1. Power[HalfBits + HalfBits] = Power[HalfBits] * Power[HalfBits]
    BY <1>1, PowerSum
  <2>2. HalfBits + HalfBits = 2 * HalfBits
    BY <1>1
  <2> QED BY <2>1, <2>2, <1>5 DEF Half
<1>9. Word = 2 * (TopOfHalf * Half)
  <2>1. (2 * TopOfHalf) * Half = 2 * (TopOfHalf * Half)
    BY <1>2, <1>4, Products
  <2> QED BY <1>3, <1>5, <2>1
<1>10. Word \div 2 = TopOfHalf * Half
  <2> DEFINE t == TopOfHalf * Half
  <2>1. t \in Nat /\ Word = 2 * t
    BY <1>7, <1>9
  <2> HIDE DEF t
  <2>2. (t * 2 + 0) \div 2 = t
    BY <2>1, OneQuotient
  <2>3. t * 2 + 0 = 2 * t
    BY <2>1
  <2>4. Word \div 2 = t
    BY <2>1, <2>2, <2>3
  <2> QED BY <2>4 DEF t
<1> QED BY <1>2, <1>3, <1>4, <1>5, <1>7, <1>8, <1>9, <1>10

\* The shift that sets the top bit of a divisor exists.
LEMMA LeadingZerosNormalize ==
    ASSUME NEW x \in 1 .. Word - 1
    PROVE  LeadingZeros(x) \in 0 .. 2 * HalfBits - 1 /\ Normalized(x * Power[LeadingZeros(x)])
<1>1. HalfBits \in Nat \ {0} /\ 2 * HalfBits - 1 \in Nat /\ (2 * HalfBits - 1) + 1 = 2 * HalfBits
  BY HalfBitsAssumption
<1> DEFINE top == 2 * HalfBits - 1
           t == Word \div 2
<1>2. t \in Nat /\ Word = 2 * t /\ x \in Nat /\ x \in 1 .. Word - 1
  BY WordFacts
<1>3. t = Power[top] /\ top \in Nat
  <2>1. Power[top + 1] = 2 * Power[top]
    BY <1>1, PowerStep
  <2>2. Power[top] \in Nat
    BY <1>1, PowerNat
  <2>3. Power[2 * HalfBits] = 2 * Power[top]
    BY <1>1, <2>1
  <2>4. 2 * t = 2 * Power[top]
    <3> HIDE DEF t, top
    <3> QED BY <1>2, <2>3, WordFacts
  <2>5. t = Power[top]
    <3> HIDE DEF t, top
    <3> QED BY <1>2, <2>2, <2>4
  <2> QED BY <1>1, <2>5
<1> HIDE DEF t, top
<1> DEFINE T == {k \in Nat : t <= x * Power[k]}
<1>4. top \in T
  <2>1. 1 * t <= x * t
    BY <1>2, ProductMonotonic
  <2>2. 1 * t = t
    BY <1>2
  <2> QED BY <1>3, <2>1, <2>2
<1>5. PICK k \in T : \A j \in T : k <= j
  BY <1>4, LeastMember
<1>6. k \in Nat /\ k <= top /\ t <= x * Power[k]
  BY <1>4, <1>5
<1>7. x * Power[k] <= Word - 1
  <2>1. CASE k = 0
    <3>1. x * Power[k] = x
      BY <1>2, <2>1, PowerStep
    <3> QED BY <1>2, <3>1
  <2>2. CASE k # 0
    <3>1. k - 1 \in Nat /\ (k - 1) + 1 = k /\ ~(k <= k - 1)
      BY <1>6, <2>2
    <3>2. ~(t <= x * Power[k - 1])
      BY <1>5, <3>1
    <3>3. Power[(k - 1) + 1] = 2 * Power[k - 1]
      BY <3>1, PowerStep
    <3>4. Power[k - 1] \in Nat
      BY <3>1, PowerNat
    <3>5. \A a, b \in Nat : a * b \in Nat /\ a * (2 * b) = 2 * (a * b)
      OBVIOUS
    <3>6. x * Power[k - 1] \in Nat /\ x * (2 * Power[k - 1]) = 2 * (x * Power[k - 1])
      BY <1>2, <3>4, <3>5
    <3>7. x * Power[k] = 2 * (x * Power[k - 1])
      BY <3>1, <3>3, <3>6
    <3> QED BY <1>2, <3>2, <3>6, <3>7
  <2> QED BY <2>1, <2>2
<1>8. x * Power[k] \in t .. Word - 1
  <2>1. x * Power[k] \in Nat
    BY <1>2, <1>6, PowerNat, Product
  <2> QED BY <1>2, <1>6, <1>7, <2>1
<1>9. k \in 0 .. top
  BY <1>3, <1>6
<1>10. \E j \in 0 .. top : x * Power[j] \in t .. Word - 1
  BY <1>8, <1>9
<1> QED BY <1>10 DEF LeadingZeros, Normalized, t, top

-----------------------------------------------------------------------------
(***************************************************************************)
(* Half a quotient                                                         *)
(***************************************************************************)
\* The estimate of half a quotient is the high word's quotient by the
\* divisor's high half; what Tuned makes of it is exact.
HalfIsExact(high, next, dd, half) ==
    /\ half.q \in 0 .. Half - 1 /\ half.r \in 0 .. dd - 1
    /\ high * Half + next = half.q * dd + half.r
    /\ (high \div (dd \div Half)) - half.q \in 0 .. 2 /\ high \div (dd \div Half) \in Int

\* Tuned corrects an estimate by what it is too large: the number is
\* q * dd + rest - m, no word has wrapped, and it is less than Half * dd.
LEMMA TunedIsExact ==
    ASSUME NEW dd, Normalized(dd), NEW q \in Nat, NEW rest \in 0 .. dd - 1, NEW m \in 0 .. Word - 1,
           NEW num \in Nat, num = q * dd + rest - m, num < Half * dd, q < Word
    PROVE  LET half == Tuned(q, rest, m, dd)
           IN  /\ half.q \in 0 .. Half - 1 /\ half.r \in 0 .. dd - 1
               /\ num = half.q * dd + half.r
               /\ q - half.q \in 0 .. 2
<1> DEFINE t == Word \div 2
<1>1. t \in Nat \ {0} /\ Word = 2 * t /\ dd \in t .. Word - 1 /\ dd \in Nat \ {0} /\ Half \in Nat
  BY WordFacts DEF Normalized
<1> HIDE DEF t
<1>2. ASSUME NEW k \in 0 .. 2, rest + k * dd - m \in 0 .. dd - 1
      PROVE  /\ (q - k) % Word \in 0 .. Half - 1
             /\ (rest + k * dd - m) % Word \in 0 .. dd - 1
             /\ num = ((q - k) % Word) * dd + ((rest + k * dd - m) % Word)
             /\ q - ((q - k) % Word) \in 0 .. 2
  <2> DEFINE s == rest + k * dd - m
             p == q - k
  <2>1. s \in 0 .. dd - 1 /\ s \in Nat /\ s < Word
    BY <1>1, <1>2
  <2>2. p * dd = q * dd - k * dd
    BY <1>1, Products
  <2>3. num = p * dd + s
    <3>1. q * dd \in Int /\ k * dd \in Int
      BY <1>1, Products
    <3> QED BY <1>1, <2>2, <3>1
  <2>4. p \in Int /\ p < Word /\ q - p \in 0 .. 2
    BY <1>1
  <2> HIDE DEF s, p
  <2>5. p \in Nat
    <3>1. p * dd \in Int
      BY <1>1, <2>4, Products
    <3>2. 0 - dd < p * dd
      BY <1>1, <2>1, <2>3, <3>1
    <3>3. (-1) * dd = 0 - dd
      BY <1>1
    <3>4. -1 < p
      BY <1>1, <2>4, <3>2, <3>3, OneProduct
    <3> QED BY <2>4, <3>4
  <2>6. p < Half
    <3>1. p * dd \in Int /\ Half * dd \in Int
      BY <1>1, <2>4, Products
    <3>2. p * dd < Half * dd
      BY <2>1, <2>3, <3>1
    <3> QED BY <1>1, <2>4, <3>2, OneProduct
  <2>7. s % Word = s /\ p % Word = p
    <3>1. s \in 0 .. Word - 1 /\ p \in 0 .. Word - 1 /\ Word \in Nat
      BY <1>1, <2>1, <2>4, <2>5
    <3> QED BY <3>1, SmallRest
  <2>8. /\ p % Word \in 0 .. Half - 1 /\ s % Word \in 0 .. dd - 1
        /\ num = (p % Word) * dd + (s % Word)
        /\ q - (p % Word) \in 0 .. 2
    BY <1>1, <2>1, <2>3, <2>4, <2>5, <2>6, <2>7
  <2> QED BY <2>8 DEF s, p
<1>3. CASE rest >= m
  <2>1. rest + 0 * dd - m \in 0 .. dd - 1
    BY <1>1, <1>3
  <2>2. Tuned(q, rest, m, dd) = [q |-> (q - 0) % Word, r |-> (rest + 0 * dd - m) % Word]
    BY <1>3 DEF Tuned
  <2> QED BY <1>2, <2>1, <2>2
<1>4. CASE rest < m /\ rest + dd >= m
  <2>1. rest + 1 * dd - m \in 0 .. dd - 1
    BY <1>1, <1>4
  <2>2. ~TooLargeTwice(rest, m, dd)
    <3>1. CASE rest + dd < Word
      <4>1. rest + dd \in 0 .. Word - 1
        BY <1>1, <3>1
      <4>2. (rest + dd) % Word = rest + dd
        BY <1>1, <4>1, SmallRest
      <4> QED BY <1>1, <1>4, <4>2 DEF TooLargeTwice
    <3>2. CASE rest + dd >= Word
      <4>1. rest + dd - Word \in 0 .. Word - 1 /\ rest + dd - Word < dd
        BY <1>1, <3>2
      <4>2. (1 * Word + (rest + dd - Word)) % Word = rest + dd - Word
        <5> DEFINE s == rest + dd - Word
        <5>1. s \in 0 .. Word - 1 /\ Word \in Nat \ {0} /\ 1 \in Int
          BY <1>1, <4>1
        <5> HIDE DEF s
        <5>2. (1 * Word + s) % Word = s
          BY <5>1, OneQuotient
        <5> QED BY <5>2 DEF s
      <4>3. 1 * Word + (rest + dd - Word) = rest + dd
        BY <1>1
      <4> QED BY <1>1, <4>1, <4>2, <4>3 DEF TooLargeTwice
    <3> QED BY <1>1, <3>1, <3>2
  <2>3. ~(rest >= m)
    BY <1>1, <1>4
  <2>4. Tuned(q, rest, m, dd) = [q |-> (q - 1) % Word, r |-> (rest + 1 * dd - m) % Word]
    BY <1>4, <2>2, <2>3 DEF Tuned
  <2> QED BY <1>2, <2>1, <2>4
<1>5. CASE rest + dd < m
  <2>1. rest + 2 * dd - m \in 0 .. dd - 1
    BY <1>1, <1>5
  <2>2. TooLargeTwice(rest, m, dd)
    <3>1. rest + dd \in 0 .. Word - 1
      BY <1>1, <1>5
    <3>2. (rest + dd) % Word = rest + dd
      BY <1>1, <3>1, SmallRest
    <3> QED BY <1>1, <1>5, <3>2 DEF TooLargeTwice
  <2>3. ~(rest >= m)
    BY <1>1, <1>5
  <2>4. Tuned(q, rest, m, dd) = [q |-> (q - 2) % Word, r |-> (rest + 2 * dd - m) % Word]
    BY <2>2, <2>3 DEF Tuned
  <2> QED BY <1>2, <2>1, <2>4
<1> QED BY <1>1, <1>3, <1>4, <1>5

\* Half a quotient, of a high word less than the divisor, is exact, and no word
\* has wrapped: the quotient by the divisor's high half is Half + 1 at most.
LEMMA HalfQuotientIsExact ==
    ASSUME NEW dd, Normalized(dd), NEW high \in 0 .. dd - 1, NEW next \in 0 .. Half - 1
    PROVE  HalfIsExact(high, next, dd, HalfQuotient(high, next, dd))
<1> DEFINE d1 == dd \div Half
           d0 == dd % Half
           q == high \div d1
           s == high - q * d1
<1>1. /\ TopOfHalf \in Nat \ {0} /\ Half \in Nat \ {0} /\ Half = 2 * TopOfHalf
      /\ Word \in Nat \ {0} /\ Word = Half * Half /\ dd \in Nat \ {0} /\ dd < Word
      /\ TopOfHalf * Half <= dd /\ Word = 2 * (TopOfHalf * Half) /\ TopOfHalf * Half \in Nat
  BY WordFacts DEF Normalized
<1>2. d1 \in Nat /\ d0 \in 0 .. Half - 1 /\ dd = d1 * Half + d0
  BY <1>1, Division
<1> HIDE DEF d1, d0
<1>3. TopOfHalf <= d1 /\ d1 \in Nat \ {0}
  <2>1. (d1 + 1) * Half = d1 * Half + Half
    BY <1>1, <1>2, Products
  <2>2. TopOfHalf * Half < (d1 + 1) * Half
    BY <1>1, <1>2, <2>1, Products
  <2>3. TopOfHalf < d1 + 1
    BY <1>1, <1>2, <2>2, OneProduct
  <2> QED BY <1>1, <1>2, <2>3
<1>4. high \in Nat /\ q \in Nat /\ s \in 0 .. d1 - 1 /\ high = q * d1 + s
  <2> DEFINE a == high % d1
  <2>1. high \in Nat
    BY <1>1
  <2>2. q \in Nat /\ a \in 0 .. d1 - 1 /\ high = q * d1 + a
    BY <1>3, <2>1, Division
  <2> HIDE DEF q, a
  <2>3. q * d1 \in Nat
    BY <1>3, <2>2, Product
  <2>4. s = a
    BY <1>3, <2>2, <2>3
  <2> QED BY <2>1, <2>2, <2>4
<1> HIDE DEF q
<1>5. s = high - q * d1
  OBVIOUS
<1> HIDE DEF s
<1> DEFINE rest == s * Half + next
           m == q * d0
<1>6. d1 * Half \in Nat /\ d1 * Half <= dd /\ s * Half \in Nat /\ q * d1 \in Nat
  BY <1>1, <1>2, <1>3, <1>4, Product
<1>7. rest \in 0 .. dd - 1
  <2>1. s + 1 <= d1 /\ s \in Nat
    BY <1>3, <1>4
  <2>2. (s + 1) * Half <= d1 * Half
    BY <1>1, <1>2, <2>1, ProductMonotonic
  <2>3. (s + 1) * Half = s * Half + Half
    BY <1>1, <2>1, Products
  <2> QED BY <1>1, <1>6, <2>2, <2>3
<1>8. q <= Half + 1
  <2>1. SUFFICES ASSUME Half + 2 <= q PROVE FALSE
    BY <1>1, <1>4
  <2>2. (Half + 2) * d1 <= q * d1
    BY <1>1, <1>3, <1>4, <2>1, ProductMonotonic
  <2>3. (Half + 2) * d1 = Half * d1 + 2 * d1
    BY <1>1, <1>3, Products
  <2>4. Half * d1 = d1 * Half
    BY <1>1, <1>3, Products
  <2>5. high < d1 * Half + Half
    BY <1>1, <1>2, <1>4, <1>6
  <2>6. Half <= 2 * d1
    BY <1>1, <1>3
  <2> QED BY <1>1, <1>3, <1>4, <1>6, <2>2, <2>3, <2>4, <2>5, <2>6
<1>9. m \in 0 .. Word - 1 /\ m \in Nat
  <2>1. d0 \in Nat /\ d0 <= Half - 1 /\ Half - 1 \in Nat /\ Half + 1 \in Nat
    BY <1>1, <1>2
  <2>2. m \in Nat
    BY <1>4, <2>1, Product
  <2>3. q * d0 <= (Half + 1) * d0 /\ (Half + 1) * d0 <= (Half + 1) * (Half - 1)
    BY <1>4, <1>8, <2>1, ProductMonotonic
  <2>4. (Half + 1) * (Half - 1) = Word - 1
    <3>1. (Half + 1) * (Half - 1) = Half * (Half - 1) + 1 * (Half - 1)
      BY <1>1, Products
    <3>2. Half * (Half - 1) = Half * Half - Half * 1
      BY <1>1, Products
    <3>3. Half * 1 = Half /\ 1 * (Half - 1) = Half - 1
      BY <1>1, <2>1, Products
    <3> QED BY <1>1, <3>1, <3>2, <3>3
  <2>5. (Half + 1) * d0 \in Nat
    BY <2>1, Product
  <2> QED BY <1>1, <2>2, <2>3, <2>4, <2>5
<1>10. q < Word
  <2>1. CASE TopOfHalf = 1
    <3>1. Half = 2 /\ Word = 4
      BY <1>1, <2>1
    <3> QED BY <1>4, <1>8, <3>1
  <2>2. CASE TopOfHalf # 1
    <3>1. 4 <= Half
      BY <1>1, <2>2
    <3>2. 2 * Half <= Half * Half
      BY <1>1, <3>1, ProductMonotonic
    <3> QED BY <1>1, <1>4, <1>8, <3>1, <3>2
  <2> QED BY <2>1, <2>2
<1>11. high * Half + next = q * dd + rest - m
  <2>1. high * Half = (q * d1) * Half + s * Half
    <3>1. q * d1 \in Int /\ s \in Int /\ Half \in Int
      BY <1>1, <1>4, <1>6
    <3> QED BY <1>4, <3>1, Products
  <2>2. (q * d1) * Half = q * (d1 * Half)
    BY <1>1, <1>3, <1>4, Products
  <2>3. q * dd = q * (d1 * Half) + q * d0
    <3>1. q \in Int /\ d1 * Half \in Int /\ d0 \in Int
      BY <1>2, <1>4, <1>6
    <3> QED BY <1>2, <3>1, Products
  <2>4. q * (d1 * Half) \in Nat
    BY <1>4, <1>6, Product
  <2> QED BY <1>6, <1>9, <2>1, <2>2, <2>3, <2>4
<1>12. high * Half + next \in Nat /\ high * Half + next < Half * dd
  <2>1. high * Half \in Nat /\ dd * Half \in Nat
    BY <1>1, <1>4, Product
  <2>2. (high + 1) * Half <= dd * Half
    BY <1>1, <1>4, ProductMonotonic
  <2>3. (high + 1) * Half = high * Half + Half
    BY <1>1, <1>4, Products
  <2>4. dd * Half = Half * dd
    BY <1>1, Products
  <2> QED BY <1>1, <2>1, <2>2, <2>3, <2>4
<1>13. HalfQuotient(high, next, dd) = Tuned(q, rest, m, dd)
  <2>1. ((high - q * d1) * Half) % Word = s * Half
    <3>1. s * Half \in 0 .. Word - 1
      BY <1>1, <1>6, <1>7
    <3>2. (s * Half) % Word = s * Half
      <4> DEFINE x == s * Half
      <4>1. x \in 0 .. Word - 1 /\ Word \in Nat
        BY <1>1, <3>1
      <4> HIDE DEF x
      <4>2. x % Word = x
        BY <4>1, SmallRest
      <4> QED BY <4>2 DEF x
    <3> QED BY <1>5, <3>2
  <2>2. (q * d0) % Word = m
    <3> HIDE DEF m
    <3>1. m % Word = m
      BY <1>1, <1>9, SmallRest
    <3> QED BY <3>1 DEF m
  <2> QED BY <2>1, <2>2 DEF HalfQuotient, q, d1, d0
<1> DEFINE num == high * Half + next
<1>14. num = q * dd + rest - m /\ num \in Nat /\ num < Half * dd
  BY <1>11, <1>12
<1> HIDE DEF num, rest, m
<1>15. LET half == Tuned(q, rest, m, dd)
       IN  /\ half.q \in 0 .. Half - 1 /\ half.r \in 0 .. dd - 1
           /\ num = half.q * dd + half.r
           /\ q - half.q \in 0 .. 2
  BY <1>4, <1>7, <1>9, <1>10, <1>14, TunedIsExact
<1>16. high \div (dd \div Half) \in Int
  BY <1>4 DEF q, d1
<1> QED BY <1>13, <1>15, <1>16 DEF HalfIsExact, num, q, d1

-----------------------------------------------------------------------------
(***************************************************************************)
(* A quotient of one word, and the shift                                   *)
(***************************************************************************)
\* Estimates of the two halves of a word.
Near(estimate, q) ==
    \E e1, e0 \in Int :
        /\ estimate = <<e1, e0>>
        /\ e1 - (q \div Half) \in 0 .. 2 /\ e0 - (q % Half) \in 0 .. 2

LEMMA FourEstimates ==
    ASSUME NEW top, NEW low, NEW x, NEW y, Near(top, x), Near(low, y)
    PROVE  /\ (top \o low)[1] - (x \div Half) \in 0 .. 2 /\ (top \o low)[2] - (x % Half) \in 0 .. 2
           /\ (top \o low)[3] - (y \div Half) \in 0 .. 2 /\ (top \o low)[4] - (y % Half) \in 0 .. 2
<1>1. PICK a, b \in Int : /\ top = <<a, b>>
                         /\ a - (x \div Half) \in 0 .. 2 /\ b - (x % Half) \in 0 .. 2
  BY DEF Near
<1>2. PICK c, e \in Int : /\ low = <<c, e>>
                         /\ c - (y \div Half) \in 0 .. 2 /\ e - (y % Half) \in 0 .. 2
  BY DEF Near
<1>3. /\ (<<a, b>> \o <<c, e>>)[1] = a /\ (<<a, b>> \o <<c, e>>)[2] = b
      /\ (<<a, b>> \o <<c, e>>)[3] = c /\ (<<a, b>> \o <<c, e>>)[4] = e
  OBVIOUS
<1> QED BY <1>1, <1>2, <1>3

\* What is known of a high word needs no correction.
LEMMA KnownIsNear ==
    ASSUME NEW q \in Nat
    PROVE  Near(<<q \div Half, q % Half>>, q)
<1>1. q \div Half \in Int /\ q % Half \in Int
  BY WordFacts, Division
<1> QED BY <1>1 DEF Near

WordIsExact(hi, lo, dd, low) ==
    /\ low.q \in 0 .. Word - 1 /\ low.r \in 0 .. dd - 1
    /\ hi * Word + lo = low.q * dd + low.r
    /\ Near(low.estimates, low.q)

\* Two exact halves are an exact word.
LEMMA AdjustedIsExact ==
    ASSUME NEW dd, Normalized(dd), NEW hi \in 0 .. dd - 1, NEW lo \in 0 .. Word - 1
    PROVE  WordIsExact(hi, lo, dd, udiv_adjusted(hi, lo, dd))
<1>1. /\ Half \in Nat \ {0} /\ Word \in Nat \ {0} /\ Word = Half * Half
      /\ dd \in Nat \ {0} /\ lo \in Nat /\ hi \in Nat /\ lo < Half * Half
  BY WordFacts DEF Normalized
<1> DEFINE l1 == lo \div Half
           l0 == lo % Half
<1>2. l1 \in 0 .. Half - 1 /\ l0 \in 0 .. Half - 1 /\ lo = l1 * Half + l0
  <2>1. l1 \in Nat /\ l0 \in 0 .. Half - 1 /\ lo = l1 * Half + l0
    BY <1>1, Division
  <2> HIDE DEF l1, l0
  <2>2. l1 * Half < Half * Half
    <3>1. l1 * Half \in Nat
      BY <1>1, <2>1, Product
    <3> QED BY <1>1, <2>1, <3>1
  <2>3. l1 < Half
    BY <1>1, <2>1, <2>2, OneProduct
  <2> QED BY <1>1, <2>1, <2>3
<1> HIDE DEF l1, l0
<1> DEFINE first == HalfQuotient(hi, l1, dd)
           q1 == first.q
           r1 == first.r
           second == HalfQuotient(r1, l0, dd)
           q0 == second.q
           r0 == second.r
           e1 == hi \div (dd \div Half)
           e0 == r1 \div (dd \div Half)
<1>3. /\ q1 \in 0 .. Half - 1 /\ r1 \in 0 .. dd - 1 /\ hi * Half + l1 = q1 * dd + r1
      /\ e1 - q1 \in 0 .. 2 /\ e1 \in Int
  BY <1>2, HalfQuotientIsExact DEF HalfIsExact
<1> HIDE DEF first, q1, r1
<1>4. /\ q0 \in 0 .. Half - 1 /\ r0 \in 0 .. dd - 1 /\ r1 * Half + l0 = q0 * dd + r0
      /\ e0 - q0 \in 0 .. 2 /\ e0 \in Int
  BY <1>2, <1>3, HalfQuotientIsExact DEF HalfIsExact
<1> HIDE DEF second, q0, r0, e1, e0
<1> DEFINE q == q1 * Half + q0
<1>5. q \in 0 .. Word - 1
  <2>1. q1 + 1 \in Nat /\ q1 \in Nat /\ q1 + 1 <= Half
    BY <1>1, <1>3
  <2>2. (q1 + 1) * Half <= Half * Half
    BY <1>1, <2>1, ProductMonotonic
  <2>3. (q1 + 1) * Half = q1 * Half + Half
    BY <1>1, <2>1, Products
  <2>4. q1 * Half \in Nat
    BY <1>1, <2>1, Product
  <2> QED BY <1>1, <1>4, <2>2, <2>3, <2>4
<1>6. q \div Half = q1 /\ q % Half = q0
  <2>1. q1 \in Int /\ Half \in Nat \ {0} /\ q0 \in 0 .. Half - 1
    BY <1>1, <1>3, <1>4
  <2> QED BY <2>1, OneQuotient
<1>7. hi * Word + lo = q * dd + r0
  <2>1. hi * Word = (hi * Half) * Half
    BY <1>1, Products
  <2>2. (hi * Half) * Half + l1 * Half = (hi * Half + l1) * Half
    <3>1. hi * Half \in Int /\ l1 \in Int
      BY <1>1, <1>2, Products
    <3> QED BY <1>1, <3>1, Products
  <2>3. (q1 * dd + r1) * Half = (q1 * dd) * Half + r1 * Half
    <3>1. q1 * dd \in Int /\ r1 \in Int
      BY <1>1, <1>3, Products
    <3> QED BY <1>1, <3>1, Products
  <2>4. (q1 * dd) * Half = (q1 * Half) * dd
    <3>1. q1 \in Int /\ dd \in Int /\ Half \in Int
      BY <1>1, <1>3
    <3>2. (q1 * dd) * Half = q1 * (dd * Half) /\ dd * Half = Half * dd /\ q1 * (Half * dd) = (q1 * Half) * dd
      BY <3>1, Products
    <3> QED BY <3>2
  <2>5. q * dd = (q1 * Half) * dd + q0 * dd
    <3>1. q1 * Half \in Int /\ q0 \in Int /\ dd \in Int
      BY <1>1, <1>3, <1>4, Products
    <3> QED BY <3>1, Products
  <2>6. (hi * Half) * Half \in Int /\ l1 * Half \in Int /\ r1 * Half \in Int
        /\ (q1 * Half) * dd \in Int /\ q0 * dd \in Int
    <3>1. hi * Half \in Int /\ q1 * Half \in Int /\ r1 \in Int /\ l1 \in Int /\ q0 \in Int
      BY <1>1, <1>2, <1>3, <1>4, Products
    <3> QED BY <1>1, <3>1, Products
  <2> QED BY <1>1, <1>2, <1>3, <1>4, <2>1, <2>2, <2>3, <2>4, <2>5, <2>6
<1>8. udiv_adjusted(hi, lo, dd) = [q |-> q, r |-> r0, estimates |-> <<e1, e0>>]
  <2> HIDE DEF q
  <2>1. q % Word = q
    BY <1>1, <1>5, SmallRest
  <2> QED BY <2>1 DEF udiv_adjusted, first, second, q, q1, q0, r1, r0, l1, l0, e1, e0
<1> HIDE DEF q
<1>9. Near(<<e1, e0>>, q)
  BY <1>3, <1>4, <1>6 DEF Near
<1> QED BY <1>3, <1>4, <1>5, <1>6, <1>7, <1>8, <1>9 DEF WordIsExact

\* A double word shifted left by less than a word is three words: the bits that
\* leave a word enter the next one, and none is lost.
LEMMA ShiftIsExact ==
    ASSUME NEW hi \in 0 .. Word - 1, NEW lo \in 0 .. Word - 1,
           NEW p \in Nat \ {0}, NEW p_ \in Nat \ {0}, p * p_ = Word
    PROVE  LET top  == hi \div p_
               high == ((hi * p) % Word) + (lo \div p_)
               low  == (lo * p) % Word
           IN  /\ top \in 0 .. p - 1 /\ high \in 0 .. Word - 1 /\ low \in 0 .. Word - 1
               /\ (hi * Word + lo) * p = (top * Word + high) * Word + low
               /\ hi * p = top * Word + (high - (lo \div p_)) /\ lo \div p_ \in 0 .. p - 1
               /\ high - (lo \div p_) \in Nat
<1>1. Word \in Nat \ {0} /\ hi \in Nat /\ lo \in Nat
  BY WordFacts
<1>2. ASSUME NEW w \in 0 .. Word - 1
      PROVE  /\ w \div p_ \in 0 .. p - 1 /\ w % p_ \in 0 .. p_ - 1
             /\ w * p = (w \div p_) * Word + (w % p_) * p
             /\ (w * p) % Word = (w % p_) * p
             /\ (w % p_) * p \in Nat /\ (w % p_) * p + p <= Word
  <2> DEFINE a == w \div p_
             b == w % p_
  <2>1. a \in Nat /\ b \in 0 .. p_ - 1 /\ w = a * p_ + b
    <3>1. w \in Nat
      BY <1>1
    <3> QED BY <3>1, Division
  <2> HIDE DEF a, b
  <2>2. a * p_ \in Nat /\ b * p \in Nat /\ b \in Nat
    BY <2>1, Product
  <2>3. a < p
    <3>1. a * p_ < p * p_
      BY <1>1, <2>1, <2>2
    <3> QED BY <2>1, <3>1, OneProduct
  <2>4. b * p + p <= Word
    <3>1. (b + 1) * p <= p_ * p
      BY <2>1, ProductMonotonic
    <3>2. (b + 1) * p = b * p + p /\ p_ * p = Word
      BY <2>2, Products
    <3> QED BY <3>1, <3>2
  <2>5. w * p = a * Word + b * p
    <3>1. w * p = (a * p_) * p + b * p
      BY <2>1, <2>2, Products
    <3>2. (a * p_) * p = a * (p_ * p) /\ p_ * p = Word
      BY <2>1, Products
    <3> QED BY <3>1, <3>2
  <2>6. (w * p) % Word = b * p
    <3> DEFINE s == b * p
    <3>1. s \in 0 .. Word - 1
      BY <1>1, <2>2, <2>4
    <3>2. w * p = a * Word + s
      BY <2>5
    <3> HIDE DEF s
    <3>3. (a * Word + s) % Word = s
      BY <1>1, <2>1, <3>1, OneQuotient
    <3>4. (w * p) % Word = s
      BY <3>2, <3>3
    <3> QED BY <3>4 DEF s
  <2>7. a \in 0 .. p - 1
    BY <2>1, <2>3
  <2> QED BY <2>1, <2>2, <2>4, <2>5, <2>6, <2>7 DEF a, b
<1> DEFINE h1 == hi \div p_
           h0 == (hi % p_) * p
           l1 == lo \div p_
           l0 == (lo % p_) * p
<1>3. /\ h1 \in 0 .. p - 1 /\ hi * p = h1 * Word + h0 /\ (hi * p) % Word = h0
      /\ h0 \in Nat /\ h0 + p <= Word
  BY <1>2
<1>4. /\ l1 \in 0 .. p - 1 /\ lo * p = l1 * Word + l0 /\ (lo * p) % Word = l0
      /\ l0 \in Nat /\ l0 + p <= Word
  BY <1>2
<1> HIDE DEF h1, h0, l1, l0
<1>5. h0 + l1 \in 0 .. Word - 1 /\ l0 \in 0 .. Word - 1
  BY <1>1, <1>3, <1>4
<1>6. (hi * Word + lo) * p = (h1 * Word + (h0 + l1)) * Word + l0
  <2>1. (hi * Word + lo) * p = (hi * Word) * p + lo * p
    <3>1. hi * Word \in Int
      BY <1>1, Products
    <3> QED BY <1>1, <3>1, Products
  <2>2. (hi * Word) * p = (hi * p) * Word
    <3>1. (hi * Word) * p = hi * (Word * p) /\ Word * p = p * Word /\ hi * (p * Word) = (hi * p) * Word
      BY <1>1, Products
    <3> QED BY <3>1
  <2>3. h1 * Word \in Int /\ h0 \in Int /\ l1 \in Int
    BY <1>1, <1>3, <1>4, Products
  <2>4. (h1 * Word + h0) * Word + l1 * Word = ((h1 * Word + h0) + l1) * Word
    BY <1>1, <2>3, Products
  <2>5. (h1 * Word + h0) + l1 = h1 * Word + (h0 + l1)
    BY <2>3
  <2>6. (h1 * Word + h0) * Word \in Int /\ l1 * Word \in Int
    BY <1>1, <2>3, Products
  <2> QED BY <1>3, <1>4, <2>1, <2>2, <2>4, <2>5, <2>6
<1>7. (h0 + l1) - l1 = h0
  BY <1>3, <1>4
<1> QED BY <1>3, <1>4, <1>5, <1>6, <1>7 DEF h1, l1

\* Quotient and rest of a division whose operands were both shifted left.
Shifted(num, y, p, q, rest) ==
    /\ num \in Nat /\ y \in Nat \ {0} /\ p \in Nat \ {0} /\ q \in Int
    /\ rest \in 0 .. y * p - 1 /\ num * p = q * (y * p) + rest

\* What is shifted left with the divisor has the same quotient, and a rest that
\* is shifted left.
LEMMA ShiftedBack ==
    ASSUME NEW num, NEW y, NEW p, NEW q, NEW rest, Shifted(num, y, p, q, rest)
    PROVE  num \div y = q /\ num % y = rest \div p
<1> USE DEF Shifted
<1> DEFINE x == num - q * y
<1>1. x \in Int /\ num = q * y + x
  <2>1. q * y \in Int
    BY Products
  <2> QED BY <2>1
<1>2. rest = x * p
  <2>1. q * y \in Int /\ num \in Int
    BY Products
  <2>2. (num - q * y) * p = num * p - (q * y) * p
    BY <2>1, Products
  <2>3. (q * y) * p = q * (y * p)
    BY Products
  <2>4. (q * y) * p \in Int /\ num * p \in Int /\ rest \in Int
    BY <2>1, Products
  <2> QED BY <2>2, <2>3, <2>4
<1> HIDE DEF x
<1>3. x \in 0 .. y - 1
  <2>1. x * p \in Int /\ y * p \in Int /\ 0 <= x * p /\ x * p < y * p
    BY <1>1, <1>2, Products
  <2>2. (-1) * p < x * p
    BY <2>1
  <2>3. -1 < x
    BY <1>1, <2>2, OneProduct
  <2>4. x < y
    BY <1>1, <2>1, OneProduct
  <2> QED BY <1>1, <2>3, <2>4
<1>4. num \div y = q /\ num % y = x
  BY <1>1, <1>3, OneQuotient
<1>5. rest \div p = x
  <2>1. 0 \in 0 .. p - 1 /\ x \in Int
    BY <1>1
  <2>2. (x * p + 0) \div p = x
    BY <2>1, OneQuotient
  <2>3. x * p + 0 = rest
    BY <1>1, <1>2
  <2> QED BY <2>2, <2>3
<1> QED BY <1>4, <1>5

-----------------------------------------------------------------------------
(***************************************************************************)
(* The call                                                                *)
(***************************************************************************)
IInv ==
    /\ number \in 0 .. Word * Word - 1 /\ divisor \in 1 .. Word - 1
    /\ ~done => n = number
    /\ Divides
    /\ EstimatesClose

LEMMA InitialInvariant == UmoddivInit => IInv
BY DEF UmoddivInit, IInv, Divides, EstimatesClose

\* The words of the number as the function reads them.
LEMMA NumberFacts ==
    ASSUME IInv, ~done
    PROVE  /\ Word \in Nat \ {0} /\ divisor \in Nat \ {0} /\ divisor \in 1 .. Word - 1
           /\ number \in Nat /\ n = number
           /\ High \in 0 .. Word - 1 /\ Low \in 0 .. Word - 1 /\ number = High * Word + Low
<1>1. Word \in Nat \ {0} /\ divisor \in Nat \ {0} /\ divisor \in 1 .. Word - 1 /\ n = number
  BY WordFacts DEF IInv
<1>2. number \in Nat /\ number < Word * Word
  <2>1. Word * Word \in Nat
    BY <1>1, Product
  <2> QED BY <2>1 DEF IInv
<1>3. High \in Nat /\ Low \in 0 .. Word - 1 /\ number = High * Word + Low
  BY <1>1, <1>2, Division DEF High, Low
<1>4. High < Word
  <2>1. High * Word \in Nat
    BY <1>1, <1>3, Product
  <2>2. High * Word < Word * Word
    BY <1>1, <1>2, <1>3, <2>1
  <2> QED BY <1>1, <1>3, <2>2, OneProduct
<1> QED BY <1>1, <1>2, <1>3, <1>4

\* The last step of a wide division, from what the words before it stand for.
LEMMA DivideWideIsExact ==
    ASSUME IInv, ~done, NEW k \in Nat, Normalized(divisor * Power[k]), NEW top,
           top.r \in 0 .. divisor * Power[k] - 1, NEW lo \in 0 .. Word - 1,
           top.q \in 0 .. Word - 1, Near(top.estimates, top.q),
           number * Power[k] = (top.q * (divisor * Power[k]) + top.r) * Word + lo,
           DivideWide(top, lo, k)
    PROVE  IInv'
<1> DEFINE p == Power[k]
           dd == divisor * p
           hi == top.r
           topq == top.q
           low == udiv_adjusted(hi, lo, dd)
           q == topq * Word + low.q
<1>1. /\ Word \in Nat \ {0} /\ divisor \in Nat \ {0} /\ number \in Nat /\ p \in Nat \ {0}
      /\ dd \in Nat /\ hi \in Int /\ lo \in Int /\ topq \in 0 .. Word - 1 /\ topq \in Nat
  BY NumberFacts, PowerNat, Product
<1>2. WordIsExact(hi, lo, dd, low)
  BY AdjustedIsExact
<1>3. /\ n' = q /\ r' = low.r \div p /\ estimates' = top.estimates \o low.estimates
      /\ done' /\ number' = number /\ divisor' = divisor
  BY DEF DivideWide, Return
<1>4. number * p = (topq * dd + hi) * Word + lo
  OBVIOUS
<1>14. Near(top.estimates, topq)
  OBVIOUS
<1> HIDE DEF p, dd, low, hi, topq
<1>5. /\ low.q \in 0 .. Word - 1 /\ low.r \in 0 .. dd - 1 /\ hi * Word + lo = low.q * dd + low.r
      /\ Near(low.estimates, low.q)
  BY <1>2 DEF WordIsExact
<1>6. number * p = q * dd + low.r
  <2>1. low.q \in Int /\ low.r \in Int /\ topq * dd \in Int /\ topq * Word \in Int
    BY <1>1, <1>5, Products
  <2>2. (topq * dd + hi) * Word = (topq * dd) * Word + hi * Word
    BY <1>1, <2>1, Products
  <2>3. (topq * dd) * Word = (topq * Word) * dd
    <3>1. (topq * dd) * Word = topq * (dd * Word) /\ dd * Word = Word * dd
          /\ topq * (Word * dd) = (topq * Word) * dd
      BY <1>1, Products
    <3> QED BY <3>1
  <2>4. q * dd = (topq * Word) * dd + low.q * dd
    BY <1>1, <2>1, Products
  <2>5. (topq * Word) * dd \in Int /\ hi * Word \in Int /\ low.q * dd \in Int
    BY <1>1, <2>1, Products
  <2> QED BY <1>1, <1>4, <1>5, <2>1, <2>2, <2>3, <2>4, <2>5
<1>7. q \in Int
  BY <1>1, <1>5, Products
<1>8. q % Word = low.q /\ q \div Word = topq
  <2> DEFINE s == low.q
  <2>1. topq \in Int /\ Word \in Nat \ {0} /\ s \in 0 .. Word - 1
    BY <1>1, <1>5
  <2> HIDE DEF s
  <2>2. (topq * Word + s) % Word = s /\ (topq * Word + s) \div Word = topq
    BY <2>1, OneQuotient
  <2> QED BY <2>2 DEF s
<1>9. q % Half = low.q % Half
  <2> DEFINE a == low.q \div Half
             b == low.q % Half
  <2>1. Half \in Nat \ {0} /\ Word = Half * Half /\ low.q \in Nat /\ topq \in Int
    BY <1>1, <1>5, WordFacts
  <2>2. a \in Nat /\ b \in 0 .. Half - 1 /\ low.q = a * Half + b
    BY <2>1, Division
  <2> HIDE DEF a, b
  <2>3. q = (topq * Half + a) * Half + b
    <3>1. topq * Word = (topq * Half) * Half
      BY <2>1, Products
    <3>2. topq * Half \in Int /\ a \in Int
      BY <2>1, <2>2, Products
    <3>3. (topq * Half + a) * Half = (topq * Half) * Half + a * Half
      BY <2>1, <3>2, Products
    <3>4. (topq * Half) * Half \in Int /\ a * Half \in Int
      BY <2>1, <3>2, Products
    <3> QED BY <2>2, <3>1, <3>3, <3>4
  <2>4. topq * Half + a \in Int
    BY <2>1, <2>2, Products
  <2> DEFINE c == topq * Half + a
  <2> HIDE DEF c
  <2>5. (c * Half + b) % Half = b
    <3>1. c \in Int
      BY <2>4 DEF c
    <3> QED BY <2>1, <2>2, <3>1, OneQuotient
  <2> QED BY <2>3, <2>5 DEF b, c
<1> HIDE DEF q
<1>10. number \div divisor = q /\ number % divisor = low.r \div p
  <2> DEFINE rest == low.r
  <2>1. number * p = q * (divisor * p) + rest /\ rest \in 0 .. divisor * p - 1
    BY <1>5, <1>6 DEF dd
  <2>2. number \in Nat /\ divisor \in Nat \ {0} /\ p \in Nat \ {0} /\ q \in Int
    BY <1>1, <1>7
  <2> HIDE DEF rest
  <2>3. Shifted(number, divisor, p, q, rest)
    BY <2>1, <2>2 DEF Shifted
  <2>4. number \div divisor = q /\ number % divisor = rest \div p
    BY <2>3, ShiftedBack
  <2> QED BY <2>4 DEF rest
<1>11. Divides'
  BY <1>3, <1>10 DEF Divides
<1>12. EstimatesClose'
  <2>1. /\ estimates'[1] - (topq \div Half) \in 0 .. 2
        /\ estimates'[2] - (topq % Half) \in 0 .. 2
        /\ estimates'[3] - (low.q \div Half) \in 0 .. 2
        /\ estimates'[4] - (low.q % Half) \in 0 .. 2
    BY <1>3, <1>5, <1>14, FourEstimates
  <2>2. n' \div Word = topq /\ n' % Word = low.q /\ n' % Half = low.q % Half
    BY <1>3, <1>8, <1>9
  <2>3. /\ estimates'[1] - ((n' \div Word) \div Half) \in 0 .. 2
        /\ estimates'[2] - ((n' \div Word) % Half) \in 0 .. 2
        /\ estimates'[3] - ((n' % Word) \div Half) \in 0 .. 2
        /\ estimates'[4] - (n' % Half) \in 0 .. 2
    BY <2>1, <2>2
  <2> QED BY <2>3 DEF EstimatesClose, Word, Half
<1>13. (number \in 0 .. Word * Word - 1 /\ divisor \in 1 .. Word - 1)'
  BY <1>3 DEF IInv, Word, Half
<1> QED BY <1>3, <1>11, <1>12, <1>13 DEF IInv

LEMMA ShiftFacts ==
    ASSUME IInv, ~done
    PROVE  /\ Shift \in Nat /\ Normalized(divisor * Power[Shift])
           /\ Power[Shift] \in Nat \ {0} /\ Power[2 * HalfBits - Shift] \in Nat \ {0}
           /\ Power[Shift] * Power[2 * HalfBits - Shift] = Word
           /\ Power[Shift] <= Word \div 2
<1> DEFINE k == Shift
           top == 2 * HalfBits
<1>1. k \in 0 .. top - 1 /\ Normalized(divisor * Power[k])
  BY NumberFacts, LeadingZerosNormalize DEF Shift
<1>2. top \in Nat /\ Word = Power[top]
  BY HalfBitsAssumption, WordFacts
<1> HIDE DEF k, top
<1>3. k \in Nat /\ top - k \in Nat /\ (top - k) - 1 \in Nat /\ k + (top - k) = top
      /\ ((top - k) - 1) + 1 = top - k
  BY <1>1, <1>2
<1> DEFINE p == Power[k]
           p_ == Power[top - k]
           h == Power[(top - k) - 1]
<1>4. p \in Nat \ {0} /\ p_ \in Nat \ {0} /\ h \in Nat \ {0}
  BY <1>3, PowerNat
<1>5. p * p_ = Word
  BY <1>2, <1>3, PowerSum
<1>6. p_ = 2 * h
  <2>1. Power[((top - k) - 1) + 1] = 2 * Power[(top - k) - 1]
    BY <1>3, PowerStep
  <2> QED BY <1>3, <2>1
<1> HIDE DEF p, p_, h
<1>7. p <= Word \div 2
  <2>1. p * 2 <= p * p_
    BY <1>4, <1>6, ProductMonotonic
  <2>2. Word = 2 * (TopOfHalf * Half) /\ Word \div 2 = TopOfHalf * Half /\ TopOfHalf * Half \in Nat
    BY WordFacts
  <2> QED BY <1>4, <1>5, <2>1, <2>2
<1>8. k \in Nat /\ Normalized(divisor * p)
  BY <1>1, <1>3 DEF p
<1> QED BY <1>4, <1>5, <1>7, <1>8 DEF p, p_, k, top

\* The number shifted left by one place at least, as three words.
LEMMA ShiftedNumber ==
    ASSUME IInv, ~done, MustShift
    PROVE  LET p   == Power[Shift]
               p_  == Power[2 * HalfBits - Shift]
               top == ShiftedTop(Shift)
           IN  /\ top \in 0 .. p - 1 /\ ShiftedHigh(Shift) \in 0 .. Word - 1 /\ ShiftedLow(Shift) \in 0 .. Word - 1
               /\ number * p = (top * Word + ShiftedHigh(Shift)) * Word + ShiftedLow(Shift)
               /\ High * p = top * Word + (ShiftedHigh(Shift) - (Low \div p_))
               /\ Low \div p_ \in 0 .. p - 1
               /\ ShiftedHigh(Shift) - (Low \div p_) \in Nat
<1>1. /\ High \in 0 .. Word - 1 /\ Low \in 0 .. Word - 1 /\ number = High * Word + Low
      /\ Power[Shift] \in Nat \ {0} /\ Power[2 * HalfBits - Shift] \in Nat \ {0}
      /\ Power[Shift] * Power[2 * HalfBits - Shift] = Word
  BY NumberFacts, ShiftFacts
<1> DEFINE hi == High
           lo == Low
           p  == Power[Shift]
           p_ == Power[2 * HalfBits - Shift]
<1>2. /\ hi \in 0 .. Word - 1 /\ lo \in 0 .. Word - 1 /\ number = hi * Word + lo
      /\ p \in Nat \ {0} /\ p_ \in Nat \ {0} /\ p * p_ = Word
  BY <1>1
<1>3. /\ ShiftedHigh(Shift) = ((hi * p) % Word) + (lo \div p_) /\ ShiftedLow(Shift) = (lo * p) % Word
      /\ ShiftedTop(Shift) = hi \div p_
  <2>1. (2 * HalfBits - Shift) % (2 * HalfBits) = 2 * HalfBits - Shift
    <3> DEFINE m == 2 * HalfBits
               k == Shift
    <3>1. m \in Nat \ {0} /\ k \in 1 .. m - 1
      BY NumberFacts, LeadingZerosNormalize, HalfBitsAssumption DEF Shift, MustShift
    <3> HIDE DEF m, k
    <3>2. m - k \in 0 .. m - 1
      BY <3>1
    <3>3. (m - k) % m = m - k
      BY <3>1, <3>2, SmallRest
    <3> QED BY <3>3 DEF m, k
  <2> QED BY <2>1 DEF ShiftedTop, ShiftedHigh, ShiftedLow, ShiftRight
<1> HIDE DEF hi, lo, p, p_
<1>4. LET top  == hi \div p_
          high == ((hi * p) % Word) + (lo \div p_)
          low  == (lo * p) % Word
      IN  /\ top \in 0 .. p - 1 /\ high \in 0 .. Word - 1 /\ low \in 0 .. Word - 1
          /\ (hi * Word + lo) * p = (top * Word + high) * Word + low
          /\ hi * p = top * Word + (high - (lo \div p_)) /\ lo \div p_ \in 0 .. p - 1
          /\ high - (lo \div p_) \in Nat
  BY <1>2, ShiftIsExact
<1> DEFINE top == ShiftedTop(Shift)
           high == ShiftedHigh(Shift)
           low == ShiftedLow(Shift)
<1>5. /\ top \in 0 .. p - 1 /\ high \in 0 .. Word - 1 /\ low \in 0 .. Word - 1
      /\ number * p = (top * Word + high) * Word + low
      /\ hi * p = top * Word + (high - (lo \div p_))
      /\ lo \div p_ \in 0 .. p - 1 /\ high - (lo \div p_) \in Nat
  BY <1>2, <1>3, <1>4
<1> QED BY <1>5 DEF top, high, low, hi, lo, p, p_

LEMMA DivideWordStep == ASSUME IInv, DivideWord PROVE IInv'
<1>1. ~done /\ High = 0 /\ n' = Low \div divisor /\ r' = Low % divisor /\ done' /\ number' = number /\ divisor' = divisor
  BY DEF DivideWord, Return
<1>2. number = Low /\ number < Word /\ number \in Nat /\ Word \in Nat
  <2>1. 0 * Word = 0
    BY WordFacts
  <2> QED BY <1>1, <2>1, NumberFacts
<1>3. Divides'
  BY <1>1, <1>2 DEF Divides
<1>4. EstimatesClose'
  BY <1>1, <1>2 DEF EstimatesClose, Word, Half
<1>5. (number \in 0 .. Word * Word - 1 /\ divisor \in 1 .. Word - 1)'
  BY <1>1 DEF IInv, Word, Half
<1> QED BY <1>1, <1>3, <1>4, <1>5 DEF IInv

LEMMA ShiftedOneWord ==
    ASSUME IInv, ~done, divisor > High, MustShift,
           DivideWide(Known(0, ShiftedHigh(Shift)), ShiftedLow(Shift), Shift)
    PROVE  IInv'
<1> DEFINE k == Shift
           p == Power[k]
           p_ == Power[2 * HalfBits - k]
           dd == divisor * p
           top == ShiftedTop(k)
           high == ShiftedHigh(k)
           low == ShiftedLow(k)
           l1 == Low \div p_
<1>2. /\ Word \in Nat \ {0} /\ divisor \in Nat \ {0} /\ High \in Nat /\ number \in Nat
      /\ k \in Nat /\ p \in Nat \ {0} /\ Normalized(dd)
  BY NumberFacts, ShiftFacts
<1>3. /\ top \in 0 .. p - 1 /\ high \in 0 .. Word - 1 /\ low \in 0 .. Word - 1
      /\ number * p = (top * Word + high) * Word + low
      /\ High * p = top * Word + (high - l1) /\ l1 \in 0 .. p - 1 /\ high - l1 \in Nat
  BY ShiftedNumber
<1> HIDE DEF k, p, p_, top, high, low, l1
<1>4. High * p + p <= dd /\ dd < Word /\ dd \in Nat /\ High * p \in Nat
  <2>1. (High + 1) * p <= divisor * p
    BY <1>2, ProductMonotonic
  <2>2. (High + 1) * p = High * p + p
    BY <1>2, Products
  <2>3. dd < Word
    BY <1>2, WordFacts DEF Normalized
  <2>4. dd \in Nat /\ High * p \in Nat
    BY <1>2, Product
  <2> QED BY <2>1, <2>2, <2>3, <2>4
<1> HIDE DEF dd
<1>5. top = 0
  <2>1. top * Word \in Nat
    BY <1>2, <1>3, Product
  <2>2. top * Word < 1 * Word
    BY <1>2, <1>3, <1>4, <2>1
  <2>3. top < 1
    BY <1>2, <1>3, <2>2, OneProduct
  <2> QED BY <1>3, <2>3
<1>6. top * Word = 0
  BY <1>2, <1>5
<1>7. high \in 0 .. dd - 1
  BY <1>2, <1>3, <1>4, <1>6
<1>8. number * p = (0 * dd + high) * Word + low
  <2>1. 0 * dd + high = top * Word + high
    BY <1>3, <1>4, <1>6
  <2> QED BY <1>3, <2>1
<1> DEFINE t == Known(0, high)
<1>9. /\ t.q = 0 /\ t.r = high /\ Near(t.estimates, t.q) /\ 0 \in 0 .. Word - 1
  BY <1>2, KnownIsNear DEF Known
<1>10. DivideWide(t, low, k)
  BY DEF high, low, k
<1> HIDE DEF t
<1>11. /\ k \in Nat /\ Normalized(divisor * Power[k]) /\ t.r \in 0 .. divisor * Power[k] - 1
       /\ low \in 0 .. Word - 1 /\ t.q \in 0 .. Word - 1 /\ Near(t.estimates, t.q)
       /\ number * Power[k] = (t.q * (divisor * Power[k]) + t.r) * Word + low
       /\ DivideWide(t, low, k)
  BY <1>2, <1>3, <1>7, <1>8, <1>9, <1>10 DEF dd, p
<1> QED BY <1>11, DivideWideIsExact

\* The divisor's top bit is set: nothing is shifted.
NothingShifted(top) ==
    /\ top.r \in 0 .. divisor - 1 /\ top.q \in 0 .. Word - 1 /\ Near(top.estimates, top.q)
    /\ number = (top.q * divisor + top.r) * Word + Low

LEMMA NormalizedIsExact ==
    ASSUME IInv, ~done, ~MustShift, NEW top, NothingShifted(top), DivideWide(top, Low, 0)
    PROVE  IInv'
<1>1. Power[0] = 1
  BY PowerStep
<1>2. /\ divisor \in Nat /\ number \in Nat /\ Low \in 0 .. Word - 1
  BY NumberFacts
<1>3. divisor * Power[0] = divisor /\ number * Power[0] = number
  BY <1>1, <1>2
<1>4. Normalized(divisor)
  BY <1>3, ShiftFacts DEF MustShift
<1>5. /\ 0 \in Nat /\ Normalized(divisor * Power[0]) /\ top.r \in 0 .. divisor * Power[0] - 1
      /\ number * Power[0] = (top.q * (divisor * Power[0]) + top.r) * Word + Low
      /\ top.q \in 0 .. Word - 1 /\ Near(top.estimates, top.q)
  BY <1>3, <1>4 DEF NothingShifted
<1> QED BY <1>2, <1>5, DivideWideIsExact

LEMMA OneWordQuotientStep == ASSUME IInv, OneWordQuotient PROVE IInv'
<1>1. ~done /\ divisor > High
  BY DEF OneWordQuotient
<1>2. CASE MustShift
  <2>1. DivideWide(Known(0, ShiftedHigh(Shift)), ShiftedLow(Shift), Shift)
    BY <1>2 DEF OneWordQuotient
  <2> QED BY <1>1, <1>2, <2>1, ShiftedOneWord
<1>3. CASE ~MustShift
  <2> DEFINE t == Known(0, High)
  <2>1. DivideWide(t, Low, 0)
    BY <1>3 DEF OneWordQuotient
  <2>2. /\ Word \in Nat \ {0} /\ divisor \in Nat /\ High \in Nat
        /\ number = High * Word + Low
    BY <1>1, NumberFacts
  <2>3. t.q = 0 /\ t.r = High /\ Near(t.estimates, t.q)
    BY KnownIsNear DEF Known
  <2> HIDE DEF t
  <2>4. t.q * divisor + t.r = High
    BY <2>2, <2>3
  <2>5. NothingShifted(t)
    BY <1>1, <2>2, <2>3, <2>4 DEF NothingShifted
  <2> QED BY <1>1, <1>3, <2>1, <2>5, NormalizedIsExact
<1> QED BY <1>2, <1>3

LEMMA NormalizedDivisorStep == ASSUME IInv, NormalizedDivisor PROVE IInv'
<1> DEFINE t == Known(1, High - divisor)
<1>1. ~done /\ divisor <= High /\ ~MustShift /\ DivideWide(t, Low, 0)
  BY DEF NormalizedDivisor
<1>2. /\ divisor \in Nat \ {0} /\ High \in 0 .. Word - 1 /\ Word \in Nat \ {0}
      /\ number = High * Word + Low
  BY <1>1, NumberFacts
<1>3. t.q = 1 /\ t.r = High - divisor /\ Near(t.estimates, t.q)
  BY KnownIsNear DEF Known
<1> HIDE DEF t
<1>4. Normalized(divisor)
  <2>1. Power[0] = 1 /\ divisor * Power[0] = divisor
    BY <1>2, PowerStep
  <2> QED BY <1>1, <2>1, ShiftFacts DEF MustShift
<1>5. t.r \in 0 .. divisor - 1 /\ t.q \in 0 .. Word - 1
  <2>1. Word \div 2 <= divisor /\ Word = 2 * (Word \div 2) /\ Word \div 2 \in Nat \ {0}
    BY <1>4, WordFacts DEF Normalized
  <2> QED BY <1>1, <1>2, <1>3, <2>1
<1>6. t.q * divisor + t.r = High
  BY <1>2, <1>3
<1>7. NothingShifted(t)
  BY <1>2, <1>3, <1>5, <1>6 DEF NothingShifted
<1> QED BY <1>1, <1>7, NormalizedIsExact

LEMMA TwoWordQuotientStep == ASSUME IInv, TwoWordQuotient PROVE IInv'
<1> DEFINE k == Shift
           p == Power[k]
           p_ == Power[2 * HalfBits - k]
           dd == divisor * p
           top == ShiftedTop(k)
           high == ShiftedHigh(k)
           low == ShiftedLow(k)
           first == udiv_adjusted(top, high, dd)
<1>1. ~done /\ MustShift /\ DivideWide(first, low, k)
  BY DEF TwoWordQuotient
<1>2. /\ Word \in Nat \ {0} /\ divisor \in Nat \ {0} /\ number \in Nat
      /\ k \in Nat /\ p \in Nat \ {0} /\ Normalized(dd) /\ p <= Word \div 2
  BY <1>1, NumberFacts, ShiftFacts
<1>3. /\ top \in 0 .. p - 1 /\ high \in 0 .. Word - 1 /\ low \in 0 .. Word - 1
      /\ number * p = (top * Word + high) * Word + low
  BY <1>1, ShiftedNumber
<1> HIDE DEF k, p, p_, top, high, low
<1>4. top \in 0 .. dd - 1
  <2>1. dd \in Nat
    BY <1>2, Product
  <2>2. Word \div 2 <= dd /\ Word \div 2 \in Nat
    BY <1>2, WordFacts DEF Normalized
  <2> QED BY <1>2, <1>3, <2>1, <2>2
<1> HIDE DEF dd
<1>5. WordIsExact(top, high, dd, first)
  BY <1>2, <1>3, <1>4, AdjustedIsExact
<1> HIDE DEF first
<1>6. first.q \in 0 .. Word - 1 /\ Near(first.estimates, first.q) /\ first.r \in 0 .. dd - 1 /\ top * Word + high = first.q * dd + first.r
  BY <1>2, <1>5 DEF WordIsExact
<1>7. number * p = (first.q * dd + first.r) * Word + low
  BY <1>3, <1>6
<1>8. /\ k \in Nat /\ Normalized(divisor * Power[k]) /\ first.r \in 0 .. divisor * Power[k] - 1
      /\ low \in 0 .. Word - 1 /\ first.q \in 0 .. Word - 1 /\ Near(first.estimates, first.q)
      /\ number * Power[k] = (first.q * (divisor * Power[k]) + first.r) * Word + low
      /\ DivideWide(first, low, k)
  BY <1>1, <1>2, <1>3, <1>6, <1>7 DEF dd, p
<1> QED BY <1>1, <1>8, DivideWideIsExact

-----------------------------------------------------------------------------
(***************************************************************************)
(* Theorems                                                                *)
(***************************************************************************)
\* Every call keeps the invariant: it is made in one step, of one of four kinds
\* (umoddiv.c:26-67).
THEOREM Invariance == UmoddivSpec => []IInv
<1>1. ASSUME IInv, [UmoddivNext]_umoddivVars PROVE IInv'
  <2>1. CASE DivideWord
    BY <1>1, <2>1, DivideWordStep
  <2>2. CASE OneWordQuotient
    BY <1>1, <2>2, OneWordQuotientStep
  <2>3. CASE NormalizedDivisor
    BY <1>1, <2>3, NormalizedDivisorStep
  <2>4. CASE TwoWordQuotient
    BY <1>1, <2>4, TwoWordQuotientStep
  <2>5. CASE UNCHANGED umoddivVars
    BY <1>1, <2>5 DEF umoddivVars, IInv, Divides, EstimatesClose, Word, Half
  <2> QED BY <1>1, <2>1, <2>2, <2>3, <2>4, <2>5 DEF UmoddivNext
<1> QED BY InitialInvariant, <1>1, PTL DEF UmoddivSpec

\* The quotient and the remainder are right for every number and divisor and
\* every width of a word (umoddiv32, umoddiv.c:26-67; common.h:57-61).
THEOREM DividesExactly == UmoddivSpec => []Divides
BY Invariance, PTL DEF IInv

\* Every estimate of half a quotient is too large by two at most, so the two
\* corrections are all it takes (umoddiv.c:82-90, 101-109).
THEOREM EstimatesAreClose == UmoddivSpec => []EstimatesClose
BY Invariance, PTL DEF IInv

==============================================================================

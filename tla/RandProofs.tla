------------------------------ MODULE RandProofs ------------------------------
(***************************************************************************)
(* The properties of Rand, for every width, every distance and every set   *)
(* of seeds. next() is a one-to-one map on the pairs of words: its second  *)
(* result gives s1 back, then its first result s[1], then s1 and s[1]      *)
(* s[2]. What rand() returns after srand(x) is read off one orbit of it.   *)
(***************************************************************************)
EXTENDS Rand, TLAPS

-----------------------------------------------------------------------------
(* Operations on words *)

LEMMA Wrap ==
    ASSUME NEW w \in Nat \ {0}, NEW j \in 0 .. w-1, NEW k \in Nat
    PROVE  /\ (j + k) % w \in 0 .. w-1
           /\ (((j + k) % w) - k) % w = j
<1> DEFINE n == (j + k) \div w  i == (j + k) % w
<1>1. n \in Int /\ i \in 0 .. w-1 /\ j + k = n * w + i
  BY SMT
<1>2. i - k = (-n) * w + j /\ -n \in Int
  BY <1>1, SMT
<1>3. \A m \in Int : (m * w + j) % w = j
  BY SMT
<1> QED BY <1>1, <1>2, <1>3

LEMMA WordsClosed ==
    ASSUME NEW x \in Words, NEW y \in Words, NEW k \in Nat
    PROVE  Xor(x, y) \in Words /\ ShiftLeft(x, k) \in Words /\ rol32(x, k) \in Words
BY DEF Words, Xor, ShiftLeft, rol32

\* No bit is lost by a rotation ...
LEMMA RotationIsOneToOne ==
    ASSUME NEW x \in Words, NEW y \in Words, NEW k \in Nat, rol32(x, k) = rol32(y, k)
    PROVE  x = y
<1>1. ASSUME NEW j \in Bits PROVE j \in x <=> j \in y
  <2> DEFINE i == (j + k) % Width
  <2>1. i \in Bits /\ (i - k) % Width = j
    BY Wrap, RandAssumption DEF Bits
  <2>2. i \in rol32(x, k) <=> i \in rol32(y, k)
    OBVIOUS
  <2> HIDE DEF i
  <2> QED BY <2>1, <2>2 DEF rol32
<1> QED BY <1>1 DEF Words

\* ... and an exclusive or can be undone.
LEMMA XorIsOneToOne ==
    ASSUME NEW x, NEW y, NEW z, Xor(x, z) = Xor(y, z)
    PROVE  x = y
BY Zenon DEF Xor

LEMMA XorIsOneToOneRight ==
    ASSUME NEW x, NEW y, NEW z, Xor(z, x) = Xor(z, y)
    PROVE  x = y
BY Zenon DEF Xor

-----------------------------------------------------------------------------
(* next() *)

Distances == RotA \in Nat /\ ShiftB \in Nat /\ RotC \in Nat

LEMMA MixedType ==
    ASSUME NEW s \in Words \X Words
    PROVE  /\ Mix(s) \in Words \X Words
           /\ Unstick(s) \in (Words \X Words) \ {Zero}
<1>1. s[1] \in Words /\ s[2] \in Words /\ Distances
  BY RandAssumption DEF Distances
<1>2. Mix(s) \in Words \X Words
  BY <1>1, WordsClosed DEF Mix, Distances
<1>3. {0} \in Words /\ {0} # {}
  BY RandAssumption DEF Words, Bits
<1>4. CASE s[1] \cup s[2] = {}
  BY <1>1, <1>2, <1>3, <1>4 DEF Unstick, Zero
<1>5. CASE s[1] \cup s[2] # {}
  BY <1>1, <1>2, <1>5 DEF Unstick, Zero
<1> QED BY <1>4, <1>5

LEMMA MixIsOneToOne ==
    ASSUME NEW s \in Words \X Words, NEW t \in Words \X Words, Mix(s) = Mix(t)
    PROVE  s = t
<1> DEFINE s1 == Xor(s[2], s[1])
           t1 == Xor(t[2], t[1])
<1>1. s[1] \in Words /\ s[2] \in Words /\ t[1] \in Words /\ t[2] \in Words /\ Distances
  BY RandAssumption DEF Distances
<1>2. /\ rol32(s1, RotC) = rol32(t1, RotC)
      /\ Xor(Xor(rol32(s[1], RotA), s1), ShiftLeft(s1, ShiftB))
             = Xor(Xor(rol32(t[1], RotA), t1), ShiftLeft(t1, ShiftB))
  BY DEF Mix
<1>3. s1 = t1
  BY <1>1, <1>2, WordsClosed, RotationIsOneToOne DEF Distances
<1>4. rol32(s[1], RotA) = rol32(t[1], RotA)
  <2> HIDE DEF s1, t1
  <2>1. Xor(rol32(s[1], RotA), s1) = Xor(rol32(t[1], RotA), s1)
    BY <1>2, <1>3, XorIsOneToOne
  <2> QED BY <2>1, XorIsOneToOne
<1>5. s[1] = t[1]
  BY <1>1, <1>4, RotationIsOneToOne DEF Distances
<1>6. s[2] = t[2]
  BY <1>3, <1>5, XorIsOneToOne
<1> QED BY <1>5, <1>6

LEMMA MixKeepsZero == Mix(Zero) = Zero
<1>1. Xor({}, {}) = {} /\ \A k : rol32({}, k) = {} /\ ShiftLeft({}, k) = {}
  BY DEF Xor, rol32, ShiftLeft
<1> QED BY <1>1 DEF Mix, Zero

LEMMA NeverZero ==
    ASSUME NEW s \in Words \X Words
    PROVE  Mix(Unstick(s)) \in (Words \X Words) \ {Zero}
<1>1. Zero \in Words \X Words
  BY DEF Zero, Words
<1> QED BY <1>1, MixedType, MixIsOneToOne, MixKeepsZero

-----------------------------------------------------------------------------
(* The inductive invariant *)

Sown     == Seeds \cup {NoSeed}
Start(x) == IF x = NoSeed THEN Zero ELSE Seeded(x)
Results  == {Scaled(NextWord(s)) : s \in Words \X Words}

TypeOK ==
    /\ rand_state \in Words \X Words
    /\ seed \in Sown
    /\ since \in Seq(Results) /\ Len(since) <= MaxHeard
    /\ heard \in [Sown -> Seq(Results)]
    /\ \A x \in Sown : Len(heard[x]) <= MaxHeard

\* The states the generator goes through from each seed, as far as it was heard.
Orbits == [Sown -> [0 .. MaxHeard -> Words \X Words]]

\* What was heard after each seed is what its orbit gives ...
Heard(F) ==
    \A x \in Sown :
        /\ F[x][0] = Start(x)
        /\ \A n \in 0 .. Len(heard[x]) - 1 :
              /\ F[x][n + 1] = Mix(Unstick(F[x][n]))
              /\ heard[x][n + 1] = Scaled(NextWord(Unstick(F[x][n])))

\* ... and the generator is on the orbit of the present seed.
OnOrbit(F) ==
    /\ Len(since) <= Len(heard[seed])
    /\ \A n \in 1 .. Len(since) : since[n] = heard[seed][n]
    /\ Len(since) < MaxHeard => rand_state = F[seed][Len(since)]

IInv ==
    /\ TypeOK
    /\ since # <<>> => rand_state # Zero
    /\ \E F \in Orbits : Heard(F) /\ OnOrbit(F)

LEMMA StartType ==
    ASSUME NEW x \in Sown
    PROVE  /\ Start(x) \in Words \X Words
           /\ x \in Seeds => Start(x) = Seeded(x)
BY RandAssumption DEF Start, Sown, Seeded, Words, Bits, Zero

LEMMA InitInv == RandInit => IInv
<1> SUFFICES ASSUME RandInit PROVE IInv
  OBVIOUS
<1> DEFINE F == [x \in Sown |-> [n \in 0 .. MaxHeard |-> Start(x)]]
<1>1. MaxHeard \in Nat /\ Zero \in Words \X Words
  BY RandAssumption DEF Zero, Words
<1>2. <<>> \in Seq(Results) /\ Len(<<>>) = 0
  OBVIOUS
<1>3. TypeOK
  BY <1>1, <1>2 DEF RandInit, TypeOK, Sown
<1>4. F \in Orbits
  BY StartType DEF Orbits
<1>5. \A x \in Sown : F[x][0] = Start(x) /\ heard[x] = <<>>
  BY <1>1 DEF RandInit, Sown
<1>6. Heard(F)
  <2> HIDE DEF F
  <2> QED BY <1>2, <1>5 DEF Heard
<1>7. OnOrbit(F)
  <2>1. seed = NoSeed /\ seed \in Sown /\ since = <<>> /\ rand_state = Zero
    BY DEF RandInit, Sown
  <2> HIDE DEF F
  <2> QED BY <1>1, <1>2, <1>5, <2>1 DEF OnOrbit, Start
<1>8. since = <<>>
  BY DEF RandInit
<1> QED BY <1>3, <1>4, <1>6, <1>7, <1>8 DEF IInv

LEMMA srandInv ==
    ASSUME IInv, NEW x \in Seeds, srand(x)
    PROVE  IInv'
<1>1. x \in Sown /\ x # NoSeed /\ Start(x) \in Words \X Words /\ Start(x) = Seeded(x)
  BY StartType, RandAssumption DEF Sown
<1>2. rand_state' = Start(x) /\ seed' = x /\ since' = <<>> /\ heard' = heard
  BY <1>1 DEF srand
<1>3. MaxHeard \in Nat /\ <<>> \in Seq(Results) /\ Len(<<>>) = 0
  BY RandAssumption
<1>4. TypeOK'
  BY <1>1, <1>2, <1>3 DEF IInv, TypeOK
<1>5. PICK F \in Orbits : Heard(F)
  BY DEF IInv
<1>6. Heard(F)' /\ OnOrbit(F)'
  <2>1. Heard(F)'
    BY <1>2, <1>5 DEF Heard, Start, Seeded
  <2>2. F[x][0] = Start(x) /\ Len(heard[x]) \in Nat
    BY <1>1, <1>5 DEF Heard, IInv, TypeOK
  <2> QED BY <1>2, <1>3, <2>1, <2>2 DEF OnOrbit
<1> QED BY <1>2, <1>4, <1>5, <1>6 DEF IInv

\* A call of rand(): the state and what is returned.
LEMMA RandStep ==
    ASSUME TypeOK, rand
    PROVE  LET s == Unstick(rand_state)
               r == Scaled(NextWord(s))
           IN  /\ s \in Words \X Words /\ r \in Results
               /\ rand_state' = Mix(s) /\ rand_state' \in (Words \X Words) \ {Zero}
               /\ seed' = seed
               /\ since' = IF Len(since) = MaxHeard THEN since ELSE Append(since, r)
               /\ heard' = [heard EXCEPT ![seed] = Longer(since', heard[seed])]
<1>1. rand_state \in Words \X Words
  BY DEF TypeOK
<1> QED BY <1>1, MixedType, NeverZero DEF rand, Results

LEMMA randInv ==
    ASSUME IInv, rand
    PROVE  IInv'
<1> DEFINE s == Unstick(rand_state)
           r == Scaled(NextWord(s))
           n == Len(since)
<1>1. /\ TypeOK
      /\ MaxHeard \in Nat /\ n \in Nat /\ Len(heard[seed]) \in Nat /\ seed \in Sown
      /\ since \in Seq(Results) /\ heard[seed] \in Seq(Results) /\ heard \in [Sown -> Seq(Results)]
      /\ n <= MaxHeard /\ Len(heard[seed]) <= MaxHeard
  BY RandAssumption DEF IInv, TypeOK
<1>2. /\ s \in Words \X Words /\ r \in Results
      /\ rand_state' = Mix(s) /\ rand_state' \in (Words \X Words) \ {Zero}
      /\ seed' = seed
      /\ since' = IF n = MaxHeard THEN since ELSE Append(since, r)
      /\ heard' = [heard EXCEPT ![seed] = Longer(since', heard[seed])]
  BY <1>1, RandStep
<1>3. PICK F \in Orbits : Heard(F) /\ OnOrbit(F)
  BY DEF IInv
<1> HIDE DEF s, r
<1>4. /\ n <= Len(heard[seed])
      /\ \A i \in 1 .. n : since[i] = heard[seed][i]
      /\ n < MaxHeard => rand_state = F[seed][n]
  BY <1>3 DEF OnOrbit
<1>5. CASE n = MaxHeard
  <2>1. since' = since /\ heard' = heard
    BY <1>1, <1>2, <1>4, <1>5 DEF Longer
  <2>2. TypeOK'
    BY <1>1, <1>2, <2>1 DEF TypeOK
  <2>3. Heard(F)' /\ OnOrbit(F)'
    BY <1>1, <1>2, <1>3, <1>4, <1>5, <2>1 DEF Heard, OnOrbit, Start, Seeded
  <2> QED BY <1>2, <1>3, <2>2, <2>3 DEF IInv
<1>6. CASE n < MaxHeard /\ n < Len(heard[seed])
  <2>1. /\ since' = Append(since, r) /\ since' \in Seq(Results) /\ Len(since') = n + 1
        /\ \A i \in 1 .. n : since'[i] = since[i]
        /\ since'[n + 1] = r
    BY <1>1, <1>2, <1>6
  <2>2. heard' = heard
    BY <1>1, <1>2, <1>6, <2>1 DEF Longer
  <2>3. TypeOK'
    BY <1>1, <1>2, <1>6, <2>1, <2>2 DEF TypeOK
  <2>4. F[seed][n + 1] = Mix(s) /\ heard[seed][n + 1] = r
    BY <1>1, <1>3, <1>4, <1>6 DEF Heard, s, r
  <2>5. Heard(F)'
    BY <1>3, <2>2 DEF Heard, Start, Seeded
  <2>6. OnOrbit(F)'
    BY <1>1, <1>2, <1>4, <1>6, <2>1, <2>2, <2>4 DEF OnOrbit
  <2> QED BY <1>2, <1>3, <2>3, <2>5, <2>6 DEF IInv
<1>7. CASE n < MaxHeard /\ n = Len(heard[seed])
  <2>1. /\ since' = Append(since, r) /\ since' \in Seq(Results) /\ Len(since') = n + 1
        /\ \A i \in 1 .. n : since'[i] = since[i]
        /\ since'[n + 1] = r
    BY <1>1, <1>2, <1>7
  <2>2. heard' = [heard EXCEPT ![seed] = since']
    <3>1. Longer(since', heard[seed]) = since'
      BY <1>1, <1>7, <2>1 DEF Longer
    <3> QED BY <1>2, <3>1
  <2>3. TypeOK'
    <3>1. seed' \in Sown /\ rand_state' \in Words \X Words /\ Len(since') <= MaxHeard
      BY <1>1, <1>2, <1>7, <2>1
    <3>2. heard' \in [Sown -> Seq(Results)] /\ \A x \in Sown : Len(heard'[x]) <= MaxHeard
      BY <1>1, <2>1, <2>2, <3>1 DEF TypeOK
    <3> QED BY <2>1, <3>1, <3>2 DEF TypeOK
  <2>4. PICK G \in Orbits :
        /\ \A x \in Sown \ {seed} : G[x] = F[x]
        /\ \A i \in 0 .. n : G[seed][i] = F[seed][i]
        /\ G[seed][n + 1] = Mix(s)
    <3> DEFINE G == [F EXCEPT ![seed] = [@ EXCEPT ![n + 1] = Mix(s)]]
    <3>1. n + 1 \in 0 .. MaxHeard /\ Mix(s) \in Words \X Words
      BY <1>1, <1>2, <1>7
    <3>2. G \in Orbits
      BY <1>1, <3>1 DEF Orbits
    <3>3. /\ \A x \in Sown \ {seed} : G[x] = F[x]
          /\ G[seed] = [F[seed] EXCEPT ![n + 1] = Mix(s)]
      BY <1>1 DEF Orbits
    <3>4. F[seed] \in [0 .. MaxHeard -> Words \X Words]
      BY <1>1 DEF Orbits
    <3>5. /\ \A i \in 0 .. n : G[seed][i] = F[seed][i]
          /\ G[seed][n + 1] = Mix(s)
      BY <1>1, <3>1, <3>3, <3>4
    <3> HIDE DEF G
    <3> QED BY <3>2, <3>3, <3>5
  <2>5. heard'[seed] = since' /\ \A x \in Sown \ {seed} : heard'[x] = heard[x]
    BY <1>1, <2>2
  <2>6. Heard(G)'
    <3> SUFFICES ASSUME NEW x \in Sown
                 PROVE  /\ G[x][0] = Start(x)
                        /\ \A i \in 0 .. Len(heard'[x]) - 1 :
                              /\ G[x][i + 1] = Mix(Unstick(G[x][i]))
                              /\ heard'[x][i + 1] = Scaled(NextWord(Unstick(G[x][i])))
      BY DEF Heard, Start, Seeded
    <3>1. CASE x # seed
      BY <1>3, <2>4, <2>5, <3>1 DEF Heard
    <3>2. CASE x = seed
      <4>1. G[x][0] = Start(x)
        BY <1>1, <1>3, <2>4, <3>2 DEF Heard
      <4>2. ASSUME NEW i \in 0 .. n - 1
            PROVE  /\ G[x][i + 1] = Mix(Unstick(G[x][i]))
                   /\ heard'[x][i + 1] = Scaled(NextWord(Unstick(G[x][i])))
        <5>1. /\ i \in 0 .. Len(heard[seed]) - 1 /\ i \in 0 .. n /\ i + 1 \in 0 .. n
              /\ i + 1 \in 1 .. n
          BY <1>1, <1>7
        <5>2. /\ F[seed][i + 1] = Mix(Unstick(F[seed][i]))
              /\ heard[seed][i + 1] = Scaled(NextWord(Unstick(F[seed][i])))
          BY <1>1, <1>3, <5>1 DEF Heard
        <5>3. G[seed][i + 1] = F[seed][i + 1] /\ G[seed][i] = F[seed][i]
          BY <2>4, <5>1
        <5>4. heard'[seed][i + 1] = heard[seed][i + 1]
          BY <1>4, <2>1, <2>5, <5>1
        <5> QED BY <3>2, <5>2, <5>3, <5>4
      <4>3. /\ G[x][n + 1] = Mix(Unstick(G[x][n]))
            /\ heard'[x][n + 1] = Scaled(NextWord(Unstick(G[x][n])))
        <5>1. n \in 0 .. n /\ rand_state = F[seed][n]
          BY <1>1, <1>4, <1>7
        <5>2. s = Unstick(G[seed][n])
          BY <2>4, <5>1 DEF s
        <5>3. r = Scaled(NextWord(Unstick(G[seed][n])))
          BY <5>2 DEF s, r
        <5> QED BY <2>1, <2>4, <2>5, <3>2, <5>2, <5>3
      <4>4. Len(heard'[x]) = n + 1
        BY <2>1, <2>5, <3>2
      <4> QED BY <1>1, <4>1, <4>2, <4>3, <4>4
    <3> QED BY <3>1, <3>2
  <2>7. OnOrbit(G)'
    <3>1. seed' = seed /\ heard'[seed'] = since' /\ rand_state' = Mix(s) /\ Len(since') \in Nat
      BY <1>1, <1>2, <2>1, <2>5
    <3>2. rand_state' = G[seed'][Len(since')]
      BY <2>1, <2>4, <3>1
    <3> QED BY <3>1, <3>2 DEF OnOrbit
  <2> QED BY <1>2, <2>3, <2>4, <2>6, <2>7 DEF IInv
<1> QED BY <1>1, <1>4, <1>5, <1>6, <1>7

LEMMA StutterInv ==
    ASSUME IInv, UNCHANGED randVars
    PROVE  IInv'
<1>1. PICK F \in Orbits : Heard(F) /\ OnOrbit(F)
  BY DEF IInv
<1>2. Heard(F)' /\ OnOrbit(F)'
  BY <1>1 DEF randVars, Heard, OnOrbit, Start, Seeded
<1>3. TypeOK'
  BY DEF IInv, TypeOK, randVars
<1> QED BY <1>2, <1>3 DEF IInv, randVars

-----------------------------------------------------------------------------
(* The theorems *)

\* rand() and srand() keep the invariant: the generator is always on the orbit
\* that starts at the present seed, and what was heard after a seed is read off it.
THEOREM Invariance == RandSpec => []IInv
<1>1. IInv /\ [RandNext]_randVars => IInv'
  BY srandInv, randInv, StutterInv DEF RandNext
<1> QED BY InitInv, <1>1, PTL DEF RandSpec

\* Once rand() was called the state of rand.c is two words and not zero, for any
\* seed, zero included.
THEOREM StateIsNeverZero == RandSpec => []NeverStuck
<1>1. IInv => NeverStuck
  BY DEF IInv, TypeOK, NeverStuck
<1> QED BY Invariance, <1>1, PTL

\* After srand(x) rand() returns what it returned after an earlier srand(x).
THEOREM SameSeedSameSequence == RandSpec => []SeedRepeats
<1>1. ASSUME IInv PROVE SeedRepeats
  <2>1. PICK F \in Orbits : OnOrbit(F)
    BY <1>1 DEF IInv
  <2>2. /\ since \in Seq(Results) /\ heard[seed] \in Seq(Results)
        /\ Len(since) <= Len(heard[seed])
        /\ \A i \in 1 .. Len(since) : since[i] = heard[seed][i]
    BY <1>1, <2>1 DEF IInv, TypeOK, OnOrbit
  <2> DEFINE t == SubSeq(heard[seed], 1, Len(since))
  <2>3. Len(t) = Len(since) /\ \A i \in 1 .. Len(since) : t[i] = since[i]
    BY <2>2
  <2>4. t \in Seq(Results)
    BY <2>2
  <2>5. since = t
    BY <2>2, <2>3, <2>4
  <2> QED BY <2>5 DEF SeedRepeats
<1> QED BY Invariance, <1>1, PTL

\* next() is one-to-one: every step of rand() has one predecessor that is not zero.
THEOREM NothingIsLost == RandSpec => StatesNeverMerge
<1>1. ASSUME IInv, rand, NEW s \in (Words \X Words) \ {Zero}, Mix(s) = rand_state'
      PROVE  s = Unstick(rand_state)
  <2>1. TypeOK
    BY <1>1 DEF IInv
  <2>2. Unstick(rand_state) \in Words \X Words /\ rand_state' = Mix(Unstick(rand_state))
    BY <1>1, <2>1, RandStep
  <2> QED BY <1>1, <2>2, MixIsOneToOne
<1>2. IInv => [rand => \A s \in (Words \X Words) \ {Zero} :
                  Mix(s) = rand_state' => s = Unstick(rand_state)]_randVars
  BY <1>1
<1> QED BY Invariance, <1>2, PTL DEF StatesNeverMerge

=============================================================================

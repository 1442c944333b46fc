---------------------------- MODULE StringsProofs ----------------------------
(***************************************************************************)
(* The properties of Strings, for every size of memory, of a char and of   *)
(* an int, every memory and every call that its contract allows. The       *)
(* invariant says of each loop where its pointers are and what has been    *)
(* seen of the characters behind them; one lemma per function shows what   *)
(* a turn of its loop makes of that. A second invariant says what atoi()   *)
(* has counted when it is at a character.                                  *)
(***************************************************************************)
EXTENDS Strings, SumTheorems

-----------------------------------------------------------------------------
(* Addresses and objects *)

LEMMA AddressRange ==
    ASSUME NEW a \in Addresses
    PROVE  a \in Nat /\ 1 <= a /\ a <= AddrMod - 2 /\ AddrMod \in Nat /\ a # NULL
BY StringsAssumption DEF Addresses, PLATFORM_MAX_ADDR, NULL

LEMMA IsAddress ==
    ASSUME NEW b \in Int, 1 <= b, b <= AddrMod - 2
    PROVE  b \in Addresses
BY StringsAssumption DEF Addresses, PLATFORM_MAX_ADDR

LEMMA Counted ==
    ASSUME NEW a \in Nat, NEW b \in Nat, a <= b
    PROVE  Cardinality(a .. b-1) = b - a
<1>1. b - 1 \in Int /\ a \in Int
  OBVIOUS
<1>2. Cardinality(a .. b-1) = IF a > b - 1 THEN 0 ELSE (b - 1) - a + 1
  BY <1>1, FS_Interval
<1> QED BY <1>2

\* An object of n characters ends before the last address.
LEMMA WholeObject ==
    ASSUME NEW a \in Addresses, NEW n \in Nat, Cardinality(Object(a, n)) = n
    PROVE  a + n <= AddrMod - 1
<1>1. a \in Nat /\ 1 <= a /\ a <= AddrMod - 2 /\ AddrMod \in Nat /\ a # NULL
  BY AddressRange
<1> SUFFICES ASSUME a + n > AddrMod - 1 PROVE FALSE
  BY <1>1
<1>2. Object(a, n) = a .. (AddrMod - 1) - 1
  <2>1. ASSUME NEW b \in Object(a, n) PROVE b \in a .. (AddrMod - 1) - 1
    BY <1>1, AddressRange DEF Object
  <2>2. ASSUME NEW b \in a .. (AddrMod - 1) - 1 PROVE b \in Object(a, n)
    <3>1. b \in Addresses
      BY <1>1, IsAddress
    <3> QED BY <1>1, <3>1 DEF Object
  <2> QED BY <2>1, <2>2
<1>3. Cardinality(Object(a, n)) = (AddrMod - 1) - a
  <2> DEFINE b == AddrMod - 1
  <2>1. b \in Nat /\ a \in Nat /\ a <= b /\ Object(a, n) = a .. b-1
    BY <1>1, <1>2
  <2> HIDE DEF b
  <2>2. Cardinality(Object(a, n)) = b - a
    BY <2>1, Counted
  <2> QED BY <2>2 DEF b
<1> QED BY <1>1, <1>3

\* Who has met no c among fewer than n characters is still at one of them.
LEMMA StillInside ==
    ASSUME NEW m, NEW a \in Addresses, NEW n \in Nat, NEW c, Ends(m, a, n, c),
           NEW b \in Nat, a <= b, b - a < n, \A x \in a .. b-1 : m[x] # c
    PROVE  b \in Addresses /\ b \in Until(m, a, n, c)
<1>1. a \in Nat /\ 1 <= a /\ a <= AddrMod - 2 /\ AddrMod \in Nat /\ a # NULL
  BY AddressRange
<1>2. b <= AddrMod - 2
  <2>1. CASE Cardinality(Object(a, n)) = n
    <3>1. a + n <= AddrMod - 1
      BY <2>1, WholeObject
    <3> QED BY <1>1, <3>1
  <2>2. CASE \E z \in Object(a, n) : m[z] = c
    <3>1. PICK z \in Addresses : a <= z /\ m[z] = c
      BY <2>2 DEF Object
    <3>2. z \in Nat /\ z <= AddrMod - 2
      BY AddressRange
    <3>3. ~(z < b)
      BY <1>1, <3>1, <3>2
    <3> QED BY <1>1, <3>2, <3>3
  <2> QED BY <2>1, <2>2 DEF Ends
<1>3. b \in Addresses
  BY <1>1, <1>2, IsAddress
<1> QED BY <1>1, <1>3 DEF Until, Object

LEMMA Lesser ==
    ASSUME NEW i \in Int, NEW j \in Int
    PROVE  Min({i, j}) = IF i <= j THEN i ELSE j
<1> DEFINE k == IF i <= j THEN i ELSE j
<1>1. k \in {i, j} /\ \A y \in {i, j} : k <= y
  OBVIOUS
<1>2. \A x \in {i, j} : (\A y \in {i, j} : x <= y) => x = k
  OBVIOUS
<1> HIDE DEF k
<1>3. Min({i, j}) = k
  BY <1>1, <1>2 DEF Min
<1> QED BY <1>3 DEF k

\* Where a loop over n characters from a on ends: at the end of the object or at
\* that of memory, whichever comes first.
EndOf(a, n) == (a + Clamped(a, n)) % AddrMod

LEMMA EndBounds ==
    ASSUME NEW a \in Addresses, NEW n \in Nat, NEW e, e = EndOf(a, n)
    PROVE  /\ e \in Nat /\ a <= e /\ e <= AddrMod - 1 /\ e <= a + n
           /\ e = a + n \/ e = AddrMod - 1
           /\ n > 0 => a < e
           /\ \A b \in Object(a, n) : b < e
<1>1. a \in Nat /\ 1 <= a /\ a <= AddrMod - 2 /\ AddrMod \in Nat /\ a # NULL
  BY AddressRange
<1> DEFINE d == AddrMod - 1 - a
<1>2. d \in Nat /\ n \in Int
  BY <1>1
<1>3. Clamped(a, n) = IF n <= d THEN n ELSE d
  BY <1>2, Lesser DEF Clamped, PLATFORM_MAX_ADDR
<1> DEFINE x == a + Clamped(a, n)
<1>4. x \in Nat /\ a <= x /\ x <= AddrMod - 1 /\ x <= a + n /\ (x = a + n \/ x = AddrMod - 1)
      /\ (n > 0 => a < x)
  BY <1>1, <1>2, <1>3
<1> HIDE DEF x
<1>5. x % AddrMod = x
  BY <1>1, <1>4
<1>6. e = x
  BY <1>5 DEF EndOf, x
<1>7. ASSUME NEW b \in Object(a, n) PROVE b < e
  <2>1. b \in Nat /\ b <= AddrMod - 2 /\ b - a < n
    BY AddressRange DEF Object
  <2> QED BY <1>1, <1>4, <1>6, <2>1
<1> QED BY <1>4, <1>6, <1>7

LEMMA NextAddress ==
    ASSUME NEW a \in Addresses
    PROVE  Up(a) = a + 1
<1>1. a \in Nat /\ a <= AddrMod - 2 /\ AddrMod \in Nat
  BY AddressRange
<1> QED BY <1>1 DEF Up

-----------------------------------------------------------------------------
(* The inductive invariant: where each loop is, and what it knows of the   *)
(* characters behind it. `mem` is the original memory for all functions    *)
(* but strzcpy().                                                          *)

\* The call is one that the function may be called with.
Args ==
    /\ call \in Calls /\ original \in Memories /\ IsCall(call, original) /\ signed \in BOOLEAN

Top == EndOf(call.s1, call.n)

\* The character at x is what memchr(), strnlen() or memrchr() look for.
Hit(x) == AsInt(original[x]) = Sought

\* The loops of strlen() and atoi(): no NUL so far.
Scanning(fns) ==
    /\ call.fn \in fns /\ call.s1 # NULL /\ mem = original
    /\ p \in Until(original, call.s1, AddrMod, 0)

Finding ==
    /\ call.fn \in {"memchr", "strnlen"} /\ call.s1 # NULL /\ mem = original
    /\ end = Top /\ p \in call.s1 .. end
    /\ \A x \in call.s1 .. p-1 : ~Hit(x)

FindingBack ==
    /\ call.fn = "memrchr" /\ call.s1 # NULL /\ mem = original
    /\ end = call.s1 /\ p \in end .. Top
    /\ \A x \in p .. Top-1 : ~Hit(x)

\* So far the objects are the same, and neither string has ended.
Comparing ==
    /\ call.fn \in {"memcmp", "strcmp", "strncmp"} /\ mem = original
    /\ call.s1 # NULL /\ call.s2 # NULL
    /\ p \in Addresses /\ q \in Addresses /\ p >= call.s1 /\ q - call.s2 = p - call.s1
    /\ \A j \in 0 .. p - call.s1 - 1 :
          /\ original[call.s1 + j] = original[call.s2 + j]
          /\ call.fn # "memcmp" => original[call.s1 + j] # 0
    /\ call.fn # "strcmp" => call.n > 0 /\ end = Top /\ p < end

\* The characters of the source up to q are in the destination up to p.
Copying ==
    /\ call.fn = "strzcpy" /\ call.n > 0
    /\ p \in Nat /\ q \in Nat /\ p >= call.s1 /\ q - call.s2 = p - call.s1
    /\ end = call.n - (p - call.s1) /\ end >= 1
    /\ mem = [a \in Addresses |-> IF a \in call.s1 .. p-1 THEN original[call.s2 + (a - call.s1)]
                                  ELSE original[a]]
    /\ \A x \in call.s2 .. q-1 : original[x] # 0

At ==
    /\ loop = "enter"    => p = call.s1 /\ q = call.s2 /\ mem = original /\ read = {}
    /\ loop = "length"   => Scanning({"strlen"})
    /\ loop = "blanks"   => Scanning({"atoi"})
    /\ loop = "digits"   => Scanning({"atoi"})
    /\ loop = "find"     => Finding
    /\ loop = "findback" => FindingBack
    /\ loop = "compare"  => Comparing
    /\ loop = "copy"     => Copying

Results == FindsFirst /\ ComparesInOrder /\ CopiesTruncated

Inv == Args /\ At /\ NotOverread /\ Results

-----------------------------------------------------------------------------
(* Calls *)

SameCall == call' = call /\ signed' = signed /\ original' = original

LEMMA SameReadable == SameCall => Readable' = Readable /\ FindsByte' = FindsByte
BY DEF SameCall, Readable, FindsByte

LEMMA SameArgs == SameCall /\ Args => Args'
BY DEF SameCall, Args

LEMMA SameHit == SameCall => Top' = Top /\ \A x : Hit(x)' = Hit(x)
BY DEF SameCall, Top, Hit, AsInt, Sought

LEMMA Facts ==
    ASSUME Args
    PROVE  /\ call.fn \in Functions
           /\ AddrMod \in Nat /\ ByteMod \in Nat
           /\ call.s1 \in Nat /\ (call.s1 # NULL => call.s1 \in Addresses)
           /\ call.s2 \in Nat /\ (call.s2 # NULL => call.s2 \in Addresses)
           /\ call.n \in Nat /\ call.n <= AddrMod - 1
           /\ call.c \in Nat /\ call.c < ByteMod
           /\ \A x \in Addresses : original[x] \in Nat /\ original[x] < ByteMod
           /\ original \in [Addresses -> 0 .. ByteMod-1]
<1>1. /\ call \in [fn : Functions, s1 : Addresses \cup {NULL}, s2 : Addresses \cup {NULL},
                   c : 0 .. ByteMod-1, n : 0 .. AddrMod-1]
      /\ original \in [Addresses -> 0 .. ByteMod-1] /\ AddrMod \in Nat /\ ByteMod \in Nat
  BY StringsAssumption DEF Args
<1>2. /\ call.fn \in Functions
      /\ call.s1 \in Addresses \cup {NULL} /\ call.s2 \in Addresses \cup {NULL}
      /\ call.n \in 0 .. AddrMod-1 /\ call.c \in 0 .. ByteMod-1
  BY <1>1
<1>3. NULL \in Nat
  BY DEF NULL
<1>4. call.s1 \in Nat /\ call.s2 \in Nat
  BY <1>2, <1>3, AddressRange
<1>5. \A x \in Addresses : original[x] \in 0 .. ByteMod-1
  BY <1>1
<1> QED BY <1>1, <1>2, <1>4, <1>5

LEMMA Promised ==
    ASSUME Args
    PROVE  /\ call.fn = "atoi" => IsString(original, call.s1)
           /\ call.fn = "strlen" => call.s1 = NULL \/ IsString(original, call.s1)
           /\ call.fn = "strnlen" => Ends(original, call.s1, call.n, 0)
           /\ call.fn = "memchr" => Ends(original, call.s1, call.n, call.c)
           /\ call.fn = "memrchr" => call.s1 # NULL /\ Cardinality(Object(call.s1, call.n)) = call.n
           /\ call.fn = "memcmp" =>
                 LET n == IF NULL \in {call.s1, call.s2} THEN 1 ELSE call.n
                 IN  \A s \in {call.s1, call.s2} \ {NULL} : Cardinality(Object(s, n)) = n
           /\ call.fn = "strcmp" => \A s \in {call.s1, call.s2} \ {NULL} : IsString(original, s)
           /\ call.fn = "strncmp" => \A s \in {call.s1, call.s2} \ {NULL} : Ends(original, s, call.n, 0)
           /\ call.fn = "strzcpy" =>
                 /\ call.s1 # NULL /\ Cardinality(Object(call.s1, call.n)) = call.n
                 /\ Ends(original, call.s2, Characters(call.n), 0)
                 /\ Object(call.s1, call.n) \cap Until(original, call.s2, Characters(call.n), 0) = {}
BY DEF Args, IsCall

\* A hit is the character sought, for memchr() if its argument is a char's value.
LEMMA HitMeans ==
    ASSUME Args, NEW x \in Addresses
    PROVE  /\ call.fn = "strnlen" => (Hit(x) <=> original[x] = 0)
           /\ call.fn # "strnlen" /\ FindsByte => (Hit(x) <=> original[x] = call.c)
<1>1. /\ original[x] \in Nat /\ original[x] < ByteMod /\ call.c \in Nat /\ signed \in BOOLEAN
      /\ ByteMod \in Nat /\ ByteMod \div 2 \in Nat \ {0}
  BY Facts, StringsAssumption DEF Args
<1> DEFINE b == original[x]
<1>2. CASE signed /\ b >= ByteMod \div 2
  <2>1. AsInt(b) < 0 /\ AsInt(b) \in Int
    BY <1>1, <1>2 DEF AsInt
  <2> QED BY <1>1, <1>2, <2>1 DEF Hit, Sought, FindsByte
<1>3. CASE ~(signed /\ b >= ByteMod \div 2)
  <2>1. AsInt(b) = b
    BY <1>1, <1>3 DEF AsInt
  <2> QED BY <2>1 DEF Hit, Sought
<1> QED BY <1>2, <1>3

\* A loop goes on, and has read only what it may.
LEMMA GoesOnWell ==
    ASSUME Inv, SameCall, loop' # "done", At', NEW X, read' = read \cup X,
           FindsByte \/ call.fn # "memchr" => X \subseteq Readable
    PROVE  Inv'
<1>1. Readable' = Readable /\ FindsByte' = FindsByte /\ Args' /\ call' = call
  BY SameReadable, SameArgs DEF Inv, SameCall
<1>2. NotOverread'
  BY <1>1 DEF Inv, NotOverread
<1>3. Results'
  BY DEF Results, FindsFirst, ComparesInOrder, CopiesTruncated, Done
<1> QED BY <1>1, <1>2, <1>3 DEF Inv

\* A function returns.
LEMMA ReturnsWell ==
    ASSUME Inv, SameCall, loop' = "done", Results', NEW X, read' = read \cup X,
           FindsByte \/ call.fn # "memchr" => X \subseteq Readable
    PROVE  Inv'
<1>1. Readable' = Readable /\ FindsByte' = FindsByte /\ Args' /\ call' = call
  BY SameReadable, SameArgs DEF Inv, SameCall
<1>2. NotOverread'
  BY <1>1 DEF Inv, NotOverread
<1>3. At'
  BY DEF At
<1> QED BY <1>1, <1>2, <1>3 DEF Inv

-----------------------------------------------------------------------------
(* What is found *)

LEMMA LeastIs ==
    ASSUME NEW S, S \subseteq Int, NEW x \in S, \A y \in S : x <= y
    PROVE  Min(S) = x
<1>1. \A z \in S : (\A y \in S : z <= y) => z = x
  OBVIOUS
<1> QED BY <1>1 DEF Min

LEMMA GreatestIs ==
    ASSUME NEW S, S \subseteq Int, NEW x \in S, \A y \in S : x >= y
    PROVE  Max(S) = x
<1>1. \A z \in S : (\A y \in S : z >= y) => z = x
  OBVIOUS
<1> QED BY <1>1 DEF Max

\* The characters before the first c, if there is one ...
LEMMA UntilFirst ==
    ASSUME NEW m, NEW a \in Addresses, NEW n \in Nat, NEW c, NEW b \in Until(m, a, n, c), m[b] = c
    PROVE  /\ Until(m, a, n, c) = a .. b
           /\ {x \in Until(m, a, n, c) : m[x] # c} = a .. b-1
<1>1. b \in Addresses /\ a <= b /\ b - a < n /\ \A x \in a .. b-1 : m[x] # c
  BY DEF Until, Object
<1>2. /\ a \in Nat /\ 1 <= a /\ a # NULL /\ b \in Nat /\ b <= AddrMod - 2 /\ AddrMod \in Nat
  BY <1>1, AddressRange
<1>3. ASSUME NEW x \in Until(m, a, n, c) PROVE x \in a .. b
  <2>1. x \in Addresses /\ a <= x /\ \A y \in a .. x-1 : m[y] # c
    BY DEF Until, Object
  <2>2. x \in Nat
    BY <2>1, AddressRange
  <2>3. ~(b < x)
    BY <1>1, <1>2, <2>1, <2>2
  <2> QED BY <1>2, <2>1, <2>2, <2>3
<1>4. ASSUME NEW x \in a .. b PROVE x \in Until(m, a, n, c)
  <2>1. x \in Addresses
    BY <1>2, IsAddress
  <2>2. \A y \in a .. x-1 : y \in a .. b-1
    BY <1>2
  <2> QED BY <1>1, <1>2, <2>1, <2>2 DEF Until, Object
<1>5. Until(m, a, n, c) = a .. b
  BY <1>3, <1>4
<1>6. {x \in a .. b : m[x] # c} = a .. b-1
  BY <1>1, <1>2
<1> QED BY <1>5, <1>6

\* ... and if there is none.
LEMMA UntilNone ==
    ASSUME NEW m, NEW a \in Addresses, NEW n \in Nat, NEW c, a + n <= AddrMod - 1,
           \A x \in a .. a+n-1 : m[x] # c
    PROVE  {x \in Until(m, a, n, c) : m[x] # c} = a .. a+n-1
<1>1. a \in Nat /\ 1 <= a /\ a # NULL /\ AddrMod \in Nat
  BY AddressRange
<1>2. ASSUME NEW x \in Until(m, a, n, c) PROVE x \in a .. a+n-1
  <2>1. x \in Addresses /\ a <= x /\ x - a < n
    BY DEF Until, Object
  <2>2. x \in Nat
    BY <2>1, AddressRange
  <2> QED BY <1>1, <2>1, <2>2
<1>3. ASSUME NEW x \in a .. a+n-1 PROVE x \in Until(m, a, n, c)
  <2>1. x \in Addresses
    BY <1>1, IsAddress
  <2>2. \A y \in a .. x-1 : y \in a .. a+n-1
    BY <1>1
  <2> QED BY <1>1, <2>1, <2>2 DEF Until, Object
<1> QED BY <1>2, <1>3

LEMMA FirstCharacter ==
    ASSUME NEW m, NEW a \in Addresses, NEW n \in Nat, n > 0, NEW c
    PROVE  a \in Until(m, a, n, c)
<1>1. a \in Nat /\ a # NULL
  BY AddressRange
<1> QED BY <1>1 DEF Until, Object

-----------------------------------------------------------------------------
(* strlen() and atoi() *)

LEMMA ScanOn ==
    ASSUME Args, call.fn \in {"strlen", "atoi"}, call.s1 # NULL,
           p \in Until(original, call.s1, AddrMod, 0)
    PROVE  /\ p \in Readable
           /\ original[p] # 0 => Up(p) \in Until(original, call.s1, AddrMod, 0)
<1> DEFINE a == call.s1
<1>1. a \in Addresses /\ AddrMod \in Nat /\ Ends(original, a, AddrMod, 0)
  BY Facts, Promised DEF IsString
<1>2. p \in Addresses /\ a <= p /\ \A x \in a .. p-1 : original[x] # 0
  BY DEF Until, Object
<1>3. a \in Nat /\ 1 <= a /\ p \in Nat /\ p <= AddrMod - 2 /\ Up(p) = p + 1
  BY <1>1, <1>2, AddressRange, NextAddress
<1> HIDE DEF a
<1>4. ASSUME original[p] # 0 PROVE Up(p) \in Until(original, a, AddrMod, 0)
  <2> DEFINE b == p + 1
  <2>1. b \in Nat /\ a <= b /\ b - a < AddrMod
    BY <1>1, <1>3, <1>2
  <2>2. \A x \in a .. b-1 : original[x] # 0
    BY <1>2, <1>3, <1>4
  <2> HIDE DEF b
  <2>3. b \in Until(original, a, AddrMod, 0)
    BY <1>1, <2>1, <2>2, StillInside
  <2> QED BY <1>3, <2>3 DEF b
<1> QED BY <1>4 DEF Readable, a

LEMMA StrlenStep == Inv /\ strlen => Inv'
<1> SUFFICES ASSUME Inv, strlen PROVE Inv'
  OBVIOUS
<1>1. Args /\ call.fn = "strlen" /\ p = call.s1 /\ mem = original /\ SameCall
  BY DEF Inv, At, strlen, Enter, Return, Begin, SameCall
<1>2. CASE call.s1 = NULL
  <2>1. loop' = "done" /\ read' = read \cup {} /\ ret' = 0
    BY <1>2 DEF strlen, Return, Read
  <2>2. Results'
    BY <1>1, <1>2, <2>1 DEF Results, FindsFirst, ComparesInOrder, CopiesTruncated, Done, SameCall
  <2> QED BY <1>1, <2>1, <2>2, ReturnsWell
<1>3. CASE call.s1 # NULL
  <2>1. loop' = "length" /\ read' = read \cup {} /\ p' = p /\ mem' = mem
    BY <1>3 DEF strlen, Begin
  <2>2. p \in Until(original, call.s1, AddrMod, 0)
    BY <1>1, <1>3, Facts, FirstCharacter, StringsAssumption
  <2>3. At'
    BY <1>1, <1>3, <2>1, <2>2 DEF At, Scanning, SameCall
  <2> QED BY <1>1, <2>1, <2>3, GoesOnWell
<1> QED BY <1>2, <1>3

LEMMA LengthStep == Inv /\ Length => Inv'
<1> SUFFICES ASSUME Inv, Length PROVE Inv'
  OBVIOUS
<1>1. /\ Args /\ call.fn = "strlen" /\ mem = original /\ call.s1 # NULL /\ SameCall /\ mem' = mem
      /\ p \in Until(original, call.s1, AddrMod, 0) /\ read' = read \cup {p}
  BY DEF Inv, At, Scanning, Length, Return, Advance, Read, SameCall
<1>2. {p} \subseteq Readable
  BY <1>1, ScanOn
<1>3. CASE mem[p] = 0
  <2>1. loop' = "done" /\ ret' = p - call.s1
    BY <1>3 DEF Length, Return
  <2>2. Cardinality(Until(original, call.s1, AddrMod, 0)) - 1 = p - call.s1
    <3> DEFINE a == call.s1
               b == p + 1
    <3>1. a \in Addresses /\ AddrMod \in Nat
      BY <1>1, Facts
    <3>2. Until(original, a, AddrMod, 0) = a .. p /\ p \in Addresses /\ a <= p
      BY <1>1, <1>3, <3>1, UntilFirst DEF Until, Object
    <3>3. a \in Nat /\ p \in Nat
      BY <3>1, <3>2, AddressRange
    <3>4. b \in Nat /\ a <= b /\ Until(original, a, AddrMod, 0) = a .. b-1
      BY <3>2, <3>3
    <3> HIDE DEF a, b
    <3>5. Cardinality(Until(original, a, AddrMod, 0)) = b - a
      BY <3>3, <3>4, Counted
    <3> QED BY <3>3, <3>5 DEF a, b
  <2>3. Results'
    BY <1>1, <2>1, <2>2 DEF Results, FindsFirst, ComparesInOrder, CopiesTruncated, Done, SameCall
  <2> QED BY <1>1, <1>2, <2>1, <2>3, ReturnsWell
<1>4. CASE mem[p] # 0
  <2>1. loop' = "length" /\ p' = Up(p)
    BY <1>4 DEF Length, Advance
  <2>2. Up(p) \in Until(original, call.s1, AddrMod, 0)
    BY <1>1, <1>4, ScanOn
  <2>3. At'
    BY <1>1, <2>1, <2>2 DEF At, Scanning, SameCall
  <2> QED BY <1>1, <1>2, <2>1, <2>3, GoesOnWell
<1> QED BY <1>3, <1>4

LEMMA AtoiStep == Inv /\ atoi => Inv'
<1> SUFFICES ASSUME Inv, atoi PROVE Inv'
  OBVIOUS
<1>1. /\ Args /\ call.fn = "atoi" /\ p = call.s1 /\ mem = original /\ SameCall
      /\ loop' = "blanks" /\ read' = read \cup {} /\ p' = p /\ mem' = mem
  BY DEF Inv, At, atoi, Enter, Begin, SameCall
<1>2. call.s1 # NULL
  BY <1>1, Promised DEF IsString, Ends
<1>3. p \in Until(original, call.s1, AddrMod, 0)
  BY <1>1, <1>2, Facts, FirstCharacter, StringsAssumption
<1>4. At'
  BY <1>1, <1>2, <1>3 DEF At, Scanning, SameCall
<1> QED BY <1>1, <1>4, GoesOnWell

\* Neither a blank nor a sign nor a digit is the NUL.
LEMMA ReadStep == Inv /\ (SkipBlank \/ Sign \/ Digit \/ NoDigit) => Inv'
<1> SUFFICES ASSUME Inv, SkipBlank \/ Sign \/ Digit \/ NoDigit PROVE Inv'
  OBVIOUS
<1>1. /\ Args /\ call.fn = "atoi" /\ mem = original /\ call.s1 # NULL /\ SameCall /\ mem' = mem
      /\ p \in Until(original, call.s1, AddrMod, 0) /\ read' = read \cup {p}
  BY DEF Inv, At, Scanning, SkipBlank, Sign, Digit, NoDigit, Return, Advance, Read, SameCall
<1>2. {p} \subseteq Readable
  BY <1>1, ScanOn
<1>3. CASE loop' = "done"
  <2>1. Results'
    BY <1>1, <1>3 DEF Results, FindsFirst, ComparesInOrder, CopiesTruncated, Done, SameCall
  <2> QED BY <1>1, <1>2, <1>3, <2>1, ReturnsWell
<1>4. CASE loop' # "done"
  <2>1. loop' = "blanks" \/ loop' = "digits"
    BY <1>4 DEF SkipBlank, Sign, Digit, NoDigit, Return, Advance
  <2>2. p' = p \/ (p' = Up(p) /\ mem[p] # 0)
    <3>1. CASE SkipBlank \/ Digit \/ NoDigit
      BY <1>4, <3>1 DEF SkipBlank, Digit, NoDigit, Return, Advance, isspace, isdigit
    <3>2. CASE Sign
      <4>1. p' = IF minus' THEN Up(p) ELSE p
        BY <3>2 DEF Sign
      <4>2. minus' => mem[p] = 45
        BY <3>2, Zenon DEF Sign
      <4>3. mem[p] = 45 => mem[p] # 0
        OBVIOUS
      <4> QED BY <4>1, <4>2, <4>3
    <3> QED BY <3>1, <3>2
  <2>3. p' \in Until(original, call.s1, AddrMod, 0)
    BY <1>1, <2>2, ScanOn
  <2>4. At'
    BY <1>1, <2>1, <2>3 DEF At, Scanning, SameCall
  <2> QED BY <1>1, <1>2, <1>4, <2>4, GoesOnWell
<1> QED BY <1>3, <1>4

-----------------------------------------------------------------------------
(* memchr(), strnlen() and memrchr() *)

LEMMA MemchrStep == Inv /\ memchr => Inv'
<1> SUFFICES ASSUME Inv, memchr PROVE Inv'
  OBVIOUS
<1>1. /\ Args /\ call.fn \in {"memchr", "strnlen"} /\ p = call.s1 /\ mem = original /\ SameCall
      /\ loop' = "find" /\ read' = read \cup {} /\ p' = p /\ mem' = mem /\ end' = Top
  BY DEF Inv, At, memchr, Enter, Begin, SameCall, Top, EndOf
<1>2. call.s1 # NULL
  BY <1>1, Promised DEF Ends
<1>3. /\ call.s1 \in Nat /\ Top \in Nat /\ call.s1 <= Top
  BY <1>1, <1>2, Facts, EndBounds DEF Top
<1>4. p \in call.s1 .. Top /\ \A x \in call.s1 .. p-1 : ~Hit(x)
  BY <1>1, <1>3
<1>5. Finding'
  BY <1>1, <1>2, <1>4, SameHit DEF Finding, SameCall
<1>6. At'
  BY <1>1, <1>5 DEF At
<1> QED BY <1>1, <1>6, GoesOnWell

\* What the loop of memchr() knows of the character it looks at.
LEMMA FindOn ==
    ASSUME Args, Finding, p < end
    PROVE  /\ p \in Addresses /\ call.s1 \in Addresses /\ p \in Nat /\ p < Top /\ p + 1 \in call.s1 .. end
           /\ call.s1 <= p /\ p \in Object(call.s1, call.n) /\ Up(p) = p + 1
           /\ call.fn = "strnlen" => p \in Until(original, call.s1, call.n, 0)
           /\ call.fn = "memchr" /\ FindsByte => p \in Until(original, call.s1, call.n, call.c)
<1> DEFINE a == call.s1
           n == call.n
<1>1. a \in Addresses /\ n \in Nat
  BY Facts DEF Finding
<1>2. /\ p \in a .. end /\ end = Top /\ Top \in Nat /\ Top <= AddrMod - 1 /\ Top <= a + n
      /\ \A x \in a .. p-1 : ~Hit(x)
  BY <1>1, EndBounds DEF Finding, Top
<1>3. a \in Nat /\ 1 <= a /\ a # NULL /\ AddrMod \in Nat /\ a <= AddrMod - 2
  BY <1>1, AddressRange
<1> HIDE DEF a, n
<1>4. p \in Nat /\ a <= p /\ p < Top /\ p <= AddrMod - 2 /\ p - a < n /\ p + 1 \in a .. end
  BY <1>1, <1>2, <1>3
<1>5. p \in Addresses /\ Up(p) = p + 1
  BY <1>3, <1>4, IsAddress, NextAddress
<1>6. p \in Object(a, n)
  BY <1>3, <1>4, <1>5 DEF Object
<1>7. \A x \in a .. p-1 : x \in Addresses /\ ~Hit(x)
  BY <1>2, <1>3, <1>4, IsAddress
<1>8. call.fn = "strnlen" => \A x \in a .. p-1 : original[x] # 0
  BY <1>7, HitMeans
<1>9. call.fn = "memchr" /\ FindsByte => \A x \in a .. p-1 : original[x] # call.c
  BY <1>7, HitMeans
<1> QED BY <1>1, <1>4, <1>5, <1>6, <1>8, <1>9 DEF Until, a, n

LEMMA FindStep == Inv /\ Find => Inv'
<1> SUFFICES ASSUME Inv, Find PROVE Inv'
  OBVIOUS
<1>1. /\ Args /\ Finding /\ p < end /\ SameCall /\ mem' = mem /\ read' = read \cup {p}
      /\ mem = original /\ call.fn \in {"memchr", "strnlen"} /\ call.s1 # NULL
  BY DEF Inv, At, Finding, Find, Return, Advance, Read, SameCall
<1>2. FindsByte \/ call.fn # "memchr" => {p} \subseteq Readable
  BY <1>1, FindOn DEF Readable
<1>3. CASE Hit(p)
  <2>1. loop' = "done" /\ ret' = IF call.fn = "strnlen" THEN p - call.s1 ELSE p
    BY <1>1, <1>3 DEF Find, Return, Hit
  <2>2. ASSUME call.fn = "strnlen"
        PROVE  ret' = Cardinality({b \in Until(original, call.s1, call.n, 0) : original[b] # 0})
    <3> DEFINE a == call.s1
    <3>1. /\ p \in Until(original, a, call.n, 0) /\ original[p] = 0 /\ p \in Nat /\ a <= p
          /\ a \in Addresses /\ call.n \in Nat
      BY <1>1, <1>3, <2>2, FindOn, HitMeans, Facts
    <3>2. {b \in Until(original, a, call.n, 0) : original[b] # 0} = a .. p-1
      BY <3>1, UntilFirst
    <3>3. Cardinality(a .. p-1) = p - a
      BY <3>1, AddressRange, Counted
    <3> QED BY <2>1, <2>2, <3>2, <3>3
  <2>3. ASSUME call.fn = "memchr", FindsByte
        PROVE  LET hits == {b \in Object(call.s1, call.n) : original[b] = call.c}
               IN  ret' = IF hits = {} THEN NULL ELSE Min(hits)
    <3> DEFINE hits == {b \in Object(call.s1, call.n) : original[b] = call.c}
    <3>1. /\ p \in hits /\ p \in Nat /\ \A x \in call.s1 .. p-1 : original[x] # call.c
      BY <1>1, <1>3, <2>3, FindOn, HitMeans DEF Until
    <3>2. hits \subseteq Int /\ \A y \in hits : p <= y
      <4> SUFFICES ASSUME NEW y \in hits PROVE y \in Int /\ p <= y
        OBVIOUS
      <4>1. y \in Nat /\ call.s1 <= y /\ original[y] = call.c /\ call.s1 \in Nat
        BY <1>1, AddressRange, Facts DEF Object
      <4> QED BY <3>1, <4>1
    <3> HIDE DEF hits
    <3>3. Min(hits) = p
      BY <3>1, <3>2, LeastIs
    <3> QED BY <2>1, <2>3, <3>1, <3>3 DEF hits
  <2>4. Results'
    BY <1>1, <2>1, <2>2, <2>3, SameReadable DEF Results, FindsFirst, ComparesInOrder, CopiesTruncated, Done, SameCall
  <2> QED BY <1>1, <1>2, <2>1, <2>4, ReturnsWell
<1>4. CASE ~Hit(p)
  <2>1. loop' = "find" /\ p' = p + 1 /\ end' = end
    BY <1>1, <1>4, FindOn DEF Find, Advance, Hit
  <2>2. p + 1 \in call.s1 .. end /\ \A x \in call.s1 .. (p + 1) - 1 : ~Hit(x)
    <3>1. p + 1 \in call.s1 .. end /\ p \in Nat /\ call.s1 \in Nat
      BY <1>1, FindOn, Facts
    <3>2. \A x \in call.s1 .. (p + 1) - 1 : x = p \/ x \in call.s1 .. p-1
      BY <3>1
    <3> QED BY <1>1, <1>4, <3>1, <3>2 DEF Finding
  <2>3. Finding'
    BY <1>1, <2>1, <2>2, SameHit DEF Finding, SameCall
  <2>4. At'
    BY <2>1, <2>3 DEF At
  <2> QED BY <1>1, <1>2, <2>1, <2>4, GoesOnWell
<1> QED BY <1>3, <1>4

LEMMA NotFoundStep == Inv /\ NotFound => Inv'
<1> SUFFICES ASSUME Inv, NotFound PROVE Inv'
  OBVIOUS
<1> DEFINE a == call.s1
           n == call.n
<1>1. /\ Args /\ Finding /\ SameCall /\ read' = read \cup {} /\ mem' = mem /\ mem = original
      /\ loop' = "done" /\ ret' = (IF call.fn = "strnlen" THEN n ELSE NULL)
      /\ call.fn \in {"memchr", "strnlen"} /\ ~(p < end)
  BY DEF Inv, At, Finding, NotFound, Return, Read, SameCall
<1>2. a \in Addresses /\ n \in Nat /\ a \in Nat /\ a # NULL /\ AddrMod \in Nat
  BY <1>1, Facts, AddressRange DEF Finding
<1>3. /\ Top \in Nat /\ a <= Top /\ Top <= AddrMod - 1 /\ Top <= a + n
      /\ Top = a + n \/ Top = AddrMod - 1
      /\ \A b \in Object(a, n) : b < Top
  BY <1>2, EndBounds DEF Top
<1>4. p = Top /\ \A x \in a .. Top-1 : ~Hit(x)
  BY <1>1, <1>2, <1>3 DEF Finding
<1>5. \A x \in a .. Top-1 : x \in Addresses
  BY <1>2, <1>3, AddressRange, IsAddress
<1>6. ASSUME call.fn = "strnlen"
      PROVE  ret' = Cardinality({b \in Until(original, call.s1, call.n, 0) : original[b] # 0})
  <2>1. \A x \in a .. Top-1 : original[x] # 0
    BY <1>1, <1>4, <1>5, <1>6, HitMeans
  <2>2. Ends(original, a, n, 0)
    BY <1>1, <1>6, Promised
  <2>3. a + n <= AddrMod - 1
    <3>1. CASE Cardinality(Object(a, n)) = n
      BY <1>2, <3>1, WholeObject
    <3>2. CASE \E b \in Object(a, n) : original[b] = 0
      <4>1. PICK b \in Object(a, n) : original[b] = 0
        BY <3>2
      <4>2. b \in Nat /\ a <= b /\ b < Top
        BY <1>3, AddressRange DEF Object
      <4> QED BY <1>2, <1>3, <2>1, <4>1, <4>2
    <3> QED BY <2>2, <3>1, <3>2 DEF Ends
  <2>4. Top = a + n
    BY <1>2, <1>3, <2>3
  <2>8. ret' = n
    BY <1>1, <1>6
  <2> HIDE DEF a, n
  <2>5. {x \in Until(original, a, n, 0) : original[x] # 0} = a .. a+n-1
    BY <1>2, <2>1, <2>3, <2>4, UntilNone
  <2> DEFINE b == a + n
  <2>6. b \in Nat /\ a <= b /\ b - a = n
    BY <1>2
  <2> HIDE DEF b
  <2>7. Cardinality(a .. b-1) = n
    BY <1>2, <2>6, Counted
  <2>9. a .. b-1 = a .. a+n-1
    BY <1>2 DEF b
  <2>10. Cardinality({x \in Until(original, a, n, 0) : original[x] # 0}) = n
    BY <2>5, <2>7, <2>9
  <2> QED BY <2>8, <2>10 DEF a, n
<1>7. ASSUME call.fn = "memchr", FindsByte
      PROVE  LET hits == {b \in Object(call.s1, call.n) : original[b] = call.c}
             IN  ret' = IF hits = {} THEN NULL ELSE Min(hits)
  <2>1. ASSUME NEW b \in Object(a, n) PROVE original[b] # call.c
    <3>1. b \in Addresses /\ b \in Nat /\ a <= b /\ b < Top
      BY <1>3, AddressRange DEF Object
    <3>2. ~Hit(b)
      BY <1>2, <1>3, <1>4, <3>1
    <3> QED BY <1>1, <1>7, <3>1, <3>2, HitMeans
  <2> QED BY <1>1, <1>7, <2>1
<1>8. Results'
  BY <1>1, <1>6, <1>7, SameReadable DEF Results, FindsFirst, ComparesInOrder, CopiesTruncated, Done, SameCall
<1> QED BY <1>1, <1>8, ReturnsWell

LEMMA MemrchrStep == Inv /\ memrchr => Inv'
<1> SUFFICES ASSUME Inv, memrchr PROVE Inv'
  OBVIOUS
<1>1. /\ Args /\ call.fn = "memrchr" /\ p = call.s1 /\ mem = original /\ SameCall
      /\ loop' = "findback" /\ read' = read \cup {} /\ end' = call.s1 /\ mem' = mem /\ p' = Top
  BY DEF Inv, At, memrchr, Enter, Begin, SameCall, Top, EndOf
<1>2. call.s1 # NULL
  BY <1>1, Promised
<1>3. /\ call.s1 \in Nat /\ Top \in Nat /\ call.s1 <= Top
  BY <1>1, <1>2, Facts, EndBounds DEF Top
<1>4. Top \in call.s1 .. Top /\ \A x \in Top .. Top-1 : ~Hit(x)
  BY <1>3
<1>5. FindingBack'
  BY <1>1, <1>2, <1>4, SameHit DEF FindingBack, SameCall
<1>6. At'
  BY <1>1, <1>5 DEF At
<1> QED BY <1>1, <1>6, GoesOnWell

\* What the loop of memrchr() knows.
LEMMA FindBackOn ==
    ASSUME Args, FindingBack
    PROVE  /\ Top \in Nat /\ p \in Nat /\ call.s1 \in Nat
           /\ \A b \in Object(call.s1, call.n) : b \in Nat /\ call.s1 <= b /\ b < Top
           /\ FindsByte => \A x \in p .. Top-1 : original[x] # call.c
           /\ p > end => p - 1 \in end .. Top /\ p - 1 \in Addresses /\ p - 1 \in Object(call.s1, call.n)
<1> DEFINE a == call.s1
           n == call.n
<1>1. a \in Addresses /\ n \in Nat /\ a \in Nat /\ 1 <= a /\ a # NULL /\ AddrMod \in Nat
  BY Facts, AddressRange DEF FindingBack
<1>2. /\ Top \in Nat /\ a <= Top /\ Top <= AddrMod - 1 /\ Top <= a + n
      /\ \A b \in Object(a, n) : b < Top
  BY <1>1, EndBounds DEF Top
<1>3. p \in Nat /\ a <= p /\ p <= Top /\ end = a /\ call.fn = "memrchr" /\ \A x \in p .. Top-1 : ~Hit(x)
  BY <1>1, <1>2 DEF FindingBack
<1>4. \A b \in Object(a, n) : b \in Nat /\ a <= b /\ b < Top
  BY <1>2, AddressRange DEF Object
<1>5. \A x \in p .. Top-1 : x \in Addresses
  BY <1>1, <1>2, <1>3, IsAddress
<1>6. FindsByte => \A x \in p .. Top-1 : original[x] # call.c
  BY <1>3, <1>5, HitMeans
<1> HIDE DEF a, n
<1>7. ASSUME p > end PROVE p - 1 \in end .. Top /\ p - 1 \in Addresses /\ p - 1 \in Object(a, n)
  <2>1. p - 1 \in end .. Top /\ p - 1 \in Int /\ 1 <= p - 1 /\ p - 1 <= AddrMod - 2 /\ (p - 1) - a < n
        /\ a <= p - 1
    BY <1>1, <1>2, <1>3, <1>7
  <2>2. p - 1 \in Addresses
    BY <2>1, IsAddress
  <2> QED BY <1>1, <2>1, <2>2 DEF Object
<1> QED BY <1>1, <1>2, <1>3, <1>4, <1>6, <1>7 DEF a, n

LEMMA FindBackStep == Inv /\ FindBack => Inv'
<1> SUFFICES ASSUME Inv, FindBack PROVE Inv'
  OBVIOUS
<1>1. /\ Args /\ FindingBack /\ p > end /\ SameCall /\ mem' = mem /\ read' = read \cup {p - 1}
      /\ mem = original /\ call.fn = "memrchr" /\ call.s1 # NULL /\ end = call.s1
  BY DEF Inv, At, FindingBack, FindBack, Return, Advance, Read, SameCall
<1>2. {p - 1} \subseteq Readable
  BY <1>1, FindBackOn DEF Readable
<1>3. CASE Hit(p - 1)
  <2>1. loop' = "done" /\ ret' = p - 1
    BY <1>1, <1>3 DEF FindBack, Return, Hit
  <2>2. ASSUME FindsByte
        PROVE  LET hits == {b \in Object(call.s1, call.n) : original[b] = call.c}
               IN  ret' = IF hits = {} THEN NULL ELSE Max(hits)
    <3> DEFINE hits == {b \in Object(call.s1, call.n) : original[b] = call.c}
               b == p - 1
    <3>1. b \in hits /\ b \in Nat
      BY <1>1, <1>3, <2>2, FindBackOn, HitMeans, AddressRange
    <3>2. hits \subseteq Int /\ \A y \in hits : b >= y
      <4> SUFFICES ASSUME NEW y \in hits PROVE y \in Int /\ b >= y
        OBVIOUS
      <4>1. y \in Nat /\ y < Top /\ Top \in Nat /\ p \in Nat /\ ~(y \in p .. Top-1)
        BY <1>1, <2>2, FindBackOn
      <4> QED BY <4>1
    <3> HIDE DEF hits, b
    <3>3. Max(hits) = b
      BY <3>1, <3>2, GreatestIs
    <3> QED BY <2>1, <3>1, <3>3 DEF hits, b
  <2>3. Results'
    BY <1>1, <2>1, <2>2, SameReadable DEF Results, FindsFirst, ComparesInOrder, CopiesTruncated, Done, SameCall
  <2> QED BY <1>1, <1>2, <2>1, <2>3, ReturnsWell
<1>4. CASE ~Hit(p - 1)
  <2>1. loop' = "findback" /\ p' = p - 1 /\ end' = end
    BY <1>1, <1>4 DEF FindBack, Advance, Hit
  <2>2. p - 1 \in end .. Top /\ \A x \in p - 1 .. Top-1 : ~Hit(x)
    <3>1. p - 1 \in end .. Top /\ p \in Nat /\ Top \in Nat
      BY <1>1, FindBackOn
    <3>2. \A x \in p - 1 .. Top-1 : x = p - 1 \/ x \in p .. Top-1
      BY <3>1
    <3> QED BY <1>1, <1>4, <3>1, <3>2 DEF FindingBack
  <2>3. FindingBack'
    BY <1>1, <2>1, <2>2, SameHit DEF FindingBack, SameCall
  <2>4. At'
    BY <2>1, <2>3 DEF At
  <2> QED BY <1>1, <1>2, <2>1, <2>4, GoesOnWell
<1> QED BY <1>3, <1>4

LEMMA NotFoundBackStep == Inv /\ NotFoundBack => Inv'
<1> SUFFICES ASSUME Inv, NotFoundBack PROVE Inv'
  OBVIOUS
<1>1. /\ Args /\ FindingBack /\ ~(p > end) /\ SameCall /\ mem' = mem /\ read' = read \cup {}
      /\ call.fn = "memrchr" /\ end = call.s1 /\ p \in end .. Top /\ loop' = "done" /\ ret' = NULL
  BY DEF Inv, At, FindingBack, NotFoundBack, Return, Read, SameCall
<1>2. ASSUME FindsByte, NEW b \in Object(call.s1, call.n) PROVE original[b] # call.c
  <2>1. b \in Nat /\ call.s1 <= b /\ b < Top /\ Top \in Nat /\ call.s1 \in Nat /\ p \in Nat
    BY <1>1, FindBackOn
  <2>2. b \in p .. Top-1
    BY <1>1, <2>1
  <2> QED BY <1>1, <1>2, <2>2, FindBackOn
<1>3. FindsByte => {b \in Object(call.s1, call.n) : original[b] = call.c} = {}
  BY <1>2
<1>4. Results'
  BY <1>1, <1>3, SameReadable DEF Results, FindsFirst, ComparesInOrder, CopiesTruncated, Done, SameCall
<1> QED BY <1>1, <1>4, ReturnsWell

-----------------------------------------------------------------------------
(* memcmp(), strcmp() and strncmp()                                        *)

\* FirstDifference in parts: a character, the number of places, whether one is
\* in memory, and whether the objects differ there first.
Char(s, k) == IF s = NULL THEN 0 ELSE original[s + k]

Places == Min({IF call.fn = "strcmp" THEN AddrMod ELSE call.n,
               IF NULL \in {call.s1, call.s2} THEN 1 ELSE AddrMod})

InPlace(k) == \A s \in {call.s1, call.s2} \ {NULL} : s + k \in Addresses

DifferFirst(k) ==
    /\ Char(call.s1, k) # Char(call.s2, k)
    /\ \A j \in 0 .. k-1 : /\ Char(call.s1, j) = Char(call.s2, j)
                           /\ ~(call.fn # "memcmp" /\ Char(call.s1, j) = 0)

LEMMA DifferenceParts ==
    FirstDifference = {Char(call.s1, k) - Char(call.s2, k) :
                          k \in {i \in 0 .. Places-1 : InPlace(i) /\ DifferFirst(i)}}
BY DEF FirstDifference, Char, Places, InPlace, DifferFirst

\* r is a right result of a comparison.
Compared(r) ==
    /\ r = 0 <=> FirstDifference = {}
    /\ \A x \in FirstDifference : r > 0 <=> x > 0

LEMMA PlacesAre ==
    ASSUME Args
    PROVE  /\ call.fn # "strcmp" /\ call.n = 0 => Places = 0
           /\ (call.fn = "strcmp" \/ call.n # 0) /\ NULL \in {call.s1, call.s2} => Places = 1
           /\ NULL \notin {call.s1, call.s2} => Places = IF call.fn = "strcmp" THEN AddrMod ELSE call.n
<1> DEFINE i == IF call.fn = "strcmp" THEN AddrMod ELSE call.n
           j == IF NULL \in {call.s1, call.s2} THEN 1 ELSE AddrMod
<1>1. call.n \in Nat /\ call.n <= AddrMod - 1 /\ AddrMod \in Nat /\ 1 <= AddrMod
  BY Facts, StringsAssumption
<1>2. i \in Int /\ j \in Int
  BY <1>1
<1>3. Places = Min({i, j})
  BY DEF Places
<1> HIDE DEF i, j
<1>4. Places = IF i <= j THEN i ELSE j
  BY <1>2, <1>3, Lesser
<1> QED BY <1>1, <1>4 DEF i, j

\* There is one first difference at most, ...
LEMMA DiffersAt ==
    ASSUME Args, NEW k \in Nat, k < Places, Places \in Nat, InPlace(k), DifferFirst(k),
           NEW r, r = Char(call.s1, k) - Char(call.s2, k)
    PROVE  Compared(r)
<1>1. ASSUME NEW i \in 0 .. Places-1, InPlace(i), DifferFirst(i) PROVE i = k
  <2>1. ~(i < k)
    BY <1>1 DEF DifferFirst
  <2>2. ~(k < i)
    BY <1>1 DEF DifferFirst
  <2> QED BY <2>1, <2>2
<1>2. {i \in 0 .. Places-1 : InPlace(i) /\ DifferFirst(i)} = {k}
  BY <1>1
<1>3. FirstDifference = {r}
  BY <1>2, DifferenceParts
<1>4. Char(call.s1, k) \in Int /\ Char(call.s2, k) \in Int
  BY Facts DEF Char, InPlace
<1>5. r # 0
  BY <1>4 DEF DifferFirst
<1> QED BY <1>3, <1>5 DEF Compared

\* ... and none if the characters are the same as far as they count.
LEMMA DiffersNowhere ==
    ASSUME \A k \in 0 .. Places-1 : ~(InPlace(k) /\ DifferFirst(k))
    PROVE  Compared(0)
<1>1. {i \in 0 .. Places-1 : InPlace(i) /\ DifferFirst(i)} = {}
  OBVIOUS
<1>2. FirstDifference = {}
  BY <1>1, DifferenceParts
<1> QED BY <1>2 DEF Compared

LEMMA ComparedResult ==
    ASSUME Args, SameCall, Compared(ret'), call.fn \in {"memcmp", "strcmp", "strncmp"}
    PROVE  Results'
<1>1. FirstDifference' = FirstDifference
  BY DEF FirstDifference, SameCall
<1>2. ComparesInOrder'
  BY <1>1 DEF ComparesInOrder, Compared
<1>3. call'.fn \in {"memcmp", "strcmp", "strncmp"}
  BY DEF SameCall
<1> QED BY <1>2, <1>3 DEF Results, FindsFirst, CopiesTruncated, Done

\* A comparison may read what is before the end of either object.
LEMMA ComparedReadable ==
    ASSUME Args, call.fn \in {"memcmp", "strcmp", "strncmp"}, NEW s \in {call.s1, call.s2},
           NEW x, x \in Object(s, IF call.fn = "strcmp" THEN AddrMod ELSE call.n),
           call.fn # "memcmp" => \A y \in s .. x-1 : original[y] # 0
    PROVE  x \in Readable
<1>1. CASE call.fn = "memcmp"
  BY <1>1 DEF Readable
<1>2. CASE call.fn = "strcmp"
  <2>1. x \in Until(original, s, AddrMod, 0)
    BY <1>2 DEF Until
  <2> QED BY <1>2, <2>1 DEF Readable
<1>3. CASE call.fn = "strncmp"
  <2>1. x \in Until(original, s, call.n, 0)
    BY <1>3 DEF Until
  <2> QED BY <1>3, <2>1 DEF Readable
<1> QED BY <1>1, <1>2, <1>3

\* With one null pointer the first character of the other object decides.
LEMMA AgainstNull ==
    ASSUME Args, NEW s \in {call.s1, call.s2}, s # NULL, NULL \in {call.s1, call.s2},
           call.fn = "strcmp" \/ call.n # 0, call.fn \in {"memcmp", "strcmp", "strncmp"},
           NEW r, r = Char(call.s1, 0) - Char(call.s2, 0)
    PROVE  Compared(r) /\ s \in Readable /\ Char(s, 0) = original[s]
<1>1. s \in Addresses /\ s \in Nat /\ s + 0 = s /\ call.n \in Nat /\ AddrMod \in Nat /\ AddrMod > 0
  BY Facts, AddressRange, StringsAssumption
<1>2. Places = 1
  BY PlacesAre
<1>3. InPlace(0)
  BY <1>1 DEF InPlace
<1>4. Char(s, 0) = original[s]
  BY <1>1 DEF Char
<1>5. s \in Readable
  <2>1. s \in Object(s, IF call.fn = "strcmp" THEN AddrMod ELSE call.n)
    BY <1>1 DEF Object
  <2>2. \A y \in s .. s-1 : original[y] # 0
    BY <1>1
  <2> QED BY <2>1, <2>2, ComparedReadable
<1>6. CASE Char(call.s1, 0) # Char(call.s2, 0)
  <2>1. DifferFirst(0)
    BY <1>6 DEF DifferFirst
  <2>2. Compared(r)
    BY <1>2, <1>3, <2>1, DiffersAt
  <2> QED BY <1>4, <1>5, <2>2
<1>7. CASE Char(call.s1, 0) = Char(call.s2, 0)
  <2>1. Char(call.s1, 0) \in Int /\ Char(call.s2, 0) \in Int
    BY <1>1, <1>7, Facts DEF Char
  <2>2. \A k \in 0 .. Places-1 : ~DifferFirst(k)
    BY <1>2, <1>7 DEF DifferFirst
  <2>3. r = 0
    BY <1>7, <2>1
  <2>4. Compared(r)
    BY <2>2, <2>3, DiffersNowhere
  <2> QED BY <1>4, <1>5, <2>4
<1> QED BY <1>6, <1>7

LEMMA CompareNullStep == Inv /\ CompareNull => Inv'
<1> SUFFICES ASSUME Inv, CompareNull PROVE Inv'
  OBVIOUS
<1>1. /\ Args /\ call.fn \in {"memcmp", "strcmp", "strncmp"} /\ p = call.s1 /\ q = call.s2
      /\ mem = original /\ SameCall /\ loop' = "done"
  BY DEF Inv, At, CompareNull, Enter, Return, SameCall
<1>2. CASE call.fn # "strcmp" /\ call.n = 0
  <2>1. Places = 0
    BY <1>1, <1>2, PlacesAre
  <2>2. Compared(0)
    BY <2>1, DiffersNowhere
  <2>3. ret' = 0 /\ read' = read \cup {}
    BY <1>2 DEF CompareNull, Return, Read
  <2>4. Results'
    BY <1>1, <2>2, <2>3, ComparedResult
  <2> QED BY <1>1, <2>3, <2>4, ReturnsWell
<1>3. CASE call.fn = "strcmp" \/ call.n # 0
  <2>1. CASE p = NULL /\ q = NULL
    <3>1. ret' = 0 /\ read' = read \cup {}
      BY <1>3, <2>1 DEF CompareNull, Return, Read
    <3>2. \A k : ~DifferFirst(k)
      BY <1>1, <2>1 DEF DifferFirst, Char
    <3>3. Compared(0)
      BY <3>2, DiffersNowhere
    <3>4. Results'
      BY <1>1, <3>1, <3>3, ComparedResult
    <3> QED BY <1>1, <3>1, <3>4, ReturnsWell
  <2>2. CASE p = NULL /\ q # NULL
    <3>1. ret' = 0 - mem[q] /\ read' = read \cup {q}
      BY <1>3, <2>2 DEF CompareNull, Return, Read, Difference
    <3> DEFINE r == Char(call.s1, 0) - Char(call.s2, 0)
    <3>2. Compared(r) /\ q \in Readable /\ Char(q, 0) = original[q]
      BY <1>1, <1>3, <2>2, AgainstNull
    <3>3. ret' = r
      BY <1>1, <2>2, <3>1, <3>2 DEF Char
    <3>4. Results'
      BY <1>1, <3>2, <3>3, ComparedResult
    <3> QED BY <1>1, <3>1, <3>2, <3>4, ReturnsWell
  <2>3. CASE p # NULL /\ q = NULL
    <3>1. ret' = mem[p] - 0 /\ read' = read \cup {p}
      BY <1>3, <2>3 DEF CompareNull, Return, Read, Difference
    <3> DEFINE r == Char(call.s1, 0) - Char(call.s2, 0)
    <3>2. Compared(r) /\ p \in Readable /\ Char(p, 0) = original[p]
      BY <1>1, <1>3, <2>3, AgainstNull
    <3>3. ret' = r
      BY <1>1, <2>3, <3>1, <3>2 DEF Char
    <3>4. Results'
      BY <1>1, <3>2, <3>3, ComparedResult
    <3> QED BY <1>1, <3>1, <3>2, <3>4, ReturnsWell
  <2>4. CASE p # NULL /\ q # NULL
    BY <1>3, <2>4 DEF CompareNull
  <2> QED BY <2>1, <2>2, <2>3, <2>4
<1> QED BY <1>1, <1>2, <1>3

LEMMA CompareObjectsStep == Inv /\ CompareObjects => Inv'
<1> SUFFICES ASSUME Inv, CompareObjects PROVE Inv'
  OBVIOUS
<1>1. /\ Args /\ call.fn \in {"memcmp", "strcmp", "strncmp"} /\ p = call.s1 /\ q = call.s2
      /\ mem = original /\ SameCall /\ loop' = "compare" /\ p' = p /\ q' = q /\ mem' = mem
      /\ read' = read \cup {} /\ p # NULL /\ q # NULL /\ (call.fn = "strcmp" \/ call.n # 0)
      /\ (call.fn # "strcmp" => end' = Top)
  BY DEF Inv, At, CompareObjects, Enter, Begin, SameCall, Top, EndOf
<1>2. p \in Addresses /\ q \in Addresses /\ p \in Nat /\ q \in Nat /\ call.n \in Nat
  BY <1>1, Facts
<1>3. call.fn # "strcmp" => call.n > 0 /\ p < Top
  BY <1>1, <1>2, EndBounds DEF Top
<1>4. p >= call.s1 /\ q - call.s2 = p - call.s1 /\ 0 .. p - call.s1 - 1 = {}
  BY <1>1, <1>2
<1>5. Comparing'
  BY <1>1, <1>2, <1>3, <1>4, SameHit DEF Comparing, SameCall
<1>6. At'
  BY <1>1, <1>5 DEF At
<1> QED BY <1>1, <1>6, GoesOnWell

\* What the loop knows of the characters it compares.
LEMMA CompareOn ==
    ASSUME Args, Comparing
    PROVE  /\ call.s1 \in Nat /\ call.s2 \in Nat /\ p \in Nat /\ q \in Nat /\ p - call.s1 \in Nat
           /\ p = call.s1 + (p - call.s1) /\ q = call.s2 + (p - call.s1)
           /\ \A x \in call.s1 .. p-1 : call.fn # "memcmp" => original[x] # 0
           /\ \A x \in call.s2 .. q-1 : call.fn # "memcmp" => original[x] # 0
           /\ call.fn # "strcmp" => /\ p < Top /\ Top \in Nat /\ Top <= AddrMod - 1
                                    /\ Top <= call.s1 + call.n
                                    /\ Top = call.s1 + call.n \/ Top = AddrMod - 1
           /\ p - call.s1 < Places /\ Places = IF call.fn = "strcmp" THEN AddrMod ELSE call.n
           /\ Char(call.s1, p - call.s1) = mem[p] /\ Char(call.s2, p - call.s1) = mem[q]
           /\ {p, q} \subseteq Readable
<1> DEFINE a == call.s1
           b == call.s2
           k == p - a
           n == IF call.fn = "strcmp" THEN AddrMod ELSE call.n
<1>1. /\ a \in Addresses /\ b \in Addresses /\ p \in Addresses /\ q \in Addresses /\ call.n \in Nat
      /\ AddrMod \in Nat /\ a # NULL /\ b # NULL /\ mem = original
      /\ call.fn \in {"memcmp", "strcmp", "strncmp"} /\ p >= a /\ q - b = p - a
  BY Facts DEF Comparing
<1>2. /\ a \in Nat /\ b \in Nat /\ p \in Nat /\ q \in Nat /\ k \in Nat /\ p = a + k /\ q = b + k
      /\ 1 <= a /\ p <= AddrMod - 2
  BY <1>1, AddressRange
<1>3. call.fn # "strcmp" => /\ p < Top /\ Top \in Nat /\ Top <= AddrMod - 1 /\ Top <= a + call.n
                            /\ Top = a + call.n \/ Top = AddrMod - 1
  BY <1>1, EndBounds DEF Top, Comparing
<1>4. \A j \in 0 .. k-1 : original[a + j] = original[b + j] /\ (call.fn # "memcmp" => original[a + j] # 0)
  BY DEF Comparing
<1>5. ASSUME NEW x \in a .. p-1, call.fn # "memcmp" PROVE original[x] # 0
  <2>1. x - a \in 0 .. k-1 /\ a + (x - a) = x
    BY <1>2
  <2> QED BY <1>4, <1>5, <2>1
<1>6. ASSUME NEW x \in b .. q-1, call.fn # "memcmp" PROVE original[x] # 0
  <2>1. x - b \in 0 .. k-1 /\ b + (x - b) = x
    BY <1>2
  <2> QED BY <1>4, <1>6, <2>1
<1>7. Places = n
  BY <1>1, PlacesAre
<1>8. n \in Nat /\ k < n
  BY <1>1, <1>2, <1>3
<1>9. Char(a, k) = mem[p] /\ Char(b, k) = mem[q]
  <2> HIDE DEF k
  <2> QED BY <1>1, <1>2 DEF Char
<1> HIDE DEF n
<1>10. p \in Object(a, n) /\ q \in Object(b, n)
  BY <1>1, <1>2, <1>8 DEF Object
<1>11. {p, q} \subseteq Readable
  BY <1>1, <1>5, <1>6, <1>10, ComparedReadable DEF n
<1> QED BY <1>2, <1>3, <1>5, <1>6, <1>7, <1>8, <1>9, <1>11 DEF n

\* Where neither string ends and the length is not reached there is more to compare.
LEMMA CompareFurther ==
    ASSUME Args, Comparing, mem[p] = mem[q], GoesOn(Up(p))
    PROVE  /\ Up(p) = p + 1 /\ Up(q) = q + 1
           /\ p + 1 \in Addresses /\ q + 1 \in Addresses
<1> DEFINE a == call.s1
           b == call.s2
           x == p + 1
           y == q + 1
<1>1. /\ a \in Addresses /\ b \in Addresses /\ p \in Addresses /\ q \in Addresses /\ call.n \in Nat
      /\ AddrMod \in Nat /\ a # NULL /\ b # NULL /\ mem = original /\ p >= a /\ q - b = p - a
      /\ call.fn \in {"memcmp", "strcmp", "strncmp"}
      /\ (call.fn # "strcmp" => call.n > 0 /\ end = Top)
  BY Facts DEF Comparing
<1>2. Up(p) = x /\ Up(q) = y
  BY <1>1, NextAddress
<1>3. /\ a \in Nat /\ b \in Nat /\ p \in Nat /\ q \in Nat /\ 1 <= a /\ 1 <= b
      /\ p <= AddrMod - 2 /\ q <= AddrMod - 2
  BY <1>1, AddressRange
<1>4. call.fn # "strcmp" => x < Top /\ Top \in Nat /\ Top <= AddrMod - 1 /\ Top <= a + call.n
  BY <1>1, <1>2, CompareOn DEF GoesOn
<1>5. x \in Nat /\ y \in Nat /\ a <= x /\ b <= y /\ 1 <= x /\ 1 <= y /\ x - a = y - b
      /\ x - a < AddrMod /\ y - b < AddrMod /\ (call.fn # "strcmp" => y - b < call.n)
  BY <1>1, <1>3, <1>4
<1>6. \A z \in a .. x-1 : call.fn # "memcmp" => original[z] # 0
  <2>1. \A z \in a .. x-1 : z = p \/ z \in a .. p-1
    BY <1>3
  <2>2. call.fn # "memcmp" => original[p] # 0
    BY <1>1 DEF GoesOn
  <2> QED BY <2>1, <2>2, CompareOn
<1>7. \A z \in b .. y-1 : call.fn # "memcmp" => original[z] # 0
  <2>1. \A z \in b .. y-1 : z = q \/ z \in b .. q-1
    BY <1>3
  <2>2. call.fn # "memcmp" => original[q] # 0
    BY <1>1 DEF GoesOn
  <2> QED BY <2>1, <2>2, CompareOn
<1> HIDE DEF a, b, x, y
<1>8. CASE call.fn = "strcmp"
  <2>1. Ends(original, a, AddrMod, 0) /\ Ends(original, b, AddrMod, 0)
    BY <1>1, <1>8, Promised DEF IsString, a, b
  <2>2. x \in Addresses /\ y \in Addresses
    BY <1>1, <1>5, <1>6, <1>7, <1>8, <2>1, StillInside
  <2> QED BY <1>2, <2>2 DEF x, y
<1>9. CASE call.fn # "strcmp"
  <2>1. x \in Addresses
    BY <1>1, <1>3, <1>4, <1>5, <1>9, IsAddress
  <2>2. CASE call.fn = "strncmp"
    <3>1. Ends(original, b, call.n, 0)
      BY <1>1, <2>2, Promised DEF b
    <3>2. y \in Addresses
      BY <1>1, <1>5, <1>7, <2>2, <3>1, StillInside
    <3> QED BY <1>2, <2>1, <3>2 DEF x, y
  <2>3. CASE call.fn = "memcmp"
    <3>1. Cardinality(Object(b, call.n)) = call.n
      BY <1>1, <2>3, Promised DEF a, b
    <3>2. b + call.n <= AddrMod - 1
      BY <1>1, <3>1, WholeObject
    <3>3. y <= AddrMod - 2
      BY <1>1, <1>3, <1>5, <1>9, <3>2
    <3>4. y \in Addresses
      BY <1>5, <3>3, IsAddress
    <3> QED BY <1>2, <2>1, <3>4 DEF x, y
  <2> QED BY <1>1, <1>9, <2>2, <2>3
<1> QED BY <1>8, <1>9

LEMMA CompareStep == Inv /\ Compare => Inv'
<1> SUFFICES ASSUME Inv, Compare PROVE Inv'
  OBVIOUS
<1> DEFINE a == call.s1
           b == call.s2
           k == p - call.s1
<1>1. /\ Args /\ Comparing /\ SameCall /\ mem' = mem /\ read' = read \cup {p, q} /\ mem = original
      /\ call.fn \in {"memcmp", "strcmp", "strncmp"}
  BY DEF Inv, At, Comparing, Compare, Return, Advance, Read, SameCall
<1>2. /\ a \in Nat /\ b \in Nat /\ p \in Nat /\ q \in Nat /\ k \in Nat /\ p = a + k /\ q = b + k
      /\ a \in Addresses /\ b \in Addresses /\ p \in Addresses /\ q \in Addresses
      /\ a # NULL /\ b # NULL /\ AddrMod \in Nat /\ call.n \in Nat
  BY <1>1, CompareOn, Facts DEF Comparing
<1>3. /\ k < Places /\ Places \in Nat /\ Char(a, k) = mem[p] /\ Char(b, k) = mem[q]
      /\ {p, q} \subseteq Readable
  BY <1>1, <1>2, CompareOn
<1>4. \A j \in 0 .. k-1 : /\ original[a + j] = original[b + j]
                          /\ call.fn # "memcmp" => original[a + j] # 0
  BY <1>1 DEF Comparing
<1>5. \A j : Char(a, j) = original[a + j] /\ Char(b, j) = original[b + j]
  BY <1>2 DEF Char
<1>6. CASE mem[p] # mem[q]
  <2>1. loop' = "done" /\ ret' = Char(a, k) - Char(b, k)
    BY <1>3, <1>6 DEF Compare, Return, Difference
  <2> HIDE DEF k
  <2>2. InPlace(k)
    BY <1>2 DEF InPlace
  <2>3. DifferFirst(k)
    BY <1>3, <1>4, <1>5, <1>6 DEF DifferFirst
  <2>4. Compared(ret')
    BY <1>1, <1>2, <1>3, <2>1, <2>2, <2>3, DiffersAt
  <2>5. Results'
    BY <1>1, <2>4, ComparedResult
  <2> QED BY <1>1, <1>3, <2>1, <2>5, ReturnsWell
<1>7. CASE mem[p] = mem[q] /\ GoesOn(Up(p))
  <2>1. Up(p) = p + 1 /\ Up(q) = q + 1 /\ p + 1 \in Addresses /\ q + 1 \in Addresses
    BY <1>1, <1>7, CompareFurther
  <2>2. loop' = "compare" /\ p' = p + 1 /\ q' = q + 1 /\ end' = end
    BY <1>1, <1>7, <2>1 DEF Compare, Advance, Comparing, Inv, At
  <2>3. \A j \in 0 .. (p + 1) - a - 1 : /\ original[a + j] = original[b + j]
                                        /\ call.fn # "memcmp" => original[a + j] # 0
    <3>1. \A j \in 0 .. (p + 1) - a - 1 : j = k \/ j \in 0 .. k-1
      <4> HIDE DEF a, k
      <4> QED BY <1>2
    <3>2. original[a + k] = original[b + k] /\ (call.fn # "memcmp" => original[a + k] # 0)
      <4> HIDE DEF k
      <4> QED BY <1>1, <1>2, <1>7 DEF GoesOn
    <3> QED BY <1>4, <3>1, <3>2
  <2>4. p + 1 >= a /\ (q + 1) - b = (p + 1) - a
    BY <1>2
  <2>5. call.fn # "strcmp" => call.n > 0 /\ end = Top /\ p + 1 < end
    BY <1>1, <1>7, <2>1 DEF GoesOn, Comparing
  <2>6. Comparing'
    BY <1>1, <1>2, <2>1, <2>2, <2>3, <2>4, <2>5, SameHit DEF Comparing, SameCall
  <2>7. At'
    BY <2>2, <2>6 DEF At
  <2> QED BY <1>1, <1>3, <2>2, <2>7, GoesOnWell
<1>8. CASE mem[p] = mem[q] /\ ~GoesOn(Up(p))
  <2>1. loop' = "done" /\ ret' = Char(a, k) - Char(b, k)
    BY <1>3, <1>8 DEF Compare, Return, Difference
  <2>2. ret' = 0
    <3>1. mem[p] \in Int
      BY <1>1, <1>2, Facts
    <3> QED BY <1>3, <1>8, <2>1, <3>1
  <2>3. ASSUME NEW i \in 0 .. Places-1, InPlace(i), DifferFirst(i) PROVE FALSE
    <3>1. \A j \in 0 .. k : Char(a, j) = Char(b, j)
      <4>1. \A j \in 0 .. k : j = k \/ j \in 0 .. k-1
        BY <1>2
      <4> QED BY <1>3, <1>4, <1>5, <1>8, <4>1
    <3>2. k < i
      BY <1>2, <2>3, <3>1 DEF DifferFirst
    <3>3. call.fn # "memcmp" => mem[p] # 0
      BY <1>2, <1>3, <2>3, <3>2 DEF DifferFirst
    <3>4. Up(p) = p + 1
      BY <1>2, NextAddress
    <3>5. call.fn # "strcmp" /\ ~(p + 1 < Top)
      BY <1>1, <1>8, <3>3, <3>4 DEF GoesOn, Comparing
    <3>6. Top \in Nat /\ (Top = a + call.n \/ Top = AddrMod - 1) /\ Places = call.n
      BY <1>1, <3>5, CompareOn
    <3>7. a + i \in Addresses
      BY <1>2, <2>3 DEF InPlace
    <3>8. a + i <= AddrMod - 2
      BY <3>7, AddressRange
    <3> QED BY <1>2, <2>3, <3>2, <3>5, <3>6, <3>8
  <2>4. Compared(0)
    BY <2>3, DiffersNowhere
  <2>5. Results'
    BY <1>1, <2>2, <2>4, ComparedResult
  <2> QED BY <1>1, <1>3, <2>1, <2>5, ReturnsWell
<1> QED BY <1>6, <1>7, <1>8

-----------------------------------------------------------------------------
(* strzcpy()                                                               *)

\* What the memory is when i characters have been copied.
CopiedTo(x, i) == IF x \in call.s1 .. call.s1 + i - 1 THEN original[call.s2 + (x - call.s1)]
                  ELSE original[x]

\* What it is when the function has returned, having copied i characters.
Terminated(x, i) ==
    CASE x - call.s1 \in 0 .. i-1 -> original[call.s2 + (x - call.s1)]
      [] call.n > 0 /\ x = call.s1 + i -> 0
      [] OTHER -> original[x]

CopiedCharacters == {b \in Until(original, call.s2, Characters(call.n), 0) : original[b] # 0}

LEMMA CopiedResult ==
    ASSUME Args, SameCall, loop' = "done", call.fn = "strzcpy", ret' = call.s1,
           mem' = [x \in Addresses |-> Terminated(x, Cardinality(CopiedCharacters))]
    PROVE  Results'
<1>1. CopiesTruncated'
  BY DEF CopiesTruncated, SameCall, Terminated, CopiedCharacters
<1>2. call'.fn = "strzcpy"
  BY DEF SameCall
<1> QED BY <1>1, <1>2 DEF Results, FindsFirst, ComparesInOrder, Done

\* What the loop knows: p is in the destination, q in the source if there is place
\* for a character; the source has not been overwritten there.
LEMMA CopyOn ==
    ASSUME Args, Copying
    PROVE  /\ call.s1 \in Nat /\ call.s2 \in Nat /\ call.n \in Nat /\ p \in Nat /\ q \in Nat
           /\ p - call.s1 \in Nat /\ p = call.s1 + (p - call.s1) /\ q = call.s2 + (p - call.s1)
           /\ p \in Addresses /\ Up(p) = p + 1 /\ end = call.n - (p - call.s1) /\ end >= 1
           /\ call.s2 \in Addresses /\ Ends(original, call.s2, call.n - 1, 0) /\ call.n - 1 \in Nat
           /\ \A x \in Addresses : mem[x] = CopiedTo(x, p - call.s1)
           /\ PlaceLeft => /\ q \in Addresses /\ Up(q) = q + 1 /\ q \in Readable
                           /\ q \in Until(original, call.s2, call.n - 1, 0)
                           /\ mem[q] = original[q]
<1> DEFINE a == call.s1
           s == call.s2
           n == call.n
           m == call.n - 1
           i == p - call.s1
<1>1. /\ call.fn = "strzcpy" /\ n > 0 /\ p >= a /\ q - s = p - a /\ end = n - (p - a) /\ end >= 1
      /\ p \in Nat /\ q \in Nat /\ \A x \in s .. q-1 : original[x] # 0
  BY DEF Copying
<1>2. /\ a # NULL /\ Cardinality(Object(a, n)) = n /\ Ends(original, s, Characters(n), 0)
      /\ Object(a, n) \cap Until(original, s, Characters(n), 0) = {}
  BY <1>1, Promised
<1>3. /\ a \in Addresses /\ s \in Addresses /\ a \in Nat /\ s \in Nat /\ n \in Nat /\ AddrMod \in Nat
      /\ 1 <= a /\ m \in Nat /\ Characters(n) = m
  BY <1>1, <1>2, Facts, AddressRange DEF Ends, Characters
<1>4. i \in Nat /\ i < n /\ p = a + i /\ q = s + i /\ n = m + 1
  BY <1>1, <1>3
<1>5. a + n <= AddrMod - 1
  BY <1>2, <1>3, WholeObject
<1>6. p \in Addresses /\ Up(p) = p + 1
  BY <1>1, <1>3, <1>4, <1>5, IsAddress, NextAddress
<1>7. \A x \in Addresses : mem[x] = CopiedTo(x, i)
  <2>1. a .. p-1 = a .. a + i - 1
    <3> HIDE DEF a, i
    <3> QED BY <1>3, <1>4
  <2> QED BY <2>1 DEF Copying, CopiedTo
<1>8. ASSUME PlaceLeft
      PROVE  /\ q \in Addresses /\ Up(q) = q + 1 /\ q \in Readable
             /\ q \in Until(original, s, m, 0) /\ mem[q] = original[q]
  <2>1. end > 1
    BY <1>8 DEF PlaceLeft
  <2>2. s <= q /\ q - s < m
    BY <1>1, <1>3, <1>4, <2>1
  <2> HIDE DEF s, m, a, n, i
  <2>3. q \in Addresses /\ q \in Until(original, s, m, 0)
    BY <1>1, <1>2, <1>3, <2>2, StillInside
  <2>4. q \in Readable
    BY <1>1, <1>3, <2>3 DEF Readable, s, m, n
  <2>5. q \notin a .. a + i - 1
    <3> SUFFICES ASSUME q \in a .. a + i - 1 PROVE FALSE
      OBVIOUS
    <3>1. q \in Object(a, n)
      BY <1>1, <1>2, <1>3, <1>4, <2>3 DEF Object
    <3> QED BY <1>2, <1>3, <2>3, <3>1
  <2>6. mem[q] = original[q]
    BY <1>7, <2>3, <2>5 DEF CopiedTo, a, i
  <2> QED BY <2>3, <2>4, <2>6, NextAddress
<1> HIDE DEF i
<1>9. Ends(original, s, m, 0)
  BY <1>2, <1>3
<1> QED BY <1>1, <1>3, <1>4, <1>6, <1>7, <1>8, <1>9 DEF i

LEMMA StrzcpyStep == Inv /\ strzcpy => Inv'
<1> SUFFICES ASSUME Inv, strzcpy PROVE Inv'
  OBVIOUS
<1>1. /\ Args /\ call.fn = "strzcpy" /\ p = call.s1 /\ q = call.s2 /\ mem = original /\ SameCall
      /\ read' = read \cup {} /\ mem' = mem
  BY DEF Inv, At, strzcpy, Enter, Return, Begin, Read, SameCall
<1>2. /\ call.s1 \in Nat /\ call.s2 \in Nat /\ call.n \in Nat
      /\ original \in [Addresses -> 0 .. ByteMod-1]
  BY <1>1, Facts
<1>3. CASE call.n = 0
  <2>1. loop' = "done" /\ ret' = call.s1
    BY <1>3 DEF strzcpy, Return
  <2>2. CopiedCharacters = {}
    <3>1. Characters(call.n) = 0
      BY <1>3 DEF Characters
    <3>2. \A x \in Addresses : ~(call.s2 <= x /\ x - call.s2 < 0)
      BY <1>2, AddressRange
    <3> QED BY <3>1, <3>2 DEF CopiedCharacters, Until, Object
  <2>3. Cardinality(CopiedCharacters) = 0
    BY <2>2, FS_EmptySet
  <2>4. \A x \in Addresses : Terminated(x, 0) = original[x]
    <3> SUFFICES ASSUME NEW x \in Addresses PROVE Terminated(x, 0) = original[x]
      OBVIOUS
    <3>1. ~(x - call.s1 \in 0 .. 0-1) /\ ~(call.n > 0)
      BY <1>2, <1>3
    <3> QED BY <3>1 DEF Terminated
  <2>5. mem' = [x \in Addresses |-> Terminated(x, 0)]
    BY <1>1, <1>2, <2>4
  <2>6. Results'
    BY <1>1, <2>1, <2>3, <2>5, CopiedResult
  <2> QED BY <1>1, <2>1, <2>6, ReturnsWell
<1>4. CASE call.n # 0
  <2>1. loop' = "copy" /\ p' = p /\ end' = call.n /\ q' = q
    BY <1>4 DEF strzcpy, Begin
  <2>2. p >= call.s1 /\ q - call.s2 = p - call.s1 /\ call.n > 0 /\ call.n = call.n - (p - call.s1)
        /\ call.n >= 1 /\ p \in Nat /\ q \in Nat /\ call.s2 .. q-1 = {} /\ call.s1 .. p-1 = {}
    BY <1>1, <1>2, <1>4
  <2>3. mem = [a \in Addresses |-> IF a \in call.s1 .. p-1 THEN original[call.s2 + (a - call.s1)]
                                   ELSE original[a]]
    BY <1>1, <1>2, <2>2
  <2>4. Copying'
    BY <1>1, <2>1, <2>2, <2>3 DEF Copying, SameCall
  <2>5. At'
    BY <2>1, <2>4 DEF At
  <2> QED BY <1>1, <2>1, <2>5, GoesOnWell
<1> QED BY <1>3, <1>4

LEMMA CopyCharacterStep == Inv /\ CopyCharacter => Inv'
<1> SUFFICES ASSUME Inv, CopyCharacter PROVE Inv'
  OBVIOUS
<1> DEFINE a == call.s1
           s == call.s2
           i == p - call.s1
<1>1. /\ Args /\ Copying /\ PlaceLeft /\ SameCall /\ loop' = "copy" /\ read' = read \cup {q}
      /\ mem[q] # 0 /\ mem' = [mem EXCEPT ![p] = mem[q]] /\ end' = end - 1
      /\ p' = Up(p) /\ q' = Up(q) /\ call.fn = "strzcpy" /\ call.n > 0
  BY DEF Inv, At, CopyCharacter, Copying, Advance, SameCall
<1>2. /\ a \in Nat /\ s \in Nat /\ call.n \in Nat /\ p \in Nat /\ q \in Nat /\ i \in Nat
      /\ p = a + i /\ q = s + i /\ p \in Addresses /\ q \in Addresses /\ p' = p + 1 /\ q' = q + 1
      /\ end = call.n - i /\ end > 1 /\ q \in Readable /\ mem[q] = original[q]
  BY <1>1, CopyOn DEF PlaceLeft
<1>3. \A x \in Addresses : mem[x] = CopiedTo(x, i)
  BY <1>1, CopyOn
<1>4. DOMAIN mem = Addresses /\ mem = [x \in Addresses |-> mem[x]]
  BY <1>1 DEF Copying
<1>5. \A x \in s .. (q + 1) - 1 : original[x] # 0
  <2>1. \A x \in s .. (q + 1) - 1 : x = q \/ x \in s .. q-1
    BY <1>2
  <2> QED BY <1>1, <1>2, <2>1 DEF Copying
<1>6. mem' = [x \in Addresses |-> IF x \in a .. (p + 1) - 1 THEN original[s + (x - a)]
                                  ELSE original[x]]
  <2>1. mem' = [x \in Addresses |-> IF x = p THEN original[q] ELSE mem[x]]
    BY <1>1, <1>2, <1>4
  <2>2. ASSUME NEW x \in Addresses
        PROVE  (IF x = p THEN original[q] ELSE mem[x])
                 = IF x \in a .. (p + 1) - 1 THEN original[s + (x - a)] ELSE original[x]
    <3> HIDE DEF a, s, i
    <3>1. mem[x] = IF x \in a .. a + i - 1 THEN original[s + (x - a)] ELSE original[x]
      BY <1>3 DEF CopiedTo, a, s
    <3>2. x \in Nat
      BY AddressRange
    <3>3. CASE x = p
      <4>1. x \in a .. (p + 1) - 1 /\ s + (x - a) = q
        BY <1>2, <3>3
      <4> QED BY <3>3, <4>1
    <3>4. CASE x # p
      <4>1. x \in a .. (p + 1) - 1 <=> x \in a .. a + i - 1
        BY <1>2, <3>2, <3>4
      <4> QED BY <3>1, <3>4, <4>1
    <3> QED BY <3>3, <3>4
  <2> HIDE DEF a, s
  <2> QED BY <2>1, <2>2
<1>7. /\ p + 1 >= a /\ (q + 1) - s = (p + 1) - a /\ end - 1 = call.n - ((p + 1) - a)
      /\ end - 1 >= 1 /\ p + 1 \in Nat /\ q + 1 \in Nat
  BY <1>2
<1>8. Copying'
  BY <1>1, <1>2, <1>5, <1>6, <1>7 DEF Copying, SameCall
<1>9. At'
  BY <1>1, <1>8 DEF At
<1> QED BY <1>1, <1>2, <1>9, GoesOnWell

LEMMA TerminateStep == Inv /\ Terminate => Inv'
<1> SUFFICES ASSUME Inv, Terminate PROVE Inv'
  OBVIOUS
<1> DEFINE a == call.s1
           s == call.s2
           i == p - call.s1
           m == call.n - 1
<1>1. /\ Args /\ Copying /\ SameCall /\ loop' = "done" /\ ret' = a /\ call.fn = "strzcpy"
      /\ mem' = [mem EXCEPT ![p] = 0] /\ (PlaceLeft => mem[q] = 0) /\ call.n > 0
      /\ read' = read \cup (IF PlaceLeft THEN {q} ELSE {})
  BY DEF Inv, At, Terminate, Copying, Return, SameCall
<1>2. /\ a \in Nat /\ s \in Nat /\ m \in Nat /\ call.n \in Nat /\ p \in Nat /\ q \in Nat /\ i \in Nat
      /\ p = a + i /\ q = s + i /\ p \in Addresses /\ end = call.n - i /\ end >= 1
      /\ s \in Addresses /\ Ends(original, s, m, 0)
      /\ (PlaceLeft => q \in Until(original, s, m, 0) /\ q \in Readable /\ mem[q] = original[q])
  BY <1>1, CopyOn
<1>3. \A x \in Addresses : mem[x] = CopiedTo(x, i)
  BY <1>1, CopyOn
<1>4. DOMAIN mem = Addresses /\ mem = [x \in Addresses |-> mem[x]]
  BY <1>1 DEF Copying
<1>5. \A x \in s .. q-1 : original[x] # 0
  BY <1>1 DEF Copying
<1>6. CopiedCharacters = {x \in Until(original, s, m, 0) : original[x] # 0}
  BY <1>1, <1>2 DEF CopiedCharacters, Characters
<1>7. CopiedCharacters = s .. q-1
  <2>1. CASE PlaceLeft
    <3> HIDE DEF s, m
    <3>1. s \in Addresses /\ m \in Nat /\ q \in Until(original, s, m, 0) /\ original[q] = 0
      BY <1>1, <1>2, <2>1
    <3>2. {x \in Until(original, s, m, 0) : original[x] # 0} = s .. q-1
      BY <3>1, UntilFirst
    <3> QED BY <1>6, <3>2
  <2>2. CASE ~PlaceLeft
    <3>1. i = m
      BY <1>2, <2>2 DEF PlaceLeft
    <3> HIDE DEF a, s, i, m
    <3>2. Cardinality(Object(s, m)) = m
      <4> SUFFICES ASSUME NEW b \in Object(s, m), original[b] = 0 PROVE FALSE
        BY <1>2 DEF Ends
      <4>1. b \in Nat /\ s <= b /\ b - s < m
        BY AddressRange DEF Object
      <4>2. b \in s .. q-1
        BY <1>2, <3>1, <4>1
      <4> QED BY <1>5, <4>2
    <3>3. s + m <= AddrMod - 1
      BY <1>2, <3>2, WholeObject
    <3>4. s .. q-1 = s .. s+m-1
      BY <1>2, <3>1
    <3> QED BY <1>2, <1>5, <1>6, <3>3, <3>4, UntilNone
  <2> QED BY <2>1, <2>2
<1>8. Cardinality(CopiedCharacters) = i
  <2>1. s <= q /\ q - s = i
    BY <1>2
  <2> HIDE DEF s, i
  <2> QED BY <1>2, <1>7, <2>1, Counted
<1>9. mem' = [x \in Addresses |-> Terminated(x, i)]
  <2>1. mem' = [x \in Addresses |-> IF x = p THEN 0 ELSE mem[x]]
    BY <1>1, <1>2, <1>4
  <2>2. ASSUME NEW x \in Addresses PROVE (IF x = p THEN 0 ELSE mem[x]) = Terminated(x, i)
    <3> HIDE DEF a, s, i
    <3>1. x \in Nat
      BY AddressRange
    <3>2. CASE x \in a .. a + i - 1
      <4>1. x # p /\ x - a \in 0 .. i-1 /\ x # a + i
        BY <1>2, <3>1, <3>2
      <4>2. mem[x] = original[s + (x - a)]
        BY <1>3, <3>2 DEF CopiedTo, a, s
      <4> QED BY <4>1, <4>2 DEF Terminated, a, s
    <3>3. CASE x = p
      <4>1. ~(x - a \in 0 .. i-1) /\ x = a + i
        BY <1>2, <3>3
      <4> QED BY <1>1, <3>3, <4>1 DEF Terminated, a
    <3>4. CASE x \notin a .. a + i - 1 /\ x # p
      <4>1. ~(x - a \in 0 .. i-1) /\ x # a + i
        BY <1>2, <3>1, <3>4
      <4>2. mem[x] = original[x]
        BY <1>3, <3>4 DEF CopiedTo, a
      <4> QED BY <3>4, <4>1, <4>2 DEF Terminated, a
    <3> QED BY <3>2, <3>3, <3>4
  <2> HIDE DEF i
  <2> QED BY <2>1, <2>2
<1>10. Results'
  BY <1>1, <1>8, <1>9, CopiedResult
<1>11. FindsByte \/ call.fn # "memchr" => (IF PlaceLeft THEN {q} ELSE {}) \subseteq Readable
  BY <1>2
<1> QED BY <1>1, <1>10, <1>11, ReturnsWell

-----------------------------------------------------------------------------
LEMMA InitInv == Init => Inv
<1> SUFFICES ASSUME Init PROVE Inv
  OBVIOUS
<1>1. Args
  BY StringsAssumption DEF Init, Args
<1>2. loop = "enter" /\ p = call.s1 /\ q = call.s2 /\ mem = original /\ read = {}
  BY DEF Init
<1>3. At
  BY <1>2 DEF At
<1>4. NotOverread
  BY <1>2 DEF NotOverread
<1>5. Results
  BY <1>2 DEF Results, FindsFirst, ComparesInOrder, CopiesTruncated, Done
<1> QED BY <1>1, <1>3, <1>4, <1>5 DEF Inv

LEMMA Unchanged == Inv /\ UNCHANGED vars => Inv'
<1> SUFFICES ASSUME Inv, UNCHANGED vars PROVE Inv'
  OBVIOUS
<1> USE DEF vars
<1>1. Args'
  BY DEF Inv, Args
<1>2. At'
  BY DEF Inv, At, Scanning, Finding, FindingBack, Comparing, Copying, Hit, Top, AsInt, Sought
<1>3. NotOverread'
  BY DEF Inv, NotOverread, Readable, FindsByte
<1>4. Results'
  <2>1. FindsFirst'
    BY DEF Inv, Results, FindsFirst, Done, FindsByte
  <2>2. FirstDifference' = FirstDifference
    BY DEF FirstDifference
  <2>3. ComparesInOrder'
    BY <2>2 DEF Inv, Results, ComparesInOrder, Done
  <2>4. CopiesTruncated'
    BY DEF Inv, Results, CopiesTruncated, Done
  <2> QED BY <2>1, <2>3, <2>4 DEF Results
<1> QED BY <1>1, <1>2, <1>3, <1>4 DEF Inv

LEMMA NextInv == Inv /\ [Next]_vars => Inv'
<1> SUFFICES ASSUME Inv, [Next]_vars PROVE Inv'
  OBVIOUS
<1>1. CASE strlen \/ Length
  BY <1>1, StrlenStep, LengthStep
<1>2. CASE strzcpy \/ CopyCharacter \/ Terminate
  BY <1>2, StrzcpyStep, CopyCharacterStep, TerminateStep
<1>3. CASE memchr \/ Find \/ NotFound
  BY <1>3, MemchrStep, FindStep, NotFoundStep
<1>4. CASE memrchr \/ FindBack \/ NotFoundBack
  BY <1>4, MemrchrStep, FindBackStep, NotFoundBackStep
<1>5. CASE CompareNull \/ CompareObjects \/ Compare
  BY <1>5, CompareNullStep, CompareObjectsStep, CompareStep
<1>6. CASE atoi \/ SkipBlank \/ Sign \/ Digit \/ NoDigit
  BY <1>6, AtoiStep, ReadStep
<1>7. CASE UNCHANGED vars
  BY <1>7, Unchanged
<1> QED BY <1>1, <1>2, <1>3, <1>4, <1>5, <1>6, <1>7 DEF Next

\* The invariant holds of every call, for char signed or not.
THEOREM Invariance == Spec => []Inv
BY InitInv, NextInv, PTL DEF Spec

\* "If an array is accessed beyond the end of an object, the behavior is undefined"
\* (string.h:16-17): for every call its contract allows, with every length,
\* no function reads beyond the object, the NUL or the character it looks for.
\* Excepted is memchr() for a byte from 128 on where char is signed: it compares
\* a char with an int (strmem.c:58), passes over the byte it should have found
\* and reads on, which the theorem leaves out (FindsByte).
THEOREM NothingIsOverread == Spec => []NotOverread
<1>1. Inv => NotOverread
  BY DEF Inv
<1> QED BY <1>1, Invariance, PTL

\* strlen() and strnlen() return the length of every text; memchr() and memrchr()
\* the first and the last occurrence, in every object, of every byte that is a
\* char: where char is signed they find no byte from 128 on (strmem.c:58, 76,
\* against string.h:164), and of these the theorem says nothing (FindsByte).
THEOREM TheFirstIsFound == Spec => []FindsFirst
<1>1. Inv => FindsFirst
  BY DEF Inv, Results
<1> QED BY <1>1, Invariance, PTL

\* memcmp(), strcmp() and strncmp() return the sign of the first difference
\* between two objects or strings, as unsigned characters, a null pointer for
\* one or both of them included (string.h:115-140).
THEOREM ComparisonsAreOrdered == Spec => []ComparesInOrder
<1>1. Inv => ComparesInOrder
  BY DEF Inv, Results
<1> QED BY <1>1, Invariance, PTL

\* strzcpy() writes the longest part of the string that fits and a NUL, and
\* nothing else, into a destination of any size (string.h:92).
THEOREM CopiesAreTruncated == Spec => []CopiesTruncated
<1>1. Inv => CopiesTruncated
  BY DEF Inv, Results
<1> QED BY <1>1, Invariance, PTL

-----------------------------------------------------------------------------
(* The number that atoi() reads *)

LEMMA TensFacts ==
    Tens[0] = 1 /\ \A k \in Nat : Tens[k + 1] = 10 * Tens[k] /\ Tens[k] \in Nat
<1>1. \E f : IsPowers(f, 10)
  BY PowersExist
<1>2. IsPowers(Tens, 10)
  BY <1>1 DEF Tens, IsPowers
<1>3. Tens[0] = 1 /\ \A k \in Nat : Tens[k + 1] = 10 * Tens[k]
  BY <1>2, PowersStep
<1>4. \A k \in Nat : Tens[k] \in Nat \ {0}
  BY <1>2, PowersNat
<1> QED BY <1>3, <1>4

\* x and y differ by a multiple of what an int wraps at.
Congruent(x, y) == \E k \in Int : x = y + IntMod * k

\* The ints.
Ints == -(IntMod \div 2) .. IntMod - 1 - IntMod \div 2

LEMMA IntFacts == IntMod \in Nat /\ IntMod > 1 /\ IntMod \div 2 \in Nat
BY StringsAssumption

LEMMA WrapIntIs ==
    ASSUME NEW x \in Int
    PROVE  WrapInt(x) \in Ints /\ Congruent(x, WrapInt(x))
<1> DEFINE h == IntMod \div 2
           r == (x + h) % IntMod
           d == (x + h) \div IntMod
<1>1. IntMod \in Nat /\ IntMod > 1 /\ h \in Nat
  BY IntFacts
<1>2. r \in 0 .. IntMod - 1 /\ d \in Int /\ x + h = IntMod * d + r
  <2> DEFINE y == x + h
  <2>1. y \in Int
    BY <1>1
  <2> HIDE DEF y, h
  <2>2. y % IntMod \in 0 .. IntMod - 1 /\ y \div IntMod \in Int
        /\ y = IntMod * (y \div IntMod) + (y % IntMod)
    BY <1>1, <2>1
  <2> QED BY <2>2 DEF y
<1>3. WrapInt(x) = r - h
  BY DEF WrapInt
<1> HIDE DEF r, d
<1>4. r - h \in Ints
  BY <1>1, <1>2 DEF Ints, h
<1>5. x = (r - h) + IntMod * d
  <2> DEFINE e == IntMod * d
  <2>1. e \in Int
    BY <1>1, <1>2
  <2> HIDE DEF e, h
  <2>2. x = (r - h) + e
    BY <1>1, <1>2, <2>1 DEF e
  <2> QED BY <2>2 DEF e
<1> QED BY <1>2, <1>3, <1>4, <1>5 DEF Congruent

\* Only one int is congruent to another.
LEMMA SameInt ==
    ASSUME NEW x \in Ints, NEW y \in Ints, Congruent(x, y)
    PROVE  x = y
<1>1. IntMod \in Nat /\ IntMod > 1 /\ IntMod \div 2 \in Nat
  BY IntFacts
<1>2. x \in Int /\ y \in Int /\ x - y < IntMod /\ y - x < IntMod
  BY <1>1 DEF Ints
<1>3. PICK k \in Int : x = y + IntMod * k
  BY DEF Congruent
<1>4. \A m, n \in Nat : m * n \in Nat
  OBVIOUS
<1>5. k >= 1 => IntMod * k >= IntMod
  <2> SUFFICES ASSUME k >= 1 PROVE IntMod * k >= IntMod
    OBVIOUS
  <2>1. k - 1 \in Nat
    BY <1>3
  <2>2. IntMod * (k - 1) \in Nat
    BY <1>1, <1>4, <2>1
  <2>3. IntMod * k = IntMod * (k - 1) + IntMod
    BY <1>1, <1>3
  <2> QED BY <1>1, <2>2, <2>3
<1>6. k <= -1 => IntMod * k <= -IntMod
  <2> SUFFICES ASSUME k <= -1 PROVE IntMod * k <= -IntMod
    OBVIOUS
  <2>1. -1 - k \in Nat
    BY <1>3
  <2>2. IntMod * (-1 - k) \in Nat
    BY <1>1, <1>4, <2>1
  <2>3. IntMod * k = -(IntMod * (-1 - k)) - IntMod
    BY <1>1, <1>3
  <2> QED BY <1>1, <2>2, <2>3
<1>7. IntMod * k = x - y
  <2>1. IntMod * k \in Int
    BY <1>1, <1>3
  <2> QED BY <1>2, <1>3, <2>1
<1>8. k = 0
  BY <1>2, <1>3, <1>5, <1>6, <1>7, <1>1
<1> QED BY <1>1, <1>2, <1>3, <1>8

\* An int that is congruent to x is what x wraps to.
LEMMA WrapsTo ==
    ASSUME NEW x \in Int, NEW y \in Ints, Congruent(x, y)
    PROVE  WrapInt(x) = y
<1>1. IntMod \in Nat /\ IntMod \div 2 \in Nat
  BY IntFacts
<1>2. PICK k \in Int : x = y + IntMod * k
  BY DEF Congruent
<1>3. WrapInt(x) \in Ints /\ Congruent(x, WrapInt(x))
  BY WrapIntIs
<1>4. PICK l \in Int : x = WrapInt(x) + IntMod * l
  BY <1>3 DEF Congruent
<1>5. y \in Int /\ WrapInt(x) \in Int
  BY <1>1, <1>3 DEF Ints
<1>6. y = WrapInt(x) + IntMod * (l - k)
  <2>1. IntMod * (l - k) = IntMod * l - IntMod * k
    BY <1>1
  <2>2. IntMod * l \in Int /\ IntMod * k \in Int
    BY <1>1
  <2> QED BY <1>2, <1>4, <1>5, <2>1, <2>2
<1>7. l - k \in Int
  OBVIOUS
<1>8. Congruent(y, WrapInt(x))
  BY <1>6, <1>7 DEF Congruent
<1> QED BY <1>3, <1>8, SameInt

\* A further digit: it does not matter that the number before it has wrapped.
LEMMA WrapsOn ==
    ASSUME NEW x \in Int, NEW d \in Int
    PROVE  WrapInt(WrapInt(x) * 10 + d) = WrapInt(10 * x + d)
<1>1. IntMod \in Nat /\ IntMod \div 2 \in Nat
  BY IntFacts
<1> DEFINE w == WrapInt(x)
           v == w * 10 + d
           y == WrapInt(v)
<1>2. w \in Ints /\ Congruent(x, w)
  BY WrapIntIs
<1>3. w \in Int /\ v \in Int
  BY <1>1, <1>2 DEF Ints
<1> HIDE DEF w
<1>4. y \in Ints /\ Congruent(v, y)
  BY <1>3, WrapIntIs
<1>5. y \in Int
  BY <1>1, <1>4 DEF Ints
<1>6. PICK k \in Int : x = w + IntMod * k
  BY <1>2 DEF Congruent
<1>7. PICK l \in Int : v = y + IntMod * l
  BY <1>4 DEF Congruent
<1> HIDE DEF y
<1>8. 10 * x + d = y + IntMod * (l + 10 * k)
  <2>1. IntMod * (l + 10 * k) = IntMod * l + 10 * (IntMod * k)
    BY <1>1
  <2>2. IntMod * l \in Int /\ IntMod * k \in Int
    BY <1>1
  <2> QED BY <1>3, <1>5, <1>6, <1>7, <2>1, <2>2
<1>9. l + 10 * k \in Int /\ 10 * x + d \in Int
  OBVIOUS
<1>10. Congruent(10 * x + d, y)
  BY <1>8, <1>9 DEF Congruent
<1>11. WrapInt(10 * x + d) = y
  BY <1>4, <1>9, <1>10, WrapsTo
<1> QED BY <1>11 DEF y, w

LEMMA WrapsNot ==
    ASSUME NEW x \in Ints
    PROVE  WrapInt(x) = x
<1>1. x \in Int /\ x = x + IntMod * 0
  BY IntFacts DEF Ints
<1>2. Congruent(x, x)
  BY <1>1 DEF Congruent
<1> QED BY <1>1, <1>2, WrapsTo

\* The negation of a number that has wrapped.
LEMMA WrapsBack ==
    ASSUME NEW x \in Int, -x \in Ints
    PROVE  WrapInt(-WrapInt(x)) = -x
<1>1. IntMod \in Nat /\ IntMod \div 2 \in Nat
  BY IntFacts
<1>2. WrapInt(x) \in Ints /\ Congruent(x, WrapInt(x))
  BY WrapIntIs
<1>3. WrapInt(x) \in Int
  BY <1>1, <1>2 DEF Ints
<1>4. PICK k \in Int : x = WrapInt(x) + IntMod * k
  BY <1>2 DEF Congruent
<1>5. -WrapInt(x) = -x + IntMod * k
  <2>1. IntMod * k \in Int
    BY <1>1
  <2> QED BY <1>3, <1>4, <2>1
<1>6. Congruent(-WrapInt(x), -x)
  BY <1>5 DEF Congruent
<1>7. -WrapInt(x) \in Int
  BY <1>3
<1> QED BY <1>6, <1>7, WrapsTo

-----------------------------------------------------------------------------
\* What the digits of m from a to b - 1 are worth in their places, and together.
Worth(m, a, b) == [x \in a .. b-1 |-> (m[x] - 48) * Tens[b-1 - x]]
Value(m, a, b) == SumOver(Worth(m, a, b), a .. b-1)

LEMMA NoValue ==
    ASSUME NEW m, NEW a \in Nat
    PROVE  Value(m, a, a) = 0
<1> DEFINE f == Worth(m, a, a)
<1>1. a .. a-1 = {} /\ IsFiniteSet({}) /\ \A x \in {} : f[x] \in Nat
  BY FS_EmptySet
<1> HIDE DEF f
<1>2. SumOver(f, {}) = 0
  BY <1>1, Sums
<1> QED BY <1>1, <1>2 DEF Value, f

\* One digit more multiplies the number by ten and adds the digit.
LEMMA NextValue ==
    ASSUME NEW m, NEW a \in Nat, NEW b \in Nat, a <= b, \A x \in a .. b : m[x] \in 48..57
    PROVE  Value(m, a, b) \in Nat /\ Value(m, a, b + 1) = 10 * Value(m, a, b) + (m[b] - 48)
<1> DEFINE S == a .. b-1
           T == a .. (b + 1) - 1
           f == Worth(m, a, b)
           g == Worth(m, a, b + 1)
<1>1. S \subseteq T /\ b \in T /\ b \notin S /\ T = S \cup {b} /\ S \subseteq Nat
  OBVIOUS
<1>2. IsFiniteSet(S)
  <2>1. a \in Int /\ b - 1 \in Int
    OBVIOUS
  <2> QED BY <2>1, FS_Interval
<1>3. ASSUME NEW x \in S
      PROVE  f[x] = (m[x] - 48) * Tens[b-1 - x] /\ g[x] = (m[x] - 48) * Tens[(b + 1) - 1 - x]
             /\ m[x] - 48 \in Nat /\ b-1 - x \in Nat
  <2>1. m[x] \in 48..57
    OBVIOUS
  <2> QED BY <1>1, <2>1 DEF Worth
<1>4. g[b] = m[b] - 48 /\ m[b] - 48 \in Nat
  <2>1. g[b] = (m[b] - 48) * Tens[(b + 1) - 1 - b]
    BY <1>1 DEF Worth
  <2>2. (b + 1) - 1 - b = 0 /\ m[b] \in 48..57
    OBVIOUS
  <2>3. \A d \in Nat : d * 1 = d
    OBVIOUS
  <2>4. m[b] - 48 \in Nat
    BY <2>2
  <2> QED BY <2>1, <2>2, <2>3, <2>4, TensFacts
<1>5. ASSUME NEW x \in S PROVE f[x] \in Nat /\ g[x] = 10 * f[x] /\ g[x] \in Nat
  <2> DEFINE d == m[x] - 48
             k == b-1 - x
             t == Tens[k]
  <2>1. d \in Nat /\ k \in Nat /\ (b + 1) - 1 - x = k + 1
    BY <1>1, <1>3
  <2> HIDE DEF k
  <2>2. t \in Nat /\ Tens[k + 1] = 10 * t
    BY <2>1, TensFacts
  <2>3. f[x] = d * t /\ g[x] = d * (10 * t)
    BY <1>3, <2>1, <2>2 DEF k
  <2> HIDE DEF d, t
  <2>4. d * t \in Nat /\ d * (10 * t) = 10 * (d * t)
    BY <2>1, <2>2
  <2> QED BY <2>3, <2>4
<1> HIDE DEF f, g, S, T
<1>6. SumOver(f, S) \in Nat
  <2>1. \A x \in S : f[x] \in Nat
    BY <1>5
  <2> QED BY <1>2, <2>1, Sums
<1>7. SumOver(g, S) = 10 * SumOver(f, S)
  <2>1. \A x \in S : f[x] \in Nat /\ g[x] = 10 * f[x]
    BY <1>5
  <2>2. 10 \in Nat
    OBVIOUS
  <2> QED BY <1>2, <2>1, <2>2, SumScaled
<1>8. SumOver(g, S \cup {b}) = g[b] + SumOver(g, S)
  <2>1. \A y \in S \cup {b} : g[y] \in Nat
    BY <1>4, <1>5
  <2> QED BY <1>1, <1>2, <2>1, SumOneMore
<1>9. Value(m, a, b) = SumOver(f, S) /\ Value(m, a, b + 1) = SumOver(g, T)
  BY DEF Value, f, g, S, T
<1> QED BY <1>1, <1>4, <1>6, <1>7, <1>8, <1>9

\* The value in TextValue is this one, of the text up to the first character at
\* p or after it that is no digit.
LEMMA TextValueIs ==
    ASSUME NEW m, NEW a, NEW b \in Addresses, DigitsStart(m, a) \in Nat \ {0}, DigitsStart(m, a) <= b,
           \A x \in DigitsStart(m, a) .. b-1 : m[x] \in 48..57, m[b] \notin 48..57
    PROVE  TextValue(m, a) = IF m[TextStart(m, a)] = 45 THEN -Value(m, DigitsStart(m, a), b)
                             ELSE Value(m, DigitsStart(m, a), b)
<1> DEFINE s == DigitsStart(m, a)
           D == Digits(m, a)
           worth == [x \in D |-> (m[x] - 48) * Tens[Max(D) - x]]
<1>1. b \in Nat /\ b <= AddrMod - 2 /\ AddrMod \in Nat /\ s \in Nat /\ 1 <= s /\ s <= b
  BY AddressRange
<1> HIDE DEF s
<1>2. D = s .. b-1
  <2>1. D = {x \in Addresses : x >= s /\ \A y \in s .. x : m[y] \in 48..57}
    BY DEF Digits, s
  <2>2. ASSUME NEW x \in D PROVE x \in s .. b-1
    <3>1. x \in Nat /\ x >= s /\ \A y \in s .. x : m[y] \in 48..57
      BY <2>1, AddressRange
    <3>2. ~(b <= x)
      BY <1>1, <3>1
    <3> QED BY <1>1, <3>1, <3>2
  <2>3. ASSUME NEW x \in s .. b-1 PROVE x \in D
    <3>1. x \in Addresses
      BY <1>1, IsAddress
    <3>2. \A y \in s .. x : y \in s .. b-1
      BY <1>1
    <3>3. \A y \in s .. b-1 : m[y] \in 48..57
      BY DEF s
    <3> QED BY <1>1, <2>1, <3>1, <3>2, <3>3
  <2> HIDE DEF D
  <2> QED BY <2>2, <2>3
<1> HIDE DEF D
<1>3. worth = Worth(m, s, b)
  <2>1. CASE s = b
    <3>1. D = {}
      BY <1>1, <1>2, <2>1
    <3> QED BY <1>2, <3>1 DEF Worth
  <2>2. CASE s # b
    <3>1. b-1 \in D /\ \A y \in D : b-1 >= y
      BY <1>1, <1>2, <2>2
    <3>2. D \subseteq Int
      BY <1>1, <1>2
    <3>3. Max(D) = b-1
      BY <3>1, <3>2, GreatestIs
    <3> QED BY <1>2, <3>3 DEF Worth
  <2> QED BY <2>1, <2>2
<1>4. SumOver(worth, D) = Value(m, s, b)
  BY <1>2, <1>3 DEF Value
<1>5. TextValue(m, a) = IF m[TextStart(m, a)] = 45 THEN -SumOver(worth, D) ELSE SumOver(worth, D)
  BY DEF TextValue, SumOver, D
<1> HIDE DEF worth
<1> QED BY <1>4, <1>5 DEF s

LEMMA ValueNat ==
    ASSUME NEW m, NEW a \in Nat, NEW b \in Nat, a <= b, \A x \in a .. b-1 : m[x] \in 48..57
    PROVE  Value(m, a, b) \in Nat
<1>1. CASE a = b
  BY <1>1, NoValue
<1>2. CASE a # b
  <2> DEFINE c == b - 1
  <2>1. c \in Nat /\ a <= c /\ c + 1 = b
    BY <1>2
  <2>2. \A x \in a .. c : m[x] \in 48..57
    OBVIOUS
  <2> HIDE DEF c
  <2>3. Value(m, a, c) \in Nat /\ Value(m, a, c + 1) = 10 * Value(m, a, c) + (m[c] - 48)
    BY <2>1, <2>2, NextValue
  <2>4. m[c] - 48 \in Nat
    <3>1. m[c] \in 48..57
      BY <2>1, <2>2
    <3> QED BY <3>1
  <2> QED BY <2>1, <2>3, <2>4
<1> QED BY <1>1, <1>2

-----------------------------------------------------------------------------
\* Where the digits of the call's text begin.
Start == DigitsStart(original, call.s1)

\* What atoi() has read: only blanks, then the sign if there is one, then the
\* digits up to p, whose value has wrapped as often as it must.
Counting ==
    /\ Start \in Nat \ {0} /\ Start <= p
    /\ minus = (original[TextStart(original, call.s1)] = 45)
    /\ \A x \in Start .. p-1 : original[x] \in 48..57
    /\ number = WrapInt(Value(original, Start, p))

NumInv ==
    /\ loop \notin {"digits", "done"} => number = 0
    /\ loop = "blanks" => \A x \in call.s1 .. p-1 : isspace(original[x])
    /\ loop = "digits" => Counting
    /\ ReadsNumber

LEMMA InitNumInv == Init => NumInv
BY DEF Init, NumInv, ReadsNumber, Done

\* The other functions do not count.
LEMMA OtherNumInv ==
    ASSUME NumInv, number' = number, loop' \notin {"blanks", "digits"},
           loop' # "done" => number = 0,
           loop' = "done" => call'.fn # "atoi"
    PROVE  NumInv'
BY DEF NumInv, ReadsNumber, Done

LEMMA OtherStep ==
    ASSUME Inv, NumInv,
           \/ strlen \/ Length \/ strzcpy \/ CopyCharacter \/ Terminate
           \/ memchr \/ Find \/ NotFound \/ memrchr \/ FindBack \/ NotFoundBack
           \/ CompareNull \/ CompareObjects \/ Compare
    PROVE  NumInv'
<1>1. call' = call /\ number' = number
  BY DEF strlen, Length, strzcpy, CopyCharacter, Terminate, memchr, Find, NotFound, memrchr, FindBack,
         NotFoundBack, CompareNull, CompareObjects, Compare, Return, Advance, Begin
<1>2. loop \notin {"blanks", "digits", "done"}
  BY DEF strlen, Length, strzcpy, CopyCharacter, Terminate, memchr, Find, NotFound, memrchr, FindBack,
         NotFoundBack, CompareNull, CompareObjects, Compare, Enter
<1>3. loop' \notin {"blanks", "digits"}
  BY <1>2 DEF strlen, Length, strzcpy, CopyCharacter, Terminate, memchr, Find, NotFound, memrchr, FindBack,
         NotFoundBack, CompareNull, CompareObjects, Compare, Return, Advance, Begin
<1>4. call.fn # "atoi"
  BY DEF Inv, At, Scanning, Finding, FindingBack, Comparing, Copying, Enter, strlen, Length, strzcpy,
         CopyCharacter, Terminate, memchr, Find, NotFound, memrchr, FindBack, NotFoundBack,
         CompareNull, CompareObjects, Compare
<1>5. number = 0
  BY <1>2 DEF NumInv
<1> QED BY <1>1, <1>3, <1>4, <1>5, OtherNumInv

LEMMA BeginsToRead == ASSUME Inv, NumInv, atoi PROVE NumInv'
<1>1. p = call.s1 /\ call' = call /\ original' = original /\ p' = p /\ loop' = "blanks"
      /\ number' = number /\ loop = "enter" /\ Args
  BY DEF Inv, At, atoi, Enter, Begin
<1>2. call.s1 \in Nat
  BY <1>1, Facts
<1>3. call'.s1 .. p'-1 = {}
  BY <1>1, <1>2
<1>4. number' = 0
  BY <1>1 DEF NumInv
<1> QED BY <1>1, <1>3, <1>4 DEF NumInv, ReadsNumber, Done

\* Where atoi() is when it reads a character.
LEMMA Reading ==
    ASSUME Inv, loop \in {"blanks", "digits"}
    PROVE  /\ mem = original /\ call.fn = "atoi" /\ call.s1 \in Addresses /\ p \in Addresses
           /\ call.s1 \in Nat /\ p \in Nat /\ call.s1 <= p /\ Up(p) = p + 1 /\ 1 <= call.s1
           /\ original[p] \in Nat
<1>1. Scanning({"atoi"}) /\ Args
  BY DEF Inv, At
<1>2. mem = original /\ call.fn = "atoi" /\ call.s1 # NULL /\ p \in Addresses /\ call.s1 <= p
  BY <1>1 DEF Scanning, Until, Object
<1>3. call.s1 \in Addresses /\ original[p] \in Nat
  BY <1>1, <1>2, Facts
<1> QED BY <1>2, <1>3, AddressRange, NextAddress

LEMMA BlankRead == ASSUME Inv, NumInv, SkipBlank PROVE NumInv'
<1>1. /\ loop = "blanks" /\ loop' = "blanks" /\ isspace(mem[p]) /\ p' = Up(p) /\ number' = number
      /\ call' = call /\ original' = original
  BY DEF SkipBlank, Advance
<1>2. /\ mem = original /\ call.s1 \in Nat /\ p \in Nat /\ call.s1 <= p /\ Up(p) = p + 1
  BY <1>1, Reading
<1>3. \A x \in call.s1 .. p-1 : isspace(original[x])
  BY <1>1 DEF NumInv
<1>4. ASSUME NEW x \in call.s1 .. (p + 1) - 1 PROVE isspace(original[x])
  <2>1. x = p \/ x \in call.s1 .. p-1
    BY <1>2
  <2> QED BY <1>1, <1>2, <1>3, <2>1
<1>5. number' = 0
  BY <1>1 DEF NumInv
<1> QED BY <1>1, <1>2, <1>4, <1>5 DEF NumInv, ReadsNumber, Done, isspace

LEMMA SignRead == ASSUME Inv, NumInv, Sign PROVE NumInv'
<1> DEFINE a == call.s1
           S == {b \in Addresses : b >= a /\ original[b] \notin (9..13) \cup {32}}
<1>1. /\ loop = "blanks" /\ loop' = "digits" /\ ~isspace(mem[p]) /\ p' = (IF minus' THEN Up(p) ELSE p)
      /\ number' = number /\ call' = call /\ original' = original
  BY DEF Sign
<1>2. minus' = (mem[p] = 45)
  BY Zenon DEF Sign
<1>3. /\ mem = original /\ a \in Nat /\ p \in Nat /\ a <= p /\ Up(p) = p + 1 /\ p \in Addresses /\ 1 <= a
  BY <1>1, Reading
<1>4. TextStart(original, a) = p
  <2>1. S \subseteq Int
    BY AddressRange
  <2>2. p \in S
    BY <1>1, <1>3 DEF isspace
  <2>3. ASSUME NEW y \in S PROVE p <= y
    <3>1. y \in Nat /\ y >= a /\ ~isspace(original[y])
      BY AddressRange DEF isspace
    <3>2. \A x \in a .. p-1 : isspace(original[x])
      BY <1>1 DEF NumInv
    <3>3. y \notin a .. p-1
      BY <3>1, <3>2
    <3> QED BY <1>3, <3>1, <3>3
  <2> HIDE DEF S
  <2>4. Min(S) = p
    BY <2>1, <2>2, <2>3, LeastIs
  <2> QED BY <2>4 DEF S, TextStart
<1> HIDE DEF S
<1>5. Start = p'
  <2>1. Start = IF original[p] = 45 THEN p + 1 ELSE p
    BY <1>4 DEF Start, DigitsStart
  <2>2. CASE mem[p] = 45
    <3>1. minus'
      BY <1>2, <2>2, Zenon
    <3> QED BY <1>1, <1>3, <2>1, <2>2, <3>1
  <2>3. CASE mem[p] # 45
    <3>1. ~minus'
      BY <1>2, <2>3, Zenon
    <3> QED BY <1>1, <1>3, <2>1, <2>3, <3>1
  <2> QED BY <2>2, <2>3
<1>6. p' \in Nat \ {0}
  BY <1>1, <1>3
<1>7. number' = WrapInt(Value(original, p', p'))
  <2>1. number = 0
    BY <1>1 DEF NumInv
  <2>2. Value(original, p', p') = 0
    BY <1>6, NoValue
  <2>3. 0 \in Ints
    BY IntFacts DEF Ints
  <2> QED BY <1>1, <2>1, <2>2, <2>3, WrapsNot
<1>8. p' .. p'-1 = {} /\ p' <= p'
  <2>1. \A n \in Nat : n .. n-1 = {} /\ n <= n
    OBVIOUS
  <2>2. p' \in Nat
    BY <1>6
  <2> QED BY <2>1, <2>2
<1>9. Start' = Start /\ TextStart(original, call.s1)' = p
  BY <1>1, <1>4 DEF Start
<1>10. minus' = (original'[p] = 45)
  BY <1>1, <1>2, <1>3, Zenon
<1>11. Counting'
  <2>1. Start' \in Nat \ {0} /\ Start' <= p' /\ Start' = p'
    BY <1>5, <1>6, <1>8, <1>9
  <2>2. minus' = (original'[TextStart(original', call'.s1)] = 45)
    BY <1>9, <1>10, Zenon
  <2>3. \A x \in Start' .. p'-1 : original'[x] \in 48..57
    BY <1>8, <2>1
  <2>4. number' = WrapInt(Value(original', Start', p'))
    BY <1>1, <1>7, <2>1
  <2> QED BY <2>1, <2>2, <2>3, <2>4 DEF Counting
<1> QED BY <1>1, <1>11 DEF NumInv, ReadsNumber, Done

LEMMA DigitRead == ASSUME Inv, NumInv, Digit PROVE NumInv'
<1> DEFINE s == Start
           v == Value(original, s, p)
<1>1. /\ loop = "digits" /\ loop' = "digits" /\ isdigit(mem[p]) /\ p' = Up(p)
      /\ number' = WrapInt(number * 10 + (mem[p] - 48)) /\ minus' = minus
      /\ call' = call /\ original' = original
  BY DEF Digit
<1>2. mem = original /\ p \in Nat /\ Up(p) = p + 1
  BY <1>1, Reading
<1>3. Counting
  BY <1>1 DEF NumInv
<1>4. /\ s \in Nat \ {0} /\ s <= p /\ \A x \in s .. p-1 : original[x] \in 48..57
      /\ number = WrapInt(v)
  BY <1>3 DEF Counting
<1>5. minus = (original[TextStart(original, call.s1)] = 45)
  BY <1>3, Zenon DEF Counting
<1>6. Start' = Start
  BY <1>1 DEF Start
<1> HIDE DEF s
<1>7. \A x \in s .. p : original[x] \in 48..57
  <2> SUFFICES ASSUME NEW x \in s .. p PROVE original[x] \in 48..57
    OBVIOUS
  <2>1. x = p \/ x \in s .. p-1
    BY <1>2, <1>4
  <2> QED BY <1>1, <1>2, <1>4, <2>1 DEF isdigit
<1>8. v \in Nat /\ Value(original, s, p + 1) = 10 * v + (original[p] - 48)
  BY <1>2, <1>4, <1>7, NextValue
<1> HIDE DEF v
<1>9. number' = WrapInt(10 * v + (original[p] - 48))
  <2> DEFINE d == original[p] - 48
  <2>1. v \in Int /\ d \in Int
    BY <1>4, <1>7, <1>8, <1>2
  <2> HIDE DEF d
  <2>2. WrapInt(WrapInt(v) * 10 + d) = WrapInt(10 * v + d)
    BY <2>1, WrapsOn
  <2> QED BY <1>1, <1>2, <1>4, <2>2 DEF d
<1>10. Counting'
  <2>1. s <= p + 1 /\ (p + 1) - 1 = p
    BY <1>2, <1>4
  <2>2. minus' = (original'[TextStart(original', call'.s1)] = 45)
    BY <1>1, <1>5, Zenon
  <2>3. /\ Start' \in Nat \ {0} /\ Start' <= p' /\ \A x \in Start' .. p'-1 : original'[x] \in 48..57
        /\ number' = WrapInt(Value(original', Start', p'))
    BY <1>1, <1>2, <1>4, <1>6, <1>7, <1>8, <1>9, <2>1 DEF s
  <2> QED BY <2>2, <2>3 DEF Counting
<1> QED BY <1>1, <1>10 DEF NumInv, ReadsNumber, Done

LEMMA NumberRead == ASSUME Inv, NumInv, NoDigit PROVE NumInv'
<1> DEFINE s == Start
           v == Value(original, s, p)
           t == TextStart(original, call.s1)
           value == TextValue(original, call.s1)
<1>1. /\ loop = "digits" /\ loop' = "done" /\ ~isdigit(mem[p]) /\ ret' = Signed(number)
      /\ call' = call /\ original' = original
  BY DEF NoDigit, Return
<1>2. mem = original /\ p \in Nat /\ p \in Addresses
  BY <1>1, Reading
<1>3. Counting
  BY <1>1 DEF NumInv
<1>4. /\ s \in Nat \ {0} /\ s <= p /\ \A x \in s .. p-1 : original[x] \in 48..57
      /\ number = WrapInt(v)
  BY <1>3 DEF Counting
<1>5. minus = (original[t] = 45)
  BY <1>3, Zenon DEF Counting
<1>6. original[p] \notin 48..57
  BY <1>1, <1>2 DEF isdigit
<1>7. value = IF original[t] = 45 THEN -v ELSE v
  BY <1>2, <1>4, <1>6, TextValueIs DEF Start
<1>8. v \in Int
  <2> HIDE DEF s
  <2>1. s \in Nat
    BY <1>4
  <2>2. Value(original, s, p) \in Nat
    BY <1>2, <1>4, <2>1, ValueNat
  <2> QED BY <2>2
<1> HIDE DEF s, v, t, value
<1>9. ret' = IF original[t] = 45 THEN WrapInt(-WrapInt(v)) ELSE WrapInt(v)
  <2>1. ret' = IF minus THEN WrapInt(-number) ELSE number
    BY <1>1 DEF Signed
  <2>2. CASE original[t] = 45
    <3>1. minus
      BY <1>5, <2>2, Zenon
    <3> QED BY <1>4, <2>1, <2>2, <3>1
  <2>3. CASE original[t] # 45
    <3>1. ~minus
      BY <1>5, <2>3, Zenon
    <3> QED BY <1>4, <2>1, <2>3, <3>1
  <2> QED BY <2>2, <2>3
<1>10. ASSUME value \in -(IntMod \div 2) .. (IntMod \div 2) - 1 PROVE ret' = value
  <2>1. value \in Ints
    <3>1. 2 * (IntMod \div 2) <= IntMod
      BY IntFacts
    <3> QED BY <1>10, <3>1, IntFacts DEF Ints
  <2>2. CASE original[t] = 45
    <3>1. WrapInt(-WrapInt(v)) = -v
      BY <1>7, <1>8, <2>1, <2>2, WrapsBack
    <3> QED BY <1>7, <1>9, <2>2, <3>1
  <2>3. CASE original[t] # 45
    <3>1. WrapInt(v) = v
      BY <1>7, <2>1, <2>3, WrapsNot
    <3> QED BY <1>7, <1>9, <2>3, <3>1
  <2> QED BY <2>2, <2>3
<1>11. TextValue(original, call.s1)' = value
  BY <1>1 DEF value
<1>12. ReadsNumber'
  BY <1>10, <1>11 DEF ReadsNumber
<1> QED BY <1>1, <1>12 DEF NumInv

LEMMA NextNumInv == Inv /\ NumInv /\ [Next]_vars => NumInv'
<1> SUFFICES ASSUME Inv, NumInv, [Next]_vars PROVE NumInv'
  OBVIOUS
<1>1. CASE \/ strlen \/ Length \/ strzcpy \/ CopyCharacter \/ Terminate
           \/ memchr \/ Find \/ NotFound \/ memrchr \/ FindBack \/ NotFoundBack
           \/ CompareNull \/ CompareObjects \/ Compare
  BY <1>1, OtherStep
<1>2. CASE atoi \/ SkipBlank \/ Sign \/ Digit \/ NoDigit
  BY <1>2, BeginsToRead, BlankRead, SignRead, DigitRead, NumberRead
<1>3. CASE UNCHANGED vars
  BY <1>3 DEF vars, NumInv, Counting, Start, ReadsNumber, Done
<1> QED BY <1>1, <1>2, <1>3 DEF Next

\* atoi() returns the number its text begins with, whenever that is an int: for
\* every text and every width of an int, the least int included, whose
\* magnitude wraps on the way (test_atoi.c:19).
THEOREM NumbersAreRead == Spec => []ReadsNumber
<1>1. Spec => []NumInv
  BY InitNumInv, NextNumInv, Invariance, PTL DEF Spec
<1>2. NumInv => ReadsNumber
  BY DEF NumInv
<1> QED BY <1>1, <1>2, PTL

=============================================================================

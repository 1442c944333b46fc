------------------------------- MODULE Strings -------------------------------
(***************************************************************************)
(* The string functions of src/src/strmem.c, and atoi() of src/src/atoi.c: *)
(* loops over one or two arrays of characters that must find their end     *)
(* without reading beyond it.                                              *)
(*                                                                         *)
(* One behaviour is one call, one step one turn of a loop. An address is a *)
(* number below AddrMod; address arithmetic wraps there.                   *)
(***************************************************************************)
EXTENDS Integers, FiniteSets, FiniteSetsExt

CONSTANTS
    AddrMod,      \* 2^64: addresses and sizes
    ByteMod,      \* 2^8
    IntMod,       \* 2^32: int
    SignedChars,  \* whether char is signed (x86: TRUE, RISC-V and ARM: FALSE)
    Calls,        \* the calls: [fn, s1, s2, c, n]
    Memories      \* what is in memory when a function is called

NULL == 0
PLATFORM_MAX_ADDR == AddrMod - 1
Addresses == 1 .. PLATFORM_MAX_ADDR - 1

Functions == {"strlen", "strnlen", "strzcpy", "memchr", "memrchr",
              "memcmp", "strcmp", "strncmp", "atoi"}

-----------------------------------------------------------------------------
(* What the functions are asked to do (string.h), about a memory m         *)

\* The n characters at a, and those up to and including the first that is c.
Object(a, n) == {b \in Addresses : a # NULL /\ a <= b /\ b - a < n}
Until(m, a, n, c) == {b \in Object(a, n) : \A x \in a .. b-1 : m[x] # c}

\* At a there are n characters, or fewer and a c.
Ends(m, a, n, c) ==
    /\ a # NULL
    /\ \/ Cardinality(Object(a, n)) = n
       \/ \E b \in Object(a, n) : m[b] = c

IsString(m, a) == Ends(m, a, AddrMod, 0)

\* How many characters go before the NUL into n bytes.
Characters(n) == IF n = 0 THEN 0 ELSE n - 1

\* What the caller of each function must see to.
IsCall(k, m) ==
    CASE k.fn = "atoi"    -> IsString(m, k.s1)
     [] k.fn = "strlen"  -> k.s1 = NULL \/ IsString(m, k.s1)
     [] k.fn = "strnlen" -> Ends(m, k.s1, k.n, 0)
     [] k.fn = "memchr"  -> Ends(m, k.s1, k.n, k.c)
     [] k.fn = "memrchr" -> k.s1 # NULL /\ Cardinality(Object(k.s1, k.n)) = k.n
     [] k.fn = "memcmp"  ->
           LET n == IF NULL \in {k.s1, k.s2} THEN 1 ELSE k.n
           IN  \A s \in {k.s1, k.s2} \ {NULL} : Cardinality(Object(s, n)) = n
     [] k.fn = "strcmp"  -> \A s \in {k.s1, k.s2} \ {NULL} : IsString(m, s)
     [] k.fn = "strncmp" -> \A s \in {k.s1, k.s2} \ {NULL} : Ends(m, s, k.n, 0)
     [] k.fn = "strzcpy" ->
           /\ k.s1 # NULL /\ Cardinality(Object(k.s1, k.n)) = k.n
           /\ Ends(m, k.s2, Characters(k.n), 0)
           /\ Object(k.s1, k.n) \cap Until(m, k.s2, Characters(k.n), 0) = {}

ASSUME StringsAssumption ==
    /\ {AddrMod, ByteMod, IntMod} \subseteq Nat \ {0, 1}
    /\ SignedChars \subseteq BOOLEAN
    /\ Calls \subseteq [fn : Functions, s1 : Addresses \cup {NULL}, s2 : Addresses \cup {NULL},
                        c : 0 .. ByteMod-1, n : 0 .. AddrMod-1]
    /\ Memories \subseteq [Addresses -> 0 .. ByteMod-1]

VARIABLES
    call, signed,  \* the call, and whether char is signed where it runs
    original, mem, \* the memory at the call, and now
    loop,          \* "enter", then the loop that runs; "done"
    p, q,          \* the pointers that advance
    end,           \* where the loop ends; for strzcpy() the place left
    number, minus, \* what atoi() has read
    ret,           \* what the function returns
    read           \* history: the addresses that were read

vars == <<call, signed, original, mem, loop, p, q, end, number, minus, ret, read>>

Init ==
    /\ call \in Calls /\ signed \in SignedChars
    /\ original \in Memories /\ IsCall(call, original)
    /\ mem = original
    /\ loop = "enter" /\ p = call.s1 /\ q = call.s2 /\ end = 0
    /\ number = 0 /\ minus = FALSE /\ ret = 0 /\ read = {}

-----------------------------------------------------------------------------
\* A char as the int it is promoted to.
AsInt(byte) == IF signed /\ byte >= ByteMod \div 2 THEN byte - ByteMod ELSE byte

\* An int sum too large, undefined in C, wraps in the code compiled for the loop.
WrapInt(x) == ((x + IntMod \div 2) % IntMod) - IntMod \div 2

isspace_bug_blank(c) == c = 32
isspace(c) == c = 32 \/ c \in 9..13
isdigit(c) == c \in 48..57

Up(a) == (a + 1) % AddrMod

Clamped_bug_not(a, n) == n
\* n, so that a + n does not wrap.
Clamped(a, n) == Min({n, PLATFORM_MAX_ADDR - a})

Enter(fns) == loop = "enter" /\ call.fn \in fns

Return(r) ==
    /\ ret' = r /\ loop' = "done"
    /\ UNCHANGED <<call, signed, original, p, q, end, number, minus>>

\* The loop goes on with other pointers.
Advance(pp, qq) ==
    /\ p' = pp /\ q' = qq
    /\ UNCHANGED <<call, signed, original, loop, number, minus, ret>>

Begin(next, first, last) ==
    /\ loop' = next /\ p' = first /\ end' = last
    /\ UNCHANGED <<call, signed, original, mem, q, number, minus, ret, read>>

Read(as) == read' = read \cup as /\ UNCHANGED mem

-----------------------------------------------------------------------------
strlen ==
    /\ Enter({"strlen"})
    /\ IF call.s1 = NULL THEN Return(0) /\ Read({}) ELSE Begin("length", p, end)

Length ==
    /\ loop = "length" /\ Read({p})
    /\ IF mem[p] = 0 THEN Return(p - call.s1) ELSE Advance(Up(p), q) /\ UNCHANGED end

-----------------------------------------------------------------------------
strzcpy ==
    /\ Enter({"strzcpy"})
    /\ IF call.n = 0 THEN Return(call.s1) /\ Read({}) ELSE Begin("copy", p, call.n)

PlaceLeft_bug_all == end > 0
\* There is place for a character and the NUL.
PlaceLeft == end > 1

CopyCharacter ==
    /\ loop = "copy" /\ PlaceLeft /\ mem[q] # 0
    /\ mem' = [mem EXCEPT ![p] = mem[q]]
    /\ read' = read \cup {q}
    /\ end' = end - 1 /\ Advance(Up(p), Up(q))

Terminate ==
    /\ loop = "copy" /\ (PlaceLeft => mem[q] = 0)
    /\ mem' = [mem EXCEPT ![p] = 0]
    /\ read' = IF PlaceLeft THEN read \cup {q} ELSE read
    /\ Return(call.s1)

-----------------------------------------------------------------------------
\* strnlen() searches for the NUL with memchr().
memchr ==
    /\ Enter({"memchr", "strnlen"})
    /\ Begin("find", p, (p + Clamped(p, call.n)) % AddrMod)

Sought == IF call.fn = "strnlen" THEN 0 ELSE call.c

Find ==
    /\ loop = "find" /\ p < end /\ Read({p})
    /\ IF AsInt(mem[p]) = Sought
       THEN Return(IF call.fn = "strnlen" THEN p - call.s1 ELSE p)
       ELSE Advance(Up(p), q) /\ UNCHANGED end

NotFound ==
    /\ loop = "find" /\ ~(p < end) /\ Read({})
    /\ Return(IF call.fn = "strnlen" THEN call.n ELSE NULL)

memrchr ==
    /\ Enter({"memrchr"})
    /\ Begin("findback", (p + Clamped(p, call.n)) % AddrMod, p)

FindBack ==
    /\ loop = "findback" /\ p > end /\ Read({p - 1})
    /\ IF AsInt(mem[p - 1]) = Sought
       THEN Return(p - 1)
       ELSE Advance(p - 1, q) /\ UNCHANGED end

NotFoundBack == loop = "findback" /\ ~(p > end) /\ Read({}) /\ Return(NULL)

-----------------------------------------------------------------------------
Difference_bug_signed(c1, c2) == AsInt(c1) - AsInt(c2)
\* Of characters as unsigned chars.
Difference(c1, c2) == c1 - c2

\* Nothing to compare, or no object: a null pointer stands before all others.
CompareNull ==
    /\ Enter({"memcmp", "strcmp", "strncmp"})
    /\ \/ call.fn # "strcmp" /\ call.n = 0 /\ Return(0) /\ Read({})
       \/ /\ call.fn = "strcmp" \/ call.n # 0
          /\ CASE p = NULL /\ q = NULL -> Return(0) /\ Read({})
               [] p = NULL /\ q # NULL -> Return(Difference(0, mem[q])) /\ Read({q})
               [] p # NULL /\ q = NULL -> Return(Difference(mem[p], 0)) /\ Read({p})
               [] OTHER -> FALSE

CompareObjects ==
    /\ Enter({"memcmp", "strcmp", "strncmp"})
    /\ p # NULL /\ q # NULL
    /\ call.fn = "strcmp" \/ call.n # 0
    /\ Begin("compare", p, IF call.fn = "strcmp" THEN end
                           ELSE (p + Clamped(p, call.n)) % AddrMod)

GoesOn_bug_nul(next) == call.fn # "strcmp" => next < end
\* The bytes were equal: there are more to compare.
GoesOn(next) ==
    /\ call.fn # "memcmp" => mem[p] # 0
    /\ call.fn # "strcmp" => next < end

Compare ==
    /\ loop = "compare" /\ Read({p, q})
    /\ IF mem[p] = mem[q] /\ GoesOn(Up(p))
       THEN Advance(Up(p), Up(q)) /\ UNCHANGED end
       ELSE Return(Difference(mem[p], mem[q]))

-----------------------------------------------------------------------------
atoi == Enter({"atoi"}) /\ Begin("blanks", p, end)

SkipBlank ==
    /\ loop = "blanks" /\ isspace(mem[p]) /\ Read({p})
    /\ Advance(Up(p), q) /\ UNCHANGED end

Sign ==
    /\ loop = "blanks" /\ ~isspace(mem[p]) /\ Read({p})
    /\ loop' = "digits" /\ minus' = (mem[p] = 45)
    /\ p' = IF minus' THEN Up(p) ELSE p
    /\ UNCHANGED <<call, signed, original, q, end, number, ret>>

Digit ==
    /\ loop = "digits" /\ isdigit(mem[p]) /\ Read({p})
    /\ number' = WrapInt(number * 10 + (mem[p] - 48))
    /\ p' = Up(p)
    /\ UNCHANGED <<call, signed, original, loop, q, end, minus, ret>>

Signed(n) == IF minus THEN WrapInt(-n) ELSE n

NoDigit ==
    /\ loop = "digits" /\ ~isdigit(mem[p]) /\ Read({p})
    /\ Return(Signed(number))

Next ==
    \/ strlen \/ Length
    \/ strzcpy \/ CopyCharacter \/ Terminate
    \/ memchr \/ Find \/ NotFound
    \/ memrchr \/ FindBack \/ NotFoundBack
    \/ CompareNull \/ CompareObjects \/ Compare
    \/ atoi \/ SkipBlank \/ Sign \/ Digit \/ NoDigit

Spec == Init /\ [][Next]_vars

-----------------------------------------------------------------------------
(* Properties *)

\* What the function may read.
Readable ==
    CASE call.fn \in {"strlen", "atoi"} -> Until(original, call.s1, AddrMod, 0)
      [] call.fn = "strnlen" -> Until(original, call.s1, call.n, 0)
      [] call.fn = "memchr"  -> Until(original, call.s1, call.n, call.c)
      [] call.fn = "memrchr" -> Object(call.s1, call.n)
      [] call.fn = "memcmp"  -> Object(call.s1, call.n) \cup Object(call.s2, call.n)
      [] call.fn = "strcmp"  -> UNION {Until(original, s, AddrMod, 0) : s \in {call.s1, call.s2}}
      [] call.fn = "strncmp" -> UNION {Until(original, s, call.n, 0) : s \in {call.s1, call.s2}}
      [] call.fn = "strzcpy" -> Until(original, call.s2, Characters(call.n), 0)

\* memchr() and memrchr() compare a char with an int (strmem.c:58, 76): where
\* char is signed they look for no byte from 128 on.
FindsByte == signed => call.c < ByteMod \div 2

\* "If an array is accessed beyond the end of an object, the behavior is
\* undefined" (string.h:16-17): no function reads a character after the NUL,
\* after the length it was given or, memchr(), after the character it found
\* (string.h:163-166), also for a length that reaches beyond the address space.
\* Left out is memchr() of a byte it does not look for (FindsByte): it reads on.
NotOverread == FindsByte \/ call.fn # "memchr" => read \subseteq Readable

Done(fns) == loop = "done" /\ call.fn \in fns

\* strlen() and strnlen() count the characters before the NUL, memchr() and
\* memrchr() return the first and the last that is c, or none; that they miss
\* every byte from 128 on where char is signed is left out (FindsByte).
FindsFirst ==
    LET hits == {b \in Object(call.s1, call.n) : original[b] = call.c}
    IN  /\ Done({"strlen"}) =>
              ret = IF call.s1 = NULL THEN 0
                    ELSE Cardinality(Until(original, call.s1, AddrMod, 0)) - 1
        /\ Done({"strnlen"}) =>
              ret = Cardinality({b \in Until(original, call.s1, call.n, 0) : original[b] # 0})
        /\ Done({"memchr"}) /\ FindsByte => ret = IF hits = {} THEN NULL ELSE Min(hits)
        /\ Done({"memrchr"}) /\ FindsByte => ret = IF hits = {} THEN NULL ELSE Max(hits)

\* The first place where the objects or strings differ, if any; a null pointer
\* counts as one NUL.
FirstDifference ==
    LET At(s, k)  == IF s = NULL THEN 0 ELSE original[s + k]
        Differ(k) == At(call.s1, k) # At(call.s2, k)
        Over(k)   == call.fn # "memcmp" /\ At(call.s1, k) = 0
        length    == Min({IF call.fn = "strcmp" THEN AddrMod ELSE call.n,
                          IF NULL \in {call.s1, call.s2} THEN 1 ELSE AddrMod})
        places    == {k \in 0 .. length-1 :
                         \A s \in {call.s1, call.s2} \ {NULL} : s + k \in Addresses}
    IN  {At(call.s1, k) - At(call.s2, k) : k \in
            {k \in places : Differ(k) /\ \A j \in 0 .. k-1 : ~Differ(j) /\ ~Over(j)}}

\* "an integer greater than, equal to, or less than zero, accordingly as the
\* string pointed to by s1 is greater than, equal to, or less than the string
\* pointed to by s2" (string.h:115-140), as unsigned characters.
ComparesInOrder ==
    Done({"memcmp", "strcmp", "strncmp"}) =>
        /\ ret = 0 <=> FirstDifference = {}
        /\ \A x \in FirstDifference : ret > 0 <=> x > 0

\* "Copy string with guaranteed zero termination" (string.h:92): the longest part
\* of the string that fits, a NUL, and nothing else is written.
CopiesTruncated ==
    Done({"strzcpy"}) =>
        LET m == original
            k == Cardinality({b \in Until(m, call.s2, Characters(call.n), 0) : m[b] # 0})
        IN  /\ ret = call.s1
            /\ mem = [a \in Addresses |->
                         CASE a - call.s1 \in 0 .. k-1 -> m[call.s2 + (a - call.s1)]
                           [] call.n > 0 /\ a = call.s1 + k -> 0
                           [] OTHER -> m[a]]

\* The powers of ten, as what a digit is worth in its place.
Tens[k \in Nat] == IF k = 0 THEN 1 ELSE 10 * Tens[k - 1]

\* Where a text of memory m that begins at a has its sign, or else its digits.
TextStart(m, a) == Min({b \in Addresses : b >= a /\ m[b] \notin (9..13) \cup {32}})
DigitsStart(m, a) ==
    IF m[TextStart(m, a)] = 45 THEN TextStart(m, a) + 1 ELSE TextStart(m, a)
Digits(m, a) ==
    {b \in Addresses : b >= DigitsStart(m, a) /\ \A x \in DigitsStart(m, a) .. b : m[x] \in 48..57}

\* The number a text begins with, after blanks and a minus.
TextValue(m, a) ==
    LET worth == [b \in Digits(m, a) |-> (m[b] - 48) * Tens[Max(Digits(m, a)) - b]]
        value == MapThenSumSet(LAMBDA b : worth[b], Digits(m, a))
    IN  IF m[TextStart(m, a)] = 45 THEN -value ELSE value

\* atoi() returns the number the text begins with if that is an int, the least
\* int included (test_atoi.c:19), although its magnitude is none: the sum wraps
\* on the way and so does its negation.
ReadsNumber ==
    Done({"atoi"}) =>
        LET value == TextValue(original, call.s1)
        IN  value \in -(IntMod \div 2) .. (IntMod \div 2) - 1 => ret = value

=============================================================================

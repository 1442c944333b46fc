----------------------------- MODULE MemoryProofs -----------------------------
(***************************************************************************)
(* Proofs about Memory, for every size of a word, every memory and all     *)
(* calls: arithmetic on words, one turn of a loop, one lemma for each      *)
(* action, and the theorems.                                               *)
(***************************************************************************)
EXTENDS Memory, TLAPS

\* Quotient and rest.
LEMMA DivMod ==
    ASSUME NEW w \in Nat \ {0}, NEW a \in Int
    PROVE  /\ a \div w \in Int /\ a % w \in 0 .. w - 1
           /\ a = (a \div w) * w + (a % w)
BY SMT

\* A multiple of w leaves nothing, and what is added to it stays as the rest.
LEMMA Multiple ==
    ASSUME NEW w \in Nat \ {0}, NEW k \in Int, NEW j \in 0 .. w-1
    PROVE  (k * w + j) % w = j
BY SMT

\* Products with a positive number are ordered like their other factors.
LEMMA Factor ==
    ASSUME NEW w \in Nat \ {0}, NEW k \in Int
    PROVE  /\ k * w \in Int
           /\ k * w > 0 => k * w >= w
BY SMT

\* Factoring out.
LEMMA Difference ==
    ASSUME NEW w \in Int, NEW p \in Int, NEW q \in Int
    PROVE  q * w - p * w = (q - p) * w
BY SMT

\* Numbers with the same rest differ by a multiple.
LEMMA Same ==
    ASSUME NEW w \in Nat \ {0}, NEW a \in Int, NEW b \in Int, a % w = b % w
    PROVE  b - a = ((b \div w) - (a \div w)) * w
<1> DEFINE p == a \div w  q == b \div w
<1>1. /\ p \in Int /\ q \in Int
      /\ a = p * w + (a % w) /\ b = q * w + (a % w) /\ a % w \in Int
  BY DivMod
<1>2. b - a = q * w - p * w
  <2> HIDE DEF p, q
  <2> QED BY <1>1, Factor
<1> HIDE DEF p, q
<1>3. b - a = (q - p) * w
  BY <1>1, <1>2, Difference
<1> QED BY <1>3 DEF p, q

\* Two addresses with the same place in a word are a word apart (memcpy.c:37, 121).
LEMMA WordApart ==
    ASSUME NEW w \in Nat \ {0}, NEW a \in Int, NEW b \in Int,
           a % w = b % w, a < b
    PROVE  a + w <= b
<1> DEFINE k == (b \div w) - (a \div w)
<1>1. k \in Int
  BY DivMod
<1>2. b - a = k * w
  BY Same
<1> HIDE DEF k
<1> QED BY <1>1, <1>2, Factor

\* Equally aligned pointers stay so when both move.
LEMMA SameOffset ==
    ASSUME NEW w \in Nat \ {0}, NEW a \in Int, NEW b \in Int, NEW c \in Int,
           a % w = b % w
    PROVE  (a + c) % w = (b + c) % w
<1> DEFINE k == (b \div w) - (a \div w)  u == (a + c) \div w  t == (a + c) % w
<1>1. k \in Int /\ u \in Int /\ t \in 0 .. w-1 /\ a + c = u * w + t
  BY DivMod
<1>2. b - a = k * w
  BY Same
<1> HIDE DEF k, u, t
<1>3. b + c = (u + k) * w + t
  BY <1>1, <1>2
<1>4. (b + c) % w = t
  BY <1>1, <1>3, Multiple
<1> QED BY <1>4 DEF t

\* What `& ~mask` yields (memcpy.c:35).
LEMMA RoundingDown ==
    ASSUME NEW a \in Nat
    PROVE  /\ RoundDown(a) \in Nat /\ RoundDown(a) <= a /\ a < RoundDown(a) + WordSize
           /\ RoundDown(a) % WordSize = 0
<1> DEFINE k == a \div WordSize
<1>1. k \in Int /\ a % WordSize \in 0 .. WordSize - 1 /\ a = k * WordSize + (a % WordSize)
  BY DivMod, MemoryAssumption
<1>2. RoundDown(a) = k * WordSize + 0
  <2> HIDE DEF k
  <2> QED BY <1>1, Factor, MemoryAssumption DEF RoundDown
<1>3. RoundDown(a) % WordSize = 0
  <2> HIDE DEF k
  <2> QED BY <1>1, <1>2, Multiple, MemoryAssumption
<1>4. k >= 0
  BY MemoryAssumption, SMT
<1>5. k * WordSize >= 0 /\ k * WordSize \in Int
  <2> HIDE DEF k
  <2> QED BY <1>1, <1>4, MemoryAssumption, SMT
<1> QED BY <1>1, <1>2, <1>3, <1>5, MemoryAssumption DEF RoundDown

\* What `+ mask) & ~mask` yields (memcpy.c:38).
LEMMA RoundingUp ==
    ASSUME NEW a \in Nat
    PROVE  /\ RoundUp(a) \in Nat /\ a <= RoundUp(a) /\ RoundUp(a) < a + WordSize
           /\ RoundUp(a) % WordSize = 0
BY RoundingDown, MemoryAssumption DEF RoundUp
-----------------------------------------------------------------------------
\* Once a wrapper has compared the lengths the objects are there.
LEMMA InCall ==
    ASSUME IInv, loop \notin {"check", "trapped"}
    PROVE  TypeOK /\ IsCall(call) /\ ~TooLong(call)
BY DEF IInv, TypeOK

\* Nothing is written yet.
LEMMA NothingMoved ==
    ASSUME IsCall(call), Untouched
    PROVE  Moved(call.dest, call.dest)
BY MemoryAssumption DEF IsCall, Untouched, Moved, Addresses

-----------------------------------------------------------------------------
(* One turn of a loop *)

\* Upwards: n more units are moved, and nothing yet to be read was written.
LEMMA TurnUp ==
    ASSUME IInv, Looping, ~down, NEW n \in Nat \ {0}, d + n <= tail, Turn(n)
    PROVE  TypeOK' /\ InStep' /\ Moved(call.dest, d)' /\ d' = d + n
<1>1. TypeOK /\ InStep /\ IsCall(call) /\ Moved(call.dest, d)
      /\ (call.fn # "memset" => ~OverlapsUpwards) /\ ~TooLong(call)
  BY InCall DEF IInv, UpInv, Looping
<1>2. /\ d' = d + n /\ s' = s + n /\ mem' = Stored(d, s, n)
      /\ UNCHANGED <<call, arch, loop, down, head, body, tail>>
  BY DEF Turn
<1>3. /\ call.dest \in Nat /\ call.src \in Nat /\ call.len \in Nat /\ MemorySize \in Nat
      /\ call.dest + call.len <= MemorySize /\ call.src + call.len <= MemorySize
      /\ d \in call.dest .. call.dest + call.len
      /\ s = call.src + (d - call.dest) /\ tail = call.dest + call.len
  BY <1>1, MemoryAssumption DEF IsCall, InStep
<1>4. call.c % ByteMod \in Int
  <2>1. call.c \in Int /\ ByteMod \in Nat \ {0}
    BY <1>1, MemoryAssumption DEF IsCall
  <2>2. call.c % ByteMod \in 0 .. ByteMod - 1
    BY <2>1, DivMod
  <2> QED BY <2>1, <2>2
<1>5. ASSUME NEW a \in Addresses
      PROVE  mem'[a] = IF a \in call.dest .. d + n - 1 THEN Wanted(a) ELSE a
  <2>1. mem'[a] = IF a \notin d .. d+n-1 THEN mem[a]
                  ELSE IF call.fn = "memset" THEN call.c % ByteMod
                  ELSE mem[s + (a - d)]
    BY <1>2, <1>5 DEF Stored
  <2>2. mem[a] = IF a \in call.dest .. d-1 THEN Wanted(a) ELSE a
    BY <1>1, <1>5 DEF Moved
  <2>3. CASE a \notin d .. d+n-1
    BY <2>1, <2>2, <2>3, <1>3, <1>5 DEF Addresses
  <2>4. CASE a \in d .. d+n-1 /\ call.fn = "memset"
    BY <2>1, <2>4, <1>3 DEF Wanted
  <2>5. CASE a \in d .. d+n-1 /\ call.fn # "memset"
    <3>1. /\ s + (a - d) \in Addresses /\ s + (a - d) \notin call.dest .. d-1
          /\ s + (a - d) = call.src + (a - call.dest)
      BY <2>5, <1>1, <1>3, <1>5 DEF Addresses, OverlapsUpwards
    <3>2. mem[s + (a - d)] = s + (a - d)
      BY <3>1, <1>1 DEF Moved
    <3> QED BY <2>1, <2>5, <3>1, <3>2, <1>3 DEF Wanted
  <2> QED BY <2>3, <2>4, <2>5
<1>6. Moved(call.dest, d)'
  <2>1. call' = call /\ d' = d + n
    BY <1>2
  <2>2. ASSUME NEW a \in Addresses
        PROVE  (mem[a] = IF a \in call.dest .. d-1 THEN Wanted(a) ELSE a)'
    BY <1>3, <1>5, <2>1 DEF Wanted
  <2> QED BY <2>2 DEF Moved, Addresses
<1>7. mem' \in [Addresses -> Int]
  <2>1. ASSUME NEW a \in Addresses PROVE Wanted(a) \in Int /\ a \in Int
    BY <2>1, <1>3, <1>4 DEF Wanted, Addresses
  <2>2. mem' = [a \in Addresses |-> mem'[a]]
    BY <1>2 DEF Stored
  <2> QED BY <1>5, <2>1, <2>2
<1>8. TypeOK'
  BY <1>1, <1>2, <1>3, <1>7 DEF TypeOK, IsCall
<1>9. InStep'
  BY <1>1, <1>2, <1>3 DEF InStep, Looping
<1> QED BY <1>2, <1>6, <1>8, <1>9

\* Downwards: one byte more is moved.
LEMMA TurnDown ==
    ASSUME IInv, Looping, down, d > call.dest, Turn(1)
    PROVE  TypeOK' /\ InStep' /\ Moved(d, call.dest + call.len)' /\ d' = d - 1
<1>1. /\ TypeOK /\ InStep /\ IsCall(call) /\ Moved(d, call.dest + call.len)
      /\ call.fn = "memmove" /\ OverlapsUpwards /\ ~TooLong(call)
  BY InCall DEF IInv, DownInv, Looping
<1>2. /\ d' = d - 1 /\ s' = s - 1 /\ mem' = Stored(d - 1, s - 1, 1)
      /\ UNCHANGED <<call, arch, loop, down, head, body, tail>>
  BY DEF Turn
<1>3. /\ call.dest \in Nat /\ call.src \in Nat /\ call.len \in Nat /\ MemorySize \in Nat
      /\ call.dest + call.len <= MemorySize /\ call.src + call.len <= MemorySize
      /\ d \in call.dest .. call.dest + call.len /\ call.dest > call.src
      /\ s = call.src + (d - call.dest) /\ tail = call.dest
  BY <1>1, MemoryAssumption DEF IsCall, InStep, OverlapsUpwards
<1>4. ASSUME NEW a \in Addresses
      PROVE  mem'[a] = IF a \in d - 1 .. call.dest + call.len - 1 THEN Wanted(a) ELSE a
  <2>1. mem'[a] = IF a # d - 1 THEN mem[a] ELSE mem[s - 1 + (a - (d - 1))]
    <3>1. mem'[a] = IF a \notin d - 1 .. (d - 1) + 1 - 1 THEN mem[a]
                    ELSE mem[s - 1 + (a - (d - 1))]
      BY <1>1, <1>2, <1>4 DEF Stored
    <3>2. a \in d - 1 .. (d - 1) + 1 - 1 <=> a = d - 1
      BY <1>3, <1>4 DEF Addresses
    <3> QED BY <3>1, <3>2
  <2>2. mem[a] = IF a \in d .. call.dest + call.len - 1 THEN Wanted(a) ELSE a
    BY <1>1, <1>3, <1>4 DEF Moved
  <2>3. CASE a # d - 1
    BY <2>1, <2>2, <2>3, <1>3, <1>4 DEF Addresses
  <2>4. CASE a = d - 1
    <3>1. /\ s - 1 \in Addresses /\ s - 1 \notin d .. call.dest + call.len - 1
          /\ s - 1 = call.src + (a - call.dest) /\ s - 1 + (a - (d - 1)) = s - 1
      <4>1. d - 1 >= call.dest /\ d \in Int
        BY <1>3
      <4> QED BY <2>4, <4>1, <1>3 DEF Addresses
    <3>2. mem[s - 1] = s - 1
      BY <3>1, <1>1, <1>3 DEF Moved
    <3> QED BY <2>1, <2>4, <3>1, <3>2, <1>1, <1>3 DEF Wanted
  <2> QED BY <2>3, <2>4
<1>5. Moved(d, call.dest + call.len)'
  <2>1. call' = call /\ d' = d - 1
    BY <1>2
  <2>2. ASSUME NEW a \in Addresses
        PROVE  (mem[a] = IF a \in d .. call.dest + call.len - 1 THEN Wanted(a) ELSE a)'
    BY <1>3, <1>4, <2>1 DEF Wanted
  <2> QED BY <1>3, <2>1, <2>2 DEF Moved, Addresses
<1>6. mem' \in [Addresses -> Int]
  <2>1. ASSUME NEW a \in Addresses PROVE Wanted(a) \in Int /\ a \in Int
    BY <2>1, <1>1, <1>3 DEF Wanted, Addresses
  <2>2. mem' = [a \in Addresses |-> mem'[a]]
    BY <1>2 DEF Stored
  <2> QED BY <1>4, <2>1, <2>2
<1>7. TypeOK'
  BY <1>1, <1>2, <1>3, <1>6 DEF TypeOK, IsCall
<1>8. InStep'
  BY <1>1, <1>2, <1>3 DEF InStep, Looping
<1> QED BY <1>2, <1>5, <1>7, <1>8

-----------------------------------------------------------------------------
(* Each action preserves the invariant *)

\* A call that has not begun.
LEMMA InitInv == MemoryInit => IInv
<1> SUFFICES ASSUME MemoryInit PROVE IInv
  OBVIOUS
<1>1. TooLong(call) \/ IsCall(call)
  BY MemoryAssumption DEF MemoryInit
<1>2. loop = IF call.chk THEN "check" ELSE "enter"
  BY DEF MemoryInit
<1>3. \A a \in Addresses : a \in Int /\ mem[a] = a
  BY MemoryAssumption DEF MemoryInit, Addresses
<1>4. mem \in [Addresses -> Int]
  <2>1. mem = [a \in Addresses |-> a]
    BY DEF MemoryInit
  <2> QED BY <1>3, <2>1
<1>5. TypeOK
  <2>1. down \in BOOLEAN /\ arch \in Archs
    BY DEF MemoryInit
  <2>2. {d, s, head, body, tail} \subseteq Int
    BY DEF MemoryInit
  <2> QED BY <1>1, <1>2, <1>4, <2>1, <2>2 DEF TypeOK
<1>6. Untouched
  BY <1>3 DEF Untouched
<1>7. loop = "enter" => ~TooLong(call)
  BY <1>2 DEF TooLong
<1> QED
  BY <1>2, <1>5, <1>6, <1>7 DEF IInv, InStep, UpInv, ByWordsInv, DownInv, MovedExactly, Looping

\* A wrapper compares the length with the room (memcpy.c:61, 99, 142).
LEMMA CheckInv ==
    ASSUME IInv, CheckPasses \/ CheckFails
    PROVE  IInv'
<1>1. /\ loop = "check" /\ TypeOK /\ Untouched
      /\ UNCHANGED <<call, arch, mem, down, d, s, head, body, tail>>
      /\ loop' \in {"enter", "trapped"} /\ (loop' = "enter" => Checked)
  BY DEF IInv, CheckPasses, CheckFails, Leave
<1>2. TypeOK'
  BY <1>1 DEF TypeOK, IsCall, TooLong, Addresses
<1>3. Untouched'
  BY <1>1 DEF Untouched, Addresses
<1>4. (loop = "enter" => ~TooLong(call))'
  BY <1>1 DEF TooLong, Checked
<1> QED
  BY <1>1, <1>2, <1>3, <1>4 DEF IInv, InStep, UpInv, ByWordsInv, DownInv, MovedExactly, Looping

\* The entry of a copy upwards (memcpy.c:22-40, 65-82).
LEMMA EnterUp ==
    ASSUME IInv, Enter, loop' = "head", Upwards, call.fn # "memset" => ~OverlapsUpwards
    PROVE  IInv'
<1> DEFINE end == call.dest + call.len
<1>1. /\ TypeOK /\ IsCall(call) /\ Moved(call.dest, call.dest) /\ ~TooLong(call)
      /\ loop = "enter" /\ UNCHANGED <<call, arch, mem>>
  BY InCall, NothingMoved DEF IInv, Enter
<1>2. /\ down' = FALSE /\ d' = call.dest /\ s' = call.src
      /\ tail' = end /\ body' = RoundDown(end)
      /\ head' = IF ByWords THEN (IF RoundUp(call.dest) <= end THEN RoundUp(call.dest) ELSE end)
                ELSE end
  BY DEF Upwards, HeadEnd, BodyEnd
<1>3. call.dest \in Nat /\ call.src \in Nat /\ call.len \in Nat /\ end \in Nat
  BY <1>1 DEF IsCall
<1>4. /\ RoundDown(end) \in Nat /\ RoundDown(end) <= end /\ RoundDown(end) % WordSize = 0
      /\ RoundUp(call.dest) \in Nat /\ call.dest <= RoundUp(call.dest)
      /\ RoundUp(call.dest) % WordSize = 0
  BY <1>3, RoundingDown, RoundingUp
<1> HIDE DEF end
<1>5. TypeOK'
  <2>1. {d, s, head, body, tail}' \subseteq Int
    BY <1>2, <1>3, <1>4
  <2>2. (IsCall(call) /\ arch \in Archs /\ mem \in [Addresses -> Int])'
    BY <1>1 DEF TypeOK, IsCall, Addresses
  <2>3. down' \in BOOLEAN
    BY <1>2
  <2> QED BY <2>1, <2>2, <2>3 DEF TypeOK
<1>6. InStep'
  BY <1>1, <1>2, <1>3 DEF InStep, end
<1>7. Moved(call.dest, d)'
  BY <1>1, <1>2 DEF Moved, Wanted
<1>8. UpInv'
  BY <1>1, <1>2, <1>3, <1>4, <1>7 DEF UpInv, OverlapsUpwards, end
<1>9. ByWordsInv'
  BY <1>1, <1>2, <1>4 DEF ByWordsInv, ByWords, EquallyAligned
<1> QED
  BY <1>1, <1>2, <1>5, <1>6, <1>8, <1>9 DEF IInv, DownInv, MovedExactly, TooLong

\* Where memmove() goes downwards, the test for the copy by words never holds:
\* objects that overlap and are equally aligned are at least a word apart, and
\* so the destination ends more than a word behind its beginning.
LEMMA DownwardsByBytes ==
    ASSUME IsCall(call), OverlapsUpwards, Downwards
    PROVE  head' = call.dest
<1> DEFINE first == call.dest + call.len  last == call.src + call.len
<1>1. /\ call.dest \in Nat /\ call.src \in Nat /\ call.len \in Nat
      /\ call.src < call.dest /\ call.dest < last
  BY DEF IsCall, OverlapsUpwards
<1>2. first \in Nat /\ last \in Nat /\ last < first
  BY <1>1
<1>3. first < RoundDown(first) + WordSize /\ RoundDown(first) \in Nat
  BY <1>2, RoundingDown
<1>4. ASSUME first % WordSize = last % WordSize
      PROVE  call.dest < RoundDown(first)
  <2>1. last + WordSize <= first
    BY <1>2, <1>4, WordApart, MemoryAssumption
  <2> QED BY <1>1, <1>2, <1>3, <2>1, MemoryAssumption
<1> QED BY <1>1, <1>3, <1>4 DEF Downwards

\* The entry of a copy downwards (memcpy.c:109-124).
LEMMA EnterDown ==
    ASSUME IInv, memmove
    PROVE  IInv'
<1>1. /\ TypeOK /\ IsCall(call) /\ Moved(call.dest, call.dest) /\ OverlapsUpwards /\ ~TooLong(call)
      /\ loop = "enter" /\ UNCHANGED <<call, arch, mem>>
      /\ loop' = "head" /\ call.fn = "memmove" /\ Downwards
  BY InCall, NothingMoved DEF IInv, Enter, memmove
<1>2. /\ down' = TRUE /\ d' = call.dest + call.len /\ s' = call.src + call.len
      /\ tail' = call.dest /\ body' = RoundUp(call.dest)
  BY <1>1 DEF Downwards
<1>3. head' = call.dest
  BY <1>1, DownwardsByBytes
<1>4. call.dest \in Nat /\ call.src \in Nat /\ call.len \in Nat
  BY <1>1 DEF IsCall
<1>5. RoundUp(call.dest) \in Nat /\ call.dest <= RoundUp(call.dest)
  BY <1>4, RoundingUp
<1>6. TypeOK'
  BY <1>1, <1>2, <1>3, <1>4, <1>5 DEF TypeOK, IsCall
<1>7. InStep'
  BY <1>1, <1>2, <1>4 DEF InStep
<1>8. Moved(d, call.dest + call.len)'
  BY <1>1, <1>2, <1>4, MemoryAssumption DEF Moved, Wanted, Addresses
<1>9. DownInv'
  BY <1>1, <1>2, <1>3, <1>5, <1>8 DEF DownInv, OverlapsUpwards
<1> QED
  BY <1>1, <1>2, <1>6, <1>7, <1>9 DEF IInv, UpInv, ByWordsInv, MovedExactly

\* Nothing to copy (memcpy.c:32).
LEMMA EnterNothing ==
    ASSUME IInv, Enter, call.fn # "memset", NothingToCopy, loop' = "done",
           UNCHANGED <<down, d, s, head, body, tail>>
    PROVE  IInv'
<1>1. /\ TypeOK /\ IsCall(call) /\ Moved(call.dest, call.dest) /\ ~TooLong(call)
      /\ loop = "enter" /\ UNCHANGED <<call, arch, mem>>
  BY InCall, NothingMoved DEF IInv, Enter
<1>2. call.dest \in Nat /\ call.src \in Nat /\ call.len \in Nat
  BY <1>1 DEF IsCall
<1>3. TypeOK'
  BY <1>1 DEF TypeOK, IsCall
<1>4. Moved(call.dest, call.dest + call.len)
  BY <1>1, <1>2, MemoryAssumption DEF Moved, Wanted, Addresses, NothingToCopy
<1>5. MovedExactly'
  BY <1>1, <1>4 DEF MovedExactly, Moved, Wanted
<1> QED
  BY <1>1, <1>3, <1>5 DEF IInv, InStep, UpInv, ByWordsInv, DownInv, Looping, TooLong

\* The three functions' entries.
LEMMA EnterInv ==
    ASSUME IInv, memcpy \/ memset \/ memmove
    PROVE  IInv'
<1>1. CASE memmove
  BY <1>1, EnterDown
<1>2. CASE memset
  BY <1>2, EnterUp DEF memset
<1>3. CASE memcpy
  <2>1. Enter /\ call.fn # "memset" /\ ~OverlapsUpwards
    <3>1. IsCall(call)
      BY <1>3, InCall DEF memcpy, Enter
    <3> QED BY <1>3, <3>1 DEF memcpy, IsCall, OverlapsUpwards
  <2>2. CASE NothingToCopy /\ arch # "x86_64"
    BY <1>3, <2>1, <2>2, EnterNothing DEF memcpy
  <2>3. CASE ~(NothingToCopy /\ arch # "x86_64")
    BY <1>3, <2>1, <2>3, EnterUp DEF memcpy
  <2> QED BY <2>2, <2>3
<1> QED BY <1>1, <1>2, <1>3

\* A byte of the head.
LEMMA CopyHeadInv ==
    ASSUME IInv, CopyHead
    PROVE  IInv'
<1>1. /\ loop = "head" /\ Looping /\ Before(head) /\ Turn(1)
      /\ UNCHANGED <<call, loop, down, head, body, tail>>
  BY DEF CopyHead, Looping, Turn
<1>2. TypeOK /\ InStep /\ UpInv /\ ByWordsInv /\ DownInv /\ IsCall(call) /\ ~TooLong(call)
  BY <1>1, InCall DEF IInv
<1>3. {d, head, body, tail} \subseteq Int /\ call.dest \in Nat /\ call.len \in Nat
  BY <1>2 DEF TypeOK, IsCall
<1>4. CASE ~down
  <2>1. d < head /\ head <= tail /\ d + 1 <= tail
    BY <1>1, <1>2, <1>3, <1>4 DEF Before, UpInv
  <2>2. TypeOK' /\ InStep' /\ Moved(call.dest, d)' /\ d' = d + 1
    BY <1>1, <1>4, <2>1, TurnUp
  <2>3. UpInv'
    BY <1>1, <1>2, <1>3, <1>4, <2>1, <2>2 DEF UpInv, Looping, OverlapsUpwards
  <2>4. ByWordsInv'
    BY <1>1, <1>2, <1>4 DEF ByWordsInv, Looping, EquallyAligned
  <2> QED BY <1>1, <1>4, <2>2, <2>3, <2>4 DEF IInv, DownInv, MovedExactly
<1>5. CASE down
  <2>1. head = call.dest /\ d > call.dest
    BY <1>1, <1>2, <1>5 DEF Before, DownInv
  <2>2. TypeOK' /\ InStep' /\ Moved(d, call.dest + call.len)' /\ d' = d - 1
    BY <1>1, <1>5, <2>1, TurnDown
  <2>3. DownInv'
    BY <1>1, <1>2, <1>5, <2>2 DEF DownInv, Looping, OverlapsUpwards
  <2> QED BY <1>1, <1>5, <2>2, <2>3 DEF IInv, UpInv, ByWordsInv, MovedExactly
<1> QED BY <1>4, <1>5

\* The step from one loop to the next changes nothing else.
LEMMA LeaveFacts ==
    ASSUME IInv, Looping, NEW next \in {"body", "tail", "done"}, Leave(next)
    PROVE  /\ TypeOK' /\ InStep' /\ loop' = next
           /\ UNCHANGED <<call, arch, mem, down, d, s, head, body, tail>>
           /\ call.dest \in Nat /\ call.len \in Nat /\ ~TooLong(call)'
           /\ {d, head, body, tail} \subseteq Int
           /\ d \in call.dest .. call.dest + call.len
           /\ tail = IF down THEN call.dest ELSE call.dest + call.len
           /\ \A i, j : Moved(i, j)' <=> Moved(i, j)
<1>1. TypeOK /\ IsCall(call) /\ InStep /\ ~TooLong(call)
  BY InCall DEF IInv, Looping
<1>2. loop' = next /\ UNCHANGED <<call, arch, mem, down, d, s, head, body, tail>>
  BY DEF Leave
<1>3. TypeOK' /\ InStep'
  BY <1>1, <1>2 DEF TypeOK, InStep, IsCall, Looping
<1> QED
  BY <1>1, <1>2, <1>3 DEF TypeOK, IsCall, InStep, Moved, Wanted, TooLong

\* The head ends at a word boundary or at the end of the object.
LEMMA HeadDoneInv ==
    ASSUME IInv, HeadDone
    PROVE  IInv'
<1>1. loop = "head" /\ Looping /\ ~Before(head) /\ Leave("body")
  BY DEF HeadDone, Looping
<1>2. UpInv /\ ByWordsInv /\ DownInv
  BY DEF IInv
<1>3. /\ TypeOK' /\ InStep' /\ loop' = "body" /\ ~TooLong(call)'
      /\ UNCHANGED <<call, arch, mem, down, d, s, head, body, tail>>
      /\ {d, head, body, tail} \subseteq Int
      /\ d \in call.dest .. call.dest + call.len /\ call.dest \in Nat /\ call.len \in Nat
      /\ \A i, j : Moved(i, j)' <=> Moved(i, j)
  BY <1>1, LeaveFacts
<1>4. CASE ~down
  <2>1. d = head
    BY <1>1, <1>2, <1>3, <1>4 DEF UpInv, Before
  <2>2. UpInv' /\ ByWordsInv'
    BY <1>1, <1>2, <1>3, <1>4, <2>1 DEF UpInv, ByWordsInv, OverlapsUpwards, EquallyAligned
  <2> QED BY <1>3, <1>4, <2>2 DEF IInv, DownInv, MovedExactly
<1>5. CASE down
  <2>1. d = call.dest
    BY <1>1, <1>2, <1>3, <1>5 DEF DownInv, Before
  <2>2. DownInv'
    BY <1>1, <1>2, <1>3, <1>5, <2>1 DEF DownInv, OverlapsUpwards
  <2> QED BY <1>3, <1>5, <2>2 DEF IInv, UpInv, ByWordsInv, MovedExactly
<1> QED BY <1>4, <1>5

\* A word is left of the body whenever the loop goes on, and it is copied
\* upwards.
LEMMA WordLeft ==
    ASSUME IInv, loop = "body", Before(body)
    PROVE  /\ ~down /\ d % WordSize = 0 /\ d + WordSize <= body /\ body <= tail
           /\ (call.fn # "memset" => EquallyAligned)
<1>1. /\ Looping /\ TypeOK /\ IsCall(call) /\ UpInv /\ ByWordsInv /\ DownInv
  BY InCall DEF IInv, Looping
<1>2. {d, head, body, tail} \subseteq Int /\ call.dest \in Nat
  BY <1>1 DEF TypeOK, IsCall
<1>3. ~down
  BY <1>1, <1>2 DEF DownInv, Before
<1>4. d < body /\ body <= tail /\ body % WordSize = 0
  BY <1>1, <1>3 DEF UpInv, Before
<1>5. d % WordSize = 0 /\ (call.fn # "memset" => EquallyAligned)
  BY <1>1, <1>2, <1>3, <1>4 DEF ByWordsInv
<1> QED BY <1>2, <1>3, <1>4, <1>5, WordApart, MemoryAssumption

\* A word of the body.
LEMMA CopyBodyInv ==
    ASSUME IInv, CopyBody
    PROVE  IInv'
<1>1. /\ loop = "body" /\ Looping /\ Before(body) /\ Turn(WordSize)
      /\ UNCHANGED <<call, loop, down, head, body, tail>>
  BY DEF CopyBody, Looping, Turn
<1>2. TypeOK /\ IsCall(call) /\ UpInv /\ ByWordsInv /\ ~TooLong(call)
  BY <1>1, InCall DEF IInv
<1>3. {d, head, body, tail} \subseteq Int
  BY <1>2 DEF TypeOK
<1>4. /\ ~down /\ d % WordSize = 0 /\ d + WordSize <= body /\ body <= tail
      /\ (call.fn # "memset" => EquallyAligned)
  BY <1>1, WordLeft
<1>5. TypeOK' /\ InStep' /\ Moved(call.dest, d)' /\ d' = d + WordSize
  BY <1>1, <1>3, <1>4, TurnUp, MemoryAssumption
<1>6. d' % WordSize = 0
  <2>1. WordSize % WordSize = 0
    BY Multiple, MemoryAssumption
  <2>2. 0 % WordSize = 0
    BY Multiple, MemoryAssumption
  <2>3. (d + WordSize) % WordSize = (0 + WordSize) % WordSize
    <3>1. d \in Int /\ 0 \in Int /\ WordSize \in Int /\ WordSize \in Nat \ {0}
          /\ d % WordSize = 0 % WordSize
      BY <1>3, <1>4, <2>2, MemoryAssumption
    <3> QED BY <3>1, SameOffset
  <2> QED BY <1>5, <2>1, <2>3, MemoryAssumption
<1>7. UpInv'
  BY <1>1, <1>2, <1>4, <1>5 DEF UpInv, Looping, OverlapsUpwards
<1>8. ByWordsInv'
  <2>1. d # tail
    BY <1>3, <1>4, MemoryAssumption
  <2>2. head % WordSize = 0
    BY <1>1, <1>2, <1>4, <2>1 DEF ByWordsInv
  <2> QED BY <1>1, <1>4, <1>6, <2>2 DEF ByWordsInv, EquallyAligned
<1> QED BY <1>1, <1>4, <1>5, <1>7, <1>8 DEF IInv, DownInv, MovedExactly

\* The body ends where less than a word is left.
LEMMA BodyDoneInv ==
    ASSUME IInv, BodyDone
    PROVE  IInv'
<1>1. loop = "body" /\ Looping /\ ~Before(body) /\ Leave("tail")
  BY DEF BodyDone, Looping
<1>2. UpInv /\ ByWordsInv /\ DownInv
  BY DEF IInv
<1>3. /\ TypeOK' /\ InStep' /\ loop' = "tail" /\ ~TooLong(call)'
      /\ UNCHANGED <<call, arch, mem, down, d, s, head, body, tail>>
      /\ {d, head, body, tail} \subseteq Int
      /\ \A i, j : Moved(i, j)' <=> Moved(i, j)
  BY <1>1, LeaveFacts
<1>4. UpInv' /\ ByWordsInv'
  BY <1>1, <1>2, <1>3 DEF UpInv, ByWordsInv, Before, OverlapsUpwards, EquallyAligned
<1>5. DownInv'
  BY <1>1, <1>2, <1>3 DEF DownInv, OverlapsUpwards
<1> QED BY <1>3, <1>4, <1>5 DEF IInv, MovedExactly

\* A byte of the tail.
LEMMA CopyTailInv ==
    ASSUME IInv, CopyTail
    PROVE  IInv'
<1>1. /\ loop = "tail" /\ Looping /\ Before(tail) /\ Turn(1)
      /\ UNCHANGED <<call, loop, down, head, body, tail>>
  BY DEF CopyTail, Looping, Turn
<1>2. TypeOK /\ IsCall(call) /\ InStep /\ UpInv /\ ByWordsInv /\ DownInv /\ ~TooLong(call)
  BY <1>1, InCall DEF IInv
<1>3. {d, head, body, tail} \subseteq Int /\ call.dest \in Nat
  BY <1>2 DEF TypeOK, IsCall
<1>4. ~down /\ d < tail
  BY <1>1, <1>2, <1>3 DEF Before, DownInv, InStep
<1>5. TypeOK' /\ InStep' /\ Moved(call.dest, d)' /\ d' = d + 1
  BY <1>1, <1>3, <1>4, TurnUp
<1>6. UpInv'
  BY <1>1, <1>2, <1>3, <1>4, <1>5 DEF UpInv, Looping, OverlapsUpwards
<1>7. ByWordsInv'
  BY <1>1, <1>2, <1>3, <1>4 DEF ByWordsInv, Looping, EquallyAligned
<1> QED BY <1>1, <1>4, <1>5, <1>6, <1>7 DEF IInv, DownInv, MovedExactly

\* The function returns.
LEMMA TailDoneInv ==
    ASSUME IInv, TailDone
    PROVE  IInv'
<1>1. loop = "tail" /\ Looping /\ ~Before(tail) /\ Leave("done")
  BY DEF TailDone, Looping
<1>2. UpInv /\ DownInv
  BY DEF IInv
<1>3. /\ TypeOK' /\ InStep' /\ loop' = "done" /\ ~TooLong(call)'
      /\ UNCHANGED <<call, arch, mem, down, d, s, head, body, tail>>
      /\ {d, head, body, tail} \subseteq Int
      /\ call.dest \in Nat /\ call.len \in Nat
      /\ d \in call.dest .. call.dest + call.len
      /\ tail = IF down THEN call.dest ELSE call.dest + call.len
      /\ \A i, j : Moved(i, j)' <=> Moved(i, j)
  BY <1>1, LeaveFacts
<1>4. Moved(call.dest, call.dest + call.len)
  <2>1. CASE ~down
    <3>1. d = call.dest + call.len
      BY <1>1, <1>3, <2>1 DEF Before
    <3> QED BY <1>1, <1>2, <2>1, <3>1 DEF UpInv
  <2>2. CASE down
    <3>1. d = call.dest
      BY <1>1, <1>2, <2>2 DEF DownInv
    <3> QED BY <1>1, <1>2, <2>2, <3>1 DEF DownInv
  <2> QED BY <2>1, <2>2
<1>5. MovedExactly'
  BY <1>3, <1>4 DEF MovedExactly, Moved, Wanted
<1> QED BY <1>3, <1>5 DEF IInv, UpInv, ByWordsInv, DownInv, Looping

\* Nothing happens.
LEMMA StutterInv ==
    ASSUME IInv, UNCHANGED memoryVars
    PROVE  IInv'
BY DEF memoryVars, IInv, TypeOK, IsCall, TooLong, Untouched, InStep, UpInv, ByWordsInv, DownInv, MovedExactly,
       Moved, Wanted, Looping, OverlapsUpwards, EquallyAligned

-----------------------------------------------------------------------------
(* Theorems *)

\* Every turn of every loop, at every word size, keeps the invariant.
THEOREM Invariance == MemorySpec => []IInv
<1>1. IInv /\ [MemoryNext]_memoryVars => IInv'
  <2> SUFFICES ASSUME IInv, [MemoryNext]_memoryVars PROVE IInv'
    OBVIOUS
  <2>0. CASE CheckPasses \/ CheckFails
    BY <2>0, CheckInv
  <2>1. CASE memcpy \/ memset \/ memmove
    BY <2>1, EnterInv
  <2>2. CASE CopyHead
    BY <2>2, CopyHeadInv
  <2>3. CASE HeadDone
    BY <2>3, HeadDoneInv
  <2>4. CASE CopyBody
    BY <2>4, CopyBodyInv
  <2>5. CASE BodyDone
    BY <2>5, BodyDoneInv
  <2>6. CASE CopyTail
    BY <2>6, CopyTailInv
  <2>7. CASE TailDone
    BY <2>7, TailDoneInv
  <2>8. CASE UNCHANGED memoryVars
    BY <2>8, StutterInv
  <2> QED BY <2>0, <2>1, <2>2, <2>3, <2>4, <2>5, <2>6, <2>7, <2>8 DEF MemoryNext
<1> QED BY InitInv, <1>1, PTL DEF MemorySpec

\* memcpy(), memmove() and memset() move what they are asked to, whatever the
\* sizes, alignments and overlaps of the objects and the size of a word.
THEOREM MovesExactly == MemorySpec => []MovedExactly
<1>1. IInv => MovedExactly
  BY DEF IInv
<1> QED BY Invariance, <1>1, PTL

\* The word loop stays on word boundaries of both objects (memcpy.c:37, 45-47).
THEOREM KeepsAlignment == MemorySpec => []WordsAligned
<1>1. IInv => WordsAligned
  <2> SUFFICES ASSUME IInv, loop = "body", Before(body)
               PROVE  d % WordSize = 0 /\ (call.fn # "memset" => s % WordSize = 0)
    BY DEF WordsAligned
  <2>1. d % WordSize = 0 /\ (call.fn # "memset" => EquallyAligned)
    BY WordLeft
  <2>2. /\ call.dest \in Nat /\ call.src \in Nat /\ d \in Int
        /\ s = call.src + (d - call.dest)
    BY InCall DEF IInv, TypeOK, IsCall, InStep, Looping
  <2>3. ASSUME EquallyAligned PROVE s % WordSize = d % WordSize
    <3>1. (call.src + (d - call.dest)) % WordSize = (call.dest + (d - call.dest)) % WordSize
      <4>1. call.src % WordSize = call.dest % WordSize /\ d - call.dest \in Int
            /\ call.src \in Int /\ call.dest \in Int /\ WordSize \in Nat \ {0}
        BY <2>2, <2>3, MemoryAssumption DEF EquallyAligned
      <4> QED BY <4>1, SameOffset
    <3> QED BY <2>2, <3>1
  <2> QED BY <2>1, <2>3
<1> QED BY Invariance, <1>1, PTL

\* No loop leaves the objects.
THEOREM StaysWithinObjects == MemorySpec => []WithinObjects
<1>1. IInv => WithinObjects
  <2> SUFFICES ASSUME IInv, Looping
               PROVE  /\ call.chk => call.len <= call.destlen
                      /\ d \in call.dest .. call.dest + call.len
                      /\ s \in call.src .. call.src + call.len
    BY DEF WithinObjects
  <2>1. IsCall(call) /\ InStep /\ ~TooLong(call)
    BY InCall DEF IInv, Looping
  <2>2. ASSUME call.chk PROVE call.len <= call.destlen
    BY <2>1, <2>2 DEF IsCall, TooLong
  <2> QED BY <2>1, <2>2 DEF InStep, IsCall
<1> QED BY Invariance, <1>1, PTL

=============================================================================

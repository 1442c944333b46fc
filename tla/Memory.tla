-------------------------------- MODULE Memory --------------------------------
(***************************************************************************)
(* memcpy(), memmove() and memset() of src/src/memcpy.c: bytes up to the   *)
(* first word boundary (the head), then words (the body), then bytes again *)
(* (the tail); memmove() goes downwards where the objects overlap such     *)
(* that upwards would overwrite what is still to be copied. The wrappers   *)
(* __memcpy_chk(), __memmove_chk() and __memset_chk() compare the length   *)
(* with the room there is first; memset_explicit() is memset().            *)
(*                                                                         *)
(* One behaviour is one call, one step one turn of a loop. An address is a *)
(* number, a word has WordSize bytes.                                      *)
(***************************************************************************)
EXTENDS Integers

CONSTANTS
    WordSize,    \* sizeof(uintptr_t)
    MemorySize,  \* the addresses are 0..MemorySize-1
    ByteMod,     \* 2^8
    Calls,       \* the calls: [fn, dest, src, len, c, chk, destlen]
    Archs        \* "x86_64", whose memcpy() is one instruction, and others

\* The objects lie in the memory; those of memcpy() do not overlap (restrict).
IsCall(c) ==
    /\ c.fn \in {"memcpy", "memmove", "memset"}
    /\ {c.dest, c.src, c.len, c.destlen} \subseteq Nat /\ c.c \in Int
    /\ c.dest + c.len <= MemorySize /\ c.src + c.len <= MemorySize
    /\ c.fn = "memcpy" => \/ c.dest = c.src
                          \/ c.dest + c.len <= c.src
                          \/ c.src + c.len <= c.dest

\* The wrapper of fn() has less room for the destination than the length it is
\* given: nothing is known of the objects then.
TooLong(c) == c.chk /\ c.destlen < c.len

ASSUME MemoryAssumption ==
    /\ WordSize \in Nat \ {0} /\ MemorySize \in Nat /\ ByteMod \in Nat \ {0}
    /\ \A c \in Calls : TooLong(c) \/ IsCall(c)

VARIABLES
    call, arch,  \* the call, and the architecture it runs on
    mem,         \* the memory; at first each byte is named by its address
    loop,        \* "check" in a wrapper, "enter", then the loop that runs:
                 \*   "head", "body", "tail"; "done" or "trapped"
    down,        \* the loops count down
    d, s,        \* the next byte to write and to read (going down, the last)
    head, body, tail  \* where the loops end

memoryVars == <<call, arch, mem, loop, down, d, s, head, body, tail>>

Addresses == 0 .. MemorySize-1

MemoryInit ==
    /\ call \in Calls /\ arch \in Archs
    /\ mem = [a \in Addresses |-> a]
    /\ loop = (IF call.chk THEN "check" ELSE "enter") /\ down = FALSE
    /\ d = 0 /\ s = 0 /\ head = 0 /\ body = 0 /\ tail = 0

RoundDown(a) == a - (a % WordSize)
RoundUp(a) == RoundDown(a + WordSize - 1)

-----------------------------------------------------------------------------
EquallyAligned_bug_any == TRUE
\* Both objects have the same place within a word: word by word is possible.
EquallyAligned == call.dest % WordSize = call.src % WordSize

\* memcpy() on x86_64 copies all bytes alike.
ByWords == CASE call.fn = "memset" -> TRUE
             [] OTHER -> EquallyAligned /\ arch # "x86_64"

HeadEnd_bug_beyond(first, end) == RoundUp(first)
\* The first word boundary if the object reaches it.
HeadEnd(first, end) == IF RoundUp(first) <= end THEN RoundUp(first) ELSE end

BodyEnd_bug_up(end) == RoundUp(end)
BodyEnd(end) == RoundDown(end)

Upwards ==
    LET end == call.dest + call.len
    IN  /\ down' = FALSE /\ d' = call.dest /\ s' = call.src
        /\ tail' = end /\ body' = BodyEnd(end)
        /\ head' = IF ByWords THEN HeadEnd(call.dest, end) ELSE end

Downwards ==
    LET first == call.dest + call.len
    IN  /\ down' = TRUE /\ d' = first /\ s' = call.src + call.len
        /\ tail' = call.dest /\ body' = RoundUp(call.dest)
        /\ head' = IF first % WordSize = (call.src + call.len) % WordSize
                      /\ call.dest > RoundDown(first)
                   THEN RoundDown(first) ELSE call.dest

OverlapsUpwards_bug_never == FALSE
\* The destination begins within the source.
OverlapsUpwards == call.dest > call.src /\ call.dest < call.src + call.len

Enter == loop = "enter" /\ UNCHANGED <<call, arch, mem>>

\* memcpy() of nothing, or of an object onto itself.
NothingToCopy == call.dest = call.src \/ call.len = 0

memcpy ==
    /\ Enter
    /\ \/ call.fn = "memcpy"
       \/ call.fn = "memmove" /\ ~OverlapsUpwards
    /\ IF NothingToCopy /\ arch # "x86_64"
       THEN loop' = "done" /\ UNCHANGED <<down, d, s, head, body, tail>>
       ELSE loop' = "head" /\ Upwards

memset ==
    /\ Enter /\ call.fn = "memset"
    /\ loop' = "head" /\ Upwards

memmove ==
    /\ Enter /\ call.fn = "memmove" /\ OverlapsUpwards
    /\ loop' = "head" /\ Downwards

-----------------------------------------------------------------------------
\* What is written to n bytes from dw on, read from sw on before the write.
Stored(dw, sw, n) ==
    [a \in Addresses |->
        IF a \notin dw .. dw+n-1 THEN mem[a]
        ELSE IF call.fn = "memset" THEN call.c % ByteMod
        ELSE mem[sw + (a - dw)]]

\* One turn of a loop over units of n bytes.
Turn(n) ==
    /\ mem' = IF down THEN Stored(d - n, s - n, n) ELSE Stored(d, s, n)
    /\ d' = IF down THEN d - n ELSE d + n
    /\ s' = IF down THEN s - n ELSE s + n
    /\ UNCHANGED <<call, arch, loop, down, head, body, tail>>

Before(end) == IF down THEN d > end ELSE d < end

Leave(next) == loop' = next /\ UNCHANGED <<call, arch, mem, down, d, s, head, body, tail>>

Checked_bug_near == ~(call.destlen + 1 < call.len)
Checked == ~(call.destlen < call.len)

CheckPasses == loop = "check" /\ Checked /\ Leave("enter")
CheckFails == loop = "check" /\ ~Checked /\ Leave("trapped")

CopyHead == loop = "head" /\ Before(head) /\ Turn(1)
HeadDone == loop = "head" /\ ~Before(head) /\ Leave("body")
CopyBody == loop = "body" /\ Before(body) /\ Turn(WordSize)
BodyDone == loop = "body" /\ ~Before(body) /\ Leave("tail")
CopyTail == loop = "tail" /\ Before(tail) /\ Turn(1)
TailDone == loop = "tail" /\ ~Before(tail) /\ Leave("done")

MemoryNext ==
    \/ CheckPasses \/ CheckFails
    \/ memcpy \/ memset \/ memmove
    \/ CopyHead \/ HeadDone \/ CopyBody \/ BodyDone \/ CopyTail \/ TailDone

MemorySpec == MemoryInit /\ [][MemoryNext]_memoryVars

-----------------------------------------------------------------------------
(* Properties *)

Looping == loop \in {"head", "body", "tail"}

\* What is to be at an address of the destination: its byte of the source as
\* that was before the call, or what memset() was given.
Wanted(a) == IF call.fn = "memset" THEN call.c % ByteMod ELSE call.src + (a - call.dest)

\* Just the bytes from i to j - 1 have been written, and as wanted.
Moved(i, j) == \A a \in Addresses : mem[a] = IF a \in i .. j-1 THEN Wanted(a) ELSE a

Untouched == \A a \in Addresses : mem[a] = a

\* When the function returns, every byte of the destination is the byte of the
\* source as it was before the call, or what memset() was given, whatever the
\* alignments, the length and the overlap, and no other byte has changed. A
\* wrapper that traps has written nothing.
MovedExactly ==
    /\ loop = "done" => Moved(call.dest, call.dest + call.len)
    /\ loop = "trapped" => Untouched

\* Words are read and written at word boundaries only (memcpy.c:37-40, 45-47,
\* 80-88).
WordsAligned ==
    loop = "body" /\ Before(body) =>
        d % WordSize = 0 /\ (call.fn # "memset" => s % WordSize = 0)

\* The loops read and write within the objects, also where a word is larger
\* than what is left, and behind a wrapper within the room it was told of.
WithinObjects ==
    Looping =>
        /\ call.chk => call.len <= call.destlen
        /\ d \in call.dest .. call.dest + call.len
        /\ call.fn # "memset" => s \in call.src .. call.src + call.len

-----------------------------------------------------------------------------
(* Why they hold: the inductive invariant *)

TypeOK ==
    /\ (TooLong(call) \/ IsCall(call)) /\ arch \in Archs
    /\ mem \in [Addresses -> Int]
    /\ loop \in {"check", "enter", "head", "body", "tail", "done", "trapped"}
    /\ down \in BOOLEAN
    /\ {d, s, head, body, tail} \subseteq Int

\* Reader and writer have come equally far within the objects, which end where
\* the loops do.
InStep ==
    Looping => /\ d \in call.dest .. call.dest + call.len
               /\ s = call.src + (d - call.dest)
               /\ tail = IF down THEN call.dest ELSE call.dest + call.len

\* Upwards, what is behind the writer is moved and what is before it untouched,
\* and what is still to be read is not behind it.
UpInv ==
    Looping /\ ~down =>
        /\ Moved(call.dest, d) /\ (call.fn # "memset" => ~OverlapsUpwards)
        /\ body % WordSize = 0 /\ body <= tail /\ head <= tail
        /\ loop = "head" => d <= head
        /\ loop = "tail" => body <= d

\* Words are copied only from a boundary that both objects share; otherwise the
\* head is all there is.
ByWordsInv ==
    Looping /\ ~down =>
        \/ head = tail /\ (loop # "head" => d = tail)
        \/ /\ head % WordSize = 0 /\ (loop = "body" => d % WordSize = 0)
           /\ call.fn # "memset" => EquallyAligned

\* Downwards, the head is always all there is: objects that overlap and are
\* equally aligned are at least a word apart.
DownInv ==
    Looping /\ down =>
        /\ call.fn = "memmove" /\ OverlapsUpwards
        /\ Moved(d, call.dest + call.len)
        /\ head = call.dest /\ body >= call.dest
        /\ loop # "head" => d = call.dest

IInv ==
    /\ TypeOK /\ InStep /\ UpInv /\ ByWordsInv /\ DownInv /\ MovedExactly
    /\ loop \in {"check", "enter"} => Untouched
    /\ loop \notin {"check", "trapped"} => ~TooLong(call)

=============================================================================

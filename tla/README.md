# Verification of noc

noc ("no C library") is a small freestanding C library: a heap allocator over
`sbrk()`, a `printf` family, memory and string functions, a 64/32-bit division,
a few numeric helpers and one example platform. This directory holds TLA+
models of it, TLC configurations that check them on small instances, and proofs
that TLAPS checks for every value of the constants.

## 1. Inventory

| Component | Source | State it keeps | Operations | Interacts with |
|---|---|---|---|---|
| heap | `src/src/malloc.c` | `malloc_state`: `sbrk_start`, `sbrk_end`, the list `head`; a `size` header (and, while free, a `next` pointer) in front of every chunk | `malloc`, `calloc`, `realloc`, `free`, `mem_free` | `sbrk()`, `errno`, `memcpy`, `memmove`, `memset` |
| platform | `src/platform/x86_64-pc-linux-gnu.c`, its `.ld` script, `src/include/unistd.h` | `brk_off` | `sbrk`, `putnstr`, `exit`, `get_clock`, `_start` | Linux system calls |
| formatted output | `src/src/printf.c` | per call only: a 256-byte buffer (`printf`), a pair of pointers (`snprintf`), the digits of a number | `printf`, `puts`, `snprintf`, `vsnprintf` | `putnstr`, `umoddiv32`, `strlen` |
| memory functions | `src/src/memcpy.c` | none | `memcpy`, `memset`, `memmove`, `__*_chk` | `__chk_fail` |
| strings | `src/src/strmem.c` | none | `strlen`, `strnlen`, `strzcpy`, `memchr`, `memrchr`, `memcmp`, `strcmp`, `strncmp` | |
| division | `src/src/support/umoddiv.c` | none | `umoddiv32` | |
| random numbers | `src/src/rand.c` | two words | `rand`, `srand` | |
| numbers | `src/src/atoi.c`, `abs.c`, `math/sqrt.c` | none | `atoi`, `abs`, `labs`, `llabs`, `sqrtf`, `sqrt` | `isspace`, `isdigit` |
| errno | `src/src/errno.c` | `errno` | `__errno` | written by malloc |
| tests, build | `src/test`, `src/Makefile`, headers | | | callers of all of the above |

Nothing in the library is concurrent: it starts no thread, installs no handler,
takes no lock (`malloc.c:89`), and no call waits for another. What is hard about
it is of other kinds: long sequences of heap calls whose effect on the chunks
adds up; a step of a call that fails after an earlier one has changed the heap;
another user of `sbrk()` between two calls; overlapping moves; arithmetic at the
edge of a word; and buffers at their limit. `PROJECT.json` lists these hazards,
each at its line.

What makes each component correct:

- heap: objects are disjoint, aligned, large enough and keep their contents; no
  chunk is lost or owned twice; free chunks are merged; a call fails only when
  it must and then changes nothing.
- sbrk: grants each byte once, within its bounds.
- formatted output: a conversion writes what its flags, width, precision and
  length ask for; a broken format is not overread and ends; `printf` passes its
  text on in order, complete, and reports failure; `snprintf` stays within its
  buffer and terminates it.
- memory functions: exactly the bytes asked for arrive, whatever the alignment,
  length and overlap; words are touched at word boundaries only.
- division: quotient and remainder, whatever the estimates on the way.
- strings, `atoi`: the standard's results, from no character beyond the one that
  decides them, also for lengths beyond the address space and where `char` is
  signed.
- random numbers: never stuck at zero, a sequence that depends on the seed alone,
  states that never merge.

## 2. Modules

| Module | Models | State | Actions |
|---|---|---|---|
| `Malloc` | `malloc.c` over `sbrk()` | `heap`: the break, `sbrk_start`, `sbrk_end`, the free list, the size headers and the bytes; `obj`: what callers hold; `lost`; `last`: the call just made | `Malloc`, `Calloc`, `Realloc`, `Free`, `ForeignSbrk`, each a whole call |
| `MallocContract` | the preconditions of the proofs, `IInv` | | |
| `Allocator` | what the C standard, quoted in `malloc.c`, promises | the objects and their contents | one per function |
| `MallocCalls` | `Malloc` as an `Allocator` (refinement mapping) | | |
| `SumTheorems` | facts about least members, powers, sums and quotients that the proofs share | | |
| `MallocProofs`, `MallocData` | proofs about `Malloc` and `MallocCalls` | | |
| `Formatter` | one conversion directive of `formatter()`, as operators | | |
| `Printf` | a call of `printf`, `snprintf` or `puts` | position in the format, text still to write, `printf_state`, `snprintf_state`, the output, the caller's memory | a character of the format, a directive, each callback, each return |
| `Conversions` | what a call may ask of a conversion, and what it should get | | |
| `Memory` | `memcpy`, `memmove`, `memset`, their `__*_chk` wrappers | memory, the pointers, the loop that runs | the check, entry of each function, one turn of each loop, the way from loop to loop |
| `Umoddiv` | `umoddiv32()` | number, divisor, quotient, remainder | one per case of the division |
| `Strings` | `strmem.c` and `atoi` | the call, memory, the pointers, the loop that runs; history: the addresses read | entry of each function, one turn of each loop, each return |
| `Rand` | `rand`, `srand` | the two words; history: the seed, what followed it | one per function |
| `PrintfProofs`, `MemoryProofs`, `UmoddivProofs`, `StringsProofs`, `RandProofs` | proofs about the module each is named after | | |
| `MCMalloc`, `MCMallocCalls`, `MCPrintf`, `MCStrings`, `MCLibrary` (`Memory`, `Umoddiv` and `Rand`) | instances for TLC | | |

How they correspond to the code:

- `Malloc`. The helpers carry the names of the C functions (`noc_malloc`,
  `insert_free_chunk`, `chunk_grow`, ...) and take and return a heap, so that an
  action is a composition of them as the code is of calls. The linked list is a
  sequence of chunk addresses; headers and bytes are functions of addresses. What
  a caller writes into its object is part of the call that returns it (`Use`),
  so that every later call finds foreign bytes next to its headers.
  `SbrkReturns` chooses between the `sbrk()` that `unistd.h` promises and the one
  the platform implements.
- `Formatter` and `Printf`. Characters are strings of length one. A directive is
  read and converted in one step (`Convert`); its text then goes to the callback
  character by character, since buffering, truncation and failure happen between
  characters. `putnstr()` may fail or write a part. `ERROR_STR` has two characters
  for its eight: nothing depends on which they are. `SizesAssumption` says that a
  width in range does not wrap while it is read, and that the array `digits` has
  room for the binary digits of every type and a NUL (`printf.c:19-20, 61`).
- `Conversions` is written from `stdio.h` and the comments of `printf.c`, not from
  what `formatter()` does. What a caller
  wants (`ask`: flags, width, precision, each in the format or as an argument,
  length modifier, conversion, value) has a format (`FormatOf`), arguments
  (`ArgsOf`) and a text it should yield (`FieldOk`), of which the digits are read
  back as a number. The model never looks at `ask`: it gets the format and the
  arguments, and `ConversionsAssumption` says no more than that they are these.
  The sign is exact (`WantedSign`): a minus, a plus or blank that is asked for, or
  nothing. One case is left out because the code gets it wrong, the plus of a
  short or char (`PlusLost`); the run `printf_sign` is about it.
- `Memory`. Pointers are numbers, and a byte of the memory is at first its own
  address, so that the final contents tell where each byte came from; the
  functions never look at a byte, so this stands for all contents. `memcpy` is
  both its C text and the single instruction of x86-64 (`Archs`). A wrapper
  compares the length with the room it was given and goes on to its function or
  traps; of the objects of a call that is to trap nothing is assumed.
- `Strings`. A call is one of `Calls` on one of `Memories`, with the objects its
  caller has to provide (`IsCall`, from `string.h`) and no more: what lies beyond
  them is there, but must not be read. Addresses wrap at `AddrMod`, and `end` is
  computed as the code does, from the clamped length. `strcmp`, `strncmp` and
  `memcmp` are one loop with the conditions each has; `strnlen` is `memchr` with
  another result. `Length` stands for both texts of `strlen`, whose assembly
  counts from the start instead of moving a pointer.
- `Rand`. A word is the set of its bits that are 1: exclusive or is symmetric
  difference, a shift or rotation moves the members. The width, the distances and
  the multiplier are constants. What `rand` returned since the last `srand` is
  kept per seed, so that two sequences of one seed can be compared.
- `Umoddiv`. A half word has `HalfBits` bits instead of 16; every operation on a
  word wraps as in C, and a shift multiplies or divides by a power of two
  (`Power`, a function, so that it can be proved about). A shift to the right by a
  whole word, undefined in C, leaves the word as it is (`ShiftRight`), as on x86 and
  RISC-V, so that the test `bm != 0` of `umoddiv.c:42` (`MustShift`) matters: without
  it `Divides` fails. Only the split on the divisor, the shift and the estimates
  matter, and these do not depend on the width. `estimates` records all four half
  words of the quotient as first estimated, or as known where the code needs no
  division for the high word (`Known`).

`Malloc` uses `memset` and `memmove` by their effect (`Fill`, `Copy`); `Memory`
shows that the code has it. `Formatter` writes the digits of a number by their
value, which the repeated division by `umoddiv32` yields; `Umoddiv` shows that
each division is exact.

## 3. What the runs check

| Run | Bounds | Shows |
|---|---|---|
| `malloc_core` | 18 bytes of heap, alignment 2, header 2, sizes 0, 1, 3, 5 and 40 | 13 invariants over all sequences of calls: disjoint, aligned, intact objects, a canonical list, a heap tiled by chunks and accounted for by `mem_free`, failure only when necessary, the smallest chunk that fits; and every call is a call of `Allocator` |
| `malloc_foreign` | break starts unaligned, foreign increments 1 and 4 | the same dangers when the heap has gaps; the inductive invariant of the proofs |
| `printf` | `MCPrintf!MCCalls`: every conversion with its flags, lengths, extreme values; broken formats; texts of 0 to 7 characters through buffers of 3 and 0 to 5 | conversions write what is asked, the sign included; formats are not overread; output complete and in order, also of empty texts and of formats cut off by a conversion that does not exist; failure reported; truncation; every call returns |
| `strings` | 8 addresses: two objects of three bytes with all contents from the NUL, 1 and 200; lengths 0 to 3 and the largest; texts of 5 characters for `atoi`, an `int` of 6 bits; `char` signed and not | right results; no character read beyond the one that decides |
| `library` | `Memory`: words of 4 bytes, 13 bytes of memory, all positions, lengths and overlaps; wrappers with room for one byte less, as many or one more. `Umoddiv`: words of 6 bits, all numbers and divisors. `Rand`: words of 4 bits, seeds 0, 1 and 6, sequences of 3 | exact moves, aligned words, nothing past the room, and the inductive invariant of the proofs; exact division, estimates at most two too large; never stuck, a seed repeats its sequence, states do not merge |

`library` checks three parts that neither call one another nor share state: a
behaviour is one of one of them (`part`), and the other two stay in one state, so
that nothing is multiplied.

The bounds suffice for the cases to occur. The heap has room for several chunks
with a free one on either side of an allocated one, for splitting with and
without a rest, and it runs full. Memory of three words and a byte has heads,
bodies and tails of every length at every relative alignment. A buffer of three
characters is filled exactly, exceeded, and exceeded twice. With half words of
three bits the estimates are off by zero, one and two. Strings of every length from
0 to 3 end before, at and after the length given, and objects reach the last address,
where an end that is not clamped wraps. Words of 4 bits show whole cycles of the
generator from every seed and all of its states to `StatesNeverMerge`.

`malloc_core` explores states that differ only in the record of the last call once
(`VIEW WithoutCall`): no action and no invariant reads that record, and the step
of `KeepsPromise` is evaluated for every call, also one that leads to a heap seen
before.

Seven runs expect a violation: there the code and what the repository says of it
disagree (`findings` in `PROJECT.json`).

- `malloc_calloc`: `calloc` allocates one element, whatever their number.
- `malloc_moved`: a failing `realloc` may already have moved the object.
- `malloc_sbrk`: the platform's `sbrk` returns the new break.
- `malloc_null`: when the first `sbrk()` got an unaligned address and its pad fails
  (`malloc.c:124-132`), `sbrk_end` is set and `sbrk_start` is still `NULL`, so that
  `free(NULL)` passes the check at `malloc.c:262` and a header below address 0 is
  read, although `malloc.c:251-252` says that no action occurs.
- `printf_count`: `printf` of a long text returns the length of its last piece.
- `printf_digits`: a number of 67 digits with a sign begins one byte before its
  buffer.
- `printf_sign`: `%+hd` and `%+hhd` of a value that is not negative write no plus
  (`printf.c:235-248`, against `printf.c:67` and `109`).

`CHECK_DEADLOCK FALSE` stands where one behaviour is one call, which ends (in
`library`, of `Memory` or `Umoddiv`).

Fairness. All modules but `Printf` state safety only. `Printf` has
weak fairness of its next-state relation for `Returns`: a C function that is
running goes on running, nothing blocks it. Without fairness it might just stop.

## 4. What is proved

TLAPS checks the following for every value of the constants that meets the named
assumptions.

### Heap

Chunks (`MallocProofs`): `Spec => []IInv`, and from it the type invariant,
`ObjectFits`, `ObjectsDisjoint`, `FreeListCanonical` and `ChunksOwned`. None of
these is inductive alone: that objects are disjoint after a `malloc` depends on
the list holding no chunk that anybody owns, on chunks not overlapping, and on
the list being sorted, since `free` and `realloc` merge what they find next to
each other on it. `IInv` (in `MallocContract`) says: chunks lie apart within the
granted memory, each at least as large as the smallest; the list consists of
chunks in ascending order, none touching the next; the chunks not on the list are
exactly those of the callers' objects and those lost, and each object fits its
chunk. The module has the facts about chunks and sequences first, then one lemma
for each operation of the heap and one for each action.
The assumptions: `sbrk()` does what `unistd.h` promises, the layout constants fit
(header aligned, smallest chunk no larger than a header and one aligned unit),
rounding up the sizes asked for does not wrap, and `calloc` clears no more than it
allocated: where one of them fails the findings show what happens.

Contents and alignment (`MallocData`): three more invariants are kept by every
operation that keeps `IInv`.

- `DataIntact` is inductive with `IInv`: an operation writes only into the header
  of a chunk nobody owns or of the chunk it is about (`Untouched`), and where
  `realloc` moves an object its bytes arrive before they are written over
  (`Carried`, also for the overlapping move to the left).
- `AlignedHeap`, the address and the size of every chunk are aligned, gives
  `ObjectsAligned`, although neither `sbrk()` nor its other users align anything;
  and `ReallocShrinksInPlace`, since an aligned chunk that holds the object also
  holds a smaller size rounded up.
- With these two, every call of `malloc.c` is a call of `Allocator`
  (`KeepsPromise`): the initial state and each of the five actions under the
  refinement mapping, the failing `realloc` that has moved the object excepted
  (see `malloc_moved`).
- `MallocTakesSmallest` if the heap is smaller than `-1U` (`SmallHeap`):
  `malloc.c:200` starts its search from that value as the least rest seen, so that
  in a larger heap a larger chunk may be passed over.
- `NullIsNeverFreed` while everybody keeps the break aligned (`AlignedBreaks`):
  then the heap has no end before it has a start (`Tidy`). With an unaligned break
  it can be otherwise: that is the run `malloc_null`.
- `HeapTiled` if, in addition, nobody else calls `sbrk()`: then the heap reaches up
  to the break and every byte of it lies in a chunk (`Tiled`). Another user's
  memory would be a gap.
- `MallocFailsOnlyWhenFull` for a small heap, aligned breaks and an address space
  whose upper half is not granted (`BrkEnd <= SizeMod \div 2`): `aligned_sbrk`
  refuses requests of half the address space or more without asking (`malloc.c:109`),
  and with an unaligned break it may fail for want of the pad alone.
- `MemFreeAccounts`: in a tiled heap (same hypotheses as `HeapTiled`) the sizes of
  the chunks, free and in use, add up to what lies between the heap's start and its
  end. The module adds them up with a fold that takes the chunks in an order of its
  own; `SumTheorems` shows that the order does not matter.
- `ReallocFailsOnlyWhenFull` for a small heap, aligned breaks, nobody else calling
  `sbrk()` and no more granted than half the address space: the loop over the free
  list misses no chunk next to the object, so what it has at hand is the object's
  chunk and the free ones around it. They are too small, no free chunk is large
  enough, and `sbrk()` has no room for another chunk (`malloc.c:402`) nor, if the
  object is at the top of the heap, for what its chunk lacks. If others move the break, `chunk_grow` may fail
  although there is room.

### Formatted output (`PrintfProofs`)

`BufferedOutputInOrder`, `FailureReported`, `SnprintfTruncates` and
`FormatNotOverread` for every set of calls, every size of `printf`'s buffer and
every outcome of `putnstr`. `BufferedOutputInOrder` includes the calls for which
`formatter()` returns 0 or `EOF`: then the full buffers that were printed before are
on standard output, followed by `ERROR_STR` with its NUL (`PiecesAndError`), and what
was still in the buffer is not. The invariant says where `formatter` is in the format;
that, as long as every `putnstr` took all it was given, what is on standard output
followed by what is in the buffer is the text so far; that a failure is remembered
until it is returned; and what `snprintf` has left in its caller's memory for any
length of the text so far, also when there is no room at all. Nothing is assumed
of the characters a directive writes, only that they are a text.

`ConversionMeetsFormat` for every call of `snprintf` that asks for one conversion:
all flags in any order and number, every width and precision up to `MAX_FORMAT`, in
the format or as arguments, every length modifier, conversion and value, and every
width of the integer types that the assumptions admit: those of `FormatterAssumption`
include that a short or char is not as wide as an int or long, since the code gives
the former a branch of their own, in which the plus is lost (`PlusLost`); of that sign
alone the theorem says what the code does, not what `printf.c:109` promises. The
argument has three parts.

- Writing. `get_digit` yields, from the last to the first, the digits whose number
  is the value: a number has exactly as many digits as the least power of the base
  above it says (`DigitCountIs`), the quotient by each lower power is the base times
  the one before plus the digit (`LeadingStep`), and so what a reader makes of the
  text is the value again (`DigitsReadBack`), with the sign apart, also for the least
  number of each width (`MagnitudeIs`). Padding adds characters on one side
  (`PaddedIs`), and the whole is the field asked for (`NumberIsOk`, `ArgumentIs`).
- Reading. The parts of the format stand one behind the other (`Laid`), none begins
  with a character that the loop before it would read on over (`AskedFormat`), and the
  digits of a width or precision are read as that number without wrapping
  (`NumberIs`). So `formatter` finds the flags, the fields, their arguments, the
  type and the letter that were meant (`DirectiveOfAsk`).
- The call. An invariant (`AskInv`) has four places: before the first character, at
  the directive, behind it, at the end; at each, what was written followed by what is
  still to write is that much of the answer. Neither `ERROR_STR` nor the end with
  `EOF` is reached (`AskNoOther`).

Two theorems say in general what the findings show by example. `LastPieceIsReturned`:
the text is a number of full buffers and a last piece of 1 to `BufferSize` characters
(`CountInv`), and the length of that piece is what `printf` returns, the number of
characters written just if the text fits the buffer. `OverflowIsOneSign`: a number has
at most `sizeof(digits) - 1` digits, whatever its type, base and precision
(`DigitsFit`), so that only the sign of a `%d` can come before the array.

The proofs that would be inductions over the digits are made with a least
counterexample, as those about `atoi` and the sums over chunks are.

### Memory functions (`MemoryProofs`)

`MovedExactly`, `WordsAligned` and
`WithinObjects` for every word size, memory and call. The invariant says what is
moved (`Moved`) in terms of the writer's position, that nothing still to be read
lies behind the writer, and that words are copied only between boundaries both
objects share. The proof that `memmove` downwards is right needs a fact the code
does not state: objects that overlap and are equally aligned are a word apart, so
its test for copying by words never holds, and its word loop is never entered
(`DownwardsByBytes`). Of a call through a wrapper the proof assumes objects only if
the length is within the room; that they are there once a loop runs is `InCall`.

### Strings (`StringsProofs`)

`NotOverread`, `FindsFirst`, `ComparesInOrder` and `CopiesTruncated` for every
memory, every call its contract allows, every length and every size of a
character. The invariant says for each loop where its pointers are and what is
known of the characters behind them: not the one looked for, equal in both
strings, copied. What `memchr` and `memrchr` find is left open for bytes from 128 on where
`char` is signed, and so is how far `memchr` then reads (`FindsByte`): they compare a
`char` with an `int` and find none. The clamped length never makes `end` wrap, and a string ends
before its NUL is passed, because the contract provides the one and the loop has
seen that the other is not behind it.

`ReadsNumber` for every text and every width of an `int`, from a second invariant
(`NumInv`): what `atoi` has counted is the value of the digits behind it
(`Value`, a sum over their places), wrapped as often as it must be. A further digit
multiplies that sum by ten (`NextValue`); that the number before it has wrapped
does not matter (`WrapsOn`), nor does it for the sign (`WrapsBack`), so that the
result is exact whenever it is an `int`, the least one included.

### Division (`UmoddivProofs`)

`Divides` and `EstimatesClose`, for all four half words of the quotient, for every
width of a half word, every number and divisor. The call is one step, and the proof is about numbers: with the divisor's
top bit set, the estimate of half a quotient is at most one more than a half word
holds and at most two too large, none of the words on the way wraps except in the
test for an estimate too large by two, where the wrapped comparison is right, and
so each half of the quotient is exact; the shift that sets the divisor's top bit
carries no bit out of the three words, and is taken back from the remainder.

### Random numbers (`RandProofs`)

`NeverStuck`, `SeedRepeats` and `StatesNeverMerge` for every width, distances,
multiplier and seeds. `next()` is a one-to-one map on the states: its results give
back the state, one word after the other. So no state but zero leads to zero,
and what is heard after `srand(x)` is read off one orbit of `next()`, whatever was
drawn before (the inductive invariant).

### Only model-checked

- `Returns`: liveness under fairness is out of its reach.
- The seven disagreements in `findings`: a counterexample is a run.

## 5. Not modelled, and known limits

- A square root works on floating-point numbers. `exit`, `get_clock`, `_start`
  and the linker script are input, output and start-up. `abs` and its kin are one
  expression.
- Sizes near the top of `size_t` wrap in `chunk_size_for_data` (`malloc.c:66-72`):
  excluded by an assumption. The dead branches at `malloc.c:238-239` (the call of
  `chunk_grow` on a chunk that cannot be last) and `malloc.c:285` (a chunk freed
  twice) change nothing that can be reached.
- `%H` of a negative byte writes some character that is no digit
  (`printf.c:175`); zeros are padded before the sign (`printf.c:330`); `%s` runs
  `strlen` also when a precision is given (`printf.c:321`); `snprintf` with a size
  of 0 returns -1 (`printf.c:427`). `printf` of an empty text writes `ERROR_STR` and
  its NUL (`printf.c:387-388`), and of a text that breaks off at a conversion that does
  not exist it drops what is in the buffer: stated by `PiecesAndError`, promised or
  denied nowhere.
- `memchr` and `memrchr` compare a signed character with an `int`
  (`strmem.c:58`, against `string.h:164`): modelled, and `FindsFirst` leaves out
  bytes of 128 and more where `char` is signed, and `NotOverread` leaves out
  `memchr` of such a byte (`FindsByte`).
- A generator that was never seeded starts from (1, 0), one seeded with 1 from
  (1, 1) (`rand.c:32`, against `stdlib.h:119`): the model has it, no property
  compares the two.
- `atoi` overflows `int` on numbers out of its range and, on the way, on the least
  `int` (`atoi.c:25`): undefined in C, modelled by what the compiled loop does.
- The strings of `string.h` that have no body in `src/src` (`strcpy`, `strcat`,
  `strchr`, ...) and the one-line character classes but `isspace` and `isdigit`.

## 6. Plan

What the inventory asked for is modelled, and of what the runs check all is proved
but the properties named at the end of section 4. What would add most:

1. `FreeList`: the links of the free list written one at a time, refining the
   sequence of chunks in `Malloc`.
2. `%H` in `Conversions`, whose text depends on memory behind a pointer, and calls
   with several conversions, each with its part of the text.

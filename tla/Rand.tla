--------------------------------- MODULE Rand ---------------------------------
(***************************************************************************)
(* rand() and srand() of src/src/rand.c: the generator xoroshiro64**, whose*)
(* state is two words. Nothing but these two functions touches it; at the  *)
(* start it is zero, like all of .bss.                                     *)
(*                                                                         *)
(* A word is the set of its bits that are 1, so that exclusive or, shifts  *)
(* and rotations are operations on sets. It has Width bits instead of 32,  *)
(* and the distances are constants too.                                    *)
(***************************************************************************)
EXTENDS Integers, Sequences, FiniteSetsExt

CONSTANTS
    Width,           \* 32
    RotA, ShiftB, RotC,  \* 26, 9, 13: how far next() rotates and shifts
    RotResult,       \* 5: how far it rotates what it returns
    Multiplier,      \* 0x9E3779BB
    Seeds,           \* the seeds the program passes to srand()
    MaxHeard,        \* bound: results of rand() on record after a seed
    NoSeed           \* srand() was not called yet

ASSUME RandAssumption ==
    /\ Width \in Nat \ {0}
    /\ {RotA, ShiftB, RotC, RotResult, Multiplier, MaxHeard} \subseteq Nat
    /\ \A s \in Seeds : s \subseteq 0 .. Width-1
    /\ NoSeed \notin Seeds

VARIABLES
    rand_state,  \* the two words
    seed,        \* history: what srand() was last called with
    since,       \* history: what rand() returned first since then
    heard        \* history: the longest such sequence for each seed

randVars == <<rand_state, seed, since, heard>>

Bits  == 0 .. Width-1
Words == SUBSET Bits
Zero  == <<{}, {}>>

-----------------------------------------------------------------------------
(* Operations on words *)

Xor(x, y) == (x \ y) \cup (y \ x)
ShiftLeft(x, k) == {i \in Bits : i - k \in x}
rol32(x, k) == {i \in Bits : (i - k) % Width \in x}

Number(x) == MapThenSumSet(LAMBDA i : 2^i, x)
WordOf(n) == {i \in Bits : (n \div 2^i) % 2 = 1}

-----------------------------------------------------------------------------
Unstick_bug_never(s) == s
\* "Make sure we not stuck at 0 after init": zero counts as the words 1 and 0.
Unstick(s) == IF s[1] \cup s[2] = {} THEN <<{0}, s[2]>> ELSE s

Mix_bug_shift(s) ==
    LET s1 == Xor(s[2], s[1])
    IN  <<Xor(Xor(rol32(s[1], RotA), s1), ShiftLeft(s1, ShiftB)), ShiftLeft(s1, RotC)>>
\* The state after next(), from one that is not zero.
Mix(s) ==
    LET s1 == Xor(s[2], s[1])
    IN  <<Xor(Xor(rol32(s[1], RotA), s1), ShiftLeft(s1, ShiftB)), rol32(s1, RotC)>>

\* The word next() returns, and rand() scaled to 0..RAND_MAX.
NextWord(s) == (5 * Number(rol32(WordOf((Number(s[1]) * Multiplier) % 2^Width), RotResult))) % 2^Width
RAND_MAX == 2^(Width-1) - 1
Scaled(word) == (RAND_MAX * word) \div 2^Width

Longer(s, t) == IF Len(s) > Len(t) THEN s ELSE t

rand ==
    /\ \E s \in {Unstick(rand_state)} :
          /\ rand_state' = Mix(s)
          /\ since' = IF Len(since) = MaxHeard THEN since
                      ELSE Append(since, Scaled(NextWord(s)))
    /\ heard' = [heard EXCEPT ![seed] = Longer(since', @)]
    /\ UNCHANGED seed

Seeded_bug_half(x) == <<x, rand_state[2]>>
Seeded(x) == <<x, x>>

srand(x) ==
    /\ rand_state' = Seeded(x)
    /\ seed' = x /\ since' = <<>>
    /\ UNCHANGED heard

RandInit ==
    /\ rand_state = Zero
    /\ seed = NoSeed /\ since = <<>>
    /\ heard = [x \in Seeds \cup {NoSeed} |-> <<>>]

RandNext == rand \/ \E x \in Seeds : srand(x)

RandSpec == RandInit /\ [][RandNext]_randVars

-----------------------------------------------------------------------------
(* Properties *)

\* The type of the state, and "the state must be seeded so that it is not
\* everywhere zero" (rand.c:23): whatever the seed, 0 included, no call of
\* rand() leaves the state at zero, where it would stay.
NeverStuck ==
    /\ rand_state \in Words \X Words
    /\ since # <<>> => rand_state # Zero

\* "If srand is then called with the same seed value, the sequence of
\* pseudo-random numbers shall be repeated" (stdlib.h:117-119): nothing of what
\* the generator did before the call of srand() shows after it.
SeedRepeats == since = SubSeq(heard[seed], 1, Len(since))

\* Sequences never merge: two states that next() tells apart before a step are
\* different after it, so no state is lost to the generator, and a sequence that
\* repeats does so from its start.
StatesNeverMerge ==
    [][rand => \A s \in (Words \X Words) \ {Zero} :
                   Mix(s) = rand_state' => s = Unstick(rand_state)]_randVars

=============================================================================

------------------------------- MODULE Umoddiv -------------------------------
(***************************************************************************)
(* umoddiv32() of src/src/support/umoddiv.c: a 64-bit number divided by a  *)
(* 32-bit one with 32-bit divisions only, by Knuth's algorithm with 16-bit *)
(* digits. printf() makes decimal digits with it.                          *)
(*                                                                         *)
(* One behaviour is one call. A half word has HalfBits bits (16), a word   *)
(* twice as many; every operation on words wraps.                          *)
(***************************************************************************)
EXTENDS Integers, Sequences

CONSTANT HalfBits

ASSUME HalfBitsAssumption == HalfBits \in Nat \ {0}

\* 2^k: what k places a word is shifted by multiply it by.
Power[k \in Nat] == IF k = 0 THEN 1 ELSE 2 * Power[k - 1]

Half == Power[HalfBits]
Word == Half * Half

VARIABLES
    number, divisor,  \* the arguments: *n at the call, and the divisor
    n, r,       \* *n, and what the function returned
    estimates,  \* the four half words of the quotient as first estimated
    done

umoddivVars == <<number, divisor, n, r, estimates, done>>

UmoddivInit ==
    /\ number \in 0 .. Word * Word - 1 /\ divisor \in 1 .. Word - 1
    /\ n = number /\ r = 0 /\ estimates = <<0, 0, 0, 0>> /\ done = FALSE

-----------------------------------------------------------------------------
LeadingZeros_bug_less(x) ==
    IF x >= Word \div 4 THEN 0
    ELSE CHOOSE k \in 0 .. 2 * HalfBits - 1 : x * Power[k] \in Word \div 4 .. (Word \div 2) - 1
LeadingZeros(x) == CHOOSE k \in 0 .. 2 * HalfBits - 1 : x * Power[k] \in Word \div 2 .. Word - 1

TooLargeTwice_bug_once(rest, m, dd) == FALSE
\* The estimate is too large by two; the sum did not wrap.
TooLargeTwice(rest, m, dd) ==
    LET sum == (rest + dd) % Word IN sum >= dd /\ sum < m

\* A half of the quotient and the rest, from the estimate q and the rest that
\* belongs to it but for m, the share of the divisor's low half.
Tuned(q, rest, m, dd) ==
    LET k == CASE rest >= m -> 0
               [] rest < m /\ ~TooLargeTwice(rest, m, dd) -> 1
               [] OTHER -> 2
    IN  [q |-> (q - k) % Word, r |-> (rest + k * dd - m) % Word]

\* One half of the quotient: of `high`, followed by the half word `next`.
HalfQuotient(high, next, dd) ==
    LET q == high \div (dd \div Half)
    IN  Tuned(q, (((high - q * (dd \div Half)) * Half) % Word) + next,
              (q * (dd % Half)) % Word, dd)

\* A double word divided by dd, whose top bit is set: a quotient of one word.
udiv_adjusted(hi, lo, dd) ==
    LET first  == HalfQuotient(hi, lo \div Half, dd)
        second == HalfQuotient(first.r, lo % Half, dd)
    IN  [q |-> (first.q * Half + second.q) % Word, r |-> second.r,
         estimates |-> <<hi \div (dd \div Half), first.r \div (dd \div Half)>>]

-----------------------------------------------------------------------------
High == n \div Word
Low  == n % Word
Shift == LeadingZeros(divisor)

Return(quotient, rest, est) ==
    /\ n' = quotient /\ r' = rest /\ estimates' = est /\ done' = TRUE
    /\ UNCHANGED <<number, divisor>>

\* The number fits a word: the hardware divides.
DivideWord == ~done /\ High = 0 /\ Return(Low \div divisor, Low % divisor, estimates)

\* A high word of the quotient that takes no division, and what is left.
Known(q, rest) == [q |-> q, r |-> rest, estimates |-> <<q \div Half, q % Half>>]

\* The low word of the quotient, top being its high word and what that left of
\* the number; the remainder is shifted back.
DivideWide(top, lo, k) ==
    LET low == udiv_adjusted(top.r, lo, divisor * Power[k])
    IN  Return(top.q * Word + low.q, low.r \div Power[k], top.estimates \o low.estimates)

\* A word shifted right. By all its bits the shift is undefined in C; the
\* shifters of x86 and RISC-V leave the word as it is then.
ShiftRight(x, k) == x \div Power[k % (2 * HalfBits)]

\* The words of the number shifted left, those of divisor * Power[k] being normalized.
ShiftedTop(k)  == ShiftRight(High, 2 * HalfBits - k)
ShiftedHigh(k) == ((High * Power[k]) % Word) + ShiftRight(Low, 2 * HalfBits - k)
ShiftedLow(k)  == (Low * Power[k]) % Word

MustShift_bug_always == TRUE
\* The divisor's top bit is not set: divisor and number are shifted.
MustShift == Shift # 0

OneWordQuotient ==
    /\ ~done /\ High # 0 /\ divisor > High
    /\ \/ MustShift /\ DivideWide(Known(0, ShiftedHigh(Shift)), ShiftedLow(Shift), Shift)
       \/ ~MustShift /\ DivideWide(Known(0, High), Low, 0)

NormalizedDivisor ==
    /\ ~done /\ High # 0 /\ divisor <= High /\ ~MustShift
    /\ DivideWide(Known(1, High - divisor), Low, 0)

TwoWordQuotient ==
    /\ ~done /\ High # 0 /\ divisor <= High /\ MustShift
    /\ LET top == udiv_adjusted(ShiftedTop(Shift), ShiftedHigh(Shift), divisor * Power[Shift])
       IN  DivideWide(top, ShiftedLow(Shift), Shift)

UmoddivNext == DivideWord \/ OneWordQuotient \/ NormalizedDivisor \/ TwoWordQuotient

UmoddivSpec == UmoddivInit /\ [][UmoddivNext]_umoddivVars

-----------------------------------------------------------------------------
(* Properties *)

\* The function leaves the quotient in *n and returns the remainder
\* (common.h:57-61), whatever the estimates were and wherever a word wrapped.
Divides == done => n = number \div divisor /\ r = number % divisor

\* An estimate of a half word of the quotient, made from the divisor's high half
\* alone, is too large by two at most, which is what the function corrects
\* (umoddiv.c:82-90, 101-109).
EstimatesClose ==
    done /\ number >= Word =>
        /\ estimates[1] - ((n \div Word) \div Half) \in 0..2
        /\ estimates[2] - ((n \div Word) % Half) \in 0..2
        /\ estimates[3] - ((n % Word) \div Half) \in 0..2
        /\ estimates[4] - (n % Half) \in 0..2

=============================================================================

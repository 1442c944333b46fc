----------------------------- MODULE Conversions -----------------------------
(***************************************************************************)
(* What a conversion specification means, from src/include/stdio.h and the *)
(* comments in printf.c: the text of a call of snprintf() is compared with *)
(* what its caller asks for, not with what formatter() makes of the        *)
(* format.                                                                 *)
(*                                                                         *)
(* Such a call has in `ask` the one conversion it asks for: flags, a       *)
(* sequence of FlagChars; width and prec, and in stars which of them are   *)
(* given as arguments; mod, a length modifier; conv and value.             *)
(***************************************************************************)
EXTENDS Printf

NoAsk == [conv |-> "none"]

NumberConversions == {"d", "u", "x", "X", "p", "o", "b"}

Modifiers == {<<>>, <<"h">>, <<"h", "h">>, <<"l">>, <<"l", "l">>, <<"z">>, <<"j">>, <<"t">>}

\* The type of the value, as the number of its values.
TypeOf(a) ==
    CASE a.mod = <<"h", "h">> -> CharMod
      [] a.mod = <<"h">> -> ShortMod
      [] a.mod = <<>> /\ a.conv # "p" -> IntMod
      [] OTHER -> LongMod

\* What can be asked for. Strings and pointers have no length modifier.
IsAsk(a) ==
    /\ a.flags \in Seq(FlagChars)
    /\ a.width \in Int /\ a.width <= MaxFormat /\ ("width" \in a.stars \/ a.width >= 0)
    /\ a.prec \in 0..MaxFormat
    /\ a.mod \in Modifiers
    /\ a.conv \in NumberConversions \cup {"s", "c"}
    /\ a.conv \in {"s", "p"} => a.mod = <<>>
    /\ a.conv \in NumberConversions => a.prec < DigitsSize
    /\ a.conv = "s" => a.value # NullArg /\ IsText(a.value)
    /\ a.conv = "d" => a.value \in -(TypeOf(a) \div 2) .. (TypeOf(a) \div 2) - 1
    /\ a.conv \in NumberConversions \ {"d"} => a.value \in 0 .. TypeOf(a) - 1

\* The digits of n, none for 0.
Numeral(n) == IF n = 0 THEN <<>> ELSE Digits(n, 10, 0, HexLower)

WidthText(a) == IF "width" \in a.stars THEN <<"*">> ELSE Numeral(a.width)
PrecText(a)  == IF "prec" \in a.stars THEN <<".", "*">>
                ELSE IF a.prec = 0 THEN <<>> ELSE <<".">> \o Numeral(a.prec)

FormatOf(a) ==
    <<"a", "%">> \o (a.flags \o (WidthText(a) \o (PrecText(a) \o (a.mod \o <<a.conv, "b">>))))

ArgsOf(a) ==
    (IF "width" \in a.stars THEN <<a.width>> ELSE <<>>)
    \o ((IF "prec" \in a.stars THEN <<a.prec>> ELSE <<>>) \o <<a.value>>)

\* A call that asks for something has the format and the arguments for it, and
\* a buffer.
ASSUME ConversionsAssumption ==
    \A k \in Calls : k.ask # NoAsk =>
        /\ IsAsk(k.ask)
        /\ k.sink = "snprintf" /\ k.size > 0
        /\ k.format = FormatOf(k.ask) /\ k.format # NullArg
        /\ k.args = ArgsOf(k.ask)

-----------------------------------------------------------------------------
(* Properties *)

Meaning(c, base) == CHOOSE d \in 0..base-1 : c \in {HexLower[d + 1], HexUpper[d + 1]}

\* The number that a reader makes of the digits.
ValueOf(digits, base) ==
    LET value[k \in 0..Len(digits)] ==
            IF k = 0 THEN 0 ELSE base * value[k - 1] + Meaning(digits[k], base)
    IN  value[Len(digits)]

\* The exception: a short or char that is not negative takes no plus (printf.c:235-248).
PlusLost(a) == a.mod \in {<<"h">>, <<"h", "h">>}

\* A minus, or what the flags ask for: "Add sign (+) for a positive number"
\* (printf.c:67, 109), a blank in its place (printf.c:118), or nothing.
WantedSign(a) ==
    CASE a.conv # "d" -> <<>>
      [] a.conv = "d" /\ a.value < 0 -> <<"-">>
      [] a.conv = "d" /\ a.value >= 0 /\ "+" \in ToSet(a.flags) /\ ~PlusLost(a) -> <<"+">>
      [] OTHER -> IF " " \in ToSet(a.flags) THEN <<" ">> ELSE <<>>

SignOk(a, sign) == sign = WantedSign(a)

\* At least prec digits, none of them a leading zero that is not asked for.
DigitsOk(a, digits) ==
    /\ Len(digits) >= Larger(a.prec, 1)
    /\ Len(digits) > Larger(a.prec, 1) => digits[1] # "0"
    /\ \A i \in 1..Len(digits) : digits[i] \in ToSet(HexLower) \cup ToSet(HexUpper)
    /\ ValueOf(digits, Base[a.conv]) = IF a.value < 0 THEN -a.value ELSE a.value

ValueOk(a, body) ==
    CASE a.conv = "s" -> body = IF a.prec = 0 THEN a.value
                                ELSE SubSeq(a.value, 1, Smaller(a.prec, Len(a.value)))
      [] a.conv = "c" -> body = <<a.value>>
      [] OTHER -> \E k \in {0, 1} \cap 0..Len(body) :
                      /\ SignOk(a, SubSeq(body, 1, k))
                      /\ DigitsOk(a, SubSeq(body, k + 1, Len(body)))

PadOk(a, pad) ==
    ToSet(pad) \subseteq
        {IF "-" \notin ToSet(a.flags) /\ ("0" \in ToSet(a.flags) \/ a.conv = "p") THEN "0" ELSE " "}

\* The value, padded to the width on the side the flags say.
FieldOk(a, t) ==
    \E k \in 0..Len(t) :
        /\ a.conv # "c" => Len(t) = Larger(k, a.width)
        /\ a.conv = "c" => k = Len(t)
        /\ IF "-" \in ToSet(a.flags)
           THEN ValueOk(a, SubSeq(t, 1, k)) /\ PadOk(a, SubSeq(t, k + 1, Len(t)))
           ELSE ValueOk(a, SubSeq(t, Len(t) - k + 1, Len(t))) /\ PadOk(a, SubSeq(t, 1, Len(t) - k))

\* What a directive writes is what it asks for: a value that reads back as the
\* argument, in the type asked for, with the sign the flags ask for (but the
\* plus of a short or a char, see PlusLost), at least as wide and as precise as
\* asked (printf.c:99-353).
ConversionMeetsFormat ==
    Done /\ call.ask # NoAsk =>
        LET n == Len(Prefix(call.ask.conv))
        IN  /\ Len(written) >= n + 2 /\ res = Len(written)
            /\ Head(written) = "a" /\ Last(written) = "b"
            /\ SubSeq(written, 2, n + 1) = Prefix(call.ask.conv)
            /\ FieldOk(call.ask, SubSeq(written, n + 2, Len(written) - 1))

\* "Handle positive sign (%+d)" (printf.c:109): a number asked for with a plus
\* has a sign, whatever its type.
PlusIsWritten ==
    Done /\ call.ask # NoAsk /\ call.ask.conv = "d" /\ "+" \in ToSet(call.ask.flags) =>
        {"+", "-"} \cap ToSet(written) # {}

=============================================================================

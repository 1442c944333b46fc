------------------------------ MODULE Formatter ------------------------------
(***************************************************************************)
(* One conversion specification of formatter() in src/src/printf.c: how it *)
(* is read from the format, which arguments it takes, and the characters   *)
(* it writes. Printf runs formatter() over a whole format.                 *)
(*                                                                         *)
(* A character is a string of length one, a format or a text a sequence of *)
(* them, without the NUL that ends it. An argument is an integer, a text   *)
(* or, for %H, a sequence of bytes; a text or bytes may be NullArg.        *)
(* Integers have the width the code gives them.                            *)
(***************************************************************************)
EXTENDS Integers, Sequences, SequencesExt

CONSTANTS
    CharMod, ShortMod, IntMod, LongMod,  \* 2^w of the integer types
    MaxFormat,                           \* MAX_FORMAT
    DigitsSize,                          \* sizeof(digits)
    NullArg                              \* the null pointer

ASSUME FormatterAssumption ==
    /\ {CharMod, ShortMod, IntMod, LongMod} \subseteq {2 * n : n \in 1..LongMod}
    /\ {CharMod, ShortMod} \cap {IntMod, LongMod} = {}
    /\ MaxFormat \in Nat /\ DigitsSize \in Nat \ {0}

\* The powers of a base that numbers are written in.
Powers(base) == LET power[k \in Nat] == IF k = 0 THEN 1 ELSE base * power[k - 1] IN power

\* A width in range does not wrap, and the array digits has room for every
\* value in binary and a NUL.
ASSUME SizesAssumption ==
    /\ MaxFormat < IntMod
    /\ \A m \in {CharMod, ShortMod, IntMod, LongMod} : m <= Powers(2)[DigitsSize - 1]

NUL == "NUL"

\* ERROR_STR; two characters stand for its eight.
ErrorStr_bug_percent == <<"%">>
ErrorStr == <<"<ERROR>", "newline">>

HexLower == <<"0","1","2","3","4","5","6","7","8","9","a","b","c","d","e","f">>
HexUpper == <<"0","1","2","3","4","5","6","7","8","9","A","B","C","D","E","F">>
FlagChars  == {"-", "+", "0", "#", " "}
DigitChars == {HexLower[d] : d \in 1..10}
DigitValue(c) == CHOOSE d \in 0..9 : HexLower[d + 1] = c

\* Behind its NUL a format is followed by memory of any content: a read there
\* does not stop.
At(f, i) == CASE i \in 1..Len(f) -> f[i] [] i = Len(f) + 1 -> NUL [] OTHER -> "d"

Larger(m, n) == IF m < n THEN n ELSE m
Smaller(m, n) == IF m < n THEN m ELSE n
Repeat(c, n) == [i \in 1..n |-> c]

-----------------------------------------------------------------------------
(* Reading the specification: each operator returns `next`, the place behind
   what it read. *)

\* The first place from i on that holds no character of S.
Behind(f, i, S) ==
    CHOOSE j \in i..Larger(i, Len(f) + 1) : At(f, j) \notin S /\ \A k \in i..j-1 : At(f, k) \in S

\* The digits from i to j - 1 read as a uint32_t, which wraps.
Number(f, i, j) ==
    LET number[k \in 0..j-i] ==
            IF k = 0 THEN 0 ELSE (10 * number[k - 1] + DigitValue(At(f, i + k - 1))) % IntMod
    IN  number[j - i]

\* A field width or precision: `*` takes it from the arguments.
Field(f, i, args) ==
    IF At(f, i) = "*"
    THEN [value |-> Larger(Head(args), 0), next |-> i + 1, args |-> Tail(args)]
    ELSE LET j == Behind(f, i, DigitChars)
         IN  [value |-> Number(f, i, j), next |-> j, args |-> args]

Precision(f, i, args) ==
    IF At(f, i) = "." THEN Field(f, i + 1, args) ELSE [value |-> 0, next |-> i, args |-> args]

Modifier_bug_two(f, i) ==
    LET c == At(f, i)
    IN  CASE c = "h" -> [mod |-> ShortMod, next |-> i + 1]
          [] c \in {"l", "z", "j", "t"} -> [mod |-> LongMod, next |-> i + 2]
          [] OTHER   -> [mod |-> IntMod, next |-> i]

\* The length modifier, as the type whose values the argument has.
Modifier(f, i) ==
    LET c == At(f, i)
    IN  CASE c = "h" /\ At(f, i + 1) = "h" -> [mod |-> CharMod, next |-> i + 2]
          [] c = "h" /\ At(f, i + 1) # "h" -> [mod |-> ShortMod, next |-> i + 1]
          [] c = "l" -> [mod |-> LongMod, next |-> IF At(f, i + 1) = "l" THEN i + 2 ELSE i + 1]
          [] c \in {"z", "j", "t"} -> [mod |-> LongMod, next |-> i + 1]
          [] c = "p" -> [mod |-> LongMod, next |-> i]
          [] OTHER   -> [mod |-> IntMod, next |-> i]

-----------------------------------------------------------------------------
(* Writing numbers *)

\* What a conversion is written in; its domain is the conversions supported.
Base == [c \in {"d", "u", "x", "X", "p", "o", "b"} |->
            CASE c \in {"d", "u"} -> 10
              [] c = "o" -> 8
              [] c = "b" -> 2
              [] OTHER -> 16]

\* What is written before the padding.
Prefix(c) == CASE c = "p" -> <<"0", "x">> [] c = "o" -> <<"0">> [] OTHER -> <<>>

Signed(v, mod) == IF v >= mod \div 2 THEN v - mod ELSE v

Magnitude_bug_unsigned(v, mod, c) == v

\* The number whose digits are written: %d writes the sign apart.
Magnitude(v, mod, c) ==
    IF c = "d" /\ Signed(v, mod) < 0 THEN -Signed(v, mod) ELSE v

Sign_bug_no_plus(v, mod, c, flags) ==
    IF c = "d" /\ Signed(v, mod) < 0 THEN <<"-">>
    ELSE IF c = "d" /\ " " \in flags THEN <<" ">> ELSE <<>>
\* Only int and long numbers take a plus sign.
Sign(v, mod, c, flags) ==
    CASE c # "d" -> <<>>
      [] c = "d" /\ Signed(v, mod) < 0 -> <<"-">>
      [] c = "d" /\ Signed(v, mod) >= 0 /\ "+" \in flags /\ mod \in {IntMod, LongMod} -> <<"+">>
      [] OTHER -> IF " " \in flags THEN <<" ">> ELSE <<>>

\* The digits of v, at least prec of them, and one for 0.
DigitCount(v, base, prec) ==
    Larger(IF v = 0 /\ prec = 0 THEN 1 ELSE prec,
           CHOOSE n \in 0..DigitsSize :
               Powers(base)[n] > v /\ (n = 0 \/ Powers(base)[n - 1] <= v))

Digits(v, base, prec, names) ==
    LET n == DigitCount(v, base, prec)
    IN  [i \in 1..n |-> names[1 + ((v \div Powers(base)[n - i]) % base)]]

\* `low` is the offset of the text in the array digits, which it fills from
\* its end: it must not be negative.
NumberText(v, mod, c, flags, prec) ==
    LET names == IF c \in {"X", "p"} \/ "#" \in flags THEN HexUpper ELSE HexLower
        text  == Sign(v, mod, c, flags) \o Digits(Magnitude(v, mod, c), Base[c], prec, names)
    IN  [text |-> text, low |-> DigitsSize - 1 - Len(text)]

\* %H: two digits for each byte. The byte is a signed char, and a negative one
\* makes a high digit beyond 15, written as some other character.
HexDump(bytes, n) ==
    FlattenSeq([i \in 1..n |->
        <<IF bytes[i] < 0 THEN "?" ELSE HexLower[1 + (bytes[i] \div 16)],
          HexLower[1 + (bytes[i] % 16)]>>])

-----------------------------------------------------------------------------
(* The whole specification. The result: the text to write, the place behind
   the specification, the arguments left, what follows (the rest of the
   format, ERROR_STR, or the end of the call with EOF), and `low`. *)

Padded(text, width, flags) ==
    LET missing == Larger(0, width - Len(text))
    IN  IF "-" \in flags THEN text \o Repeat(" ", missing)
        ELSE Repeat(IF "0" \in flags THEN "0" ELSE " ", missing) \o text

Writes(text, next, args) ==
    [text |-> text, next |-> next, args |-> args, then |-> "format", low |-> 0]
\* ERROR_STR is read from its start.
Fails(text) ==
    [text |-> text, next |-> 1, args |-> <<>>, then |-> "error", low |-> 0]
\* `last` is the last place read.
Ends(last) ==
    [text |-> <<>>, next |-> last, args |-> <<>>, then |-> "eof", low |-> 0]

\* A precision of 0 is no precision.
Cut(s, prec) == IF prec = 0 THEN s ELSE SubSeq(s, 1, Smaller(prec, Len(s)))

String(s, flags, width, prec, next, args) ==
    LET text == IF s = NullArg THEN <<"[", "n", "u", "l", "l", "]">> ELSE s
    IN  Writes(Padded(Cut(text, prec), width, flags), next, args)

Dump(bytes, prec, next, args) ==
    IF bytes = NullArg \/ prec = 0 THEN Fails(<<>>)
    ELSE Writes(HexDump(bytes, prec), next, args)

Integer(m, c, flags, width, prec, args) ==
    LET number == NumberText(Head(args) % m.mod, m.mod, c, flags, prec)
    IN  IF c \notin DOMAIN Base THEN Ends(m.next)
        ELSE IF prec > DigitsSize - 1 THEN Fails(Prefix(c))
        ELSE [Writes(Prefix(c) \o Padded(number.text, width, flags), m.next + 1, Tail(args))
                 EXCEPT !.low = number.low]

\* Number conversions and %c, which both may have a length modifier.
Numeric(f, m, flags, width, prec, args) ==
    IF At(f, m.next) = "c" THEN Writes(<<Head(args)>>, m.next + 1, Tail(args))
    ELSE Integer(m, At(f, m.next), flags, width, prec, args)

\* Pointers are padded with zeros.
PointerFlags(c, flags) == IF c = "p" THEN flags \cup {"0"} ELSE flags

Argument(f, flags, width, prec) ==
    LET i == prec.next
    IN  CASE At(f, i) = "s" ->
               String(Head(prec.args), flags, width, prec.value, i + 1, Tail(prec.args))
          [] At(f, i) = "H" ->
               Dump(Head(prec.args), prec.value, i + 1, Tail(prec.args))
          [] OTHER -> Numeric(f, Modifier(f, i), PointerFlags(At(f, i), flags), width,
                              prec.value, prec.args)

\* The directive with these flags and fields, whose conversion starts behind
\* the precision.
Directive(f, flags, width, prec) ==
    IF width.value > MaxFormat \/ prec.value > MaxFormat THEN Fails(<<>>)
    ELSE Argument(f, flags, width.value, prec)

=============================================================================

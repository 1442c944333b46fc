----------------------------- MODULE PrintfProofs -----------------------------
(***************************************************************************)
(* The properties of Printf, for every set of calls, every size of the     *)
(* buffer of printf() and every outcome of putnstr(). The invariant has a  *)
(* part for each property: where formatter() is in the format, what of the *)
(* text is in the buffer and on standard output, what a failed putnstr()   *)
(* leads to, and what is in the memory of snprintf()'s caller.             *)
(*                                                                         *)
(* A call with an `ask` needs more: what formatter() reads back from the   *)
(* format that asks for something, what it makes of it, and that the       *)
(* digits it writes have the value. That is the second half of the module, *)
(* from "Powers of a base" on.                                             *)
(***************************************************************************)
EXTENDS Conversions, SumTheorems, SequenceTheorems

-----------------------------------------------------------------------------
(* Texts                                                                   *)

LEMMA TextOf ==
    ASSUME NEW S, NEW s \in Seq(S)
    PROVE  IsText(s)
<1>1. Len(s) \in Nat /\ s \in [1 .. Len(s) -> S] /\ DOMAIN s = 1 .. Len(s)
  BY LenProperties
<1>2. s \in [1 .. Len(s) -> ToSet(s)]
  BY <1>1 DEF ToSet
<1>3. s \in Seq(ToSet(s))
  BY <1>1, <1>2, SeqDef
<1> QED BY <1>3 DEF IsText

LEMMA TextFacts ==
    ASSUME NEW s, IsText(s)
    PROVE  Len(s) \in Nat /\ DOMAIN s = 1 .. Len(s)
BY LenProperties DEF IsText

LEMMA NoCharacters ==
    /\ IsText(<<>>) /\ Len(<<>>) = 0
    /\ \A s : IsText(s) => <<>> \o s = s /\ s \o <<>> = s
<1>1. IsText(<<>>) /\ Len(<<>>) = 0
  BY TextOf, EmptySeq
<1>2. ASSUME NEW s, IsText(s) PROVE <<>> \o s = s /\ s \o <<>> = s
  BY <1>2, ConcatEmptySeq DEF IsText
<1> QED BY <1>1, <1>2

LEMMA OneCharacter ==
    ASSUME NEW c
    PROVE  IsText(<<c>>)
<1>1. <<c>> \in Seq({c})
  OBVIOUS
<1> QED BY <1>1, TextOf

LEMMA Appended ==
    ASSUME NEW s, IsText(s), NEW c
    PROVE  /\ IsText(Append(s, c)) /\ Len(Append(s, c)) = Len(s) + 1
           /\ Append(s, c)[Len(s) + 1] = c
           /\ \A i \in 1 .. Len(s) : Append(s, c)[i] = s[i]
           /\ s \o <<c>> = Append(s, c)
<1> DEFINE S == ToSet(s) \cup {c}
<1>1. s \in Seq(S) /\ c \in S
  BY SeqMonotonic DEF IsText
<1> HIDE DEF S
<1>2. Append(s, c) \in Seq(S)
  BY <1>1
<1>3. /\ Len(Append(s, c)) = Len(s) + 1 /\ Append(s, c)[Len(s) + 1] = c
      /\ \A i \in 1 .. Len(s) : Append(s, c)[i] = s[i]
  BY <1>1
<1>4. s \o <<c>> = Append(s, c)
  BY <1>1
<1> QED BY <1>2, <1>3, <1>4, TextOf

LEMMA Joined ==
    ASSUME NEW s, IsText(s), NEW t, IsText(t), NEW c
    PROVE  IsText(s \o t) /\ s \o Append(t, c) = Append(s \o t, c)
<1> DEFINE S == ToSet(s) \cup ToSet(t) \cup {c}
<1>1. s \in Seq(S) /\ t \in Seq(S) /\ <<c>> \in Seq(S)
  <2>1. s \in Seq(S) /\ t \in Seq(S)
    BY SeqMonotonic DEF IsText
  <2>2. c \in S
    OBVIOUS
  <2> HIDE DEF S
  <2> QED BY <2>1, <2>2
<1> HIDE DEF S
<1>2. s \o t \in Seq(S) /\ (s \o t) \o <<c>> = s \o (t \o <<c>>)
  BY <1>1, ConcatProperties, ConcatAssociative
<1>3. IsText(s \o t)
  BY <1>2, TextOf
<1>4. (s \o t) \o <<c>> = Append(s \o t, c) /\ t \o <<c>> = Append(t, c)
  BY <1>3, Appended
<1> QED BY <1>2, <1>3, <1>4

LEMMA Part ==
    ASSUME NEW s, IsText(s), NEW r \in Int, r <= Len(s)
    PROVE  IsText(SubSeq(s, 1, r)) /\ (r = Len(s) => SubSeq(s, 1, r) = s)
<1>1. \A i \in 1 .. r : s[i] \in ToSet(s)
  BY TextFacts DEF ToSet
<1>2. SubSeq(s, 1, r) \in Seq(ToSet(s))
  BY <1>1, SubSeqProperties
<1>3. r = Len(s) => SubSeq(s, 1, r) = s
  BY SubSeqFull DEF IsText
<1> QED BY <1>2, <1>3, TextOf

LEMMA ErrorIsText == IsText(ErrorStr) /\ Len(ErrorStr) = 2
<1>1. ErrorStr \in Seq({"<ERROR>", "newline"}) /\ Len(ErrorStr) = 2
  BY DEF ErrorStr
<1> QED BY <1>1, TextOf

LEMMA LesserOf ==
    ASSUME NEW i \in Int, NEW j \in Int
    PROVE  Smaller(i, j) = IF i < j THEN i ELSE j
BY DEF Smaller

-----------------------------------------------------------------------------
(* The format *)

\* A place that a format may be read at: a character's, or the NUL's.
Place(f, i) == i \in Int /\ 1 <= i /\ i <= Len(f) + 1

LEMMA PlaceBehind ==
    ASSUME NEW f, IsText(f), NEW i, Place(f, i), At(f, i) # NUL
    PROVE  Place(f, i + 1)
<1>1. Len(f) \in Nat /\ i \in Int /\ 1 <= i /\ i <= Len(f) + 1
  BY TextFacts DEF Place
<1>2. i # Len(f) + 1
  BY <1>1 DEF At
<1> QED BY <1>1, <1>2 DEF Place

\* A loop over characters other than the NUL ends at the NUL at the latest.
LEMMA BehindIsPlace ==
    ASSUME NEW f, IsText(f), NEW i, Place(f, i), NEW S, NUL \notin S
    PROVE  Place(f, Behind(f, i, S))
<1>1. Len(f) \in Nat /\ i \in Nat /\ 1 <= i /\ i <= Len(f) + 1
  BY TextFacts DEF Place
<1> DEFINE n == Len(f) + 1
           T == {j \in i .. n : At(f, j) \notin S}
<1>2. Larger(i, n) = n /\ n \in Nat
  BY <1>1 DEF Larger
<1>3. At(f, n) = NUL
  BY <1>1 DEF At
<1> HIDE DEF n
<1>4. n \in T
  BY <1>1, <1>2, <1>3 DEF n
<1>5. T \subseteq Nat /\ T # {}
  BY <1>1, <1>2, <1>4
<1>6. PICK k \in T : \A j \in T : k <= j
  BY <1>5, LeastMember
<1>7. \A j \in i .. k-1 : At(f, j) \in S
  BY <1>1, <1>2, <1>6
<1>8. \E j \in i .. n : At(f, j) \notin S /\ \A l \in i .. j-1 : At(f, l) \in S
  BY <1>6, <1>7
<1>9. Behind(f, i, S) \in i .. n
  BY <1>2, <1>8 DEF Behind, n
<1> QED BY <1>1, <1>2, <1>9 DEF Place, n

LEMMA NoNul == NUL \notin FlagChars /\ NUL \notin DigitChars
<1>1. NUL \notin FlagChars
  BY DEF NUL, FlagChars
<1>2. \A d \in 1 .. 10 : d = 1 \/ d = 2 \/ d = 3 \/ d = 4 \/ d = 5 \/ d = 6 \/ d = 7 \/ d = 8 \/ d = 9 \/ d = 10
  OBVIOUS
<1>3. NUL \notin DigitChars
  BY <1>2 DEF NUL, DigitChars, HexLower
<1> QED BY <1>1, <1>3

LEMMA FieldIsPlace ==
    ASSUME NEW f, IsText(f), NEW i, Place(f, i), NEW args
    PROVE  Place(f, Field(f, i, args).next)
<1>1. CASE At(f, i) = "*"
  <2>1. At(f, i) # NUL
    BY <1>1 DEF NUL
  <2>2. Field(f, i, args).next = i + 1
    BY <1>1 DEF Field
  <2> QED BY <2>1, <2>2, PlaceBehind
<1>2. CASE At(f, i) # "*"
  <2>1. Field(f, i, args).next = Behind(f, i, DigitChars)
    BY <1>2 DEF Field
  <2> QED BY <2>1, NoNul, BehindIsPlace
<1> QED BY <1>1, <1>2

LEMMA PrecisionIsPlace ==
    ASSUME NEW f, IsText(f), NEW i, Place(f, i), NEW args
    PROVE  Place(f, Precision(f, i, args).next)
<1>1. CASE At(f, i) = "."
  <2>1. At(f, i) # NUL
    BY <1>1 DEF NUL
  <2>2. Place(f, i + 1)
    BY <2>1, PlaceBehind
  <2> DEFINE j == i + 1
  <2>3. Precision(f, i, args) = Field(f, j, args) /\ Place(f, j)
    BY <1>1, <2>2 DEF Precision
  <2> HIDE DEF j
  <2>4. Place(f, Field(f, j, args).next)
    BY <2>3, FieldIsPlace
  <2> QED BY <2>3, <2>4
<1>2. CASE At(f, i) # "."
  BY <1>2 DEF Precision
<1> QED BY <1>1, <1>2

LEMMA ModifierIsPlace ==
    ASSUME NEW f, IsText(f), NEW i, Place(f, i)
    PROVE  Place(f, Modifier(f, i).next)
<1> DEFINE c == At(f, i)
           j == i + 1
           d == At(f, j)
<1>1. c \in {"h", "l", "z", "j", "t"} => Place(f, j)
  <2>1. c \in {"h", "l", "z", "j", "t"} => c # NUL
    BY DEF NUL
  <2> QED BY <2>1, PlaceBehind
<1>2. Place(f, j) /\ d \in {"h", "l"} => Place(f, j + 1)
  <2>1. d \in {"h", "l"} => d # NUL
    BY DEF NUL
  <2> HIDE DEF j
  <2> QED BY <2>1, PlaceBehind
<1>3. i \in Int /\ j + 1 = i + 2
  BY DEF Place
<1>4. /\ c = "h" /\ d = "h" => Modifier(f, i).next = j + 1
      /\ c = "h" /\ d # "h" => Modifier(f, i).next = j
      /\ c = "l" => Modifier(f, i).next = IF d = "l" THEN j + 1 ELSE j
      /\ c \in {"z", "j", "t"} => Modifier(f, i).next = j
      /\ c \notin {"h", "l", "z", "j", "t"} => Modifier(f, i).next = i
  BY <1>3 DEF Modifier
<1> QED BY <1>1, <1>2, <1>4

\* Where a directive is followed by the rest of the format, that is a place in it;
\* ERROR_STR is read from its start.
DirectiveOk(f, d) == IF d.then = "error" THEN d.next = 1 ELSE Place(f, d.next)

LEMMA WritesOk ==
    ASSUME NEW f, NEW text, NEW next, Place(f, next), NEW args
    PROVE  DirectiveOk(f, Writes(text, next, args))
BY DEF DirectiveOk, Writes

LEMMA FailsOk == \A f, text : DirectiveOk(f, Fails(text))
BY DEF DirectiveOk, Fails

LEMMA EndsOk ==
    ASSUME NEW f, NEW next, Place(f, next)
    PROVE  DirectiveOk(f, Ends(next))
BY DEF DirectiveOk, Ends

LEMMA NumericOk ==
    ASSUME NEW f, IsText(f), NEW m, Place(f, m.next), NEW flags, NEW width, NEW prec, NEW args
    PROVE  DirectiveOk(f, Numeric(f, m, flags, width, prec, args))
<1> DEFINE i == m.next
           c == At(f, i)
           j == i + 1
<1>1. c # NUL => Place(f, j)
  <2> HIDE DEF i
  <2> QED BY PlaceBehind DEF i
<1>2. CASE c = "c"
  <2>1. c # NUL
    BY <1>2 DEF NUL
  <2>2. Place(f, j)
    BY <1>1, <2>1
  <2>3. Numeric(f, m, flags, width, prec, args) = Writes(<<Head(args)>>, j, Tail(args))
    BY <1>2 DEF Numeric
  <2> HIDE DEF j
  <2> QED BY <2>2, <2>3, WritesOk
<1>3. CASE c # "c"
  <2>1. Numeric(f, m, flags, width, prec, args) = Integer(m, c, flags, width, prec, args)
    BY <1>3 DEF Numeric
  <2>2. CASE c \notin DOMAIN Base
    <3>1. Integer(m, c, flags, width, prec, args) = Ends(i)
      BY <2>2 DEF Integer
    <3> QED BY <2>1, <3>1, EndsOk
  <2>3. CASE c \in DOMAIN Base /\ prec > DigitsSize - 1
    <3>1. Integer(m, c, flags, width, prec, args) = Fails(Prefix(c))
      BY <2>3 DEF Integer
    <3> QED BY <2>1, <3>1, FailsOk
  <2>4. CASE c \in DOMAIN Base /\ ~(prec > DigitsSize - 1)
    <3> DEFINE number == NumberText(Head(args) % m.mod, m.mod, c, flags, prec)
               text == Prefix(c) \o Padded(number.text, width, flags)
               w == Writes(text, j, Tail(args))
    <3>1. Integer(m, c, flags, width, prec, args) = [w EXCEPT !.low = number.low]
      BY <2>4 DEF Integer
    <3>2. c # NUL
      BY <2>4 DEF NUL, Base
    <3>3. Place(f, j)
      BY <1>1, <3>2
    <3> HIDE DEF text, j, number
    <3>4. w.then = "format" /\ w.next = j /\ w = [text |-> text, next |-> j, args |-> Tail(args), then |-> "format", low |-> 0]
      BY DEF Writes
    <3> DEFINE d == [w EXCEPT !.low = number.low]
    <3>5. d.then = "format" /\ d.next = j
      BY <3>4
    <3> QED BY <2>1, <3>1, <3>3, <3>5 DEF DirectiveOk
  <2> QED BY <2>2, <2>3, <2>4
<1> QED BY <1>2, <1>3

LEMMA DirectiveIsOk ==
    ASSUME NEW f, IsText(f), NEW flags, NEW width, NEW prec, Place(f, prec.next)
    PROVE  DirectiveOk(f, Directive(f, flags, width, prec))
<1> DEFINE i == prec.next
           j == i + 1
           m == Modifier(f, i)
           D == Directive(f, flags, width, prec)
<1>1. CASE width.value > MaxFormat \/ prec.value > MaxFormat
  BY <1>1, FailsOk DEF Directive
<1>2. CASE ~(width.value > MaxFormat \/ prec.value > MaxFormat)
  <2>1. D = Argument(f, flags, width.value, prec)
    BY <1>2 DEF Directive
  <2>2. At(f, i) # NUL => Place(f, j)
    <3> HIDE DEF i
    <3> QED BY PlaceBehind DEF i
  <2>3. CASE At(f, i) = "s"
    <3>1. Place(f, j)
      BY <2>2, <2>3 DEF NUL
    <3>2. D = String(Head(prec.args), flags, width.value, prec.value, j, Tail(prec.args))
      BY <2>1, <2>3 DEF Argument
    <3> HIDE DEF j, D
    <3> QED BY <3>1, <3>2, WritesOk DEF String, D
  <2>4. CASE At(f, i) = "H"
    <3>1. Place(f, j)
      BY <2>2, <2>4 DEF NUL
    <3>2. D = Dump(Head(prec.args), prec.value, j, Tail(prec.args))
      BY <2>1, <2>4 DEF Argument
    <3> HIDE DEF j, D
    <3> QED BY <3>1, <3>2, WritesOk, FailsOk DEF Dump, D
  <2>5. CASE At(f, i) \notin {"s", "H"}
    <3>1. D = Numeric(f, m, PointerFlags(At(f, i), flags), width.value, prec.value, prec.args)
      BY <2>1, <2>5 DEF Argument
    <3>2. Place(f, m.next)
      BY ModifierIsPlace
    <3> HIDE DEF m, D
    <3> QED BY <3>1, <3>2, NumericOk DEF D
  <2> QED BY <2>3, <2>4, <2>5
<1> QED BY <1>1, <1>2

-----------------------------------------------------------------------------
(* The inductive invariant                                                 *)

ScanType == scan = [fmt |-> scan.fmt, pos |-> scan.pos, args |-> scan.args,
                    todo |-> scan.todo, then |-> scan.then]

TypeOK ==
    /\ call \in Calls
    /\ ScanType
    /\ IsText(written) /\ IsText(buf) /\ IsText(out)
    /\ res \in Nat \cup {EOF, Running}

\* formatter() is at a place of the format.
Placed == scan.fmt # NullArg => IsText(scan.fmt) /\ Place(scan.fmt, scan.pos)

\* ERROR_STR and its NUL are behind all that was not in the buffer.
ErrorBehind ==
    \E p : IsText(p) /\ p \o buf = written /\ out = p \o Append(ErrorStr, NUL)

\* What was handed to write_printf() is on standard output or in the buffer.
InOrder ==
    call.sink = "printf" /\ device = "ok" =>
        /\ ~Done => out \o buf = written
        /\ Done /\ res > 0 => out = written
        /\ Done /\ ~(res > 0) => ErrorBehind

\* A call that goes on after a putnstr() failed is printf(), about to return EOF.
FailureSeen ==
    device = "failed" =>
        IF Done THEN ret < 0 \/ (call.sink = "printf" /\ res = 0)
        ELSE call.sink = "printf" /\ res = EOF

\* What was handed to write_str() is in the caller's memory as far as it fits.
Stored ==
    call.sink = "snprintf" /\ call.size > 0 /\ ~Done =>
        /\ at = Smaller(Len(written), call.size - 1)
        /\ DOMAIN mem = 0 .. MemorySize-1
        /\ \A i \in 1 .. at : mem[i - 1] = written[i]
        /\ \A a \in call.size .. MemorySize-1 : mem[a] = Other
        /\ res \in {Running, EOF, Len(written)}

IInv == TypeOK /\ Placed /\ InOrder /\ FailureSeen /\ Stored /\ SnprintfTruncates

LEMMA CallFacts ==
    ASSUME call \in Calls
    PROVE  /\ call.sink \in {"printf", "snprintf", "puts"}
           /\ call.size \in Nat /\ call.size <= MemorySize /\ MemorySize \in Nat
           /\ call.format # NullArg => IsText(call.format)
           /\ BufferSize \in Nat \ {0}
BY PrintfAssumption

LEMMA InitIInv == Init => IInv
<1> SUFFICES ASSUME Init PROVE IInv
  OBVIOUS
<1>1. /\ call \in Calls /\ written = <<>> /\ buf = <<>> /\ out = <<>> /\ res = Running
      /\ device = "ok" /\ at = 0 /\ mem = [a \in 0..MemorySize-1 |-> Other] /\ ret = Running
  BY DEF Init
<1>2. /\ scan.fmt = call.format /\ scan.pos = 1 /\ ScanType
  BY DEF Init, ScanType
<1>3. TypeOK
  BY <1>1, <1>2, NoCharacters DEF TypeOK
<1>4. Placed
  <2>1. scan.fmt # NullArg => IsText(scan.fmt)
    BY <1>1, <1>2, CallFacts
  <2> QED BY <1>2, <2>1, TextFacts DEF Placed, Place
<1>5. InOrder /\ FailureSeen /\ SnprintfTruncates
  BY <1>1, NoCharacters DEF InOrder, FailureSeen, SnprintfTruncates, Done
<1>6. Stored
  <2> SUFFICES ASSUME call.size > 0
               PROVE  /\ at = Smaller(Len(written), call.size - 1)
                      /\ DOMAIN mem = 0 .. MemorySize-1
                      /\ \A i \in 1 .. at : mem[i - 1] = written[i]
                      /\ \A a \in call.size .. MemorySize-1 : mem[a] = Other
    BY <1>1 DEF Stored
  <2>1. call.size \in Nat /\ Len(written) = 0
    BY <1>1, CallFacts, NoCharacters
  <2>2. at = Smaller(Len(written), call.size - 1)
    BY <1>1, <2>1 DEF Smaller
  <2> QED BY <1>1, <2>1, <2>2
<1> QED BY <1>3, <1>4, <1>5, <1>6 DEF IInv

-----------------------------------------------------------------------------
(* formatter()                                                             *)

\* A step of formatter() itself hands nothing to the callback.
LEMMA FormatterStep ==
    ASSUME IInv, ret = Running, res = Running, ScanType', Placed',
           res' \in {Running, EOF, Len(written)}, UNCHANGED <<call, written, sink, ret>>
    PROVE  IInv'
<1>1. /\ call' = call /\ written' = written /\ buf' = buf /\ out' = out /\ device' = device
      /\ mem' = mem /\ at' = at /\ ret' = Running
  BY DEF sink
<1>2. Len(written) \in Nat
  BY TextFacts DEF IInv, TypeOK
<1>3. TypeOK'
  BY <1>1, <1>2 DEF IInv, TypeOK
<1>4. InOrder'
  BY <1>1 DEF IInv, InOrder, Done
<1>5. FailureSeen'
  BY <1>1 DEF IInv, FailureSeen, Done, Running, EOF
<1>6. Stored'
  BY <1>1 DEF IInv, Stored, Done
<1>7. SnprintfTruncates'
  BY <1>1 DEF SnprintfTruncates, Done
<1> QED BY <1>3, <1>4, <1>5, <1>6, <1>7 DEF IInv

\* Behind n characters there is a place if the last of them is none.
LEMMA AdvanceStep ==
    ASSUME IInv, scan.fmt # NullArg, NEW text, NEW n \in Int, Place(scan.fmt, scan.pos + n), Advance(text, n)
    PROVE  ScanType' /\ Placed'
<1>1. ScanType
  BY DEF IInv, TypeOK
<1>2. scan'.fmt = scan.fmt /\ scan'.pos = scan.pos + n /\ ScanType'
  BY <1>1 DEF Advance, ScanType
<1> QED BY <1>2 DEF IInv, Placed

LEMMA CharacterStep == IInv /\ (NoFormat \/ EndOfFormat \/ PlainCharacter \/ PercentSign \/ Unsupported) => IInv'
<1> SUFFICES ASSUME IInv, NoFormat \/ EndOfFormat \/ PlainCharacter \/ PercentSign \/ Unsupported
             PROVE  IInv'
  OBVIOUS
<1>1. CASE NoFormat \/ EndOfFormat \/ Unsupported
  <2>1. /\ ret = Running /\ res = Running /\ scan' = scan /\ res' \in {Running, EOF, Len(written)}
        /\ UNCHANGED <<call, written, sink, ret>>
    BY <1>1 DEF NoFormat, EndOfFormat, Unsupported, ReadsFormat, Scanning
  <2>2. ScanType' /\ Placed'
    BY <2>1 DEF IInv, TypeOK, ScanType, Placed
  <2> QED BY <2>1, <2>2, FormatterStep
<1>2. CASE PlainCharacter
  <2>1. /\ ret = Running /\ res = Running /\ scan.fmt # NullArg /\ Next0 # NUL /\ Advance(<<Next0>>, 1)
        /\ res' = res /\ UNCHANGED <<call, written, sink, ret>>
    BY <1>2 DEF PlainCharacter, ReadsFormat, Scanning
  <2>2. Place(scan.fmt, scan.pos + 1)
    BY <2>1, PlaceBehind DEF IInv, Placed, Next0
  <2>3. ScanType' /\ Placed'
    BY <2>1, <2>2, AdvanceStep
  <2> QED BY <2>1, <2>3, FormatterStep
<1>3. CASE PercentSign
  <2>1. /\ ret = Running /\ res = Running /\ scan.fmt # NullArg /\ Next0 = "%" /\ Next1 = "%"
        /\ Advance(<<"%">>, 2) /\ res' = res /\ UNCHANGED <<call, written, sink, ret>>
    BY <1>3 DEF PercentSign, ReadsFormat, Scanning
  <2>2. Place(scan.fmt, scan.pos + 1) /\ IsText(scan.fmt)
    BY <2>1, PlaceBehind DEF IInv, Placed, Next0, NUL
  <2> DEFINE j == scan.pos + 1
  <2>3. Place(scan.fmt, j) /\ At(scan.fmt, j) # NUL
    BY <2>1, <2>2 DEF Next1, NUL
  <2>4. j + 1 = scan.pos + 2
    BY <2>1 DEF IInv, Placed, Place
  <2> HIDE DEF j
  <2>5. Place(scan.fmt, scan.pos + 2)
    BY <2>2, <2>3, <2>4, PlaceBehind
  <2>6. ScanType' /\ Placed'
    BY <2>1, <2>5, AdvanceStep
  <2> QED BY <2>1, <2>6, FormatterStep
<1> QED BY <1>1, <1>2, <1>3

LEMMA IncompleteStep == IInv /\ Incomplete => IInv'
<1> SUFFICES ASSUME IInv, Incomplete PROVE IInv'
  OBVIOUS
<1>1. /\ ret = Running /\ res = Running /\ scan' = [scan EXCEPT !.fmt = ErrorStr, !.pos = 1]
      /\ res' = res /\ UNCHANGED <<call, written, sink, ret>>
  BY DEF Incomplete, ReadsFormat, Scanning
<1>2. ScanType
  BY DEF IInv, TypeOK
<1>3. scan'.fmt = ErrorStr /\ scan'.pos = 1 /\ ScanType'
  BY <1>1, <1>2 DEF ScanType
<1>4. Placed'
  BY <1>3, ErrorIsText DEF Placed, Place
<1> QED BY <1>1, <1>3, <1>4, FormatterStep

LEMMA ConvertStep == IInv /\ Convert => IInv'
<1> SUFFICES ASSUME IInv, Convert PROVE IInv'
  OBVIOUS
<1> DEFINE f == scan.fmt
           i == scan.pos + 1
           j == Behind(f, i, FlagChars)
           width == Field(f, j, scan.args)
           prec == Precision(f, width.next, width.args)
           d == Directive(f, ToSet(SubSeq(f, i, j - 1)), width, prec)
<1>1. /\ ret = Running /\ res = Running /\ f # NullArg /\ Next0 = "%" /\ Follow(d)
      /\ res' = res /\ UNCHANGED <<call, written, sink, ret>>
  BY DEF Convert, ReadsFormat, Scanning
<1>2. IsText(f) /\ Place(f, i)
  BY <1>1, PlaceBehind DEF IInv, Placed, Next0, NUL
<1> HIDE DEF f, i
<1>3. Place(f, j)
  BY <1>2, NoNul, BehindIsPlace
<1> HIDE DEF j
<1>4. Place(f, width.next)
  BY <1>2, <1>3, FieldIsPlace
<1> HIDE DEF width
<1>5. Place(f, prec.next)
  BY <1>2, <1>4, PrecisionIsPlace
<1> HIDE DEF prec
<1>6. DirectiveOk(f, d)
  BY <1>2, <1>5, DirectiveIsOk
<1> HIDE DEF d
<1>7. ScanType
  BY DEF IInv, TypeOK
<1>8. /\ scan'.fmt = (IF d.then = "error" THEN ErrorStr ELSE f) /\ scan'.pos = d.next /\ ScanType'
  BY <1>1, <1>7 DEF Follow, ScanType, f
<1>9. Placed'
  <2>1. CASE d.then = "error"
    BY <1>6, <1>8, <2>1, ErrorIsText DEF Placed, Place, DirectiveOk
  <2>2. CASE d.then # "error"
    BY <1>2, <1>6, <1>8, <2>2 DEF Placed, DirectiveOk
  <2> QED BY <2>1, <2>2
<1> QED BY <1>1, <1>8, <1>9, FormatterStep

-----------------------------------------------------------------------------
(* The callbacks                                                           *)

\* One more character is written; formatter() stays where it is.
LEMMA WroteStep ==
    ASSUME IInv, Wrote
    PROVE  /\ IsText(written') /\ Len(written') = Len(written) + 1 /\ Len(written) \in Nat
           /\ written'[Len(written) + 1] = Head(scan.todo)
           /\ \A i \in 1 .. Len(written) : written'[i] = written[i]
           /\ written' = Append(written, Head(scan.todo))
           /\ ScanType' /\ Placed'
<1>1. IsText(written) /\ ScanType /\ written' = Append(written, Head(scan.todo))
  BY DEF IInv, TypeOK, Wrote
<1>2. scan'.fmt = scan.fmt /\ scan'.pos = scan.pos /\ ScanType'
  BY <1>1 DEF Wrote, ScanType
<1>3. Placed'
  BY <1>2 DEF IInv, Placed
<1> QED BY <1>1, <1>2, <1>3, Appended, TextFacts

LEMMA WritePrintfStep == IInv /\ write_printf => IInv'
<1> SUFFICES ASSUME IInv, write_printf PROVE IInv'
  OBVIOUS
<1> DEFINE c == Head(scan.todo)
<1>1. /\ ret = Running /\ res = Running /\ call.sink = "printf" /\ buf' = Append(buf, c) /\ Wrote
      /\ call' = call /\ res' = res /\ out' = out /\ device' = device /\ ret' = ret
  BY DEF write_printf, Writing
<1>2. IsText(written') /\ written' = Append(written, c) /\ ScanType' /\ Placed'
  BY <1>1, WroteStep
<1>3. IsText(buf) /\ IsText(out)
  BY DEF IInv, TypeOK
<1>4. IsText(buf')
  BY <1>1, <1>3, Appended
<1>5. TypeOK'
  BY <1>1, <1>2, <1>3, <1>4 DEF IInv, TypeOK
<1>6. InOrder'
  <2> SUFFICES ASSUME device = "ok" PROVE out \o buf' = written'
    BY <1>1 DEF InOrder, Done
  <2>1. out \o buf = written
    BY <1>1 DEF IInv, InOrder, Done
  <2> HIDE DEF c
  <2> QED BY <1>1, <1>2, <1>3, <2>1, Joined
<1>7. FailureSeen'
  BY <1>1 DEF IInv, FailureSeen, Done
<1>8. Stored' /\ SnprintfTruncates'
  BY <1>1 DEF Stored, SnprintfTruncates
<1> QED BY <1>2, <1>5, <1>6, <1>7, <1>8 DEF IInv

\* What putnstr() does to standard output and what it tells of it.
LEMMA PutnstrStep ==
    ASSUME NEW s, IsText(s), IsText(out), NEW r \in PutnstrResults(s), putnstr(s, r)
    PROVE  /\ r \in Int /\ r >= -1 /\ IsText(out')
           /\ device' = "ok" => device = "ok" /\ out' = out \o s
           /\ device' = "failed" => device = "failed" \/ r = -1
<1>1. Len(s) \in Nat
  BY TextFacts
<1>2. Smaller(1, Len(s)) \in Nat
  BY <1>1 DEF Smaller
<1>3. r \in Int /\ r >= -1 /\ r <= Len(s)
  BY <1>1, <1>2 DEF PutnstrResults
<1>4. IsText(SubSeq(s, 1, r)) /\ (r = Len(s) => SubSeq(s, 1, r) = s)
  BY <1>3, Part
<1>5. out' = out \o SubSeq(s, 1, r)
  BY DEF putnstr
<1> DEFINE t == SubSeq(s, 1, r)
<1>6. IsText(t)
  BY <1>4
<1> HIDE DEF t
<1>7. IsText(out \o t)
  BY <1>6, Joined
<1>8. CASE r = -1
  <2>1. device' = "failed"
    BY <1>1, <1>8 DEF putnstr
  <2> QED BY <1>3, <1>5, <1>7, <1>8, <2>1 DEF t
<1>9. CASE r = Len(s)
  <2>1. device' = device
    BY <1>1, <1>9 DEF putnstr
  <2> QED BY <1>3, <1>4, <1>5, <1>7, <1>9, <2>1 DEF t
<1>10. CASE r # -1 /\ r # Len(s)
  <2>1. device' = IF device = "ok" THEN "short" ELSE device
    BY <1>10 DEF putnstr
  <2> QED BY <1>3, <1>5, <1>7, <2>1 DEF t
<1> QED BY <1>8, <1>9, <1>10

LEMMA FlushPrintfStep == IInv /\ flush_printf => IInv'
<1> SUFFICES ASSUME IInv, flush_printf PROVE IInv'
  OBVIOUS
<1> DEFINE c == Head(scan.todo)
<1>1. PICK r \in PutnstrResults(buf) :
          /\ putnstr(buf, r)
          /\ IF FlushFails(r)
             THEN res' = EOF /\ UNCHANGED <<buf, scan, written>>
             ELSE buf' = <<c>> /\ Wrote /\ UNCHANGED res
  BY DEF flush_printf, Flushed
<1>2. /\ ret = Running /\ res = Running /\ call.sink = "printf" /\ call' = call /\ ret' = ret
  BY DEF flush_printf, Writing
<1>3. IsText(buf) /\ IsText(out) /\ IsText(written) /\ ScanType /\ Placed
  BY DEF IInv, TypeOK
<1>4. /\ r \in Int /\ r >= -1 /\ IsText(out')
      /\ device' = "ok" => device = "ok" /\ out' = out \o buf
      /\ device' = "failed" => device = "failed" \/ r = -1
  BY <1>1, <1>3, PutnstrStep
<1>5. device # "failed"
  BY <1>2 DEF IInv, FailureSeen, Done, Running, EOF
<1>6. Stored' /\ SnprintfTruncates'
  BY <1>2 DEF Stored, SnprintfTruncates
<1>7. CASE r < 0
  <2>1. res' = EOF /\ buf' = buf /\ scan' = scan /\ written' = written
    BY <1>1, <1>7 DEF FlushFails
  <2>2. TypeOK' /\ Placed'
    BY <1>2, <1>3, <1>4, <2>1 DEF IInv, TypeOK, ScanType, Placed
  <2>3. FailureSeen'
    BY <1>2, <2>1 DEF FailureSeen, Done
  <2>4. InOrder'
    <3>1. r = -1
      BY <1>4, <1>7
    <3>2. device' # "ok"
      BY <1>1, <3>1 DEF putnstr
    <3> QED BY <3>2 DEF InOrder
  <2> QED BY <1>6, <2>2, <2>3, <2>4 DEF IInv
<1>8. CASE ~(r < 0)
  <2>1. buf' = <<c>> /\ Wrote /\ res' = res
    BY <1>1, <1>8 DEF FlushFails
  <2>2. IsText(written') /\ written' = Append(written, c) /\ ScanType' /\ Placed'
    BY <2>1, WroteStep
  <2>3. IsText(buf')
    BY <2>1, OneCharacter
  <2>4. TypeOK'
    BY <1>2, <1>4, <2>1, <2>2, <2>3 DEF IInv, TypeOK
  <2>5. FailureSeen'
    BY <1>4, <1>5, <1>8 DEF FailureSeen
  <2>6. InOrder'
    <3> SUFFICES ASSUME device' = "ok" PROVE out' \o buf' = written'
      BY <1>2 DEF InOrder, Done
    <3>1. out' = written
      BY <1>2, <1>4 DEF IInv, InOrder, Done
    <3> HIDE DEF c
    <3> QED BY <1>3, <2>1, <2>2, <3>1, Appended
  <2> QED BY <1>6, <2>2, <2>4, <2>5, <2>6 DEF IInv
<1> QED BY <1>4, <1>7, <1>8

LEMMA WriteStrStep == IInv /\ write_str => IInv'
<1> SUFFICES ASSUME IInv, write_str PROVE IInv'
  OBVIOUS
<1> DEFINE c == Head(scan.todo)
<1>1. /\ ret = Running /\ res = Running /\ call.sink = "snprintf" /\ Wrote /\ call' = call
      /\ res' = res /\ buf' = buf /\ out' = out /\ device' = device /\ ret' = ret
      /\ (HasRoom => mem' = [mem EXCEPT ![at] = c] /\ at' = at + 1)
      /\ (~HasRoom => mem' = mem /\ at' = at)
  BY DEF write_str, Writing
<1>2. /\ IsText(written') /\ Len(written') = Len(written) + 1 /\ Len(written) \in Nat
      /\ written'[Len(written) + 1] = c /\ \A i \in 1 .. Len(written) : written'[i] = written[i]
      /\ ScanType' /\ Placed'
  BY <1>1, WroteStep
<1>3. TypeOK'
  BY <1>1, <1>2 DEF IInv, TypeOK
<1>4. InOrder' /\ FailureSeen' /\ SnprintfTruncates'
  BY <1>1 DEF IInv, InOrder, FailureSeen, SnprintfTruncates, Done
<1>5. Stored'
  <2> SUFFICES ASSUME call.size > 0
               PROVE  /\ at' = Smaller(Len(written'), call.size - 1)
                      /\ DOMAIN mem' = 0 .. MemorySize-1
                      /\ \A i \in 1 .. at' : mem'[i - 1] = written'[i]
                      /\ \A a \in call.size .. MemorySize-1 : mem'[a] = Other
    BY <1>1 DEF Stored
  <2> DEFINE n == Len(written)
             k == call.size
  <2>1. k \in Nat /\ k > 0 /\ k <= MemorySize /\ MemorySize \in Nat /\ n \in Nat /\ Len(written') = n + 1
    BY <1>2, CallFacts DEF IInv, TypeOK
  <2>2. /\ at = Smaller(n, k - 1) /\ DOMAIN mem = 0 .. MemorySize-1
        /\ \A i \in 1 .. at : mem[i - 1] = written[i]
        /\ \A a \in k .. MemorySize-1 : mem[a] = Other
    BY <1>1 DEF IInv, Stored, Done
  <2> HIDE DEF n, k, c
  <2>3. at = IF n < k - 1 THEN n ELSE k - 1
    BY <2>1, <2>2 DEF Smaller
  <2>4. HasRoom <=> n < k - 1
    BY <2>1, <2>3 DEF HasRoom, k
  <2>5. Smaller(Len(written'), k - 1) = IF n + 1 < k - 1 THEN n + 1 ELSE k - 1
    BY <2>1 DEF Smaller
  <2>6. CASE n < k - 1
    <3>1. at = n /\ at' = n + 1 /\ mem' = [mem EXCEPT ![n] = c] /\ n \in 0 .. MemorySize-1
      BY <1>1, <2>1, <2>3, <2>4, <2>6
    <3>2. at' = Smaller(Len(written'), k - 1) /\ DOMAIN mem' = 0 .. MemorySize-1
      BY <2>1, <2>2, <2>5, <2>6, <3>1
    <3>3. ASSUME NEW i \in 1 .. n + 1 PROVE mem'[i - 1] = written'[i]
      <4>1. CASE i = n + 1
        <5>1. i - 1 = n
          BY <2>1, <4>1
        <5> QED BY <1>2, <2>2, <3>1, <4>1, <5>1 DEF n
      <4>2. CASE i # n + 1
        <5>1. i \in 1 .. n /\ i - 1 # n /\ i - 1 \in 0 .. MemorySize-1
          BY <2>1, <2>6, <4>2
        <5>2. mem'[i - 1] = mem[i - 1]
          BY <2>2, <3>1, <5>1
        <5> QED BY <1>2, <2>2, <3>1, <5>1, <5>2 DEF n
      <4> QED BY <4>1, <4>2
    <3>4. ASSUME NEW a \in k .. MemorySize-1 PROVE mem'[a] = Other
      <4>1. a # n /\ a \in 0 .. MemorySize-1
        BY <2>1, <2>6
      <4>2. mem'[a] = mem[a]
        BY <2>2, <3>1, <4>1
      <4> QED BY <2>2, <4>2
    <3> QED BY <3>1, <3>2, <3>3, <3>4 DEF k
  <2>7. CASE ~(n < k - 1)
    <3>1. at' = at /\ mem' = mem /\ at = k - 1
      BY <1>1, <2>3, <2>4, <2>7
    <3>2. at' = Smaller(Len(written'), k - 1)
      BY <2>1, <2>5, <2>7, <3>1
    <3>3. ASSUME NEW i \in 1 .. at PROVE mem'[i - 1] = written'[i]
      <4>1. i \in 1 .. n
        BY <2>1, <2>7, <3>1
      <4> QED BY <1>2, <2>2, <3>1, <4>1 DEF n
    <3> QED BY <2>2, <3>1, <3>2, <3>3 DEF k
  <2> QED BY <2>6, <2>7
<1> QED BY <1>2, <1>3, <1>4, <1>5 DEF IInv

-----------------------------------------------------------------------------
(* The functions when formatter() has returned, and puts()                 *)

LEMMA PrintfStep == IInv /\ printf => IInv'
<1> SUFFICES ASSUME IInv, printf PROVE IInv'
  OBVIOUS
<1>1. /\ ret = Running /\ res # Running /\ call.sink = "printf" /\ call' = call /\ scan' = scan
      /\ written' = written /\ res' = res /\ buf' = buf
  BY DEF printf, Returned
<1>2. IsText(buf) /\ IsText(out) /\ res \in Nat \cup {EOF} /\ EOF = -1
  BY <1>1 DEF IInv, TypeOK, EOF
<1>3. Placed'
  BY <1>1 DEF IInv, Placed
<1>4. Stored' /\ SnprintfTruncates'
  BY <1>1 DEF Stored, SnprintfTruncates
<1>5. CASE res > 0
  <2>1. PICK r \in PutnstrResults(buf) : putnstr(buf, r) /\ ret' = r
    BY <1>5 DEF printf
  <2>2. /\ r \in Int /\ r >= -1 /\ IsText(out')
        /\ device' = "ok" => device = "ok" /\ out' = out \o buf
        /\ device' = "failed" => device = "failed" \/ r = -1
    BY <1>2, <2>1, PutnstrStep
  <2>3. TypeOK'
    BY <1>1, <2>2 DEF IInv, TypeOK, ScanType
  <2>4. InOrder'
    <3> SUFFICES ASSUME device' = "ok" PROVE out' = written'
      BY <1>1, <1>5, <2>1, <2>2 DEF InOrder, Done, Running
    <3> QED BY <1>1, <2>2 DEF IInv, InOrder, Done
  <2>5. FailureSeen'
    <3>1. device # "failed"
      BY <1>1, <1>2, <1>5 DEF IInv, FailureSeen, Done
    <3>2. ret' # Running
      BY <2>1, <2>2 DEF Running
    <3>3. device' = "failed" => ret' < 0
      BY <2>1, <2>2, <3>1
    <3> QED BY <3>2, <3>3 DEF FailureSeen, Done
  <2> QED BY <1>3, <1>4, <2>3, <2>4, <2>5 DEF IInv
<1>6. CASE ~(res > 0)
  <2> DEFINE s == Append(ErrorStr, NUL)
  <2>1. PICK r \in PutnstrResults(s) : putnstr(s, r) /\ ret' = res
    BY <1>6 DEF printf
  <2>2. IsText(s)
    BY ErrorIsText, Appended
  <2> HIDE DEF s
  <2>3. IsText(out')
    BY <1>2, <2>1, <2>2, PutnstrStep
  <2>4. TypeOK'
    BY <1>1, <2>3 DEF IInv, TypeOK, ScanType
  <2>5. ret' # Running /\ (ret' < 0 \/ res = 0)
    BY <1>1, <1>2, <1>6, <2>1
  <2>6. FailureSeen'
    BY <1>1, <1>6, <2>5 DEF FailureSeen, Done, Running
  <2>7. InOrder'
    <3> SUFFICES ASSUME device' = "ok" PROVE ErrorBehind'
      BY <1>1, <1>6, <2>5 DEF InOrder, Done
    <3>1. out \o buf = written /\ out' = out \o s
      <4>1. device = "ok" /\ out' = out \o s
        BY <1>2, <2>1, <2>2, PutnstrStep
      <4> QED BY <1>1, <4>1 DEF IInv, InOrder, Done
    <3> QED BY <1>1, <1>2, <3>1 DEF ErrorBehind, s
  <2> QED BY <1>3, <1>4, <2>4, <2>6, <2>7 DEF IInv
<1> QED BY <1>5, <1>6

LEMMA SnprintfStep == IInv /\ snprintf => IInv'
<1> SUFFICES ASSUME IInv, snprintf PROVE IInv'
  OBVIOUS
<1>1. /\ ret = Running /\ res # Running /\ call.sink = "snprintf" /\ call' = call /\ scan' = scan
      /\ written' = written /\ res' = res /\ buf' = buf /\ out' = out /\ device' = device
      /\ mem' = Terminated /\ ret' = res
  BY DEF snprintf, Returned
<1>2. TypeOK' /\ Placed'
  BY <1>1 DEF IInv, TypeOK, ScanType, Placed
<1>3. InOrder' /\ FailureSeen' /\ Stored'
  <2>1. ret' # Running
    BY <1>1
  <2>2. device # "failed"
    BY <1>1 DEF IInv, FailureSeen, Done
  <2> QED BY <1>1, <2>1, <2>2 DEF InOrder, FailureSeen, Stored, Done
<1>4. SnprintfTruncates'
  <2> DEFINE m == Smaller(Len(written), call.size - 1)
             k == call.size
  <2> SUFFICES ASSUME k > 0
               PROVE  /\ \A i \in 1..m : mem'[i - 1] = written[i]
                      /\ mem'[m] = NUL /\ mem'[k - 1] = NUL
                      /\ \A a \in k .. MemorySize-1 : mem'[a] = Other
                      /\ ret' \in {Len(written), EOF}
    BY <1>1 DEF SnprintfTruncates
  <2>1. /\ at = m /\ DOMAIN mem = 0 .. MemorySize-1
        /\ \A i \in 1 .. at : mem[i - 1] = written[i]
        /\ \A a \in k .. MemorySize-1 : mem[a] = Other
        /\ res \in {Running, EOF, Len(written)}
    BY <1>1 DEF IInv, Stored, Done
  <2>2. Len(written) \in Nat /\ k \in Nat /\ k <= MemorySize /\ MemorySize \in Nat
    BY CallFacts, TextFacts DEF IInv, TypeOK
  <2>3. m \in Nat /\ m <= k - 1
    BY <2>2 DEF Smaller
  <2>4. mem' = [mem EXCEPT ![k - 1] = NUL, ![m] = NUL]
    BY <1>1, <2>1 DEF Terminated
  <2> HIDE DEF m, k
  <2>5. k - 1 \in DOMAIN mem /\ m \in DOMAIN mem
    BY <2>1, <2>2, <2>3
  <2>6. \A a \in DOMAIN mem : mem'[a] = IF a = m \/ a = k - 1 THEN NUL ELSE mem[a]
    BY <2>4
  <2>7. mem'[m] = NUL /\ mem'[k - 1] = NUL
    BY <2>5, <2>6
  <2>8. ASSUME NEW i \in 1 .. m PROVE mem'[i - 1] = written[i]
    <3>1. i - 1 \in DOMAIN mem /\ i - 1 # m /\ i - 1 # k - 1
      BY <2>1, <2>2, <2>3
    <3> QED BY <2>1, <2>6, <3>1
  <2>9. ASSUME NEW a \in k .. MemorySize-1 PROVE mem'[a] = Other
    <3>1. a \in DOMAIN mem /\ a # m /\ a # k - 1
      BY <2>1, <2>2, <2>3
    <3> QED BY <2>1, <2>6, <3>1
  <2>10. ret' \in {Len(written), EOF}
    BY <1>1, <2>1
  <2> QED BY <2>7, <2>8, <2>9, <2>10
<1> QED BY <1>2, <1>3, <1>4 DEF IInv

\* snprintf() into no buffer, and puts() of no text, return at once.
LEMMA RefuseStep == IInv /\ (EmptyBufferRefused \/ puts_null) => IInv'
<1> SUFFICES ASSUME IInv, EmptyBufferRefused \/ puts_null PROVE IInv'
  OBVIOUS
<1>1. /\ ret = Running /\ call' = call /\ scan' = scan /\ written' = written /\ res' = res
      /\ buf' = buf /\ out' = out /\ device' = device /\ mem' = mem /\ ret' = -1
      /\ (call.sink = "snprintf" /\ call.size = 0) \/ call.sink = "puts"
  BY DEF EmptyBufferRefused, EmptyBuffer, puts_null, InPuts, sink, EOF
<1>2. TypeOK' /\ Placed'
  BY <1>1 DEF IInv, TypeOK, ScanType, Placed
<1>3. InOrder' /\ FailureSeen' /\ Stored' /\ SnprintfTruncates'
  BY <1>1 DEF InOrder, FailureSeen, Stored, SnprintfTruncates, Done, Running
<1> QED BY <1>2, <1>3 DEF IInv

\* puts() hands putnstr() its text, then a newline.
LEMMA PutsStep == IInv /\ (puts_text \/ puts_newline) => IInv'
<1> SUFFICES ASSUME IInv, puts_text \/ puts_newline PROVE IInv'
  OBVIOUS
<1>1. /\ ret = Running /\ call.sink = "puts" /\ call' = call /\ scan' = scan /\ written' = written
      /\ buf' = buf
  BY DEF puts_text, puts_newline, InPuts
<1>2. IsText(out) /\ IsText(<<"newline">>) /\ (call.format # NullArg => IsText(call.format))
  BY OneCharacter, CallFacts DEF IInv, TypeOK
<1>3. PICK s, r :
        /\ IsText(s) /\ r \in PutnstrResults(s) /\ putnstr(s, r)
        /\ \/ r >= 0 /\ res' = r /\ ret' = ret
           \/ ret' = r /\ res' = res
  <2>1. CASE puts_text
    <3>1. PICK r \in PutnstrResults(call.format) :
            /\ putnstr(call.format, r)
            /\ IF r >= 0 THEN res' = r /\ UNCHANGED ret ELSE ret' = r /\ UNCHANGED res
      BY <2>1 DEF puts_text
    <3>2. IsText(call.format)
      BY <1>2, <2>1 DEF puts_text
    <3> QED BY <3>1, <3>2
  <2>2. CASE puts_newline
    <3>1. PICK r \in PutnstrResults(<<"newline">>) : putnstr(<<"newline">>, r) /\ ret' = r
      BY <2>2 DEF puts_newline
    <3>2. res' = res
      BY <2>2 DEF puts_newline
    <3> QED BY <1>2, <3>1, <3>2
  <2> QED BY <2>1, <2>2
<1>4. r \in Int /\ r >= -1 /\ IsText(out') /\ (device' = "failed" => device = "failed" \/ r = -1)
  BY <1>2, <1>3, PutnstrStep
<1>5. TypeOK'
  BY <1>1, <1>3, <1>4 DEF IInv, TypeOK, ScanType
<1>6. Placed'
  BY <1>1 DEF IInv, Placed
<1>7. InOrder' /\ Stored' /\ SnprintfTruncates'
  BY <1>1 DEF InOrder, Stored, SnprintfTruncates
<1>8. FailureSeen'
  <2>1. device # "failed"
    BY <1>1 DEF IInv, FailureSeen, Done
  <2>2. device' = "failed" => ret' = -1
    BY <1>3, <1>4, <2>1
  <2> QED BY <2>2 DEF FailureSeen, Done, Running
<1> QED BY <1>5, <1>6, <1>7, <1>8 DEF IInv

LEMMA NextIInv == IInv /\ [Next]_vars => IInv'
<1> SUFFICES ASSUME IInv, [Next]_vars PROVE IInv'
  OBVIOUS
<1>1. CASE NoFormat \/ EndOfFormat \/ PlainCharacter \/ PercentSign \/ Unsupported
  BY <1>1, CharacterStep
<1>2. CASE Incomplete \/ Convert
  BY <1>2, IncompleteStep, ConvertStep
<1>3. CASE write_printf \/ flush_printf \/ write_str
  BY <1>3, WritePrintfStep, FlushPrintfStep, WriteStrStep
<1>4. CASE printf \/ snprintf
  BY <1>4, PrintfStep, SnprintfStep
<1>5. CASE EmptyBufferRefused \/ puts_null \/ puts_text \/ puts_newline
  BY <1>5, RefuseStep, PutsStep
<1>6. CASE UNCHANGED vars
  <2> USE <1>6 DEF vars
  <2>1. TypeOK' /\ Placed'
    BY DEF IInv, TypeOK, ScanType, Placed
  <2>2. InOrder' /\ FailureSeen' /\ Stored' /\ SnprintfTruncates'
    BY DEF IInv, InOrder, ErrorBehind, FailureSeen, Stored, SnprintfTruncates, Done
  <2> QED BY <2>1, <2>2 DEF IInv
<1> QED BY <1>1, <1>2, <1>3, <1>4, <1>5, <1>6 DEF Next

\* The invariant holds of every call.
THEOREM Invariance == Spec => []IInv
BY InitIInv, NextIInv, PTL DEF Spec

\* No failure of putnstr() is lost, whichever piece of the text it was for, but
\* that of printf() with an empty text (printf.c:84, 369, 386-388, 400).
THEOREM FailuresAreReported == Spec => []FailureReported
<1>1. IInv => FailureReported
  BY DEF IInv, FailureSeen, FailureReported
<1> QED BY <1>1, Invariance, PTL

\* snprintf() writes the text up to n - 1 characters and the NUL, nothing behind
\* the n bytes, and returns the text's length, for every n and every text
\* (printf.c:420-433).
THEOREM TextIsTruncated == Spec => []SnprintfTruncates
<1>1. IInv => SnprintfTruncates
  BY DEF IInv
<1> QED BY <1>1, Invariance, PTL

\* formatter() stays within the format and its NUL, wherever in a directive the
\* format breaks off (printf.c:72-360).
THEOREM FormatIsFollowed == Spec => []FormatNotOverread
<1>1. IInv => FormatNotOverread
  BY DEF IInv, Placed, Place, FormatNotOverread
<1> QED BY <1>1, Invariance, PTL

-----------------------------------------------------------------------------
(* Digits                                                                  *)

LEMMA PowersOf ==
    ASSUME NEW b \in Nat \ {0}
    PROVE  /\ Powers(b)[0] = 1
           /\ \A k \in Nat : Powers(b)[k + 1] = b * Powers(b)[k]
           /\ \A k \in Nat : Powers(b)[k] \in Nat \ {0}
<1>1. \E f : IsPowers(f, b)
  BY PowersExist
<1>2. IsPowers(Powers(b), b)
  BY <1>1 DEF Powers, IsPowers
<1> QED BY <1>2, PowersStep, PowersNat

\* A power of b and the next.
LEMMA PowerBefore ==
    ASSUME NEW b \in Nat \ {0}, NEW k \in Nat \ {0}
    PROVE  /\ Powers(b)[k] = b * Powers(b)[k - 1]
           /\ Powers(b)[k] \in Nat \ {0} /\ Powers(b)[k - 1] \in Nat \ {0}
<1>1. k - 1 \in Nat /\ (k - 1) + 1 = k
  OBVIOUS
<1>2. Powers(b)[(k - 1) + 1] = b * Powers(b)[k - 1]
  BY <1>1, PowersOf
<1> QED BY <1>1, <1>2, PowersOf

LEMMA PowersRise ==
    ASSUME NEW b \in Nat \ {0}, NEW i \in Nat
    PROVE  \A j \in Nat : i <= j => Powers(b)[i] <= Powers(b)[j]
<1> DEFINE T == {j \in Nat : i <= j /\ ~(Powers(b)[i] <= Powers(b)[j])}
<1>1. SUFFICES ASSUME T # {} PROVE FALSE
  OBVIOUS
<1>2. PICK j \in T : \A l \in T : j <= l
  <2>1. T \subseteq Nat
    OBVIOUS
  <2> HIDE DEF T
  <2> QED BY <1>1, <2>1, LeastMember
<1>3. Powers(b)[i] \in Nat
  BY PowersOf
<1>4. j # i
  BY <1>2, <1>3
<1>5. j \in Nat \ {0} /\ j - 1 \in Nat /\ i <= j - 1 /\ ~(j <= j - 1)
  BY <1>2, <1>4
<1>6. Powers(b)[i] <= Powers(b)[j - 1]
  BY <1>2, <1>5
<1>7. Powers(b)[j] = b * Powers(b)[j - 1] /\ Powers(b)[j - 1] \in Nat \ {0}
  BY <1>5, PowerBefore
<1>8. \A x \in Nat : x <= b * x /\ b * x \in Nat
  OBVIOUS
<1>9. Powers(b)[j - 1] <= Powers(b)[j] /\ Powers(b)[j] \in Nat
  BY <1>7, <1>8
<1>10. Powers(b)[i] <= Powers(b)[j]
  BY <1>3, <1>6, <1>7, <1>9
<1> QED BY <1>2, <1>10

\* A larger base has larger powers.
LEMMA PowersLarger ==
    ASSUME NEW b \in Nat, b >= 2
    PROVE  \A k \in Nat : Powers(2)[k] <= Powers(b)[k]
<1> DEFINE T == {k \in Nat : ~(Powers(2)[k] <= Powers(b)[k])}
<1>1. SUFFICES ASSUME T # {} PROVE FALSE
  OBVIOUS
<1>2. PICK k \in T : \A l \in T : k <= l
  <2>1. T \subseteq Nat
    OBVIOUS
  <2> HIDE DEF T
  <2> QED BY <1>1, <2>1, LeastMember
<1>3. Powers(2)[0] = 1 /\ Powers(b)[0] = 1
  BY PowersOf
<1>4. k # 0
  BY <1>2, <1>3
<1>5. k \in Nat \ {0} /\ k - 1 \in Nat /\ ~(k <= k - 1)
  BY <1>2, <1>4
<1>6. Powers(2)[k - 1] <= Powers(b)[k - 1]
  BY <1>2, <1>5
<1>7. /\ Powers(b)[k] = b * Powers(b)[k - 1] /\ Powers(b)[k - 1] \in Nat \ {0}
      /\ Powers(2)[k] = 2 * Powers(2)[k - 1] /\ Powers(2)[k - 1] \in Nat \ {0}
  BY <1>5, PowerBefore
<1>8. \A x, y \in Nat : x <= y => 2 * x <= b * y
  BY ProductMonotonic
<1>9. Powers(2)[k] <= Powers(b)[k]
  BY <1>6, <1>7, <1>8
<1> QED BY <1>2, <1>9

\* The bases that numbers are written in.
Bases == {2, 8, 10, 16}

\* A value that the array digits has room for.
Value(v) == v \in Nat /\ v < Powers(2)[DigitsSize - 1]

\* n digits are enough for v in base b, and no fewer with no reason for them.
Enough(n, v, b, prec) ==
    /\ n \in Nat /\ n >= 1 /\ n >= prec /\ Powers(b)[n] > v
    /\ n > Larger(prec, 1) => Powers(b)[n - 1] <= v

LEMMA DigitCountIs ==
    ASSUME NEW b \in Bases, NEW v, Value(v), NEW prec \in Nat
    PROVE  Enough(DigitCount(v, b, prec), v, b, prec)
<1> DEFINE P == Powers(b)
           T == {n \in Nat : P[n] > v}
           most == DigitsSize - 1
           Is(n) == P[n] > v /\ (n = 0 \/ P[n - 1] <= v)
           d == CHOOSE n \in 0 .. DigitsSize : Is(n)
           least == IF v = 0 /\ prec = 0 THEN 1 ELSE prec
<1>1. b \in Nat \ {0} /\ b >= 2 /\ v \in Nat /\ most \in Nat /\ DigitsSize \in Nat /\ v < Powers(2)[most]
  BY FormatterAssumption DEF Bases, Value
<1>2. \A n \in Nat : P[n] \in Nat \ {0}
  BY <1>1, PowersOf
<1>3. P[most] > v
  <2>1. Powers(2)[most] <= P[most]
    BY <1>1, PowersLarger
  <2>2. Powers(2)[most] \in Nat
    BY <1>1, PowersOf
  <2> QED BY <1>1, <1>2, <2>1, <2>2
<1>4. PICK n \in T : \A j \in T : n <= j
  <2>1. T \subseteq Nat /\ T # {}
    BY <1>1, <1>3
  <2> HIDE DEF T
  <2> QED BY <2>1, LeastMember
<1>5. n \in 0 .. DigitsSize
  <2>1. most \in T
    BY <1>1, <1>3
  <2>2. n <= most
    BY <1>4, <2>1
  <2> QED BY <1>1, <1>4, <2>2
<1>6. Is(n)
  <2>1. CASE n = 0
    BY <1>4, <2>1
  <2>2. CASE n # 0
    <3>1. n - 1 \in Nat /\ ~(n <= n - 1)
      BY <1>4, <2>2
    <3>2. ~(P[n - 1] > v)
      BY <1>4, <3>1
    <3>3. P[n - 1] \in Nat
      BY <1>2, <3>1
    <3> QED BY <1>1, <1>4, <3>2, <3>3
  <2> QED BY <2>1, <2>2
<1> HIDE DEF Is
<1>7. d \in 0 .. DigitsSize /\ Is(d)
  BY <1>5, <1>6
<1>8. DigitCount(v, b, prec) = Larger(least, d)
  BY DEF DigitCount, Is
<1> DEFINE c == Larger(least, d)
<1>9. d \in Nat /\ P[d] > v /\ (d = 0 \/ P[d - 1] <= v)
  BY <1>1, <1>7 DEF Is
<1> HIDE DEF d
<1>10. least \in Nat /\ c \in Nat /\ c >= d /\ c >= prec /\ (c = d \/ c = least)
  BY <1>9 DEF Larger
<1>11. P[0] = 1
  BY <1>1, PowersOf
<1>12. c >= 1
  <2>1. CASE v = 0
    BY <2>1, <1>10 DEF Larger
  <2>2. CASE v # 0
    <3>1. d # 0
      BY <1>1, <1>9, <1>11, <2>2
    <3> QED BY <1>9, <1>10, <3>1
  <2> QED BY <2>1, <2>2
<1>13. P[c] > v
  <2>1. P[d] <= P[c]
    BY <1>1, <1>9, <1>10, PowersRise
  <2>2. P[d] \in Nat /\ P[c] \in Nat
    BY <1>2, <1>9, <1>10
  <2> QED BY <1>1, <1>9, <2>1, <2>2
<1>14. ASSUME c > Larger(prec, 1) PROVE P[c - 1] <= v
  <2>1. Larger(prec, 1) >= least
    BY DEF Larger
  <2>2. Larger(prec, 1) \in Nat /\ Larger(prec, 1) >= 1
    BY DEF Larger
  <2>3. c # least
    BY <1>14, <1>10, <2>1, <2>2
  <2>4. c = d /\ d # 0
    BY <1>10, <1>12, <2>3
  <2> QED BY <1>9, <2>4
<1> HIDE DEF c
<1>15. DigitCount(v, b, prec) = c
  BY <1>8 DEF c
<1> QED BY <1>10, <1>12, <1>13, <1>14, <1>15 DEF Enough

\* A precision in range and a value of any type take at most all of the array
\* but its last place.
LEMMA DigitsFit ==
    ASSUME NEW b \in Bases, NEW v, Value(v), NEW prec \in Nat, prec < DigitsSize
    PROVE  LET n == DigitCount(v, b, prec) IN n \in Nat /\ n <= DigitsSize - 1
<1> DEFINE n == DigitCount(v, b, prec)
           most == DigitsSize - 1
<1>1. Enough(n, v, b, prec)
  BY DigitCountIs
<1> HIDE DEF n
<1>2. b \in Nat \ {0} /\ b >= 2 /\ v \in Nat /\ most \in Nat /\ v < Powers(2)[most] /\ prec <= most
  BY FormatterAssumption DEF Bases, Value
<1> HIDE DEF most
<1>3. most >= 1
  <2>1. CASE most = 0
    <3>1. IntMod <= Powers(2)[most] /\ IntMod \in {2 * k : k \in 1 .. LongMod}
      BY FormatterAssumption, SizesAssumption DEF most
    <3>2. Powers(2)[0] = 1
      BY PowersOf
    <3> QED BY <2>1, <3>1, <3>2
  <2> QED BY <1>2, <2>1
<1>4. n \in Nat /\ n >= 1 /\ (n > Larger(prec, 1) => Powers(b)[n - 1] <= v)
  BY <1>1 DEF Enough
<1>5. ASSUME n > Larger(prec, 1) PROVE n <= most
  <2>1. n - 1 \in Nat
    BY <1>4
  <2>2. Powers(b)[n - 1] < Powers(b)[most]
    <3>1. Powers(2)[most] <= Powers(b)[most]
      BY <1>2, PowersLarger
    <3>2. Powers(2)[most] \in Nat /\ Powers(b)[most] \in Nat /\ Powers(b)[n - 1] \in Nat
      BY <1>2, <2>1, PowersOf
    <3> QED BY <1>2, <1>4, <1>5, <3>1, <3>2
  <2>3. CASE most <= n - 1
    <3>1. Powers(b)[most] <= Powers(b)[n - 1]
      BY <1>2, <2>1, <2>3, PowersRise
    <3>2. Powers(b)[most] \in Nat /\ Powers(b)[n - 1] \in Nat
      BY <1>2, <2>1, PowersOf
    <3> QED BY <2>2, <3>1, <3>2
  <2> QED BY <1>2, <1>4, <2>3
<1>6. ASSUME ~(n > Larger(prec, 1)) PROVE n <= most
  <2>1. Larger(prec, 1) <= most
    BY <1>2, <1>3 DEF Larger
  <2>2. Larger(prec, 1) \in Nat
    BY DEF Larger
  <2> QED BY <1>2, <1>4, <1>6, <2>1, <2>2
<1>7. n \in Nat /\ n <= most
  BY <1>4, <1>5, <1>6
<1> QED BY <1>7 DEF n, most

-----------------------------------------------------------------------------
(* What digits mean *)

\* The first k of the n digits of v.
Leading(v, b, n, k) == v \div Powers(b)[n - k]
OneDigit(v, b, n, k) == Leading(v, b, n, k) % b

LEMMA QuotientStep ==
    ASSUME NEW v \in Nat, NEW p \in Nat \ {0}, NEW b \in Nat \ {0}
    PROVE  v \div p = b * (v \div (b * p)) + ((v \div p) % b)
<1> DEFINE q == v \div p
           r == v % p
           q2 == q \div b
           r2 == q % b
<1>1. q \in Nat /\ r \in 0 .. p - 1 /\ v = q * p + r
  BY Division
<1>2. q2 \in Nat /\ r2 \in 0 .. b - 1 /\ q = q2 * b + r2
  BY <1>1, Division
<1> HIDE DEF q, r, q2, r2
<1> DEFINE s == r2 * p + r
<1>3. v = q2 * (b * p) + s
  <2>1. (q2 * b + r2) * p = (q2 * b) * p + r2 * p
    BY <1>2, Products
  <2>2. (q2 * b) * p = q2 * (b * p)
    BY <1>2, Products
  <2>3. q2 * (b * p) \in Int /\ r2 * p \in Int
    BY <1>2
  <2> QED BY <1>1, <1>2, <2>1, <2>2, <2>3
<1>4. b * p \in Nat \ {0}
  OBVIOUS
<1>5. s \in 0 .. b * p - 1
  <2>1. r2 * p <= (b - 1) * p /\ r2 * p \in Nat
    BY <1>2, ProductMonotonic
  <2>2. (b - 1) * p = b * p - p
    BY Products
  <2> QED BY <1>1, <1>4, <2>1, <2>2
<1>6. v \div (b * p) = q2
  BY <1>2, <1>3, <1>4, <1>5, OneQuotient
<1>7. q = b * q2 + r2
  BY <1>2, Products
<1> QED BY <1>6, <1>7 DEF q, q2, r2

LEMMA LeadingStep ==
    ASSUME NEW b \in Bases, NEW v \in Nat, NEW n \in Nat, Powers(b)[n] > v
    PROVE  /\ Leading(v, b, n, 0) = 0 /\ Leading(v, b, n, n) = v
           /\ \A k \in 1 .. n : Leading(v, b, n, k) = b * Leading(v, b, n, k - 1) + OneDigit(v, b, n, k)
           /\ \A k \in 0 .. n : Leading(v, b, n, k) \in Nat /\ Leading(v, b, n, k) <= v
           /\ \A k \in 1 .. n : OneDigit(v, b, n, k) \in 0 .. b - 1
<1>1. b \in Nat \ {0}
  BY DEF Bases
<1>2. \A k \in Nat : Powers(b)[k] \in Nat \ {0}
  BY <1>1, PowersOf
<1>3. Leading(v, b, n, 0) = 0
  <2>1. n - 0 = n
    OBVIOUS
  <2>2. \A p \in Nat \ {0} : p > v => v \div p = 0
    OBVIOUS
  <2> QED BY <1>2, <2>1, <2>2 DEF Leading
<1>4. Leading(v, b, n, n) = v
  <2>1. n - n = 0 /\ Powers(b)[0] = 1
    BY <1>1, PowersOf
  <2>2. v \div 1 = v
    OBVIOUS
  <2> QED BY <2>1, <2>2 DEF Leading
<1>5. ASSUME NEW k \in 0 .. n PROVE Leading(v, b, n, k) \in Nat /\ Leading(v, b, n, k) <= v
  <2>1. n - k \in Nat
    OBVIOUS
  <2>2. \A p \in Nat \ {0} : v \div p \in Nat /\ v \div p <= v
    OBVIOUS
  <2> QED BY <1>2, <2>1, <2>2 DEF Leading
<1>6. ASSUME NEW k \in 1 .. n
      PROVE  /\ Leading(v, b, n, k) = b * Leading(v, b, n, k - 1) + OneDigit(v, b, n, k)
             /\ OneDigit(v, b, n, k) \in 0 .. b - 1
  <2> DEFINE m == n - k
             p == Powers(b)[m]
  <2>1. m \in Nat /\ n - (k - 1) = m + 1
    OBVIOUS
  <2>2. p \in Nat \ {0}
    BY <1>2, <2>1
  <2>3. Powers(b)[m + 1] = b * p
    BY <1>1, <2>1, PowersOf
  <2>4. Leading(v, b, n, k) = v \div p /\ Leading(v, b, n, k - 1) = v \div (b * p)
    BY <2>1, <2>3 DEF Leading
  <2> HIDE DEF p, m
  <2>5. v \div p = b * (v \div (b * p)) + ((v \div p) % b)
    BY <1>1, <2>2, QuotientStep
  <2>6. (v \div p) % b \in 0 .. b - 1
    BY <1>1, <2>2, Division
  <2> QED BY <2>4, <2>5, <2>6 DEF OneDigit
<1> QED BY <1>3, <1>4, <1>5, <1>6

\* g is what the loop over the digits from i on has read, as Number defines it.
IsRead(g, f, i, m) ==
    g = [k \in 0 .. m |->
            IF k = 0 THEN 0 ELSE (10 * g[k - 1] + DigitValue(At(f, i + k - 1))) % IntMod]

LEMMA IntModFacts == IntMod \in Nat \ {0} /\ MaxFormat \in Nat /\ MaxFormat < IntMod
BY FormatterAssumption, SizesAssumption

\* The n digits of v stand from i on.
DigitsAt(f, i, n, v) ==
    \A k \in 1 .. n : DigitValue(At(f, i + k - 1)) = OneDigit(v, 10, n, k)

\* Reading the n digits of v makes v, without wrapping.
LEMMA NumberIs ==
    ASSUME NEW f, NEW i \in Int, NEW n \in Nat, NEW v \in Nat, v < IntMod, Powers(10)[n] > v,
           DigitsAt(f, i, n, v)
    PROVE  Number(f, i, i + n) = v
<1> DEFINE w == [k \in 0 .. n |-> Leading(v, 10, n, k)]
<1>1. /\ Leading(v, 10, n, 0) = 0 /\ Leading(v, 10, n, n) = v
      /\ \A k \in 1 .. n : Leading(v, 10, n, k) = 10 * Leading(v, 10, n, k - 1) + OneDigit(v, 10, n, k)
      /\ \A k \in 0 .. n : Leading(v, 10, n, k) \in Nat /\ Leading(v, 10, n, k) <= v
      /\ \A k \in 1 .. n : OneDigit(v, 10, n, k) \in 0 .. 10 - 1
  <2>1. 10 \in Bases
    BY DEF Bases
  <2> QED BY <2>1, LeadingStep
<1>2. ASSUME NEW k \in 0 .. n, k # 0
      PROVE  w[k] = (10 * Leading(v, 10, n, k - 1) + DigitValue(At(f, i + k - 1))) % IntMod
  <2>1. k \in 1 .. n
    BY <1>2
  <2>2. w[k] = Leading(v, 10, n, k) /\ DigitValue(At(f, i + k - 1)) = OneDigit(v, 10, n, k)
    BY <2>1 DEF DigitsAt
  <2>3. Leading(v, 10, n, k) \in 0 .. IntMod - 1
    BY <1>1, IntModFacts
  <2>4. Leading(v, 10, n, k) % IntMod = Leading(v, 10, n, k)
    BY <2>3, IntModFacts, SmallRest
  <2> QED BY <1>1, <2>1, <2>2, <2>4
<1>3. IsRead(w, f, i, n)
  <2>1. \A k \in 0 .. n : k # 0 => w[k - 1] = Leading(v, 10, n, k - 1)
    OBVIOUS
  <2>2. \A k \in 0 .. n : w[k] = IF k = 0 THEN 0 ELSE (10 * w[k - 1] + DigitValue(At(f, i + k - 1))) % IntMod
    BY <1>1, <1>2, <2>1
  <2>3. w = [k \in 0 .. n |-> IF k = 0 THEN 0 ELSE (10 * w[k - 1] + DigitValue(At(f, i + k - 1))) % IntMod]
    BY <2>2
  <2> QED BY <2>3 DEF IsRead
<1>4. \A g : IsRead(g, f, i, n) => g[n] = v
  <2> SUFFICES ASSUME NEW g, IsRead(g, f, i, n) PROVE g[n] = v
    OBVIOUS
  <2>1. \A k \in 0 .. n : g[k] = IF k = 0 THEN 0 ELSE (10 * g[k - 1] + DigitValue(At(f, i + k - 1))) % IntMod
    BY Zenon DEF IsRead
  <2> DEFINE T == {k \in 0 .. n : g[k] # Leading(v, 10, n, k)}
  <2>2. ASSUME T # {} PROVE FALSE
    <3>1. PICK k \in T : \A j \in T : k <= j
      <4>1. T \subseteq Nat
        OBVIOUS
      <4> HIDE DEF T
      <4> QED BY <2>2, <4>1, LeastMember
    <3>2. k \in 0 .. n /\ k # 0
      BY <1>1, <2>1, <3>1
    <3>3. k - 1 \in 0 .. n /\ ~(k <= k - 1)
      BY <3>2
    <3>4. g[k - 1] = Leading(v, 10, n, k - 1)
      BY <3>1, <3>3
    <3>5. g[k] = (10 * Leading(v, 10, n, k - 1) + DigitValue(At(f, i + k - 1))) % IntMod
      BY <2>1, <3>2, <3>4
    <3>6. g[k] = w[k] /\ w[k] = Leading(v, 10, n, k)
      BY <1>2, <3>2, <3>5
    <3> QED BY <3>1, <3>6
  <2>3. g[n] = Leading(v, 10, n, n)
    BY <2>2
  <2> QED BY <1>1, <2>3
<1> DEFINE number == CHOOSE g : IsRead(g, f, i, n)
<1>5. number[n] = v
  <2> HIDE DEF w
  <2> QED BY <1>3, <1>4
<1>6. (i + n) - i = n
  OBVIOUS
<1>7. Number(f, i, i + n) = number[n]
  BY <1>6 DEF Number, IsRead
<1> QED BY <1>5, <1>7

\* g is what a reader makes of the digits, as ValueOf defines it.
IsValue(g, digits, b) ==
    g = [k \in 0 .. Len(digits) |-> IF k = 0 THEN 0 ELSE b * g[k - 1] + Meaning(digits[k], b)]

LEMMA ValueOfIs ==
    ASSUME NEW digits, NEW b \in Bases, NEW v \in Nat, Len(digits) \in Nat, Powers(b)[Len(digits)] > v,
           \A k \in 1 .. Len(digits) : Meaning(digits[k], b) = OneDigit(v, b, Len(digits), k)
    PROVE  ValueOf(digits, b) = v
<1> DEFINE n == Len(digits)
           w == [k \in 0 .. n |-> Leading(v, b, n, k)]
<1>1. /\ Leading(v, b, n, 0) = 0 /\ Leading(v, b, n, n) = v
      /\ \A k \in 1 .. n : Leading(v, b, n, k) = b * Leading(v, b, n, k - 1) + OneDigit(v, b, n, k)
  BY LeadingStep
<1>2. \A k \in 1 .. n : Meaning(digits[k], b) = OneDigit(v, b, n, k)
  OBVIOUS
<1>3. n \in Nat
  OBVIOUS
<1> HIDE DEF n
<1>4. \A k \in 0 .. n : w[k] = IF k = 0 THEN 0 ELSE b * w[k - 1] + Meaning(digits[k], b)
  <2>1. \A k \in 0 .. n : k # 0 => k \in 1 .. n /\ w[k - 1] = Leading(v, b, n, k - 1)
    BY <1>3
  <2> QED BY <1>1, <1>2, <2>1
<1>5. IsValue(w, digits, b)
  <2>1. w = [k \in 0 .. n |-> IF k = 0 THEN 0 ELSE b * w[k - 1] + Meaning(digits[k], b)]
    BY <1>4
  <2> QED BY <2>1 DEF IsValue, n
<1>6. \A g : IsValue(g, digits, b) => g[n] = v
  <2> SUFFICES ASSUME NEW g, IsValue(g, digits, b) PROVE g[n] = v
    OBVIOUS
  <2>1. \A k \in 0 .. n : g[k] = IF k = 0 THEN 0 ELSE b * g[k - 1] + Meaning(digits[k], b)
    BY Zenon DEF IsValue, n
  <2> DEFINE T == {k \in 0 .. n : g[k] # Leading(v, b, n, k)}
  <2>2. ASSUME T # {} PROVE FALSE
    <3>1. PICK k \in T : \A j \in T : k <= j
      <4>1. T \subseteq Nat
        BY <1>3
      <4> HIDE DEF T
      <4> QED BY <2>2, <4>1, LeastMember
    <3>2. k \in 0 .. n /\ k # 0
      BY <1>1, <2>1, <3>1
    <3>3. k - 1 \in 0 .. n /\ ~(k <= k - 1) /\ k \in 1 .. n
      BY <1>3, <3>2
    <3>4. g[k - 1] = Leading(v, b, n, k - 1)
      BY <3>1, <3>3
    <3>5. g[k] = b * Leading(v, b, n, k - 1) + Meaning(digits[k], b)
      BY <2>1, <3>2, <3>4
    <3>6. g[k] = Leading(v, b, n, k)
      BY <1>1, <1>2, <3>3, <3>5
    <3> QED BY <3>1, <3>6
  <2>3. g[n] = Leading(v, b, n, n)
    BY <1>3, <2>2
  <2> QED BY <1>1, <2>3
<1> DEFINE value == CHOOSE g : IsValue(g, digits, b)
<1>7. value[n] = v
  <2> HIDE DEF w
  <2> QED BY <1>5, <1>6
<1>8. ValueOf(digits, b) = value[n]
  BY DEF ValueOf, IsValue, n
<1> QED BY <1>7, <1>8

-----------------------------------------------------------------------------
(* The characters of digits *)

\* What each of them stands for.
Rank(c) ==
    CASE c = "0" -> 0 [] c = "1" -> 1 [] c = "2" -> 2 [] c = "3" -> 3 [] c = "4" -> 4
      [] c = "5" -> 5 [] c = "6" -> 6 [] c = "7" -> 7 [] c = "8" -> 8 [] c = "9" -> 9
      [] c = "a" -> 10 [] c = "A" -> 10 [] c = "b" -> 11 [] c = "B" -> 11
      [] c = "c" -> 12 [] c = "C" -> 12 [] c = "d" -> 13 [] c = "D" -> 13
      [] c = "e" -> 14 [] c = "E" -> 14 [] c = "f" -> 15 [] c = "F" -> 15

LEMMA SixteenDigits ==
    \A i \in 1 .. 16 :
        \/ i = 1 \/ i = 2 \/ i = 3 \/ i = 4 \/ i = 5 \/ i = 6 \/ i = 7 \/ i = 8
        \/ i = 9 \/ i = 10 \/ i = 11 \/ i = 12 \/ i = 13 \/ i = 14 \/ i = 15 \/ i = 16
OBVIOUS

LEMMA Ranks ==
    /\ \A i \in 1 .. 16 : Rank(HexLower[i]) = i - 1
    /\ \A i \in 1 .. 16 : Rank(HexUpper[i]) = i - 1
<1>1. \A i \in 1 .. 16 : Rank(HexLower[i]) = i - 1
  BY SixteenDigits DEF Rank, HexLower
<1>2. \A i \in 1 .. 16 : Rank(HexUpper[i]) = i - 1
  BY SixteenDigits DEF Rank, HexUpper
<1> QED BY <1>1, <1>2

\* The digits of each of the two sets.
Names == {HexLower, HexUpper}

LEMMA MeaningIs ==
    ASSUME NEW b \in Bases, NEW d \in 0 .. b - 1, NEW names \in Names
    PROVE  Meaning(names[1 + d], b) = d
<1> DEFINE c == names[1 + d]
<1>1. b \in Nat /\ b <= 16
  BY DEF Bases
<1>2. d + 1 \in 1 .. 16 /\ 1 + d = d + 1
  BY <1>1
<1>3. c \in {HexLower[d + 1], HexUpper[d + 1]}
  BY <1>2 DEF Names
<1>4. Rank(c) = d
  <2>1. Rank(HexLower[d + 1]) = (d + 1) - 1 /\ Rank(HexUpper[d + 1]) = (d + 1) - 1
    BY <1>2, Ranks
  <2> HIDE DEF c
  <2> QED BY <1>3, <2>1
<1>5. ASSUME NEW e \in 0 .. b - 1, c \in {HexLower[e + 1], HexUpper[e + 1]} PROVE e = d
  <2>1. e + 1 \in 1 .. 16
    BY <1>1
  <2>2. Rank(HexLower[e + 1]) = (e + 1) - 1 /\ Rank(HexUpper[e + 1]) = (e + 1) - 1
    BY <2>1, Ranks
  <2> HIDE DEF c
  <2>3. Rank(c) = (e + 1) - 1
    BY <1>5, <2>2
  <2> QED BY <1>4, <2>3
<1> HIDE DEF c
<1>6. Meaning(c, b) = d
  BY <1>3, <1>5 DEF Meaning
<1> QED BY <1>6 DEF c

LEMMA DigitValueIs ==
    ASSUME NEW d \in 0 .. 9
    PROVE  DigitValue(HexLower[1 + d]) = d
<1> DEFINE c == HexLower[1 + d]
<1>1. d + 1 \in 1 .. 16 /\ 1 + d = d + 1
  OBVIOUS
<1>2. Rank(c) = (d + 1) - 1 /\ c = HexLower[d + 1]
  BY <1>1, Ranks
<1>3. ASSUME NEW e \in 0 .. 9, c = HexLower[e + 1] PROVE e = d
  <2>1. e + 1 \in 1 .. 16
    OBVIOUS
  <2>2. Rank(HexLower[e + 1]) = (e + 1) - 1
    BY <2>1, Ranks
  <2> HIDE DEF c
  <2> QED BY <1>2, <1>3, <2>2
<1> HIDE DEF c
<1>4. DigitValue(c) = d
  BY <1>2, <1>3 DEF DigitValue
<1> QED BY <1>4 DEF c

LEMMA DigitsAre ==
    ASSUME NEW b \in Bases, NEW v, Value(v), NEW prec \in Nat, NEW names \in Names
    PROVE  LET s == Digits(v, b, prec, names)
               n == DigitCount(v, b, prec)
           IN  /\ IsText(s) /\ Len(s) = n
               /\ \A k \in 1 .. n : s[k] = names[1 + OneDigit(v, b, n, k)]
               /\ \A k \in 1 .. n : OneDigit(v, b, n, k) \in 0 .. b - 1
               /\ Enough(n, v, b, prec)
<1> DEFINE n == DigitCount(v, b, prec)
           s == Digits(v, b, prec, names)
<1>1. Enough(n, v, b, prec)
  BY DigitCountIs
<1>2. n \in Nat /\ Powers(b)[n] > v /\ v \in Nat
  BY <1>1 DEF Enough, Value
<1>3. s = [k \in 1 .. n |-> names[1 + OneDigit(v, b, n, k)]]
  BY DEF Digits, OneDigit, Leading
<1> HIDE DEF n, s
<1>4. \A k \in 1 .. n : s[k] = names[1 + OneDigit(v, b, n, k)]
  BY <1>3
<1>5. s \in Seq({names[1 + OneDigit(v, b, n, k)] : k \in 1 .. n}) /\ Len(s) = n
  BY <1>2, <1>3
<1>6. IsText(s)
  BY <1>5, TextOf
<1>7. \A k \in 1 .. n : OneDigit(v, b, n, k) \in 0 .. b - 1
  BY <1>2, LeadingStep
<1> QED BY <1>1, <1>4, <1>5, <1>6, <1>7 DEF n, s

\* A digit is one of the characters for digits, and "0" only where it is 0.
LEMMA OneDigitIs ==
    ASSUME NEW b \in Bases, NEW d \in 0 .. b - 1, NEW names \in Names
    PROVE  /\ names[1 + d] \in ToSet(HexLower) \cup ToSet(HexUpper)
           /\ d # 0 => names[1 + d] # "0"
<1>1. d + 1 \in 1 .. 16 /\ 1 + d = d + 1
  BY DEF Bases
<1>2. DOMAIN HexLower = 1 .. 16 /\ DOMAIN HexUpper = 1 .. 16
  BY DEF HexLower, HexUpper
<1>3. HexLower[d + 1] \in ToSet(HexLower) /\ HexUpper[d + 1] \in ToSet(HexUpper)
  BY <1>1, <1>2 DEF ToSet
<1>4. Rank(names[1 + d]) = d
  <2>1. Rank(HexLower[d + 1]) = (d + 1) - 1 /\ Rank(HexUpper[d + 1]) = (d + 1) - 1
    BY <1>1, Ranks
  <2> QED BY <1>1, <2>1 DEF Names
<1>5. Rank("0") = 0
  BY DEF Rank
<1>6. names[1 + d] \in ToSet(HexLower) \cup ToSet(HexUpper)
  BY <1>1, <1>3 DEF Names
<1> QED BY <1>4, <1>5, <1>6

\* The first of as few digits as possible is not 0.
LEMMA FirstDigit ==
    ASSUME NEW b \in Bases, NEW v \in Nat, NEW n \in Nat \ {0}, Powers(b)[n] > v, Powers(b)[n - 1] <= v
    PROVE  OneDigit(v, b, n, 1) # 0
<1> DEFINE p == Powers(b)[n - 1]
<1>1. p <= v /\ n - 1 \in Nat /\ 1 \in 1 .. n
  OBVIOUS
<1>2. b \in Nat \ {0} /\ p \in Nat \ {0}
  <2>1. b \in Nat \ {0}
    BY DEF Bases
  <2> QED BY <1>1, <2>1, PowersOf
<1>3. Leading(v, b, n, 0) = 0 /\ Leading(v, b, n, 1) = b * Leading(v, b, n, 1 - 1) + OneDigit(v, b, n, 1)
  BY <1>1, LeadingStep
<1>4. Leading(v, b, n, 1) = v \div p
  BY DEF Leading
<1>5. OneDigit(v, b, n, 1) \in 0 .. b - 1
  BY <1>1, LeadingStep
<1>6. v \div p # 0
  <2>1. v = (v \div p) * p + (v % p) /\ v % p \in 0 .. p - 1
    BY <1>2, Division
  <2> HIDE DEF p
  <2>2. v \div p = 0 => v = v % p
    BY <1>2, <2>1
  <2> QED BY <1>1, <1>2, <2>1, <2>2
<1> QED BY <1>2, <1>3, <1>4, <1>5, <1>6

\* What is written of a value reads back as the value, with no superfluous zero.
ReadsBack(s, v, b, prec) ==
    /\ IsText(s) /\ Len(s) \in Nat
    /\ Len(s) >= Larger(prec, 1)
    /\ Len(s) > Larger(prec, 1) => s[1] # "0"
    /\ \A i \in 1 .. Len(s) : s[i] \in ToSet(HexLower) \cup ToSet(HexUpper)
    /\ ValueOf(s, b) = v

LEMMA DigitsReadBack ==
    ASSUME NEW b \in Bases, NEW v, Value(v), NEW prec \in Nat, NEW names \in Names
    PROVE  ReadsBack(Digits(v, b, prec, names), v, b, prec)
<1> DEFINE n == DigitCount(v, b, prec)
           s == Digits(v, b, prec, names)
<1>1. /\ IsText(s) /\ Len(s) = n
      /\ \A k \in 1 .. n : s[k] = names[1 + OneDigit(v, b, n, k)]
      /\ \A k \in 1 .. n : OneDigit(v, b, n, k) \in 0 .. b - 1
      /\ Enough(n, v, b, prec)
  BY DigitsAre
<1> HIDE DEF n, s
<1>2. n \in Nat /\ n >= 1 /\ n >= prec /\ Powers(b)[n] > v /\ v \in Nat
  BY <1>1 DEF Enough, Value
<1>3. n >= Larger(prec, 1)
  BY <1>2 DEF Larger
<1>4. \A k \in 1 .. n : s[k] \in ToSet(HexLower) \cup ToSet(HexUpper)
  BY <1>1, OneDigitIs
<1>5. ValueOf(s, b) = v
  <2>1. \A k \in 1 .. n : Meaning(s[k], b) = OneDigit(v, b, n, k)
    BY <1>1, MeaningIs
  <2> QED BY <1>1, <1>2, <2>1, ValueOfIs
<1>6. ASSUME n > Larger(prec, 1) PROVE s[1] # "0"
  <2>1. Powers(b)[n - 1] <= v /\ 1 \in 1 .. n /\ n \in Nat \ {0}
    BY <1>1, <1>2, <1>6 DEF Enough
  <2>2. OneDigit(v, b, n, 1) # 0
    BY <1>2, <2>1, FirstDigit
  <2>3. names[1 + OneDigit(v, b, n, 1)] # "0"
    BY <1>1, <2>1, <2>2, OneDigitIs
  <2> QED BY <1>1, <2>1, <2>3
<1>7. ReadsBack(s, v, b, prec)
  BY <1>1, <1>2, <1>3, <1>4, <1>5, <1>6 DEF ReadsBack
<1> QED BY <1>7 DEF s

-----------------------------------------------------------------------------
(* Texts put together *)

LEMMA Concatenated ==
    ASSUME NEW s, IsText(s), NEW t, IsText(t)
    PROVE  /\ IsText(s \o t) /\ Len(s \o t) = Len(s) + Len(t)
           /\ \A i \in 1 .. Len(s) : (s \o t)[i] = s[i]
           /\ \A i \in 1 .. Len(t) : (s \o t)[Len(s) + i] = t[i]
<1> DEFINE S == ToSet(s) \cup ToSet(t)
<1>1. s \in Seq(S) /\ t \in Seq(S)
  BY SeqMonotonic DEF IsText
<1> HIDE DEF S
<1>2. /\ s \o t \in Seq(S) /\ Len(s \o t) = Len(s) + Len(t) /\ Len(s) \in Nat /\ Len(t) \in Nat
      /\ \A i \in 1 .. Len(s) + Len(t) : (s \o t)[i] = IF i <= Len(s) THEN s[i] ELSE t[i - Len(s)]
  BY <1>1, ConcatProperties, LenProperties
<1>3. \A i \in 1 .. Len(s) : (s \o t)[i] = s[i]
  BY <1>2
<1>4. ASSUME NEW i \in 1 .. Len(t) PROVE (s \o t)[Len(s) + i] = t[i]
  <2>1. Len(s) + i \in 1 .. Len(s) + Len(t) /\ ~(Len(s) + i <= Len(s)) /\ (Len(s) + i) - Len(s) = i
    BY <1>2
  <2> QED BY <1>2, <2>1
<1> QED BY <1>2, <1>3, <1>4, TextOf

\* The text from the (k+1)-st character of s on, as long as t, is t.
\* The text t stands in s behind k characters.
PartAt(s, k, t) == \A i \in 1 .. Len(t) : s[k + i] = t[i]

LEMMA PartIs ==
    ASSUME NEW s, IsText(s), NEW t, IsText(t), NEW k \in Nat, PartAt(s, k, t)
    PROVE  SubSeq(s, k + 1, k + Len(t)) = t
<1>0. \A i \in 1 .. Len(t) : s[k + i] = t[i]
  BY DEF PartAt
<1>1. Len(t) \in Nat /\ t \in Seq(ToSet(t))
  BY TextFacts DEF IsText
<1> DEFINE u == SubSeq(s, k + 1, k + Len(t))
<1>2. \A i \in 1 .. Len(t) : t[i] \in ToSet(t)
  BY <1>1, TextFacts DEF ToSet
<1>3. ASSUME NEW i \in k + 1 .. k + Len(t) PROVE s[i] \in ToSet(t)
  <2>1. i - k \in 1 .. Len(t) /\ k + (i - k) = i
    BY <1>1
  <2> QED BY <1>0, <1>2, <2>1
<1> DEFINE m == k + 1
           n == k + Len(t)
<1>4. /\ u \in Seq(ToSet(t))
      /\ Len(u) = IF m <= n THEN n - m + 1 ELSE 0
      /\ \A i \in 1 .. n - m + 1 : u[i] = s[m + i - 1]
  <2>1. m \in Int /\ n \in Int
    BY <1>1
  <2> HIDE DEF m, n
  <2>2. \A i \in m .. n : s[i] \in ToSet(t)
    BY <1>3 DEF m, n
  <2> QED BY <2>1, <2>2, SubSeqProperties DEF m, n
<1>5. Len(u) = Len(t) /\ n - m + 1 = Len(t)
  BY <1>1, <1>4
<1>6. ASSUME NEW i \in 1 .. Len(t) PROVE u[i] = t[i]
  <2>1. m + i - 1 = k + i
    BY <1>1
  <2> QED BY <1>0, <1>4, <1>5, <2>1
<1> HIDE DEF u
<1>7. u = t
  BY <1>1, <1>4, <1>5, <1>6, SeqEqual
<1> QED BY <1>7 DEF u

LEMMA PartsOf ==
    ASSUME NEW s, IsText(s), NEW t, IsText(t)
    PROVE  /\ SubSeq(s \o t, 1, Len(s)) = s
           /\ SubSeq(s \o t, Len(s) + 1, Len(s) + Len(t)) = t
<1> DEFINE u == s \o t
           k == Len(s)
<1>1. /\ IsText(u) /\ k \in Nat
      /\ \A i \in 1 .. Len(s) : u[i] = s[i]
      /\ PartAt(u, k, t)
  BY Concatenated, TextFacts DEF PartAt
<1>2. PartAt(u, 0, s)
  BY <1>1 DEF PartAt
<1>3. 0 + 1 = 1 /\ 0 + Len(s) = Len(s)
  BY <1>1
<1> HIDE DEF u, k
<1>4. SubSeq(u, k + 1, k + Len(t)) = t
  BY <1>1, PartIs
<1>5. SubSeq(u, 0 + 1, 0 + Len(s)) = s
  BY <1>1, <1>2, PartIs
<1> QED BY <1>3, <1>4, <1>5 DEF u, k

LEMMA RepeatIs ==
    ASSUME NEW c, NEW n \in Nat
    PROVE  IsText(Repeat(c, n)) /\ Len(Repeat(c, n)) = n /\ ToSet(Repeat(c, n)) \subseteq {c}
<1>1. Repeat(c, n) \in Seq({c}) /\ Len(Repeat(c, n)) = n
  BY DEF Repeat
<1>2. ToSet(Repeat(c, n)) \subseteq {c}
  BY DEF Repeat, ToSet
<1> QED BY <1>1, <1>2, TextOf

-----------------------------------------------------------------------------
(* What a directive writes is the field asked for *)

LEMMA PaddedIs ==
    ASSUME NEW text, IsText(text), NEW w \in Nat, NEW flags
    PROVE  LET t == Padded(text, w, flags)
               k == Len(text)
           IN  /\ IsText(t) /\ Len(t) = Larger(k, w) /\ Len(t) \in Nat /\ k \in 0 .. Len(t)
               /\ IF "-" \in flags
                  THEN SubSeq(t, 1, k) = text /\ ToSet(SubSeq(t, k + 1, Len(t))) \subseteq {" "}
                  ELSE /\ SubSeq(t, Len(t) - k + 1, Len(t)) = text
                       /\ ToSet(SubSeq(t, 1, Len(t) - k)) \subseteq {IF "0" \in flags THEN "0" ELSE " "}
<1> DEFINE t == Padded(text, w, flags)
           k == Len(text)
           missing == Larger(0, w - k)
           c == IF "-" \in flags THEN " " ELSE IF "0" \in flags THEN "0" ELSE " "
           pad == Repeat(c, missing)
<1>1. k \in Nat
  BY TextFacts
<1>2. missing \in Nat /\ k + missing = Larger(k, w)
  BY <1>1 DEF Larger
<1>3. IsText(pad) /\ Len(pad) = missing /\ ToSet(pad) \subseteq {c}
  BY <1>2, RepeatIs
<1>4. t = IF "-" \in flags THEN text \o pad ELSE pad \o text
  BY DEF Padded
<1> HIDE DEF t, pad, missing, k
<1>5. CASE "-" \in flags
  <2>1. t = text \o pad
    BY <1>4, <1>5
  <2>2. IsText(t) /\ Len(t) = k + missing
    BY <1>3, <2>1, Concatenated DEF k
  <2>3. SubSeq(t, 1, k) = text /\ SubSeq(t, k + 1, k + missing) = pad
    BY <1>3, <2>1, PartsOf DEF k
  <2>4. Len(t) \in Nat /\ k \in 0 .. Len(t)
    BY <1>1, <1>2, <2>2
  <2> QED BY <1>2, <1>3, <1>5, <2>2, <2>3, <2>4 DEF t, k
<1>6. CASE "-" \notin flags
  <2>1. t = pad \o text
    BY <1>4, <1>6
  <2>2. IsText(t) /\ Len(t) = missing + k
    BY <1>3, <2>1, Concatenated DEF k
  <2>3. SubSeq(t, 1, missing) = pad /\ SubSeq(t, missing + 1, missing + k) = text
    BY <1>3, <2>1, PartsOf DEF k
  <2>4. Len(t) \in Nat /\ k \in 0 .. Len(t) /\ Len(t) - k = missing /\ missing + k = k + missing
    BY <1>1, <1>2, <2>2
  <2>5. SubSeq(t, Len(t) - k + 1, Len(t)) = text /\ SubSeq(t, 1, Len(t) - k) = pad
    BY <2>2, <2>3, <2>4
  <2> QED BY <1>2, <1>3, <1>6, <2>2, <2>4, <2>5 DEF t, k
<1> QED BY <1>5, <1>6

\* The flags of the directive that asks for a, and its width.
FlagsOf(a) == PointerFlags(a.conv, ToSet(a.flags))
WidthOf(a) == Larger(a.width, 0)

LEMMA FieldOfValue ==
    ASSUME NEW a, IsAsk(a), a.conv # "c", NEW text, IsText(text), ValueOk(a, text)
    PROVE  /\ IsText(Padded(text, WidthOf(a), FlagsOf(a)))
           /\ FieldOk(a, Padded(text, WidthOf(a), FlagsOf(a)))
<1> DEFINE w == WidthOf(a)
           flags == FlagsOf(a)
           t == Padded(text, w, flags)
           k == Len(text)
<1>1. a.width \in Int /\ w \in Nat
  BY DEF IsAsk, WidthOf, Larger
<1>2. /\ "-" \in flags <=> "-" \in ToSet(a.flags)
      /\ "0" \in flags <=> "0" \in ToSet(a.flags) \/ a.conv = "p"
  BY DEF FlagsOf, PointerFlags
<1>3. k \in Nat /\ Larger(k, w) = Larger(k, a.width)
  <2>1. k \in Nat
    BY TextFacts
  <2> HIDE DEF k
  <2> QED BY <1>1, <2>1 DEF Larger, WidthOf
<1> HIDE DEF w, flags
<1>4. /\ IsText(t) /\ Len(t) = Larger(k, w) /\ k \in 0 .. Len(t)
      /\ IF "-" \in flags
         THEN SubSeq(t, 1, k) = text /\ ToSet(SubSeq(t, k + 1, Len(t))) \subseteq {" "}
         ELSE /\ SubSeq(t, Len(t) - k + 1, Len(t)) = text
              /\ ToSet(SubSeq(t, 1, Len(t) - k)) \subseteq {IF "0" \in flags THEN "0" ELSE " "}
  BY <1>1, PaddedIs
<1> HIDE DEF t, k
<1>5. IF "-" \in ToSet(a.flags)
      THEN ValueOk(a, SubSeq(t, 1, k)) /\ PadOk(a, SubSeq(t, k + 1, Len(t)))
      ELSE ValueOk(a, SubSeq(t, Len(t) - k + 1, Len(t))) /\ PadOk(a, SubSeq(t, 1, Len(t) - k))
  <2>1. CASE "-" \in flags
    <3>1. PadOk(a, SubSeq(t, k + 1, Len(t)))
      BY <1>2, <1>4, <2>1 DEF PadOk
    <3> QED BY <1>2, <1>4, <2>1, <3>1
  <2>2. CASE "-" \notin flags
    <3>1. PadOk(a, SubSeq(t, 1, Len(t) - k))
      BY <1>2, <1>4, <2>2 DEF PadOk
    <3> QED BY <1>2, <1>4, <2>2, <3>1
  <2> QED BY <2>1, <2>2
<1>6. FieldOk(a, t)
  BY <1>3, <1>4, <1>5 DEF FieldOk
<1> QED BY <1>4, <1>6 DEF t, w, flags

LEMMA TypeIs ==
    ASSUME NEW a
    PROVE  /\ TypeOf(a) \in {CharMod, ShortMod, IntMod, LongMod}
           /\ TypeOf(a) \div 2 \in Nat \ {0} /\ TypeOf(a) = 2 * (TypeOf(a) \div 2)
           /\ \A v \in Nat : v < TypeOf(a) => Value(v)
<1>1. TypeOf(a) \in {CharMod, ShortMod, IntMod, LongMod}
  BY DEF TypeOf
<1>2. PICK n \in 1 .. LongMod : TypeOf(a) = 2 * n
  BY <1>1, FormatterAssumption
<1>3. TypeOf(a) \div 2 = n
  <2>1. (2 * n) \div 2 = n
    OBVIOUS
  <2> QED BY <1>2, <2>1
<1>4. \A v \in Nat : v < TypeOf(a) => Value(v)
  <2>1. DigitsSize - 1 \in Nat
    BY FormatterAssumption
  <2>2. Powers(2)[DigitsSize - 1] \in Nat
    <3>1. \A k \in Nat : Powers(2)[k] \in Nat \ {0}
      BY PowersOf
    <3> QED BY <2>1, <3>1
  <2>3. TypeOf(a) <= Powers(2)[DigitsSize - 1]
    BY <1>1, SizesAssumption
  <2>4. TypeOf(a) \in Nat
    BY <1>2
  <2> QED BY <2>2, <2>3, <2>4 DEF Value
<1> QED BY <1>1, <1>2, <1>3, <1>4

\* The length modifiers without a plus are those of the smaller types.
LEMMA PlusByType ==
    ASSUME NEW a, IsAsk(a), a.conv = "d"
    PROVE  PlusLost(a) <=> TypeOf(a) \notin {IntMod, LongMod}
<1>1. a.mod \in Modifiers
  BY DEF IsAsk
<1>2. <<"h", "h">> # <<"h">>
  <2>1. Len(<<"h", "h">>) = 2 /\ Len(<<"h">>) = 1
    OBVIOUS
  <2> QED BY <2>1
<1>3. CharMod \notin {IntMod, LongMod} /\ ShortMod \notin {IntMod, LongMod}
  BY FormatterAssumption
<1>4. CASE PlusLost(a)
  BY <1>2, <1>3, <1>4 DEF PlusLost, TypeOf
<1>5. CASE ~PlusLost(a)
  BY <1>5 DEF PlusLost, TypeOf
<1> QED BY <1>4, <1>5

\* An argument, its magnitude and its sign.
LEMMA MagnitudeIs ==
    ASSUME NEW a, IsAsk(a), a.conv \in NumberConversions, NEW flags,
           a.conv = "d" => flags = ToSet(a.flags)
    PROVE  LET m == TypeOf(a)
               v == a.value % m
               s == Sign(v, m, a.conv, flags)
           IN  /\ Magnitude(v, m, a.conv) = IF a.value < 0 THEN -a.value ELSE a.value
               /\ Value(Magnitude(v, m, a.conv))
               /\ IsText(s) /\ SignOk(a, s) /\ Len(s) \in {0, 1}
<1> DEFINE m == TypeOf(a)
           h == m \div 2
           v == a.value % m
           c == a.conv
           s == Sign(v, m, c, flags)
<1>1. h \in Nat \ {0} /\ m = 2 * h /\ \A x \in Nat : x < m => Value(x)
  BY TypeIs
<1>2. c = "d" => a.value \in -h .. h - 1
  BY DEF IsAsk
<1>3. c # "d" => a.value \in 0 .. m - 1
  BY DEF IsAsk
<1> HIDE DEF m, h
<1>4. \A x \in 0 .. m - 1 : x % m = x
  BY <1>1, SmallRest
<1>5. CASE c # "d"
  <2>1. v = a.value /\ a.value \in Nat /\ a.value < m
    <3>1. a.value \in 0 .. m - 1
      BY <1>3, <1>5
    <3>2. a.value % m = a.value
      BY <1>4, <3>1
    <3> QED BY <1>1, <3>1, <3>2
  <2>2. Magnitude(v, m, c) = a.value
    BY <1>5, <2>1 DEF Magnitude
  <2>3. s = <<>>
    BY <1>5 DEF Sign
  <2>4. SignOk(a, s)
    BY <1>5, <2>3 DEF SignOk, WantedSign
  <2> HIDE DEF v, s
  <2> QED BY <1>1, <2>1, <2>2, <2>3, <2>4, NoCharacters DEF v, m, s
<1>6. CASE c = "d"
  <2>1. Signed(v, m) = a.value
    <3>1. CASE a.value < 0
      <4>1. a.value + m \in 0 .. m - 1 /\ a.value + m >= h
        BY <1>1, <1>2, <1>6, <3>1
      <4>2. a.value % m = a.value + m
        <5>1. a.value = (-1) * m + (a.value + m)
          BY <1>1, <1>2, <1>6
        <5>2. m \in Nat \ {0}
          BY <1>1
        <5> DEFINE r == a.value + m
        <5>3. r \in 0 .. m - 1 /\ a.value = (-1) * m + r
          BY <4>1, <5>1
        <5> HIDE DEF r
        <5>4. ((-1) * m + r) % m = r
          BY <5>2, <5>3, OneQuotient
        <5> QED BY <5>3, <5>4 DEF r
      <4> QED BY <1>1, <1>2, <1>6, <4>1, <4>2 DEF Signed, h
    <3>2. CASE ~(a.value < 0)
      <4>1. a.value \in 0 .. m - 1 /\ ~(a.value >= h)
        BY <1>1, <1>2, <1>6, <3>2
      <4>2. v = a.value
        BY <1>4, <4>1
      <4> QED BY <4>1, <4>2 DEF Signed, h
    <3> QED BY <3>1, <3>2
  <2>2. v = a.value \/ a.value < 0
    <3>1. ~(a.value < 0) => a.value \in 0 .. m - 1
      BY <1>1, <1>2, <1>6
    <3> QED BY <1>4, <3>1
  <2> HIDE DEF v
  <2>3. Magnitude(v, m, c) = IF a.value < 0 THEN -a.value ELSE a.value
    BY <1>6, <2>1, <2>2 DEF Magnitude
  <2>4. Value(Magnitude(v, m, c))
    <3>1. Magnitude(v, m, c) \in Nat /\ Magnitude(v, m, c) < m
      BY <1>1, <1>2, <1>6, <2>3
    <3> QED BY <1>1, <3>1
  <2>5. CASE a.value < 0
    <3>1. s = <<"-">>
      <4>1. Signed(v, m) < 0 /\ ~(Signed(v, m) >= 0)
        BY <1>1, <1>2, <1>6, <2>1, <2>5
      <4> QED BY <1>6, <4>1 DEF Sign
    <3>2. IsText(s) /\ Len(s) = 1
      BY <3>1, OneCharacter
    <3>3. SignOk(a, s)
      <4>1. ~(a.value >= 0)
        BY <1>1, <1>2, <1>6, <2>5
      <4> QED BY <1>6, <2>5, <3>1, <4>1 DEF SignOk, WantedSign
    <3> QED BY <2>3, <2>4, <3>2, <3>3 DEF v, m, s
  <2>6. CASE ~(a.value < 0)
    <3>1. Signed(v, m) >= 0
      BY <1>1, <1>2, <1>6, <2>1, <2>6
    <3>2. PlusLost(a) <=> m \notin {IntMod, LongMod}
      BY <1>6, PlusByType DEF m
    <3>3. s = IF "+" \in flags /\ m \in {IntMod, LongMod} THEN <<"+">>
              ELSE IF " " \in flags THEN <<" ">> ELSE <<>>
      <4>1. ~(Signed(v, m) < 0)
        BY <2>1, <2>6
      <4> QED BY <1>6, <3>1, <4>1 DEF Sign
    <3>4. SignOk(a, s)
      <4>1. a.value >= 0
        BY <1>1, <1>2, <1>6, <2>6
      <4> QED BY <1>6, <2>6, <3>2, <3>3, <4>1 DEF SignOk, WantedSign
    <3>5. IsText(s) /\ Len(s) \in {0, 1}
      <4>1. s \in {<<>>, <<"+">>, <<" ">>}
        BY <3>3
      <4> HIDE DEF s
      <4> QED BY <4>1, OneCharacter, NoCharacters
    <3> QED BY <2>3, <2>4, <3>4, <3>5 DEF v, m, s
  <2> QED BY <2>5, <2>6
<1> QED BY <1>5, <1>6

\* The text of a number is what its conversion asks for.
LEMMA NumberIsOk ==
    ASSUME NEW a, IsAsk(a), a.conv \in NumberConversions
    PROVE  LET text == NumberText(a.value % TypeOf(a), TypeOf(a), a.conv, FlagsOf(a), a.prec).text
           IN  IsText(text) /\ ValueOk(a, text)
<1> DEFINE m == TypeOf(a)
           v == a.value % m
           c == a.conv
           flags == FlagsOf(a)
           names == IF c \in {"X", "p"} \/ "#" \in flags THEN HexUpper ELSE HexLower
           s == Sign(v, m, c, flags)
           x == Magnitude(v, m, c)
           digits == Digits(x, Base[c], a.prec, names)
           text == s \o digits
<1>1. c = "d" => flags = ToSet(a.flags)
  BY DEF FlagsOf, PointerFlags
<1>2. /\ x = IF a.value < 0 THEN -a.value ELSE a.value
      /\ Value(x) /\ IsText(s) /\ SignOk(a, s) /\ Len(s) \in {0, 1}
  <2> HIDE DEF flags
  <2> QED BY <1>1, MagnitudeIs
<1>3. Base[c] \in Bases /\ names \in Names /\ a.prec \in Nat
  <2>1. Base[c] \in Bases
    BY DEF Base, Bases, NumberConversions
  <2>2. names \in Names
    BY DEF Names
  <2>3. a.prec \in Nat
    BY FormatterAssumption DEF IsAsk
  <2> QED BY <2>1, <2>2, <2>3
<1>4. NumberText(v, m, c, flags, a.prec).text = text
  BY DEF NumberText
<1> HIDE DEF names, x, s
<1>5. ReadsBack(digits, x, Base[c], a.prec)
  <2> DEFINE b == Base[c]
             p == a.prec
  <2>1. b \in Bases /\ Value(x) /\ p \in Nat
    BY <1>2, <1>3
  <2> HIDE DEF b, p
  <2>2. ReadsBack(Digits(x, b, p, names), x, b, p)
    BY <1>3, <2>1, DigitsReadBack
  <2> QED BY <2>2 DEF b, p
<1> HIDE DEF digits
<1>6. DigitsOk(a, digits)
  BY <1>2, <1>5 DEF ReadsBack, DigitsOk
<1>7. IsText(text) /\ Len(text) = Len(s) + Len(digits) /\ Len(digits) \in Nat
      /\ SubSeq(text, 1, Len(s)) = s /\ SubSeq(text, Len(s) + 1, Len(s) + Len(digits)) = digits
  BY <1>2, <1>5, Concatenated, PartsOf DEF ReadsBack
<1> HIDE DEF text
<1>8. ValueOk(a, text)
  <2> DEFINE k == Len(s)
  <2>1. k \in {0, 1} \cap 0 .. Len(text)
    BY <1>2, <1>7
  <2>2. SignOk(a, SubSeq(text, 1, k)) /\ DigitsOk(a, SubSeq(text, k + 1, Len(text)))
    BY <1>2, <1>6, <1>7
  <2>3. c # "s" /\ c # "c"
    BY DEF NumberConversions
  <2> HIDE DEF k
  <2> QED BY <2>1, <2>2, <2>3 DEF ValueOk
<1> QED BY <1>4, <1>7, <1>8

\* Only a sign can be written before the array digits.
LeastLow(a) == IF a.conv = "d" THEN -1 ELSE 0

LEMMA NumberFits ==
    ASSUME NEW a, IsAsk(a), a.conv \in NumberConversions
    PROVE  LET low1 == NumberText(a.value % TypeOf(a), TypeOf(a), a.conv, FlagsOf(a), a.prec).low
           IN  low1 \in Int /\ low1 >= LeastLow(a)
<1> DEFINE m == TypeOf(a)
           v == a.value % m
           c == a.conv
           flags == FlagsOf(a)
           names == IF c \in {"X", "p"} \/ "#" \in flags THEN HexUpper ELSE HexLower
           s == Sign(v, m, c, flags)
           x == Magnitude(v, m, c)
           b == Base[c]
           p == a.prec
           digits == Digits(x, b, p, names)
           text == s \o digits
<1>1. c = "d" => flags = ToSet(a.flags)
  BY DEF FlagsOf, PointerFlags
<1>2. Value(x) /\ IsText(s) /\ Len(s) \in {0, 1}
  <2> HIDE DEF flags
  <2> QED BY <1>1, MagnitudeIs
<1>3. b \in Bases /\ names \in Names /\ p \in Nat /\ p < DigitsSize
  <2>1. b \in Bases
    BY DEF Base, Bases, NumberConversions
  <2>2. names \in Names
    BY DEF Names
  <2>3. p \in Nat /\ p < DigitsSize
    BY FormatterAssumption DEF IsAsk
  <2> QED BY <2>1, <2>2, <2>3
<1>4. c # "d" => Len(s) = 0
  BY NoCharacters DEF Sign
<1>5. NumberText(v, m, c, flags, p).low = DigitsSize - 1 - Len(text)
  BY DEF NumberText
<1> HIDE DEF names, x, s, b, p
<1>6. IsText(digits) /\ Len(digits) \in Nat /\ Len(digits) <= DigitsSize - 1
  <2> DEFINE n == DigitCount(x, b, p)
  <2>1. IsText(digits) /\ Len(digits) = n
    BY <1>2, <1>3, DigitsAre
  <2>2. n \in Nat /\ n <= DigitsSize - 1
    BY <1>2, <1>3, DigitsFit
  <2> HIDE DEF n, digits
  <2> QED BY <2>1, <2>2
<1> HIDE DEF digits
<1>7. Len(text) = Len(s) + Len(digits)
  BY <1>2, <1>6, Concatenated
<1> HIDE DEF text, c
<1> DEFINE r == DigitsSize - 1 - Len(text)
<1>8. r \in Int /\ r >= -1 /\ (c # "d" => r >= 0)
  <2> DEFINE k == Len(s)
             n == Len(digits)
  <2>1. DigitsSize \in Nat /\ k \in {0, 1} /\ n \in Nat /\ n <= DigitsSize - 1
    BY <1>2, <1>6, FormatterAssumption
  <2>2. r = DigitsSize - 1 - (k + n) /\ (c # "d" => k = 0)
    BY <1>4, <1>7
  <2> HIDE DEF k, n, r
  <2> QED BY <2>1, <2>2
<1> QED BY <1>5, <1>8 DEF LeastLow, c, p

LEMMA StringIsOk ==
    ASSUME NEW a, IsAsk(a), a.conv = "s"
    PROVE  IsText(Cut(a.value, a.prec)) /\ ValueOk(a, Cut(a.value, a.prec))
<1>1. IsText(a.value) /\ a.prec \in Nat
  BY FormatterAssumption DEF IsAsk
<1>2. Len(a.value) \in Nat
  BY <1>1, TextFacts
<1> DEFINE n == Smaller(a.prec, Len(a.value))
<1>3. n \in Nat /\ n <= Len(a.value)
  BY <1>1, <1>2 DEF Smaller
<1> HIDE DEF n
<1>4. IsText(SubSeq(a.value, 1, n))
  BY <1>1, <1>3, Part
<1>5. Cut(a.value, a.prec) = IF a.prec = 0 THEN a.value ELSE SubSeq(a.value, 1, n)
  BY DEF Cut, n
<1>6. ValueOk(a, Cut(a.value, a.prec))
  BY DEF ValueOk, Cut
<1> QED BY <1>1, <1>4, <1>5, <1>6

\* A text that the directive which asks for a may write.
IsAnswer(a, text) == \E t : IsText(t) /\ FieldOk(a, t) /\ text = Prefix(a.conv) \o t

\* From place i on the format has the conversion asked for: its length modifier
\* and then, at place e, its letter.
ConversionAt(f, i, e, a) ==
    /\ At(f, e) = a.conv
    /\ At(f, i) # "H"
    /\ At(f, i) = "s" <=> a.conv = "s"
    /\ At(f, i) = "p" <=> a.conv = "p"
    /\ a.conv = "s" => i = e
    /\ a.conv # "s" => Modifier(f, i) = [mod |-> TypeOf(a), next |-> e]

LEMMA ArgumentIs ==
    ASSUME NEW a, IsAsk(a), NEW f, NEW i, NEW e, ConversionAt(f, i, e, a),
           NEW prec, prec = [value |-> a.prec, next |-> i, args |-> <<a.value>>]
    PROVE  LET d == Argument(f, ToSet(a.flags), WidthOf(a), prec)
           IN  /\ d.then = "format" /\ d.next = e + 1 /\ d.args = <<>> /\ IsAnswer(a, d.text)
               /\ d.low \in Int /\ d.low >= LeastLow(a)
<1> DEFINE d == Argument(f, ToSet(a.flags), WidthOf(a), prec)
           c == a.conv
<1>1. prec.value = a.prec /\ prec.next = i /\ prec.args = <<a.value>>
  OBVIOUS
<1>2. Head(<<a.value>>) = a.value /\ Tail(<<a.value>>) = <<>>
  OBVIOUS
<1>3. c \in NumberConversions \cup {"s", "c"}
  BY DEF IsAsk
<1>4. CASE c = "s"
  <2> DEFINE text == Cut(a.value, a.prec)
             t == Padded(text, WidthOf(a), FlagsOf(a))
  <2>1. FlagsOf(a) = ToSet(a.flags) /\ Prefix(c) = <<>>
    BY <1>4 DEF FlagsOf, PointerFlags, Prefix
  <2>2. At(f, i) = "s" /\ i = e
    BY <1>4 DEF ConversionAt
  <2>3. a.value # NullArg
    BY <1>4 DEF IsAsk
  <2>4. d = String(a.value, FlagsOf(a), WidthOf(a), a.prec, e + 1, <<>>)
    BY <1>1, <1>2, <2>1, <2>2 DEF Argument
  <2>5. d = Writes(t, e + 1, <<>>)
    BY <2>3, <2>4 DEF String
  <2>6. IsText(t) /\ FieldOk(a, t)
    <3>1. IsText(text) /\ ValueOk(a, text)
      BY <1>4, StringIsOk
    <3> HIDE DEF text
    <3> QED BY <1>4, <3>1, FieldOfValue
  <2> HIDE DEF t, d
  <2>7. d.then = "format" /\ d.next = e + 1 /\ d.args = <<>> /\ d.text = t /\ d.low = 0
    BY <2>5 DEF Writes
  <2>8. t = Prefix(a.conv) \o t
    BY <2>1, <2>6, NoCharacters
  <2>9. IsAnswer(a, d.text)
    BY <2>6, <2>7, <2>8 DEF IsAnswer
  <2> QED BY <2>7, <2>9 DEF d, LeastLow
<1>5. ASSUME c # "s"
      PROVE  d = Numeric(f, [mod |-> TypeOf(a), next |-> e], FlagsOf(a), WidthOf(a), a.prec, <<a.value>>)
  <2>1. At(f, i) # "s" /\ At(f, i) # "H" /\ Modifier(f, i) = [mod |-> TypeOf(a), next |-> e]
    BY <1>5 DEF ConversionAt
  <2>2. PointerFlags(At(f, i), ToSet(a.flags)) = FlagsOf(a)
    BY DEF ConversionAt, PointerFlags, FlagsOf
  <2> QED BY <1>1, <2>1, <2>2 DEF Argument
<1>6. CASE c = "c"
  <2> DEFINE t == <<a.value>>
  <2>1. At(f, e) = "c" /\ Prefix(c) = <<>>
    BY <1>6 DEF ConversionAt, Prefix
  <2>2. d = Writes(t, e + 1, <<>>)
    BY <1>2, <1>5, <1>6, <2>1 DEF Numeric
  <2>3. IsText(t) /\ Len(t) = 1
    BY OneCharacter
  <2>4. FieldOk(a, t)
    <3>1. SubSeq(t, 1, 1) = t
      <4> HIDE DEF t
      <4> QED BY <2>3, Part
    <3>2. SubSeq(t, 1 + 1, 1) = <<>> /\ SubSeq(t, 1, 1 - 1) = <<>>
      BY SubSeqEmpty
    <3>3. ValueOk(a, t)
      BY <1>6 DEF ValueOk
    <3>4. PadOk(a, <<>>)
      BY DEF PadOk, ToSet
    <3> HIDE DEF t
    <3>5. 1 \in 0 .. Len(t) /\ Len(t) - 1 + 1 = 1 /\ Len(t) - 1 = 1 - 1
      BY <2>3
    <3>6. IF "-" \in ToSet(a.flags)
          THEN ValueOk(a, SubSeq(t, 1, 1)) /\ PadOk(a, SubSeq(t, 1 + 1, Len(t)))
          ELSE ValueOk(a, SubSeq(t, Len(t) - 1 + 1, Len(t))) /\ PadOk(a, SubSeq(t, 1, Len(t) - 1))
      BY <2>3, <3>1, <3>2, <3>3, <3>4, <3>5
    <3> QED BY <1>6, <2>3, <3>5, <3>6 DEF FieldOk
  <2> HIDE DEF t, d
  <2>5. d.then = "format" /\ d.next = e + 1 /\ d.args = <<>> /\ d.text = t /\ d.low = 0
    BY <2>2 DEF Writes
  <2>6. t = Prefix(a.conv) \o t
    BY <2>1, <2>3, NoCharacters
  <2>7. IsAnswer(a, d.text)
    BY <2>3, <2>4, <2>5, <2>6 DEF IsAnswer
  <2> QED BY <2>5, <2>7 DEF d, LeastLow
<1>7. CASE c \in NumberConversions
  <2> DEFINE m == [mod |-> TypeOf(a), next |-> e]
             number == NumberText(a.value % TypeOf(a), TypeOf(a), c, FlagsOf(a), a.prec)
             text == number.text
             t == Padded(text, WidthOf(a), FlagsOf(a))
             w == Writes(Prefix(c) \o t, e + 1, <<>>)
  <2>1. c # "s" /\ c # "c" /\ c \in DOMAIN Base
    BY <1>7 DEF NumberConversions, Base
  <2>2. At(f, e) = c /\ m.next = e /\ m.mod = TypeOf(a)
    BY DEF ConversionAt
  <2>3. d = Integer(m, c, FlagsOf(a), WidthOf(a), a.prec, <<a.value>>)
    BY <1>5, <2>1, <2>2 DEF Numeric
  <2>4. ~(a.prec > DigitsSize - 1)
    BY <1>7, FormatterAssumption DEF IsAsk
  <2>5. d = [w EXCEPT !.low = number.low]
    BY <1>2, <2>1, <2>2, <2>3, <2>4 DEF Integer
  <2>6. IsText(t) /\ FieldOk(a, t)
    <3>1. IsText(text) /\ ValueOk(a, text)
      BY <1>7, NumberIsOk
    <3> HIDE DEF text
    <3> QED BY <2>1, <3>1, FieldOfValue
  <2>10. number.low \in Int /\ number.low >= LeastLow(a)
    BY <1>7, NumberFits
  <2> DEFINE u == Prefix(c) \o t
  <2> HIDE DEF t, d, number, u
  <2>7. w = [text |-> u, next |-> e + 1, args |-> <<>>, then |-> "format", low |-> 0]
    BY DEF Writes, u
  <2>8. d.then = "format" /\ d.next = e + 1 /\ d.args = <<>> /\ d.text = u /\ d.low = number.low
    BY <2>5, <2>7
  <2>9. IsAnswer(a, d.text)
    BY <2>6, <2>8 DEF IsAnswer, u
  <2> QED BY <2>8, <2>9, <2>10 DEF d
<1> QED BY <1>3, <1>4, <1>6, <1>7

-----------------------------------------------------------------------------
(* Reading the format that asks for a conversion *)

\* The text t stands in the format from place i on.
Stands(f, i, t) == \A k \in 1 .. Len(t) : At(f, i + k - 1) = t[k]

LEMMA StandsWhole ==
    ASSUME NEW f, IsText(f)
    PROVE  Stands(f, 1, f)
<1>1. Len(f) \in Nat
  BY TextFacts
<1>2. ASSUME NEW k \in 1 .. Len(f) PROVE At(f, 1 + k - 1) = f[k]
  <2>1. 1 + k - 1 = k /\ k # Len(f) + 1
    BY <1>1
  <2> QED BY <2>1 DEF At
<1> QED BY <1>2 DEF Stands

LEMMA StandsParts ==
    ASSUME NEW f, NEW i \in Int, NEW s, IsText(s), NEW t, IsText(t), Stands(f, i, s \o t)
    PROVE  Stands(f, i, s) /\ Stands(f, i + Len(s), t)
<1> DEFINE u == s \o t
           m == Len(s)
           n == Len(t)
<1>1. /\ Len(u) = m + n /\ m \in Nat /\ n \in Nat
      /\ \A k \in 1 .. m : u[k] = s[k]
      /\ \A k \in 1 .. n : u[m + k] = t[k]
  BY Concatenated, TextFacts
<1>2. \A k \in 1 .. Len(u) : At(f, i + k - 1) = u[k]
  BY DEF Stands
<1> HIDE DEF u, m, n
<1>3. ASSUME NEW k \in 1 .. m PROVE At(f, i + k - 1) = s[k]
  BY <1>1, <1>2
<1>4. ASSUME NEW k \in 1 .. n PROVE At(f, (i + m) + k - 1) = t[k]
  <2>1. m + k \in 1 .. Len(u) /\ i + (m + k) - 1 = (i + m) + k - 1
    BY <1>1
  <2> QED BY <1>1, <1>2, <2>1
<1> QED BY <1>3, <1>4 DEF Stands, m, n

\* The first place behind characters of S.
LEMMA BehindIs ==
    ASSUME NEW f, NEW S, NEW i \in Int, NEW j \in Int, i <= j, j <= Len(f) + 1, Len(f) \in Nat,
           \A k \in i .. j-1 : At(f, k) \in S, At(f, j) \notin S
    PROVE  Behind(f, i, S) = j
<1> DEFINE Is(k) == At(f, k) \notin S /\ \A l \in i .. k-1 : At(f, l) \in S
<1>1. Larger(i, Len(f) + 1) = Len(f) + 1
  BY DEF Larger
<1>2. j \in i .. Len(f) + 1 /\ Is(j)
  OBVIOUS
<1>3. ASSUME NEW k \in i .. Len(f) + 1, Is(k) PROVE k = j
  <2>1. k < j => k \in i .. j-1
    OBVIOUS
  <2>2. j < k => j \in i .. k-1
    OBVIOUS
  <2> QED BY <1>2, <1>3, <2>1, <2>2
<1> HIDE DEF Is
<1>4. j = CHOOSE k \in i .. Len(f) + 1 : Is(k)
  BY <1>2, <1>3
<1> QED BY <1>1, <1>4 DEF Behind, Is

\* A numeral is read as a width or precision of its value.
LEMMA DigitsStand ==
    ASSUME NEW n \in Nat, n <= MaxFormat, n # 0
    PROVE  LET w == Numeral(n)
               c == Len(w)
           IN  /\ IsText(w) /\ c \in Nat \ {0} /\ Powers(10)[c] > n
               /\ \A k \in 1 .. c : OneDigit(n, 10, c, k) \in 0 .. 9 /\ w[k] = HexLower[1 + OneDigit(n, 10, c, k)]
               /\ w[1] # "0"
<1> DEFINE w == Numeral(n)
           c == Len(w)
<1>1. 10 \in Bases /\ HexLower \in Names /\ 0 \in Nat
  BY DEF Bases, Names
<1>2. Value(n)
  <2>1. IntMod \in Nat /\ MaxFormat \in Nat /\ MaxFormat < IntMod /\ DigitsSize - 1 \in Nat
    BY IntModFacts, FormatterAssumption
  <2>2. IntMod <= Powers(2)[DigitsSize - 1]
    BY SizesAssumption
  <2>3. Powers(2)[DigitsSize - 1] \in Nat
    <3>1. \A k \in Nat : Powers(2)[k] \in Nat \ {0}
      BY PowersOf
    <3> QED BY <2>1, <3>1
  <2> QED BY <2>1, <2>2, <2>3 DEF Value
<1>3. w = Digits(n, 10, 0, HexLower)
  BY DEF Numeral
<1>4. /\ IsText(w) /\ c = DigitCount(n, 10, 0)
      /\ \A k \in 1 .. c : w[k] = HexLower[1 + OneDigit(n, 10, c, k)]
      /\ \A k \in 1 .. c : OneDigit(n, 10, c, k) \in 0 .. 10 - 1
      /\ Enough(c, n, 10, 0)
  <2> DEFINE s == Digits(n, 10, 0, HexLower)
             m == DigitCount(n, 10, 0)
  <2>1. /\ IsText(s) /\ Len(s) = m
        /\ \A k \in 1 .. m : s[k] = HexLower[1 + OneDigit(n, 10, m, k)]
        /\ \A k \in 1 .. m : OneDigit(n, 10, m, k) \in 0 .. 10 - 1
        /\ Enough(m, n, 10, 0)
    BY <1>1, <1>2, DigitsAre
  <2> HIDE DEF s, m
  <2>2. w = s /\ c = m
    BY <1>3, <2>1 DEF s
  <2> HIDE DEF w, c
  <2> QED BY <2>1, <2>2 DEF m
<1> HIDE DEF w, c
<1>5. c \in Nat \ {0} /\ Powers(10)[c] > n
  BY <1>4 DEF Enough
<1>6. Powers(10)[c - 1] <= n
  <2>1. CASE c = 1
    <3>1. Powers(10)[0] = 1 /\ c - 1 = 0
      BY <2>1, PowersOf
    <3> QED BY <3>1
  <2>2. CASE c # 1
    <3>1. c > Larger(0, 1)
      BY <1>5, <2>2 DEF Larger
    <3> QED BY <1>4, <3>1 DEF Enough
  <2> QED BY <2>1, <2>2
<1>7. OneDigit(n, 10, c, 1) # 0
  BY <1>1, <1>5, <1>6, FirstDigit
<1>8. w[1] # "0"
  <2>1. 1 \in 1 .. c
    BY <1>5
  <2>2. OneDigit(n, 10, c, 1) \in 0 .. 10 - 1
    BY <1>4, <2>1
  <2>3. HexLower[1 + OneDigit(n, 10, c, 1)] # "0"
    BY <1>1, <1>7, <2>2, OneDigitIs
  <2> QED BY <1>4, <2>1, <2>3
<1> QED BY <1>4, <1>5, <1>8 DEF w, c

LEMMA NumeralIs ==
    ASSUME NEW n \in Nat, n <= MaxFormat
    PROVE  LET w == Numeral(n)
           IN  /\ IsText(w) /\ Len(w) \in Nat /\ (n = 0 <=> Len(w) = 0)
               /\ \A k \in 1 .. Len(w) : w[k] \in DigitChars
               /\ Len(w) # 0 => w[1] \notin FlagChars
<1>1. CASE n = 0
  BY <1>1, NoCharacters DEF Numeral
<1>2. CASE n # 0
  <2> DEFINE w == Numeral(n)
             c == Len(w)
  <2>1. /\ IsText(w) /\ c \in Nat \ {0}
        /\ \A k \in 1 .. c : OneDigit(n, 10, c, k) \in 0 .. 9 /\ w[k] = HexLower[1 + OneDigit(n, 10, c, k)]
        /\ w[1] # "0"
    BY <1>2, DigitsStand
  <2> HIDE DEF w, c
  <2>2. \A k \in 1 .. c : w[k] \in DigitChars
    <3>1. \A d \in 0 .. 9 : HexLower[1 + d] \in DigitChars
      BY DEF DigitChars
    <3> QED BY <2>1, <3>1
  <2>3. w[1] \in DigitChars
    BY <2>1, <2>2
  <2>4. w[1] \notin FlagChars
    <3>1. ASSUME NEW i \in 1 .. 10 PROVE HexLower[i] \in {"0", "1", "2", "3", "4", "5", "6", "7", "8", "9"}
      <4>1. i = 1 \/ i = 2 \/ i = 3 \/ i = 4 \/ i = 5 \/ i = 6 \/ i = 7 \/ i = 8 \/ i = 9 \/ i = 10
        OBVIOUS
      <4> QED BY <4>1 DEF HexLower
    <3>2. \A c_ \in {"0", "1", "2", "3", "4", "5", "6", "7", "8", "9"} : c_ \in FlagChars => c_ = "0"
      BY DEF FlagChars
    <3>3. w[1] \in {"0", "1", "2", "3", "4", "5", "6", "7", "8", "9"}
      BY <2>3, <3>1 DEF DigitChars
    <3> QED BY <2>1, <3>2, <3>3
  <2> QED BY <1>2, <2>1, <2>2, <2>4 DEF w, c
<1> QED BY <1>1, <1>2

LEMMA FieldRead ==
    ASSUME NEW f, IsText(f), NEW n \in Nat, n <= MaxFormat, NEW i \in Int, NEW args,
           i + Len(Numeral(n)) <= Len(f) + 1, Stands(f, i, Numeral(n)),
           At(f, i) # "*", At(f, i + Len(Numeral(n))) \notin DigitChars
    PROVE  Field(f, i, args) = [value |-> n, next |-> i + Len(Numeral(n)), args |-> args]
<1> DEFINE w == Numeral(n)
           c == Len(w)
           j == i + c
<1>1. c \in Nat /\ Len(f) \in Nat /\ (n = 0 <=> c = 0) /\ \A k \in 1 .. c : w[k] \in DigitChars
  BY NumeralIs, TextFacts
<1>2. \A k \in 1 .. c : At(f, i + k - 1) = w[k]
  BY DEF Stands
<1> HIDE DEF w
<1>3. Behind(f, i, DigitChars) = j
  <2>1. ASSUME NEW l \in i .. j-1 PROVE At(f, l) \in DigitChars
    <3>1. l - i + 1 \in 1 .. c /\ i + (l - i + 1) - 1 = l
      BY <1>1
    <3> QED BY <1>1, <1>2, <3>1
  <2>2. j \in Int /\ i <= j /\ j <= Len(f) + 1 /\ At(f, j) \notin DigitChars
    BY <1>1 DEF w
  <2> HIDE DEF j
  <2> QED BY <1>1, <2>1, <2>2, BehindIs
<1>4. Number(f, i, j) = n
  <2>1. Powers(10)[c] > n /\ \A k \in 1 .. c : DigitValue(At(f, i + k - 1)) = OneDigit(n, 10, c, k)
    <3>1. CASE n = 0
      <4>1. Powers(10)[0] = 1
        BY PowersOf
      <4> QED BY <1>1, <3>1, <4>1
    <3>2. CASE n # 0
      <4>1. /\ Powers(10)[c] > n
            /\ \A k \in 1 .. c : OneDigit(n, 10, c, k) \in 0 .. 9 /\ w[k] = HexLower[1 + OneDigit(n, 10, c, k)]
        BY <3>2, DigitsStand DEF w
      <4> QED BY <1>2, <4>1, DigitValueIs
    <3> QED BY <3>1, <3>2
  <2>2. n < IntMod
    BY IntModFacts
  <2>3. DigitsAt(f, i, c, n)
    BY <2>1 DEF DigitsAt
  <2> HIDE DEF c
  <2> QED BY <1>1, <2>1, <2>2, <2>3, NumberIs
<1> HIDE DEF j
<1>5. Field(f, i, args) = [value |-> n, next |-> j, args |-> args]
  BY <1>3, <1>4 DEF Field
<1> QED BY <1>5 DEF j, w

LEMMA FirstOf ==
    ASSUME NEW x, NEW t, IsText(t)
    PROVE  IsText(<<x>> \o t) /\ Head(<<x>> \o t) = x /\ Tail(<<x>> \o t) = t
<1> DEFINE S == ToSet(t) \cup {x}
<1>1. t \in Seq(S) /\ x \in S
  BY SeqMonotonic DEF IsText
<1> HIDE DEF S
<1>2. <<x>> \o t \in Seq(S)
  BY <1>1
<1>3. Head(<<x>> \o t) = x /\ Tail(<<x>> \o t) = t
  BY <1>1
<1> QED BY <1>2, <1>3, TextOf

\* The arguments from the precision on.
RestArgs(a) == (IF "prec" \in a.stars THEN <<a.prec>> ELSE <<>>) \o <<a.value>>

LEMMA ArgsAre ==
    ASSUME NEW a
    PROVE  /\ "width" \in a.stars => Head(ArgsOf(a)) = a.width /\ Tail(ArgsOf(a)) = RestArgs(a)
           /\ "width" \notin a.stars => ArgsOf(a) = RestArgs(a)
           /\ "prec" \in a.stars => Head(RestArgs(a)) = a.prec /\ Tail(RestArgs(a)) = <<a.value>>
           /\ "prec" \notin a.stars => RestArgs(a) = <<a.value>>
<1> DEFINE v == <<a.value>>
<1>1. IsText(v)
  BY OneCharacter
<1> HIDE DEF v
<1>2. "prec" \in a.stars => RestArgs(a) = <<a.prec>> \o v
  BY DEF RestArgs, v
<1>3. "prec" \notin a.stars => RestArgs(a) = v
  BY <1>1, NoCharacters DEF RestArgs, v
<1>4. IsText(RestArgs(a))
  BY <1>1, <1>2, <1>3, FirstOf
<1>5. "width" \in a.stars => ArgsOf(a) = <<a.width>> \o RestArgs(a)
  BY DEF ArgsOf, RestArgs
<1>6. "width" \notin a.stars => ArgsOf(a) = RestArgs(a)
  <2>1. "width" \notin a.stars => ArgsOf(a) = <<>> \o RestArgs(a)
    BY DEF ArgsOf, RestArgs
  <2> QED BY <1>4, <2>1, NoCharacters
<1>7. "width" \in a.stars => Head(ArgsOf(a)) = a.width /\ Tail(ArgsOf(a)) = RestArgs(a)
  BY <1>4, <1>5, FirstOf
<1>8. "prec" \in a.stars => Head(RestArgs(a)) = a.prec /\ Tail(RestArgs(a)) = v
  BY <1>1, <1>2, FirstOf
<1> QED BY <1>3, <1>6, <1>7, <1>8 DEF v

\* What may follow the flags, the width and the precision.
Letters == NumberConversions \cup {"s", "c"}
AfterPrec  == Letters \cup {"h", "l", "z", "j", "t"}
AfterWidth == AfterPrec \cup {"."}

LEMMA Following ==
    /\ \A x \in AfterWidth : x \notin FlagChars /\ x \notin DigitChars /\ x # "*" /\ x # NUL /\ x # "%"
    /\ \A x \in AfterPrec : x # "."
    /\ \A x \in DigitChars : x # "*" /\ x # "." /\ x # NUL /\ x # "%"
    /\ \A x \in FlagChars : x # NUL /\ x # "%"
    /\ "*" \notin FlagChars /\ "*" \notin DigitChars
<1> DEFINE D == {"0", "1", "2", "3", "4", "5", "6", "7", "8", "9"}
<1>1. \A x \in DigitChars : x \in D
  <2>1. ASSUME NEW i \in 1 .. 10 PROVE HexLower[i] \in D
    <3>1. i = 1 \/ i = 2 \/ i = 3 \/ i = 4 \/ i = 5 \/ i = 6 \/ i = 7 \/ i = 8 \/ i = 9 \/ i = 10
      OBVIOUS
    <3> QED BY <3>1 DEF HexLower
  <2> HIDE DEF D
  <2> QED BY <2>1 DEF DigitChars
<1>2. \A x \in AfterWidth : x \notin FlagChars /\ x \notin D /\ x # "*" /\ x # NUL /\ x # "%"
  BY DEF AfterWidth, AfterPrec, Letters, NumberConversions, FlagChars, NUL
<1>3. \A x \in AfterPrec : x # "."
  BY DEF AfterPrec, Letters, NumberConversions
<1>4. \A x \in D : x # "*" /\ x # "." /\ x # NUL /\ x # "%"
  BY DEF NUL
<1>5. \A x \in FlagChars : x # NUL /\ x # "%"
  BY DEF FlagChars, NUL
<1>6. "*" \notin FlagChars /\ "*" \notin D
  BY DEF FlagChars
<1> HIDE DEF D
<1> QED BY <1>1, <1>2, <1>3, <1>4, <1>5, <1>6

LEMMA WidthRead ==
    ASSUME NEW a, IsAsk(a), NEW f, IsText(f), NEW i \in Int,
           i + Len(WidthText(a)) <= Len(f) + 1, Stands(f, i, WidthText(a)),
           At(f, i + Len(WidthText(a))) \in AfterWidth
    PROVE  Field(f, i, ArgsOf(a)) = [value |-> WidthOf(a), next |-> i + Len(WidthText(a)), args |-> RestArgs(a)]
<1>1. CASE "width" \in a.stars
  <2>1. WidthText(a) = <<"*">> /\ Len(<<"*">>) = 1
    BY <1>1 DEF WidthText
  <2>2. At(f, i) = "*"
    <3>1. i + 1 - 1 = i /\ 1 \in 1 .. 1
      OBVIOUS
    <3> QED BY <2>1, <3>1 DEF Stands
  <2>3. Head(ArgsOf(a)) = a.width /\ Tail(ArgsOf(a)) = RestArgs(a)
    BY <1>1, ArgsAre
  <2> QED BY <2>1, <2>2, <2>3 DEF Field, WidthOf
<1>2. CASE "width" \notin a.stars
  <2> DEFINE n == a.width
             w == Numeral(n)
  <2>1. WidthText(a) = w /\ n \in Nat /\ n <= MaxFormat
    BY <1>2 DEF WidthText, IsAsk
  <2>2. WidthOf(a) = n
    BY <2>1 DEF WidthOf, Larger
  <2>3. Len(w) \in Nat /\ \A k \in 1 .. Len(w) : w[k] \in DigitChars
    BY <2>1, NumeralIs
  <2>4. At(f, i + Len(w)) \notin DigitChars /\ At(f, i + Len(w)) # "*"
    BY <2>1, Following
  <2>5. At(f, i) # "*"
    <3> HIDE DEF w
    <3>1. CASE Len(w) = 0
      <4>1. i + Len(w) = i
        BY <3>1
      <4> QED BY <2>4, <4>1
    <3>2. CASE Len(w) # 0
      <4>1. 1 \in 1 .. Len(w) /\ i + 1 - 1 = i
        BY <2>3, <3>2
      <4>2. At(f, i) = w[1]
        BY <2>1, <4>1 DEF Stands
      <4> QED BY <2>3, <4>1, <4>2, Following
    <3> QED BY <3>1, <3>2
  <2>6. Stands(f, i, w) /\ i + Len(w) <= Len(f) + 1
    BY <2>1
  <2>7. ArgsOf(a) = RestArgs(a)
    BY <1>2, ArgsAre
  <2> HIDE DEF n
  <2>8. Field(f, i, RestArgs(a)) = [value |-> n, next |-> i + Len(w), args |-> RestArgs(a)]
    BY <2>1, <2>4, <2>5, <2>6, FieldRead
  <2> QED BY <2>1, <2>2, <2>7, <2>8
<1> QED BY <1>1, <1>2

LEMMA PrecRead ==
    ASSUME NEW a, IsAsk(a), NEW f, IsText(f), NEW i \in Int,
           i + Len(PrecText(a)) <= Len(f) + 1, Stands(f, i, PrecText(a)),
           At(f, i + Len(PrecText(a))) \in AfterPrec
    PROVE  Precision(f, i, RestArgs(a)) = [value |-> a.prec, next |-> i + Len(PrecText(a)), args |-> <<a.value>>]
<1>1. a.prec \in Nat /\ a.prec <= MaxFormat
  BY FormatterAssumption DEF IsAsk
<1>2. CASE "prec" \in a.stars
  <2>1. PrecText(a) = <<".", "*">> /\ Len(PrecText(a)) = 2 /\ PrecText(a)[1] = "." /\ PrecText(a)[2] = "*"
    BY <1>2 DEF PrecText
  <2>2. At(f, i) = "." /\ At(f, i + 1) = "*"
    <3>1. i + 1 - 1 = i /\ i + 2 - 1 = i + 1 /\ 1 \in 1 .. 2 /\ 2 \in 1 .. 2
      OBVIOUS
    <3> QED BY <2>1, <3>1 DEF Stands
  <2>3. Head(RestArgs(a)) = a.prec /\ Tail(RestArgs(a)) = <<a.value>>
    BY <1>2, ArgsAre
  <2>4. Larger(a.prec, 0) = a.prec /\ (i + 1) + 1 = i + 2
    BY <1>1 DEF Larger
  <2> DEFINE j == i + 1
  <2> HIDE DEF j
  <2>5. Field(f, j, RestArgs(a)) = [value |-> a.prec, next |-> j + 1, args |-> <<a.value>>]
    BY <2>2, <2>3, <2>4 DEF Field, j
  <2> QED BY <2>1, <2>2, <2>4, <2>5 DEF Precision, j
<1>3. CASE "prec" \notin a.stars /\ a.prec = 0
  <2>1. PrecText(a) = <<>> /\ Len(PrecText(a)) = 0 /\ i + 0 = i
    BY <1>3 DEF PrecText
  <2>2. At(f, i) # "."
    BY <2>1, Following
  <2>3. RestArgs(a) = <<a.value>>
    BY <1>3, ArgsAre
  <2> QED BY <1>3, <2>1, <2>2, <2>3 DEF Precision
<1>4. CASE "prec" \notin a.stars /\ a.prec # 0
  <2> DEFINE n == a.prec
             w == Numeral(n)
             j == i + 1
  <2>1. PrecText(a) = <<".">> \o w
    BY <1>4 DEF PrecText
  <2>2. IsText(w) /\ Len(w) \in Nat /\ Len(w) # 0 /\ \A k \in 1 .. Len(w) : w[k] \in DigitChars
    BY <1>1, <1>4, NumeralIs
  <2> HIDE DEF w
  <2>3. IsText(<<".">>) /\ Len(<<".">>) = 1 /\ <<".">>[1] = "."
    BY OneCharacter
  <2>4. Len(PrecText(a)) = 1 + Len(w)
    BY <2>1, <2>2, <2>3, Concatenated
  <2>5. Stands(f, i, <<".">>) /\ Stands(f, j, w)
    BY <2>1, <2>2, <2>3, StandsParts
  <2>6. At(f, i) = "."
    <3>1. i + 1 - 1 = i /\ 1 \in 1 .. 1
      OBVIOUS
    <3> QED BY <2>3, <2>5, <3>1 DEF Stands
  <2>7. At(f, j) # "*"
    <3>1. 1 \in 1 .. Len(w) /\ j + 1 - 1 = j
      BY <2>2
    <3>2. At(f, j) = w[1]
      BY <2>5, <3>1 DEF Stands
    <3> QED BY <2>2, <3>1, <3>2, Following
  <2>8. j + Len(w) = i + Len(PrecText(a)) /\ j \in Int
    BY <2>2, <2>4
  <2>9. At(f, j + Len(w)) \notin DigitChars /\ j + Len(w) <= Len(f) + 1
    BY <2>8, Following DEF AfterWidth
  <2>10. RestArgs(a) = <<a.value>>
    BY <1>4, ArgsAre
  <2> HIDE DEF j, n
  <2>11. Field(f, j, RestArgs(a)) = [value |-> n, next |-> j + Len(w), args |-> RestArgs(a)]
    BY <1>1, <2>5, <2>7, <2>8, <2>9, FieldRead DEF w, n
  <2> QED BY <2>6, <2>8, <2>10, <2>11 DEF Precision, j, n
<1> QED BY <1>2, <1>3, <1>4

LEMMA ModifierRead ==
    ASSUME NEW a, IsAsk(a), NEW f, NEW i \in Int,
           Stands(f, i, a.mod), At(f, i + Len(a.mod)) = a.conv
    PROVE  At(f, i) \in AfterPrec /\ ConversionAt(f, i, i + Len(a.mod), a)
<1> DEFINE c == a.conv
           e == i + Len(a.mod)
<1>1. c \in Letters /\ a.mod \in Modifiers /\ (c \in {"s", "p"} => a.mod = <<>>)
  BY DEF IsAsk, Letters
<1>2. /\ c \notin {"h", "l", "z", "j", "t", "H"}
      /\ c \in AfterPrec
  BY <1>1 DEF Letters, NumberConversions, AfterPrec
<1>3. CASE a.mod = <<>>
  <2>1. e = i
    BY <1>3
  <2>2. At(f, i) = c
    BY <2>1
  <2>3. c # "p" => TypeOf(a) = IntMod
    BY <1>3 DEF TypeOf
  <2>4. c = "p" => TypeOf(a) = LongMod
    BY <1>3 DEF TypeOf
  <2>5. Modifier(f, i) = [mod |-> IF c = "p" THEN LongMod ELSE IntMod, next |-> i]
    BY <1>2, <2>2 DEF Modifier
  <2>6. Modifier(f, i) = [mod |-> TypeOf(a), next |-> e]
    BY <2>1, <2>3, <2>4, <2>5
  <2> QED BY <1>2, <2>1, <2>2, <2>6 DEF ConversionAt
<1>4. CASE a.mod # <<>>
  <2>1. c \notin {"s", "p"}
    BY <1>1, <1>4
  <2>2. CASE Len(a.mod) = 1
    <3> DEFINE x == a.mod[1]
    <3>1. a.mod = <<x>> /\ x \in {"h", "l", "z", "j", "t"}
      BY <1>1, <1>4, <2>2 DEF Modifiers
    <3>2. At(f, i) = x
      <4>1. 1 \in 1 .. Len(a.mod) /\ i + 1 - 1 = i
        BY <2>2
      <4> QED BY <4>1 DEF Stands
    <3>3. e = i + 1 /\ At(f, i + 1) = c
      BY <2>2
    <3>4. TypeOf(a) = IF x = "h" THEN ShortMod ELSE LongMod
      <4> HIDE DEF x
      <4> QED BY <3>1, <2>1 DEF TypeOf
    <3> HIDE DEF x
    <3>5. Modifier(f, i) = [mod |-> TypeOf(a), next |-> e]
      <4>1. CASE x = "h"
        BY <1>2, <3>2, <3>3, <3>4, <4>1 DEF Modifier
      <4>2. CASE x = "l"
        BY <1>2, <3>2, <3>3, <3>4, <4>2 DEF Modifier
      <4>3. CASE x \in {"z", "j", "t"}
        BY <1>2, <3>2, <3>3, <3>4, <4>3 DEF Modifier
      <4> QED BY <3>1, <4>1, <4>2, <4>3
    <3>6. At(f, i) \in AfterPrec /\ At(f, i) \notin {"H", "s", "p"}
      BY <3>1, <3>2 DEF AfterPrec
    <3> QED BY <2>1, <3>3, <3>5, <3>6 DEF ConversionAt
  <2>3. CASE Len(a.mod) # 1
    <3> DEFINE x == a.mod[1]
    <3>1. a.mod = <<x, x>> /\ x \in {"h", "l"} /\ Len(a.mod) = 2 /\ a.mod[2] = x
      BY <1>1, <1>4, <2>3 DEF Modifiers
    <3>2. At(f, i) = x /\ At(f, i + 1) = x
      <4>1. 1 \in 1 .. Len(a.mod) /\ i + 1 - 1 = i /\ 2 \in 1 .. Len(a.mod) /\ i + 2 - 1 = i + 1
        BY <3>1
      <4> QED BY <3>1, <4>1 DEF Stands
    <3>3. e = i + 2 /\ At(f, i + 2) = c
      BY <3>1
    <3>4. TypeOf(a) = IF x = "h" THEN CharMod ELSE LongMod
      <4> HIDE DEF x
      <4> QED BY <3>1, <2>1 DEF TypeOf
    <3> HIDE DEF x
    <3>5. Modifier(f, i) = [mod |-> TypeOf(a), next |-> e]
      <4>1. CASE x = "h"
        BY <1>2, <3>2, <3>3, <3>4, <4>1 DEF Modifier
      <4>2. CASE x = "l"
        BY <1>2, <3>2, <3>3, <3>4, <4>2 DEF Modifier
      <4> QED BY <3>1, <4>1, <4>2
    <3>6. At(f, i) \in AfterPrec /\ At(f, i) \notin {"H", "s", "p"}
      BY <3>1, <3>2 DEF AfterPrec
    <3> QED BY <2>1, <3>3, <3>5, <3>6 DEF ConversionAt
  <2> QED BY <2>2, <2>3
<1> QED BY <1>3, <1>4

LEMMA TextsOfAsk ==
    ASSUME NEW a, IsAsk(a)
    PROVE  IsText(a.flags) /\ IsText(WidthText(a)) /\ IsText(PrecText(a)) /\ IsText(a.mod)
<1>1. IsText(a.flags)
  BY TextOf DEF IsAsk
<1>2. a.prec \in Nat /\ a.prec <= MaxFormat
  BY FormatterAssumption DEF IsAsk
<1>3. IsText(WidthText(a))
  <2>1. "width" \notin a.stars => a.width \in Nat /\ a.width <= MaxFormat
    BY DEF IsAsk
  <2> QED BY <2>1, NumeralIs, OneCharacter DEF WidthText
<1>4. IsText(PrecText(a))
  <2>1. IsText(<<".", "*">>)
    <3>1. <<".", "*">> \in Seq({".", "*"})
      OBVIOUS
    <3> QED BY <3>1, TextOf
  <2>2. IsText(Numeral(a.prec))
    BY <1>2, NumeralIs
  <2>3. IsText(<<".">> \o Numeral(a.prec))
    BY <2>2, FirstOf
  <2> QED BY <2>1, <2>3, NoCharacters DEF PrecText
<1>5. IsText(a.mod)
  <2> DEFINE S == {"h", "l", "z", "j", "t"}
  <2>1. <<>> \in Seq(S)
    BY EmptySeq
  <2>2. \A x \in S : <<x>> \in Seq(S) /\ <<x, x>> \in Seq(S)
    <3> HIDE DEF S
    <3> QED OBVIOUS
  <2>3. a.mod = <<>> \/ \E x \in S : a.mod = <<x>> \/ a.mod = <<x, x>>
    BY DEF IsAsk, Modifiers
  <2> HIDE DEF S
  <2>4. a.mod \in Seq(S)
    BY <2>1, <2>2, <2>3
  <2> QED BY <2>4, TextOf
<1> QED BY <1>1, <1>3, <1>4, <1>5

\* Where the parts of the format are.
WidthAt(a) == 3 + Len(a.flags)
PrecAt(a)  == WidthAt(a) + Len(WidthText(a))
ModAt(a)   == PrecAt(a) + Len(PrecText(a))
ConvAt(a)  == ModAt(a) + Len(a.mod)

Laid(a, f) ==
    /\ IsText(f) /\ Len(f) = ConvAt(a) + 1
    /\ At(f, 1) = "a" /\ At(f, 2) = "%"
    /\ Stands(f, 3, a.flags) /\ Stands(f, WidthAt(a), WidthText(a))
    /\ Stands(f, PrecAt(a), PrecText(a)) /\ Stands(f, ModAt(a), a.mod)
    /\ At(f, ConvAt(a)) = a.conv /\ At(f, ConvAt(a) + 1) = "b"
    /\ 3 <= WidthAt(a) /\ WidthAt(a) <= PrecAt(a) /\ PrecAt(a) <= ModAt(a) /\ ModAt(a) <= ConvAt(a)
    /\ {WidthAt(a), PrecAt(a), ModAt(a), ConvAt(a)} \subseteq Int

LEMMA Pair ==
    ASSUME NEW x, NEW y, NEW f, NEW i \in Int
    PROVE  /\ IsText(<<x, y>>) /\ Len(<<x, y>>) = 2
           /\ Stands(f, i, <<x, y>>) => At(f, i) = x /\ At(f, i + 1) = y
<1>1. <<x, y>> \in Seq({x, y}) /\ Len(<<x, y>>) = 2
  OBVIOUS
<1>2. IsText(<<x, y>>)
  BY <1>1, TextOf
<1>3. ASSUME Stands(f, i, <<x, y>>) PROVE At(f, i) = x /\ At(f, i + 1) = y
  <2>1. 1 \in 1 .. 2 /\ 2 \in 1 .. 2 /\ i + 1 - 1 = i /\ i + 2 - 1 = i + 1
    OBVIOUS
  <2> QED BY <1>1, <1>3, <2>1 DEF Stands
<1> QED BY <1>1, <1>2, <1>3

LEMMA FormatIsLaid ==
    ASSUME NEW a, IsAsk(a)
    PROVE  Laid(a, FormatOf(a))
<1> DEFINE A == <<"a", "%">>
           F == a.flags
           W == WidthText(a)
           P == PrecText(a)
           M == a.mod
           E == <<a.conv, "b">>
           t4 == M \o E
           t3 == P \o t4
           t2 == W \o t3
           t1 == F \o t2
           f == A \o t1
<1>1. IsText(F) /\ IsText(W) /\ IsText(P) /\ IsText(M)
  BY TextsOfAsk
<1>2. IsText(A) /\ Len(A) = 2 /\ IsText(E) /\ Len(E) = 2
  <2>1. 0 \in Int
    OBVIOUS
  <2> QED BY <2>1, Pair
<1>3. f = FormatOf(a)
  BY DEF FormatOf
<1> HIDE DEF A, E, F, W, P, M
<1>4. IsText(t4) /\ Len(t4) = Len(M) + Len(E)
  BY <1>1, <1>2, Concatenated
<1> HIDE DEF t4
<1>5. IsText(t3) /\ Len(t3) = Len(P) + Len(t4)
  BY <1>1, <1>4, Concatenated
<1> HIDE DEF t3
<1>6. IsText(t2) /\ Len(t2) = Len(W) + Len(t3)
  BY <1>1, <1>5, Concatenated
<1> HIDE DEF t2
<1>7. IsText(t1) /\ Len(t1) = Len(F) + Len(t2)
  BY <1>1, <1>6, Concatenated
<1> HIDE DEF t1
<1>8. IsText(f) /\ Len(f) = Len(A) + Len(t1)
  BY <1>2, <1>7, Concatenated
<1>9. Stands(f, 1, f)
  BY <1>8, StandsWhole
<1> DEFINE i1 == 1 + Len(A)
           i2 == i1 + Len(F)
           i3 == i2 + Len(W)
           i4 == i3 + Len(P)
           i5 == i4 + Len(M)
<1>10. Len(F) \in Nat /\ Len(W) \in Nat /\ Len(P) \in Nat /\ Len(M) \in Nat
  BY <1>1, TextFacts
<1>11. i1 = 3 /\ i1 \in Int /\ i2 \in Int /\ i3 \in Int /\ i4 \in Int /\ i5 \in Int
  BY <1>2, <1>10
<1>12. i2 = WidthAt(a) /\ i3 = PrecAt(a) /\ i4 = ModAt(a) /\ i5 = ConvAt(a)
  BY <1>11 DEF WidthAt, PrecAt, ModAt, ConvAt, F, W, P, M
<1>13. Stands(f, 1, A) /\ Stands(f, i1, t1)
  <2> DEFINE i0 == 1
  <2>1. Stands(f, i0, A \o t1) /\ i0 \in Int
    BY <1>9
  <2> HIDE DEF f, i0
  <2>2. Stands(f, i0, A) /\ Stands(f, i0 + Len(A), t1)
    BY <1>2, <1>7, <2>1, StandsParts
  <2> QED BY <2>2 DEF i0
<1> HIDE DEF f
<1>14. Stands(f, i1, F) /\ Stands(f, i2, t2)
  BY <1>1, <1>6, <1>11, <1>13, StandsParts DEF t1
<1>15. Stands(f, i2, W) /\ Stands(f, i3, t3)
  BY <1>1, <1>5, <1>11, <1>14, StandsParts DEF t2
<1>16. Stands(f, i3, P) /\ Stands(f, i4, t4)
  BY <1>1, <1>4, <1>11, <1>15, StandsParts DEF t3
<1>17. Stands(f, i4, M) /\ Stands(f, i5, E)
  BY <1>1, <1>2, <1>11, <1>16, StandsParts DEF t4
<1>18. At(f, 1) = "a" /\ At(f, 1 + 1) = "%"
  <2>1. 1 \in Int
    OBVIOUS
  <2> QED BY <1>13, <2>1, Pair DEF A
<1>19. At(f, i5) = a.conv /\ At(f, i5 + 1) = "b"
  BY <1>11, <1>17, Pair DEF E
<1>20. Len(f) = i5 + 1 /\ 3 <= i2 /\ i2 <= i3 /\ i3 <= i4 /\ i4 <= i5 /\ 1 + 1 = 2
  BY <1>2, <1>4, <1>5, <1>6, <1>7, <1>8, <1>10
<1> HIDE DEF i2, i3, i4, i5
<1>21. Laid(a, f)
  BY <1>8, <1>11, <1>12, <1>14, <1>15, <1>16, <1>17, <1>18, <1>19, <1>20 DEF Laid, F, W, P, M
<1> QED BY <1>3, <1>21

LEMMA AskedFormat ==
    ASSUME NEW a, IsAsk(a), NEW f, Laid(a, f)
    PROVE  /\ At(f, WidthAt(a)) \notin FlagChars
           /\ At(f, PrecAt(a)) \in AfterWidth /\ At(f, ModAt(a)) \in AfterPrec
           /\ ConversionAt(f, ModAt(a), ConvAt(a), a)
           /\ At(f, 3) # NUL /\ At(f, 3) # "%"
<1> DEFINE F == a.flags
           W == WidthText(a)
           P == PrecText(a)
           i2 == WidthAt(a)
           i3 == PrecAt(a)
           i4 == ModAt(a)
<1>1. /\ Stands(f, 3, F) /\ Stands(f, i2, W) /\ Stands(f, i3, P) /\ Stands(f, i4, a.mod)
      /\ i2 \in Int /\ i3 \in Int /\ i4 \in Int /\ At(f, i4 + Len(a.mod)) = a.conv
      /\ i2 = 3 + Len(F) /\ i3 = i2 + Len(W) /\ i4 = i3 + Len(P)
  BY DEF Laid, ConvAt, ModAt, PrecAt, WidthAt
<1>2. Len(F) \in Nat /\ Len(W) \in Nat /\ Len(P) \in Nat
  BY TextsOfAsk, TextFacts
<1>3. At(f, i4) \in AfterPrec /\ ConversionAt(f, i4, ConvAt(a), a)
  <2> HIDE DEF i4
  <2>1. At(f, i4) \in AfterPrec /\ ConversionAt(f, i4, i4 + Len(a.mod), a)
    BY <1>1, ModifierRead
  <2> QED BY <2>1 DEF i4, ConvAt
<1>4. At(f, i3) \in AfterWidth
  <2>1. CASE Len(P) = 0
    <3>1. i4 = i3
      BY <1>1, <2>1
    <3> QED BY <1>3, <3>1 DEF AfterWidth
  <2>2. CASE Len(P) # 0
    <3>1. P[1] = "."
      <4>1. IsText(<<".">>) /\ Len(<<".">>) = 1 /\ <<".">>[1] = "."
        BY OneCharacter
      <4>2. "prec" \notin a.stars /\ a.prec # 0 => P[1] = "."
        <5> DEFINE w == Numeral(a.prec)
        <5>1. IsText(w)
          <6>1. a.prec \in Nat /\ a.prec <= MaxFormat
            BY FormatterAssumption DEF IsAsk
          <6> QED BY <6>1, NumeralIs
        <5> HIDE DEF w
        <5>2. (<<".">> \o w)[1] = "."
          BY <4>1, <5>1, Concatenated
        <5> QED BY <5>2 DEF PrecText, w
      <4>3. "prec" \in a.stars => P[1] = "."
        BY DEF PrecText
      <4>4. "prec" \notin a.stars /\ a.prec = 0 => Len(P) = 0
        BY NoCharacters DEF PrecText
      <4> QED BY <2>2, <4>2, <4>3, <4>4
    <3>2. 1 \in 1 .. Len(P) /\ i3 + 1 - 1 = i3
      BY <1>1, <1>2, <2>2
    <3> HIDE DEF i3, P
    <3>3. At(f, i3) = P[1]
      BY <1>1, <3>2 DEF Stands
    <3> QED BY <3>1, <3>3 DEF AfterWidth
  <2> QED BY <2>1, <2>2
<1>5. At(f, i2) \notin FlagChars /\ At(f, i2) # NUL /\ At(f, i2) # "%"
  <2>1. CASE Len(W) = 0
    <3>1. i3 = i2
      BY <1>1, <2>1
    <3> QED BY <1>4, <3>1, Following
  <2>2. CASE Len(W) # 0
    <3>1. W[1] \notin FlagChars /\ W[1] # NUL /\ W[1] # "%"
      <4>1. CASE "width" \in a.stars
        <5>1. W[1] = "*"
          BY <4>1 DEF WidthText
        <5> QED BY <5>1, Following DEF NUL
      <4>2. CASE "width" \notin a.stars
        <5> DEFINE n == a.width
                   w == Numeral(n)
        <5>1. W = w /\ n \in Nat /\ n <= MaxFormat
          BY <4>2 DEF WidthText, IsAsk
        <5>2. Len(w) # 0
          BY <2>2, <5>1
        <5> HIDE DEF n
        <5>3. /\ Len(w) \in Nat /\ \A k \in 1 .. Len(w) : w[k] \in DigitChars
              /\ Len(w) # 0 => w[1] \notin FlagChars
          BY <5>1, NumeralIs
        <5> HIDE DEF w
        <5>4. w[1] \in DigitChars
          <6>1. 1 \in 1 .. Len(w)
            BY <5>2, <5>3
          <6> QED BY <5>3, <6>1
        <5> QED BY <5>1, <5>2, <5>3, <5>4, Following
      <4> QED BY <4>1, <4>2
    <3>2. 1 \in 1 .. Len(W) /\ i2 + 1 - 1 = i2
      BY <1>1, <1>2, <2>2
    <3> HIDE DEF i2, W
    <3>3. At(f, i2) = W[1]
      BY <1>1, <3>2 DEF Stands
    <3> QED BY <3>1, <3>3
  <2> QED BY <2>1, <2>2
<1>6. At(f, 3) # NUL /\ At(f, 3) # "%"
  <2>1. CASE Len(F) = 0
    <3>1. i2 = 3
      BY <1>1, <2>1
    <3> QED BY <1>5, <3>1
  <2>2. CASE Len(F) # 0
    <3>1. 1 \in 1 .. Len(F) /\ 3 + 1 - 1 = 3
      BY <1>2, <2>2
    <3>2. F[1] \in FlagChars
      BY <3>1, ElementOfSeq DEF IsAsk
    <3> HIDE DEF F
    <3>3. At(f, 3) = F[1]
      BY <1>1, <3>1 DEF Stands
    <3> QED BY <3>2, <3>3, Following
  <2> QED BY <2>1, <2>2
<1> QED BY <1>3, <1>4, <1>5, <1>6

\* The directive that asks for a, as Convert reads it.
LEMMA DirectiveOfAsk ==
    ASSUME NEW a, IsAsk(a), NEW f, Laid(a, f)
    PROVE  LET j == Behind(f, 3, FlagChars)
               width == Field(f, j, ArgsOf(a))
               prec == Precision(f, width.next, width.args)
               d == Directive(f, ToSet(SubSeq(f, 3, j - 1)), width, prec)
           IN  /\ d.then = "format" /\ d.next = ConvAt(a) + 1 /\ d.args = <<>> /\ IsAnswer(a, d.text)
               /\ d.low \in Int /\ d.low >= LeastLow(a)
<1> DEFINE i2 == WidthAt(a)
           i3 == PrecAt(a)
           i4 == ModAt(a)
           i5 == ConvAt(a)
           F == a.flags
           W == WidthText(a)
           P == PrecText(a)
           j == Behind(f, 3, FlagChars)
           width == Field(f, j, ArgsOf(a))
           prec == Precision(f, width.next, width.args)
           d == Directive(f, ToSet(SubSeq(f, 3, j - 1)), width, prec)
<1>1. /\ IsText(f) /\ Len(f) = i5 + 1
      /\ Stands(f, 3, F) /\ Stands(f, i2, W) /\ Stands(f, i3, P)
      /\ 3 <= i2 /\ i2 <= i3 /\ i3 <= i4 /\ i4 <= i5
      /\ i2 \in Int /\ i3 \in Int /\ i4 \in Int /\ i5 \in Int
      /\ i2 = 3 + Len(F) /\ i3 = i2 + Len(W) /\ i4 = i3 + Len(P)
  BY DEF Laid, ModAt, PrecAt, WidthAt
<1>2. /\ At(f, i2) \notin FlagChars /\ At(f, i3) \in AfterWidth /\ At(f, i4) \in AfterPrec
      /\ ConversionAt(f, i4, i5, a)
  BY AskedFormat
<1>3. IsText(F) /\ F \in Seq(FlagChars) /\ Len(F) \in Nat /\ Len(f) \in Nat
  BY <1>1, TextsOfAsk, TextFacts DEF IsAsk
<1> HIDE DEF i2, i3, i4, i5
<1>4. \A k \in 1 .. Len(F) : At(f, 3 + k - 1) = F[k] /\ F[k] \in FlagChars
  BY <1>1, <1>3, ElementOfSeq DEF Stands
<1>5. j = i2
  <2>1. ASSUME NEW k \in 3 .. i2 - 1 PROVE At(f, k) \in FlagChars
    <3>1. k - 2 \in 1 .. Len(F) /\ 3 + (k - 2) - 1 = k
      BY <1>1, <1>3
    <3> QED BY <1>4, <3>1
  <2>2. i2 <= Len(f) + 1
    BY <1>1
  <2> QED BY <1>1, <1>2, <1>3, <2>1, <2>2, BehindIs
<1>6. SubSeq(f, 3, j - 1) = F
  <2>1. PartAt(f, 2, F)
    <3>1. ASSUME NEW k \in 1 .. Len(F) PROVE f[2 + k] = F[k]
      <4>1. 3 + k - 1 = 2 + k /\ 2 + k \in 1 .. Len(f) /\ 2 + k # Len(f) + 1
        BY <1>1, <1>3
      <4>2. At(f, 2 + k) = f[2 + k]
        BY <4>1 DEF At
      <4> QED BY <1>4, <4>1, <4>2
    <3> QED BY <3>1 DEF PartAt
  <2>2. SubSeq(f, 2 + 1, 2 + Len(F)) = F
    BY <1>1, <1>3, <2>1, PartIs
  <2>3. j - 1 = 2 + Len(F) /\ 2 + 1 = 3
    BY <1>1, <1>3, <1>5
  <2> QED BY <2>2, <2>3
<1> HIDE DEF j
<1>7. width = [value |-> WidthOf(a), next |-> i3, args |-> RestArgs(a)]
  <2>1. i2 + Len(W) <= Len(f) + 1 /\ At(f, i2 + Len(W)) \in AfterWidth
    BY <1>1, <1>2
  <2>2. Field(f, i2, ArgsOf(a)) = [value |-> WidthOf(a), next |-> i2 + Len(W), args |-> RestArgs(a)]
    BY <1>1, <2>1, WidthRead
  <2> QED BY <1>1, <1>5, <2>2
<1>8. width.value = WidthOf(a) /\ width.next = i3 /\ width.args = RestArgs(a)
  <2> HIDE DEF width
  <2> QED BY <1>7
<1>9. prec = [value |-> a.prec, next |-> i4, args |-> <<a.value>>]
  <2>1. i3 + Len(P) <= Len(f) + 1 /\ At(f, i3 + Len(P)) \in AfterPrec
    BY <1>1, <1>2
  <2>2. Precision(f, i3, RestArgs(a)) = [value |-> a.prec, next |-> i3 + Len(P), args |-> <<a.value>>]
    BY <1>1, <2>1, PrecRead
  <2> HIDE DEF width
  <2> QED BY <1>1, <1>8, <2>2
<1> HIDE DEF width, prec
<1>10. d = Argument(f, ToSet(F), WidthOf(a), prec)
  <2>1. prec.value = a.prec
    BY <1>9
  <2>2. ~(width.value > MaxFormat \/ prec.value > MaxFormat)
    BY <1>8, <2>1, FormatterAssumption DEF IsAsk, WidthOf, Larger
  <2> QED BY <1>6, <1>8, <2>2 DEF Directive
<1> HIDE DEF d
<1>11. /\ d.then = "format" /\ d.next = i5 + 1 /\ d.args = <<>> /\ IsAnswer(a, d.text)
       /\ d.low \in Int /\ d.low >= LeastLow(a)
  BY <1>2, <1>9, <1>10, ArgumentIs
<1> QED BY <1>11 DEF d, prec, width, j, i5

-----------------------------------------------------------------------------
(* A call that asks for a conversion *)

\* What such a call has written when it returns.
Answered(a, s) == \E text : IsAnswer(a, text) /\ s = Append(<<"a">> \o text, "b")

\* How far it is, and what of the text has been made there.
Progress(a, pos, args, all) ==
    \/ pos = 1 /\ args = ArgsOf(a) /\ all = <<>>
    \/ pos = 2 /\ args = ArgsOf(a) /\ all = <<"a">>
    \/ pos = ConvAt(a) + 1 /\ \E text : IsAnswer(a, text) /\ all = <<"a">> \o text
    \/ pos = ConvAt(a) + 2 /\ Answered(a, all)

AskInv ==
    call.ask # NoAsk =>
        /\ res = Running =>
              /\ ret = Running /\ scan.fmt = FormatOf(call.ask) /\ scan.then = "format"
              /\ IsText(scan.todo)
              /\ Progress(call.ask, scan.pos, scan.args, written \o scan.todo)
        /\ res # Running => Answered(call.ask, written) /\ res = Len(written)

LEMMA AskFacts ==
    ASSUME TypeOK, call.ask # NoAsk
    PROVE  /\ IsAsk(call.ask) /\ call.sink = "snprintf" /\ call.size > 0
           /\ call.format = FormatOf(call.ask) /\ FormatOf(call.ask) # NullArg
           /\ call.args = ArgsOf(call.ask)
           /\ Laid(call.ask, FormatOf(call.ask))
<1>1. call \in Calls
  BY DEF TypeOK
<1>2. /\ IsAsk(call.ask) /\ call.sink = "snprintf" /\ call.size > 0
      /\ call.format = FormatOf(call.ask) /\ call.format # NullArg
      /\ call.args = ArgsOf(call.ask)
  BY <1>1, ConversionsAssumption
<1>3. Laid(call.ask, FormatOf(call.ask))
  BY <1>2, FormatIsLaid
<1> QED BY <1>2, <1>3

LEMMA AnswerIsText ==
    ASSUME NEW a, NEW text, IsAnswer(a, text)
    PROVE  IsText(text)
<1>1. PICK t : IsText(t) /\ text = Prefix(a.conv) \o t
  BY DEF IsAnswer
<1>2. IsText(Prefix(a.conv))
  <2>1. IsText(<<"0", "x">>)
    BY Pair
  <2> QED BY <2>1, OneCharacter, NoCharacters DEF Prefix
<1> QED BY <1>1, <1>2, Concatenated

\* Where a call that asks for a conversion is, by the character it reads next.
LEMMA NextOfAsk ==
    ASSUME NEW a, IsAsk(a), NEW f, Laid(a, f), NEW pos, NEW args, NEW all, Progress(a, pos, args, all)
    PROVE  /\ At(f, pos) = "%" => pos = 2
           /\ At(f, pos) = NUL => pos = ConvAt(a) + 2
           /\ At(f, pos) \notin {NUL, "%"} => pos = 1 \/ pos = ConvAt(a) + 1
           /\ pos = 1 => At(f, pos) = "a"
           /\ pos = ConvAt(a) + 1 => At(f, pos) = "b"
<1>1. /\ Len(f) = ConvAt(a) + 1 /\ ConvAt(a) \in Int /\ 3 <= ConvAt(a)
      /\ At(f, 1) = "a" /\ At(f, 2) = "%" /\ At(f, ConvAt(a) + 1) = "b"
  BY DEF Laid
<1>2. At(f, ConvAt(a) + 2) = NUL
  <2>1. ConvAt(a) + 2 = Len(f) + 1 /\ ConvAt(a) + 2 \notin 1 .. Len(f)
    BY <1>1
  <2> QED BY <2>1 DEF At
<1>3. pos \in {1, 2, ConvAt(a) + 1, ConvAt(a) + 2}
  BY DEF Progress
<1> QED BY <1>1, <1>2, <1>3 DEF NUL

LEMMA InitAskInv == Init => AskInv
<1> SUFFICES ASSUME Init, call.ask # NoAsk PROVE AskInv
  BY DEF AskInv
<1>1. TypeOK
  BY InitIInv DEF IInv
<1>2. /\ scan.fmt = call.format /\ scan.pos = 1 /\ scan.args = call.args /\ scan.todo = <<>>
      /\ scan.then = "format" /\ written = <<>> /\ res = Running /\ ret = Running
  BY DEF Init
<1>3. <<>> \o <<>> = <<>> /\ IsText(<<>>)
  BY NoCharacters
<1>4. call.format = FormatOf(call.ask) /\ call.args = ArgsOf(call.ask)
  BY <1>1, AskFacts
<1> QED BY <1>2, <1>3, <1>4 DEF AskInv, Progress

\* formatter() reads on: it hands nothing to the callback.
LEMMA ReadOn ==
    ASSUME TypeOK, AskInv, call.ask # NoAsk, ReadsFormat
    PROVE  /\ res = Running /\ ret = Running /\ scan.fmt = FormatOf(call.ask) /\ scan.todo = <<>>
           /\ Progress(call.ask, scan.pos, scan.args, written)
<1>1. res = Running /\ scan.todo = <<>>
  BY DEF ReadsFormat, Scanning
<1>2. /\ ret = Running /\ scan.fmt = FormatOf(call.ask)
      /\ Progress(call.ask, scan.pos, scan.args, written \o scan.todo)
  BY <1>1 DEF AskInv
<1>3. written \o <<>> = written
  BY NoCharacters DEF TypeOK
<1> QED BY <1>1, <1>2, <1>3

\* A step within the format, that says what is written next.
LEMMA AskMoves ==
    ASSUME TypeOK, AskInv, call.ask # NoAsk, ReadsFormat,
           UNCHANGED <<call, written, res, ret>>,
           scan'.fmt = scan.fmt, scan'.then = "format", IsText(scan'.todo),
           Progress(call.ask, scan'.pos, scan'.args, written \o scan'.todo)
    PROVE  AskInv'
<1>1. res = Running /\ ret = Running /\ scan.fmt = FormatOf(call.ask)
  BY ReadOn
<1> QED BY <1>1 DEF AskInv

LEMMA AskPlainStep == IInv /\ AskInv /\ call.ask # NoAsk /\ PlainCharacter => AskInv'
<1> SUFFICES ASSUME IInv, AskInv, call.ask # NoAsk, PlainCharacter PROVE AskInv'
  OBVIOUS
<1> DEFINE a == call.ask
           f == scan.fmt
           c == Next0
<1>1. TypeOK /\ ScanType /\ ReadsFormat /\ c \notin {NUL, "%"} /\ Advance(<<c>>, 1)
      /\ UNCHANGED <<call, written, res, ret>>
  BY DEF PlainCharacter, IInv, TypeOK
<1>2. /\ f = FormatOf(a) /\ Progress(a, scan.pos, scan.args, written) /\ scan.then = "format"
  BY <1>1, ReadOn DEF ReadsFormat
<1>3. IsAsk(a) /\ Laid(a, f)
  BY <1>1, <1>2, AskFacts
<1>4. /\ scan.pos = 1 \/ scan.pos = ConvAt(a) + 1
      /\ scan.pos = 1 => c = "a"
      /\ scan.pos = ConvAt(a) + 1 => c = "b"
  BY <1>1, <1>2, <1>3, NextOfAsk DEF Next0
<1> HIDE DEF c
<1>5. /\ scan'.fmt = scan.fmt /\ scan'.pos = scan.pos + 1 /\ scan'.args = scan.args
      /\ scan'.todo = <<c>> /\ scan'.then = scan.then
  BY <1>1 DEF Advance, ScanType
<1>6. IsText(written) /\ written \o <<c>> = Append(written, c)
  BY <1>1, Appended DEF TypeOK
<1>7. ConvAt(a) \in Int /\ 3 <= ConvAt(a)
  BY <1>3 DEF Laid
<1>8. Progress(a, scan'.pos, scan'.args, written \o scan'.todo)
  <2>1. CASE scan.pos = 1
    <3>1. scan.args = ArgsOf(a) /\ written = <<>>
      BY <1>2, <1>7, <2>1 DEF Progress
    <3>2. <<>> \o <<c>> = <<c>> /\ c = "a" /\ 1 + 1 = 2
      BY <1>4, <2>1, NoCharacters, OneCharacter
    <3> QED BY <1>5, <2>1, <3>1, <3>2 DEF Progress
  <2>2. CASE scan.pos = ConvAt(a) + 1
    <3>1. PICK text : IsAnswer(a, text) /\ written = <<"a">> \o text
      BY <1>2, <1>7, <2>2 DEF Progress
    <3>2. c = "b" /\ scan'.pos = ConvAt(a) + 2
      BY <1>4, <1>5, <1>7, <2>2
    <3>3. Answered(a, written \o scan'.todo)
      BY <1>5, <1>6, <3>1, <3>2 DEF Answered
    <3> QED BY <3>2, <3>3 DEF Progress
  <2> QED BY <1>4, <2>1, <2>2
<1>9. IsText(scan'.todo)
  BY <1>5, OneCharacter
<1> QED BY <1>1, <1>2, <1>5, <1>8, <1>9, AskMoves

\* The directive of such a call.
LEMMA AskedDirective ==
    ASSUME IInv, AskInv, call.ask # NoAsk, Convert
    PROVE  /\ \E d : /\ Follow(d)
                    /\ d.then = "format" /\ d.next = ConvAt(call.ask) + 1 /\ d.args = <<>>
                    /\ IsAnswer(call.ask, d.text)
                    /\ d.low \in Int /\ d.low >= LeastLow(call.ask)
           /\ written = <<"a">>
<1> DEFINE a == call.ask
           f == scan.fmt
           i == scan.pos + 1
           j == Behind(f, i, FlagChars)
           width == Field(f, j, scan.args)
           prec == Precision(f, width.next, width.args)
           d == Directive(f, ToSet(SubSeq(f, i, j - 1)), width, prec)
<1>1. TypeOK /\ ReadsFormat /\ Next0 = "%" /\ Follow(d)
  BY DEF Convert, IInv
<1>2. f = FormatOf(a) /\ Progress(a, scan.pos, scan.args, written)
  BY <1>1, ReadOn
<1>3. IsAsk(a) /\ Laid(a, f) /\ ConvAt(a) \in Int /\ 3 <= ConvAt(a)
  BY <1>1, <1>2, AskFacts DEF Laid
<1>4. scan.pos = 2
  BY <1>1, <1>2, <1>3, NextOfAsk DEF Next0
<1>5. scan.args = ArgsOf(a) /\ written = <<"a">> /\ i = 3
  BY <1>2, <1>3, <1>4 DEF Progress
<1>6. /\ d.then = "format" /\ d.next = ConvAt(a) + 1 /\ d.args = <<>> /\ IsAnswer(a, d.text)
      /\ d.low \in Int /\ d.low >= LeastLow(a)
  <2> HIDE DEF f
  <2> QED BY <1>3, <1>5, DirectiveOfAsk
<1> HIDE DEF d
<1> QED BY <1>1, <1>5, <1>6

LEMMA AskConvertStep == IInv /\ AskInv /\ call.ask # NoAsk /\ Convert => AskInv'
<1> SUFFICES ASSUME IInv, AskInv, call.ask # NoAsk, Convert PROVE AskInv'
  OBVIOUS
<1> DEFINE a == call.ask
<1>1. TypeOK /\ ScanType /\ ReadsFormat /\ UNCHANGED <<call, written, res, ret>>
  BY DEF Convert, IInv, TypeOK
<1>2. PICK d : /\ Follow(d)
               /\ d.then = "format" /\ d.next = ConvAt(a) + 1 /\ d.args = <<>>
               /\ IsAnswer(a, d.text)
  BY AskedDirective
<1>3. /\ scan'.fmt = scan.fmt /\ scan'.pos = d.next /\ scan'.todo = d.text /\ scan'.then = "format"
  BY <1>1, <1>2 DEF Follow, ScanType
<1>4. IsText(scan'.todo)
  BY <1>2, <1>3, AnswerIsText
<1>5. Progress(a, scan'.pos, scan'.args, written \o scan'.todo)
  <2>1. written = <<"a">>
    BY AskedDirective
  <2> QED BY <1>2, <1>3, <2>1 DEF Progress
<1> QED BY <1>1, <1>3, <1>4, <1>5, AskMoves

LEMMA AskEndStep == IInv /\ AskInv /\ call.ask # NoAsk /\ EndOfFormat => AskInv'
<1> SUFFICES ASSUME IInv, AskInv, call.ask # NoAsk, EndOfFormat PROVE AskInv'
  OBVIOUS
<1> DEFINE a == call.ask
<1>1. TypeOK /\ ReadsFormat /\ Next0 = NUL /\ res' = Len(written)
      /\ UNCHANGED <<call, scan, written, ret>>
  BY DEF EndOfFormat, IInv
<1>2. scan.fmt = FormatOf(a) /\ Progress(a, scan.pos, scan.args, written)
  BY <1>1, ReadOn
<1>3. IsAsk(a) /\ Laid(a, scan.fmt) /\ ConvAt(a) \in Int /\ 3 <= ConvAt(a)
  BY <1>1, <1>2, AskFacts DEF Laid
<1>4. scan.pos = ConvAt(a) + 2
  BY <1>1, <1>2, <1>3, NextOfAsk DEF Next0
<1>5. Answered(a, written)
  BY <1>2, <1>3, <1>4 DEF Progress
<1>6. res' # Running
  BY <1>1, TextFacts DEF TypeOK, Running
<1> QED BY <1>1, <1>5, <1>6 DEF AskInv

\* No directive of such a call is a percent sign or breaks off.
LEMMA AskNoOther ==
    IInv /\ AskInv /\ call.ask # NoAsk => ~(NoFormat \/ PercentSign \/ Incomplete \/ Unsupported)
<1> SUFFICES ASSUME IInv, AskInv, call.ask # NoAsk PROVE ~(NoFormat \/ PercentSign \/ Incomplete \/ Unsupported)
  OBVIOUS
<1> DEFINE a == call.ask
<1>1. TypeOK /\ Laid(a, FormatOf(a)) /\ IsAsk(a) /\ FormatOf(a) # NullArg
  BY AskFacts DEF IInv
<1>2. ~NoFormat /\ ~Unsupported
  BY <1>1 DEF NoFormat, Unsupported, Scanning, AskInv
<1>3. ASSUME ReadsFormat, Next0 = "%", Next1 \in {NUL, "%"} PROVE FALSE
  <2>1. scan.fmt = FormatOf(a) /\ Progress(a, scan.pos, scan.args, written)
    BY <1>1, <1>3, ReadOn
  <2>2. scan.pos = 2
    BY <1>1, <1>3, <2>1, NextOfAsk DEF Next0
  <2>3. scan.pos + 1 = 3
    BY <2>2
  <2>4. At(scan.fmt, 3) # NUL /\ At(scan.fmt, 3) # "%"
    BY <1>1, <2>1, AskedFormat
  <2> QED BY <1>3, <2>3, <2>4 DEF Next1
<1> QED BY <1>2, <1>3 DEF PercentSign, Incomplete

LEMMA HandOver ==
    ASSUME NEW w, IsText(w), NEW t, IsText(t), t # <<>>
    PROVE  Append(w, Head(t)) \o Tail(t) = w \o t /\ IsText(Tail(t))
<1> DEFINE S == ToSet(w) \cup ToSet(t)
<1>1. w \in Seq(S) /\ t \in Seq(S)
  BY SeqMonotonic DEF IsText
<1> HIDE DEF S
<1>2. Head(t) \in S /\ Tail(t) \in Seq(S) /\ t = <<Head(t)>> \o Tail(t) /\ <<Head(t)>> \in Seq(S)
  BY <1>1, HeadTailProperties
<1>3. Append(w, Head(t)) = w \o <<Head(t)>>
  BY <1>1, <1>2
<1>4. (w \o <<Head(t)>>) \o Tail(t) = w \o (<<Head(t)>> \o Tail(t))
  BY <1>1, <1>2, ConcatAssociative
<1> QED BY <1>2, <1>3, <1>4, TextOf

LEMMA AskWriteStep == IInv /\ AskInv /\ call.ask # NoAsk /\ write_str => AskInv'
<1> SUFFICES ASSUME IInv, AskInv, call.ask # NoAsk, write_str PROVE AskInv'
  OBVIOUS
<1> DEFINE a == call.ask
<1>1. /\ TypeOK /\ ScanType /\ ret = Running /\ res = Running /\ scan.todo # <<>>
      /\ Wrote /\ UNCHANGED <<call, res, ret>>
  BY DEF write_str, Writing, IInv, TypeOK
<1>2. /\ scan.fmt = FormatOf(a) /\ scan.then = "format" /\ IsText(scan.todo)
      /\ Progress(a, scan.pos, scan.args, written \o scan.todo)
  BY <1>1 DEF AskInv
<1>3. /\ written' = Append(written, Head(scan.todo))
      /\ scan'.fmt = scan.fmt /\ scan'.pos = scan.pos /\ scan'.args = scan.args
      /\ scan'.todo = Tail(scan.todo) /\ scan'.then = scan.then
  BY <1>1 DEF Wrote, ScanType
<1>4. written' \o scan'.todo = written \o scan.todo /\ IsText(scan'.todo)
  BY <1>1, <1>2, <1>3, HandOver DEF TypeOK
<1> QED BY <1>1, <1>2, <1>3, <1>4 DEF AskInv

LEMMA AskReturnStep == IInv /\ AskInv /\ call.ask # NoAsk /\ snprintf => AskInv'
<1> SUFFICES ASSUME IInv, AskInv, call.ask # NoAsk, snprintf PROVE AskInv'
  OBVIOUS
<1>1. res # Running /\ UNCHANGED <<call, scan, written, res>>
  BY DEF snprintf, Returned
<1> QED BY <1>1 DEF AskInv

LEMMA NextAskInv == IInv /\ AskInv /\ [Next]_vars => AskInv'
<1> SUFFICES ASSUME IInv, AskInv, [Next]_vars PROVE AskInv'
  OBVIOUS
<1>1. CASE call.ask = NoAsk
  <2>1. call' = call
    BY DEF Next, vars, NoFormat, EndOfFormat, PlainCharacter, PercentSign, Incomplete, Convert,
           Unsupported, write_printf, flush_printf, write_str, printf, snprintf,
           EmptyBufferRefused, puts_null, puts_text, puts_newline
  <2> QED BY <1>1, <2>1 DEF AskInv
<1>2. CASE call.ask # NoAsk
  <2>1. call.sink = "snprintf" /\ call.size > 0
    BY <1>2, AskFacts DEF IInv
  <2>2. ~(write_printf \/ flush_printf \/ printf \/ EmptyBufferRefused \/ puts_null \/ puts_text \/ puts_newline)
    BY <2>1 DEF write_printf, flush_printf, printf, EmptyBufferRefused, EmptyBuffer, puts_null,
                puts_text, puts_newline, InPuts
  <2>3. CASE UNCHANGED vars
    BY <2>3 DEF vars, AskInv
  <2>4. PlainCharacter \/ Convert \/ EndOfFormat \/ write_str \/ snprintf \/ UNCHANGED vars
    BY <1>2, <2>2, AskNoOther DEF Next
  <2> QED BY <1>2, <2>3, <2>4, AskPlainStep, AskConvertStep, AskEndStep, AskWriteStep, AskReturnStep
<1> QED BY <1>1, <1>2

\* What such a call has written is the text it asks for.
LEMMA AnswerMeetsFormat == IInv /\ AskInv => ConversionMeetsFormat
<1> SUFFICES ASSUME IInv, AskInv, Done, call.ask # NoAsk
             PROVE  LET n == Len(Prefix(call.ask.conv))
                    IN  /\ Len(written) >= n + 2 /\ res = Len(written)
                        /\ Head(written) = "a" /\ Last(written) = "b"
                        /\ SubSeq(written, 2, n + 1) = Prefix(call.ask.conv)
                        /\ FieldOk(call.ask, SubSeq(written, n + 2, Len(written) - 1))
  BY DEF ConversionMeetsFormat
<1> DEFINE a == call.ask
           p == Prefix(a.conv)
           n == Len(p)
           A == <<"a">>
<1>1. res # Running /\ Answered(a, written) /\ res = Len(written)
  BY DEF AskInv, Done
<1>2. PICK text : IsAnswer(a, text) /\ written = Append(A \o text, "b")
  BY <1>1 DEF Answered
<1>3. PICK t : IsText(t) /\ FieldOk(a, t) /\ text = p \o t
  BY <1>2 DEF IsAnswer
<1>4. IsText(p) /\ n \in Nat
  <2>1. IsText(<<"0", "x">>)
    <3>1. 0 \in Int
      OBVIOUS
    <3> QED BY <3>1, Pair
  <2>2. IsText(p)
    BY <2>1, OneCharacter, NoCharacters DEF Prefix
  <2> QED BY <2>2, TextFacts
<1>5. IsText(A) /\ Len(A) = 1 /\ A[1] = "a"
  BY OneCharacter
<1> HIDE DEF A, p
<1>6. /\ IsText(text) /\ Len(text) = n + Len(t) /\ Len(t) \in Nat
      /\ \A i \in 1 .. n : text[i] = p[i]
      /\ \A i \in 1 .. Len(t) : text[n + i] = t[i]
  BY <1>3, <1>4, Concatenated, TextFacts
<1> DEFINE u == A \o text
<1>7. /\ IsText(u) /\ Len(u) = 1 + Len(text) /\ u[1] = "a"
      /\ \A i \in 1 .. Len(text) : u[1 + i] = text[i]
  <2> HIDE DEF n
  <2>1. /\ IsText(u) /\ Len(u) = Len(A) + Len(text)
        /\ \A i \in 1 .. Len(A) : u[i] = A[i]
        /\ \A i \in 1 .. Len(text) : u[Len(A) + i] = text[i]
    <3>1. IsText(A) /\ IsText(text)
      BY <1>5, <1>6
    <3> QED BY <3>1, Concatenated
  <2>2. 1 \in 1 .. Len(A)
    BY <1>5
  <2> HIDE DEF u
  <2> QED BY <1>5, <2>1, <2>2
<1> HIDE DEF u
<1>8. /\ IsText(written) /\ Len(written) = Len(u) + 1 /\ written[Len(u) + 1] = "b"
      /\ \A i \in 1 .. Len(u) : written[i] = u[i]
  BY <1>2, <1>7, Appended DEF u
<1>9. Len(written) = n + Len(t) + 2 /\ Len(u) = n + Len(t) + 1
  BY <1>4, <1>6, <1>7, <1>8
<1>10. Head(written) = "a" /\ Last(written) = "b"
  <2>1. written[1] = "a" /\ written[Len(written)] = "b"
    BY <1>4, <1>6, <1>7, <1>8, <1>9
  <2>2. Head(written) = written[1]
    BY <1>8 DEF IsText
  <2> QED BY <2>1, <2>2 DEF Last
<1>11. \A i \in 1 .. Len(text) : written[1 + i] = text[i]
  <2> SUFFICES ASSUME NEW i \in 1 .. Len(text) PROVE written[1 + i] = text[i]
    OBVIOUS
  <2>1. 1 + i \in 1 .. Len(u)
    BY <1>4, <1>6, <1>7
  <2> QED BY <1>7, <1>8, <2>1
<1>12. SubSeq(written, 2, n + 1) = p
  <2> DEFINE k == 1
  <2>1. k \in Nat /\ PartAt(written, k, p)
    <3> SUFFICES ASSUME NEW i \in 1 .. n PROVE written[1 + i] = p[i]
      BY DEF PartAt
    <3>1. i \in 1 .. Len(text)
      BY <1>4, <1>6
    <3> QED BY <1>6, <1>11, <3>1
  <2> HIDE DEF k
  <2>2. SubSeq(written, k + 1, k + Len(p)) = p
    BY <1>4, <1>8, <2>1, PartIs
  <2>3. k + 1 = 2 /\ k + Len(p) = n + 1
    BY <1>4 DEF k
  <2> QED BY <2>2, <2>3
<1>13. SubSeq(written, n + 2, Len(written) - 1) = t
  <2> DEFINE k == n + 1
  <2>1. k \in Nat /\ PartAt(written, k, t)
    <3>1. k \in Nat
      BY <1>4
    <3>2. ASSUME NEW i \in 1 .. Len(t) PROVE written[n + 1 + i] = t[i]
      <4>1. n + i \in 1 .. Len(text) /\ 1 + (n + i) = n + 1 + i
        BY <1>4, <1>6
      <4> QED BY <1>6, <1>11, <4>1
    <3> QED BY <3>1, <3>2 DEF PartAt
  <2> HIDE DEF k
  <2>2. SubSeq(written, k + 1, k + Len(t)) = t
    <3>1. IsText(written) /\ IsText(t)
      BY <1>3, <1>8
    <3> QED BY <2>1, <3>1, PartIs
  <2>3. k + 1 = n + 2 /\ k + Len(t) = Len(written) - 1
    BY <1>4, <1>6, <1>9 DEF k
  <2> QED BY <2>2, <2>3
<1>14. Len(written) >= n + 2
  BY <1>4, <1>6, <1>9
<1> QED BY <1>1, <1>3, <1>10, <1>12, <1>13, <1>14 DEF n, p

\* Every conversion of snprintf() writes what is asked for, for every value of
\* the type, every width, precision, flags and way to give them: a number whose
\* digits read back as the value, with exactly the sign that value and flags call
\* for and at least the precision, or the string or character, padded to the width
\* on the right side (printf.c:28-51, 99-353). Excepted is the plus of a short or
\* char, which the code never writes (PlusLost; printf.c:235-248).
THEOREM ConversionsMeetFormat == Spec => []ConversionMeetsFormat
<1>1. Init => AskInv
  BY InitAskInv
<1>2. IInv /\ AskInv /\ [Next]_vars => AskInv'
  BY NextAskInv
<1>3. IInv /\ AskInv => ConversionMeetsFormat
  BY AnswerMeetsFormat
<1> QED BY <1>1, <1>2, <1>3, Invariance, PTL DEF Spec

\* What is asked for overflows the array digits by no more than the sign of a %d:
\* low is its offset of the text's first character (printf.c:61, 298-314).
OnlySignOverflows ==
    call.ask # NoAsk => low \in Int /\ low >= LeastLow(call.ask)

LEMMA LowStep == IInv /\ AskInv /\ OnlySignOverflows /\ [Next]_vars => OnlySignOverflows'
<1> SUFFICES ASSUME IInv, AskInv, OnlySignOverflows, [Next]_vars PROVE OnlySignOverflows'
  OBVIOUS
<1> DEFINE a == call.ask
<1>1. call' = call /\ (low' = low \/ Convert)
  BY DEF Next, vars, NoFormat, EndOfFormat, PlainCharacter, PercentSign, Incomplete, Convert,
         Unsupported, write_printf, flush_printf, write_str, printf, snprintf,
         EmptyBufferRefused, puts_null, puts_text, puts_newline
<1>2. CASE low' = low
  BY <1>1, <1>2 DEF OnlySignOverflows
<1>3. ASSUME Convert, a # NoAsk PROVE low' \in Int /\ low' >= LeastLow(a)
  <2>1. PICK d : Follow(d) /\ d.low \in Int /\ d.low >= LeastLow(a)
    BY <1>3, AskedDirective
  <2>2. low' = Smaller(low, d.low)
    BY <2>1 DEF Follow
  <2>3. low \in Int /\ low >= LeastLow(a) /\ LeastLow(a) \in Int
    BY <1>3 DEF OnlySignOverflows, LeastLow
  <2> QED BY <2>1, <2>2, <2>3 DEF Smaller
<1> QED BY <1>1, <1>2, <1>3 DEF OnlySignOverflows

\* Finding printf_digits in general: of all the numbers that can be asked for, with
\* any width, precision and flags, none is written more than one character before
\* the array, and that one is a sign (printf.c:61, 154, 302-314).
THEOREM OverflowIsOneSign == Spec => []OnlySignOverflows
<1>1. Init => OnlySignOverflows
  BY FormatterAssumption DEF Init, OnlySignOverflows, LeastLow
<1>2. Init => AskInv
  BY InitAskInv
<1>3. IInv /\ AskInv /\ [Next]_vars => AskInv'
  BY NextAskInv
<1>4. IInv /\ AskInv /\ OnlySignOverflows /\ [Next]_vars => OnlySignOverflows'
  BY LowStep
<1> QED BY <1>1, <1>2, <1>3, <1>4, Invariance, PTL DEF Spec

-----------------------------------------------------------------------------
(* What printf() returns *)

\* The text up to now is a number of full buffers and what is in the buffer.
Pieces(n, rest) ==
    /\ rest <= BufferSize /\ (n > 0 => rest >= 1)
    /\ \E q \in Nat : n = q * BufferSize + rest

CountInv ==
    call.sink = "printf" =>
        /\ Pieces(Len(written), Len(buf))
        /\ res \in {Running, EOF, Len(written)} /\ (Done => res # Running)
        /\ Done /\ device = "ok" /\ res > 0 => ret = Len(buf)

LEMMA InitCount == Init => CountInv
<1> SUFFICES ASSUME Init PROVE CountInv
  OBVIOUS
<1>1. written = <<>> /\ buf = <<>> /\ res = Running /\ ret = Running /\ Len(<<>>) = 0
  BY NoCharacters DEF Init
<1>2. BufferSize \in Nat \ {0}
  BY PrintfAssumption
<1>3. Pieces(0, 0)
  <2>1. 0 = 0 * BufferSize + 0 /\ 0 \in Nat /\ 0 <= BufferSize
    BY <1>2
  <2> QED BY <2>1 DEF Pieces
<1> QED BY <1>1, <1>3 DEF CountInv, Running, Done

\* One more character, in a buffer that has room for it.
LEMMA OneMore ==
    ASSUME NEW n \in Nat, NEW rest \in Nat, Pieces(n, rest), rest < BufferSize
    PROVE  Pieces(n + 1, rest + 1)
<1>1. PICK q \in Nat : n = q * BufferSize + rest
  BY DEF Pieces
<1>2. BufferSize \in Nat \ {0}
  BY PrintfAssumption
<1> DEFINE m == q * BufferSize
<1>3. m \in Nat /\ n = m + rest
  BY <1>1, <1>2
<1> HIDE DEF m
<1>4. n + 1 = m + (rest + 1) /\ rest + 1 <= BufferSize /\ rest + 1 >= 1
  BY <1>2, <1>3
<1> QED BY <1>4 DEF Pieces, m

\* One more character, after the full buffer was printed.
LEMMA NextPiece ==
    ASSUME NEW n \in Nat, Pieces(n, BufferSize)
    PROVE  Pieces(n + 1, 1)
<1>1. PICK q \in Nat : n = q * BufferSize + BufferSize
  BY DEF Pieces
<1>2. BufferSize \in Nat \ {0}
  BY PrintfAssumption
<1>3. (q + 1) * BufferSize = q * BufferSize + BufferSize /\ q + 1 \in Nat
  BY <1>2
<1>4. n + 1 = (q + 1) * BufferSize + 1 /\ 1 <= BufferSize
  BY <1>1, <1>2, <1>3
<1> QED BY <1>3, <1>4 DEF Pieces

LEMMA CountStep == IInv /\ CountInv /\ [Next]_vars => CountInv'
<1> SUFFICES ASSUME IInv, CountInv, [Next]_vars PROVE CountInv'
  OBVIOUS
<1>1. IsText(written) /\ IsText(buf) /\ Len(written) \in Nat /\ Len(buf) \in Nat
  BY TextFacts DEF IInv, TypeOK
<1>2. CASE call.sink # "printf"
  <2>1. call' = call
    BY DEF Next, vars, NoFormat, EndOfFormat, PlainCharacter, PercentSign, Incomplete, Convert,
           Unsupported, write_printf, flush_printf, write_str, printf, snprintf,
           EmptyBufferRefused, puts_null, puts_text, puts_newline
  <2> QED BY <1>2, <2>1 DEF CountInv
<1>3. CASE UNCHANGED vars
  BY <1>3 DEF vars, CountInv, Done
<1>4. ASSUME call.sink = "printf",
             NoFormat \/ EndOfFormat \/ PlainCharacter \/ PercentSign \/ Incomplete \/ Convert \/ Unsupported
      PROVE  CountInv'
  <2>1. ret = Running /\ UNCHANGED <<call, written, buf, device, ret>>
        /\ res' \in {Running, EOF, Len(written)}
    BY <1>4 DEF NoFormat, EndOfFormat, PlainCharacter, PercentSign, Incomplete, Convert, Unsupported,
                ReadsFormat, Scanning, sink
  <2> QED BY <1>4, <2>1 DEF CountInv, Done
<1>5. ASSUME call.sink = "printf", write_printf PROVE CountInv'
  <2>1. /\ ret = Running /\ res = Running /\ Len(buf) < BufferSize
        /\ buf' = Append(buf, Head(scan.todo)) /\ written' = Append(written, Head(scan.todo))
        /\ UNCHANGED <<call, res, device, ret>>
    BY <1>5 DEF write_printf, Writing, Wrote
  <2>2. Len(buf') = Len(buf) + 1 /\ Len(written') = Len(written) + 1
    BY <1>1, <2>1, Appended
  <2>3. Pieces(Len(written), Len(buf))
    BY <1>5 DEF CountInv
  <2>4. Pieces(Len(written'), Len(buf'))
    BY <1>1, <2>1, <2>2, <2>3, OneMore
  <2> QED BY <2>1, <2>4 DEF CountInv, Done, Running, Pieces
<1>6. ASSUME call.sink = "printf", flush_printf PROVE CountInv'
  <2>1. /\ ret = Running /\ res = Running /\ Len(buf) = BufferSize
        /\ UNCHANGED <<call, ret>>
        /\ \/ res' = EOF /\ UNCHANGED <<buf, written>>
           \/ /\ buf' = <<Head(scan.todo)>> /\ written' = Append(written, Head(scan.todo))
              /\ res' = res
    BY <1>6 DEF flush_printf, Writing, Wrote, Flushed
  <2>2. Pieces(Len(written), Len(buf))
    BY <1>6 DEF CountInv
  <2>3. CASE res' = EOF /\ UNCHANGED <<buf, written>>
    BY <2>1, <2>2, <2>3 DEF CountInv, Done, Running, EOF, Pieces
  <2>4. CASE buf' = <<Head(scan.todo)>> /\ written' = Append(written, Head(scan.todo)) /\ res' = res
    <3>1. Len(buf') = 1 /\ Len(written') = Len(written) + 1
      BY <1>1, <2>4, Appended
    <3>2. Pieces(Len(written'), Len(buf'))
      BY <1>1, <2>1, <2>2, <3>1, NextPiece
    <3> QED BY <2>1, <2>4, <3>2 DEF CountInv, Done, Running, Pieces
  <2> QED BY <2>1, <2>3, <2>4
<1>7. ASSUME call.sink = "printf", printf PROVE CountInv'
  <2>1. UNCHANGED <<call, written, buf, res>>
    BY <1>7 DEF printf
  <2>2. ASSUME device' = "ok", res > 0 PROVE ret' = Len(buf)
    <3>1. PICK r \in PutnstrResults(buf) : putnstr(buf, r) /\ ret' = r
      BY <1>7, <2>2 DEF printf
    <3>2. r = Len(buf)
      BY <2>2, <3>1 DEF putnstr
    <3> QED BY <3>1, <3>2
  <2>3. res # Running
    BY <1>7 DEF printf, Returned
  <2> QED BY <1>7, <2>1, <2>2, <2>3 DEF CountInv, Pieces
<1>8. ASSUME call.sink = "printf"
      PROVE  ~(write_str \/ snprintf \/ EmptyBufferRefused \/ puts_null \/ puts_text \/ puts_newline)
  BY <1>8 DEF write_str, snprintf, EmptyBufferRefused, EmptyBuffer, puts_null, puts_text, puts_newline, InPuts
<1> QED BY <1>2, <1>3, <1>4, <1>5, <1>6, <1>7, <1>8 DEF Next

\* The pieces that were printed, where printf() drops what is in the buffer.
LEMMA PiecesPrinted ==
    ASSUME IInv, call.sink = "printf", CountInv, ErrorBehind
    PROVE  PiecesAndError
<1>1. PICK p : IsText(p) /\ p \o buf = written /\ out = p \o Append(ErrorStr, NUL)
  BY DEF ErrorBehind
<1>2. IsText(buf) /\ Len(p) \in Nat /\ Len(buf) \in Nat /\ BufferSize \in Nat \ {0}
  BY <1>1, TextFacts, PrintfAssumption DEF IInv, TypeOK
<1>3. Len(written) = Len(p) + Len(buf) /\ SubSeq(written, 1, Len(p)) = p
  BY <1>1, <1>2, Concatenated, PartsOf
<1>4. PICK q \in Nat : Len(written) = q * BufferSize + Len(buf)
  BY DEF CountInv, Pieces
<1>5. Len(buf) <= BufferSize
  BY DEF CountInv, Pieces
<1>6. Len(p) % BufferSize = 0
  <2> DEFINE m == q * BufferSize
  <2>1. m \in Nat
    BY <1>2
  <2>2. (m + 0) % BufferSize = 0
    <3>1. q \in Int /\ 0 \in 0 .. BufferSize - 1
      BY <1>2
    <3> QED BY <1>2, <3>1, OneQuotient
  <2>3. Len(written) = m + Len(buf)
    BY <1>4
  <2> HIDE DEF m
  <2>4. Len(p) = m + 0
    <3> DEFINE k == Len(p)
               rest == Len(buf)
    <3>1. k \in Nat /\ rest \in Nat /\ k + rest = m + rest
      BY <1>2, <1>3, <2>3
    <3> HIDE DEF k, rest
    <3>2. k = m + 0
      BY <2>1, <3>1
    <3> QED BY <3>2 DEF k
  <2> QED BY <2>2, <2>4
<1>7. Len(p) \in 0 .. Len(written) /\ Len(written) - Len(p) <= BufferSize
  BY <1>2, <1>3, <1>5
<1> QED BY <1>1, <1>3, <1>6, <1>7 DEF PiecesAndError

\* When every putnstr() took all it was given and formatter() returned the length
\* of a text, standard output has this text in order and nothing else, whatever
\* the size of the buffer and of the text; when it returned 0 or EOF, the pieces
\* printed so far, which lack at most what is in the buffer, and ERROR_STR
\* (printf.c:362-374, 385-388).
THEOREM OutputIsInOrder == Spec => []BufferedOutputInOrder
<1>1. Init => CountInv
  BY InitCount
<1>2. IInv /\ CountInv /\ [Next]_vars => CountInv'
  BY CountStep
<1>3. IInv /\ CountInv => BufferedOutputInOrder
  <2> SUFFICES ASSUME IInv, CountInv, Done, call.sink = "printf", device = "ok"
               PROVE  /\ res \in {Len(written), EOF}
                      /\ IF res > 0 THEN out = written ELSE PiecesAndError
    BY DEF BufferedOutputInOrder
  <2>1. res \in {Len(written), EOF}
    BY DEF CountInv
  <2>2. CASE res > 0
    BY <2>1, <2>2 DEF IInv, InOrder
  <2>3. CASE ~(res > 0)
    <3>1. ErrorBehind
      BY <2>3 DEF IInv, InOrder
    <3> QED BY <2>1, <2>3, <3>1, PiecesPrinted
  <2> QED BY <2>2, <2>3
<1> QED BY <1>1, <1>2, <1>3, Invariance, PTL DEF Spec

\* What printf() returns when every putnstr() took all it was given: the length of
\* the text without the full buffers printed before its last piece. It is the
\* number of characters written just if the text fits the buffer (printf.c:362-374,
\* 386-388, against stdio.h:65); finding printf_count is one of the other cases.
ReturnsLastPiece ==
    Done /\ call.sink = "printf" /\ device = "ok" /\ res > 0 =>
        /\ ret \in 1 .. BufferSize
        /\ \E q \in Nat : Len(out) = q * BufferSize + ret
        /\ ret = Len(out) <=> Len(out) <= BufferSize

LEMMA CountedPieces == IInv /\ CountInv => ReturnsLastPiece
<1> SUFFICES ASSUME IInv, CountInv, Done, call.sink = "printf", device = "ok", res > 0
             PROVE  /\ ret \in 1 .. BufferSize
                    /\ \E q \in Nat : Len(out) = q * BufferSize + ret
                    /\ ret = Len(out) <=> Len(out) <= BufferSize
  BY DEF ReturnsLastPiece
<1> DEFINE n == Len(out)
<1>1. out = written /\ res = n /\ ret = Len(buf) /\ Pieces(n, ret)
  BY DEF IInv, InOrder, CountInv, Running, EOF
<1>2. ret \in Nat /\ n \in Nat /\ BufferSize \in Nat \ {0}
  BY <1>1, TextFacts, PrintfAssumption DEF IInv, TypeOK
<1> HIDE DEF n
<1>3. PICK q \in Nat : n = q * BufferSize + ret
  BY <1>1 DEF Pieces
<1>4. ret <= BufferSize /\ ret >= 1
  BY <1>1, <1>2 DEF Pieces
<1>5. ASSUME n <= BufferSize PROVE ret = n
  <2>1. CASE q = 0
    BY <1>2, <1>3, <2>1
  <2>2. CASE q # 0
    <3>1. q - 1 \in Nat
      BY <2>2
    <3>2. q * BufferSize = (q - 1) * BufferSize + BufferSize /\ (q - 1) * BufferSize \in Nat
      BY <1>2, <3>1
    <3> QED BY <1>2, <1>3, <1>4, <1>5, <3>2
  <2> QED BY <2>1, <2>2
<1>6. ret \in 1 .. BufferSize /\ (ret = n <=> n <= BufferSize)
  BY <1>2, <1>4, <1>5
<1> QED BY <1>3, <1>6 DEF n

\* For every text, every size of the buffer and every series of putnstr() results:
\* printf() returns the length of the last piece it printed.
THEOREM LastPieceIsReturned == Spec => []ReturnsLastPiece
<1>1. Init => CountInv
  BY InitCount
<1>2. IInv /\ CountInv /\ [Next]_vars => CountInv'
  BY CountStep
<1>3. IInv /\ CountInv => ReturnsLastPiece
  BY CountedPieces
<1> QED BY <1>1, <1>2, <1>3, Invariance, PTL DEF Spec

=============================================================================

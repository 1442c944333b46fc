------------------------------- MODULE Printf -------------------------------
(***************************************************************************)
(* printf(), snprintf() and puts() of src/src/printf.c: formatter() walks  *)
(* over the format and hands each character it makes to a callback,        *)
(* write_printf(), which gathers them in a buffer for putnstr(), or        *)
(* write_str(), which stores them in the caller's memory. vsnprintf() is   *)
(* snprintf() with its arguments in a va_list; puts() needs no formatter.  *)
(*                                                                         *)
(* One behaviour is one call. putnstr() (the write system call) may fail   *)
(* or write less than it was given.                                        *)
(***************************************************************************)
EXTENDS Formatter

CONSTANTS
    Calls,       \* the calls: [sink, size, format, args, ask], see Init
    BufferSize,  \* PRINTF_BUFFER_SIZE
    MemorySize   \* bytes of memory from the caller's buffer on

\* A text, whatever its characters are.
IsText(s) == s \in Seq(ToSet(s))

\* The caller's buffer has the n bytes that snprintf() is told it has.
ASSUME PrintfAssumption ==
    /\ BufferSize \in Nat \ {0} /\ MemorySize \in Nat
    /\ \A k \in Calls : /\ k.sink \in {"printf", "snprintf", "puts"}
                        /\ k.size \in 0..MemorySize
                        /\ k.format # NullArg => IsText(k.format)

EOF     == -1
Running == -2     \* res, ret: the function has not returned
Other   == "other"  \* a byte of memory nobody has written

VARIABLES
    call,     \* the call: its sink "printf", "snprintf" or "puts", the size n
              \*   given to snprintf, the format (of puts, the text) and the
              \*   arguments; `ask` is what the caller means by them
    scan,     \* formatter(): [fmt, pos, args] it reads from, [todo, then] the
              \*   text of the current directive and what follows it
    written,  \* the characters handed to the callback; count is their number
    low,      \* the least index of digits used
    res,      \* what formatter() returned; in puts(), the first putnstr()
    buf,      \* printf_state.buf[0..len-1]
    out,      \* the characters that reached standard output
    device,   \* "ok", or "short" or "failed" after such a putnstr()
    mem, at,  \* the caller's memory; snprintf_state.str as an index of it
    ret       \* what the call returned

vars == <<call, scan, written, low, res, buf, out, device, mem, at, ret>>
sink == <<buf, out, device, mem, at>>

Init ==
    /\ call \in Calls
    /\ scan = [fmt |-> call.format, pos |-> 1, args |-> call.args,
               todo |-> <<>>, then |-> "format"]
    /\ written = <<>> /\ low = DigitsSize - 1 /\ res = Running
    /\ buf = <<>> /\ out = <<>> /\ device = "ok"
    /\ mem = [a \in 0..MemorySize-1 |-> Other] /\ at = 0
    /\ ret = Running

-----------------------------------------------------------------------------
(* formatter() *)

EmptyBuffer == call.sink = "snprintf" /\ call.size = 0

Scanning == /\ call.sink # "puts" /\ ~EmptyBuffer
            /\ ret = Running /\ res = Running /\ scan.todo = <<>>

Next0 == At(scan.fmt, scan.pos)
Next1 == At(scan.fmt, scan.pos + 1)

\* Go on behind n characters, with a text to write.
Advance(text, n) == scan' = [scan EXCEPT !.pos = @ + n, !.todo = text]

NoFormat ==
    /\ Scanning /\ scan.fmt = NullArg
    /\ res' = EOF
    /\ UNCHANGED <<call, scan, written, low, sink, ret>>

ReadsFormat == Scanning /\ scan.fmt # NullArg /\ scan.then = "format"

EndOfFormat ==
    /\ ReadsFormat /\ Next0 = NUL
    /\ res' = Len(written)
    /\ UNCHANGED <<call, scan, written, low, sink, ret>>

PlainCharacter ==
    /\ ReadsFormat /\ Next0 \notin {NUL, "%"}
    /\ Advance(<<Next0>>, 1)
    /\ UNCHANGED <<call, written, low, res, sink, ret>>

PercentSign ==
    /\ ReadsFormat /\ Next0 = "%" /\ Next1 = "%"
    /\ Advance(<<"%">>, 2)
    /\ UNCHANGED <<call, written, low, res, sink, ret>>

Incomplete ==
    /\ ReadsFormat /\ Next0 = "%" /\ Next1 = NUL
    /\ scan' = [scan EXCEPT !.fmt = ErrorStr, !.pos = 1]
    /\ UNCHANGED <<call, written, low, res, sink, ret>>

\* The directive's text is written next; then the format goes on behind it,
\* ERROR_STR takes the place of the format, or the call ends with EOF.
Follow(d) ==
    /\ scan' = [scan EXCEPT
                    !.fmt  = IF d.then = "error" THEN ErrorStr ELSE @,
                    !.pos  = d.next,
                    !.args = d.args,
                    !.todo = d.text,
                    !.then = IF d.then = "eof" THEN "eof" ELSE "format"]
    /\ low' = Smaller(low, d.low)

Convert ==
    /\ ReadsFormat /\ Next0 = "%" /\ Next1 \notin {NUL, "%"}
    /\ \E j \in {Behind(scan.fmt, scan.pos + 1, FlagChars)} :
       \E width \in {Field(scan.fmt, j, scan.args)} :
       \E prec \in {Precision(scan.fmt, width.next, width.args)} :
       \E d \in {Directive(scan.fmt, ToSet(SubSeq(scan.fmt, scan.pos + 1, j - 1)), width, prec)} :
          Follow(d)
    /\ UNCHANGED <<call, written, res, sink, ret>>

Unsupported ==
    /\ Scanning /\ scan.then = "eof"
    /\ res' = EOF
    /\ UNCHANGED <<call, scan, written, low, sink, ret>>

-----------------------------------------------------------------------------
(* The callbacks, and what the functions do when formatter() has returned *)

Writing == ret = Running /\ res = Running /\ scan.todo # <<>>

\* The callback returned true: one more character is written.
Wrote ==
    /\ written' = Append(written, Head(scan.todo))
    /\ scan' = [scan EXCEPT !.todo = Tail(@)]

\* putnstr(s) returns r: -1, or how many characters of s it wrote.
PutnstrResults(s) == {-1} \cup Smaller(1, Len(s)) .. Len(s)

putnstr(s, r) ==
    /\ out' = out \o SubSeq(s, 1, r)
    /\ device' = CASE r = -1 -> "failed"
                   [] r = Len(s) -> device
                   [] OTHER -> IF device = "ok" THEN "short" ELSE device

write_printf ==
    /\ Writing /\ call.sink = "printf" /\ Len(buf) < BufferSize
    /\ buf' = Append(buf, Head(scan.todo))
    /\ Wrote
    /\ UNCHANGED <<call, low, res, out, device, mem, at, ret>>

Flushed_bug_lost == <<>>
\* The buffer after it was printed for want of room.
Flushed == <<Head(scan.todo)>>

FlushFails_bug_ignored(r) == FALSE
FlushFails(r) == r < 0

flush_printf ==
    /\ Writing /\ call.sink = "printf" /\ Len(buf) = BufferSize
    /\ \E r \in PutnstrResults(buf) :
          /\ putnstr(buf, r)
          /\ IF FlushFails(r)
             THEN res' = EOF /\ UNCHANGED <<buf, scan, written>>
             ELSE buf' = Flushed /\ Wrote /\ UNCHANGED res
    /\ UNCHANGED <<call, low, mem, at, ret>>

HasRoom_bug_terminator == at < call.size
HasRoom == at < call.size - 1

write_str ==
    /\ Writing /\ call.sink = "snprintf"
    /\ IF HasRoom
       THEN mem' = [mem EXCEPT ![at] = Head(scan.todo)] /\ at' = at + 1
       ELSE UNCHANGED <<mem, at>>
    /\ Wrote
    /\ UNCHANGED <<call, low, res, buf, out, device, ret>>

Returned == ret = Running /\ res # Running

\* printf() returns what the last putnstr() returned, if anything was written.
printf ==
    /\ Returned /\ call.sink = "printf"
    /\ IF res > 0
       THEN \E r \in PutnstrResults(buf) : putnstr(buf, r) /\ ret' = r
       ELSE LET s == Append(ErrorStr, NUL)
            IN  \E r \in PutnstrResults(s) : putnstr(s, r) /\ ret' = res
    /\ UNCHANGED <<call, scan, written, low, res, buf, mem, at>>

\* The last byte of the buffer, and the one behind the text.
Terminated == [mem EXCEPT ![call.size - 1] = NUL, ![at] = NUL]

snprintf ==
    /\ Returned /\ call.sink = "snprintf"
    /\ mem' = Terminated
    /\ ret' = res
    /\ UNCHANGED <<call, scan, written, low, res, buf, out, device, at>>

EmptyBufferRefused ==
    /\ ret = Running /\ EmptyBuffer
    /\ ret' = -1
    /\ UNCHANGED <<call, scan, written, low, res, sink>>

InPuts == call.sink = "puts" /\ ret = Running

puts_null ==
    /\ InPuts /\ call.format = NullArg
    /\ ret' = EOF
    /\ UNCHANGED <<call, scan, written, low, res, sink>>

puts_text ==
    /\ InPuts /\ call.format # NullArg /\ res = Running
    /\ \E r \in PutnstrResults(call.format) :
          /\ putnstr(call.format, r)
          /\ IF r >= 0 THEN res' = r /\ UNCHANGED ret ELSE ret' = r /\ UNCHANGED res
    /\ UNCHANGED <<call, scan, written, low, buf, mem, at>>

puts_newline ==
    /\ InPuts /\ res # Running
    /\ \E r \in PutnstrResults(<<"newline">>) : putnstr(<<"newline">>, r) /\ ret' = r
    /\ UNCHANGED <<call, scan, written, low, res, buf, mem, at>>

Next ==
    \/ NoFormat \/ EndOfFormat \/ PlainCharacter \/ PercentSign
    \/ Incomplete \/ Convert \/ Unsupported
    \/ write_printf \/ flush_printf \/ write_str
    \/ printf \/ snprintf \/ EmptyBufferRefused
    \/ puts_null \/ puts_text \/ puts_newline

\* A function that is running goes on running.
Spec == Init /\ [][Next]_vars /\ WF_vars(Next)

-----------------------------------------------------------------------------
(* Properties *)

Done == ret # Running

\* What is on standard output when formatter() returned 0 or EOF: the pieces that
\* had filled the buffer, and ERROR_STR with its NUL (printf.c:369, 388). The
\* characters still in the buffer are dropped.
PiecesAndError ==
    \E k \in 0..Len(written) :
        /\ k % BufferSize = 0 /\ Len(written) - k <= BufferSize
        /\ out = SubSeq(written, 1, k) \o Append(ErrorStr, NUL)

\* What printf() wrote is the text, in order and complete, whenever putnstr()
\* wrote all it was given: also when the text has to be printed in pieces
\* (printf.c:365-372, 386), a piece being full just when the text ends included.
\* An empty text, for which printf() writes ERROR_STR, and a text cut off by
\* EOF, at a conversion that is not supported, lose nothing but what was still
\* in the buffer.
BufferedOutputInOrder ==
    Done /\ call.sink = "printf" /\ device = "ok" =>
        /\ res \in {Len(written), EOF}
        /\ IF res > 0 THEN out = written ELSE PiecesAndError

\* A putnstr() that fails, for whichever piece of the text, makes printf() and
\* puts() return a negative number (printf.c:84, 369, 386, 400); only printf()
\* of an empty text ignores it (printf.c:388).
FailureReported ==
    Done /\ device = "failed" => ret < 0 \/ (call.sink = "printf" /\ res = 0)

\* snprintf() leaves in the buffer the first n - 1 characters of the text and a
\* NUL behind them, writes nothing behind the n bytes, and returns the length
\* of the whole text (printf.c:420-425), or EOF; then too there is a NUL.
SnprintfTruncates ==
    Done /\ call.sink = "snprintf" /\ call.size > 0 =>
        LET n == Smaller(Len(written), call.size - 1)
        IN  /\ \A i \in 1..n : mem[i - 1] = written[i]
            /\ mem[n] = NUL /\ mem[call.size - 1] = NUL
            /\ \A a \in call.size .. MemorySize-1 : mem[a] = Other
            /\ ret \in {Len(written), EOF}

\* formatter() reads no character behind the NUL of the format, wherever the
\* format breaks off within a directive.
FormatNotOverread == scan.fmt # NullArg => scan.pos <= Len(scan.fmt) + 1

\* Every call returns: ERROR_STR, which takes the place of a format that cannot
\* be followed, is itself followed to its end.
Returns == <>Done

\* "Buffer for text representation" (printf.c:61): the text of a number starts
\* within it, also when the precision asks for as many digits as it holds.
NumberFitsBuffer == low >= 0

\* printf() returns "number of characters written" (stdio.h:65).
ReturnsCharactersWritten ==
    Done /\ call.sink = "printf" /\ device = "ok" /\ res > 0 => ret = Len(out)

=============================================================================

------------------------------ MODULE MCPrintf ------------------------------
(***************************************************************************)
(* The calls that TLC makes of Printf. Integers are scaled down to 3, 4, 5 *)
(* and 6 bits, the array digits to 6 + 4 characters (64 + 4 in the code)   *)
(* and the buffer of printf() to 3.                                        *)
(***************************************************************************)
EXTENDS Conversions

Ask(flags, widths, precs, mods, convs, values(_)) ==
    UNION {[flags : flags, width : widths, prec : precs, stars : {{}}, mod : {m},
            conv : convs, value : values(m)] : m \in mods}

SignedValues(m) ==
    LET n == TypeOf([mod |-> m, conv |-> "d"]) IN {-(n \div 2), -3, 0, (n \div 2) - 1}
UnsignedValues(m) == LET n == TypeOf([mod |-> m, conv |-> "u"]) IN {0, 5, n - 1}
Mods == {<<"h", "h">>, <<"h">>, <<>>, <<"l">>}
FlagTexts == {<<>>, <<"-">>, <<"+">>, <<"0">>, <<" ">>, <<"+", " ">>, <<"0", "-", "0">>}

Asks ==
    Ask(FlagTexts, {0, 4, 12}, {0, 3, 8}, Mods, {"d"}, SignedValues)
    \cup Ask({<<>>, <<"-">>, <<"0">>, <<"#">>}, {0, 4}, {0, 3}, Mods, {"u", "x", "X", "o", "b"}, UnsignedValues)
    \cup Ask({<<>>}, {0}, {0}, Modifiers, {"u"}, UnsignedValues)
    \cup Ask({<<>>, <<"-">>}, {0, 6}, {0}, {<<>>}, {"p"}, LAMBDA m : {0, 10, LongMod - 1})
    \cup Ask({<<>>, <<"-">>, <<"0">>}, {0, 4}, {0, 2}, {<<>>}, {"s"},
             LAMBDA m : {<<>>, <<"x", "y", "z">>, <<"x", "y", "z", "x", "y", "z">>})
    \cup Ask({<<>>}, {0}, {0}, Mods, {"c"}, LAMBDA m : {"q"})
    \cup {[a EXCEPT !.stars = s, !.width = IF "width" \in s THEN w ELSE 4] :
             s \in {{"width"}, {"prec"}, {"width", "prec"}}, w \in {-3, 0, 5},
             a \in Ask({<<>>, <<"-">>}, {0}, {0, 3}, {<<>>}, {"d"}, LAMBDA m : {-3, 7})}

\* Formats that break off, ask for too much, or for what does not exist.
OddFormats ==
    {<<"%">>, <<"a", "%">>, <<"%", "-">>, <<"%", "5">>, <<"%", ".">>, <<"%", "3", ".">>,
     <<"%", "h">>, <<"%", "h", "h">>, <<"%", "l">>, <<"%", "l", "l">>, <<"%", "z">>,
     <<"%", "q">>, Repeat("x", 4) \o <<"%", "q">>, <<"%", "%">>, <<"a", "%", "%", "b">>,
     <<"%", "1", "3", "d">>, <<"%", ".", "1", "3", "d">>, <<"%", ".", "1", "0", "o">>,
     <<"%", ".", "1", "0", "p">>, <<"%", "3", "5", "d">>, <<"%", "H">>}

Call(s, n, f, as) == [sink |-> s, size |-> n, format |-> f, args |-> as, ask |-> NoAsk]

Texts == {Repeat("x", n) : n \in 0..7}

MCCalls ==
    {[sink |-> "snprintf", size |-> 20, format |-> FormatOf(a), args |-> ArgsOf(a), ask |-> a] : a \in Asks}
    \cup {Call(s, 0, f, <<>>) : s \in {"printf", "puts"}, f \in Texts \cup {NullArg}}
    \cup {Call("snprintf", n, f, <<>>) : f \in Texts \cup {NullArg}, n \in 0..5}
    \cup {Call(s, 4, f, <<1>>) : s \in {"printf", "snprintf"}, f \in OddFormats}
    \cup {Call(s, 4, <<"%", ".", "2", "H">>, <<bytes>>) :
             s \in {"printf", "snprintf"}, bytes \in {NullArg, <<18, 127>>, <<18, -1>>}}
    \cup {Call("snprintf", n, <<"%", "s">>, <<NullArg>>) : n \in {1, 3, 7}}

\* "%+.9d": the longest text a number can have, with a sign.
LongNumbers ==
    {Call("snprintf", 20, <<"%", "+", ".", "9", "d">>, <<v>>) : v \in {3, -3}}

=============================================================================

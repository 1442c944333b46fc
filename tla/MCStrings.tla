------------------------------ MODULE MCStrings ------------------------------
(***************************************************************************)
(* Calls of Strings for TLC: two objects of three bytes at the addresses 1 *)
(* and 4 of an address space of eight, all their contents from a few       *)
(* characters; lengths from 0 to beyond the address space; texts of up to  *)
(* five characters for atoi() and an int of 6 bits.                        *)
(***************************************************************************)
EXTENDS Strings

CallOf(fn, s1, s2, c, n) == [fn |-> fn, s1 |-> s1, s2 |-> s2, c |-> c, n |-> n]

Lengths == {0, 1, 2, 3, AddrMod - 1}
Starts  == {NULL, 1, 4}

MCCalls ==
    {CallOf("strlen", s, NULL, 0, 0) : s \in {NULL, 1, 5}}
    \cup {CallOf("atoi", 1, NULL, 0, 0)}
    \cup {CallOf("strnlen", s, NULL, 0, n) : s \in {1, 5}, n \in Lengths}
    \cup {CallOf(fn, 3, NULL, c, n) : fn \in {"memchr", "memrchr"},
                                      c \in {0, 1, 200}, n \in Lengths}
    \cup {CallOf("strcmp", s, t, 0, 0) : s, t \in Starts}
    \cup {CallOf(fn, s, t, 0, n) : fn \in {"memcmp", "strncmp"},
                                   s, t \in Starts, n \in Lengths}
    \cup {CallOf("strzcpy", s, t, 0, n) : s, t \in {1, 4}, n \in Lengths}

\* Any characters of a few, and texts of blanks, signs and digits.
MCMemories ==
    [Addresses -> {0, 1, 200}]
    \cup {[a \in Addresses |-> IF a \in DOMAIN w THEN w[a] ELSE 0] :
            w \in [1..5 -> {9, 45, 50, 51}]}

=============================================================================

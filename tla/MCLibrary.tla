------------------------------ MODULE MCLibrary ------------------------------
(***************************************************************************)
(* Instances of Memory, Umoddiv and Rand for TLC: three parts of the       *)
(* library that call nothing of one another and share no state. A          *)
(* behaviour is one of one of them; the other two stay in one state.       *)
(*                                                                         *)
(*   Memory   every call on objects in a memory of MemorySize bytes: all   *)
(*            alignments, lengths and overlaps                             *)
(*   Umoddiv  every number of two words and every divisor of one           *)
(*   Rand     words of 4 bits and distances within them, so that whole     *)
(*            cycles of the generator are visited; the seeds zero, one     *)
(*            and six                                                      *)
(***************************************************************************)
EXTENDS Memory, Umoddiv, Rand

-----------------------------------------------------------------------------
(* The calls of Memory *)

Positions == {p \in [dest : Addresses, src : Addresses, len : 0..MemorySize] :
                 p.dest + p.len <= MemorySize /\ p.src + p.len <= MemorySize}

Apart(p) == \/ p.dest = p.src
            \/ p.dest + p.len <= p.src
            \/ p.src + p.len <= p.dest

CallOf(fn, p, c) == [fn |-> fn, dest |-> p.dest, src |-> p.src, len |-> p.len, c |-> c,
                     chk |-> FALSE, destlen |-> 0]

\* The same call through its wrapper, with room for a byte less, all or more.
InWrapper(k) ==
    {[k EXCEPT !.chk = TRUE, !.destlen = room] : room \in {k.len - 1, k.len, k.len + 1} \cap Nat}

PlainCalls ==
    {CallOf("memmove", p, 0) : p \in Positions}
    \cup {CallOf("memcpy", p, 0) : p \in {q \in Positions : Apart(q)}}
    \cup {CallOf("memset", p, c) : c \in {-1, 0, 300}, p \in {q \in Positions : q.src = 0}}

\* The wrappers compare lengths only: some places of the objects are enough.
MCCalls ==
    PlainCalls
    \cup UNION {InWrapper(k) : k \in {c \in PlainCalls : {c.dest, c.src} \subseteq {0, 3, 7}}}

MCSeeds == {{}, {0}, {1, 2}}

-----------------------------------------------------------------------------
(* One of the three *)

VARIABLE part  \* the one that runs

vars == <<memoryVars, umoddivVars, randVars, part>>

\* One initial state for a part that does not run.
MemoryRests  == call = (CHOOSE c \in Calls : TRUE) /\ arch = (CHOOSE a \in Archs : TRUE) /\ MemoryInit
UmoddivRests == number = 0 /\ divisor = 1 /\ UmoddivInit

Init ==
    \/ part = "Memory"  /\ MemoryInit /\ UmoddivRests /\ RandInit
    \/ part = "Umoddiv" /\ MemoryRests /\ UmoddivInit /\ RandInit
    \/ part = "Rand"    /\ MemoryRests /\ UmoddivRests /\ RandInit

Next ==
    /\ \/ part = "Memory"  /\ MemoryNext /\ UNCHANGED <<umoddivVars, randVars>>
       \/ part = "Umoddiv" /\ UmoddivNext /\ UNCHANGED <<memoryVars, randVars>>
       \/ part = "Rand"    /\ RandNext /\ UNCHANGED <<memoryVars, umoddivVars>>
    /\ UNCHANGED part

Spec == Init /\ [][Next]_vars

=============================================================================

------------------------------ MODULE Allocator ------------------------------
(***************************************************************************)
(* What malloc, calloc, realloc and free promise their caller (the         *)
(* contract quoted above each function in src/src/malloc.c and in          *)
(* src/include/stdlib.h), without chunks, headers or a free list.          *)
(*                                                                         *)
(* The allocator may fail at any time: when it must not is a property of   *)
(* the implementation (MallocFailsOnlyWhenFull in Malloc).                 *)
(***************************************************************************)
EXTENDS Integers, Sequences

CONSTANTS
    Memory,   \* the addresses an object may use
    Align,    \* the alignment of every object
    Null,     \* the null pointer
    Sizes,    \* the sizes callers ask for
    Nmembs    \* the element counts callers of calloc ask for

VARIABLES
    objects,  \* [pointer the caller holds -> the bytes of the object]
    call      \* the last call and what it returned: [op, ptr, size, ret]

vars == <<objects, call>>

Held       == DOMAIN objects
Extent(p, n) == p .. p + n - 1

\* n bytes at q, apart from every object of the set P.
Placed(q, n, P) ==
    /\ Extent(q, n) \subseteq Memory
    /\ q % Align = 0
    /\ \A p \in P : q # p /\ Extent(p, Len(objects[p])) \cap Extent(q, n) = {}

\* The objects of P stay as they are, and q is an object of n bytes.
Becomes(P, q, n) ==
    /\ DOMAIN objects' = P \cup {q}
    /\ Len(objects'[q]) = n
    /\ \A p \in P : objects'[p] = objects[p]

Returns(op, p, n, r) == call' = [op |-> op, ptr |-> p, size |-> n, ret |-> r]

-----------------------------------------------------------------------------
Init ==
    /\ objects = <<>>
    /\ call = [op |-> "none", ptr |-> Null, size |-> 0, ret |-> Null]

\* A new object, disjoint from any other, of indeterminate value.
Allocate(op, n) ==
    \E q \in Memory \ {Null} :
        /\ Returns(op, Null, n, q)
        /\ Placed(q, n, Held)
        /\ Becomes(Held, q, n)

\* A call that returns a null pointer leaves every object unchanged.
Fail(op, p, n) ==
    /\ Returns(op, p, n, Null)
    /\ UNCHANGED objects

Free(p) ==
    /\ Returns("free", p, 0, Null)
    /\ objects' = [q \in Held \ {p} |-> objects[q]]

\* A new object with the contents of the old one, up to the lesser size.
Resize(p, n) ==
    \E q \in Memory \ {Null} :
        /\ Returns("realloc", p, n, q)
        /\ Placed(q, n, Held \ {p})
        /\ Becomes(Held \ {p}, q, n)
        /\ \A i \in 1..n : i <= Len(objects[p]) => objects'[q][i] = objects[p][i]

\* realloc(p, 0) is free(p).
Drop(p) ==
    /\ Returns("realloc", p, 0, Null)
    /\ objects' = [q \in Held \ {p} |-> objects[q]]

Next ==
    \/ \E n \in Sizes : Allocate("malloc", n) \/ Fail("malloc", Null, n)
    \/ \E n \in Sizes, m \in Nmembs :
          Allocate("calloc", m * n) \/ Fail("calloc", Null, m * n)
    \/ \E p \in Held \cup {Null} : Free(p)
    \/ \E n \in Sizes \ {0} : Allocate("realloc", n)
    \/ \E p \in Held, n \in Sizes \ {0} : Resize(p, n)
    \/ \E p \in Held \cup {Null}, n \in Sizes \ {0} : Fail("realloc", p, n)
    \/ \E p \in Held \cup {Null} : Drop(p)

Spec == Init /\ [][Next]_vars

=============================================================================

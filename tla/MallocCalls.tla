----------------------------- MODULE MallocCalls -----------------------------
(***************************************************************************)
(* Malloc with the call and its result on record, which is what a caller   *)
(* sees, and the promise of Allocator it is checked against. The functions *)
(* malloc, free, calloc and realloc of src/src/malloc.c pass the one global*)
(* malloc_state to the noc_* functions modelled in Malloc.                 *)
(***************************************************************************)
EXTENDS Malloc

VARIABLE call

cvars == <<heap, obj, lost, call>>

Returns(op, p, n, r) == call' = [op |-> op, ptr |-> p, size |-> n, ret |-> r]

CInit == Init /\ call = [op |-> "none", ptr |-> NULL, size |-> 0, ret |-> NULL]

malloc(n) ==
    /\ Malloc(n)
    /\ Returns("malloc", NULL, n, noc_malloc(heap, n).ptr)

calloc(m, n) ==
    /\ Calloc(m, n)
    /\ Returns("calloc", NULL, m * n, noc_calloc(heap, m, n).ptr)

free(p) ==
    /\ Free(p)
    /\ Returns("free", p, 0, NULL)

realloc(p, n) ==
    /\ Realloc(p, n)
    /\ Returns("realloc", p, n, noc_realloc(heap, p, n).ptr)

CNext ==
    \/ \E n \in Sizes : malloc(n)
    \/ \E m \in Nmembs, n \in Sizes : calloc(m, n)
    \/ \E p \in Addr : free(p)
    \/ \E p \in Addr, n \in Sizes : realloc(p, n)

CSpec == CInit /\ [][CNext]_cvars

-----------------------------------------------------------------------------
\* The object at p as its caller sees it.
Contents(p) == [i \in 1..obj[p] |-> heap.mem[p + i - 1]]

Promise == INSTANCE Allocator WITH
    Memory  <- BrkStart .. BrkEnd - 1,
    Null    <- NULL,
    objects <- [p \in Held(obj) |-> Contents(p)]

\* The calls of malloc.c keep the promises of Allocator: disjoint, aligned
\* objects, contents that survive realloc, and failed calls that change nothing.
\* Excepted is the failed realloc that has moved the object (malloc.c:353-368,
\* 402-407), which breaks the promise: NothingLost is about that step.
KeepsPromise ==
    Promise!Init /\ [][lost' = lost => [Promise!Next]_Promise!vars]_cvars

=============================================================================

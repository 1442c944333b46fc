------------------------------- MODULE Malloc -------------------------------
(***************************************************************************)
(* The heap of src/src/malloc.c: malloc, free, calloc and realloc over a   *)
(* singly linked free list, grown through sbrk().                          *)
(*                                                                         *)
(* Memory is the array of byte addresses Addr; a chunk is named by the     *)
(* address of its header, an object by the data pointer the caller holds.  *)
(* Each C function is an operator that maps a heap to a heap, so that one  *)
(* action is one call: the library has no lock (malloc.c:89) and no call   *)
(* waits for another.                                                      *)
(*                                                                         *)
(* A heap h is a record:                                                   *)
(*   brk         the program break of the platform                         *)
(*   sbrk_start  \ the two bounds in struct malloc_state                   *)
(*   sbrk_end    /                                                         *)
(*   free        the chunks linked from state->head, in link order         *)
(*   size        the `size` header at each chunk; 0 where no chunk starts, *)
(*               and where a chunk was merged into its left neighbour      *)
(*   mem         the bytes of memory, as far as callers can tell them      *)
(*               apart                                                     *)
(*   errno       0 or ENOMEM                                               *)
(*   fault       whether a header outside memory has been read             *)
(*                                                                         *)
(* An operator whose name ends in _bug_... is no part of the model: it is  *)
(* the operator after it with a plausible mistake, which some property has *)
(* to notice.                                                              *)
(***************************************************************************)
EXTENDS Integers, Sequences, SequencesExt

CONSTANTS
    Align,        \* MALLOC_ALIGN
    Hdr,          \* offsetof(struct free_chunk, next)
    MinSize,      \* MALLOC_MIN_SIZE, sizeof(struct free_chunk)
    SizeMod,      \* 2^w of size_t
    UIntMax,      \* -1U, which is narrower than size_t on LP64
    BrkStart,     \* _brk_start, _brk_end: the memory the linker script
    BrkEnd,       \*   leaves to sbrk()
    MaxAddr,      \* bound on the addresses modelled
    SbrkReturns,  \* "previous" or "new": the break that sbrk() returns
    Sizes,        \* the sizes callers ask for
    Nmembs,       \* the element counts callers of calloc ask for
    ForeignIncrs  \* the increments of sbrk()'s other users

Addr    == 0..MaxAddr
NULL    == 0
SBRK_FAILURE == -1
NotHeld == -1     \* obj[p] where the caller holds no pointer p
Garbage == -1     \* a byte of no object
ENOMEM  == 12

ASSUME ConstantsAssumption ==
    /\ {Align, Hdr, MinSize, SizeMod, UIntMax, BrkStart} \subseteq Nat \ {0}
    /\ {BrkEnd, MaxAddr} \subseteq Nat
    /\ SbrkReturns \in {"previous", "new"}
    /\ Sizes \subseteq Nat /\ Nmembs \subseteq Nat /\ ForeignIncrs \subseteq Nat

VARIABLES
    heap,  \* the state of malloc.c and of the platform's sbrk()
    obj,   \* obj[p]: the bytes the caller asked for at p, or NotHeld
    lost   \* chunks still allocated that no caller has a pointer to

vars == <<heap, obj, lost>>

Held(o) == {p \in Addr : o[p] # NotHeld}

-----------------------------------------------------------------------------
(* Chunks and bytes *)

chunk_from_data(p) == p - Hdr
chunk_to_data(c)   == c + Hdr
chunk_end(h, c)    == c + h.size[c]
chunk_data_size(h, c) == h.size[c] - Hdr

chunk_size_for_data_bug_pad(n)    == n + Hdr

\* The size of a chunk that holds n bytes; size_t arithmetic wraps.
chunk_size_for_data(n) == (n + ((-n) % Align) + Hdr) % SizeMod

Join_bug_size(size, c, d) == [size EXCEPT ![d] = 0]

\* d's header merged into c's.
Join(size, c, d) == [size EXCEPT ![c] = @ + size[d], ![d] = 0]

\* n bytes of f from address a on, set to v.
Fill(f, a, n, v) == [x \in Addr |-> IF x \in a .. a+n-1 THEN v ELSE f[x]]

\* The write of a struct free_chunk at c, as the owner of those bytes sees it.
Scribble(m, c) == Fill(m, c, MinSize, Garbage)

\* memmove and memcpy: n bytes from src to dst.
Copy_bug_backwards(m, dst, src, n) ==
    [x \in Addr |-> IF x \in src .. src+n-1 THEN m[dst + (x - src)] ELSE m[x]]
Copy(m, dst, src, n) ==
    [x \in Addr |-> IF x \in dst .. dst+n-1 THEN m[src + (x - dst)] ELSE m[x]]

-----------------------------------------------------------------------------
(* The platform: sbrk(), and the wrapper that aligns what it returns *)

sbrk_bug_bound(h, incr) == [heap |-> [h EXCEPT !.brk = @ + incr], ptr |-> h.brk]

sbrk(h, incr) ==
    LET new == h.brk + incr
    IN  IF BrkStart <= new /\ new <= BrkEnd
        THEN [heap |-> [h EXCEPT !.brk = new],
              ptr  |-> IF SbrkReturns = "previous" THEN h.brk ELSE new]
        ELSE [heap |-> h, ptr |-> SBRK_FAILURE]

\* The first address of the heap is remembered once.
FirstAddress(h, p) == IF h.sbrk_start = NULL THEN [h EXCEPT !.sbrk_start = p] ELSE h

align_sbrk_bug_no_pad(h, p, n) == [heap |-> FirstAddress(h, p), ptr |-> p]

\* sbrk() gave the unaligned address p: ask for the pad bytes that align p.
\* They may fail to follow p + n, and then nothing is given back.
align_sbrk(h, p, n) ==
    LET pad    == Align - (p % Align)
        second == sbrk(h, pad)
    IN  IF second.ptr # h.sbrk_end
        THEN [heap |-> second.heap, ptr |-> SBRK_FAILURE]
        ELSE [heap |-> FirstAddress([second.heap EXCEPT !.sbrk_end = @ + pad], p + pad),
              ptr  |-> p + pad]

aligned_sbrk(h, n) ==
    LET first == sbrk(h, n)
        p     == first.ptr
        top   == [first.heap EXCEPT !.sbrk_end = p + n]
    IN  IF n >= SizeMod \div 2 THEN [heap |-> h, ptr |-> SBRK_FAILURE]
        ELSE IF p = SBRK_FAILURE
             THEN [heap |-> [h EXCEPT !.errno = ENOMEM], ptr |-> SBRK_FAILURE]
        ELSE IF p % Align # 0 THEN align_sbrk(top, p, n)
        ELSE [heap |-> FirstAddress(top, p), ptr |-> p]

-----------------------------------------------------------------------------
(* free *)

\* The loop of free leaves the list at k: at its end, at the first chunk not
\* below c, or at the chunk that ends where c starts.
IsStop(h, c, k) ==
    \/ k = Len(h.free) + 1
    \/ /\ k \in 1..Len(h.free)
       /\ h.free[k] >= c \/ chunk_end(h, h.free[k]) = c

FreeStop(h, c) ==
    CHOOSE k \in 1..Len(h.free)+1 :
        IsStop(h, c, k) /\ \A j \in 1..k-1 : ~IsStop(h, c, j)

merge_right_bug_gap(h, k) ==
    IF k < Len(h.free)
    THEN [h EXCEPT !.free = RemoveAt(@, k+1),
                   !.size = Join(@, h.free[k], h.free[k+1])]
    ELSE h

\* The k-th free chunk takes in the one linked after it if it ends there.
merge_right(h, k) ==
    IF k < Len(h.free) /\ chunk_end(h, h.free[k]) = h.free[k+1]
    THEN [h EXCEPT !.free = RemoveAt(@, k+1),
                   !.size = Join(@, h.free[k], h.free[k+1])]
    ELSE h

link_chunk_bug_head(h, c, k) == merge_right([h EXCEPT !.free = InsertAt(@, 1, c)], 1)

\* Put chunk c on the list at the place k where the loop stopped.
link_chunk(h, c, k) ==
    IF k <= Len(h.free) /\ h.free[k] < c
    THEN merge_right([h EXCEPT !.size = Join(@, h.free[k], c)], k)
    ELSE merge_right([h EXCEPT !.free = InsertAt(@, k, c)], k)

noc_free(h, ptr) ==
    LET c == chunk_from_data(ptr)
    IN  IF ptr < h.sbrk_start \/ ptr >= h.sbrk_end THEN h
        ELSE IF c \notin Addr THEN [h EXCEPT !.fault = TRUE]
        ELSE IF chunk_end(h, c) > h.sbrk_end THEN h
        ELSE link_chunk([h EXCEPT !.mem = Scribble(@, c)], c, FreeStop(h, c))

insert_free_chunk_bug_unlinked(h, c, n) == [h EXCEPT !.size[c] = n]

insert_free_chunk(h, c, n) ==
    noc_free([h EXCEPT !.size[c] = n], chunk_to_data(c))

-----------------------------------------------------------------------------
(* malloc *)

\* Whether the k-th free chunk fits, and what would be left of it.
Fits_bug_strict(h, k, size) == h.size[h.free[k]] > size
Fits(h, k, size)  == h.size[h.free[k]] >= size
Extra(h, k, size) == h.size[h.free[k]] - size

IsChosen_bug_first_fit(h, k, size) ==
    Fits(h, k, size) /\ \A j \in 1..k-1 : ~Fits(h, j, size)

\* The search of malloc ends with the k-th free chunk: it leaves less than
\* every earlier fitting chunk, none of which stopped the search, and no
\* later one leaves less unless k itself stopped the search.
IsChosen(h, k, size) ==
    /\ Fits(h, k, size)
    /\ Extra(h, k, size) < UIntMax
    /\ \A j \in 1..k-1 : Fits(h, j, size) =>
          Extra(h, j, size) > Extra(h, k, size) /\ Extra(h, j, size) >= Align
    /\ \A j \in k+1..Len(h.free) : Fits(h, j, size) =>
          Extra(h, j, size) >= Extra(h, k, size) \/ Extra(h, k, size) < Align

Chosen(h, size) == {k \in 1..Len(h.free) : IsChosen(h, k, size)}

\* Unlink the k-th free chunk, or leave its tail on the list.
take(h, k, size) ==
    LET c     == h.free[k]
        other == c + size
        extra == Extra(h, k, size)
    IN  IF extra < MinSize
        THEN [h EXCEPT !.free = RemoveAt(@, k)]
        ELSE [h EXCEPT !.free[k] = other,
                       !.size = [@ EXCEPT ![c] = size, ![other] = extra],
                       !.mem  = Scribble(@, other)]

\* Let the chunk at the top of the heap grow to at least n bytes. When
\* another user of sbrk() has moved the break, what sbrk() gave becomes a
\* free chunk.
chunk_grow(h, c, n) ==
    LET need == n - h.size[c]
        add  == IF need < MinSize THEN MinSize ELSE need
        r    == aligned_sbrk(h, add)
    IN  IF c = NULL THEN [heap |-> h, ok |-> FALSE]
        ELSE IF chunk_end(h, c) # h.sbrk_end THEN [heap |-> h, ok |-> FALSE]
        ELSE IF r.ptr = chunk_end(h, c)
             THEN [heap |-> [r.heap EXCEPT !.size[c] = @ + add], ok |-> TRUE]
        ELSE IF r.ptr # SBRK_FAILURE
             THEN [heap |-> insert_free_chunk(r.heap, r.ptr, add), ok |-> FALSE]
        ELSE [heap |-> r.heap, ok |-> FALSE]

\* The link the search of malloc stops at when no chunk fits: the last one.
LastLink_bug_last(h) == IF h.free = <<>> THEN NULL ELSE Last(h.free)
LastLink(h) == NULL

\* A fresh chunk of n bytes from the environment.
extend(h, n) ==
    LET r == aligned_sbrk(h, n)
    IN  IF r.ptr = SBRK_FAILURE THEN [heap |-> r.heap, ptr |-> NULL]
        ELSE [heap |-> [r.heap EXCEPT !.size[r.ptr] = n,
                                      !.mem = Fill(@, r.ptr, Hdr, Garbage)],
              ptr  |-> chunk_to_data(r.ptr)]

noc_malloc(h, n) ==
    LET size == chunk_size_for_data(n)
        k    == CHOOSE j \in Chosen(h, size) : TRUE
        g    == chunk_grow(h, LastLink(h), size)
    IN  IF n = 0 THEN [heap |-> h, ptr |-> NULL]
        ELSE IF Chosen(h, size) # {}
             THEN [heap |-> take(h, k, size), ptr |-> chunk_to_data(h.free[k])]
        ELSE IF g.ok THEN [heap |-> g.heap, ptr |-> chunk_to_data(LastLink(h))]
        ELSE extend(g.heap, size)

-----------------------------------------------------------------------------
(* realloc and calloc *)

\* The loop of realloc over the list gets as far as the k-th chunk, for a
\* chunk that ends at e.
Reached(h, k, e) == \A j \in 1..k : h.free[j] <= e

LeftOf(h, c)  == {k \in 1..Len(h.free) :
                    Reached(h, k, chunk_end(h, c)) /\ chunk_end(h, h.free[k]) = c}
RightOf(h, c) == {k \in 1..Len(h.free) :
                    Reached(h, k, chunk_end(h, c)) /\ h.free[k] = chunk_end(h, c)}

\* Chunk c and its data move down into the free chunk on its left.
absorb_left(h, c, k) ==
    LET d == h.free[k]
    IN  [h EXCEPT !.free = RemoveAt(@, k),
                  !.size = Join(@, d, c),
                  !.mem  = Copy(@, chunk_to_data(d), chunk_to_data(c),
                           chunk_data_size(h, c))]

\* Chunk c takes in the free chunk on its right.
absorb_right(h, c, k) ==
    [h EXCEPT !.free = RemoveAt(@, k),
              !.size = Join(@, c, h.free[k]),
              !.mem  = Scribble(@, h.free[k])]

merge_left(h, c) ==
    IF LeftOf(h, c) = {} THEN [heap |-> h, chunk |-> c]
    ELSE LET k == CHOOSE j \in LeftOf(h, c) : TRUE
         IN  [heap |-> absorb_left(h, c, k), chunk |-> h.free[k]]

\* The loop of realloc: the left neighbour, then the right one.
merge_adjacent(h, c) ==
    LET l == merge_left(h, c)
        R == RightOf(l.heap, l.chunk)
    IN  IF R = {} THEN l
        ELSE [l EXCEPT !.heap = absorb_right(@, l.chunk, CHOOSE j \in R : TRUE)]

split_bug_header(h, c, n) ==
    LET m == n - Hdr
    IN  IF h.size[c] - m < MinSize THEN h
        ELSE insert_free_chunk([h EXCEPT !.size[c] = m, !.mem = Scribble(@, c + m)],
                               c + m, h.size[c] - m)

\* Give back what chunk c has beyond n bytes, if that makes a chunk.
split(h, c, n) ==
    LET extra == h.size[c] - n
    IN  IF extra < MinSize THEN h
        ELSE insert_free_chunk([h EXCEPT !.size[c] = n, !.mem = Scribble(@, c + n)],
                               c + n, extra)

relocate_bug_listed_only(h, c, n) ==
    LET ptr == chunk_to_data(c)
        new == noc_malloc(h, n)
        cpy == [new.heap EXCEPT !.mem = Copy(@, new.ptr, ptr, chunk_data_size(h, c))]
    IN  IF Chosen(h, chunk_size_for_data(n)) = {} THEN [heap |-> h, ptr |-> NULL, chunk |-> c]
        ELSE [heap |-> noc_free(cpy, ptr), ptr |-> new.ptr, chunk |-> c]

\* Allocate elsewhere, copy and free; the chunk stays where it is if that fails.
relocate(h, c, n) ==
    LET ptr == chunk_to_data(c)
        new == noc_malloc(h, n)
        cpy == [new.heap EXCEPT !.mem = Copy(@, new.ptr, ptr, chunk_data_size(h, c))]
    IN  IF new.ptr = NULL THEN [heap |-> new.heap, ptr |-> NULL, chunk |-> c]
        ELSE [heap |-> noc_free(cpy, ptr), ptr |-> new.ptr, chunk |-> c]

\* realloc leaves alone a pointer that cannot be a chunk's, or whose chunk is
\* damaged.
OutOfHeap_bug_top(h, p) ==
    p < h.sbrk_start \/ p > h.sbrk_end \/ chunk_end(h, chunk_from_data(p)) >= h.sbrk_end

OutOfHeap(h, p) ==
    p < h.sbrk_start \/ p > h.sbrk_end \/ chunk_end(h, chunk_from_data(p)) > h.sbrk_end

\* `chunk` in the result is the chunk the object was in at the end.
noc_realloc(h, p, n) ==
    LET c     == chunk_from_data(p)
        alloc == chunk_size_for_data(n)
        grow  == chunk_grow(h, c, alloc)
        m     == merge_adjacent(grow.heap, c)
        fresh == noc_malloc(h, n)
        Keep(g, d) == [heap |-> g, ptr |-> chunk_to_data(d), chunk |-> d]
    IN  IF p = NULL THEN [heap |-> fresh.heap, ptr |-> fresh.ptr, chunk |-> NULL]
        ELSE IF n = 0 THEN [heap |-> noc_free(h, p), ptr |-> NULL, chunk |-> NULL]
        ELSE IF OutOfHeap(h, p) THEN [heap |-> h, ptr |-> NULL, chunk |-> c]
        ELSE IF h.size[c] >= alloc THEN Keep(split(h, c, alloc), c)
        ELSE IF grow.ok THEN Keep(grow.heap, c)
        ELSE IF m.heap.size[m.chunk] >= alloc
             THEN Keep(split(m.heap, m.chunk, alloc), m.chunk)
        ELSE relocate(m.heap, m.chunk, n)

\* calloc allocates one element and clears nmemb of them.
noc_calloc(h, nmemb, n) ==
    LET total == nmemb * n
        r     == noc_malloc(h, n)
    IN  IF total >= SizeMod THEN [heap |-> h, ptr |-> NULL]
        ELSE IF r.ptr = NULL THEN r
        ELSE [r EXCEPT !.heap.mem  = Fill(@, r.ptr, total, 0),
                       !.heap.size = Fill(@, r.ptr, total, 0)]

-----------------------------------------------------------------------------
(* Callers *)

\* The caller of the object at p writes the bytes it was given beyond the
\* first `kept`: byte i gets the value i + 1. Bytes of no object become
\* Garbage: nobody may rely on them.
Use(h, o, p, kept) ==
    LET owned == UNION {q .. q + o[q] - 1 : q \in Held(o)}
    IN  [h EXCEPT !.mem = [a \in Addr |->
            IF p # NULL /\ a \in p + kept .. p + o[p] - 1 THEN a - p + 1
            ELSE IF a \in owned THEN h.mem[a]
            ELSE Garbage]]

Init ==
    /\ heap = [brk |-> BrkStart, sbrk_start |-> NULL, sbrk_end |-> NULL,
               free |-> <<>>,
               size |-> [a \in Addr |-> 0], mem |-> [a \in Addr |-> Garbage],
               errno |-> 0, fault |-> FALSE]
    /\ obj  = [a \in Addr |-> NotHeld]
    /\ lost = {}

\* The caller gets the object of n bytes that the call result r points to.
Obtain(r, n) ==
    /\ obj'  = IF r.ptr = NULL THEN obj ELSE [obj EXCEPT ![r.ptr] = n]
    /\ heap' = Use(r.heap, obj', r.ptr, 0)
    /\ UNCHANGED lost

Malloc(n) == Obtain(noc_malloc(heap, n), n)

Calloc(nmemb, n) == Obtain(noc_calloc(heap, nmemb, n), nmemb * n)

Free(p) ==
    /\ p = NULL \/ obj[p] # NotHeld
    /\ obj'  = [obj EXCEPT ![p] = NotHeld]
    /\ heap' = Use(noc_free(heap, p), obj', NULL, 0)
    /\ UNCHANGED lost

\* The caller gets the result r of realloc(p, n) in place of its object at p.
\* A failed call after which the object is no longer in p's chunk has lost it.
Exchange(p, n, r) ==
    LET moved == n # 0 /\ r.ptr = NULL /\ r.chunk # chunk_from_data(p) /\ p # NULL
        gone  == r.ptr # NULL \/ n = 0 \/ moved
        old   == IF gone THEN [obj EXCEPT ![p] = NotHeld] ELSE obj
    IN  /\ obj'  = IF r.ptr = NULL THEN old ELSE [old EXCEPT ![r.ptr] = n]
        /\ heap' = Use(r.heap, obj', r.ptr, IF p = NULL THEN 0 ELSE obj[p])
        /\ lost' = IF moved THEN lost \cup {r.chunk} ELSE lost

Realloc(p, n) ==
    /\ p = NULL \/ obj[p] # NotHeld
    /\ Exchange(p, n, noc_realloc(heap, p, n))

\* Another user of sbrk() takes memory.
ForeignSbrk(incr) ==
    LET r == sbrk(heap, incr)
    IN  /\ r.ptr # SBRK_FAILURE
        /\ heap' = r.heap
        /\ UNCHANGED <<obj, lost>>

Next ==
    \/ \E n \in Sizes : Malloc(n)
    \/ \E m \in Nmembs, n \in Sizes : Calloc(m, n)
    \/ \E p \in Addr : Free(p)
    \/ \E p \in Addr, n \in Sizes : Realloc(p, n)
    \/ \E i \in ForeignIncrs : ForeignSbrk(i)

Spec == Init /\ [][Next]_vars

\* What the free chunks have.
mem_free(h) == MapThenSumSet(LAMBDA c : h.size[c], ToSet(h.free))

-----------------------------------------------------------------------------
(* Properties *)

Bytes(a, n)   == a .. a + n - 1
Chunks(h)     == {c \in Addr : h.size[c] > 0}
FreeChunks(h) == ToSet(h.free)
HeldChunks    == {chunk_from_data(p) : p \in Held(obj)}

HeapType ==
    [brk : BrkStart..BrkEnd, sbrk_start : Addr, sbrk_end : Addr,
     free : Seq(Addr), size : [Addr -> Nat], mem : [Addr -> Int],
     errno : {0, ENOMEM}, fault : BOOLEAN]

\* The types of the variables.
TypeOK ==
    /\ heap \in HeapType
    /\ obj \in [Addr -> Nat \cup {NotHeld}]
    /\ lost \subseteq Addr

\* "Each such allocation shall yield a pointer to an object disjoint from any
\* other object" (malloc.c:183-184), and disjoint from every chunk that malloc
\* may hand out next.
ObjectsDisjoint ==
    \A p \in Held(obj) :
        /\ \A q \in Held(obj) \ {p} : Bytes(p, obj[p]) \cap Bytes(q, obj[q]) = {}
        /\ \A c \in FreeChunks(heap) \cup lost :
              Bytes(p, obj[p]) \cap Bytes(c, heap.size[c]) = {}

\* An object lies in the data of its own chunk, and the chunk in memory that
\* sbrk() has granted: the caller may use every byte it asked for.
ObjectFits ==
    \A p \in Held(obj) :
        LET c == chunk_from_data(p)
        IN  /\ BrkStart <= c /\ chunk_end(heap, c) <= heap.brk
            /\ obj[p] <= chunk_data_size(heap, c)

\* "The pointer returned ... is suitably aligned" (malloc.c:178-180).
ObjectsAligned == \A p \in Held(obj) : p % Align = 0

\* "There should be no consequent free chunks ... All free chunks are sorted by
\* address" (malloc.c:274-276): the list is sorted, and each free chunk ends
\* strictly before the next begins.
FreeListCanonical ==
    /\ \A i \in 1..Len(heap.free)-1 :
          chunk_end(heap, heap.free[i]) < heap.free[i+1]
    /\ \A i \in 1..Len(heap.free) : heap.size[heap.free[i]] >= MinSize

\* Every byte between sbrk_start and sbrk_end belongs to one chunk: a split, a
\* merge or a new block leaves no gap and no overlap. It needs a heap that grows
\* without gaps: no other user of sbrk().
HeapTiled ==
    \A a \in (heap.sbrk_start .. heap.sbrk_end - 1) \ {NULL} :
        \E c \in Chunks(heap) :
            /\ a \in Bytes(c, heap.size[c])
            /\ \A d \in Chunks(heap) \ {c} : a \notin Bytes(d, heap.size[d])

\* Nothing leaks: what mem_free() counts and what is allocated make up the
\* heap, so that mem_free() is back where it was once a test has freed what it
\* allocated (test_malloc.c:26, 36, 47).
MemFreeAccounts ==
    mem_free(heap) + MapThenSumSet(LAMBDA c : heap.size[c], HeldChunks \cup lost)
        = heap.sbrk_end - heap.sbrk_start

\* A chunk is free or allocated to one owner, never both and never neither:
\* merging, splitting and moving keep every chunk accounted for.
ChunksOwned ==
    \A c \in Chunks(heap) :
        c \in FreeChunks(heap) <=> c \notin HeldChunks \cup lost

\* "The contents of the new object shall be the same as that of the old object
\* prior to deallocation, up to the lesser of the new and old sizes"
\* (malloc.c:311-313), and no call writes into another object.
DataIntact ==
    \A p \in Held(obj) : \A i \in 0..obj[p]-1 : heap.mem[p + i] = i + 1

\* malloc gives up only when no free chunk is large enough and the environment
\* has no room left, and then errno says so (malloc.c:114, 185-186).
MallocFailsOnlyWhenFull ==
    \A n \in Sizes \ {0} :
        LET size == chunk_size_for_data(n)
            r    == noc_malloc(heap, n)
        IN  r.ptr = NULL =>
                /\ \A c \in FreeChunks(heap) : heap.size[c] < size
                /\ heap.brk + size > BrkEnd
                /\ size < SizeMod \div 2 => r.heap.errno = ENOMEM

\* "Find minimum sized free chunk to allocate from" (malloc.c:203): when some
\* free chunk is large enough, the object goes to a smallest such chunk.
MallocTakesSmallest ==
    \A n \in Sizes \ {0} :
        LET size    == chunk_size_for_data(n)
            fitting == {c \in FreeChunks(heap) : heap.size[c] >= size}
            c       == chunk_from_data(noc_malloc(heap, n).ptr)
        IN  fitting # {} =>
                c \in fitting /\ \A d \in fitting : heap.size[c] <= heap.size[d]

\* realloc gives up only when the chunk and its free neighbours together are too
\* small and malloc fails as well: no free chunk is large enough and sbrk() has
\* no room for a new one, nor for what a chunk at the top of the heap lacks
\* (malloc.c:341-407).
ReallocFailsOnlyWhenFull ==
    \A p \in Held(obj), n \in Sizes \ {0} :
        LET c    == chunk_from_data(p)
            e    == chunk_end(heap, c)
            near == {d \in FreeChunks(heap) : chunk_end(heap, d) = c \/ d = e}
            room == MapThenSumSet(LAMBDA d : heap.size[d], near \cup {c})
            size == chunk_size_for_data(n)
            need == IF size - heap.size[c] < MinSize THEN MinSize ELSE size - heap.size[c]
        IN  noc_realloc(heap, p, n).ptr = NULL =>
                /\ room < size
                /\ \A d \in FreeChunks(heap) : heap.size[d] < size
                /\ heap.brk + size > BrkEnd
                /\ e = heap.sbrk_end => heap.brk + need > BrkEnd

\* An object that shrinks stays where it is.
ReallocShrinksInPlace ==
    \A p \in Held(obj), n \in Sizes \ {0} :
        n <= obj[p] => noc_realloc(heap, p, n).ptr = p

\* "If memory for the new object cannot be allocated, the old object is not
\* deallocated and its value is unchanged" (malloc.c:318-319).
NothingLost == lost = {}

\* "If ptr is a null pointer, no action occurs" (malloc.c:251-252).
NullIsNeverFreed == ~heap.fault

=============================================================================

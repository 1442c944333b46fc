--------------------------- MODULE MallocContract ---------------------------
(***************************************************************************)
(* Malloc on a platform and for callers that keep to what malloc.c relies  *)
(* on. Where the code does not hold without one of these assumptions, a    *)
(* run of Malloc itself, with other constants, shows what happens then.    *)
(***************************************************************************)
EXTENDS Malloc

\* sbrk() returns the previous break (unistd.h:31-33), addresses are
\* positive, and the memory given to sbrk() is within the modelled addresses.
ASSUME PlatformAssumption ==
    /\ SbrkReturns = "previous"
    /\ BrkStart <= BrkEnd /\ BrkEnd <= MaxAddr

\* The header is aligned (malloc.c:40), and the smallest chunk malloc makes,
\* one aligned unit and a header, can later hold a struct free_chunk
\* (malloc.c:74).
ASSUME LayoutAssumption ==
    /\ Hdr % Align = 0 /\ MinSize % Align = 0
    /\ Hdr < MinSize /\ MinSize <= Align + Hdr

\* Rounding up the sizes asked for does not wrap (malloc.c:66-72).
ASSUME SizesAssumption == \A n \in Sizes : n + Align + Hdr < SizeMod

\* What calloc clears fits in the one element it allocates (malloc.c:416).
ASSUME NmembsAssumption ==
    \A m \in Nmembs, n \in Sizes \ {0} : m * n + Hdr <= chunk_size_for_data(n)

-----------------------------------------------------------------------------
(* The invariant that every call keeps: what one call needs of the heap that
   the calls before it left behind. *)

\* Chunks lie in the memory sbrk() gave, apart from one another.
ChunksOk(h) ==
    /\ h.sbrk_start <= h.sbrk_end /\ h.sbrk_end <= h.brk
    /\ \A c \in Chunks(h) :
          /\ MinSize <= h.size[c]
          /\ h.sbrk_start # NULL /\ h.sbrk_start <= c /\ BrkStart <= c
          /\ chunk_end(h, c) <= h.sbrk_end
    /\ \A c, d \in Chunks(h) : c < d => chunk_end(h, c) <= d

\* The list links chunks, sorted, each ending below the next; the k-th and the
\* one after it may touch.
SortedBut(h, k) ==
    \A i, j \in 1..Len(h.free) : i < j =>
        \/ chunk_end(h, h.free[i]) < h.free[j]
        \/ i = k /\ j = k + 1 /\ chunk_end(h, h.free[i]) = h.free[j]

FreeOk(h) ==
    /\ \A i \in 1..Len(h.free) : h.free[i] \in Chunks(h)
    /\ \A i, j \in 1..Len(h.free) : i < j => chunk_end(h, h.free[i]) < h.free[j]

HeapOk(h) == h \in HeapType /\ ChunksOk(h) /\ FreeOk(h)

\* The chunks that are not on the list.
Allocated(h) == {c \in Chunks(h) : \A i \in 1..Len(h.free) : h.free[i] # c}

\* The allocated chunks are those of the caller's objects and those lost, and
\* each object fits in its chunk.
IInv ==
    /\ TypeOK
    /\ HeapOk(heap)
    /\ Allocated(heap) = HeldChunks \cup lost
    /\ HeldChunks \cap lost = {}
    /\ NULL \notin Held(obj)
    /\ \A p \in Held(obj) : obj[p] + Hdr <= heap.size[chunk_from_data(p)]

=============================================================================

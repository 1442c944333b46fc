---------------------------- MODULE MallocProofs ----------------------------
(***************************************************************************)
(* First, facts about the heap of MallocContract: lists with one element   *)
(* more or less, the memory that sbrk() grants, and what happens to the    *)
(* invariant when a chunk is made, resized, unlinked or merged with its    *)
(* neighbour.                                                              *)
(*                                                                         *)
(* Then, what each function of malloc.c does to a heap that satisfies the  *)
(* invariant: free, malloc, chunk_grow, the loop of realloc, the split of  *)
(* a chunk, realloc and calloc, in that order. Each promise is stated as   *)
(* the chunks that are allocated afterwards and the sizes they keep.       *)
(*                                                                         *)
(* Last, IInv is an inductive invariant of the specification, for every    *)
(* layout, every memory size, every set of sizes and any other users of    *)
(* sbrk(), on the platforms and for the callers that MallocContract        *)
(* describes; and the safety properties that follow from it.               *)
(***************************************************************************)
EXTENDS MallocContract, SumTheorems, SequenceTheorems

-----------------------------------------------------------------------------
(* Lists, memory and chunks *)

\* Where the elements of a list are after one of them is unlinked.
LEMMA RemoveAtProperties ==
  ASSUME NEW S, NEW s \in Seq(S), NEW i \in 1..Len(s)
  PROVE  /\ RemoveAt(s, i) \in Seq(S)
         /\ Len(RemoveAt(s, i)) = Len(s) - 1
         /\ \A j \in 1..Len(s)-1 : RemoveAt(s, i)[j] = IF j < i THEN s[j] ELSE s[j+1]
<1> DEFINE l == SubSeq(s, 1, i-1)
           r == SubSeq(s, i+1, Len(s))
<1>1. /\ l \in Seq(S) /\ Len(l) = i-1 /\ \A j \in 1..i-1 : l[j] = s[j]
  BY SubSeqProperties, LenProperties
<1>2. /\ r \in Seq(S) /\ Len(r) = Len(s)-i /\ \A j \in 1..Len(s)-i : r[j] = s[i+j]
  BY SubSeqProperties, LenProperties
<1>3. RemoveAt(s, i) = l \o r
  BY DEF RemoveAt
<1> HIDE DEF l, r
<1>4. /\ l \o r \in Seq(S) /\ Len(l \o r) = Len(l) + Len(r)
      /\ \A j \in 1..Len(l)+Len(r) : (l \o r)[j] = IF j <= Len(l) THEN l[j] ELSE r[j-Len(l)]
  BY <1>1, <1>2, ConcatProperties
<1>5. Len(s) \in Nat
  BY LenProperties
<1>6. \A j \in 1..Len(s)-1 : (l \o r)[j] = IF j < i THEN s[j] ELSE s[j+1]
  <2> TAKE j \in 1..Len(s)-1
  <2>1. CASE j < i
    BY <2>1, <1>1, <1>2, <1>4, <1>5
  <2>2. CASE ~(j < i)
    <3>1. j - (i-1) \in 1..Len(s)-i
      BY <2>2, <1>5
    <3>2. r[j-(i-1)] = s[i+(j-(i-1))]
      BY <3>1, <1>2
    <3> QED
      BY <3>1, <3>2, <2>2, <1>1, <1>2, <1>4, <1>5
  <2> QED
    BY <2>1, <2>2, <1>5
<1> QED
  BY <1>1, <1>2, <1>3, <1>4, <1>5, <1>6

\* Where the elements of a list are after one more is linked in.
LEMMA InsertAtProperties ==
  ASSUME NEW S, NEW s \in Seq(S), NEW i \in 1..Len(s)+1, NEW e \in S
  PROVE  /\ InsertAt(s, i, e) \in Seq(S)
         /\ Len(InsertAt(s, i, e)) = Len(s) + 1
         /\ \A j \in 1..Len(s)+1 :
               InsertAt(s, i, e)[j] = IF j < i THEN s[j] ELSE IF j = i THEN e ELSE s[j-1]
<1> DEFINE l == SubSeq(s, 1, i-1)
           r == SubSeq(s, i, Len(s))
           m == l \o <<e>>
<1>1. /\ l \in Seq(S) /\ Len(l) = i-1 /\ \A j \in 1..i-1 : l[j] = s[j]
  BY SubSeqProperties, LenProperties
<1>2. /\ r \in Seq(S) /\ Len(r) = Len(s)-i+1 /\ \A j \in 1..Len(s)-i+1 : r[j] = s[i+j-1]
  BY SubSeqProperties, LenProperties
<1>3. <<e>> \in Seq(S) /\ Len(<<e>>) = 1 /\ <<e>>[1] = e
  OBVIOUS
<1>4. InsertAt(s, i, e) = m \o r
  BY DEF InsertAt
<1> HIDE DEF l, r
<1>5. m \in Seq(S) /\ Len(m) = i /\ \A j \in 1..i : m[j] = IF j < i THEN s[j] ELSE e
  BY <1>1, <1>3, ConcatProperties, LenProperties
<1> HIDE DEF m
<1>6. /\ m \o r \in Seq(S) /\ Len(m \o r) = Len(m) + Len(r)
      /\ \A j \in 1..Len(m)+Len(r) : (m \o r)[j] = IF j <= Len(m) THEN m[j] ELSE r[j-Len(m)]
  BY <1>2, <1>5, ConcatProperties
<1>7. Len(s) \in Nat
  BY LenProperties
<1>8. \A j \in 1..Len(s)+1 : (m \o r)[j] = IF j < i THEN s[j] ELSE IF j = i THEN e ELSE s[j-1]
  <2> TAKE j \in 1..Len(s)+1
  <2>1. CASE j <= i
    BY <2>1, <1>2, <1>5, <1>6, <1>7
  <2>2. CASE ~(j <= i)
    <3>1. j-i \in 1..Len(s)-i+1
      BY <2>2, <1>7
    <3>2. r[j-i] = s[i+(j-i)-1]
      BY <3>1, <1>2
    <3> QED
      BY <3>1, <3>2, <2>2, <1>2, <1>5, <1>6, <1>7
  <2> QED
    BY <2>1, <2>2, <1>7
<1> QED
  BY <1>2, <1>4, <1>5, <1>6, <1>7, <1>8

\* The loop of free() stops, at the first place where it may (malloc.c:277-291).
LEMMA FreeStopExists ==
  ASSUME NEW h, NEW c, Len(h.free) \in Nat
  PROVE  /\ FreeStop(h, c) \in 1..Len(h.free)+1
         /\ IsStop(h, c, FreeStop(h, c))
         /\ \A j \in 1..FreeStop(h, c)-1 : ~IsStop(h, c, j)
<1> DEFINE T == {k \in 1..Len(h.free)+1 : IsStop(h, c, k)}
<1>1. T # {} /\ T \subseteq Nat
  <2>1. Len(h.free)+1 \in 1..Len(h.free)+1 /\ IsStop(h, c, Len(h.free)+1)
    BY DEF IsStop
  <2> QED
    BY <2>1
<1> HIDE DEF T
<1>2. PICK k \in T : \A j \in T : ~(<<j, k>> \in OpToRel(<, Nat))
  <2>1. IsWellFoundedOn(OpToRel(<, Nat), Nat)
    BY NatLessThanWellFounded
  <2> DEFINE R == OpToRel(<, Nat)
  <2> HIDE DEF R
  <2>2. \E x \in T : \A y \in T : ~(<<y, x>> \in R)
    BY <1>1, <2>1, WFMin, Zenon DEF R
  <2> QED
    BY <2>2 DEF R
<1>3. \A j \in 1..k-1 : ~IsStop(h, c, j)
  <2> SUFFICES ASSUME NEW j \in 1..k-1, IsStop(h, c, j) PROVE FALSE
    OBVIOUS
  <2>1. j \in T /\ k \in Nat /\ j \in Nat /\ j < k
    BY <1>1 DEF T
  <2> QED
    BY <2>1, <1>2 DEF OpToRel
<1> QED
  BY <1>2, <1>3 DEF FreeStop, T

-----------------------------------------------------------------------------
\* The assumptions on the constants, in the form the proofs use.
LEMMA Consts ==
  /\ Align \in Nat \ {0} /\ Hdr \in Nat \ {0} /\ MinSize \in Nat \ {0}
  /\ SizeMod \in Nat \ {0}
  /\ BrkStart \in Nat \ {0} /\ BrkEnd \in Nat /\ MaxAddr \in Nat
  /\ BrkStart <= BrkEnd /\ BrkEnd <= MaxAddr /\ SbrkReturns = "previous"
  /\ Hdr < MinSize
BY ConstantsAssumption, PlatformAssumption, LayoutAssumption

\* Addresses are natural numbers.
LEMMA AddrNat == \A a \in Addr : a \in Nat /\ a <= MaxAddr
BY Consts DEF Addr

\* The types of a heap's fields.
LEMMA Fields ==
  ASSUME NEW h \in HeapType
  PROVE  /\ h.brk \in BrkStart..BrkEnd /\ h.brk \in Nat
         /\ h.sbrk_start \in Addr /\ h.sbrk_start \in Nat
         /\ h.sbrk_end \in Addr /\ h.sbrk_end \in Nat
         /\ h.free \in Seq(Addr) /\ Len(h.free) \in Nat
         /\ \A i \in 1..Len(h.free) : h.free[i] \in Addr /\ h.free[i] \in Nat
         /\ h.size \in [Addr -> Nat] /\ h.mem \in [Addr -> Int]
<1>1. /\ h.brk \in BrkStart..BrkEnd
      /\ h.sbrk_start \in Addr /\ h.sbrk_end \in Addr
      /\ h.free \in Seq(Addr)
      /\ h.size \in [Addr -> Nat] /\ h.mem \in [Addr -> Int]
  BY DEF HeapType
<1>2. Len(h.free) \in Nat /\ \A i \in 1..Len(h.free) : h.free[i] \in Addr
  BY <1>1, LenProperties, ElementOfSeq
<1>3. h.brk \in Nat
  BY <1>1, Consts
<1> QED
  BY <1>1, <1>2, <1>3, AddrNat

\* A chunk starts at an address and is not empty.
LEMMA ChunkNat ==
  ASSUME NEW h \in HeapType, NEW c \in Chunks(h)
  PROVE  /\ c \in Addr /\ c \in Nat /\ h.size[c] \in Nat \ {0}
         /\ chunk_end(h, c) \in Nat /\ c < chunk_end(h, c)
BY Fields, AddrNat DEF Chunks, chunk_end

\* sbrk() either fails and changes nothing or moves the break up by what it
\* was asked for.
LEMMA SbrkResult ==
  ASSUME NEW h \in HeapType, NEW n \in Nat
  PROVE  \/ sbrk(h, n) = [heap |-> h, ptr |-> -1]
         \/ /\ h.brk + n <= BrkEnd
            /\ sbrk(h, n) = [heap |-> [h EXCEPT !.brk = h.brk + n], ptr |-> h.brk]
<1>1. h.brk \in Nat /\ BrkStart <= h.brk /\ BrkStart <= h.brk + n
  BY Consts, Fields
<1>2. CASE h.brk + n <= BrkEnd
  BY <1>1, <1>2, Consts DEF sbrk
<1>3. CASE ~(h.brk + n <= BrkEnd)
  BY <1>1, <1>3, Consts DEF sbrk, SBRK_FAILURE
<1> QED
  BY <1>2, <1>3

\* Bounds that only grow leave the chunks and the list as they are.
LEMMA SameChunks ==
  ASSUME NEW h, HeapOk(h), NEW g \in HeapType,
         g.size = h.size, g.free = h.free,
         h.sbrk_end <= g.sbrk_end, g.sbrk_end <= g.brk, g.sbrk_start <= g.sbrk_end,
         g.sbrk_start = h.sbrk_start \/ h.sbrk_start = NULL
  PROVE  HeapOk(g) /\ Allocated(g) = Allocated(h) /\ Chunks(g) = Chunks(h)
<1>1. h \in HeapType /\ ChunksOk(h) /\ FreeOk(h)
  BY DEF HeapOk
<1>2. Chunks(g) = Chunks(h) /\ \A c : chunk_end(g, c) = chunk_end(h, c)
  BY DEF Chunks, chunk_end
<1>3. ChunksOk(g)
  <2>1. \A c \in Chunks(h) : chunk_end(h, c) \in Nat
    BY <1>1, ChunkNat
  <2> QED
    <3>1. g.sbrk_start <= g.sbrk_end /\ g.sbrk_end <= g.brk
      OBVIOUS
    <3>2. \A c, d \in Chunks(g) : c < d => chunk_end(g, c) <= d
      BY <1>1, <1>2 DEF ChunksOk
    <3>3. ASSUME NEW c \in Chunks(g)
          PROVE  /\ MinSize <= g.size[c] /\ g.sbrk_start # NULL /\ g.sbrk_start <= c
                 /\ BrkStart <= c /\ chunk_end(g, c) <= g.sbrk_end
      <4>1. /\ MinSize <= h.size[c] /\ h.sbrk_start # NULL /\ h.sbrk_start <= c
            /\ BrkStart <= c /\ chunk_end(h, c) <= h.sbrk_end
        BY <1>1, <1>2 DEF ChunksOk
      <4> QED
        BY <4>1, <1>1, <1>2, <2>1, Fields
    <3> QED
      BY <3>1, <3>2, <3>3 DEF ChunksOk
<1>4. FreeOk(g)
  BY <1>1, <1>2 DEF FreeOk
<1> QED
  BY <1>2, <1>3, <1>4 DEF HeapOk, Allocated

\* The heap h with a more bytes from sbrk().
Extend(h, a) == [h EXCEPT !.brk = h.brk + a, !.sbrk_end = h.brk + a]

\* The heap after one more successful sbrk().
LEMMA Extended ==
  ASSUME NEW h, HeapOk(h), NEW a \in Nat, h.brk + a <= BrkEnd,
         NEW g, g = Extend(h, a)
  PROVE  /\ HeapOk(g) /\ Allocated(g) = Allocated(h)
         /\ g.free = h.free /\ g.size = h.size /\ g.mem = h.mem
         /\ g.brk = h.brk + a /\ g.sbrk_end = h.brk + a /\ g.sbrk_start = h.sbrk_start
<1>1. h \in HeapType /\ ChunksOk(h)
  BY DEF HeapOk
<1>2. /\ g.free = h.free /\ g.size = h.size /\ g.mem = h.mem
      /\ g.sbrk_end = h.brk + a /\ g.sbrk_start = h.sbrk_start /\ g.brk = h.brk + a
  BY <1>1 DEF HeapType, Extend
<1>3. h.brk + a \in Addr /\ h.brk + a \in BrkStart..BrkEnd
  BY <1>1, Fields, Consts DEF Addr
<1>4. g \in HeapType
  BY <1>1, <1>3 DEF HeapType, Extend
<1>5. h.sbrk_end <= g.sbrk_end /\ g.sbrk_end <= g.brk /\ g.sbrk_start <= g.sbrk_end
  BY <1>1, <1>2, Fields DEF ChunksOk
<1> QED
  BY <1>2, <1>4, <1>5, SameChunks

\* Remembering the first address of the heap (malloc.c:136).
LEMMA FirstAddressSet ==
  ASSUME NEW h, HeapOk(h), NEW p \in Addr \ {NULL}, p <= h.sbrk_end,
         NEW g, g = FirstAddress(h, p)
  PROVE  /\ HeapOk(g) /\ Allocated(g) = Allocated(h)
         /\ g.free = h.free /\ g.size = h.size /\ g.mem = h.mem
         /\ g.brk = h.brk /\ g.sbrk_end = h.sbrk_end
         /\ g.sbrk_start # NULL
         /\ g.sbrk_start = h.sbrk_start \/ g.sbrk_start = p
<1>1. h \in HeapType /\ ChunksOk(h)
  BY DEF HeapOk
<1>2. CASE h.sbrk_start # NULL
  BY <1>2 DEF FirstAddress
<1>3. CASE h.sbrk_start = NULL
  <2>1. g = [h EXCEPT !.sbrk_start = p]
    BY <1>3 DEF FirstAddress
  <2>2. /\ g.free = h.free /\ g.size = h.size /\ g.mem = h.mem
        /\ g.sbrk_end = h.sbrk_end /\ g.sbrk_start = p /\ g.brk = h.brk
        /\ g \in HeapType
    BY <1>1, <2>1 DEF HeapType
  <2>3. h.sbrk_end <= g.sbrk_end /\ g.sbrk_end <= g.brk /\ g.sbrk_start <= g.sbrk_end
    BY <1>1, <2>2, Fields DEF ChunksOk
  <2> QED
    BY <1>3, <2>2, <2>3, SameChunks
<1> QED
  BY <1>2, <1>3

\* What a call of aligned_sbrk(h, n) may return.
Granted(h, n, r) ==
  /\ HeapOk(r.heap) /\ Allocated(r.heap) = Allocated(h)
  /\ r.heap.free = h.free /\ r.heap.size = h.size /\ r.heap.mem = h.mem
  /\ \/ r.ptr = SBRK_FAILURE
     \/ /\ r.ptr \in Addr /\ h.brk <= r.ptr /\ r.ptr + n <= r.heap.sbrk_end
        /\ r.heap.sbrk_start # NULL /\ r.heap.sbrk_start <= r.ptr

\* aligned_sbrk() touches no chunk; when it succeeds, the n bytes it returns
\* start at the old break or above it (malloc.c:107-138).
LEMMA AlignedSbrk ==
  ASSUME NEW h, HeapOk(h), NEW n \in Nat \ {0}
  PROVE  Granted(h, n, aligned_sbrk(h, n))
<1> DEFINE pad == Align - (h.brk % Align)
<1>h. h \in HeapType /\ ChunksOk(h) /\ FreeOk(h) /\ h.brk \in Nat \ {0} /\ h.brk <= BrkEnd
  BY Fields, Consts DEF HeapOk
<1>p. pad \in 1..Align
  BY <1>h, Consts
<1>1. CASE aligned_sbrk(h, n) = [heap |-> h, ptr |-> SBRK_FAILURE]
  BY <1>1 DEF Granted
<1>2. CASE aligned_sbrk(h, n) = [heap |-> [h EXCEPT !.errno = ENOMEM], ptr |-> SBRK_FAILURE]
  <2> DEFINE g == [h EXCEPT !.errno = ENOMEM]
  <2>1. /\ g \in HeapType /\ g.size = h.size /\ g.free = h.free /\ g.mem = h.mem
        /\ g.brk = h.brk /\ g.sbrk_start = h.sbrk_start /\ g.sbrk_end = h.sbrk_end
    BY <1>h DEF HeapType
  <2> HIDE DEF g
  <2>2. HeapOk(g) /\ Allocated(g) = Allocated(h)
    BY <2>1, <1>h, SameChunks, Fields DEF ChunksOk
  <2>3. aligned_sbrk(h, n).heap = g /\ aligned_sbrk(h, n).ptr = SBRK_FAILURE
    BY <1>2 DEF g
  <2> QED
    BY <2>1, <2>2, <2>3 DEF Granted
<1>3. CASE /\ aligned_sbrk(h, n) = [heap |-> Extend(h, n), ptr |-> SBRK_FAILURE]
           /\ h.brk + n <= BrkEnd
  BY <1>3, <1>h, Extended DEF Granted
<1>4. ASSUME NEW a \in {n, n + pad}, h.brk + a <= BrkEnd,
             aligned_sbrk(h, n) = [heap |-> FirstAddress(Extend(h, a), h.brk + a - n),
                                   ptr  |-> h.brk + a - n]
      PROVE  Granted(h, n, aligned_sbrk(h, n))
  <2> DEFINE p == h.brk + a - n
             e == Extend(h, a)
             g == FirstAddress(e, p)
  <2>1. /\ a \in Nat /\ p \in Addr \ {NULL} /\ p \in Nat
        /\ h.brk <= p /\ p + n <= h.brk + a /\ p <= h.brk + a
    BY <1>4, <1>h, <1>p, Consts DEF Addr, NULL
  <2> HIDE DEF p, pad
  <2>2. /\ HeapOk(e) /\ Allocated(e) = Allocated(h)
        /\ e.free = h.free /\ e.size = h.size /\ e.mem = h.mem
        /\ e.brk = h.brk + a /\ e.sbrk_end = h.brk + a /\ e.sbrk_start = h.sbrk_start
    BY <1>4, <2>1, Extended
  <2> HIDE DEF e
  <2>3. /\ HeapOk(g) /\ Allocated(g) = Allocated(h)
        /\ g.free = h.free /\ g.size = h.size /\ g.mem = h.mem
        /\ g.sbrk_end = h.brk + a
        /\ g.sbrk_start # NULL
        /\ g.sbrk_start = h.sbrk_start \/ g.sbrk_start = p
    BY <2>1, <2>2, FirstAddressSet
  <2> HIDE DEF g
  <2>4. g.sbrk_start <= p
    BY <2>1, <2>3, <1>h, Fields DEF ChunksOk
  <2> QED
    BY <1>4, <2>1, <2>3, <2>4 DEF Granted, g, e, p
<1>5. CASE n >= SizeMod \div 2
  BY <1>1, <1>5 DEF aligned_sbrk
<1>6. CASE ~(n >= SizeMod \div 2) /\ sbrk(h, n) = [heap |-> h, ptr |-> -1]
  <2>1. aligned_sbrk(h, n) = [heap |-> [h EXCEPT !.errno = ENOMEM], ptr |-> SBRK_FAILURE]
    BY <1>6 DEF aligned_sbrk, SBRK_FAILURE
  <2> QED
    BY <1>2, <2>1
<1>7. CASE /\ ~(n >= SizeMod \div 2) /\ h.brk + n <= BrkEnd
           /\ sbrk(h, n) = [heap |-> [h EXCEPT !.brk = h.brk + n], ptr |-> h.brk]
  <2> DEFINE t == Extend(h, n)
  <2>1. [[h EXCEPT !.brk = h.brk + n] EXCEPT !.sbrk_end = h.brk + n] = t
    BY <1>h DEF Extend, HeapType
  <2>2. aligned_sbrk(h, n) = IF h.brk % Align # 0 THEN align_sbrk(t, h.brk, n)
                             ELSE [heap |-> FirstAddress(t, h.brk), ptr |-> h.brk]
    BY <1>7, <1>h, <2>1 DEF aligned_sbrk, SBRK_FAILURE
  <2>3. CASE h.brk % Align = 0
    <3>1. h.brk + n - n = h.brk
      BY <1>h
    <3> QED
      BY <1>4, <1>7, <2>2, <2>3, <3>1
  <2>4. CASE h.brk % Align # 0
    <3>1. /\ t \in HeapType /\ t.brk = h.brk + n /\ t.sbrk_end = h.brk + n
      BY <1>7, Extended DEF HeapOk
    <3>2. CASE sbrk(t, pad) = [heap |-> t, ptr |-> -1]
      <4>1. aligned_sbrk(h, n) = [heap |-> t, ptr |-> SBRK_FAILURE]
        BY <2>2, <2>4, <3>1, <3>2, <1>h DEF align_sbrk
      <4> QED
        BY <4>1, <1>3, <1>7
    <3>3. CASE /\ t.brk + pad <= BrkEnd
               /\ sbrk(t, pad) = [heap |-> [t EXCEPT !.brk = t.brk + pad], ptr |-> t.brk]
      <4>1. Extend(h, n + pad) =
              [[t EXCEPT !.brk = t.brk + pad] EXCEPT !.sbrk_end = t.sbrk_end + pad]
        <5>1. t.brk + pad = h.brk + (n + pad) /\ t.sbrk_end + pad = h.brk + (n + pad)
          BY <1>h, <1>p, <3>1
        <5> DEFINE a == n + pad
                   b == t.brk + pad
                   d == t.sbrk_end + pad
        <5>2. b = h.brk + a /\ d = h.brk + a
          BY <5>1
        <5> HIDE DEF a, b, d
        <5>3. [[t EXCEPT !.brk = b] EXCEPT !.sbrk_end = d] = Extend(h, a)
          BY <5>2, <1>h DEF Extend, HeapType
        <5> QED
          BY <5>3 DEF a, b, d
      <4>2. h.brk + (n + pad) - n = h.brk + pad /\ h.brk + (n + pad) <= BrkEnd
        BY <1>h, <1>p, <3>1, <3>3
      <4>3. aligned_sbrk(h, n) =
              [heap |-> FirstAddress(Extend(h, n + pad), h.brk + (n + pad) - n),
               ptr  |-> h.brk + (n + pad) - n]
        <5> DEFINE u == sbrk(t, pad).heap
        <5>3. /\ u = [t EXCEPT !.brk = t.brk + pad] /\ u.sbrk_end = t.sbrk_end
              /\ sbrk(t, pad).ptr = t.sbrk_end
          BY <3>1, <3>3 DEF HeapType
        <5>4. align_sbrk(t, h.brk, n) =
                [heap |-> FirstAddress([u EXCEPT !.sbrk_end = u.sbrk_end + pad], h.brk + pad),
                 ptr  |-> h.brk + pad]
          BY <5>3 DEF align_sbrk
        <5>1. align_sbrk(t, h.brk, n) =
                [heap |-> FirstAddress(Extend(h, n + pad), h.brk + pad), ptr |-> h.brk + pad]
          BY <4>1, <5>3, <5>4
        <5> QED
          BY <2>2, <2>4, <4>2, <5>1
      <4> QED
        BY <1>4, <4>2, <4>3
    <3> QED
      BY <3>1, <3>2, <3>3, <1>p, SbrkResult
  <2> QED
    BY <2>3, <2>4
<1> QED
  BY <1>5, <1>6, <1>7, <1>h, SbrkResult
-----------------------------------------------------------------------------
SameBounds(h, g) ==
  g.brk = h.brk /\ g.sbrk_start = h.sbrk_start /\ g.sbrk_end = h.sbrk_end

\* Merging two headers leaves a size at every address.
LEMMA JoinType ==
  ASSUME NEW h \in HeapType, NEW c \in Chunks(h), NEW d \in Chunks(h)
  PROVE  Join(h.size, c, d) \in [Addr -> Nat]
<1>1. h.size \in [Addr -> Nat] /\ h.size[c] + h.size[d] \in Nat
  BY Fields, ChunkNat
<1> QED
  BY <1>1 DEF Join

\* Two adjacent chunks become one.
LEMMA Joined ==
  ASSUME NEW h \in HeapType, ChunksOk(h), NEW c \in Chunks(h), NEW d \in Chunks(h),
         chunk_end(h, c) = d,
         NEW g \in HeapType, g.size = Join(h.size, c, d), SameBounds(h, g)
  PROVE  /\ ChunksOk(g)
         /\ Chunks(g) = Chunks(h) \ {d}
         /\ g.size[c] = h.size[c] + h.size[d]
         /\ chunk_end(g, c) = chunk_end(h, d)
         /\ \A e \in Chunks(h) \ {c, d} :
               g.size[e] = h.size[e] /\ chunk_end(g, e) = chunk_end(h, e)
         /\ c < d /\ c # d
<1>1. /\ c \in Addr /\ c \in Nat /\ d \in Addr /\ d \in Nat /\ c < d
      /\ h.size[c] \in Nat \ {0} /\ h.size[d] \in Nat \ {0}
  BY ChunkNat
<1>2. /\ h.size \in [Addr -> Nat]
      /\ \A x \in Addr : g.size[x] = IF x = d THEN 0
                                     ELSE IF x = c THEN h.size[c] + h.size[d]
                                     ELSE h.size[x]
  BY <1>1, Fields DEF Join
<1>3. Chunks(g) = Chunks(h) \ {d}
  <2>1. \A x \in Addr : g.size[x] > 0 <=> (h.size[x] > 0 /\ x # d)
    BY <1>1, <1>2
  <2> QED
    BY <2>1 DEF Chunks
<1>4. /\ g.size[c] = h.size[c] + h.size[d]
      /\ chunk_end(g, c) = chunk_end(h, d)
  BY <1>1, <1>2 DEF chunk_end
<1>5. \A e \in Chunks(h) \ {c, d} :
         g.size[e] = h.size[e] /\ chunk_end(g, e) = chunk_end(h, e)
  BY <1>2, ChunkNat DEF chunk_end
<1>6. ChunksOk(g)
  <2>1. g.sbrk_start <= g.sbrk_end /\ g.sbrk_end <= g.brk
    BY DEF ChunksOk, SameBounds
  <2>2. ASSUME NEW e \in Chunks(g)
        PROVE  /\ MinSize <= g.size[e]
               /\ g.sbrk_start # NULL /\ g.sbrk_start <= e /\ BrkStart <= e
               /\ chunk_end(g, e) <= g.sbrk_end
    <3>1. CASE e = c
      BY <1>1, <1>4, <3>1, Consts DEF ChunksOk, SameBounds
    <3>2. CASE e # c
      BY <1>3, <1>5, <3>2 DEF ChunksOk, SameBounds
    <3> QED
      BY <3>1, <3>2
  <2>3. ASSUME NEW a \in Chunks(g), NEW b \in Chunks(g), a < b
        PROVE  chunk_end(g, a) <= b
    <3>1. a \in Chunks(h) /\ b \in Chunks(h) /\ a # d /\ b # d
      BY <1>3
    <3>2. CASE a = c
      <4>1. d <= b
        BY <3>1, <3>2, <2>3 DEF ChunksOk
      <4>2. d < b
        BY <4>1, <3>1, ChunkNat
      <4> QED
        BY <4>2, <3>1, <3>2, <1>4 DEF ChunksOk
    <3>3. CASE a # c
      BY <1>5, <3>1, <3>3, <2>3 DEF ChunksOk
    <3> QED
      BY <3>2, <3>3
  <2> QED
    BY <2>1, <2>2, <2>3 DEF ChunksOk
<1> QED
  BY <1>1, <1>3, <1>4, <1>5, <1>6

\* The list after merge_right has no adjacent chunks left.
LEMMA MergedRight ==
  ASSUME NEW h \in HeapType, ChunksOk(h), NEW k \in 1..Len(h.free), SortedBut(h, k),
         \A i \in 1..Len(h.free) : h.free[i] \in Chunks(h),
         NEW g, g = merge_right(h, k)
  PROVE  /\ HeapOk(g) /\ Allocated(g) = Allocated(h) /\ SameBounds(h, g)
         /\ g.mem = h.mem
         /\ \A e \in Allocated(h) : g.size[e] = h.size[e]
<1> DEFINE f == h.free
<1>1. f \in Seq(Addr) /\ Len(f) \in Nat
  BY Fields
<1>2. CASE ~(k < Len(f) /\ chunk_end(h, f[k]) = f[k+1])
  <2>1. g = h
    BY <1>2 DEF merge_right
  <2>2. FreeOk(h)
    BY <1>1, <1>2 DEF SortedBut, FreeOk
  <2> QED
    BY <2>1, <2>2 DEF HeapOk, SameBounds
<1>3. CASE k < Len(f) /\ chunk_end(h, f[k]) = f[k+1]
  <2> DEFINE c == f[k]
             d == f[k+1]
  <2>1. k \in 1..Len(f) /\ k+1 \in 1..Len(f) /\ c \in Chunks(h) /\ d \in Chunks(h)
    BY <1>1, <1>3
  <2>2. /\ RemoveAt(f, k+1) \in Seq(Addr) /\ Len(RemoveAt(f, k+1)) = Len(f) - 1
        /\ \A j \in 1..Len(f)-1 : RemoveAt(f, k+1)[j] = IF j < k+1 THEN f[j] ELSE f[j+1]
    BY <1>1, <2>1, RemoveAtProperties
  <2>3. Join(h.size, c, d) \in [Addr -> Nat]
    BY <2>1, JoinType
  <2>4. g = [h EXCEPT !.free = RemoveAt(f, k+1), !.size = Join(h.size, c, d)]
    BY <1>3 DEF merge_right
  <2> HIDE DEF c, d
  <2>5. /\ g \in HeapType /\ g.free = RemoveAt(f, k+1) /\ g.size = Join(h.size, c, d)
        /\ SameBounds(h, g) /\ g.mem = h.mem
    BY <2>2, <2>3, <2>4 DEF HeapType, SameBounds
  <2>6. /\ ChunksOk(g) /\ Chunks(g) = Chunks(h) \ {d}
        /\ chunk_end(g, c) = chunk_end(h, d)
        /\ \A e \in Chunks(h) \ {c, d} :
              g.size[e] = h.size[e] /\ chunk_end(g, e) = chunk_end(h, e)
        /\ c < d /\ c # d
    <3>1. chunk_end(h, c) = d
      BY <1>3 DEF c, d
    <3> QED
      BY <2>1, <2>5, <3>1, Joined
  <2>7. /\ \A i, j \in 1..Len(f) : i < j => f[i] < f[j]
        /\ \A i, j \in 1..Len(f) : i # j => f[i] # f[j]
    <3>1. ASSUME NEW i \in 1..Len(f), NEW j \in 1..Len(f), i < j PROVE f[i] < f[j]
      <4>1. chunk_end(h, f[i]) <= f[j] /\ f[i] \in Chunks(h) /\ f[j] \in Chunks(h)
        BY <3>1, Fields, ChunkNat DEF SortedBut
      <4> QED
        BY <4>1, ChunkNat
    <3>2. \A i \in 1..Len(f) : f[i] \in Nat
      BY Fields
    <3> QED
      BY <1>1, <3>1, <3>2
  <2> DEFINE f2 == g.free
             old(i) == IF i < k+1 THEN i ELSE i+1
  <2>a. ASSUME NEW i \in 1..Len(f2)
        PROVE  /\ old(i) \in (1..Len(f)) \ {k+1} /\ f2[i] = f[old(i)]
               /\ old(i) = k <=> i = k
               /\ \A j \in 1..Len(f2) : i < j => old(i) < old(j)
    BY <1>1, <2>1, <2>2, <2>5
  <2>b. ASSUME NEW i \in (1..Len(f)) \ {k+1}
        PROVE  \E j \in 1..Len(f2) : old(j) = i
    <3>1. CASE i < k+1
      <4>1. i \in 1..Len(f2) /\ old(i) = i
        BY <3>1, <1>1, <2>1, <2>2, <2>5
      <4> QED
        BY <4>1
    <3>2. CASE ~(i < k+1)
      <4>1. i-1 \in 1..Len(f2) /\ old(i-1) = i
        BY <3>2, <1>1, <2>1, <2>2, <2>5
      <4> QED
        BY <4>1
    <3> QED
      BY <3>1, <3>2
  <2> HIDE DEF old, f2
  <2>c. ASSUME NEW i \in (1..Len(f)) \ {k+1}
        PROVE  /\ f[i] \in Chunks(g) /\ f[i] \in Chunks(h) /\ f[i] # d
               /\ chunk_end(g, f[i]) = IF i = k THEN chunk_end(h, d) ELSE chunk_end(h, f[i])
    <3>1. f[i] \in Chunks(h) /\ f[i] # d /\ (i # k => f[i] # c)
      BY <2>1, <2>7 DEF c, d
    <3>2. f[k] = c
      BY DEF c
    <3>3. f[i] \in Chunks(g)
      BY <3>1, <2>6
    <3>4. CASE i = k
      BY <3>1, <3>2, <3>3, <3>4, <2>6
    <3>5. CASE i # k
      <4>1. f[i] \in Chunks(h) \ {c, d}
        BY <3>1, <3>5
      <4>2. chunk_end(g, f[i]) = chunk_end(h, f[i])
        BY <4>1, <2>6
      <4> QED
        BY <4>2, <3>1, <3>3, <3>5
    <3> QED
      BY <3>4, <3>5
  <2>8. FreeOk(g)
    <3>1. ASSUME NEW i \in 1..Len(f2) PROVE f2[i] \in Chunks(g)
      BY <2>a, <2>c
    <3>2. ASSUME NEW i \in 1..Len(f2), NEW j \in 1..Len(f2), i < j
          PROVE  chunk_end(g, f2[i]) < f2[j]
      <4> DEFINE a == old(i)
                 b == old(j)
      <4>1. /\ a \in (1..Len(f)) \ {k+1} /\ b \in (1..Len(f)) \ {k+1}
            /\ f2[i] = f[a] /\ f2[j] = f[b] /\ a < b
        BY <2>a, <3>2
      <4> HIDE DEF a, b
      <4>2. CASE a = k
        <5>1. k+1 < b /\ b # k+1
          BY <1>1, <2>1, <4>1, <4>2
        <5>2. chunk_end(h, d) < f[b]
          BY <5>1, <2>1, <4>1, k+1 # k DEF SortedBut, d
        <5> QED
          BY <5>2, <4>1, <4>2, <2>c
      <4>3. CASE a # k
        <5>1. chunk_end(h, f[a]) < f[b]
          BY <4>1, <4>3 DEF SortedBut
        <5> QED
          BY <5>1, <4>1, <4>3, <2>c
      <4> QED
        BY <4>2, <4>3
    <3> QED
      BY <3>1, <3>2 DEF FreeOk, f2
  <2>9. Allocated(g) = Allocated(h)
    <3>1. ASSUME NEW e \in Chunks(g)
          PROVE  (\A i \in 1..Len(f2) : f2[i] # e) <=> (\A i \in 1..Len(f) : f[i] # e)
      <4>1. e # d /\ d = f[k+1]
        BY <2>6 DEF d
      <4>2. ASSUME NEW i \in 1..Len(f2), f2[i] = e PROVE \E j \in 1..Len(f) : f[j] = e
        BY <4>2, <2>a
      <4>3. ASSUME NEW j \in 1..Len(f), f[j] = e PROVE \E i \in 1..Len(f2) : f2[i] = e
        BY <4>1, <4>3, <2>a, <2>b
      <4> QED
        BY <4>2, <4>3
    <3>2. d \notin Allocated(h)
      BY <2>1 DEF Allocated, d
    <3> QED
      BY <3>1, <3>2, <2>6 DEF Allocated, f2
  <2> QED
    <3>1. c \notin Allocated(h) /\ d \notin Allocated(h) /\ Allocated(h) \subseteq Chunks(h)
      BY <2>1 DEF Allocated, c, d
    <3> QED
      BY <2>5, <2>6, <2>8, <2>9, <3>1 DEF HeapOk
<1> QED
  BY <1>2, <1>3

\* t is s without its k-th element, in the order of s.
IsRemoval(s, k, t) ==
  /\ \A i \in 1..Len(t) : \E a \in (1..Len(s)) \ {k} : t[i] = s[a]
  /\ \A i, j \in 1..Len(t) : i < j =>
        \E a, b \in 1..Len(s) : a < b /\ t[i] = s[a] /\ t[j] = s[b]
  /\ \A a \in (1..Len(s)) \ {k} : \E i \in 1..Len(t) : t[i] = s[a]

\* What is left of a list keeps its order.
LEMMA RemoveAtOrder ==
  ASSUME NEW S, NEW s \in Seq(S), NEW k \in 1..Len(s), NEW t, t = RemoveAt(s, k)
  PROVE  /\ t \in Seq(S)
         /\ IsRemoval(s, k, t)
<1> DEFINE old(i) == IF i < k THEN i ELSE i+1
<1>1. /\ t \in Seq(S) /\ Len(s) \in Nat /\ Len(t) = Len(s)-1
      /\ \A i \in 1..Len(s)-1 : t[i] = IF i < k THEN s[i] ELSE s[i+1]
  BY RemoveAtProperties, LenProperties
<1>2. \A i \in 1..Len(t) : old(i) \in (1..Len(s)) \ {k} /\ t[i] = s[old(i)]
  BY <1>1
<1>3. \A i, j \in 1..Len(t) : i < j => old(i) < old(j)
  BY <1>1
<1>4. ASSUME NEW a \in (1..Len(s)) \ {k}
      PROVE  \E i \in 1..Len(t) : t[i] = s[a]
  <2>1. CASE a < k
    <3>1. a \in 1..Len(t) /\ t[a] = s[a]
      BY <1>1, <2>1
    <3> QED
      BY <3>1
  <2>2. CASE ~(a < k)
    <3>1. a-1 \in 1..Len(t) /\ t[a-1] = s[a]
      BY <1>1, <2>2
    <3> QED
      BY <3>1
  <2> QED
    BY <2>1, <2>2
<1> HIDE DEF old
<1> QED
  BY ZenonT(60), <1>1, <1>2, <1>3, <1>4 DEF IsRemoval

\* No other chunk is in the n bytes at c, and c is not on the list.
Room(h, c, n) ==
  /\ h.sbrk_start # NULL /\ h.sbrk_start <= c /\ BrkStart <= c /\ c + n <= h.sbrk_end
  /\ \A i \in 1..Len(h.free) : h.free[i] # c
  /\ \A d \in Chunks(h) : (d < c => chunk_end(h, d) <= c) /\ (c < d => c + n <= d)

\* g is h with c made a chunk of n bytes.
Sized(h, c, n, g) ==
  g.free = h.free /\ g.size = [h.size EXCEPT ![c] = n] /\ SameBounds(h, g)

\* A chunk that is not on the list is made, or gets another size.
LEMMA ChunkSet ==
  ASSUME NEW h, HeapOk(h), NEW c \in Addr, NEW n \in Nat, MinSize <= n, Room(h, c, n),
         NEW g \in HeapType, Sized(h, c, n, g)
  PROVE  /\ HeapOk(g) /\ Allocated(g) = Allocated(h) \cup {c}
         /\ g.size[c] = n /\ \A e \in Chunks(h) \ {c} : g.size[e] = h.size[e]
<1>1. h \in HeapType /\ ChunksOk(h) /\ FreeOk(h) /\ h.size \in [Addr -> Nat]
  BY Fields DEF HeapOk
<1>0. /\ h.sbrk_start # NULL /\ h.sbrk_start <= c /\ BrkStart <= c /\ c + n <= h.sbrk_end
      /\ \A i \in 1..Len(h.free) : h.free[i] # c
      /\ \A d \in Chunks(h) : (d < c => chunk_end(h, d) <= c) /\ (c < d => c + n <= d)
      /\ g.free = h.free /\ g.size = [h.size EXCEPT ![c] = n] /\ SameBounds(h, g)
  BY DEF Room, Sized
<1>2. n > 0
  BY Consts
<1>3. Chunks(g) = Chunks(h) \cup {c} /\ c \in Chunks(g)
  BY <1>0, <1>1, <1>2 DEF Chunks
<1>4. g.size[c] = n /\ chunk_end(g, c) = c + n
  BY <1>0, <1>1 DEF chunk_end
<1>5. \A e \in Chunks(h) \ {c} :
         g.size[e] = h.size[e] /\ chunk_end(g, e) = chunk_end(h, e)
  BY <1>0, <1>1 DEF chunk_end, Chunks
<1>6. ChunksOk(g)
  <2>1. g.sbrk_start <= g.sbrk_end /\ g.sbrk_end <= g.brk
    BY <1>0, <1>1 DEF ChunksOk, SameBounds
  <2>2. ASSUME NEW e \in Chunks(g)
        PROVE  /\ MinSize <= g.size[e]
               /\ g.sbrk_start # NULL /\ g.sbrk_start <= e /\ BrkStart <= e
               /\ chunk_end(g, e) <= g.sbrk_end
    <3>1. CASE e = c
      BY <1>0, <1>4, <3>1 DEF SameBounds
    <3>2. CASE e # c
      BY <1>0, <1>1, <1>3, <1>5, <3>2 DEF ChunksOk, SameBounds
    <3> QED
      BY <3>1, <3>2
  <2>3. ASSUME NEW a \in Chunks(g), NEW b \in Chunks(g), a < b
        PROVE  chunk_end(g, a) <= b
    <3>1. CASE a = c
      <4>1. b \in Chunks(h)
        BY <1>0, <1>3, <2>3, <3>1, AddrNat
      <4> QED
        BY <1>0, <1>4, <2>3, <3>1, <4>1
    <3>2. CASE a # c /\ b = c
      BY <1>0, <1>3, <1>5, <2>3, <3>2
    <3>3. CASE a # c /\ b # c
      BY <1>0, <1>1, <1>3, <1>5, <2>3, <3>3 DEF ChunksOk
    <3> QED
      BY <3>1, <3>2, <3>3
  <2> QED
    BY <2>1, <2>2, <2>3 DEF ChunksOk
<1>7. FreeOk(g)
  <2>1. \A i \in 1..Len(h.free) : h.free[i] \in Chunks(h) \ {c}
    BY <1>0, <1>1 DEF FreeOk
  <2> QED
    BY <1>0, <1>1, <1>3, <1>5, <2>1 DEF FreeOk
<1>8. Allocated(g) = Allocated(h) \cup {c}
  BY <1>0, <1>3 DEF Allocated
<1> QED
  BY <1>0, <1>4, <1>5, <1>6, <1>7, <1>8 DEF HeapOk

\* A chunk leaves the list.
LEMMA Unlinked ==
  ASSUME NEW h, HeapOk(h), NEW k \in 1..Len(h.free),
         NEW g \in HeapType, g.free = RemoveAt(h.free, k), g.size = h.size, SameBounds(h, g)
  PROVE  /\ HeapOk(g) /\ Allocated(g) = Allocated(h) \cup {h.free[k]}
         /\ Chunks(g) = Chunks(h) /\ h.free[k] \in Chunks(h) /\ h.free[k] \notin Allocated(h)
<1>1. h \in HeapType /\ ChunksOk(h) /\ FreeOk(h) /\ h.free \in Seq(Addr)
  BY Fields DEF HeapOk
<1>2. Chunks(g) = Chunks(h) /\ \A e : chunk_end(g, e) = chunk_end(h, e)
  BY DEF Chunks, chunk_end
<1>3. ChunksOk(g)
  BY <1>1, <1>2 DEF ChunksOk, SameBounds
<1>4. /\ \A i \in 1..Len(g.free) : \E a \in (1..Len(h.free)) \ {k} : g.free[i] = h.free[a]
      /\ \A i, j \in 1..Len(g.free) : i < j =>
            \E a, b \in 1..Len(h.free) : a < b /\ g.free[i] = h.free[a] /\ g.free[j] = h.free[b]
      /\ \A a \in (1..Len(h.free)) \ {k} : \E i \in 1..Len(g.free) : g.free[i] = h.free[a]
  <2>1. IsRemoval(h.free, k, g.free)
    BY <1>1, RemoveAtOrder
  <2> QED
    BY <2>1 DEF IsRemoval
<1>5. FreeOk(g)
  <2>1. \A i \in 1..Len(g.free) : g.free[i] \in Chunks(g)
    BY <1>1, <1>2, <1>4 DEF FreeOk
  <2>2. ASSUME NEW i \in 1..Len(g.free), NEW j \in 1..Len(g.free), i < j
        PROVE  chunk_end(g, g.free[i]) < g.free[j]
    <3>1. PICK a, b \in 1..Len(h.free) :
             a < b /\ g.free[i] = h.free[a] /\ g.free[j] = h.free[b]
      BY <1>4, <2>2
    <3>2. chunk_end(h, h.free[a]) < h.free[b]
      BY <1>1, <3>1 DEF FreeOk
    <3> QED
      BY <1>2, <3>1, <3>2
  <2> QED
    BY <2>1, <2>2 DEF FreeOk
<1>6. \A i, j \in 1..Len(h.free) : i # j => h.free[i] # h.free[j]
  <2>1. ASSUME NEW i \in 1..Len(h.free), NEW j \in 1..Len(h.free), i < j
        PROVE  h.free[i] < h.free[j]
    <3>1. /\ h.free[i] \in Chunks(h) /\ h.free[j] \in Chunks(h)
          /\ chunk_end(h, h.free[i]) < h.free[j]
      BY <1>1, <2>1 DEF FreeOk
    <3> QED
      BY <1>1, <3>1, ChunkNat
  <2> QED
    BY <1>1, <2>1, Fields
<1>7. Allocated(g) = Allocated(h) \cup {h.free[k]}
  <2>1. ASSUME NEW e \in Chunks(h)
        PROVE  (\A i \in 1..Len(g.free) : g.free[i] # e)
               <=> e = h.free[k] \/ \A i \in 1..Len(h.free) : h.free[i] # e
    <3>1. ASSUME NEW i \in 1..Len(g.free), g.free[i] = e
          PROVE  e # h.free[k] /\ \E j \in 1..Len(h.free) : h.free[j] = e
      BY SMTT(60), <1>4, <1>6, <3>1
    <3>2. ASSUME NEW j \in 1..Len(h.free), h.free[j] = e, e # h.free[k]
          PROVE  \E i \in 1..Len(g.free) : g.free[i] = e
      BY <1>4, <3>2
    <3> QED
      BY <3>1, <3>2
  <2>2. h.free[k] \in Chunks(h)
    BY <1>1 DEF FreeOk
  <2> QED
    BY <1>2, <2>1, <2>2 DEF Allocated
<1> QED
  BY <1>1, <1>2, <1>3, <1>5, <1>7 DEF HeapOk, FreeOk, Allocated

\* Two adjacent chunks that are not on the list become one.
LEMMA JoinedAllocated ==
  ASSUME NEW h, HeapOk(h), NEW c \in Allocated(h), NEW d \in Allocated(h),
         chunk_end(h, c) = d,
         NEW g \in HeapType, g.free = h.free, g.size = Join(h.size, c, d), SameBounds(h, g)
  PROVE  /\ HeapOk(g) /\ Allocated(g) = Allocated(h) \ {d} /\ c # d
         /\ g.size[c] = h.size[c] + h.size[d]
         /\ \A e \in Chunks(h) \ {c, d} : g.size[e] = h.size[e]
<1>1. h \in HeapType /\ ChunksOk(h) /\ FreeOk(h) /\ c \in Chunks(h) /\ d \in Chunks(h)
  BY DEF HeapOk, Allocated
<1>2. /\ ChunksOk(g)
      /\ Chunks(g) = Chunks(h) \ {d}
      /\ g.size[c] = h.size[c] + h.size[d]
      /\ \A e \in Chunks(h) \ {c, d} :
            g.size[e] = h.size[e] /\ chunk_end(g, e) = chunk_end(h, e)
      /\ c # d
  BY <1>1, Joined
<1>3. \A i \in 1..Len(h.free) : h.free[i] \in Chunks(h) \ {c, d}
  BY <1>1 DEF FreeOk, Allocated
<1>4. FreeOk(g)
  BY <1>1, <1>2, <1>3 DEF FreeOk
<1>5. Allocated(g) = Allocated(h) \ {d}
  BY <1>2 DEF Allocated
<1> QED
  BY <1>2, <1>4, <1>5 DEF HeapOk

-----------------------------------------------------------------------------
(* free, malloc, chunk_grow, realloc and calloc *)

\* What free() promises of a heap h and an allocated chunk c.
Freed(h, c, g) ==
  /\ HeapOk(g) /\ Allocated(g) = Allocated(h) \ {c} /\ SameBounds(h, g)
  /\ \A e \in Allocated(h) \ {c} : g.size[e] = h.size[e]

\* Where the loop of free() may stop for chunk c.
StopsAt(h, c, k) ==
  k \in 1..Len(h.free)+1 /\ IsStop(h, c, k) /\ \A j \in 1..k-1 : ~IsStop(h, c, j)

\* free() of a chunk that starts where a free one ends (malloc.c:277-285).
LEMMA LinkedLeft ==
  ASSUME NEW h, HeapOk(h), NEW c \in Allocated(h), NEW k \in 1..Len(h.free),
         StopsAt(h, c, k), h.free[k] < c, NEW g, g = link_chunk(h, c, k)
  PROVE  Freed(h, c, g) /\ g.mem = h.mem
<1> DEFINE f == h.free
           d == f[k]
           m == [h EXCEPT !.size = Join(h.size, d, c)]
<1>1. /\ h \in HeapType /\ ChunksOk(h) /\ FreeOk(h) /\ c \in Chunks(h) /\ d \in Chunks(h)
      /\ Len(f) \in Nat
  BY Fields DEF HeapOk, Allocated, FreeOk
<1>2. chunk_end(h, d) = c
  <2>1. c \in Nat /\ d \in Nat /\ Len(f) \in Nat
    BY <1>1, ChunkNat
  <2>2. k # Len(f) + 1
    BY <2>1
  <2> QED
    BY <2>1, <2>2 DEF StopsAt, IsStop
<1>3. g = merge_right(m, k)
  BY <1>1 DEF link_chunk
<1>4. m \in HeapType /\ m.free = f /\ m.size = Join(h.size, d, c) /\ SameBounds(h, m) /\ m.mem = h.mem
  BY <1>1, JoinType DEF HeapType, SameBounds
<1> HIDE DEF m
<1>5. /\ ChunksOk(m) /\ Chunks(m) = Chunks(h) \ {c}
      /\ chunk_end(m, d) = chunk_end(h, c)
      /\ \A e \in Chunks(h) \ {d, c} :
            m.size[e] = h.size[e] /\ chunk_end(m, e) = chunk_end(h, e)
      /\ d < c /\ d # c
  BY <1>1, <1>2, <1>4, Joined
<1>6. \A i \in 1..Len(f) : f[i] \in Chunks(h) /\ f[i] # c /\ f[i] \in Nat
  BY <1>1, ChunkNat DEF Allocated, FreeOk
<1>7. \A i, j \in 1..Len(f) : i < j => chunk_end(h, f[i]) < f[j]
  BY <1>1 DEF FreeOk
<1>8. \A i \in 1..Len(f) : chunk_end(h, f[i]) \in Nat /\ f[i] < chunk_end(h, f[i])
  BY <1>1, <1>6, ChunkNat
<1>9. \A i, j \in 1..Len(f) : i # j => f[i] # f[j]
  <2>1. ASSUME NEW i \in 1..Len(f), NEW j \in 1..Len(f), i < j PROVE f[i] < f[j]
    <3>1. chunk_end(h, f[i]) < f[j] /\ f[i] < chunk_end(h, f[i])
      BY <1>7, <1>8, <2>1
    <3> QED
      BY <3>1, <1>6, <1>8
  <2> QED
    BY <1>1, <1>6, <2>1
<1>10. SortedBut(m, k)
  <2>1. ASSUME NEW i \in 1..Len(f), NEW j \in 1..Len(f), i < j, i # k
        PROVE  chunk_end(m, f[i]) < f[j]
    <3>1. f[i] \in Chunks(h) \ {d, c}
      BY <1>6, <1>9, <2>1
    <3> QED
      BY <3>1, <1>5, <1>7, <2>1
  <2>2. ASSUME NEW j \in 1..Len(f), k < j
        PROVE  chunk_end(h, c) <= f[j]
    <3>1. c < f[j]
      BY <1>2, <1>7, <2>2
    <3> QED
      BY <3>1, <1>1, <1>6 DEF ChunksOk
  <2>3. ASSUME NEW j \in 1..Len(f), k + 1 < j
        PROVE  chunk_end(h, c) < f[j]
    <3>1. k+1 \in 1..Len(f) /\ k < k+1
      BY <1>1, <2>3
    <3>2. chunk_end(h, c) <= f[k+1] /\ f[k+1] < f[j] /\ chunk_end(h, c) \in Nat
      BY SMTT(60), <1>1, <1>6, <1>7, <1>8, <2>2, <2>3, <3>1, ChunkNat
    <3> QED
      BY <3>1, <3>2, <1>6
  <2>4. ASSUME NEW j \in 1..Len(f), k < j
        PROVE  \/ chunk_end(m, d) < f[j]
               \/ j = k + 1 /\ chunk_end(m, d) = f[j]
    <3>1. CASE j = k+1
      BY <3>1, <2>2, <2>4, <1>5, <1>6, <1>1, ChunkNat
    <3>2. CASE j # k+1
      BY <3>2, <2>3, <2>4, <1>1, <1>5
    <3> QED
      BY <3>1, <3>2
  <2> QED
    BY <2>1, <2>4, <1>4 DEF SortedBut
<1>11. /\ HeapOk(g) /\ Allocated(g) = Allocated(m) /\ SameBounds(m, g)
       /\ g.mem = m.mem
       /\ \A e \in Allocated(m) : g.size[e] = m.size[e]
  <2>1. \A i \in 1..Len(m.free) : m.free[i] \in Chunks(m)
    BY <1>4, <1>5, <1>6
  <2>2. k \in 1..Len(m.free)
    BY <1>4
  <2> QED
    BY <1>3, <1>4, <1>5, <1>10, <2>1, <2>2, MergedRight
<1>12. Allocated(m) = Allocated(h) \ {c} /\ d \notin Allocated(h)
  BY <1>4, <1>5 DEF Allocated
<1>13. \A e \in Allocated(h) \ {c} : m.size[e] = h.size[e]
  BY <1>5, <1>12 DEF Allocated
<1> QED
  BY <1>4, <1>11, <1>12, <1>13 DEF Freed, SameBounds

\* free() of a chunk that starts where no free one ends (malloc.c:286-306).
LEMMA LinkedBetween ==
  ASSUME NEW h, HeapOk(h), NEW c \in Allocated(h), NEW k \in 1..Len(h.free)+1,
         StopsAt(h, c, k), ~(k <= Len(h.free) /\ h.free[k] < c),
         NEW g, g = link_chunk(h, c, k)
  PROVE  Freed(h, c, g) /\ g.mem = h.mem
<1> DEFINE f == h.free
           m == [h EXCEPT !.free = InsertAt(f, k, c)]
<1>1. /\ h \in HeapType /\ ChunksOk(h) /\ FreeOk(h) /\ c \in Chunks(h)
      /\ f \in Seq(Addr) /\ Len(f) \in Nat /\ c \in Addr /\ c \in Nat
  BY Fields, ChunkNat DEF HeapOk, Allocated
<1>2. /\ InsertAt(f, k, c) \in Seq(Addr) /\ Len(InsertAt(f, k, c)) = Len(f) + 1
      /\ \A j \in 1..Len(f)+1 :
            InsertAt(f, k, c)[j] = IF j < k THEN f[j] ELSE IF j = k THEN c ELSE f[j-1]
  <2>1. f \in Seq(Addr) /\ k \in 1..Len(f)+1 /\ c \in Addr
    BY <1>1
  <2> HIDE DEF f
  <2> QED
    BY <2>1, InsertAtProperties
<1>3. g = merge_right(m, k)
  BY <1>1 DEF link_chunk
<1>4. /\ m \in HeapType /\ m.free = InsertAt(f, k, c) /\ m.size = h.size
      /\ SameBounds(h, m) /\ m.mem = h.mem
  BY <1>1, <1>2 DEF HeapType, SameBounds
<1> HIDE DEF m
<1>5. /\ ChunksOk(m) /\ Chunks(m) = Chunks(h) /\ \A e : chunk_end(m, e) = chunk_end(h, e)
  BY <1>1, <1>4 DEF ChunksOk, Chunks, chunk_end, SameBounds
<1>6. \A i \in 1..Len(f) : f[i] \in Chunks(h) /\ f[i] # c /\ f[i] \in Nat
  BY <1>1, ChunkNat DEF Allocated, FreeOk
<1>7. \A i, j \in 1..Len(f) : i < j => chunk_end(h, f[i]) < f[j]
  BY <1>1 DEF FreeOk
<1>8. \A i \in 1..Len(f) : chunk_end(h, f[i]) \in Nat /\ f[i] < chunk_end(h, f[i])
  BY <1>1, <1>6, ChunkNat
<1>9. \A i \in 1..Len(f) : i < k => chunk_end(h, f[i]) < c
  <2> SUFFICES ASSUME NEW i \in 1..Len(f), i < k PROVE chunk_end(h, f[i]) < c
    OBVIOUS
  <2>1. f[i] < c /\ chunk_end(h, f[i]) # c
    BY <1>1, <1>6 DEF StopsAt, IsStop
  <2>2. chunk_end(h, f[i]) <= c
    BY <1>1, <1>6, <2>1 DEF ChunksOk
  <2> QED
    BY <1>1, <1>8, <2>1, <2>2
<1>10. \A j \in 1..Len(f) : k <= j => chunk_end(h, c) <= f[j] /\ (k < j => chunk_end(h, c) < f[j])
  <2> SUFFICES ASSUME NEW j \in 1..Len(f), k <= j
               PROVE  chunk_end(h, c) <= f[j] /\ (k < j => chunk_end(h, c) < f[j])
    OBVIOUS
  <2>1. k \in 1..Len(f) /\ c < f[k]
    BY <1>1, <1>6
  <2>2. chunk_end(h, c) <= f[k] /\ chunk_end(h, c) \in Nat
    BY <1>1, <1>6, <2>1, ChunkNat DEF ChunksOk
  <2>3. k < j => f[k] < f[j]
    BY <1>6, <1>7, <1>8, <2>1
  <2>4. CASE k = j
    BY <2>2, <2>4
  <2>5. CASE k < j
    BY <1>6, <2>1, <2>2, <2>3, <2>5
  <2> QED
    BY <2>4, <2>5
<1> DEFINE f2 == m.free
<1>11. /\ Len(f2) = Len(f) + 1
       /\ \A i \in 1..Len(f2) :
             \/ i < k /\ i \in 1..Len(f) /\ f2[i] = f[i]
             \/ i = k /\ f2[i] = c
             \/ k < i /\ i-1 \in 1..Len(f) /\ f2[i] = f[i-1]
  BY <1>1, <1>2, <1>4
<1>12. \A j \in 1..Len(f) : (j < k => j \in 1..Len(f2) /\ f2[j] = f[j])
                            /\ (~(j < k) => j+1 \in 1..Len(f2) /\ f2[j+1] = f[j])
  BY <1>1, <1>2, <1>4
<1>13. k \in 1..Len(f2) /\ f2[k] = c
  BY <1>1, <1>2, <1>4
<1> HIDE DEF f2
<1>14. \A i, j \in 1..Len(f2) : i < j =>
          \/ chunk_end(h, f2[i]) < f2[j]
          \/ i = k /\ j = k + 1 /\ chunk_end(h, f2[i]) = f2[j]
  <2> SUFFICES ASSUME NEW i \in 1..Len(f2), NEW j \in 1..Len(f2), i < j
               PROVE  \/ chunk_end(h, f2[i]) < f2[j]
                      \/ i = k /\ j = k + 1 /\ chunk_end(h, f2[i]) = f2[j]
    OBVIOUS
  <2>1. CASE i < k
    <3>1. i \in 1..Len(f) /\ f2[i] = f[i]
      BY <1>11, <2>1
    <3>2. CASE j < k
      BY <1>7, <1>11, <3>1, <3>2
    <3>3. CASE j = k
      BY <1>9, <1>13, <2>1, <3>1, <3>3
    <3>4. CASE k < j
      <4>1. j-1 \in 1..Len(f) /\ f2[j] = f[j-1] /\ i < j-1
        BY <1>11, <2>1, <3>4
      <4> QED
        BY <1>7, <3>1, <4>1
    <3> QED
      BY <3>2, <3>3, <3>4
  <2>2. CASE i = k
    <3>1. j-1 \in 1..Len(f) /\ f2[j] = f[j-1] /\ k <= j-1 /\ f2[i] = c
      BY <1>11, <1>13, <2>2
    <3>2. chunk_end(h, c) <= f[j-1] /\ (k < j-1 => chunk_end(h, c) < f[j-1])
      BY <1>10, <3>1
    <3>3. chunk_end(h, c) \in Nat /\ f[j-1] \in Nat
      BY <1>1, <1>6, <3>1, ChunkNat
    <3>4. CASE k < j-1
      BY <3>1, <3>2, <3>4
    <3>5. CASE k = j-1
      BY <2>2, <3>1, <3>2, <3>3, <3>5
    <3> QED
      BY <3>1, <3>4, <3>5
  <2>3. CASE k < i
    <3>1. /\ i-1 \in 1..Len(f) /\ f2[i] = f[i-1]
          /\ j-1 \in 1..Len(f) /\ f2[j] = f[j-1] /\ i-1 < j-1
      BY <1>11, <2>3
    <3> QED
      BY <1>7, <3>1
  <2> QED
    BY <2>1, <2>2, <2>3
<1>15. /\ HeapOk(g) /\ Allocated(g) = Allocated(m) /\ SameBounds(m, g)
       /\ g.mem = m.mem
       /\ \A e \in Allocated(m) : g.size[e] = m.size[e]
  <2>1. \A i \in 1..Len(m.free) : m.free[i] \in Chunks(m)
    BY <1>1, <1>5, <1>6, <1>11 DEF f2
  <2>2. SortedBut(m, k)
    BY <1>5, <1>14 DEF SortedBut, f2
  <2>3. k \in 1..Len(m.free)
    BY <1>13 DEF f2
  <2> QED
    BY <1>3, <1>4, <1>5, <2>1, <2>2, <2>3, MergedRight
<1>16. Allocated(m) = Allocated(h) \ {c}
  <2>1. ASSUME NEW e \in Chunks(h)
        PROVE  (\A i \in 1..Len(f2) : f2[i] # e)
               <=> e # c /\ \A i \in 1..Len(f) : f[i] # e
    <3>1. ASSUME NEW i \in 1..Len(f2), f2[i] = e
          PROVE  e = c \/ \E j \in 1..Len(f) : f[j] = e
      BY <1>11, <3>1
    <3>2. ASSUME NEW j \in 1..Len(f), f[j] = e
          PROVE  \E i \in 1..Len(f2) : f2[i] = e
      BY <1>12, <3>2
    <3> QED
      BY <1>13, <3>1, <3>2
  <2> QED
    BY <1>5, <2>1 DEF Allocated, f2
<1> QED
  BY <1>4, <1>15, <1>16 DEF Freed, SameBounds

\* memset() leaves bytes.
LEMMA FillType ==
  ASSUME NEW m \in [Addr -> Int], NEW a, NEW n, NEW v \in Int
  PROVE  Fill(m, a, n, v) \in [Addr -> Int] /\ Scribble(m, a) \in [Addr -> Int]
BY DEF Fill, Scribble, Garbage

\* memmove() leaves bytes when its source is in memory.
LEMMA CopyType ==
  ASSUME NEW m \in [Addr -> Int], NEW dst \in Int, NEW src \in Int, NEW n \in Int,
         0 <= src, src + n <= MaxAddr + 1
  PROVE  Copy(m, dst, src, n) \in [Addr -> Int]
<1>1. \A x \in Addr : x \in dst .. dst+n-1 => src + (x - dst) \in Addr
  BY Consts DEF Addr
<1> QED
  BY <1>1 DEF Copy

\* Other bytes of memory say nothing of the chunks.
LEMMA OtherBytes ==
  ASSUME NEW h, HeapOk(h), NEW m \in [Addr -> Int], NEW g, g = [h EXCEPT !.mem = m]
  PROVE  /\ HeapOk(g) /\ Allocated(g) = Allocated(h) /\ Chunks(g) = Chunks(h)
         /\ g.size = h.size /\ g.free = h.free /\ SameBounds(h, g) /\ g.mem = m
<1>1. h \in HeapType /\ ChunksOk(h)
  BY DEF HeapOk
<1>2. /\ g \in HeapType /\ g.size = h.size /\ g.free = h.free /\ SameBounds(h, g)
      /\ g.mem = m
  BY <1>1 DEF HeapType, SameBounds
<1>3. h.sbrk_end <= g.sbrk_end
  BY <1>1, <1>2, Fields DEF SameBounds
<1> QED
  BY <1>1, <1>2, <1>3, SameChunks DEF ChunksOk, SameBounds

\* free() of an allocated chunk.
LEMMA FreeChunk ==
  ASSUME NEW h, HeapOk(h), NEW c \in Allocated(h), NEW g, g = noc_free(h, c + Hdr)
  PROVE  Freed(h, c, g)
<1> DEFINE s == [h EXCEPT !.mem = Scribble(h.mem, c)]
           k == FreeStop(h, c)
<1>1. /\ h \in HeapType /\ ChunksOk(h) /\ c \in Chunks(h) /\ c \in Addr /\ c \in Nat
      /\ h.sbrk_start \in Nat /\ h.sbrk_end \in Nat /\ h.mem \in [Addr -> Int]
      /\ Len(h.free) \in Nat
  BY Fields, ChunkNat DEF HeapOk, Allocated
<1>2. /\ h.sbrk_start <= c /\ chunk_end(h, c) <= h.sbrk_end
      /\ MinSize <= h.size[c] /\ h.size[c] \in Nat /\ chunk_end(h, c) = c + h.size[c]
  BY <1>1, ChunkNat DEF ChunksOk, chunk_end
<1>3. chunk_from_data(c + Hdr) = c /\ ~(c + Hdr < h.sbrk_start) /\ ~(c + Hdr >= h.sbrk_end)
  BY <1>1, <1>2, Consts DEF chunk_from_data
<1>4. ~(chunk_end(h, c) > h.sbrk_end)
  BY <1>1, <1>2
<1>5. g = link_chunk(s, c, k)
  BY <1>1, <1>3, <1>4 DEF noc_free
<1>6. /\ HeapOk(s) /\ Allocated(s) = Allocated(h) /\ Chunks(s) = Chunks(h)
      /\ s.size = h.size /\ s.free = h.free /\ SameBounds(h, s)
  <2>1. Scribble(h.mem, c) \in [Addr -> Int]
    BY <1>1, FillType, 0 \in Int
  <2> QED
    BY <2>1, OtherBytes
<1> HIDE DEF s, k
<1>7. StopsAt(s, c, k)
  <2>1. /\ k \in 1..Len(h.free)+1 /\ IsStop(h, c, k)
        /\ \A j \in 1..k-1 : ~IsStop(h, c, j)
    BY <1>1, FreeStopExists DEF k
  <2>2. \A j : IsStop(s, c, j) <=> IsStop(h, c, j)
    BY <1>6 DEF IsStop, chunk_end
  <2> QED
    BY <1>6, <2>1, <2>2 DEF StopsAt
<1>8. k \in 1..Len(s.free)+1 /\ Len(s.free) \in Nat
  BY <1>1, <1>6, <1>7 DEF StopsAt
<1>9. Freed(s, c, g)
  <2>1. CASE k <= Len(s.free) /\ s.free[k] < c
    <3>1. k \in 1..Len(s.free)
      BY <1>8, <2>1
    <3> QED
      BY <1>5, <1>6, <1>7, <2>1, <3>1, LinkedLeft
  <2>2. CASE ~(k <= Len(s.free) /\ s.free[k] < c)
    BY <1>5, <1>6, <1>7, <1>8, <2>2, LinkedBetween
  <2> QED
    BY <2>1, <2>2
<1> QED
  BY <1>6, <1>9 DEF Freed, SameBounds

-----------------------------------------------------------------------------
\* The chunk for n bytes has room for its header and n bytes, and for a
\* struct free_chunk once it is freed (malloc.c:66-72).
LEMMA ChunkSizeForData ==
  ASSUME NEW n \in Sizes, n # 0
  PROVE  /\ n \in Nat /\ chunk_size_for_data(n) \in Nat \ {0}
         /\ MinSize <= chunk_size_for_data(n) /\ n + Hdr <= chunk_size_for_data(n)
<1> DEFINE r == (-n) % Align
<1>1. n \in Nat \ {0}
  BY ConstantsAssumption
<1>2. r \in 0..Align-1
  BY <1>1, Consts
<1>3. n < Align => r = Align - n
  BY <1>1, Consts
<1>4. n + r + Hdr < SizeMod /\ n + r + Hdr \in Nat
  BY <1>1, <1>2, SizesAssumption, Consts
<1>5. n + r >= Align
  BY <1>1, <1>2, <1>3, Consts
<1>6. chunk_size_for_data(n) = (n + r + Hdr) % SizeMod
  BY DEF chunk_size_for_data
<1> HIDE DEF r
<1>7. chunk_size_for_data(n) = n + r + Hdr
  BY <1>4, <1>6, Consts
<1> QED
  BY <1>1, <1>2, <1>4, <1>5, <1>7, Consts, LayoutAssumption

\* What malloc() promises: one more chunk of at least size bytes is allocated,
\* or none.
Malloced(h, size, r) ==
  /\ HeapOk(r.heap)
  /\ \A e \in Allocated(h) : r.heap.size[e] = h.size[e]
  /\ \/ r.ptr = NULL /\ Allocated(r.heap) = Allocated(h)
     \/ \E c \in Addr \ Allocated(h) :
           /\ r.ptr = c + Hdr /\ Allocated(r.heap) = Allocated(h) \cup {c}
           /\ size <= r.heap.size[c]

\* A chunk made of the memory that aligned_sbrk() gave.
LEMMA NewChunk ==
  ASSUME NEW h, HeapOk(h), NEW n \in Nat, MinSize <= n,
         NEW r, Granted(h, n, r), r.ptr # SBRK_FAILURE,
         NEW g \in HeapType, Sized(r.heap, r.ptr, n, g)
  PROVE  /\ HeapOk(g) /\ r.ptr \in Addr \ Allocated(h)
         /\ Allocated(g) = Allocated(h) \cup {r.ptr}
         /\ g.size[r.ptr] = n /\ \A e \in Allocated(h) : g.size[e] = h.size[e]
<1> DEFINE p == r.ptr
           s == r.heap
<1>1. /\ HeapOk(s) /\ Allocated(s) = Allocated(h) /\ s.free = h.free /\ s.size = h.size
      /\ p \in Addr /\ h.brk <= p /\ p + n <= s.sbrk_end
      /\ s.sbrk_start # NULL /\ s.sbrk_start <= p
  BY DEF Granted
<1>2. h \in HeapType /\ ChunksOk(h) /\ FreeOk(h) /\ h.brk \in Nat /\ BrkStart <= h.brk
      /\ h.sbrk_end \in Nat
  BY Fields, Consts DEF HeapOk
<1>3. p \in Nat
  BY <1>1, AddrNat
<1> HIDE DEF p, s
<1>4. \A d \in Chunks(h) : chunk_end(h, d) <= p /\ d < p
  <2> SUFFICES ASSUME NEW d \in Chunks(h) PROVE chunk_end(h, d) <= p /\ d < p
    OBVIOUS
  <2>1. chunk_end(h, d) <= h.sbrk_end /\ h.sbrk_end <= h.brk
    BY <1>2 DEF ChunksOk
  <2> QED
    BY <1>1, <1>2, <1>3, <2>1, ChunkNat
<1>5. Chunks(s) = Chunks(h) /\ \A d : chunk_end(s, d) = chunk_end(h, d)
  BY <1>1 DEF Chunks, chunk_end
<1>6. \A d \in Chunks(s) : (d < p => chunk_end(s, d) <= p) /\ (p < d => p + n <= d)
  <2> SUFFICES ASSUME NEW d \in Chunks(h)
               PROVE  chunk_end(h, d) <= p /\ ~(p < d)
    BY <1>5
  <2> QED
    BY <1>2, <1>3, <1>4, ChunkNat
<1>7. \A i \in 1..Len(s.free) : s.free[i] # p
  BY <1>1, <1>2, <1>3, <1>4 DEF FreeOk
<1>8. BrkStart <= p
  BY <1>1, <1>2, <1>3, Consts
<1>9. Sized(s, p, n, g) /\ Room(s, p, n)
  BY <1>1, <1>6, <1>7, <1>8 DEF p, s, Room
<1>10. /\ HeapOk(g) /\ Allocated(g) = Allocated(s) \cup {p}
       /\ g.size[p] = n /\ \A e \in Chunks(s) \ {p} : g.size[e] = s.size[e]
  BY <1>1, <1>9, ChunkSet
<1>11. p \notin Chunks(h)
  BY <1>3, <1>4
<1> QED
  BY <1>1, <1>5, <1>10, <1>11 DEF p, Allocated

\* malloc() takes a chunk from the environment (malloc.c:241-247).
LEMMA ExtendedHeap ==
  ASSUME NEW h, HeapOk(h), NEW size \in Nat, MinSize <= size
  PROVE  Malloced(h, size, extend(h, size))
<1> DEFINE r == aligned_sbrk(h, size)
<1>1. Granted(h, size, r)
  BY AlignedSbrk, Consts
<1>2. CASE r.ptr = SBRK_FAILURE
  BY <1>1, <1>2 DEF extend, Malloced, Granted
<1>3. CASE r.ptr # SBRK_FAILURE
  <2> DEFINE s == r.heap
             p == r.ptr
             m == Fill(s.mem, p, Hdr, Garbage)
             z == [s.size EXCEPT ![p] = size]
             g == [s EXCEPT !.size = z, !.mem = m]
  <2>1. s \in HeapType /\ s.size \in [Addr -> Nat] /\ s.mem \in [Addr -> Int]
    BY <1>1, Fields DEF Granted, HeapOk
  <2>2. m \in [Addr -> Int] /\ z \in [Addr -> Nat]
    BY <2>1, FillType, Garbage \in Int DEF Garbage
  <2>3. extend(h, size) = [heap |-> g, ptr |-> p + Hdr]
    BY <1>3, <2>1 DEF extend, chunk_to_data, HeapType
  <2>4. g \in HeapType /\ g.free = s.free /\ g.size = z /\ SameBounds(s, g)
    <3> HIDE DEF m, z, s
    <3> QED
      BY <2>1, <2>2 DEF HeapType, SameBounds
  <2>6. Sized(r.heap, r.ptr, size, g)
    BY <2>4 DEF Sized
  <2> HIDE DEF g, r
  <2>5. /\ HeapOk(g) /\ p \in Addr \ Allocated(h)
        /\ Allocated(g) = Allocated(h) \cup {p}
        /\ g.size[p] = size /\ \A e \in Allocated(h) : g.size[e] = h.size[e]
    <3>1. g \in HeapType
      BY <2>4
    <3> HIDE DEF p, s, m, z
    <3>2. /\ HeapOk(g) /\ r.ptr \in Addr \ Allocated(h)
          /\ Allocated(g) = Allocated(h) \cup {r.ptr}
          /\ g.size[r.ptr] = size /\ \A e \in Allocated(h) : g.size[e] = h.size[e]
      BY <1>1, <1>3, <2>6, <3>1, NewChunk
    <3> QED
      BY <3>2 DEF p
  <2> QED
    BY <2>3, <2>5 DEF Malloced
<1> QED
  BY <1>2, <1>3

\* The k-th free chunk c is cut after n bytes; the x bytes after them take its
\* place on the list.
Cut(h, k, c, n, x, g) ==
  /\ g.free = [h.free EXCEPT ![k] = c + n]
  /\ g.size = [h.size EXCEPT ![c] = n, ![c + n] = x]

\* The tail of the k-th free chunk stays on the list.
LEMMA TakenPart ==
  ASSUME NEW h, HeapOk(h), NEW k \in 1..Len(h.free), NEW n \in Nat, MinSize <= n,
         NEW c, c = h.free[k], NEW x, x = h.size[c] - n, MinSize <= x,
         NEW g \in HeapType, Cut(h, k, c, n, x, g), SameBounds(h, g)
  PROVE  /\ HeapOk(g) /\ Allocated(g) = Allocated(h) \cup {c}
         /\ c \in Addr \ Allocated(h) /\ g.size[c] = n
         /\ \A e \in Allocated(h) : g.size[e] = h.size[e]
<1> DEFINE d == c + n
<1>1. /\ h \in HeapType /\ ChunksOk(h) /\ FreeOk(h) /\ c \in Chunks(h)
      /\ h.free \in Seq(Addr) /\ h.size \in [Addr -> Nat]
      /\ h.sbrk_end \in Nat /\ h.sbrk_end \in Addr
  BY Fields DEF HeapOk, FreeOk
<1>2. /\ c \in Addr /\ c \in Nat /\ h.size[c] \in Nat
      /\ chunk_end(h, c) \in Nat /\ chunk_end(h, c) <= h.sbrk_end
      /\ h.sbrk_start # NULL /\ h.sbrk_start <= c /\ BrkStart <= c
  BY <1>1, ChunkNat DEF ChunksOk
<1>3. n > 0 /\ x > 0 /\ x \in Nat
  BY <1>2, Consts
<1>4. d \in Nat /\ d \in Addr /\ c < d /\ d < chunk_end(h, c)
  <2>1. d \in Nat /\ c < d
    BY <1>2, <1>3
  <2>2. d < chunk_end(h, c)
    BY SMTT(60), <1>2, <1>3 DEF chunk_end
  <2>3. h.sbrk_end <= MaxAddr
    BY <1>1, AddrNat
  <2>4. d <= MaxAddr
    BY <1>1, <1>2, <2>1, <2>2, <2>3, Consts
  <2> QED
    BY <2>1, <2>2, <2>4, Consts DEF Addr
<1>5. d + x = chunk_end(h, c)
  BY SMTT(60), <1>2, <1>3 DEF chunk_end
<1>6. d \notin Chunks(h)
  BY <1>1, <1>2, <1>4 DEF ChunksOk
<1>7. g.free = [h.free EXCEPT ![k] = d] /\ g.size = [h.size EXCEPT ![c] = n, ![d] = x]
  BY DEF Cut
<1> HIDE DEF d
<1>8. Chunks(g) = Chunks(h) \cup {d}
  <2>1. \A y \in Addr : g.size[y] = IF y = d THEN x ELSE IF y = c THEN n ELSE h.size[y]
    BY <1>1, <1>2, <1>4, <1>7
  <2>2. \A y \in Addr : g.size[y] > 0 <=> h.size[y] > 0 \/ y = d
    BY <1>1, <1>3, <2>1 DEF Chunks
  <2> QED
    BY <1>4, <2>2 DEF Chunks
<1>9. /\ g.size[c] = n /\ chunk_end(g, c) = d
      /\ g.size[d] = x /\ chunk_end(g, d) = chunk_end(h, c)
  BY SMTT(60), <1>1, <1>2, <1>4, <1>5, <1>7 DEF chunk_end, d
<1>10. \A e \in Chunks(h) \ {c} : e # d /\ g.size[e] = h.size[e] /\ chunk_end(g, e) = chunk_end(h, e)
  BY <1>1, <1>6, <1>7 DEF chunk_end, Chunks
<1>11. ChunksOk(g)
  <2>1. g.sbrk_start <= g.sbrk_end /\ g.sbrk_end <= g.brk
    BY <1>1 DEF ChunksOk, SameBounds
  <2>2. ASSUME NEW e \in Chunks(g)
        PROVE  /\ MinSize <= g.size[e]
               /\ g.sbrk_start # NULL /\ g.sbrk_start <= e /\ BrkStart <= e
               /\ chunk_end(g, e) <= g.sbrk_end
    <3>1. CASE e = c
      BY <1>1, <1>2, <1>4, <1>9, <3>1 DEF SameBounds
    <3>2. CASE e = d
      <4>1. h.sbrk_start <= d /\ BrkStart <= d
        BY <1>1, <1>2, <1>4, Fields, Consts
      <4> QED
        BY <1>2, <1>9, <3>2, <4>1 DEF SameBounds
    <3>3. CASE e # c /\ e # d
      BY <1>1, <1>8, <1>10, <3>3 DEF ChunksOk, SameBounds
    <3> QED
      BY <3>1, <3>2, <3>3
  <2>3. ASSUME NEW a \in Chunks(g), NEW b \in Chunks(g), a < b
        PROVE  chunk_end(g, a) <= b
    <3>0. a \in Nat /\ b \in Nat
      BY <1>1, <1>4, <1>8, ChunkNat
    <3>1. CASE a = c /\ b = d
      BY <1>4, <1>9, <3>1
    <3>2. CASE (a = c \/ a = d) /\ b # d
      <4>1. b \in Chunks(h) /\ c < b
        BY <1>2, <1>4, <1>8, <2>3, <3>0, <3>2
      <4>2. chunk_end(h, c) <= b
        BY <1>1, <4>1 DEF ChunksOk
      <4> QED
        BY <1>2, <1>4, <1>9, <3>0, <3>2, <4>2
    <3>3. CASE a # c /\ a # d /\ b = d
      <4>1. a \in Chunks(h) /\ ~(c < a)
        <5>1. a \in Chunks(h)
          BY <1>8, <3>3
        <5>2. c < a => chunk_end(h, c) <= a
          BY <1>1, <5>1 DEF ChunksOk
        <5> QED
          BY <1>2, <1>4, <2>3, <3>0, <3>3, <5>1, <5>2
      <4>2. chunk_end(h, a) <= c
        BY <1>1, <1>2, <3>0, <3>3, <4>1 DEF ChunksOk
      <4>3. chunk_end(g, a) <= c /\ chunk_end(g, a) \in Nat
        BY <1>1, <1>10, <3>3, <4>1, <4>2, ChunkNat
      <4> QED
        BY <1>2, <1>4, <3>3, <4>3
    <3>4. CASE a # c /\ a # d /\ b # d
      BY <1>1, <1>8, <1>10, <2>3, <3>4 DEF ChunksOk
    <3>5. CASE a = d /\ b = d
      BY <1>4, <2>3, <3>5
    <3> QED
      BY <3>1, <3>2, <3>3, <3>4, <3>5
  <2> QED
    BY <2>1, <2>2, <2>3 DEF ChunksOk
<1>12. /\ Len(g.free) = Len(h.free)
       /\ \A i \in 1..Len(h.free) : g.free[i] = IF i = k THEN d ELSE h.free[i]
  BY <1>1, <1>7
<1>13. ASSUME NEW i \in 1..Len(h.free), i # k
       PROVE  h.free[i] \in Chunks(h) \ {c} /\ h.free[i] \in Nat /\ chunk_end(h, h.free[i]) \in Nat
  <2>1. h.free[i] \in Chunks(h) /\ i \in Nat /\ k \in Nat
    BY <1>1 DEF FreeOk
  <2>2. h.free[i] # c
    <3>1. i < k => chunk_end(h, h.free[i]) < c
      BY <1>1 DEF FreeOk
    <3>2. k < i => chunk_end(h, c) < h.free[i]
      BY <1>1 DEF FreeOk
    <3>3. h.free[i] < chunk_end(h, h.free[i]) /\ c < chunk_end(h, c)
      BY <1>1, <2>1, ChunkNat
    <3> QED
      BY <1>1, <1>13, <2>1, <3>1, <3>2, <3>3, ChunkNat
  <2> QED
    BY <1>1, <2>1, <2>2, ChunkNat
<1>14. FreeOk(g)
  <2>1. \A i \in 1..Len(g.free) : g.free[i] \in Chunks(g)
    BY <1>8, <1>12, <1>13
  <2>2. ASSUME NEW i \in 1..Len(g.free), NEW j \in 1..Len(g.free), i < j
        PROVE  chunk_end(g, g.free[i]) < g.free[j]
    <3>0. /\ i \in 1..Len(h.free) /\ j \in 1..Len(h.free)
          /\ chunk_end(h, h.free[i]) < h.free[j]
      BY <1>1, <1>12, <2>2 DEF FreeOk
    <3>1. CASE i = k
      BY <1>9, <1>12, <2>2, <3>0, <3>1
    <3>2. CASE i # k /\ j = k
      <4>1. g.free[i] = h.free[i] /\ g.free[j] = d
        BY <1>12, <3>0, <3>2
      <4>2. chunk_end(g, h.free[i]) = chunk_end(h, h.free[i]) /\ chunk_end(h, h.free[i]) \in Nat
        BY <1>10, <1>13, <3>0, <3>2
      <4> QED
        BY <1>2, <1>4, <3>0, <3>2, <4>1, <4>2
    <3>3. CASE i # k /\ j # k
      BY <1>10, <1>12, <1>13, <3>0, <3>3
    <3> QED
      BY <3>1, <3>2, <3>3
  <2> QED
    BY <2>1, <2>2 DEF FreeOk
<1>15. Allocated(g) = Allocated(h) \cup {c}
  <2>1. ASSUME NEW i \in 1..Len(g.free) PROVE g.free[i] # c
    <3>1. CASE i = k
      BY <1>2, <1>4, <1>12, <3>1
    <3>2. CASE i # k
      BY <1>12, <1>13, <3>2
    <3> QED
      BY <3>1, <3>2
  <2>2. d \notin Allocated(g)
    BY <1>12 DEF Allocated
  <2>3. ASSUME NEW e \in Chunks(h) \ {c}
        PROVE  (\A i \in 1..Len(g.free) : g.free[i] # e)
               <=> \A i \in 1..Len(h.free) : h.free[i] # e
    <3>1. ASSUME NEW i \in 1..Len(g.free), g.free[i] = e
          PROVE  \E j \in 1..Len(h.free) : h.free[j] = e
      BY <1>10, <1>12, <3>1
    <3>2. ASSUME NEW i \in 1..Len(h.free), h.free[i] = e
          PROVE  \E j \in 1..Len(g.free) : g.free[j] = e
      <4>1. i # k
        BY <3>2
      <4> QED
        BY <1>12, <3>2, <4>1
    <3> QED
      BY <3>1, <3>2
  <2>4. ASSUME NEW e \in Chunks(h) \cup {d}
        PROVE  e \in Allocated(g) <=> e \in Allocated(h) \cup {c}
    <3>1. CASE e = c
      BY <1>1, <1>8, <2>1, <3>1 DEF Allocated
    <3>2. CASE e = d
      <4>1. d \notin Chunks(h) /\ d # c
        BY <1>1, <1>6
      <4> QED
        BY <2>2, <3>2, <4>1 DEF Allocated
    <3>3. CASE e \in Chunks(h) \ {c}
      BY <1>8, <2>3, <3>3 DEF Allocated
    <3> QED
      BY <3>1, <3>2, <3>3
  <2>5. Allocated(g) \subseteq Chunks(g) /\ Allocated(h) \cup {c} \subseteq Chunks(h)
    BY <1>1 DEF Allocated
  <2> QED
    BY <1>8, <2>4, <2>5
<1>16. c \notin Allocated(h)
  BY DEF Allocated
<1> QED
  BY <1>2, <1>9, <1>10, <1>11, <1>14, <1>15, <1>16 DEF HeapOk, Allocated

\* malloc() takes a chunk from the list.
LEMMA Taken ==
  ASSUME NEW h, HeapOk(h), NEW k \in 1..Len(h.free),
         NEW size \in Nat, MinSize <= size, Fits(h, k, size)
  PROVE  Malloced(h, size, [heap |-> take(h, k, size), ptr |-> chunk_to_data(h.free[k])])
<1> DEFINE c == h.free[k]
           x == h.size[c] - size
           g == take(h, k, size)
<1>1. /\ h \in HeapType /\ ChunksOk(h) /\ FreeOk(h) /\ c \in Chunks(h)
      /\ h.free \in Seq(Addr) /\ h.size \in [Addr -> Nat] /\ h.mem \in [Addr -> Int]
      /\ c \in Addr /\ c \in Nat /\ h.size[c] \in Nat /\ size <= h.size[c]
  BY Fields, ChunkNat DEF HeapOk, FreeOk, Fits
<1>a. h.size[c] \in Nat /\ size <= h.size[c]
  BY <1>1
<1> HIDE DEF c
<1>2. CASE x < MinSize
  <2>1. g = [h EXCEPT !.free = RemoveAt(h.free, k)]
    BY <1>2 DEF take, Extra, c
  <2>2. RemoveAt(h.free, k) \in Seq(Addr)
    BY <1>1, RemoveAtProperties
  <2>3. /\ g \in HeapType /\ g.free = RemoveAt(h.free, k) /\ g.size = h.size
        /\ SameBounds(h, g)
    BY <1>1, <2>1, <2>2 DEF HeapType, SameBounds
  <2> HIDE DEF g
  <2>4. HeapOk(g) /\ Allocated(g) = Allocated(h) \cup {c} /\ c \notin Allocated(h)
    BY <2>3, Unlinked DEF c
  <2>5. Malloced(h, size, [heap |-> g, ptr |-> c + Hdr])
    BY <1>1, <1>a, <2>3, <2>4 DEF Malloced
  <2> QED
    BY <2>5 DEF g, c, chunk_to_data
<1>3. CASE ~(x < MinSize)
  <2> DEFINE f2 == [h.free EXCEPT ![k] = c + size]
             z  == [h.size EXCEPT ![c] = size, ![c + size] = x]
             m  == Scribble(h.mem, c + size)
  <2>1. g = [h EXCEPT !.free = f2, !.size = z, !.mem = m]
    BY <1>3 DEF take, Extra, c
  <2>2. MinSize <= x /\ x \in Nat
    BY <1>a, <1>3, Consts
  <2>3. c + size \in Addr
    <3>1. chunk_end(h, c) <= h.sbrk_end /\ h.sbrk_end \in Nat /\ h.sbrk_end <= MaxAddr
      BY <1>1, Fields, AddrNat DEF ChunksOk
    <3>2. c + h.size[c] <= h.sbrk_end
      BY <3>1 DEF chunk_end
    <3>3. c \in Nat
      BY <1>1
    <3>4. c + size \in Nat /\ c + size <= MaxAddr
      BY <1>a, <3>1, <3>2, <3>3, Consts
    <3> QED
      BY <3>4, Consts DEF Addr
  <2>4. f2 \in Seq(Addr)
    BY <1>1, <2>3
  <2>5. m \in [Addr -> Int]
    BY <1>1, FillType, 0 \in Int
  <2>6. z \in [Addr -> Nat]
    BY <1>1, <2>2
  <2> HIDE DEF f2, z, m, x, c
  <2>7. g \in HeapType /\ g.free = f2 /\ g.size = z /\ SameBounds(h, g)
    BY <1>1, <2>1, <2>4, <2>5, <2>6 DEF HeapType, SameBounds
  <2> HIDE DEF g
  <2>8. Cut(h, k, c, size, x, g) /\ g \in HeapType /\ SameBounds(h, g)
    BY <2>7 DEF Cut, f2, z
  <2>9. /\ HeapOk(g) /\ Allocated(g) = Allocated(h) \cup {c}
        /\ c \in Addr \ Allocated(h) /\ g.size[c] = size
        /\ \A e \in Allocated(h) : g.size[e] = h.size[e]
    BY <2>2, <2>8, TakenPart DEF c, x
  <2> QED
    <3>1. Malloced(h, size, [heap |-> g, ptr |-> c + Hdr])
      BY <2>9 DEF Malloced
    <3> QED
      BY <3>1 DEF g, c, chunk_to_data
<1> QED
  BY <1>2, <1>3

\* malloc().
LEMMA MallocChunk ==
  ASSUME NEW h, HeapOk(h), NEW n \in Sizes
  PROVE  Malloced(h, chunk_size_for_data(n), noc_malloc(h, n))
<1> DEFINE size == chunk_size_for_data(n)
           k == CHOOSE j \in Chosen(h, size) : TRUE
<1>1. CASE n = 0
  BY <1>1 DEF noc_malloc, Malloced
<1>2. CASE n # 0
  <2>1. size \in Nat /\ MinSize <= size
    BY <1>2, ChunkSizeForData
  <2>2. CASE Chosen(h, size) # {}
    <3>1. k \in Chosen(h, size)
      BY <2>2
    <3>2. k \in 1..Len(h.free) /\ Fits(h, k, size)
      BY <3>1 DEF Chosen, IsChosen
    <3>3. noc_malloc(h, n) = [heap |-> take(h, k, size), ptr |-> chunk_to_data(h.free[k])]
      BY <1>2, <2>2 DEF noc_malloc
    <3> HIDE DEF size, k
    <3> QED
      <4>1. Malloced(h, size, noc_malloc(h, n))
        BY <2>1, <3>2, <3>3, Taken
      <4> QED
        BY <4>1 DEF size
  <2>3. CASE Chosen(h, size) = {}
    <3>1. chunk_grow(h, LastLink(h), size) = [heap |-> h, ok |-> FALSE]
      BY DEF chunk_grow, LastLink
    <3>2. noc_malloc(h, n) = extend(h, size)
      BY <1>2, <2>3, <3>1 DEF noc_malloc
    <3> HIDE DEF size
    <3> QED
      <4>1. Malloced(h, size, noc_malloc(h, n))
        BY <2>1, <3>2, ExtendedHeap
      <4> QED
        BY <4>1 DEF size
  <2> QED
    BY <2>2, <2>3
<1> QED
  BY <1>1, <1>2

\* What chunk_grow() promises of an allocated chunk c that is to get n bytes.
Grown(h, c, n, r) ==
  /\ HeapOk(r.heap) /\ Allocated(r.heap) = Allocated(h)
  /\ \A e \in Allocated(h) \ {c} : r.heap.size[e] = h.size[e]
  /\ IF r.ok THEN n <= r.heap.size[c] ELSE r.heap.size[c] = h.size[c]

\* A new chunk is freed at once.
LEMMA InsertedChunk ==
  ASSUME NEW h, HeapOk(h), NEW n \in Nat, MinSize <= n,
         NEW r, Granted(h, n, r), r.ptr # SBRK_FAILURE,
         NEW g, g = insert_free_chunk(r.heap, r.ptr, n)
  PROVE  /\ HeapOk(g) /\ Allocated(g) = Allocated(h)
         /\ \A e \in Allocated(h) : g.size[e] = h.size[e]
<1> DEFINE s == r.heap
           p == r.ptr
           z == [s.size EXCEPT ![p] = n]
           m == [s EXCEPT !.size = z]
<1>1. s \in HeapType /\ s.size \in [Addr -> Nat]
  BY Fields DEF Granted, HeapOk
<1>2. z \in [Addr -> Nat]
  BY <1>1
<1>3. g = noc_free(m, p + Hdr)
  BY <1>1 DEF insert_free_chunk, chunk_to_data
<1> HIDE DEF z
<1>4. m \in HeapType /\ m.free = s.free /\ m.size = z /\ SameBounds(s, m)
  BY <1>1, <1>2 DEF HeapType, SameBounds
<1>5. Sized(s, p, n, m)
  BY <1>4 DEF Sized, z
<1>m. m \in HeapType
  BY <1>4
<1> HIDE DEF m, s, p
<1>6. /\ HeapOk(m) /\ p \in Addr \ Allocated(h)
      /\ Allocated(m) = Allocated(h) \cup {p}
      /\ m.size[p] = n /\ \A e \in Allocated(h) : m.size[e] = h.size[e]
  BY <1>5, <1>m, NewChunk DEF s, p
<1>7. Freed(m, p, g)
  BY <1>3, <1>6, FreeChunk
<1> QED
  BY <1>6, <1>7 DEF Freed

\* chunk_grow().
LEMMA GrownChunk ==
  ASSUME NEW h, HeapOk(h), NEW c \in Allocated(h), NEW n \in Nat, h.size[c] < n
  PROVE  Grown(h, c, n, chunk_grow(h, c, n))
<1> DEFINE need == n - h.size[c]
           add  == IF need < MinSize THEN MinSize ELSE need
           r    == aligned_sbrk(h, add)
           s    == r.heap
<1>1. /\ h \in HeapType /\ ChunksOk(h) /\ FreeOk(h) /\ c \in Chunks(h)
      /\ c \in Addr /\ c \in Nat \ {0} /\ h.size[c] \in Nat /\ chunk_end(h, c) \in Nat
      /\ chunk_end(h, c) = c + h.size[c] /\ MinSize <= h.size[c]
      /\ h.sbrk_start # NULL /\ h.sbrk_start <= c /\ BrkStart <= c
  <2>1. /\ h \in HeapType /\ ChunksOk(h) /\ FreeOk(h) /\ c \in Chunks(h)
    BY DEF HeapOk, Allocated
  <2>2. /\ c \in Addr /\ c \in Nat /\ h.size[c] \in Nat /\ chunk_end(h, c) \in Nat
    BY <2>1, ChunkNat
  <2>3. /\ chunk_end(h, c) = c + h.size[c] /\ MinSize <= h.size[c]
        /\ h.sbrk_start # NULL /\ h.sbrk_start <= c /\ BrkStart <= c
    BY <2>1 DEF ChunksOk, chunk_end
  <2> QED
    BY <2>1, <2>2, <2>3, Consts
<1>2. add \in Nat \ {0} /\ MinSize <= add /\ n <= h.size[c] + add
  BY <1>1, Consts
<1>3. Granted(h, add, r)
  BY <1>2, AlignedSbrk
<1>4. CASE chunk_end(h, c) # h.sbrk_end
  BY <1>1, <1>4 DEF chunk_grow, Grown, NULL
<1>5. CASE chunk_end(h, c) = h.sbrk_end /\ r.ptr = chunk_end(h, c)
  <2> DEFINE z == [s.size EXCEPT ![c] = s.size[c] + add]
             g == [s EXCEPT !.size = z]
  <2>1. chunk_grow(h, c, n) = [heap |-> g, ok |-> TRUE]
    BY <1>1, <1>5 DEF chunk_grow, NULL
  <2>2. /\ HeapOk(s) /\ s \in HeapType /\ Allocated(s) = Allocated(h) /\ s.free = h.free
        /\ s.size = h.size /\ s.size \in [Addr -> Nat]
        /\ chunk_end(h, c) + add <= s.sbrk_end /\ s.sbrk_start # NULL
        /\ s.sbrk_start <= chunk_end(h, c)
    <3>1. r.ptr # SBRK_FAILURE
      BY <1>1, <1>5 DEF SBRK_FAILURE
    <3> QED
      BY <1>3, <1>5, <3>1, Fields DEF Granted, HeapOk
  <2>3. h.size[c] + add \in Nat /\ MinSize <= h.size[c] + add
    BY <1>1, <1>2, Consts
  <2>4. z \in [Addr -> Nat]
    BY <2>2, <2>3
  <2> HIDE DEF r, add
  <2>5. g \in HeapType /\ g.free = s.free /\ g.size = z /\ SameBounds(s, g)
    <3> HIDE DEF z, s
    <3> QED
      BY <2>2, <2>4 DEF HeapType, SameBounds
  <2>6. Sized(s, c, h.size[c] + add, g)
    BY <2>2, <2>5 DEF Sized
  <2>7. Room(s, c, h.size[c] + add)
    <3> HIDE DEF s, g
    <3>1. Chunks(s) = Chunks(h) /\ \A d : chunk_end(s, d) = chunk_end(h, d)
      BY <2>2 DEF Chunks, chunk_end
    <3>2. ChunksOk(s) /\ c \in Chunks(s)
      BY <1>1, <2>2, <3>1 DEF HeapOk
    <3>3. ASSUME NEW d \in Chunks(h)
          PROVE  (d < c => chunk_end(h, d) <= c) /\ ~(c < d)
      <4>1. /\ d < c => chunk_end(h, d) <= c
            /\ c < d => chunk_end(h, c) <= d
            /\ chunk_end(h, d) <= h.sbrk_end
        BY <1>1 DEF ChunksOk
      <4>2. d < chunk_end(h, d) /\ d \in Nat /\ chunk_end(h, d) \in Nat
        BY <1>1, ChunkNat
      <4> QED
        BY <1>1, <1>5, <4>1, <4>2
    <3>4. s.sbrk_start <= c
      BY <3>2 DEF ChunksOk
    <3>5. \A i \in 1..Len(h.free) : h.free[i] # c
      BY DEF Allocated
    <3>6. c + (h.size[c] + add) <= s.sbrk_end
      BY <1>1, <1>2, <2>2 DEF add
    <3> QED
      BY <1>1, <2>2, <3>1, <3>3, <3>4, <3>5, <3>6 DEF Room
  <2>8. g \in HeapType
    BY <2>5
  <2> HIDE DEF g, s, z
  <2>9. /\ HeapOk(g) /\ Allocated(g) = Allocated(s) \cup {c}
        /\ g.size[c] = h.size[c] + add /\ \A e \in Chunks(s) \ {c} : g.size[e] = s.size[e]
    BY <1>1, <2>2, <2>3, <2>6, <2>7, <2>8, ChunkSet
  <2>10. Allocated(h) \subseteq Chunks(s)
    BY <2>2 DEF Allocated
  <2> QED
    <3>1. Grown(h, c, n, [heap |-> g, ok |-> TRUE])
      BY <1>2, <2>2, <2>9, <2>10 DEF Grown, add
    <3> QED
      BY <2>1, <3>1
<1>6. CASE chunk_end(h, c) = h.sbrk_end /\ r.ptr # chunk_end(h, c) /\ r.ptr # SBRK_FAILURE
  <2> DEFINE g == insert_free_chunk(r.heap, r.ptr, add)
  <2>1. chunk_grow(h, c, n) = [heap |-> g, ok |-> FALSE]
    BY <1>1, <1>6 DEF chunk_grow, NULL
  <2>2. add \in Nat /\ MinSize <= add
    BY <1>2
  <2> HIDE DEF r, add
  <2>3. /\ HeapOk(g) /\ Allocated(g) = Allocated(h)
        /\ \A e \in Allocated(h) : g.size[e] = h.size[e]
    BY <1>3, <1>6, <2>2, InsertedChunk
  <2> QED
    BY <2>1, <2>3 DEF Grown
<1>7. CASE chunk_end(h, c) = h.sbrk_end /\ r.ptr # chunk_end(h, c) /\ r.ptr = SBRK_FAILURE
  <2>1. chunk_grow(h, c, n) = [heap |-> s, ok |-> FALSE]
    BY <1>1, <1>7 DEF chunk_grow, NULL
  <2>2. /\ HeapOk(s) /\ Allocated(s) = Allocated(h)
        /\ \A e \in Allocated(h) : s.size[e] = h.size[e]
    <3> HIDE DEF r, s
    <3> QED
      BY <1>3 DEF Granted, s
  <2> HIDE DEF s
  <2> QED
    BY <2>1, <2>2 DEF Grown
<1> QED
  BY <1>4, <1>5, <1>6, <1>7

-----------------------------------------------------------------------------
\* What an allocated chunk tells: used wherever one is moved, cut or copied.
LEMMA AllocatedFacts ==
  ASSUME NEW h, HeapOk(h), NEW c \in Allocated(h)
  PROVE  /\ h \in HeapType /\ c \in Chunks(h) /\ c \in Addr /\ c \in Nat \ {0}
         /\ h.size[c] \in Nat /\ MinSize <= h.size[c] /\ Hdr < h.size[c]
         /\ chunk_end(h, c) = c + h.size[c] /\ chunk_end(h, c) <= MaxAddr
         /\ h.sbrk_start # NULL /\ h.sbrk_start <= c /\ BrkStart <= c
         /\ chunk_end(h, c) <= h.sbrk_end /\ h.sbrk_end \in Nat
<1>1. h \in HeapType /\ ChunksOk(h) /\ c \in Chunks(h)
  BY DEF HeapOk, Allocated
<1>2. /\ c \in Addr /\ c \in Nat /\ h.size[c] \in Nat /\ chunk_end(h, c) \in Nat
      /\ h.sbrk_end \in Nat /\ h.sbrk_end <= MaxAddr
  BY <1>1, ChunkNat, Fields, AddrNat
<1>3. /\ MinSize <= h.size[c] /\ h.sbrk_start # NULL /\ h.sbrk_start <= c
      /\ BrkStart <= c /\ chunk_end(h, c) <= h.sbrk_end
  BY <1>1 DEF ChunksOk
<1>4. chunk_end(h, c) = c + h.size[c]
  BY DEF chunk_end
<1>5. Hdr < h.size[c] /\ c # 0
  BY <1>2, <1>3, Consts
<1>6. chunk_end(h, c) <= MaxAddr
  BY <1>2, <1>3, Consts
<1> QED
  BY <1>1, <1>2, <1>3, <1>4, <1>5, <1>6

\* The object of chunk c is now in chunk d, which is no smaller.
Moved(h, c, g, d) ==
  /\ HeapOk(g) /\ Allocated(g) = (Allocated(h) \ {c}) \cup {d}
  /\ d \notin Allocated(h) \ {c} /\ h.size[c] <= g.size[d]
  /\ \A e \in Allocated(h) \ {c} : g.size[e] = h.size[e]

\* The copy of a chunk's data reads no byte outside memory.
LEMMA CopiedType ==
  ASSUME NEW h, HeapOk(h), NEW c \in Allocated(h), NEW m \in [Addr -> Int], NEW dst \in Int
  PROVE  Copy(m, dst, chunk_to_data(c), chunk_data_size(h, c)) \in [Addr -> Int]
<1>1. /\ c \in Nat /\ h.size[c] \in Nat /\ c + h.size[c] <= MaxAddr
  BY AllocatedFacts
<1> DEFINE src == c + Hdr
           n == h.size[c] - Hdr
<1>2. src \in Int /\ n \in Int /\ 0 <= src /\ src + n <= MaxAddr + 1
  BY <1>1, Consts
<1> HIDE DEF src, n
<1>3. Copy(m, dst, src, n) \in [Addr -> Int]
  BY <1>2, CopyType
<1> QED
  BY <1>3 DEF src, n, chunk_to_data, chunk_data_size

\* realloc() moves the object into the free chunk on its left
\* (malloc.c:353-368).
LEMMA AbsorbedLeft ==
  ASSUME NEW h, HeapOk(h), NEW c \in Allocated(h), NEW k \in LeftOf(h, c)
  PROVE  Moved(h, c, absorb_left(h, c, k), h.free[k])
<1> DEFINE d == h.free[k]
           f2 == RemoveAt(h.free, k)
           z == Join(h.size, d, c)
           m == Copy(h.mem, chunk_to_data(d), chunk_to_data(c), chunk_data_size(h, c))
           u == [h EXCEPT !.free = f2]
           g == absorb_left(h, c, k)
<1>1. k \in 1..Len(h.free) /\ chunk_end(h, d) = c
  BY DEF LeftOf
<1>2. /\ h \in HeapType /\ c \in Chunks(h) /\ d \in Chunks(h) /\ d \in Addr /\ d \in Nat
      /\ h.free \in Seq(Addr) /\ h.mem \in [Addr -> Int]
      /\ h.size[c] \in Nat /\ h.size[d] \in Nat
  BY <1>1, AllocatedFacts, Fields, ChunkNat DEF HeapOk, FreeOk
<1>3. f2 \in Seq(Addr)
  BY <1>1, <1>2, RemoveAtProperties
<1>4. z \in [Addr -> Nat]
  BY <1>2, JoinType
<1>5. m \in [Addr -> Int]
  <2>1. chunk_to_data(d) \in Int
    BY <1>2, Consts DEF chunk_to_data
  <2> QED
    BY <1>2, <2>1, CopiedType
<1>6. g = [h EXCEPT !.free = f2, !.size = z, !.mem = m]
  BY DEF absorb_left
<1> HIDE DEF d, f2, z, m
<1>7. u \in HeapType /\ u.free = f2 /\ u.size = h.size /\ SameBounds(h, u)
  BY <1>2, <1>3 DEF HeapType, SameBounds
<1>8. g \in HeapType /\ g.free = f2 /\ g.size = z /\ SameBounds(h, g)
  BY <1>2, <1>3, <1>4, <1>5, <1>6 DEF HeapType, SameBounds
<1> HIDE DEF u, g
<1>9. HeapOk(u) /\ Allocated(u) = Allocated(h) \cup {d} /\ Chunks(u) = Chunks(h) /\ d \notin Allocated(h)
  BY <1>1, <1>7, Unlinked DEF d, f2
<1>10. chunk_end(u, d) = c /\ SameBounds(u, g) /\ g.size = Join(u.size, d, c) /\ g.free = u.free
  BY <1>1, <1>7, <1>8 DEF chunk_end, SameBounds, z
<1>g. g \in HeapType /\ c \in Allocated(u) /\ d \in Allocated(u)
  BY <1>8, <1>9
<1>11. /\ HeapOk(g) /\ Allocated(g) = Allocated(u) \ {c} /\ d # c
       /\ g.size[d] = u.size[d] + u.size[c]
       /\ \A e \in Chunks(u) \ {d, c} : g.size[e] = u.size[e]
  BY <1>9, <1>10, <1>g, JoinedAllocated
<1>12. h.size[c] <= g.size[d]
  BY <1>2, <1>7, <1>11
<1>13. \A e \in Allocated(h) \ {c} : g.size[e] = h.size[e]
  <2>1. Allocated(h) \ {c} \subseteq Chunks(u) \ {d, c}
    BY <1>9 DEF Allocated
  <2> QED
    BY <1>7, <1>11, <2>1
<1>14. Moved(h, c, g, d)
  BY <1>9, <1>11, <1>12, <1>13 DEF Moved
<1> QED
  BY <1>14 DEF g, d

\* realloc() takes in the free chunk on the object's right
\* (malloc.c:369-381).
LEMMA AbsorbedRight ==
  ASSUME NEW h, HeapOk(h), NEW c \in Allocated(h), NEW k \in RightOf(h, c)
  PROVE  Moved(h, c, absorb_right(h, c, k), c)
<1> DEFINE d == h.free[k]
           f2 == RemoveAt(h.free, k)
           z == Join(h.size, c, d)
           m == Scribble(h.mem, d)
           u == [h EXCEPT !.free = f2]
           g == absorb_right(h, c, k)
<1>1. k \in 1..Len(h.free) /\ chunk_end(h, c) = d
  BY DEF RightOf
<1>2. /\ h \in HeapType /\ c \in Chunks(h) /\ d \in Chunks(h)
      /\ h.free \in Seq(Addr) /\ h.mem \in [Addr -> Int]
      /\ h.size[c] \in Nat /\ h.size[d] \in Nat
  BY <1>1, AllocatedFacts, Fields, ChunkNat DEF HeapOk, FreeOk
<1>3. f2 \in Seq(Addr)
  BY <1>1, <1>2, RemoveAtProperties
<1>4. z \in [Addr -> Nat]
  BY <1>2, JoinType
<1>5. m \in [Addr -> Int]
  BY <1>2, FillType, 0 \in Int
<1>6. g = [h EXCEPT !.free = f2, !.size = z, !.mem = m]
  BY DEF absorb_right
<1> HIDE DEF d, f2, z, m
<1>7. u \in HeapType /\ u.free = f2 /\ u.size = h.size /\ SameBounds(h, u)
  BY <1>2, <1>3 DEF HeapType, SameBounds
<1>8. g \in HeapType /\ g.free = f2 /\ g.size = z /\ SameBounds(h, g)
  BY <1>2, <1>3, <1>4, <1>5, <1>6 DEF HeapType, SameBounds
<1> HIDE DEF u, g
<1>9. HeapOk(u) /\ Allocated(u) = Allocated(h) \cup {d} /\ Chunks(u) = Chunks(h) /\ d \notin Allocated(h)
  BY <1>1, <1>7, Unlinked DEF d, f2
<1>10. chunk_end(u, c) = d /\ SameBounds(u, g) /\ g.size = Join(u.size, c, d) /\ g.free = u.free
  BY <1>1, <1>7, <1>8 DEF chunk_end, SameBounds, z
<1>g. g \in HeapType /\ c \in Allocated(u) /\ d \in Allocated(u)
  BY <1>8, <1>9
<1>11. /\ HeapOk(g) /\ Allocated(g) = Allocated(u) \ {d} /\ c # d
       /\ g.size[c] = u.size[c] + u.size[d]
       /\ \A e \in Chunks(u) \ {c, d} : g.size[e] = u.size[e]
  BY <1>9, <1>10, <1>g, JoinedAllocated
<1>12. h.size[c] <= g.size[c]
  BY <1>2, <1>7, <1>11
<1>13. \A e \in Allocated(h) \ {c} : g.size[e] = h.size[e]
  <2>1. Allocated(h) \ {c} \subseteq Chunks(u) \ {c, d}
    BY <1>9 DEF Allocated
  <2> QED
    BY <1>7, <1>11, <2>1
<1>14. Moved(h, c, g, c)
  BY <1>9, <1>11, <1>12, <1>13 DEF Moved
<1> QED
  BY <1>14 DEF g

\* Moves compose.
LEMMA MovedTwice ==
  ASSUME NEW h, HeapOk(h), NEW c \in Allocated(h), NEW u, NEW d, Moved(h, c, u, d),
         NEW g, NEW e, Moved(u, d, g, e)
  PROVE  Moved(h, c, g, e)
<1>1. HeapOk(u) /\ HeapOk(g) /\ d \in Allocated(u) /\ e \in Allocated(g)
  BY DEF Moved
<1>2. h.size[c] \in Nat /\ u.size[d] \in Nat /\ g.size[e] \in Nat
  BY <1>1, AllocatedFacts
<1>3. Allocated(u) \ {d} = Allocated(h) \ {c}
  BY DEF Moved
<1> QED
  BY <1>1, <1>2, <1>3 DEF Moved

\* The loop of realloc() over the list.
LEMMA MergedAdjacent ==
  ASSUME NEW h, HeapOk(h), NEW c \in Allocated(h), NEW r, r = merge_adjacent(h, c)
  PROVE  Moved(h, c, r.heap, r.chunk)
<1>0. Moved(h, c, h, c)
  <2>1. h.size[c] <= h.size[c]
    BY AllocatedFacts
  <2> QED
    BY <2>1 DEF Moved
<1> DEFINE l == merge_left(h, c)
           R == RightOf(l.heap, l.chunk)
           k == CHOOSE j \in R : TRUE
<1>1. Moved(h, c, l.heap, l.chunk) /\ l = [heap |-> l.heap, chunk |-> l.chunk]
  <2>1. CASE LeftOf(h, c) = {}
    BY <2>1, <1>0 DEF merge_left
  <2>2. CASE LeftOf(h, c) # {}
    <3> DEFINE j == CHOOSE i \in LeftOf(h, c) : TRUE
    <3>1. j \in LeftOf(h, c)
      BY <2>2
    <3>2. l = [heap |-> absorb_left(h, c, j), chunk |-> h.free[j]]
      BY <2>2 DEF merge_left
    <3> HIDE DEF j
    <3>3. Moved(h, c, absorb_left(h, c, j), h.free[j])
      BY <3>1, AbsorbedLeft
    <3> QED
      BY <3>2, <3>3
  <2> QED
    BY <2>1, <2>2
<1>2. CASE R = {}
  BY <1>1, <1>2 DEF merge_adjacent
<1>3. CASE R # {}
  <2>1. k \in R
    BY <1>3
  <2>2. r = [l EXCEPT !.heap = absorb_right(l.heap, l.chunk, k)]
    BY <1>3 DEF merge_adjacent
  <2> HIDE DEF l, k
  <2>3. r.heap = absorb_right(l.heap, l.chunk, k) /\ r.chunk = l.chunk
    BY <1>1, <2>2
  <2>4. HeapOk(l.heap) /\ l.chunk \in Allocated(l.heap)
    BY <1>1 DEF Moved
  <2>5. Moved(l.heap, l.chunk, r.heap, l.chunk)
    BY <2>1, <2>3, <2>4, AbsorbedRight
  <2> QED
    BY <1>1, <2>3, <2>5, MovedTwice
<1> QED
  BY <1>2, <1>3

\* split() cuts an allocated chunk down to no less than n bytes.
LEMMA SplitChunk ==
  ASSUME NEW h, HeapOk(h), NEW c \in Allocated(h), NEW n \in Nat,
         MinSize <= n, n <= h.size[c], NEW g, g = split(h, c, n)
  PROVE  /\ HeapOk(g) /\ Allocated(g) = Allocated(h) /\ n <= g.size[c]
         /\ \A e \in Allocated(h) \ {c} : g.size[e] = h.size[e]
<1> DEFINE x == h.size[c] - n
           d == c + n
           m == Scribble(h.mem, d)
           za == [h.size EXCEPT ![c] = n]
           a == [h EXCEPT !.size = za, !.mem = m]
           zb == [za EXCEPT ![d] = x]
           b == [a EXCEPT !.size = zb]
<1>1. /\ h \in HeapType /\ ChunksOk(h) /\ FreeOk(h) /\ c \in Chunks(h) /\ c \in Addr /\ c \in Nat
      /\ h.size[c] \in Nat /\ h.size \in [Addr -> Nat] /\ h.mem \in [Addr -> Int]
      /\ chunk_end(h, c) = c + h.size[c] /\ chunk_end(h, c) <= MaxAddr
      /\ h.sbrk_start # NULL /\ h.sbrk_start <= c /\ BrkStart <= c
      /\ chunk_end(h, c) <= h.sbrk_end /\ h.sbrk_end \in Nat /\ h.sbrk_start \in Nat
  BY AllocatedFacts, Fields DEF HeapOk
<1>2. CASE x < MinSize
  BY <1>2, <1>1 DEF split
<1>3. CASE ~(x < MinSize)
  <2>1. g = noc_free(b, d + Hdr)
    BY <1>3 DEF split, insert_free_chunk, chunk_to_data
  <2> HIDE DEF m, b
  <2>2. /\ x \in Nat /\ MinSize <= x /\ x > 0 /\ n > 0 /\ d \in Nat /\ d \in Addr
        /\ c < d /\ d < chunk_end(h, c) /\ d + x = chunk_end(h, c) /\ BrkStart <= d
        /\ h.sbrk_start <= d /\ d <= h.sbrk_end
    <3>1. h.size[c] \in Nat /\ c \in Nat /\ chunk_end(h, c) = c + h.size[c]
          /\ chunk_end(h, c) <= MaxAddr
      BY <1>1
    <3>2. x \in Nat /\ MinSize <= x /\ x > 0 /\ n > 0
      BY <1>3, <3>1, Consts
    <3>3. d \in Nat /\ c < d /\ d + x = chunk_end(h, c) /\ d < chunk_end(h, c)
      BY <3>1, <3>2
    <3>4. d <= MaxAddr
      BY <3>1, <3>3, Consts
    <3>5. BrkStart <= d /\ h.sbrk_start <= d /\ d <= h.sbrk_end
      BY <1>1, <3>1, <3>3, Consts
    <3> QED
      BY <3>2, <3>3, <3>4, <3>5, Consts DEF Addr
  <2> HIDE DEF x, d, za, zb
  <2>3. m \in [Addr -> Int]
    BY <1>1, FillType, 0 \in Int DEF m
  <2>4. za \in [Addr -> Nat]
    BY <1>1 DEF za
  <2>5. a \in HeapType /\ a.size = za /\ a.free = h.free /\ SameBounds(h, a)
    BY <1>1, <2>3, <2>4 DEF HeapType, SameBounds
  <2> HIDE DEF a
  <2>6. Sized(h, c, n, a)
    BY <2>5 DEF Sized, za
  <2>7. \A i \in 1..Len(h.free) : h.free[i] \in Chunks(h) /\ h.free[i] # c
    BY <1>1 DEF Allocated, FreeOk
  <2>8. ASSUME NEW e \in Chunks(h)
        PROVE  /\ e < c => chunk_end(h, e) <= c
               /\ c < e => chunk_end(h, c) <= e
               /\ e \in Nat /\ chunk_end(h, e) \in Nat
    BY <1>1, ChunkNat DEF ChunksOk
  <2>9. Room(h, c, n)
    <3>1. c + n <= h.sbrk_end
      BY <2>2 DEF d
    <3>2. ASSUME NEW e \in Chunks(h)
          PROVE  (e < c => chunk_end(h, e) <= c) /\ (c < e => c + n <= e)
      <4>1. c + n < chunk_end(h, c) /\ c + n \in Nat
        BY <2>2 DEF d
      <4> QED
        BY <1>1, <2>8, <4>1
    <3> QED
      BY <1>1, <2>7, <3>1, <3>2 DEF Room
  <2>10. a \in HeapType
    BY <2>5
  <2>11. /\ HeapOk(a) /\ Allocated(a) = Allocated(h) \cup {c}
         /\ a.size[c] = n /\ \A e \in Chunks(h) \ {c} : a.size[e] = h.size[e]
    BY <1>1, <2>6, <2>9, <2>10, ChunkSet
  <2>12. ~(d \in Chunks(h))
    BY <1>1, <2>2, <2>8
  <2>13. Chunks(a) = Chunks(h)
    <3>1. \A e \in Addr : a.size[e] > 0 <=> h.size[e] > 0
      BY <1>1, <2>2, <2>5 DEF za, Chunks
    <3> QED
      BY <3>1 DEF Chunks
  <2>14. chunk_end(a, c) = d /\ \A e \in Chunks(h) \ {c} : chunk_end(a, e) = chunk_end(h, e)
    BY <2>11 DEF chunk_end, d
  <2>15. zb \in [Addr -> Nat]
    BY <2>2, <2>4 DEF zb
  <2>16. b \in HeapType /\ b.size = zb /\ b.free = a.free /\ SameBounds(a, b)
    BY <2>10, <2>15 DEF HeapType, SameBounds, b
  <2>17. b \in HeapType /\ Sized(a, d, x, b)
    BY <2>5, <2>16 DEF Sized, zb
  <2>18. Room(a, d, x)
    <3>1. /\ a.sbrk_start # NULL /\ a.sbrk_start <= d /\ BrkStart <= d
          /\ d + x <= a.sbrk_end
      BY <1>1, <2>2, <2>5 DEF SameBounds
    <3>2. ASSUME NEW e \in Chunks(a)
          PROVE  (e < d => chunk_end(a, e) <= d) /\ (d < e => d + x <= e)
      <4>1. CASE e = c
        BY <1>1, <2>2, <2>14, <4>1
      <4>2. CASE e # c
        <5>1. e \in Chunks(h) /\ e # c /\ chunk_end(a, e) = chunk_end(h, e)
          BY <2>13, <2>14, <4>2
        <5>2. /\ e < c => chunk_end(h, e) <= c
              /\ c < e => chunk_end(h, c) <= e
              /\ e \in Nat /\ chunk_end(h, e) \in Nat
          BY <2>8, <5>1
        <5>3. /\ c \in Nat /\ d \in Nat /\ chunk_end(h, c) \in Nat
              /\ c < d /\ d < chunk_end(h, c) /\ d + x = chunk_end(h, c)
          BY <1>1, <2>2
        <5>4. (e < d => chunk_end(h, e) <= d) /\ (d < e => chunk_end(h, c) <= e)
          BY <5>1, <5>2, <5>3
        <5> QED
          BY <5>1, <5>3, <5>4
      <4> QED
        BY <4>1, <4>2
    <3>3. \A i \in 1..Len(a.free) : a.free[i] # d
      BY <2>5, <2>7, <2>12
    <3> QED
      BY <3>1, <3>2, <3>3 DEF Room
  <2>19. /\ HeapOk(b) /\ Allocated(b) = Allocated(a) \cup {d}
         /\ \A e \in Chunks(a) \ {d} : b.size[e] = a.size[e]
    BY <2>2, <2>11, <2>17, <2>18, ChunkSet
  <2>20. Freed(b, d, g)
    BY <2>1, <2>19, FreeChunk
  <2>21. Allocated(h) \subseteq Chunks(a) \ {d} /\ c # d
    BY <2>12, <2>13 DEF Allocated
  <2> QED
    BY <2>11, <2>13, <2>19, <2>20, <2>21 DEF Freed
<1> QED
  BY <1>2, <1>3

\* What a call of realloc(p, n) that is not 0 promises of the chunk c of p: the
\* object is in chunk d, with room for n bytes, or in r.chunk when it failed.
Realloced(h, c, n, r) ==
  \/ r.ptr = NULL /\ Moved(h, c, r.heap, r.chunk)
  \/ \E d \in Addr :
        /\ r.ptr = d + Hdr /\ n + Hdr <= r.heap.size[d]
        /\ HeapOk(r.heap) /\ Allocated(r.heap) = (Allocated(h) \ {c}) \cup {d}
        /\ d \notin Allocated(h) \ {c}
        /\ \A e \in Allocated(h) \ {c} : r.heap.size[e] = h.size[e]

\* realloc() allocates, copies and frees, or leaves the chunk where it is
\* (malloc.c:401-407).
LEMMA Relocated ==
  ASSUME NEW h, HeapOk(h), NEW c \in Allocated(h), NEW n \in Sizes, n # 0
  PROVE  Realloced(h, c, n, relocate(h, c, n))
<1> DEFINE new == noc_malloc(h, n)
           u == new.heap
           m == Copy(u.mem, new.ptr, chunk_to_data(c), chunk_data_size(h, c))
           y == [u EXCEPT !.mem = m]
           g == noc_free(y, c + Hdr)
<1> DEFINE size == chunk_size_for_data(n)
<1>1. Malloced(h, size, new)
  BY MallocChunk
<1>s. n + Hdr <= size /\ n \in Nat /\ size \in Nat
  BY ChunkSizeForData
<1> HIDE DEF size
<1>2. c \in Nat /\ h.size[c] \in Nat
  BY AllocatedFacts
<1>3. CASE new.ptr = NULL
  <2>1. relocate(h, c, n) = [heap |-> u, ptr |-> NULL, chunk |-> c]
    BY <1>3 DEF relocate
  <2> HIDE DEF new
  <2>2. HeapOk(u) /\ Allocated(u) = Allocated(h) /\ \A e \in Allocated(h) : u.size[e] = h.size[e]
    <3>1. \A d \in Addr : d + Hdr # NULL
      BY AddrNat, Consts DEF NULL
    <3>2. /\ HeapOk(u) /\ \A e \in Allocated(h) : u.size[e] = h.size[e]
          /\ \/ Allocated(u) = Allocated(h)
             \/ \E d \in Addr : new.ptr = d + Hdr
      BY <1>1 DEF Malloced
    <3> HIDE DEF u
    <3> QED
      BY <1>3, <3>1, <3>2
  <2>3. Moved(h, c, u, c)
    <3>1. h.size[c] <= u.size[c]
      BY <1>2, <2>2
    <3>2. (Allocated(h) \ {c}) \cup {c} = Allocated(h)
      OBVIOUS
    <3> QED
      BY <2>2, <3>1, <3>2 DEF Moved
  <2> QED
    BY <2>1, <2>3 DEF Realloced
<1>4. CASE new.ptr # NULL
  <2>1. relocate(h, c, n) = [heap |-> g, ptr |-> new.ptr, chunk |-> c]
    BY <1>4 DEF relocate, chunk_to_data
  <2> HIDE DEF new
  <2>2. PICK d \in Addr \ Allocated(h) :
           /\ new.ptr = d + Hdr /\ Allocated(u) = Allocated(h) \cup {d}
           /\ size <= u.size[d]
    BY <1>1, <1>4 DEF Malloced
  <2>3. HeapOk(u) /\ \A e \in Allocated(h) : u.size[e] = h.size[e]
    BY <1>1 DEF Malloced
  <2>4. m \in [Addr -> Int]
    <3>1. new.ptr \in Int /\ u.mem \in [Addr -> Int]
      <4>1. d + Hdr \in Int
        BY AddrNat, Consts
      <4>2. u.mem \in [Addr -> Int]
        BY <2>3, Fields DEF HeapOk
      <4> QED
        BY <2>2, <4>1, <4>2
    <3> QED
      BY <3>1, CopiedType
  <2> HIDE DEF m
  <2>5. HeapOk(y) /\ Allocated(y) = Allocated(u) /\ y.size = u.size
    BY <2>3, <2>4, OtherBytes
  <2> HIDE DEF y
  <2>6. Freed(y, c, g)
    BY <2>2, <2>5, FreeChunk
  <2> HIDE DEF g
  <2>7. /\ HeapOk(g) /\ Allocated(g) = (Allocated(h) \ {c}) \cup {d} /\ d # c
        /\ n + Hdr <= g.size[d]
        /\ \A e \in Allocated(h) \ {c} : g.size[e] = h.size[e]
    <3>1. /\ HeapOk(g) /\ Allocated(g) = (Allocated(h) \ {c}) \cup {d} /\ d # c
          /\ size <= g.size[d]
          /\ \A e \in Allocated(h) \ {c} : g.size[e] = h.size[e]
      BY <2>2, <2>3, <2>5, <2>6 DEF Freed
    <3>2. g.size[d] \in Nat
      BY <3>1, AllocatedFacts
    <3> QED
      BY <1>s, <3>1, <3>2, Consts
  <2> QED
    BY <2>1, <2>2, <2>7 DEF Realloced
<1> QED
  BY <1>3, <1>4

\* A chunk of c's object that is large enough once moved.
LEMMA KeptChunk ==
  ASSUME NEW h, NEW c, NEW n, NEW u, NEW d \in Addr, Moved(h, c, u, d),
         NEW g, HeapOk(g), Allocated(g) = Allocated(u), n + Hdr <= g.size[d],
         \A e \in Allocated(u) \ {d} : g.size[e] = u.size[e],
         NEW r, r.heap = g, r.ptr = d + Hdr
  PROVE  Realloced(h, c, n, r)
BY DEF Moved, Realloced

\* What realloc() does after a move it has done to the object.
LEMMA MovedRealloced ==
  ASSUME NEW h, NEW c, NEW n, NEW u, NEW d, Moved(h, c, u, d), NEW r, Realloced(u, d, n, r),
         HeapOk(h), c \in Allocated(h)
  PROVE  Realloced(h, c, n, r)
<1>1. Allocated(u) \ {d} = Allocated(h) \ {c} /\ HeapOk(u) /\ d \in Allocated(u)
  BY DEF Moved
<1>2. \A e \in Allocated(h) \ {c} : u.size[e] = h.size[e]
  BY DEF Moved
<1>3. CASE r.ptr = NULL /\ Moved(u, d, r.heap, r.chunk)
  <2>1. Moved(h, c, r.heap, r.chunk)
    BY <1>3, MovedTwice
  <2> QED
    BY <1>3, <2>1 DEF Realloced
<1>4. CASE ~(r.ptr = NULL /\ Moved(u, d, r.heap, r.chunk))
  BY <1>1, <1>2, <1>4 DEF Realloced
<1> QED
  BY <1>3, <1>4

\* realloc() of an allocated chunk.
LEMMA ReallocChunk ==
  ASSUME NEW h, HeapOk(h), NEW c \in Allocated(h), NEW n \in Sizes, n # 0
  PROVE  Realloced(h, c, n, noc_realloc(h, c + Hdr, n))
<1> DEFINE p     == c + Hdr
           alloc == chunk_size_for_data(n)
           grow  == chunk_grow(h, c, alloc)
           u     == grow.heap
           m     == merge_adjacent(u, c)
           r     == noc_realloc(h, p, n)
           Keep(g, d) == [heap |-> g, ptr |-> chunk_to_data(d), chunk |-> d]
<1>1. /\ c \in Addr /\ c \in Nat /\ h.size[c] \in Nat /\ Hdr < h.size[c] /\ h \in HeapType
      /\ chunk_end(h, c) = c + h.size[c] /\ h.sbrk_start <= c
      /\ chunk_end(h, c) <= h.sbrk_end /\ h.sbrk_end \in Nat
  BY AllocatedFacts
<1>2. h.sbrk_start \in Nat
  BY <1>1, Fields
<1>3. alloc \in Nat /\ MinSize <= alloc /\ n + Hdr <= alloc /\ n \in Nat
  BY ChunkSizeForData
<1>4. chunk_from_data(p) = c /\ p # NULL /\ ~OutOfHeap(h, p)
  <2>1. chunk_from_data(p) = c /\ p # NULL
    BY <1>1, Consts DEF chunk_from_data, NULL
  <2>2. ~(p < h.sbrk_start) /\ ~(p > h.sbrk_end) /\ ~(chunk_end(h, c) > h.sbrk_end)
    BY <1>1, <1>2, Consts
  <2> QED
    BY <2>1, <2>2 DEF OutOfHeap
<1>5. Moved(h, c, h, c)
  <2>1. h.size[c] <= h.size[c] /\ (Allocated(h) \ {c}) \cup {c} = Allocated(h)
    BY <1>1
  <2> QED
    BY <2>1 DEF Moved
<1>6. r = IF h.size[c] >= alloc THEN Keep(split(h, c, alloc), c)
          ELSE IF grow.ok THEN Keep(u, c)
          ELSE IF m.heap.size[m.chunk] >= alloc
               THEN Keep(split(m.heap, m.chunk, alloc), m.chunk)
          ELSE relocate(m.heap, m.chunk, n)
  BY <1>4 DEF noc_realloc
<1> HIDE DEF r, m, u, grow, alloc, p
<1>7. ASSUME NEW v, NEW d, Moved(h, c, v, d), alloc <= v.size[d],
             r = Keep(split(v, d, alloc), d)
      PROVE  Realloced(h, c, n, r)
  <2> DEFINE g == split(v, d, alloc)
  <2>1. HeapOk(v) /\ d \in Allocated(v)
    BY <1>7 DEF Moved
  <2>2. d \in Addr
    BY <2>1, AllocatedFacts
  <2>3. /\ HeapOk(g) /\ Allocated(g) = Allocated(v) /\ alloc <= g.size[d]
        /\ \A e \in Allocated(v) \ {d} : g.size[e] = v.size[e]
    BY <1>3, <1>7, <2>1, SplitChunk
  <2>4. r.heap = g /\ r.ptr = d + Hdr
    BY <1>7 DEF chunk_to_data
  <2> HIDE DEF g
  <2>5. n + Hdr <= g.size[d]
    <3>1. g.size[d] \in Nat
      BY <2>1, <2>3, AllocatedFacts
    <3> QED
      BY <1>3, <2>3, <3>1, Consts
  <2> QED
    BY <1>7, <2>2, <2>3, <2>4, <2>5, KeptChunk
<1>8. CASE h.size[c] >= alloc
  <2>1. r = Keep(split(h, c, alloc), c) /\ alloc <= h.size[c]
    BY <1>1, <1>3, <1>6, <1>8
  <2> QED
    BY <1>5, <1>7, <2>1 DEF r, p
<1>9. CASE ~(h.size[c] >= alloc)
  <2>1. Grown(h, c, alloc, grow)
    BY <1>1, <1>3, <1>9, GrownChunk DEF grow
  <2>2. CASE grow.ok
    <3>1. r.heap = u /\ r.ptr = c + Hdr
      BY <1>6, <1>9, <2>2 DEF chunk_to_data
    <3>2. /\ HeapOk(u) /\ Allocated(u) = Allocated(h) /\ alloc <= u.size[c]
          /\ \A e \in Allocated(h) \ {c} : u.size[e] = h.size[e]
      BY <2>1, <2>2 DEF Grown, u
    <3>3. n + Hdr <= u.size[c]
      <4>1. u.size[c] \in Nat
        BY <3>2, AllocatedFacts
      <4> QED
        BY <1>3, <3>2, <4>1, Consts
    <3>4. Realloced(h, c, n, r)
      BY <1>1, <1>5, <3>1, <3>2, <3>3, KeptChunk
    <3> QED
      BY <3>4 DEF r, p
  <2>3. CASE ~grow.ok
    <3>1. Moved(h, c, u, c)
      <4>1. /\ HeapOk(u) /\ Allocated(u) = Allocated(h) /\ u.size[c] = h.size[c]
            /\ \A e \in Allocated(h) \ {c} : u.size[e] = h.size[e]
        BY <2>1, <2>3 DEF Grown, u
      <4>2. h.size[c] <= u.size[c] /\ (Allocated(h) \ {c}) \cup {c} = Allocated(h)
        BY <1>1, <4>1
      <4> QED
        BY <4>1, <4>2 DEF Moved
    <3>2. HeapOk(u) /\ c \in Allocated(u)
      BY <3>1 DEF Moved
    <3>3. Moved(u, c, m.heap, m.chunk)
      BY <3>2, MergedAdjacent DEF m
    <3>4. Moved(h, c, m.heap, m.chunk)
      BY <3>1, <3>3, MovedTwice
    <3>5. HeapOk(m.heap) /\ m.chunk \in Allocated(m.heap)
      BY <3>4 DEF Moved
    <3>6. m.heap.size[m.chunk] \in Nat
      BY <3>5, AllocatedFacts
    <3>7. CASE m.heap.size[m.chunk] >= alloc
      <4>1. alloc <= m.heap.size[m.chunk] /\ r = Keep(split(m.heap, m.chunk, alloc), m.chunk)
        BY <1>3, <1>6, <1>9, <2>3, <3>6, <3>7
      <4> QED
        BY <1>7, <3>4, <4>1 DEF r, p
    <3>8. CASE ~(m.heap.size[m.chunk] >= alloc)
      <4>1. r = relocate(m.heap, m.chunk, n)
        BY <1>6, <1>9, <2>3, <3>8
      <4>2. Realloced(m.heap, m.chunk, n, r)
        BY <3>5, <4>1, Relocated
      <4>3. Realloced(h, c, n, r)
        BY <3>4, <4>2, MovedRealloced
      <4> QED
        BY <4>3 DEF r, p
    <3> QED
      BY <3>7, <3>8
  <2> QED
    BY <2>2, <2>3
<1> QED
  BY <1>8, <1>9

\* calloc() writes into the data of the chunk that malloc() gave it, where no
\* header is: only the bytes change.
LEMMA ClearedChunk ==
  ASSUME NEW h, HeapOk(h), NEW k \in Nmembs, NEW n \in Sizes, ~(k * n >= SizeMod),
         NEW r, r = noc_malloc(h, n), r.ptr # NULL
  PROVE  \E m \in [Addr -> Int] :
            noc_calloc(h, k, n) = [heap |-> [r.heap EXCEPT !.mem = m], ptr |-> r.ptr]
<1> DEFINE total == k * n
           u     == r.heap
           q     == r.ptr
           size  == chunk_size_for_data(n)
           m     == Fill(u.mem, q, total, 0)
           z     == Fill(u.size, q, total, 0)
           g     == [u EXCEPT !.mem = m]
<1>1. Malloced(h, size, r) /\ total \in Nat
  BY MallocChunk, ConstantsAssumption
<1>2. n # 0
  BY DEF noc_malloc
<1>3. total + Hdr <= size /\ size \in Nat
  BY <1>2, NmembsAssumption, ChunkSizeForData
<1>4. noc_calloc(h, k, n) = [[r EXCEPT !.heap.mem = m] EXCEPT !.heap.size = z]
  BY DEF noc_calloc
<1>5. r = [heap |-> u, ptr |-> q]
  BY DEF noc_malloc, chunk_grow, LastLink, extend
<1> HIDE DEF total, size
<1>6. PICK c \in Addr \ Allocated(h) :
         q = c + Hdr /\ Allocated(u) = Allocated(h) \cup {c} /\ size <= u.size[c]
  BY <1>1 DEF Malloced
<1>7. /\ u \in HeapType /\ ChunksOk(u) /\ c \in Chunks(u) /\ c \in Nat /\ u.size[c] \in Nat
      /\ chunk_end(u, c) = c + u.size[c]
  BY <1>1, <1>6, AllocatedFacts DEF HeapOk, Malloced
<1>8. u.size \in [Addr -> Nat] /\ u.mem \in [Addr -> Int]
  BY <1>7, Fields
<1>9. z = u.size
  <2>1. ASSUME NEW x \in Addr, x \in q .. q + total - 1
        PROVE  u.size[x] = 0
    <3>1. x \in Nat /\ c < x /\ x < chunk_end(u, c)
      BY <1>1, <1>3, <1>6, <1>7, <2>1, Consts
    <3>2. x \notin Chunks(u)
      BY <1>7, <3>1 DEF ChunksOk
    <3> QED BY <1>8, <3>2 DEF Chunks
  <2> HIDE DEF u, q
  <2> QED BY <1>8, <2>1 DEF Fill
<1>10. m \in [Addr -> Int]
  BY <1>8, FillType
<1>11. noc_calloc(h, k, n) = [heap |-> g, ptr |-> q]
  <2> DEFINE w == [g EXCEPT !.size = z]
  <2>1. w = g
    <3> HIDE DEF z, m, u
    <3> QED BY <1>7, <1>9, <1>10 DEF HeapType
  <2> HIDE DEF u, q, m, z
  <2>2. [r EXCEPT !.heap.mem = m] = [heap |-> g, ptr |-> q]
    BY <1>5
  <2>3. [[heap |-> g, ptr |-> q] EXCEPT !.heap.size = z] = [heap |-> w, ptr |-> q]
    OBVIOUS
  <2> QED BY <1>4, <2>1, <2>2, <2>3
<1> HIDE DEF m
<1> QED BY <1>10, <1>11

\* calloc(): clearing the object reaches no other chunk's header.
LEMMA CallocChunk ==
  ASSUME NEW h, HeapOk(h), NEW k \in Nmembs, NEW n \in Sizes
  PROVE  Malloced(h, k * n + Hdr, noc_calloc(h, k, n))
<1> DEFINE total == k * n
           r     == noc_malloc(h, n)
           u     == r.heap
           size  == chunk_size_for_data(n)
<1>1. Malloced(h, size, r)
  BY MallocChunk
<1>2. total \in Nat
  BY ConstantsAssumption
<1>3. CASE total >= SizeMod
  <2>1. noc_calloc(h, k, n) = [heap |-> h, ptr |-> NULL]
    BY <1>3 DEF noc_calloc
  <2> QED
    BY <2>1 DEF Malloced
<1>4. CASE ~(total >= SizeMod) /\ r.ptr = NULL
  <2>1. noc_calloc(h, k, n) = r
    BY <1>4 DEF noc_calloc
  <2>2. \A d \in Addr : d + Hdr # NULL
    BY AddrNat, Consts DEF NULL
  <2> HIDE DEF r, total
  <2> QED
    BY <1>1, <1>4, <2>1, <2>2 DEF Malloced
<1>5. CASE ~(total >= SizeMod) /\ r.ptr # NULL
  <2>1. n # 0
    BY <1>5 DEF noc_malloc
  <2>2. total + Hdr <= size /\ size \in Nat
    BY <2>1, NmembsAssumption, ChunkSizeForData
  <2> HIDE DEF r, total, size
  <2>3. PICK c \in Addr \ Allocated(h) :
           /\ r.ptr = c + Hdr /\ Allocated(u) = Allocated(h) \cup {c}
           /\ size <= u.size[c]
    BY <1>1, <1>5 DEF Malloced
  <2>4. HeapOk(u) /\ \A e \in Allocated(h) : u.size[e] = h.size[e]
    BY <1>1 DEF Malloced
  <2>5. /\ u \in HeapType /\ ChunksOk(u) /\ c \in Chunks(u) /\ c \in Nat /\ u.size[c] \in Nat
        /\ chunk_end(u, c) = c + u.size[c]
    BY <2>3, <2>4, AllocatedFacts DEF HeapOk
  <2>6. PICK m \in [Addr -> Int] :
           noc_calloc(h, k, n) = [heap |-> [u EXCEPT !.mem = m], ptr |-> r.ptr]
    BY <1>5, ClearedChunk DEF total, r
  <2> DEFINE g == [u EXCEPT !.mem = m]
  <2>7. noc_calloc(h, k, n) = [heap |-> g, ptr |-> r.ptr]
    BY <2>6
  <2>8. HeapOk(g) /\ Allocated(g) = Allocated(u) /\ g.size = u.size
    BY <2>4, OtherBytes
  <2> HIDE DEF g
  <2>9. total + Hdr <= u.size[c]
    BY <1>2, <2>2, <2>3, <2>5, Consts
  <2>10. Malloced(h, total + Hdr, [heap |-> g, ptr |-> r.ptr])
    BY <2>3, <2>4, <2>8, <2>9 DEF Malloced
  <2> QED
    BY <2>7, <2>10 DEF total
<1> QED
  BY <1>3, <1>4, <1>5

-----------------------------------------------------------------------------
(* The callers' view: what the heap owes to them. *)

Headers(o) == {chunk_from_data(p) : p \in Held(o)}

\* A is the set of allocated chunks, with the sizes in size: those of the
\* objects in o, each large enough, and those in l.
Accounts(A, size, o, l) ==
  /\ o \in [Addr -> Nat \cup {NotHeld}] /\ l \subseteq Addr
  /\ A = Headers(o) \cup l /\ Headers(o) \cap l = {} /\ NULL \notin Held(o)
  /\ \A p \in Held(o) : o[p] + Hdr <= size[chunk_from_data(p)]

\* The invariant as a statement of the heap and one of the callers' view.
LEMMA IInvAccounts ==
  IInv <=> HeapOk(heap) /\ Accounts(Allocated(heap), heap.size, obj, lost)
BY DEF IInv, Accounts, Headers, HeldChunks, TypeOK, HeapOk

\* Only the sizes of allocated chunks matter to the callers.
LEMMA SameAccounts ==
  ASSUME NEW A, NEW size, NEW o, NEW l, Accounts(A, size, o, l),
         NEW z, \A e \in A : z[e] = size[e]
  PROVE  Accounts(A, z, o, l)
<1>1. \A p \in Held(o) : chunk_from_data(p) \in A
  BY DEF Accounts, Headers
<1> QED
  BY <1>1 DEF Accounts

\* A caller gives back the object at p.
LEMMA AccountsDrop ==
  ASSUME NEW A, NEW size, NEW o, NEW l, Accounts(A, size, o, l), NEW p \in Held(o)
  PROVE  Accounts(A \ {chunk_from_data(p)}, size, [o EXCEPT ![p] = NotHeld], l)
<1> DEFINE o2 == [o EXCEPT ![p] = NotHeld]
<1>1. /\ o \in [Addr -> Nat \cup {NotHeld}] /\ p \in Addr
  BY DEF Accounts, Held
<1>2. o2 \in [Addr -> Nat \cup {NotHeld}] /\ \A q \in Addr : o2[q] = IF q = p THEN NotHeld ELSE o[q]
  BY <1>1
<1>3. Held(o2) = Held(o) \ {p}
  BY <1>1, <1>2 DEF Held
<1> HIDE DEF o2
<1>4. \A q, r \in Held(o) : chunk_from_data(q) = chunk_from_data(r) => q = r
  BY AddrNat, Consts DEF Held, chunk_from_data
<1>5. Headers(o2) = Headers(o) \ {chunk_from_data(p)}
  BY <1>3, <1>4 DEF Headers
<1>6. chunk_from_data(p) \notin l
  BY DEF Accounts, Headers
<1>7. \A q \in Held(o2) : o2[q] = o[q]
  BY <1>2, <1>3 DEF Held
<1>8. Accounts(A \ {chunk_from_data(p)}, size, o2, l)
  BY <1>2, <1>3, <1>5, <1>6, <1>7 DEF Accounts
<1> QED
  BY <1>8 DEF o2

\* A caller gets the object of n bytes in the new chunk d.
LEMMA AccountsAdd ==
  ASSUME NEW A, NEW size, NEW o, NEW l, Accounts(A, size, o, l), NEW n \in Nat,
         NEW d \in Addr, d \notin A, d + Hdr \in Addr, n + Hdr <= size[d]
  PROVE  Accounts(A \cup {d}, size, [o EXCEPT ![d + Hdr] = n], l)
<1> DEFINE p == d + Hdr
           o2 == [o EXCEPT ![p] = n]
<1>1. /\ o \in [Addr -> Nat \cup {NotHeld}] /\ p \in Addr /\ n # NotHeld
      /\ chunk_from_data(p) = d /\ p # NULL
  BY AddrNat, Consts DEF Accounts, chunk_from_data, NotHeld, NULL
<1> HIDE DEF p
<1>2. o2 \in [Addr -> Nat \cup {NotHeld}] /\ \A q \in Addr : o2[q] = IF q = p THEN n ELSE o[q]
  BY <1>1
<1>3. Held(o2) = Held(o) \cup {p}
  BY <1>1, <1>2 DEF Held
<1> HIDE DEF o2
<1>4. Headers(o2) = Headers(o) \cup {d}
  BY <1>1, <1>3 DEF Headers
<1>5. \A q \in Held(o2) : q # p => o2[q] = o[q]
  BY <1>2, <1>3 DEF Held
<1>6. p \in Held(o2) /\ o2[p] = n
  BY <1>1, <1>2, <1>3
<1>7. \A q \in Held(o2) : o2[q] + Hdr <= size[chunk_from_data(q)]
  BY <1>1, <1>3, <1>5, <1>6 DEF Accounts
<1>8. Accounts(A \cup {d}, size, o2, l)
  BY <1>1, <1>2, <1>3, <1>4, <1>7 DEF Accounts
<1> QED
  BY <1>8 DEF o2, p

\* A chunk that no caller has a pointer to any more.
LEMMA AccountsLose ==
  ASSUME NEW A, NEW size, NEW o, NEW l, Accounts(A, size, o, l), NEW d \in Addr, d \notin A
  PROVE  Accounts(A \cup {d}, size, o, l \cup {d})
BY DEF Accounts

\* What callers write into their objects says nothing of the chunks.
LEMMA UsedHeap ==
  ASSUME NEW h, HeapOk(h), NEW o, NEW p \in Addr, NEW kept, NEW g, g = Use(h, o, p, kept)
  PROVE  HeapOk(g) /\ Allocated(g) = Allocated(h) /\ g.size = h.size
<1> DEFINE m == [a \in Addr |->
                   IF p # NULL /\ a \in p + kept .. p + o[p] - 1 THEN a - p + 1
                   ELSE IF {q \in Held(o) : a \in q .. q + o[q] - 1} = {} THEN Garbage
                   ELSE h.mem[a]]
<1>1. h.mem \in [Addr -> Int]
  BY Fields DEF HeapOk
<1>2. \A a \in Addr : a - p + 1 \in Int /\ h.mem[a] \in Int /\ Garbage \in Int
  BY <1>1, AddrNat DEF Garbage
<1>3. m \in [Addr -> Int]
  BY <1>2
<1>4. g = [h EXCEPT !.mem = m]
  BY DEF Use
<1> HIDE DEF m
<1> QED
  BY <1>3, <1>4, OtherBytes

\* A pointer that a caller holds is to an allocated chunk.
LEMMA HeldChunk ==
  ASSUME NEW h, NEW o, NEW l, Accounts(Allocated(h), h.size, o, l), NEW p \in Held(o)
  PROVE  /\ p \in Addr /\ p # NULL /\ chunk_from_data(p) \in Allocated(h)
         /\ p = chunk_from_data(p) + Hdr
<1>1. p \in Addr /\ p # NULL /\ chunk_from_data(p) \in Allocated(h)
  BY DEF Accounts, Headers, Held
<1>2. p = chunk_from_data(p) + Hdr
  BY <1>1, AddrNat, Consts DEF chunk_from_data
<1> QED
  BY <1>1, <1>2

\* The data of an allocated chunk is at an address that is not null.
LEMMA DataAddress ==
  ASSUME NEW h, HeapOk(h), NEW d \in Allocated(h)
  PROVE  d + Hdr \in Addr /\ d + Hdr # NULL /\ d \in Addr
<1>1. /\ d \in Nat /\ d \in Addr /\ h.size[d] \in Nat /\ Hdr < h.size[d]
      /\ d + h.size[d] <= MaxAddr
  BY AllocatedFacts
<1>2. d + Hdr \in Nat /\ d + Hdr <= MaxAddr /\ d + Hdr # 0
  BY <1>1, Consts
<1> QED
  BY <1>1, <1>2, Consts DEF Addr, NULL

\* malloc() and calloc() as the caller sees them.
LEMMA MallocedAccounts ==
  ASSUME NEW h, HeapOk(h), NEW o, NEW l, Accounts(Allocated(h), h.size, o, l),
         NEW n \in Nat, NEW size \in Nat, n + Hdr <= size, NEW r, Malloced(h, size, r),
         NEW o2, o2 = IF r.ptr = NULL THEN o ELSE [o EXCEPT ![r.ptr] = n]
  PROVE  /\ HeapOk(r.heap) /\ Accounts(Allocated(r.heap), r.heap.size, o2, l)
         /\ r.ptr \in Addr
<1> DEFINE u == r.heap
<1>1. HeapOk(u) /\ \A e \in Allocated(h) : u.size[e] = h.size[e]
  BY DEF Malloced
<1>2. Accounts(Allocated(h), u.size, o, l)
  BY <1>1, SameAccounts
<1>3. NULL \in Addr
  BY Consts DEF Addr, NULL
<1>4. CASE r.ptr = NULL /\ Allocated(u) = Allocated(h)
  BY <1>1, <1>2, <1>3, <1>4
<1>5. CASE ~(r.ptr = NULL /\ Allocated(u) = Allocated(h))
  <2>1. PICK d \in Addr \ Allocated(h) :
           r.ptr = d + Hdr /\ Allocated(u) = Allocated(h) \cup {d} /\ size <= u.size[d]
    BY <1>5 DEF Malloced
  <2>2. d + Hdr \in Addr /\ d + Hdr # NULL /\ u.size[d] \in Nat
    BY <1>1, <2>1, DataAddress, AllocatedFacts
  <2>3. n + Hdr <= u.size[d]
    BY <2>1, <2>2, Consts
  <2>4. Accounts(Allocated(h) \cup {d}, u.size, [o EXCEPT ![d + Hdr] = n], l)
    BY <1>2, <2>1, <2>2, <2>3, AccountsAdd
  <2> QED
    BY <1>1, <2>1, <2>2, <2>4
<1> QED
  BY <1>4, <1>5

-----------------------------------------------------------------------------
(* Every action keeps the invariant. *)

\* The invariant holds before the first call.
LEMMA InitIInv == Init => IInv
<1> SUFFICES ASSUME Init PROVE IInv
  OBVIOUS
<1>0. NULL \in Addr /\ NULL = 0 /\ BrkStart \in BrkStart..BrkEnd /\ <<>> \in Seq(Addr)
  BY Consts DEF Addr, NULL
<1>1. /\ heap = [brk |-> BrkStart, sbrk_start |-> NULL, sbrk_end |-> NULL,
                 free |-> <<>>,
                 size |-> [a \in Addr |-> 0], mem |-> [a \in Addr |-> Garbage],
                 errno |-> 0, fault |-> FALSE]
      /\ obj = [a \in Addr |-> NotHeld] /\ lost = {}
  BY DEF Init
<1>2. heap \in HeapType
  BY <1>0, <1>1 DEF HeapType, Garbage
<1>3. Chunks(heap) = {} /\ Len(heap.free) = 0
  BY <1>1 DEF Chunks
<1>4. heap.sbrk_start <= heap.sbrk_end /\ heap.sbrk_end <= heap.brk
  BY <1>0, <1>1, Consts
<1>5. HeapOk(heap)
  BY <1>2, <1>3, <1>4 DEF HeapOk, ChunksOk, FreeOk
<1>6. Held(obj) = {} /\ obj \in [Addr -> Nat \cup {NotHeld}]
  BY <1>1 DEF Held
<1>7. Accounts(Allocated(heap), heap.size, obj, lost)
  BY <1>1, <1>3, <1>6 DEF Accounts, Allocated, Headers
<1> QED
  BY <1>5, <1>7, IInvAccounts

\* It is enough to look at the heap that the library leaves behind.
LEMMA AfterUse ==
  ASSUME NEW h, HeapOk(h), NEW o, NEW l, Accounts(Allocated(h), h.size, o, l),
         NEW p \in Addr, NEW kept, heap' = Use(h, o, p, kept), obj' = o, lost' = l
  PROVE  IInv'
<1>1. HeapOk(heap') /\ Allocated(heap') = Allocated(h) /\ heap'.size = h.size
  BY UsedHeap
<1>2. HeapOk(heap)' /\ Accounts(Allocated(heap), heap.size, obj, lost)'
  BY <1>1
<1> QED
  BY <1>2, IInvAccounts, PTL

\* A call of malloc() keeps the invariant.
LEMMA MallocIInv ==
  ASSUME IInv, NEW n \in Sizes, Malloc(n)
  PROVE  IInv'
<1> DEFINE r == noc_malloc(heap, n)
           o2 == IF r.ptr = NULL THEN obj ELSE [obj EXCEPT ![r.ptr] = n]
           size == chunk_size_for_data(n)
<1>1. HeapOk(heap) /\ Accounts(Allocated(heap), heap.size, obj, lost)
  BY IInvAccounts
<1>2. Malloced(heap, size, r)
  BY <1>1, MallocChunk
<1>3. obj' = o2 /\ heap' = Use(r.heap, o2, r.ptr, 0) /\ lost' = lost
  BY DEF Malloc, Obtain
<1>4. /\ HeapOk(r.heap) /\ Accounts(Allocated(r.heap), r.heap.size, o2, lost)
      /\ r.ptr \in Addr
  <2>1. CASE n = 0
    <3>1. r.ptr = NULL /\ r.heap = heap /\ o2 = obj /\ NULL \in Addr
      BY <2>1, Consts DEF noc_malloc, Addr, NULL
    <3> QED
      BY <1>1, <3>1
  <2>2. CASE n # 0
    <3>1. n \in Nat /\ size \in Nat /\ n + Hdr <= size
      BY <2>2, ChunkSizeForData
    <3> HIDE DEF r, size
    <3> QED
      BY <1>1, <1>2, <3>1, MallocedAccounts
  <2> QED
    BY <2>1, <2>2
<1> HIDE DEF r, o2
<1> QED
  BY <1>3, <1>4, AfterUse

\* A call of calloc() keeps the invariant.
LEMMA CallocIInv ==
  ASSUME IInv, NEW k \in Nmembs, NEW n \in Sizes, Calloc(k, n)
  PROVE  IInv'
<1> DEFINE r == noc_calloc(heap, k, n)
           t == k * n
           o2 == IF r.ptr = NULL THEN obj ELSE [obj EXCEPT ![r.ptr] = t]
<1>1. HeapOk(heap) /\ Accounts(Allocated(heap), heap.size, obj, lost)
  BY IInvAccounts
<1>2. Malloced(heap, t + Hdr, r)
  BY <1>1, CallocChunk
<1>3. obj' = o2 /\ heap' = Use(r.heap, o2, r.ptr, 0) /\ lost' = lost
  BY DEF Calloc, Obtain
<1>4. t \in Nat
  BY ConstantsAssumption
<1> HIDE DEF r, t
<1>5. t + Hdr \in Nat /\ t + Hdr <= t + Hdr
  BY <1>4, Consts
<1>6. /\ HeapOk(r.heap) /\ Accounts(Allocated(r.heap), r.heap.size, o2, lost)
      /\ r.ptr \in Addr
  BY <1>1, <1>2, <1>4, <1>5, MallocedAccounts
<1> HIDE DEF o2
<1> QED
  BY <1>3, <1>6, AfterUse

\* free() of the null pointer changes no chunk: at most a fault is recorded.
LEMMA FreeNull ==
  ASSUME NEW h, HeapOk(h), NEW g, g = noc_free(h, NULL)
  PROVE  HeapOk(g) /\ Allocated(g) = Allocated(h) /\ g.size = h.size
<1>1. chunk_from_data(NULL) \notin Addr
  BY AddrNat, Consts DEF chunk_from_data, NULL
<1>2. h \in HeapType /\ ChunksOk(h) /\ h.sbrk_end \in Nat
  BY Fields DEF HeapOk
<1>3. g = h \/ g = [h EXCEPT !.fault = TRUE]
  BY <1>1 DEF noc_free
<1>4. CASE g = [h EXCEPT !.fault = TRUE]
  <2>1. /\ g \in HeapType /\ g.size = h.size /\ g.free = h.free
        /\ g.brk = h.brk /\ g.sbrk_start = h.sbrk_start /\ g.sbrk_end = h.sbrk_end
    BY <1>2, <1>4 DEF HeapType
  <2> QED
    BY <1>2, <2>1, SameChunks DEF ChunksOk
<1> QED
  BY <1>3, <1>4

\* A call of free() keeps the invariant.
LEMMA FreeIInv ==
  ASSUME IInv, NEW p \in Addr, Free(p)
  PROVE  IInv'
<1> DEFINE g == noc_free(heap, p)
           o2 == [obj EXCEPT ![p] = NotHeld]
<1>1. HeapOk(heap) /\ Accounts(Allocated(heap), heap.size, obj, lost)
  BY IInvAccounts
<1>2. obj' = o2 /\ heap' = Use(g, o2, NULL, 0) /\ lost' = lost /\ p \in Held(obj) \cup {NULL}
  BY DEF Free, Held
<1>3. NULL \in Addr
  BY Consts DEF Addr, NULL
<1>4. HeapOk(g) /\ Accounts(Allocated(g), g.size, o2, lost)
  <2>1. CASE p \in Held(obj)
    <3> DEFINE c == chunk_from_data(p)
    <3>1. c \in Allocated(heap) /\ p = c + Hdr
      BY <1>1, <2>1, HeldChunk
    <3>2. Freed(heap, c, g)
      BY <1>1, <3>1, FreeChunk
    <3>3. Accounts(Allocated(heap) \ {c}, heap.size, o2, lost)
      BY <1>1, <2>1, AccountsDrop
    <3> HIDE DEF c, g, o2
    <3>4. /\ HeapOk(g) /\ Allocated(g) = Allocated(heap) \ {c}
          /\ \A e \in Allocated(heap) \ {c} : g.size[e] = heap.size[e]
      BY <3>2 DEF Freed
    <3> QED
      BY <3>3, <3>4, SameAccounts
  <2>2. CASE p \notin Held(obj)
    <3>1. p = NULL
      BY <1>2, <2>2
    <3>2. o2 = obj
      BY <1>1, <2>2 DEF Accounts, Held
    <3>3. HeapOk(g) /\ Allocated(g) = Allocated(heap) /\ g.size = heap.size
      BY <1>1, <3>1, FreeNull
    <3> QED
      BY <1>1, <3>2, <3>3
  <2> QED
    BY <2>1, <2>2
<1> HIDE DEF g, o2
<1> QED
  BY <1>2, <1>3, <1>4, AfterUse

\* A call of realloc() keeps the invariant, when it succeeds, when it fails
\* in place and when it fails after moving the object.
LEMMA ReallocIInv ==
  ASSUME IInv, NEW p \in Addr, NEW n \in Sizes, Realloc(p, n)
  PROVE  IInv'
<1> DEFINE r     == noc_realloc(heap, p, n)
           moved == n # 0 /\ r.ptr = NULL /\ r.chunk # chunk_from_data(p) /\ p # NULL
           gone  == r.ptr # NULL \/ n = 0 \/ moved
           old   == IF gone THEN [obj EXCEPT ![p] = NotHeld] ELSE obj
           o2    == IF r.ptr = NULL THEN old ELSE [old EXCEPT ![r.ptr] = n]
           l2    == IF moved THEN lost \cup {r.chunk} ELSE lost
           kept  == IF p = NULL THEN 0 ELSE obj[p]
           size  == chunk_size_for_data(n)
<1>1. HeapOk(heap) /\ Accounts(Allocated(heap), heap.size, obj, lost)
  BY IInvAccounts
<1>2. /\ obj' = o2 /\ heap' = Use(r.heap, o2, r.ptr, kept) /\ lost' = l2
      /\ p \in Held(obj) \cup {NULL}
  BY DEF Realloc, Exchange, Held
<1>3. NULL \in Addr /\ n \in Nat
  BY Consts, ConstantsAssumption DEF Addr, NULL
<1>4. /\ HeapOk(r.heap) /\ Accounts(Allocated(r.heap), r.heap.size, o2, l2)
      /\ r.ptr \in Addr
  <2>1. CASE p = NULL
    <3> DEFINE f == noc_malloc(heap, n)
    <3>1. r.heap = f.heap /\ r.ptr = f.ptr
      BY <2>1 DEF noc_realloc
    <3>2. NULL \notin Held(obj) /\ [obj EXCEPT ![NULL] = NotHeld] = obj
      BY <1>1, <1>3 DEF Accounts, Held
    <3>3. old = obj /\ l2 = lost
      BY <2>1, <3>2
    <3>4. CASE n = 0
      <4>1. r.heap = heap /\ r.ptr = NULL
        BY <3>1, <3>4 DEF noc_malloc
      <4> QED
        BY <1>1, <1>3, <3>3, <4>1
    <3>5. CASE n # 0
      <4>1. size \in Nat /\ n + Hdr <= size
        BY <3>5, ChunkSizeForData
      <4>2. Malloced(heap, size, f)
        BY <1>1, MallocChunk
      <4>3. o2 = IF f.ptr = NULL THEN obj ELSE [obj EXCEPT ![f.ptr] = n]
        BY <3>1, <3>3
      <4> HIDE DEF f, r, o2, l2, size
      <4>4. /\ HeapOk(f.heap) /\ Accounts(Allocated(f.heap), f.heap.size, o2, lost)
            /\ f.ptr \in Addr
        BY <1>1, <1>3, <4>1, <4>2, <4>3, MallocedAccounts
      <4> QED
        BY <3>1, <3>3, <4>4
    <3> QED
      BY <3>4, <3>5
  <2>2. CASE p # NULL
    <3> DEFINE c == chunk_from_data(p)
               A == Allocated(heap)
    <3>0. p \in Held(obj)
      BY <1>2, <2>2
    <3>1. c \in A /\ p = c + Hdr
      BY <1>1, <3>0, HeldChunk
    <3>2. Accounts(A \ {c}, heap.size, [obj EXCEPT ![p] = NotHeld], lost)
      BY <1>1, <3>0, AccountsDrop
    <3>3. CASE n = 0
      <4> DEFINE g == noc_free(heap, p)
      <4>1. r.heap = g /\ r.ptr = NULL
        BY <2>2, <3>3 DEF noc_realloc
      <4>2. o2 = [obj EXCEPT ![p] = NotHeld] /\ l2 = lost
        BY <3>3, <4>1
      <4>3. Freed(heap, c, g)
        BY <1>1, <3>1, FreeChunk
      <4> HIDE DEF g, r, o2, l2, c, A
      <4>4. HeapOk(g) /\ Allocated(g) = A \ {c} /\ \A e \in A \ {c} : g.size[e] = heap.size[e]
        BY <4>3 DEF Freed, A
      <4>5. Accounts(A \ {c}, g.size, o2, l2)
        BY <3>2, <4>2, <4>4, SameAccounts
      <4> QED
        BY <1>3, <4>1, <4>4, <4>5
    <3>4. CASE n # 0
      <4>1. Realloced(heap, c, n, r)
        BY <1>1, <3>1, <3>4, ReallocChunk
      <4>2. CASE r.ptr = NULL /\ Moved(heap, c, r.heap, r.chunk)
        <5> DEFINE d == r.chunk
                   u == r.heap
        <5>1. /\ HeapOk(u) /\ Allocated(u) = (A \ {c}) \cup {d} /\ d \notin A \ {c}
              /\ heap.size[c] <= u.size[d]
              /\ \A e \in A \ {c} : u.size[e] = heap.size[e]
          BY <4>2 DEF Moved
        <5>2. CASE d = c
          <6>1. o2 = obj /\ l2 = lost
            BY <3>4, <4>2, <5>2
          <6>2. heap.size[c] \in Nat /\ u.size[c] \in Nat
            BY <1>1, <3>1, <5>1, <5>2, AllocatedFacts
          <6>3. Allocated(u) = A
            BY <3>1, <5>1, <5>2
          <6>4. \A q \in Held(obj) : obj[q] + Hdr <= u.size[chunk_from_data(q)]
            <7> SUFFICES ASSUME NEW q \in Held(obj)
                         PROVE  obj[q] + Hdr <= u.size[chunk_from_data(q)]
              OBVIOUS
            <7>1. chunk_from_data(q) \in A /\ obj[q] + Hdr <= heap.size[chunk_from_data(q)]
              BY <1>1, HeldChunk DEF Accounts
            <7>2. obj[q] \in Nat
              BY <1>1 DEF Accounts, Held
            <7> HIDE DEF u, A, r
            <7>3. CASE chunk_from_data(q) = c
              BY <5>1, <5>2, <6>2, <7>1, <7>2, <7>3, Consts
            <7>4. CASE chunk_from_data(q) # c
              BY <5>1, <7>1, <7>4
            <7> QED
              BY <7>3, <7>4
          <6> HIDE DEF u, A
          <6>5. Accounts(A, u.size, obj, lost)
            BY <1>1, <6>4 DEF Accounts, A
          <6> QED
            BY <1>3, <4>2, <5>1, <6>1, <6>3, <6>5 DEF u
        <5>3. CASE d # c
          <6>1. o2 = [obj EXCEPT ![p] = NotHeld] /\ l2 = lost \cup {d}
            BY <2>2, <3>4, <4>2, <5>3
          <6>2. d \in Addr
            BY <5>1, AllocatedFacts
          <6> HIDE DEF u, A, d, c, r, o2, l2
          <6>3. Accounts(A \ {c}, u.size, o2, lost)
            BY <3>2, <5>1, <6>1, SameAccounts
          <6>4. Accounts((A \ {c}) \cup {d}, u.size, o2, lost \cup {d})
            BY <5>1, <6>2, <6>3, AccountsLose
          <6> QED
            BY <1>3, <4>2, <5>1, <6>1, <6>4 DEF u
        <5> QED
          BY <5>2, <5>3
      <4>3. CASE ~(r.ptr = NULL /\ Moved(heap, c, r.heap, r.chunk))
        <5> DEFINE u == r.heap
        <5>1. PICK d \in Addr :
                 /\ r.ptr = d + Hdr /\ n + Hdr <= u.size[d]
                 /\ HeapOk(u) /\ Allocated(u) = (A \ {c}) \cup {d}
                 /\ d \notin A \ {c}
                 /\ \A e \in A \ {c} : u.size[e] = heap.size[e]
          BY <4>1, <4>3 DEF Realloced
        <5>2. d + Hdr \in Addr /\ d + Hdr # NULL
          BY <5>1, DataAddress
        <5>3. o2 = [[obj EXCEPT ![p] = NotHeld] EXCEPT ![d + Hdr] = n] /\ l2 = lost
          BY <5>1, <5>2
        <5> DEFINE o1 == [obj EXCEPT ![p] = NotHeld]
        <5> HIDE DEF u, A, c, r, o1, o2, l2
        <5>4. Accounts(A \ {c}, u.size, o1, lost)
          BY <3>2, <5>1, SameAccounts DEF o1
        <5>5. Accounts((A \ {c}) \cup {d}, u.size, [o1 EXCEPT ![d + Hdr] = n], lost)
          BY <1>3, <5>1, <5>2, <5>4, AccountsAdd
        <5>6. o2 = [o1 EXCEPT ![d + Hdr] = n]
          BY <5>3 DEF o1
        <5> QED
          BY <5>1, <5>2, <5>3, <5>5, <5>6 DEF u
      <4> QED
        BY <4>2, <4>3
    <3> QED
      BY <3>3, <3>4
  <2> QED
    BY <2>1, <2>2
<1> HIDE DEF r, o2, l2, kept
<1> QED
  BY <1>2, <1>4, AfterUse

\* Other users of sbrk() keep the invariant.
LEMMA ForeignSbrkIInv ==
  ASSUME IInv, NEW i \in ForeignIncrs, ForeignSbrk(i)
  PROVE  IInv'
<1> DEFINE g == sbrk(heap, i).heap
<1>1. HeapOk(heap) /\ Accounts(Allocated(heap), heap.size, obj, lost)
  BY IInvAccounts
<1>2. heap' = g /\ obj' = obj /\ lost' = lost /\ sbrk(heap, i).ptr # SBRK_FAILURE
  BY DEF ForeignSbrk
<1>3. /\ heap \in HeapType /\ ChunksOk(heap) /\ i \in Nat /\ heap.brk \in Nat
      /\ BrkStart <= heap.brk /\ heap.sbrk_end \in Nat
  BY <1>1, ConstantsAssumption, Fields, Consts DEF HeapOk
<1>4. heap.brk + i <= BrkEnd /\ g = [heap EXCEPT !.brk = heap.brk + i]
  BY <1>2, <1>3, SbrkResult DEF SBRK_FAILURE
<1> HIDE DEF g
<1>5. heap.brk + i \in BrkStart..BrkEnd
  BY <1>3, <1>4, Consts
<1>6. /\ g \in HeapType /\ g.size = heap.size /\ g.free = heap.free /\ g.brk = heap.brk + i
      /\ g.sbrk_start = heap.sbrk_start /\ g.sbrk_end = heap.sbrk_end
  BY <1>3, <1>4, <1>5 DEF HeapType
<1>7. /\ heap.sbrk_end <= g.sbrk_end /\ g.sbrk_end <= g.brk /\ g.sbrk_start <= g.sbrk_end
  BY <1>3, <1>6 DEF ChunksOk
<1>8. HeapOk(g) /\ Allocated(g) = Allocated(heap)
  BY <1>1, <1>6, <1>7, SameChunks
<1>9. HeapOk(heap)' /\ Accounts(Allocated(heap), heap.size, obj, lost)'
  BY <1>1, <1>2, <1>6, <1>8
<1> QED
  BY <1>9, IInvAccounts, PTL

\* The invariant is inductive.
LEMMA NextIInv == IInv /\ [Next]_vars => IInv'
<1> SUFFICES ASSUME IInv, [Next]_vars PROVE IInv'
  OBVIOUS
<1>1. ASSUME NEW n \in Sizes, Malloc(n) PROVE IInv'
  BY <1>1, MallocIInv
<1>2. ASSUME NEW m \in Nmembs, NEW n \in Sizes, Calloc(m, n) PROVE IInv'
  BY <1>2, CallocIInv
<1>3. ASSUME NEW p \in Addr, Free(p) PROVE IInv'
  BY <1>3, FreeIInv
<1>4. ASSUME NEW p \in Addr, NEW n \in Sizes, Realloc(p, n) PROVE IInv'
  BY <1>4, ReallocIInv
<1>5. ASSUME NEW i \in ForeignIncrs, ForeignSbrk(i) PROVE IInv'
  BY <1>5, ForeignSbrkIInv
<1>6. CASE UNCHANGED vars
  BY <1>6 DEF vars, IInv, TypeOK, HeapOk, ChunksOk, FreeOk, Allocated, Chunks, HeldChunks, Held, chunk_end
<1> QED
  BY <1>1, <1>2, <1>3, <1>4, <1>5, <1>6 DEF Next

-----------------------------------------------------------------------------
(* Theorems. *)

\* What one call of malloc, calloc, realloc, free or sbrk() needs of the heap
\* is what the calls before it leave behind (malloc.c:107-419).
THEOREM Invariance == Spec => []IInv
BY InitIInv, NextIInv, PTL DEF Spec

\* The variables keep their types: no call puts an address outside memory on
\* the list, and no size or byte outside memory is computed with.
THEOREM TypeCorrect == Spec => []TypeOK
<1>1. IInv => TypeOK
  BY DEF IInv
<1> QED
  BY <1>1, Invariance, PTL

\* The object at p lies in its chunk, behind the header.
LEMMA ObjectInChunk ==
  ASSUME IInv, NEW p \in Held(obj)
  PROVE  LET c == chunk_from_data(p)
         IN  /\ c \in Allocated(heap) /\ c \in Nat /\ p \in Nat /\ p = c + Hdr
             /\ c < p /\ obj[p] \in Nat
             /\ p + obj[p] <= chunk_end(heap, c) /\ chunk_end(heap, c) \in Nat
<1> DEFINE c == chunk_from_data(p)
<1>1. HeapOk(heap) /\ Accounts(Allocated(heap), heap.size, obj, lost)
  BY IInvAccounts
<1>2. c \in Allocated(heap) /\ p = c + Hdr /\ p \in Addr
  BY <1>1, HeldChunk
<1>3. c \in Nat /\ heap.size[c] \in Nat /\ chunk_end(heap, c) = c + heap.size[c]
  BY <1>1, <1>2, AllocatedFacts
<1>4. obj[p] \in Nat /\ obj[p] + Hdr <= heap.size[c]
  BY <1>1 DEF Accounts, Held
<1> HIDE DEF c
<1>5. /\ c \in Allocated(heap) /\ c \in Nat /\ p \in Nat /\ p = c + Hdr
      /\ c < p /\ obj[p] \in Nat
      /\ p + obj[p] <= chunk_end(heap, c) /\ chunk_end(heap, c) \in Nat
  BY <1>2, <1>3, <1>4, Consts
<1> QED
  BY <1>5 DEF c

\* Every byte a caller asked for is in memory that sbrk() granted and in the
\* chunk whose header is in front of it (malloc.c:66-72, 191-248).
THEOREM ObjectsFitTheirChunks == Spec => []ObjectFits
<1>1. IInv => ObjectFits
  <2> SUFFICES ASSUME IInv, NEW p \in Held(obj)
               PROVE  LET c == chunk_from_data(p)
                      IN  /\ BrkStart <= c /\ chunk_end(heap, c) <= heap.brk
                          /\ obj[p] <= chunk_data_size(heap, c)
    BY DEF ObjectFits
  <2> DEFINE c == chunk_from_data(p)
  <2>1. HeapOk(heap) /\ c \in Allocated(heap) /\ obj[p] \in Nat /\ obj[p] + Hdr <= heap.size[c]
    BY ObjectInChunk DEF IInv
  <2>2. /\ heap \in HeapType /\ ChunksOk(heap) /\ heap.brk \in Nat /\ heap.sbrk_end \in Nat
    BY <2>1, Fields DEF HeapOk
  <2> HIDE DEF c
  <2>3. /\ BrkStart <= c /\ chunk_end(heap, c) <= heap.sbrk_end
        /\ heap.size[c] \in Nat /\ c \in Nat /\ chunk_end(heap, c) = c + heap.size[c]
    BY <2>1, AllocatedFacts
  <2>4. heap.sbrk_end <= heap.brk
    BY <2>2 DEF ChunksOk
  <2>5. chunk_end(heap, c) <= heap.brk
    BY <2>2, <2>3, <2>4
  <2>6. obj[p] <= chunk_data_size(heap, c)
    BY <2>1, <2>3, Consts DEF chunk_data_size
  <2> QED
    BY <2>3, <2>5, <2>6 DEF c
<1> QED
  BY <1>1, Invariance, PTL

\* "Each such allocation shall yield a pointer to an object disjoint from any
\* other object" (malloc.c:182-183), whatever was called before, and no free
\* chunk overlaps one either.
THEOREM ObjectsAreDisjoint == Spec => []ObjectsDisjoint
<1>1. IInv => ObjectsDisjoint
  <2> SUFFICES ASSUME IInv, NEW p \in Held(obj)
               PROVE  /\ \A q \in Held(obj) \ {p} :
                            Bytes(p, obj[p]) \cap Bytes(q, obj[q]) = {}
                      /\ \A d \in FreeChunks(heap) \cup lost :
                            Bytes(p, obj[p]) \cap Bytes(d, heap.size[d]) = {}
    BY DEF ObjectsDisjoint
  <2>0. HeapOk(heap) /\ ChunksOk(heap) /\ FreeOk(heap) /\ heap \in HeapType
    BY DEF IInv, HeapOk
  <2> DEFINE c == chunk_from_data(p)
  <2>1. /\ c \in Allocated(heap) /\ c \in Chunks(heap) /\ c \in Nat /\ p \in Nat
        /\ c < p /\ obj[p] \in Nat
        /\ p + obj[p] <= chunk_end(heap, c) /\ chunk_end(heap, c) \in Nat
    BY ObjectInChunk DEF Allocated
  <2> HIDE DEF c
  <2>2. ASSUME NEW d \in Chunks(heap), d # c
        PROVE  \/ chunk_end(heap, c) <= d
               \/ chunk_end(heap, d) <= c
    <3>1. d \in Nat
      BY <2>0, ChunkNat
    <3> QED
      BY <2>0, <2>1, <2>2, <3>1 DEF ChunksOk
  <2>3. ASSUME NEW q \in Held(obj) \ {p}
        PROVE  Bytes(p, obj[p]) \cap Bytes(q, obj[q]) = {}
    <3> DEFINE d == chunk_from_data(q)
    <3>1. /\ d \in Chunks(heap) /\ d \in Nat /\ q \in Nat /\ q = d + Hdr
          /\ d < q /\ obj[q] \in Nat
          /\ q + obj[q] <= chunk_end(heap, d) /\ chunk_end(heap, d) \in Nat
      BY ObjectInChunk DEF Allocated
    <3>2. p = c + Hdr
      BY ObjectInChunk DEF c
    <3> HIDE DEF d
    <3>3. d # c
      BY <3>1, <3>2, <2>3
    <3>4. chunk_end(heap, c) <= d \/ chunk_end(heap, d) <= c
      BY <2>2, <3>1, <3>3
    <3>5. p + obj[p] <= q \/ q + obj[q] <= p
      BY <2>1, <3>1, <3>4
    <3> QED
      BY <2>1, <3>1, <3>5 DEF Bytes
  <2>4. ASSUME NEW d \in FreeChunks(heap) \cup lost
        PROVE  Bytes(p, obj[p]) \cap Bytes(d, heap.size[d]) = {}
    <3>1. d \in Chunks(heap) /\ d # c
      <4>1. CASE d \in lost
        <5>1. c \in HeldChunks /\ HeldChunks \cap lost = {} /\ d \in Allocated(heap)
          BY <4>1 DEF IInv, HeldChunks, c
        <5> QED
          BY <4>1, <5>1 DEF Allocated
      <4>2. CASE d \in FreeChunks(heap)
        <5>1. PICK i \in DOMAIN heap.free : d = heap.free[i]
          BY <4>2 DEF FreeChunks, ToSet
        <5>2. i \in 1..Len(heap.free)
          BY <2>0, <5>1, Fields, LenProperties
        <5> QED
          BY <2>0, <2>1, <5>1, <5>2 DEF FreeOk, Allocated
      <4> QED
        BY <4>1, <4>2
    <3>2. d \in Nat /\ heap.size[d] \in Nat /\ chunk_end(heap, d) = d + heap.size[d]
      BY <2>0, <3>1, ChunkNat DEF chunk_end
    <3>3. chunk_end(heap, c) <= d \/ chunk_end(heap, d) <= c
      BY <2>2, <3>1
    <3>4. p + obj[p] <= d \/ d + heap.size[d] <= p
      BY <2>1, <3>2, <3>3
    <3> QED
      BY <2>1, <3>2, <3>4 DEF Bytes
  <2> QED
    BY <2>3, <2>4
<1> QED
  BY <1>1, Invariance, PTL

\* The list stays sorted, and adjacent free chunks are always merged
\* (malloc.c:274-306).
THEOREM FreeListStaysCanonical == Spec => []FreeListCanonical
<1>1. IInv => FreeListCanonical
  <2> SUFFICES ASSUME IInv PROVE FreeListCanonical
    OBVIOUS
  <2>1. ChunksOk(heap) /\ FreeOk(heap) /\ heap \in HeapType
    BY DEF IInv, HeapOk
  <2>2. Len(heap.free) \in Nat
    BY <2>1, Fields
  <2>3. ASSUME NEW i \in 1..Len(heap.free)-1
        PROVE  chunk_end(heap, heap.free[i]) < heap.free[i+1]
    <3>1. i \in 1..Len(heap.free) /\ i+1 \in 1..Len(heap.free) /\ i < i+1
      BY <2>2
    <3> QED
      BY <2>1, <3>1 DEF FreeOk
  <2>4. \A i \in 1..Len(heap.free) : heap.size[heap.free[i]] >= MinSize
    <3> SUFFICES ASSUME NEW i \in 1..Len(heap.free)
                 PROVE  heap.size[heap.free[i]] >= MinSize
      OBVIOUS
    <3> DEFINE d == heap.free[i]
    <3>1. d \in Chunks(heap)
      BY <2>1 DEF FreeOk
    <3> HIDE DEF d
    <3>2. MinSize <= heap.size[d] /\ heap.size[d] \in Nat
      BY <2>1, <3>1, ChunkNat DEF ChunksOk
    <3>3. heap.size[d] >= MinSize
      BY <3>2, Consts
    <3> QED
      BY <3>3 DEF d
  <2> QED
    BY <2>3, <2>4 DEF FreeListCanonical
<1> QED
  BY <1>1, Invariance, PTL

\* No chunk is both free and in use, and none is neither: no call leaks or
\* hands out twice what it merges, splits or moves (malloc.c:141-146, 353-407).
THEOREM ChunksStayOwned == Spec => []ChunksOwned
<1>1. IInv => ChunksOwned
  <2> SUFFICES ASSUME IInv, NEW c \in Chunks(heap)
               PROVE  c \in FreeChunks(heap) <=> c \notin HeldChunks \cup lost
    BY DEF ChunksOwned
  <2>1. DOMAIN heap.free = 1..Len(heap.free)
    BY Fields, LenProperties DEF IInv, HeapOk
  <2>2. c \in FreeChunks(heap) <=> \E i \in 1..Len(heap.free) : heap.free[i] = c
    BY <2>1 DEF FreeChunks, ToSet
  <2> QED
    BY <2>2 DEF IInv, Allocated
<1> QED
  BY <1>1, Invariance, PTL
=============================================================================

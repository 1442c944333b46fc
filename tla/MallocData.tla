------------------------------ MODULE MallocData ------------------------------
(***************************************************************************)
(* What the calls of malloc.c do to the bytes of the objects and to the    *)
(* alignment of the chunks; that malloc.c keeps the promises of Allocator; *)
(* which chunk malloc() takes; and that, while sbrk()'s users keep the     *)
(* break aligned, the heap has no gap, mem_free() accounts for all of it,  *)
(* and malloc() and realloc() fail only when memory is exhausted. The      *)
(* lemmas of each part follow the functions in the order of MallocProofs   *)
(* and rest on what is proved there of the chunks.                         *)
(***************************************************************************)
EXTENDS MallocProofs, MallocCalls

-----------------------------------------------------------------------------
(* Bytes *)

\* The bytes behind the header of chunk c.
Data(h, c) == c + Hdr .. chunk_end(h, c) - 1

\* Every chunk of A has in g the bytes it has in h.
Untouched(h, A, g) == \A e \in A : \A x \in Data(h, e) : g.mem[x] = h.mem[x]

\* The data of chunk c of h is that of chunk d of g.
Carried(h, c, g, d) ==
  \A i \in 0 .. h.size[c] - Hdr - 1 : g.mem[d + Hdr + i] = h.mem[c + Hdr + i]

\* The bytes of a chunk are in memory and in no other chunk.
LEMMA DataApart ==
  ASSUME NEW h, HeapOk(h), NEW c \in Chunks(h), NEW x \in Data(h, c)
  PROVE  /\ x \in Addr /\ x \in Nat /\ x < h.sbrk_end /\ x < h.brk
         /\ \A d \in Chunks(h) \ {c} : x \notin d .. chunk_end(h, d) - 1
<1>1. /\ h \in HeapType /\ ChunksOk(h) /\ h.sbrk_end \in Nat /\ h.sbrk_end <= MaxAddr
      /\ h.brk \in Nat /\ h.sbrk_end <= h.brk
  BY Fields, AddrNat DEF HeapOk, ChunksOk
<1>2. c \in Nat /\ chunk_end(h, c) \in Nat /\ chunk_end(h, c) <= h.sbrk_end
  BY <1>1, ChunkNat DEF ChunksOk
<1>3. x \in Nat /\ c <= x /\ x < chunk_end(h, c)
  BY <1>2, Consts DEF Data
<1>4. ASSUME NEW d \in Chunks(h) \ {c} PROVE x \notin d .. chunk_end(h, d) - 1
  <2>1. d \in Nat /\ chunk_end(h, d) \in Nat
    BY <1>1, ChunkNat
  <2>2. chunk_end(h, c) <= d \/ chunk_end(h, d) <= c
    BY <1>1, <1>2, <2>1 DEF ChunksOk
  <2> QED BY <1>2, <1>3, <2>1, <2>2
<1> QED BY <1>1, <1>2, <1>3, <1>4, Consts DEF Addr

\* A write into n bytes at a leaves those elsewhere alone.
LEMMA FilledApart ==
  ASSUME NEW m, NEW a, NEW n, NEW v, NEW x \in Addr, x \notin a .. a + n - 1
  PROVE  Fill(m, a, n, v)[x] = m[x]
BY DEF Fill

\* A chunk has room for a struct free_chunk, whose write reaches no other chunk.
LEMMA ScribbledChunk ==
  ASSUME NEW h, HeapOk(h), NEW c \in Chunks(h), NEW g, g.mem = Scribble(h.mem, c)
  PROVE  Untouched(h, Chunks(h) \ {c}, g)
<1> SUFFICES ASSUME NEW e \in Chunks(h) \ {c}, NEW x \in Data(h, e)
             PROVE  g.mem[x] = h.mem[x]
  BY DEF Untouched
<1>1. x \in Addr /\ x \in Nat /\ x \notin c .. chunk_end(h, c) - 1
  BY DataApart
<1>2. MinSize <= h.size[c] /\ h.size[c] \in Nat /\ c \in Nat /\ chunk_end(h, c) = c + h.size[c]
  BY ChunkNat DEF HeapOk, ChunksOk, chunk_end
<1>3. x \notin c .. c + MinSize - 1
  BY <1>1, <1>2, Consts
<1> QED BY <1>1, <1>3, FilledApart DEF Scribble

-----------------------------------------------------------------------------
(* free *)

\* merge_right and the links write no byte of an object.
LEMMA MergedMem ==
  ASSUME NEW h, "mem" \in DOMAIN h, NEW k
  PROVE  merge_right(h, k).mem = h.mem
BY DEF merge_right

LEMMA LinkedMem ==
  ASSUME NEW h \in HeapType, NEW c, NEW k
  PROVE  link_chunk(h, c, k).mem = h.mem
<1> DEFINE m1 == [h EXCEPT !.size = Join(h.size, h.free[k], c)]
           m2 == [h EXCEPT !.free = InsertAt(h.free, k, c)]
<1>1. /\ "mem" \in DOMAIN m1 /\ m1.mem = h.mem
      /\ "mem" \in DOMAIN m2 /\ m2.mem = h.mem
  BY DEF HeapType
<1>2. link_chunk(h, c, k) \in {merge_right(m1, k), merge_right(m2, k)}
  BY DEF link_chunk, HeapType
<1> HIDE DEF m1, m2
<1> QED BY <1>1, <1>2, MergedMem

\* free() writes a struct free_chunk into the chunk, or nothing.
LEMMA FreedMem ==
  ASSUME NEW h \in HeapType, NEW c \in Addr
  PROVE  noc_free(h, c + Hdr).mem \in {h.mem, Scribble(h.mem, c)}
<1> DEFINE s == [h EXCEPT !.mem = Scribble(h.mem, c)]
           k == FreeStop(h, c)
<1>1. chunk_from_data(c + Hdr) = c
  BY AddrNat, Consts DEF chunk_from_data
<1>2. k \in 1 .. Len(h.free) + 1
  BY Fields, FreeStopExists
<1>3. s.free = h.free /\ s.mem = Scribble(h.mem, c)
  BY DEF HeapType
<1>4. s \in HeapType
  <2>1. Scribble(h.mem, c) \in [Addr -> Int]
    BY Fields, FillType, 0 \in Int
  <2> QED BY <2>1 DEF HeapType
<1>5. noc_free(h, c + Hdr) \in {h, link_chunk(s, c, k)}
  BY <1>1 DEF noc_free
<1> HIDE DEF s, k
<1>6. link_chunk(s, c, k).mem = s.mem
  BY <1>2, <1>3, <1>4, LinkedMem
<1> QED BY <1>3, <1>5, <1>6

\* free() writes into no other chunk than its own.
LEMMA FreedBytes ==
  ASSUME NEW h, HeapOk(h), NEW c \in Allocated(h), NEW g, g = noc_free(h, c + Hdr)
  PROVE  Untouched(h, Allocated(h) \ {c}, g)
<1>1. c \in Chunks(h) /\ c \in Addr /\ h \in HeapType
  BY AllocatedFacts
<1>2. g.mem \in {h.mem, Scribble(h.mem, c)}
  BY <1>1, FreedMem
<1>3. Allocated(h) \ {c} \subseteq Chunks(h) \ {c}
  BY DEF Allocated
<1>4. CASE g.mem = h.mem
  BY <1>4 DEF Untouched
<1>5. CASE g.mem = Scribble(h.mem, c)
  <2>1. Untouched(h, Chunks(h) \ {c}, g)
    BY <1>1, <1>5, ScribbledChunk
  <2> QED BY <1>3, <2>1 DEF Untouched
<1> QED BY <1>2, <1>4, <1>5

-----------------------------------------------------------------------------
(* malloc *)

\* Memory above the break is in no chunk yet.
LEMMA FreshMemory ==
  ASSUME NEW h, HeapOk(h), NEW p \in Nat, h.brk <= p, NEW n \in Nat, NEW v,
         NEW g, g.mem = h.mem \/ g.mem = Fill(h.mem, p, n, v)
  PROVE  Untouched(h, Allocated(h), g)
<1> SUFFICES ASSUME NEW e \in Allocated(h), NEW x \in Data(h, e)
             PROVE  g.mem[x] = h.mem[x]
  BY DEF Untouched
<1>1. e \in Chunks(h) /\ h.brk \in Nat
  BY Fields DEF Allocated, HeapOk
<1>2. x \in Addr /\ x \in Nat /\ x < h.brk
  BY <1>1, DataApart
<1>3. x \notin p .. p + n - 1
  BY <1>1, <1>2
<1> QED BY <1>2, <1>3, FilledApart

\* insert_free_chunk() of memory from sbrk() writes into no object.
LEMMA InsertedBytes ==
  ASSUME NEW h, HeapOk(h), NEW n \in Nat,
         NEW r, Granted(h, n, r), r.ptr # SBRK_FAILURE,
         NEW g, g = insert_free_chunk(r.heap, r.ptr, n)
  PROVE  Untouched(h, Allocated(h), g)
<1> DEFINE s == r.heap
           p == r.ptr
           m == [s EXCEPT !.size = [s.size EXCEPT ![p] = n]]
<1>1. s \in HeapType /\ s.size \in [Addr -> Nat] /\ s.mem = h.mem /\ p \in Addr /\ h.brk <= p
  BY Fields DEF Granted, HeapOk
<1>2. g = noc_free(m, p + Hdr)
  BY <1>1 DEF insert_free_chunk, chunk_to_data
<1> HIDE DEF s, p
<1>3. m \in HeapType /\ m.mem = s.mem
  BY <1>1 DEF HeapType
<1> HIDE DEF m
<1>4. g.mem \in {h.mem, Scribble(h.mem, p)}
  BY <1>1, <1>2, <1>3, FreedMem
<1>5. p \in Nat /\ MinSize \in Nat
  BY <1>1, AddrNat, Consts
<1>6. g.mem = h.mem \/ g.mem = Fill(h.mem, p, MinSize, Garbage)
  BY <1>4 DEF Scribble
<1> QED BY <1>1, <1>5, <1>6, FreshMemory

\* chunk_grow() writes into no object.
LEMMA GrownBytes ==
  ASSUME NEW h, HeapOk(h), NEW c \in Allocated(h), NEW n \in Nat, h.size[c] < n
  PROVE  Untouched(h, Allocated(h), chunk_grow(h, c, n).heap)
<1> DEFINE need == n - h.size[c]
           add  == IF need < MinSize THEN MinSize ELSE need
           r    == aligned_sbrk(h, add)
           s    == r.heap
           g    == chunk_grow(h, c, n).heap
<1>1. add \in Nat \ {0}
  BY AllocatedFacts, Consts
<1>2. Granted(h, add, r)
  BY <1>1, AlignedSbrk
<1>3. s.mem = h.mem /\ s \in HeapType
  BY <1>2 DEF Granted, HeapOk
<1>4. CASE g.mem = h.mem
  BY <1>4 DEF Untouched
<1>5. CASE g = insert_free_chunk(r.heap, r.ptr, add) /\ r.ptr # SBRK_FAILURE
  <2> HIDE DEF r, g, add
  <2>1. add \in Nat /\ Granted(h, add, r)
    BY <1>1, <1>2
  <2>2. Untouched(h, Allocated(h), g)
    BY <1>5, <2>1, InsertedBytes
  <2> QED BY <2>2 DEF g
<1>6. \/ g \in {h, s, [s EXCEPT !.size[c] = s.size[c] + add]}
      \/ g = insert_free_chunk(r.heap, r.ptr, add) /\ r.ptr # SBRK_FAILURE
  BY DEF chunk_grow
<1>7. [s EXCEPT !.size[c] = s.size[c] + add].mem = s.mem
  <2> HIDE DEF s, add
  <2> QED BY <1>3 DEF HeapType
<1> HIDE DEF r, s, g, add
<1> QED BY <1>3, <1>4, <1>5, <1>6, <1>7 DEF g

\* The header of a new chunk is outside every object.
LEMMA ExtendedBytes ==
  ASSUME NEW h, HeapOk(h), NEW n \in Nat \ {0}
  PROVE  Untouched(h, Allocated(h), extend(h, n).heap)
<1> DEFINE r == aligned_sbrk(h, n)
           s == r.heap
           p == r.ptr
           g == extend(h, n).heap
<1>1. Granted(h, n, r)
  BY AlignedSbrk
<1>2. s.mem = h.mem /\ s \in HeapType
  BY <1>1 DEF Granted, HeapOk
<1>3. CASE p = SBRK_FAILURE
  <2>1. g = s
    BY <1>3 DEF extend
  <2> HIDE DEF g, s
  <2> QED BY <1>2, <2>1 DEF Untouched, g
<1>4. CASE p # SBRK_FAILURE
  <2>1. p \in Addr /\ h.brk <= p
    BY <1>1, <1>4 DEF Granted
  <2>2. g = [s EXCEPT !.size[p] = n, !.mem = Fill(s.mem, p, Hdr, Garbage)]
    BY <1>4 DEF extend
  <2>3. p \in Nat /\ Hdr \in Nat
    BY <2>1, AddrNat, Consts
  <2> HIDE DEF g, s, p
  <2>4. g.mem = Fill(h.mem, p, Hdr, Garbage)
    BY <1>2, <2>2 DEF HeapType
  <2>5. Untouched(h, Allocated(h), g)
    BY <2>1, <2>3, <2>4, FreshMemory
  <2> QED BY <2>5 DEF g
<1> QED BY <1>3, <1>4

\* What malloc() leaves of a free chunk is part of that chunk.
LEMMA TakenBytes ==
  ASSUME NEW h, HeapOk(h), NEW k \in 1 .. Len(h.free), NEW size \in Nat, Fits(h, k, size)
  PROVE  Untouched(h, Allocated(h), take(h, k, size))
<1> DEFINE c == h.free[k]
           x == h.size[c] - size
           g == take(h, k, size)
<1>1. /\ h \in HeapType /\ c \in Chunks(h) /\ c \in Nat /\ h.size[c] \in Nat /\ size <= h.size[c]
      /\ chunk_end(h, c) = c + h.size[c]
  BY Fields, ChunkNat DEF HeapOk, FreeOk, Fits, chunk_end
<1>2. CASE x < MinSize
  <2>1. g = [h EXCEPT !.free = RemoveAt(h.free, k)]
    BY <1>2 DEF take, Extra
  <2> HIDE DEF g
  <2>2. g.mem = h.mem
    BY <1>1, <2>1 DEF HeapType
  <2> QED BY <2>2 DEF Untouched, g
<1>3. CASE ~(x < MinSize)
  <2>1. g = [h EXCEPT !.free = [h.free EXCEPT ![k] = c + size],
                      !.size = [[h.size EXCEPT ![c] = size] EXCEPT ![c + size] = x],
                      !.mem  = Scribble(h.mem, c + size)]
    BY <1>3 DEF take, Extra
  <2>2. g.mem = Scribble(h.mem, c + size)
    <3> HIDE DEF g, c, x
    <3> QED BY <1>1, <2>1 DEF HeapType
  <2> SUFFICES ASSUME NEW e \in Allocated(h), NEW y \in Data(h, e)
               PROVE  g.mem[y] = h.mem[y]
    BY DEF Untouched
  <2>3. e \in Chunks(h) \ {c}
    BY DEF Allocated
  <2> HIDE DEF g, c
  <2>4. y \in Addr /\ y \in Nat /\ y \notin c .. chunk_end(h, c) - 1
    BY <1>1, <2>3, DataApart
  <2>5. y \notin c + size .. c + size + MinSize - 1
    BY <1>1, <1>3, <2>4, Consts
  <2> QED BY <2>2, <2>4, <2>5, FilledApart DEF Scribble
<1> QED BY <1>2, <1>3

\* malloc() writes into no object.
LEMMA MallocedBytes ==
  ASSUME NEW h, HeapOk(h), NEW n \in Sizes
  PROVE  Untouched(h, Allocated(h), noc_malloc(h, n).heap)
<1> DEFINE size == chunk_size_for_data(n)
           k == CHOOSE j \in Chosen(h, size) : TRUE
<1>1. CASE n = 0
  BY <1>1 DEF noc_malloc, Untouched
<1>2. CASE n # 0
  <2>1. size \in Nat \ {0}
    BY <1>2, ChunkSizeForData
  <2>2. CASE Chosen(h, size) # {}
    <3>1. noc_malloc(h, n).heap = take(h, k, size)
      BY <1>2, <2>2 DEF noc_malloc
    <3>2. k \in 1 .. Len(h.free) /\ Fits(h, k, size)
      BY <2>2 DEF Chosen, IsChosen
    <3> HIDE DEF k, size
    <3> QED BY <2>1, <3>1, <3>2, TakenBytes
  <2>3. CASE Chosen(h, size) = {}
    <3>1. noc_malloc(h, n) = extend(h, size)
      BY <1>2, <2>3 DEF noc_malloc, chunk_grow, LastLink
    <3> HIDE DEF size
    <3> QED BY <2>1, <3>1, ExtendedBytes
  <2> QED BY <2>2, <2>3
<1> QED BY <1>1, <1>2

-----------------------------------------------------------------------------
(* calloc *)

\* calloc() clears the object it returns, and writes into no other.
LEMMA CallocedBytes ==
  ASSUME NEW h, HeapOk(h), NEW k \in Nmembs, NEW n \in Sizes, NEW r, r = noc_calloc(h, k, n)
  PROVE  /\ Untouched(h, Allocated(h), r.heap)
         /\ r.ptr # NULL => \A i \in 0 .. k * n - 1 : r.heap.mem[r.ptr + i] = 0
<1> DEFINE total == k * n
           f     == noc_malloc(h, n)
           u     == f.heap
           q     == f.ptr
           size  == chunk_size_for_data(n)
           m     == Fill(u.mem, q, total, 0)
<1>1. Malloced(h, size, f) /\ Untouched(h, Allocated(h), u)
  BY MallocChunk, MallocedBytes
<1>2. total \in Nat
  BY ConstantsAssumption
<1>3. CASE total >= SizeMod
  <2>1. r = [heap |-> h, ptr |-> NULL]
    BY <1>3 DEF noc_calloc
  <2> QED BY <2>1 DEF Untouched
<1>4. CASE ~(total >= SizeMod) /\ q = NULL
  <2>1. r = f
    BY <1>4 DEF noc_calloc
  <2> QED BY <1>1, <1>4, <2>1
<1>5. CASE ~(total >= SizeMod) /\ q # NULL
  <2>1. n # 0
    BY <1>5 DEF noc_malloc
  <2>2. total + Hdr <= size /\ size \in Nat
    BY <2>1, NmembsAssumption, ChunkSizeForData
  <2>3. PICK c \in Addr \ Allocated(h) :
           q = c + Hdr /\ Allocated(u) = Allocated(h) \cup {c} /\ size <= u.size[c]
    <3> HIDE DEF f, size
    <3> QED BY <1>1, <1>5 DEF Malloced
  <2>4. HeapOk(u) /\ \A e \in Allocated(h) : u.size[e] = h.size[e]
    BY <1>1 DEF Malloced
  <2>5. r.ptr = q /\ r.heap.mem = m
    <3> DEFINE z == Fill(u.size, q, total, 0)
    <3>1. r = [[f EXCEPT !.heap.mem = m] EXCEPT !.heap.size = z]
      BY <1>5 DEF noc_calloc
    <3>2. f = [heap |-> u, ptr |-> q]
      BY DEF noc_malloc, chunk_grow, LastLink, extend
    <3>3. u \in HeapType
      BY <2>4 DEF HeapOk
    <3> DEFINE g == [u EXCEPT !.mem = m]
    <3> HIDE DEF u, q, m, z
    <3>4. g.mem = m /\ "size" \in DOMAIN g /\ "mem" \in DOMAIN g
      BY <3>3 DEF HeapType
    <3>5. [f EXCEPT !.heap.mem = m] = [heap |-> g, ptr |-> q]
      BY <3>2
    <3> HIDE DEF g
    <3>6. r = [heap |-> [g EXCEPT !.size = z], ptr |-> q]
      BY <3>1, <3>5
    <3> QED BY <3>4, <3>6
  <2>6. /\ c \in Chunks(u) /\ c \in Nat /\ u.size[c] \in Nat /\ chunk_end(u, c) = c + u.size[c]
        /\ chunk_end(u, c) <= MaxAddr
    BY <2>3, <2>4, AllocatedFacts
  <2>7. total + Hdr <= u.size[c]
    <3> HIDE DEF total, size, u
    <3> QED BY <1>2, <2>2, <2>3, <2>6, Consts
  <2> HIDE DEF total, size, f, u, q, m
  <2>8. ASSUME NEW i \in 0 .. total - 1 PROVE q + i \in Addr /\ m[q + i] = 0
    <3>1. q + i \in Addr
      BY <1>2, <2>3, <2>6, <2>7, <2>8, Consts DEF Addr
    <3>2. q + i \in q .. q + total - 1
      BY <1>2, <2>3, <2>6, <2>8, Consts
    <3> QED BY <3>1, <3>2 DEF Fill, m
  <2>9. Untouched(h, Allocated(h), r.heap)
    <3> SUFFICES ASSUME NEW e \in Allocated(h), NEW x \in Data(h, e)
                 PROVE  r.heap.mem[x] = h.mem[x]
      BY DEF Untouched
    <3>1. e \in Chunks(u) \ {c} /\ x \in Data(u, e)
      BY <2>3, <2>4 DEF Allocated, Data, chunk_end
    <3>2. x \in Addr /\ x \in Nat /\ x \notin c .. chunk_end(u, c) - 1
      BY <2>4, <2>6, <3>1, DataApart
    <3>3. x \notin q .. q + total - 1
      BY <1>2, <2>3, <2>6, <2>7, <3>2, Consts
    <3>4. m[x] = u.mem[x]
      BY <3>2, <3>3, FilledApart DEF m
    <3> QED BY <1>1, <2>5, <3>4 DEF Untouched
  <2>10. \A i \in 0 .. total - 1 : r.heap.mem[r.ptr + i] = 0
    BY <2>5, <2>8
  <2> QED BY <2>9, <2>10 DEF total
<1> QED BY <1>3, <1>4, <1>5

-----------------------------------------------------------------------------
(* realloc *)

\* The object of chunk c is now in chunk d with all its bytes, and no other
\* object has changed.
MovedData(h, c, g, d) ==
  Moved(h, c, g, d) /\ Untouched(h, Allocated(h) \ {c}, g) /\ Carried(h, c, g, d)

\* Bytes at the same place are carried there.
LEMMA CarriedInPlace ==
  ASSUME NEW h, HeapOk(h), NEW c \in Allocated(h), NEW g, Untouched(h, Allocated(h), g)
  PROVE  Untouched(h, Allocated(h) \ {c}, g) /\ Carried(h, c, g, c)
<1>1. c \in Nat /\ h.size[c] \in Nat /\ chunk_end(h, c) = c + h.size[c]
  BY AllocatedFacts
<1>2. \A i \in 0 .. h.size[c] - Hdr - 1 : c + Hdr + i \in Data(h, c)
  BY <1>1, Consts DEF Data
<1> QED BY <1>2 DEF Untouched, Carried

LEMMA MovedDataTwice ==
  ASSUME NEW h, HeapOk(h), NEW c \in Allocated(h), NEW u, NEW d, MovedData(h, c, u, d),
         NEW g, NEW e, MovedData(u, d, g, e)
  PROVE  MovedData(h, c, g, e)
<1>1. Moved(h, c, g, e)
  BY MovedTwice DEF MovedData
<1>2. /\ HeapOk(u) /\ d \in Allocated(u) /\ Allocated(u) \ {d} = Allocated(h) \ {c}
      /\ h.size[c] <= u.size[d] /\ \A x \in Allocated(h) \ {c} : u.size[x] = h.size[x]
  BY DEF MovedData, Moved
<1>3. h.size[c] \in Nat /\ u.size[d] \in Nat
  BY <1>2, AllocatedFacts
<1>4. Untouched(h, Allocated(h) \ {c}, g)
  BY <1>2 DEF MovedData, Untouched, Data, chunk_end
<1>5. ASSUME NEW i \in 0 .. h.size[c] - Hdr - 1
      PROVE  g.mem[e + Hdr + i] = h.mem[c + Hdr + i]
  <2>1. i \in 0 .. u.size[d] - Hdr - 1
    BY <1>2, <1>3, Consts
  <2> QED BY <2>1 DEF MovedData, Carried
<1>6. Carried(h, c, g, e)
  BY <1>5 DEF Carried
<1> QED BY <1>1, <1>4, <1>6 DEF MovedData

\* The copy of an object's data into place of its own arrives there and
\* changes nothing else.
Copied(f, m, dst, src, n) ==
  /\ \A i \in 0 .. n-1 : f[dst + i] = m[src + i]
  /\ \A x \in Addr : x \notin dst .. dst + n - 1 => f[x] = m[x]

LEMMA CopiedData ==
  ASSUME NEW m, NEW dst \in Nat, NEW src \in Nat, NEW n \in Int, dst + n <= MaxAddr + 1
  PROVE  Copied(Copy(m, dst, src, n), m, dst, src, n)
<1>1. ASSUME NEW i \in 0 .. n-1 PROVE Copy(m, dst, src, n)[dst + i] = m[src + i]
  <2>1. dst + i \in Addr /\ dst + i \in dst .. dst + n - 1 /\ src + (dst + i - dst) = src + i
    BY Consts DEF Addr
  <2> QED BY <2>1 DEF Copy
<1>2. \A x \in Addr : x \notin dst .. dst + n - 1 => Copy(m, dst, src, n)[x] = m[x]
  BY DEF Copy
<1> QED BY <1>1, <1>2 DEF Copied

\* realloc() moves the object down into the free chunk on its left.
LEMMA AbsorbedLeftData ==
  ASSUME NEW h, HeapOk(h), NEW c \in Allocated(h), NEW k \in LeftOf(h, c)
  PROVE  MovedData(h, c, absorb_left(h, c, k), h.free[k])
<1> DEFINE d == h.free[k]
           g == absorb_left(h, c, k)
           n == h.size[c] - Hdr
<1>1. Moved(h, c, g, d)
  BY AbsorbedLeft
<1>2. /\ k \in 1 .. Len(h.free) /\ chunk_end(h, d) = c /\ d \in Chunks(h) /\ c \in Chunks(h)
      /\ h \in HeapType
  BY AllocatedFacts DEF LeftOf, HeapOk, FreeOk
<1>3. g.mem = Copy(h.mem, d + Hdr, c + Hdr, n)
  BY <1>2 DEF absorb_left, chunk_to_data, chunk_data_size, HeapType
<1> HIDE DEF g, d
<1>4. /\ d \in Nat /\ c \in Nat /\ h.size[c] \in Nat /\ d < c
      /\ chunk_end(h, c) = c + h.size[c] /\ chunk_end(h, c) <= MaxAddr
  BY <1>2, ChunkNat, AllocatedFacts
<1>5. /\ \A i \in 0 .. n-1 : g.mem[d + Hdr + i] = h.mem[c + Hdr + i]
      /\ \A x \in Addr : x \notin d + Hdr .. d + Hdr + n - 1 => g.mem[x] = h.mem[x]
  <2>1. d + Hdr \in Nat /\ c + Hdr \in Nat /\ n \in Int /\ d + Hdr + n <= MaxAddr + 1
    BY <1>4, Consts
  <2> HIDE DEF n
  <2>2. Copied(Copy(h.mem, d + Hdr, c + Hdr, n), h.mem, d + Hdr, c + Hdr, n)
    BY <2>1, CopiedData
  <2> QED BY <1>3, <2>2 DEF Copied
<1>6. ASSUME NEW e \in Allocated(h) \ {c}, NEW x \in Data(h, e)
      PROVE  g.mem[x] = h.mem[x]
  <2>1. e \in Chunks(h) /\ e # d /\ e # c
    BY <1>2 DEF Allocated, d
  <2>2. x \in Addr /\ x \in Nat /\ x \notin d .. chunk_end(h, d) - 1 /\ x \notin c .. chunk_end(h, c) - 1
    BY <1>2, <2>1, DataApart
  <2>3. x \notin d + Hdr .. d + Hdr + n - 1
    <3>1. n = h.size[c] - Hdr /\ n \in Int /\ Hdr \in Nat
      BY <1>4, Consts
    <3> HIDE DEF n
    <3>2. ~(d <= x /\ x < c) /\ ~(c <= x /\ x < c + h.size[c])
      BY <1>2, <1>4, <2>2
    <3> QED BY <1>4, <2>2, <3>1, <3>2
  <2> QED BY <1>5, <2>2, <2>3
<1>7. MovedData(h, c, g, d)
  BY <1>1, <1>5, <1>6 DEF MovedData, Untouched, Carried
<1> QED BY <1>7 DEF g, d

\* realloc() takes in the free chunk on the object's right.
LEMMA AbsorbedRightData ==
  ASSUME NEW h, HeapOk(h), NEW c \in Allocated(h), NEW k \in RightOf(h, c)
  PROVE  MovedData(h, c, absorb_right(h, c, k), c)
<1> DEFINE d == h.free[k]
           g == absorb_right(h, c, k)
<1>1. Moved(h, c, g, c)
  BY AbsorbedRight
<1>2. k \in 1 .. Len(h.free) /\ d \in Chunks(h) /\ h \in HeapType
  BY DEF RightOf, HeapOk, FreeOk
<1>3. g.mem = Scribble(h.mem, d)
  BY <1>2 DEF absorb_right, HeapType
<1> HIDE DEF g
<1>4. Untouched(h, Chunks(h) \ {d}, g)
  BY <1>2, <1>3, ScribbledChunk
<1>5. Untouched(h, Allocated(h), g)
  BY <1>2, <1>4 DEF Untouched, Allocated
<1>6. MovedData(h, c, g, c)
  BY <1>1, <1>5, CarriedInPlace DEF MovedData
<1> QED BY <1>6 DEF g

\* The loop of realloc() over the list.
LEMMA MergedAdjacentData ==
  ASSUME NEW h, HeapOk(h), NEW c \in Allocated(h), NEW r, r = merge_adjacent(h, c)
  PROVE  MovedData(h, c, r.heap, r.chunk)
<1> DEFINE l == merge_left(h, c)
           R == RightOf(l.heap, l.chunk)
           k == CHOOSE j \in R : TRUE
<1>1. MovedData(h, c, l.heap, l.chunk) /\ l = [heap |-> l.heap, chunk |-> l.chunk]
  <2>1. CASE LeftOf(h, c) = {}
    <3>1. l = [heap |-> h, chunk |-> c]
      BY <2>1 DEF merge_left
    <3>2. h.size[c] <= h.size[c] /\ (Allocated(h) \ {c}) \cup {c} = Allocated(h)
      BY AllocatedFacts
    <3>3. MovedData(h, c, h, c)
      BY <3>2 DEF MovedData, Moved, Untouched, Carried
    <3> QED BY <3>1, <3>3
  <2>2. CASE LeftOf(h, c) # {}
    <3> DEFINE j == CHOOSE i \in LeftOf(h, c) : TRUE
    <3>1. j \in LeftOf(h, c)
      BY <2>2
    <3>2. l = [heap |-> absorb_left(h, c, j), chunk |-> h.free[j]]
      BY <2>2 DEF merge_left
    <3> HIDE DEF j
    <3> QED BY <3>1, <3>2, AbsorbedLeftData
  <2> QED BY <2>1, <2>2
<1>2. CASE R = {}
  BY <1>1, <1>2 DEF merge_adjacent
<1>3. CASE R # {}
  <2>1. k \in R
    BY <1>3
  <2>2. r = [l EXCEPT !.heap = absorb_right(l.heap, l.chunk, k)]
    BY <1>3 DEF merge_adjacent
  <2> HIDE DEF l, k
  <2>3. r.heap = absorb_right(l.heap, l.chunk, k) /\ r.chunk = l.chunk
    BY <1>1, <2>2
  <2>4. HeapOk(l.heap) /\ l.chunk \in Allocated(l.heap)
    BY <1>1 DEF MovedData, Moved
  <2>5. MovedData(l.heap, l.chunk, r.heap, l.chunk)
    BY <2>1, <2>3, <2>4, AbsorbedRightData
  <2> QED BY <1>1, <2>3, <2>5, MovedDataTwice
<1> QED BY <1>2, <1>3

\* split() gives back only what is beyond the first n bytes of the chunk.
LEMMA SplitBytes ==
  ASSUME NEW h, HeapOk(h), NEW c \in Allocated(h), NEW n \in Nat,
         MinSize <= n, n <= h.size[c], NEW g, g = split(h, c, n)
  PROVE  /\ Untouched(h, Allocated(h) \ {c}, g)
         /\ \A i \in 0 .. n - Hdr - 1 : g.mem[c + Hdr + i] = h.mem[c + Hdr + i]
<1> DEFINE x == h.size[c] - n
           d == c + n
           m == Scribble(h.mem, d)
           za == [h.size EXCEPT ![c] = n]
           a == [h EXCEPT !.size = za, !.mem = m]
           b == [a EXCEPT !.size = [za EXCEPT ![d] = x]]
<1>1. /\ h \in HeapType /\ c \in Chunks(h) /\ c \in Addr /\ c \in Nat /\ h.size[c] \in Nat
      /\ h.size \in [Addr -> Nat] /\ h.mem \in [Addr -> Int]
      /\ chunk_end(h, c) = c + h.size[c] /\ chunk_end(h, c) <= MaxAddr
  BY AllocatedFacts, Fields
<1>2. CASE x < MinSize
  <2>1. g = h
    BY <1>2 DEF split
  <2> QED BY <2>1 DEF Untouched
<1>3. CASE ~(x < MinSize)
  <2>1. g = noc_free(b, d + Hdr)
    <3>1. g = insert_free_chunk(a, d, x)
      BY <1>3 DEF split
    <3>2. a.size = za
      BY <1>1 DEF HeapType
    <3> HIDE DEF a, za, d, x
    <3> QED BY <3>1, <3>2 DEF insert_free_chunk, chunk_to_data
  <2>2. d \in Addr /\ d \in Nat /\ x \in Nat
    <3>1. c + n <= MaxAddr /\ c + n \in Nat /\ h.size[c] - n \in Nat
      <4> HIDE DEF x, d
      <4> QED BY <1>1, Consts
    <3> QED BY <3>1, Consts DEF Addr
  <2>3. m \in [Addr -> Int] /\ za \in [Addr -> Nat]
    BY <1>1, FillType, 0 \in Int
  <2>4. b \in HeapType /\ b.mem = m
    <3> HIDE DEF m, za, d, x
    <3>1. a \in HeapType /\ a.mem = m
      BY <1>1, <2>3 DEF HeapType
    <3>2. [za EXCEPT ![d] = x] \in [Addr -> Nat]
      BY <2>2, <2>3
    <3> HIDE DEF a
    <3> QED BY <3>1, <3>2 DEF HeapType
  <2> HIDE DEF b, m
  <2>5. g.mem \in {m, Scribble(m, d)}
    BY <2>1, <2>2, <2>4, FreedMem
  <2>6. \A y \in Addr : y \notin d .. d + MinSize - 1 => g.mem[y] = h.mem[y]
    BY <2>5 DEF m, Scribble, Fill
  <2>7. ASSUME NEW e \in Allocated(h) \ {c}, NEW y \in Data(h, e)
        PROVE  g.mem[y] = h.mem[y]
    <3>1. e \in Chunks(h) \ {c}
      BY DEF Allocated
    <3>2. y \in Addr /\ y \in Nat /\ y \notin c .. chunk_end(h, c) - 1
      BY <1>1, <3>1, DataApart
    <3>3. y \notin d .. d + MinSize - 1
      BY <1>1, <1>3, <3>2, Consts
    <3> QED BY <2>6, <3>2, <3>3
  <2>8. ASSUME NEW i \in 0 .. n - Hdr - 1
        PROVE  g.mem[c + Hdr + i] = h.mem[c + Hdr + i]
    <3>1. c + Hdr + i \in Addr /\ c + Hdr + i \notin d .. d + MinSize - 1
      <4>1. Hdr \in Nat /\ MinSize \in Nat /\ MaxAddr \in Nat
        BY Consts
      <4>2. c + n <= MaxAddr
        BY <1>1, <4>1
      <4>3. i \in Nat /\ c + Hdr + i < c + n /\ c + Hdr + i \in Nat
        BY <1>1, <4>1
      <4> DEFINE y == c + Hdr + i
      <4>4. y \in Nat /\ y < d /\ d <= MaxAddr /\ d \in Nat
        BY <1>1, <4>2, <4>3
      <4> HIDE DEF y, d, x, za, a
      <4>5. y \in Addr
        BY <4>1, <4>4 DEF Addr
      <4>6. y \notin d .. d + MinSize - 1
        BY <4>1, <4>4
      <4> QED BY <4>5, <4>6 DEF y
    <3> QED BY <2>6, <3>1
  <2> QED BY <2>7, <2>8 DEF Untouched
<1> QED BY <1>2, <1>3

\* What a call of realloc(p, n) that is not 0 does to the object in chunk c: up
\* to the lesser size it is where the result says, and no other has changed.
ReallocedBytes(h, c, n, r) ==
  /\ Untouched(h, Allocated(h) \ {c}, r.heap)
  /\ r.ptr = NULL => Carried(h, c, r.heap, r.chunk)
  /\ r.ptr # NULL =>
        \A i \in 0 .. n-1 : i < h.size[c] - Hdr => r.heap.mem[r.ptr + i] = h.mem[c + Hdr + i]

\* realloc() allocates elsewhere, copies and frees.
LEMMA RelocatedBytes ==
  ASSUME NEW h, HeapOk(h), NEW c \in Allocated(h), NEW n \in Sizes, n # 0,
         h.size[c] < chunk_size_for_data(n), NEW r, r = relocate(h, c, n)
  PROVE  ReallocedBytes(h, c, n, r)
<1> DEFINE size == chunk_size_for_data(n)
           new == noc_malloc(h, n)
           u == new.heap
           l == h.size[c] - Hdr
           m == Copy(u.mem, new.ptr, c + Hdr, l)
           y == [u EXCEPT !.mem = m]
           g == noc_free(y, c + Hdr)
<1>1. Malloced(h, size, new) /\ Untouched(h, Allocated(h), u)
  BY MallocChunk, MallocedBytes
<1>2. /\ c \in Chunks(h) /\ c \in Nat /\ h.size[c] \in Nat /\ chunk_end(h, c) = c + h.size[c]
      /\ chunk_end(h, c) <= MaxAddr /\ Hdr < h.size[c]
  BY AllocatedFacts
<1>3. CASE new.ptr = NULL
  <2>1. r = [heap |-> u, ptr |-> NULL, chunk |-> c]
    BY <1>3 DEF relocate
  <2>2. Untouched(h, Allocated(h) \ {c}, u) /\ Carried(h, c, u, c)
    BY <1>1, CarriedInPlace
  <2> HIDE DEF u
  <2> QED BY <2>1, <2>2 DEF ReallocedBytes
<1>4. CASE new.ptr # NULL
  <2>1. r = [heap |-> g, ptr |-> new.ptr, chunk |-> c]
    BY <1>4 DEF relocate, chunk_to_data, chunk_data_size
  <2>2. PICK d \in Addr \ Allocated(h) :
           /\ new.ptr = d + Hdr /\ Allocated(u) = Allocated(h) \cup {d}
           /\ size <= u.size[d]
    <3> HIDE DEF new, size
    <3> QED BY <1>1, <1>4 DEF Malloced
  <2>3. HeapOk(u) /\ \A e \in Allocated(h) : u.size[e] = h.size[e]
    BY <1>1 DEF Malloced
  <2>4. /\ d \in Chunks(u) /\ d \in Nat /\ u.size[d] \in Nat /\ d # c
        /\ chunk_end(u, d) = d + u.size[d] /\ chunk_end(u, d) <= MaxAddr
        /\ size \in Nat /\ h.size[c] < u.size[d]
    <3>1. d \in Allocated(u) /\ d # c /\ size \in Nat
      BY <2>2, ChunkSizeForData
    <3>2. /\ d \in Chunks(u) /\ d \in Nat /\ u.size[d] \in Nat
          /\ chunk_end(u, d) = d + u.size[d] /\ chunk_end(u, d) <= MaxAddr
      BY <2>3, <3>1, AllocatedFacts
    <3> HIDE DEF u
    <3> QED BY <1>2, <2>2, <3>1, <3>2
  <2>5. d + Hdr \in Nat /\ c + Hdr \in Nat /\ l \in Int /\ d + Hdr + l <= MaxAddr + 1
    BY <1>2, <2>4, Consts
  <2> HIDE DEF l, size, new, u, m
  <2>6. /\ \A i \in 0 .. l-1 : m[d + Hdr + i] = u.mem[c + Hdr + i]
        /\ \A x \in Addr : x \notin d + Hdr .. d + Hdr + l - 1 => m[x] = u.mem[x]
    <3>1. Copied(Copy(u.mem, d + Hdr, c + Hdr, l), u.mem, d + Hdr, c + Hdr, l)
      BY <2>5, CopiedData
    <3>2. m = Copy(u.mem, d + Hdr, c + Hdr, l)
      BY <2>2 DEF m
    <3> QED BY <3>1, <3>2 DEF Copied
  <2>7. m \in [Addr -> Int]
    <3>1. u.mem \in [Addr -> Int]
      BY <2>3, Fields DEF HeapOk
    <3>2. Copy(u.mem, d + Hdr, chunk_to_data(c), chunk_data_size(h, c)) \in [Addr -> Int]
      BY <2>5, <3>1, CopiedType
    <3> QED BY <2>2, <3>2 DEF chunk_to_data, chunk_data_size, l, m
  <2> HIDE DEF m
  <2>8. HeapOk(y) /\ Allocated(y) = Allocated(u) /\ y.size = u.size /\ y.mem = m
    BY <2>3, <2>7, OtherBytes
  <2> HIDE DEF y
  <2>9. Untouched(y, Allocated(y) \ {c}, g)
    BY <2>2, <2>8, FreedBytes
  <2> HIDE DEF g
  <2>10. ASSUME NEW e \in Allocated(h) \ {c}, NEW x \in Data(h, e)
         PROVE  g.mem[x] = h.mem[x]
    <3>1. e \in Allocated(y) \ {c} /\ x \in Data(y, e) /\ x \in Data(u, e) /\ e \in Chunks(u) \ {d}
      BY <2>2, <2>3, <2>8 DEF Data, chunk_end, Allocated
    <3>2. x \in Addr /\ x \in Nat /\ x \notin d .. chunk_end(u, d) - 1
      BY <2>3, <2>4, <3>1, DataApart
    <3>3. x \notin d + Hdr .. d + Hdr + l - 1
      BY <1>2, <2>4, <3>2, Consts DEF l
    <3>4. g.mem[x] = m[x] /\ m[x] = u.mem[x]
      BY <2>6, <2>8, <2>9, <3>1, <3>2, <3>3 DEF Untouched
    <3> QED BY <1>1, <3>4 DEF Untouched
  <2>11. ASSUME NEW i \in 0 .. n-1, i < l
         PROVE  g.mem[d + Hdr + i] = h.mem[c + Hdr + i]
    <3>1. i \in Nat /\ i \in 0 .. l-1
      BY <2>5, <2>11, ConstantsAssumption
    <3>2. d \in Allocated(y) \ {c} /\ d + Hdr + i \in Data(y, d)
      <4>1. d + Hdr + i < d + u.size[d]
        BY <1>2, <2>4, <3>1, Consts DEF l
      <4>2. chunk_end(y, d) = d + u.size[d]
        BY <2>8 DEF chunk_end
      <4>3. d + Hdr + i \in d + Hdr .. chunk_end(y, d) - 1
        BY <2>4, <2>5, <3>1, <4>1, <4>2, Consts
      <4> QED BY <2>2, <2>4, <2>8, <4>3 DEF Data
    <3>3. g.mem[d + Hdr + i] = m[d + Hdr + i]
      BY <2>8, <2>9, <3>2 DEF Untouched
    <3>4. c + Hdr + i \in Data(h, c)
      BY <1>2, <3>1, Consts DEF Data, l
    <3> QED BY <1>1, <2>6, <3>1, <3>3, <3>4 DEF Untouched
  <2>12. d + Hdr # NULL
    BY <2>4, Consts DEF NULL
  <2> QED BY <2>1, <2>2, <2>10, <2>11, <2>12 DEF ReallocedBytes, Untouched, l
<1> QED BY <1>3, <1>4

\* What realloc() does after it has moved the object.
LEMMA MovedReallocedBytes ==
  ASSUME NEW h, HeapOk(h), NEW c \in Allocated(h), NEW n, NEW u, NEW d, MovedData(h, c, u, d),
         NEW r, ReallocedBytes(u, d, n, r), r.ptr = NULL => Moved(u, d, r.heap, r.chunk)
  PROVE  ReallocedBytes(h, c, n, r)
<1>1. /\ HeapOk(u) /\ d \in Allocated(u) /\ Allocated(u) \ {d} = Allocated(h) \ {c}
      /\ h.size[c] <= u.size[d] /\ \A e \in Allocated(h) \ {c} : u.size[e] = h.size[e]
  BY DEF MovedData, Moved
<1>2. h.size[c] \in Nat /\ u.size[d] \in Nat
  BY <1>1, AllocatedFacts
<1>3. Untouched(h, Allocated(h) \ {c}, r.heap)
  BY <1>1 DEF MovedData, ReallocedBytes, Untouched, Data, chunk_end
<1>4. CASE r.ptr = NULL
  <2>1. MovedData(u, d, r.heap, r.chunk)
    BY <1>4 DEF MovedData, ReallocedBytes
  <2>2. MovedData(h, c, r.heap, r.chunk)
    BY <2>1, MovedDataTwice
  <2> QED BY <1>3, <1>4, <2>2 DEF MovedData, ReallocedBytes
<1>5. CASE r.ptr # NULL
  <2>1. ASSUME NEW i \in 0 .. n-1, i < h.size[c] - Hdr
        PROVE  r.heap.mem[r.ptr + i] = h.mem[c + Hdr + i]
    <3>1. i < u.size[d] - Hdr /\ i \in 0 .. h.size[c] - Hdr - 1
      BY <1>1, <1>2, <2>1, Consts
    <3>2. r.heap.mem[r.ptr + i] = u.mem[d + Hdr + i]
      BY <1>5, <3>1 DEF ReallocedBytes
    <3> QED BY <3>1, <3>2 DEF MovedData, Carried
  <2> QED BY <1>3, <1>5, <2>1 DEF ReallocedBytes
<1> QED BY <1>4, <1>5

\* realloc() of an allocated chunk.
LEMMA ReallocData ==
  ASSUME NEW h, HeapOk(h), NEW c \in Allocated(h), NEW n \in Sizes, n # 0
  PROVE  ReallocedBytes(h, c, n, noc_realloc(h, c + Hdr, n))
<1> DEFINE p     == c + Hdr
           alloc == chunk_size_for_data(n)
           grow  == chunk_grow(h, c, alloc)
           u     == grow.heap
           m     == merge_adjacent(u, c)
           r     == noc_realloc(h, p, n)
           Keep(g, d) == [heap |-> g, ptr |-> chunk_to_data(d), chunk |-> d]
<1>1. /\ c \in Addr /\ c \in Nat /\ h.size[c] \in Nat /\ Hdr < h.size[c] /\ h \in HeapType
      /\ chunk_end(h, c) = c + h.size[c] /\ h.sbrk_start <= c
      /\ chunk_end(h, c) <= h.sbrk_end /\ h.sbrk_end \in Nat
  BY AllocatedFacts
<1>2. h.sbrk_start \in Nat
  BY <1>1, Fields
<1>3. alloc \in Nat /\ MinSize <= alloc /\ n + Hdr <= alloc /\ n \in Nat
  BY ChunkSizeForData
<1>4. chunk_from_data(p) = c /\ p # NULL /\ ~OutOfHeap(h, p)
  <2>1. chunk_from_data(p) = c /\ p # NULL
    BY <1>1, Consts DEF chunk_from_data, NULL
  <2>2. ~(p < h.sbrk_start) /\ ~(p > h.sbrk_end) /\ ~(chunk_end(h, c) > h.sbrk_end)
    BY <1>1, <1>2, Consts
  <2> QED BY <2>1, <2>2 DEF OutOfHeap
<1>5. r = IF h.size[c] >= alloc THEN Keep(split(h, c, alloc), c)
          ELSE IF grow.ok THEN Keep(u, c)
          ELSE IF m.heap.size[m.chunk] >= alloc
               THEN Keep(split(m.heap, m.chunk, alloc), m.chunk)
          ELSE relocate(m.heap, m.chunk, n)
  BY <1>4 DEF noc_realloc
<1> HIDE DEF r, m, u, grow, alloc, p
<1>6. \A d \in Addr : d + Hdr # NULL
  BY AddrNat, Consts DEF NULL
<1>7. ASSUME NEW v, HeapOk(v), NEW d \in Allocated(v), alloc <= v.size[d],
             NEW s, s = Keep(split(v, d, alloc), d)
      PROVE  ReallocedBytes(v, d, n, s) /\ s.ptr # NULL
  <2> DEFINE g == split(v, d, alloc)
  <2>1. /\ Untouched(v, Allocated(v) \ {d}, g)
        /\ \A i \in 0 .. alloc - Hdr - 1 : g.mem[d + Hdr + i] = v.mem[d + Hdr + i]
    BY <1>3, <1>7, SplitBytes
  <2>2. \A i \in 0 .. n-1 : i \in 0 .. alloc - Hdr - 1
    BY <1>3, Consts
  <2>3. s.heap = g /\ s.ptr = d + Hdr /\ s.ptr # NULL
    BY <1>6, <1>7, AllocatedFacts DEF chunk_to_data
  <2> HIDE DEF g
  <2> QED BY <2>1, <2>2, <2>3 DEF ReallocedBytes
<1>8. CASE h.size[c] >= alloc
  <2>1. r = Keep(split(h, c, alloc), c) /\ alloc <= h.size[c]
    BY <1>1, <1>3, <1>5, <1>8
  <2> QED BY <1>7, <2>1 DEF r, p
<1>9. CASE ~(h.size[c] >= alloc)
  <2>1. /\ Grown(h, c, alloc, grow) /\ Untouched(h, Allocated(h), u)
        /\ Untouched(h, Allocated(h) \ {c}, u) /\ Carried(h, c, u, c)
    <3>1. h.size[c] < alloc
      BY <1>1, <1>3, <1>9
    <3>2. Grown(h, c, alloc, grow) /\ Untouched(h, Allocated(h), u)
      BY <1>3, <3>1, GrownChunk, GrownBytes DEF grow, u
    <3> QED BY <3>2, CarriedInPlace
  <2>2. CASE grow.ok
    <3>1. r.heap = u /\ r.ptr = c + Hdr
      BY <1>5, <1>9, <2>2 DEF chunk_to_data
    <3>2. ASSUME NEW i \in 0 .. n-1, i < h.size[c] - Hdr
          PROVE  u.mem[c + Hdr + i] = h.mem[c + Hdr + i]
      <4>1. i \in 0 .. h.size[c] - Hdr - 1
        BY <1>1, <1>3, <3>2, Consts
      <4> QED BY <2>1, <4>1 DEF Carried
    <3>3. ReallocedBytes(h, c, n, r)
      BY <1>1, <1>6, <2>1, <3>1, <3>2 DEF ReallocedBytes
    <3> QED BY <3>3 DEF r, p
  <2>3. CASE ~grow.ok
    <3>1. MovedData(h, c, u, c)
      <4>1. /\ HeapOk(u) /\ Allocated(u) = Allocated(h) /\ u.size[c] = h.size[c]
            /\ \A e \in Allocated(h) \ {c} : u.size[e] = h.size[e]
        BY <2>1, <2>3 DEF Grown, u
      <4>2. h.size[c] <= u.size[c] /\ (Allocated(h) \ {c}) \cup {c} = Allocated(h)
        BY <1>1, <4>1
      <4> QED BY <2>1, <4>1, <4>2 DEF MovedData, Moved
    <3>2. HeapOk(u) /\ c \in Allocated(u)
      BY <3>1 DEF MovedData, Moved
    <3>3. MovedData(u, c, m.heap, m.chunk)
      BY <3>2, MergedAdjacentData DEF m
    <3>4. MovedData(h, c, m.heap, m.chunk)
      BY <3>1, <3>3, MovedDataTwice
    <3>5. HeapOk(m.heap) /\ m.chunk \in Allocated(m.heap)
      BY <3>4 DEF MovedData, Moved
    <3>6. m.heap.size[m.chunk] \in Nat
      BY <3>5, AllocatedFacts
    <3>7. CASE m.heap.size[m.chunk] >= alloc
      <4>1. alloc <= m.heap.size[m.chunk] /\ r = Keep(split(m.heap, m.chunk, alloc), m.chunk)
        BY <1>3, <1>5, <1>9, <2>3, <3>6, <3>7
      <4>2. ReallocedBytes(m.heap, m.chunk, n, r) /\ r.ptr # NULL
        BY <1>7, <3>5, <4>1
      <4> QED BY <3>4, <4>2, MovedReallocedBytes DEF r, p
    <3>8. CASE ~(m.heap.size[m.chunk] >= alloc)
      <4>1. r = relocate(m.heap, m.chunk, n) /\ m.heap.size[m.chunk] < alloc
        BY <1>3, <1>5, <1>9, <2>3, <3>6, <3>8
      <4>2. ReallocedBytes(m.heap, m.chunk, n, r)
        BY <3>5, <4>1, RelocatedBytes DEF alloc
      <4>3. r.ptr = NULL => Moved(m.heap, m.chunk, r.heap, r.chunk)
        <5>1. Realloced(m.heap, m.chunk, n, r)
          BY <3>5, <4>1, Relocated
        <5> QED BY <1>6, <5>1 DEF Realloced
      <4>4. ReallocedBytes(h, c, n, r)
        BY <3>4, <4>2, <4>3, MovedReallocedBytes
      <4> QED BY <4>4 DEF r, p
    <3> QED BY <3>7, <3>8
  <2> QED BY <2>2, <2>3
<1> QED BY <1>8, <1>9

-----------------------------------------------------------------------------
(* Objects keep their contents *)

\* The bytes of an object are data of its chunk.
LEMMA ObjectBytes ==
  ASSUME NEW h, HeapOk(h), NEW o, NEW l, Accounts(Allocated(h), h.size, o, l), NEW q \in Held(o)
  PROVE  LET c == chunk_from_data(q)
         IN  /\ c \in Allocated(h) /\ q = c + Hdr /\ q \in Nat /\ o[q] \in Nat
             /\ o[q] <= h.size[c] - Hdr /\ h.size[c] \in Nat
             /\ q + o[q] <= chunk_end(h, c) /\ chunk_end(h, c) \in Nat
             /\ \A i \in 0 .. o[q] - 1 : q + i \in Data(h, c) /\ q + i \in Addr
<1> DEFINE c == chunk_from_data(q)
<1>1. c \in Allocated(h) /\ q = c + Hdr /\ q \in Addr
  BY HeldChunk
<1>2. /\ c \in Nat /\ h.size[c] \in Nat /\ chunk_end(h, c) = c + h.size[c] /\ c \in Chunks(h)
  BY <1>1, AllocatedFacts
<1>3. o[q] \in Nat /\ o[q] + Hdr <= h.size[c]
  BY DEF Accounts, Held
<1> HIDE DEF c
<1>4. /\ q \in Nat /\ o[q] <= h.size[c] - Hdr /\ q + o[q] <= chunk_end(h, c)
      /\ chunk_end(h, c) \in Nat
  BY <1>1, <1>2, <1>3, Consts
<1>5. ASSUME NEW i \in 0 .. o[q] - 1 PROVE q + i \in Data(h, c) /\ q + i \in Addr
  <2>1. q + i \in Data(h, c)
    BY <1>1, <1>2, <1>3, <1>4, Consts DEF Data
  <2> QED BY <1>2, <2>1, DataApart
<1> QED BY <1>1, <1>2, <1>3, <1>4, <1>5 DEF c

\* Different objects share no byte.
LEMMA ObjectBytesApart ==
  ASSUME NEW h, HeapOk(h), NEW o, NEW l, Accounts(Allocated(h), h.size, o, l),
         NEW q \in Held(o), NEW p \in Held(o), p # q, NEW i \in 0 .. o[q] - 1
  PROVE  q + i \notin p .. p + o[p] - 1
<1> DEFINE c == chunk_from_data(q)
           d == chunk_from_data(p)
<1>1. c \in Allocated(h) /\ q = c + Hdr /\ q + i \in Data(h, c) /\ q + i \in Nat
  BY ObjectBytes, AddrNat
<1>2. /\ d \in Allocated(h) /\ p = d + Hdr /\ p \in Nat /\ o[p] \in Nat
      /\ p + o[p] <= chunk_end(h, d) /\ chunk_end(h, d) \in Nat
  BY ObjectBytes
<1>3. d \in Nat /\ d \in Chunks(h) /\ c \in Chunks(h)
  BY <1>1, <1>2, AllocatedFacts
<1>4. d # c
  BY <1>1, <1>2
<1> HIDE DEF c, d
<1>5. q + i \notin d .. chunk_end(h, d) - 1
  BY <1>1, <1>3, <1>4, DataApart
<1> QED BY <1>1, <1>2, <1>3, <1>5, Consts

\* The n bytes at q are the same in both memories.
SameBytes(f, m, q, n) == \A i \in 0 .. n-1 : f[q + i] = m[q + i]

\* The first n bytes at q are what their owner wrote there.
Intact(m, q, n) == \A i \in 0 .. n-1 : m[q + i] = i + 1

Lesser(k, n) == IF k < n THEN k ELSE n

\* Objects whose chunks are untouched keep their bytes.
LEMMA KeptObjects ==
  ASSUME NEW h, HeapOk(h), NEW o, NEW l, Accounts(Allocated(h), h.size, o, l),
         NEW A, NEW g, Untouched(h, A, g),
         NEW q \in Held(o), chunk_from_data(q) \in A
  PROVE  SameBytes(g.mem, h.mem, q, o[q])
BY ObjectBytes DEF Untouched, SameBytes

\* The owner of p writes its bytes; those of the other objects, and those it
\* has kept, are as the library left them.
LEMMA UsedData ==
  ASSUME NEW g, HeapOk(g), NEW o, NEW l, Accounts(Allocated(g), g.size, o, l),
         NEW h, NEW p, NEW kept \in Nat, g = Use(h, o, p, kept), p # NULL => p \in Held(o),
         \A q \in Held(o) \ {p} : Intact(h.mem, q, o[q]),
         p # NULL => Intact(h.mem, p, Lesser(kept, o[p]))
  PROVE  \A q \in Held(o) : Intact(g.mem, q, o[q])
<1> SUFFICES ASSUME NEW q \in Held(o), NEW i \in 0 .. o[q] - 1
             PROVE  g.mem[q + i] = i + 1
  BY DEF Intact
<1> DEFINE a == q + i
           owned == UNION {x .. x + o[x] - 1 : x \in Held(o)}
           m == [b \in Addr |-> IF p # NULL /\ b \in p + kept .. p + o[p] - 1 THEN b - p + 1
                                ELSE IF b \in owned THEN h.mem[b] ELSE Garbage]
<1>1. a \in Addr /\ q \in Nat /\ o[q] \in Nat /\ a \in Nat
  BY ObjectBytes, AddrNat
<1>2. a \in owned
  BY <1>1
<1>3. g = [h EXCEPT !.mem = m]
  BY DEF Use
<1>4. g.mem = m
  <2>1. "mem" \in DOMAIN g
    BY DEF HeapOk, HeapType
  <2> HIDE DEF m
  <2>2. DOMAIN g = DOMAIN h
    BY <1>3
  <2> QED BY <1>3, <2>1, <2>2
<1> HIDE DEF owned
<1>5. CASE q = p /\ i >= kept
  <2>1. p # NULL
    BY <1>5 DEF Accounts
  <2>2. a \in p + kept .. p + o[p] - 1 /\ a - p + 1 = i + 1
    BY <1>1, <1>5
  <2> QED BY <1>1, <1>4, <2>1, <2>2
<1>6. CASE q = p /\ i < kept
  <2>1. p # NULL /\ h.mem[a] = i + 1
    BY <1>1, <1>6 DEF Accounts, Intact, Lesser
  <2>2. a \notin p + kept .. p + o[p] - 1
    BY <1>1, <1>6
  <2> QED BY <1>1, <1>2, <1>4, <2>1, <2>2
<1>7. CASE q # p
  <2>1. h.mem[a] = i + 1
    BY <1>7 DEF Intact
  <2>2. CASE p = NULL
    BY <1>1, <1>2, <1>4, <2>1, <2>2
  <2>3. CASE p # NULL
    <3>1. p \in Nat /\ o[p] \in Nat /\ a \notin p .. p + o[p] - 1
      BY <1>7, <2>3, ObjectBytes, ObjectBytesApart
    <3>2. a \notin p + kept .. p + o[p] - 1
      BY <1>1, <3>1
    <3> HIDE DEF a
    <3> QED BY <1>1, <1>2, <1>4, <2>1, <3>2 DEF a
  <2> QED BY <2>2, <2>3
<1> QED BY <1>1, <1>5, <1>6, <1>7

\* It is enough to look at the bytes that the library leaves behind.
LEMMA AfterUseData ==
  ASSUME IInv', NEW h, NEW o, NEW p, NEW kept \in Nat,
         obj' = o, heap' = Use(h, o, p, kept), p # NULL => p \in Held(o),
         \A q \in Held(o) \ {p} : Intact(h.mem, q, o[q]),
         p # NULL => Intact(h.mem, p, Lesser(kept, o[p]))
  PROVE  DataIntact'
<1>1. HeapOk(heap)' /\ Accounts(Allocated(heap), heap.size, obj, lost)'
  BY IInvAccounts, PTL
<1>2. PICK g, l : g = heap' /\ l = lost'
  OBVIOUS
<1>3. HeapOk(g) /\ Accounts(Allocated(g), g.size, o, l) /\ g = Use(h, o, p, kept)
  BY <1>1, <1>2
<1>4. \A q \in Held(o) : Intact(g.mem, q, o[q])
  BY <1>3, UsedData
<1> QED BY <1>2, <1>4 DEF DataIntact, Held, Intact

\* What malloc() returns is an address.
LEMMA MallocedAddress ==
  ASSUME NEW h, NEW size, NEW r, Malloced(h, size, r)
  PROVE  r.ptr \in Addr
<1>1. NULL \in Addr
  BY Consts DEF Addr, NULL
<1> QED BY <1>1, DataAddress DEF Malloced

\* The objects outside the chunks that a call may write to.
LEMMA KeptData ==
  ASSUME IInv, DataIntact, NEW A, NEW g, Untouched(heap, A, g),
         NEW q \in Held(obj), chunk_from_data(q) \in A
  PROVE  Intact(g.mem, q, obj[q])
<1>1. HeapOk(heap) /\ Accounts(Allocated(heap), heap.size, obj, lost)
  BY IInvAccounts
<1>2. Intact(heap.mem, q, obj[q])
  BY DEF DataIntact, Intact
<1>3. SameBytes(g.mem, heap.mem, q, obj[q])
  BY <1>1, KeptObjects
<1> QED BY <1>2, <1>3 DEF Intact, SameBytes

\* The objects other than the one in chunk c.
LEMMA OtherChunk ==
  ASSUME IInv, NEW p \in Held(obj), NEW q \in Held(obj), q # p
  PROVE  chunk_from_data(q) \in Allocated(heap) \ {chunk_from_data(p)}
<1>1. Accounts(Allocated(heap), heap.size, obj, lost)
  BY IInvAccounts
<1> QED BY <1>1, HeldChunk

\* d holds the objects of o without the one at p.
OneLess(o, p, d) ==
  /\ d \in [Addr -> Nat \cup {NotHeld}]
  /\ Held(d) = Held(o) \ {p} /\ \A q \in Held(d) : d[q] = o[q]

\* The objects after one was given back.
LEMMA HeldWithout ==
  ASSUME NEW o \in [Addr -> Nat \cup {NotHeld}], NEW p \in Addr
  PROVE  OneLess(o, p, [o EXCEPT ![p] = NotHeld])
BY DEF Held, OneLess

\* d holds the objects of o and one of n bytes at p.
OneMore(o, p, n, d) ==
  /\ d \in [Addr -> Nat \cup {NotHeld}]
  /\ Held(d) = Held(o) \cup {p} /\ d[p] = n /\ \A q \in Held(d) \ {p} : d[q] = o[q]

\* The objects after one was handed out.
LEMMA HeldWith ==
  ASSUME NEW o \in [Addr -> Nat \cup {NotHeld}], NEW p \in Addr, NEW n \in Nat
  PROVE  OneMore(o, p, n, [o EXCEPT ![p] = n])
BY DEF Held, NotHeld, OneMore

\* An object obtained from malloc() or calloc().
LEMMA ObtainedData ==
  ASSUME IInv, DataIntact, IInv', NEW n \in Nat, NEW r, Obtain(r, n), r.ptr \in Addr,
         Untouched(heap, Allocated(heap), r.heap)
  PROVE  DataIntact'
<1> DEFINE p == r.ptr
           o == IF p = NULL THEN obj ELSE [obj EXCEPT ![p] = n]
<1>1. obj' = o /\ heap' = Use(r.heap, o, p, 0) /\ p \in Addr
  BY DEF Obtain
<1>2. Accounts(Allocated(heap), heap.size, obj, lost) /\ obj \in [Addr -> Nat \cup {NotHeld}]
  BY IInvAccounts DEF Accounts
<1>3. o = IF p = NULL THEN obj ELSE [obj EXCEPT ![p] = n]
  OBVIOUS
<1> HIDE DEF p, o
<1>4. /\ p # NULL => p \in Held(o) /\ o[p] = n
      /\ \A q \in Held(o) \ {p} : q \in Held(obj) /\ o[q] = obj[q]
  <2>1. CASE p = NULL
    BY <1>3, <2>1
  <2>2. CASE p # NULL
    <3>1. OneMore(obj, p, n, [obj EXCEPT ![p] = n])
      BY <1>1, <1>2, HeldWith
    <3> QED BY <1>3, <2>2, <3>1 DEF OneMore
  <2> QED BY <2>1, <2>2
<1>5. \A q \in Held(o) \ {p} : Intact(r.heap.mem, q, o[q])
  BY <1>2, <1>4, HeldChunk, KeptData
<1>6. p # NULL => Intact(r.heap.mem, p, Lesser(0, o[p]))
  BY <1>4 DEF Intact, Lesser
<1> QED BY <1>1, <1>4, <1>5, <1>6, AfterUseData

\* A call of malloc() leaves every object as it was.
LEMMA MallocKeepsData ==
  ASSUME IInv, DataIntact, IInv', NEW n \in Sizes, Malloc(n)
  PROVE  DataIntact'
<1>1. HeapOk(heap)
  BY IInvAccounts
<1> DEFINE r == noc_malloc(heap, n)
<1>2. Malloced(heap, chunk_size_for_data(n), r) /\ Untouched(heap, Allocated(heap), r.heap)
  BY <1>1, MallocChunk, MallocedBytes
<1>3. Obtain(r, n) /\ n \in Nat
  BY ConstantsAssumption DEF Malloc
<1> HIDE DEF r
<1> QED BY <1>2, <1>3, MallocedAddress, ObtainedData

\* A call of calloc() leaves every object as it was.
LEMMA CallocKeepsData ==
  ASSUME IInv, DataIntact, IInv', NEW k \in Nmembs, NEW n \in Sizes, Calloc(k, n)
  PROVE  DataIntact'
<1>1. HeapOk(heap)
  BY IInvAccounts
<1> DEFINE r == noc_calloc(heap, k, n)
           t == k * n
<1>2. Malloced(heap, t + Hdr, r) /\ Untouched(heap, Allocated(heap), r.heap)
  BY <1>1, CallocChunk, CallocedBytes
<1>3. Obtain(r, t) /\ t \in Nat
  BY ConstantsAssumption DEF Calloc
<1> HIDE DEF r, t
<1> QED BY <1>2, <1>3, MallocedAddress, ObtainedData

\* A call of free() leaves every other object as it was.
LEMMA FreeKeepsData ==
  ASSUME IInv, DataIntact, IInv', NEW p \in Addr, Free(p)
  PROVE  DataIntact'
<1> DEFINE g == noc_free(heap, p)
           o == [obj EXCEPT ![p] = NotHeld]
<1>1. HeapOk(heap) /\ Accounts(Allocated(heap), heap.size, obj, lost)
      /\ obj \in [Addr -> Nat \cup {NotHeld}]
  BY IInvAccounts DEF Accounts
<1>2. obj' = o /\ heap' = Use(g, o, NULL, 0) /\ p \in Held(obj) \cup {NULL}
  BY DEF Free, Held
<1>3. Held(o) = Held(obj) \ {p} /\ \A q \in Held(o) : o[q] = obj[q]
  BY <1>1, HeldWithout DEF OneLess
<1>4. \A q \in Held(obj) \ {p} : Intact(g.mem, q, obj[q])
  <2>1. CASE p \in Held(obj)
    <3> DEFINE c == chunk_from_data(p)
    <3>1. c \in Allocated(heap) /\ p = c + Hdr
      BY <1>1, <2>1, HeldChunk
    <3>2. Untouched(heap, Allocated(heap) \ {c}, g)
      BY <1>1, <3>1, FreedBytes
    <3> HIDE DEF g
    <3> QED BY <2>1, <3>2, OtherChunk, KeptData
  <2>2. CASE p \notin Held(obj)
    <3>1. p = NULL /\ chunk_from_data(NULL) \notin Addr
      BY <1>2, <2>2, AddrNat, Consts DEF chunk_from_data, NULL
    <3>2. g = heap \/ g = [heap EXCEPT !.fault = TRUE]
      BY <3>1 DEF noc_free
    <3> HIDE DEF g
    <3>3. g.mem = heap.mem
      BY <1>1, <3>2 DEF HeapOk, HeapType
    <3> QED BY <3>3 DEF DataIntact, Intact
  <2> QED BY <2>1, <2>2
<1> HIDE DEF g, o
<1>5. \A q \in Held(o) \ {NULL} : Intact(g.mem, q, o[q])
  BY <1>3, <1>4
<1>6. 0 \in Nat /\ ~(NULL # NULL)
  OBVIOUS
<1> QED BY <1>2, <1>5, <1>6, AfterUseData

\* A call of realloc() leaves every other object as it was, and its own up to
\* the lesser of the sizes.
LEMMA ReallocKeepsData ==
  ASSUME IInv, DataIntact, IInv', NEW p \in Addr, NEW n \in Sizes, Realloc(p, n)
  PROVE  DataIntact'
<1> DEFINE r     == noc_realloc(heap, p, n)
           c     == chunk_from_data(p)
           moved == n # 0 /\ r.ptr = NULL /\ r.chunk # c /\ p # NULL
           gone  == r.ptr # NULL \/ n = 0 \/ moved
           old   == IF gone THEN [obj EXCEPT ![p] = NotHeld] ELSE obj
           o     == IF r.ptr = NULL THEN old ELSE [old EXCEPT ![r.ptr] = n]
           kept  == IF p = NULL THEN 0 ELSE obj[p]
<1>1. HeapOk(heap) /\ Accounts(Allocated(heap), heap.size, obj, lost)
      /\ obj \in [Addr -> Nat \cup {NotHeld}]
  BY IInvAccounts DEF Accounts
<1>2. obj' = o /\ heap' = Use(r.heap, o, r.ptr, kept) /\ p \in Held(obj) \cup {NULL}
  BY DEF Realloc, Exchange, Held
<1>3. n \in Nat
  BY ConstantsAssumption
<1>4. CASE p = NULL
  <2> DEFINE f == noc_malloc(heap, n)
  <2>1. r.heap = f.heap /\ r.ptr = f.ptr /\ kept = 0
    BY <1>4 DEF noc_realloc
  <2>2. NULL \in Addr /\ NULL \notin Held(obj)
    BY <1>1, Consts DEF Accounts, Addr, NULL
  <2>3. [obj EXCEPT ![NULL] = NotHeld] = obj
    BY <1>1, <2>2 DEF Held
  <2>4. old = obj
    BY <1>4, <2>3
  <2>5. Malloced(heap, chunk_size_for_data(n), f) /\ Untouched(heap, Allocated(heap), f.heap)
    BY <1>1, MallocChunk, MallocedBytes
  <2> DEFINE q == f.ptr
  <2>6. q \in Addr
    BY <2>5, MallocedAddress
  <2>7. o = IF q = NULL THEN obj ELSE [obj EXCEPT ![q] = n]
    BY <2>1, <2>4
  <2>8. heap' = Use(f.heap, o, q, 0)
    BY <1>2, <2>1
  <2> HIDE DEF r, old, o, q, f
  <2>9. lost' = lost
    BY <1>4 DEF Realloc, Exchange
  <2>10. Obtain(f, n)
    BY <1>2, <2>7, <2>8, <2>9 DEF Obtain, q
  <2> QED BY <1>3, <2>5, <2>6, <2>10, ObtainedData DEF q
<1>5. CASE p # NULL
  <2>0. p \in Held(obj) /\ kept = obj[p] /\ obj[p] \in Nat
    BY <1>1, <1>2, <1>5 DEF Held
  <2>1. c \in Allocated(heap) /\ p = c + Hdr /\ obj[p] + Hdr <= heap.size[c] /\ heap.size[c] \in Nat
    BY <1>1, <2>0, HeldChunk, AllocatedFacts DEF Accounts
  <2> DEFINE A == Allocated(heap) \ {c}
             m == r.heap.mem
             d == [obj EXCEPT ![p] = NotHeld]
  <2>2. Held(d) = Held(obj) \ {p} /\ (\A q \in Held(d) : d[q] = obj[q])
        /\ d \in [Addr -> Nat \cup {NotHeld}]
    BY <1>1, HeldWithout DEF OneLess
  <2>3. ASSUME Untouched(heap, A, r.heap), NEW q \in Held(obj) \ {p}
        PROVE  Intact(m, q, obj[q])
    BY <2>0, <2>3, OtherChunk, KeptData
  <2>4. CASE n = 0
    <3>1. r.heap = noc_free(heap, p) /\ r.ptr = NULL
      BY <1>5, <2>4 DEF noc_realloc
    <3>2. o = d
      BY <2>4, <3>1
    <3>3. Untouched(heap, A, r.heap)
      <4>1. Untouched(heap, A, noc_free(heap, c + Hdr))
        BY <1>1, <2>1, FreedBytes
      <4> HIDE DEF r, c
      <4> QED BY <2>1, <3>1, <4>1
    <3> HIDE DEF r, o, d, A, c
    <3>4. \A q \in Held(o) \ {NULL} : Intact(m, q, o[q])
      BY <2>2, <2>3, <3>2, <3>3
    <3>5. r.ptr # NULL => r.ptr \in Held(o) /\ Intact(m, r.ptr, Lesser(kept, o[r.ptr]))
      BY <3>1
    <3> HIDE DEF kept
    <3> QED BY <1>2, <2>0, <3>1, <3>4, <3>5, AfterUseData
  <2>5. CASE n # 0
    <3>1. ReallocedBytes(heap, c, n, r)
      <4>1. ReallocedBytes(heap, c, n, noc_realloc(heap, c + Hdr, n))
        BY <1>1, <2>1, <2>5, ReallocData
      <4> HIDE DEF c
      <4> QED BY <2>1, <4>1
    <3>2. Realloced(heap, c, n, r)
      <4>1. Realloced(heap, c, n, noc_realloc(heap, c + Hdr, n))
        BY <1>1, <2>1, <2>5, ReallocChunk
      <4> HIDE DEF c
      <4> QED BY <2>1, <4>1
    <3>3. Untouched(heap, A, r.heap)
      BY <3>1 DEF ReallocedBytes
    <3>4. CASE r.ptr = NULL /\ r.chunk = c
      <4>1. o = obj
        BY <2>5, <3>4
      <4>2. Intact(m, p, obj[p])
        <5> HIDE DEF r
        <5>1. Carried(heap, c, r.heap, c)
          BY <3>1, <3>4 DEF ReallocedBytes
        <5>2. Intact(heap.mem, p, obj[p])
          BY <2>0 DEF DataIntact, Intact
        <5> HIDE DEF c
        <5>3. \A i \in 0 .. obj[p] - 1 : i \in 0 .. heap.size[c] - Hdr - 1
          BY <2>0, <2>1, Consts
        <5> QED BY <2>1, <5>1, <5>2, <5>3 DEF Carried, Intact
      <4> HIDE DEF r, o, A, c
      <4>3. \A q \in Held(o) \ {NULL} : Intact(m, q, o[q])
        BY <2>3, <3>3, <4>1, <4>2
      <4> HIDE DEF kept
      <4>4. r.ptr = NULL
        BY <3>4
      <4> QED BY <1>2, <2>0, <4>3, <4>4, AfterUseData
    <3>5. CASE r.ptr = NULL /\ r.chunk # c
      <4>1. o = d
        BY <1>5, <2>5, <3>5
      <4> HIDE DEF r, o, d, A, c
      <4>2. \A q \in Held(o) \ {NULL} : Intact(m, q, o[q])
        BY <2>2, <2>3, <3>3, <4>1
      <4> HIDE DEF kept
      <4>3. r.ptr = NULL
        BY <3>5
      <4> QED BY <1>2, <2>0, <4>2, <4>3, AfterUseData
    <3>6. CASE r.ptr # NULL
      <4> DEFINE s == r.ptr
      <4>1. o = [d EXCEPT ![s] = n]
        BY <3>6
      <4>2. s \in Addr
        <5> HIDE DEF r
        <5> QED BY <3>2, <3>6, DataAddress DEF Realloced
      <4>3. Intact(m, s, Lesser(obj[p], n))
        <5> HIDE DEF r
        <5>1. \A i \in 0 .. n-1 : i < heap.size[c] - Hdr => m[s + i] = heap.mem[c + Hdr + i]
          BY <3>1, <3>6 DEF ReallocedBytes
        <5>2. Intact(heap.mem, p, obj[p])
          BY <2>0 DEF DataIntact, Intact
        <5> HIDE DEF c, s, m
        <5>3. \A i \in 0 .. Lesser(obj[p], n) - 1 :
                 i \in 0 .. obj[p] - 1 /\ i \in 0 .. n-1 /\ i < heap.size[c] - Hdr
          BY <1>3, <2>0, <2>1, Consts DEF Lesser
        <5> QED BY <2>1, <5>1, <5>2, <5>3 DEF Intact
      <4> HIDE DEF r, o, d, A, c, s
      <4>4. Held(o) = Held(d) \cup {s} /\ o[s] = n /\ \A q \in Held(o) \ {s} : o[q] = d[q]
        <5>1. OneMore(d, s, n, [d EXCEPT ![s] = n])
          BY <1>3, <2>2, <4>2, HeldWith
        <5> QED BY <4>1, <5>1 DEF OneMore
      <4>5. \A q \in Held(o) \ {s} : Intact(m, q, o[q])
        BY <2>2, <2>3, <3>3, <4>4
      <4> HIDE DEF kept
      <4>6. s \in Held(o) /\ Intact(m, s, Lesser(kept, o[s]))
        BY <2>0, <4>3, <4>4
      <4>7. heap' = Use(r.heap, o, s, kept)
        BY <1>2 DEF s
      <4> QED BY <1>2, <2>0, <4>5, <4>6, <4>7, AfterUseData
    <3> QED BY <3>4, <3>5, <3>6
  <2> QED BY <2>4, <2>5
<1> QED BY <1>4, <1>5

\* Every step leaves the contents of the objects as their owners wrote them.
LEMMA NextKeepsData == IInv /\ DataIntact /\ IInv' /\ [Next]_vars => DataIntact'
<1> SUFFICES ASSUME IInv, DataIntact, IInv', [Next]_vars PROVE DataIntact'
  OBVIOUS
<1>1. ASSUME NEW n \in Sizes, Malloc(n) PROVE DataIntact'
  BY <1>1, MallocKeepsData
<1>2. ASSUME NEW k \in Nmembs, NEW n \in Sizes, Calloc(k, n) PROVE DataIntact'
  BY <1>2, CallocKeepsData
<1>3. ASSUME NEW p \in Addr, Free(p) PROVE DataIntact'
  BY <1>3, FreeKeepsData
<1>4. ASSUME NEW p \in Addr, NEW n \in Sizes, Realloc(p, n) PROVE DataIntact'
  BY <1>4, ReallocKeepsData
<1>5. ASSUME NEW i \in ForeignIncrs, ForeignSbrk(i) PROVE DataIntact'
  <2>1. heap'.mem = heap.mem
    <3>1. heap \in HeapType
      BY IInvAccounts DEF HeapOk
    <3>2. heap' = heap \/ heap' = [heap EXCEPT !.brk = heap.brk + i]
      BY <1>5 DEF ForeignSbrk, sbrk
    <3> QED BY <3>1, <3>2 DEF HeapType
  <2> QED BY <1>5, <2>1 DEF ForeignSbrk, DataIntact, Held
<1>6. CASE UNCHANGED vars
  BY <1>6 DEF vars, DataIntact, Held
<1> QED BY <1>1, <1>2, <1>3, <1>4, <1>5, <1>6 DEF Next

\* "The contents of the new object shall be the same as that of the old object
\* prior to deallocation, up to the lesser of the new and old sizes"
\* (malloc.c:311-313), and no call writes into another object: not when chunks
\* are split, merged, moved or linked (malloc.c:221-245, 274-306, 353-407).
THEOREM ObjectsKeepTheirContents == Spec => []DataIntact
<1>1. Init => DataIntact
  BY DEF Init, DataIntact, Held
<1> QED BY <1>1, Invariance, NextKeepsData, PTL DEF Spec

-----------------------------------------------------------------------------
(* Alignment *)

LEMMA DivMod ==
  ASSUME NEW w \in Nat \ {0}, NEW a \in Int
  PROVE  a \div w \in Int /\ a % w \in 0 .. w-1 /\ a = (a \div w) * w + (a % w)
BY SMT

LEMMA MultipleOf ==
  ASSUME NEW w \in Nat \ {0}, NEW k \in Int
  PROVE  (k * w) % w = 0
BY SMT

\* Sums and differences of aligned numbers are aligned.
LEMMA AlignedSum ==
  ASSUME NEW a \in Int, NEW b \in Int, a % Align = 0, b % Align = 0
  PROVE  (a + b) % Align = 0 /\ (a - b) % Align = 0
<1> DEFINE p == a \div Align
           q == b \div Align
<1>0. Align \in Nat \ {0}
  BY Consts
<1>1. p \in Int /\ q \in Int /\ a = p * Align /\ b = q * Align
  <2>1. a = p * Align + 0 /\ b = q * Align + 0 /\ p \in Int /\ q \in Int
    BY <1>0, DivMod
  <2> HIDE DEF p, q
  <2> QED BY <1>0, <2>1, SMT
<1> HIDE DEF p, q
<1>2. p * Align + q * Align = (p + q) * Align /\ p * Align - q * Align = (p - q) * Align
  BY <1>0, <1>1, SMT
<1>3. a + b = (p + q) * Align /\ a - b = (p - q) * Align
  BY <1>1, <1>2
<1>4. p + q \in Int /\ p - q \in Int
  BY <1>1
<1>5. ((p + q) * Align) % Align = 0 /\ ((p - q) * Align) % Align = 0
  BY <1>0, <1>4, MultipleOf
<1> QED BY <1>3, <1>5

\* The pad of aligned_sbrk() and of chunk_size_for_data() align what they follow.
LEMMA AlignedPad ==
  ASSUME NEW a \in Int
  PROVE  (a + (Align - (a % Align))) % Align = 0 /\ (a + ((-a) % Align)) % Align = 0
<1> DEFINE p == a \div Align
           q == (-a) \div Align
           r == a % Align
           s == (-a) % Align
<1>0. Align \in Nat \ {0}
  BY Consts
<1>1. p \in Int /\ q \in Int /\ r \in Int /\ s \in Int /\ a = p * Align + r /\ -a = q * Align + s
  BY <1>0, DivMod
<1> HIDE DEF p, q, r, s
<1>2. p * Align + Align = (p + 1) * Align /\ -(q * Align) = (-q) * Align
      /\ p * Align \in Int /\ q * Align \in Int
  BY <1>0, <1>1, SMT
<1>3. a + (Align - r) = (p + 1) * Align /\ a + s = (-q) * Align
  <2> DEFINE x == p * Align
             y == q * Align
  <2>1. x \in Int /\ y \in Int /\ a = x + r /\ -a = y + s
    BY <1>1, <1>2
  <2>2. a + (Align - r) = x + Align /\ a + s = -y
    <3> HIDE DEF x, y
    <3> QED BY <1>0, <1>1, <2>1
  <2> QED BY <1>2, <2>2
<1>4. p + 1 \in Int /\ -q \in Int
  BY <1>1
<1>5. ((p + 1) * Align) % Align = 0 /\ ((-q) * Align) % Align = 0
  BY <1>0, <1>4, MultipleOf
<1> QED BY <1>3, <1>5 DEF r, s

\* Every chunk starts and ends at an aligned address.
AlignedHeap(h) == \A c \in Chunks(h) : c % Align = 0 /\ h.size[c] % Align = 0

\* The size of a chunk is a multiple of the alignment.
LEMMA AlignedSize ==
  ASSUME NEW n \in Sizes
  PROVE  chunk_size_for_data(n) % Align = 0
<1> DEFINE r == (-n) % Align
<1>1. n \in Nat /\ -n \in Int /\ Align \in Nat \ {0} /\ Hdr \in Nat /\ SizeMod \in Nat
      /\ n + Align + Hdr < SizeMod
  BY Consts, ConstantsAssumption, SizesAssumption
<1>2. r \in 0 .. Align - 1
  BY <1>1, DivMod
<1>3. (n + r) % Align = 0
  <2>1. n \in Int
    BY <1>1
  <2> QED BY <2>1, AlignedPad, Zenon
<1> HIDE DEF r
<1>4. n + r \in Int /\ Hdr \in Int /\ Hdr % Align = 0
  BY <1>1, <1>2, LayoutAssumption
<1>5. (n + r + Hdr) % Align = 0
  BY <1>3, <1>4, AlignedSum
<1>6. n + r + Hdr \in 0 .. SizeMod - 1
  BY <1>1, <1>2
<1>7. chunk_size_for_data(n) = n + r + Hdr
  <2> DEFINE x == n + r + Hdr
  <2>1. x \in 0 .. SizeMod - 1 /\ SizeMod \in Nat \ {0}
    BY <1>6, Consts
  <2>2. x % SizeMod = x
    <3> HIDE DEF x
    <3> QED BY <2>1, SMT
  <2> QED BY <2>2 DEF chunk_size_for_data, r
<1> QED BY <1>5, <1>7

\* One size has changed.
LEMMA AlignedPut ==
  ASSUME NEW h, AlignedHeap(h), h.size \in [Addr -> Nat], NEW p \in Addr, NEW n,
         p % Align = 0, n % Align = 0, NEW g, g.size = [h.size EXCEPT ![p] = n]
  PROVE  AlignedHeap(g)
<1>1. \A c \in Addr : g.size[c] = IF c = p THEN n ELSE h.size[c]
  OBVIOUS
<1> QED BY <1>1 DEF AlignedHeap, Chunks

\* Two headers are merged.
LEMMA AlignedJoin ==
  ASSUME NEW h, AlignedHeap(h), h.size \in [Addr -> Nat], NEW c \in Chunks(h), NEW d \in Chunks(h),
         c # d, NEW g, g.size = Join(h.size, c, d)
  PROVE  AlignedHeap(g)
<1>1. c \in Addr /\ d \in Addr /\ h.size[c] \in Int /\ h.size[d] \in Int
  BY DEF Chunks
<1>2. \A e \in Addr : g.size[e] = IF e = d THEN 0 ELSE IF e = c THEN h.size[c] + h.size[d] ELSE h.size[e]
  BY <1>1 DEF Join
<1>3. c % Align = 0 /\ h.size[c] % Align = 0 /\ h.size[d] % Align = 0
  BY DEF AlignedHeap
<1>4. (h.size[c] + h.size[d]) % Align = 0
  BY <1>1, <1>3, AlignedSum
<1> QED BY <1>2, <1>3, <1>4 DEF AlignedHeap, Chunks

\* free() and the merges it makes keep chunks aligned.
LEMMA MergedAligned ==
  ASSUME NEW h \in HeapType, AlignedHeap(h), NEW k \in 1 .. Len(h.free),
         \A i \in 1 .. Len(h.free) : h.free[i] \in Chunks(h)
  PROVE  AlignedHeap(merge_right(h, k))
<1> DEFINE c == h.free[k]
           d == h.free[k+1]
           g == [h EXCEPT !.free = RemoveAt(h.free, k+1), !.size = Join(h.size, c, d)]
<1>1. CASE k < Len(h.free) /\ chunk_end(h, c) = d
  <2>1. merge_right(h, k) = g
    BY <1>1 DEF merge_right, HeapType
  <2>2. k+1 \in 1 .. Len(h.free) /\ c \in Chunks(h)
    BY <1>1, Fields
  <2>3. d \in Chunks(h)
    BY <2>2
  <2>4. g.size = Join(h.size, c, d) /\ h.size \in [Addr -> Nat]
    BY Fields DEF HeapType
  <2> HIDE DEF g, c, d
  <2>5. c # d
    BY <1>1, <2>2, ChunkNat
  <2> QED BY <2>1, <2>2, <2>3, <2>4, <2>5, AlignedJoin
<1>2. CASE ~(k < Len(h.free) /\ chunk_end(h, c) = d)
  BY <1>2 DEF merge_right
<1> QED BY <1>1, <1>2

LEMMA LinkedAligned ==
  ASSUME NEW h \in HeapType, AlignedHeap(h), NEW c \in Chunks(h),
         \A i \in 1 .. Len(h.free) : h.free[i] \in Chunks(h) /\ h.free[i] # c,
         NEW k \in 1 .. Len(h.free) + 1
  PROVE  AlignedHeap(link_chunk(h, c, k))
<1>1. /\ h.size \in [Addr -> Nat] /\ h.free \in Seq(Addr) /\ Len(h.free) \in Nat
      /\ c \in Addr
  BY Fields DEF Chunks
<1>2. CASE k <= Len(h.free) /\ h.free[k] < c
  <2> DEFINE d == h.free[k]
             m == [h EXCEPT !.size = Join(h.size, d, c)]
  <2>1. link_chunk(h, c, k) = merge_right(m, k)
    BY <1>2 DEF link_chunk, HeapType
  <2>2. k \in 1 .. Len(h.free) /\ d \in Chunks(h) /\ d # c
    BY <1>1, <1>2
  <2>3. Join(h.size, d, c) \in [Addr -> Nat]
    BY <2>2, JoinType
  <2>4. m \in HeapType /\ m.free = h.free /\ m.size = Join(h.size, d, c)
    BY <2>3 DEF HeapType
  <2> HIDE DEF m
  <2>5. AlignedHeap(m)
    <3> HIDE DEF d
    <3> QED BY <1>1, <2>2, <2>4, AlignedJoin
  <2>6. \A i \in 1 .. Len(h.free) : h.free[i] \in Chunks(m)
    <3> SUFFICES ASSUME NEW e \in Chunks(h), e # c PROVE e \in Chunks(m)
      OBVIOUS
    <3> HIDE DEF d
    <3>1. e \in Addr /\ h.size[e] \in Nat /\ h.size[c] \in Nat /\ h.size[e] > 0
      BY <1>1 DEF Chunks
    <3>2. m.size[e] = h.size[e] \/ m.size[e] = h.size[e] + h.size[c]
      BY <1>1, <2>4, <3>1 DEF Join
    <3> QED BY <3>1, <3>2 DEF Chunks
  <2> QED BY <2>1, <2>2, <2>4, <2>5, <2>6, MergedAligned
<1>3. CASE ~(k <= Len(h.free) /\ h.free[k] < c)
  <2> DEFINE o == h.free
             f == InsertAt(o, k, c)
             m == [h EXCEPT !.free = f]
  <2>1. link_chunk(h, c, k) = merge_right(m, k)
    BY <1>3 DEF link_chunk, HeapType
  <2>2. /\ f \in Seq(Addr) /\ Len(f) = Len(h.free) + 1
        /\ \A j \in 1 .. Len(h.free) + 1 :
              f[j] = IF j < k THEN h.free[j] ELSE IF j = k THEN c ELSE h.free[j-1]
    <3>1. o \in Seq(Addr) /\ k \in 1 .. Len(o) + 1 /\ c \in Addr
      BY <1>1
    <3> HIDE DEF o
    <3>2. /\ f \in Seq(Addr) /\ Len(f) = Len(o) + 1
          /\ \A j \in 1 .. Len(o) + 1 :
                f[j] = IF j < k THEN o[j] ELSE IF j = k THEN c ELSE o[j-1]
      BY <3>1, InsertAtProperties
    <3> QED BY <3>2 DEF o
  <2> HIDE DEF f
  <2>3. m \in HeapType /\ m.free = f /\ m.size = h.size
    BY <2>2 DEF HeapType
  <2> HIDE DEF m
  <2>4. AlignedHeap(m) /\ Chunks(m) = Chunks(h)
    BY <2>3 DEF AlignedHeap, Chunks
  <2>5. ASSUME NEW j \in 1 .. Len(m.free) PROVE m.free[j] \in Chunks(m)
    <3>1. j \in 1 .. Len(h.free) + 1
      BY <2>2, <2>3
    <3>2. CASE j < k
      <4>1. j \in 1 .. Len(h.free) /\ m.free[j] = h.free[j]
        BY <1>1, <2>2, <2>3, <3>1, <3>2
      <4> QED BY <2>4, <4>1
    <3>3. CASE j = k
      BY <2>2, <2>3, <2>4, <3>1, <3>3
    <3>4. CASE j > k
      <4>1. j - 1 \in 1 .. Len(h.free)
        BY <1>1, <3>1, <3>4
      <4>2. m.free[j] = h.free[j-1]
        BY <1>1, <2>2, <2>3, <3>1, <3>4
      <4> QED BY <2>4, <4>1, <4>2
    <3> QED BY <1>1, <3>1, <3>2, <3>3, <3>4
  <2>6. k \in 1 .. Len(m.free)
    BY <2>2, <2>3
  <2> QED BY <2>1, <2>3, <2>4, <2>5, <2>6, MergedAligned
<1> QED BY <1>2, <1>3

LEMMA FreedAligned ==
  ASSUME NEW h \in HeapType, AlignedHeap(h), NEW c \in Chunks(h),
         \A i \in 1 .. Len(h.free) : h.free[i] \in Chunks(h) /\ h.free[i] # c
  PROVE  AlignedHeap(noc_free(h, c + Hdr))
<1> DEFINE m == Scribble(h.mem, c)
           s == [h EXCEPT !.mem = m]
           k == FreeStop(h, c)
<1>1. chunk_from_data(c + Hdr) = c /\ c \in Addr
  BY ChunkNat, Consts DEF chunk_from_data
<1>2. k \in 1 .. Len(h.free) + 1
  BY Fields, FreeStopExists
<1>3. m \in [Addr -> Int]
  BY Fields, FillType, 0 \in Int
<1>4. noc_free(h, c + Hdr) \in {h, link_chunk(s, c, k)}
  BY <1>1 DEF noc_free
<1> HIDE DEF m, k
<1>5. s \in HeapType /\ s.free = h.free /\ s.size = h.size
  BY <1>3 DEF HeapType
<1> HIDE DEF s
<1>6. AlignedHeap(s) /\ Chunks(s) = Chunks(h)
  BY <1>5 DEF AlignedHeap, Chunks
<1>7. AlignedHeap(link_chunk(s, c, k))
  BY <1>2, <1>5, <1>6, LinkedAligned
<1> QED BY <1>4, <1>7

\* What aligned_sbrk() returns is aligned (malloc.c:95-138).
LEMMA AlignedPointer ==
  ASSUME NEW h, NEW n, NEW r, r = aligned_sbrk(h, n), r.ptr # SBRK_FAILURE,
         sbrk(h, n).ptr \in Int
  PROVE  r.ptr % Align = 0
<1> DEFINE p == sbrk(h, n).ptr
           t == [sbrk(h, n).heap EXCEPT !.sbrk_end = p + n]
<1>1. CASE p % Align = 0
  <2>1. r.ptr = p
    BY <1>1 DEF aligned_sbrk
  <2> QED BY <1>1, <2>1
<1>2. CASE p % Align # 0
  <2>1. r.ptr = SBRK_FAILURE \/ r = align_sbrk(t, p, n)
    BY <1>2 DEF aligned_sbrk
  <2> HIDE DEF p, t
  <2>2. r.ptr = p + (Align - (p % Align))
    BY <2>1 DEF align_sbrk
  <2>3. p \in Int
    BY DEF p
  <2> QED BY <2>2, <2>3, AlignedPad
<1> QED BY <1>1, <1>2

LEMMA GrantedAligned ==
  ASSUME NEW h, HeapOk(h), NEW n \in Nat \ {0}
  PROVE  LET r == aligned_sbrk(h, n) IN r.ptr # SBRK_FAILURE => r.ptr % Align = 0
<1>1. sbrk(h, n).ptr \in Int
  BY SbrkResult, Fields DEF HeapOk
<1> QED BY <1>1, AlignedPointer

\* malloc() keeps chunks aligned: the chunk from sbrk(), the cut and the rest.
LEMMA ExtendedAligned ==
  ASSUME NEW h, HeapOk(h), AlignedHeap(h), NEW n \in Nat \ {0}, n % Align = 0
  PROVE  AlignedHeap(extend(h, n).heap)
<1> DEFINE r == aligned_sbrk(h, n)
           s == r.heap
           p == r.ptr
           g == extend(h, n).heap
<1>1. Granted(h, n, r)
  BY AlignedSbrk
<1>2. s.size = h.size /\ s \in HeapType /\ s.size \in [Addr -> Nat]
  BY <1>1, Fields DEF Granted, HeapOk
<1>3. AlignedHeap(s)
  BY <1>2 DEF AlignedHeap, Chunks
<1>4. CASE p = SBRK_FAILURE
  BY <1>3, <1>4 DEF extend
<1>5. CASE p # SBRK_FAILURE
  <2>1. p \in Addr /\ p % Align = 0
    BY <1>1, <1>5, GrantedAligned DEF Granted
  <2>2. g = [s EXCEPT !.size = [s.size EXCEPT ![p] = n], !.mem = Fill(s.mem, p, Hdr, Garbage)]
    BY <1>5 DEF extend
  <2> HIDE DEF g, s, p
  <2>3. g.size = [s.size EXCEPT ![p] = n]
    BY <1>2, <2>2 DEF HeapType
  <2>4. AlignedHeap(g)
    BY <1>2, <1>3, <2>1, <2>3, AlignedPut
  <2> QED BY <2>4 DEF g
<1> QED BY <1>4, <1>5

LEMMA TakenAligned ==
  ASSUME NEW h, HeapOk(h), AlignedHeap(h), NEW k \in 1 .. Len(h.free), NEW n \in Nat \ {0},
         n % Align = 0, Fits(h, k, n)
  PROVE  AlignedHeap(take(h, k, n))
<1> DEFINE c == h.free[k]
           x == h.size[c] - n
           g == take(h, k, n)
<1>1. /\ h \in HeapType /\ c \in Chunks(h) /\ c \in Nat /\ c \in Addr /\ h.size[c] \in Nat
      /\ n <= h.size[c] /\ h.size \in [Addr -> Nat] /\ c + h.size[c] <= MaxAddr
  <2>1. h \in HeapType /\ c \in Chunks(h) /\ h.size[c] >= n
    BY DEF HeapOk, FreeOk, Fits
  <2>2. h.sbrk_end \in Nat /\ h.sbrk_end <= MaxAddr /\ h.size \in [Addr -> Nat]
    BY <2>1, Fields, AddrNat
  <2>3. chunk_end(h, c) <= h.sbrk_end
    BY <2>1 DEF HeapOk, ChunksOk
  <2> HIDE DEF c
  <2>4. c \in Nat /\ c \in Addr /\ h.size[c] \in Nat
    BY <2>1, ChunkNat
  <2> QED BY <2>1, <2>2, <2>3, <2>4, Consts DEF chunk_end
<1>2. c % Align = 0 /\ h.size[c] % Align = 0
  BY <1>1 DEF AlignedHeap
<1>3. CASE x < MinSize
  <2>1. g = [h EXCEPT !.free = RemoveAt(h.free, k)]
    BY <1>3 DEF take, Extra
  <2> HIDE DEF g
  <2>2. g.size = h.size
    BY <1>1, <2>1 DEF HeapType
  <2>3. AlignedHeap(g)
    BY <2>2 DEF AlignedHeap, Chunks
  <2> QED BY <2>3 DEF g
<1>4. CASE ~(x < MinSize)
  <2> DEFINE z == [h.size EXCEPT ![c] = n]
             m == [h EXCEPT !.size = z]
             d == c + n
  <2>1. g = [h EXCEPT !.free = [h.free EXCEPT ![k] = d], !.size = [z EXCEPT ![d] = x],
                      !.mem = Scribble(h.mem, d)]
    BY <1>4 DEF take, Extra
  <2> HIDE DEF g
  <2>2. d % Align = 0 /\ x % Align = 0
    <3>1. c \in Int /\ n \in Int /\ h.size[c] \in Int
      BY <1>1
    <3> HIDE DEF c
    <3> QED BY <1>2, <3>1, AlignedSum
  <2>3. d \in Addr /\ x \in Nat
    <3>1. d \in Nat /\ d <= MaxAddr /\ x \in Nat
      <4> HIDE DEF c
      <4> QED BY <1>1, Consts
    <3> QED BY <3>1, Consts DEF Addr
  <2> HIDE DEF x, d, c
  <2>4. g.size = [z EXCEPT ![d] = x]
    <3> HIDE DEF z
    <3> QED BY <1>1, <2>1 DEF HeapType
  <2>5. m.size = z /\ z \in [Addr -> Nat]
    BY <1>1 DEF HeapType
  <2> HIDE DEF m
  <2>6. AlignedHeap(m)
    BY <1>1, <1>2, <2>5, AlignedPut DEF z
  <2> HIDE DEF z
  <2>7. m.size \in [Addr -> Nat] /\ g.size = [m.size EXCEPT ![d] = x]
    BY <2>4, <2>5
  <2>8. AlignedHeap(g)
    BY <2>2, <2>3, <2>6, <2>7, AlignedPut
  <2> QED BY <2>8 DEF g
<1> QED BY <1>3, <1>4

LEMMA MallocedAligned ==
  ASSUME NEW h, HeapOk(h), AlignedHeap(h), NEW n \in Sizes
  PROVE  AlignedHeap(noc_malloc(h, n).heap)
<1> DEFINE size == chunk_size_for_data(n)
           k == CHOOSE j \in Chosen(h, size) : TRUE
<1>1. CASE n = 0
  BY <1>1 DEF noc_malloc
<1>2. CASE n # 0
  <2>1. size \in Nat \ {0} /\ size % Align = 0
    BY <1>2, ChunkSizeForData, AlignedSize
  <2>2. CASE Chosen(h, size) # {}
    <3>1. noc_malloc(h, n).heap = take(h, k, size)
      BY <1>2, <2>2 DEF noc_malloc
    <3>2. k \in 1 .. Len(h.free) /\ Fits(h, k, size)
      BY <2>2 DEF Chosen, IsChosen
    <3> HIDE DEF k, size
    <3> QED BY <2>1, <3>1, <3>2, TakenAligned
  <2>3. CASE Chosen(h, size) = {}
    <3>1. noc_malloc(h, n) = extend(h, size)
      BY <1>2, <2>3 DEF noc_malloc, chunk_grow, LastLink
    <3> HIDE DEF size
    <3> QED BY <2>1, <3>1, ExtendedAligned
  <2> QED BY <2>2, <2>3
<1> QED BY <1>1, <1>2

\* calloc() clears no header of a chunk.
LEMMA CallocedAligned ==
  ASSUME NEW h, HeapOk(h), AlignedHeap(h), NEW k \in Nmembs, NEW n \in Sizes
  PROVE  AlignedHeap(noc_calloc(h, k, n).heap)
<1> DEFINE f == noc_malloc(h, n)
           u == f.heap
           g == noc_calloc(h, k, n).heap
<1>1. AlignedHeap(u) /\ u \in HeapType
  BY MallocedAligned, MallocChunk DEF Malloced, HeapOk
<1>2. CASE k * n >= SizeMod \/ f.ptr = NULL
  <2>1. g = h \/ g = u
    BY <1>2 DEF noc_calloc
  <2> HIDE DEF g, u
  <2>2. AlignedHeap(g)
    BY <1>1, <2>1
  <2> QED BY <2>2 DEF g
<1>3. CASE ~(k * n >= SizeMod \/ f.ptr = NULL)
  <2>1. PICK m \in [Addr -> Int] : noc_calloc(h, k, n) = [heap |-> [u EXCEPT !.mem = m], ptr |-> f.ptr]
    BY <1>3, ClearedChunk
  <2>2. g = [u EXCEPT !.mem = m]
    BY <2>1
  <2> HIDE DEF g, u
  <2>3. AlignedHeap(g)
    BY <1>1, <2>2 DEF AlignedHeap, Chunks, HeapType
  <2> QED BY <2>3 DEF g
<1> QED BY <1>2, <1>3

\* What chunk_grow() gets from sbrk() is aligned, for the chunk and beside it.
LEMMA InsertedAligned ==
  ASSUME NEW h, HeapOk(h), AlignedHeap(h), NEW n \in Nat \ {0}, n % Align = 0,
         NEW r, Granted(h, n, r), r.ptr # SBRK_FAILURE, r.ptr % Align = 0
  PROVE  AlignedHeap(insert_free_chunk(r.heap, r.ptr, n))
<1> DEFINE s == r.heap
           p == r.ptr
           m == [s EXCEPT !.size = [s.size EXCEPT ![p] = n]]
<1>1. /\ s \in HeapType /\ s.size \in [Addr -> Nat] /\ s.size = h.size /\ s.free = h.free
      /\ p \in Addr /\ h.brk <= p /\ p % Align = 0
  BY Fields DEF Granted, HeapOk
<1>2. insert_free_chunk(r.heap, r.ptr, n) = noc_free(m, p + Hdr)
  BY <1>1 DEF insert_free_chunk, chunk_to_data
<1>3. \A d \in Chunks(h) : d # p
  <2> SUFFICES ASSUME p \in Chunks(h) PROVE FALSE
    OBVIOUS
  <2>1. h \in HeapType /\ ChunksOk(h) /\ h.brk \in Nat /\ h.sbrk_end \in Nat
    BY Fields DEF HeapOk
  <2> HIDE DEF p
  <2>2. p \in Nat /\ p < chunk_end(h, p) /\ chunk_end(h, p) \in Nat
    BY <2>1, ChunkNat
  <2>3. chunk_end(h, p) <= h.sbrk_end /\ h.sbrk_end <= h.brk
    BY <2>1 DEF ChunksOk
  <2> QED BY <1>1, <2>1, <2>2, <2>3
<1> HIDE DEF s, p
<1>4. m \in HeapType /\ m.free = h.free /\ m.size = [s.size EXCEPT ![p] = n]
  BY <1>1 DEF HeapType
<1> HIDE DEF m
<1>5. AlignedHeap(s)
  BY <1>1 DEF AlignedHeap, Chunks
<1>6. AlignedHeap(m)
  BY <1>1, <1>4, <1>5, AlignedPut
<1>7. p \in Chunks(m) /\ \A d \in Chunks(h) : d \in Chunks(m)
  BY <1>1, <1>3, <1>4 DEF Chunks
<1>8. \A i \in 1 .. Len(m.free) : m.free[i] \in Chunks(m) /\ m.free[i] # p
  BY <1>3, <1>4, <1>7 DEF HeapOk, FreeOk
<1> QED BY <1>2, <1>4, <1>6, <1>7, <1>8, FreedAligned

LEMMA GrownAligned ==
  ASSUME NEW h, HeapOk(h), AlignedHeap(h), NEW c \in Allocated(h), NEW n \in Nat,
         h.size[c] < n, n % Align = 0
  PROVE  AlignedHeap(chunk_grow(h, c, n).heap)
<1> DEFINE need == n - h.size[c]
           add  == IF need < MinSize THEN MinSize ELSE need
           r    == aligned_sbrk(h, add)
           s    == r.heap
           z    == [s.size EXCEPT ![c] = s.size[c] + add]
           v    == [s EXCEPT !.size = z]
           g    == chunk_grow(h, c, n).heap
<1>1. /\ c \in Chunks(h) /\ c \in Addr /\ h.size[c] \in Nat /\ c % Align = 0
      /\ h.size[c] % Align = 0
  BY AllocatedFacts DEF AlignedHeap
<1>2. add \in Nat \ {0}
  BY <1>1, Consts
<1>3. add % Align = 0
  <2>1. n \in Int /\ h.size[c] \in Int /\ n % Align = 0 /\ h.size[c] % Align = 0
    BY <1>1
  <2>2. need % Align = 0
    BY <2>1, AlignedSum, Zenon
  <2> QED BY <2>2, LayoutAssumption
<1>4. Granted(h, add, r) /\ (r.ptr # SBRK_FAILURE => r.ptr % Align = 0)
  BY <1>2, AlignedSbrk, GrantedAligned
<1>5. s.size = h.size /\ s \in HeapType /\ s.size \in [Addr -> Nat]
  BY <1>4, Fields DEF Granted, HeapOk
<1>6. AlignedHeap(s)
  BY <1>5 DEF AlignedHeap, Chunks
<1>7. AlignedHeap(v)
  <2>1. (h.size[c] + add) % Align = 0
    <3>1. add \in Int /\ h.size[c] \in Int
      BY <1>1, <1>2
    <3> HIDE DEF add
    <3> QED BY <1>1, <1>3, <3>1, AlignedSum, Zenon
  <2> HIDE DEF s, add
  <2>2. v.size = [s.size EXCEPT ![c] = h.size[c] + add]
    BY <1>5 DEF HeapType
  <2> HIDE DEF v
  <2> QED BY <1>1, <1>5, <1>6, <2>1, <2>2, AlignedPut
<1>8. \/ g \in {h, s, v}
      \/ g = insert_free_chunk(r.heap, r.ptr, add) /\ r.ptr # SBRK_FAILURE
  BY DEF chunk_grow
<1> HIDE DEF r, s, g, v, add
<1>9. CASE g = insert_free_chunk(r.heap, r.ptr, add) /\ r.ptr # SBRK_FAILURE
  <2>1. AlignedHeap(g)
    BY <1>2, <1>3, <1>4, <1>9, InsertedAligned
  <2> QED BY <2>1 DEF g
<1>10. CASE g \in {h, s, v}
  <2>1. AlignedHeap(g)
    BY <1>6, <1>7, <1>10
  <2> QED BY <2>1 DEF g
<1> QED BY <1>8, <1>9, <1>10

\* The loop of realloc() over the list.
LEMMA AbsorbedAligned ==
  ASSUME NEW h, HeapOk(h), AlignedHeap(h), NEW c \in Allocated(h)
  PROVE  /\ \A k \in LeftOf(h, c) : AlignedHeap(absorb_left(h, c, k))
         /\ \A k \in RightOf(h, c) : AlignedHeap(absorb_right(h, c, k))
<1>1. c \in Chunks(h) /\ h \in HeapType /\ h.size \in [Addr -> Nat]
  BY AllocatedFacts, Fields
<1>2. ASSUME NEW k \in 1 .. Len(h.free) PROVE h.free[k] \in Chunks(h) /\ h.free[k] # c
  BY DEF Allocated, HeapOk, FreeOk
<1>3. ASSUME NEW k \in LeftOf(h, c) PROVE AlignedHeap(absorb_left(h, c, k))
  <2> DEFINE d == h.free[k]
             g == absorb_left(h, c, k)
  <2>1. d \in Chunks(h) /\ d # c
    BY <1>2, <1>3 DEF LeftOf
  <2>2. g.size = Join(h.size, d, c)
    BY <1>1 DEF absorb_left, HeapType
  <2> HIDE DEF d, g
  <2>3. AlignedHeap(g)
    BY <1>1, <2>1, <2>2, AlignedJoin
  <2> QED BY <2>3 DEF g
<1>4. ASSUME NEW k \in RightOf(h, c) PROVE AlignedHeap(absorb_right(h, c, k))
  <2> DEFINE d == h.free[k]
             g == absorb_right(h, c, k)
  <2>1. d \in Chunks(h) /\ d # c
    BY <1>2, <1>4 DEF RightOf
  <2>2. g.size = Join(h.size, c, d)
    BY <1>1 DEF absorb_right, HeapType
  <2> HIDE DEF d, g
  <2>3. AlignedHeap(g)
    BY <1>1, <2>1, <2>2, AlignedJoin
  <2> QED BY <2>3 DEF g
<1> QED BY <1>3, <1>4

LEMMA MergedAdjacentAligned ==
  ASSUME NEW h, HeapOk(h), AlignedHeap(h), NEW c \in Allocated(h)
  PROVE  AlignedHeap(merge_adjacent(h, c).heap)
<1> DEFINE l == merge_left(h, c)
           R == RightOf(l.heap, l.chunk)
           k == CHOOSE j \in R : TRUE
           r == merge_adjacent(h, c)
<1>1. /\ AlignedHeap(l.heap) /\ HeapOk(l.heap) /\ l.chunk \in Allocated(l.heap)
      /\ l = [heap |-> l.heap, chunk |-> l.chunk]
  <2>1. CASE LeftOf(h, c) = {}
    <3>1. l = [heap |-> h, chunk |-> c]
      BY <2>1 DEF merge_left
    <3> QED BY <3>1
  <2>2. CASE LeftOf(h, c) # {}
    <3> DEFINE j == CHOOSE i \in LeftOf(h, c) : TRUE
    <3>1. j \in LeftOf(h, c)
      BY <2>2
    <3>2. l = [heap |-> absorb_left(h, c, j), chunk |-> h.free[j]]
      BY <2>2 DEF merge_left
    <3> HIDE DEF j, l
    <3>3. Moved(h, c, l.heap, l.chunk) /\ AlignedHeap(l.heap)
      BY <3>1, <3>2, AbsorbedLeft, AbsorbedAligned
    <3> QED BY <3>2, <3>3 DEF Moved
  <2> QED BY <2>1, <2>2
<1>2. CASE R = {}
  BY <1>1, <1>2 DEF merge_adjacent
<1>3. CASE R # {}
  <2>1. k \in R
    BY <1>3
  <2>2. r = [l EXCEPT !.heap = absorb_right(l.heap, l.chunk, k)]
    BY <1>3 DEF merge_adjacent
  <2> HIDE DEF l, k, r
  <2>3. r.heap = absorb_right(l.heap, l.chunk, k)
    BY <1>1, <2>2
  <2>4. AlignedHeap(r.heap)
    BY <1>1, <2>1, <2>3, AbsorbedAligned
  <2> QED BY <2>4 DEF r
<1> QED BY <1>2, <1>3

\* A split leaves two aligned chunks.
LEMMA SplitAligned ==
  ASSUME NEW h, HeapOk(h), AlignedHeap(h), NEW c \in Allocated(h), NEW n \in Nat \ {0},
         n % Align = 0, n <= h.size[c]
  PROVE  AlignedHeap(split(h, c, n))
<1> DEFINE x == h.size[c] - n
           d == c + n
           za == [h.size EXCEPT ![c] = n]
           zb == [za EXCEPT ![d] = x]
           m == Scribble(h.mem, d)
           a == [h EXCEPT !.size = za, !.mem = m]
           b == [a EXCEPT !.size = zb]
           g == split(h, c, n)
<1>1. /\ h \in HeapType /\ c \in Chunks(h) /\ c \in Addr /\ c \in Nat /\ h.size[c] \in Nat
      /\ h.size \in [Addr -> Nat] /\ h.mem \in [Addr -> Int]
      /\ chunk_end(h, c) = c + h.size[c] /\ chunk_end(h, c) <= MaxAddr
      /\ c % Align = 0 /\ h.size[c] % Align = 0
  BY AllocatedFacts, Fields DEF AlignedHeap
<1>2. CASE x < MinSize
  BY <1>2 DEF split
<1>3. CASE ~(x < MinSize)
  <2>1. g = noc_free(b, d + Hdr)
    <3>1. g = insert_free_chunk(a, d, x)
      BY <1>3 DEF split
    <3>2. a.size = za
      BY <1>1 DEF HeapType
    <3> HIDE DEF a, za, d, x
    <3> QED BY <3>1, <3>2 DEF insert_free_chunk, chunk_to_data
  <2>2. d \in Nat /\ x \in Nat \ {0} /\ d <= MaxAddr /\ c < d /\ d < chunk_end(h, c)
    BY <1>1, <1>3, Consts
  <2>3. d % Align = 0 /\ x % Align = 0
    <3>1. c \in Int /\ n \in Int /\ h.size[c] \in Int
      BY <1>1
    <3> QED BY <1>1, <3>1, AlignedSum
  <2>4. d \notin Chunks(h)
    <3> SUFFICES ASSUME d \in Chunks(h) PROVE FALSE
      OBVIOUS
    <3> HIDE DEF d
    <3> QED BY <1>1, <2>2 DEF HeapOk, ChunksOk
  <2>5. m \in [Addr -> Int] /\ za \in [Addr -> Nat] /\ d \in Addr
    <3>1. m \in [Addr -> Int] /\ za \in [Addr -> Nat]
      BY <1>1, FillType, 0 \in Int
    <3> QED BY <2>2, <3>1, Consts DEF Addr
  <2> HIDE DEF x, d, m
  <2>6. zb \in [Addr -> Nat]
    <3> HIDE DEF za
    <3> QED BY <2>2, <2>5
  <2>7. a \in HeapType /\ a.free = h.free /\ a.size = za
    <3> HIDE DEF za
    <3> QED BY <1>1, <2>5 DEF HeapType
  <2>8. b \in HeapType /\ b.free = h.free /\ b.size = zb
    <3> HIDE DEF a, zb
    <3> QED BY <2>6, <2>7 DEF HeapType
  <2>9. AlignedHeap(a)
    <3>1. a.size = [h.size EXCEPT ![c] = n]
      BY <2>7
    <3> HIDE DEF a
    <3> QED BY <1>1, <3>1, AlignedPut
  <2>10. AlignedHeap(b)
    <3>1. b.size = [a.size EXCEPT ![d] = x] /\ a.size \in [Addr -> Nat]
      BY <2>5, <2>7, <2>8
    <3> HIDE DEF a, b
    <3> QED BY <2>3, <2>5, <2>9, <3>1, AlignedPut
  <2>11. d \in Chunks(b) /\ \A e \in Chunks(h) \ {c} : e \in Chunks(b)
    <3>1. \A e \in Addr : b.size[e] = IF e = d THEN x ELSE IF e = c THEN n ELSE h.size[e]
      <4> HIDE DEF a, b
      <4> QED BY <1>1, <2>5, <2>8
    <3> HIDE DEF b
    <3> QED BY <2>2, <2>5, <3>1 DEF Chunks
  <2> HIDE DEF b
  <2>12. \A i \in 1 .. Len(b.free) : b.free[i] \in Chunks(b) /\ b.free[i] # d
    BY <2>4, <2>8, <2>11 DEF HeapOk, FreeOk, Allocated
  <2>13. AlignedHeap(noc_free(b, d + Hdr))
    BY <2>8, <2>10, <2>11, <2>12, FreedAligned
  <2> QED BY <2>1, <2>13
<1> QED BY <1>2, <1>3

\* realloc() keeps chunks aligned.
LEMMA RelocatedAligned ==
  ASSUME NEW h, HeapOk(h), AlignedHeap(h), NEW c \in Allocated(h), NEW n \in Sizes, n # 0
  PROVE  AlignedHeap(relocate(h, c, n).heap)
<1> DEFINE new == noc_malloc(h, n)
           u == new.heap
           m == Copy(u.mem, new.ptr, chunk_to_data(c), chunk_data_size(h, c))
           y == [u EXCEPT !.mem = m]
           g == noc_free(y, c + Hdr)
<1>1. Malloced(h, chunk_size_for_data(n), new) /\ AlignedHeap(u)
  BY MallocChunk, MallocedAligned
<1>2. CASE new.ptr = NULL
  BY <1>1, <1>2 DEF relocate
<1>3. CASE new.ptr # NULL
  <2>1. relocate(h, c, n).heap = g
    BY <1>3 DEF relocate, chunk_to_data
  <2>2. HeapOk(u) /\ c \in Allocated(u)
    BY <1>1 DEF Malloced
  <2> HIDE DEF new, u
  <2>3. m \in [Addr -> Int]
    <3>1. PICK d \in Addr \ Allocated(h) :
             /\ new.ptr = d + Hdr /\ Allocated(u) = Allocated(h) \cup {d}
             /\ chunk_size_for_data(n) <= u.size[d]
      BY <1>1, <1>3 DEF Malloced, u
    <3>2. new.ptr \in Int /\ u.mem \in [Addr -> Int]
      BY <2>2, <3>1, AddrNat, Consts, Fields DEF HeapOk
    <3> QED BY <3>2, CopiedType
  <2> HIDE DEF m
  <2>4. HeapOk(y) /\ Allocated(y) = Allocated(u) /\ y.size = u.size
    BY <2>2, <2>3, OtherBytes
  <2> HIDE DEF y
  <2>5. /\ AlignedHeap(y) /\ y \in HeapType /\ c \in Chunks(y)
        /\ \A i \in 1 .. Len(y.free) : y.free[i] \in Chunks(y) /\ y.free[i] # c
    BY <1>1, <2>2, <2>4 DEF AlignedHeap, Chunks, HeapOk, FreeOk, Allocated
  <2>6. AlignedHeap(g)
    BY <2>5, FreedAligned
  <2> QED BY <2>1, <2>6
<1> QED BY <1>2, <1>3

LEMMA ReallocedAligned ==
  ASSUME NEW h, HeapOk(h), AlignedHeap(h), NEW c \in Allocated(h), NEW n \in Sizes, n # 0
  PROVE  AlignedHeap(noc_realloc(h, c + Hdr, n).heap)
<1> DEFINE p     == c + Hdr
           alloc == chunk_size_for_data(n)
           grow  == chunk_grow(h, c, alloc)
           u     == grow.heap
           m     == merge_adjacent(u, c)
           r     == noc_realloc(h, p, n)
<1>1. /\ h.size[c] \in Nat /\ alloc \in Nat \ {0} /\ alloc % Align = 0
      /\ chunk_from_data(p) = c /\ p # NULL
  <2>1. c \in Nat /\ h.size[c] \in Nat
    BY AllocatedFacts
  <2> QED BY <2>1, ChunkSizeForData, AlignedSize, Consts DEF chunk_from_data, NULL
<1>2. \/ r.heap = h
      \/ h.size[c] >= alloc /\ r.heap = split(h, c, alloc)
      \/ ~(h.size[c] >= alloc) /\ grow.ok /\ r.heap = u
      \/ ~(h.size[c] >= alloc) /\ ~grow.ok /\ m.heap.size[m.chunk] >= alloc
            /\ r.heap = split(m.heap, m.chunk, alloc)
      \/ ~(h.size[c] >= alloc) /\ ~grow.ok /\ r.heap = relocate(m.heap, m.chunk, n).heap
  BY <1>1 DEF noc_realloc
<1> HIDE DEF r, m, u, grow, alloc, p
<1>3. CASE r.heap = h
  <2>1. AlignedHeap(r.heap)
    BY <1>3
  <2> QED BY <2>1 DEF r, p
<1>4. CASE h.size[c] >= alloc /\ r.heap = split(h, c, alloc)
  <2>1. AlignedHeap(r.heap)
    BY <1>1, <1>4, SplitAligned
  <2> QED BY <2>1 DEF r, p
<1>5. CASE ~(h.size[c] >= alloc)
  <2>1. Grown(h, c, alloc, grow) /\ AlignedHeap(u)
    BY <1>1, <1>5, ChunkSizeForData, GrownChunk, GrownAligned DEF u, grow, alloc
  <2>2. CASE grow.ok /\ r.heap = u
    <3>1. AlignedHeap(r.heap)
      BY <2>1, <2>2
    <3> QED BY <3>1 DEF r, p
  <2>3. CASE ~grow.ok
    <3>1. HeapOk(u) /\ c \in Allocated(u)
      BY <2>1, <2>3 DEF Grown, u
    <3>2. /\ MovedData(u, c, m.heap, m.chunk) /\ AlignedHeap(m.heap)
      BY <2>1, <3>1, MergedAdjacentData, MergedAdjacentAligned DEF m
    <3>3. HeapOk(m.heap) /\ m.chunk \in Allocated(m.heap)
      BY <3>2 DEF MovedData, Moved
    <3>4. CASE m.heap.size[m.chunk] >= alloc /\ r.heap = split(m.heap, m.chunk, alloc)
      <4>1. m.heap.size[m.chunk] \in Nat
        BY <3>3, AllocatedFacts
      <4>2. AlignedHeap(r.heap)
        BY <1>1, <3>2, <3>3, <3>4, <4>1, SplitAligned
      <4> QED BY <4>2 DEF r, p
    <3>5. CASE r.heap = relocate(m.heap, m.chunk, n).heap
      <4>1. AlignedHeap(r.heap)
        BY <3>2, <3>3, <3>5, RelocatedAligned
      <4> QED BY <4>1 DEF r, p
    <3> QED BY <1>2, <1>3, <1>5, <2>3, <3>4, <3>5, <1>4
  <2> QED BY <1>2, <1>3, <1>5, <2>2, <2>3
<1> QED BY <1>2, <1>3, <1>4, <1>5

\* Every step leaves every chunk aligned.
LEMMA NextAligned == IInv /\ AlignedHeap(heap) /\ [Next]_vars => AlignedHeap(heap)'
<1> SUFFICES ASSUME IInv, AlignedHeap(heap), [Next]_vars PROVE AlignedHeap(heap)'
  OBVIOUS
<1>1. HeapOk(heap) /\ Accounts(Allocated(heap), heap.size, obj, lost) /\ heap \in HeapType
  BY IInvAccounts DEF HeapOk
<1>2. ASSUME NEW g, AlignedHeap(g), heap'.size = g.size PROVE AlignedHeap(heap)'
  BY <1>2 DEF AlignedHeap, Chunks
<1>3. ASSUME NEW h, h \in HeapType, NEW o, NEW p, NEW kept PROVE Use(h, o, p, kept).size = h.size
  BY <1>3 DEF Use, HeapType
<1>4. ASSUME NEW n \in Sizes, Malloc(n) PROVE AlignedHeap(heap)'
  <2> DEFINE r == noc_malloc(heap, n)
  <2>1. AlignedHeap(r.heap) /\ r.heap \in HeapType
    BY <1>1, MallocedAligned, MallocChunk DEF Malloced, HeapOk
  <2>2. heap' = Use(r.heap, obj', r.ptr, 0)
    BY <1>4 DEF Malloc, Obtain
  <2> HIDE DEF r
  <2> QED BY <1>2, <1>3, <2>1, <2>2
<1>5. ASSUME NEW k \in Nmembs, NEW n \in Sizes, Calloc(k, n) PROVE AlignedHeap(heap)'
  <2> DEFINE r == noc_calloc(heap, k, n)
  <2>1. AlignedHeap(r.heap) /\ r.heap \in HeapType
    BY <1>1, CallocedAligned, CallocChunk DEF Malloced, HeapOk
  <2>2. heap' = Use(r.heap, obj', r.ptr, 0)
    BY <1>5 DEF Calloc, Obtain
  <2> HIDE DEF r
  <2> QED BY <1>2, <1>3, <2>1, <2>2
<1>6. ASSUME NEW p \in Addr, p \in Held(obj) PROVE LET g == noc_free(heap, p) IN AlignedHeap(g) /\ g \in HeapType
  <2> DEFINE c == chunk_from_data(p)
  <2>1. c \in Allocated(heap) /\ p = c + Hdr
    BY <1>1, <1>6, HeldChunk
  <2>2. c \in Chunks(heap) /\ \A i \in 1 .. Len(heap.free) : heap.free[i] \in Chunks(heap) /\ heap.free[i] # c
    BY <1>1, <2>1 DEF Allocated, HeapOk, FreeOk
  <2> HIDE DEF c
  <2>3. AlignedHeap(noc_free(heap, p)) /\ Freed(heap, c, noc_free(heap, p))
    BY <1>1, <2>1, <2>2, FreedAligned, FreeChunk
  <2> QED BY <2>3 DEF Freed, HeapOk
<1>7. ASSUME NEW p \in Addr, Free(p) PROVE AlignedHeap(heap)'
  <2> DEFINE g == noc_free(heap, p)
  <2>1. heap' = Use(g, obj', NULL, 0) /\ p \in Held(obj) \cup {NULL}
    BY <1>7 DEF Free, Held
  <2>2. AlignedHeap(g) /\ g \in HeapType
    <3>1. CASE p \in Held(obj)
      BY <1>6, <3>1
    <3>2. CASE p = NULL
      <4>1. HeapOk(g) /\ g.size = heap.size
        BY <1>1, <3>2, FreeNull
      <4> HIDE DEF g
      <4> QED BY <4>1 DEF AlignedHeap, Chunks, HeapOk
    <3> QED BY <2>1, <3>1, <3>2
  <2> HIDE DEF g
  <2> QED BY <1>2, <1>3, <2>1, <2>2
<1>8. ASSUME NEW p \in Addr, NEW n \in Sizes, Realloc(p, n) PROVE AlignedHeap(heap)'
  <2> DEFINE r == noc_realloc(heap, p, n)
             c == chunk_from_data(p)
  <2>1. PICK o, kept : heap' = Use(r.heap, o, r.ptr, kept)
    BY <1>8 DEF Realloc, Exchange
  <2>2. p \in Held(obj) \cup {NULL}
    BY <1>8 DEF Realloc, Held
  <2>3. AlignedHeap(r.heap) /\ r.heap \in HeapType
    <3>1. CASE p = NULL
      <4>1. r.heap = noc_malloc(heap, n).heap
        BY <3>1 DEF noc_realloc
      <4> HIDE DEF r
      <4> QED BY <1>1, <4>1, MallocedAligned, MallocChunk DEF Malloced, HeapOk
    <3>2. CASE p # NULL /\ n = 0
      <4>1. r.heap = noc_free(heap, p)
        BY <3>2 DEF noc_realloc
      <4> HIDE DEF r
      <4> QED BY <1>6, <2>2, <3>2, <4>1
    <3>3. CASE p # NULL /\ n # 0
      <4>1. c \in Allocated(heap) /\ p = c + Hdr
        BY <1>1, <2>2, <3>3, HeldChunk
      <4> HIDE DEF c
      <4>2. AlignedHeap(noc_realloc(heap, p, n).heap) /\ Realloced(heap, c, n, noc_realloc(heap, p, n))
        BY <1>1, <3>3, <4>1, ReallocedAligned, ReallocChunk
      <4> HIDE DEF r
      <4>3. AlignedHeap(r.heap) /\ Realloced(heap, c, n, r)
        BY <4>2 DEF r
      <4> QED BY <4>3 DEF Realloced, Moved, HeapOk
    <3> QED BY <3>1, <3>2, <3>3
  <2> HIDE DEF r
  <2> QED BY <1>2, <1>3, <2>1, <2>3
<1>9. ASSUME NEW i \in ForeignIncrs, ForeignSbrk(i) PROVE AlignedHeap(heap)'
  <2>1. heap' = heap \/ heap' = [heap EXCEPT !.brk = heap.brk + i]
    BY <1>9 DEF ForeignSbrk, sbrk
  <2>2. heap'.size = heap.size
    BY <1>1, <2>1 DEF HeapType
  <2> QED BY <1>2, <2>2
<1>10. CASE UNCHANGED vars
  BY <1>10 DEF vars, AlignedHeap, Chunks
<1> QED BY <1>4, <1>5, <1>7, <1>8, <1>9, <1>10 DEF Next

\* "The pointer returned ... is suitably aligned" (malloc.c:178-180), although
\* sbrk() aligns nothing: the pad of aligned_sbrk() and the rounding of sizes
\* carry it through every cut, merge and move.
THEOREM ObjectsAreAligned == Spec => []ObjectsAligned
<1>1. Init => AlignedHeap(heap)
  BY DEF Init, AlignedHeap, Chunks
<1>2. IInv /\ AlignedHeap(heap) => ObjectsAligned
  <2> SUFFICES ASSUME IInv, AlignedHeap(heap), NEW p \in Held(obj) PROVE p % Align = 0
    BY DEF ObjectsAligned
  <2> DEFINE c == chunk_from_data(p)
  <2>0. HeapOk(heap) /\ c \in Allocated(heap) /\ p = c + Hdr
    BY IInvAccounts, HeldChunk
  <2>1. c \in Allocated(heap) /\ p = c + Hdr /\ c \in Int /\ Hdr \in Int
    BY <2>0, AllocatedFacts, Consts
  <2>2. c % Align = 0 /\ Hdr % Align = 0
    BY <2>1, LayoutAssumption DEF AlignedHeap, Allocated
  <2> HIDE DEF c
  <2>3. (c + Hdr) % Align = 0
    BY <2>1, <2>2, AlignedSum
  <2> QED BY <2>1, <2>3
<1> QED BY <1>1, <1>2, Invariance, NextAligned, PTL DEF Spec

-----------------------------------------------------------------------------
(* malloc.c keeps the promises of Allocator *)

\* What the allocator's caller sees, and what it is when every object holds
\* what its owner wrote.
Objects == [p \in Held(obj) |-> Contents(p)]
View(o) == [p \in Held(o) |-> [i \in 1 .. o[p] |-> i]]

LEMMA Viewed == IInv /\ DataIntact => Objects = View(obj)
<1> SUFFICES ASSUME IInv, DataIntact PROVE Objects = View(obj)
  OBVIOUS
<1>1. Accounts(Allocated(heap), heap.size, obj, lost) /\ HeapOk(heap)
  BY IInvAccounts
<1>2. ASSUME NEW p \in Held(obj) PROVE Contents(p) = [i \in 1 .. obj[p] |-> i]
  <2>1. p \in Nat /\ obj[p] \in Nat
    BY <1>1, ObjectBytes
  <2>2. ASSUME NEW i \in 1 .. obj[p] PROVE heap.mem[p + i - 1] = i
    <3>1. i - 1 \in 0 .. obj[p] - 1 /\ p + i - 1 = p + (i - 1) /\ (i - 1) + 1 = i
      BY <2>1
    <3>2. heap.mem[p + (i - 1)] = (i - 1) + 1
      BY <3>1 DEF DataIntact
    <3> QED BY <3>1, <3>2
  <2> QED BY <2>2 DEF Contents
<1> QED BY <1>2 DEF Objects, View

\* The view of one object.
LEMMA ViewOf ==
  ASSUME NEW o \in [Addr -> Nat \cup {NotHeld}]
  PROVE  /\ DOMAIN View(o) = Held(o)
         /\ \A p \in Held(o) :
               /\ Len(View(o)[p]) = o[p] /\ View(o)[p] = [i \in 1 .. o[p] |-> i]
               /\ \A i \in 1 .. o[p] : View(o)[p][i] = i
<1>1. DOMAIN View(o) = Held(o)
  BY DEF View
<1> SUFFICES ASSUME NEW p \in Held(o)
             PROVE  /\ Len(View(o)[p]) = o[p] /\ View(o)[p] = [i \in 1 .. o[p] |-> i]
                    /\ \A i \in 1 .. o[p] : View(o)[p][i] = i
  BY <1>1
<1> DEFINE n == o[p]
           s == [i \in 1 .. n |-> i]
<1>2. View(o)[p] = s /\ n \in Nat
  BY DEF View, Held
<1> HIDE DEF n
<1>3. s \in Seq(Nat)
  <2>1. s \in [1 .. n -> Nat]
    BY <1>2
  <2> QED BY <1>2, <2>1, SeqDef
<1>4. Len(s) = n
  <2>1. DOMAIN s = 1 .. Len(s) /\ Len(s) \in Nat
    BY <1>3, LenProperties
  <2>2. DOMAIN s = 1 .. n
    OBVIOUS
  <2> HIDE DEF s
  <2> QED BY <1>2, <2>1, <2>2
<1> QED BY <1>2, <1>4 DEF n

\* An object is where an allocator may place one.
PlacedWell(o, q) ==
  /\ q \in BrkStart .. BrkEnd - 1 /\ q # NULL /\ q % Align = 0
  /\ q .. q + o[q] - 1 \subseteq BrkStart .. BrkEnd - 1
  /\ \A p \in Held(o) \ {q} : (p .. p + o[p] - 1) \cap (q .. q + o[q] - 1) = {}

LEMMA PlacedObject ==
  ASSUME NEW g, HeapOk(g), AlignedHeap(g), NEW o, NEW l, Accounts(Allocated(g), g.size, o, l),
         NEW q \in Held(o)
  PROVE  PlacedWell(o, q)
<1> DEFINE c == chunk_from_data(q)
<1>1. /\ c \in Allocated(g) /\ q = c + Hdr /\ q \in Nat /\ o[q] \in Nat
      /\ q + o[q] <= chunk_end(g, c) /\ chunk_end(g, c) \in Nat
  BY ObjectBytes
<1> HIDE DEF c
<1>2. /\ c \in Chunks(g) /\ c \in Nat /\ g.size[c] \in Nat /\ Hdr < g.size[c] /\ g \in HeapType
      /\ chunk_end(g, c) = c + g.size[c] /\ chunk_end(g, c) <= g.sbrk_end /\ g.sbrk_end \in Nat
      /\ BrkStart <= c
  BY <1>1, AllocatedFacts
<1>3. g.sbrk_end <= g.brk /\ g.brk <= BrkEnd /\ g.brk \in Nat
  BY <1>2, Fields, Consts DEF HeapOk, ChunksOk
<1>4. q \in BrkStart .. BrkEnd - 1 /\ q # NULL
  BY <1>1, <1>2, <1>3, Consts DEF NULL
<1>5. q % Align = 0
  <2>1. c % Align = 0 /\ Hdr % Align = 0 /\ c \in Int /\ Hdr \in Int
    BY <1>2, LayoutAssumption, Consts DEF AlignedHeap
  <2> QED BY <1>1, <2>1, AlignedSum
<1>6. q .. q + o[q] - 1 \subseteq BrkStart .. BrkEnd - 1
  BY <1>1, <1>2, <1>3, <1>4, Consts
<1>7. ASSUME NEW p \in Held(o) \ {q} PROVE (p .. p + o[p] - 1) \cap (q .. q + o[q] - 1) = {}
  <2> SUFFICES ASSUME NEW x \in q .. q + o[q] - 1 PROVE x \notin p .. p + o[p] - 1
    OBVIOUS
  <2>1. x - q \in 0 .. o[q] - 1 /\ q + (x - q) = x
    BY <1>1
  <2>2. q + (x - q) \notin p .. p + o[p] - 1
    BY <1>7, <2>1, ObjectBytesApart
  <2> QED BY <2>1, <2>2
<1> QED BY <1>4, <1>5, <1>6, <1>7 DEF PlacedWell

\* A new object beside those there are.
LEMMA PromisedAllocate ==
  ASSUME Objects = View(obj), Objects' = View(obj'), obj \in [Addr -> Nat \cup {NotHeld}],
         NEW op, NEW n \in Nat, NEW q, q \notin Held(obj), OneMore(obj, q, n, obj'),
         PlacedWell(obj', q), Returns(op, NULL, n, q)
  PROVE  Promise!Allocate(op, n)
<1>1. /\ DOMAIN Objects = Held(obj) /\ \A p \in Held(obj) : Len(Objects[p]) = obj[p]
      /\ \A p \in Held(obj) : Objects[p] = [i \in 1 .. obj[p] |-> i]
  BY ViewOf
<1>2. /\ DOMAIN Objects' = Held(obj') /\ \A p \in Held(obj') : Len(Objects'[p]) = obj'[p]
      /\ \A p \in Held(obj') : Objects'[p] = [i \in 1 .. obj'[p] |-> i]
  BY ViewOf DEF OneMore
<1>3. /\ Held(obj') = Held(obj) \cup {q} /\ obj'[q] = n
      /\ \A p \in Held(obj) : obj'[p] = obj[p]
  BY DEF OneMore
<1>4. Promise!Held = Held(obj)
  BY <1>1 DEF Promise!Held, Objects
<1>5. Promise!Placed(q, n, Held(obj))
  <2>1. /\ q .. q + n - 1 \subseteq BrkStart .. BrkEnd - 1 /\ q % Align = 0
        /\ \A p \in Held(obj) : q # p /\ (p .. p + obj[p] - 1) \cap (q .. q + n - 1) = {}
    BY <1>3 DEF PlacedWell
  <2> QED BY <1>1, <2>1 DEF Promise!Placed, Promise!Extent, Objects
<1>6. Promise!Becomes(Held(obj), q, n)
  <2>1. /\ DOMAIN Objects' = Held(obj) \cup {q} /\ Len(Objects'[q]) = n
        /\ \A p \in Held(obj) : Objects'[p] = Objects[p]
    <3>1. DOMAIN Objects' = Held(obj) \cup {q} /\ Len(Objects'[q]) = n
      BY <1>2, <1>3
    <3>2. ASSUME NEW p \in Held(obj) PROVE Objects'[p] = Objects[p]
      <4>1. p \in Held(obj') /\ obj'[p] = obj[p]
        BY <1>3
      <4>2. Objects'[p] = [i \in 1 .. obj'[p] |-> i] /\ Objects[p] = [i \in 1 .. obj[p] |-> i]
        BY <1>1, <1>2, <4>1
      <4> QED BY <4>1, <4>2
    <3> QED BY <3>1, <3>2
  <2> QED BY <2>1 DEF Promise!Becomes, Objects
<1>7. Promise!Returns(op, NULL, n, q)
  BY DEF Returns, Promise!Returns
<1>8. q \in (BrkStart .. BrkEnd - 1) \ {NULL}
  BY DEF PlacedWell
<1> QED BY <1>4, <1>5, <1>6, <1>7, <1>8 DEF Promise!Allocate

\* A call that changes no object.
LEMMA PromisedFail ==
  ASSUME Objects = View(obj), Objects' = View(obj'), obj' = obj,
         NEW op, NEW p, NEW n, Returns(op, p, n, NULL)
  PROVE  Promise!Fail(op, p, n)
<1>1. Objects' = Objects
  OBVIOUS
<1> QED BY <1>1 DEF Promise!Fail, Returns, Promise!Returns, Objects

\* The object at p is gone, the others are as they were.
LEMMA PromisedGone ==
  ASSUME Objects = View(obj), Objects' = View(obj'), obj \in [Addr -> Nat \cup {NotHeld}],
         NEW p \in Addr, obj' = [obj EXCEPT ![p] = NotHeld]
  PROVE  /\ Returns("free", p, 0, NULL) => Promise!Free(p)
         /\ Returns("realloc", p, 0, NULL) => Promise!Drop(p)
<1>1. PICK d : d = obj'
  OBVIOUS
<1>2. OneLess(obj, p, d)
  BY <1>1, HeldWithout
<1>3. View(d) = [q \in Held(obj) \ {p} |-> View(obj)[q]]
  BY <1>2 DEF View, OneLess
<1>4. Objects' = [q \in Held(obj) \ {p} |-> Objects[q]]
  BY <1>1, <1>3
<1>5. Promise!Held = Held(obj)
  BY DEF Promise!Held
<1> QED BY <1>4, <1>5 DEF Promise!Free, Promise!Drop, Returns, Promise!Returns, Objects

\* The object at p is now n bytes at q, with what it held.
LEMMA PromisedResize ==
  ASSUME Objects = View(obj), Objects' = View(obj'), obj \in [Addr -> Nat \cup {NotHeld}],
         NEW p \in Held(obj), NEW n \in Nat, NEW q, NEW d, d = [obj EXCEPT ![p] = NotHeld],
         q \notin Held(d), OneMore(d, q, n, obj'), PlacedWell(obj', q), Returns("realloc", p, n, q)
  PROVE  Promise!Resize(p, n)
<1>1. /\ DOMAIN Objects = Held(obj)
      /\ \A x \in Held(obj) : Len(Objects[x]) = obj[x] /\ Objects[x] = [i \in 1 .. obj[x] |-> i]
                              /\ \A i \in 1 .. obj[x] : Objects[x][i] = i
  BY ViewOf
<1>2. /\ DOMAIN Objects' = Held(obj')
      /\ \A x \in Held(obj') : Len(Objects'[x]) = obj'[x] /\ Objects'[x] = [i \in 1 .. obj'[x] |-> i]
                               /\ \A i \in 1 .. obj'[x] : Objects'[x][i] = i
  BY ViewOf DEF OneMore
<1>3. /\ Held(d) = Held(obj) \ {p} /\ \A x \in Held(d) : d[x] = obj[x]
  <2>1. p \in Addr
    BY DEF Held
  <2>2. OneLess(obj, p, d)
    BY <2>1, HeldWithout
  <2> QED BY <2>2 DEF OneLess
<1>4. /\ Held(obj') = Held(d) \cup {q} /\ obj'[q] = n /\ \A x \in Held(d) : obj'[x] = obj[x]
  BY <1>3 DEF OneMore
<1>5. Promise!Held = Held(obj)
  BY <1>1 DEF Promise!Held, Objects
<1>6. Promise!Placed(q, n, Held(d))
  <2>1. /\ q .. q + n - 1 \subseteq BrkStart .. BrkEnd - 1 /\ q % Align = 0
        /\ \A x \in Held(d) : q # x /\ (x .. x + obj[x] - 1) \cap (q .. q + n - 1) = {}
    BY <1>4 DEF PlacedWell
  <2>2. \A x \in Held(d) : Len(Objects[x]) = obj[x]
    BY <1>1, <1>3
  <2> QED BY <2>1, <2>2 DEF Promise!Placed, Promise!Extent, Objects
<1>7. Promise!Becomes(Held(d), q, n)
  <2>1. /\ DOMAIN Objects' = Held(d) \cup {q} /\ Len(Objects'[q]) = n
        /\ \A x \in Held(d) : Objects'[x] = Objects[x]
    <3>1. DOMAIN Objects' = Held(d) \cup {q} /\ Len(Objects'[q]) = n
      BY <1>2, <1>4
    <3>2. ASSUME NEW x \in Held(d) PROVE Objects'[x] = Objects[x]
      <4>1. x \in Held(obj) /\ x \in Held(obj') /\ obj'[x] = obj[x]
        BY <1>3, <1>4
      <4>2. Objects'[x] = [i \in 1 .. obj'[x] |-> i] /\ Objects[x] = [i \in 1 .. obj[x] |-> i]
        BY <1>1, <1>2, <4>1
      <4> QED BY <4>1, <4>2
    <3> QED BY <3>1, <3>2
  <2> QED BY <2>1 DEF Promise!Becomes, Objects
<1>8. \A i \in 1 .. n : i <= Len(Objects[p]) => Objects'[q][i] = Objects[p][i]
  <2> SUFFICES ASSUME NEW i \in 1 .. n, i <= Len(Objects[p]) PROVE Objects'[q][i] = Objects[p][i]
    OBVIOUS
  <2>1. obj[p] \in Nat /\ i \in 1 .. obj[p]
    <3>1. obj[p] \in Nat /\ Len(Objects[p]) = obj[p]
      BY <1>1 DEF Held
    <3> QED BY <3>1
  <2>2. Objects[p][i] = i
    BY <1>1, <2>1
  <2>3. Objects'[q][i] = i
    BY <1>2, <1>4
  <2> QED BY <2>2, <2>3
<1>9. Promise!Returns("realloc", p, n, q) /\ q \in (BrkStart .. BrkEnd - 1) \ {NULL}
  BY DEF Returns, Promise!Returns, PlacedWell
<1> QED BY <1>3, <1>5, <1>6, <1>7, <1>8, <1>9 DEF Promise!Resize, Objects

\* What the promises rest on.
CInv == IInv /\ DataIntact /\ AlignedHeap(heap)

LEMMA CInvFacts ==
  CInv => /\ Objects = View(obj) /\ obj \in [Addr -> Nat \cup {NotHeld}]
          /\ HeapOk(heap) /\ Accounts(Allocated(heap), heap.size, obj, lost)
BY Viewed, IInvAccounts DEF CInv, Accounts

LEMMA PlacedAfter ==
  ASSUME CInv', NEW q \in Held(obj')
  PROVE  PlacedWell(obj', q)
<1>1. (HeapOk(heap) /\ Accounts(Allocated(heap), heap.size, obj, lost) /\ AlignedHeap(heap))'
  BY CInvFacts, PTL DEF CInv
<1>2. PICK g, o, l : g = heap' /\ o = obj' /\ l = lost'
  OBVIOUS
<1>3. HeapOk(g) /\ AlignedHeap(g) /\ Accounts(Allocated(g), g.size, o, l) /\ q \in Held(o)
  BY <1>1, <1>2
<1>4. PlacedWell(o, q)
  BY <1>3, PlacedObject
<1> QED BY <1>2, <1>4

\* malloc() and calloc() allocate or fail.
LEMMA PromisedObtain ==
  ASSUME CInv, CInv', NEW size, NEW r, Malloced(heap, size, r), NEW n \in Nat, NEW op,
         Obtain(r, n), Returns(op, NULL, n, r.ptr)
  PROVE  Promise!Allocate(op, n) \/ Promise!Fail(op, NULL, n)
<1>1. /\ Objects = View(obj) /\ obj \in [Addr -> Nat \cup {NotHeld}]
      /\ HeapOk(heap) /\ Accounts(Allocated(heap), heap.size, obj, lost)
  BY CInvFacts
<1>2. Objects' = View(obj')
  <2>1. (Objects = View(obj))'
    BY CInvFacts, PTL
  <2> QED BY <2>1
<1>3. CASE r.ptr = NULL
  <2>1. obj' = obj
    BY <1>3 DEF Obtain
  <2> QED BY <1>1, <1>2, <1>3, <2>1, PromisedFail
<1>4. CASE r.ptr # NULL
  <2> DEFINE q == r.ptr
  <2>1. obj' = [obj EXCEPT ![q] = n] /\ Returns(op, NULL, n, q)
    BY <1>4 DEF Obtain
  <2>2. q \in Addr /\ q \notin Held(obj)
    <3>1. PICK d \in Addr \ Allocated(heap) : q = d + Hdr
      BY <1>4 DEF Malloced
    <3>2. chunk_from_data(q) = d
      BY <3>1, AddrNat, Consts DEF chunk_from_data
    <3>3. q \in Addr
      BY MallocedAddress
    <3> HIDE DEF q
    <3> QED BY <1>1, <3>1, <3>2, <3>3, HeldChunk
  <2> HIDE DEF q
  <2>3. OneMore(obj, q, n, obj')
    BY <1>1, <2>1, <2>2, HeldWith
  <2>4. PlacedWell(obj', q)
    BY <2>3, PlacedAfter DEF OneMore
  <2>5. Promise!Allocate(op, n)
    BY <1>1, <1>2, <2>1, <2>2, <2>3, <2>4, PromisedAllocate
  <2> QED BY <2>5
<1> QED BY <1>3, <1>4

LEMMA PromisedMalloc ==
  ASSUME CInv, CInv', NEW n \in Sizes, malloc(n)
  PROVE  Promise!Next
<1> DEFINE r == noc_malloc(heap, n)
<1>1. Malloced(heap, chunk_size_for_data(n), r)
  BY CInvFacts, MallocChunk
<1>2. Obtain(r, n) /\ Returns("malloc", NULL, n, r.ptr) /\ n \in Nat
  BY ConstantsAssumption DEF malloc, Malloc
<1> HIDE DEF r
<1>3. Promise!Allocate("malloc", n) \/ Promise!Fail("malloc", NULL, n)
  BY <1>1, <1>2, PromisedObtain
<1> QED BY <1>3 DEF Promise!Next

LEMMA PromisedCalloc ==
  ASSUME CInv, CInv', NEW k \in Nmembs, NEW n \in Sizes, calloc(k, n)
  PROVE  Promise!Next
<1> DEFINE r == noc_calloc(heap, k, n)
           t == k * n
<1>1. Malloced(heap, t + Hdr, r)
  BY CInvFacts, CallocChunk
<1>2. Obtain(r, t) /\ Returns("calloc", NULL, t, r.ptr) /\ t \in Nat
  BY ConstantsAssumption DEF calloc, Calloc
<1> HIDE DEF r, t
<1>3. Promise!Allocate("calloc", t) \/ Promise!Fail("calloc", NULL, t)
  BY <1>1, <1>2, PromisedObtain
<1>4. Promise!Allocate("calloc", k * n) \/ Promise!Fail("calloc", NULL, k * n)
  BY <1>3 DEF t
<1> QED BY <1>4 DEF Promise!Next

LEMMA PromisedFree ==
  ASSUME CInv, CInv', NEW p \in Addr, free(p)
  PROVE  Promise!Next
<1>1. Objects = View(obj) /\ obj \in [Addr -> Nat \cup {NotHeld}]
  BY CInvFacts
<1>2. Objects' = View(obj')
  <2>1. (Objects = View(obj))'
    BY CInvFacts, PTL
  <2> QED BY <2>1
<1>3. /\ obj' = [obj EXCEPT ![p] = NotHeld] /\ Returns("free", p, 0, NULL)
      /\ p \in Held(obj) \cup {NULL}
  BY DEF free, Free, Held
<1>4. Promise!Free(p)
  BY <1>1, <1>2, <1>3, PromisedGone
<1>5. Promise!Held = Held(obj)
  BY DEF Promise!Held
<1> QED BY <1>3, <1>4, <1>5 DEF Promise!Next

\* realloc() does one of what Allocator allows, unless it loses an object.
LEMMA PromisedRealloc ==
  ASSUME CInv, CInv', NEW p \in Addr, NEW n \in Sizes, realloc(p, n), lost' = lost
  PROVE  Promise!Next
<1> DEFINE r == noc_realloc(heap, p, n)
           c == chunk_from_data(p)
           moved == n # 0 /\ r.ptr = NULL /\ r.chunk # c /\ p # NULL
           gone  == r.ptr # NULL \/ n = 0 \/ moved
           old   == IF gone THEN [obj EXCEPT ![p] = NotHeld] ELSE obj
           o     == IF r.ptr = NULL THEN old ELSE [old EXCEPT ![r.ptr] = n]
<1>1. /\ Objects = View(obj) /\ obj \in [Addr -> Nat \cup {NotHeld}]
      /\ HeapOk(heap) /\ Accounts(Allocated(heap), heap.size, obj, lost)
  BY CInvFacts
<1>2. Objects' = View(obj')
  <2>1. (Objects = View(obj))'
    BY CInvFacts, PTL
  <2> QED BY <2>1
<1>3. /\ obj' = o /\ p \in Held(obj) \cup {NULL} /\ Returns("realloc", p, n, r.ptr)
      /\ lost' = IF moved THEN lost \cup {r.chunk} ELSE lost
  BY DEF realloc, Realloc, Exchange, Held
<1>4. Promise!Held = Held(obj) /\ n \in Nat
  BY ConstantsAssumption DEF Promise!Held
<1>5. CASE n = 0
  <2>1. r.ptr = NULL
    BY <1>5 DEF noc_realloc, noc_malloc
  <2>2. obj' = [obj EXCEPT ![p] = NotHeld] /\ Returns("realloc", p, 0, NULL)
    BY <1>3, <1>5, <2>1
  <2>3. Promise!Drop(p)
    BY <1>1, <1>2, <2>2, PromisedGone
  <2> QED BY <1>3, <1>4, <2>3 DEF Promise!Next
<1>6. CASE n # 0 /\ p = NULL
  <2> DEFINE f == noc_malloc(heap, n)
  <2>1. Malloced(heap, chunk_size_for_data(n), f)
    BY <1>1, MallocChunk
  <2>2. r.ptr = f.ptr /\ r.heap = f.heap
    BY <1>6 DEF noc_realloc
  <2>3. [obj EXCEPT ![NULL] = NotHeld] = obj
    <3>1. NULL \in Addr /\ NULL \notin Held(obj)
      BY <1>1, Consts DEF Accounts, Addr, NULL
    <3> QED BY <1>1, <3>1 DEF Held
  <2>4. Obtain(f, n) /\ Returns("realloc", NULL, n, f.ptr)
    <3>1. old = obj
      BY <1>6, <2>3
    <3>2. obj' = IF f.ptr = NULL THEN obj ELSE [obj EXCEPT ![f.ptr] = n]
      BY <1>3, <2>2, <3>1
    <3>3. heap' = Use(f.heap, obj', f.ptr, 0)
      BY <1>6, <2>2 DEF realloc, Realloc, Exchange
    <3> HIDE DEF f, r
    <3> QED BY <1>3, <1>6, <2>2, <3>2, <3>3 DEF Obtain
  <2> HIDE DEF f
  <2>5. Promise!Allocate("realloc", n) \/ Promise!Fail("realloc", NULL, n)
    BY <1>4, <2>1, <2>4, PromisedObtain
  <2> QED BY <1>6, <2>5 DEF Promise!Next
<1>7. CASE n # 0 /\ p # NULL
  <2>0. p \in Held(obj)
    BY <1>3, <1>7
  <2>1. c \in Allocated(heap) /\ p = c + Hdr /\ c \notin lost
    <3>1. c \in Headers(obj)
      BY <2>0 DEF Headers
    <3> QED BY <1>1, <2>0, <3>1, HeldChunk DEF Accounts
  <2>2. Realloced(heap, c, n, r)
    BY <1>1, <1>7, <2>1, ReallocChunk
  <2>3. CASE r.ptr = NULL
    <3>1. ~moved
      <4> SUFFICES ASSUME moved PROVE FALSE
        OBVIOUS
      <4>1. r.chunk \in lost
        BY <1>3
      <4>2. r.chunk # c /\ Moved(heap, c, r.heap, r.chunk)
        <5>1. \A d \in Addr : d + Hdr # NULL
          BY AddrNat, Consts DEF NULL
        <5> HIDE DEF r
        <5> QED BY <2>2, <2>3, <5>1 DEF Realloced
      <4>3. lost \subseteq Allocated(heap)
        BY <1>1 DEF Accounts
      <4> HIDE DEF r, c
      <4> QED BY <4>1, <4>2, <4>3 DEF Moved
    <3>2. obj' = obj
      BY <1>3, <1>7, <2>3, <3>1
    <3>3. Promise!Fail("realloc", p, n)
      BY <1>1, <1>2, <1>3, <2>3, <3>2, PromisedFail
    <3> QED BY <1>4, <1>7, <2>0, <3>3 DEF Promise!Next
  <2>4. CASE r.ptr # NULL
    <3> DEFINE q == r.ptr
               d == [obj EXCEPT ![p] = NotHeld]
    <3>1. obj' = [d EXCEPT ![q] = n]
      BY <1>3, <2>4
    <3>2. q \in Addr /\ q \notin Held(d)
      <4>1. PICK x \in Addr : q = x + Hdr /\ x \notin Allocated(heap) \ {c}
                              /\ HeapOk(r.heap) /\ x \in Allocated(r.heap)
        <5> HIDE DEF r, c
        <5> QED BY <2>2, <2>4 DEF Realloced
      <4>2. chunk_from_data(q) = x
        BY <4>1, AddrNat, Consts DEF chunk_from_data
      <4>3. Held(d) = Held(obj) \ {p}
        BY <1>1, HeldWithout DEF OneLess
      <4> HIDE DEF q, d, r, c
      <4>4. q \in Addr
        BY <4>1, DataAddress
      <4>5. \A y \in Held(obj) \ {p} : chunk_from_data(y) \in Allocated(heap) \ {c}
        BY <2>0, OtherChunk DEF CInv, c
      <4> QED BY <4>1, <4>2, <4>3, <4>4, <4>5
    <3>3. d \in [Addr -> Nat \cup {NotHeld}]
      BY <1>1, HeldWithout DEF OneLess
    <3>4. Returns("realloc", p, n, q)
      BY <1>3
    <3> HIDE DEF q, d
    <3>5. OneMore(d, q, n, obj')
      BY <1>4, <3>1, <3>2, <3>3, HeldWith
    <3>6. PlacedWell(obj', q)
      BY <3>5, PlacedAfter DEF OneMore
    <3>7. Promise!Resize(p, n)
      BY <1>1, <1>2, <1>4, <2>0, <3>2, <3>4, <3>5, <3>6, PromisedResize DEF d
    <3> QED BY <1>4, <1>7, <2>0, <3>7 DEF Promise!Next
  <2> QED BY <2>3, <2>4
<1> QED BY <1>5, <1>6, <1>7

\* malloc.c implements Allocator: every call of malloc, calloc, realloc and
\* free keeps what its contract promises (malloc.c:176-189, 250-262, 309-335),
\* with the one exception that NothingLost is about.
THEOREM PromisesAreKept == CSpec => KeepsPromise
<1>1. CInit => Promise!Init /\ CInv
  <2> SUFFICES ASSUME CInit PROVE Promise!Init /\ CInv
    OBVIOUS
  <2>1. Init /\ Held(obj) = {} /\ heap.size = [a \in Addr |-> 0]
    BY DEF CInit, Init, Held
  <2>2. CInv
    BY <2>1, InitIInv DEF CInv, DataIntact, AlignedHeap, Chunks
  <2>3. Promise!Init
    BY <2>1 DEF CInit, Promise!Init
  <2> QED BY <2>2, <2>3
<1>2. CInv /\ [CNext]_cvars => CInv'
  <2>1. [CNext]_cvars => [Next]_vars
    BY DEF CNext, cvars, vars, Next, malloc, calloc, free, realloc
  <2> QED BY <2>1, NextIInv, NextKeepsData, NextAligned DEF CInv
<1>3. CInv /\ CInv' /\ [CNext]_cvars => [lost' = lost => [Promise!Next]_Promise!vars]_cvars
  <2> SUFFICES ASSUME CInv, CInv', CNext, lost' = lost PROVE Promise!Next
    OBVIOUS
  <2>1. ASSUME NEW n \in Sizes, malloc(n) PROVE Promise!Next
    BY <2>1, PromisedMalloc
  <2>2. ASSUME NEW k \in Nmembs, NEW n \in Sizes, calloc(k, n) PROVE Promise!Next
    BY <2>2, PromisedCalloc
  <2>3. ASSUME NEW p \in Addr, free(p) PROVE Promise!Next
    BY <2>3, PromisedFree
  <2>4. ASSUME NEW p \in Addr, NEW n \in Sizes, realloc(p, n) PROVE Promise!Next
    BY <2>4, PromisedRealloc
  <2> QED BY <2>1, <2>2, <2>3, <2>4 DEF CNext
<1> QED BY <1>1, <1>2, <1>3, PTL DEF CSpec, KeepsPromise

-----------------------------------------------------------------------------
(* Which chunk malloc() takes, and realloc() to a smaller size *)

\* No chunk is so large that the search, which starts from -1U, passes it over
\* (malloc.c:200).
SmallHeap == BrkEnd - BrkStart <= UIntMax

LEMMA FreeSizes ==
  ASSUME NEW h, HeapOk(h), NEW i \in 1 .. Len(h.free)
  PROVE  /\ h.free[i] \in Chunks(h) /\ h.free[i] \in Nat
         /\ h.size[h.free[i]] \in Nat /\ h.size[h.free[i]] <= BrkEnd - BrkStart
<1> DEFINE c == h.free[i]
<1>1. h \in HeapType /\ c \in Chunks(h)
  BY DEF HeapOk, FreeOk
<1> HIDE DEF c
<1>2. /\ c \in Nat /\ h.size[c] \in Nat /\ BrkStart <= c /\ c + h.size[c] <= h.sbrk_end
      /\ h.sbrk_end <= h.brk /\ h.brk <= BrkEnd /\ h.brk \in Nat /\ h.sbrk_end \in Nat
  BY <1>1, ChunkNat, Fields DEF HeapOk, ChunksOk, chunk_end
<1> QED BY <1>1, <1>2, Consts DEF c

\* If some free chunk is large enough the search of malloc() ends with one: the
\* first that is close enough or, if there is none, the first of the smallest.
LEMMA SearchFinds ==
  ASSUME SmallHeap, NEW h, HeapOk(h), NEW size \in Nat \ {0},
         NEW i \in 1 .. Len(h.free), Fits(h, i, size)
  PROVE  Chosen(h, size) # {}
<1> DEFINE F == {j \in 1 .. Len(h.free) : Fits(h, j, size)}
           X(j) == Extra(h, j, size)
<1>1. Len(h.free) \in Nat /\ i \in F
  BY Fields DEF HeapOk
<1>2. \A j \in F : j \in Nat /\ X(j) \in Nat /\ X(j) < UIntMax
  <2> TAKE j \in F
  <2>1. h.size[h.free[j]] \in Nat /\ h.size[h.free[j]] <= BrkEnd - BrkStart
    BY FreeSizes
  <2> DEFINE z == h.size[h.free[j]]
  <2>2. j \in Nat /\ size <= z /\ X(j) = z - size
    BY <1>1 DEF Fits, Extra
  <2>3. BrkEnd - BrkStart <= UIntMax /\ UIntMax \in Nat /\ BrkEnd - BrkStart \in Int
    BY Consts, ConstantsAssumption DEF SmallHeap
  <2> HIDE DEF z, X
  <2>4. z \in Nat /\ z <= BrkEnd - BrkStart
    BY <2>1 DEF z
  <2> QED BY <2>2, <2>3, <2>4
<1>3. ASSUME NEW k \in F,
             \A j \in F : j < k => X(j) > X(k) /\ X(j) >= Align,
             \A j \in F : k < j => X(j) >= X(k) \/ X(k) < Align
      PROVE  Chosen(h, size) # {}
  <2>1. /\ k \in 1 .. Len(h.free) /\ Fits(h, k, size) /\ Extra(h, k, size) < UIntMax
        /\ Len(h.free) \in Nat
    BY <1>1, <1>2
  <2>2. ASSUME NEW j \in 1 .. k-1, Fits(h, j, size)
        PROVE  Extra(h, j, size) > Extra(h, k, size) /\ Extra(h, j, size) >= Align
    BY <1>3, <2>1, <2>2
  <2>3. ASSUME NEW j \in k+1 .. Len(h.free), Fits(h, j, size)
        PROVE  Extra(h, j, size) >= Extra(h, k, size) \/ Extra(h, k, size) < Align
    BY <1>3, <2>1, <2>3
  <2>4. IsChosen(h, k, size)
    BY <2>1, <2>2, <2>3 DEF IsChosen
  <2> QED BY <2>1, <2>4 DEF Chosen
<1> HIDE DEF F, X
<1>4. Align \in Nat
  BY Consts
<1>5. CASE \E j \in F : X(j) < Align
  <2> DEFINE T == {j \in F : X(j) < Align}
  <2>1. PICK k \in T : \A j \in T : k <= j
    <3>1. T # {} /\ T \subseteq Nat
      BY <1>2, <1>5
    <3> HIDE DEF T
    <3> QED BY <3>1, LeastMember
  <2>2. k \in F /\ X(k) < Align /\ k \in Nat /\ X(k) \in Nat
    BY <1>2
  <2>3. ASSUME NEW j \in F, j < k PROVE X(j) > X(k) /\ X(j) >= Align
    <3>1. j \notin T
      BY <1>2, <2>1, <2>2, <2>3
    <3> QED BY <1>2, <1>4, <2>2, <3>1
  <2> HIDE DEF T
  <2> QED BY <1>3, <2>2, <2>3
<1>6. CASE \A j \in F : ~(X(j) < Align)
  <2> DEFINE E == {X(j) : j \in F}
  <2>1. PICK e \in E : \A x \in E : e <= x
    <3>1. E # {} /\ E \subseteq Nat
      BY <1>1, <1>2
    <3> HIDE DEF E
    <3> QED BY <3>1, LeastMember
  <2> DEFINE T == {j \in F : X(j) = e}
  <2>2. PICK k \in T : \A j \in T : k <= j
    <3>1. T # {} /\ T \subseteq Nat
      BY <1>2
    <3> HIDE DEF T
    <3> QED BY <3>1, LeastMember
  <2>3. k \in F /\ X(k) = e /\ k \in Nat /\ e \in Nat
    BY <1>2
  <2>4. \A j \in F : e <= X(j)
    BY <2>1
  <2>5. ASSUME NEW j \in F, j < k PROVE X(j) > X(k) /\ X(j) >= Align
    <3>1. X(j) # e
      BY <1>2, <2>2, <2>3, <2>5
    <3> QED BY <1>2, <1>4, <1>6, <2>3, <2>4, <3>1
  <2>6. \A j \in F : X(j) >= X(k)
    BY <1>2, <2>3, <2>4
  <2> HIDE DEF T, E
  <2> QED BY <1>3, <2>3, <2>5, <2>6
<1> QED BY <1>5, <1>6

LEMMA AlignedNear ==
  ASSUME NEW a \in Int, a % Align = 0
  PROVE  /\ -Align < a => 0 <= a
         /\ a < Align => a <= 0
<1>1. Align \in Nat \ {0}
  BY Consts
<1>2. a \div Align \in Int /\ a = (a \div Align) * Align + (a % Align)
  BY <1>1, DivMod
<1> DEFINE k == a \div Align
<1>3. k \in Int /\ a = k * Align
  BY <1>1, <1>2
<1> HIDE DEF k
<1>4. CASE k = 0
  BY <1>1, <1>3, <1>4
<1>5. CASE k > 0
  BY <1>1, <1>3, <1>5
<1>6. CASE k < 0
  BY <1>1, <1>3, <1>6
<1> QED BY <1>3, <1>4, <1>5, <1>6

\* The chunk malloc() takes from the list is a smallest of those that fit.
LEMMA SmallestChosen ==
  ASSUME SmallHeap, NEW h, HeapOk(h), AlignedHeap(h), NEW size \in Nat \ {0},
         size % Align = 0, NEW k \in Chosen(h, size), NEW j \in 1 .. Len(h.free), Fits(h, j, size)
  PROVE  h.size[h.free[k]] <= h.size[h.free[j]]
<1>1. /\ k \in 1 .. Len(h.free) /\ IsChosen(h, k, size) /\ Len(h.free) \in Nat
  BY Fields DEF Chosen, HeapOk
<1>2. /\ h.free[k] \in Chunks(h) /\ h.size[h.free[k]] \in Nat
      /\ h.free[j] \in Chunks(h) /\ h.size[h.free[j]] \in Nat
  BY <1>1, FreeSizes
<1>3. CASE j < k
  BY <1>1, <1>2, <1>3 DEF IsChosen, Extra
<1>4. CASE j > k
  <2>1. Extra(h, j, size) >= Extra(h, k, size) \/ Extra(h, k, size) < Align
    BY <1>1, <1>4 DEF IsChosen
  <2>2. CASE Extra(h, k, size) < Align
    <3>1. h.size[h.free[k]] % Align = 0
      BY <1>2 DEF AlignedHeap
    <3>2. Extra(h, k, size) % Align = 0 /\ Extra(h, k, size) \in Int
      <4> DEFINE a == h.size[h.free[k]]
      <4>1. a \in Int /\ size \in Int /\ a % Align = 0
        BY <1>2, <3>1
      <4> HIDE DEF a
      <4>2. (a - size) % Align = 0
        BY <4>1, AlignedSum
      <4> QED BY <4>1, <4>2 DEF Extra, a
    <3>3. Extra(h, k, size) <= 0
      BY <2>2, <3>2, AlignedNear
    <3> QED BY <1>2, <3>3 DEF Extra, Fits
  <2> QED BY <1>2, <2>1, <2>2 DEF Extra
<1> QED BY <1>1, <1>2, <1>3, <1>4

\* "Find minimum sized free chunk to allocate from" (malloc.c:203): the search
\* stops early at a chunk that leaves less than MALLOC_ALIGN, which is a smallest
\* one because all sizes are aligned. The heap has to be smaller than -1U.
THEOREM SmallestIsTaken == ASSUME SmallHeap PROVE Spec => []MallocTakesSmallest
<1>1. IInv /\ AlignedHeap(heap) => MallocTakesSmallest
  <2> SUFFICES ASSUME IInv, AlignedHeap(heap), NEW n \in Sizes \ {0},
                      NEW size, size = chunk_size_for_data(n),
                      NEW d \in FreeChunks(heap), heap.size[d] >= size
               PROVE  LET c == chunk_from_data(noc_malloc(heap, n).ptr)
                      IN  /\ c \in FreeChunks(heap) /\ heap.size[c] >= size
                          /\ \A e \in FreeChunks(heap) :
                                heap.size[e] >= size => heap.size[c] <= heap.size[e]
    BY DEF MallocTakesSmallest
  <2> DEFINE k == CHOOSE j \in Chosen(heap, size) : TRUE
             c == heap.free[k]
  <2>1. HeapOk(heap) /\ size \in Nat \ {0} /\ size % Align = 0
    BY ChunkSizeForData, AlignedSize DEF IInv
  <2>2. FreeChunks(heap) = {heap.free[i] : i \in 1 .. Len(heap.free)}
    BY <2>1, Fields DEF FreeChunks, ToSet, HeapOk
  <2>3. PICK i \in 1 .. Len(heap.free) : d = heap.free[i]
    BY <2>2
  <2>4. Chosen(heap, size) # {}
    BY <2>1, <2>3, SearchFinds DEF Fits
  <2>5. k \in Chosen(heap, size)
    BY <2>4
  <2>6. k \in 1 .. Len(heap.free) /\ Fits(heap, k, size)
    BY <2>5 DEF Chosen, IsChosen
  <2>7. c \in Nat
    BY <2>1, <2>6, FreeSizes
  <2>8. noc_malloc(heap, n).ptr = chunk_to_data(c)
    BY <2>4 DEF noc_malloc
  <2> HIDE DEF k
  <2>9. chunk_from_data(noc_malloc(heap, n).ptr) = c
    BY <2>7, <2>8, Consts DEF chunk_from_data, chunk_to_data
  <2>10. ASSUME NEW e \in FreeChunks(heap), heap.size[e] >= size
         PROVE  heap.size[c] <= heap.size[e]
    <3>1. PICK j \in 1 .. Len(heap.free) : e = heap.free[j]
      BY <2>2
    <3> QED BY <2>1, <2>5, <2>10, <3>1, SmallestChosen DEF Fits
  <2> QED BY <2>2, <2>6, <2>9, <2>10 DEF Fits
<1>2. Init => AlignedHeap(heap)
  BY DEF Init, AlignedHeap, Chunks
<1> QED BY <1>1, <1>2, Invariance, NextAligned, PTL DEF Spec

\* A chunk that holds an object has room for every smaller one.
LEMMA RoomForLess ==
  ASSUME NEW n \in Sizes, NEW s \in Nat, s % Align = 0, n + Hdr <= s
  PROVE  chunk_size_for_data(n) <= s
<1>1. n \in Nat /\ Align \in Nat \ {0} /\ Hdr \in Nat /\ SizeMod \in Nat \ {0}
  BY Consts, ConstantsAssumption
<1>2. (-n) % Align \in 0 .. Align - 1
  BY <1>1, DivMod
<1> DEFINE a == chunk_size_for_data(n)
<1>3. a = n + ((-n) % Align) + Hdr
  <2> DEFINE x == n + ((-n) % Align) + Hdr
  <2>1. x \in Nat /\ x < SizeMod
    BY <1>1, <1>2, SizesAssumption
  <2> HIDE DEF x
  <2>2. x % SizeMod = x
    BY <1>1, <2>1
  <2> QED BY <2>2 DEF chunk_size_for_data, x
<1>4. a \in Int /\ a % Align = 0
  BY <1>1, <1>2, <1>3, AlignedSize
<1> HIDE DEF a
<1>5. (s - a) % Align = 0 /\ s - a \in Int
  BY <1>4, AlignedSum
<1>6. -Align < s - a
  BY <1>1, <1>2, <1>3
<1>7. 0 <= s - a
  BY <1>5, <1>6, AlignedNear
<1> QED BY <1>4, <1>7 DEF a

\* An object that shrinks stays where it is (malloc.c:337-345): its chunk, being
\* aligned, is never too small for the size rounded up.
THEOREM ShrinksInPlace == Spec => []ReallocShrinksInPlace
<1>1. IInv /\ AlignedHeap(heap) => ReallocShrinksInPlace
  <2> SUFFICES ASSUME IInv, AlignedHeap(heap), NEW p \in Held(obj), NEW n \in Sizes \ {0},
                      n <= obj[p]
               PROVE  noc_realloc(heap, p, n).ptr = p
    BY DEF ReallocShrinksInPlace
  <2> DEFINE c == chunk_from_data(p)
  <2>1. HeapOk(heap) /\ c \in Allocated(heap) /\ p = c + Hdr /\ p # NULL
    BY IInvAccounts, HeldChunk
  <2>2. /\ c \in Chunks(heap) /\ c \in Nat \ {0} /\ heap.size[c] \in Nat /\ Hdr < heap.size[c]
        /\ heap.sbrk_start <= c /\ c + heap.size[c] <= heap.sbrk_end
        /\ chunk_end(heap, c) = c + heap.size[c] /\ heap.sbrk_end \in Nat /\ heap.sbrk_start \in Nat
    BY <2>1, AllocatedFacts, Fields DEF HeapOk
  <2>3. obj[p] + Hdr <= heap.size[c] /\ obj[p] \in Nat
    BY DEF IInv, TypeOK, Held
  <2>4. n \in Nat /\ Hdr \in Nat
    BY Consts, ConstantsAssumption
  <2>5. chunk_size_for_data(n) <= heap.size[c]
    <3>1. heap.size[c] % Align = 0
      BY <2>2 DEF AlignedHeap
    <3> QED BY <2>2, <2>3, <2>4, <3>1, RoomForLess
  <2>6. ~OutOfHeap(heap, p)
    <3> HIDE DEF c
    <3>1. chunk_from_data(p) = c
      BY DEF c
    <3> QED BY <2>1, <2>2, <2>4, <3>1 DEF OutOfHeap
  <2>7. heap.size[chunk_from_data(p)] >= chunk_size_for_data(n)
    <3>1. chunk_size_for_data(n) \in Nat
      BY ChunkSizeForData
    <3> QED BY <2>2, <2>5, <3>1
  <2>8. noc_realloc(heap, p, n).ptr = chunk_to_data(chunk_from_data(p))
    BY <2>1, <2>6, <2>7 DEF noc_realloc
  <2> QED BY <2>1, <2>8 DEF chunk_to_data
<1>2. Init => AlignedHeap(heap)
  BY DEF Init, AlignedHeap, Chunks
<1> QED BY <1>1, <1>2, Invariance, NextAligned, PTL DEF Spec

-----------------------------------------------------------------------------
(* The bounds of the heap, and what lies between them *)

\* Address a lies in a chunk.
Covers(size, a) == \E c \in Addr : size[c] > 0 /\ a \in c .. c + size[c] - 1

\* The break is aligned, no header outside memory was read, and the heap has no
\* end before it has a start.
Tidy(h) ==
  /\ h.brk % Align = 0
  /\ h.fault = FALSE
  /\ h.sbrk_start = NULL => h.sbrk_end = NULL

\* The heap reaches up to the break, and every byte of it is in a chunk.
Tiled(h) ==
  h.sbrk_start # NULL =>
     /\ h.sbrk_end = h.brk
     /\ \A a \in h.sbrk_start .. h.sbrk_end - 1 : Covers(h.size, a)

\* An operation that gets nothing from sbrk() ...
Kept(h, g) ==
  /\ SameBounds(h, g) /\ g.fault = h.fault
  /\ \A a \in Nat : Covers(h.size, a) => Covers(g.size, a)

\* ... and one that may.
Orderly(h, g) == Tidy(h) => Tidy(g) /\ (Tiled(h) => Tiled(g))

LEMMA KeptOrderly ==
  ASSUME NEW h \in HeapType, NEW g, Kept(h, g)
  PROVE  Orderly(h, g)
<1>1. SameBounds(h, g) /\ g.fault = h.fault /\ h.sbrk_start \in Nat /\ h.sbrk_end \in Nat
  BY Fields DEF Kept
<1>2. \A a \in h.sbrk_start .. h.sbrk_end - 1 : a \in Nat
  BY <1>1
<1>3. Tidy(h) => Tidy(g)
  BY <1>1 DEF Tidy, SameBounds
<1>4. Tiled(h) => Tiled(g)
  BY <1>1, <1>2 DEF Tiled, SameBounds, Kept
<1> QED BY <1>3, <1>4 DEF Orderly

LEMMA KeptTwice ==
  ASSUME NEW h, NEW u, Kept(h, u), NEW g, Kept(u, g)
  PROVE  Kept(h, g)
BY DEF Kept, SameBounds

LEMMA OrderlyTwice ==
  ASSUME NEW h, NEW u, Orderly(h, u), NEW g, Orderly(u, g)
  PROVE  Orderly(h, g)
BY DEF Orderly

LEMMA SameKept ==
  ASSUME NEW h, NEW g, SameBounds(h, g), g.fault = h.fault, g.size = h.size
  PROVE  Kept(h, g)
BY DEF Kept

\* A chunk and the one that starts where it ends, joined, cover what they did.
LEMMA JoinCovers ==
  ASSUME NEW s \in [Addr -> Nat], NEW c \in Addr, NEW d \in Addr,
         s[c] > 0, s[d] > 0, c + s[c] = d, NEW a \in Nat, Covers(s, a)
  PROVE  Covers(Join(s, c, d), a)
<1> DEFINE z == Join(s, c, d)
<1>1. c \in Nat /\ d \in Nat /\ s[c] \in Nat /\ s[d] \in Nat /\ c # d
  BY AddrNat
<1>2. \A e \in Addr : z[e] = IF e = d THEN 0 ELSE IF e = c THEN s[c] + s[d] ELSE s[e]
  BY <1>1 DEF Join
<1>3. PICK e \in Addr : s[e] > 0 /\ a \in e .. e + s[e] - 1
  BY DEF Covers
<1> HIDE DEF z
<1>4. e \in Nat /\ s[e] \in Nat
  BY AddrNat
<1>5. CASE e = c \/ e = d
  <2>1. z[c] > 0 /\ a \in c .. c + z[c] - 1
    BY <1>1, <1>2, <1>3, <1>4, <1>5
  <2> QED BY <2>1 DEF Covers, z
<1>6. CASE e # c /\ e # d
  <2>1. z[e] > 0 /\ a \in e .. e + z[e] - 1
    BY <1>2, <1>3, <1>6
  <2> QED BY <2>1 DEF Covers, z
<1> QED BY <1>5, <1>6

\* The sizes after chunk c is cut into n bytes and the x bytes from d on.
Parted(s, c, n, d, x) == [[s EXCEPT ![c] = n] EXCEPT ![d] = x]

\* The parts of a chunk cover what it covered.
LEMMA CutCovers ==
  ASSUME NEW s \in [Addr -> Nat], NEW c \in Addr, NEW n \in Nat \ {0}, NEW x \in Nat \ {0},
         s[c] = n + x, NEW d \in Addr, d = c + n, s[d] = 0, NEW a \in Nat, Covers(s, a)
  PROVE  Covers(Parted(s, c, n, d, x), a)
<1> DEFINE z == Parted(s, c, n, d, x)
<1>1. c \in Nat /\ d \in Nat /\ s[c] \in Nat /\ c # d
  BY AddrNat
<1>2. \A e \in Addr : z[e] = IF e = d THEN x ELSE IF e = c THEN n ELSE s[e]
  BY <1>1 DEF Parted
<1>3. PICK e \in Addr : s[e] > 0 /\ a \in e .. e + s[e] - 1
  BY DEF Covers
<1> HIDE DEF z
<1>4. e \in Nat /\ s[e] \in Nat /\ e # d
  BY <1>3, AddrNat
<1>5. CASE e = c
  <2>1. \/ z[c] > 0 /\ a \in c .. c + z[c] - 1
        \/ z[d] > 0 /\ a \in d .. d + z[d] - 1
    <3>1. z[c] = n /\ z[d] = x
      BY <1>1, <1>2
    <3> QED BY <1>1, <1>3, <1>5, <3>1
  <2> QED BY <2>1 DEF Covers, z
<1>6. CASE e # c
  <2>1. z[e] > 0 /\ a \in e .. e + z[e] - 1
    BY <1>2, <1>3, <1>4, <1>6
  <2> QED BY <2>1 DEF Covers, z
<1> QED BY <1>5, <1>6

\* A chunk that grows, or is new, covers its bytes and the others theirs.
LEMMA PutCovers ==
  ASSUME NEW s \in [Addr -> Nat], NEW c \in Addr, NEW n \in Nat \ {0}, s[c] <= n,
         NEW z, z = [s EXCEPT ![c] = n], NEW a \in Nat, Covers(s, a) \/ a \in c .. c + n - 1
  PROVE  Covers(z, a)
<1>1. c \in Nat /\ s[c] \in Nat
  BY AddrNat
<1>2. \A e \in Addr : z[e] = IF e = c THEN n ELSE s[e]
  OBVIOUS
<1>3. CASE a \in c .. c + n - 1
  <2>1. z[c] > 0 /\ a \in c .. c + z[c] - 1
    BY <1>2, <1>3
  <2> QED BY <2>1 DEF Covers
<1>4. CASE Covers(s, a)
  <2>1. PICK e \in Addr : s[e] > 0 /\ a \in e .. e + s[e] - 1
    BY <1>4 DEF Covers
  <2>2. z[e] > 0 /\ a \in e .. e + z[e] - 1
    <3>1. e \in Nat /\ s[e] \in Nat
      BY AddrNat
    <3> QED BY <1>1, <1>2, <2>1, <3>1
  <2> QED BY <2>2 DEF Covers
<1> QED BY <1>3, <1>4

LEMMA MergedKept ==
  ASSUME NEW h \in HeapType, NEW k \in 1 .. Len(h.free),
         \A i \in 1 .. Len(h.free) : h.free[i] \in Chunks(h)
  PROVE  Kept(h, merge_right(h, k))
<1> DEFINE c == h.free[k]
           d == h.free[k+1]
           g == [h EXCEPT !.free = RemoveAt(h.free, k+1), !.size = Join(h.size, c, d)]
<1>1. CASE k < Len(h.free) /\ chunk_end(h, c) = d
  <2>1. merge_right(h, k) = g
    BY <1>1 DEF merge_right, HeapType
  <2>2. k+1 \in 1 .. Len(h.free) /\ c \in Chunks(h)
    BY <1>1, Fields
  <2>3. d \in Chunks(h)
    BY <2>2
  <2>4. /\ g.size = Join(h.size, c, d) /\ h.size \in [Addr -> Nat]
        /\ SameBounds(h, g) /\ g.fault = h.fault
    BY Fields DEF HeapType, SameBounds
  <2> HIDE DEF g, c, d
  <2>5. /\ c \in Addr /\ d \in Addr /\ h.size[c] > 0 /\ h.size[d] > 0 /\ c + h.size[c] = d
    BY <1>1, <2>2, <2>3 DEF Chunks, chunk_end
  <2>6. \A a \in Nat : Covers(h.size, a) => Covers(g.size, a)
    BY <2>4, <2>5, JoinCovers
  <2> QED BY <2>1, <2>4, <2>6 DEF Kept
<1>2. CASE ~(k < Len(h.free) /\ chunk_end(h, c) = d)
  BY <1>2 DEF merge_right, Kept, SameBounds
<1> QED BY <1>1, <1>2

LEMMA LinkedKept ==
  ASSUME NEW h \in HeapType, NEW c \in Chunks(h),
         \A i \in 1 .. Len(h.free) : h.free[i] \in Chunks(h) /\ h.free[i] # c,
         NEW k \in 1 .. Len(h.free) + 1,
         k <= Len(h.free) /\ h.free[k] < c => chunk_end(h, h.free[k]) = c
  PROVE  Kept(h, link_chunk(h, c, k))
<1>1. /\ h.size \in [Addr -> Nat] /\ h.free \in Seq(Addr) /\ Len(h.free) \in Nat
      /\ c \in Addr
  BY Fields DEF Chunks
<1>2. CASE k <= Len(h.free) /\ h.free[k] < c
  <2> DEFINE d == h.free[k]
             m == [h EXCEPT !.size = Join(h.size, d, c)]
  <2>1. link_chunk(h, c, k) = merge_right(m, k)
    BY <1>2 DEF link_chunk, HeapType
  <2>2. k \in 1 .. Len(h.free) /\ d \in Chunks(h) /\ d # c /\ chunk_end(h, d) = c
    BY <1>1, <1>2
  <2>3. Join(h.size, d, c) \in [Addr -> Nat]
    BY <2>2, JoinType
  <2>4. /\ m \in HeapType /\ m.free = h.free /\ m.size = Join(h.size, d, c)
        /\ SameBounds(h, m) /\ m.fault = h.fault
    BY <2>3 DEF HeapType, SameBounds
  <2> HIDE DEF m
  <2>5. Kept(h, m)
    <3> HIDE DEF d
    <3>1. d \in Addr /\ h.size[c] > 0 /\ h.size[d] > 0 /\ d + h.size[d] = c
      BY <2>2 DEF Chunks, chunk_end
    <3>2. \A a \in Nat : Covers(h.size, a) => Covers(m.size, a)
      BY <1>1, <2>4, <3>1, JoinCovers
    <3> QED BY <2>4, <3>2 DEF Kept
  <2>6. \A i \in 1 .. Len(h.free) : h.free[i] \in Chunks(m)
    <3> SUFFICES ASSUME NEW e \in Chunks(h), e # c PROVE e \in Chunks(m)
      OBVIOUS
    <3> HIDE DEF d
    <3>1. e \in Addr /\ h.size[e] \in Nat /\ h.size[c] \in Nat /\ h.size[e] > 0
      BY <1>1 DEF Chunks
    <3>2. m.size[e] = h.size[e] \/ m.size[e] = h.size[e] + h.size[c]
      BY <1>1, <2>4, <3>1 DEF Join
    <3> QED BY <3>1, <3>2 DEF Chunks
  <2>7. Kept(m, merge_right(m, k))
    BY <2>2, <2>4, <2>6, MergedKept
  <2> QED BY <2>1, <2>5, <2>7, KeptTwice
<1>3. CASE ~(k <= Len(h.free) /\ h.free[k] < c)
  <2> DEFINE o == h.free
             f == InsertAt(o, k, c)
             m == [h EXCEPT !.free = f]
  <2>1. link_chunk(h, c, k) = merge_right(m, k)
    BY <1>3 DEF link_chunk, HeapType
  <2>2. /\ f \in Seq(Addr) /\ Len(f) = Len(h.free) + 1
        /\ \A j \in 1 .. Len(h.free) + 1 :
              f[j] = IF j < k THEN h.free[j] ELSE IF j = k THEN c ELSE h.free[j-1]
    <3>1. o \in Seq(Addr) /\ k \in 1 .. Len(o) + 1 /\ c \in Addr
      BY <1>1
    <3> HIDE DEF o
    <3>2. /\ f \in Seq(Addr) /\ Len(f) = Len(o) + 1
          /\ \A j \in 1 .. Len(o) + 1 :
                f[j] = IF j < k THEN o[j] ELSE IF j = k THEN c ELSE o[j-1]
      BY <3>1, InsertAtProperties
    <3> QED BY <3>2 DEF o
  <2> HIDE DEF f
  <2>3. m \in HeapType /\ m.free = f /\ m.size = h.size /\ SameBounds(h, m) /\ m.fault = h.fault
    BY <2>2 DEF HeapType, SameBounds
  <2> HIDE DEF m
  <2>4. Kept(h, m) /\ Chunks(m) = Chunks(h)
    BY <2>3, SameKept DEF Chunks
  <2>5. ASSUME NEW j \in 1 .. Len(m.free) PROVE m.free[j] \in Chunks(m)
    <3>1. j \in 1 .. Len(h.free) + 1
      BY <2>2, <2>3
    <3>2. CASE j < k
      <4>1. j \in 1 .. Len(h.free) /\ m.free[j] = h.free[j]
        BY <1>1, <2>2, <2>3, <3>1, <3>2
      <4> QED BY <2>4, <4>1
    <3>3. CASE j = k
      BY <2>2, <2>3, <2>4, <3>1, <3>3
    <3>4. CASE j > k
      <4>1. j - 1 \in 1 .. Len(h.free)
        BY <1>1, <3>1, <3>4
      <4>2. m.free[j] = h.free[j-1]
        BY <1>1, <2>2, <2>3, <3>1, <3>4
      <4> QED BY <2>4, <4>1, <4>2
    <3> QED BY <1>1, <3>1, <3>2, <3>3, <3>4
  <2>6. k \in 1 .. Len(m.free)
    BY <2>2, <2>3
  <2>7. Kept(m, merge_right(m, k))
    BY <2>3, <2>5, <2>6, MergedKept
  <2> QED BY <2>1, <2>4, <2>7, KeptTwice
<1> QED BY <1>2, <1>3

\* free() loses no byte: neither at the links nor in a merge.
LEMMA FreedKept ==
  ASSUME NEW h \in HeapType, NEW c \in Chunks(h),
         \A i \in 1 .. Len(h.free) : h.free[i] \in Chunks(h) /\ h.free[i] # c
  PROVE  Kept(h, noc_free(h, c + Hdr))
<1> DEFINE m == Scribble(h.mem, c)
           s == [h EXCEPT !.mem = m]
           k == FreeStop(h, c)
<1>1. chunk_from_data(c + Hdr) = c /\ c \in Addr /\ c \in Nat
  BY ChunkNat, Consts DEF chunk_from_data
<1>2. k \in 1 .. Len(h.free) + 1 /\ IsStop(h, c, k) /\ Len(h.free) \in Nat
  BY Fields, FreeStopExists
<1>3. m \in [Addr -> Int]
  BY Fields, FillType, 0 \in Int
<1>4. noc_free(h, c + Hdr) = h \/ noc_free(h, c + Hdr) = link_chunk(s, c, k)
  BY <1>1 DEF noc_free
<1> HIDE DEF m, k
<1>5. /\ s \in HeapType /\ s.free = h.free /\ s.size = h.size
      /\ SameBounds(h, s) /\ s.fault = h.fault
  BY <1>3 DEF HeapType, SameBounds
<1> HIDE DEF s
<1>6. Kept(h, s) /\ Chunks(s) = Chunks(h)
  BY <1>5, SameKept DEF Chunks
<1>7. ASSUME k <= Len(s.free), s.free[k] < c PROVE chunk_end(s, s.free[k]) = c
  <2>1. k \in 1 .. Len(h.free) /\ k # Len(h.free) + 1 /\ h.free[k] \in Nat
    BY <1>2, <1>5, <1>7, ChunkNat
  <2> QED BY <1>1, <1>2, <1>5, <1>7, <2>1 DEF IsStop, chunk_end
<1>8. Kept(s, link_chunk(s, c, k))
  BY <1>2, <1>5, <1>6, <1>7, LinkedKept
<1>9. Kept(h, link_chunk(s, c, k))
  BY <1>6, <1>8, KeptTwice
<1>10. Kept(h, h)
  BY SameKept DEF SameBounds
<1> QED BY <1>4, <1>9, <1>10

\* What aligned_sbrk() does while the break is aligned: it fails when there is no
\* room and says so, or gives what lies at the break.
AtBreak(h, n, r) ==
  \/ /\ r.ptr = SBRK_FAILURE /\ SameBounds(h, r.heap)
     /\ n < SizeMod \div 2 => h.brk + n > BrkEnd /\ r.heap.errno = ENOMEM
  \/ /\ r.ptr = h.brk /\ r.heap.brk = h.brk + n /\ r.heap.sbrk_end = h.brk + n
     /\ r.heap.sbrk_start = IF h.sbrk_start = NULL THEN h.brk ELSE h.sbrk_start

LEMMA GrantedAtBreak ==
  ASSUME NEW h \in HeapType, h.brk % Align = 0, NEW n \in Nat \ {0}
  PROVE  LET r == aligned_sbrk(h, n)
         IN  AtBreak(h, n, r) /\ r.heap.size = h.size /\ r.heap.fault = h.fault
<1> DEFINE r == aligned_sbrk(h, n)
           b == h.brk + n
           t == [h EXCEPT !.brk = b]
           u == [t EXCEPT !.sbrk_end = b]
           g == [u EXCEPT !.sbrk_start = h.brk]
           e == [h EXCEPT !.errno = ENOMEM]
<1>1. h.brk \in Nat \ {0} /\ h.brk >= BrkStart /\ n \in Nat
  BY Fields, Consts
<1>2. /\ SameBounds(h, e) /\ e.errno = ENOMEM /\ e.size = h.size /\ e.fault = h.fault
      /\ u.brk = b /\ u.sbrk_end = b /\ u.sbrk_start = h.sbrk_start
      /\ u.size = h.size /\ u.fault = h.fault
      /\ g.brk = b /\ g.sbrk_end = b /\ g.sbrk_start = h.brk
      /\ g.size = h.size /\ g.fault = h.fault
  BY DEF HeapType, SameBounds
<1>3. CASE n >= SizeMod \div 2
  <2>1. r = [heap |-> h, ptr |-> SBRK_FAILURE]
    BY <1>3 DEF aligned_sbrk
  <2>2. ~(n < SizeMod \div 2)
    <3>1. SizeMod \div 2 \in Int
      BY Consts
    <3> HIDE DEF r
    <3> QED BY <1>1, <1>3, <3>1
  <2> HIDE DEF r
  <2>3. AtBreak(h, n, r) /\ r.heap.size = h.size /\ r.heap.fault = h.fault
    BY <2>1, <2>2 DEF AtBreak, SameBounds
  <2> QED BY <2>3 DEF r
<1>4. CASE ~(n >= SizeMod \div 2) /\ ~(BrkStart <= b /\ b <= BrkEnd)
  <2>1. sbrk(h, n) = [heap |-> h, ptr |-> SBRK_FAILURE]
    BY <1>4 DEF sbrk
  <2>2. r = [heap |-> e, ptr |-> SBRK_FAILURE]
    BY <1>4, <2>1 DEF aligned_sbrk
  <2>3. b > BrkEnd
    BY <1>1, <1>4, Consts
  <2> HIDE DEF r, e
  <2>4. AtBreak(h, n, r) /\ r.heap.size = h.size /\ r.heap.fault = h.fault
    BY <1>2, <2>2, <2>3 DEF AtBreak
  <2> QED BY <2>4 DEF r
<1>5. CASE ~(n >= SizeMod \div 2) /\ BrkStart <= b /\ b <= BrkEnd
  <2>1. sbrk(h, n) = [heap |-> t, ptr |-> h.brk]
    BY <1>5, PlatformAssumption DEF sbrk
  <2>2. h.brk # SBRK_FAILURE
    BY <1>1 DEF SBRK_FAILURE
  <2>3. r = [heap |-> FirstAddress(u, h.brk), ptr |-> h.brk]
    BY <1>5, <2>1, <2>2 DEF aligned_sbrk
  <2>4. FirstAddress(u, h.brk) = IF h.sbrk_start = NULL THEN g ELSE u
    BY <1>2 DEF FirstAddress
  <2> HIDE DEF r, g, u
  <2>5. AtBreak(h, n, r) /\ r.heap.size = h.size /\ r.heap.fault = h.fault
    BY <1>2, <2>3, <2>4 DEF AtBreak
  <2> QED BY <2>5 DEF r
<1> QED BY <1>3, <1>4, <1>5

LEMMA TidyGranted ==
  ASSUME NEW h \in HeapType, Tidy(h), NEW n \in Nat, n % Align = 0, NEW r, AtBreak(h, n, r),
         r.ptr # SBRK_FAILURE, NEW g, SameBounds(r.heap, g), g.fault = h.fault
  PROVE  Tidy(g)
<1>1. /\ g.brk = h.brk + n /\ h.brk \in Nat \ {0}
      /\ g.sbrk_start = IF h.sbrk_start = NULL THEN h.brk ELSE h.sbrk_start
  BY Fields, Consts DEF AtBreak, SameBounds
<1>2. (h.brk + n) % Align = 0
  <2>1. h.brk \in Int /\ n \in Int /\ h.brk % Align = 0
    BY <1>1 DEF Tidy
  <2> QED BY <2>1, AlignedSum
<1>3. g.sbrk_start # NULL
  BY <1>1 DEF NULL
<1> QED BY <1>1, <1>2, <1>3 DEF Tidy

\* A chunk made of what sbrk() gave leaves no gap behind the others.
LEMMA NewChunkOrderly ==
  ASSUME NEW h \in HeapType, NEW n \in Nat \ {0}, n % Align = 0,
         NEW r, AtBreak(h, n, r), r.ptr # SBRK_FAILURE, r.heap.size = h.size,
         r.heap.fault = h.fault,
         NEW p \in Addr, p <= h.brk, NEW k \in Nat \ {0}, p + k = h.brk + n, h.size[p] <= k,
         NEW g, SameBounds(r.heap, g), g.fault = h.fault,
         g.size = [h.size EXCEPT ![p] = k]
  PROVE  Orderly(h, g)
<1>1. /\ g.brk = h.brk + n /\ g.sbrk_end = h.brk + n /\ h.brk \in Nat \ {0} /\ n \in Nat
      /\ g.sbrk_start = IF h.sbrk_start = NULL THEN h.brk ELSE h.sbrk_start
      /\ h.sbrk_start \in Nat /\ p \in Nat /\ h.size \in [Addr -> Nat]
  BY Fields, Consts, AddrNat DEF AtBreak, SameBounds
<1>2. Tidy(h) => Tidy(g)
  BY TidyGranted
<1>3. ASSUME Tiled(h), NEW a \in g.sbrk_start .. g.sbrk_end - 1 PROVE Covers(g.size, a)
  <2>1. a \in Nat
    BY <1>1
  <2>2. CASE a >= h.brk
    <3>1. a \in p .. p + k - 1
      BY <1>1, <2>1, <2>2
    <3> QED BY <1>1, <2>1, <3>1, PutCovers
  <2>3. CASE ~(a >= h.brk)
    <3>1. h.sbrk_start # NULL /\ a \in h.sbrk_start .. h.brk - 1
      BY <1>1, <2>1, <2>3
    <3>2. Covers(h.size, a)
      BY <1>3, <3>1 DEF Tiled
    <3> QED BY <1>1, <2>1, <3>2, PutCovers
  <2> QED BY <2>2, <2>3
<1>4. Tiled(h) => Tiled(g)
  BY <1>1, <1>3 DEF Tiled
<1> QED BY <1>2, <1>4 DEF Orderly

LEMMA NoChunkAtBreak ==
  ASSUME NEW h, HeapOk(h)
  PROVE  /\ h \in HeapType /\ h.brk \in Nat /\ h.size \in [Addr -> Nat]
         /\ h.brk \in Addr /\ h.size[h.brk] = 0
<1>1. /\ h \in HeapType /\ ChunksOk(h) /\ h.brk \in BrkStart .. BrkEnd /\ h.brk \in Nat
      /\ h.sbrk_end \in Nat /\ h.size \in [Addr -> Nat]
  BY Fields DEF HeapOk
<1>2. h.brk \in Addr
  BY <1>1, Consts DEF Addr
<1>3. ASSUME h.size[h.brk] # 0 PROVE FALSE
  <2>1. h.brk \in Chunks(h)
    BY <1>1, <1>2, <1>3 DEF Chunks
  <2>2. h.brk < chunk_end(h, h.brk) /\ chunk_end(h, h.brk) \in Nat
    BY <1>1, <2>1, ChunkNat
  <2>3. chunk_end(h, h.brk) <= h.sbrk_end /\ h.sbrk_end <= h.brk
    BY <1>1, <2>1 DEF ChunksOk
  <2> QED BY <1>1, <2>2, <2>3
<1> QED BY <1>1, <1>2, <1>3

\* A call to sbrk() that failed.
LEMMA FailedKept ==
  ASSUME NEW h \in HeapType, NEW n, NEW r, AtBreak(h, n, r), r.ptr = SBRK_FAILURE,
         r.heap.size = h.size, r.heap.fault = h.fault
  PROVE  Kept(h, r.heap)
<1>1. h.brk \in Nat
  BY Fields
<1>2. r.ptr # h.brk
  BY <1>1 DEF SBRK_FAILURE
<1> QED BY <1>2, SameKept DEF AtBreak

\* malloc() from the environment ...
LEMMA ExtendedOrderly ==
  ASSUME NEW h, HeapOk(h), Tidy(h), NEW n \in Nat \ {0}, n % Align = 0
  PROVE  Orderly(h, extend(h, n).heap)
<1> DEFINE r == aligned_sbrk(h, n)
           s == r.heap
           p == r.ptr
           g == extend(h, n).heap
<1>1. /\ h \in HeapType /\ h.brk \in Nat /\ h.brk \in Addr /\ h.size[h.brk] = 0
  BY NoChunkAtBreak
<1>2. AtBreak(h, n, r) /\ s.size = h.size /\ s.fault = h.fault /\ s \in HeapType
  <2>1. s \in HeapType
    BY AlignedSbrk DEF Granted, HeapOk
  <2>2. h.brk % Align = 0
    BY DEF Tidy
  <2> QED BY <1>1, <2>1, <2>2, GrantedAtBreak
<1>3. CASE p = SBRK_FAILURE
  <2>1. g = s
    BY <1>3 DEF extend
  <2> HIDE DEF r
  <2>2. Orderly(h, s)
    BY <1>1, <1>2, <1>3, FailedKept, KeptOrderly
  <2> QED BY <2>1, <2>2
<1>4. CASE p # SBRK_FAILURE
  <2>1. g = [s EXCEPT !.size = [s.size EXCEPT ![p] = n], !.mem = Fill(s.mem, p, Hdr, Garbage)]
    BY <1>4 DEF extend
  <2> HIDE DEF g, r
  <2>2. p = h.brk
    BY <1>2, <1>4 DEF AtBreak
  <2>3. /\ g.size = [h.size EXCEPT ![p] = n] /\ SameBounds(s, g) /\ g.fault = h.fault
    <3> HIDE DEF s, p
    <3> QED BY <1>2, <2>1 DEF HeapType, SameBounds
  <2>4. Orderly(h, g)
    BY <1>1, <1>2, <1>4, <2>2, <2>3, NewChunkOrderly
  <2> QED BY <2>4 DEF g
<1> QED BY <1>3, <1>4

\* ... or from the list.
LEMMA TakenKept ==
  ASSUME NEW h, HeapOk(h), NEW k \in 1 .. Len(h.free), NEW n \in Nat \ {0}, Fits(h, k, n)
  PROVE  Kept(h, take(h, k, n))
<1> DEFINE c == h.free[k]
           x == h.size[c] - n
           d == c + n
           z == Parted(h.size, c, n, d, x)
           g == take(h, k, n)
<1>1. /\ h \in HeapType /\ c \in Chunks(h) /\ c \in Nat /\ c \in Addr /\ h.size[c] \in Nat
      /\ n <= h.size[c] /\ h.size \in [Addr -> Nat] /\ c + h.size[c] <= MaxAddr
      /\ chunk_end(h, c) = c + h.size[c]
  <2>1. h \in HeapType /\ c \in Chunks(h) /\ h.size[c] >= n
    BY DEF HeapOk, FreeOk, Fits
  <2>2. h.sbrk_end \in Nat /\ h.sbrk_end <= MaxAddr /\ h.size \in [Addr -> Nat]
    BY <2>1, Fields, AddrNat
  <2>3. chunk_end(h, c) <= h.sbrk_end
    BY <2>1 DEF HeapOk, ChunksOk
  <2> HIDE DEF c
  <2>4. c \in Nat /\ c \in Addr /\ h.size[c] \in Nat
    BY <2>1, ChunkNat
  <2> QED BY <2>1, <2>2, <2>3, <2>4, Consts DEF chunk_end
<1>2. CASE x < MinSize
  <2>1. g = [h EXCEPT !.free = RemoveAt(h.free, k)]
    BY <1>2 DEF take, Extra
  <2> HIDE DEF g
  <2>2. g.size = h.size /\ SameBounds(h, g) /\ g.fault = h.fault
    BY <1>1, <2>1 DEF HeapType, SameBounds
  <2>3. Kept(h, g)
    BY <2>2, SameKept
  <2> QED BY <2>3 DEF g
<1>3. CASE ~(x < MinSize)
  <2>1. g = [h EXCEPT !.free = [h.free EXCEPT ![k] = d], !.size = z, !.mem = Scribble(h.mem, d)]
    BY <1>3 DEF take, Extra, Parted
  <2> HIDE DEF g
  <2>2. g.size = z /\ SameBounds(h, g) /\ g.fault = h.fault
    <3> HIDE DEF z
    <3> QED BY <1>1, <2>1 DEF HeapType, SameBounds
  <2>3. d \in Nat /\ d \in Addr /\ x \in Nat \ {0} /\ c < d /\ d < chunk_end(h, c)
        /\ h.size[c] = n + x
    <3>1. d \in Nat /\ d <= MaxAddr /\ x \in Nat \ {0} /\ c < d /\ d < chunk_end(h, c)
          /\ h.size[c] = n + x
      <4> HIDE DEF c
      <4> QED BY <1>1, <1>3, Consts
    <3> QED BY <3>1, Consts DEF Addr
  <2>4. h.size[d] = 0
    <3> SUFFICES ASSUME d \in Chunks(h) PROVE FALSE
      BY <1>1, <2>3 DEF Chunks
    <3> HIDE DEF d, c
    <3> QED BY <1>1, <2>3 DEF HeapOk, ChunksOk
  <2> HIDE DEF c, x
  <2>5. d = c + n
    OBVIOUS
  <2> HIDE DEF d
  <2>6. z = Parted(h.size, c, n, d, x)
    OBVIOUS
  <2> HIDE DEF z
  <2>7. ASSUME NEW a \in Nat, Covers(h.size, a) PROVE Covers(z, a)
    <3> DEFINE s == h.size
    <3>1. /\ s \in [Addr -> Nat] /\ c \in Addr /\ d \in Addr /\ x \in Nat \ {0}
          /\ s[c] = n + x /\ s[d] = 0 /\ Covers(s, a)
          /\ z = Parted(s, c, n, d, x)
      BY <1>1, <2>3, <2>4, <2>6, <2>7
    <3> HIDE DEF s
    <3> QED BY <2>5, <3>1, CutCovers
  <2>8. Kept(h, g)
    BY <2>2, <2>7 DEF Kept
  <2> QED BY <2>8 DEF g
<1> QED BY <1>2, <1>3

LEMMA MallocedOrderly ==
  ASSUME NEW h, HeapOk(h), Tidy(h), NEW n \in Sizes
  PROVE  Orderly(h, noc_malloc(h, n).heap)
<1> DEFINE size == chunk_size_for_data(n)
           k == CHOOSE j \in Chosen(h, size) : TRUE
<1>1. CASE n = 0
  BY <1>1 DEF noc_malloc, Orderly
<1>2. CASE n # 0
  <2>1. size \in Nat \ {0} /\ size % Align = 0 /\ h \in HeapType
    BY <1>2, ChunkSizeForData, AlignedSize DEF HeapOk
  <2>2. CASE Chosen(h, size) # {}
    <3>1. noc_malloc(h, n).heap = take(h, k, size)
      BY <1>2, <2>2 DEF noc_malloc
    <3>2. k \in 1 .. Len(h.free) /\ Fits(h, k, size)
      BY <2>2 DEF Chosen, IsChosen
    <3> HIDE DEF k, size
    <3> QED BY <2>1, <3>1, <3>2, TakenKept, KeptOrderly
  <2>3. CASE Chosen(h, size) = {}
    <3>1. noc_malloc(h, n) = extend(h, size)
      BY <1>2, <2>3 DEF noc_malloc, chunk_grow, LastLink
    <3> HIDE DEF size
    <3> QED BY <2>1, <3>1, ExtendedOrderly
  <2> QED BY <2>2, <2>3
<1> QED BY <1>1, <1>2

LEMMA CallocedOrderly ==
  ASSUME NEW h, HeapOk(h), Tidy(h), NEW k \in Nmembs, NEW n \in Sizes
  PROVE  Orderly(h, noc_calloc(h, k, n).heap)
<1> DEFINE f == noc_malloc(h, n)
           u == f.heap
           g == noc_calloc(h, k, n).heap
<1>1. Orderly(h, u) /\ u \in HeapType
  BY MallocedOrderly, MallocChunk DEF Malloced, HeapOk
<1>2. CASE k * n >= SizeMod \/ f.ptr = NULL
  <2>1. g = h \/ g = u
    BY <1>2 DEF noc_calloc
  <2> HIDE DEF g, u
  <2>2. Orderly(h, g)
    BY <1>1, <2>1 DEF Orderly
  <2> QED BY <2>2 DEF g
<1>3. CASE ~(k * n >= SizeMod \/ f.ptr = NULL)
  <2>1. PICK m \in [Addr -> Int] : noc_calloc(h, k, n) = [heap |-> [u EXCEPT !.mem = m], ptr |-> f.ptr]
    BY <1>3, ClearedChunk
  <2>2. g = [u EXCEPT !.mem = m]
    BY <2>1
  <2> HIDE DEF g, u
  <2>3. g.size = u.size /\ SameBounds(u, g) /\ g.fault = u.fault
    BY <1>1, <2>2 DEF HeapType, SameBounds
  <2>4. Orderly(h, g)
    BY <1>1, <2>3, SameKept, KeptOrderly, OrderlyTwice
  <2> QED BY <2>4 DEF g
<1> QED BY <1>2, <1>3

\* chunk_grow() from the break: the chunk at the top is longer, or nothing came.
LEMMA InsertedOrderly ==
  ASSUME NEW h, HeapOk(h), NEW n \in Nat \ {0}, n % Align = 0,
         NEW r, AtBreak(h, n, r), Granted(h, n, r), r.ptr # SBRK_FAILURE,
         r.heap.fault = h.fault
  PROVE  Orderly(h, insert_free_chunk(r.heap, r.ptr, n))
<1> DEFINE s == r.heap
           p == r.ptr
           m == [s EXCEPT !.size = [s.size EXCEPT ![p] = n]]
           g == noc_free(m, p + Hdr)
<1>1. /\ s \in HeapType /\ s.size \in [Addr -> Nat] /\ s.size = h.size /\ s.free = h.free
      /\ h \in HeapType /\ p = h.brk /\ p \in Addr /\ p \in Nat /\ h.size[p] = 0
  BY Fields, NoChunkAtBreak DEF Granted, HeapOk, AtBreak
<1>2. insert_free_chunk(r.heap, r.ptr, n) = g
  BY <1>1 DEF insert_free_chunk, chunk_to_data
<1> HIDE DEF s, p
<1>3. /\ m \in HeapType /\ m.free = h.free /\ m.size = [h.size EXCEPT ![p] = n]
      /\ SameBounds(s, m) /\ m.fault = h.fault
  BY <1>1 DEF HeapType, SameBounds, s
<1> HIDE DEF m
<1>4. Orderly(h, m)
  <2>1. SameBounds(r.heap, m) /\ r.heap.size = h.size
    BY <1>1, <1>3 DEF s
  <2> QED BY <1>1, <1>3, <2>1, NewChunkOrderly
<1>5. \A d \in Chunks(h) : d # p /\ d \in Chunks(m)
  BY <1>1, <1>3 DEF Chunks
<1>6. p \in Chunks(m)
  BY <1>1, <1>3 DEF Chunks
<1>7. \A i \in 1 .. Len(m.free) : m.free[i] \in Chunks(m) /\ m.free[i] # p
  BY <1>3, <1>5 DEF HeapOk, FreeOk
<1>8. Kept(m, g)
  BY <1>3, <1>6, <1>7, FreedKept
<1>9. Orderly(h, g)
  BY <1>3, <1>4, <1>8, KeptOrderly, OrderlyTwice
<1> QED BY <1>2, <1>9

LEMMA GrownOrderly ==
  ASSUME NEW h, HeapOk(h), Tidy(h), AlignedHeap(h), NEW c \in Allocated(h), NEW n \in Nat,
         h.size[c] < n, n % Align = 0
  PROVE  Orderly(h, chunk_grow(h, c, n).heap)
<1> DEFINE need == n - h.size[c]
           add  == IF need < MinSize THEN MinSize ELSE need
           r    == aligned_sbrk(h, add)
           s    == r.heap
           z    == [s.size EXCEPT ![c] = s.size[c] + add]
           v    == [s EXCEPT !.size = z]
           g    == chunk_grow(h, c, n).heap
<1>1. /\ h \in HeapType /\ c \in Chunks(h) /\ c \in Addr /\ c \in Nat /\ h.size[c] \in Nat
      /\ h.size[c] % Align = 0 /\ h.brk \in Nat /\ h.sbrk_end <= h.brk /\ h.sbrk_end \in Nat
      /\ chunk_end(h, c) = c + h.size[c] /\ h.brk % Align = 0
  BY AllocatedFacts, Fields DEF AlignedHeap, HeapOk, ChunksOk, Tidy
<1>2. add \in Nat \ {0}
  BY <1>1, Consts
<1>3. add % Align = 0
  <2>1. n \in Int /\ h.size[c] \in Int /\ n % Align = 0 /\ h.size[c] % Align = 0
    BY <1>1
  <2>2. need % Align = 0
    BY <2>1, AlignedSum, Zenon
  <2> QED BY <2>2, LayoutAssumption
<1>4. Granted(h, add, r) /\ AtBreak(h, add, r) /\ s.size = h.size /\ s.fault = h.fault
  <2> HIDE DEF add
  <2> QED BY <1>1, <1>2, AlignedSbrk, GrantedAtBreak
<1>5. s \in HeapType /\ s.size \in [Addr -> Nat]
  BY <1>4, Fields DEF Granted, HeapOk
<1>6. \/ g = h
      \/ g = s /\ r.ptr = SBRK_FAILURE
      \/ g = v /\ chunk_end(h, c) = h.sbrk_end /\ r.ptr = chunk_end(h, c)
      \/ g = insert_free_chunk(r.heap, r.ptr, add) /\ r.ptr # SBRK_FAILURE
  BY DEF chunk_grow
<1> HIDE DEF r, g, add
<1>7. CASE g = h
  <2>1. Orderly(h, g)
    BY <1>7 DEF Orderly
  <2> QED BY <2>1 DEF g
<1>8. CASE g = s /\ r.ptr = SBRK_FAILURE
  <2>1. Orderly(h, s)
    BY <1>1, <1>4, <1>8, FailedKept, KeptOrderly
  <2> QED BY <1>8, <2>1 DEF g
<1>9. CASE g = v /\ chunk_end(h, c) = h.sbrk_end /\ r.ptr = chunk_end(h, c)
  <2>1. r.ptr # SBRK_FAILURE
    BY <1>1, <1>9 DEF SBRK_FAILURE
  <2>2. r.ptr = h.brk
    BY <1>4, <2>1 DEF AtBreak
  <2> DEFINE k == h.size[c] + add
  <2>3. c <= h.brk /\ k \in Nat \ {0} /\ c + k = h.brk + add /\ h.size[c] <= k
    BY <1>1, <1>2, <1>9, <2>2
  <2>4. /\ v.size = [h.size EXCEPT ![c] = k] /\ SameBounds(s, v) /\ v.fault = h.fault
    <3> HIDE DEF s
    <3> QED BY <1>4, <1>5 DEF HeapType, SameBounds
  <2> HIDE DEF k, v
  <2>5. Orderly(h, v)
    BY <1>1, <1>2, <1>3, <1>4, <2>1, <2>3, <2>4, NewChunkOrderly
  <2>6. Orderly(h, g)
    BY <1>9, <2>5
  <2> QED BY <2>6 DEF g
<1>10. CASE g = insert_free_chunk(r.heap, r.ptr, add) /\ r.ptr # SBRK_FAILURE
  <2>1. Orderly(h, g)
    BY <1>2, <1>3, <1>4, <1>10, InsertedOrderly
  <2> QED BY <2>1 DEF g
<1> QED BY <1>6, <1>7, <1>8, <1>9, <1>10

\* The loop of realloc() over the list ...
LEMMA AbsorbedKept ==
  ASSUME NEW h, HeapOk(h), NEW c \in Allocated(h)
  PROVE  /\ \A k \in LeftOf(h, c) : Kept(h, absorb_left(h, c, k))
         /\ \A k \in RightOf(h, c) : Kept(h, absorb_right(h, c, k))
<1>1. /\ c \in Chunks(h) /\ c \in Addr /\ h.size[c] > 0
      /\ h \in HeapType /\ h.size \in [Addr -> Nat]
  BY AllocatedFacts, Fields DEF Chunks
<1>2. ASSUME NEW k \in 1 .. Len(h.free) PROVE h.free[k] \in Addr /\ h.size[h.free[k]] > 0
  BY DEF HeapOk, FreeOk, Chunks
<1>3. ASSUME NEW k \in LeftOf(h, c) PROVE Kept(h, absorb_left(h, c, k))
  <2> DEFINE d == h.free[k]
             g == absorb_left(h, c, k)
  <2>1. d \in Addr /\ h.size[d] > 0 /\ d + h.size[d] = c
    BY <1>2, <1>3 DEF LeftOf, chunk_end
  <2>2. g.size = Join(h.size, d, c) /\ SameBounds(h, g) /\ g.fault = h.fault
    BY <1>1 DEF absorb_left, HeapType, SameBounds
  <2> HIDE DEF d, g
  <2>3. \A a \in Nat : Covers(h.size, a) => Covers(g.size, a)
    BY <1>1, <2>1, <2>2, JoinCovers
  <2>4. Kept(h, g)
    BY <2>2, <2>3 DEF Kept
  <2> QED BY <2>4 DEF g
<1>4. ASSUME NEW k \in RightOf(h, c) PROVE Kept(h, absorb_right(h, c, k))
  <2> DEFINE d == h.free[k]
             g == absorb_right(h, c, k)
  <2>1. d \in Addr /\ h.size[d] > 0 /\ c + h.size[c] = d
    BY <1>2, <1>4 DEF RightOf, chunk_end
  <2>2. g.size = Join(h.size, c, d) /\ SameBounds(h, g) /\ g.fault = h.fault
    BY <1>1 DEF absorb_right, HeapType, SameBounds
  <2> HIDE DEF d, g
  <2>3. \A a \in Nat : Covers(h.size, a) => Covers(g.size, a)
    BY <1>1, <2>1, <2>2, JoinCovers
  <2>4. Kept(h, g)
    BY <2>2, <2>3 DEF Kept
  <2> QED BY <2>4 DEF g
<1> QED BY <1>3, <1>4

LEMMA MergedAdjacentKept ==
  ASSUME NEW h, HeapOk(h), NEW c \in Allocated(h)
  PROVE  Kept(h, merge_adjacent(h, c).heap)
<1> DEFINE l == merge_left(h, c)
           R == RightOf(l.heap, l.chunk)
           k == CHOOSE j \in R : TRUE
           r == merge_adjacent(h, c)
<1>1. /\ Kept(h, l.heap) /\ HeapOk(l.heap) /\ l.chunk \in Allocated(l.heap)
      /\ l = [heap |-> l.heap, chunk |-> l.chunk]
  <2>1. CASE LeftOf(h, c) = {}
    <3>1. l = [heap |-> h, chunk |-> c]
      BY <2>1 DEF merge_left
    <3> QED BY <3>1, SameKept DEF SameBounds
  <2>2. CASE LeftOf(h, c) # {}
    <3> DEFINE j == CHOOSE i \in LeftOf(h, c) : TRUE
    <3>1. j \in LeftOf(h, c)
      BY <2>2
    <3>2. l = [heap |-> absorb_left(h, c, j), chunk |-> h.free[j]]
      BY <2>2 DEF merge_left
    <3> HIDE DEF j, l
    <3>3. Moved(h, c, l.heap, l.chunk) /\ Kept(h, l.heap)
      BY <3>1, <3>2, AbsorbedLeft, AbsorbedKept
    <3> QED BY <3>2, <3>3 DEF Moved
  <2> QED BY <2>1, <2>2
<1>2. CASE R = {}
  BY <1>1, <1>2 DEF merge_adjacent
<1>3. CASE R # {}
  <2>1. k \in R
    BY <1>3
  <2>2. r = [l EXCEPT !.heap = absorb_right(l.heap, l.chunk, k)]
    BY <1>3 DEF merge_adjacent
  <2> HIDE DEF l, k, r
  <2>3. r.heap = absorb_right(l.heap, l.chunk, k)
    BY <1>1, <2>2
  <2>4. Kept(l.heap, r.heap)
    BY <1>1, <2>1, <2>3, AbsorbedKept
  <2>5. Kept(h, r.heap)
    BY <1>1, <2>4, KeptTwice
  <2> QED BY <2>5 DEF r
<1> QED BY <1>2, <1>3

\* ... and the split that follows it.
LEMMA SplitKept ==
  ASSUME NEW h, HeapOk(h), NEW c \in Allocated(h), NEW n \in Nat \ {0}, n <= h.size[c]
  PROVE  Kept(h, split(h, c, n))
<1> DEFINE x == h.size[c] - n
           d == c + n
           za == [h.size EXCEPT ![c] = n]
           zb == [za EXCEPT ![d] = x]
           m == Scribble(h.mem, d)
           a == [h EXCEPT !.size = za, !.mem = m]
           b == [a EXCEPT !.size = zb]
           g == split(h, c, n)
<1>1. /\ h \in HeapType /\ c \in Chunks(h) /\ c \in Addr /\ c \in Nat /\ h.size[c] \in Nat
      /\ h.size \in [Addr -> Nat] /\ h.mem \in [Addr -> Int]
      /\ chunk_end(h, c) = c + h.size[c] /\ chunk_end(h, c) <= MaxAddr
  BY AllocatedFacts, Fields
<1>2. CASE x < MinSize
  <2>1. g = h
    BY <1>2 DEF split
  <2> HIDE DEF g
  <2>2. Kept(h, g)
    BY <2>1, SameKept DEF SameBounds
  <2> QED BY <2>2 DEF g
<1>3. CASE ~(x < MinSize)
  <2>1. g = noc_free(b, d + Hdr)
    <3>1. g = insert_free_chunk(a, d, x)
      BY <1>3 DEF split
    <3>2. a.size = za
      BY <1>1 DEF HeapType
    <3> HIDE DEF a, za, d, x
    <3> QED BY <3>1, <3>2 DEF insert_free_chunk, chunk_to_data
  <2>2. d \in Nat /\ x \in Nat \ {0} /\ d <= MaxAddr /\ c < d /\ d < chunk_end(h, c)
        /\ h.size[c] = n + x /\ d = c + n
    BY <1>1, <1>3, Consts
  <2>3. d \notin Chunks(h)
    <3> SUFFICES ASSUME d \in Chunks(h) PROVE FALSE
      OBVIOUS
    <3> HIDE DEF d
    <3> QED BY <1>1, <2>2 DEF HeapOk, ChunksOk
  <2>4. m \in [Addr -> Int] /\ za \in [Addr -> Nat] /\ d \in Addr
    <3>1. m \in [Addr -> Int] /\ za \in [Addr -> Nat]
      BY <1>1, FillType, 0 \in Int
    <3> QED BY <2>2, <3>1, Consts DEF Addr
  <2> HIDE DEF x, d, m
  <2>5. h.size[d] = 0
    BY <1>1, <2>3, <2>4 DEF Chunks
  <2>6. zb \in [Addr -> Nat] /\ zb = Parted(h.size, c, n, d, x)
    <3>1. zb = Parted(h.size, c, n, d, x)
      BY DEF Parted
    <3> HIDE DEF za
    <3> QED BY <2>2, <2>4, <3>1
  <2>7. a \in HeapType /\ a.free = h.free /\ SameBounds(h, a) /\ a.fault = h.fault
    <3> HIDE DEF za
    <3> QED BY <1>1, <2>4 DEF HeapType, SameBounds
  <2>8. b \in HeapType /\ b.free = h.free /\ b.size = zb /\ SameBounds(h, b) /\ b.fault = h.fault
    <3> HIDE DEF a, zb
    <3> QED BY <2>6, <2>7 DEF HeapType, SameBounds
  <2> HIDE DEF a, b, zb
  <2>9. \A y \in Nat : Covers(h.size, y) => Covers(b.size, y)
    <3> DEFINE s == h.size
    <3>1. /\ s \in [Addr -> Nat] /\ s[c] = n + x /\ s[d] = 0 /\ b.size = Parted(s, c, n, d, x)
      BY <1>1, <2>2, <2>5, <2>6, <2>8
    <3> HIDE DEF s
    <3>2. \A y \in Nat : Covers(s, y) => Covers(b.size, y)
      BY <1>1, <2>2, <2>4, <3>1, CutCovers
    <3> QED BY <3>2 DEF s
  <2>10. Kept(h, b)
    BY <2>8, <2>9 DEF Kept
  <2>11. d \in Chunks(b) /\ \A e \in Chunks(h) \ {c} : e \in Chunks(b)
    <3>1. \A e \in Addr : b.size[e] = IF e = d THEN x ELSE IF e = c THEN n ELSE h.size[e]
      BY <1>1, <2>4, <2>8 DEF zb
    <3> QED BY <2>2, <2>4, <3>1 DEF Chunks
  <2>12. \A i \in 1 .. Len(b.free) : b.free[i] \in Chunks(b) /\ b.free[i] # d
    BY <2>3, <2>8, <2>11 DEF HeapOk, FreeOk, Allocated
  <2>13. Kept(h, noc_free(b, d + Hdr))
    BY <2>8, <2>10, <2>11, <2>12, FreedKept, KeptTwice
  <2> QED BY <2>1, <2>13
<1> QED BY <1>2, <1>3

\* realloc() from end to end.
LEMMA RelocatedOrderly ==
  ASSUME NEW h, HeapOk(h), Tidy(h), NEW c \in Allocated(h), NEW n \in Sizes, n # 0
  PROVE  Orderly(h, relocate(h, c, n).heap)
<1> DEFINE new == noc_malloc(h, n)
           u == new.heap
           m == Copy(u.mem, new.ptr, chunk_to_data(c), chunk_data_size(h, c))
           y == [u EXCEPT !.mem = m]
           g == noc_free(y, c + Hdr)
<1>1. Malloced(h, chunk_size_for_data(n), new) /\ Orderly(h, u)
  BY MallocChunk, MallocedOrderly
<1>2. CASE new.ptr = NULL
  BY <1>1, <1>2 DEF relocate
<1>3. CASE new.ptr # NULL
  <2>1. relocate(h, c, n).heap = g
    BY <1>3 DEF relocate, chunk_to_data
  <2>2. HeapOk(u) /\ c \in Allocated(u)
    BY <1>1 DEF Malloced
  <2> HIDE DEF new, u
  <2>3. m \in [Addr -> Int]
    <3>1. PICK d \in Addr \ Allocated(h) :
             /\ new.ptr = d + Hdr /\ Allocated(u) = Allocated(h) \cup {d}
             /\ chunk_size_for_data(n) <= u.size[d]
      BY <1>1, <1>3 DEF Malloced, u
    <3>2. new.ptr \in Int /\ u.mem \in [Addr -> Int]
      BY <2>2, <3>1, AddrNat, Consts, Fields DEF HeapOk
    <3> QED BY <3>2, CopiedType
  <2> HIDE DEF m
  <2>4. /\ HeapOk(y) /\ Allocated(y) = Allocated(u) /\ y.size = u.size /\ SameBounds(u, y)
        /\ y.fault = u.fault /\ u \in HeapType
    <3>1. u \in HeapType
      BY <2>2 DEF HeapOk
    <3>2. HeapOk(y) /\ Allocated(y) = Allocated(u) /\ y.size = u.size /\ SameBounds(u, y)
      BY <2>2, <2>3, OtherBytes
    <3>3. y.fault = u.fault
      BY <3>1 DEF HeapType
    <3> QED BY <3>1, <3>2, <3>3
  <2> HIDE DEF y
  <2>5. /\ y \in HeapType /\ c \in Chunks(y)
        /\ \A i \in 1 .. Len(y.free) : y.free[i] \in Chunks(y) /\ y.free[i] # c
    BY <2>2, <2>4 DEF Chunks, HeapOk, FreeOk, Allocated
  <2>6. Kept(u, y) /\ Kept(y, g)
    BY <2>4, <2>5, SameKept, FreedKept
  <2>7. Orderly(h, g)
    BY <1>1, <2>4, <2>6, KeptTwice, KeptOrderly, OrderlyTwice
  <2> QED BY <2>1, <2>7
<1> QED BY <1>2, <1>3

LEMMA ReallocedOrderly ==
  ASSUME NEW h, HeapOk(h), Tidy(h), AlignedHeap(h), NEW c \in Allocated(h), NEW n \in Sizes, n # 0
  PROVE  Orderly(h, noc_realloc(h, c + Hdr, n).heap)
<1> DEFINE p     == c + Hdr
           alloc == chunk_size_for_data(n)
           grow  == chunk_grow(h, c, alloc)
           u     == grow.heap
           m     == merge_adjacent(u, c)
           r     == noc_realloc(h, p, n)
<1>1. /\ h.size[c] \in Nat /\ alloc \in Nat \ {0} /\ alloc % Align = 0 /\ h \in HeapType
      /\ chunk_from_data(p) = c /\ p # NULL
  <2>1. c \in Nat /\ h.size[c] \in Nat /\ h \in HeapType
    BY AllocatedFacts
  <2> QED BY <2>1, ChunkSizeForData, AlignedSize, Consts DEF chunk_from_data, NULL
<1>2. \/ r.heap = h
      \/ h.size[c] >= alloc /\ r.heap = split(h, c, alloc)
      \/ ~(h.size[c] >= alloc) /\ grow.ok /\ r.heap = u
      \/ ~(h.size[c] >= alloc) /\ ~grow.ok /\ m.heap.size[m.chunk] >= alloc
            /\ r.heap = split(m.heap, m.chunk, alloc)
      \/ ~(h.size[c] >= alloc) /\ ~grow.ok /\ r.heap = relocate(m.heap, m.chunk, n).heap
  BY <1>1 DEF noc_realloc
<1> HIDE DEF r, m, u, grow, alloc, p
<1>3. CASE r.heap = h
  <2>1. Orderly(h, r.heap)
    BY <1>3 DEF Orderly
  <2> QED BY <2>1 DEF r, p
<1>4. CASE h.size[c] >= alloc /\ r.heap = split(h, c, alloc)
  <2>1. Orderly(h, r.heap)
    BY <1>1, <1>4, SplitKept, KeptOrderly
  <2> QED BY <2>1 DEF r, p
<1>5. CASE ~(h.size[c] >= alloc)
  <2>1. Grown(h, c, alloc, grow) /\ Orderly(h, u)
    BY <1>1, <1>5, ChunkSizeForData, GrownChunk, GrownOrderly DEF u, grow, alloc
  <2>2. CASE grow.ok /\ r.heap = u
    <3>1. Orderly(h, r.heap)
      BY <2>1, <2>2
    <3> QED BY <3>1 DEF r, p
  <2>3. CASE ~grow.ok
    <3>1. HeapOk(u) /\ c \in Allocated(u) /\ u \in HeapType
      BY <2>1, <2>3 DEF Grown, u, HeapOk
    <3>2. Moved(u, c, m.heap, m.chunk) /\ Kept(u, m.heap)
      BY <3>1, MergedAdjacent, MergedAdjacentKept DEF m
    <3>3. HeapOk(m.heap) /\ m.chunk \in Allocated(m.heap) /\ Orderly(u, m.heap) /\ m.heap \in HeapType
      BY <3>1, <3>2, KeptOrderly DEF Moved, HeapOk
    <3>4. Orderly(h, m.heap)
      BY <2>1, <3>3, OrderlyTwice
    <3>5. CASE m.heap.size[m.chunk] >= alloc /\ r.heap = split(m.heap, m.chunk, alloc)
      <4>1. m.heap.size[m.chunk] \in Nat
        BY <3>3, AllocatedFacts
      <4>2. Kept(m.heap, r.heap)
        BY <1>1, <3>3, <3>5, <4>1, SplitKept
      <4>3. Orderly(h, r.heap)
        BY <3>3, <3>4, <4>2, KeptOrderly, OrderlyTwice
      <4> QED BY <4>3 DEF r, p
    <3>6. CASE r.heap = relocate(m.heap, m.chunk, n).heap
      <4>1. Tidy(m.heap)
        BY <3>4 DEF Orderly
      <4>2. Orderly(m.heap, r.heap)
        BY <3>3, <3>6, <4>1, RelocatedOrderly
      <4>3. Orderly(h, r.heap)
        BY <3>4, <4>2, OrderlyTwice
      <4> QED BY <4>3 DEF r, p
    <3> QED BY <1>2, <1>3, <1>4, <1>5, <2>3, <3>5, <3>6
  <2> QED BY <1>2, <1>3, <1>4, <1>5, <2>2, <2>3
<1> QED BY <1>2, <1>3, <1>4, <1>5

\* The platform and sbrk()'s other users keep the break aligned.
AlignedBreaks == BrkStart % Align = 0 /\ \A i \in ForeignIncrs : i % Align = 0

\* free(NULL) returns at once.
LEMMA TidyFreeNull ==
  ASSUME NEW h \in HeapType, Tidy(h)
  PROVE  noc_free(h, NULL) = h
<1>1. NULL < h.sbrk_start \/ NULL >= h.sbrk_end
  BY Fields DEF Tidy, NULL
<1> QED BY <1>1 DEF noc_free

LEMMA NextOrderly ==
  ASSUME AlignedBreaks
  PROVE  IInv /\ AlignedHeap(heap) /\ Tidy(heap) /\ [Next]_vars =>
            Tidy(heap)' /\ (ForeignIncrs = {} /\ Tiled(heap) => Tiled(heap)')
<1> SUFFICES ASSUME IInv, AlignedHeap(heap), Tidy(heap), [Next]_vars
             PROVE  Tidy(heap)' /\ (ForeignIncrs = {} /\ Tiled(heap) => Tiled(heap)')
  OBVIOUS
<1> DEFINE Goal == Tidy(heap)' /\ (ForeignIncrs = {} /\ Tiled(heap) => Tiled(heap)')
<1>1. HeapOk(heap) /\ Accounts(Allocated(heap), heap.size, obj, lost) /\ heap \in HeapType
  BY IInvAccounts DEF HeapOk
<1>2. ASSUME NEW g, g \in HeapType, Orderly(heap, g), NEW o, NEW p, NEW kept, heap' = Use(g, o, p, kept)
      PROVE  Goal
  <2>1. heap'.size = g.size /\ SameBounds(g, heap') /\ heap'.fault = g.fault
    BY <1>2 DEF Use, HeapType, SameBounds
  <2>2. Orderly(g, heap')
    BY <1>2, <2>1, SameKept, KeptOrderly
  <2> QED BY <1>2, <2>2 DEF Orderly, Tidy, Tiled
<1> HIDE DEF Goal
<1>3. ASSUME NEW n \in Sizes, Malloc(n) PROVE Goal
  <2> DEFINE r == noc_malloc(heap, n)
  <2>1. Orderly(heap, r.heap) /\ r.heap \in HeapType
    BY <1>1, MallocedOrderly, MallocChunk DEF Malloced, HeapOk
  <2>2. heap' = Use(r.heap, obj', r.ptr, 0)
    BY <1>3 DEF Malloc, Obtain
  <2> HIDE DEF r
  <2> QED BY <1>2, <2>1, <2>2
<1>4. ASSUME NEW k \in Nmembs, NEW n \in Sizes, Calloc(k, n) PROVE Goal
  <2> DEFINE r == noc_calloc(heap, k, n)
  <2>1. Orderly(heap, r.heap) /\ r.heap \in HeapType
    BY <1>1, CallocedOrderly, CallocChunk DEF Malloced, HeapOk
  <2>2. heap' = Use(r.heap, obj', r.ptr, 0)
    BY <1>4 DEF Calloc, Obtain
  <2> HIDE DEF r
  <2> QED BY <1>2, <2>1, <2>2
<1>5. ASSUME NEW p \in Addr, p \in Held(obj) \cup {NULL}
      PROVE  Orderly(heap, noc_free(heap, p)) /\ noc_free(heap, p) \in HeapType
  <2>1. CASE p = NULL
    BY <1>1, <2>1, TidyFreeNull DEF Orderly
  <2>2. CASE p \in Held(obj)
    <3> DEFINE c == chunk_from_data(p)
    <3>1. c \in Allocated(heap) /\ p = c + Hdr
      BY <1>1, <2>2, HeldChunk
    <3>2. c \in Chunks(heap) /\ \A i \in 1 .. Len(heap.free) : heap.free[i] \in Chunks(heap) /\ heap.free[i] # c
      BY <1>1, <3>1 DEF Allocated, HeapOk, FreeOk
    <3> HIDE DEF c
    <3>3. Kept(heap, noc_free(heap, p)) /\ Freed(heap, c, noc_free(heap, p))
      BY <1>1, <3>1, <3>2, FreedKept, FreeChunk
    <3> QED BY <1>1, <3>3, KeptOrderly DEF Freed, HeapOk
  <2> QED BY <1>5, <2>1, <2>2
<1>6. ASSUME NEW p \in Addr, Free(p) PROVE Goal
  <2>1. heap' = Use(noc_free(heap, p), obj', NULL, 0) /\ p \in Held(obj) \cup {NULL}
    BY <1>6 DEF Free, Held
  <2> QED BY <1>2, <1>5, <2>1
<1>7. ASSUME NEW p \in Addr, NEW n \in Sizes, Realloc(p, n) PROVE Goal
  <2> DEFINE r == noc_realloc(heap, p, n)
             c == chunk_from_data(p)
  <2>1. PICK o, kept : heap' = Use(r.heap, o, r.ptr, kept)
    BY <1>7 DEF Realloc, Exchange
  <2>2. p \in Held(obj) \cup {NULL}
    BY <1>7 DEF Realloc, Held
  <2>3. Orderly(heap, r.heap) /\ r.heap \in HeapType
    <3>1. CASE p = NULL
      <4>1. r.heap = noc_malloc(heap, n).heap
        BY <3>1 DEF noc_realloc
      <4> HIDE DEF r
      <4> QED BY <1>1, <4>1, MallocedOrderly, MallocChunk DEF Malloced, HeapOk
    <3>2. CASE p # NULL /\ n = 0
      <4>1. r.heap = noc_free(heap, p)
        BY <3>2 DEF noc_realloc
      <4> HIDE DEF r
      <4> QED BY <1>5, <2>2, <4>1
    <3>3. CASE p # NULL /\ n # 0
      <4>1. c \in Allocated(heap) /\ p = c + Hdr
        BY <1>1, <2>2, <3>3, HeldChunk
      <4> HIDE DEF c
      <4>2. Orderly(heap, noc_realloc(heap, p, n).heap) /\ Realloced(heap, c, n, noc_realloc(heap, p, n))
        BY <1>1, <3>3, <4>1, ReallocedOrderly, ReallocChunk
      <4> HIDE DEF r
      <4>3. Orderly(heap, r.heap) /\ Realloced(heap, c, n, r)
        BY <4>2 DEF r
      <4> QED BY <4>3 DEF Realloced, Moved, HeapOk
    <3> QED BY <3>1, <3>2, <3>3
  <2> HIDE DEF r
  <2> QED BY <1>2, <2>1, <2>3
<1>8. ASSUME NEW i \in ForeignIncrs, ForeignSbrk(i) PROVE Goal
  <2>1. heap' = heap \/ heap' = [heap EXCEPT !.brk = heap.brk + i]
    BY <1>8 DEF ForeignSbrk, sbrk
  <2>2. heap'.fault = heap.fault /\ heap'.sbrk_start = heap.sbrk_start /\ heap'.sbrk_end = heap.sbrk_end
        /\ (heap'.brk = heap.brk \/ heap'.brk = heap.brk + i)
    BY <1>1, <2>1 DEF HeapType
  <2>3. (heap.brk + i) % Align = 0 /\ heap.brk % Align = 0
    <3>1. heap.brk \in Int /\ i \in Int /\ heap.brk % Align = 0 /\ i % Align = 0
      BY <1>1, Fields, ConstantsAssumption DEF Tidy, AlignedBreaks
    <3> QED BY <3>1, AlignedSum
  <2> QED BY <2>2, <2>3 DEF Goal, Tidy
<1>9. CASE UNCHANGED vars
  BY <1>9 DEF vars, Goal, Tidy, Tiled
<1>10. Next \/ UNCHANGED vars
  OBVIOUS
<1> QED BY <1>3, <1>4, <1>6, <1>7, <1>8, <1>9, <1>10 DEF Next, Goal

LEMMA InitOrderly ==
  ASSUME AlignedBreaks
  PROVE  Init => AlignedHeap(heap) /\ Tidy(heap) /\ Tiled(heap)
BY DEF Init, AlignedHeap, Chunks, Tidy, Tiled, AlignedBreaks

\* "If ptr is a null pointer, no action occurs" (malloc.c:251-252): free() leaves
\* NULL alone because it is below the heap's start or, before the first call,
\* not below its end. With an unaligned break the end may be set and the start
\* not (malloc.c:118-134), and the header of NULL is read.
THEOREM NullIsLeftAlone == ASSUME AlignedBreaks PROVE Spec => []NullIsNeverFreed
<1>1. Tidy(heap) => NullIsNeverFreed
  BY DEF Tidy, NullIsNeverFreed
<1> QED BY <1>1, Invariance, NextAligned, NextOrderly, InitOrderly, PTL DEF Spec

\* Every byte between sbrk_start and sbrk_end belongs to exactly one chunk: no
\* cut, merge or new block leaves a gap. Nobody else may call sbrk().
THEOREM HeapIsTiled == ASSUME AlignedBreaks, ForeignIncrs = {} PROVE Spec => []HeapTiled
<1>1. IInv /\ Tidy(heap) /\ Tiled(heap) => HeapTiled
  <2> SUFFICES ASSUME IInv, Tidy(heap), Tiled(heap),
                      NEW a \in heap.sbrk_start .. heap.sbrk_end - 1, a # NULL
               PROVE  \E c \in Chunks(heap) :
                         /\ a \in Bytes(c, heap.size[c])
                         /\ \A d \in Chunks(heap) \ {c} : a \notin Bytes(d, heap.size[d])
    BY DEF HeapTiled
  <2>1. /\ heap \in HeapType /\ ChunksOk(heap) /\ heap.sbrk_start \in Nat /\ heap.sbrk_end \in Nat
        /\ heap.size \in [Addr -> Nat]
    BY Fields DEF IInv, HeapOk
  <2>2. heap.sbrk_start # NULL
    BY <2>1 DEF Tidy, NULL
  <2>3. PICK c \in Addr : heap.size[c] > 0 /\ a \in c .. c + heap.size[c] - 1
    BY <2>2 DEF Tiled, Covers
  <2>4. c \in Chunks(heap)
    BY <2>3 DEF Chunks
  <2>5. ASSUME NEW d \in Chunks(heap) \ {c} PROVE a \notin Bytes(d, heap.size[d])
    <3>1. /\ c \in Nat /\ d \in Nat /\ heap.size[c] \in Nat /\ heap.size[d] \in Nat /\ c # d
      BY <2>1, <2>4, ChunkNat
    <3>2. c + heap.size[c] <= d \/ d + heap.size[d] <= c
      BY <2>1, <2>4, <3>1 DEF ChunksOk, chunk_end
    <3> QED BY <2>1, <2>3, <3>1, <3>2 DEF Bytes
  <2> QED BY <2>3, <2>4, <2>5 DEF Bytes
<1> QED BY <1>1, Invariance, NextAligned, NextOrderly, InitOrderly, PTL DEF Spec

LEMMA FreeSet ==
  ASSUME NEW h, HeapOk(h)
  PROVE  /\ FreeChunks(h) = {h.free[i] : i \in 1 .. Len(h.free)}
         /\ FreeChunks(h) = Chunks(h) \ Allocated(h)
<1>1. FreeChunks(h) = {h.free[i] : i \in 1 .. Len(h.free)}
  BY Fields DEF FreeChunks, ToSet, HeapOk
<1> QED BY <1>1 DEF Allocated, HeapOk, FreeOk

\* malloc() gives up only when no chunk on the list is large enough.
LEMMA NoneFits ==
  ASSUME SmallHeap, NEW h, HeapOk(h), NEW n \in Sizes \ {0}, noc_malloc(h, n).ptr = NULL
  PROVE  /\ Chosen(h, chunk_size_for_data(n)) = {}
         /\ \A d \in FreeChunks(h) : h.size[d] < chunk_size_for_data(n)
<1> DEFINE size == chunk_size_for_data(n)
           k == CHOOSE j \in Chosen(h, size) : TRUE
<1>1. size \in Nat \ {0}
  BY ChunkSizeForData
<1>2. Chosen(h, size) = {}
  <2> SUFFICES ASSUME Chosen(h, size) # {} PROVE FALSE
    OBVIOUS
  <2>1. noc_malloc(h, n).ptr = chunk_to_data(h.free[k]) /\ k \in 1 .. Len(h.free)
    <3>1. k \in Chosen(h, size)
      OBVIOUS
    <3> QED BY <3>1 DEF noc_malloc, Chosen
  <2> HIDE DEF k
  <2>2. h.free[k] \in Nat
    BY <2>1, FreeSizes
  <2> QED BY <2>1, <2>2, Consts DEF chunk_to_data, NULL
<1> HIDE DEF size
<1>3. ASSUME NEW d \in FreeChunks(h) PROVE h.size[d] < size
  <2>1. PICK i \in 1 .. Len(h.free) : d = h.free[i]
    BY FreeSet
  <2>2. ~Fits(h, i, size)
    BY <1>1, <1>2, SearchFinds
  <2>3. h.size[d] \in Nat
    BY <2>1, FreeSizes
  <2> QED BY <1>1, <2>1, <2>2, <2>3 DEF Fits
<1> QED BY <1>2, <1>3 DEF size

\* ... and sbrk() has no room left for a new one.
LEMMA NoRoom ==
  ASSUME SmallHeap, BrkEnd <= SizeMod \div 2, NEW h, HeapOk(h), h.brk % Align = 0,
         NEW n \in Sizes \ {0}, NEW size, size = chunk_size_for_data(n),
         NEW r, r = noc_malloc(h, n), r.ptr = NULL
  PROVE  /\ h.brk + size > BrkEnd
         /\ size < SizeMod \div 2 => r.heap.errno = ENOMEM
<1> DEFINE s == aligned_sbrk(h, size)
<1>1. size \in Nat \ {0} /\ h \in HeapType
  BY ChunkSizeForData DEF HeapOk
<1>2. r = extend(h, size)
  BY NoneFits DEF noc_malloc, chunk_grow, LastLink
<1>3. AtBreak(h, size, s) /\ Granted(h, size, s)
  BY <1>1, GrantedAtBreak, AlignedSbrk
<1>4. s.ptr = SBRK_FAILURE /\ r.heap = s.heap
  <2>1. CASE s.ptr = SBRK_FAILURE
    BY <1>2, <2>1 DEF extend
  <2>2. CASE s.ptr # SBRK_FAILURE
    <3>1. r.ptr = chunk_to_data(s.ptr) /\ s.ptr \in Addr
      BY <1>2, <1>3, <2>2 DEF extend, Granted
    <3>2. s.ptr \in Nat
      BY <3>1, AddrNat
    <3> HIDE DEF s
    <3> QED BY <3>1, <3>2, Consts DEF chunk_to_data, NULL
  <2> QED BY <2>1, <2>2
<1>5. h.brk \in Nat /\ h.brk >= BrkStart
  BY <1>1, Fields, Consts
<1> HIDE DEF s
<1>6. s.ptr # h.brk
  BY <1>4, <1>5 DEF SBRK_FAILURE
<1>7. size < SizeMod \div 2 => h.brk + size > BrkEnd /\ r.heap.errno = ENOMEM
  BY <1>3, <1>4, <1>6 DEF AtBreak
<1>8. ~(size < SizeMod \div 2) => h.brk + size > BrkEnd
  <2>1. SizeMod \div 2 \in Int
    BY Consts
  <2> QED BY <1>1, <1>5, <2>1, Consts
<1> QED BY <1>7, <1>8

\* malloc() gives up only when no free chunk is large enough and the environment
\* has no room left, and then errno says so (malloc.c:114, 185-186).
THEOREM FailsOnlyWhenFull ==
  ASSUME SmallHeap, AlignedBreaks, BrkEnd <= SizeMod \div 2
  PROVE  Spec => []MallocFailsOnlyWhenFull
<1>1. IInv /\ Tidy(heap) => MallocFailsOnlyWhenFull
  <2> SUFFICES ASSUME IInv, Tidy(heap), NEW n \in Sizes \ {0},
                      NEW size, size = chunk_size_for_data(n),
                      NEW r, r = noc_malloc(heap, n), r.ptr = NULL
               PROVE  /\ \A c \in FreeChunks(heap) : heap.size[c] < size
                      /\ heap.brk + size > BrkEnd
                      /\ size < SizeMod \div 2 => r.heap.errno = ENOMEM
    BY DEF MallocFailsOnlyWhenFull
  <2>1. HeapOk(heap) /\ heap.brk % Align = 0
    BY DEF IInv, Tidy
  <2> QED BY <2>1, NoneFits, NoRoom
<1> QED BY <1>1, Invariance, NextAligned, NextOrderly, InitOrderly, PTL DEF Spec

-----------------------------------------------------------------------------
(* What mem_free() counts *)

\* Nothing leaks (test_malloc.c:26, 36, 47): what mem_free() counts and what is
\* allocated or lost make up the heap, the bytes from sbrk_start to sbrk_end.
THEOREM MemoryIsAccountedFor ==
  ASSUME AlignedBreaks, ForeignIncrs = {} PROVE Spec => []MemFreeAccounts
<1>1. IInv /\ Tidy(heap) /\ Tiled(heap) => MemFreeAccounts
  <2> SUFFICES ASSUME IInv, Tidy(heap), Tiled(heap) PROVE MemFreeAccounts
    OBVIOUS
  <2> DEFINE size == heap.size
             F == FreeChunks(heap)
             A == Allocated(heap)
             C == Chunks(heap)
  <2>1. /\ heap \in HeapType /\ HeapOk(heap) /\ ChunksOk(heap) /\ FreeOk(heap)
        /\ heap.sbrk_start \in Nat /\ heap.sbrk_end \in Nat /\ heap.sbrk_start <= heap.sbrk_end
        /\ A = HeldChunks \cup lost /\ heap.free \in Seq(Addr)
    BY Fields DEF IInv, HeapOk, ChunksOk, HeapType
  <2>2. F = {heap.free[i] : i \in 1 .. Len(heap.free)}
    BY <2>1 DEF FreeChunks, ToSet
  <2>3. F \cup A = C /\ F \cap A = {}
    BY <2>1, <2>2 DEF FreeOk, Allocated
  <2>4. IsFiniteSet(C) /\ IsFiniteSet(F) /\ IsFiniteSet(A)
    <3>1. IsFiniteSet(Addr)
      <4>1. 0 \in Int /\ MaxAddr \in Int
        BY ConstantsAssumption
      <4> QED BY <4>1, FS_Interval DEF Addr
    <3>2. C \subseteq Addr
      BY DEF Chunks
    <3>3. F \subseteq C /\ A \subseteq C
      BY <2>3
    <3> HIDE DEF F, A, C
    <3>4. IsFiniteSet(C)
      BY <3>1, <3>2, FS_Subset
    <3> QED BY <3>3, <3>4, FS_Subset
  <2>5. \A c \in C : c \in Nat /\ size[c] \in Nat \ {0}
    BY <2>1, ChunkNat
  <2>6. SumOver(size, C) = SumOver(size, F) + SumOver(size, A)
    <3>1. \A c \in F \cup A : size[c] \in Nat
      BY <2>3, <2>5
    <3> HIDE DEF F, A, C, size
    <3> QED BY <2>3, <2>4, <3>1, SumUnion
  <2>7. SumOver(size, C) = heap.sbrk_end - heap.sbrk_start
    <3>1. CASE heap.sbrk_start = NULL
      <4>1. C = {}
        BY <2>1, <3>1 DEF ChunksOk
      <4>2. heap.sbrk_end = NULL
        BY <3>1 DEF Tidy
      <4>3. SumOver(size, {}) = 0
        <5> HIDE DEF size
        <5> QED BY Sums, FS_EmptySet
      <4> HIDE DEF C, size
      <4> QED BY <3>1, <4>1, <4>2, <4>3 DEF NULL
    <3>2. CASE heap.sbrk_start # NULL
      <4> DEFINE a == heap.sbrk_start
                 b == heap.sbrk_end
      <4>1. \A c \in C : a <= c /\ c + size[c] <= b
        BY <2>1 DEF ChunksOk, chunk_end
      <4>2. \A c, d \in C : c < d => c + size[c] <= d
        BY <2>1 DEF ChunksOk, chunk_end
      <4>3. \A x \in a .. b - 1 : \E c \in C : x \in c .. c + size[c] - 1
        BY <3>2 DEF Tiled, Covers, Chunks
      <4>4. a \in Nat /\ b \in Nat /\ a <= b
        BY <2>1
      <4> HIDE DEF C, size, a, b
      <4>5. TilesUp(size, C, a, b)
        BY <2>5, <4>1, <4>2, <4>3 DEF TilesUp
      <4>6. SumOver(size, C) = b - a
        BY <2>4, <4>4, <4>5, TiledSum
      <4> QED BY <4>6 DEF a, b
    <3> QED BY <3>1, <3>2
  <2>8. /\ mem_free(heap) = SumOver(size, F)
        /\ MapThenSumSet(LAMBDA c : heap.size[c], HeldChunks \cup lost) = SumOver(size, A)
    BY <2>1 DEF mem_free, SumOver, FreeChunks
  <2> HIDE DEF size, F, A, C
  <2> QED BY <2>6, <2>7, <2>8 DEF MemFreeAccounts
<1> QED BY <1>1, Invariance, NextAligned, NextOrderly, InitOrderly, PTL DEF Spec

-----------------------------------------------------------------------------
(* When realloc() gives up *)

\* Chunk c of h has taken in the free chunk d, and is now chunk x of g.
TookIn(h, c, d, g, x) ==
  /\ HeapOk(g) /\ x \in Allocated(g) /\ g.size[x] = h.size[c] + h.size[d]
  /\ FreeChunks(g) = FreeChunks(h) \ {d}
  /\ \A e \in FreeChunks(g) : g.size[e] = h.size[e]

LEMMA Absorbed ==
  ASSUME NEW h, HeapOk(h), NEW c \in Allocated(h), NEW k \in 1 .. Len(h.free),
         NEW d, d = h.free[k],
         NEW g \in HeapType, g.free = RemoveAt(h.free, k), SameBounds(h, g),
         NEW a, NEW b, (a = c /\ b = d) \/ (a = d /\ b = c),
         chunk_end(h, a) = b, g.size = Join(h.size, a, b)
  PROVE  TookIn(h, c, d, g, a)
<1> DEFINE u == [h EXCEPT !.free = g.free]
<1>1. /\ h \in HeapType /\ g.free \in Seq(Addr) /\ g.size \in [Addr -> Nat]
  BY DEF HeapOk, HeapType
<1>2. u \in HeapType /\ u.free = g.free /\ u.size = h.size /\ SameBounds(h, u)
  BY <1>1 DEF HeapType, SameBounds
<1> HIDE DEF u
<1>3. /\ HeapOk(u) /\ Allocated(u) = Allocated(h) \cup {d} /\ Chunks(u) = Chunks(h)
      /\ d \in Chunks(h)
  BY <1>2, Unlinked
<1>4. a \in Allocated(u) /\ b \in Allocated(u) /\ chunk_end(u, a) = b
  BY <1>2, <1>3 DEF chunk_end
<1>5. /\ HeapOk(g) /\ Allocated(g) = Allocated(u) \ {b} /\ a # b
      /\ g.size[a] = u.size[a] + u.size[b]
      /\ \A e \in Chunks(u) \ {a, b} : g.size[e] = u.size[e]
  <2>1. SameBounds(u, g) /\ g.size = Join(u.size, a, b) /\ g.free = u.free
    BY <1>2 DEF SameBounds
  <2> QED BY <1>3, <1>4, <2>1, JoinedAllocated
<1>6. h.size[c] \in Nat /\ h.size[d] \in Nat
  BY <1>1, <1>3, AllocatedFacts, ChunkNat
<1>7. FreeChunks(g) = FreeChunks(u)
  BY <1>2 DEF FreeChunks
<1>8. FreeChunks(u) = Chunks(u) \ Allocated(u) /\ FreeChunks(h) = Chunks(h) \ Allocated(h)
  BY <1>3, FreeSet
<1>9. FreeChunks(g) = FreeChunks(h) \ {d}
  BY <1>3, <1>7, <1>8
<1>10. \A e \in FreeChunks(g) : e \in Chunks(u) \ {a, b}
  BY <1>4, <1>7, <1>8
<1>11. \A e \in FreeChunks(g) : g.size[e] = h.size[e]
  BY <1>2, <1>5, <1>10
<1>12. g.size[a] = h.size[c] + h.size[d]
  BY <1>2, <1>5, <1>6
<1> QED BY <1>4, <1>5, <1>9, <1>11, <1>12 DEF TookIn

LEMMA AbsorbedRoom ==
  ASSUME NEW h, HeapOk(h), NEW c \in Allocated(h)
  PROVE  /\ \A k \in LeftOf(h, c) : TookIn(h, c, h.free[k], absorb_left(h, c, k), h.free[k])
         /\ \A k \in RightOf(h, c) : TookIn(h, c, h.free[k], absorb_right(h, c, k), c)
<1>1. h \in HeapType
  BY DEF HeapOk
<1>2. ASSUME NEW k \in LeftOf(h, c)
      PROVE  TookIn(h, c, h.free[k], absorb_left(h, c, k), h.free[k])
  <2> DEFINE d == h.free[k]
             g == absorb_left(h, c, k)
  <2>1. k \in 1 .. Len(h.free) /\ chunk_end(h, d) = c
    BY DEF LeftOf
  <2>2. g.size = Join(h.size, d, c) /\ SameBounds(h, g) /\ g.free = RemoveAt(h.free, k)
    BY <1>1 DEF absorb_left, HeapType, SameBounds
  <2>3. g \in HeapType
    BY AbsorbedLeft DEF Moved, HeapOk
  <2> HIDE DEF d, g
  <2>4. d = h.free[k]
    BY DEF d
  <2>5. TookIn(h, c, d, g, d)
    BY <2>1, <2>2, <2>3, <2>4, Absorbed
  <2> QED BY <2>5 DEF d, g
<1>3. ASSUME NEW k \in RightOf(h, c)
      PROVE  TookIn(h, c, h.free[k], absorb_right(h, c, k), c)
  <2> DEFINE d == h.free[k]
             g == absorb_right(h, c, k)
  <2>1. k \in 1 .. Len(h.free) /\ chunk_end(h, c) = d
    BY DEF RightOf
  <2>2. g.size = Join(h.size, c, d) /\ SameBounds(h, g) /\ g.free = RemoveAt(h.free, k)
    BY <1>1 DEF absorb_right, HeapType, SameBounds
  <2>3. g \in HeapType
    BY AbsorbedRight DEF Moved, HeapOk
  <2> HIDE DEF d, g
  <2>4. d = h.free[k]
    BY DEF d
  <2>5. TookIn(h, c, d, g, c)
    BY <2>1, <2>2, <2>3, <2>4, Absorbed
  <2> QED BY <2>5 DEF d, g
<1> QED BY <1>2, <1>3

\* The free chunks next to c, which the loop of realloc() does not miss: it
\* stops behind the end of c, and the list is sorted.
LeftFree(h, c) == {d \in FreeChunks(h) : chunk_end(h, d) = c}
Near(h, c) == {d \in FreeChunks(h) : chunk_end(h, d) = c \/ d = chunk_end(h, c)}

LEMMA ReachedSorted ==
  ASSUME NEW h, HeapOk(h), NEW k \in 1 .. Len(h.free), NEW e \in Nat, h.free[k] <= e
  PROVE  Reached(h, k, e)
<1> SUFFICES ASSUME NEW j \in 1 .. k PROVE h.free[j] <= e
  BY DEF Reached
<1>1. Len(h.free) \in Nat
  BY Fields DEF HeapOk
<1>2. j \in 1 .. Len(h.free) /\ (j < k \/ j = k)
  BY <1>1
<1>3. h.free[j] \in Chunks(h) /\ h.free[k] \in Chunks(h) /\ h \in HeapType
  BY <1>2 DEF HeapOk, FreeOk
<1>4. /\ h.free[j] \in Nat /\ h.free[k] \in Nat /\ chunk_end(h, h.free[j]) \in Nat
      /\ h.free[j] < chunk_end(h, h.free[j])
  BY <1>3, ChunkNat
<1>5. j < k => chunk_end(h, h.free[j]) < h.free[k]
  BY <1>2 DEF HeapOk, FreeOk
<1> QED BY <1>2, <1>4, <1>5

LEMMA LeftFreeFound ==
  ASSUME NEW h, HeapOk(h), NEW c \in Allocated(h)
  PROVE  /\ LeftOf(h, c) = {} => LeftFree(h, c) = {}
         /\ \A k \in LeftOf(h, c) : LeftFree(h, c) = {h.free[k]}
<1>1. /\ h \in HeapType /\ ChunksOk(h) /\ c \in Nat /\ chunk_end(h, c) \in Nat /\ c < chunk_end(h, c)
  BY AllocatedFacts, ChunkNat DEF HeapOk
<1>2. \A d \in FreeChunks(h) : d \in Chunks(h)
  BY FreeSet
<1>3. ASSUME NEW d \in LeftFree(h, c) PROVE \E k \in LeftOf(h, c) : d = h.free[k]
  <2>1. d \in FreeChunks(h) /\ chunk_end(h, d) = c
    BY DEF LeftFree
  <2>2. PICK k \in 1 .. Len(h.free) : d = h.free[k]
    BY <2>1, FreeSet
  <2>3. d \in Nat /\ d < c
    BY <1>1, <1>2, <2>1, ChunkNat
  <2>4. h.free[k] <= chunk_end(h, c)
    BY <1>1, <2>2, <2>3
  <2>5. Reached(h, k, chunk_end(h, c))
    BY <1>1, <2>4, ReachedSorted
  <2>6. k \in LeftOf(h, c)
    BY <2>1, <2>2, <2>5 DEF LeftOf
  <2> QED BY <2>2, <2>6
<1>4. ASSUME NEW d \in LeftFree(h, c), NEW e \in LeftFree(h, c) PROVE d = e
  <2>1. /\ d \in Chunks(h) /\ e \in Chunks(h) /\ chunk_end(h, d) = c /\ chunk_end(h, e) = c
    BY <1>2 DEF LeftFree
  <2>2. d \in Nat /\ e \in Nat /\ d < c /\ e < c
    BY <1>1, <2>1, ChunkNat
  <2>3. (d < e => chunk_end(h, d) <= e) /\ (e < d => chunk_end(h, e) <= d)
    BY <1>1, <2>1 DEF ChunksOk
  <2> QED BY <1>1, <2>1, <2>2, <2>3
<1>5. ASSUME NEW k \in LeftOf(h, c) PROVE h.free[k] \in LeftFree(h, c)
  BY FreeSet DEF LeftOf, LeftFree
<1> QED BY <1>3, <1>4, <1>5

\* Chunk x of g is chunk c of h together with the free chunks N of h.
Gathered(h, c, N, g, x) ==
  /\ HeapOk(g) /\ x \in Allocated(g) /\ chunk_end(g, x) \in Nat
  /\ FreeChunks(g) = FreeChunks(h) \ N
  /\ \A e \in FreeChunks(g) : g.size[e] = h.size[e]
  /\ g.size[x] = SumOver(h.size, N \cup {c})

LEMMA FreeFinite ==
  ASSUME NEW h, HeapOk(h)
  PROVE  /\ \A N \in SUBSET FreeChunks(h) : IsFiniteSet(N)
         /\ \A d \in Chunks(h) : d \in Nat /\ h.size[d] \in Nat
         /\ FreeChunks(h) \subseteq Chunks(h)
<1>1. IsFiniteSet(Addr)
  <2>1. 0 \in Int /\ MaxAddr \in Int
    BY ConstantsAssumption
  <2> QED BY <2>1, FS_Interval DEF Addr
<1>2. FreeChunks(h) \subseteq Chunks(h) /\ Chunks(h) \subseteq Addr
  BY FreeSet DEF Chunks
<1>3. \A N \in SUBSET FreeChunks(h) : IsFiniteSet(N)
  BY <1>1, <1>2, FS_Subset
<1>4. h \in HeapType
  BY DEF HeapOk
<1> QED BY <1>2, <1>3, <1>4, ChunkNat

LEMMA GatheredLeft ==
  ASSUME NEW h, HeapOk(h), NEW c \in Allocated(h), NEW l, l = merge_left(h, c)
  PROVE  /\ Gathered(h, c, LeftFree(h, c), l.heap, l.chunk)
         /\ chunk_end(l.heap, l.chunk) = chunk_end(h, c)
         /\ l = [heap |-> l.heap, chunk |-> l.chunk]
<1>1. /\ h \in HeapType /\ c \in Chunks(h) /\ c \in Nat /\ h.size[c] \in Nat
      /\ chunk_end(h, c) \in Nat /\ chunk_end(h, c) = c + h.size[c]
  BY AllocatedFacts, ChunkNat
<1>2. SumOver(h.size, {c}) = h.size[c]
  BY <1>1, SumOfOne
<1>3. CASE LeftOf(h, c) = {}
  <2>1. l = [heap |-> h, chunk |-> c]
    BY <1>3 DEF merge_left
  <2>2. LeftFree(h, c) = {}
    BY <1>3, LeftFreeFound
  <2>3. {} \cup {c} = {c}
    OBVIOUS
  <2>4. Gathered(h, c, {}, h, c)
    BY <1>1, <1>2, <2>3 DEF Gathered
  <2> QED BY <2>1, <2>2, <2>4
<1>4. CASE LeftOf(h, c) # {}
  <2> DEFINE k == CHOOSE j \in LeftOf(h, c) : TRUE
             d == h.free[k]
             g == absorb_left(h, c, k)
  <2>1. k \in LeftOf(h, c)
    BY <1>4
  <2>2. l = [heap |-> g, chunk |-> d]
    BY <1>4 DEF merge_left
  <2> HIDE DEF k
  <2>3. LeftFree(h, c) = {d}
    BY <2>1, LeftFreeFound
  <2>4. TookIn(h, c, d, g, d)
    BY <2>1, AbsorbedRoom
  <2> HIDE DEF d, g
  <2>5. d \in FreeChunks(h) /\ chunk_end(h, d) = c /\ d \in Chunks(h) /\ d # c
    BY <2>3, FreeSet DEF LeftFree
  <2>6. d \in Nat /\ h.size[d] \in Nat /\ d + h.size[d] = c
    BY <1>1, <2>5, ChunkNat DEF chunk_end
  <2>7. SumOver(h.size, {c} \cup {d}) = h.size[d] + SumOver(h.size, {c})
    <3>1. IsFiniteSet({c}) /\ d \notin {c} /\ \A y \in {c} \cup {d} : h.size[y] \in Nat
      BY <1>1, <2>5, <2>6, FS_Singleton
    <3> QED BY <3>1, SumOneMore
  <2>8. {c} \cup {d} = {d} \cup {c}
    OBVIOUS
  <2>9. g.size[d] = SumOver(h.size, {d} \cup {c})
    <3>1. g.size[d] = h.size[c] + h.size[d]
      BY <2>4 DEF TookIn
    <3>2. SumOver(h.size, {d} \cup {c}) = h.size[d] + h.size[c]
      BY <1>2, <2>7, <2>8
    <3>3. h.size[c] \in Nat
      BY <1>1
    <3>4. h.size[c] + h.size[d] = h.size[d] + h.size[c]
      BY <2>6, <3>3
    <3> QED BY <3>1, <3>2, <3>4, Zenon
  <2>10. chunk_end(g, d) = chunk_end(h, c)
    BY <1>1, <2>4, <2>6 DEF TookIn, chunk_end
  <2>11. Gathered(h, c, {d}, g, d)
    BY <1>1, <2>4, <2>9, <2>10 DEF TookIn, Gathered
  <2> QED BY <2>2, <2>3, <2>10, <2>11
<1> QED BY <1>3, <1>4

\* The loop of realloc() takes in all the room next to the chunk
\* (malloc.c:349-382).
LEMMA GatheredAdjacent ==
  ASSUME NEW h, HeapOk(h), NEW c \in Allocated(h), NEW r, r = merge_adjacent(h, c)
  PROVE  Gathered(h, c, Near(h, c), r.heap, r.chunk)
<1> DEFINE l == merge_left(h, c)
           L == LeftFree(h, c)
           e == chunk_end(h, c)
           R == RightOf(l.heap, l.chunk)
           k == CHOOSE j \in R : TRUE
<1>1. Gathered(h, c, L, l.heap, l.chunk) /\ chunk_end(l.heap, l.chunk) = e /\ l = [heap |-> l.heap, chunk |-> l.chunk]
  BY GatheredLeft
<1>2. /\ h \in HeapType /\ c \in Chunks(h) /\ c \in Nat /\ h.size[c] \in Nat
      /\ e \in Nat /\ c < e
  BY AllocatedFacts, ChunkNat
<1>3. e \notin L
  <2> SUFFICES ASSUME e \in L PROVE FALSE
    OBVIOUS
  <2>1. e \in Chunks(h) /\ chunk_end(h, e) = c
    BY FreeSet DEF LeftFree
  <2>2. e < chunk_end(h, e)
    BY <1>2, <2>1, ChunkNat
  <2> QED BY <1>2, <2>1, <2>2
<1>4. Near(h, c) = IF e \in FreeChunks(h) THEN L \cup {e} ELSE L
  BY DEF Near, LeftFree
<1>5. CASE R = {}
  <2>1. r = l
    BY <1>5 DEF merge_adjacent
  <2>2. e \notin FreeChunks(l.heap)
    <3> SUFFICES ASSUME e \in FreeChunks(l.heap) PROVE FALSE
      OBVIOUS
    <3> HIDE DEF l, e
    <3>1. HeapOk(l.heap)
      BY <1>1 DEF Gathered
    <3>2. PICK i \in 1 .. Len(l.heap.free) : e = l.heap.free[i]
      BY <3>1, FreeSet
    <3>3. l.heap.free[i] <= e
      BY <1>2, <3>2
    <3>4. Reached(l.heap, i, e)
      BY <1>2, <3>1, <3>3, ReachedSorted
    <3>5. i \in R
      BY <1>1, <3>2, <3>4 DEF RightOf
    <3> QED BY <1>5, <3>5
  <2>3. FreeChunks(l.heap) = FreeChunks(h) \ L
    BY <1>1 DEF Gathered
  <2> HIDE DEF l, L, e
  <2>4. Near(h, c) = L
    BY <1>3, <1>4, <2>2, <2>3
  <2> QED BY <1>1, <2>1, <2>4
<1>6. CASE R # {}
  <2>1. k \in R
    BY <1>6
  <2>2. r = [l EXCEPT !.heap = absorb_right(l.heap, l.chunk, k)]
    BY <1>6 DEF merge_adjacent
  <2> HIDE DEF l, k, L, e
  <2>3. r.heap = absorb_right(l.heap, l.chunk, k) /\ r.chunk = l.chunk
    BY <1>1, <2>2
  <2>4. HeapOk(l.heap) /\ l.chunk \in Allocated(l.heap) /\ FreeChunks(l.heap) = FreeChunks(h) \ L
    BY <1>1 DEF Gathered
  <2>5. k \in 1 .. Len(l.heap.free) /\ l.heap.free[k] = e
    BY <1>1, <2>1 DEF RightOf
  <2>6. e \in FreeChunks(h) /\ e \in FreeChunks(l.heap)
    BY <2>4, <2>5, FreeSet
  <2>7. TookIn(l.heap, l.chunk, e, r.heap, l.chunk)
    BY <2>1, <2>3, <2>4, <2>5, AbsorbedRoom
  <2>8. Near(h, c) = L \cup {e}
    BY <1>4, <2>6
  <2>9. SumOver(h.size, (L \cup {c}) \cup {e}) = h.size[e] + SumOver(h.size, L \cup {c}) /\ SumOver(h.size, L \cup {c}) \in Nat
    <3> DEFINE S == L \cup {c}
    <3>1. L \in SUBSET FreeChunks(h)
      BY DEF L, LeftFree
    <3>2. IsFiniteSet(S)
      BY <3>1, FreeFinite, FS_AddElement
    <3>3. e \notin S
      BY <1>2, <1>3
    <3>4. \A y \in S \cup {e} : h.size[y] \in Nat
      BY <1>2, <2>6, <3>1, FreeFinite
    <3> HIDE DEF S
    <3>5. SumOver(h.size, S \cup {e}) = h.size[e] + SumOver(h.size, S) /\ SumOver(h.size, S) \in Nat
      BY <3>2, <3>3, <3>4, SumOneMore
    <3> QED BY <3>5 DEF S
  <2>10. (L \cup {c}) \cup {e} = (L \cup {e}) \cup {c}
    OBVIOUS
  <2>11. h.size[e] \in Nat
    BY <2>6, FreeFinite
  <2>12. r.heap.size[l.chunk] = SumOver(h.size, L \cup {c}) + h.size[e]
    BY <1>1, <2>6, <2>7 DEF TookIn, Gathered
  <2>13. r.heap.size[r.chunk] = SumOver(h.size, Near(h, c) \cup {c})
    <3>1. SumOver(h.size, Near(h, c) \cup {c}) = h.size[e] + SumOver(h.size, L \cup {c})
      BY <2>8, <2>9, <2>10
    <3>2. SumOver(h.size, L \cup {c}) + h.size[e] = h.size[e] + SumOver(h.size, L \cup {c})
      BY <2>9, <2>11
    <3> QED BY <2>3, <2>12, <3>1, <3>2
  <2>14. FreeChunks(r.heap) = FreeChunks(h) \ Near(h, c)
    BY <2>4, <2>7, <2>8 DEF TookIn
  <2>15. \A d \in FreeChunks(r.heap) : r.heap.size[d] = h.size[d]
    BY <1>1, <2>7 DEF TookIn, Gathered
  <2>16. HeapOk(r.heap) /\ r.chunk \in Allocated(r.heap)
    BY <2>3, <2>7 DEF TookIn
  <2>17. chunk_end(r.heap, r.chunk) \in Nat
    BY <2>16, AllocatedFacts, ChunkNat
  <2> QED BY <2>13, <2>14, <2>15, <2>16, <2>17 DEF Gathered
<1> QED BY <1>5, <1>6

\* A chunk at the top of a heap without gaps fails to grow only for want of
\* memory (malloc.c:153-181).
LEMMA TopFailsToGrow ==
  ASSUME AlignedBreaks, BrkEnd <= SizeMod \div 2,
         NEW h, HeapOk(h), Tidy(h), Tiled(h), NEW c \in Allocated(h),
         NEW n \in Nat, h.size[c] < n, NEW g, g = chunk_grow(h, c, n), ~g.ok,
         NEW need, need = IF n - h.size[c] < MinSize THEN MinSize ELSE n - h.size[c]
  PROVE  /\ g.heap.size = h.size /\ g.heap.free = h.free /\ SameBounds(h, g.heap)
         /\ chunk_end(h, c) = h.sbrk_end => h.brk + need > BrkEnd
<1> DEFINE r == aligned_sbrk(h, need)
<1>1. /\ h \in HeapType /\ c \in Nat \ {0} /\ h.size[c] \in Nat
      /\ h.sbrk_start # NULL /\ chunk_end(h, c) \in Nat
  BY AllocatedFacts, ChunkNat
<1>2. need \in Nat \ {0}
  BY <1>1, Consts
<1>3. h.sbrk_end = h.brk /\ h.brk \in Nat \ {0}
  BY <1>1, Fields, Consts DEF Tiled
<1>4. Granted(h, need, r) /\ AtBreak(h, need, r)
  BY <1>1, <1>2, AlignedSbrk, GrantedAtBreak DEF Tidy
<1>5. CASE chunk_end(h, c) # h.sbrk_end
  <2>1. g.heap = h
    BY <1>1, <1>5 DEF chunk_grow, NULL
  <2> QED BY <1>5, <2>1 DEF SameBounds
<1>6. CASE chunk_end(h, c) = h.sbrk_end
  <2>1. r.ptr # chunk_end(h, c)
    <3> SUFFICES ASSUME r.ptr = chunk_end(h, c) PROVE FALSE
      OBVIOUS
    <3>1. g.ok = TRUE
      BY <1>1, <1>6 DEF chunk_grow, NULL
    <3> QED BY <3>1
  <2>2. r.ptr # h.brk
    BY <1>3, <1>6, <2>1
  <2>3. r.ptr = SBRK_FAILURE
    BY <1>4, <2>2 DEF AtBreak
  <2>4. g.heap = r.heap
    BY <1>1, <1>6, <2>1, <2>3 DEF chunk_grow, NULL
  <2>5. g.heap.size = h.size /\ g.heap.free = h.free /\ SameBounds(h, g.heap)
    <3>1. SameBounds(h, r.heap)
      <4> HIDE DEF r
      <4> QED BY <1>4, <2>2 DEF AtBreak
    <3> QED BY <1>4, <2>4, <3>1 DEF Granted
  <2>6. need < SizeMod \div 2 => h.brk + need > BrkEnd
    <3> HIDE DEF r
    <3> QED BY <1>4, <2>2 DEF AtBreak
  <2>7. ~(need < SizeMod \div 2) => h.brk + need > BrkEnd
    <3>1. SizeMod \div 2 \in Int /\ BrkEnd \in Int
      BY Consts
    <3> QED BY <1>2, <1>3, <3>1
  <2> QED BY <2>5, <2>6, <2>7
<1> QED BY <1>5, <1>6

\* realloc() gives up only when the chunk and its free neighbours together are
\* too small, no free chunk is large enough, and the environment has no room left
\* for a new chunk, nor for what a chunk at the top of the heap lacks
\* (malloc.c:341-407). Another user of sbrk() may make it give up earlier: a
\* chunk at the top no longer grows.
THEOREM ReallocFailsLate ==
  ASSUME SmallHeap, AlignedBreaks, ForeignIncrs = {}, BrkEnd <= SizeMod \div 2
  PROVE  Spec => []ReallocFailsOnlyWhenFull
<1>1. IInv /\ Tidy(heap) /\ Tiled(heap) => ReallocFailsOnlyWhenFull
  <2> SUFFICES ASSUME IInv, Tidy(heap), Tiled(heap),
                      NEW p \in Held(obj), NEW n \in Sizes \ {0},
                      noc_realloc(heap, p, n).ptr = NULL,
                      NEW c, c = chunk_from_data(p), NEW e, e = chunk_end(heap, c),
                      NEW size, size = chunk_size_for_data(n),
                      NEW need, need = IF size - heap.size[c] < MinSize THEN MinSize
                                       ELSE size - heap.size[c]
               PROVE  /\ SumOver(heap.size, Near(heap, c) \cup {c}) < size
                      /\ \A d \in FreeChunks(heap) : heap.size[d] < size
                      /\ heap.brk + size > BrkEnd
                      /\ e = heap.sbrk_end => heap.brk + need > BrkEnd
    BY DEF ReallocFailsOnlyWhenFull, SumOver, Near
  <2> DEFINE g == chunk_grow(heap, c, size)
             m == merge_adjacent(g.heap, c)
             N == Near(heap, c)
  <2>1. HeapOk(heap) /\ c \in Allocated(heap) /\ p = c + Hdr /\ p # NULL
    BY IInvAccounts, HeldChunk
  <2>2. /\ heap \in HeapType /\ c \in Chunks(heap) /\ c \in Nat \ {0} /\ heap.size[c] \in Nat
        /\ heap.sbrk_start <= c /\ chunk_end(heap, c) <= heap.sbrk_end
        /\ heap.sbrk_end \in Nat /\ heap.sbrk_start \in Nat /\ chunk_end(heap, c) \in Nat
        /\ chunk_end(heap, c) = c + heap.size[c] /\ Hdr < heap.size[c]
    BY <2>1, AllocatedFacts, Fields, ChunkNat
  <2>3. size \in Nat \ {0} /\ n \in Nat /\ Hdr \in Nat
    BY ChunkSizeForData, Consts, ConstantsAssumption
  <2>4. ~OutOfHeap(heap, p)
    BY <2>1, <2>2, <2>3 DEF OutOfHeap
  <2>5. \A x \in Nat : chunk_to_data(x) # NULL
    BY Consts DEF chunk_to_data, NULL
  <2>6. /\ ~(heap.size[c] >= size) /\ ~g.ok
        /\ ~(m.heap.size[m.chunk] >= size)
        /\ relocate(m.heap, m.chunk, n).ptr = NULL
    <3> DEFINE Keep(f, d) == [heap |-> f, ptr |-> chunk_to_data(d), chunk |-> d]
    <3>1. noc_realloc(heap, p, n) =
             IF heap.size[c] >= size THEN Keep(split(heap, c, size), c)
             ELSE IF g.ok THEN Keep(g.heap, c)
             ELSE IF m.heap.size[m.chunk] >= size THEN Keep(split(m.heap, m.chunk, size), m.chunk)
             ELSE relocate(m.heap, m.chunk, n)
      <4> HIDE DEF Keep
      <4> QED BY <2>1, <2>4, Zenon DEF noc_realloc, Keep
    <3>2. chunk_to_data(c) # NULL
      BY <2>2, <2>5
    <3>3. ~(heap.size[c] >= size) /\ ~g.ok
      <4> HIDE DEF g, m
      <4> QED BY <3>1, <3>2
    <3>4. m.chunk \in Nat
      <4>1. HeapOk(g.heap) /\ c \in Allocated(g.heap)
        <5>1. heap.size[c] < size
          BY <2>2, <2>3, <3>3
        <5> QED BY <2>1, <2>3, <5>1, GrownChunk DEF Grown
      <4> HIDE DEF g
      <4>2. HeapOk(m.heap) /\ m.chunk \in Allocated(m.heap)
        BY <4>1, MergedAdjacent DEF Moved
      <4> HIDE DEF m
      <4> QED BY <4>2, AllocatedFacts
    <3>5. chunk_to_data(m.chunk) # NULL
      <4> HIDE DEF m
      <4> QED BY <2>5, <3>4
    <3> HIDE DEF g, m
    <3> QED BY <3>1, <3>3, <3>5
  <2>7. heap.size[c] < size
    BY <2>2, <2>3, <2>6
  <2>8. HeapOk(g.heap) /\ c \in Allocated(g.heap)
    BY <2>1, <2>3, <2>7, GrownChunk DEF Grown
  <2>9. /\ g.heap.size = heap.size /\ g.heap.free = heap.free /\ SameBounds(heap, g.heap)
        /\ e = heap.sbrk_end => heap.brk + need > BrkEnd
    BY <2>1, <2>3, <2>6, <2>7, TopFailsToGrow
  <2> HIDE DEF g
  <2>10. Near(g.heap, c) = N /\ FreeChunks(g.heap) = FreeChunks(heap)
    BY <2>9 DEF Near, FreeChunks, chunk_end
  <2>11. Gathered(g.heap, c, N, m.heap, m.chunk)
    BY <2>8, <2>10, GatheredAdjacent
  <2>12. Kept(g.heap, m.heap)
    BY <2>8, MergedAdjacentKept DEF m
  <2> HIDE DEF m
  <2>13. /\ HeapOk(m.heap) /\ m.chunk \in Allocated(m.heap)
         /\ FreeChunks(m.heap) = FreeChunks(heap) \ N
         /\ \A d \in FreeChunks(m.heap) : m.heap.size[d] = heap.size[d]
         /\ m.heap.size[m.chunk] = SumOver(heap.size, N \cup {c})
    BY <2>9, <2>10, <2>11 DEF Gathered
  <2>14. N \subseteq FreeChunks(heap) /\ IsFiniteSet(N \cup {c})
         /\ \A y \in N \cup {c} : heap.size[y] \in Nat
    <3>1. N \in SUBSET FreeChunks(heap)
      BY DEF Near
    <3>2. IsFiniteSet(N) /\ \A y \in N : heap.size[y] \in Nat
      BY <2>1, <3>1, FreeFinite
    <3> HIDE DEF N
    <3> QED BY <2>2, <3>1, <3>2, FS_AddElement
  <2> HIDE DEF N
  <2>15. SumOver(heap.size, N \cup {c}) < size
    <3>1. m.heap.size[m.chunk] \in Nat
      BY <2>13, AllocatedFacts
    <3> QED BY <2>3, <2>6, <2>13, <3>1
  <2>16. noc_malloc(m.heap, n).ptr = NULL
    BY <2>6 DEF relocate
  <2>17. \A d \in FreeChunks(m.heap) : heap.size[d] < size
    BY <2>13, <2>16, NoneFits
  <2>18. \A d \in N : heap.size[d] < size
    <3> TAKE d \in N
    <3>1. heap.size[d] <= SumOver(heap.size, N \cup {c})
      <4> DEFINE S == N \cup {c}
      <4>1. d \in S /\ IsFiniteSet(S) /\ \A y \in S : heap.size[y] \in Nat
        BY <2>14
      <4> HIDE DEF S
      <4>2. heap.size[d] <= SumOver(heap.size, S)
        BY <4>1, PartOfSum
      <4> QED BY <4>2 DEF S
    <3>2. heap.size[d] \in Nat /\ SumOver(heap.size, N \cup {c}) \in Nat
      <4>1. heap.size[d] \in Nat
        BY <2>14
      <4>2. SumOver(heap.size, N \cup {c}) \in Nat
        BY <2>14, Sums
      <4> QED BY <4>1, <4>2
    <3> QED BY <2>3, <2>15, <3>1, <3>2
  <2>19. \A d \in FreeChunks(heap) : heap.size[d] < size
    BY <2>13, <2>17, <2>18
  <2>20. heap.brk + size > BrkEnd
    <3>1. m.heap.brk = heap.brk
      BY <2>9, <2>12 DEF Kept, SameBounds
    <3>2. m.heap.brk % Align = 0
      BY <3>1 DEF Tidy
    <3>3. m.heap.brk + size > BrkEnd
      BY <2>13, <2>16, <3>2, NoRoom
    <3> QED BY <3>1, <3>3
  <2> QED BY <2>9, <2>15, <2>19, <2>20 DEF N
<1> QED BY <1>1, Invariance, NextAligned, NextOrderly, InitOrderly, PTL DEF Spec

=============================================================================

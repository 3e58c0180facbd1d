--------------------------------- MODULE MM ---------------------------------
(***************************************************************************)
(* The allocator of mm.c: an implicit free list of blocks with boundary    *)
(* tags, first fit, immediate coalescing, splitting on placement.          *)
(*                                                                         *)
(* The heap is modelled word by word, as the code sees it through GET and  *)
(* PUT: mem maps the address of every 4-byte word of the region to the     *)
(* number stored there, be it a header, a footer, or what the client wrote *)
(* into a payload. Each function of mm.c is an operator from a memory to   *)
(* the memory it leaves; the search loop of find_fit is the one loop, and  *)
(* is taken one iteration at a time.                                       *)
(*                                                                         *)
(* An operator X_Y, next to an operator X, is X with a slip Y that could   *)
(* be made in the code. Nothing uses it: it documents, and lets one check, *)
(* that some property would notice.                                        *)
(***************************************************************************)
EXTENDS MemLib

CONSTANTS
  CHUNKSIZE,   \* least number of bytes by which the heap grows
  Tags,        \* numbers a client may store in its payload words
  Garbage      \* what the words of the fresh region may hold

WSIZE == 4
DSIZE == 8
NULL == 0

ASSUME MMAssumption ==
  /\ CHUNKSIZE \in Nat /\ CHUNKSIZE % 8 = 0 /\ CHUNKSIZE >= 2 * DSIZE
  /\ CHUNKSIZE < WORD
  /\ Tags \subseteq 0 .. WORD - 1
  /\ Garbage \subseteq 0 .. WORD - 1

VARIABLES
  mem,         \* the words of the region
  heap_listp,  \* the static pointer to the prologue block
  pc,          \* "down" before a successful mm_init, "idle" between calls,
               \* "find_fit" inside the search of an allocation, "place" when
               \* it has found or made a block, "crashed"
  call,        \* arguments and locals of the allocation in progress
  live         \* what the client holds: pointer -> the size it asked for

vars == <<mem_brk, mem, heap_listp, pc, call, live>>

Words == { a \in MEM_START .. mem_max_addr - 1 : a % WSIZE = 0 }

NoCall == [size |-> 0, asize |-> 0, old |-> NULL, bp |-> NULL]

-----------------------------------------------------------------------------
(* The macros of mm.c. Sizes are multiples of 8, so or-ing the allocated   *)
(* bit in is adding it.                                                    *)

PACK(size, alloc) == size + alloc
PUT(m, p, val)    == [m EXCEPT ![p] = val]
GET_SIZE(m, p)    == m[p] - (m[p] % 8)
GET_ALLOC(m, p)   == m[p] % 2

HDRP(bp)          == bp - WSIZE

FTRP_OffByAWord(m, bp)   == bp + GET_SIZE(m, HDRP(bp)) - WSIZE
FTRP(m, bp)              == bp + GET_SIZE(m, HDRP(bp)) - DSIZE

NEXT_BLKP_ByFooter(m, bp) == bp + GET_SIZE(m, bp - DSIZE)
NEXT_BLKP(m, bp)          == bp + GET_SIZE(m, HDRP(bp))

PREV_BLKP(m, bp)  == bp - GET_SIZE(m, bp - DSIZE)

\* The two PUTs that every (re)tagging of a block makes, header first: the
\* footer's address is computed from the header just written.
SetTags(m, bp, size, alloc) ==
  LET h == PUT(m, HDRP(bp), PACK(size, alloc))
  IN  PUT(h, FTRP(h, bp), PACK(size, alloc))

-----------------------------------------------------------------------------
(* coalesce: merge the free block bp with its free neighbours.             *)

Coalesce_NextOnly(m, bp) ==
  LET next == NEXT_BLKP(m, bp)
  IN  IF GET_ALLOC(m, HDRP(next)) = 1
      THEN [mem |-> m, bp |-> bp]
      ELSE [mem |-> SetTags(m, bp, GET_SIZE(m, HDRP(bp)) + GET_SIZE(m, HDRP(next)), 0),
            bp |-> bp]

Coalesce(m, bp) ==
  LET prev == PREV_BLKP(m, bp)
      next == NEXT_BLKP(m, bp)
      size == GET_SIZE(m, HDRP(bp))
      \* the tail shared by the last two cases: the footer at the end of the
      \* merged block, then the header at the start of the previous one
      backward(footer, merged) ==
        LET f == PUT(m, footer, PACK(merged, 0))
            h == PUT(f, HDRP(PREV_BLKP(f, bp)), PACK(merged, 0))
        IN  [mem |-> h, bp |-> PREV_BLKP(h, bp)]
  IN  CASE GET_ALLOC(m, FTRP(m, prev)) = 1 /\ GET_ALLOC(m, HDRP(next)) = 1 ->
             [mem |-> m, bp |-> bp]
        [] GET_ALLOC(m, FTRP(m, prev)) = 1 /\ GET_ALLOC(m, HDRP(next)) = 0 ->
             [mem |-> SetTags(m, bp, size + GET_SIZE(m, HDRP(next)), 0), bp |-> bp]
        [] GET_ALLOC(m, FTRP(m, prev)) = 0 /\ GET_ALLOC(m, HDRP(next)) = 1 ->
             backward(FTRP(m, bp), size + GET_SIZE(m, HDRP(prev)))
        [] OTHER ->
             backward(FTRP(m, next), size + GET_SIZE(m, HDRP(prev))
                                          + GET_SIZE(m, FTRP(m, next)))

\* The bytes that extend_heap asks for: the number of words made even, in units
\* of DSIZE.
ExtensionSize_SingleWords(words) == ((words + (words % 2)) * WSIZE) % WORD
ExtensionSize(words) == ((words + (words % 2)) * DSIZE) % WORD

\* extend_heap: a free block over the new area (its header over the old
\* epilogue), a new epilogue, and coalescing with a free last block.
ExtendHeap(m, brk, words) ==
  LET size == ExtensionSize(words)
      free == SetTags(m, brk, size, 0)
      tagged == PUT(free, HDRP(NEXT_BLKP(free, brk)), PACK(0, 1))
      c == Coalesce(tagged, brk)
  IN  IF SbrkFails(brk, size)
      THEN [mem |-> m, brk |-> brk, bp |-> NULL]
      ELSE [mem |-> c.mem, brk |-> Advance(brk, size), bp |-> c.bp]

Place_WholeBlock(m, bp, asize) == SetTags(m, bp, GET_SIZE(m, HDRP(bp)), 1)

\* place: allocate the front of the free block bp, and make a free block of
\* the rest when it can hold one. The subtraction is unsigned.
Place(m, bp, asize) ==
  LET csize == GET_SIZE(m, HDRP(bp))
      rest == (csize - asize) % WORD
      front == SetTags(m, bp, asize, 1)
  IN  IF rest >= 2 * DSIZE
      THEN SetTags(front, NEXT_BLKP(front, bp), rest, 0)
      ELSE SetTags(m, bp, csize, 1)

Release(m, bp) == Coalesce(SetTags(m, bp, GET_SIZE(m, HDRP(bp)), 0), bp).mem

AdjustedSize_Bare(size) ==
  IF size <= DSIZE THEN 2 * DSIZE ELSE DSIZE * (size \div DSIZE)

\* The block size that mm_malloc derives from a request, in size_t arithmetic.
AdjustedSize(size) ==
  IF size <= DSIZE THEN 2 * DSIZE
  ELSE DSIZE * (((size + DSIZE + (DSIZE - 1)) % WORD) \div DSIZE)

\* mem_reset_brk() comes before mm_init() whenever the driver calls it.
ResetBrk_Forgotten == mem_brk
ResetBrk == MEM_START

Prologue_NotMoved == ResetBrk
Prologue == ResetBrk + 2 * WSIZE

\* mm_init on an empty heap: padding, prologue, epilogue, first chunk.
InitHeap(m) ==
  LET size == 4 * WSIZE
      w(k) == ResetBrk + k * WSIZE
      fenced == [m EXCEPT ![w(0)] = 0,
                          ![w(1)] = PACK(DSIZE, 1),
                          ![w(2)] = PACK(DSIZE, 1),
                          ![w(3)] = PACK(0, 1)]
  IN  IF SbrkFails(ResetBrk, size)
      THEN [mem |-> m, brk |-> ResetBrk, bp |-> NULL]
      ELSE ExtendHeap(fenced, Advance(ResetBrk, size), CHUNKSIZE \div DSIZE)

-----------------------------------------------------------------------------
(* The client's side of the memory: memset and memcpy, in whole words. The *)
(* last word of a payload stands for those of its bytes that belong to it. *)

Memset(m, p, n, tag) ==
  [a \in Words |-> IF p <= a /\ a < p + n THEN tag ELSE m[a]]

Memcpy_OneWordShort(m, dst, src, n) ==
  [a \in Words |-> IF dst <= a /\ a + WSIZE < dst + n THEN m[src + (a - dst)] ELSE m[a]]

Memcpy(m, dst, src, n) ==
  [a \in Words |-> IF dst <= a /\ a < dst + n THEN m[src + (a - dst)] ELSE m[a]]

\* What the client holds once it no longer holds p, or has size bytes at p.
Without(p)          == [q \in DOMAIN live \ {p} |-> live[q]]
With(held, p, size) == [q \in DOMAIN held \union {p} |-> IF q = p THEN size ELSE held[q]]

Lesser(x, y) == IF x < y THEN x ELSE y

Greater(x, y) == IF x > y THEN x ELSE y

-----------------------------------------------------------------------------

Init ==
  /\ mem_init
  /\ mem \in { [a \in Words |-> g] : g \in Garbage }
  /\ heap_listp = NULL
  /\ pc = "down"
  /\ call = NoCall
  /\ live = [p \in {} |-> 0]

\* mem_reset_brk() and mm_init(), as the driver calls them before each pass
\* over a trace. The words of the previous pass are still in the region.
mm_init ==
  LET heap == InitHeap(mem)
  IN  /\ pc \in {"down", "idle"}
      /\ mem' = heap.mem
      /\ mem_brk' = heap.brk
      /\ heap_listp' = IF SbrkFails(ResetBrk, 4 * WSIZE)
                       THEN WORD - 1 ELSE Prologue
      /\ pc' = IF heap.bp = NULL THEN "down" ELSE "idle"
      /\ live' = [p \in {} |-> 0]
      /\ UNCHANGED call

\* mm_malloc up to the first iteration of find_fit, called by the client
\* (old = NULL) or by mm_realloc.
StartSearch(size, old) ==
  /\ pc' = "find_fit"
  /\ call' = [size |-> size, asize |-> AdjustedSize(size), old |-> old,
              bp |-> heap_listp]
  /\ UNCHANGED <<mem_brk, mem, heap_listp, live>>

mm_malloc(size) ==
  /\ pc = "idle"
  /\ size > 0
  /\ StartSearch(size, NULL)

mm_malloc_zero ==
  /\ pc = "idle"
  /\ 0 \in Sizes
  /\ UNCHANGED vars

mm_free(p) ==
  /\ pc = "idle"
  /\ mem' = Release(mem, p)
  /\ live' = Without(p)
  /\ UNCHANGED <<mem_brk, heap_listp, pc, call>>

\* mm_realloc of a live block; size 0 frees it and returns NULL.
mm_realloc(p, size) ==
  \/ size = 0 /\ mm_free(p)
  \/ /\ pc = "idle"
     /\ size > 0
     /\ StartSearch(size, p)

\* mm_realloc(NULL, size): size 0 is tested first, and hands NULL to mm_free,
\* which reads the header below address 0.
mm_realloc_null(size) ==
  \/ mm_malloc(size)
  \/ /\ pc = "idle"
     /\ size = 0
     /\ pc' = "crashed"
     /\ UNCHANGED <<mem_brk, mem, heap_listp, call, live>>

-----------------------------------------------------------------------------
(* The search of find_fit, and what mm_malloc and mm_realloc do after it.  *)

CursorSize  == GET_SIZE(mem, HDRP(call.bp))
CursorFits_Strictly == GET_ALLOC(mem, HDRP(call.bp)) = 0 /\ call.asize < CursorSize
CursorFits  == GET_ALLOC(mem, HDRP(call.bp)) = 0 /\ call.asize <= CursorSize

find_fit_next ==
  /\ pc = "find_fit"
  /\ CursorSize > 0
  /\ ~ CursorFits
  /\ call' = [call EXCEPT !.bp = NEXT_BLKP(mem, call.bp)]
  /\ UNCHANGED <<mem_brk, mem, heap_listp, pc, live>>

find_fit_hit ==
  /\ pc = "find_fit"
  /\ CursorSize > 0
  /\ CursorFits
  /\ pc' = "place"
  /\ UNCHANGED <<mem_brk, mem, heap_listp, call, live>>

\* The epilogue is reached: grow the heap, or return NULL and change nothing.
find_fit_miss ==
  LET heap == ExtendHeap(mem, mem_brk, Greater(call.asize, CHUNKSIZE) \div DSIZE)
  IN  /\ pc = "find_fit"
      /\ CursorSize = 0
      /\ \/ /\ heap.bp # NULL
            /\ mem' = heap.mem
            /\ mem_brk' = heap.brk
            /\ pc' = "place"
            /\ call' = [call EXCEPT !.bp = heap.bp]
         \/ /\ heap.bp = NULL
            /\ pc' = "idle"
            /\ call' = NoCall
            /\ UNCHANGED <<mem, mem_brk>>
      /\ UNCHANGED <<heap_listp, live>>

\* How much mm_realloc copies: what the old block could hold, up to the new size.
CopySize(m, size, old) == Lesser(size, GET_SIZE(m, HDRP(old)) - DSIZE)

\* The end of mm_malloc, and of the mm_realloc around it: place the block found,
\* copy what both blocks can hold, free the old one.
place ==
  LET newp == call.bp
      old == call.old
      m == Place(mem, newp, call.asize)
  IN  /\ pc = "place"
      /\ \/ /\ old = NULL
            /\ mem' = m
            /\ live' = With(live, newp, call.size)
         \/ /\ old # NULL
            /\ mem' = Release(Memcpy(m, newp, old, CopySize(m, call.size, old)), old)
            /\ live' = With(Without(old), newp, call.size)
      /\ pc' = "idle"
      /\ call' = NoCall
      /\ UNCHANGED <<mem_brk, heap_listp>>

\* The client fills its payload with one of its tags.
write(p, tag) ==
  /\ pc = "idle"
  /\ mem' = Memset(mem, p, live[p], tag)
  /\ UNCHANGED <<mem_brk, heap_listp, pc, call, live>>

crashed == pc = "crashed" /\ UNCHANGED vars

Next ==
  \/ mm_init
  \/ \E size \in Sizes : mm_malloc(size) \/ mm_realloc_null(size)
  \/ mm_malloc_zero
  \/ \E p \in DOMAIN live :
       \/ mm_free(p)
       \/ \E size \in Sizes : mm_realloc(p, size)
       \/ \E tag \in Tags : write(p, tag)
  \/ find_fit_next \/ find_fit_hit \/ find_fit_miss
  \/ place
  \/ crashed

\* The program runs on: a call that has entered its search keeps executing.
Spec ==
  /\ Init /\ [][Next]_vars
  /\ WF_vars(find_fit_next \/ find_fit_hit \/ find_fit_miss \/ place)
=============================================================================

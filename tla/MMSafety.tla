------------------------------ MODULE MMSafety ------------------------------
(***************************************************************************)
(* What the allocator of module MM keeps true: the properties of its heap, *)
(* of the payloads it hands out and of its answers.                        *)
(***************************************************************************)
EXTENDS MM, FiniteSets

Up == pc \in {"idle", "find_fit", "place"}

First == MEM_START + 4 * WSIZE   \* pointer of the first block after the prologue

Size(m, b) == GET_SIZE(m, HDRP(b))
Free(m, b) == GET_ALLOC(m, HDRP(b)) = 0

\* b could be a block: inside the heap, aligned, of legal size, tagged alike at
\* both ends.
IsBlock(m, brk, b) ==
  /\ b % DSIZE = 0 /\ First <= b /\ b + 2 * DSIZE <= brk
  /\ Size(m, b) >= 2 * DSIZE /\ Size(m, b) % DSIZE = 0 /\ b + Size(m, b) <= brk
  /\ m[HDRP(b)] % 8 \in {0, 1}
  /\ m[HDRP(b)] = m[FTRP(m, b)]

Candidates(m, brk) == { b \in First .. brk - 1 : IsBlock(m, brk, b) }

\* B is a chain of blocks from the prologue to the break without gap or overlap.
Tiles(m, brk, B) ==
  /\ First \in B
  /\ \A b \in B : b + Size(m, b) \in B \union {brk}
  /\ \A b \in B : b = First \/ \E a \in B : a + Size(m, a) = b
  /\ \A a, b \in B : a < b => a + Size(m, a) <= b

Fenced(m, brk) ==
  /\ m[MEM_START + WSIZE] = PACK(DSIZE, 1)
  /\ m[MEM_START + 2 * WSIZE] = PACK(DSIZE, 1)
  /\ m[brk - WSIZE] = PACK(0, 1)

NoAdjacentFree(m, B) ==
  \A a, b \in B : a + Size(m, a) = b => ~ (Free(m, a) /\ Free(m, b))

\* Allocated blocks are exactly the ones the client holds, each big enough for
\* the request and never more than 8 bytes bigger than place had to make it.
Accounts(m, B, held) ==
  /\ { b \in B : ~ Free(m, b) } = DOMAIN held
  /\ \A p \in DOMAIN held :
       Size(m, p) \in { AdjustedSize(held[p]), AdjustedSize(held[p]) + DSIZE }

RoundUp(n, unit) == ((n + unit - 1) \div unit) * unit

NothingFits(m, B, asize) == \A b \in B : Free(m, b) => Size(m, b) < asize

\* What the client finds in a payload of that size, and all that it holds: the
\* view of the heap in which the allocator is an AllocatorPromise.
Contents(m, p, size) ==
  [i \in 0 .. (size + WSIZE - 1) \div WSIZE - 1 |-> m[p + WSIZE * i]]

View(m, h) == [p \in DOMAIN h |-> [size |-> h[p], data |-> Contents(m, p, h[p])]]

Held == View(mem, live)

Promise == INSTANCE AllocatorPromise WITH
  Lo <- MEM_START, Hi <- mem_max_addr, CELL <- WSIZE, Requests <- Sizes,
  Values <- 0 .. WORD - 1, held <- Held, top <- mem_brk

-----------------------------------------------------------------------------

TypeOK ==
  /\ mem \in [Words -> 0 .. WORD - 1]
  /\ mem_brk \in MEM_START .. mem_max_addr
  /\ pc \in {"down", "idle", "find_fit", "place", "crashed"}
  /\ heap_listp \in {NULL, WORD - 1, MEM_START + 2 * WSIZE}
  /\ call \in [size : Sizes \union {0}, asize : 0 .. WORD - 1,
               old : DOMAIN live \union {NULL}, bp : 0 .. mem_brk]
  /\ DOMAIN live \subseteq First .. mem_brk - 1
  /\ live \in [DOMAIN live -> Sizes \ {0}]

\* Between any two calls, and inside a search, the headers walked by find_fit
\* lead from the prologue to the epilogue, every footer repeats its header, and
\* prologue and epilogue are intact: the PUTs of coalesce, place and extend_heap
\* (mm.c:116-135, 258-325) land where the tags are.
BoundaryTags ==
  Up => /\ Fenced(mem, mem_brk)
        /\ \E B \in SUBSET Candidates(mem, mem_brk) : Tiles(mem, mem_brk, B)

\* Coalescing is immediate: no two neighbours are both free (mm.c:294-325).
Coalesced ==
  Up => \E B \in SUBSET Candidates(mem, mem_brk) :
          Tiles(mem, mem_brk, B) /\ NoAdjacentFree(mem, B)

\* No block is lost and none is given twice, and a block is big enough for its
\* request with at most 8 bytes to spare (mm.c:197-202, 258-276).
NothingLeaked ==
  Up => \E B \in SUBSET Candidates(mem, mem_brk) :
          Tiles(mem, mem_brk, B) /\ Accounts(mem, B, live)

\* The search of find_fit has passed over no block that would have done
\* (mm.c:236-247), and it stands on a block, the prologue or the epilogue.
SearchSkipsNothing ==
  pc = "find_fit" =>
    \E B \in SUBSET Candidates(mem, mem_brk) :
      /\ Tiles(mem, mem_brk, B)
      /\ call.bp \in B \union {heap_listp, mem_brk}
      /\ NothingFits(mem, { b \in B : b < call.bp }, call.asize)

\* What the search found, or extend_heap made, is a free block big enough for the
\* request that place is about to put there (mm.c:209-223).
FoundBlockFits ==
  pc = "place" =>
    \E B \in SUBSET Candidates(mem, mem_brk) :
      /\ Tiles(mem, mem_brk, B)
      /\ call.bp \in B /\ Free(mem, call.bp) /\ call.asize <= Size(mem, call.bp)

\* mm_malloc and mm_realloc return NULL only if no free block fits and the
\* region has no room for the extension they ask for, which extend_heap rounds
\* up to 16 bytes, and then every held block is as it was: a failed mm_realloc
\* has not freed its argument (mm.c:123-126, 209-222, 362-366).
RefusedOnlyWhenExhausted ==
  [][ pc = "find_fit" /\ pc' = "idle" /\ DOMAIN live' = DOMAIN live
        => /\ \E B \in SUBSET Candidates(mem, mem_brk) :
                Tiles(mem, mem_brk, B) /\ NothingFits(mem, B, call.asize)
           /\ mem_brk + RoundUp(Greater(call.asize, CHUNKSIZE), 16) > mem_max_addr
           /\ UNCHANGED <<mem, mem_brk, live>> ]_vars

\* The heap grows only for a request that no free block can hold.
GrowsOnlyWhenNothingFits ==
  [][ pc = "find_fit" /\ mem_brk' # mem_brk
        => \E B \in SUBSET Candidates(mem, mem_brk) :
             Tiles(mem, mem_brk, B) /\ NothingFits(mem, B, call.asize) ]_vars

\* A block has at least 16 bytes and room for its two tags on top of the
\* request: the comment of mm_malloc (mm.c:191-195).
BlockHoldsRequest ==
  pc = "find_fit" => call.asize >= 2 * DSIZE /\ call.asize >= call.size + DSIZE

\* A search comes to an end: the walk over the headers reaches a fit or the
\* epilogue, never a cycle (mm.c:240-246).
CallReturns == pc = "find_fit" ~> pc = "idle"

\* The allocator keeps the promise of malloc: payloads are aligned, inside the
\* heap and apart, no call disturbs what another payload contains, whatever the
\* client wrote into its own, and mm_realloc carries the contents over
\* (mm.c:180-379).
ImplementsPromise == Promise!PromiseSpec

\* No byte is part of two payloads (mm.c:258-276).
PayloadsApart == Promise!PayloadsApart

=============================================================================

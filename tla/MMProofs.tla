------------------------------ MODULE MMProofs ------------------------------
(***************************************************************************)
(* The allocator keeps its heap right: its safety invariants hold in every *)
(* behaviour, for every region, every CHUNKSIZE and every set of requests  *)
(* that do not wrap the address space.                                     *)
(*                                                                         *)
(* The invariants of MMSafety are each about a part of the state. What is  *)
(* inductive is their conjunction, stated of one row of blocks: the row    *)
(* has no free neighbours, its allocated blocks are what the client holds, *)
(* and the search stands on it.                                            *)
(***************************************************************************)
EXTENDS MMSafety, TLAPS

-----------------------------------------------------------------------------
(***************************************************************************)
(* Rows of blocks: what the PUTs of coalesce, place and extend_heap do to  *)
(* a heap whose headers and footers are right.                             *)
(*                                                                         *)
(* Headers stand at addresses that are 4 modulo 8 and footers at multiples *)
(* of 8, and the blocks of a row do not overlap: that is why writing the   *)
(* tags of one block leaves those of the others alone. Hence mm_free,      *)
(* place, extend_heap and mm_init leave a row without free neighbours      *)
(* where they find one.                                                    *)
(***************************************************************************)

Mem == [Words -> 0 .. WORD - 1]

\* A row is what Tiles and Fenced describe together, except that it may also be
\* empty, as it is in the middle of mm_init.
Row(m, brk, B) ==
  /\ brk \in First .. mem_max_addr /\ brk % 8 = 0
  /\ B \in SUBSET Candidates(m, brk)
  /\ First \in B \union {brk}
  /\ \A b \in B : b + Size(m, b) \in B \union {brk}
  /\ \A b \in B \union {brk} : b = First \/ \E a \in B : a + Size(m, a) = b
  /\ \A a, b \in B : a < b => a + Size(m, a) <= b
  /\ Fenced(m, brk)

\* n is m with the tags of a block of that size at bp written.
Tagged(m, n, bp, size, alloc) ==
  /\ n \in Mem
  /\ \A a \in Words :
       n[a] = IF a = bp - 4 \/ a = bp + size - 8 THEN size + alloc ELSE m[a]

\* n is m with the block c allocated in its first k bytes and free in the rest.
Halved(m, n, c, k) ==
  /\ n \in Mem
  /\ \A a \in Words :
       n[a] = IF a = c + k - 4 \/ a = c + Size(m, c) - 8 THEN Size(m, c) - k
              ELSE IF a = c - 4 \/ a = c + k - 8 THEN k + 1 ELSE m[a]

\* n is m with a free block of s bytes at the break and a new epilogue.
Extended(m, n, brk, s) ==
  /\ n \in Mem
  /\ \A a \in Words :
       n[a] = IF a = brk + s - 4 THEN 1
              ELSE IF a = brk - 4 \/ a = brk + s - 8 THEN s ELSE m[a]

\* A block of both rows that has the same tags in both memories, and one of
\* which no word differs.
SameBlock(m, n, b) == Size(n, b) = Size(m, b) /\ (Free(n, b) <=> Free(m, b))

Untouched(m, n, b) ==
  /\ SameBlock(m, n, b)
  /\ \A a \in Words : b - 4 <= a /\ a < b + Size(m, b) - 4 => n[a] = m[a]

\* What is left of a row when the blocks between c and e have become one at c.
Outside(B, c, e) == { b \in B : b <= c \/ e <= b }

Allocated(m, B) == { b \in B : ~ Free(m, b) }

\* The row C in n has the allocated blocks that the row B has in m, except for
\* those in gone, and no word of them differs.
Carries(m, B, n, C, gone) ==
  /\ Allocated(n, C) = Allocated(m, B) \ gone
  /\ \A b \in Allocated(m, B) \ gone : Untouched(m, n, b)

\* Blocks of B have been merged into a row without free neighbours, one of them
\* now a free block of that size at c.
Merged(m, brk, B, n, c, size) ==
  \E C \in SUBSET B :
    /\ Row(n, brk, C) /\ NoAdjacentFree(n, C) /\ Carries(m, B, n, C, {})
    /\ c \in C /\ Free(n, c) /\ Size(n, c) = size

-----------------------------------------------------------------------------
(* One block.                                                              *)

LEMMA Region ==
  /\ WORD \in Nat /\ MEM_START \in Nat /\ MAX_HEAP \in Nat
  /\ MEM_START > 0 /\ MEM_START % 8 = 0 /\ MAX_HEAP % 8 = 0
  /\ mem_max_addr \in Nat /\ mem_max_addr < WORD /\ mem_max_addr % 8 = 0
  /\ mem_max_addr = MEM_START + MAX_HEAP
  /\ First = MEM_START + 16 /\ First \in Nat /\ First % 8 = 0
<1>1. WORD \in Nat /\ MEM_START \in Nat /\ MAX_HEAP \in Nat /\ MEM_START > 0
      /\ MEM_START % 8 = 0 /\ MAX_HEAP % 8 = 0 /\ MEM_START + MAX_HEAP < WORD
  BY MemLibAssumption
<1> QED
  BY <1>1 DEF mem_max_addr, First, WSIZE

\* The word of a tag, read back with GET_SIZE and GET_ALLOC (mm.c:76-95).
LEMMA TagRead ==
  ASSUME NEW m, NEW b \in Nat, NEW s \in Nat, s % 8 = 0, NEW al \in {0, 1},
         m[b - 4] = s + al
  PROVE  /\ Size(m, b) = s
         /\ Free(m, b) <=> al = 0
         /\ m[HDRP(b)] = s + al /\ m[HDRP(b)] % 8 \in {0, 1}
         /\ FTRP(m, b) = b + s - 8
<1>1. (s + al) % 8 = al /\ (s + al) % 2 = al
  OBVIOUS
<1> QED
  BY <1>1 DEF Size, Free, GET_SIZE, GET_ALLOC, HDRP, FTRP, WSIZE, DSIZE

\* What IsBlock says, in numbers.
LEMMA BlockFacts ==
  ASSUME NEW m \in Mem, NEW brk \in First .. mem_max_addr,
         NEW b \in Candidates(m, brk)
  PROVE  /\ b \in Nat /\ b % 8 = 0 /\ First <= b
         /\ Size(m, b) \in Nat /\ Size(m, b) % 8 = 0 /\ Size(m, b) >= 16
         /\ b + Size(m, b) <= brk
         /\ b - 4 \in Words /\ b + Size(m, b) - 8 \in Words
         /\ m[b - 4] = Size(m, b) + (IF Free(m, b) THEN 0 ELSE 1)
         /\ m[b + Size(m, b) - 8] = m[b - 4]
<1>1. b \in First .. brk - 1 /\ IsBlock(m, brk, b)
  BY DEF Candidates
<1>2. b \in Nat /\ b % 8 = 0 /\ First <= b /\ b + 16 <= brk
  BY <1>1, Region DEF IsBlock, DSIZE
<1>3. b - 4 \in Words
  BY <1>2, Region DEF Words, WSIZE
<1>4. m[b - 4] \in 0 .. WORD - 1
  BY <1>3 DEF Mem
<1>5. Size(m, b) = m[b - 4] - (m[b - 4] % 8)
  BY DEF Size, GET_SIZE, HDRP, WSIZE
<1>6. Size(m, b) \in Nat /\ Size(m, b) % 8 = 0 /\ Size(m, b) >= 16
      /\ b + Size(m, b) <= brk
  BY <1>1, <1>4, <1>5, Region DEF IsBlock, DSIZE
<1>7. b + Size(m, b) - 8 \in Words
  BY <1>2, <1>6, Region DEF Words, WSIZE
<1>8. m[b - 4] % 8 \in {0, 1}
  BY <1>1 DEF IsBlock, HDRP, WSIZE
<1>9. m[b - 4] = Size(m, b) + (IF Free(m, b) THEN 0 ELSE 1)
  <2>1. Free(m, b) <=> m[b - 4] % 2 = 0
    BY DEF Free, GET_ALLOC, HDRP, WSIZE
  <2>2. CASE m[b - 4] % 8 = 0
    <3>1. m[b - 4] % 2 = 0
      BY <2>2, <1>4, Region
    <3> QED
      BY <2>1, <2>2, <3>1, <1>4, <1>5, Region
  <2>3. CASE m[b - 4] % 8 = 1
    <3>1. m[b - 4] % 2 = 1
      BY <2>3, <1>4, Region
    <3> QED
      BY <2>1, <2>3, <3>1, <1>4, <1>5, Region
  <2> QED
    BY <1>8, <2>2, <2>3
<1>10. m[b + Size(m, b) - 8] = m[b - 4]
  BY <1>1 DEF IsBlock, HDRP, FTRP, Size, WSIZE, DSIZE
<1> QED
  BY <1>2, <1>3, <1>6, <1>7, <1>9, <1>10

\* Conversely, two equal tags make a block.
LEMMA BlockFromTags ==
  ASSUME NEW m \in Mem, NEW brk \in First .. mem_max_addr,
         NEW b \in Nat, b % 8 = 0, First <= b,
         NEW s \in Nat, s % 8 = 0, s >= 16, b + s <= brk,
         NEW al \in {0, 1}, m[b - 4] = s + al, m[b + s - 8] = s + al
  PROVE  b \in Candidates(m, brk) /\ Size(m, b) = s /\ (Free(m, b) <=> al = 0)
<1>1. /\ Size(m, b) = s /\ (Free(m, b) <=> al = 0)
      /\ m[HDRP(b)] = s + al /\ m[HDRP(b)] % 8 \in {0, 1}
      /\ FTRP(m, b) = b + s - 8
  BY TagRead
<1>2. m[HDRP(b)] = m[FTRP(m, b)]
  BY <1>1
<1>3. IsBlock(m, brk, b)
  BY <1>1, <1>2, Region DEF IsBlock, DSIZE
<1>4. b \in First .. brk - 1
  BY Region
<1> QED
  BY <1>1, <1>3, <1>4 DEF Candidates

-----------------------------------------------------------------------------
(* A row of blocks.                                                        *)

\* What Row says of every block, in numbers.
LEMMA RowFacts ==
  ASSUME NEW m \in Mem, NEW brk, NEW B, Row(m, brk, B)
  PROVE  /\ brk \in Nat /\ brk % 8 = 0 /\ First <= brk /\ brk <= mem_max_addr
         /\ \A b \in B :
              /\ b \in Nat /\ b % 8 = 0 /\ First <= b
              /\ Size(m, b) \in Nat /\ Size(m, b) % 8 = 0 /\ Size(m, b) >= 16
              /\ b + Size(m, b) <= brk
              /\ b - 4 \in Words /\ b + Size(m, b) - 8 \in Words
              /\ m[b - 4] = Size(m, b) + (IF Free(m, b) THEN 0 ELSE 1)
              /\ m[b + Size(m, b) - 8] = m[b - 4]
         /\ m[MEM_START + 4] = 9 /\ m[MEM_START + 8] = 9 /\ m[brk - 4] = 1
<1>1. brk \in First .. mem_max_addr /\ brk % 8 = 0
  BY DEF Row
<1>2. brk \in Nat /\ First <= brk /\ brk <= mem_max_addr
  BY <1>1, Region
<1>3. ASSUME NEW b \in B
      PROVE  /\ b \in Nat /\ b % 8 = 0 /\ First <= b
             /\ Size(m, b) \in Nat /\ Size(m, b) % 8 = 0 /\ Size(m, b) >= 16
             /\ b + Size(m, b) <= brk
             /\ b - 4 \in Words /\ b + Size(m, b) - 8 \in Words
             /\ m[b - 4] = Size(m, b) + (IF Free(m, b) THEN 0 ELSE 1)
             /\ m[b + Size(m, b) - 8] = m[b - 4]
  <2>1. b \in Candidates(m, brk)
    BY DEF Row
  <2> QED
    BY <1>1, <2>1, BlockFacts
<1>4. m[MEM_START + 4] = 9 /\ m[MEM_START + 8] = 9 /\ m[brk - 4] = 1
  BY Region DEF Row, Fenced, PACK, WSIZE, DSIZE
<1> QED
  BY <1>1, <1>2, <1>3, <1>4

\* A block whose tags are not written stays what it is.
LEMMA KeptBlock ==
  ASSUME NEW m \in Mem, NEW n \in Mem, NEW brk, NEW B, Row(m, brk, B),
         NEW end \in First .. mem_max_addr, brk <= end,
         NEW b \in B, n[b - 4] = m[b - 4],
         n[b + Size(m, b) - 8] = m[b + Size(m, b) - 8]
  PROVE  b \in Candidates(n, end) /\ SameBlock(m, n, b)
<1> DEFINE s == Size(m, b)
           al == IF Free(m, b) THEN 0 ELSE 1
<1>1. /\ b \in Nat /\ b % 8 = 0 /\ First <= b
      /\ s \in Nat /\ s % 8 = 0 /\ s >= 16 /\ b + s <= brk
      /\ m[b - 4] = s + al /\ m[b + s - 8] = m[b - 4]
      /\ brk \in Nat
  BY RowFacts
<1>2. n[b - 4] = s + al /\ n[b + s - 8] = s + al
  BY <1>1
<1>3. al \in {0, 1} /\ (Free(m, b) <=> al = 0)
  OBVIOUS
<1> HIDE DEF s, al
<1>4. b + s <= end
  BY <1>1, Region
<1>5. b \in Candidates(n, end) /\ Size(n, b) = s /\ (Free(n, b) <=> al = 0)
  BY <1>1, <1>2, <1>3, <1>4, BlockFromTags
<1> QED
  BY <1>3, <1>5 DEF s, SameBlock

LEMMA UntouchedBlock ==
  ASSUME NEW m \in Mem, NEW n \in Mem, NEW brk, NEW B, Row(m, brk, B),
         NEW end \in First .. mem_max_addr, brk <= end,
         NEW b \in B,
         \A a \in Words : b - 4 <= a /\ a < b + Size(m, b) - 4 => n[a] = m[a]
  PROVE  b \in Candidates(n, end) /\ Untouched(m, n, b) /\ SameBlock(m, n, b)
<1>1. /\ b \in Nat /\ Size(m, b) \in Nat /\ Size(m, b) >= 16
      /\ b - 4 \in Words /\ b + Size(m, b) - 8 \in Words
  BY RowFacts
<1>2. n[b - 4] = m[b - 4] /\ n[b + Size(m, b) - 8] = m[b + Size(m, b) - 8]
  BY <1>1
<1> QED
  BY <1>2, KeptBlock DEF Untouched

\* A memory with the same tags has the same row.
LEMMA SameTagsSameRow ==
  ASSUME NEW m \in Mem, NEW n \in Mem, NEW brk, NEW B, Row(m, brk, B),
         \A b \in B : n[b - 4] = m[b - 4]
                      /\ n[b + Size(m, b) - 8] = m[b + Size(m, b) - 8],
         n[MEM_START + 4] = 9, n[MEM_START + 8] = 9, n[brk - 4] = 1
  PROVE  Row(n, brk, B) /\ \A b \in B : SameBlock(m, n, b)
<1>1. brk \in First .. mem_max_addr /\ brk % 8 = 0
  BY DEF Row
<1>2. ASSUME NEW b \in B
      PROVE  b \in Candidates(n, brk) /\ SameBlock(m, n, b)
  BY <1>1, KeptBlock, Region
<1>3. Fenced(n, brk)
  BY Region DEF Fenced, PACK, WSIZE, DSIZE
<1>4. \A b \in B : Size(n, b) = Size(m, b)
  BY <1>2 DEF SameBlock
<1>5. B \in SUBSET Candidates(n, brk)
  BY <1>2
<1> QED
  BY <1>1, <1>2, <1>3, <1>4, <1>5 DEF Row

\* Writing the tags of one block over a whole number of blocks: coalescing, and
\* the change of the allocated bit (mm.c:288-325, 258-276). The blocks between
\* c and e are gone, the others are as they were.
LEMMA RetagBlock ==
  ASSUME NEW m \in Mem, NEW brk, NEW B, Row(m, brk, B),
         NEW c \in B, NEW e \in B \union {brk}, c < e,
         NEW al \in {0, 1}, NEW n, Tagged(m, n, c, e - c, al)
  PROVE  LET C == Outside(B, c, e)
         IN  /\ Row(n, brk, C)
             /\ c \in C /\ Size(n, c) = e - c /\ (Free(n, c) <=> al = 0)
             /\ \A b \in C \ {c} : Untouched(m, n, b)
<1> DEFINE C == { b \in B : b <= c \/ e <= b }
<1>1. /\ brk \in First .. mem_max_addr
      /\ brk \in Nat /\ brk % 8 = 0 /\ First <= brk /\ brk <= mem_max_addr
      /\ m[MEM_START + 4] = 9 /\ m[MEM_START + 8] = 9 /\ m[brk - 4] = 1
  BY RowFacts DEF Row
<1>2. \A b \in B : /\ b \in Nat /\ b % 8 = 0 /\ First <= b
                   /\ Size(m, b) \in Nat /\ Size(m, b) % 8 = 0 /\ Size(m, b) >= 16
                   /\ b + Size(m, b) <= brk
                   /\ b - 4 \in Words /\ b + Size(m, b) - 8 \in Words
                   /\ m[b - 4] = Size(m, b) + (IF Free(m, b) THEN 0 ELSE 1)
                   /\ m[b + Size(m, b) - 8] = m[b - 4]
  BY RowFacts
<1>3. \A a, b \in B : a < b => a + Size(m, a) <= b
  BY DEF Row
<1>4. e \in Nat /\ e % 8 = 0 /\ c + Size(m, c) <= e /\ e <= brk
  BY <1>1, <1>2, <1>3
<1>5. n \in Mem
  BY DEF Tagged
<1>6. \A a \in Words : n[a] = IF a = c - 4 \/ a = e - 8 THEN (e - c) + al ELSE m[a]
  <2>1. c + (e - c) - 8 = e - 8
    BY <1>2, <1>4
  <2> QED
    BY <2>1 DEF Tagged
<1>7. ASSUME NEW b \in C, b # c
      PROVE  b \in Candidates(n, brk) /\ Untouched(m, n, b) /\ SameBlock(m, n, b)
  <2> DEFINE s == Size(m, b)
  <2>1. b \in Nat /\ s \in Nat /\ s >= 16 /\ c \in Nat /\ c + 16 <= e
    BY <1>2, <1>4
  <2>2. b + s <= c \/ e <= b
    <3>1. b \in B /\ (b <= c \/ e <= b)
      OBVIOUS
    <3>2. b < c \/ e <= b
      BY <1>7, <2>1, <3>1
    <3> QED
      BY <3>1, <3>2, <1>3
  <2> HIDE DEF s
  <2>3. ASSUME NEW a \in Words, b - 4 <= a /\ a < b + s - 4
        PROVE  n[a] = m[a]
    <3>1. a \in Int
      BY Region DEF Words
    <3>2. a # c - 4 /\ a # e - 8
      BY <1>4, <2>1, <2>2, <2>3, <3>1
    <3> QED
      BY <1>6, <3>2
  <2>4. b \in B
    OBVIOUS
  <2> HIDE DEF C
  <2> QED
    BY <1>1, <1>5, <2>3, <2>4, UntouchedBlock DEF s
<1>8. c \in Candidates(n, brk) /\ Size(n, c) = e - c /\ (Free(n, c) <=> al = 0)
  <2>1. /\ c \in Nat /\ c % 8 = 0 /\ First <= c
        /\ e - c \in Nat /\ (e - c) % 8 = 0 /\ e - c >= 16 /\ c + (e - c) <= brk
        /\ c + (e - c) - 8 = e - 8
    BY <1>2, <1>4
  <2>2. c - 4 \in Words /\ e - 8 \in Words
    BY <1>1, <1>2, <1>4, <2>1, Region DEF Words, WSIZE
  <2>3. n[c - 4] = (e - c) + al /\ n[e - 8] = (e - c) + al
    BY <1>6, <2>2
  <2>4. n[c + (e - c) - 8] = (e - c) + al
    BY <2>1, <2>3
  <2> HIDE DEF C
  <2> QED
    BY <1>1, <1>5, <2>1, <2>3, <2>4, BlockFromTags
<1>9. Fenced(n, brk)
  <2>1. MEM_START + 4 \in Words /\ MEM_START + 8 \in Words /\ brk - 4 \in Words
    BY <1>1, Region DEF Words, WSIZE
  <2>2. /\ MEM_START + 4 # c - 4 /\ MEM_START + 4 # e - 8
        /\ MEM_START + 8 # c - 4 /\ MEM_START + 8 # e - 8
        /\ brk - 4 # c - 4 /\ brk - 4 # e - 8
    <3>1. c \in Nat /\ c % 8 = 0 /\ First <= c /\ c + 16 <= e
      BY <1>2, <1>4
    <3> QED
      BY <1>1, <1>4, <3>1, Region
  <2> QED
    BY <1>1, <1>6, <2>1, <2>2, Region DEF Fenced, PACK, WSIZE, DSIZE
<1>10. c \in C /\ \A b \in C \ {c} : Size(n, b) = Size(m, b)
  <2>1. c <= c
    BY <1>2
  <2> QED
    BY <1>7, <2>1 DEF SameBlock
<1>11. C \in SUBSET Candidates(n, brk)
  BY <1>7, <1>8
<1>12. First \in C \union {brk}
  <2>1. First \in B \union {brk}
    BY DEF Row
  <2>2. First <= c
    BY <1>2
  <2> QED
    BY <2>1, <2>2
<1>13. \A b \in C : b + Size(n, b) \in C \union {brk}
  <2> SUFFICES ASSUME NEW b \in C
               PROVE  b + Size(n, b) \in C \union {brk}
    OBVIOUS
  <2>1. CASE b = c
    <3>1. c + (e - c) = e /\ e <= e
      BY <1>2, <1>4
    <3> QED
      BY <1>8, <2>1, <3>1
  <2>2. CASE b # c
    <3>1. b + Size(n, b) \in B \union {brk}
      BY <1>10, <2>2 DEF Row
    <3>2. b < c \/ e <= b
      <4>1. b \in B /\ (b <= c \/ e <= b)
        OBVIOUS
      <4>2. b \in Nat /\ c \in Nat
        BY <1>2, <4>1
      <4> QED
        BY <2>2, <4>1, <4>2
    <3>3. b + Size(n, b) <= c \/ e <= b + Size(n, b)
      BY <1>2, <1>3, <1>4, <1>10, <2>2, <3>2
    <3> QED
      BY <3>1, <3>3
  <2> QED
    BY <2>1, <2>2
<1>14. \A b \in C \union {brk} : b = First \/ \E a \in C : a + Size(n, a) = b
  <2> SUFFICES ASSUME NEW b \in C \union {brk}, b # First
               PROVE  \E a \in C : a + Size(n, a) = b
    OBVIOUS
  <2>1. PICK a \in B : a + Size(m, a) = b
    BY DEF Row
  <2>2. a \in Nat /\ b \in Nat /\ Size(m, a) \in Nat /\ a < b
    BY <1>1, <1>2, <2>1
  <2>3. CASE b = e
    <3>1. c + (e - c) = e
      BY <1>2, <1>4
    <3> QED
      BY <1>8, <1>10, <2>3, <3>1
  <2>4. CASE b <= c
    <3>1. a < c
      BY <1>2, <2>2, <2>4
    <3>2. a \in C \ {c}
      BY <1>2, <3>1
    <3> QED
      BY <1>10, <2>1, <3>2
  <2>5. CASE b # e /\ e <= b
    <3>1. e \in B
      BY <1>1, <1>2, <2>5
    <3>2. e <= a
      BY <1>2, <1>3, <1>4, <2>1, <2>2, <2>5, <3>1
    <3>3. a \in C \ {c}
      BY <1>2, <1>4, <3>2
    <3> QED
      BY <1>10, <2>1, <3>3
  <2>6. b = e \/ b <= c \/ e <= b
    BY <1>2, <1>4
  <2> QED
    BY <2>3, <2>4, <2>5, <2>6
<1>15. \A a, b \in C : a < b => a + Size(n, a) <= b
  <2> SUFFICES ASSUME NEW a \in C, NEW b \in C, a < b
               PROVE  a + Size(n, a) <= b
    OBVIOUS
  <2>1. CASE a = c
    <3>1. e <= b /\ c + (e - c) = e
      BY <1>2, <1>4, <2>1
    <3> QED
      BY <1>8, <2>1, <3>1
  <2>2. CASE a # c
    BY <1>3, <1>10, <2>2
  <2> QED
    BY <2>1, <2>2
<1> HIDE DEF C
<1>16. Row(n, brk, C)
  BY <1>1, <1>9, <1>11, <1>12, <1>13, <1>14, <1>15 DEF Row
<1> QED
  BY <1>7, <1>8, <1>10, <1>16 DEF C, Outside

\* Splitting a block in two, as place does (mm.c:264-271).
LEMMA SplitBlock ==
  ASSUME NEW m \in Mem, NEW brk, NEW B, Row(m, brk, B),
         NEW c \in B, NEW k \in Nat, k % 8 = 0, k >= 16, k + 16 <= Size(m, c),
         NEW n, Halved(m, n, c, k)
  PROVE  /\ Row(n, brk, B \union {c + k})
         /\ Size(n, c) = k /\ ~ Free(n, c)
         /\ Size(n, c + k) = Size(m, c) - k /\ Free(n, c + k)
         /\ \A b \in B \ {c} : b # c + k /\ Untouched(m, n, b)
<1> DEFINE s == Size(m, c)
           d == c + k
           D == B \union {d}
<1>0. n \in Mem
  BY DEF Halved
<1>1. /\ brk \in First .. mem_max_addr
      /\ brk \in Nat /\ brk % 8 = 0 /\ First <= brk /\ brk <= mem_max_addr
      /\ m[MEM_START + 4] = 9 /\ m[MEM_START + 8] = 9 /\ m[brk - 4] = 1
  BY RowFacts DEF Row
<1>2. \A b \in B : /\ b \in Nat /\ b % 8 = 0 /\ First <= b
                   /\ Size(m, b) \in Nat /\ Size(m, b) % 8 = 0 /\ Size(m, b) >= 16
                   /\ b + Size(m, b) <= brk
                   /\ b - 4 \in Words /\ b + Size(m, b) - 8 \in Words
  BY RowFacts
<1>3. \A a, b \in B : a < b => a + Size(m, a) <= b
  BY DEF Row
<1>4. /\ c \in Nat /\ c % 8 = 0 /\ First <= c
      /\ s \in Nat /\ s % 8 = 0 /\ k + 16 <= s /\ c + s <= brk
      /\ d \in Nat /\ d % 8 = 0 /\ First <= d /\ d = c + k
      /\ c - 4 \in Words /\ c + s - 8 \in Words
  BY <1>2, Region
<1>5. d - 4 \in Words /\ d - 8 \in Words
  BY <1>1, <1>4, Region DEF Words, WSIZE
<1>6. \A a \in Words :
        n[a] = IF a = d - 4 \/ a = c + s - 8 THEN s - k
               ELSE IF a = c - 4 \/ a = d - 8 THEN k + 1 ELSE m[a]
  BY <1>4 DEF Halved
<1> HIDE DEF s, d
<1>7. c \in Candidates(n, brk) /\ Size(n, c) = k /\ ~ Free(n, c)
  <2>1. c - 4 # d - 4 /\ c - 4 # c + s - 8 /\ d - 8 # d - 4 /\ d - 8 # c + s - 8
    BY <1>4
  <2>2. n[c - 4] = k + 1 /\ n[c + k - 8] = k + 1
    BY <1>4, <1>5, <1>6, <2>1
  <2>3. c + k <= brk
    BY <1>1, <1>4
  <2> QED
    BY <1>0, <1>1, <1>4, <2>2, <2>3, BlockFromTags
<1>8. d \in Candidates(n, brk) /\ Size(n, d) = s - k /\ Free(n, d)
  <2>1. PICK rest : rest = s - k
    OBVIOUS
  <2>2. /\ rest \in Nat /\ rest % 8 = 0 /\ rest >= 16 /\ d + rest <= brk
        /\ d + rest - 8 = c + s - 8
    BY <1>1, <1>4, <2>1
  <2>3. n[d - 4] = rest + 0 /\ n[d + rest - 8] = rest + 0
    BY <1>4, <1>5, <1>6, <2>1, <2>2
  <2>4. brk \in First .. mem_max_addr /\ d \in Nat /\ d % 8 = 0 /\ First <= d
    BY <1>1, <1>4
  <2>5. d \in Candidates(n, brk) /\ Size(n, d) = rest /\ Free(n, d)
    BY <1>0, <2>2, <2>3, <2>4, BlockFromTags
  <2> QED
    BY <2>1, <2>5
<1>9. ASSUME NEW b \in B, b # c
      PROVE  b \in Candidates(n, brk) /\ Untouched(m, n, b) /\ SameBlock(m, n, b)
             /\ b # d /\ (b + Size(m, b) <= c \/ c + s <= b)
  <2> DEFINE z == Size(m, b)
  <2>1. b \in Nat /\ z \in Nat /\ z >= 16
    BY <1>2
  <2>2. b + z <= c \/ c + s <= b
    BY <1>3, <1>4, <1>9, <2>1 DEF s
  <2> HIDE DEF z
  <2>3. ASSUME NEW a \in Words, b - 4 <= a /\ a < b + z - 4
        PROVE  n[a] = m[a]
    <3>1. a \in Int
      BY Region DEF Words
    <3>2. a # d - 4 /\ a # c + s - 8 /\ a # c - 4 /\ a # d - 8
      BY <1>4, <2>1, <2>2, <2>3, <3>1
    <3> QED
      BY <1>6, <3>2
  <2>4. b # d
    BY <1>4, <2>1, <2>2
  <2> QED
    BY <1>0, <1>1, <2>2, <2>3, <2>4, UntouchedBlock DEF z
<1>10. Fenced(n, brk)
  <2>1. MEM_START + 4 \in Words /\ MEM_START + 8 \in Words /\ brk - 4 \in Words
    BY <1>1, <1>4, Region DEF Words, WSIZE
  <2>2. \A a \in {MEM_START + 4, MEM_START + 8, brk - 4} :
          a # d - 4 /\ a # c + s - 8 /\ a # c - 4 /\ a # d - 8
    BY <1>1, <1>4, Region
  <2>3. n[MEM_START + 4] = 9 /\ n[MEM_START + 8] = 9 /\ n[brk - 4] = 1
    BY <1>1, <1>6, <2>1, <2>2
  <2> QED
    BY <2>3, Region DEF Fenced, PACK, WSIZE, DSIZE
<1>11. D \in SUBSET Candidates(n, brk) /\ First \in D \union {brk}
  BY <1>7, <1>8, <1>9 DEF Row
<1>12. \A b \in D : b + Size(n, b) \in D \union {brk}
  <2> SUFFICES ASSUME NEW b \in D
               PROVE  b + Size(n, b) \in D \union {brk}
    OBVIOUS
  <2>1. CASE b = c
    BY <1>4, <1>7, <2>1
  <2>2. CASE b = d
    <3>1. d + (s - k) = c + s
      BY <1>4
    <3>2. c + s \in B \union {brk}
      BY DEF Row, s
    <3> QED
      BY <1>8, <2>2, <3>1, <3>2
  <2>3. CASE b # c /\ b # d
    <3>1. Size(n, b) = Size(m, b)
      BY <1>9, <2>3 DEF SameBlock
    <3> QED
      BY <2>3, <3>1 DEF Row
  <2> QED
    BY <2>1, <2>2, <2>3
<1>13. \A b \in D \union {brk} : b = First \/ \E a \in D : a + Size(n, a) = b
  <2> SUFFICES ASSUME NEW b \in D \union {brk}, b # First
               PROVE  \E a \in D : a + Size(n, a) = b
    OBVIOUS
  <2>1. CASE b = d
    BY <1>4, <1>7, <2>1
  <2>2. CASE b # d
    <3>1. PICK a \in B : a + Size(m, a) = b
      BY <2>2 DEF Row
    <3>2. CASE a = c
      <4>1. d + (s - k) = c + s
        BY <1>4
      <4> QED
        BY <1>8, <3>1, <3>2, <4>1 DEF s
    <3>3. CASE a # c
      BY <1>9, <3>1, <3>3 DEF SameBlock
    <3> QED
      BY <3>2, <3>3
  <2> QED
    BY <2>1, <2>2
<1>14. \A a, b \in D : a < b => a + Size(n, a) <= b
  <2> SUFFICES ASSUME NEW a \in D, NEW b \in D, a < b
               PROVE  a + Size(n, a) <= b
    OBVIOUS
  <2>1. \A x \in B : x \in Nat /\ Size(m, x) \in Nat
    BY <1>2
  <2>2. CASE a = c
    BY <1>4, <1>7, <1>9, <2>1, <2>2
  <2>3. CASE a = d
    <3>1. d + (s - k) = c + s
      BY <1>4
    <3>2. b # c /\ b # d
      BY <1>4, <2>3
    <3>3. c + s <= b
      BY <1>4, <1>9, <2>1, <2>3, <3>2
    <3> QED
      BY <1>8, <2>3, <3>1, <3>3
  <2>4. CASE a # c /\ a # d
    <3>1. Size(n, a) = Size(m, a)
      BY <1>9, <2>4 DEF SameBlock
    <3>2. CASE b = d
      BY <1>4, <1>9, <2>1, <2>4, <3>1, <3>2
    <3>3. CASE b # d
      BY <1>3, <2>4, <3>1, <3>3
    <3> QED
      BY <3>2, <3>3
  <2> QED
    BY <2>2, <2>3, <2>4
<1>15. Row(n, brk, D)
  <2> HIDE DEF D
  <2> QED
    BY <1>1, <1>10, <1>11, <1>12, <1>13, <1>14 DEF Row
<1> QED
  BY <1>7, <1>8, <1>9, <1>15 DEF s, d

\* A new block behind the last one, its header where the epilogue was, and a
\* new epilogue behind it (mm.c:129-132).
LEMMA NewLastBlock ==
  ASSUME NEW m \in Mem, NEW brk, NEW B, Row(m, brk, B),
         NEW s \in Nat, s % 8 = 0, s >= 16, brk + s <= mem_max_addr,
         NEW n, Extended(m, n, brk, s)
  PROVE  /\ Row(n, brk + s, B \union {brk})
         /\ Size(n, brk) = s /\ Free(n, brk)
         /\ \A b \in B : b < brk /\ Untouched(m, n, b)
<1> DEFINE end == brk + s
           D == B \union {brk}
<1>0. n \in Mem
  BY DEF Extended
<1>1. /\ brk \in First .. mem_max_addr
      /\ brk \in Nat /\ brk % 8 = 0 /\ First <= brk /\ brk <= mem_max_addr
      /\ m[MEM_START + 4] = 9 /\ m[MEM_START + 8] = 9
  BY RowFacts DEF Row
<1>2. \A b \in B : b \in Nat /\ Size(m, b) \in Nat /\ Size(m, b) >= 16
                   /\ b + Size(m, b) <= brk
  BY RowFacts
<1>3. end \in First .. mem_max_addr /\ end % 8 = 0 /\ end \in Nat /\ brk <= end
      /\ end = brk + s
  BY <1>1, Region
<1>4. \A a \in Words : n[a] = IF a = end - 4 THEN 1
                              ELSE IF a = brk - 4 \/ a = end - 8 THEN s ELSE m[a]
  BY <1>1 DEF Extended
<1>5. brk - 4 \in Words /\ end - 8 \in Words /\ end - 4 \in Words
      /\ MEM_START + 4 \in Words /\ MEM_START + 8 \in Words
  BY <1>1, <1>3, Region DEF Words, WSIZE
<1> HIDE DEF end
<1>6. brk \in Candidates(n, end) /\ Size(n, brk) = s /\ Free(n, brk)
  <2>1. brk - 4 # end - 4 /\ end - 8 # end - 4 /\ brk + s - 8 = end - 8
    BY <1>1, <1>3
  <2>2. n[brk - 4] = s + 0 /\ n[brk + s - 8] = s + 0
    BY <1>4, <1>5, <2>1
  <2>3. brk + s <= end
    BY <1>1, <1>3
  <2> QED
    BY <1>0, <1>1, <1>3, <2>2, <2>3, BlockFromTags
<1>7. ASSUME NEW b \in B
      PROVE  b \in Candidates(n, end) /\ Untouched(m, n, b) /\ SameBlock(m, n, b)
             /\ b < brk
  <2> DEFINE z == Size(m, b)
  <2>1. b \in Nat /\ z \in Nat /\ z >= 16 /\ b + z <= brk
    BY <1>2
  <2> HIDE DEF z
  <2>2. ASSUME NEW a \in Words, b - 4 <= a /\ a < b + z - 4
        PROVE  n[a] = m[a]
    <3>1. a \in Int
      BY Region DEF Words
    <3>2. a # end - 4 /\ a # brk - 4 /\ a # end - 8
      BY <1>1, <1>3, <2>1, <2>2, <3>1
    <3> QED
      BY <1>4, <3>2
  <2>3. b < brk
    BY <1>1, <2>1
  <2> QED
    BY <1>0, <1>3, <2>2, <2>3, UntouchedBlock DEF z
<1>8. Fenced(n, end)
  <2>1. /\ MEM_START + 4 # end - 4 /\ MEM_START + 4 # brk - 4 /\ MEM_START + 4 # end - 8
        /\ MEM_START + 8 # end - 4 /\ MEM_START + 8 # brk - 4 /\ MEM_START + 8 # end - 8
    BY <1>1, <1>3, Region
  <2>2. n[MEM_START + 4] = 9 /\ n[MEM_START + 8] = 9 /\ n[end - 4] = 1
    BY <1>1, <1>4, <1>5, <2>1
  <2> QED
    BY <2>2, Region DEF Fenced, PACK, WSIZE, DSIZE
<1>9. \A b \in B : Size(n, b) = Size(m, b)
  BY <1>7 DEF SameBlock
<1>10. D \in SUBSET Candidates(n, end) /\ First \in D \union {end}
  BY <1>6, <1>7 DEF Row
<1>11. \A b \in D : b + Size(n, b) \in D \union {end}
  BY <1>3, <1>6, <1>9 DEF Row
<1>12. \A b \in D \union {end} : b = First \/ \E a \in D : a + Size(n, a) = b
  BY <1>3, <1>6, <1>9 DEF Row
<1>13. \A a, b \in D : a < b => a + Size(n, a) <= b
  BY <1>1, <1>2, <1>6, <1>9 DEF Row
<1>14. Row(n, end, D)
  <2> HIDE DEF D
  <2> QED
    BY <1>3, <1>8, <1>10, <1>11, <1>12, <1>13 DEF Row
<1> QED
  BY <1>6, <1>7, <1>14 DEF end

-----------------------------------------------------------------------------
(* The functions of mm.c on a row.                                         *)

\* The two PUTs of a header and a footer (mm.c:288-289).
LEMMA SetTagsWrites ==
  ASSUME NEW m \in Mem, NEW bp \in Nat, NEW size \in Nat, size % 8 = 0,
         bp - 4 \in Words, bp + size - 8 \in Words,
         NEW alloc \in {0, 1}, size + alloc < WORD
  PROVE  Tagged(m, SetTags(m, bp, size, alloc), bp, size, alloc)
<1> DEFINE h == [m EXCEPT ![bp - 4] = size + alloc]
<1>1. size + alloc \in 0 .. WORD - 1
  BY Region
<1>2. h \in Mem /\ h[bp - 4] = size + alloc
  BY <1>1 DEF Mem
<1>3. FTRP(h, bp) = bp + size - 8
  BY <1>2, TagRead
<1>4. SetTags(m, bp, size, alloc) = [h EXCEPT ![bp + size - 8] = size + alloc]
  BY <1>3 DEF SetTags, PUT, HDRP, PACK, WSIZE
<1> QED
  BY <1>1, <1>2, <1>4 DEF Tagged, Mem

\* The blocks on either side, as coalesce finds them: the prologue stands in
\* for the one before the first block, the epilogue for the one after the last
\* (mm.c:298-301).
LEMMA NextOf ==
  ASSUME NEW m \in Mem, NEW brk, NEW B, Row(m, brk, B), NEW bp \in B
  PROVE  LET next == NEXT_BLKP(m, bp)
         IN  /\ next = bp + Size(m, bp) /\ next \in B \union {brk} /\ next \in Nat
             /\ GET_ALLOC(m, HDRP(next)) \in {0, 1}
             /\ GET_ALLOC(m, HDRP(next)) = 0 <=> next \in B /\ Free(m, next)
             /\ next = brk => ~ Free(m, brk)
<1> DEFINE next == bp + Size(m, bp)
<1>1. NEXT_BLKP(m, bp) = next
  BY DEF NEXT_BLKP, Size
<1>2. next \in B \union {brk}
  BY DEF Row
<1>3. /\ brk \in Nat /\ m[brk - 4] = 1
      /\ \A b \in B : b \in Nat /\ b - 4 \in Words /\ Size(m, b) \in Nat
                      /\ Size(m, b) >= 16 /\ b + Size(m, b) <= brk
  BY RowFacts
<1>4. brk \notin B
  BY <1>3
<1>5. ~ Free(m, brk)
  BY <1>3 DEF Free, GET_ALLOC, HDRP, WSIZE
<1>6. GET_ALLOC(m, HDRP(next)) \in {0, 1}
  <2>1. CASE next = brk
    BY <1>3, <2>1 DEF GET_ALLOC, HDRP, WSIZE
  <2>2. CASE next \in B
    <3>1. m[next - 4] \in Nat
      BY <1>3, <2>2, Region DEF Mem
    <3> HIDE DEF next
    <3> QED
      BY <3>1 DEF GET_ALLOC, HDRP, WSIZE
  <2> QED
    BY <1>2, <2>1, <2>2
<1>7. GET_ALLOC(m, HDRP(next)) = 0 <=> Free(m, next)
  BY DEF Free
<1>8. next \in Nat
  BY <1>3
<1> HIDE DEF next
<1>9. GET_ALLOC(m, HDRP(next)) = 0 <=> next \in B /\ Free(m, next)
  BY <1>2, <1>5, <1>7
<1> QED
  BY <1>1, <1>2, <1>5, <1>6, <1>8, <1>9 DEF next

LEMMA PrevOf ==
  ASSUME NEW m \in Mem, NEW brk, NEW B, Row(m, brk, B), NEW bp \in B
  PROVE  LET prev == PREV_BLKP(m, bp)
         IN  /\ prev = bp - GET_SIZE(m, bp - 8)
             /\ GET_ALLOC(m, FTRP(m, prev)) \in {0, 1}
             /\ GET_ALLOC(m, FTRP(m, prev)) = 0 =>
                  prev \in B /\ Free(m, prev) /\ prev + Size(m, prev) = bp
             /\ GET_ALLOC(m, FTRP(m, prev)) = 1 =>
                  \A a \in B : a + Size(m, a) = bp => ~ Free(m, a)
<1> DEFINE prev == PREV_BLKP(m, bp)
<1>0. prev = bp - GET_SIZE(m, bp - 8)
  BY DEF PREV_BLKP, DSIZE
<1>1. /\ brk \in Nat /\ m[MEM_START + 4] = 9 /\ m[MEM_START + 8] = 9
      /\ \A b \in B : /\ b \in Nat /\ First <= b
                      /\ b - 4 \in Words /\ b + Size(m, b) - 8 \in Words
                      /\ Size(m, b) \in Nat /\ Size(m, b) >= 16
                      /\ m[b + Size(m, b) - 8] = m[b - 4]
  BY RowFacts
<1>2. CASE bp = First
  <2>1. bp - 8 = MEM_START + 8 /\ bp - 8 - 4 = MEM_START + 4
    BY <1>2, Region
  <2>2. GET_SIZE(m, bp - 8) = 8
    BY <1>1, <2>1 DEF GET_SIZE
  <2>3. prev = MEM_START + 8
    BY <1>0, <1>1, <2>1, <2>2, Region
  <2>4. m[HDRP(MEM_START + 8)] = 9
    <3>1. HDRP(MEM_START + 8) = MEM_START + 4
      BY Region DEF HDRP, WSIZE
    <3> QED
      BY <1>1, <3>1
  <2>5. FTRP(m, MEM_START + 8) = MEM_START + 8
    BY <2>4, Region DEF FTRP, GET_SIZE, DSIZE
  <2>6. GET_ALLOC(m, FTRP(m, prev)) = 1
    BY <1>1, <2>3, <2>5 DEF GET_ALLOC
  <2>7. \A a \in B : a + Size(m, a) # bp
    BY <1>1, <1>2, Region
  <2> HIDE DEF prev
  <2> QED
    BY <1>0, <2>6, <2>7 DEF prev
<1>3. CASE bp # First
  <2>1. PICK a \in B : a + Size(m, a) = bp
    BY <1>3 DEF Row
  <2>2. /\ a \in Nat /\ Size(m, a) \in Nat /\ a - 4 \in Words
        /\ m[a + Size(m, a) - 8] = m[a - 4] /\ m[a - 4] \in Nat
    BY <1>1, Region DEF Mem
  <2>3. m[bp - 8] = m[a - 4]
    BY <2>1, <2>2
  <2>4. GET_SIZE(m, bp - 8) = Size(m, a)
    BY <2>3 DEF GET_SIZE, Size, HDRP, WSIZE
  <2>5. prev = a
    BY <1>0, <2>1, <2>2, <2>4
  <2>6. FTRP(m, a) = bp - 8
    BY <2>1, <2>2 DEF FTRP, Size, DSIZE
  <2>7. GET_ALLOC(m, FTRP(m, prev)) = m[a - 4] % 2
    BY <2>3, <2>5, <2>6 DEF GET_ALLOC
  <2>8. Free(m, a) <=> GET_ALLOC(m, FTRP(m, prev)) = 0
    BY <2>7 DEF Free, GET_ALLOC, HDRP, WSIZE
  <2>9. \A c \in B : c + Size(m, c) = bp => c = a
    BY <1>1, <2>1 DEF Row
  <2>10. m[a - 4] % 2 \in {0, 1}
    BY <2>2
  <2> HIDE DEF prev
  <2> QED
    BY <1>0, <2>1, <2>5, <2>7, <2>8, <2>9, <2>10 DEF prev
<1> QED
  BY <1>2, <1>3

\* The free blocks around bp go from c up to e.
FreeRun(m, brk, B, bp, c, e) ==
  /\ c \in B /\ e \in B \union {brk} /\ c <= bp /\ bp < e
  /\ \A b \in B : c <= b /\ b < e => Free(m, b)
  /\ \A a \in B : a + Size(m, a) = c => ~ Free(m, a)
  /\ e \in B => ~ Free(m, e)

\* What merging them leaves: bp is the one that was just freed or made, the only
\* one that may have had a free neighbour.
LEMMA MergeFree ==
  ASSUME NEW m \in Mem, NEW brk, NEW B, Row(m, brk, B),
         NEW bp \in B,
         \A a, b \in B : a + Size(m, a) = b /\ Free(m, a) /\ Free(m, b) => a = bp \/ b = bp,
         NEW c, NEW e, FreeRun(m, brk, B, bp, c, e),
         NEW n, Tagged(m, n, c, e - c, 0)
  PROVE  Merged(m, brk, B, n, c, e - c)
<1> DEFINE C == { b \in B : b <= c \/ e <= b }
<1>0. /\ c \in B /\ e \in B \union {brk} /\ c <= bp /\ bp < e
      /\ \A b \in B : c <= b /\ b < e => Free(m, b)
      /\ \A a \in B : a + Size(m, a) = c => ~ Free(m, a)
      /\ e \in B => ~ Free(m, e)
  BY DEF FreeRun
<1>1. \A b \in B : b \in Nat /\ Size(m, b) \in Nat /\ Size(m, b) >= 16
                   /\ b + Size(m, b) <= brk
  BY RowFacts
<1>2. brk \in Nat
  BY RowFacts
<1>3. c \in Nat /\ bp \in Nat /\ e \in Nat /\ c < e
  BY <1>0, <1>1, <1>2
<1>4. /\ Row(n, brk, C)
      /\ c \in C /\ Size(n, c) = e - c /\ (Free(n, c) <=> 0 = 0)
      /\ \A b \in C \ {c} : Untouched(m, n, b)
  <2>1. C = Outside(B, c, e)
    BY DEF Outside
  <2> HIDE DEF C
  <2> QED
    BY <1>0, <1>3, <2>1, RetagBlock
<1>5. \A b \in C \ {c} : b \in B /\ Size(n, b) = Size(m, b) /\ (Free(n, b) <=> Free(m, b))
  BY <1>4 DEF Untouched, SameBlock
<1>6. ASSUME NEW a \in C, NEW b \in C, a + Size(n, a) = b, Free(n, a), Free(n, b)
      PROVE  FALSE
  <2>0. a \in B /\ b \in B
    OBVIOUS
  <2>1. CASE a = c
    <3>1. b = e
      BY <1>0, <1>3, <1>4, <1>6, <2>1
    <3> QED
      BY <1>0, <1>3, <1>5, <1>6, <2>1, <3>1
  <2>2. CASE a # c /\ b = c
    BY <1>0, <1>5, <1>6, <2>2
  <2>3. CASE a # c /\ b # c
    <3>1. a + Size(m, a) = b /\ Free(m, a) /\ Free(m, b)
      BY <1>5, <1>6, <2>3
    <3>2. a = bp \/ b = bp
      BY <2>0, <3>1
    <3>3. bp \notin C \ {c}
      BY <1>0, <1>3
    <3> QED
      BY <2>3, <3>2, <3>3
  <2> QED
    BY <2>1, <2>2, <2>3
<1>7. NoAdjacentFree(n, C)
  <2> HIDE DEF C
  <2> QED
    BY <1>6 DEF NoAdjacentFree
<1>8. Carries(m, B, n, C, {})
  <2>1. \A b \in B : ~ Free(m, b) => b \in C \ {c}
    BY <1>0, <1>1, <1>3
  <2>2. Allocated(n, C) = Allocated(m, B)
    BY <1>4, <1>5, <2>1 DEF Allocated
  <2>3. \A b \in Allocated(m, B) : Untouched(m, n, b)
    BY <1>4, <2>1 DEF Allocated
  <2> QED
    BY <2>2, <2>3 DEF Carries
<1>9. C \in SUBSET B
  OBVIOUS
<1> HIDE DEF C
<1> QED
  BY <1>4, <1>7, <1>8, <1>9 DEF Merged

\* coalesce (mm.c:294-325): whatever the neighbours of a free block are, the
\* tags of the free blocks around it become those of one block.
LEMMA CoalesceTags ==
  ASSUME NEW m \in Mem, NEW brk, NEW B, Row(m, brk, B),
         NEW bp \in B, Free(m, bp),
         \A a, b \in B : a + Size(m, a) = b /\ Free(m, a) /\ Free(m, b) => a = bp \/ b = bp
  PROVE  LET r == Coalesce(m, bp)
         IN  \E e \in Nat : /\ FreeRun(m, brk, B, bp, r.bp, e)
                            /\ r.bp \in Nat /\ e - r.bp >= Size(m, bp)
                            /\ Tagged(m, r.mem, r.bp, e - r.bp, 0)
<1> DEFINE prev == PREV_BLKP(m, bp)
           next == NEXT_BLKP(m, bp)
           r == Coalesce(m, bp)
           s == Size(m, bp)
           backward(footer, merged) ==
             LET f == PUT(m, footer, PACK(merged, 0))
                 h == PUT(f, HDRP(PREV_BLKP(f, bp)), PACK(merged, 0))
             IN  [mem |-> h, bp |-> PREV_BLKP(h, bp)]
<1>1. /\ brk \in Nat /\ brk <= mem_max_addr
      /\ \A b \in B : /\ b \in Nat /\ b % 8 = 0 /\ First <= b
                      /\ b - 4 \in Words /\ b + Size(m, b) - 8 \in Words
                      /\ Size(m, b) \in Nat /\ Size(m, b) % 8 = 0 /\ Size(m, b) >= 16
                      /\ b + Size(m, b) <= brk
                      /\ m[b + Size(m, b) - 8] = m[b - 4]
  BY RowFacts
<1>2. \A a, b \in B : a < b => a + Size(m, a) <= b
  BY DEF Row
<1>3. /\ next = bp + s /\ next \in B \union {brk} /\ next \in Nat
      /\ GET_ALLOC(m, HDRP(next)) \in {0, 1}
      /\ GET_ALLOC(m, HDRP(next)) = 0 <=> next \in B /\ Free(m, next)
  BY NextOf
<1>4. /\ prev = bp - GET_SIZE(m, bp - 8)
      /\ GET_ALLOC(m, FTRP(m, prev)) \in {0, 1}
      /\ GET_ALLOC(m, FTRP(m, prev)) = 0 =>
           prev \in B /\ Free(m, prev) /\ prev + Size(m, prev) = bp
      /\ GET_ALLOC(m, FTRP(m, prev)) = 1 =>
           \A a \in B : a + Size(m, a) = bp => ~ Free(m, a)
  BY PrevOf
<1>5. GET_SIZE(m, HDRP(bp)) = s /\ FTRP(m, bp) = bp + s - 8
  BY DEF Size, FTRP, DSIZE
<1>6. /\ bp \in Nat /\ s \in Nat /\ s >= 16 /\ bp + s <= brk /\ s % 8 = 0 /\ bp % 8 = 0
      /\ bp - 4 \in Words /\ bp + s - 8 \in Words
  BY <1>1
<1>7. ASSUME next \in B, Free(m, next)
      PROVE  LET e == next + Size(m, next)
             IN  /\ e \in B \union {brk} /\ e \in Nat /\ e % 8 = 0 /\ next + 16 <= e /\ e <= brk
                 /\ e \in B => ~ Free(m, e)
                 /\ e - 8 \in Words
                 /\ FTRP(m, next) = e - 8 /\ GET_SIZE(m, HDRP(next)) = Size(m, next)
                 /\ GET_SIZE(m, FTRP(m, next)) = Size(m, next)
  <2> DEFINE e == next + Size(m, next)
  <2>1. /\ e \in B \union {brk}
        /\ e \in Nat /\ e % 8 = 0 /\ next + 16 <= e /\ e <= brk /\ e - 8 \in Words
    BY <1>1, <1>7 DEF Row
  <2>2. e \in B => ~ Free(m, e)
    <3> SUFFICES ASSUME e \in B, Free(m, e)
                 PROVE  FALSE
      OBVIOUS
    <3>1. next = bp \/ e = bp
      BY <1>7
    <3> QED
      BY <1>3, <1>6, <2>1, <3>1
  <2>3. FTRP(m, next) = e - 8 /\ GET_SIZE(m, HDRP(next)) = Size(m, next)
    <3>1. GET_SIZE(m, HDRP(next)) = Size(m, next)
      BY DEF Size
    <3>2. Size(m, next) \in Nat
      BY <1>1, <1>7
    <3> HIDE DEF next
    <3> QED
      BY <1>3, <3>1, <3>2 DEF FTRP, DSIZE
  <2>4. m[e - 8] = m[next - 4]
    BY <1>1, <1>7
  <2>5. GET_SIZE(m, e - 8) = Size(m, next)
    <3> HIDE DEF e, next
    <3> QED
      BY <2>4 DEF GET_SIZE, Size, HDRP, WSIZE
  <2> HIDE DEF e, next
  <2> QED
    BY <2>1, <2>2, <2>3, <2>5 DEF e
<1>8. ASSUME prev \in B, Free(m, prev), prev + Size(m, prev) = bp
      PROVE  /\ \A a \in B : a + Size(m, a) = prev => ~ Free(m, a)
             /\ prev < bp /\ prev \in Nat /\ prev % 8 = 0
             /\ prev - 4 \in Words /\ bp - 8 \in Words /\ First <= prev
             /\ GET_SIZE(m, HDRP(prev)) = Size(m, prev) /\ Size(m, prev) = bp - prev
             /\ GET_SIZE(m, bp - 8) = bp - prev
  <2> HIDE DEF prev
  <2>1. /\ prev < bp /\ prev \in Nat /\ prev % 8 = 0 /\ prev - 4 \in Words /\ First <= prev
        /\ Size(m, prev) \in Nat /\ Size(m, prev) = bp - prev
    BY <1>1, <1>6, <1>8
  <2>2. bp - 8 \in Words /\ m[bp - 8] = m[prev - 4]
    BY <1>1, <1>8
  <2>3. \A a \in B : a + Size(m, a) = prev => ~ Free(m, a)
    <3> SUFFICES ASSUME NEW a \in B, a + Size(m, a) = prev, Free(m, a)
                 PROVE  FALSE
      OBVIOUS
    <3>1. a = bp \/ prev = bp
      BY <1>8
    <3> QED
      BY <1>1, <1>6, <2>1, <3>1
  <2>4. GET_SIZE(m, HDRP(prev)) = Size(m, prev)
    BY DEF Size
  <2>5. GET_SIZE(m, bp - 8) = Size(m, prev)
    BY <2>2 DEF GET_SIZE, Size, HDRP, WSIZE
  <2> QED
    BY <2>1, <2>2, <2>3, <2>4, <2>5
\* the tail of the last two cases: both tags of the merged block are written
<1>9. ASSUME prev \in B, Free(m, prev), prev + Size(m, prev) = bp,
             NEW e \in Nat, e % 8 = 0, bp + 16 <= e, e <= brk, e - 8 \in Words
      PROVE  /\ Tagged(m, backward(e - 8, e - prev).mem, prev, e - prev, 0)
             /\ backward(e - 8, e - prev).bp = prev
  <2> DEFINE merged == e - prev
             f == [m EXCEPT ![e - 8] = merged]
             h == [f EXCEPT ![prev - 4] = merged]
  <2>1. /\ prev < bp /\ prev \in Nat /\ prev % 8 = 0
        /\ prev - 4 \in Words /\ bp - 8 \in Words /\ First <= prev
        /\ GET_SIZE(m, bp - 8) = bp - prev
    BY <1>8, <1>9
  <2> HIDE DEF prev
  <2>2. merged \in 0 .. WORD - 1 /\ merged \in Nat
    BY <1>1, <1>6, <1>9, <2>1, Region
  <2>3. bp - 8 # e - 8 /\ bp - 8 # prev - 4
    BY <1>6, <1>9, <2>1
  <2>4. f \in Mem /\ f[bp - 8] = m[bp - 8]
    BY <2>1, <2>2, <2>3 DEF Mem
  <2>5. PREV_BLKP(f, bp) = prev
    <3>1. GET_SIZE(f, bp - 8) = bp - prev
      BY <2>1, <2>4 DEF GET_SIZE
    <3> HIDE DEF f
    <3> QED
      BY <1>6, <2>1, <3>1 DEF PREV_BLKP, DSIZE
  <2>6. h \in Mem /\ h[bp - 8] = m[bp - 8]
    BY <2>1, <2>2, <2>3, <2>4 DEF Mem
  <2>7. PREV_BLKP(h, bp) = prev
    <3>1. GET_SIZE(h, bp - 8) = bp - prev
      BY <2>1, <2>6 DEF GET_SIZE
    <3> HIDE DEF h
    <3> QED
      BY <1>6, <2>1, <3>1 DEF PREV_BLKP, DSIZE
  <2>8. PACK(merged, 0) = merged
    BY <2>2 DEF PACK
  <2>9. backward(e - 8, merged) = [mem |-> h, bp |-> prev]
    <3> HIDE DEF merged
    <3>1. PUT(m, e - 8, PACK(merged, 0)) = f
      BY <2>8 DEF PUT
    <3>2. PUT(f, HDRP(PREV_BLKP(f, bp)), PACK(merged, 0)) = h
      BY <2>5, <2>8 DEF PUT, HDRP, WSIZE
    <3> HIDE DEF f, h
    <3> QED
      BY <2>7, <3>1, <3>2
  <2>10. prev + merged - 8 = e - 8 /\ merged + 0 = merged
    BY <1>9, <2>1
  <2>11. Tagged(m, h, prev, merged, 0)
    <3> HIDE DEF merged
    <3>1. \A a \in Words : h[a] = IF a = prev - 4 \/ a = e - 8 THEN merged ELSE m[a]
      BY <2>4 DEF Mem
    <3> HIDE DEF h
    <3> QED
      BY <2>6, <2>10, <3>1 DEF Tagged
  <2> QED
    BY <2>9, <2>11
<1>10. CASE GET_ALLOC(m, FTRP(m, prev)) = 1 /\ GET_ALLOC(m, HDRP(next)) = 1
  <2>1. r = [mem |-> m, bp |-> bp]
    BY <1>10 DEF Coalesce
  <2>2. m[bp - 4] = s /\ m[bp + s - 8] = s
    <3>1. m[bp - 4] = s + (IF Free(m, bp) THEN 0 ELSE 1)
      BY RowFacts
    <3>2. m[bp + s - 8] = m[bp - 4]
      BY <1>1
    <3> HIDE DEF s
    <3>3. m[bp - 4] = s + 0
      BY <3>1
    <3> QED
      BY <1>6, <3>2, <3>3
  <2>3. next - bp = s /\ bp < next
    BY <1>3, <1>6
  <2>4. \A b \in B : bp <= b /\ b < next => Free(m, b)
    <3> SUFFICES ASSUME NEW b \in B, bp <= b, b < next, b # bp
                 PROVE  FALSE
      OBVIOUS
    <3>1. bp + s <= b
      BY <1>1, <1>2, <1>6
    <3> QED
      BY <1>1, <1>3, <3>1
  <2>5. \A a \in B : a + Size(m, a) = bp => ~ Free(m, a)
    BY <1>4, <1>10
  <2>6. next \in B => ~ Free(m, next)
    BY <1>3, <1>10
  <2> HIDE DEF r, s, next
  <2>7. FreeRun(m, brk, B, bp, bp, next)
    BY <1>3, <1>6, <2>3, <2>4, <2>5, <2>6 DEF FreeRun
  <2>8. Tagged(m, m, bp, s, 0)
    BY <1>6, <2>2 DEF Tagged
  <2> QED
    BY <1>3, <1>6, <2>1, <2>3, <2>7, <2>8 DEF r, s
<1>11. CASE GET_ALLOC(m, FTRP(m, prev)) = 1 /\ GET_ALLOC(m, HDRP(next)) = 0
  <2> DEFINE e == next + Size(m, next)
             n == SetTags(m, bp, e - bp, 0)
  <2>1. /\ next \in B /\ Free(m, next)
        /\ e \in B \union {brk} /\ e \in Nat /\ e % 8 = 0 /\ next + 16 <= e /\ e <= brk
        /\ e \in B => ~ Free(m, e)
        /\ e - 8 \in Words
        /\ GET_SIZE(m, HDRP(next)) = Size(m, next)
    BY <1>3, <1>7, <1>11
  <2>2. s + GET_SIZE(m, HDRP(next)) = e - bp
    BY <1>1, <1>3, <1>6, <2>1
  <2>3. r = [mem |-> n, bp |-> bp]
    <3>1. r = [mem |-> SetTags(m, bp, s + GET_SIZE(m, HDRP(next)), 0), bp |-> bp]
      BY <1>11 DEF Coalesce, Size
    <3> QED
      BY <2>2, <3>1
  <2> HIDE DEF e, r, prev
  <2>4. Tagged(m, n, bp, e - bp, 0)
    <3>1. /\ e - bp \in Nat /\ (e - bp) % 8 = 0 /\ bp + (e - bp) - 8 = e - 8
          /\ (e - bp) + 0 < WORD
      BY <1>1, <1>3, <1>6, <2>1, Region
    <3>2. bp + (e - bp) - 8 \in Words
      BY <2>1, <3>1
    <3> HIDE DEF next
    <3> QED
      BY <1>6, <3>1, <3>2, SetTagsWrites
  <2>5. \A b \in B : bp <= b /\ b < e => Free(m, b)
    <3> SUFFICES ASSUME NEW b \in B, bp <= b, b < e, b # bp, b # next
                 PROVE  FALSE
      BY <2>1
    <3>1. bp + s <= b
      BY <1>1, <1>2, <1>6
    <3>2. next < b
      BY <1>1, <1>3, <3>1
    <3>3. next + Size(m, next) <= b
      BY <1>2, <2>1, <3>2
    <3> QED
      BY <1>1, <2>1, <3>3 DEF e
  <2>6. \A a \in B : a + Size(m, a) = bp => ~ Free(m, a)
    BY <1>4, <1>11
  <2>7. bp <= bp /\ bp < e /\ e - bp >= s
    BY <1>3, <1>6, <2>1
  <2> HIDE DEF n
  <2>8. FreeRun(m, brk, B, bp, bp, e)
    BY <2>1, <2>5, <2>6, <2>7 DEF FreeRun
  <2> QED
    BY <1>6, <2>1, <2>3, <2>4, <2>7, <2>8 DEF r
<1>12. CASE GET_ALLOC(m, FTRP(m, prev)) = 0 /\ GET_ALLOC(m, HDRP(next)) = 1
  <2> DEFINE n == backward(next - 8, next - prev).mem
  <2>1. /\ prev \in B /\ Free(m, prev) /\ prev + Size(m, prev) = bp
        /\ prev < bp /\ prev \in Nat
        /\ GET_SIZE(m, HDRP(prev)) = Size(m, prev) /\ Size(m, prev) = bp - prev
        /\ \A a \in B : a + Size(m, a) = prev => ~ Free(m, a)
    BY <1>4, <1>8, <1>12
  <2>2. next \in B => ~ Free(m, next)
    BY <1>3, <1>12
  <2>3. s + GET_SIZE(m, HDRP(prev)) = next - prev /\ FTRP(m, bp) = next - 8
    BY <1>3, <1>5, <1>6, <2>1
  <2>4. r = backward(next - 8, next - prev)
    <3>1. r = backward(FTRP(m, bp), s + GET_SIZE(m, HDRP(prev)))
      BY <1>12 DEF Coalesce, Size
    <3> HIDE DEF backward, r
    <3> QED
      BY <2>3, <3>1
  <2>5. next % 8 = 0 /\ bp + 16 <= next /\ next <= brk /\ next - 8 \in Words
    BY <1>3, <1>6
  <2> HIDE DEF backward, r
  <2>6. Tagged(m, n, prev, next - prev, 0) /\ r.bp = prev /\ r.mem = n
    BY <1>3, <1>9, <2>1, <2>4, <2>5
  <2> HIDE DEF prev, n
  <2>7. \A b \in B : prev <= b /\ b < next => Free(m, b)
    <3> SUFFICES ASSUME NEW b \in B, prev <= b, b < next, b # bp, b # prev
                 PROVE  FALSE
      BY <2>1
    <3>1. bp <= b
      BY <1>1, <1>2, <2>1
    <3>2. bp + s <= b
      BY <1>1, <1>2, <1>6, <3>1
    <3> QED
      BY <1>1, <1>3, <3>2
  <2>8. prev <= bp /\ bp < next /\ next - prev >= s
    BY <1>3, <1>6, <2>1, <2>5
  <2> HIDE DEF next
  <2>9. FreeRun(m, brk, B, bp, prev, next)
    BY <1>3, <2>1, <2>2, <2>7, <2>8 DEF FreeRun
  <2> QED
    BY <1>3, <2>1, <2>6, <2>8, <2>9 DEF r
<1>13. CASE GET_ALLOC(m, FTRP(m, prev)) = 0 /\ GET_ALLOC(m, HDRP(next)) = 0
  <2> DEFINE e == next + Size(m, next)
             n == backward(e - 8, e - prev).mem
  <2>1. /\ prev \in B /\ Free(m, prev) /\ prev + Size(m, prev) = bp
        /\ prev < bp /\ prev \in Nat
        /\ GET_SIZE(m, HDRP(prev)) = Size(m, prev) /\ Size(m, prev) = bp - prev
        /\ \A a \in B : a + Size(m, a) = prev => ~ Free(m, a)
    BY <1>4, <1>8, <1>13
  <2>2. /\ next \in B /\ Free(m, next)
        /\ e \in B \union {brk} /\ e \in Nat /\ e % 8 = 0 /\ next + 16 <= e /\ e <= brk
        /\ e \in B => ~ Free(m, e)
        /\ e - 8 \in Words
        /\ FTRP(m, next) = e - 8 /\ GET_SIZE(m, FTRP(m, next)) = Size(m, next)
    BY <1>3, <1>7, <1>13
  <2>3. s + GET_SIZE(m, HDRP(prev)) + GET_SIZE(m, FTRP(m, next)) = e - prev
    BY <1>1, <1>3, <1>6, <2>1, <2>2
  <2>4. r = backward(e - 8, e - prev)
    <3>1. r = backward(FTRP(m, next), s + GET_SIZE(m, HDRP(prev))
                                        + GET_SIZE(m, FTRP(m, next)))
      BY <1>13 DEF Coalesce, Size
    <3>2. FTRP(m, next) = e - 8
      BY <2>2
    <3> HIDE DEF backward, r, e
    <3> QED
      BY <2>3, <3>1, <3>2
  <2>5. bp + 16 <= e
    BY <1>3, <1>6, <2>2
  <2> HIDE DEF backward, r, e
  <2>6. Tagged(m, n, prev, e - prev, 0) /\ r.bp = prev /\ r.mem = n
    BY <1>9, <2>1, <2>2, <2>4, <2>5
  <2> HIDE DEF prev, n
  <2>7. \A b \in B : prev <= b /\ b < e => Free(m, b)
    <3> SUFFICES ASSUME NEW b \in B, prev <= b, b < e, b # bp, b # prev, b # next
                 PROVE  FALSE
      BY <2>1, <2>2
    <3>1. bp <= b
      BY <1>1, <1>2, <2>1
    <3>2. bp + s <= b
      BY <1>1, <1>2, <1>6, <3>1
    <3>3. next < b
      BY <1>1, <1>3, <3>2
    <3>4. next + Size(m, next) <= b
      BY <1>2, <2>2, <3>3
    <3> QED
      BY <1>1, <2>2, <3>4 DEF e
  <2>8. prev <= bp /\ bp < e /\ e - prev >= s
    BY <1>3, <1>6, <2>1, <2>2
  <2> HIDE DEF next
  <2>9. FreeRun(m, brk, B, bp, prev, e)
    BY <2>1, <2>2, <2>7, <2>8 DEF FreeRun
  <2> QED
    BY <2>1, <2>2, <2>6, <2>8, <2>9 DEF r
<1> QED
  BY <1>3, <1>4, <1>10, <1>11, <1>12, <1>13

\* The block it returns spans bp, and no two neighbours are free any more.
LEMMA CoalesceMerges ==
  ASSUME NEW m \in Mem, NEW brk, NEW B, Row(m, brk, B),
         NEW bp \in B, Free(m, bp),
         \A a, b \in B : a + Size(m, a) = b /\ Free(m, a) /\ Free(m, b) => a = bp \/ b = bp
  PROVE  LET r == Coalesce(m, bp)
         IN  /\ r.mem \in Mem
             /\ \E size \in Nat :
                  size >= Size(m, bp) /\ Merged(m, brk, B, r.mem, r.bp, size)
<1>1. PICK r : r = Coalesce(m, bp)
  OBVIOUS
<1>2. PICK e \in Nat : /\ FreeRun(m, brk, B, bp, r.bp, e)
                       /\ r.bp \in Nat /\ e - r.bp >= Size(m, bp)
                       /\ Tagged(m, r.mem, r.bp, e - r.bp, 0)
  BY <1>1, CoalesceTags
<1>3. Merged(m, brk, B, r.mem, r.bp, e - r.bp)
  BY <1>2, MergeFree
<1>4. Size(m, bp) \in Nat
  BY RowFacts
<1>5. e - r.bp \in Nat
  BY <1>2, <1>4
<1>6. r.mem \in Mem
  BY <1>2 DEF Tagged
<1> QED
  BY <1>1, <1>2, <1>3, <1>5, <1>6

-----------------------------------------------------------------------------
(* What the operations do to a row without free neighbours.                *)

Good(m, brk, B) == m \in Mem /\ Row(m, brk, B) /\ NoAdjacentFree(m, B)

\* No request is so large that its rounding, or the extension made for it, wraps
\* the address space. The run mm_huge shows what happens when
\* one does.
RequestsDoNotWrap ==
  /\ mem_max_addr + CHUNKSIZE + 16 < WORD
  /\ \A size \in Sizes : mem_max_addr + size + 32 < WORD

LEMMA UntouchedTwice ==
  ASSUME NEW m, NEW n, NEW o, NEW b, Untouched(m, n, b), Untouched(n, o, b)
  PROVE  Untouched(m, o, b)
BY DEF Untouched, SameBlock

\* A block keeps its size and changes, or keeps, its allocated bit.
LEMMA RetagInPlace ==
  ASSUME NEW m \in Mem, NEW brk, NEW B, Row(m, brk, B),
         NEW c \in B, NEW al \in {0, 1}
  PROVE  LET n == SetTags(m, c, Size(m, c), al)
         IN  /\ n \in Mem /\ Row(n, brk, B)
             /\ Size(n, c) = Size(m, c) /\ (Free(n, c) <=> al = 0)
             /\ \A b \in B \ {c} : Untouched(m, n, b)
<1> DEFINE s == Size(m, c)
           e == c + s
           n == SetTags(m, c, s, al)
<1>1. /\ brk \in Nat /\ brk <= mem_max_addr
      /\ \A b \in B : /\ b \in Nat /\ Size(m, b) \in Nat /\ Size(m, b) >= 16
                      /\ b + Size(m, b) <= brk
      /\ c - 4 \in Words /\ c + s - 8 \in Words /\ s % 8 = 0
  BY RowFacts
<1>2. c \in Nat /\ s \in Nat /\ s >= 16 /\ e \in B \union {brk} /\ c + s <= brk
      /\ First <= c
  BY <1>1, RowFacts DEF Row
<1> HIDE DEF s
<1>8. c < e /\ e - c = s /\ s + al < WORD
  BY <1>1, <1>2, Region
<1>3. Tagged(m, n, c, s, al)
  BY <1>1, <1>2, <1>8, SetTagsWrites
<1>4. n \in Mem
  BY <1>3 DEF Tagged
<1> HIDE DEF n, e
<1>5. Outside(B, c, e) = B
  <2>1. \A b \in B : b <= c \/ e <= b
    BY <1>1, <1>2 DEF Row, e, s
  <2> QED
    BY <2>1 DEF Outside
<1>6. Tagged(m, n, c, e - c, al)
  BY <1>3, <1>8
<1>7. /\ Row(n, brk, B)
      /\ Size(n, c) = e - c /\ (Free(n, c) <=> al = 0)
      /\ \A b \in B \ {c} : Untouched(m, n, b)
  BY <1>2, <1>5, <1>6, <1>8, RetagBlock
<1> QED
  BY <1>4, <1>7, <1>8 DEF s, n

\* mm_free (mm.c:282-291): the block is gone from the allocated ones, and no
\* other is disturbed.
LEMMA ReleaseFrees ==
  ASSUME NEW m, NEW brk, NEW B, Good(m, brk, B), NEW bp \in B
  PROVE  \E C : /\ Good(Release(m, bp), brk, C)
                /\ Carries(m, B, Release(m, bp), C, {bp})
<1> DEFINE n == SetTags(m, bp, Size(m, bp), 0)
           r == Coalesce(n, bp)
<1>1. m \in Mem /\ Row(m, brk, B) /\ NoAdjacentFree(m, B)
  BY DEF Good
<1>2. /\ n \in Mem /\ Row(n, brk, B)
      /\ Size(n, bp) = Size(m, bp) /\ Free(n, bp)
      /\ \A b \in B \ {bp} : Untouched(m, n, b)
  <2>1. 0 \in {0, 1}
    OBVIOUS
  <2> HIDE DEF n
  <2> QED
    BY <1>1, <2>1, RetagInPlace DEF n
<1>3. Release(m, bp) = r.mem
  BY DEF Release, Size
<1> HIDE DEF n
<1>4. \A a, b \in B : a + Size(n, a) = b /\ Free(n, a) /\ Free(n, b) => a = bp \/ b = bp
  BY <1>1, <1>2 DEF NoAdjacentFree, Untouched, SameBlock
<1>5. /\ r.mem \in Mem
      /\ \E size \in Nat : size >= Size(n, bp) /\ Merged(n, brk, B, r.mem, r.bp, size)
  BY <1>2, <1>4, CoalesceMerges
<1> HIDE DEF r
<1>6. PICK C \in SUBSET B :
        /\ Row(r.mem, brk, C) /\ NoAdjacentFree(r.mem, C)
        /\ Carries(n, B, r.mem, C, {})
  BY <1>5 DEF Merged
<1>7. Allocated(n, B) = Allocated(m, B) \ {bp}
  BY <1>2 DEF Allocated, Untouched, SameBlock
<1>8. Carries(m, B, r.mem, C, {bp})
  <2>1. ASSUME NEW b \in Allocated(m, B) \ {bp}
        PROVE  Untouched(m, r.mem, b)
    <3>1. Untouched(m, n, b)
      BY <1>2 DEF Allocated
    <3>2. Untouched(n, r.mem, b)
      BY <1>6, <1>7 DEF Carries
    <3> QED
      BY <3>1, <3>2, UntouchedTwice
  <2> QED
    BY <1>6, <1>7, <2>1 DEF Carries
<1> QED
  BY <1>3, <1>5, <1>6, <1>8 DEF Good

\* place splits when what remains can be a block (mm.c:264-271).
LEMMA PlaceHalves ==
  ASSUME NEW m \in Mem, NEW brk, NEW B, Row(m, brk, B), NEW bp \in B,
         NEW asize \in Nat, asize % 8 = 0, asize >= 16, asize + 16 <= Size(m, bp)
  PROVE  Halved(m, Place(m, bp, asize), bp, asize)
<1> DEFINE s == Size(m, bp)
           n == Place(m, bp, asize)
           d == bp + asize
<1>1. /\ brk \in Nat /\ brk <= mem_max_addr /\ asize + 16 <= s
      /\ bp \in Nat /\ s \in Nat /\ bp + s <= brk /\ s % 8 = 0 /\ s >= 16 /\ bp % 8 = 0
      /\ bp - 4 \in Words /\ bp + s - 8 \in Words /\ First <= bp
  BY RowFacts
<1>2. (s - asize) % WORD = s - asize /\ s - asize >= 16
  BY <1>1, Region
<1>3. GET_SIZE(m, HDRP(bp)) = s
  BY DEF Size
<1> HIDE DEF s
<1> DEFINE front == SetTags(m, bp, asize, 1)
           back == SetTags(front, d, s - asize, 0)
<1>4. bp + asize - 8 \in Words /\ d - 4 \in Words /\ d \in Nat
      /\ s - asize \in Nat /\ (s - asize) % 8 = 0 /\ d + (s - asize) - 8 = bp + s - 8
      /\ asize + 1 < WORD /\ (s - asize) + 0 < WORD
  BY <1>1, Region DEF Words, WSIZE
<1>5. Tagged(m, front, bp, asize, 1)
  BY <1>1, <1>4, SetTagsWrites
<1>6. front \in Mem /\ \A a \in Words :
        front[a] = IF a = bp - 4 \/ a = bp + asize - 8 THEN asize + 1 ELSE m[a]
  BY <1>5 DEF Tagged
<1> HIDE DEF front
<1>7. NEXT_BLKP(front, bp) = d
  <2>1. front[bp - 4] = asize + 1
    BY <1>1, <1>6
  <2>2. Size(front, bp) = asize
    BY <1>1, <2>1, TagRead
  <2> QED
    BY <2>2 DEF NEXT_BLKP, Size
<1>8. n = back
  BY <1>2, <1>3, <1>7 DEF Place, DSIZE, front
<1> HIDE DEF d, n
<1>9. Tagged(front, back, d, s - asize, 0)
  <2>1. d + (s - asize) - 8 \in Words
    BY <1>1, <1>4
  <2> QED
    BY <1>4, <1>6, <2>1, SetTagsWrites
<1>10. back \in Mem /\ \A a \in Words :
        back[a] = IF a = d - 4 \/ a = bp + s - 8 THEN s - asize ELSE front[a]
  <2>1. (s - asize) + 0 = s - asize
    BY <1>4
  <2> HIDE DEF back
  <2> QED
    BY <1>4, <1>9, <2>1 DEF Tagged
<1> HIDE DEF back
<1>11. \A a \in Words :
        back[a] = IF a = d - 4 \/ a = bp + s - 8 THEN s - asize
                  ELSE IF a = bp - 4 \/ a = bp + asize - 8 THEN asize + 1 ELSE m[a]
  BY <1>6, <1>10
<1>12. Size(m, bp) = s
  BY DEF s
<1>13. Halved(m, back, bp, asize)
  BY <1>1, <1>10, <1>11, <1>12 DEF Halved, d
<1> QED
  BY <1>8, <1>13 DEF n

\* place (mm.c:258-276): the block is allocated, no larger than needed by more
\* than 8 bytes, and what is split off is free.
LEMMA PlaceAllocates ==
  ASSUME NEW m, NEW brk, NEW B, Good(m, brk, B), NEW bp \in B, Free(m, bp),
         NEW asize \in Nat, asize % 8 = 0, asize >= 16, asize <= Size(m, bp)
  PROVE  LET n == Place(m, bp, asize)
         IN  \E C : /\ Good(n, brk, C)
                    /\ bp \in C /\ Size(n, bp) \in {asize, asize + 8}
                    /\ Allocated(n, C) = Allocated(m, B) \union {bp}
                    /\ \A b \in Allocated(m, B) : Untouched(m, n, b)
<1> DEFINE s == Size(m, bp)
           n == Place(m, bp, asize)
           d == bp + asize
<1>1. m \in Mem /\ Row(m, brk, B) /\ NoAdjacentFree(m, B)
  BY DEF Good
<1>2. /\ brk \in Nat /\ brk <= mem_max_addr /\ asize <= s
      /\ bp \in Nat /\ s \in Nat /\ bp + s <= brk /\ s % 8 = 0 /\ s >= 16 /\ bp % 8 = 0
      /\ bp - 4 \in Words /\ bp + s - 8 \in Words /\ First <= bp
  BY <1>1, RowFacts
<1>3. (s - asize) % WORD = s - asize
  BY <1>2, Region
<1>4. GET_SIZE(m, HDRP(bp)) = s
  BY DEF Size
<1>5. bp \notin Allocated(m, B)
  BY DEF Allocated
<1> HIDE DEF s
<1>6. CASE s - asize >= 16
  <2>1. asize + 16 <= s /\ Halved(m, n, bp, asize)
    <3>1. asize + 16 <= Size(m, bp)
      BY <1>2, <1>6 DEF s
    <3> QED
      BY <1>1, <3>1, PlaceHalves DEF s
  <2> HIDE DEF n
  <2>2. /\ Row(n, brk, B \union {d})
        /\ Size(n, bp) = asize /\ ~ Free(n, bp)
        /\ Size(n, d) = s - asize /\ Free(n, d)
        /\ \A b \in B \ {bp} : b # d /\ Untouched(m, n, b)
    <3>1. asize + 16 <= Size(m, bp) /\ Halved(m, n, bp, asize)
      BY <2>1 DEF s
    <3> HIDE DEF d
    <3> QED
      BY <1>1, <3>1, SplitBlock DEF s, d
  <2>3. \A b \in B \ {bp} : Size(n, b) = Size(m, b) /\ (Free(n, b) <=> Free(m, b))
    BY <2>2 DEF Untouched, SameBlock
  <2>4. bp # d /\ d + (s - asize) = bp + s
    BY <1>2, <2>1 DEF d
  <2>5. NoAdjacentFree(n, B \union {d})
    <3> SUFFICES ASSUME NEW a \in B \union {d}, NEW b \in B \union {d},
                        a + Size(n, a) = b, Free(n, a), Free(n, b)
                 PROVE  FALSE
      BY DEF NoAdjacentFree
    <3>1. a # bp /\ b # bp
      BY <2>2
    <3>2. CASE a = d
      <4>1. b = bp + s
        BY <2>2, <2>4, <3>2
      <4>2. b # d
        BY <1>2, <2>1, <4>1 DEF d
      <4>3. b \in B /\ Free(m, b)
        BY <2>3, <3>1, <4>2
      <4> QED
        BY <1>1, <4>1, <4>3 DEF NoAdjacentFree, s
    <3>3. CASE b = d /\ a # d
      <4>1. a \in B /\ a + Size(m, a) = d /\ a # bp
        BY <2>3, <3>1, <3>3
      <4>2. \A x, y \in B : x < y => x + Size(m, x) <= y
        BY <1>1 DEF Row
      <4>3. a \in Nat /\ Size(m, a) \in Nat /\ Size(m, a) >= 16
        BY <1>1, <4>1, RowFacts
      <4> QED
        BY <1>2, <2>1, <4>1, <4>2, <4>3 DEF d, s
    <3>4. CASE b # d /\ a # d
      BY <1>1, <2>3, <3>1, <3>4 DEF NoAdjacentFree
    <3> QED
      BY <3>2, <3>3, <3>4
  <2>6. Allocated(n, B \union {d}) = Allocated(m, B) \union {bp}
    BY <2>2, <2>3 DEF Allocated
  <2>7. \A b \in Allocated(m, B) : Untouched(m, n, b)
    BY <1>5, <2>2 DEF Allocated
  <2>8. Good(n, brk, B \union {d})
    BY <2>1, <2>2, <2>5 DEF Good, Halved
  <2> QED
    BY <2>2, <2>6, <2>7, <2>8 DEF n
<1>7. CASE ~ (s - asize >= 16)
  <2> DEFINE whole == SetTags(m, bp, s, 1)
  <2>1. n = whole
    BY <1>3, <1>4, <1>7 DEF Place, DSIZE
  <2> HIDE DEF n
  <2>2. /\ whole \in Mem /\ Row(whole, brk, B)
        /\ Size(whole, bp) = s /\ ~ Free(whole, bp)
        /\ \A b \in B \ {bp} : Untouched(m, whole, b)
    BY <1>1, RetagInPlace DEF s
  <2> HIDE DEF whole
  <2>3. \A b \in B \ {bp} : Size(whole, b) = Size(m, b) /\ (Free(whole, b) <=> Free(m, b))
    BY <2>2 DEF Untouched, SameBlock
  <2>4. NoAdjacentFree(whole, B)
    BY <1>1, <2>2, <2>3 DEF NoAdjacentFree
  <2>5. Allocated(whole, B) = Allocated(m, B) \union {bp}
    BY <2>2, <2>3 DEF Allocated
  <2>6. \A b \in Allocated(m, B) : Untouched(m, whole, b)
    BY <1>5, <2>2 DEF Allocated
  <2>7. s \in {asize, asize + 8}
    BY <1>2, <1>7
  <2> QED
    BY <2>1, <2>2, <2>4, <2>5, <2>6, <2>7 DEF Good, n
<1> QED
  BY <1>6, <1>7

-----------------------------------------------------------------------------
(* mem_sbrk and extend_heap.                                               *)

\* As long as the sum does not wrap, mem_sbrk refuses exactly what does not fit
\* (memlib.c:71-76).
LEMMA SbrkIsExact ==
  ASSUME NEW brk \in Nat, NEW size \in Nat, mem_max_addr + size < WORD,
         brk <= mem_max_addr
  PROVE  /\ SbrkFails(brk, size) <=> brk + size > mem_max_addr
         /\ ~ SbrkFails(brk, size) => Advance(brk, size) = brk + size
<1>1. WORD \in Nat /\ WORD % 16 = 0 /\ mem_max_addr \in Nat /\ mem_max_addr < WORD
  BY Region, MemLibAssumption
<1>2. CASE size < WORD \div 2
  <2>1. ToInt(size) = size /\ ~ (ToInt(size) < 0)
    BY <1>1, <1>2 DEF ToInt
  <2>2. (brk + size) % WORD = brk + size
    BY <1>1
  <2> QED
    BY <2>1, <2>2 DEF SbrkFails, Advance
<1>3. CASE ~ (size < WORD \div 2)
  <2>1. ToInt(size) < 0
    BY <1>1, <1>3 DEF ToInt
  <2>2. brk + size > mem_max_addr
    BY <1>1, <1>3
  <2> QED
    BY <2>1, <2>2 DEF SbrkFails
<1> QED
  BY <1>2, <1>3

\* The extension: the number of words made even, in units of 8 bytes.
LEMMA ExtensionIsEven ==
  ASSUME NEW words \in Nat, words >= 2, words * 8 + 8 < WORD
  PROVE  LET size == ExtensionSize(words)
         IN  /\ size \in Nat /\ size = (words + (words % 2)) * 8
             /\ size % 8 = 0 /\ size >= 16 /\ size >= words * 8 /\ size <= words * 8 + 8
<1> DEFINE size == (words + (words % 2)) * 8
<1>1. size \in Nat /\ size % 8 = 0 /\ size >= 16 /\ size >= words * 8
      /\ size <= words * 8 + 8
  OBVIOUS
<1>2. size % WORD = size
  BY <1>1, Region
<1>3. ExtensionSize(words) = size
  BY <1>2 DEF ExtensionSize, DSIZE
<1> QED
  BY <1>1, <1>3

\* The PUTs of extend_heap, before it coalesces (mm.c:129-131).
LEMMA ExtensionWrites ==
  ASSUME NEW m \in Mem, NEW brk, NEW B, Row(m, brk, B),
         NEW s \in Nat, s % 8 = 0, s >= 16, brk + s <= mem_max_addr
  PROVE  LET free == SetTags(m, brk, s, 0)
         IN  Extended(m, PUT(free, HDRP(NEXT_BLKP(free, brk)), PACK(0, 1)), brk, s)
<1> DEFINE free == SetTags(m, brk, s, 0)
<1>1. brk \in Nat /\ brk % 8 = 0 /\ First <= brk /\ brk <= mem_max_addr
  BY RowFacts
<1>2. brk - 4 \in Words /\ brk + s - 8 \in Words /\ brk + s - 4 \in Words
      /\ s + 0 < WORD /\ s + 0 = s
  BY <1>1, Region DEF Words, WSIZE
<1>3. Tagged(m, free, brk, s, 0)
  <2>1. 0 \in {0, 1}
    OBVIOUS
  <2> QED
    BY <1>1, <1>2, <2>1, SetTagsWrites
<1> HIDE DEF free
<1>4. free \in Mem /\ \A a \in Words :
        free[a] = IF a = brk - 4 \/ a = brk + s - 8 THEN s ELSE m[a]
  BY <1>2, <1>3 DEF Tagged
<1>5. Size(free, brk) = s
  <2>1. free[brk - 4] = s + 0
    BY <1>2, <1>4
  <2> QED
    BY <1>1, <2>1, TagRead
<1>6. PUT(free, HDRP(NEXT_BLKP(free, brk)), PACK(0, 1)) = [free EXCEPT ![brk + s - 4] = 1]
  <2>1. NEXT_BLKP(free, brk) = brk + s
    BY <1>5 DEF NEXT_BLKP, Size
  <2>2. HDRP(brk + s) = brk + s - 4
    BY <1>1 DEF HDRP, WSIZE
  <2>3. PACK(0, 1) = 1
    BY DEF PACK
  <2> QED
    BY <2>1, <2>2, <2>3 DEF PUT
<1>7. 1 \in 0 .. WORD - 1
  BY Region
<1>8. Extended(m, [free EXCEPT ![brk + s - 4] = 1], brk, s)
  <2> DEFINE n == [free EXCEPT ![brk + s - 4] = 1]
  <2>1. n \in Mem
    BY <1>2, <1>4, <1>7 DEF Mem
  <2>2. \A a \in Words : n[a] = IF a = brk + s - 4 THEN 1 ELSE free[a]
    BY <1>4 DEF Mem
  <2> HIDE DEF n
  <2>3. \A a \in Words :
          n[a] = IF a = brk + s - 4 THEN 1
                 ELSE IF a = brk - 4 \/ a = brk + s - 8 THEN s ELSE m[a]
    BY <1>4, <2>2
  <2> QED
    BY <2>1, <2>3 DEF Extended, n
<1> QED
  BY <1>6, <1>8 DEF free

\* What extend_heap returns (mm.c:116-135): NULL and an unchanged heap, or a free
\* block at least as large as what was asked for.
Grown(m, brk, B, r, size) ==
  \E C : /\ Good(r.mem, r.brk, C) /\ Carries(m, B, r.mem, C, {})
         /\ r.bp \in C /\ Free(r.mem, r.bp) /\ Size(r.mem, r.bp) >= size

LEMMA ExtendHeapGrows ==
  ASSUME NEW m, NEW brk, NEW B, Good(m, brk, B),
         NEW words \in Nat, words >= 2, mem_max_addr + words * 8 + 8 < WORD
  PROVE  LET r == ExtendHeap(m, brk, words)
             size == ExtensionSize(words)
         IN  /\ brk + size > mem_max_addr => r = [mem |-> m, brk |-> brk, bp |-> NULL]
             /\ brk + size <= mem_max_addr =>
                  /\ r.brk = brk + size /\ r.bp # NULL
                  /\ Grown(m, brk, B, r, words * 8)
<1> DEFINE s == ExtensionSize(words)
           free == SetTags(m, brk, s, 0)
           tagged == PUT(free, HDRP(NEXT_BLKP(free, brk)), PACK(0, 1))
           c == Coalesce(tagged, brk)
           r == ExtendHeap(m, brk, words)
<1>1. m \in Mem /\ Row(m, brk, B) /\ NoAdjacentFree(m, B)
  BY DEF Good
<1>2. /\ brk \in Nat /\ First <= brk /\ brk <= mem_max_addr
      /\ \A b \in B : b \in Nat /\ Size(m, b) \in Nat
  BY <1>1, RowFacts
<1>3. /\ s \in Nat /\ s % 8 = 0 /\ s >= 16 /\ s >= words * 8
      /\ mem_max_addr + s < WORD
  <2>1. words * 8 + 8 < WORD
    BY Region
  <2>2. /\ s \in Nat /\ s % 8 = 0 /\ s >= 16 /\ s >= words * 8 /\ s <= words * 8 + 8
    BY <2>1, ExtensionIsEven
  <2> HIDE DEF s
  <2> QED
    BY <2>2, Region
<1>4. r = IF SbrkFails(brk, s) THEN [mem |-> m, brk |-> brk, bp |-> NULL]
          ELSE [mem |-> c.mem, brk |-> Advance(brk, s), bp |-> c.bp]
  BY DEF ExtendHeap
<1> HIDE DEF s, r
<1>5. /\ SbrkFails(brk, s) <=> brk + s > mem_max_addr
      /\ ~ SbrkFails(brk, s) => Advance(brk, s) = brk + s
  BY <1>2, <1>3, SbrkIsExact
<1>6. CASE brk + s > mem_max_addr
  BY <1>2, <1>3, <1>4, <1>5, <1>6, Region DEF s, r
<1>7. CASE brk + s <= mem_max_addr
  <2> DEFINE D == B \union {brk}
             end == brk + s
  <2>1. Extended(m, tagged, brk, s)
    BY <1>1, <1>3, <1>7, ExtensionWrites
  <2>2. tagged \in Mem
    BY <2>1 DEF Extended
  <2>3. r = [mem |-> c.mem, brk |-> end, bp |-> c.bp]
    BY <1>2, <1>3, <1>4, <1>5, <1>7, Region
  <2> HIDE DEF tagged
  <2>4. /\ Row(tagged, end, D)
        /\ Size(tagged, brk) = s /\ Free(tagged, brk)
        /\ \A b \in B : b < brk /\ Untouched(m, tagged, b)
    BY <1>1, <1>3, <1>7, <2>1, NewLastBlock
  <2>5. \A a, b \in D : a + Size(tagged, a) = b /\ Free(tagged, a) /\ Free(tagged, b)
                        => a = brk \/ b = brk
    BY <1>1, <2>4 DEF NoAdjacentFree, Untouched, SameBlock
  <2>6. brk \in D
    OBVIOUS
  <2> HIDE DEF D, end
  <2>7. /\ c.mem \in Mem
        /\ \E size \in Nat : size >= Size(tagged, brk) /\ Merged(tagged, end, D, c.mem, c.bp, size)
    BY <2>2, <2>4, <2>5, <2>6, CoalesceMerges
  <2> HIDE DEF c
  <2>8. PICK size \in Nat : size >= s /\ Merged(tagged, end, D, c.mem, c.bp, size)
    BY <2>4, <2>7
  <2>9. PICK C \in SUBSET D :
          /\ Row(c.mem, end, C) /\ NoAdjacentFree(c.mem, C) /\ Carries(tagged, D, c.mem, C, {})
          /\ c.bp \in C /\ Free(c.mem, c.bp) /\ Size(c.mem, c.bp) = size
    BY <2>8 DEF Merged
  <2>10. Allocated(tagged, D) = Allocated(m, B)
    BY <2>4 DEF Allocated, Untouched, SameBlock, D
  <2>11. Carries(m, B, c.mem, C, {})
    <3>1. ASSUME NEW b \in Allocated(m, B)
          PROVE  Untouched(m, c.mem, b)
      <4>1. Untouched(m, tagged, b)
        BY <2>4 DEF Allocated
      <4>2. Untouched(tagged, c.mem, b)
        BY <2>9, <2>10 DEF Carries
      <4> QED
        BY <4>1, <4>2, UntouchedTwice
    <3> QED
      BY <2>9, <2>10, <3>1 DEF Carries
  <2>12. Good(c.mem, end, C)
    BY <2>7, <2>9 DEF Good
  <2>13. c.bp # NULL
    <3>1. c.bp \in Nat /\ First <= c.bp
      BY <2>7, <2>9, RowFacts
    <3> QED
      BY <3>1, Region DEF NULL
  <2>14. Size(c.mem, c.bp) >= words * 8
    BY <1>3, <2>8, <2>9
  <2>15. Grown(m, brk, B, r, words * 8)
    BY <2>3, <2>9, <2>11, <2>12, <2>14 DEF Grown
  <2> QED
    BY <1>2, <1>3, <1>7, <2>3, <2>13, <2>15, Region DEF s, r, end
<1> QED
  BY <1>2, <1>3, <1>6, <1>7, Region DEF s, r

-----------------------------------------------------------------------------
(* mm_init, requests and payloads.                                         *)

LEMMA FirstIsABlock ==
  ASSUME NEW m \in Mem, NEW brk, NEW B, Row(m, brk, B), NEW b \in B
  PROVE  First \in B
<1>1. First \in B \union {brk}
  BY DEF Row
<1>2. brk \in Nat /\ b \in Nat /\ First <= b /\ Size(m, b) \in Nat /\ Size(m, b) >= 16
      /\ b + Size(m, b) <= brk
  BY RowFacts
<1> QED
  BY <1>1, <1>2, Region

\* The four PUTs of mm_init (mm.c:156-166): an empty row between prologue and
\* epilogue, which extend_heap gets as it would any other.
LEMMA InitFences ==
  ASSUME NEW m \in Mem, RequestsDoNotWrap
  PROVE  LET r == InitHeap(m)
             words == CHUNKSIZE \div DSIZE
         IN  /\ words \in Nat /\ words * 8 = CHUNKSIZE /\ words >= 2
             /\ mem_max_addr + words * 8 + 8 < WORD
             /\ SbrkFails(ResetBrk, 4 * WSIZE)
                  => r = [mem |-> m, brk |-> MEM_START, bp |-> NULL]
             /\ ~ SbrkFails(ResetBrk, 4 * WSIZE)
                  => /\ First <= mem_max_addr
                     /\ \E f : Good(f, First, {}) /\ r = ExtendHeap(f, First, words)
<1> DEFINE r == InitHeap(m)
           fenced == [m EXCEPT ![MEM_START] = 0, ![MEM_START + 4] = 9,
                               ![MEM_START + 8] = 9, ![MEM_START + 12] = 1]
           words == CHUNKSIZE \div 8
<1>1. /\ CHUNKSIZE \in Nat /\ CHUNKSIZE % 8 = 0 /\ CHUNKSIZE >= 16
      /\ mem_max_addr + CHUNKSIZE + 16 < WORD
  BY MMAssumption DEF RequestsDoNotWrap, DSIZE
<1>2. words \in Nat /\ words * 8 = CHUNKSIZE /\ words >= 2
      /\ mem_max_addr + words * 8 + 8 < WORD
  BY <1>1, Region
<1> HIDE DEF words
<1>3. /\ SbrkFails(MEM_START, 16) <=> MEM_START + 16 > mem_max_addr
      /\ ~ SbrkFails(MEM_START, 16) => Advance(MEM_START, 16) = MEM_START + 16
  <2>1. MEM_START \in Nat /\ 16 \in Nat /\ mem_max_addr + 16 < WORD
        /\ MEM_START <= mem_max_addr
    BY <1>1, Region
  <2> QED
    BY <2>1, SbrkIsExact
<1>4. CHUNKSIZE \div DSIZE = words /\ ResetBrk = MEM_START /\ 4 * WSIZE = 16
  BY DEF DSIZE, WSIZE, ResetBrk, words
<1>5. r = IF SbrkFails(MEM_START, 16)
          THEN [mem |-> m, brk |-> MEM_START, bp |-> NULL]
          ELSE ExtendHeap(fenced, Advance(MEM_START, 16), words)
  <2>1. PACK(DSIZE, 1) = 9 /\ PACK(0, 1) = 1
        /\ MEM_START + 0 * WSIZE = MEM_START /\ MEM_START + 1 * WSIZE = MEM_START + 4
        /\ MEM_START + 2 * WSIZE = MEM_START + 8 /\ MEM_START + 3 * WSIZE = MEM_START + 12
    BY Region DEF WSIZE, DSIZE, PACK
  <2> QED
    BY <1>4, <2>1 DEF InitHeap
<1> HIDE DEF r
<1>6. ASSUME ~ SbrkFails(MEM_START, 16)
      PROVE  First <= mem_max_addr /\ Good(fenced, First, {})
             /\ r = ExtendHeap(fenced, First, words)
  <2>1. MEM_START + 16 <= mem_max_addr /\ First = MEM_START + 16
        /\ Advance(MEM_START, 16) = First
    BY <1>3, <1>6, Region
  <2>2. MEM_START \in Words /\ MEM_START + 4 \in Words /\ MEM_START + 8 \in Words
        /\ MEM_START + 12 \in Words
    BY <2>1, Region DEF Words, WSIZE
  <2>3. {0, 1, 9} \subseteq 0 .. WORD - 1
    BY <1>1, Region
  <2>4. fenced \in Mem /\ fenced[MEM_START + 4] = 9 /\ fenced[MEM_START + 8] = 9
        /\ fenced[MEM_START + 12] = 1
    BY <2>2, <2>3, Region DEF Mem
  <2> HIDE DEF fenced
  <2>5. First \in First .. mem_max_addr /\ First % 8 = 0 /\ First - 4 = MEM_START + 12
    BY <2>1, Region
  <2>6. Fenced(fenced, First)
    BY <2>4, <2>5 DEF Fenced, PACK, WSIZE, DSIZE
  <2>7. Row(fenced, First, {})
    BY <2>5, <2>6 DEF Row
  <2> QED
    BY <1>5, <1>6, <2>1, <2>4, <2>5, <2>7 DEF Good, NoAdjacentFree
<1> HIDE DEF fenced
<1> QED
  BY <1>2, <1>4, <1>5, <1>6 DEF r

\* mm_init (mm.c:153-180) leaves a row with nothing allocated.
LEMMA InitHeapMakesARow ==
  ASSUME NEW m \in Mem, RequestsDoNotWrap
  PROVE  LET r == InitHeap(m)
         IN  /\ r.mem \in Mem /\ r.brk \in MEM_START .. mem_max_addr
             /\ r.bp # NULL => /\ ~ SbrkFails(ResetBrk, 4 * WSIZE)
                               /\ \E C : /\ Good(r.mem, r.brk, C) /\ First \in C
                                         /\ Allocated(r.mem, C) = {}
<1> DEFINE words == CHUNKSIZE \div DSIZE
           size == ExtensionSize(words)
<1>1. PICK r : r = InitHeap(m)
  OBVIOUS
<1>2. /\ words \in Nat /\ words >= 2 /\ mem_max_addr + words * 8 + 8 < WORD
      /\ SbrkFails(ResetBrk, 4 * WSIZE) => r = [mem |-> m, brk |-> MEM_START, bp |-> NULL]
      /\ ~ SbrkFails(ResetBrk, 4 * WSIZE)
           => /\ First <= mem_max_addr
              /\ \E f : Good(f, First, {}) /\ r = ExtendHeap(f, First, words)
  BY <1>1, InitFences
<1> HIDE DEF words
<1>3. CASE SbrkFails(ResetBrk, 4 * WSIZE)
  BY <1>1, <1>2, <1>3, Region
<1>4. CASE ~ SbrkFails(ResetBrk, 4 * WSIZE)
  <2>1. PICK f : Good(f, First, {}) /\ r = ExtendHeap(f, First, words)
    BY <1>2, <1>4
  <2>2. /\ First + size > mem_max_addr => r = [mem |-> f, brk |-> First, bp |-> NULL]
        /\ First + size <= mem_max_addr =>
             /\ r.brk = First + size /\ r.bp # NULL
             /\ Grown(f, First, {}, r, words * 8)
    BY <1>2, <2>1, ExtendHeapGrows
  <2>3. size \in Nat
    <3>1. words * 8 + 8 < WORD
      BY <1>2, Region
    <3> QED
      BY <1>2, <3>1, ExtensionIsEven
  <2> HIDE DEF size
  <2>4. CASE First + size > mem_max_addr
    <3>1. First \in MEM_START .. mem_max_addr
      BY <1>2, <1>4, Region
    <3> QED
      BY <1>1, <2>1, <2>2, <2>4, <3>1 DEF Good
  <2>5. CASE First + size <= mem_max_addr
    <3>1. PICK C : /\ Good(r.mem, r.brk, C) /\ Carries(f, {}, r.mem, C, {})
                   /\ r.bp \in C
      BY <2>2, <2>5 DEF Grown
    <3>2. Allocated(r.mem, C) = {}
      BY <3>1 DEF Carries, Allocated
    <3>3. r.mem \in Mem /\ First \in C
      BY <3>1, FirstIsABlock DEF Good
    <3>4. r.brk \in MEM_START .. mem_max_addr
      BY <2>2, <2>3, <2>5, Region
    <3> QED
      BY <1>1, <1>4, <3>1, <3>2, <3>3, <3>4
  <2> QED
    BY <2>3, <2>4, <2>5, Region
<1> QED
  BY <1>3, <1>4

\* The block size of a request (mm.c:195-202).
LEMMA RequestIsRounded ==
  ASSUME RequestsDoNotWrap, NEW size \in Sizes \ {0}
  PROVE  LET asize == AdjustedSize(size)
         IN  /\ size \in Nat /\ asize \in Nat /\ asize % 8 = 0 /\ asize >= 16
             /\ asize >= size + 8 /\ asize <= size + 15
             /\ asize < WORD /\ mem_max_addr + asize + 16 < WORD
<1>1. size \in Nat /\ size > 0 /\ mem_max_addr + size + 32 < WORD
  BY MemLibAssumption DEF RequestsDoNotWrap
<1>2. CASE size <= 8
  BY <1>1, <1>2, Region DEF AdjustedSize, DSIZE
<1>3. CASE size > 8
  <2> DEFINE n == size + 15
             k == n \div 8
  <2>1. (size + 8 + (8 - 1)) % WORD = n
    BY <1>1, Region
  <2>2. n \in Nat /\ k \in Nat /\ 8 * k <= n /\ n <= 8 * k + 7
    BY <1>1
  <2>3. AdjustedSize(size) = 8 * k
    BY <1>1, <1>3, <2>1 DEF AdjustedSize, DSIZE
  <2>4. 8 * k \in Nat /\ (8 * k) % 8 = 0
    BY <2>2
  <2> HIDE DEF k
  <2> QED
    BY <1>1, <1>3, <2>2, <2>3, <2>4, Region
<1> QED
  BY <1>1, <1>2, <1>3

\* Whatever is written into a payload, between the header and the footer of its
\* block, leaves the row as it is and the other blocks untouched.
LEMMA PayloadWrite ==
  ASSUME NEW m, NEW brk, NEW B, Good(m, brk, B), NEW p \in B, NEW n \in Mem,
         \A a \in Words : a < p \/ a >= p + Size(m, p) - 8 => n[a] = m[a]
  PROVE  /\ Good(n, brk, B) /\ \A b \in B : SameBlock(m, n, b)
         /\ \A b \in B \ {p} : Untouched(m, n, b)
<1>1. m \in Mem /\ Row(m, brk, B) /\ NoAdjacentFree(m, B)
  BY DEF Good
<1>2. /\ brk \in Nat /\ brk % 8 = 0 /\ First <= brk /\ brk <= mem_max_addr
      /\ \A b \in B : /\ b \in Nat /\ First <= b /\ Size(m, b) \in Nat /\ Size(m, b) >= 16
                      /\ b + Size(m, b) <= brk
                      /\ b - 4 \in Words /\ b + Size(m, b) - 8 \in Words
      /\ m[MEM_START + 4] = 9 /\ m[MEM_START + 8] = 9 /\ m[brk - 4] = 1
  BY <1>1, RowFacts
<1>3. \A a, b \in B : a < b => a + Size(m, a) <= b
  BY <1>1 DEF Row
<1>4. ASSUME NEW b \in B
      PROVE  n[b - 4] = m[b - 4] /\ n[b + Size(m, b) - 8] = m[b + Size(m, b) - 8]
  <2> DEFINE z == Size(m, b)
             s == Size(m, p)
  <2>1. b \in Nat /\ p \in Nat /\ z \in Nat /\ s \in Nat /\ z >= 16 /\ s >= 16
    BY <1>2
  <2>2. b = p \/ b + z <= p \/ p + s <= b
    BY <1>2, <1>3
  <2>3. b - 4 \in Words /\ b + z - 8 \in Words
    BY <1>2
  <2>4. b = p => z = s
    OBVIOUS
  <2>5. \A a \in Words : a < p \/ a >= p + s - 8 => n[a] = m[a]
    OBVIOUS
  <2> HIDE DEF z, s
  <2>6. b - 4 < p \/ b - 4 >= p + s - 8
    BY <2>1, <2>2
  <2>7. b + z - 8 < p \/ b + z - 8 >= p + s - 8
    BY <2>1, <2>2, <2>4
  <2> QED
    BY <2>3, <2>5, <2>6, <2>7 DEF z
<1>5. n[MEM_START + 4] = 9 /\ n[MEM_START + 8] = 9 /\ n[brk - 4] = 1
  <2>1. /\ MEM_START + 4 \in Words /\ MEM_START + 4 < p
        /\ MEM_START + 8 \in Words /\ MEM_START + 8 < p
        /\ brk - 4 \in Words /\ brk - 4 >= p + Size(m, p) - 8
    <3>1. /\ p \in Nat /\ First <= p /\ Size(m, p) \in Nat /\ p + Size(m, p) <= brk
          /\ Size(m, p) >= 16
      BY <1>2
    <3> QED
      BY <1>2, <3>1, Region DEF Words, WSIZE
  <2> QED
    BY <1>2, <2>1
<1>6. Row(n, brk, B) /\ \A b \in B : SameBlock(m, n, b)
  BY <1>1, <1>4, <1>5, SameTagsSameRow
<1>7. NoAdjacentFree(n, B)
  BY <1>1, <1>6 DEF NoAdjacentFree, SameBlock
<1>8. ASSUME NEW b \in B \ {p}
      PROVE  Untouched(m, n, b)
  <2>1. /\ b \in Nat /\ p \in Nat /\ Size(m, b) \in Nat /\ Size(m, p) \in Nat
        /\ Size(m, b) >= 16
    BY <1>2
  <2>2. b + Size(m, b) <= p \/ p + Size(m, p) <= b
    BY <1>2, <1>3
  <2>3. ASSUME NEW a \in Words, b - 4 <= a, a < b + Size(m, b) - 4
        PROVE  n[a] = m[a]
    <3>1. a \in Int
      BY Region DEF Words
    <3>2. a < p \/ a >= p + Size(m, p) - 8
      BY <2>1, <2>2, <2>3, <3>1
    <3> QED
      BY <3>2
  <2> QED
    BY <1>6, <2>3 DEF Untouched
<1> QED
  BY <1>6, <1>7, <1>8 DEF Good

-----------------------------------------------------------------------------
(***************************************************************************)
(* The invariant, the theorems and the refinement.                         *)
(***************************************************************************)

\* The heap between two steps, and what it says about what the client holds.
Sound(m, brk, held, B) == Good(m, brk, B) /\ First \in B /\ Accounts(m, B, held)

\* The search stands on the row and has passed over nothing that fits.
Searching(m, brk, c, B) ==
  /\ c.bp \in B \union {MEM_START + 2 * WSIZE, brk}
  /\ NothingFits(m, { b \in B : b < c.bp }, c.asize)

Found(m, c, B) == c.bp \in B /\ Free(m, c.bp) /\ c.asize <= Size(m, c.bp)

\* A call in progress: its block size is the one derived from its request.
Pending(c, held) ==
  /\ c \in [size : Sizes \ {0}, asize : 0 .. WORD - 1,
            old : DOMAIN held \union {NULL}, bp : Nat]
  /\ c.asize = AdjustedSize(c.size)

HeldOK(held, brk) ==
  held \in [DOMAIN held -> Sizes \ {0}] /\ DOMAIN held \subseteq First .. brk - 1

StateOK ==
  /\ mem \in Mem
  /\ mem_brk \in MEM_START .. mem_max_addr
  /\ pc \in {"down", "idle", "find_fit", "place", "crashed"}
  /\ heap_listp \in {NULL, WORD - 1, MEM_START + 2 * WSIZE}
  /\ HeldOK(live, mem_brk)
  /\ IF pc \in {"find_fit", "place"} THEN Pending(call, live) ELSE call = NoCall

HeapOK ==
  /\ pc = "down" => DOMAIN live = {}
  /\ pc # "down" =>
       /\ heap_listp = MEM_START + 2 * WSIZE
       /\ \E B \in SUBSET Candidates(mem, mem_brk) :
            /\ Sound(mem, mem_brk, live, B)
            /\ pc = "find_fit" => Searching(mem, mem_brk, call, B)
            /\ pc = "place" => Found(mem, call, B)

\* The inductive invariant: whatever call is in progress, the heap is one row of
\* blocks that accounts for what the client holds, and find_fit or place stand
\* on a block of that row (mm.c:143-379).
IInv == StateOK /\ HeapOK

-----------------------------------------------------------------------------
(* What the operations do to a sound heap.                                 *)

\* What the client holds are the allocated blocks, each with room for its request.
LEMMA SoundFacts ==
  ASSUME RequestsDoNotWrap, NEW m, NEW brk, NEW held, NEW B,
         Sound(m, brk, held, B), HeldOK(held, brk)
  PROVE  /\ m \in Mem /\ Row(m, brk, B) /\ B \in SUBSET Candidates(m, brk)
         /\ DOMAIN held = Allocated(m, B)
         /\ \A p \in DOMAIN held :
              /\ p \in B /\ p \in Nat /\ First <= p /\ held[p] \in Nat /\ held[p] > 0
              /\ Size(m, p) \in { AdjustedSize(held[p]), AdjustedSize(held[p]) + 8 }
              /\ held[p] + 8 <= Size(m, p) /\ p + Size(m, p) <= brk
<1>1. m \in Mem /\ Row(m, brk, B) /\ B \in SUBSET Candidates(m, brk)
  BY DEF Sound, Good, Row
<1>2. DOMAIN held = Allocated(m, B)
  BY DEF Sound, Accounts, Allocated
<1>3. ASSUME NEW p \in DOMAIN held
      PROVE  /\ p \in B /\ p \in Nat /\ First <= p /\ held[p] \in Nat /\ held[p] > 0
             /\ Size(m, p) \in { AdjustedSize(held[p]), AdjustedSize(held[p]) + 8 }
             /\ held[p] + 8 <= Size(m, p) /\ p + Size(m, p) <= brk
  <2>1. p \in B
    BY <1>2 DEF Allocated
  <2>2. held[p] \in Sizes \ {0}
    BY DEF HeldOK
  <2>3. /\ held[p] \in Nat /\ AdjustedSize(held[p]) \in Nat
        /\ AdjustedSize(held[p]) >= held[p] + 8
    BY <2>2, RequestIsRounded
  <2>4. Size(m, p) \in { AdjustedSize(held[p]), AdjustedSize(held[p]) + 8 }
    BY DEF Sound, Accounts, DSIZE
  <2>5. p \in Nat /\ First <= p /\ p + Size(m, p) <= brk
    BY <1>1, <2>1, RowFacts
  <2> QED
    BY <2>1, <2>2, <2>3, <2>4, <2>5
<1> QED
  BY <1>1, <1>2, <1>3

\* The payloads are aligned, inside the heap and do not overlap.
LEMMA SoundApart ==
  ASSUME RequestsDoNotWrap, NEW m, NEW brk, NEW held, NEW B,
         Sound(m, brk, held, B), HeldOK(held, brk), NEW p \in DOMAIN held
  PROVE  /\ p % 8 = 0 /\ MEM_START <= p /\ p + held[p] <= brk
         /\ \A q \in DOMAIN held \ {p} : p + held[p] <= q \/ q + held[q] <= p
<1>1. /\ m \in Mem /\ Row(m, brk, B)
      /\ \A q \in DOMAIN held : /\ q \in B /\ q \in Nat /\ First <= q /\ held[q] \in Nat
                                /\ held[q] + 8 <= Size(m, q)
                                /\ q + Size(m, q) <= brk
  BY SoundFacts
<1>2. brk \in Nat /\ \A q \in B : q % 8 = 0 /\ Size(m, q) \in Nat
  BY <1>1, RowFacts
<1>3. ASSUME NEW q \in DOMAIN held \ {p}
      PROVE  p + held[p] <= q \/ q + held[q] <= p
  <2>1. p + Size(m, p) <= q \/ q + Size(m, q) <= p
    <3>1. p < q \/ q < p
      BY <1>1
    <3> QED
      BY <1>1, <3>1 DEF Row
  <2> QED
    BY <1>1, <1>2, <2>1
<1> QED
  BY <1>1, <1>2, <1>3, Region

\* A heap that has a first block keeps one.
LEMMA FirstStays ==
  ASSUME NEW m \in Mem, NEW n \in Mem, NEW brk, NEW end, NEW B, NEW C,
         Row(m, brk, B), Row(n, end, C), First \in B, brk <= end
  PROVE  First \in C
<1>1. First \in C \union {end}
  BY DEF Row
<1>2. brk \in Nat /\ end \in Nat /\ First \in Nat /\ Size(m, First) >= 16
      /\ Size(m, First) \in Nat /\ First + Size(m, First) <= brk
  BY RowFacts
<1> QED
  BY <1>1, <1>2

\* A block can only be held below the break.
LEMMA HeldBelowBreak ==
  ASSUME NEW m, NEW brk, NEW B, Good(m, brk, B), NEW bp \in B
  PROVE  bp \in First .. brk - 1
<1>1. /\ bp \in Nat /\ First <= bp /\ Size(m, bp) \in Nat /\ Size(m, bp) >= 16
      /\ bp + Size(m, bp) <= brk /\ brk \in Nat
  BY RowFacts DEF Good
<1> QED
  BY <1>1, Region

LEMMA ReleaseSound ==
  ASSUME RequestsDoNotWrap, NEW m, NEW brk, NEW held, NEW B,
         Sound(m, brk, held, B), HeldOK(held, brk), NEW p \in DOMAIN held
  PROVE  LET n == Release(m, p)
             rest == [q \in DOMAIN held \ {p} |-> held[q]]
         IN  /\ n \in Mem /\ HeldOK(rest, brk)
             /\ \E C \in SUBSET Candidates(n, brk) : Sound(n, brk, rest, C)
             /\ \A b \in DOMAIN rest : Untouched(m, n, b)
<1> DEFINE n == Release(m, p)
           rest == [q \in DOMAIN held \ {p} |-> held[q]]
<1>1. /\ m \in Mem /\ Row(m, brk, B) /\ DOMAIN held = Allocated(m, B) /\ p \in B
      /\ brk <= brk
  <2>1. brk \in Nat
    BY RowFacts DEF Sound, Good
  <2> QED
    BY <2>1, SoundFacts
<1>2. PICK C : Good(n, brk, C) /\ Carries(m, B, n, C, {p})
  <2>1. Good(m, brk, B)
    BY DEF Sound
  <2> QED
    BY <1>1, <2>1, ReleaseFrees
<1> HIDE DEF n
<1>3. DOMAIN rest = DOMAIN held \ {p} /\ \A q \in DOMAIN rest : rest[q] = held[q]
  OBVIOUS
<1>4. HeldOK(rest, brk)
  BY DEF HeldOK
<1> HIDE DEF rest
<1>5. n \in Mem /\ Row(n, brk, C) /\ C \in SUBSET Candidates(n, brk)
  BY <1>2 DEF Good, Row
<1>6. First \in C
  BY <1>1, <1>5, FirstStays DEF Sound
<1>7. Allocated(n, C) = DOMAIN rest /\ \A b \in DOMAIN rest : Untouched(m, n, b)
  BY <1>1, <1>2, <1>3 DEF Carries
<1>8. Accounts(n, C, rest)
  <2>1. { b \in C : ~ Free(n, b) } = DOMAIN rest
    BY <1>7 DEF Allocated
  <2>2. \A q \in DOMAIN rest : Size(n, q) = Size(m, q) /\ q \in DOMAIN held
    BY <1>3, <1>7 DEF Untouched, SameBlock
  <2>3. \A q \in DOMAIN held :
          Size(m, q) \in { AdjustedSize(held[q]), AdjustedSize(held[q]) + DSIZE }
    BY DEF Sound, Accounts
  <2> QED
    BY <1>3, <2>1, <2>2, <2>3 DEF Accounts
<1>9. Sound(n, brk, rest, C)
  BY <1>2, <1>6, <1>8 DEF Sound
<1> QED
  BY <1>4, <1>5, <1>7, <1>9 DEF n, rest

LEMMA PlaceSound ==
  ASSUME RequestsDoNotWrap, NEW m, NEW brk, NEW held, NEW B,
         Sound(m, brk, held, B), HeldOK(held, brk),
         NEW bp \in B, Free(m, bp), NEW size \in Sizes \ {0},
         AdjustedSize(size) <= Size(m, bp)
  PROVE  LET n == Place(m, bp, AdjustedSize(size))
             more == With(held, bp, size)
         IN  /\ n \in Mem /\ HeldOK(more, brk) /\ bp \notin DOMAIN held
             /\ \E C \in SUBSET Candidates(n, brk) : Sound(n, brk, more, C)
             /\ \A b \in DOMAIN held : Untouched(m, n, b)
<1> DEFINE asize == AdjustedSize(size)
           n == Place(m, bp, asize)
           more == With(held, bp, size)
<1>1. /\ m \in Mem /\ Row(m, brk, B) /\ DOMAIN held = Allocated(m, B) /\ Good(m, brk, B)
      /\ brk <= brk
  <2>1. brk \in Nat
    BY RowFacts DEF Sound, Good
  <2> QED
    BY <2>1, SoundFacts DEF Sound
<1>2. asize \in Nat /\ asize % 8 = 0 /\ asize >= 16
  BY RequestIsRounded
<1>3. asize <= Size(m, bp)
  OBVIOUS
<1> HIDE DEF asize
<1>4. PICK C : /\ Good(n, brk, C)
               /\ bp \in C /\ Size(n, bp) \in {asize, asize + 8}
               /\ Allocated(n, C) = Allocated(m, B) \union {bp}
               /\ \A b \in Allocated(m, B) : Untouched(m, n, b)
  BY <1>1, <1>2, <1>3, PlaceAllocates
<1> HIDE DEF n
<1>5. /\ DOMAIN more = DOMAIN held \union {bp} /\ more[bp] = size
      /\ \A q \in DOMAIN held \ {bp} : more[q] = held[q]
  BY DEF With
<1>6. bp \notin DOMAIN held
  BY <1>1 DEF Allocated
<1>7. HeldOK(more, brk)
  <2>1. bp \in First .. brk - 1
    BY <1>1, HeldBelowBreak
  <2> QED
    BY <2>1 DEF HeldOK, With
<1> HIDE DEF more
<1>8. n \in Mem /\ Row(n, brk, C) /\ C \in SUBSET Candidates(n, brk)
  BY <1>4 DEF Good, Row
<1>9. First \in C
  BY <1>1, <1>8, FirstStays DEF Sound
<1>10. Accounts(n, C, more)
  <2>1. { b \in C : ~ Free(n, b) } = DOMAIN more
    BY <1>1, <1>4, <1>5 DEF Allocated
  <2>2. \A q \in DOMAIN held : Size(n, q) = Size(m, q) /\ more[q] = held[q]
    BY <1>1, <1>4, <1>5, <1>6 DEF Untouched, SameBlock
  <2>3. \A q \in DOMAIN held :
          Size(m, q) \in { AdjustedSize(held[q]), AdjustedSize(held[q]) + DSIZE }
    BY DEF Sound, Accounts
  <2>4. Size(n, bp) \in { AdjustedSize(more[bp]), AdjustedSize(more[bp]) + DSIZE }
    BY <1>4, <1>5 DEF DSIZE, asize
  <2> QED
    BY <1>5, <2>1, <2>2, <2>3, <2>4 DEF Accounts
<1>11. Sound(n, brk, more, C)
  BY <1>4, <1>9, <1>10 DEF Sound
<1> QED
  BY <1>1, <1>4, <1>6, <1>7, <1>8, <1>11 DEF n, more, asize

\* The client writes within what it asked for.
LEMMA WriteSound ==
  ASSUME RequestsDoNotWrap, NEW m, NEW brk, NEW held, NEW B,
         Sound(m, brk, held, B), HeldOK(held, brk),
         NEW p \in DOMAIN held, NEW n \in Mem,
         \A a \in Words : a < p \/ a >= p + held[p] => n[a] = m[a]
  PROVE  /\ B \in SUBSET Candidates(n, brk) /\ Sound(n, brk, held, B)
         /\ \A b \in DOMAIN held \ {p} : Untouched(m, n, b)
<1>1. /\ p \in B /\ p \in Nat /\ held[p] \in Nat /\ held[p] + 8 <= Size(m, p)
      /\ m \in Mem /\ Row(m, brk, B)
      /\ \A q \in DOMAIN held : q \in B
  BY SoundFacts
<1>2. Size(m, p) \in Nat
  BY <1>1, RowFacts
<1>3. \A a \in Words : a < p \/ a >= p + Size(m, p) - 8 => n[a] = m[a]
  <2> SUFFICES ASSUME NEW a \in Words, a < p \/ a >= p + Size(m, p) - 8
               PROVE  n[a] = m[a]
    OBVIOUS
  <2>1. a \in Int
    BY Region DEF Words
  <2>2. a < p \/ a >= p + held[p]
    BY <1>1, <1>2, <2>1
  <2> QED
    BY <2>2
<1>4. /\ Good(n, brk, B) /\ \A b \in B : SameBlock(m, n, b)
      /\ \A b \in B \ {p} : Untouched(m, n, b)
  BY <1>1, <1>3, PayloadWrite DEF Sound
<1>5. Accounts(n, B, held)
  <2>1. { b \in B : ~ Free(n, b) } = DOMAIN held
    BY <1>4 DEF Sound, Accounts, SameBlock
  <2>2. \A q \in DOMAIN held : Size(n, q) = Size(m, q)
    BY <1>1, <1>4 DEF SameBlock
  <2> QED
    BY <2>1, <2>2 DEF Sound, Accounts
<1> QED
  BY <1>1, <1>4, <1>5 DEF Sound, Good, Row

\* After extend_heap the client holds what it held.
LEMMA GrownSound ==
  ASSUME NEW m, NEW brk, NEW held, NEW B, NEW r, NEW size,
         Sound(m, brk, held, B), Grown(m, brk, B, r, size), brk <= r.brk
  PROVE  /\ r.mem \in Mem
         /\ \E C \in SUBSET Candidates(r.mem, r.brk) :
              /\ Sound(r.mem, r.brk, held, C)
              /\ r.bp \in C /\ Free(r.mem, r.bp) /\ Size(r.mem, r.bp) >= size
         /\ \A b \in DOMAIN held : Untouched(m, r.mem, b)
<1>1. PICK C : /\ Good(r.mem, r.brk, C) /\ Carries(m, B, r.mem, C, {})
               /\ r.bp \in C /\ Free(r.mem, r.bp) /\ Size(r.mem, r.bp) >= size
  BY DEF Grown
<1>2. r.mem \in Mem /\ Row(r.mem, r.brk, C) /\ C \in SUBSET Candidates(r.mem, r.brk)
  BY <1>1 DEF Good, Row
<1>3. First \in C
  BY <1>2, FirstStays DEF Sound, Good
<1>4. Accounts(r.mem, C, held)
  <2>1. /\ Allocated(r.mem, C) = DOMAIN held
        /\ \A b \in DOMAIN held : Size(r.mem, b) = Size(m, b)
    BY <1>1 DEF Carries, Sound, Accounts, Allocated, Untouched, SameBlock
  <2> QED
    BY <2>1 DEF Sound, Accounts, Allocated
<1>5. \A b \in DOMAIN held : Untouched(m, r.mem, b)
  BY <1>1 DEF Carries, Sound, Accounts, Allocated
<1> QED
  BY <1>1, <1>2, <1>3, <1>4, <1>5 DEF Sound

-----------------------------------------------------------------------------
(* The invariant holds initially and every step keeps it.                  *)

LEMMA InitStep == Init => IInv
<1> SUFFICES ASSUME Init
             PROVE  IInv
  OBVIOUS
<1>1. mem \in Mem
  BY MMAssumption DEF Init, Mem
<1>2. mem_brk \in MEM_START .. mem_max_addr
  BY Region DEF Init, mem_init
<1>3. HeldOK(live, mem_brk) /\ DOMAIN live = {}
  BY DEF Init, HeldOK
<1> QED
  BY <1>1, <1>2, <1>3 DEF Init, IInv, StateOK, HeapOK

\* mm_init, on whatever the previous pass has left in the region.
LEMMA RestartStep ==
  ASSUME RequestsDoNotWrap, IInv, mm_init
  PROVE  IInv'
<1> DEFINE heap == InitHeap(mem)
           empty == [p \in {} |-> 0]
<1>1. /\ heap.mem \in Mem /\ heap.brk \in MEM_START .. mem_max_addr
      /\ heap.bp # NULL => /\ ~ SbrkFails(ResetBrk, 4 * WSIZE)
                           /\ \E C : /\ Good(heap.mem, heap.brk, C) /\ First \in C
                                     /\ Allocated(heap.mem, C) = {}
  BY InitHeapMakesARow DEF IInv, StateOK
<1>2. /\ mem' = heap.mem /\ mem_brk' = heap.brk /\ live' = empty /\ call' = call
      /\ heap_listp' = IF SbrkFails(ResetBrk, 4 * WSIZE) THEN WORD - 1 ELSE Prologue
      /\ pc' = IF heap.bp = NULL THEN "down" ELSE "idle"
      /\ pc \in {"down", "idle"}
  BY DEF mm_init
<1> HIDE DEF heap
<1>3. Prologue = MEM_START + 2 * WSIZE
  BY DEF Prologue, ResetBrk
<1>4. DOMAIN empty = {} /\ HeldOK(empty, heap.brk)
  BY DEF HeldOK
<1> HIDE DEF empty
<1>5. StateOK'
  BY <1>1, <1>2, <1>3, <1>4 DEF IInv, StateOK
<1>6. HeapOK'
  <2>1. CASE heap.bp = NULL
    BY <1>2, <1>4, <2>1 DEF HeapOK
  <2>2. CASE heap.bp # NULL
    <3>1. PICK C : /\ Good(heap.mem, heap.brk, C) /\ First \in C
                   /\ Allocated(heap.mem, C) = {}
      BY <1>1, <2>2
    <3>2. Sound(heap.mem, heap.brk, empty, C)
      BY <1>4, <3>1 DEF Sound, Accounts, Allocated
    <3>3. C \in SUBSET Candidates(heap.mem, heap.brk)
      BY <3>1 DEF Good, Row
    <3>4. pc' = "idle" /\ heap_listp' = MEM_START + 2 * WSIZE
      BY <1>1, <1>2, <1>3, <2>2
    <3> QED
      BY <1>2, <3>2, <3>3, <3>4 DEF HeapOK
  <2> QED
    BY <2>1, <2>2
<1> QED
  BY <1>5, <1>6 DEF IInv

\* A call enters find_fit, at the prologue: nothing is passed over yet.
LEMMA SearchStarts ==
  ASSUME RequestsDoNotWrap, IInv, pc = "idle",
         NEW size \in Sizes \ {0}, NEW old \in DOMAIN live \union {NULL},
         StartSearch(size, old)
  PROVE  IInv'
<1>1. /\ pc' = "find_fit" /\ mem_brk' = mem_brk /\ mem' = mem
      /\ heap_listp' = heap_listp /\ live' = live
      /\ call' = [size |-> size, asize |-> AdjustedSize(size), old |-> old, bp |-> heap_listp]
  BY DEF StartSearch
<1>2. PICK B \in SUBSET Candidates(mem, mem_brk) : Sound(mem, mem_brk, live, B)
  BY DEF IInv, HeapOK
<1>3. heap_listp = MEM_START + 2 * WSIZE /\ heap_listp \in Nat /\ heap_listp < First
  BY Region DEF IInv, HeapOK, WSIZE
<1>4. AdjustedSize(size) \in 0 .. WORD - 1
  BY RequestIsRounded, Region
<1>5. Pending(call', live)
  BY <1>1, <1>3, <1>4 DEF Pending
<1>6. Searching(mem, mem_brk, call', B)
  <2>1. \A b \in B : ~ (b < call'.bp)
    <3>1. \A b \in B : b \in Nat /\ First <= b
      BY <1>2, RowFacts DEF Sound, Good
    <3> QED
      BY <1>1, <1>3, <3>1, Region
  <2> QED
    BY <1>1, <1>3, <2>1 DEF Searching, NothingFits
<1>7. StateOK'
  BY <1>1, <1>5 DEF IInv, StateOK
<1>8. HeapOK'
  BY <1>1, <1>2, <1>3, <1>6 DEF HeapOK
<1> QED
  BY <1>7, <1>8 DEF IInv

LEMMA FreeStep ==
  ASSUME RequestsDoNotWrap, IInv, NEW p \in DOMAIN live, mm_free(p)
  PROVE  IInv'
<1>1. /\ pc = "idle" /\ pc' = "idle" /\ mem' = Release(mem, p) /\ mem_brk' = mem_brk
      /\ heap_listp' = heap_listp /\ call' = call
      /\ live' = [q \in DOMAIN live \ {p} |-> live[q]]
  BY DEF mm_free, Without
<1>2. PICK B \in SUBSET Candidates(mem, mem_brk) : Sound(mem, mem_brk, live, B)
  BY <1>1 DEF IInv, HeapOK
<1>3. HeldOK(live, mem_brk)
  BY DEF IInv, StateOK
<1>4. /\ mem' \in Mem /\ HeldOK(live', mem_brk)
      /\ \E C \in SUBSET Candidates(mem', mem_brk) : Sound(mem', mem_brk, live', C)
  BY <1>1, <1>2, <1>3, ReleaseSound
<1>5. StateOK'
  BY <1>1, <1>4 DEF IInv, StateOK
<1>6. HeapOK'
  BY <1>1, <1>4 DEF IInv, HeapOK
<1> QED
  BY <1>5, <1>6 DEF IInv

LEMMA WriteStep ==
  ASSUME RequestsDoNotWrap, IInv, NEW p \in DOMAIN live, NEW tag \in Tags, write(p, tag)
  PROVE  IInv'
<1>1. /\ pc = "idle" /\ pc' = "idle" /\ mem' = Memset(mem, p, live[p], tag)
      /\ mem_brk' = mem_brk /\ heap_listp' = heap_listp /\ call' = call /\ live' = live
  BY DEF write
<1>2. PICK B \in SUBSET Candidates(mem, mem_brk) : Sound(mem, mem_brk, live, B)
  BY <1>1 DEF IInv, HeapOK
<1>3. HeldOK(live, mem_brk) /\ mem \in Mem
  BY DEF IInv, StateOK
<1>4. p \in Nat /\ live[p] \in Nat
  BY <1>2, <1>3, SoundFacts
<1>5. mem' \in Mem /\ \A a \in Words : a < p \/ a >= p + live[p] => mem'[a] = mem[a]
  <2>1. tag \in 0 .. WORD - 1
    BY MMAssumption
  <2>2. mem' = [a \in Words |-> IF p <= a /\ a < p + live[p] THEN tag ELSE mem[a]]
    BY <1>1 DEF Memset
  <2>3. mem' \in Mem
    BY <1>3, <2>1, <2>2 DEF Mem
  <2>4. \A a \in Words : a \in Int
    BY Region DEF Words
  <2> QED
    BY <1>4, <2>2, <2>3, <2>4
<1>6. B \in SUBSET Candidates(mem', mem_brk) /\ Sound(mem', mem_brk, live, B)
  BY <1>2, <1>3, <1>5, WriteSound
<1>7. StateOK'
  BY <1>1, <1>5 DEF IInv, StateOK
<1>8. HeapOK'
  BY <1>1, <1>6 DEF IInv, HeapOK
<1> QED
  BY <1>7, <1>8 DEF IInv

-----------------------------------------------------------------------------
(* The search and what follows it.                                         *)

\* The prologue and the epilogue, as find_fit reads them: the one is allocated,
\* the other has size 0 and nothing else has.
LEMMA Fences ==
  ASSUME NEW m \in Mem, NEW brk, NEW B, Row(m, brk, B),
         NEW c \in B \union {MEM_START + 2 * WSIZE, brk}
  PROVE  /\ c \in Nat /\ c <= brk /\ Size(m, c) \in Nat
         /\ Size(m, c) = 0 <=> c = brk
         /\ c = MEM_START + 2 * WSIZE => ~ Free(m, c) /\ c + Size(m, c) = First
<1>1. /\ brk \in Nat /\ First <= brk /\ m[MEM_START + 4] = 9 /\ m[brk - 4] = 1
      /\ \A b \in B : b \in Nat /\ Size(m, b) \in Nat /\ Size(m, b) >= 16
                      /\ b + Size(m, b) <= brk
  BY RowFacts
<1>2. Size(m, brk) = 0
  BY <1>1 DEF Size, GET_SIZE, HDRP, WSIZE
<1>3. Size(m, MEM_START + 8) = 8 /\ ~ Free(m, MEM_START + 8)
  <2>1. HDRP(MEM_START + 8) = MEM_START + 4
    BY Region DEF HDRP, WSIZE
  <2> QED
    BY <1>1, <2>1 DEF Size, Free, GET_SIZE, GET_ALLOC
<1>4. MEM_START + 2 * WSIZE = MEM_START + 8
  BY Region DEF WSIZE
<1>5. CASE c \in B
  BY <1>1, <1>4, <1>5, RowFacts, Region
<1>6. CASE c = MEM_START + 8
  BY <1>1, <1>3, <1>4, <1>6, Region
<1>7. CASE c = brk
  BY <1>1, <1>2, <1>4, <1>7, Region
<1> QED
  BY <1>4, <1>5, <1>6, <1>7

\* An iteration of find_fit that goes on to the next block (mm.c:240-246).
LEMMA NextStep ==
  ASSUME RequestsDoNotWrap, IInv, find_fit_next
  PROVE  IInv'
<1> DEFINE c == call.bp
           next == c + Size(mem, c)
<1>1. /\ pc = "find_fit" /\ pc' = "find_fit" /\ mem' = mem /\ mem_brk' = mem_brk
      /\ heap_listp' = heap_listp /\ live' = live
      /\ Size(mem, c) > 0 /\ ~ (Free(mem, c) /\ call.asize <= Size(mem, c))
      /\ call' = [call EXCEPT !.bp = next]
  BY DEF find_fit_next, CursorSize, CursorFits, NEXT_BLKP, Size, Free
<1>2. PICK B \in SUBSET Candidates(mem, mem_brk) :
        Sound(mem, mem_brk, live, B) /\ Searching(mem, mem_brk, call, B)
  BY <1>1 DEF IInv, HeapOK
<1>3. mem \in Mem /\ Row(mem, mem_brk, B) /\ First \in B
  BY <1>2 DEF Sound, Good
<1>4. c \in B \union {MEM_START + 2 * WSIZE, mem_brk}
      /\ NothingFits(mem, { b \in B : b < c }, call.asize)
  BY <1>2 DEF Searching
<1>5. Pending(call, live)
  BY <1>1 DEF IInv, StateOK
<1>6. /\ call' = [size |-> call.size, asize |-> call.asize, old |-> call.old, bp |-> next]
      /\ call'.bp = next /\ call'.asize = call.asize
  BY <1>1, <1>5 DEF Pending
<1> HIDE DEF c
<1>7. /\ c \in Nat /\ c <= mem_brk /\ Size(mem, c) \in Nat /\ c # mem_brk
      /\ c = MEM_START + 2 * WSIZE => ~ Free(mem, c) /\ c + Size(mem, c) = First
  BY <1>1, <1>3, <1>4, Fences
<1>8. call.asize \in Nat
  BY <1>5, Region DEF Pending
<1>9. /\ next \in B \union {mem_brk} /\ next \in Nat
      /\ \A b \in B : b < next /\ Free(mem, b) => Size(mem, b) < call.asize
  <2>1. \A b \in B : b \in Nat /\ First <= b /\ Size(mem, b) \in Nat
    BY <1>3, RowFacts
  <2>2. CASE c = MEM_START + 2 * WSIZE
    BY <1>3, <1>7, <2>1, <2>2, Region
  <2>3. CASE c \in B
    <3>1. next \in B \union {mem_brk}
      BY <1>3, <2>3 DEF Row
    <3>2. ASSUME NEW b \in B, b < next, Free(mem, b)
          PROVE  Size(mem, b) < call.asize
      <4>1. CASE b < c
        BY <1>4, <3>2, <4>1 DEF NothingFits
      <4>2. CASE b = c
        BY <1>1, <1>7, <1>8, <3>2, <4>2
      <4>3. CASE c < b
        <5>1. next <= b
          BY <1>3, <2>3, <4>3 DEF Row
        <5> QED
          BY <1>7, <2>1, <3>2, <5>1
      <4> QED
        BY <1>7, <2>1, <4>1, <4>2, <4>3
    <3> QED
      BY <1>7, <3>1, <3>2
  <2> QED
    BY <1>4, <1>7, <2>2, <2>3
<1> HIDE DEF next
<1>10. Searching(mem, mem_brk, call', B)
  BY <1>6, <1>9 DEF Searching, NothingFits
<1>11. Pending(call', live)
  BY <1>5, <1>6, <1>9 DEF Pending
<1>12. StateOK'
  BY <1>1, <1>11 DEF IInv, StateOK
<1>13. HeapOK'
  BY <1>1, <1>2, <1>10 DEF IInv, HeapOK
<1> QED
  BY <1>12, <1>13 DEF IInv

LEMMA HitStep ==
  ASSUME RequestsDoNotWrap, IInv, find_fit_hit
  PROVE  IInv'
<1>1. /\ pc = "find_fit" /\ pc' = "place" /\ mem' = mem /\ mem_brk' = mem_brk
      /\ heap_listp' = heap_listp /\ live' = live /\ call' = call
      /\ Size(mem, call.bp) > 0 /\ Free(mem, call.bp) /\ call.asize <= Size(mem, call.bp)
  BY DEF find_fit_hit, CursorSize, CursorFits, Size, Free
<1>2. PICK B \in SUBSET Candidates(mem, mem_brk) :
        Sound(mem, mem_brk, live, B) /\ Searching(mem, mem_brk, call, B)
  BY <1>1 DEF IInv, HeapOK
<1>3. mem \in Mem /\ Row(mem, mem_brk, B)
  BY <1>2 DEF Sound, Good
<1>4. call.bp \in B \union {MEM_START + 2 * WSIZE, mem_brk}
  BY <1>2 DEF Searching
<1>5. call.bp \in B
  <2>1. /\ call.bp = MEM_START + 2 * WSIZE => ~ Free(mem, call.bp)
        /\ Size(mem, call.bp) = 0 <=> call.bp = mem_brk
        /\ Size(mem, call.bp) \in Nat
    BY <1>3, <1>4, Fences
  <2> QED
    BY <1>1, <1>4, <2>1
<1>6. Found(mem, call, B)
  BY <1>1, <1>5 DEF Found
<1>7. StateOK'
  BY <1>1 DEF IInv, StateOK
<1>8. HeapOK'
  BY <1>1, <1>2, <1>6 DEF IInv, HeapOK
<1> QED
  BY <1>7, <1>8 DEF IInv

\* At the epilogue every block has been passed over.
LEMMA EpilogueReached ==
  ASSUME IInv, pc = "find_fit", CursorSize = 0
  PROVE  \E B \in SUBSET Candidates(mem, mem_brk) :
           Sound(mem, mem_brk, live, B) /\ NothingFits(mem, B, call.asize)
<1>1. PICK B \in SUBSET Candidates(mem, mem_brk) :
        Sound(mem, mem_brk, live, B) /\ Searching(mem, mem_brk, call, B)
  BY DEF IInv, HeapOK
<1>2. mem \in Mem /\ Row(mem, mem_brk, B)
  BY <1>1 DEF Sound, Good
<1>3. call.bp = mem_brk
  <2>1. call.bp \in B \union {MEM_START + 2 * WSIZE, mem_brk}
    BY <1>1 DEF Searching
  <2>2. Size(mem, call.bp) = 0
    BY DEF CursorSize, Size
  <2> QED
    BY <1>2, <2>1, <2>2, Fences
<1>4. \A b \in B : b < mem_brk
  <2>1. mem_brk \in Nat /\ \A b \in B : /\ b \in Nat /\ Size(mem, b) \in Nat
                                        /\ Size(mem, b) >= 16 /\ b + Size(mem, b) <= mem_brk
    BY <1>2, RowFacts
  <2> QED
    BY <2>1
<1> QED
  BY <1>1, <1>3, <1>4 DEF Searching, NothingFits

\* What find_fit_miss asks of extend_heap (mm.c:217-218): enough for the request,
\* in a number of words that extend_heap makes even.
LEMMA ExtensionWords ==
  ASSUME RequestsDoNotWrap, NEW size \in Sizes \ {0}
  PROVE  LET g == Greater(AdjustedSize(size), CHUNKSIZE)
             words == g \div DSIZE
         IN  /\ words \in Nat /\ words >= 2 /\ words * 8 >= AdjustedSize(size)
             /\ mem_max_addr + words * 8 + 8 < WORD
             /\ ExtensionSize(words) = RoundUp(g, 16) /\ ExtensionSize(words) \in Nat
<1> DEFINE asize == AdjustedSize(size)
           g == Greater(asize, CHUNKSIZE)
           words == g \div 8
<1>1. /\ asize \in Nat /\ asize % 8 = 0 /\ asize >= 16 /\ mem_max_addr + asize + 16 < WORD
  BY RequestIsRounded
<1>2. /\ CHUNKSIZE \in Nat /\ CHUNKSIZE % 8 = 0 /\ mem_max_addr + CHUNKSIZE + 16 < WORD
  BY MMAssumption DEF RequestsDoNotWrap
<1> HIDE DEF asize
<1>3. g \in Nat /\ g % 8 = 0 /\ g >= 16 /\ g >= asize /\ mem_max_addr + g + 16 < WORD
  BY <1>1, <1>2 DEF Greater
<1> HIDE DEF g
<1>4. words \in Nat /\ words * 8 = g /\ words >= 2
  BY <1>3
<1>5. g \div DSIZE = words
  BY DEF DSIZE
<1> HIDE DEF words
<1>6. /\ ExtensionSize(words) = (words + (words % 2)) * 8 /\ ExtensionSize(words) \in Nat
  <2>1. words * 8 + 8 < WORD
    BY <1>3, <1>4, Region
  <2> QED
    BY <1>4, <2>1, ExtensionIsEven
<1>7. RoundUp(g, 16) = (words + (words % 2)) * 8
  <2>1. (g + 16 - 1) \div 16 = (words + (words % 2)) \div 2
    BY <1>3, <1>4
  <2>2. ((words + (words % 2)) \div 2) * 16 = (words + (words % 2)) * 8
    BY <1>4
  <2> QED
    BY <2>1, <2>2 DEF RoundUp
<1>8. mem_max_addr + words * 8 + 8 < WORD
  BY <1>3, <1>4, Region
<1> QED
  BY <1>3, <1>4, <1>5, <1>6, <1>7, <1>8 DEF g, asize

\* The two ways in which the end of the search goes on: extend_heap has made a
\* block, or has not been able to (mm.c:217-222).
LEMMA MissCases ==
  ASSUME RequestsDoNotWrap, IInv, find_fit_miss
  PROVE  LET size == RoundUp(Greater(call.asize, CHUNKSIZE), 16)
         IN  \/ /\ pc' = "idle" /\ call' = NoCall
                /\ UNCHANGED <<mem, mem_brk, heap_listp, live>>
                /\ mem_brk + size > mem_max_addr
             \/ /\ pc' = "place" /\ UNCHANGED <<heap_listp, live>>
                /\ mem_brk' = mem_brk + size /\ mem_brk' <= mem_max_addr
                /\ size \in Nat
                /\ mem' \in Mem
                /\ call'.bp \in Nat /\ call' = [call EXCEPT !.bp = call'.bp]
                /\ \E C \in SUBSET Candidates(mem', mem_brk') :
                     Sound(mem', mem_brk', live, C) /\ Found(mem', call', C)
                /\ \A b \in DOMAIN live : Untouched(mem, mem', b)
<1> DEFINE g == Greater(call.asize, CHUNKSIZE)
           words == g \div DSIZE
           r == ExtendHeap(mem, mem_brk, words)
           size == RoundUp(g, 16)
<1>1. /\ pc = "find_fit" /\ CursorSize = 0
      /\ \/ /\ r.bp # NULL /\ mem' = r.mem /\ mem_brk' = r.brk /\ pc' = "place"
            /\ call' = [call EXCEPT !.bp = r.bp]
         \/ /\ r.bp = NULL /\ pc' = "idle" /\ call' = NoCall
            /\ UNCHANGED <<mem, mem_brk>>
      /\ UNCHANGED <<heap_listp, live>>
  BY DEF find_fit_miss
<1>2. /\ call.size \in Sizes \ {0} /\ call.asize = AdjustedSize(call.size)
      /\ call.asize \in Nat
      /\ call \in [size : Sizes \ {0}, asize : 0 .. WORD - 1,
                   old : DOMAIN live \union {NULL}, bp : Nat]
  <2>1. Pending(call, live)
    BY <1>1 DEF IInv, StateOK
  <2> QED
    BY <2>1, Region DEF Pending
<1>3. /\ words \in Nat /\ words >= 2 /\ words * 8 >= call.asize
      /\ mem_max_addr + words * 8 + 8 < WORD
      /\ ExtensionSize(words) = size /\ size \in Nat
  BY <1>2, ExtensionWords
<1>4. PICK B \in SUBSET Candidates(mem, mem_brk) : Sound(mem, mem_brk, live, B)
  BY <1>1 DEF IInv, HeapOK
<1>5. Good(mem, mem_brk, B) /\ mem_brk \in Nat /\ mem_brk <= mem_max_addr
  BY <1>4, Region DEF Sound, IInv, StateOK
<1> HIDE DEF words
<1>6. /\ mem_brk + ExtensionSize(words) > mem_max_addr =>
           r = [mem |-> mem, brk |-> mem_brk, bp |-> NULL]
      /\ mem_brk + ExtensionSize(words) <= mem_max_addr =>
           /\ r.brk = mem_brk + ExtensionSize(words) /\ r.bp # NULL
           /\ Grown(mem, mem_brk, B, r, words * 8)
  BY <1>3, <1>5, ExtendHeapGrows
<1> HIDE DEF r, size, g
<1>7. CASE mem_brk + size > mem_max_addr
  <2>1. r.bp = NULL
    BY <1>3, <1>6, <1>7
  <2> QED
    BY <1>1, <1>7, <2>1 DEF size, g
<1>8. CASE mem_brk + size <= mem_max_addr
  <2>1. r.brk = mem_brk + size /\ r.bp # NULL /\ Grown(mem, mem_brk, B, r, words * 8)
    BY <1>3, <1>6, <1>8
  <2>2. mem_brk <= r.brk
    BY <1>3, <1>5, <2>1
  <2>3. PICK C \in SUBSET Candidates(r.mem, r.brk) :
          /\ r.mem \in Mem /\ Sound(r.mem, r.brk, live, C)
          /\ r.bp \in C /\ Free(r.mem, r.bp) /\ Size(r.mem, r.bp) >= words * 8
          /\ \A b \in DOMAIN live : Untouched(mem, r.mem, b)
    BY <1>4, <2>1, <2>2, GrownSound
  <2>4. r.bp \in Nat /\ Size(r.mem, r.bp) \in Nat
    BY <2>3, RowFacts DEF Sound, Good
  <2>5. /\ mem' = r.mem /\ mem_brk' = r.brk /\ pc' = "place"
        /\ call' = [call EXCEPT !.bp = r.bp]
    BY <1>1, <2>1
  <2>6. call'.bp = r.bp /\ call'.asize = call.asize
    BY <1>2, <2>5
  <2>7. Found(mem', call', C)
    BY <1>2, <1>3, <2>3, <2>4, <2>5, <2>6 DEF Found
  <2> QED
    BY <1>1, <1>3, <1>8, <2>1, <2>3, <2>4, <2>5, <2>6, <2>7 DEF size, g
<1> QED
  BY <1>3, <1>5, <1>7, <1>8, Region

LEMMA MissStep ==
  ASSUME RequestsDoNotWrap, IInv, find_fit_miss
  PROVE  IInv'
<1> DEFINE size == RoundUp(Greater(call.asize, CHUNKSIZE), 16)
<1>1. pc = "find_fit"
  BY DEF find_fit_miss
<1>2. CASE /\ pc' = "idle" /\ call' = NoCall
           /\ UNCHANGED <<mem, mem_brk, heap_listp, live>>
  <2>1. StateOK'
    BY <1>2 DEF IInv, StateOK
  <2>2. HeapOK'
    BY <1>1, <1>2 DEF IInv, HeapOK
  <2> QED
    BY <2>1, <2>2 DEF IInv
<1>3. CASE /\ pc' = "place" /\ UNCHANGED <<heap_listp, live>>
           /\ mem_brk' = mem_brk + size /\ mem_brk' <= mem_max_addr /\ size \in Nat
           /\ mem' \in Mem
           /\ call'.bp \in Nat /\ call' = [call EXCEPT !.bp = call'.bp]
           /\ \E C \in SUBSET Candidates(mem', mem_brk') :
                Sound(mem', mem_brk', live, C) /\ Found(mem', call', C)
  <2> HIDE DEF size
  <2>1. mem_brk \in Nat /\ MEM_START <= mem_brk /\ MEM_START \in Nat
        /\ mem_max_addr \in Nat /\ First \in Nat
    BY Region DEF IInv, StateOK
  <2>2. mem_brk' \in MEM_START .. mem_max_addr /\ mem_brk <= mem_brk'
    BY <1>3, <2>1
  <2>3. HeldOK(live', mem_brk')
    <3>1. First .. mem_brk - 1 \subseteq First .. mem_brk' - 1
      BY <1>3, <2>1
    <3>2. HeldOK(live, mem_brk)
      BY DEF IInv, StateOK
    <3> QED
      BY <1>3, <3>1, <3>2 DEF HeldOK
  <2>4. Pending(call, live)
    BY <1>1 DEF IInv, StateOK
  <2>5. Pending(call', live')
    <3>1. call' = [size |-> call.size, asize |-> call.asize, old |-> call.old,
                   bp |-> call'.bp]
      BY <1>3, <2>4 DEF Pending
    <3> QED
      BY <1>3, <2>4, <3>1 DEF Pending
  <2>6. StateOK'
    BY <1>3, <2>2, <2>3, <2>5 DEF IInv, StateOK
  <2>7. HeapOK'
    BY <1>1, <1>3 DEF IInv, HeapOK
  <2> QED
    BY <2>6, <2>7 DEF IInv
<1> QED
  BY <1>2, <1>3, MissCases

\* memcpy between two payloads, up to the new size and no further than the old
\* block reaches, is a write into the new one (mm.c:369-374).
LEMMA CopyWrites ==
  ASSUME NEW m \in Mem, NEW brk, NEW B, Row(m, brk, B),
         NEW dst \in B, NEW src \in B, NEW size \in Nat
  PROVE  LET n == Memcpy(m, dst, src, CopySize(m, size, src))
         IN  /\ n \in Mem /\ \A a \in Words : a < dst \/ a >= dst + size => n[a] = m[a]
             /\ \A j \in Nat : dst + j \in Words /\ j < size /\ j < Size(m, src) - 8
                              => n[dst + j] = m[src + j]
<1> DEFINE k == CopySize(m, size, src)
           n == Memcpy(m, dst, src, k)
<1>1. /\ brk \in Nat /\ brk <= mem_max_addr
      /\ dst \in Nat /\ dst % 8 = 0
      /\ src \in Nat /\ src % 8 = 0 /\ First <= src
      /\ Size(m, src) \in Nat /\ Size(m, src) >= 16 /\ src + Size(m, src) <= brk
  BY RowFacts
<1>2. k \in Int /\ k <= size /\ k <= Size(m, src) - 8
      /\ \A j \in Nat : j < size /\ j < Size(m, src) - 8 => j < k
  <2>1. GET_SIZE(m, HDRP(src)) = Size(m, src)
    BY DEF Size
  <2> QED
    BY <1>1, <2>1 DEF CopySize, Lesser, DSIZE
<1> HIDE DEF k
<1>3. ASSUME NEW a \in Words, dst <= a, a < dst + k
      PROVE  src + (a - dst) \in Words
  <2>1. a \in Nat /\ a % 4 = 0
    BY Region DEF Words, WSIZE
  <2>2. src + (a - dst) \in Nat /\ (src + (a - dst)) % 4 = 0
        /\ MEM_START <= src + (a - dst) /\ src + (a - dst) < mem_max_addr
    BY <1>1, <1>2, <1>3, <2>1, Region
  <2> QED
    BY <2>2, Region DEF Words, WSIZE
<1>4. n = [a \in Words |-> IF dst <= a /\ a < dst + k THEN m[src + (a - dst)] ELSE m[a]]
  BY DEF Memcpy
<1> HIDE DEF n
<1>5. n \in Mem
  BY <1>3, <1>4 DEF Mem
<1>6. ASSUME NEW a \in Words, a < dst \/ a >= dst + size
      PROVE  n[a] = m[a]
  <2>1. a \in Int
    BY Region DEF Words
  <2>2. ~ (dst <= a /\ a < dst + k)
    BY <1>1, <1>2, <1>6, <2>1
  <2> QED
    BY <1>4, <2>2
<1>7. ASSUME NEW j \in Nat, dst + j \in Words, j < size, j < Size(m, src) - 8
      PROVE  n[dst + j] = m[src + j]
  <2>1. j < k /\ dst <= dst + j /\ dst + j < dst + k /\ (dst + j) - dst = j
    BY <1>1, <1>2, <1>7
  <2> QED
    BY <1>4, <1>7, <2>1
<1> QED
  BY <1>5, <1>6, <1>7 DEF n, k

\* The end of mm_malloc and of mm_realloc: what is held afterwards, in which
\* memory. Of the payloads held before only the reallocated one is gone, and its
\* contents are in the new one, as far as both reach.
LEMMA PlaceResult ==
  ASSUME RequestsDoNotWrap, IInv, place
  PROVE  LET newp == call.bp
             old == call.old
             size == call.size
         IN  /\ size \in Sizes \ {0} /\ newp \notin DOMAIN live
             /\ \/ old = NULL /\ live' = With(live, newp, size)
                \/ old \in DOMAIN live /\ live' = With(Without(old), newp, size)
             /\ mem' \in Mem /\ HeldOK(live', mem_brk)
             /\ \E C \in SUBSET Candidates(mem', mem_brk) : Sound(mem', mem_brk, live', C)
             /\ \A q \in DOMAIN live' \ {newp} : Untouched(mem, mem', q)
             /\ old # NULL => \A j \in Nat : j % 4 = 0 /\ j < size /\ j < live[old]
                                            => mem'[newp + j] = mem[old + j]
<1> DEFINE newp == call.bp
           old == call.old
           size == call.size
           n == Place(mem, newp, AdjustedSize(size))
           more == With(live, newp, size)
<1>1. pc = "place"
  BY DEF place
<1>2. /\ size \in Sizes \ {0} /\ call.asize = AdjustedSize(size)
      /\ old \in DOMAIN live \union {NULL}
  <2>1. Pending(call, live)
    BY <1>1 DEF IInv, StateOK
  <2> QED
    BY <2>1 DEF Pending
<1>3. \/ old = NULL /\ mem' = n /\ live' = more
      \/ /\ old # NULL
         /\ mem' = Release(Memcpy(n, newp, old, CopySize(n, size, old)), old)
         /\ live' = With(Without(old), newp, size)
  BY <1>2 DEF place
<1>4. PICK B \in SUBSET Candidates(mem, mem_brk) :
        Sound(mem, mem_brk, live, B) /\ Found(mem, call, B)
  BY <1>1 DEF IInv, HeapOK
<1>5. /\ newp \in B /\ Free(mem, newp) /\ AdjustedSize(size) <= Size(mem, newp)
      /\ HeldOK(live, mem_brk) /\ mem_brk \in MEM_START .. mem_max_addr
  BY <1>2, <1>4 DEF Found, IInv, StateOK
<1> HIDE DEF newp, old, size
<1>6. /\ n \in Mem /\ HeldOK(more, mem_brk) /\ newp \notin DOMAIN live
      /\ \E C \in SUBSET Candidates(n, mem_brk) : Sound(n, mem_brk, more, C)
      /\ \A b \in DOMAIN live : Untouched(mem, n, b)
  BY <1>2, <1>4, <1>5, PlaceSound
<1>7. DOMAIN more = DOMAIN live \union {newp} /\ more[newp] = size
      /\ \A q \in DOMAIN live : q # newp => more[q] = live[q]
  BY DEF With
<1> HIDE DEF n
<1>8. CASE old = NULL
  <2>1. mem' = n /\ live' = more
    BY <1>3, <1>8
  <2>2. DOMAIN live' \ {newp} = DOMAIN live
    BY <1>6, <1>7, <2>1
  <2>3. live' = With(live, newp, size)
    BY <2>1
  <2> HIDE DEF more
  <2> QED
    BY <1>2, <1>6, <1>8, <2>1, <2>2, <2>3 DEF newp, old, size
<1>9. CASE old # NULL
  <2> DEFINE w == Memcpy(n, newp, old, CopySize(n, size, old))
             rest == [q \in DOMAIN more \ {old} |-> more[q]]
  <2>1. PICK C \in SUBSET Candidates(n, mem_brk) : Sound(n, mem_brk, more, C)
    BY <1>6
  <2>2. old \in DOMAIN live /\ old # newp /\ old \in DOMAIN more /\ newp \in DOMAIN more
    BY <1>2, <1>6, <1>7, <1>9
  <2>3. rest = With(Without(old), newp, size)
    BY <1>7, <2>2 DEF With, Without
  <2>4. mem' = Release(w, old) /\ live' = rest /\ live' = With(Without(old), newp, size)
    BY <1>3, <1>9, <2>3
  <2>5. DOMAIN rest = DOMAIN more \ {old}
    OBVIOUS
  <2> HIDE DEF more
  <2>6. /\ n \in Mem /\ Row(n, mem_brk, C) /\ newp \in C /\ old \in C
        /\ newp \in Nat /\ old \in Nat /\ First <= newp /\ size \in Nat
        /\ size + 8 <= Size(n, newp) /\ newp + Size(n, newp) <= mem_brk
        /\ live[old] \in Nat /\ live[old] + 8 <= Size(n, old)
    BY <1>2, <1>6, <1>7, <2>1, <2>2, SoundFacts
  <2>7. /\ w \in Mem /\ \A a \in Words : a < newp \/ a >= newp + size => w[a] = n[a]
        /\ \A j \in Nat : newp + j \in Words /\ j < size /\ j < Size(n, old) - 8
                         => w[newp + j] = n[old + j]
    BY <2>6, CopyWrites
  <2> HIDE DEF w
  <2>8. /\ C \in SUBSET Candidates(w, mem_brk) /\ Sound(w, mem_brk, more, C)
        /\ \A b \in DOMAIN more \ {newp} : Untouched(n, w, b)
    BY <1>6, <1>7, <2>1, <2>2, <2>7, WriteSound
  <2>9. /\ mem' \in Mem /\ HeldOK(rest, mem_brk)
        /\ \E D \in SUBSET Candidates(mem', mem_brk) : Sound(mem', mem_brk, rest, D)
        /\ \A b \in DOMAIN rest : Untouched(w, mem', b)
    BY <1>6, <2>2, <2>4, <2>8, ReleaseSound
  <2> HIDE DEF rest
  <2>10. ASSUME NEW q \in DOMAIN live' \ {newp}
         PROVE  Untouched(mem, mem', q)
    <3>1. q \in DOMAIN live /\ q \in DOMAIN more \ {newp} /\ q \in DOMAIN rest
      BY <1>7, <2>4, <2>5, <2>10
    <3>2. Untouched(mem, n, q) /\ Untouched(n, w, q) /\ Untouched(w, mem', q)
      BY <1>6, <2>8, <2>9, <3>1
    <3>3. Untouched(mem, w, q)
      BY <3>2, UntouchedTwice
    <3> QED
      BY <3>2, <3>3, UntouchedTwice
  <2>11. ASSUME NEW j \in Nat, j % 4 = 0, j < size, j < live[old]
         PROVE  mem'[newp + j] = mem[old + j]
    <3>1. /\ newp % 8 = 0 /\ old % 8 = 0 /\ First <= old /\ Size(n, old) \in Nat
          /\ Size(n, newp) \in Nat /\ old + Size(n, old) <= mem_brk
          /\ mem_brk \in Nat /\ mem_brk <= mem_max_addr
      BY <2>6, RowFacts
    <3>2. newp + j \in Words /\ old + j \in Words
      BY <2>6, <2>11, <3>1, Region DEF Words, WSIZE
    <3>3. w[newp + j] = n[old + j]
      BY <2>6, <2>7, <2>11, <3>1, <3>2
    <3>4. n[old + j] = mem[old + j]
      <4>1. Untouched(mem, n, old)
        BY <1>6, <2>2
      <4>2. old - 4 <= old + j /\ old + j < old + Size(n, old) - 4
        BY <2>6, <2>11, <3>1
      <4> QED
        BY <3>2, <4>1, <4>2 DEF Untouched, SameBlock
    <3>5. mem'[newp + j] = w[newp + j]
      <4>1. newp \in DOMAIN rest
        BY <2>2, <2>5
      <4>2. Untouched(w, mem', newp)
        BY <2>9, <4>1
      <4>3. Size(w, newp) = Size(mem', newp) /\ newp + j < newp + Size(w, newp) - 4
        <5>1. Size(w, newp) \in Nat /\ size + 8 <= Size(w, newp)
          <6>1. HeldOK(more, mem_brk) /\ w \in Mem /\ Row(w, mem_brk, C)
            BY <1>6, <2>7, <2>8 DEF Sound, Good
          <6>2. size + 8 <= Size(w, newp)
            BY <1>6, <1>7, <2>2, <2>8, SoundFacts
          <6> QED
            BY <2>6, <6>1, <6>2, RowFacts
        <5> QED
          BY <2>6, <2>11, <4>2, <5>1 DEF Untouched, SameBlock
      <4>4. newp - 4 <= newp + j
        BY <2>6
      <4> QED
        BY <3>2, <4>2, <4>3, <4>4 DEF Untouched
    <3> QED
      BY <3>3, <3>4, <3>5
  <2> QED
    BY <1>2, <1>6, <2>2, <2>4, <2>9, <2>10, <2>11 DEF newp, old, size
<1> QED
  BY <1>8, <1>9

LEMMA PlaceStep ==
  ASSUME RequestsDoNotWrap, IInv, place
  PROVE  IInv'
<1>1. /\ pc = "place" /\ pc' = "idle" /\ call' = NoCall
      /\ mem_brk' = mem_brk /\ heap_listp' = heap_listp
  BY DEF place
<1>2. /\ mem' \in Mem /\ HeldOK(live', mem_brk)
      /\ \E C \in SUBSET Candidates(mem', mem_brk) : Sound(mem', mem_brk, live', C)
  BY PlaceResult
<1>3. StateOK'
  BY <1>1, <1>2 DEF IInv, StateOK
<1>4. HeapOK'
  BY <1>1, <1>2 DEF IInv, HeapOK
<1> QED
  BY <1>3, <1>4 DEF IInv

-----------------------------------------------------------------------------

LEMMA NextKeepsIInv ==
  ASSUME RequestsDoNotWrap, IInv, [Next]_vars
  PROVE  IInv'
<1>1. CASE mm_init
  BY <1>1, RestartStep
<1>2. ASSUME NEW size \in Sizes, NEW old \in DOMAIN live \union {NULL},
             size > 0, pc = "idle", StartSearch(size, old)
      PROVE  IInv'
  <2>1. size \in Sizes \ {0}
    BY <1>2
  <2> QED
    BY <1>2, <2>1, SearchStarts
<1>3. ASSUME NEW size \in Sizes, mm_malloc(size)
      PROVE  IInv'
  BY <1>2, <1>3 DEF mm_malloc
<1>4. ASSUME NEW size \in Sizes, mm_realloc_null(size)
      PROVE  IInv'
  <2>1. CASE mm_malloc(size)
    BY <1>3, <2>1
  <2>2. CASE /\ pc = "idle" /\ pc' = "crashed"
             /\ UNCHANGED <<mem_brk, mem, heap_listp, call, live>>
    <3>1. StateOK'
      BY <2>2 DEF IInv, StateOK
    <3>2. HeapOK'
      BY <2>2 DEF IInv, HeapOK
    <3> QED
      BY <3>1, <3>2 DEF IInv
  <2> QED
    BY <1>4, <2>1, <2>2 DEF mm_realloc_null
<1>5. CASE UNCHANGED vars
  <2>1. StateOK'
    BY <1>5 DEF IInv, StateOK, vars
  <2>2. HeapOK'
    BY <1>5 DEF IInv, HeapOK, vars
  <2> QED
    BY <2>1, <2>2 DEF IInv
<1>6. ASSUME NEW p \in DOMAIN live, mm_free(p)
      PROVE  IInv'
  BY <1>6, FreeStep
<1>7. ASSUME NEW p \in DOMAIN live, NEW size \in Sizes, mm_realloc(p, size)
      PROVE  IInv'
  BY <1>2, <1>6, <1>7 DEF mm_realloc
<1>8. ASSUME NEW p \in DOMAIN live, NEW tag \in Tags, write(p, tag)
      PROVE  IInv'
  BY <1>8, WriteStep
<1>9. CASE find_fit_next
  BY <1>9, NextStep
<1>10. CASE find_fit_hit
  BY <1>10, HitStep
<1>11. CASE find_fit_miss
  BY <1>11, MissStep
<1>12. CASE place
  BY <1>12, PlaceStep
<1>13. CASE mm_malloc_zero \/ crashed
  BY <1>5, <1>13 DEF mm_malloc_zero, crashed
<1> QED
  BY <1>1, <1>3, <1>4, <1>5, <1>6, <1>7, <1>8, <1>9, <1>10, <1>11, <1>12, <1>13 DEF Next

\* The heap and the call in progress are consistent in every state.
THEOREM InvariantHolds ==
  ASSUME RequestsDoNotWrap
  PROVE  Spec => []IInv
<1>1. Init => IInv
  BY InitStep
<1>2. IInv /\ [Next]_vars => IInv'
  BY NextKeepsIInv
<1> QED
  BY <1>1, <1>2, PTL DEF Spec

-----------------------------------------------------------------------------
(* What follows from it.                                                   *)

LEMMA SoundTiles ==
  ASSUME NEW m, NEW brk, NEW held, NEW B, Sound(m, brk, held, B)
  PROVE  Fenced(m, brk) /\ Tiles(m, brk, B) /\ NoAdjacentFree(m, B) /\ Accounts(m, B, held)
BY DEF Sound, Good, Row, Tiles

\* Every variable stays in its range (module MM), and the cursor of find_fit
\* never passes the break.
THEOREM TypesHold ==
  ASSUME RequestsDoNotWrap
  PROVE  Spec => []TypeOK
<1>1. IInv => TypeOK
  <2> SUFFICES ASSUME IInv
               PROVE  TypeOK
    OBVIOUS
  <2>1. mem_brk \in Nat /\ NULL \in 0 .. mem_brk /\ 0 \in 0 .. WORD - 1
    BY Region DEF IInv, StateOK, NULL
  <2>2. call \in [size : Sizes \union {0}, asize : 0 .. WORD - 1,
                  old : DOMAIN live \union {NULL}, bp : 0 .. mem_brk]
    <3>1. CASE pc \in {"find_fit", "place"}
      <4>1. Pending(call, live)
        BY <3>1 DEF IInv, StateOK
      <4>2. PICK B \in SUBSET Candidates(mem, mem_brk) :
              /\ Sound(mem, mem_brk, live, B)
              /\ pc = "find_fit" => Searching(mem, mem_brk, call, B)
              /\ pc = "place" => Found(mem, call, B)
        BY <3>1 DEF IInv, HeapOK
      <4>3. call.bp \in B \union {MEM_START + 2 * WSIZE, mem_brk}
        BY <3>1, <4>2 DEF Searching, Found
      <4>4. call.bp \in 0 .. mem_brk
        <5>1. mem \in Mem /\ Row(mem, mem_brk, B)
          BY <4>2 DEF Sound, Good
        <5>2. call.bp \in Nat /\ call.bp <= mem_brk
          BY <4>3, <5>1, Fences
        <5> QED
          BY <2>1, <5>2
      <4> QED
        BY <4>1, <4>4 DEF Pending
    <3>2. CASE pc \notin {"find_fit", "place"}
      BY <2>1, <3>2 DEF IInv, StateOK, NoCall
    <3> QED
      BY <3>1, <3>2
  <2> QED
    BY <2>2 DEF TypeOK, IInv, StateOK, Mem, HeldOK
<1> QED
  BY <1>1, InvariantHolds, PTL

\* The headers lead from the prologue to the epilogue and the footers repeat
\* them (mm.c:116-135, 258-325).
THEOREM BoundaryTagsHold ==
  ASSUME RequestsDoNotWrap
  PROVE  Spec => []BoundaryTags
<1>1. IInv => BoundaryTags
  BY SoundTiles DEF IInv, HeapOK, BoundaryTags, Up
<1> QED
  BY <1>1, InvariantHolds, PTL

\* No two neighbours are both free (mm.c:294-325).
THEOREM CoalescedHolds ==
  ASSUME RequestsDoNotWrap
  PROVE  Spec => []Coalesced
<1>1. IInv => Coalesced
  BY SoundTiles DEF IInv, HeapOK, Coalesced, Up
<1> QED
  BY <1>1, InvariantHolds, PTL

\* The allocated blocks are the ones the client holds, each of the size its
\* request asks for or 8 bytes more (mm.c:195-202, 258-276).
THEOREM NothingIsLeaked ==
  ASSUME RequestsDoNotWrap
  PROVE  Spec => []NothingLeaked
<1>1. IInv => NothingLeaked
  BY SoundTiles DEF IInv, HeapOK, NothingLeaked, Up
<1> QED
  BY <1>1, InvariantHolds, PTL

\* find_fit passes over no block that would have done (mm.c:236-247).
THEOREM SearchIsFirstFit ==
  ASSUME RequestsDoNotWrap
  PROVE  Spec => []SearchSkipsNothing
<1>1. IInv => SearchSkipsNothing
  <2> SUFFICES ASSUME IInv, pc = "find_fit"
               PROVE  \E B \in SUBSET Candidates(mem, mem_brk) :
                        /\ Tiles(mem, mem_brk, B)
                        /\ call.bp \in B \union {heap_listp, mem_brk}
                        /\ NothingFits(mem, { b \in B : b < call.bp }, call.asize)
    BY DEF SearchSkipsNothing
  <2>1. PICK B \in SUBSET Candidates(mem, mem_brk) :
          Sound(mem, mem_brk, live, B) /\ Searching(mem, mem_brk, call, B)
    BY DEF IInv, HeapOK
  <2>2. heap_listp = MEM_START + 2 * WSIZE
    BY DEF IInv, HeapOK
  <2> QED
    BY <2>1, <2>2, SoundTiles DEF Searching
<1> QED
  BY <1>1, InvariantHolds, PTL

\* What place is given is a free block that is large enough (mm.c:209-223).
THEOREM FoundBlockIsFree ==
  ASSUME RequestsDoNotWrap
  PROVE  Spec => []FoundBlockFits
<1>1. IInv => FoundBlockFits
  BY SoundTiles DEF IInv, HeapOK, FoundBlockFits, Found
<1> QED
  BY <1>1, InvariantHolds, PTL

\* No byte belongs to two payloads, and every payload is aligned and inside the
\* heap (mm.c:258-276).
THEOREM PayloadsAreApart ==
  ASSUME RequestsDoNotWrap
  PROVE  Spec => []PayloadsApart
<1>1. IInv => PayloadsApart
  <2> SUFFICES ASSUME IInv
               PROVE  PayloadsApart
    OBVIOUS
  <2>1. DOMAIN Held = DOMAIN live /\ \A p \in DOMAIN live : Held[p].size = live[p]
    BY DEF Held, View
  <2>2. ASSUME NEW p \in DOMAIN live
        PROVE  /\ p % 8 = 0 /\ MEM_START <= p /\ p + live[p] <= mem_brk
               /\ \A q \in DOMAIN live \ {p} : p + live[p] <= q \/ q + live[q] <= p
    <3>1. PICK B \in SUBSET Candidates(mem, mem_brk) : Sound(mem, mem_brk, live, B)
      BY DEF IInv, HeapOK
    <3> QED
      BY <3>1, SoundApart DEF IInv, StateOK
  <2> QED
    BY <2>1, <2>2 DEF PayloadsApart, Promise!PayloadsApart, Promise!Apart, Promise!ALIGNMENT
<1> QED
  BY <1>1, InvariantHolds, PTL

\* From inside a search only a step of the search leads on.
LEMMA SearchGoesOn ==
  ASSUME [Next]_vars, pc = "find_fit"
  PROVE  find_fit_next \/ find_fit_hit \/ find_fit_miss \/ UNCHANGED vars
BY DEF Next, mm_init, mm_malloc, mm_realloc_null, mm_malloc_zero, mm_free, mm_realloc,
   write, place, crashed

\* NULL is the answer only when no free block fits and the extension does not fit
\* in the region, and a call that fails changes nothing (mm.c:123-126, 209-222,
\* 362-366).
THEOREM RefusedWhenExhausted ==
  ASSUME RequestsDoNotWrap
  PROVE  Spec => RefusedOnlyWhenExhausted
<1>1. IInv /\ [Next]_vars =>
        [ pc = "find_fit" /\ pc' = "idle" /\ DOMAIN live' = DOMAIN live
          => /\ \E B \in SUBSET Candidates(mem, mem_brk) :
                  Tiles(mem, mem_brk, B) /\ NothingFits(mem, B, call.asize)
             /\ mem_brk + RoundUp(Greater(call.asize, CHUNKSIZE), 16) > mem_max_addr
             /\ UNCHANGED <<mem, mem_brk, live>> ]_vars
  <2> SUFFICES ASSUME IInv, [Next]_vars, pc = "find_fit", pc' = "idle"
               PROVE  /\ \E B \in SUBSET Candidates(mem, mem_brk) :
                           Tiles(mem, mem_brk, B) /\ NothingFits(mem, B, call.asize)
                      /\ mem_brk + RoundUp(Greater(call.asize, CHUNKSIZE), 16) > mem_max_addr
                      /\ UNCHANGED <<mem, mem_brk, live>>
    OBVIOUS
  <2>1. find_fit_miss
    BY SearchGoesOn DEF find_fit_next, find_fit_hit, vars
  <2>2. \E B \in SUBSET Candidates(mem, mem_brk) :
          Tiles(mem, mem_brk, B) /\ NothingFits(mem, B, call.asize)
    BY <2>1, EpilogueReached, SoundTiles DEF find_fit_miss
  <2>3. /\ UNCHANGED <<mem, mem_brk, live>>
        /\ mem_brk + RoundUp(Greater(call.asize, CHUNKSIZE), 16) > mem_max_addr
    BY <2>1, MissCases
  <2> QED
    BY <2>2, <2>3
<1> QED
  BY <1>1, InvariantHolds, PTL DEF Spec, RefusedOnlyWhenExhausted

\* extend_heap is called only when no free block fits (mm.c:209-222).
THEOREM GrowsWhenNothingFits ==
  ASSUME RequestsDoNotWrap
  PROVE  Spec => GrowsOnlyWhenNothingFits
<1>1. IInv /\ [Next]_vars =>
        [ pc = "find_fit" /\ mem_brk' # mem_brk
          => \E B \in SUBSET Candidates(mem, mem_brk) :
               Tiles(mem, mem_brk, B) /\ NothingFits(mem, B, call.asize) ]_vars
  <2> SUFFICES ASSUME IInv, [Next]_vars, pc = "find_fit", mem_brk' # mem_brk
               PROVE  \E B \in SUBSET Candidates(mem, mem_brk) :
                        Tiles(mem, mem_brk, B) /\ NothingFits(mem, B, call.asize)
    OBVIOUS
  <2>1. find_fit_miss
    BY SearchGoesOn DEF find_fit_next, find_fit_hit, vars
  <2> QED
    BY <2>1, EpilogueReached, SoundTiles DEF find_fit_miss
<1> QED
  BY <1>1, InvariantHolds, PTL DEF Spec, GrowsOnlyWhenNothingFits

-----------------------------------------------------------------------------
(* The promise of malloc. Under the mapping View, every step of MM is a    *)
(* step of AllocatorPromise or leaves what the client sees as it is.       *)

-----------------------------------------------------------------------------
(* The cells of a payload.                                                 *)

\* Every cell of a held payload is a word of its block, between the tags.
LEMMA CellIsAWord ==
  ASSUME RequestsDoNotWrap, NEW m, NEW brk, NEW held, NEW B,
         Sound(m, brk, held, B), HeldOK(held, brk), NEW p \in DOMAIN held,
         NEW i \in 0 .. (held[p] + WSIZE - 1) \div WSIZE - 1
  PROVE  /\ WSIZE * i \in Nat /\ (WSIZE * i) % 4 = 0 /\ WSIZE * i < held[p]
         /\ p + WSIZE * i \in Words
         /\ p - 4 <= p + WSIZE * i /\ p + WSIZE * i < p + Size(m, p) - 4
<1>1. /\ p \in Nat /\ First <= p /\ held[p] \in Nat /\ held[p] > 0
      /\ held[p] + 8 <= Size(m, p) /\ p + Size(m, p) <= brk
      /\ p \in B /\ m \in Mem /\ Row(m, brk, B)
  BY SoundFacts
<1>2. /\ brk \in Nat /\ brk <= mem_max_addr /\ p % 8 = 0 /\ Size(m, p) \in Nat
  BY <1>1, RowFacts
<1>3. i \in 0 .. (held[p] + 4 - 1) \div 4 - 1 /\ WSIZE * i = 4 * i
  BY DEF WSIZE
<1>4. i \in Nat /\ 4 * i < held[p]
  BY <1>1, <1>3
<1>5. p + 4 * i \in Words
  BY <1>1, <1>2, <1>4, Region DEF Words, WSIZE
<1>6. p + 4 * i < p + Size(m, p) - 4
  BY <1>1, <1>2, <1>4
<1> QED
  BY <1>1, <1>3, <1>4, <1>5, <1>6

\* A payload whose block is untouched contains what it did.
LEMMA ContentsKept ==
  ASSUME RequestsDoNotWrap, NEW m, NEW n, NEW brk, NEW held, NEW B,
         Sound(m, brk, held, B), HeldOK(held, brk), NEW p \in DOMAIN held,
         Untouched(m, n, p)
  PROVE  Contents(n, p, held[p]) = Contents(m, p, held[p])
<1>1. ASSUME NEW i \in 0 .. (held[p] + WSIZE - 1) \div WSIZE - 1
      PROVE  n[p + WSIZE * i] = m[p + WSIZE * i]
  <2>1. /\ p + WSIZE * i \in Words
        /\ p - 4 <= p + WSIZE * i /\ p + WSIZE * i < p + Size(m, p) - 4
    BY CellIsAWord
  <2> QED
    BY <2>1 DEF Untouched
<1> QED
  BY <1>1 DEF Contents

\* The contents of a payload are numbers that fit in a word.
LEMMA ContentsAreData ==
  ASSUME RequestsDoNotWrap, NEW m, NEW brk, NEW held, NEW B,
         Sound(m, brk, held, B), HeldOK(held, brk), NEW p \in DOMAIN held
  PROVE  Contents(m, p, held[p]) \in Promise!Data(held[p])
<1>1. m \in Mem
  BY DEF Sound, Good
<1>2. ASSUME NEW i \in 0 .. (held[p] + WSIZE - 1) \div WSIZE - 1
      PROVE  m[p + WSIZE * i] \in 0 .. WORD - 1
  <2>1. p + WSIZE * i \in Words
    BY CellIsAWord
  <2> QED
    BY <1>1, <2>1 DEF Mem
<1> QED
  BY <1>2 DEF Contents, Promise!Data, Promise!LastCell

\* The heap of a state in which something is held.
LEMMA SoundNow ==
  ASSUME IInv, pc # "down"
  PROVE  /\ \E B \in SUBSET Candidates(mem, mem_brk) : Sound(mem, mem_brk, live, B)
         /\ HeldOK(live, mem_brk)
BY DEF IInv, HeapOK, StateOK

-----------------------------------------------------------------------------
(* The steps.                                                              *)

LEMMA StutterStep ==
  ASSUME UNCHANGED <<mem, live, mem_brk>>
  PROVE  UNCHANGED Promise!promise
BY DEF Promise!promise, Held

LEMMA InitImplements == Init => Promise!PromiseInit
<1> SUFFICES ASSUME Init
             PROVE  Promise!PromiseInit
  OBVIOUS
<1>1. live = [p \in {} |-> 0] /\ mem_brk = MEM_START
  BY DEF Init, mem_init
<1>2. Held = [p \in {} |-> 0]
  BY <1>1 DEF Held, View
<1> QED
  BY <1>1, <1>2 DEF Promise!PromiseInit

LEMMA RestartImplements ==
  ASSUME RequestsDoNotWrap, IInv, mm_init
  PROVE  Promise!PromiseNext
<1>1. live' = [p \in {} |-> 0]
  BY DEF mm_init
<1>2. Held' = [p \in {} |-> 0]
  BY <1>1 DEF Held, View
<1>3. mem_brk' \in MEM_START .. mem_max_addr
  BY RestartStep DEF IInv, StateOK
<1>4. Promise!Restart
  BY <1>2, <1>3 DEF Promise!Restart
<1> QED
  BY <1>4 DEF Promise!PromiseNext

\* mm_free gives up one payload and leaves the contents of the others.
LEMMA FreeImplements ==
  ASSUME RequestsDoNotWrap, IInv, NEW p \in DOMAIN live, mm_free(p)
  PROVE  Promise!PromiseNext
<1>1. /\ pc = "idle" /\ mem' = Release(mem, p) /\ mem_brk' = mem_brk
      /\ live' = [q \in DOMAIN live \ {p} |-> live[q]]
  BY DEF mm_free, Without
<1>2. HeldOK(live, mem_brk)
      /\ \E B \in SUBSET Candidates(mem, mem_brk) : Sound(mem, mem_brk, live, B)
  BY <1>1, SoundNow
<1>3. PICK B \in SUBSET Candidates(mem, mem_brk) : Sound(mem, mem_brk, live, B)
  BY <1>2
<1>4. \A q \in DOMAIN live' : Untouched(mem, mem', q)
  BY <1>1, <1>2, <1>3, ReleaseSound
<1>5. DOMAIN live' = DOMAIN live \ {p} /\ \A q \in DOMAIN live' : live'[q] = live[q]
  BY <1>1
<1>6. \A q \in DOMAIN live' : Contents(mem', q, live'[q]) = Contents(mem, q, live[q])
  BY <1>2, <1>3, <1>4, <1>5, ContentsKept
<1>7. Held' = [q \in DOMAIN Held \ {p} |-> Held[q]]
  BY <1>5, <1>6 DEF Held, View
<1>8. p \in DOMAIN Held
  BY DEF Held, View
<1>9. Promise!Free(p)
  BY <1>1, <1>7, <1>8 DEF Promise!Free, Promise!Minus
<1> QED
  BY <1>8, <1>9 DEF Promise!PromiseNext

\* The client writes into its payload and into no other.
LEMMA WriteImplements ==
  ASSUME RequestsDoNotWrap, IInv, NEW p \in DOMAIN live, NEW tag \in Tags, write(p, tag)
  PROVE  Promise!PromiseNext
<1>1. /\ pc = "idle" /\ mem' = Memset(mem, p, live[p], tag)
      /\ mem_brk' = mem_brk /\ live' = live
  BY DEF write
<1>2. HeldOK(live, mem_brk) /\ mem \in Mem
      /\ \E B \in SUBSET Candidates(mem, mem_brk) : Sound(mem, mem_brk, live, B)
  BY <1>1, SoundNow DEF IInv, StateOK
<1>3. PICK B \in SUBSET Candidates(mem, mem_brk) : Sound(mem, mem_brk, live, B)
  BY <1>2
<1>4. p \in Nat /\ live[p] \in Nat
  BY <1>2, <1>3, SoundFacts
<1>5. mem' \in Mem /\ \A a \in Words : a < p \/ a >= p + live[p] => mem'[a] = mem[a]
  <2>1. mem' \in Mem
    BY WriteStep DEF IInv, StateOK
  <2>2. \A a \in Words : a \in Int
    BY Region DEF Words
  <2> QED
    BY <1>1, <1>4, <2>1, <2>2 DEF Memset
<1>6. /\ Sound(mem', mem_brk, live, B)
      /\ \A q \in DOMAIN live \ {p} : Untouched(mem, mem', q)
  BY <1>2, <1>3, <1>5, WriteSound
<1>7. \A q \in DOMAIN live \ {p} : Contents(mem', q, live[q]) = Contents(mem, q, live[q])
  BY <1>2, <1>3, <1>6, ContentsKept
<1> DEFINE data == Contents(mem', p, live[p])
<1>8. data \in Promise!Data(live[p])
  BY <1>2, <1>6, ContentsAreData
<1> HIDE DEF data
<1>9. Held' = [Held EXCEPT ![p].data = data]
  <2>1. Held' = [q \in DOMAIN live |-> [size |-> live[q], data |-> Contents(mem', q, live[q])]]
    BY <1>1 DEF Held, View
  <2>2. Held = [q \in DOMAIN live |-> [size |-> live[q], data |-> Contents(mem, q, live[q])]]
    BY DEF Held, View
  <2> QED
    BY <1>7, <2>1, <2>2 DEF data
<1>10. p \in DOMAIN Held /\ p \in DOMAIN Held' /\ Held[p].size = live[p] /\ Held'[p].data = data
  BY <1>1 DEF Held, View, data
<1>11. Promise!Overwrite(p, data)
  BY <1>1, <1>8, <1>9, <1>10 DEF Promise!Overwrite
<1> QED
  BY <1>10, <1>11 DEF Promise!PromiseNext

\* extend_heap moves the break and no payload.
LEMMA MissImplements ==
  ASSUME RequestsDoNotWrap, IInv, find_fit_miss
  PROVE  Promise!PromiseNext \/ UNCHANGED Promise!promise
<1> DEFINE size == RoundUp(Greater(call.asize, CHUNKSIZE), 16)
<1>1. CASE UNCHANGED <<mem, mem_brk, heap_listp, live>>
  BY <1>1, StutterStep
<1>2. CASE /\ UNCHANGED <<heap_listp, live>>
           /\ mem_brk' = mem_brk + size /\ mem_brk' <= mem_max_addr /\ size \in Nat
           /\ \A b \in DOMAIN live : Untouched(mem, mem', b)
  <2> HIDE DEF size
  <2>1. HeldOK(live, mem_brk)
        /\ \E B \in SUBSET Candidates(mem, mem_brk) : Sound(mem, mem_brk, live, B)
    BY SoundNow DEF find_fit_miss
  <2>2. PICK B \in SUBSET Candidates(mem, mem_brk) : Sound(mem, mem_brk, live, B)
    BY <2>1
  <2>3. \A q \in DOMAIN live : Contents(mem', q, live[q]) = Contents(mem, q, live[q])
    BY <1>2, <2>1, <2>2, ContentsKept
  <2>4. Held' = Held
    BY <1>2, <2>3 DEF Held, View
  <2>5. mem_brk' \in mem_brk .. mem_max_addr
    BY <1>2, Region DEF IInv, StateOK
  <2>6. Promise!Extend
    BY <2>4, <2>5 DEF Promise!Extend, Promise!Grows
  <2> QED
    BY <2>6 DEF Promise!PromiseNext
<1> QED
  BY <1>1, <1>2, MissCases

\* mm_malloc and mm_realloc hand out a payload that fits, mm_realloc with the
\* contents of the old one.
LEMMA PlaceImplements ==
  ASSUME RequestsDoNotWrap, IInv, place
  PROVE  Promise!PromiseNext
<1> DEFINE newp == call.bp
           old == call.old
           size == call.size
           data == Contents(mem', newp, size)
           kept == IF old = NULL THEN live ELSE Without(old)
<1>1. /\ pc = "place" /\ mem_brk' = mem_brk
  BY DEF place
<1>2. /\ size \in Sizes \ {0} /\ newp \notin DOMAIN live
      /\ \/ old = NULL /\ live' = With(live, newp, size)
         \/ old \in DOMAIN live /\ live' = With(Without(old), newp, size)
      /\ mem' \in Mem /\ HeldOK(live', mem_brk)
      /\ \E C \in SUBSET Candidates(mem', mem_brk) : Sound(mem', mem_brk, live', C)
      /\ \A q \in DOMAIN live' \ {newp} : Untouched(mem, mem', q)
      /\ old # NULL => \A j \in Nat : j % 4 = 0 /\ j < size /\ j < live[old]
                                     => mem'[newp + j] = mem[old + j]
  BY PlaceResult
<1>3. HeldOK(live, mem_brk)
      /\ \E B \in SUBSET Candidates(mem, mem_brk) : Sound(mem, mem_brk, live, B)
  BY <1>1, SoundNow
<1>4. PICK B \in SUBSET Candidates(mem, mem_brk) : Sound(mem, mem_brk, live, B)
  BY <1>3
<1>5. PICK C \in SUBSET Candidates(mem', mem_brk) : Sound(mem', mem_brk, live', C)
  BY <1>2
<1> HIDE DEF newp, old, size
<1>6. NULL \notin DOMAIN live
  BY <1>3, Region DEF HeldOK, NULL
<1>7. /\ DOMAIN live' = DOMAIN kept \union {newp} /\ live'[newp] = size
      /\ DOMAIN kept \subseteq DOMAIN live /\ newp \notin DOMAIN kept
      /\ \A q \in DOMAIN kept : live'[q] = live[q] /\ kept[q] = live[q]
  BY <1>2, <1>6 DEF With, Without
<1>8. old # NULL => old \in DOMAIN live /\ DOMAIN kept = DOMAIN live \ {old}
  BY <1>2 DEF Without
<1>9. old = NULL => DOMAIN kept = DOMAIN live
  OBVIOUS
<1> HIDE DEF kept
<1>10. \A q \in DOMAIN kept : Contents(mem', q, live'[q]) = Contents(mem, q, live[q])
  <2>1. ASSUME NEW q \in DOMAIN kept
        PROVE  Contents(mem', q, live[q]) = Contents(mem, q, live[q])
    <3>1. q \in DOMAIN live /\ Untouched(mem, mem', q)
      BY <1>2, <1>7
    <3> QED
      BY <1>3, <1>4, <3>1, ContentsKept
  <2> QED
    BY <1>7, <2>1
<1>11. data \in Promise!Data(size)
  BY <1>2, <1>5, <1>7, ContentsAreData
<1> HIDE DEF data
\* the mapped state before and after
<1>12. /\ DOMAIN Held = DOMAIN live
       /\ \A q \in DOMAIN live : Held[q] = [size |-> live[q], data |-> Contents(mem, q, live[q])]
  BY DEF Held, View
<1>13. Held' = [q \in DOMAIN kept \union {newp} |->
                  IF q = newp THEN [size |-> size, data |-> data] ELSE Held[q]]
  <2>1. Held' = [q \in DOMAIN live' |-> [size |-> live'[q], data |-> Contents(mem', q, live'[q])]]
    BY DEF Held, View
  <2>2. ASSUME NEW q \in DOMAIN live'
        PROVE  [size |-> live'[q], data |-> Contents(mem', q, live'[q])]
               = IF q = newp THEN [size |-> size, data |-> data] ELSE Held[q]
    BY <1>7, <1>10, <1>12 DEF data
  <2> QED
    BY <1>7, <2>1, <2>2
<1>14. newp \in DOMAIN Held' /\ Held'[newp].data = data
  BY <1>13
\* the new payload is away from the others
<1>15. /\ newp % 8 = 0 /\ MEM_START <= newp /\ newp + size <= mem_brk
       /\ \A q \in DOMAIN kept : newp + size <= q \/ q + live[q] <= newp
  <2>1. newp \in DOMAIN live'
    BY <1>7
  <2>2. /\ newp % 8 = 0 /\ MEM_START <= newp /\ newp + live'[newp] <= mem_brk
        /\ \A q \in DOMAIN live' \ {newp} : newp + live'[newp] <= q \/ q + live'[q] <= newp
    BY <1>2, <1>5, <2>1, SoundApart
  <2> QED
    BY <1>7, <2>2
<1>16. size > 0 /\ mem_brk' \in mem_brk .. mem_max_addr
  BY <1>1, <1>2, MemLibAssumption, Region DEF IInv, StateOK
<1>17. CASE old = NULL
  <2>1. Held' = Promise!Plus(Held, newp, [size |-> size, data |-> data])
    BY <1>9, <1>12, <1>13, <1>17 DEF Promise!Plus
  <2>2. Promise!Fits(newp, size, Held)
    BY <1>1, <1>9, <1>12, <1>15, <1>17
    DEF Promise!Fits, Promise!Apart, Promise!ALIGNMENT
  <2>3. newp \notin DOMAIN Held
    BY <1>2, <1>12 DEF newp
  <2>4. Promise!Allocate(newp, size, data)
    BY <1>11, <1>16, <2>1, <2>2, <2>3 DEF Promise!Allocate, Promise!Grows
  <2> QED
    BY <1>2, <1>14, <2>4 DEF Promise!PromiseNext, size
<1>18. CASE old # NULL
  <2>1. old \in DOMAIN Held /\ DOMAIN kept = DOMAIN Held \ {old}
    BY <1>8, <1>12, <1>18
  <2>2. /\ DOMAIN Promise!Minus(old) = DOMAIN kept
        /\ \A q \in DOMAIN kept : Promise!Minus(old)[q] = Held[q]
    BY <2>1 DEF Promise!Minus
  <2>3. Held' = Promise!Plus(Promise!Minus(old), newp, [size |-> size, data |-> data])
    BY <1>13, <2>2 DEF Promise!Plus
  <2>4. Promise!Fits(newp, size, Promise!Minus(old))
    BY <1>1, <1>7, <1>12, <1>15, <2>2
    DEF Promise!Fits, Promise!Apart, Promise!ALIGNMENT
  <2>5. newp \notin DOMAIN Held \ {old}
    BY <1>7, <2>1
  <2>6. ASSUME NEW i \in 0 .. Promise!LastCell(size), i <= Promise!LastCell(Held[old].size)
        PROVE  data[i] = Held[old].data[i]
    <3> DEFINE j == WSIZE * i
    <3>1. old \in DOMAIN live /\ Held[old].size = live[old]
          /\ Held[old].data = Contents(mem, old, live[old])
      BY <1>12, <2>1
    <3>2. i \in 0 .. (size + WSIZE - 1) \div WSIZE - 1
          /\ i <= (live[old] + WSIZE - 1) \div WSIZE - 1
      BY <2>6, <3>1 DEF Promise!LastCell
    <3>3. i \in 0 .. (live[old] + WSIZE - 1) \div WSIZE - 1
      <4>1. live[old] \in Nat
        BY <1>3, <1>4, <3>1, SoundFacts
      <4> QED
        BY <3>2, <4>1 DEF WSIZE
    <3>4. j \in Nat /\ j % 4 = 0 /\ j < live[old]
      BY <1>3, <1>4, <3>1, <3>3, CellIsAWord
    <3>5. j < size
      <4>1. newp \in DOMAIN live' /\ live'[newp] = size
        BY <1>7
      <4> QED
        BY <1>2, <1>5, <3>2, <4>1, CellIsAWord
    <3>6. mem'[newp + j] = mem[old + j]
      BY <1>2, <1>18, <3>4, <3>5 DEF newp, old, size
    <3> QED
      BY <3>1, <3>2, <3>3, <3>6 DEF Contents, data
  <2>7. Promise!Resize(old, newp, size, data)
    BY <1>11, <1>16, <2>1, <2>3, <2>4, <2>5, <2>6 DEF Promise!Resize, Promise!Grows
  <2> QED
    BY <1>2, <1>14, <2>1, <2>7 DEF Promise!PromiseNext, size
<1> QED
  BY <1>17, <1>18

-----------------------------------------------------------------------------

LEMMA NextImplements ==
  ASSUME RequestsDoNotWrap, IInv, [Next]_vars
  PROVE  Promise!PromiseNext \/ UNCHANGED Promise!promise
<1>1. CASE mm_init
  BY <1>1, RestartImplements
<1>2. ASSUME UNCHANGED <<mem, live, mem_brk>>
      PROVE  UNCHANGED Promise!promise
  BY <1>2, StutterStep
<1>3. ASSUME NEW size \in Sizes, mm_malloc(size) \/ mm_realloc_null(size)
      PROVE  UNCHANGED Promise!promise
  BY <1>2, <1>3 DEF mm_malloc, mm_realloc_null, StartSearch
<1>4. ASSUME NEW p \in DOMAIN live, mm_free(p)
      PROVE  Promise!PromiseNext
  BY <1>4, FreeImplements
<1>5. ASSUME NEW p \in DOMAIN live, NEW size \in Sizes, mm_realloc(p, size)
      PROVE  Promise!PromiseNext \/ UNCHANGED Promise!promise
  BY <1>2, <1>4, <1>5 DEF mm_realloc, StartSearch
<1>6. ASSUME NEW p \in DOMAIN live, NEW tag \in Tags, write(p, tag)
      PROVE  Promise!PromiseNext
  BY <1>6, WriteImplements
<1>7. CASE find_fit_next \/ find_fit_hit \/ mm_malloc_zero \/ crashed \/ UNCHANGED vars
  BY <1>2, <1>7 DEF find_fit_next, find_fit_hit, mm_malloc_zero, crashed, vars
<1>8. CASE find_fit_miss
  BY <1>8, MissImplements
<1>9. CASE place
  BY <1>9, PlaceImplements
<1> QED
  BY <1>1, <1>3, <1>4, <1>5, <1>6, <1>7, <1>8, <1>9 DEF Next

\* The allocator keeps the promise of malloc (mm.c:180-379).
THEOREM AllocatorKeepsPromise ==
  ASSUME RequestsDoNotWrap
  PROVE  Spec => ImplementsPromise
<1>1. Init => Promise!PromiseInit
  BY InitImplements
<1>2. IInv /\ [Next]_vars => [Promise!PromiseNext]_(Promise!promise)
  BY NextImplements
<1> QED
  BY <1>1, <1>2, InvariantHolds, PTL DEF Spec, ImplementsPromise, Promise!PromiseSpec

=============================================================================

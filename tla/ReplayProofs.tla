---------------------------- MODULE ReplayProofs ----------------------------
(***************************************************************************)
(* A trace that the correctness pass got through gives the same answers    *)
(* whenever it is replayed on a reset heap, for every region, every trace  *)
(* and any number of replays.                                              *)
(*                                                                         *)
(* Where the blocks are and which of them are free, the shape of the heap, *)
(* decides what the allocator answers and what the shape is next: neither  *)
(* the payloads nor the words that earlier passes left behind matter. The  *)
(* shapes that the correctness pass went through are the ones that every   *)
(* later pass goes through.                                                *)
(***************************************************************************)
EXTENDS MDriverProofs

-----------------------------------------------------------------------------
(* The shape of a heap: its break and the header of every block. GET_SIZE  *)
(* and GET_ALLOC read the headers of a shape by the pointer of the block.  *)

Shaped(m, h) ==
  /\ m \in Mem /\ Row(m, h.brk, DOMAIN h.tags)
  /\ h = [brk |-> h.brk, tags |-> [b \in DOMAIN h.tags |-> m[b - 4]]]

Settled(m, h) == Shaped(m, h) /\ NoAdjacentFree(m, DOMAIN h.tags)

SizeIn(h, b) == GET_SIZE(h.tags, b)
FreeIn(h, b) == GET_ALLOC(h.tags, b) = 0

\* The blocks from c up to e are the free ones around bp.
RunIn(h, bp, c, e) ==
  LET B == DOMAIN h.tags
  IN  /\ c \in B /\ e \in B \union {h.brk} /\ c <= bp /\ bp < e
      /\ \A b \in B : c <= b /\ b < e => FreeIn(h, b)
      /\ \A a \in B : a + SizeIn(h, a) = c => ~ FreeIn(h, a)
      /\ e \in B => ~ FreeIn(h, e)

\* The blocks from c up to e as one, with that header.
Retag(h, c, e, tag) ==
  [brk |-> h.brk,
   tags |-> [b \in Outside(DOMAIN h.tags, c, e) |-> IF b = c THEN tag ELSE h.tags[b]]]

\* coalesce, place, extend_heap and mm_free, on shapes.
CoalesceIn(h, bp) ==
  LET B == DOMAIN h.tags
      run == CHOOSE r \in B \X (B \union {h.brk}) : RunIn(h, bp, r[1], r[2])
  IN  [bp |-> run[1], heap |-> Retag(h, run[1], run[2], run[2] - run[1])]

PlaceIn(h, bp, asize) ==
  LET size == SizeIn(h, bp)
      rest == bp + asize
  IN  IF size - asize >= 16
      THEN [brk |-> h.brk,
            tags |-> [b \in DOMAIN h.tags \union {rest} |->
                        IF b = bp THEN asize + 1
                        ELSE IF b = rest THEN size - asize ELSE h.tags[b]]]
      ELSE Retag(h, bp, bp + size, size + 1)

GrowIn(h, words) ==
  LET size == ExtensionSize(words)
  IN  CoalesceIn([brk |-> h.brk + size,
                  tags |-> [b \in DOMAIN h.tags \union {h.brk} |->
                              IF b = h.brk THEN size ELSE h.tags[b]]], h.brk)

ReleaseIn(h, bp) ==
  CoalesceIn(Retag(h, bp, bp + SizeIn(h, bp), SizeIn(h, bp)), bp).heap

-----------------------------------------------------------------------------
(* What the driver sees of the allocator: the shape of the heap, and the   *)
(* pointer of every id in use.                                             *)

Words_For(asize) == Greater(asize, CHUNKSIZE) \div DSIZE

FittingIn(h, asize) == { b \in DOMAIN h.tags : FreeIn(h, b) /\ asize <= SizeIn(h, b) }

\* The block that find_fit finds, or that extend_heap makes when it finds none.
ChosenIn(h, asize) ==
  IF FittingIn(h, asize) = {} THEN GrowIn(h, Words_For(asize))
  ELSE [bp |-> Min(FittingIn(h, asize)), heap |-> h]

HasRoom(h, asize) ==
  FittingIn(h, asize) = {} => ~ SbrkFails(h.brk, ExtensionSize(Words_For(asize)))

\* An operation that gets what it asks for, its answer, and what it leads to.
Served(g, op) == op.type # "FREE" => HasRoom(g.heap, AdjustedSize(op.size))

AnswerTo(g, op) ==
  IF op.type = "FREE" THEN NULL ELSE ChosenIn(g.heap, AdjustedSize(op.size)).bp

After(g, op) ==
  LET c == ChosenIn(g.heap, AdjustedSize(op.size))
      h == PlaceIn(c.heap, c.bp, AdjustedSize(op.size))
  IN  IF op.type = "FREE"
      THEN [heap |-> ReleaseIn(g.heap, g.at[op.index]),
            at |-> [id \in DOMAIN g.at \ {op.index} |-> g.at[id]]]
      ELSE [heap |-> IF op.type = "ALLOC" THEN h ELSE ReleaseIn(h, g.at[op.index]),
            at |-> Extend(g.at, op.index, c.bp)]

\* What mm_init leaves, when the region has room for it.
Fresh ==
  [heap |-> GrowIn([brk |-> First, tags |-> Empty], CHUNKSIZE \div DSIZE).heap,
   at |-> Empty]

InitHasRoom ==
  /\ ~ SbrkFails(ResetBrk, 4 * WSIZE)
  /\ ~ SbrkFails(First, ExtensionSize(CHUNKSIZE \div DSIZE))

\* The driver saw H[0], ..., H[n] in the first n operations of the trace, and
\* got those answers.
History(H, n, t, answered) ==
  /\ InitHasRoom /\ H[0] = Fresh
  /\ \A j \in 1 .. n : /\ Served(H[j - 1], t[j])
                       /\ answered[j] = AnswerTo(H[j - 1], t[j])
                       /\ H[j] = After(H[j - 1], t[j])

\* The heap has that shape now, and the ids in use have those pointers.
Now(g) ==
  /\ Settled(mem, g.heap) /\ mem_brk = g.heap.brk
  /\ g.at = [id \in inuse |-> blocks[id]]

\* The block of a call in progress has been found.
NowChosen(g) ==
  LET c == ChosenIn(g.heap, call.asize)
  IN  /\ Settled(mem, c.heap) /\ mem_brk = c.heap.brk /\ call.bp = c.bp
      /\ g.at = [id \in inuse |-> blocks[id]]
      /\ HasRoom(g.heap, call.asize)

\* Where the pass is in the history.
Stands(H) ==
  /\ step = "next" => Now(H[i])
  /\ step = "called" /\ pc = "find_fit" => Now(H[i])
  /\ step = "called" /\ pc = "place" => NowChosen(H[i])
  /\ step = "fill" => /\ Served(H[i], Op) /\ Now(After(H[i], Op))
                      /\ blocks[Op.index] = AnswerTo(H[i], Op)

\* Once mm_init has succeeded there is a history: of the operations so far in
\* the correctness pass, of all of the trace in the passes after it.
Remembered ==
  (step # "init" \/ phase # "valid") /\ step # "stop" =>
    \E H : History(H, Len(answers), trace, answers) /\ Stands(H)

Counted ==
  /\ answers \in Seq(Int)
  /\ phase = "valid" /\ step = "init" => Len(answers) = 0
  /\ phase = "valid" /\ step \in {"next", "called", "fill"} => Len(answers) = i
  /\ phase # "valid" => Len(answers) = Len(trace)
  /\ step = "called" <=> pc \in {"find_fit", "place"}
  /\ verdict # "exited"

RInv == DInv /\ Counted /\ Remembered

-----------------------------------------------------------------------------
(* Reading a shape.                                                        *)

\* A memory has one row of blocks: from the prologue on, each block says where
\* the next one is.
LEMMA RowIsUnique ==
  ASSUME NEW m \in Mem, NEW brk, NEW B, NEW C, Row(m, brk, B), Row(m, brk, C)
  PROVE  B = C
<1>1. ASSUME NEW X, NEW Y, Row(m, brk, X), Row(m, brk, Y)
      PROVE  X \ Y = {}
  <2> SUFFICES ASSUME X \ Y # {}
               PROVE  FALSE
    OBVIOUS
  <2>1. \A b \in X : b \in Nat /\ Size(m, b) \in Nat /\ Size(m, b) >= 16
                     /\ b + Size(m, b) <= brk
    BY <1>1, RowFacts
  <2>2. brk \in Nat
    BY <1>1, RowFacts
  <2>3. PICK b \in X \ Y : \A x \in X \ Y : b <= x
    <3>1. X \ Y \in SUBSET Nat
      BY <2>1
    <3> QED
      BY <3>1, LeastElement
  <2>4. b < brk
    BY <2>1, <2>2
  <2>5. CASE b = First
    BY <1>1, <2>3, <2>4, <2>5, <2>2 DEF Row
  <2>6. CASE b # First
    <3>1. PICK a \in X : a + Size(m, a) = b
      BY <1>1, <2>6 DEF Row
    <3>2. a \in Y
      BY <2>1, <2>3, <3>1
    <3>3. b \in Y \union {brk}
      BY <1>1, <3>1, <3>2 DEF Row
    <3> QED
      BY <2>3, <2>4, <2>2, <2>1, <3>3
  <2> QED
    BY <2>5, <2>6
<1> QED
  BY <1>1

LEMMA ShapeReads ==
  ASSUME NEW m, NEW h, Shaped(m, h)
  PROVE  /\ m \in Mem /\ Row(m, h.brk, DOMAIN h.tags)
         /\ \A b \in DOMAIN h.tags : /\ h.tags[b] = m[b - 4]
                                     /\ SizeIn(h, b) = Size(m, b)
                                     /\ FreeIn(h, b) <=> Free(m, b)
<1>1. ASSUME NEW b \in DOMAIN h.tags
      PROVE  h.tags[b] = m[b - 4]
  <2>1. PICK t : t = [x \in DOMAIN h.tags |-> m[x - 4]]
    OBVIOUS
  <2>2. h.tags = t
    BY <2>1 DEF Shaped
  <2> QED
    BY <2>1, <2>2
<1> QED
  BY <1>1 DEF Shaped, SizeIn, FreeIn, Size, Free, GET_SIZE, GET_ALLOC, HDRP, WSIZE

\* A memory with a row has a shape.
LEMMA ShapeFrom ==
  ASSUME NEW m \in Mem, NEW brk, NEW B, Row(m, brk, B),
         NEW tags, tags = [b \in B |-> m[b - 4]]
  PROVE  Shaped(m, [brk |-> brk, tags |-> tags])
<1>1. DOMAIN tags = B
  OBVIOUS
<1> QED
  BY <1>1 DEF Shaped

\* Of two rows of the same memory, one without free neighbours, both have none.
LEMMA ShapeSettles ==
  ASSUME NEW m, NEW h, Shaped(m, h), NEW B, Good(m, h.brk, B)
  PROVE  Settled(m, h)
<1>1. DOMAIN h.tags = B
  BY RowIsUnique DEF Shaped, Good
<1> QED
  BY <1>1 DEF Settled, Good

\* There is one run of free blocks around a block.
LEMMA RunIsUnique ==
  ASSUME NEW m, NEW h, Shaped(m, h), NEW bp \in DOMAIN h.tags,
         NEW c, NEW e, RunIn(h, bp, c, e), NEW d, NEW f, RunIn(h, bp, d, f)
  PROVE  c = d /\ e = f
<1> DEFINE B == DOMAIN h.tags
<1>1. /\ m \in Mem /\ Row(m, h.brk, B)
      /\ \A b \in B : SizeIn(h, b) = Size(m, b)
  BY ShapeReads
<1>2. /\ h.brk \in Nat
      /\ \A b \in B : /\ b \in Nat /\ First <= b
                      /\ Size(m, b) \in Nat /\ Size(m, b) >= 16
                      /\ b + Size(m, b) <= h.brk
  BY <1>1, RowFacts
<1>3. ASSUME NEW x, NEW y, RunIn(h, bp, x, y), NEW u, NEW v, RunIn(h, bp, u, v)
      PROVE  ~ (x < u) /\ ~ (y < v)
  <2>1. /\ x \in B /\ x \in Nat /\ u \in B /\ u \in Nat /\ bp \in Nat
        /\ y \in B \union {h.brk} /\ y \in Nat /\ v \in B \union {h.brk} /\ v \in Nat
        /\ u <= bp /\ bp < y /\ bp < v /\ v <= h.brk
    BY <1>2, <1>3 DEF RunIn
  <2>2. ASSUME x < u
        PROVE  FALSE
    <3>1. PICK a \in B : a + Size(m, a) = u
      BY <1>1, <1>2, <2>1, <2>2, Region DEF Row
    <3>2. x <= a
      BY <1>1, <1>2, <2>1, <2>2, <3>1 DEF Row
    <3>3. a < y
      BY <1>2, <2>1, <3>1
    <3> QED
      BY <1>1, <1>3, <3>1, <3>2, <3>3 DEF RunIn
  <2>3. ASSUME y < v
        PROVE  FALSE
    <3>1. y \in B /\ u <= y
      BY <1>2, <2>1, <2>3
    <3> QED
      BY <1>3, <2>3, <3>1 DEF RunIn
  <2> QED
    BY <2>2, <2>3
<1>4. c \in Nat /\ d \in Nat /\ e \in Nat /\ f \in Nat
  BY <1>2 DEF RunIn
<1>5. ~ (c < d) /\ ~ (e < f) /\ ~ (d < c) /\ ~ (f < e)
  BY <1>3
<1> QED
  BY <1>4, <1>5

LEMMA CoalesceInIs ==
  ASSUME NEW m, NEW h, Shaped(m, h), NEW bp \in DOMAIN h.tags,
         NEW c, NEW e, RunIn(h, bp, c, e)
  PROVE  CoalesceIn(h, bp) = [bp |-> c, heap |-> Retag(h, c, e, e - c)]
<1> DEFINE B == DOMAIN h.tags
           P == B \X (B \union {h.brk})
           run == CHOOSE r \in P : RunIn(h, bp, r[1], r[2])
<1>1. \E r \in P : RunIn(h, bp, r[1], r[2])
  <2>1. c \in B /\ e \in B \union {h.brk}
    BY DEF RunIn
  <2> DEFINE r == <<c, e>>
  <2> HIDE DEF B
  <2>2. r \in P /\ r[1] = c /\ r[2] = e
    BY <2>1
  <2> HIDE DEF r
  <2> QED
    BY <2>2
<1>2. run \in P /\ RunIn(h, bp, run[1], run[2])
  BY <1>1
<1>3. CoalesceIn(h, bp) = [bp |-> run[1], heap |-> Retag(h, run[1], run[2], run[2] - run[1])]
  BY DEF CoalesceIn
<1> HIDE DEF run
<1>4. run[1] = c /\ run[2] = e
  BY <1>2, RunIsUnique
<1> QED
  BY <1>3, <1>4

-----------------------------------------------------------------------------
(* The functions of mm.c on a shape.                                       *)

\* Writing the tags of one block over a whole number of blocks.
LEMMA RetagShape ==
  ASSUME NEW m, NEW h, Shaped(m, h),
         NEW c \in DOMAIN h.tags, NEW e \in DOMAIN h.tags \union {h.brk}, c < e,
         NEW al \in {0, 1}, NEW n, Tagged(m, n, c, e - c, al)
  PROVE  Shaped(n, Retag(h, c, e, (e - c) + al))
<1> DEFINE B == DOMAIN h.tags
           C == Outside(B, c, e)
<1>1. m \in Mem /\ Row(m, h.brk, B) /\ \A b \in B : h.tags[b] = m[b - 4]
  BY ShapeReads
<1>2. \A b \in B : b - 4 \in Words /\ b \in Nat /\ Size(m, b) \in Nat /\ Size(m, b) >= 16
  BY <1>1, RowFacts
<1>3. /\ n \in Mem /\ n[c - 4] = (e - c) + al
  BY <1>2 DEF Tagged
<1>4. Row(n, h.brk, C) /\ \A b \in C \ {c} : Untouched(m, n, b)
  BY <1>1, RetagBlock
<1>5. C \in SUBSET B
  BY DEF Outside
<1>6. \A b \in C \ {c} : n[b - 4] = m[b - 4]
  <2> SUFFICES ASSUME NEW b \in C \ {c}
               PROVE  n[b - 4] = m[b - 4]
    OBVIOUS
  <2>1. b - 4 \in Words /\ b - 4 <= b - 4 /\ b - 4 < b + Size(m, b) - 4
    BY <1>2, <1>5
  <2> QED
    BY <1>4, <2>1 DEF Untouched
<1> DEFINE tags == [b \in C |-> IF b = c THEN (e - c) + al ELSE h.tags[b]]
<1>7. tags = [b \in C |-> n[b - 4]]
  <2> HIDE DEF B, C
  <2> QED
    BY <1>1, <1>3, <1>5, <1>6
<1>8. Retag(h, c, e, (e - c) + al) = [brk |-> h.brk, tags |-> tags]
  BY DEF Retag
<1> HIDE DEF C, tags
<1> QED
  BY <1>3, <1>4, <1>7, <1>8, ShapeFrom

LEMMA CoalesceShape ==
  ASSUME NEW m, NEW h, Shaped(m, h), NEW bp \in DOMAIN h.tags, Free(m, bp),
         \A a, b \in DOMAIN h.tags :
           a + Size(m, a) = b /\ Free(m, a) /\ Free(m, b) => a = bp \/ b = bp
  PROVE  LET r == Coalesce(m, bp)
             s == CoalesceIn(h, bp)
         IN  r.bp = s.bp /\ s.heap.brk = h.brk /\ Shaped(r.mem, s.heap)
<1>1. PICK r : r = Coalesce(m, bp)
  OBVIOUS
<1>2. /\ m \in Mem /\ Row(m, h.brk, DOMAIN h.tags)
      /\ \A b \in DOMAIN h.tags : SizeIn(h, b) = Size(m, b) /\ (FreeIn(h, b) <=> Free(m, b))
  BY ShapeReads
<1>3. PICK e \in Nat : /\ FreeRun(m, h.brk, DOMAIN h.tags, bp, r.bp, e)
                       /\ r.bp \in Nat /\ e - r.bp >= Size(m, bp)
                       /\ Tagged(m, r.mem, r.bp, e - r.bp, 0)
  BY <1>1, <1>2, CoalesceTags
<1>4. RunIn(h, bp, r.bp, e)
  BY <1>2, <1>3 DEF FreeRun, RunIn
<1>5. CoalesceIn(h, bp) = [bp |-> r.bp, heap |-> Retag(h, r.bp, e, e - r.bp)]
  BY <1>4, CoalesceInIs
<1>6. r.bp \in DOMAIN h.tags /\ e \in DOMAIN h.tags \union {h.brk} /\ r.bp < e
  <2>1. bp \in Nat
    BY <1>2, RowFacts
  <2> QED
    BY <1>3, <2>1 DEF FreeRun
<1>7. (e - r.bp) + 0 = e - r.bp /\ 0 \in {0, 1}
  BY <1>3
<1>8. Shaped(r.mem, Retag(h, r.bp, e, e - r.bp))
  BY <1>3, <1>6, <1>7, RetagShape
<1>9. Retag(h, r.bp, e, e - r.bp).brk = h.brk
  BY DEF Retag
<1> QED
  BY <1>1, <1>5, <1>8, <1>9

\* A block keeps its size and changes, or keeps, its allocated bit.
LEMMA RetagInPlaceShape ==
  ASSUME NEW m, NEW h, Shaped(m, h), NEW c \in DOMAIN h.tags, NEW al \in {0, 1}
  PROVE  LET n == SetTags(m, c, Size(m, c), al)
             g == Retag(h, c, c + SizeIn(h, c), SizeIn(h, c) + al)
         IN  Shaped(n, g) /\ g.brk = h.brk /\ DOMAIN g.tags = DOMAIN h.tags
<1> DEFINE B == DOMAIN h.tags
           s == Size(m, c)
           e == c + s
<1>1. m \in Mem /\ Row(m, h.brk, B) /\ SizeIn(h, c) = s
  BY ShapeReads
<1>2. /\ h.brk \in Nat /\ h.brk <= mem_max_addr
      /\ \A b \in B : /\ b \in Nat /\ Size(m, b) \in Nat /\ Size(m, b) >= 16
                      /\ b + Size(m, b) <= h.brk
      /\ c - 4 \in Words /\ c + s - 8 \in Words /\ s % 8 = 0
  BY <1>1, RowFacts
<1>3. c \in Nat /\ s \in Nat /\ s >= 16 /\ e \in B \union {h.brk} /\ s + al < WORD
  <2>1. e \in B \union {h.brk}
    BY <1>1 DEF Row
  <2>2. c \in Nat /\ s \in Nat /\ s >= 16 /\ c + s <= h.brk
    BY <1>2
  <2> HIDE DEF s, e
  <2>3. s + al < WORD
    <3>1. First <= c
      BY <1>1, RowFacts
    <3> QED
      BY <1>2, <2>2, <3>1, Region
  <2> QED
    BY <2>1, <2>2, <2>3
<1>4. Outside(B, c, e) = B
  <2>1. \A b \in B : b <= c \/ e <= b
    BY <1>1, <1>2, <1>3 DEF Row
  <2> QED
    BY <2>1 DEF Outside
<1> HIDE DEF s
<1>5. Tagged(m, SetTags(m, c, s, al), c, s, al)
  BY <1>1, <1>2, <1>3, SetTagsWrites
<1>6. e - c = s /\ c < e
  BY <1>3
<1>7. Shaped(SetTags(m, c, s, al), Retag(h, c, e, s + al))
  <2> HIDE DEF e
  <2> QED
    BY <1>3, <1>5, <1>6, RetagShape
<1>8. Retag(h, c, e, s + al).brk = h.brk /\ DOMAIN Retag(h, c, e, s + al).tags = B
  BY <1>4 DEF Retag
<1> QED
  BY <1>1, <1>7, <1>8 DEF s

LEMMA ReleaseShape ==
  ASSUME NEW m, NEW h, Settled(m, h), NEW bp \in DOMAIN h.tags
  PROVE  /\ Settled(Release(m, bp), ReleaseIn(h, bp))
         /\ ReleaseIn(h, bp).brk = h.brk
<1> DEFINE B == DOMAIN h.tags
<1>1. Shaped(m, h) /\ m \in Mem /\ Row(m, h.brk, B) /\ NoAdjacentFree(m, B)
      /\ SizeIn(h, bp) = Size(m, bp)
  BY ShapeReads DEF Settled
<1>2. PICK n : n = SetTags(m, bp, Size(m, bp), 0)
  OBVIOUS
<1>3. PICK g : g = Retag(h, bp, bp + SizeIn(h, bp), SizeIn(h, bp))
  OBVIOUS
<1>4. Shaped(n, g) /\ g.brk = h.brk /\ DOMAIN g.tags = B
  <2>1. SizeIn(h, bp) + 0 = SizeIn(h, bp) /\ 0 \in {0, 1}
    <3>1. Size(m, bp) \in Nat
      BY <1>1, RowFacts
    <3> QED
      BY <1>1, <3>1
  <2> QED
    BY <1>1, <1>2, <1>3, <2>1, RetagInPlaceShape
<1>5. /\ Free(n, bp) /\ Size(n, bp) = Size(m, bp)
      /\ \A b \in B \ {bp} : Untouched(m, n, b)
  <2>1. 0 \in {0, 1}
    OBVIOUS
  <2> QED
    BY <1>1, <1>2, <2>1, RetagInPlace
<1>6. \A a, b \in B : a + Size(n, a) = b /\ Free(n, a) /\ Free(n, b) => a = bp \/ b = bp
  BY <1>1, <1>5 DEF NoAdjacentFree, Untouched, SameBlock
<1>7. LET r == Coalesce(n, bp)
          s == CoalesceIn(g, bp)
      IN  s.heap.brk = h.brk /\ Shaped(r.mem, s.heap)
  BY <1>4, <1>5, <1>6, CoalesceShape
<1>8. Release(m, bp) = Coalesce(n, bp).mem
  BY <1>2 DEF Release, Size
<1>9. ReleaseIn(h, bp) = CoalesceIn(g, bp).heap
  BY <1>3 DEF ReleaseIn
<1>10. PICK C : Good(Release(m, bp), h.brk, C)
  BY <1>1, ReleaseFrees DEF Good
<1> QED
  BY <1>7, <1>8, <1>9, <1>10, ShapeSettles

LEMMA PlaceShape ==
  ASSUME NEW m, NEW h, Settled(m, h), NEW bp \in DOMAIN h.tags, Free(m, bp),
         NEW asize \in Nat, asize % 8 = 0, asize >= 16, asize <= Size(m, bp)
  PROVE  /\ Settled(Place(m, bp, asize), PlaceIn(h, bp, asize))
         /\ PlaceIn(h, bp, asize).brk = h.brk
<1> DEFINE B == DOMAIN h.tags
           s == Size(m, bp)
           d == bp + asize
<1>1. /\ Shaped(m, h) /\ m \in Mem /\ Row(m, h.brk, B) /\ NoAdjacentFree(m, B)
      /\ SizeIn(h, bp) = s /\ \A b \in B : h.tags[b] = m[b - 4]
  BY ShapeReads DEF Settled
<1>2. PICK n : n = Place(m, bp, asize)
  OBVIOUS
<1>3. PICK C : Good(n, h.brk, C)
  <2>1. Good(m, h.brk, B)
    BY <1>1 DEF Good
  <2> QED
    BY <1>2, <2>1, PlaceAllocates
<1>4. /\ h.brk \in Nat /\ h.brk <= mem_max_addr
      /\ \A b \in B : /\ b \in Nat /\ Size(m, b) \in Nat /\ Size(m, b) >= 16 /\ b - 4 \in Words
                      /\ b + Size(m, b) <= h.brk
  BY <1>1, RowFacts
<1>5. bp \in Nat /\ s \in Nat /\ bp + s <= h.brk /\ bp - 4 \in Words
  BY <1>4
<1>6. CASE s - asize >= 16
  <2>1. asize + 16 <= Size(m, bp)
    BY <1>5, <1>6
  <2>2. Halved(m, n, bp, asize)
    BY <1>1, <1>2, <2>1, PlaceHalves
  <2>3. /\ Row(n, h.brk, B \union {d})
        /\ Size(n, bp) = asize /\ ~ Free(n, bp)
        /\ Size(n, d) = s - asize /\ Free(n, d)
        /\ \A b \in B \ {bp} : b # d /\ Untouched(m, n, b)
    BY <1>1, <2>1, <2>2, SplitBlock
  <2>4. n \in Mem
    BY <2>2 DEF Halved
  <2>5. \A b \in B \union {d} : n[b - 4] = Size(n, b) + (IF Free(n, b) THEN 0 ELSE 1)
    <3> HIDE DEF d, B
    <3> QED
      BY <2>3, <2>4, RowFacts
  <2>6. \A b \in B \ {bp} : n[b - 4] = m[b - 4]
    <3> SUFFICES ASSUME NEW b \in B \ {bp}
                 PROVE  n[b - 4] = m[b - 4]
      OBVIOUS
    <3>1. b - 4 \in Words /\ b - 4 <= b - 4 /\ b - 4 < b + Size(m, b) - 4
      BY <1>4
    <3> QED
      BY <2>3, <3>1 DEF Untouched
  <2>7. n[bp - 4] = asize + 1 /\ n[d - 4] = s - asize
    <3>1. n[bp - 4] = asize + 1 /\ n[d - 4] = (s - asize) + 0
      BY <2>3, <2>5
    <3> HIDE DEF s, d
    <3> QED
      BY <1>5, <3>1
  <2> DEFINE tags == [b \in B \union {d} |->
                        IF b = bp THEN asize + 1
                        ELSE IF b = d THEN s - asize ELSE h.tags[b]]
  <2>8. tags = [b \in B \union {d} |-> n[b - 4]]
    <3> HIDE DEF B, s, d
    <3>1. ASSUME NEW b \in B \union {d}
          PROVE  n[b - 4] = IF b = bp THEN asize + 1
                            ELSE IF b = d THEN s - asize ELSE h.tags[b]
      BY <1>1, <2>6, <2>7
    <3> QED
      BY <3>1
  <2>9. PlaceIn(h, bp, asize) = [brk |-> h.brk, tags |-> tags]
    BY <1>1, <1>6 DEF PlaceIn
  <2> HIDE DEF tags, d, B
  <2>10. Shaped(n, PlaceIn(h, bp, asize)) /\ PlaceIn(h, bp, asize).brk = h.brk
    BY <2>3, <2>4, <2>8, <2>9, ShapeFrom
  <2> QED
    BY <1>2, <1>3, <2>10, ShapeSettles
<1>7. CASE ~ (s - asize >= 16)
  <2>1. (s - asize) % WORD = s - asize
    <3>1. First <= bp
      BY <1>1, RowFacts
    <3> HIDE DEF s
    <3> QED
      BY <1>4, <1>5, <3>1, Region DEF s
  <2>2. n = SetTags(m, bp, s, 1)
    BY <1>2, <1>7, <2>1 DEF Place, Size, DSIZE
  <2>3. PlaceIn(h, bp, asize) = Retag(h, bp, bp + SizeIn(h, bp), SizeIn(h, bp) + 1)
    BY <1>1, <1>7 DEF PlaceIn
  <2>4. 1 \in {0, 1}
    OBVIOUS
  <2>5. Shaped(n, PlaceIn(h, bp, asize)) /\ PlaceIn(h, bp, asize).brk = h.brk
    BY <1>1, <2>2, <2>3, <2>4, RetagInPlaceShape
  <2> QED
    BY <1>2, <1>3, <2>5, ShapeSettles
<1> QED
  BY <1>6, <1>7

LEMMA GrowShape ==
  ASSUME NEW m, NEW h, Settled(m, h),
         NEW words \in Nat, words >= 2, mem_max_addr + words * 8 + 8 < WORD
  PROVE  LET r == ExtendHeap(m, h.brk, words)
             g == GrowIn(h, words)
         IN  /\ SbrkFails(h.brk, ExtensionSize(words)) <=> r.bp = NULL
             /\ r.bp # NULL =>
                  r.bp = g.bp /\ r.brk = g.heap.brk /\ Settled(r.mem, g.heap)
<1> DEFINE B == DOMAIN h.tags
           s == ExtensionSize(words)
<1>1. Shaped(m, h) /\ m \in Mem /\ Row(m, h.brk, B) /\ NoAdjacentFree(m, B)
      /\ \A b \in B : h.tags[b] = m[b - 4]
  BY ShapeReads DEF Settled
<1>2. Good(m, h.brk, B)
  BY <1>1 DEF Good
<1>3. PICK r : r = ExtendHeap(m, h.brk, words)
  OBVIOUS
<1>4. /\ h.brk + s > mem_max_addr => r = [mem |-> m, brk |-> h.brk, bp |-> NULL]
      /\ h.brk + s <= mem_max_addr =>
           /\ r.brk = h.brk + s /\ r.bp # NULL
           /\ Grown(m, h.brk, B, r, words * 8)
  BY <1>2, <1>3, ExtendHeapGrows
<1>5. /\ s \in Nat /\ s % 8 = 0 /\ s >= 16 /\ mem_max_addr + s < WORD
  <2>1. words * 8 + 8 < WORD
    BY Region
  <2>2. /\ s \in Nat /\ s % 8 = 0 /\ s >= 16 /\ s <= words * 8 + 8
    BY <2>1, ExtensionIsEven
  <2> HIDE DEF s
  <2> QED
    BY <2>2, Region
<1>6. /\ h.brk \in Nat /\ h.brk <= mem_max_addr
      /\ \A b \in B : b \in Nat /\ Size(m, b) \in Nat /\ Size(m, b) >= 16 /\ b - 4 \in Words
  BY <1>1, RowFacts
<1> HIDE DEF s
<1>7. SbrkFails(h.brk, s) <=> h.brk + s > mem_max_addr
  BY <1>5, <1>6, SbrkIsExact
<1>8. SbrkFails(h.brk, s) <=> r.bp = NULL
  BY <1>4, <1>5, <1>6, <1>7, Region
<1>9. ASSUME ~ SbrkFails(h.brk, s)
      PROVE  r.bp = GrowIn(h, words).bp /\ r.brk = GrowIn(h, words).heap.brk
             /\ Settled(r.mem, GrowIn(h, words).heap)
  <2> DEFINE D == B \union {h.brk}
             end == h.brk + s
             tags == [b \in D |-> IF b = h.brk THEN s ELSE h.tags[b]]
  <2>1. h.brk + s <= mem_max_addr
    BY <1>5, <1>6, <1>7, <1>9, Region
  <2>2. PICK t : LET f == SetTags(m, h.brk, s, 0)
                 IN  t = PUT(f, HDRP(NEXT_BLKP(f, h.brk)), PACK(0, 1))
    OBVIOUS
  <2>3. Extended(m, t, h.brk, s)
    BY <1>1, <1>5, <2>1, <2>2, ExtensionWrites
  <2>4. /\ Row(t, end, D)
        /\ Size(t, h.brk) = s /\ Free(t, h.brk)
        /\ \A b \in B : b < h.brk /\ Untouched(m, t, b)
    BY <1>1, <1>5, <2>1, <2>3, NewLastBlock
  <2>5. t \in Mem
    BY <2>3 DEF Extended
  <2>6. t[h.brk - 4] = s
    <3>1. t[h.brk - 4] = Size(t, h.brk) + (IF Free(t, h.brk) THEN 0 ELSE 1)
      <4> HIDE DEF end, D
      <4>1. \A b \in D : t[b - 4] = Size(t, b) + (IF Free(t, b) THEN 0 ELSE 1)
        BY <2>4, <2>5, RowFacts
      <4>2. h.brk \in D
        BY DEF D
      <4> QED
        BY <4>1, <4>2
    <3> QED
      BY <1>5, <2>4, <3>1
  <2>7. \A b \in B : t[b - 4] = m[b - 4] /\ b # h.brk
    <3> SUFFICES ASSUME NEW b \in B
                 PROVE  t[b - 4] = m[b - 4] /\ b # h.brk
      OBVIOUS
    <3>1. b - 4 \in Words /\ b - 4 <= b - 4 /\ b - 4 < b + Size(m, b) - 4
      BY <1>6
    <3>2. b < h.brk /\ Untouched(m, t, b)
      BY <2>4
    <3> QED
      BY <1>6, <3>1, <3>2 DEF Untouched
  <2>8. tags = [b \in D |-> t[b - 4]]
    <3> HIDE DEF B
    <3> QED
      BY <1>1, <2>6, <2>7
  <2>9. PICK g : g = [brk |-> end, tags |-> tags]
    OBVIOUS
  <2>10. Shaped(t, g) /\ DOMAIN g.tags = D /\ g.brk = end
    <3>1. DOMAIN tags = D
      OBVIOUS
    <3> HIDE DEF D, tags, end
    <3> QED
      BY <2>4, <2>5, <2>8, <2>9, <3>1, ShapeFrom DEF tags
  <2>11. GrowIn(h, words) = CoalesceIn(g, h.brk)
    BY <2>9 DEF GrowIn, s
  <2>12. \A a, b \in D : a + Size(t, a) = b /\ Free(t, a) /\ Free(t, b)
                         => a = h.brk \/ b = h.brk
    BY <1>1, <2>4 DEF NoAdjacentFree, Untouched, SameBlock
  <2>13. h.brk \in D
    OBVIOUS
  <2> HIDE DEF D, end, tags
  <2>14. LET q == Coalesce(t, h.brk)
             u == CoalesceIn(g, h.brk)
         IN  q.bp = u.bp /\ u.heap.brk = g.brk /\ Shaped(q.mem, u.heap)
    BY <2>4, <2>10, <2>12, <2>13, CoalesceShape
  <2>15. r.mem = Coalesce(t, h.brk).mem /\ r.bp = Coalesce(t, h.brk).bp
    BY <1>3, <1>9, <2>2 DEF ExtendHeap, s
  <2>16. r.brk = end /\ Grown(m, h.brk, B, r, words * 8)
    BY <1>4, <2>1 DEF end
  <2>17. PICK C : Good(r.mem, r.brk, C)
    BY <2>16 DEF Grown
  <2> QED
    BY <2>10, <2>11, <2>14, <2>15, <2>16, <2>17, ShapeSettles
<1> QED
  BY <1>3, <1>8, <1>9 DEF s

\* mm_init leaves the same shape, whatever was in the region.
LEMMA InitShape ==
  ASSUME NEW m \in Mem, RequestsDoNotWrap
  PROVE  LET r == InitHeap(m)
         IN  /\ InitHasRoom <=> r.bp # NULL
             /\ r.bp # NULL => r.brk = Fresh.heap.brk /\ Settled(r.mem, Fresh.heap)
<1> DEFINE words == CHUNKSIZE \div DSIZE
<1>1. PICK r : r = InitHeap(m)
  OBVIOUS
<1>2. /\ words \in Nat /\ words >= 2 /\ mem_max_addr + words * 8 + 8 < WORD
      /\ SbrkFails(ResetBrk, 4 * WSIZE) => r = [mem |-> m, brk |-> MEM_START, bp |-> NULL]
      /\ ~ SbrkFails(ResetBrk, 4 * WSIZE)
           => \E f : Good(f, First, {}) /\ r = ExtendHeap(f, First, words)
  BY <1>1, InitFences
<1>3. Fresh.heap = GrowIn([brk |-> First, tags |-> Empty], words).heap
  BY DEF Fresh
<1>4. InitHasRoom <=> /\ ~ SbrkFails(ResetBrk, 4 * WSIZE)
                      /\ ~ SbrkFails(First, ExtensionSize(words))
  BY DEF InitHasRoom
<1> HIDE DEF words
<1>5. CASE SbrkFails(ResetBrk, 4 * WSIZE)
  BY <1>1, <1>2, <1>4, <1>5
<1>6. CASE ~ SbrkFails(ResetBrk, 4 * WSIZE)
  <2>1. PICK f : Good(f, First, {}) /\ r = ExtendHeap(f, First, words)
    BY <1>2, <1>6
  <2>2. PICK h : h = [brk |-> First, tags |-> Empty]
    OBVIOUS
  <2>3. Empty = [b \in {} |-> f[b - 4]] /\ DOMAIN Empty = {}
    BY DEF Empty
  <2>4. Shaped(f, h)
    BY <2>1, <2>2, <2>3, ShapeFrom DEF Good
  <2>5. Settled(f, h) /\ h.brk = First
    BY <2>1, <2>2, <2>3, <2>4 DEF Settled, Good
  <2>6. /\ SbrkFails(First, ExtensionSize(words)) <=> r.bp = NULL
        /\ r.bp # NULL =>
             r.brk = GrowIn(h, words).heap.brk /\ Settled(r.mem, GrowIn(h, words).heap)
    BY <1>2, <2>1, <2>5, GrowShape
  <2> QED
    BY <1>1, <1>3, <1>4, <1>6, <2>2, <2>6
<1> QED
  BY <1>5, <1>6

\* Between two steps the blocks of the shape are the row that the invariant of
\* the allocator speaks of.
LEMMA ShapeIsSound ==
  ASSUME NEW m, NEW h, Settled(m, h), NEW held, NEW B, Sound(m, h.brk, held, B)
  PROVE  B = DOMAIN h.tags
BY RowIsUnique DEF Settled, Shaped, Sound, Good

\* What the client writes into its payload does not show in the shape.
LEMMA WriteShape ==
  ASSUME RequestsDoNotWrap, NEW m, NEW h, Settled(m, h),
         NEW held, NEW B, Sound(m, h.brk, held, B), HeldOK(held, h.brk),
         NEW p \in DOMAIN held, NEW n \in Mem,
         \A a \in Words : a < p \/ a >= p + held[p] => n[a] = m[a]
  PROVE  Settled(n, h)
<1>1. B = DOMAIN h.tags
  BY ShapeIsSound
<1>2. /\ m \in Mem /\ Row(m, h.brk, B) /\ \A b \in B : h.tags[b] = m[b - 4]
      /\ h = [brk |-> h.brk, tags |-> [b \in B |-> m[b - 4]]]
  BY <1>1, ShapeReads DEF Settled, Shaped
<1>3. /\ p \in B /\ p \in Nat /\ held[p] \in Nat /\ held[p] + 8 <= Size(m, p)
  BY SoundFacts
<1>4. Size(m, p) \in Nat
  BY <1>2, <1>3, RowFacts
<1>5. \A a \in Words : a < p \/ a >= p + Size(m, p) - 8 => n[a] = m[a]
  <2> SUFFICES ASSUME NEW a \in Words, a < p \/ a >= p + Size(m, p) - 8
               PROVE  n[a] = m[a]
    OBVIOUS
  <2>1. a \in Int
    BY Region DEF Words
  <2>2. a < p \/ a >= p + held[p]
    BY <1>3, <1>4, <2>1
  <2> QED
    BY <2>2
<1>6. Good(n, h.brk, B) /\ \A b \in B : SameBlock(m, n, b)
  BY <1>3, <1>5, PayloadWrite DEF Sound
<1>7. \A b \in B : n[b - 4] = m[b - 4]
  <2>1. \A b \in B : m[b - 4] = Size(m, b) + (IF Free(m, b) THEN 0 ELSE 1)
    BY <1>2, RowFacts
  <2>2. \A b \in B : n[b - 4] = Size(n, b) + (IF Free(n, b) THEN 0 ELSE 1)
    BY <1>6, RowFacts DEF Good
  <2> QED
    BY <1>6, <2>1, <2>2 DEF SameBlock
<1>8. [b \in B |-> n[b - 4]] = [b \in B |-> m[b - 4]]
  BY <1>7
<1>9. h.tags = [b \in B |-> n[b - 4]]
  BY <1>2, <1>8
<1>10. Shaped(n, h)
  <2>1. PICK brk : brk = h.brk
    OBVIOUS
  <2>2. PICK tags : tags = h.tags
    OBVIOUS
  <2>3. h = [brk |-> brk, tags |-> tags]
    BY <1>2, <2>1, <2>2
  <2> QED
    BY <1>6, <1>9, <2>1, <2>2, <2>3, ShapeFrom DEF Good
<1> QED
  BY <1>6, <1>10, ShapeSettles

-----------------------------------------------------------------------------
(* The calls of the driver on a shape.                                     *)

\* find_fit has found the first block that fits.
LEMMA HitIsFirst ==
  ASSUME RequestsDoNotWrap, IInv, find_fit_hit,
         NEW h, Settled(mem, h), mem_brk = h.brk
  PROVE  /\ FittingIn(h, call.asize) # {}
         /\ call.bp = Min(FittingIn(h, call.asize))
<1> DEFINE S == FittingIn(h, call.asize)
<1>1. pc = "find_fit" /\ pc' = "place" /\ UNCHANGED <<mem, mem_brk, live, call>>
  BY DEF find_fit_hit
<1>2. PICK B \in SUBSET Candidates(mem, mem_brk) :
        Sound(mem, mem_brk, live, B) /\ Searching(mem, mem_brk, call, B)
  BY <1>1 DEF IInv, HeapOK
<1>3. PICK C : Sound(mem, mem_brk, live, C) /\ Found(mem, call, C)
  <2>1. HeapOK'
    BY HitStep DEF IInv
  <2> QED
    BY <1>1, <2>1 DEF HeapOK
<1>4. B = DOMAIN h.tags /\ C = DOMAIN h.tags
  BY <1>2, <1>3, ShapeIsSound
<1>5. \A b \in B : SizeIn(h, b) = Size(mem, b) /\ (FreeIn(h, b) <=> Free(mem, b))
  BY <1>4, ShapeReads DEF Settled
<1>6. call.asize \in Nat
  <2>1. Pending(call, live)
    BY <1>1 DEF IInv, StateOK
  <2> QED
    BY <2>1, Region DEF Pending
<1>7. \A b \in B : b \in Nat /\ Size(mem, b) \in Nat
  BY <1>2, RowFacts DEF Sound, Good
<1>8. S \in SUBSET Nat
  BY <1>4, <1>7 DEF FittingIn
<1>9. call.bp \in S
  BY <1>3, <1>4, <1>5 DEF Found, FittingIn
<1>10. \A b \in S : ~ (b < call.bp)
  BY <1>2, <1>4, <1>5, <1>6, <1>7 DEF Searching, NothingFits, FittingIn
<1> HIDE DEF S
<1>11. Min(S) \in S /\ Min(S) <= call.bp
  BY <1>8, <1>9, MinIsLeast
<1> QED
  BY <1>8, <1>9, <1>10, <1>11 DEF S

\* Nothing fits: the heap grows, if the region has room.
LEMMA MissGrows ==
  ASSUME RequestsDoNotWrap, IInv, find_fit_miss,
         NEW h, Settled(mem, h), mem_brk = h.brk
  PROVE  /\ FittingIn(h, call.asize) = {}
         /\ pc' = "idle" => ~ HasRoom(h, call.asize)
         /\ pc' = "place" =>
              LET g == GrowIn(h, Words_For(call.asize))
              IN  /\ Settled(mem', g.heap) /\ mem_brk' = g.heap.brk
                  /\ call' = [call EXCEPT !.bp = g.bp]
                  /\ HasRoom(h, call.asize)
<1>1. pc = "find_fit" /\ CursorSize = 0
  BY DEF find_fit_miss
<1>2. Pending(call, live)
  BY <1>1 DEF IInv, StateOK
<1>3. PICK B : Sound(mem, mem_brk, live, B) /\ NothingFits(mem, B, call.asize)
  BY <1>1, EpilogueReached
<1>4. B = DOMAIN h.tags
  BY <1>3, ShapeIsSound
<1>5. \A b \in B : SizeIn(h, b) = Size(mem, b) /\ (FreeIn(h, b) <=> Free(mem, b))
  BY <1>4, ShapeReads DEF Settled
<1>6. call.asize \in Nat /\ call.size \in Sizes \ {0} /\ call.asize = AdjustedSize(call.size)
  BY <1>2, Region DEF Pending
<1>7. \A b \in B : Size(mem, b) \in Nat
  BY <1>3, RowFacts DEF Sound, Good
<1>8. FittingIn(h, call.asize) = {}
  BY <1>3, <1>4, <1>5, <1>6, <1>7 DEF NothingFits, FittingIn
<1>9. PICK words : words = Words_For(call.asize)
  OBVIOUS
<1>10. words \in Nat /\ words >= 2 /\ mem_max_addr + words * 8 + 8 < WORD
  BY <1>6, <1>9, ExtensionWords DEF Words_For
<1>11. PICK r : r = ExtendHeap(mem, h.brk, words)
  OBVIOUS
<1>12. /\ SbrkFails(h.brk, ExtensionSize(words)) <=> r.bp = NULL
       /\ r.bp # NULL =>
            /\ r.bp = GrowIn(h, words).bp /\ r.brk = GrowIn(h, words).heap.brk
            /\ Settled(r.mem, GrowIn(h, words).heap)
  BY <1>10, <1>11, GrowShape
<1>13. HasRoom(h, call.asize) <=> ~ SbrkFails(h.brk, ExtensionSize(words))
  BY <1>8, <1>9 DEF HasRoom
<1>14. \/ /\ r.bp # NULL /\ mem' = r.mem /\ mem_brk' = r.brk /\ pc' = "place"
          /\ call' = [call EXCEPT !.bp = r.bp]
       \/ r.bp = NULL /\ pc' = "idle"
  BY <1>9, <1>11 DEF find_fit_miss, Words_For
<1> QED
  BY <1>8, <1>9, <1>12, <1>13, <1>14

\* The block that was found is placed, and after mm_realloc the old one is freed.
LEMMA PlacedShape ==
  ASSUME RequestsDoNotWrap, IInv, place,
         NEW h, Settled(mem, h), mem_brk = h.brk
  PROVE  LET n == PlaceIn(h, call.bp, call.asize)
             g == IF call.old = NULL THEN n ELSE ReleaseIn(n, call.old)
         IN  Settled(mem', g) /\ g.brk = mem_brk
<1> DEFINE newp == call.bp
           old == call.old
           size == call.size
           n == Place(mem, newp, AdjustedSize(size))
           more == With(live, newp, size)
<1>1. pc = "place" /\ mem_brk' = mem_brk
  BY DEF place
<1>2. /\ size \in Sizes \ {0} /\ call.asize = AdjustedSize(size)
      /\ old \in DOMAIN live \union {NULL}
  <2>1. Pending(call, live)
    BY <1>1 DEF IInv, StateOK
  <2> QED
    BY <2>1 DEF Pending
<1>3. \/ old = NULL /\ mem' = n
      \/ old # NULL /\ mem' = Release(Memcpy(n, newp, old, CopySize(n, size, old)), old)
  BY <1>2 DEF place
<1>4. PICK B \in SUBSET Candidates(mem, mem_brk) :
        Sound(mem, mem_brk, live, B) /\ Found(mem, call, B)
  BY <1>1 DEF IInv, HeapOK
<1>5. /\ newp \in B /\ Free(mem, newp) /\ AdjustedSize(size) <= Size(mem, newp)
      /\ HeldOK(live, mem_brk)
  BY <1>2, <1>4 DEF Found, IInv, StateOK
<1>6. B = DOMAIN h.tags
  BY <1>4, ShapeIsSound
<1> HIDE DEF newp, old, size
<1>7. PICK g : g = PlaceIn(h, newp, AdjustedSize(size))
  OBVIOUS
<1>8. Settled(n, g) /\ g.brk = h.brk
  <2>1. PICK asize : asize = AdjustedSize(size)
    OBVIOUS
  <2>2. asize \in Nat /\ asize % 8 = 0 /\ asize >= 16
    BY <1>2, <2>1, RequestIsRounded
  <2> QED
    BY <1>5, <1>6, <1>7, <2>1, <2>2, PlaceShape
<1>9. /\ n \in Mem /\ HeldOK(more, mem_brk) /\ newp \notin DOMAIN live
      /\ \E C \in SUBSET Candidates(n, mem_brk) : Sound(n, mem_brk, more, C)
  BY <1>2, <1>4, <1>5, PlaceSound
<1>10. DOMAIN more = DOMAIN live \union {newp} /\ more[newp] = size
  BY DEF With
<1> HIDE DEF n, more
<1>11. CASE old = NULL
  BY <1>2, <1>3, <1>7, <1>8, <1>11 DEF newp, old, size
<1>12. CASE old # NULL
  <2> DEFINE w == Memcpy(n, newp, old, CopySize(n, size, old))
  <2>1. PICK C \in SUBSET Candidates(n, mem_brk) : Sound(n, mem_brk, more, C)
    BY <1>9
  <2>2. old \in DOMAIN more /\ newp \in DOMAIN more
    BY <1>2, <1>10, <1>12
  <2>3. /\ Row(n, mem_brk, C) /\ newp \in C /\ old \in C /\ size \in Nat
    BY <1>9, <1>10, <2>1, <2>2, SoundFacts
  <2>4. w \in Mem /\ \A a \in Words : a < newp \/ a >= newp + size => w[a] = n[a]
    BY <1>9, <2>3, CopyWrites
  <2> HIDE DEF w
  <2>5. C = DOMAIN g.tags
    BY <1>8, <2>1, ShapeIsSound
  <2>6. Settled(w, g)
    BY <1>8, <1>9, <1>10, <2>1, <2>2, <2>4, WriteShape
  <2>7. Settled(Release(w, old), ReleaseIn(g, old)) /\ ReleaseIn(g, old).brk = g.brk
    BY <2>3, <2>5, <2>6, ReleaseShape
  <2> QED
    BY <1>2, <1>3, <1>7, <1>8, <1>12, <2>7 DEF newp, old, size, w
<1> QED
  BY <1>11, <1>12

-----------------------------------------------------------------------------
(* The history.                                                            *)

\* It is about the operations and the answers up to now, and no later ones.
LEMMA HistoryStays ==
  ASSUME NEW H, NEW n, NEW t, NEW a, History(H, n, t, a), NEW u, NEW b,
         \A j \in 1 .. n : u[j] = t[j] /\ b[j] = a[j]
  PROVE  History(H, n, u, b)
  BY DEF History

\* An operation that is served makes it longer by one.
LEMMA HistoryGrows ==
  ASSUME NEW n \in Nat, NEW H, NEW t, NEW a \in Seq(Int), Len(a) = n, History(H, n, t, a),
         NEW op, t[n + 1] = op, Served(H[n], op), AnswerTo(H[n], op) \in Int
  PROVE  \E G : /\ History(G, n + 1, t, Append(a, AnswerTo(H[n], op)))
                /\ G[n + 1] = After(H[n], op)
<1>1. PICK ans \in Int : ans = AnswerTo(H[n], op)
  OBVIOUS
<1>2. PICK q : q = After(H[n], op)
  OBVIOUS
<1>3. PICK b : b = Append(a, ans)
  OBVIOUS
<1>4. b[n + 1] = ans /\ \A j \in 1 .. n : b[j] = a[j]
  BY <1>1, <1>3, AppendProperties
<1>5. PICK G : G = [k \in 0 .. n + 1 |-> IF k = n + 1 THEN q ELSE H[k]]
  OBVIOUS
<1>6. G[n + 1] = q /\ \A k \in 0 .. n : G[k] = H[k]
  BY <1>5
<1>7. /\ InitHasRoom /\ H[0] = Fresh
      /\ \A j \in 1 .. n : /\ Served(H[j - 1], t[j]) /\ a[j] = AnswerTo(H[j - 1], t[j])
                           /\ H[j] = After(H[j - 1], t[j])
  BY DEF History
<1>8. ASSUME NEW j \in 1 .. n + 1
      PROVE  /\ Served(G[j - 1], t[j]) /\ b[j] = AnswerTo(G[j - 1], t[j])
             /\ G[j] = After(G[j - 1], t[j])
  <2>1. CASE j = n + 1
    <3>1. j - 1 = n /\ G[n] = H[n]
      BY <1>6, <2>1
    <3> QED
      BY <1>1, <1>2, <1>4, <1>6, <2>1, <3>1
  <2>2. CASE j # n + 1
    <3>1. j \in 1 .. n /\ j - 1 \in 0 .. n /\ j \in 0 .. n
      BY <2>2
    <3> QED
      BY <1>4, <1>6, <1>7, <3>1
  <2> QED
    BY <2>1, <2>2
<1>9. G[0] = Fresh
  BY <1>6, <1>7
<1>10. History(G, n + 1, t, b)
  BY <1>7, <1>8, <1>9 DEF History
<1> QED
  BY <1>1, <1>2, <1>3, <1>6, <1>10

\* What the invariant says of a pass that has begun.
LEMMA InHistory ==
  ASSUME RInv, step \in {"next", "called", "fill"}
  PROVE  /\ phase # "done"
         /\ i \in Nat /\ Len(trace) \in Nat /\ i <= Len(trace)
         /\ answers \in Seq(Int) /\ Len(answers) \in Nat /\ i <= Len(answers)
         /\ phase = "valid" => Len(answers) = i
         /\ phase # "valid" => Len(answers) = Len(trace)
         /\ \E H : History(H, Len(answers), trace, answers) /\ Stands(H)
<1>1. phase # "done"
  BY DEF RInv, DInv, Modes
<1>2. \E H : History(H, Len(answers), trace, answers) /\ Stands(H)
  BY DEF RInv, Remembered
<1>3. trace \in Seq(Requests) /\ i \in 0 .. Len(trace)
  BY DEF RInv, DInv, Script
<1>4. /\ answers \in Seq(Int)
      /\ phase = "valid" => Len(answers) = i
      /\ phase # "valid" => Len(answers) = Len(trace)
  BY DEF RInv, Counted
<1>5. Len(trace) \in Nat /\ Len(answers) \in Nat /\ i \in Nat /\ i <= Len(trace)
  BY <1>3, <1>4, LenProperties
<1> QED
  BY <1>1, <1>2, <1>4, <1>5

-----------------------------------------------------------------------------
(* The steps.                                                              *)

\* A pass begins: the shape of an empty heap does not depend on what earlier
\* passes left, so that mm_init succeeds again where it did once.
LEMMA BeginRemembers ==
  ASSUME RequestsDoNotWrap, RInv, begin
  PROVE  Counted' /\ Remembered'
<1>1. /\ step = "init" /\ mm_init
      /\ i' = 0 /\ inuse' = {}
      /\ step' = IF pc' = "idle" THEN "next" ELSE "stop"
      /\ verdict' = IF pc' = "idle" THEN verdict ELSE Failure
      /\ UNCHANGED <<phase, trace, answers>>
  BY DEF begin
<1>2. PICK r : r = InitHeap(mem)
  OBVIOUS
<1>3. /\ mem' = r.mem /\ mem_brk' = r.brk
      /\ pc' = IF r.bp = NULL THEN "down" ELSE "idle"
  BY <1>1, <1>2 DEF mm_init
<1>4. mem \in Mem
  BY DEF RInv, DInv, IInv, StateOK
<1>5. /\ InitHasRoom <=> r.bp # NULL
      /\ r.bp # NULL => r.brk = Fresh.heap.brk /\ Settled(r.mem, Fresh.heap)
  BY <1>2, <1>4, InitShape
<1>6. phase # "valid" => \E H : History(H, Len(answers), trace, answers)
  BY <1>1 DEF RInv, Remembered
<1>7. phase # "valid" => InitHasRoom
  BY <1>6 DEF History
<1>8. /\ answers \in Seq(Int) /\ verdict # "exited"
      /\ phase = "valid" => Len(answers) = 0
      /\ phase # "valid" => Len(answers) = Len(trace)
  BY <1>1 DEF RInv, Counted
<1>9. CASE r.bp = NULL
  <2>1. phase = "valid" /\ pc' = "down" /\ step' = "stop" /\ verdict' = "refused"
    BY <1>1, <1>3, <1>5, <1>7, <1>9 DEF Failure
  <2> QED
    BY <1>1, <1>8, <2>1 DEF Counted, Remembered
<1>10. CASE r.bp # NULL
  <2>1. pc' = "idle" /\ step' = "next" /\ verdict' = verdict
    BY <1>1, <1>3, <1>10
  <2>2. Counted'
    BY <1>1, <1>8, <2>1 DEF Counted
  <2>3. PICK H : History(H, Len(answers), trace, answers)
    <3>1. CASE phase = "valid"
      <4>1. PICK H : H = [k \in {0} |-> Fresh]
        OBVIOUS
      <4>2. H[0] = Fresh /\ 1 .. 0 = {}
        BY <4>1
      <4> QED
        BY <1>5, <1>8, <1>10, <3>1, <4>2 DEF History
    <3>2. CASE phase # "valid"
      BY <1>6, <3>2
    <3> QED
      BY <3>1, <3>2
  <2>4. Now(Fresh)'
    <3>1. Fresh.at = [id \in {} |-> blocks'[id]]
      BY DEF Fresh, Empty
    <3>2. PICK g : g = Fresh
      OBVIOUS
    <3> QED
      BY <1>1, <1>3, <1>5, <1>10, <3>1, <3>2 DEF Now
  <2>5. H[0] = Fresh
    BY <2>3 DEF History
  <2>6. Stands(H)'
    BY <1>1, <2>1, <2>4, <2>5 DEF Stands
  <2> QED
    BY <1>1, <2>2, <2>3, <2>6 DEF Remembered
<1> QED
  BY <1>9, <1>10

\* A call begins: the operation at hand is the next one of the trace.
LEMMA CallRemembers ==
  ASSUME RequestsDoNotWrap, RInv, NEW op \in NextOps, call_allocator(op)
  PROVE  Counted' /\ Remembered'
<1>1. /\ step = "next" /\ step' = "called" /\ trace' = Recorded(op)
      /\ UNCHANGED <<phase, verdict, i, inuse, blocks, answers>>
      /\ op.type \in {"ALLOC", "REALLOC"}
  BY DEF call_allocator
<1>2. /\ op \in Requests
      /\ \A j \in DOMAIN trace' : j <= i => j \in DOMAIN trace /\ trace'[j] = trace[j]
      /\ trace' \in Seq(Requests) /\ i < Len(trace')
  BY <1>1, OperationAtHand DEF RInv, DInv
<1>3. op.size # 0
  BY <1>1, <1>2 DEF Requests
<1>4. pc' = "find_fit" /\ mem' = mem /\ mem_brk' = mem_brk
  BY <1>1, <1>3 DEF call_allocator, mm_malloc, mm_realloc, StartSearch
<1>5. phase # "valid" => trace' = trace
  BY <1>1 DEF Recorded
<1>6. /\ i \in Nat
      /\ phase = "valid" => Len(answers) = i
      /\ \E H : History(H, Len(answers), trace, answers) /\ Stands(H)
  BY <1>1, InHistory
<1>7. PICK H : History(H, Len(answers), trace, answers) /\ Stands(H)
  BY <1>6
<1>8. History(H, Len(answers), trace', answers)
  <2>1. CASE phase = "valid"
    <3>1. \A j \in 1 .. i : trace'[j] = trace[j]
      BY <1>2, <1>6, LenProperties
    <3> QED
      BY <1>6, <1>7, <2>1, <3>1, HistoryStays
  <2>2. CASE phase # "valid"
    BY <1>5, <1>7, <2>2
  <2> QED
    BY <2>1, <2>2
<1>9. Stands(H)'
  BY <1>1, <1>4, <1>7 DEF Stands, Now
<1>10. Counted'
  BY <1>1, <1>4, <1>5 DEF RInv, Counted
<1> QED
  BY <1>1, <1>8, <1>9, <1>10 DEF Remembered

\* The search goes on, or ends on the block that the history says.
LEMMA SearchRemembers ==
  ASSUME RequestsDoNotWrap, RInv, search
  PROVE  Counted' /\ Remembered'
<1>1. /\ step = "called" /\ pc = "find_fit" /\ UNCHANGED driver
      /\ find_fit_next \/ find_fit_hit \/ (find_fit_miss /\ pc' = "place")
  BY DEF search, find_fit_next, find_fit_hit, find_fit_miss
<1>2. UNCHANGED <<phase, step, verdict, trace, i, inuse, blocks, answers>>
  BY <1>1 DEF driver
<1>3. PICK H : History(H, Len(answers), trace, answers) /\ Stands(H)
  BY <1>1, InHistory
<1>4. PICK g : g = H[i]
  OBVIOUS
<1>5. /\ Settled(mem, g.heap) /\ mem_brk = g.heap.brk
      /\ g.at = [id \in inuse |-> blocks[id]]
  BY <1>1, <1>3, <1>4 DEF Stands, Now
<1>6. pc' \in {"find_fit", "place"}
  BY <1>1 DEF find_fit_next, find_fit_hit
<1>7. Counted'
  BY <1>1, <1>2, <1>6 DEF RInv, Counted
<1>8. \/ pc' = "find_fit" /\ Now(g)'
      \/ pc' = "place" /\ NowChosen(g)'
  <2>1. CASE find_fit_next
    BY <1>2, <1>5, <2>1 DEF find_fit_next, Now
  <2>2. CASE find_fit_hit
    <3>1. pc' = "place" /\ UNCHANGED <<mem, mem_brk, call>>
      BY <2>2 DEF find_fit_hit
    <3>2. /\ FittingIn(g.heap, call.asize) # {}
          /\ call.bp = Min(FittingIn(g.heap, call.asize))
      BY <1>5, <2>2, HitIsFirst DEF RInv, DInv
    <3>3. ChosenIn(g.heap, call.asize) = [bp |-> call.bp, heap |-> g.heap]
      BY <3>2 DEF ChosenIn
    <3> QED
      BY <1>2, <1>5, <3>1, <3>2, <3>3 DEF NowChosen, HasRoom
  <2>3. CASE find_fit_miss /\ pc' = "place"
    <3>1. PICK c : c = GrowIn(g.heap, Words_For(call.asize))
      OBVIOUS
    <3>2. /\ FittingIn(g.heap, call.asize) = {}
          /\ Settled(mem', c.heap) /\ mem_brk' = c.heap.brk
          /\ call' = [call EXCEPT !.bp = c.bp]
          /\ HasRoom(g.heap, call.asize)
      BY <1>5, <2>3, <3>1, MissGrows DEF RInv, DInv
    <3>3. ChosenIn(g.heap, call.asize) = c
      BY <3>1, <3>2 DEF ChosenIn
    <3>4. call'.asize = call.asize /\ call'.bp = c.bp
      <4>1. Pending(call, live)
        BY <1>1 DEF RInv, DInv, IInv, StateOK
      <4> QED
        BY <3>2, <4>1 DEF Pending
    <3> QED
      BY <1>2, <1>5, <2>3, <3>2, <3>3, <3>4 DEF NowChosen
  <2> QED
    BY <1>1, <2>1, <2>2, <2>3
<1>9. Stands(H)'
  BY <1>1, <1>2, <1>4, <1>8 DEF Stands
<1> QED
  BY <1>2, <1>3, <1>7, <1>9 DEF Remembered

\* The operation at hand and the request of the call are the same.
LEMMA CallIsOp ==
  ASSUME RInv, step = "called", pc \in {"find_fit", "place"}
  PROVE  /\ call.size = Op.size /\ call.asize = AdjustedSize(Op.size)
         /\ Op.type \in {"ALLOC", "REALLOC"}
         /\ Op.type = "ALLOC" => call.old = NULL
         /\ Op.type = "REALLOC" => /\ Op.index \in inuse
                                   /\ call.old = blocks[Op.index] /\ call.old # NULL
<1>1. /\ call.size = Op.size
      /\ call.old = IF Op.type = "ALLOC" THEN NULL ELSE blocks[Op.index]
  BY DEF RInv, DInv, Tied
<1>2. Op.type \in {"ALLOC", "REALLOC"} /\ MakesSense(Op, inuse)
  BY OpFacts DEF RInv
<1>3. call.asize = AdjustedSize(call.size)
  BY DEF RInv, DInv, IInv, StateOK, Pending
<1>4. NULL \notin DOMAIN live
  BY Region DEF RInv, DInv, IInv, StateOK, HeldOK, NULL
<1>5. Op.type = "REALLOC" => Op.index \in inuse /\ blocks[Op.index] \in DOMAIN live
  BY <1>2, InUseIsHeld DEF RInv, DInv, MakesSense
<1> QED
  BY <1>1, <1>2, <1>3, <1>4, <1>5

\* Only the correctness pass can run out of memory: in a later one the operation
\* was served before, on a heap of the same shape.
LEMMA FailedRemembers ==
  ASSUME RequestsDoNotWrap, RInv, failed
  PROVE  Counted' /\ Remembered'
<1>1. /\ step = "called" /\ step' = "stop" /\ pc = "find_fit" /\ pc' = "idle"
      /\ find_fit_miss /\ verdict' = Failure
      /\ UNCHANGED <<phase, trace, i, answers>>
  BY DEF failed, find_fit_miss
<1>2. PICK H : History(H, Len(answers), trace, answers) /\ Stands(H)
  BY <1>1, InHistory
<1>3. Settled(mem, H[i].heap) /\ mem_brk = H[i].heap.brk
  BY <1>1, <1>2 DEF Stands, Now
<1>4. ~ HasRoom(H[i].heap, AdjustedSize(Op.size))
  <2>1. call.asize = AdjustedSize(Op.size)
    BY <1>1, CallIsOp
  <2> QED
    BY <1>1, <1>3, <2>1, MissGrows DEF RInv, DInv
<1>5. phase = "valid"
  <2> SUFFICES ASSUME phase # "valid"
               PROVE  FALSE
    OBVIOUS
  <2>1. i \in Nat /\ i < Len(trace) /\ Len(trace) \in Nat /\ Op.type # "FREE"
    BY <1>1, OpFacts DEF RInv
  <2>2. Len(answers) = Len(trace)
    BY <1>1, InHistory
  <2>3. i + 1 \in 1 .. Len(answers) /\ (i + 1) - 1 = i
    BY <2>1, <2>2
  <2>4. Served(H[i], trace[i + 1])
    BY <1>2, <2>3 DEF History
  <2> QED
    BY <1>4, <2>1, <2>4 DEF Served, Op
<1> QED
  BY <1>1, <1>5 DEF RInv, Counted, Remembered, Failure

\* An allocation returns with the answer that the history says.
LEMMA PlacedAsRemembered ==
  ASSUME RequestsDoNotWrap, RInv, step = "called", place,
         NEW g, NowChosen(g), NEW op, op = Op, NEW q, q = After(g, op),
         blocks' = Extend(blocks, op.index, call.bp),
         inuse' = inuse \union {op.index}
  PROVE  Served(g, op) /\ AnswerTo(g, op) = call.bp /\ Now(q)'
<1>1. pc = "place"
  BY DEF place
<1>2. /\ call.asize = AdjustedSize(op.size) /\ op.type \in {"ALLOC", "REALLOC"}
      /\ op.type = "ALLOC" => call.old = NULL
      /\ op.type = "REALLOC" =>
           op.index \in inuse /\ call.old = blocks[op.index] /\ call.old # NULL
  BY <1>1, CallIsOp
<1>3. PICK asize : asize = AdjustedSize(op.size)
  OBVIOUS
<1>4. PICK c : c = ChosenIn(g.heap, asize)
  OBVIOUS
<1>5. /\ Settled(mem, c.heap) /\ mem_brk = c.heap.brk /\ call.bp = c.bp
      /\ g.at = [id \in inuse |-> blocks[id]] /\ HasRoom(g.heap, asize)
  BY <1>2, <1>3, <1>4 DEF NowChosen
<1>6. PICK n : n = PlaceIn(c.heap, c.bp, asize)
  OBVIOUS
<1>7. PICK f : f = IF op.type = "ALLOC" THEN n ELSE ReleaseIn(n, g.at[op.index])
  OBVIOUS
<1>8. f = IF call.old = NULL THEN n ELSE ReleaseIn(n, call.old)
  BY <1>2, <1>5, <1>7
<1>9. Settled(mem', f) /\ f.brk = mem_brk
  BY <1>2, <1>3, <1>5, <1>6, <1>8, PlacedShape DEF RInv, DInv
<1>10. mem_brk' = mem_brk
  BY DEF place
<1>11. q = [heap |-> f, at |-> Extend(g.at, op.index, c.bp)]
  BY <1>2, <1>3, <1>4, <1>6, <1>7 DEF After
<1>12. Extend(g.at, op.index, c.bp) = [id \in inuse' |-> blocks'[id]]
  <2>1. inuse \subseteq DOMAIN blocks
    BY DEF RInv, DInv, Tied
  <2>2. DOMAIN g.at = inuse /\ \A id \in inuse : g.at[id] = blocks[id]
    BY <1>5
  <2>3. \A id \in inuse' : blocks'[id] = IF id = op.index THEN c.bp ELSE g.at[id]
    BY <1>5, <2>1, <2>2 DEF Extend
  <2>4. Extend(g.at, op.index, c.bp) = [id \in inuse' |-> IF id = op.index THEN c.bp ELSE g.at[id]]
    BY <2>2 DEF Extend
  <2> QED
    BY <2>3, <2>4
<1>13. Now(q)'
  BY <1>9, <1>10, <1>11, <1>12 DEF Now
<1>14. Served(g, op)
  BY <1>3, <1>5 DEF Served
<1>15. AnswerTo(g, op) = call.bp
  BY <1>2, <1>3, <1>4, <1>5 DEF AnswerTo
<1> QED
  BY <1>13, <1>14, <1>15

LEMMA ReturnedRemembers ==
  ASSUME RequestsDoNotWrap, PatternsFit, RInv, returned
  PROVE  Counted' /\ Remembered'
<1>1. /\ step = "called" /\ place /\ phase \in {"valid", "util", "speed"}
      /\ pc = "place" /\ pc' = "idle"
      /\ UNCHANGED <<phase, trace, repeat, answers>>
  BY DEF returned, place
<1>2. /\ verdict' = verdict
      /\ blocks' = Extend(blocks, Op.index, call.bp) /\ inuse' = inuse \union {Op.index}
      /\ \/ phase = "valid" /\ step' = "fill" /\ i' = i
         \/ phase # "valid" /\ step' = "next" /\ i' = i + 1
  <2>1. CASE phase = "valid" /\ check_payload(call.bp) /\ UNCHANGED i
    <3>1. step' = "fill" /\ Remember(call.bp) /\ verdict' = verdict
      BY <1>1, <2>1, CheckPasses DEF RInv
    <3> QED
      BY <2>1, <3>1 DEF Remember
  <2>2. CASE phase # "valid"
    BY <1>1, <2>2 DEF returned, Remember
  <2> QED
    BY <1>1, <2>1, <2>2 DEF returned
<1>3. PICK H : History(H, Len(answers), trace, answers) /\ Stands(H)
  BY <1>1, InHistory
<1>4. PICK op : op = Op
  OBVIOUS
<1>5. PICK g : g = H[i]
  OBVIOUS
<1>6. PICK q : q = After(g, op)
  OBVIOUS
<1>7. Served(g, op) /\ AnswerTo(g, op) = call.bp /\ Now(q)'
  <2>1. NowChosen(g)
    BY <1>1, <1>3, <1>5 DEF Stands
  <2> QED
    BY <1>1, <1>2, <1>4, <1>6, <2>1, PlacedAsRemembered
<1>8. i \in Nat /\ i < Len(trace) /\ Len(trace) \in Nat
  BY <1>1, OpFacts DEF RInv
<1>9. CASE phase = "valid"
  <2>1. Op' = op
    BY <1>1, <1>2, <1>4, <1>9 DEF Op
  <2>2. blocks'[op.index] = call.bp
    BY <1>2, <1>4 DEF Extend
  <2>3. Stands(H)'
    BY <1>2, <1>5, <1>6, <1>7, <1>9, <2>1, <2>2 DEF Stands
  <2>4. Counted'
    BY <1>1, <1>2, <1>9 DEF RInv, Counted
  <2> QED
    BY <1>1, <1>3, <2>3, <2>4 DEF Remembered
<1>10. CASE phase # "valid"
  <2>1. Len(answers) = Len(trace)
    BY <1>1, <1>10, InHistory
  <2>2. i + 1 \in 1 .. Len(answers) /\ (i + 1) - 1 = i
    BY <1>8, <2>1
  <2>3. H[i + 1] = q
    BY <1>3, <1>4, <1>5, <1>6, <2>2 DEF History, Op
  <2>4. Stands(H)'
    BY <1>2, <1>7, <1>10, <2>3 DEF Stands
  <2>5. Counted'
    BY <1>1, <1>2, <1>10 DEF RInv, Counted
  <2> QED
    BY <1>1, <1>3, <2>4, <2>5 DEF Remembered
<1> QED
  BY <1>9, <1>10

\* The memset that ends an operation of the correctness pass does not change the
\* shape, and the operation joins the history.
LEMMA FillRemembers ==
  ASSUME RequestsDoNotWrap, PatternsFit, RInv, fill
  PROVE  Counted' /\ Remembered'
<1> DEFINE id == Op.index
           p == blocks[id]
<1>1. /\ step = "fill" /\ step' = "next" /\ i' = i + 1 /\ phase = "valid"
      /\ pc = "idle" /\ pc' = "idle" /\ mem_brk' = mem_brk
      /\ mem' = Memset(mem, p, live[p], Checks!Pattern(id))
      /\ write(p, Checks!Pattern(id))
      /\ answers' = Append(answers, p)
      /\ UNCHANGED <<phase, verdict, trace, inuse, blocks>>
  BY DEF fill, write, RInv, DInv, Modes
<1>2. PICK H : History(H, Len(answers), trace, answers) /\ Stands(H)
  BY <1>1, InHistory
<1>3. PICK op : op = Op
  OBVIOUS
<1>4. PICK q : q = After(H[i], op)
  OBVIOUS
<1>5. Served(H[i], op) /\ Now(q) /\ p = AnswerTo(H[i], op)
  BY <1>1, <1>2, <1>3, <1>4 DEF Stands
<1>6. id \in inuse /\ id \in Ids
  <2>1. /\ inuse = UsedAt(trace, i) \union {id}
        /\ i < Len(trace) /\ i \in 0 .. Len(trace) /\ trace \in Seq(Requests)
    BY <1>1 DEF RInv, DInv, Script
  <2>2. i + 1 \in 1 .. Len(trace)
    BY <2>1, LenProperties
  <2>3. Op \in Requests
    BY <2>1, <2>2, ElementOfSeq DEF Op
  <2> QED
    BY <2>1, <2>3 DEF Requests
<1>7. p \in DOMAIN live /\ Checks!Pattern(id) \in Tags
  BY <1>1, <1>6, InUseIsHeld DEF RInv, DInv, PatternsFit
<1>8. HeldOK(live, mem_brk)
  BY <1>1, SoundNow DEF RInv, DInv
<1>9. PICK B : Sound(mem, mem_brk, live, B)
  BY <1>1, SoundNow DEF RInv, DInv
<1>10. p \in Nat /\ live[p] \in Nat
  BY <1>7, <1>8, <1>9, SoundFacts
<1> HIDE DEF p, id
<1>11. mem' \in Mem /\ \A a \in Words : a < p \/ a >= p + live[p] => mem'[a] = mem[a]
  <2>1. mem' \in Mem
    <3>1. IInv'
      BY <1>1, <1>7, WriteStep DEF RInv, DInv
    <3> QED
      BY <3>1 DEF IInv, StateOK
  <2>2. \A a \in Words : a \in Int
    BY Region DEF Words
  <2> QED
    BY <1>1, <1>10, <2>1, <2>2 DEF Memset
<1>12. Settled(mem', q.heap)
  <2>1. Settled(mem, q.heap) /\ mem_brk = q.heap.brk
    BY <1>5 DEF Now
  <2> QED
    BY <1>7, <1>8, <1>9, <1>11, <2>1, WriteShape
<1>13. Now(q)'
  BY <1>1, <1>5, <1>12 DEF Now
<1>14. answers \in Seq(Int) /\ Len(answers) = i /\ i \in Nat /\ Len(trace) \in Nat
  BY <1>1, InHistory
<1>15. PICK G : History(G, i + 1, trace, Append(answers, p)) /\ G[i + 1] = q
  <2>1. p \in Int /\ trace[i + 1] = op
    BY <1>3, <1>10 DEF Op
  <2> QED
    BY <1>2, <1>4, <1>5, <1>14, <2>1, HistoryGrows
<1>16. answers' \in Seq(Int) /\ Len(answers') = i + 1
  <2>1. p \in Int
    BY <1>10
  <2> QED
    BY <1>1, <1>14, <2>1, AppendProperties
<1>17. Stands(G)'
  BY <1>1, <1>13, <1>15 DEF Stands
<1>18. Counted'
  BY <1>1, <1>16 DEF RInv, Counted
<1> QED
  BY <1>1, <1>15, <1>16, <1>17, <1>18 DEF Remembered

LEMMA FreeRemembers ==
  ASSUME RequestsDoNotWrap, RInv, NEW op \in NextOps, free(op)
  PROVE  Counted' /\ Remembered'
<1> DEFINE id == op.index
           p == blocks[id]
<1>1. /\ step = "next" /\ step' = "next" /\ op.type = "FREE" /\ mm_free(p)
      /\ trace' = Recorded(op) /\ inuse' = inuse \ {id} /\ i' = i + 1
      /\ answers' = IF phase = "valid" THEN Append(answers, NULL) ELSE answers
      /\ UNCHANGED <<phase, verdict, blocks>>
  BY DEF free
<1>2. /\ pc = "idle" /\ pc' = "idle" /\ mem' = Release(mem, p) /\ mem_brk' = mem_brk
  BY <1>1 DEF mm_free
<1>3. /\ op \in Requests /\ MakesSense(op, inuse)
      /\ \A j \in DOMAIN trace' : j <= i => j \in DOMAIN trace /\ trace'[j] = trace[j]
      /\ trace' \in Seq(Requests) /\ i < Len(trace') /\ trace'[i + 1] = op
      /\ phase = "valid" => i + 1 = Len(trace')
  BY <1>1, OperationAtHand DEF RInv, DInv
<1>4. /\ i \in Nat /\ answers \in Seq(Int)
      /\ phase = "valid" => Len(answers) = i
      /\ phase # "valid" => Len(answers) = Len(trace) /\ trace' = trace
      /\ \E H : History(H, Len(answers), trace, answers) /\ Stands(H)
  BY <1>1, InHistory DEF Recorded
<1>5. PICK H : History(H, Len(answers), trace, answers) /\ Stands(H)
  BY <1>4
<1>6. PICK g : g = H[i]
  OBVIOUS
<1>7. PICK q : q = After(g, op)
  OBVIOUS
<1>8. /\ Settled(mem, g.heap) /\ mem_brk = g.heap.brk
      /\ g.at = [x \in inuse |-> blocks[x]]
  BY <1>1, <1>5, <1>6 DEF Stands, Now
<1>9. id \in inuse /\ p \in DOMAIN live
  BY <1>1, <1>3, InUseIsHeld DEF RInv, DInv, MakesSense
<1>10. p \in DOMAIN g.heap.tags
  <2>1. HeldOK(live, mem_brk)
    BY <1>2, SoundNow DEF RInv, DInv
  <2>2. PICK B : Sound(mem, mem_brk, live, B)
    BY <1>2, SoundNow DEF RInv, DInv
  <2>3. p \in B
    BY <1>9, <2>1, <2>2, SoundFacts
  <2> QED
    BY <1>8, <2>2, <2>3, ShapeIsSound
<1>11. /\ Settled(Release(mem, p), ReleaseIn(g.heap, p))
       /\ ReleaseIn(g.heap, p).brk = g.heap.brk
  BY <1>8, <1>10, ReleaseShape
<1>12. Now(q)'
  <2>1. g.at[id] = p /\ DOMAIN g.at = inuse
    BY <1>8, <1>9
  <2>2. [x \in DOMAIN g.at \ {id} |-> g.at[x]] = [x \in inuse' |-> blocks'[x]]
    BY <1>1, <1>8, <2>1
  <2>3. q.heap = ReleaseIn(g.heap, p) /\ q.at = [x \in DOMAIN g.at \ {id} |-> g.at[x]]
    BY <1>1, <1>7, <2>1 DEF After
  <2> HIDE DEF p, id
  <2> QED
    BY <1>2, <1>8, <1>11, <2>2, <2>3 DEF Now
<1> HIDE DEF p, id
<1>13. CASE phase = "valid"
  <2>1. History(H, i, trace', answers)
    <3>1. \A j \in 1 .. i : trace'[j] = trace[j]
      BY <1>3, <1>4, LenProperties
    <3> QED
      BY <1>4, <1>5, <1>13, <3>1, HistoryStays
  <2>2. Served(g, op) /\ AnswerTo(g, op) = NULL /\ NULL \in Int
    BY <1>1 DEF Served, AnswerTo, NULL
  <2>3. PICK G : History(G, i + 1, trace', Append(answers, NULL)) /\ G[i + 1] = q
    BY <1>3, <1>4, <1>6, <1>7, <1>13, <2>1, <2>2, HistoryGrows
  <2>4. answers' = Append(answers, NULL) /\ answers' \in Seq(Int) /\ Len(answers') = i + 1
    BY <1>1, <1>4, <1>13, <2>2, AppendProperties
  <2>5. Stands(G)'
    BY <1>1, <1>12, <2>3 DEF Stands
  <2>6. Counted'
    BY <1>1, <1>2, <1>13, <2>4 DEF RInv, Counted
  <2> QED
    BY <1>1, <2>3, <2>4, <2>5, <2>6 DEF Remembered
<1>14. CASE phase # "valid"
  <2>1. i + 1 \in 1 .. Len(answers) /\ (i + 1) - 1 = i /\ trace[i + 1] = op
    BY <1>3, <1>4, <1>14, LenProperties
  <2>2. H[i + 1] = q
    BY <1>5, <1>6, <1>7, <2>1 DEF History
  <2>3. Stands(H)'
    BY <1>1, <1>12, <2>2 DEF Stands
  <2>4. Counted'
    BY <1>1, <1>2, <1>4, <1>14 DEF RInv, Counted
  <2> QED
    BY <1>1, <1>4, <1>5, <1>14, <2>3, <2>4 DEF Remembered
<1> QED
  BY <1>13, <1>14

\* The next pass starts from the history of the whole trace.
LEMMA EndRemembers ==
  ASSUME RInv, end_of_pass
  PROVE  Counted' /\ Remembered'
<1>1. /\ step = "next" /\ step' \in {"init", "stop"} /\ phase' # "valid"
      /\ UNCHANGED <<verdict, trace, answers, vars>>
  BY DEF end_of_pass
<1>2. pc' = pc
  BY <1>1 DEF vars
<1>3. phase = "valid" => Len(answers) = i /\ i = Len(trace)
  BY <1>1, InHistory DEF RInv, DInv, Script
<1>4. PICK H : History(H, Len(answers), trace, answers) /\ Stands(H)
  BY <1>1, InHistory
<1>5. Stands(H)'
  BY <1>1 DEF Stands
<1>6. Counted'
  BY <1>1, <1>2, <1>3 DEF RInv, Counted
<1> QED
  BY <1>1, <1>4, <1>5, <1>6 DEF Remembered

LEMMA ReplayStep ==
  ASSUME RequestsDoNotWrap, PatternsFit, RInv, [DNext]_<<vars, driver>>
  PROVE  RInv'
<1>1. DInv'
  BY DriverStep DEF RInv
<1>2. CASE begin
  BY <1>1, <1>2, BeginRemembers DEF RInv
<1>3. ASSUME NEW op \in NextOps, call_allocator(op) \/ free(op)
      PROVE  RInv'
  BY <1>1, <1>3, CallRemembers, FreeRemembers DEF RInv
<1>4. CASE search \/ failed
  BY <1>1, <1>4, SearchRemembers, FailedRemembers DEF RInv
<1>5. CASE returned
  BY <1>1, <1>5, ReturnedRemembers DEF RInv
<1>6. CASE fill
  BY <1>1, <1>6, FillRemembers DEF RInv
<1>7. CASE end_of_pass
  BY <1>1, <1>7, EndRemembers DEF RInv
<1>8. CASE UNCHANGED <<vars, driver>>
  <2>1. UNCHANGED <<mem, mem_brk, pc, call, phase, step, verdict, trace, i, inuse, blocks,
                    answers>>
    BY <1>8 DEF vars, driver
  <2>2. \A g : (Now(g)' <=> Now(g)) /\ (NowChosen(g)' <=> NowChosen(g))
    BY <2>1 DEF Now, NowChosen
  <2>3. Op' = Op
    BY <2>1 DEF Op
  <2>4. \A H : Stands(H)' <=> Stands(H)
    BY <2>1, <2>2, <2>3 DEF Stands
  <2>5. Counted' /\ Remembered'
    BY <2>1, <2>4 DEF RInv, Counted, Remembered
  <2> QED
    BY <1>1, <2>5 DEF RInv
<1> QED
  BY <1>2, <1>3, <1>4, <1>5, <1>6, <1>7, <1>8 DEF DNext

LEMMA ReplayInit == DInit => RInv
<1> SUFFICES ASSUME DInit
             PROVE  RInv
  OBVIOUS
<1>1. /\ phase = "valid" /\ step = "init" /\ verdict = "ok" /\ answers = << >>
      /\ pc = "down"
  BY DEF DInit, Init
<1>2. DInv
  BY DriverInit
<1> QED
  BY <1>1, <1>2 DEF RInv, Counted, Remembered

-----------------------------------------------------------------------------

\* From the first mm_init on, the driver has a history: the shapes that the heap
\* took in the correctness pass, through which every later pass goes again
\* (mdriver.c:291-308, 577-830).
THEOREM ReplayInvariantHolds ==
  ASSUME RequestsDoNotWrap, PatternsFit
  PROVE  DSpec => []RInv
<1>1. RInv /\ [DNext]_<<vars, driver>> => RInv'
  BY ReplayStep
<1> QED
  BY <1>1, ReplayInit, PTL DEF DSpec

\* In the utilization pass and in every run of the speed pass the allocator
\* answers each operation as it did in the correctness pass (mdriver.c:291-308).
THEOREM ReplaysAgreeHolds ==
  ASSUME RequestsDoNotWrap, PatternsFit
  PROVE  DSpec => []ReplaysAgree
<1>1. RInv => ReplaysAgree
  <2> SUFFICES ASSUME RInv, phase # "valid", pc = "place"
               PROVE  call.bp = answers[i + 1]
    BY DEF ReplaysAgree
  <2>1. step = "called"
    BY DEF RInv, Counted
  <2>2. PICK H : History(H, Len(answers), trace, answers) /\ Stands(H)
    BY <2>1, InHistory
  <2>3. i + 1 \in 1 .. Len(answers) /\ (i + 1) - 1 = i
    BY <2>1, InHistory, OpFacts DEF RInv
  <2>4. answers[i + 1] = AnswerTo(H[i], Op)
    BY <2>2, <2>3 DEF History, Op
  <2>5. call.bp = ChosenIn(H[i].heap, AdjustedSize(Op.size)).bp
    BY <2>1, <2>2, CallIsOp DEF Stands, NowChosen
  <2>6. Op.type # "FREE"
    BY <2>1, OpFacts DEF RInv
  <2> QED
    BY <2>4, <2>5, <2>6 DEF AnswerTo
<1> QED
  BY <1>1, ReplayInvariantHolds, PTL

\* The correctness pass reports nothing but memory running out, and no later
\* pass ends the program: what was allocated once is allocated again
\* (mdriver.c:577-685, 711, 721, 743, 794, 804, 813).
THEOREM OnlyMemoryRunsOutHolds ==
  ASSUME RequestsDoNotWrap, PatternsFit
  PROVE  DSpec => []OnlyMemoryRunsOut
<1>1. RInv => OnlyMemoryRunsOut
  BY DEF RInv, DInv, Modes, Counted, OnlyMemoryRunsOut
<1> QED
  BY <1>1, ReplayInvariantHolds, PTL

=============================================================================

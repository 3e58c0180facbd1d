-------------------------- MODULE EvalValidProofs --------------------------
(***************************************************************************)
(* Theorems about the correctness pass, for every region, every set of ids *)
(* and of sizes, and traces of any length: what the range list can let     *)
(* through under any allocator, that it records what the trace holds, and  *)
(* that an allocator that keeps its promise is not reported.               *)
(***************************************************************************)
EXTENDS EvalValid, ListLemmas, FiniteSetTheorems

Records(end) == [lo : Lo .. end - 1, hi : Lo .. end - 1]

\* Whatever the region, its bounds are numbers.
LEMMA Bounds ==
  /\ Lo \in Nat /\ Hi \in Nat /\ Lo <= Hi /\ Lo > 0 /\ Lo % 8 = 0
  /\ CELL \in {4, 8}
  /\ Tops \subseteq Lo .. Hi /\ Ids \subseteq Nat /\ Sizes \subseteq Nat
  /\ Junk \subseteq 0 .. 255 /\ NumTraces \in Nat
  BY EvalAssumption, LoAssumption

-----------------------------------------------------------------------------
(* The range list.                                                         *)

Proper(list) == \A i \in DOMAIN list : list[i].lo <= list[i].hi

\* r came after p, and both are in the list.
Beyond(r, p) ==
  \/ r.hi < p.lo \/ p.hi < r.lo
  \/ r.lo < p.lo /\ p.hi < r.hi

Ordered(list) == \A i, j \in DOMAIN list : i < j => Beyond(list[i], list[j])

\* remove_range leaves the list alone when no record begins at lo, and takes one
\* that does out of it otherwise.
LEMMA RemoveRange ==
  ASSUME NEW R, NEW list \in Seq(R), NEW lo
  PROVE  \/ /\ remove_range(list, lo) = list
            /\ \A i \in DOMAIN list : list[i].lo # lo
         \/ \E k \in DOMAIN list :
              list[k].lo = lo /\ remove_range(list, lo) = RemoveAt(list, k)
<1> DEFINE I == { i \in 1 .. Len(list) : list[i].lo = lo }
<1>1. DOMAIN list = 1 .. Len(list) /\ Len(list) \in Nat
  BY LenProperties
<1>2. SelectInSeq(list, LAMBDA r : r.lo = lo) = IF I # {} THEN Min(I) ELSE 0
  BY DEF SelectInSeq
<1>3. CASE I = {}
  BY <1>1, <1>2, <1>3 DEF remove_range
<1>4. CASE I # {}
  <2>1. Min(I) \in I
    <3>1. I \in SUBSET Nat
      BY <1>1
    <3> HIDE DEF I
    <3> QED
      BY <1>4, <3>1, MinIsLeast
  <2>2. Min(I) \in DOMAIN list /\ list[Min(I)].lo = lo /\ Min(I) # 0
    BY <1>1, <2>1
  <2>3. remove_range(list, lo) = RemoveAt(list, Min(I))
    BY <1>2, <1>4, <2>2 DEF remove_range
  <2> QED
    BY <2>2, <2>3
<1> QED
  BY <1>3, <1>4

\* What is left when one record is taken out is in order if the list was.
LEMMA RemovalKeepsOrder ==
  ASSUME NEW end \in Int, NEW list \in Seq(Records(end)), NEW lo,
         Proper(list), Ordered(list)
  PROVE  /\ remove_range(list, lo) \in Seq(Records(end))
         /\ Proper(remove_range(list, lo)) /\ Ordered(remove_range(list, lo))
<1>1. CASE remove_range(list, lo) = list
  BY <1>1
<1>2. CASE \E k \in DOMAIN list : remove_range(list, lo) = RemoveAt(list, k)
  <2>1. PICK k \in DOMAIN list : remove_range(list, lo) = RemoveAt(list, k)
    BY <1>2
  <2>2. PICK out : out = remove_range(list, lo)
    OBVIOUS
  <2>3. /\ out \in Seq(Records(end)) /\ Len(out) = Len(list) - 1
        /\ \A j \in 1 .. Len(list) - 1 : out[j] = list[Skip(k, j)]
    BY <2>1, <2>2, RemoveAtParts
  <2>4. DOMAIN out = 1 .. Len(list) - 1 /\ DOMAIN list = 1 .. Len(list) /\ Len(list) \in Nat
    BY <2>3, LenProperties
  <2>5. \A j \in DOMAIN out : Skip(k, j) \in DOMAIN list
    BY <2>4 DEF Skip
  <2>6. \A i, j \in DOMAIN out : i < j => Skip(k, i) < Skip(k, j)
    BY <2>4 DEF Skip
  <2>7. Proper(out)
    BY <2>3, <2>4, <2>5 DEF Proper
  <2>8. Ordered(out)
    BY <2>3, <2>4, <2>5, <2>6 DEF Ordered
  <2> QED
    BY <2>2, <2>3, <2>7, <2>8
<1> QED
  BY <1>1, <1>2, RemoveRange

\* A record that add_range accepts goes in front and lies beyond the others.
LEMMA AdditionKeepsOrder ==
  ASSUME NEW end \in Int, NEW list \in Seq(Records(end)),
         NEW p \in Int, NEW size \in Nat, size > 0,
         Proper(list), Ordered(list),
         add_range_accepts(list, Extent(p, size), end)
  PROVE  /\ Extent(p, size) \in Records(end)
         /\ <<Extent(p, size)>> \o list \in Seq(Records(end))
         /\ Proper(<<Extent(p, size)>> \o list)
         /\ Ordered(<<Extent(p, size)>> \o list)
<1> DEFINE r == Extent(p, size)
<1>1. r.lo = p /\ r.hi = p + size - 1 /\ r.lo <= r.hi /\ r.lo \in Int /\ r.hi \in Int
  BY DEF Extent
<1>2. r \in Records(end)
  <2>1. Lo <= r.lo /\ r.lo <= end - 1 /\ Lo <= r.hi /\ r.hi <= end - 1
    BY DEF add_range_accepts, InHeap
  <2>2. Lo <= p /\ p <= end - 1 /\ Lo <= p + size - 1 /\ p + size - 1 <= end - 1
    BY <1>1, <2>1
  <2>3. p \in Lo .. end - 1 /\ p + size - 1 \in Lo .. end - 1
    BY <2>2, LoAssumption
  <2> QED
    BY <2>3 DEF Records, Extent
<1>3. ASSUME NEW i \in DOMAIN list
      PROVE  Beyond(r, list[i])
  <2>1. list[i].lo \in Int /\ list[i].hi \in Int
    <3>1. list[i] \in Records(end)
      BY LenProperties, ElementOfSeq
    <3> QED
      BY <3>1 DEF Records
  <2>2. ~ Overlaps(r, list[i]) /\ list[i].lo <= list[i].hi
    BY DEF add_range_accepts, Proper
  <2> HIDE DEF r
  <2> QED
    BY <1>1, <2>1, <2>2 DEF Overlaps, Beyond
<1> HIDE DEF r
<1>4. PICK out : out = <<r>> \o list
  OBVIOUS
<1>5. /\ out \in Seq(Records(end)) /\ Len(out) = Len(list) + 1
      /\ \A j \in 1 .. Len(list) + 1 : out[j] = IF j = 1 THEN r ELSE list[j - 1]
  BY <1>2, <1>4, Prepended
<1>6. DOMAIN out = 1 .. Len(list) + 1 /\ DOMAIN list = 1 .. Len(list) /\ Len(list) \in Nat
  BY <1>5, LenProperties
<1>7. \A j \in DOMAIN out : j # 1 => j - 1 \in DOMAIN list /\ out[j] = list[j - 1]
  BY <1>5, <1>6
<1>8. out[1] = r /\ 1 \in DOMAIN out
  BY <1>5, <1>6
<1>9. Proper(out)
  BY <1>1, <1>7, <1>8 DEF Proper
<1>10. Ordered(out)
  <2> SUFFICES ASSUME NEW i \in DOMAIN out, NEW j \in DOMAIN out, i < j
               PROVE  Beyond(out[i], out[j])
    BY DEF Ordered
  <2>1. j # 1 /\ j - 1 \in DOMAIN list /\ out[j] = list[j - 1]
    BY <1>6, <1>7
  <2>2. CASE i = 1
    BY <1>3, <1>8, <2>1, <2>2
  <2>3. CASE i # 1
    BY <1>6, <1>7, <2>1, <2>3 DEF Ordered
  <2> QED
    BY <2>2, <2>3
<1> QED
  BY <1>2, <1>4, <1>5, <1>9, <1>10 DEF r

-----------------------------------------------------------------------------
(* Types, and the order of the range list, under any allocator.            *)

Memory == [AllCells -> 0 .. 255]

TypeInv ==
  /\ TypeOK
  /\ honest \in BOOLEAN
  /\ blocks \in [DOMAIN blocks -> Int]
  /\ block_sizes \in [DOMAIN blocks -> Nat \ {0}]
  /\ valid \in Seq(BOOLEAN)
  /\ verdict = "running" => Len(valid) < NumTraces
  /\ Proper(ranges) /\ Ordered(ranges)

LEMMA ExtendParts ==
  ASSUME NEW R, NEW D, NEW f \in [D -> R], NEW x, NEW y \in R
  PROVE  /\ Extend(f, x, y) \in [D \union {x} -> R]
         /\ Extend(f, x, y)[x] = y
         /\ \A z \in D \ {x} : Extend(f, x, y)[z] = f[z]
  BY DEF Extend

\* A pattern is a byte, and memory stays bytes.
LEMMA MemoryStaysMemory ==
  ASSUME TypeInv, NEW p, NEW size, NEW oldp, NEW oldsize
  PROVE  /\ Memories(p, size, oldp, oldsize) \subseteq Memory
         /\ \A m \in Memory : \A id \in Ids : Memset(m, p, size, Pattern(id)) \in Memory
<1>1. mem \in Memory
  BY DEF TypeInv, TypeOK, Memory
<1>2. ASSUME NEW junk \in Junk, NEW q, NEW n
      PROVE  Moved(mem, p, size, q, n, junk) \in Memory
  <2>1. junk \in 0 .. 255
    BY Bounds
  <2> QED
    BY <1>1, <2>1 DEF Moved, Memory
<1>3. \A id \in Ids : Pattern(id) \in 0 .. 255
  BY Bounds DEF Pattern
<1>4. ASSUME NEW m \in Memory, NEW id \in Ids
      PROVE  Memset(m, p, size, Pattern(id)) \in Memory
  <2>1. PICK byte \in 0 .. 255 : byte = Pattern(id)
    BY <1>3
  <2>2. Memset(m, p, size, byte) \in Memory
    BY DEF Memset, Memory
  <2> QED
    BY <2>1, <2>2
<1> QED
  BY <1>2, <1>4 DEF Memories

LEMMA AnswersAreAddresses ==
  ASSUME NEW size, NEW except
  PROVE  Answers(size, except) \subseteq Int
  BY Bounds DEF Answers, AllCells

\* A record inside the heap stays inside when the heap grows.
LEMMA RecordsGrow ==
  ASSUME NEW t \in Int, NEW u \in Int, t <= u, NEW list \in Seq(Records(t))
  PROVE  list \in Seq(Records(u))
<1>1. Records(t) \subseteq Records(u)
  BY Bounds DEF Records
<1> QED
  BY <1>1, SeqMonotonic

\* A trace that ends is one more of the traces done.
LEMMA ReturnCounts ==
  ASSUME TypeInv, NEW v, Return(v), Len(valid) < NumTraces
  PROVE  valid' \in Seq(BOOLEAN) /\ Len(valid') <= NumTraces
<1>1. (v = "valid") \in BOOLEAN
  OBVIOUS
<1>2. valid' \in Seq(BOOLEAN) /\ Len(valid') = Len(valid) + 1
  BY <1>1, AppendProperties DEF Return, TypeInv
<1> QED
  BY <1>2, Bounds, LenProperties DEF TypeInv

\* What the check of a new payload does to the state.
LEMMA CheckKeepsTypes ==
  ASSUME TypeInv, verdict = "running", Grows, UNCHANGED <<honest, refused>>,
         NEW id \in Ids, NEW p \in Int, NEW size \in Nat, NEW oldsize,
         NEW list \in Seq(Records(top')), Proper(list), Ordered(list),
         NEW m \in Memory,
         Check(id, p, size, list, oldsize, m)
  PROVE  TypeInv'
<1>1. /\ top \in Lo .. Hi /\ top' \in Lo .. Hi /\ top <= top' /\ top' \in Int
      /\ ranges \in Seq(Records(top)) /\ ranges \in Seq(Records(top'))
      /\ Proper(ranges) /\ Ordered(ranges)
  <2>1. top \in Lo .. Hi /\ ranges \in Seq(Records(top)) /\ Proper(ranges) /\ Ordered(ranges)
    BY DEF TypeInv, TypeOK, Records
  <2>2. top' \in Lo .. Hi /\ top <= top'
    BY <2>1, Bounds DEF Grows
  <2> QED
    BY <2>1, <2>2, RecordsGrow
<1>2. /\ honest' \in BOOLEAN /\ refused' \in BOOLEAN
      /\ inuse \subseteq DOMAIN blocks /\ DOMAIN blocks = DOMAIN block_sizes
      /\ DOMAIN blocks \subseteq Ids
      /\ blocks \in [DOMAIN blocks -> Int] /\ block_sizes \in [DOMAIN blocks -> Nat \ {0}]
      /\ valid \in Seq(BOOLEAN) /\ Len(valid) < NumTraces /\ Len(valid) <= NumTraces
  <2>1. Len(valid) <= NumTraces
    BY DEF TypeInv, TypeOK
  <2> QED
    BY <2>1 DEF TypeInv, TypeOK
<1>3. CASE /\ verdict' = "aborted" /\ mem' = m
           /\ UNCHANGED <<ranges, blocks, block_sizes, inuse, valid, errors>>
  BY <1>1, <1>2, <1>3 DEF TypeInv, TypeOK, Records, Memory
<1>4. CASE /\ ranges' = list /\ mem' = m
           /\ Report
           /\ UNCHANGED <<blocks, block_sizes, inuse>>
  <2>1. valid' \in Seq(BOOLEAN) /\ Len(valid') <= NumTraces /\ verdict' = "invalid"
    BY <1>2, <1>4, ReturnCounts DEF Report, Return
  <2> QED
    BY <1>1, <1>2, <1>4, <2>1 DEF TypeInv, TypeOK, Records, Memory
<1>5. CASE /\ size > 0
           /\ add_range_accepts(list, Extent(p, size), top')
           /\ ranges' = <<Extent(p, size)>> \o list
           /\ mem' = m
           /\ Report
           /\ UNCHANGED <<blocks, block_sizes, inuse>>
  <2>1. valid' \in Seq(BOOLEAN) /\ Len(valid') <= NumTraces /\ verdict' = "invalid"
    BY <1>2, <1>5, ReturnCounts DEF Report, Return
  <2>2. ranges' \in Seq(Records(top')) /\ Proper(ranges') /\ Ordered(ranges')
    BY <1>1, <1>5, AdditionKeepsOrder
  <2> QED
    BY <1>1, <1>2, <1>5, <2>1, <2>2 DEF TypeInv, TypeOK, Records, Memory
<1>6. CASE /\ size > 0
           /\ add_range_accepts(list, Extent(p, size), top')
           /\ ranges' = <<Extent(p, size)>> \o list
           /\ mem' = Memset(m, p, size, Pattern(id))
           /\ blocks' = Extend(blocks, id, p)
           /\ block_sizes' = Extend(block_sizes, id, size)
           /\ inuse' = inuse \union {id}
           /\ UNCHANGED <<verdict, valid, errors>>
  <2>1. ranges' \in Seq(Records(top')) /\ Proper(ranges') /\ Ordered(ranges')
    BY <1>1, <1>6, AdditionKeepsOrder
  <2>2. mem' \in Memory
    BY <1>6, MemoryStaysMemory
  <2>3. blocks' \in [DOMAIN blocks \union {id} -> Int]
    BY <1>2, <1>6, ExtendParts
  <2>4. block_sizes' \in [DOMAIN blocks \union {id} -> Nat \ {0}]
    <3>1. size \in Nat \ {0}
      BY <1>6
    <3> QED
      BY <1>2, <1>6, <3>1, ExtendParts
  <2>5. /\ DOMAIN blocks' = DOMAIN blocks \union {id} /\ DOMAIN block_sizes' = DOMAIN blocks'
        /\ inuse' \subseteq DOMAIN blocks' /\ DOMAIN blocks' \subseteq Ids
    BY <1>2, <1>6, <2>3, <2>4
  <2> QED
    BY <1>1, <1>2, <1>6, <2>1, <2>2, <2>3, <2>4, <2>5 DEF TypeInv, TypeOK, Records, Memory
<1> QED
  BY <1>3, <1>4, <1>5, <1>6 DEF Check

LEMMA TypesAtInit ==
  Init => TypeInv
<1> SUFFICES ASSUME Init PROVE TypeInv
  OBVIOUS
<1>1. mem \in Memory
  <2>1. PICK j \in Junk : mem = [a \in AllCells |-> j]
    BY DEF Init
  <2>2. j \in 0 .. 255
    BY Bounds
  <2> QED
    BY <2>1, <2>2 DEF Memory
<1>2. ranges \in Seq(Records(top)) /\ Proper(ranges) /\ Ordered(ranges)
  BY DEF Init, Proper, Ordered
<1>3. valid \in Seq(BOOLEAN) /\ Len(valid) <= NumTraces
  BY Bounds DEF Init
<1>4. top \in Lo .. Hi /\ honest \in BOOLEAN
  BY Bounds, EvalAssumption DEF Init
<1>5. /\ inuse = {} /\ DOMAIN blocks = {} /\ DOMAIN block_sizes = {}
      /\ blocks \in [DOMAIN blocks -> Int]
      /\ block_sizes \in [DOMAIN blocks -> Nat \ {0}]
  BY DEF Init, Empty
<1> QED
  BY <1>1, <1>2, <1>3, <1>4, <1>5 DEF Init, TypeInv, TypeOK, Memory, Records

\* What is known of the list that a new payload is checked against.
LEMMA ListsAreRecords ==
  ASSUME TypeInv, Grows, NEW lo
  PROVE  /\ top' \in Int
         /\ ranges \in Seq(Records(top')) /\ Proper(ranges) /\ Ordered(ranges)
         /\ remove_range(ranges, lo) \in Seq(Records(top'))
         /\ Proper(remove_range(ranges, lo)) /\ Ordered(remove_range(ranges, lo))
<1>1. /\ top \in Lo .. Hi /\ ranges \in Seq(Records(top))
      /\ Proper(ranges) /\ Ordered(ranges)
  BY DEF TypeInv, TypeOK, Records
<1>2. top' \in Lo .. Hi /\ top <= top' /\ top \in Int /\ top' \in Int
  BY <1>1, Bounds DEF Grows
<1>3. ranges \in Seq(Records(top'))
  BY <1>1, <1>2, RecordsGrow
<1> QED
  BY <1>1, <1>2, <1>3, RemovalKeepsOrder

LEMMA TypesNext ==
  TypeInv /\ [Next]_vars => TypeInv'
<1> SUFFICES ASSUME TypeInv, [Next]_vars PROVE TypeInv'
  OBVIOUS
<1>1. /\ mem \in Memory /\ top \in Lo .. Hi /\ ranges \in Seq(Records(top))
      /\ inuse \subseteq DOMAIN blocks /\ DOMAIN blocks = DOMAIN block_sizes
      /\ DOMAIN blocks \subseteq Ids /\ refused \in BOOLEAN
      /\ Len(valid) <= NumTraces /\ honest \in BOOLEAN
      /\ blocks \in [DOMAIN blocks -> Int] /\ block_sizes \in [DOMAIN blocks -> Nat \ {0}]
      /\ valid \in Seq(BOOLEAN) /\ Proper(ranges) /\ Ordered(ranges)
      /\ verdict = "running" => Len(valid) < NumTraces
  BY DEF TypeInv, TypeOK, Memory, Records
<1>2. ASSUME start, UNCHANGED honest
      PROVE  TypeInv'
  <2>1. /\ ranges' = << >> /\ ranges' \in Seq(Records(top'))
        /\ Proper(ranges') /\ Ordered(ranges')
    BY <1>2 DEF start, Fresh, Proper, Ordered
  <2>2. /\ inuse' = {} /\ DOMAIN blocks' = {} /\ DOMAIN block_sizes' = {}
        /\ blocks' \in [DOMAIN blocks' -> Int]
        /\ block_sizes' \in [DOMAIN blocks' -> Nat \ {0}]
    BY <1>2 DEF start, Fresh, Empty
  <2>3. Len(valid) < NumTraces /\ mem' = mem
    BY <1>2 DEF start
  <2>4. CASE /\ top' \in Tops /\ verdict' = "running" /\ refused' = FALSE
             /\ UNCHANGED <<valid, errors>>
    <3>1. top' \in Lo .. Hi
      BY <2>4, Bounds
    <3> QED
      BY <1>1, <1>2, <2>1, <2>2, <2>3, <2>4, <3>1 DEF TypeInv, TypeOK, Memory, Records
  <2>5. CASE top' = Lo /\ refused' = TRUE /\ Report
    <3>1. valid' \in Seq(BOOLEAN) /\ Len(valid') <= NumTraces /\ verdict' = "invalid"
      BY <2>3, <2>5, ReturnCounts DEF Report, Return
    <3>2. top' \in Lo .. Hi
      BY <2>5, Bounds
    <3> QED
      BY <1>1, <1>2, <2>1, <2>2, <2>3, <2>5, <3>1, <3>2 DEF TypeInv, TypeOK, Memory, Records
  <2> QED
    BY <1>2, <2>4, <2>5 DEF start
<1>3. ASSUME fails, UNCHANGED honest
      PROVE  TypeInv'
  <2>1. valid' \in Seq(BOOLEAN) /\ Len(valid') <= NumTraces /\ verdict' = "invalid"
    BY <1>1, <1>3, ReturnCounts DEF fails, Operation, Report, Return
  <2> QED
    BY <1>1, <1>3, <2>1 DEF fails, TypeInv, TypeOK, Memory, Records
<1>4. ASSUME NEW id \in Ids, NEW size \in Sizes, alloc(id, size), UNCHANGED honest
      PROVE  TypeInv'
  <2>1. verdict = "running" /\ Grows /\ UNCHANGED refused /\ size \in Nat
    BY <1>4, Bounds DEF alloc, Operation
  <2>2. PICK p \in Answers(size, {}) : \E m \in Memories(p, size, NULL, 0) :
          Check(id, p, size, ranges, 0, m)
    BY <1>4 DEF alloc
  <2>3. PICK m \in Memories(p, size, NULL, 0) : Check(id, p, size, ranges, 0, m)
    BY <2>2
  <2>4. p \in Int /\ m \in Memory
    BY <2>2, <2>3, AnswersAreAddresses, MemoryStaysMemory
  <2>5. ranges \in Seq(Records(top'))
    <3>1. top' \in Lo .. Hi /\ top <= top'
      BY <2>1, Bounds DEF Grows
    <3> QED
      BY <1>1, <3>1, RecordsGrow
  <2> QED
    BY <1>1, <1>4, <2>1, <2>3, <2>4, <2>5, CheckKeepsTypes
<1>5. ASSUME NEW id \in Ids, NEW size \in Sizes, realloc(id, size), UNCHANGED honest
      PROVE  TypeInv'
  <2> DEFINE list == remove_range(ranges, blocks[id])
  <2>1. verdict = "running" /\ Grows /\ UNCHANGED refused /\ size \in Nat
    BY <1>5, Bounds DEF realloc, Operation
  <2>2. PICK p \in Answers(size, {id}) :
          \E m \in Memories(p, size, blocks[id], block_sizes[id]) :
            Check(id, p, size, list, block_sizes[id], m)
    BY <1>5 DEF realloc
  <2>3. PICK m \in Memories(p, size, blocks[id], block_sizes[id]) :
          Check(id, p, size, list, block_sizes[id], m)
    BY <2>2
  <2>4. p \in Int /\ m \in Memory
    BY <2>2, <2>3, AnswersAreAddresses, MemoryStaysMemory
  <2>5. list \in Seq(Records(top')) /\ Proper(list) /\ Ordered(list)
    <3>1. top' \in Lo .. Hi /\ top <= top' /\ top \in Int /\ top' \in Int
      BY <1>1, <2>1, Bounds DEF Grows
    <3>2. ranges \in Seq(Records(top'))
      BY <1>1, <3>1, RecordsGrow
    <3> QED
      BY <1>1, <3>1, <3>2, RemovalKeepsOrder
  <2> HIDE DEF list
  <2> QED
    BY <1>1, <1>5, <2>1, <2>3, <2>4, <2>5, CheckKeepsTypes
<1>6. ASSUME NEW id \in Ids, free(id), UNCHANGED honest
      PROVE  TypeInv'
  <2>1. ranges' \in Seq(Records(top')) /\ Proper(ranges') /\ Ordered(ranges')
    BY <1>1, <1>6, RemovalKeepsOrder DEF free
  <2> QED
    BY <1>1, <1>6, <2>1 DEF free, Operation, TypeInv, TypeOK, Memory, Records
<1>7. ASSUME finish, UNCHANGED honest
      PROVE  TypeInv'
  <2>1. valid' \in Seq(BOOLEAN) /\ Len(valid') <= NumTraces /\ verdict' = "valid"
    BY <1>1, <1>7, ReturnCounts DEF finish, Return
  <2> QED
    BY <1>1, <1>7, <2>1 DEF finish, TypeInv, TypeOK, Memory, Records
<1>8. ASSUME NEW id \in Ids, NEW size \in Sizes, exits(id, size), UNCHANGED honest
      PROVE  TypeInv'
  <2>1. Grows /\ verdict' = "exited" /\ top' \in Lo .. Hi
        /\ UNCHANGED <<mem, blocks, block_sizes, inuse, refused, valid>>
    BY <1>8, Bounds DEF exits, Grows
  <2>2. ranges' = ranges \/ ranges' = remove_range(ranges, blocks[id])
    BY <1>8 DEF exits
  <2>3. ranges' \in Seq(Records(top')) /\ Proper(ranges') /\ Ordered(ranges')
    BY <2>1, <2>2, ListsAreRecords
  <2> QED
    BY <1>1, <1>8, <2>1, <2>3 DEF TypeInv, TypeOK, Memory, Records
<1>9. CASE UNCHANGED vars
  BY <1>1, <1>9 DEF vars, TypeInv, TypeOK, Memory, Records
<1> QED
  BY <1>2, <1>3, <1>4, <1>5, <1>6, <1>7, <1>8, <1>9 DEF Next

\* The invariant: the types, and the order in which the records of the range list
\* came (mdriver.c:381-464).
THEOREM TypesHold ==
  Spec => []TypeInv
  BY TypesAtInit, TypesNext, PTL DEF Spec

\* The state of the driver keeps its types, and never more traces are counted
\* than there are (mdriver.c:280-308).
THEOREM DriverTypes ==
  Spec => []TypeOK
<1>1. TypeInv => TypeOK
  BY DEF TypeInv
<1> QED
  BY <1>1, TypesHold, PTL

\* Whatever the allocator returns, the only overlap that gets past add_range is
\* a newer payload reaching over an older one at both ends (mdriver.c:407-416).
THEOREM OverlapsAreCaught ==
  Spec => []OverlapsCaught
<1>1. TypeInv => OverlapsCaught
  BY DEF TypeInv, Ordered, Beyond, OverlapsCaught
<1> QED
  BY <1>1, TypesHold, PTL

-----------------------------------------------------------------------------
(* The range list records what the trace holds.                            *)

\* list has one record for each of ids, which lie at b and have sizes z, at
\* different addresses.
Tracks(list, ids, b, z) ==
  /\ ToSet(list) = { Extent(b[id], z[id]) : id \in ids }
  /\ IsFiniteSet(ids) /\ Len(list) = Cardinality(ids)
  /\ \A x, y \in ids : b[x] = b[y] => x = y

\* Two records of the list begin at different addresses.
LEMMA LowsDiffer ==
  ASSUME NEW end \in Int, NEW list \in Seq(Records(end)), Proper(list), Ordered(list),
         NEW i \in DOMAIN list, NEW j \in DOMAIN list, list[i].lo = list[j].lo
  PROVE  i = j
<1>1. DOMAIN list = 1 .. Len(list) /\ Len(list) \in Nat
  BY LenProperties
<1>2. ASSUME NEW u \in DOMAIN list, NEW v \in DOMAIN list, u < v, list[u].lo = list[v].lo
      PROVE  FALSE
  <2>1. list[u] \in Records(end) /\ list[v] \in Records(end)
    BY <1>1, ElementOfSeq
  <2>2. /\ list[u].lo \in Int /\ list[u].hi \in Int
        /\ list[v].lo \in Int /\ list[v].hi \in Int
    BY <2>1 DEF Records
  <2>3. /\ list[u].lo <= list[u].hi /\ list[v].lo <= list[v].hi
        /\ Beyond(list[u], list[v])
    BY <1>2 DEF Proper, Ordered
  <2> QED
    BY <1>2, <2>2, <2>3 DEF Beyond
<1>3. i \in Int /\ j \in Int
  BY <1>1
<1> QED
  BY <1>2, <1>3

LEMMA RemovalTracks ==
  ASSUME NEW end \in Int, NEW list \in Seq(Records(end)), Proper(list), Ordered(list),
         NEW ids, NEW b, NEW z, NEW id \in ids, Tracks(list, ids, b, z)
  PROVE  Tracks(remove_range(list, b[id]), ids \ {id}, b, z)
<1>1. DOMAIN list = 1 .. Len(list) /\ Len(list) \in Nat
  BY LenProperties
<1>2. \A x : Extent(b[x], z[x]).lo = b[x]
  BY DEF Extent
<1>3. /\ \A i \in DOMAIN list : \E x \in ids : list[i] = Extent(b[x], z[x])
      /\ \A x \in ids : \E i \in DOMAIN list : list[i] = Extent(b[x], z[x])
  <2>1. { list[i] : i \in DOMAIN list } = { Extent(b[x], z[x]) : x \in ids }
    BY DEF Tracks, ToSet
  <2> QED
    BY <2>1
<1>4. PICK k \in DOMAIN list :
        list[k].lo = b[id] /\ remove_range(list, b[id]) = RemoveAt(list, k)
  <2>1. \E i \in DOMAIN list : list[i].lo = b[id]
    BY <1>2, <1>3
  <2> QED
    BY <2>1, RemoveRange
<1>5. PICK out : out = remove_range(list, b[id])
  OBVIOUS
<1>6. /\ out \in Seq(Records(end)) /\ Len(out) = Len(list) - 1
      /\ \A j \in 1 .. Len(list) - 1 : out[j] = list[Skip(k, j)]
  BY <1>4, <1>5, RemoveAtParts
<1>7. DOMAIN out = 1 .. Len(list) - 1
  BY <1>6, LenProperties
<1>8. \A j \in DOMAIN out :
        out[j] = list[Skip(k, j)] /\ Skip(k, j) \in DOMAIN list /\ Skip(k, j) # k
  BY <1>1, <1>6, <1>7 DEF Skip
<1>9. ASSUME NEW j \in DOMAIN out
      PROVE  \E x \in ids \ {id} : out[j] = Extent(b[x], z[x])
  <2>1. PICK x \in ids : out[j] = Extent(b[x], z[x])
    BY <1>3, <1>8
  <2>2. out[j].lo # list[k].lo
    BY <1>8, LowsDiffer
  <2> QED
    BY <1>2, <1>4, <2>1, <2>2
<1>10. ASSUME NEW x \in ids \ {id}
       PROVE  \E j \in DOMAIN out : out[j] = Extent(b[x], z[x])
  <2>1. PICK i \in DOMAIN list : list[i] = Extent(b[x], z[x])
    BY <1>3
  <2>2. i # k
    BY <1>2, <1>4, <2>1 DEF Tracks
  <2>3. PICK j \in DOMAIN out : Skip(k, j) = i
    <3>1. CASE i < k
      BY <1>1, <1>7, <3>1 DEF Skip
    <3>2. CASE i > k
      <4>1. i - 1 \in DOMAIN out /\ Skip(k, i - 1) = i
        BY <1>1, <1>7, <3>2 DEF Skip
      <4> QED
        BY <4>1
    <3> QED
      BY <1>1, <2>2, <3>1, <3>2
  <2> QED
    BY <1>8, <2>1, <2>3
<1>11. ToSet(out) = { Extent(b[x], z[x]) : x \in ids \ {id} }
  BY <1>9, <1>10 DEF ToSet
<1>12. IsFiniteSet(ids \ {id}) /\ Len(out) = Cardinality(ids \ {id})
  BY <1>6, FS_RemoveElement DEF Tracks
<1> QED
  BY <1>5, <1>11, <1>12 DEF Tracks

LEMMA AdditionTracks ==
  ASSUME NEW end \in Int, NEW list \in Seq(Records(end)), Proper(list), Ordered(list),
         NEW ids, NEW id, id \notin ids,
         NEW D, ids \subseteq D, NEW b \in [D -> Int], NEW z \in [D -> Nat \ {0}],
         Tracks(list, ids, b, z),
         NEW p \in Int, NEW size \in Nat \ {0},
         add_range_accepts(list, Extent(p, size), end)
  PROVE  Tracks(<<Extent(p, size)>> \o list, ids \union {id},
                Extend(b, id, p), Extend(z, id, size))
<1>1. DOMAIN list = 1 .. Len(list) /\ Len(list) \in Nat
  BY LenProperties
<1>2. Extent(p, size) \in Records(end)
  <2>1. size \in Nat /\ size > 0
    OBVIOUS
  <2> QED
    BY <2>1, AdditionKeepsOrder
<1>3. PICK out : out = <<Extent(p, size)>> \o list
  OBVIOUS
<1>4. /\ out \in Seq(Records(end)) /\ Len(out) = Len(list) + 1
      /\ \A j \in 1 .. Len(list) + 1 :
           out[j] = IF j = 1 THEN Extent(p, size) ELSE list[j - 1]
  BY <1>2, <1>3, Prepended
<1>5. DOMAIN out = 1 .. Len(list) + 1
  BY <1>4, LenProperties
<1>6. /\ \A j \in DOMAIN out :
           out[j] = Extent(p, size) \/ \E i \in DOMAIN list : out[j] = list[i]
      /\ \E j \in DOMAIN out : out[j] = Extent(p, size)
      /\ \A i \in DOMAIN list : \E j \in DOMAIN out : out[j] = list[i]
  <2>1. 1 \in DOMAIN out /\ out[1] = Extent(p, size)
    BY <1>1, <1>4, <1>5
  <2>2. \A i \in DOMAIN list : i + 1 \in DOMAIN out /\ out[i + 1] = list[i]
    BY <1>1, <1>4, <1>5
  <2>3. \A j \in DOMAIN out : j # 1 => j - 1 \in DOMAIN list /\ out[j] = list[j - 1]
    BY <1>1, <1>4, <1>5
  <2> QED
    BY <2>1, <2>2, <2>3
<1>7. PICK bb, zz : bb = Extend(b, id, p) /\ zz = Extend(z, id, size)
  OBVIOUS
<1>8. bb[id] = p /\ zz[id] = size
  BY <1>7 DEF Extend
<1>9. \A x \in ids : bb[x] = b[x] /\ zz[x] = z[x]
  BY <1>7 DEF Extend
<1>10. ToSet(list) = { Extent(b[x], z[x]) : x \in ids }
  BY DEF Tracks
<1>11. ToSet(out) = { Extent(bb[x], zz[x]) : x \in ids \union {id} }
  <2>1. ToSet(out) = ToSet(list) \union {Extent(p, size)}
    BY <1>6 DEF ToSet
  <2>2. { Extent(bb[x], zz[x]) : x \in ids } = ToSet(list)
    BY <1>9, <1>10
  <2>3. Extent(bb[id], zz[id]) = Extent(p, size)
    BY <1>8
  <2> QED
    BY <2>1, <2>2, <2>3
<1>12. IsFiniteSet(ids \union {id}) /\ Len(out) = Cardinality(ids \union {id})
  <2>1. IsFiniteSet(ids) /\ Len(list) = Cardinality(ids)
    BY DEF Tracks
  <2>2. IsFiniteSet(ids \union {id}) /\ Cardinality(ids \union {id}) = Cardinality(ids) + 1
    BY <2>1, FS_AddElement
  <2> QED
    BY <1>4, <2>1, <2>2
<1>13. ASSUME NEW x \in ids
       PROVE  b[x] # p
  <2>1. PICK i \in DOMAIN list : list[i] = Extent(b[x], z[x])
    BY <1>10 DEF ToSet
  <2>2. list[i].lo = b[x] /\ list[i].lo <= list[i].hi
    BY <2>1 DEF Extent, Proper
  <2>3. ~ Overlaps(Extent(p, size), list[i])
    BY DEF add_range_accepts
  <2>4. Extent(p, size).lo = p
    BY DEF Extent
  <2>5. b[x] \in Int
    OBVIOUS
  <2> QED
    BY <2>2, <2>3, <2>4, <2>5 DEF Overlaps
<1>14. \A x, y \in ids \union {id} : bb[x] = bb[y] => x = y
  BY <1>8, <1>9, <1>13 DEF Tracks
<1>15. Tracks(out, ids \union {id}, bb, zz)
  BY <1>11, <1>12, <1>14 DEF Tracks
<1> QED
  BY <1>3, <1>7, <1>15

TrackInv == verdict = "running" => Tracks(ranges, inuse, blocks, block_sizes)

LEMMA BlocksTyped ==
  ASSUME TypeInv
  PROVE  /\ blocks \in [DOMAIN blocks -> Int]
         /\ block_sizes \in [DOMAIN blocks -> Nat \ {0}]
         /\ inuse \subseteq DOMAIN blocks /\ DOMAIN blocks \subseteq Ids
  BY DEF TypeInv, TypeOK

\* A check that the trace survives.
LEMMA CheckTracks ==
  ASSUME TypeInv, top' \in Int,
         NEW id \in Ids, NEW ids \in SUBSET inuse, id \notin ids, inuse \union {id} = ids \union {id},
         NEW p \in Int, NEW size \in Nat, NEW oldsize, NEW m,
         NEW list \in Seq(Records(top')), Proper(list), Ordered(list),
         Tracks(list, ids, blocks, block_sizes),
         Check(id, p, size, list, oldsize, m)
  PROVE  TrackInv'
<1> SUFFICES ASSUME verdict' = "running"
             PROVE  Tracks(ranges', inuse', blocks', block_sizes')
  BY DEF TrackInv
<1>1. /\ size > 0
      /\ add_range_accepts(list, Extent(p, size), top')
      /\ ranges' = <<Extent(p, size)>> \o list
      /\ blocks' = Extend(blocks, id, p) /\ block_sizes' = Extend(block_sizes, id, size)
      /\ inuse' = ids \union {id}
  BY DEF Check, Report, Return
<1>2. ids \subseteq DOMAIN blocks /\ size \in Nat \ {0}
  BY <1>1, BlocksTyped
<1>3. Tracks(<<Extent(p, size)>> \o list, ids \union {id},
             Extend(blocks, id, p), Extend(block_sizes, id, size))
  BY <1>1, <1>2, BlocksTyped, AdditionTracks
<1> QED
  BY <1>1, <1>3

LEMMA TracksNext ==
  TypeInv /\ TrackInv /\ [Next]_vars => TrackInv'
<1> SUFFICES ASSUME TypeInv, TrackInv, [Next]_vars PROVE TrackInv'
  OBVIOUS
<1>1. CASE start
  <2>1. ranges' = << >> /\ inuse' = {}
    BY <1>1 DEF start, Fresh
  <2>2. Tracks(<< >>, {}, blocks', block_sizes')
    BY FS_EmptySet DEF Tracks, ToSet
  <2> QED
    BY <2>1, <2>2 DEF TrackInv
<1>2. CASE fails
  BY <1>2 DEF fails, Report, Return, TrackInv
<1>3. ASSUME NEW id \in Ids, NEW size \in Sizes, alloc(id, size)
      PROVE  TrackInv'
  <2>1. /\ Grows /\ size \in Nat /\ id \notin inuse
        /\ Tracks(ranges, inuse, blocks, block_sizes)
    BY <1>3, Bounds DEF alloc, Operation, TrackInv
  <2>2. PICK p \in Answers(size, {}) : \E m \in Memories(p, size, NULL, 0) :
          Check(id, p, size, ranges, 0, m)
    BY <1>3 DEF alloc
  <2> QED
    BY <2>1, <2>2, AnswersAreAddresses, ListsAreRecords, CheckTracks
<1>4. ASSUME NEW id \in Ids, NEW size \in Sizes, realloc(id, size)
      PROVE  TrackInv'
  <2> DEFINE list == remove_range(ranges, blocks[id])
  <2>1. /\ Grows /\ size \in Nat /\ id \in inuse
        /\ Tracks(ranges, inuse, blocks, block_sizes)
    BY <1>4, Bounds DEF realloc, Operation, TrackInv
  <2>2. PICK p \in Answers(size, {id}) :
          \E m \in Memories(p, size, blocks[id], block_sizes[id]) :
            Check(id, p, size, list, block_sizes[id], m)
    BY <1>4 DEF realloc
  <2>3. /\ top' \in Int /\ list \in Seq(Records(top')) /\ Proper(list) /\ Ordered(list)
    BY <2>1, ListsAreRecords
  <2>4. Tracks(list, inuse \ {id}, blocks, block_sizes)
    BY <2>1, ListsAreRecords, RemovalTracks
  <2>5. inuse \ {id} \in SUBSET inuse /\ inuse \union {id} = (inuse \ {id}) \union {id}
    BY <2>1
  <2>6. p \in Int
    BY AnswersAreAddresses
  <2> HIDE DEF list
  <2> QED
    BY <2>1, <2>2, <2>3, <2>4, <2>5, <2>6, CheckTracks
<1>5. ASSUME NEW id \in Ids, free(id)
      PROVE  TrackInv'
  <2>1. /\ id \in inuse /\ UNCHANGED <<blocks, block_sizes, top>>
        /\ ranges' = remove_range(ranges, blocks[id]) /\ inuse' = inuse \ {id}
        /\ Tracks(ranges, inuse, blocks, block_sizes)
    BY <1>5 DEF free, Operation, TrackInv
  <2>2. /\ top \in Int /\ ranges \in Seq(Records(top))
        /\ Proper(ranges) /\ Ordered(ranges)
    BY Bounds DEF TypeInv, TypeOK, Records
  <2>3. Tracks(ranges', inuse', blocks, block_sizes)
    BY <2>1, <2>2, RemovalTracks
  <2> QED
    BY <2>1, <2>3 DEF TrackInv
<1>6. CASE finish
  BY <1>6 DEF finish, Return, TrackInv
<1>7. ASSUME NEW id \in Ids, NEW size \in Sizes, exits(id, size)
      PROVE  TrackInv'
  BY <1>7 DEF exits, TrackInv
<1>8. CASE UNCHANGED vars
  BY <1>8 DEF vars, TrackInv
<1> QED
  BY <1>1, <1>2, <1>3, <1>4, <1>5, <1>6, <1>7, <1>8 DEF Next

\* While a trace runs, the range list has one record for each payload the trace
\* holds, and no other, whatever the allocator returns (mdriver.c:381-464).
THEOREM RangeListTracksBlocks ==
  Spec => []RangesTrackBlocks
<1>1. Init => TrackInv
  BY DEF Init, TrackInv
<1>2. TrackInv => RangesTrackBlocks
  BY DEF TrackInv, Tracks, RangesTrackBlocks, Payloads
<1> QED
  BY <1>1, <1>2, TypesHold, TracksNext, PTL DEF Spec

-----------------------------------------------------------------------------
(* An allocator that keeps its promise is not reported.                    *)

\* The pattern of an id is read back as it was written: its low byte is not
\* negative as a char. (Without this the theorem is false: the run driver_char.)
IdsFit == \A id \in Ids : Pattern(id) < 128

Disjoint(p, size, q, n) == p + size <= q \/ q + n <= p

Filled(m, id, p, size) == \A a \in CellsOf(p, size) : m[a] = Pattern(id)

\* A payload that the trace holds lies where the promise says and contains what
\* the driver wrote.
Sound(id) ==
  /\ blocks[id] % 8 = 0 /\ Lo <= blocks[id] /\ blocks[id] + block_sizes[id] <= top
  /\ Filled(mem, id, blocks[id], block_sizes[id])
  /\ \A y \in inuse \ {id} : Disjoint(blocks[id], block_sizes[id], blocks[y], block_sizes[y])

HonestInv ==
  honest =>
    /\ verdict = "invalid" => refused
    /\ verdict # "aborted"
    /\ verdict = "running" => \A id \in inuse : Sound(id)

\* What the promise says of an answer.
LEMMA HonestAnswer ==
  ASSUME TypeInv, honest, Grows, NEW size \in Nat, NEW except,
         NEW p \in Answers(size, except)
  PROVE  /\ p \in Int /\ p % 8 = 0 /\ Lo <= p /\ size > 0 /\ p + size <= top'
         /\ top' \in Int /\ top' <= Hi
         /\ \A y \in inuse \ except : Disjoint(p, size, blocks[y], block_sizes[y])
<1>1. /\ p \in Lo .. Hi /\ size > 0 /\ p % ALIGNMENT = 0 /\ p + size <= top'
      /\ \A y \in inuse \ except : p + size <= blocks[y] \/ blocks[y] + block_sizes[y] <= p
  BY DEF Answers
<1>2. top' \in Lo .. Hi
  BY Bounds DEF Grows
<1> QED
  BY <1>1, <1>2, Bounds DEF ALIGNMENT, Disjoint

\* Ranges that lie apart pass the test of add_range.
LEMMA ApartPasses ==
  ASSUME NEW r, NEW l, r.lo \in Int, r.hi \in Int, l.lo \in Int, l.hi \in Int,
         r.lo <= r.hi, l.lo <= l.hi, r.hi < l.lo \/ l.hi < r.lo
  PROVE  ~ Overlaps(r, l)
  BY DEF Overlaps

\* add_range accepts it.
LEMMA HonestAccepted ==
  ASSUME TypeInv, NEW ids \in SUBSET inuse, NEW end \in Int, NEW list \in Seq(Records(end)),
         Tracks(list, ids, blocks, block_sizes),
         NEW p \in Int, p % 8 = 0, Lo <= p, NEW size \in Nat, size > 0, p + size <= end,
         \A y \in ids : Disjoint(p, size, blocks[y], block_sizes[y])
  PROVE  add_range_accepts(list, Extent(p, size), end)
<1>1. Extent(p, size).lo = p /\ Extent(p, size).hi = p + size - 1
  BY DEF Extent
<1>2. InHeap(Extent(p, size), end)
  BY <1>1, LoAssumption DEF InHeap
<1>3. ASSUME NEW i \in DOMAIN list
      PROVE  ~ Overlaps(Extent(p, size), list[i])
  <2>1. PICK y \in ids : list[i] = Extent(blocks[y], block_sizes[y])
    BY DEF Tracks, ToSet
  <2>2. list[i].lo = blocks[y] /\ list[i].hi = blocks[y] + block_sizes[y] - 1
    BY <2>1 DEF Extent
  <2>3. blocks[y] \in Int /\ block_sizes[y] \in Int /\ block_sizes[y] > 0
    BY BlocksTyped
  <2>4. p + size <= blocks[y] \/ blocks[y] + block_sizes[y] <= p
    BY DEF Disjoint
  <2>5. PICK r, l : r = Extent(p, size) /\ l = list[i]
    OBVIOUS
  <2>6. /\ r.lo \in Int /\ r.hi \in Int /\ l.lo \in Int /\ l.hi \in Int
        /\ r.lo <= r.hi /\ l.lo <= l.hi
        /\ r.hi < l.lo \/ l.hi < r.lo
    <3>1. PICK q, n : q = blocks[y] /\ n = block_sizes[y]
      OBVIOUS
    <3>2. q \in Int /\ n \in Int /\ n > 0 /\ (p + size <= q \/ q + n <= p)
      BY <2>3, <2>4, <3>1
    <3>3. r.lo = p /\ r.hi = p + size - 1 /\ l.lo = q /\ l.hi = q + n - 1
      BY <1>1, <2>2, <2>5, <3>1
    <3> QED
      BY <3>2, <3>3
  <2>7. ~ Overlaps(r, l)
    BY <2>6, ApartPasses
  <2> QED
    BY <2>5, <2>7
<1> QED
  BY <1>1, <1>2, <1>3 DEF add_range_accepts, ALIGNMENT

\* Cells of disjoint payloads are different cells.
LEMMA CellsDiffer ==
  ASSUME NEW p \in Int, NEW n \in Int, NEW q \in Int, NEW k \in Int,
         Disjoint(p, n, q, k), NEW c \in CellsOf(q, k)
  PROVE  c \notin CellsOf(p, n)
  BY DEF Disjoint, CellsOf

\* A cell of a payload in the heap is a cell of the memory.
LEMMA CellsInMemory ==
  ASSUME NEW p \in Int, NEW n \in Int, Lo <= p, p + n <= Hi, NEW c \in CellsOf(p, n)
  PROVE  c \in AllCells
  BY Bounds DEF CellsOf, AllCells

\* Cells are counted from payload addresses, which are multiples of 8.
LEMMA CellsLineUp ==
  ASSUME NEW p \in Int, NEW q \in Int, NEW c \in Int, p % 8 = 0, q % 8 = 0, c % CELL = 0
  PROVE  (q + (c - p)) % CELL = 0
<1>1. CASE CELL = 4
  <2>1. c % 4 = 0
    BY <1>1
  <2>2. (q + (c - p)) % 4 = 0
    BY <2>1
  <2> QED
    BY <1>1, <2>2
<1>2. CASE CELL = 8
  <2>1. c % 8 = 0
    BY <1>2
  <2>2. (q + (c - p)) % 8 = 0
    BY <2>1
  <2> QED
    BY <1>2, <2>2
<1> QED
  BY <1>1, <1>2, Bounds

\* The memory that an allocator hands over differs from the one before in the
\* cells of the new payload only, which begin with what the old one contained.
LEMMA MovedParts ==
  ASSUME honest, NEW p, NEW size, NEW oldp, NEW oldsize,
         NEW m \in Memories(p, size, oldp, oldsize)
  PROVE  \A a \in AllCells :
           /\ a \notin CellsOf(p, size) => m[a] = mem[a]
           /\ /\ a \in CellsOf(p, size) /\ oldp # NULL /\ a - p < oldsize
              /\ oldp + (a - p) \in AllCells
              => m[a] = mem[oldp + (a - p)]
<1>1. PICK junk \in Junk : m = Moved(mem, p, size, oldp, oldsize, junk)
  BY DEF Memories
<1> QED
  BY <1>1 DEF Moved

\* The driver finds its pattern again.
LEMMA PatternFound ==
  ASSUME IdsFit, TypeInv, honest, Grows,
         NEW id \in Ids, id \in inuse, Sound(id),
         NEW size \in Nat, NEW p \in Int, p % 8 = 0, Lo <= p, p + size <= Hi,
         NEW m \in Memories(p, size, blocks[id], block_sizes[id])
  PROVE  Preserved(m, p, Compared(size, block_sizes[id]), id)
<1> DEFINE q == blocks[id]
           n == block_sizes[id]
<1>1. q \in Int /\ n \in Nat /\ n > 0
  BY BlocksTyped
<1>2. q % 8 = 0 /\ Lo <= q /\ q + n <= top /\ top <= Hi /\ top \in Int /\ q # NULL
  BY <1>1, Bounds DEF Sound, TypeInv, TypeOK, NULL
<1>3. Char(Pattern(id)) = Pattern(id)
  BY DEF IdsFit, Char
<1>4. ASSUME NEW a \in CellsOf(p, Compared(size, n))
      PROVE  m[a] = Pattern(id)
  <2>1. /\ a \in Int /\ p <= a /\ a % CELL = 0
        /\ a <= p + size - 1 /\ a - p < n
    BY <1>1 DEF CellsOf, Compared
  <2>2. a \in CellsOf(p, size)
    BY <2>1 DEF CellsOf
  <2>3. a \in AllCells
    BY <2>2, Bounds, CellsInMemory
  <2>4. q + (a - p) \in CellsOf(q, n)
    <3>1. (q + (a - p)) % CELL = 0
      BY <1>1, <1>2, <2>1, CellsLineUp
    <3> HIDE DEF q, n
    <3> QED
      BY <1>1, <2>1, <3>1 DEF CellsOf
  <2>5. q + (a - p) \in AllCells
    BY <1>1, <1>2, <2>4, Bounds, CellsInMemory
  <2>6. mem[q + (a - p)] = Pattern(id)
    BY <2>4 DEF Sound, Filled
  <2> QED
    BY <1>2, <2>1, <2>2, <2>3, <2>5, <2>6, MovedParts
<1> QED
  BY <1>3, <1>4 DEF Preserved

\* What comes of the check of an honest answer: the payload is accepted, found to
\* contain the pattern, and filled.
HonestOutcome(id, p, size, list, m) ==
  /\ mem' = Memset(m, p, size, Pattern(id))
  /\ blocks' = Extend(blocks, id, p) /\ block_sizes' = Extend(block_sizes, id, size)
  /\ inuse' = inuse \union {id}
  /\ ranges' = <<Extent(p, size)>> \o list
  /\ UNCHANGED <<verdict, valid, errors>>

LEMMA HonestCheck ==
  ASSUME TypeInv, honest, Grows,
         NEW id \in Ids, NEW ids \in SUBSET inuse,
         NEW size \in Nat, NEW except, ids = inuse \ except, NEW p \in Answers(size, except),
         NEW oldsize, NEW m, Preserved(m, p, Compared(size, oldsize), id),
         NEW list \in Seq(Records(top')), Tracks(list, ids, blocks, block_sizes),
         Check(id, p, size, list, oldsize, m)
  PROVE  HonestOutcome(id, p, size, list, m)
<1>1. /\ p \in Int /\ p % 8 = 0 /\ Lo <= p /\ size > 0 /\ p + size <= top' /\ top' \in Int
      /\ \A y \in ids : Disjoint(p, size, blocks[y], block_sizes[y])
  BY HonestAnswer
<1>2. add_range_accepts(list, Extent(p, size), top')
  BY <1>1, HonestAccepted
<1> QED
  BY <1>1, <1>2 DEF Check, HonestOutcome

\* After it, the payloads of the trace are sound again.
LEMMA SoundAgain ==
  ASSUME TypeInv, honest, Grows,
         NEW id \in Ids, NEW ids \in SUBSET inuse, id \notin ids,
         inuse \union {id} = ids \union {id},
         \A x \in ids : Sound(x),
         NEW size \in Nat, NEW except, ids = inuse \ except, NEW p \in Answers(size, except),
         NEW oldp, NEW oldsize, NEW m \in Memories(p, size, oldp, oldsize), NEW list,
         HonestOutcome(id, p, size, list, m)
  PROVE  \A x \in inuse' : Sound(x)'
<1>1. /\ p \in Int /\ p % 8 = 0 /\ Lo <= p /\ size > 0 /\ p + size <= top'
      /\ top' \in Int /\ top' <= Hi
      /\ \A y \in ids : Disjoint(p, size, blocks[y], block_sizes[y])
  BY HonestAnswer
<1>2. top \in Int /\ top <= top'
  BY Bounds DEF TypeInv, TypeOK, Grows
<1>3. /\ inuse' = ids \union {id}
      /\ blocks'[id] = p /\ block_sizes'[id] = size
      /\ \A x \in ids : blocks'[x] = blocks[x] /\ block_sizes'[x] = block_sizes[x]
      /\ mem' = Memset(m, p, size, Pattern(id))
  BY BlocksTyped DEF HonestOutcome, Extend
<1>4. \A x \in ids : blocks[x] \in Int /\ block_sizes[x] \in Int
  BY BlocksTyped
<1>5. \A a \in CellsOf(p, size) : mem'[a] = Pattern(id)
  <2>1. \A a \in CellsOf(p, size) : a \in AllCells
    BY <1>1, Bounds, CellsInMemory
  <2> QED
    BY <1>3, <2>1 DEF Memset
<1>6. ASSUME NEW x \in ids
      PROVE  Sound(x)'
  <2>1. /\ blocks[x] % 8 = 0 /\ Lo <= blocks[x] /\ blocks[x] + block_sizes[x] <= top
        /\ Filled(mem, x, blocks[x], block_sizes[x])
        /\ \A y \in inuse \ {x} :
             Disjoint(blocks[x], block_sizes[x], blocks[y], block_sizes[y])
    BY DEF Sound
  <2>2. blocks[x] + block_sizes[x] <= top'
    <3>1. blocks[x] + block_sizes[x] \in Int
      BY <1>4
    <3> QED
      BY <1>1, <1>2, <2>1, <3>1
  <2>3. ASSUME NEW a \in CellsOf(blocks[x], block_sizes[x])
        PROVE  mem'[a] = Pattern(x)
    <3>1. a \notin CellsOf(p, size)
      BY <1>1, <1>4, CellsDiffer
    <3>2. a \in AllCells
      <4>1. blocks[x] + block_sizes[x] <= Hi
        BY <1>1, <1>4, <2>2, Bounds
      <4> QED
        BY <1>4, <2>1, <4>1, CellsInMemory
    <3>3. mem'[a] = m[a]
      BY <1>3, <3>1, <3>2 DEF Memset
    <3>4. m[a] = mem[a]
      BY <3>1, <3>2, MovedParts
    <3> QED
      BY <2>1, <3>3, <3>4 DEF Filled
  <2>4. ASSUME NEW y \in inuse' \ {x}
        PROVE  Disjoint(blocks'[x], block_sizes'[x], blocks'[y], block_sizes'[y])
    <3>1. CASE y = id
      BY <1>1, <1>3, <1>4, <3>1 DEF Disjoint
    <3>2. CASE y # id
      BY <1>3, <2>1, <3>2
    <3> QED
      BY <3>1, <3>2
  <2> QED
    BY <1>3, <2>1, <2>2, <2>3, <2>4 DEF Sound, Filled
<1>7. Sound(id)'
  <2>1. \A y \in inuse' \ {id} : Disjoint(p, size, blocks'[y], block_sizes'[y])
    BY <1>1, <1>3
  <2> QED
    BY <1>1, <1>3, <1>5, <2>1 DEF Sound, Filled
<1> QED
  BY <1>3, <1>6, <1>7

LEMMA HonestNext ==
  ASSUME IdsFit
  PROVE  TypeInv /\ TrackInv /\ HonestInv /\ [Next]_vars => HonestInv'
<1> SUFFICES ASSUME TypeInv, TrackInv, HonestInv, [Next]_vars, honest'
             PROVE  /\ verdict' = "invalid" => refused'
                    /\ verdict' # "aborted"
                    /\ verdict' = "running" => \A id \in inuse' : Sound(id)'
  BY DEF HonestInv
<1>1. honest /\ UNCHANGED honest
  BY DEF Next, vars
<1>2. /\ verdict = "invalid" => refused
      /\ verdict # "aborted"
      /\ verdict = "running" => \A id \in inuse : Sound(id)
  BY <1>1 DEF HonestInv
<1>3. CASE start
  BY <1>2, <1>3 DEF start, Fresh, Report, Return
<1>4. CASE fails
  BY <1>4 DEF fails, Report, Return
<1>5. ASSUME NEW id \in Ids, NEW size \in Sizes, alloc(id, size)
      PROVE  verdict' = "running" /\ \A x \in inuse' : Sound(x)'
  <2>1. /\ Grows /\ size \in Nat /\ id \notin inuse /\ verdict = "running"
        /\ Tracks(ranges, inuse, blocks, block_sizes)
    BY <1>5, Bounds DEF alloc, Operation, TrackInv
  <2>2. PICK p \in Answers(size, {}) : \E m \in Memories(p, size, NULL, 0) :
          Check(id, p, size, ranges, 0, m)
    BY <1>5 DEF alloc
  <2>3. PICK m \in Memories(p, size, NULL, 0) : Check(id, p, size, ranges, 0, m)
    BY <2>2
  <2>4. Preserved(m, p, Compared(size, 0), id)
    <3>1. p \in Int /\ Compared(size, 0) = 0
      BY <2>1, AnswersAreAddresses DEF Compared
    <3> QED
      BY <3>1 DEF Preserved, CellsOf
  <2>5. HonestOutcome(id, p, size, ranges, m)
    BY <1>1, <2>1, <2>3, <2>4, ListsAreRecords, HonestCheck
  <2>6. \A x \in inuse' : Sound(x)'
    BY <1>1, <1>2, <2>1, <2>5, SoundAgain
  <2> QED
    BY <2>1, <2>5, <2>6 DEF HonestOutcome
<1>6. ASSUME NEW id \in Ids, NEW size \in Sizes, realloc(id, size)
      PROVE  verdict' = "running" /\ \A x \in inuse' : Sound(x)'
  <2> DEFINE list == remove_range(ranges, blocks[id])
  <2>1. /\ Grows /\ size \in Nat /\ id \in inuse /\ verdict = "running"
        /\ Tracks(ranges, inuse, blocks, block_sizes)
    BY <1>6, Bounds DEF realloc, Operation, TrackInv
  <2>2. PICK p \in Answers(size, {id}) :
          \E m \in Memories(p, size, blocks[id], block_sizes[id]) :
            Check(id, p, size, list, block_sizes[id], m)
    BY <1>6 DEF realloc
  <2>3. PICK m \in Memories(p, size, blocks[id], block_sizes[id]) :
          Check(id, p, size, list, block_sizes[id], m)
    BY <2>2
  <2>4. list \in Seq(Records(top')) /\ Tracks(list, inuse \ {id}, blocks, block_sizes)
    BY <2>1, ListsAreRecords, RemovalTracks
  <2> HIDE DEF list
  <2>5. Preserved(m, p, Compared(size, block_sizes[id]), id)
    <3>1. p \in Int /\ p % 8 = 0 /\ Lo <= p /\ p + size <= top' /\ top' \in Int /\ top' <= Hi
      BY <1>1, <2>1, HonestAnswer
    <3>2. p + size <= Hi
      BY <2>1, <3>1, Bounds
    <3> QED
      BY <1>1, <1>2, <2>1, <3>1, <3>2, PatternFound
  <2>6. HonestOutcome(id, p, size, list, m)
    BY <1>1, <2>1, <2>3, <2>4, <2>5, HonestCheck
  <2>7. \A x \in inuse' : Sound(x)'
    <3>1. inuse \union {id} = (inuse \ {id}) \union {id} /\ id \notin inuse \ {id}
      BY <2>1
    <3> QED
      BY <1>1, <1>2, <2>1, <2>6, <3>1, SoundAgain
  <2> QED
    BY <2>1, <2>6, <2>7 DEF HonestOutcome
<1>7. ASSUME NEW id \in Ids, free(id)
      PROVE  verdict' = "running" /\ \A x \in inuse' : Sound(x)'
  BY <1>2, <1>7 DEF free, Operation, Sound
<1>8. CASE finish
  BY <1>8 DEF finish, Return
<1>9. ASSUME NEW id \in Ids, NEW size \in Sizes, exits(id, size)
      PROVE  verdict' = "exited"
  BY <1>9 DEF exits
<1>10. CASE UNCHANGED vars
  BY <1>2, <1>10 DEF vars, Sound
<1> QED
  BY <1>3, <1>4, <1>5, <1>6, <1>7, <1>8, <1>9, <1>10 DEF Next

\* An allocator that keeps its promise is reported only when it returns NULL, and
\* never runs the driver into its assertion, if the pattern of every id can be
\* read back (mdriver.c:577-685).
THEOREM HonestIsNotReported ==
  ASSUME IdsFit
  PROVE  Spec => []NoFalseAlarm
<1>1. Init => HonestInv
  BY DEF Init, HonestInv
<1>2. Init => TrackInv
  BY DEF Init, TrackInv
<1>3. HonestInv => NoFalseAlarm
  BY DEF HonestInv, NoFalseAlarm
<1> QED
  BY <1>1, <1>2, <1>3, TypesHold, TracksNext, HonestNext, PTL DEF Spec

-----------------------------------------------------------------------------
(* The driver keeps its side of AllocatorPromise.                          *)

LastCell(n) == (n + CELL - 1) \div CELL - 1

Chunk(p, n, m) == [size |-> n, data |-> [i \in 0 .. LastCell(n) |-> m[p + CELL * i]]]

HeldOf(ids, b, z, m) ==
  [p \in { b[id] : id \in ids } |->
     LET id == CHOOSE x \in ids : b[x] = p IN Chunk(p, z[id], m)]

LEMMA HeldIs ==
  /\ Held = HeldOf(inuse, blocks, block_sizes, mem)
  /\ Held' = HeldOf(inuse', blocks', block_sizes', mem')
  BY DEF Held, HeldOf, Chunk, LastCell

Places(b, ids) == { b[x] : x \in ids }
Distinct(b, ids) == \A x, y \in ids : b[x] = b[y] => x = y

LEMMA HeldParts ==
  ASSUME NEW ids, NEW b, NEW z, NEW m, Distinct(b, ids)
  PROVE  /\ DOMAIN HeldOf(ids, b, z, m) = Places(b, ids)
         /\ \A x \in ids : HeldOf(ids, b, z, m)[b[x]] = Chunk(b[x], z[x], m)
         /\ HeldOf(ids, b, z, m)
              = [q \in Places(b, ids) |-> HeldOf(ids, b, z, m)[q]]
<1>1. ASSUME NEW x \in ids
      PROVE  (CHOOSE y \in ids : b[y] = b[x]) = x
  BY DEF Distinct
<1> QED
  BY <1>1 DEF HeldOf, Places

\* The cells of a chunk are the cells of the payload.
LEMMA ChunkCells ==
  ASSUME NEW p \in Int, p % 8 = 0, NEW n \in Nat, NEW i \in 0 .. LastCell(n)
  PROVE  p + CELL * i \in CellsOf(p, n)
<1>1. CASE CELL = 4
  <2>1. i \in Int /\ 0 <= i /\ i <= (n + 4 - 1) \div 4 - 1
    BY <1>1 DEF LastCell
  <2>2. 4 * i <= n - 1 /\ (p + 4 * i) % 4 = 0
    BY <2>1
  <2> QED
    BY <1>1, <2>1, <2>2 DEF CellsOf
<1>2. CASE CELL = 8
  <2>1. i \in Int /\ 0 <= i /\ i <= (n + 8 - 1) \div 8 - 1
    BY <1>2 DEF LastCell
  <2>2. 8 * i <= n - 1 /\ (p + 8 * i) % 8 = 0
    BY <2>1
  <2> QED
    BY <1>2, <2>1, <2>2 DEF CellsOf
<1> QED
  BY <1>1, <1>2, Bounds

\* A chunk depends on the memory in its cells only.
LEMMA SameChunk ==
  ASSUME NEW p \in Int, p % 8 = 0, NEW n \in Nat, NEW m1, NEW m2,
         \A c \in CellsOf(p, n) : m1[c] = m2[c]
  PROVE  Chunk(p, n, m1) = Chunk(p, n, m2)
<1>1. \A i \in 0 .. LastCell(n) : m1[p + CELL * i] = m2[p + CELL * i]
  BY ChunkCells
<1> QED
  BY <1>1 DEF Chunk

LEMMA ChunkTyped ==
  ASSUME NEW p \in Int, p % 8 = 0, NEW n \in Nat, Lo <= p, p + n <= Hi, NEW m \in Memory
  PROVE  /\ Chunk(p, n, m).size = n
         /\ Chunk(p, n, m).data \in [0 .. LastCell(n) -> 0 .. 255]
<1>1. \A i \in 0 .. LastCell(n) : p + CELL * i \in CellsOf(p, n)
  BY ChunkCells
<1>2. \A c \in CellsOf(p, n) : m[c] \in 0 .. 255
  BY CellsInMemory DEF Memory
<1>3. \A i \in 0 .. LastCell(n) : m[p + CELL * i] \in 0 .. 255
  BY <1>1, <1>2
<1> QED
  BY <1>3 DEF Chunk

\* What stays of the payloads held, whatever else a step does.
LEMMA OthersStay ==
  ASSUME NEW ids, NEW b1, NEW z1, NEW m1, NEW b2, NEW z2, NEW m2,
         Distinct(b1, ids),
         \A x \in ids : /\ b1[x] \in Int /\ b1[x] % 8 = 0 /\ z1[x] \in Nat
                        /\ b2[x] = b1[x] /\ z2[x] = z1[x]
                        /\ \A c \in CellsOf(b1[x], z1[x]) : m2[c] = m1[c]
  PROVE  HeldOf(ids, b2, z2, m2) = HeldOf(ids, b1, z1, m1)
<1>1. Distinct(b2, ids) /\ Places(b2, ids) = Places(b1, ids)
  BY DEF Distinct, Places
<1>2. \A x \in ids : Chunk(b1[x], z1[x], m2) = Chunk(b1[x], z1[x], m1)
  BY SameChunk
<1>3. \A x \in ids : HeldOf(ids, b2, z2, m2)[b2[x]] = Chunk(b2[x], z2[x], m2)
  BY <1>1, HeldParts
<1>4. \A x \in ids : HeldOf(ids, b1, z1, m1)[b1[x]] = Chunk(b1[x], z1[x], m1)
  BY HeldParts
<1>5. \A x \in ids : HeldOf(ids, b2, z2, m2)[b1[x]] = HeldOf(ids, b1, z1, m1)[b1[x]]
  BY <1>2, <1>3, <1>4
<1>6. \A q \in Places(b1, ids) : HeldOf(ids, b2, z2, m2)[q] = HeldOf(ids, b1, z1, m1)[q]
  BY <1>5 DEF Places
<1>7. HeldOf(ids, b2, z2, m2) = [q \in Places(b1, ids) |-> HeldOf(ids, b2, z2, m2)[q]]
  BY <1>1, HeldParts
<1>8. HeldOf(ids, b1, z1, m1) = [q \in Places(b1, ids) |-> HeldOf(ids, b1, z1, m1)[q]]
  BY HeldParts
<1> QED
  BY <1>6, <1>7, <1>8

\* One payload less, and one more.
LEMMA HeldMinus ==
  ASSUME NEW ids, NEW b, NEW z, NEW m, Distinct(b, ids), NEW id \in ids
  PROVE  HeldOf(ids \ {id}, b, z, m)
           = [q \in DOMAIN HeldOf(ids, b, z, m) \ {b[id]} |-> HeldOf(ids, b, z, m)[q]]
<1>1. PICK rest : rest = ids \ {id}
  OBVIOUS
<1>2. Distinct(b, rest) /\ Places(b, rest) = Places(b, ids) \ {b[id]}
  BY <1>1 DEF Distinct, Places
<1>3. /\ DOMAIN HeldOf(ids, b, z, m) = Places(b, ids)
      /\ \A x \in ids : HeldOf(ids, b, z, m)[b[x]] = Chunk(b[x], z[x], m)
  BY HeldParts
<1>4. /\ \A x \in rest : HeldOf(rest, b, z, m)[b[x]] = Chunk(b[x], z[x], m)
      /\ HeldOf(rest, b, z, m) = [q \in Places(b, rest) |-> HeldOf(rest, b, z, m)[q]]
  BY <1>2, HeldParts
<1>5. \A q \in Places(b, rest) : HeldOf(rest, b, z, m)[q] = HeldOf(ids, b, z, m)[q]
  <2>1. \A x \in rest : HeldOf(rest, b, z, m)[b[x]] = HeldOf(ids, b, z, m)[b[x]]
    BY <1>1, <1>3, <1>4
  <2> QED
    BY <2>1 DEF Places
<1>6. HeldOf(rest, b, z, m) = [q \in Places(b, rest) |-> HeldOf(ids, b, z, m)[q]]
  BY <1>4, <1>5
<1> QED
  BY <1>1, <1>2, <1>3, <1>6

LEMMA HeldPlus ==
  ASSUME NEW ids, NEW b, NEW z, NEW m, NEW id, id \notin ids, Distinct(b, ids \union {id})
  PROVE  HeldOf(ids \union {id}, b, z, m)
           = Promise!Plus(HeldOf(ids, b, z, m), b[id], Chunk(b[id], z[id], m))
<1>1. PICK more : more = ids \union {id}
  OBVIOUS
<1>2. /\ Distinct(b, ids) /\ Distinct(b, more)
      /\ Places(b, more) = Places(b, ids) \union {b[id]}
      /\ b[id] \notin Places(b, ids)
  BY <1>1 DEF Distinct, Places
<1>3. /\ DOMAIN HeldOf(ids, b, z, m) = Places(b, ids)
      /\ \A x \in ids : HeldOf(ids, b, z, m)[b[x]] = Chunk(b[x], z[x], m)
  BY <1>2, HeldParts
<1>4. /\ \A x \in more : HeldOf(more, b, z, m)[b[x]] = Chunk(b[x], z[x], m)
      /\ HeldOf(more, b, z, m) = [q \in Places(b, more) |-> HeldOf(more, b, z, m)[q]]
  BY <1>2, HeldParts
<1>5. \A q \in Places(b, ids) : HeldOf(more, b, z, m)[q] = HeldOf(ids, b, z, m)[q]
  <2>1. \A x \in ids : HeldOf(more, b, z, m)[b[x]] = HeldOf(ids, b, z, m)[b[x]]
    BY <1>1, <1>3, <1>4
  <2> QED
    BY <2>1 DEF Places
<1>6. HeldOf(more, b, z, m)[b[id]] = Chunk(b[id], z[id], m)
  BY <1>1, <1>4
<1>7. HeldOf(more, b, z, m)
        = [q \in Places(b, more) |->
             IF q = b[id] THEN Chunk(b[id], z[id], m) ELSE HeldOf(ids, b, z, m)[q]]
  BY <1>2, <1>4, <1>5, <1>6
<1> QED
  BY <1>1, <1>2, <1>3, <1>7 DEF Promise!Plus

\* The payloads of a trace lie at different addresses.
LEMMA HeldNow ==
  ASSUME TypeInv, Tracks(ranges, inuse, blocks, block_sizes)
  PROVE  /\ Distinct(blocks, inuse)
         /\ DOMAIN Held = Places(blocks, inuse)
         /\ \A x \in inuse : Held[blocks[x]] = Chunk(blocks[x], block_sizes[x], mem)
<1>1. Distinct(blocks, inuse)
  BY DEF Tracks, Distinct
<1> QED
  BY <1>1, HeldIs, HeldParts

\* A free is a Free of the promise.
LEMMA FreeIsFree ==
  ASSUME TypeInv, TrackInv, NEW id \in Ids, free(id)
  PROVE  Promise!PromiseNext
<1>1. /\ id \in inuse /\ verdict = "running" /\ inuse' = inuse \ {id}
      /\ UNCHANGED <<mem, top, blocks, block_sizes>>
  BY DEF free, Operation
<1>2. /\ Distinct(blocks, inuse) /\ blocks[id] \in DOMAIN Held
  BY <1>1, HeldNow DEF TrackInv, Places
<1>3. Held' = [q \in DOMAIN Held \ {blocks[id]} |-> Held[q]]
  BY <1>1, <1>2, HeldIs, HeldMinus
<1>4. Promise!Free(blocks[id])
  BY <1>1, <1>2, <1>3 DEF Promise!Free, Promise!Minus
<1> QED
  BY <1>2, <1>4 DEF Promise!PromiseNext

\* A start is a Restart, with or without mm_init getting through.
LEMMA StartIsRestart ==
  ASSUME TypeInv, start
  PROVE  Promise!PromiseNext
<1>1. inuse' = {} /\ top' \in Lo .. Hi
  <2>1. inuse' = {} /\ (top' \in Tops \/ top' = Lo)
    BY DEF start, Fresh
  <2>2. CASE top' \in Tops
    BY <2>1, <2>2, Bounds
  <2>3. CASE top' = Lo
    BY <2>1, <2>3, Bounds
  <2> QED
    BY <2>1, <2>2, <2>3
<1>2. Held' = [p \in {} |-> 0]
  BY <1>1 DEF Held
<1>3. Promise!Restart
  BY <1>1, <1>2 DEF Promise!Restart
<1> QED
  BY <1>3 DEF Promise!PromiseNext

\* An honest answer that is filled: what is held besides, and the payload itself.
LEMMA FilledAnswer ==
  ASSUME TypeInv, honest, Grows,
         Tracks(ranges, inuse, blocks, block_sizes), \A x \in inuse : Sound(x),
         NEW id \in Ids, NEW ids \in SUBSET inuse, id \notin ids,
         inuse \union {id} = ids \union {id},
         NEW size \in Nat, NEW except, ids = inuse \ except, NEW p \in Answers(size, except),
         NEW oldp, NEW oldsize, NEW m \in Memories(p, size, oldp, oldsize), NEW list,
         HonestOutcome(id, p, size, list, m),
         NEW H, H = HeldOf(ids, blocks, block_sizes, mem)
  PROVE  /\ size > 0 /\ p \notin DOMAIN H /\ top' \in top .. Hi
         /\ Promise!Fits(p, size, H)
         /\ Held' = Promise!Plus(H, p, [size |-> size, data |-> Held'[p].data])
         /\ p \in DOMAIN Held'
         /\ Held'[p].data \in Promise!Data(size)
         /\ \A i \in 0 .. LastCell(size) : Held'[p].data[i] = Pattern(id)
<1>1. /\ p \in Int /\ p % 8 = 0 /\ Lo <= p /\ size > 0 /\ p + size <= top'
      /\ top' \in Int /\ top' <= Hi
      /\ \A y \in ids : Disjoint(p, size, blocks[y], block_sizes[y])
  BY HonestAnswer
<1>2. top' \in top .. Hi
  BY <1>1, Bounds DEF TypeInv, TypeOK, Grows
<1>3. /\ inuse' = ids \union {id}
      /\ blocks'[id] = p /\ block_sizes'[id] = size
      /\ \A x \in ids : blocks'[x] = blocks[x] /\ block_sizes'[x] = block_sizes[x]
      /\ mem' = Memset(m, p, size, Pattern(id))
  BY BlocksTyped DEF HonestOutcome, Extend
<1>4. \A x \in ids : blocks[x] \in Int /\ block_sizes[x] \in Nat /\ block_sizes[x] > 0
  BY BlocksTyped
<1>5. p + size <= Hi
  BY <1>1, Bounds
<1>6. \A c \in CellsOf(p, size) : mem'[c] = Pattern(id)
  <2>1. \A c \in CellsOf(p, size) : c \in AllCells
    BY <1>1, <1>5, Bounds, CellsInMemory
  <2> QED
    BY <1>3, <2>1 DEF Memset
<1>7. ASSUME NEW x \in ids, NEW c \in CellsOf(blocks[x], block_sizes[x])
      PROVE  mem'[c] = mem[c]
  <2>1. c \notin CellsOf(p, size)
    BY <1>1, <1>4, CellsDiffer
  <2>2. c \in AllCells
    <3>1. /\ Lo <= blocks[x] /\ blocks[x] + block_sizes[x] <= top
          /\ top <= Hi /\ top \in Int
      BY Bounds DEF Sound, TypeInv, TypeOK
    <3>2. blocks[x] + block_sizes[x] <= Hi
      <4>1. blocks[x] + block_sizes[x] \in Int
        BY <1>4
      <4> QED
        BY <3>1, <4>1, Bounds
    <3> QED
      BY <1>4, <3>1, <3>2, CellsInMemory
  <2>3. mem'[c] = m[c]
    BY <1>3, <2>1, <2>2 DEF Memset
  <2> QED
    BY <2>1, <2>2, <2>3, MovedParts
<1>8. Distinct(blocks, ids) /\ Distinct(blocks', inuse')
  <2>1. Distinct(blocks, ids)
    BY DEF Tracks, Distinct
  <2>2. \A x \in ids : blocks[x] # p
    BY <1>1, <1>4 DEF Disjoint
  <2> QED
    BY <1>3, <2>1, <2>2 DEF Distinct
<1>9. HeldOf(ids, blocks', block_sizes', mem') = H
  <2>1. \A x \in ids : blocks[x] % 8 = 0
    BY DEF Sound
  <2> QED
    BY <1>3, <1>4, <1>7, <1>8, <2>1, OthersStay
<1>10. Held' = Promise!Plus(H, p, Chunk(p, size, mem'))
  <2>1. PICK b, z, m2 : b = blocks' /\ z = block_sizes' /\ m2 = mem'
    OBVIOUS
  <2>2. Held' = HeldOf(ids \union {id}, b, z, m2)
    BY <1>3, <2>1, HeldIs
  <2>3. Distinct(b, ids \union {id})
    BY <1>3, <1>8, <2>1
  <2>4. HeldOf(ids \union {id}, b, z, m2)
          = Promise!Plus(HeldOf(ids, b, z, m2), b[id], Chunk(b[id], z[id], m2))
    BY <2>3, HeldPlus
  <2>5. HeldOf(ids, b, z, m2) = H /\ b[id] = p /\ z[id] = size
    BY <1>3, <1>9, <2>1
  <2> QED
    BY <2>1, <2>2, <2>4, <2>5
<1>11. DOMAIN H = Places(blocks, ids)
       /\ \A x \in ids : H[blocks[x]] = Chunk(blocks[x], block_sizes[x], mem)
  BY <1>8, HeldParts
<1>12. p \notin DOMAIN H
  BY <1>1, <1>4, <1>11 DEF Disjoint, Places
<1>13. Promise!Fits(p, size, H)
  <2>1. \A q \in DOMAIN H : p + size <= q \/ q + H[q].size <= p
    <3>1. ASSUME NEW x \in ids
          PROVE  H[blocks[x]].size = block_sizes[x]
      <4>1. H[blocks[x]] = Chunk(blocks[x], block_sizes[x], mem)
        BY <1>11
      <4> QED
        BY <4>1 DEF Chunk
    <3>2. \A x \in ids : p + size <= blocks[x] \/ blocks[x] + block_sizes[x] <= p
      BY <1>1 DEF Disjoint
    <3>3. ASSUME NEW q \in DOMAIN H
          PROVE  p + size <= q \/ q + H[q].size <= p
      <4>1. PICK x \in ids : q = blocks[x]
        BY <1>11 DEF Places
      <4>2. H[q].size = block_sizes[x]
        BY <3>1, <4>1
      <4>3. p + size <= blocks[x] \/ blocks[x] + block_sizes[x] <= p
        BY <3>2
      <4> QED
        BY <4>1, <4>2, <4>3
    <3> QED
      BY <3>3
  <2> QED
    BY <1>1, <2>1 DEF Promise!Fits, Promise!Apart, Promise!ALIGNMENT
<1>14. Held'[p] = Chunk(p, size, mem') /\ p \in DOMAIN Held'
  BY <1>10 DEF Promise!Plus
<1>15. mem' \in Memory
  BY MemoryStaysMemory DEF HonestOutcome
<1>16. Held'[p].data \in [0 .. LastCell(size) -> 0 .. 255]
  <2>1. PICK m2 \in Memory : m2 = mem'
    BY <1>15
  <2>2. Chunk(p, size, m2).data \in [0 .. LastCell(size) -> 0 .. 255]
    BY <1>1, <1>5, ChunkTyped
  <2> QED
    BY <1>14, <2>1, <2>2
<1>17. Chunk(p, size, mem') = [size |-> size, data |-> Held'[p].data]
  BY <1>14 DEF Chunk
<1>18. \A i \in 0 .. LastCell(size) : Held'[p].data[i] = Pattern(id)
  <2>1. \A i \in 0 .. LastCell(size) : p + CELL * i \in CellsOf(p, size)
    BY <1>1, ChunkCells
  <2>2. \A i \in 0 .. LastCell(size) : mem'[p + CELL * i] = Pattern(id)
    BY <1>6, <2>1
  <2> QED
    BY <1>14, <2>2 DEF Chunk
<1> QED
  BY <1>1, <1>2, <1>10, <1>12, <1>13, <1>14, <1>16, <1>17, <1>18
  DEF Promise!Data, Promise!LastCell, LastCell

LEMMA AllocIsAllocate ==
  ASSUME IdsFit, TypeInv, TrackInv, HonestInv, honest,
         NEW id \in Ids, NEW size \in Sizes, alloc(id, size)
  PROVE  Promise!PromiseNext
<1>1. /\ Grows /\ size \in Nat /\ id \notin inuse
      /\ Tracks(ranges, inuse, blocks, block_sizes)
      /\ \A x \in inuse : Sound(x)
  BY Bounds DEF alloc, Operation, TrackInv, HonestInv
<1>2. PICK p \in Answers(size, {}) : \E m \in Memories(p, size, NULL, 0) :
        Check(id, p, size, ranges, 0, m)
  BY DEF alloc
<1>3. PICK m \in Memories(p, size, NULL, 0) : Check(id, p, size, ranges, 0, m)
  BY <1>2
<1>4. Preserved(m, p, Compared(size, 0), id)
  <2>1. p \in Int /\ Compared(size, 0) = 0
    BY <1>1, AnswersAreAddresses DEF Compared
  <2> QED
    BY <2>1 DEF Preserved, CellsOf
<1>5. HonestOutcome(id, p, size, ranges, m)
  BY <1>1, <1>3, <1>4, ListsAreRecords, HonestCheck
<1>6. Held = HeldOf(inuse, blocks, block_sizes, mem)
  BY HeldIs
<1>7. /\ size > 0 /\ p \notin DOMAIN Held /\ top' \in top .. Hi
      /\ Promise!Fits(p, size, Held)
      /\ Held' = Promise!Plus(Held, p, [size |-> size, data |-> Held'[p].data])
      /\ p \in DOMAIN Held' /\ Held'[p].data \in Promise!Data(size)
  BY <1>1, <1>5, <1>6, FilledAnswer
<1>8. Promise!Allocate(p, size, Held'[p].data)
  BY <1>7 DEF Promise!Allocate, Promise!Grows
<1> QED
  BY <1>7, <1>8 DEF Promise!PromiseNext

LEMMA ReallocIsResize ==
  ASSUME IdsFit, TypeInv, TrackInv, HonestInv, honest,
         NEW id \in Ids, NEW size \in Sizes, realloc(id, size)
  PROVE  Promise!PromiseNext
<1> DEFINE list == remove_range(ranges, blocks[id])
           old == blocks[id]
           rest == inuse \ {id}
<1>1. /\ Grows /\ size \in Nat /\ id \in inuse
      /\ Tracks(ranges, inuse, blocks, block_sizes)
      /\ \A x \in inuse : Sound(x)
  BY Bounds DEF realloc, Operation, TrackInv, HonestInv
<1>2. PICK p \in Answers(size, {id}) :
        \E m \in Memories(p, size, old, block_sizes[id]) :
          Check(id, p, size, list, block_sizes[id], m)
  BY DEF realloc
<1>3. PICK m \in Memories(p, size, old, block_sizes[id]) :
        Check(id, p, size, list, block_sizes[id], m)
  BY <1>2
<1>4. list \in Seq(Records(top')) /\ Tracks(list, rest, blocks, block_sizes)
  BY <1>1, ListsAreRecords, RemovalTracks
<1> HIDE DEF list
<1>5. Preserved(m, p, Compared(size, block_sizes[id]), id)
  <2>1. p \in Int /\ p % 8 = 0 /\ Lo <= p /\ p + size <= top' /\ top' \in Int /\ top' <= Hi
    BY <1>1, HonestAnswer
  <2>2. p + size <= Hi
    BY <1>1, <2>1, Bounds
  <2> QED
    BY <1>1, <2>1, <2>2, PatternFound
<1>6. HonestOutcome(id, p, size, list, m)
  BY <1>1, <1>3, <1>4, <1>5, HonestCheck
<1>7. Distinct(blocks, inuse) /\ old \in DOMAIN Held
      /\ Held[old] = Chunk(old, block_sizes[id], mem)
  BY <1>1, HeldNow DEF Places
<1>8. Promise!Minus(old) = HeldOf(rest, blocks, block_sizes, mem)
  BY <1>1, <1>7, HeldIs, HeldMinus DEF Promise!Minus
<1>9. /\ size > 0 /\ p \notin DOMAIN Promise!Minus(old) /\ top' \in top .. Hi
      /\ Promise!Fits(p, size, Promise!Minus(old))
      /\ Held' = Promise!Plus(Promise!Minus(old), p, [size |-> size, data |-> Held'[p].data])
      /\ p \in DOMAIN Held' /\ Held'[p].data \in Promise!Data(size)
      /\ \A i \in 0 .. LastCell(size) : Held'[p].data[i] = Pattern(id)
  <2>1. inuse \union {id} = rest \union {id} /\ id \notin rest
    BY <1>1
  <2> QED
    BY <1>1, <1>6, <1>8, <2>1, FilledAnswer
<1>10. ASSUME NEW i \in 0 .. LastCell(size), i <= LastCell(block_sizes[id])
       PROVE  Held'[p].data[i] = Held[old].data[i]
  <2>1. old \in Int /\ old % 8 = 0 /\ block_sizes[id] \in Nat
    BY <1>1, BlocksTyped DEF Sound
  <2>2. i \in 0 .. LastCell(block_sizes[id])
    BY <1>10
  <2>3. old + CELL * i \in CellsOf(old, block_sizes[id])
    BY <2>1, <2>2, ChunkCells
  <2>4. mem[old + CELL * i] = Pattern(id)
    BY <1>1, <2>3 DEF Sound, Filled
  <2>5. Held[old].data[i] = mem[old + CELL * i]
    BY <1>7, <2>2 DEF Chunk
  <2> QED
    BY <1>9, <2>4, <2>5
<1>11. Held[old].size = block_sizes[id]
  BY <1>7 DEF Chunk
<1>12. DOMAIN Promise!Minus(old) = DOMAIN Held \ {old}
  BY DEF Promise!Minus
<1>13. Promise!Resize(old, p, size, Held'[p].data)
  BY <1>7, <1>9, <1>10, <1>11, <1>12
  DEF Promise!Resize, Promise!Grows, Promise!LastCell, LastCell
<1> QED
  BY <1>7, <1>9, <1>13 DEF Promise!PromiseNext

\* The driver frees and resizes payloads it holds and writes nowhere else: each
\* of its steps is one of AllocatorPromise, under an allocator that keeps it
\* (mdriver.c:597-681).
THEOREM DriverKeepsPromise ==
  ASSUME IdsFit
  PROVE  Spec => DriverKeepsItsSide
<1> DEFINE IInv == TypeInv /\ TrackInv /\ HonestInv
<1>1. Init => IInv
  BY TypesAtInit DEF Init, TrackInv, HonestInv
<1>2. IInv /\ [Next]_vars => IInv'
  BY TypesNext, TracksNext, HonestNext
<1>3. IInv /\ [Next]_vars =>
        [honest => Promise!PromiseNext \/ UNCHANGED <<Promise!promise>>]_vars
  <2> SUFFICES ASSUME IInv, Next, honest
               PROVE  Promise!PromiseNext \/ UNCHANGED <<Promise!promise>>
    OBVIOUS
  <2>1. CASE start
    BY <2>1, StartIsRestart
  <2>2. CASE fails \/ finish
    <3>1. UNCHANGED <<mem, top, blocks, block_sizes, inuse>>
      BY <2>2 DEF fails, finish
    <3>2. UNCHANGED <<Held, top>>
      BY <3>1 DEF Held
    <3> QED
      BY <3>2 DEF Promise!promise
  <2>3. CASE \E id \in Ids : \E size \in Sizes : alloc(id, size)
    BY <2>3, AllocIsAllocate
  <2>4. CASE \E id \in Ids : \E size \in Sizes : realloc(id, size)
    BY <2>4, ReallocIsResize
  <2>5. CASE \E id \in Ids : free(id)
    BY <2>5, FreeIsFree
  <2>6. ASSUME NEW id \in Ids, NEW size \in Sizes, exits(id, size)
        PROVE  Promise!PromiseNext
    <3>1. UNCHANGED <<mem, blocks, block_sizes, inuse>> /\ top' \in top .. Hi
      BY <2>6, Bounds DEF exits, Grows, IInv, TypeInv, TypeOK
    <3>2. UNCHANGED Held
      BY <3>1 DEF Held
    <3>3. Promise!Extend
      BY <3>1, <3>2 DEF Promise!Extend, Promise!Grows
    <3> QED
      BY <3>3 DEF Promise!PromiseNext
  <2> QED
    BY <2>1, <2>2, <2>3, <2>4, <2>5, <2>6 DEF Next
<1> QED
  BY <1>1, <1>2, <1>3, PTL DEF Spec, DriverKeepsItsSide

=============================================================================

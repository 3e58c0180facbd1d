----------------------------- MODULE EvalValid -----------------------------
(***************************************************************************)
(* The correctness pass of mdriver.c: eval_mm_valid replays one trace      *)
(* after another against some allocator, keeps the extent of every payload *)
(* in the range list, and fills payloads with a pattern that it expects to *)
(* find again after mm_realloc. The numbers that main reports are kept as  *)
(* main keeps them.                                                        *)
(*                                                                         *)
(* The allocator is the environment. An honest one keeps AllocatorPromise; *)
(* any other may return any address, lose data, or fail. The operations of *)
(* a trace are chosen as it goes, among those that make sense: only ids in *)
(* use are freed or reallocated, only ids not in use are allocated.        *)
(***************************************************************************)
EXTENDS DriverChecks, FiniteSets

CONSTANTS
  Hi,          \* end of the region, which begins at Lo
  CELL,        \* memory is modelled in cells of this many bytes
  Tops,        \* ends of the heap that occur
  Ids,         \* ids of a trace
  Sizes,       \* sizes a trace asks for
  Junk,        \* what a cell the allocator hands out may contain
  Allocators,  \* what the allocator under test may be: TRUE for one that
               \* keeps its promise, FALSE for one that may do anything
  NumTraces,   \* traces given to the driver
  MaxOps       \* operations per trace, to bound the runs

ASSUME EvalAssumption ==
  /\ Hi \in Nat /\ Lo <= Hi /\ Lo > 0 /\ Lo % 8 = 0
  /\ CELL \in {4, 8}
  /\ Tops \subseteq Lo .. Hi
  /\ Ids \subseteq Nat
  /\ Sizes \subseteq Nat
  /\ Junk \subseteq 0 .. 255
  /\ Allocators \subseteq BOOLEAN
  /\ NumTraces \in Nat /\ MaxOps \in Nat

NULL == 0

VARIABLES
  honest,       \* the allocator keeps its promise; it is one all the time
  mem,          \* cell address -> byte found in each byte of the cell
  top,          \* mem_brk: one past mem_heap_hi()
  ranges,       \* the range list, head first: [lo, hi]
  blocks,       \* trace->blocks, of the ids assigned so far
  block_sizes,  \* trace->block_sizes
  inuse,        \* ids the trace has allocated and not freed
  nops,         \* operations done in this trace
  verdict,      \* of eval_mm_valid: "running", "valid", "invalid"; "aborted"
                \* when an assert ended the program, "exited" when unix_error did
  refused,      \* the allocator returned NULL, or mm_init -1, in this trace
  valid,        \* mm_stats[i].valid of the traces done
  errors        \* the driver's count of errors

vars == <<honest, mem, top, ranges, blocks, block_sizes, inuse, nops, verdict, refused,
          valid, errors>>

CellsOf(p, size) == { a \in p .. p + size - 1 : a % CELL = 0 }
AllCells == { a \in Lo - 8 .. Hi + 8 : a % CELL = 0 }

Extend(f, x, y) == [z \in DOMAIN f \union {x} |-> IF z = x THEN y ELSE f[z]]
Empty == [x \in {} |-> 0]

-----------------------------------------------------------------------------
(* Memory, cell by cell.                                                   *)

Memset_OneCellMore(m, p, size, byte) ==
  [a \in AllCells |-> IF a \in CellsOf(p, size + CELL) THEN byte ELSE m[a]]

Memset(m, p, size, byte) ==
  [a \in AllCells |-> IF a \in CellsOf(p, size) THEN byte ELSE m[a]]

Preserved(m, p, size, id) ==
  \A a \in CellsOf(p, size) : Char(m[a]) = Pattern(id)

-----------------------------------------------------------------------------
(* The allocator's side of a call that returns newp for size bytes: where  *)
(* the payload may be, and the memory it leaves. oldp is NULL for          *)
(* mm_malloc, and the payload to carry over for mm_realloc.                *)

Answers(size, except) ==
  IF ~ honest THEN AllCells
  ELSE { p \in Lo .. Hi :
           /\ size > 0 /\ p % ALIGNMENT = 0 /\ p + size <= top'
           /\ \A id \in inuse \ except :
                p + size <= blocks[id] \/ blocks[id] + block_sizes[id] <= p }

Moved(m, newp, size, oldp, oldsize, junk) ==
  [a \in AllCells |->
     IF a \notin CellsOf(newp, size) THEN m[a]
     ELSE IF oldp # NULL /\ a - newp < oldsize /\ oldp + (a - newp) \in AllCells
          THEN m[oldp + (a - newp)] ELSE junk]

Memories(newp, size, oldp, oldsize) ==
  { Moved(mem, newp, size, oldp, oldsize, junk) : junk \in Junk }
    \union (IF honest THEN {} ELSE { Moved(mem, newp, size, NULL, 0, junk) : junk \in Junk })

-----------------------------------------------------------------------------

Fresh_KeepsRanges ==
  /\ inuse' = {}
  /\ blocks' = Empty /\ block_sizes' = Empty
  /\ nops' = 0
  /\ UNCHANGED ranges

Fresh ==
  /\ ranges' = << >>
  /\ inuse' = {}
  /\ blocks' = Empty /\ block_sizes' = Empty
  /\ nops' = 0

Init ==
  /\ honest \in Allocators
  /\ mem \in { [a \in AllCells |-> j] : j \in Junk }
  /\ top = Lo
  /\ ranges = << >>
  /\ inuse = {}
  /\ blocks = Empty /\ block_sizes = Empty
  /\ nops = 0
  /\ verdict = "valid"
  /\ refused = FALSE
  /\ valid = << >>
  /\ errors = 0

malloc_error == errors' = errors + 1

\* eval_mm_valid returns v, and main keeps it for the trace.
Return(v) ==
  /\ verdict' = v
  /\ valid' = Append(valid, v = "valid")

\* An error ends the pass: it is counted once, and the rest of the trace is
\* not run.
Report ==
  /\ malloc_error
  /\ Return("invalid")

\* The next trace: read it, reset the heap, clear the range list, mm_init.
start ==
  /\ verdict \in {"valid", "invalid"}
  /\ Len(valid) < NumTraces
  /\ Fresh
  /\ UNCHANGED mem
  /\ \/ /\ top' \in Tops
        /\ verdict' = "running"
        /\ refused' = FALSE
        /\ UNCHANGED <<valid, errors>>
     \/ /\ top' = Lo
        /\ refused' = TRUE
        /\ Report

Operation ==
  /\ verdict = "running"
  /\ nops < MaxOps
  /\ nops' = nops + 1

Grows == top' \in { t \in Tops : t >= top }

\* The allocator returns NULL.
fails ==
  /\ Operation
  /\ refused' = TRUE
  /\ Report
  /\ UNCHANGED <<mem, top, ranges, blocks, block_sizes, inuse>>

\* add_range on what the allocator returned, with the range of the old payload,
\* if any, gone from list; the pattern is compared over oldsize bytes.
Check(id, newp, size, list, oldsize, m) ==
  \/ /\ size = 0
     /\ verdict' = "aborted"
     /\ mem' = m
     /\ UNCHANGED <<ranges, blocks, block_sizes, inuse, valid, errors>>
  \/ /\ size > 0
     /\ ~ add_range_accepts(list, Extent(newp, size), top')
     /\ ranges' = list
     /\ mem' = m
     /\ Report
     /\ UNCHANGED <<blocks, block_sizes, inuse>>
  \/ /\ size > 0
     /\ add_range_accepts(list, Extent(newp, size), top')
     /\ ranges' = <<Extent(newp, size)>> \o list
     /\ \/ /\ ~ Preserved(m, newp, Compared(size, oldsize), id)
           /\ mem' = m
           /\ Report
           /\ UNCHANGED <<blocks, block_sizes, inuse>>
        \/ /\ Preserved(m, newp, Compared(size, oldsize), id)
           /\ mem' = Memset(m, newp, size, Pattern(id))
           /\ blocks' = Extend(blocks, id, newp)
           /\ block_sizes' = Extend(block_sizes, id, size)
           /\ inuse' = inuse \union {id}
           /\ UNCHANGED <<verdict, valid, errors>>

alloc(id, size) ==
  /\ Operation
  /\ id \notin inuse
  /\ Grows
  /\ \E p \in Answers(size, {}) : \E m \in Memories(p, size, NULL, 0) :
       Check(id, p, size, ranges, 0, m)
  /\ UNCHANGED refused

realloc(id, size) ==
  /\ Operation
  /\ id \in inuse
  /\ Grows
  /\ \E p \in Answers(size, {id}) :
       \E m \in Memories(p, size, blocks[id], block_sizes[id]) :
         Check(id, p, size, remove_range(ranges, blocks[id]), block_sizes[id], m)
  /\ UNCHANGED refused

\* add_range accepts the payload, but libc has no memory for its record, and
\* unix_error ends the program there.
exits(id, size) ==
  LET list == IF id \in inuse THEN remove_range(ranges, blocks[id]) ELSE ranges
  IN  /\ Operation
      /\ Grows
      /\ size > 0
      /\ \E p \in Answers(size, {id}) : add_range_accepts(list, Extent(p, size), top')
      /\ ranges' = list
      /\ verdict' = "exited"
      /\ UNCHANGED <<mem, blocks, block_sizes, inuse, refused, valid, errors>>

free(id) ==
  /\ Operation
  /\ id \in inuse
  /\ ranges' = remove_range(ranges, blocks[id])
  /\ inuse' = inuse \ {id}
  /\ UNCHANGED <<mem, top, blocks, block_sizes, verdict, refused, valid, errors>>

finish ==
  /\ verdict = "running"
  /\ Return("valid")
  /\ UNCHANGED <<mem, top, ranges, blocks, block_sizes, inuse, nops, refused, errors>>

Next ==
  /\ \/ start
     \/ fails
     \/ \E id \in Ids :
          \/ \E size \in Sizes : alloc(id, size) \/ realloc(id, size) \/ exits(id, size)
          \/ free(id)
     \/ finish
  /\ UNCHANGED honest

Spec == Init /\ [][Next]_vars

-----------------------------------------------------------------------------

Payloads == { Extent(blocks[id], block_sizes[id]) : id \in inuse }

TypeOK ==
  /\ mem \in [AllCells -> 0 .. 255]
  /\ top \in Lo .. Hi
  /\ ranges \in Seq([lo : Lo .. top - 1, hi : Lo .. top - 1])
  /\ inuse \subseteq DOMAIN blocks /\ DOMAIN blocks = DOMAIN block_sizes
  /\ DOMAIN blocks \subseteq Ids
  /\ verdict \in {"running", "valid", "invalid", "aborted", "exited"}
  /\ refused \in BOOLEAN
  /\ Len(valid) <= NumTraces

\* While a trace runs, the range list records exactly the payloads the trace
\* holds, one record each: nothing stale, from this trace or the one before, can
\* make add_range reject a good payload or accept a bad one (mdriver.c:381-464).
RangesTrackBlocks ==
  verdict = "running" => ToSet(ranges) = Payloads /\ Len(ranges) = Cardinality(inuse)

\* Whatever the allocator returns, the only overlap that gets past add_range is
\* a newer payload reaching over an older one at both ends (mdriver.c:407-416).
OverlapsCaught ==
  \A i, j \in DOMAIN ranges :
    i < j => \/ ranges[i].hi < ranges[j].lo \/ ranges[j].hi < ranges[i].lo
             \/ ranges[i].lo < ranges[j].lo /\ ranges[j].hi < ranges[i].hi

\* The payload must not overlap any other payloads (mdriver.c:407): no two
\* accepted payloads share a byte.
AcceptedApart ==
  \A i, j \in DOMAIN ranges :
    i # j => ranges[i].hi < ranges[j].lo \/ ranges[j].hi < ranges[i].lo

\* An allocator that keeps its promise is never reported, except for returning
\* NULL, and never runs the driver into its assertion (mdriver.c:577-685).
NoFalseAlarm ==
  honest => /\ verdict = "invalid" => refused
            /\ verdict # "aborted"

\* The driver keeps its side of the contract: it frees and resizes payloads it
\* holds and writes nowhere else, so that an honest allocator under it behaves
\* as AllocatorPromise says (mdriver.c:597-681).
Held ==
  [p \in { blocks[id] : id \in inuse } |->
     LET id == CHOOSE x \in inuse : blocks[x] = p
     IN  [size |-> block_sizes[id],
          data |-> [i \in 0 .. (block_sizes[id] + CELL - 1) \div CELL - 1 |->
                      mem[p + CELL * i]]]]

Promise == INSTANCE AllocatorPromise WITH
  Requests <- Sizes, Values <- 0 .. 255, held <- Held

DriverKeepsItsSide ==
  [][honest => Promise!PromiseNext \/ UNCHANGED <<Promise!promise>>]_vars

=============================================================================

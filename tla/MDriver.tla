------------------------------ MODULE MDriver ------------------------------
(***************************************************************************)
(* mdriver on one trace, over the allocator of module MM: the correctness  *)
(* pass, the utilization pass, and the speed pass that the timing package  *)
(* runs several times. Every pass resets the heap and replays the trace;   *)
(* the words that earlier passes left in the region are still there, and   *)
(* main relies on a trace that went through once going through again.      *)
(*                                                                         *)
(* The correctness pass makes the trace up as it goes, out of operations   *)
(* that make sense (see EvalValid), and the others repeat it.              *)
(***************************************************************************)
EXTENDS MM, Sequences, FiniteSetsExt

CONSTANTS
  Ids,         \* ids of the trace
  MaxOps,      \* operations of the trace, to bound the runs
  Repeats      \* how often the speed pass is run

ASSUME MDriverAssumption ==
  /\ Ids \subseteq Nat
  /\ MaxOps \in Nat
  /\ Repeats \in Nat \ {0}

VARIABLES
  phase,           \* "valid", "util", "speed": the pass; "done"
  step,            \* in a pass: "init", "next" between two operations,
                   \* "called" inside mm_malloc or mm_realloc, "fill" before
                   \* the memset, "stop" when nothing more is run
  verdict,         \* "ok"; "refused" when mm_malloc, mm_realloc or mm_init
                   \* failed in the correctness pass, "invalid" when a check
                   \* did, "exited" when another pass ended the program
  trace,           \* the operations: [type, index, size]
  i,               \* operations of the trace done in this pass
  inuse,           \* ids allocated at this point of the trace
  blocks, block_sizes,
  ranges,          \* the range list of the correctness pass
  total_size, max_total_size,
  answers,         \* the blocks array after each operation of the first pass
  repeat           \* speed runs done

driver == <<phase, step, verdict, trace, i, inuse, blocks, block_sizes, ranges,
            total_size, max_total_size, answers, repeat>>

Checks == INSTANCE DriverChecks WITH Lo <- MEM_START

Empty == [x \in {} |-> 0]
Extend(f, x, y) == [z \in DOMAIN f \union {x} |-> IF z = x THEN y ELSE f[z]]

Ops == [type : {"ALLOC"}, index : Ids \ inuse, size : Sizes \ {0}]
       \union [type : {"REALLOC"}, index : inuse, size : Sizes \ {0}]
       \union [type : {"FREE"}, index : inuse, size : {0}]

\* The operation at hand: in the correctness pass any that makes sense, later
\* the one recorded.
NextOps ==
  IF phase = "valid"
  THEN IF i < MaxOps THEN Ops ELSE {}
  ELSE IF i < Len(trace) THEN {trace[i + 1]} ELSE {}

Op == trace[i + 1]

Recorded(op) == IF phase = "valid" THEN Append(trace, op) ELSE trace

-----------------------------------------------------------------------------

DInit ==
  /\ Init
  /\ phase = "valid" /\ step = "init" /\ verdict = "ok"
  /\ trace = << >> /\ i = 0 /\ inuse = {}
  /\ blocks = Empty /\ block_sizes = Empty
  /\ ranges = << >>
  /\ total_size = 0 /\ max_total_size = 0
  /\ answers = << >>
  /\ repeat = 0

\* What a failure to get memory leads to: an error in the correctness pass, the
\* end of the program in the others.
Failure == IF phase = "valid" THEN "refused" ELSE "exited"

\* Each pass begins with mem_reset_brk and mm_init; the correctness pass clears
\* the range list.
begin ==
  /\ step = "init"
  /\ mm_init
  /\ i' = 0 /\ inuse' = {}
  /\ ranges' = IF phase = "valid" THEN << >> ELSE ranges
  /\ total_size' = 0 /\ max_total_size' = 0
  /\ step' = IF pc' = "idle" THEN "next" ELSE "stop"
  /\ verdict' = IF pc' = "idle" THEN verdict ELSE Failure
  /\ UNCHANGED <<phase, trace, blocks, block_sizes, answers, repeat>>

\* mm_malloc or mm_realloc is called.
call_allocator(op) ==
  /\ step = "next"
  /\ \/ op.type = "ALLOC" /\ mm_malloc(op.size)
     \/ op.type = "REALLOC" /\ mm_realloc(blocks[op.index], op.size)
  /\ trace' = Recorded(op)
  /\ step' = "called"
  /\ UNCHANGED <<phase, verdict, i, inuse, blocks, block_sizes, ranges,
                 total_size, max_total_size, answers, repeat>>

search ==
  /\ step = "called"
  /\ find_fit_next \/ find_fit_hit \/ (find_fit_miss /\ pc' = "place")
  /\ UNCHANGED driver

failed ==
  /\ step = "called"
  /\ find_fit_miss /\ pc' = "idle"
  /\ step' = "stop"
  /\ verdict' = Failure
  /\ UNCHANGED <<phase, trace, i, inuse, blocks, block_sizes, ranges,
                 total_size, max_total_size, answers, repeat>>

Remember_Size(p) ==
  /\ blocks' = IF Op.index \in inuse THEN blocks ELSE Extend(blocks, Op.index, p)
  /\ block_sizes' = Extend(block_sizes, Op.index, Op.size)
  /\ inuse' = inuse \union {Op.index}

Remember(p) ==
  /\ blocks' = Extend(blocks, Op.index, p)
  /\ block_sizes' = Extend(block_sizes, Op.index, Op.size)
  /\ inuse' = inuse \union {Op.index}

\* The correctness pass has a new payload p: out with the old range, in with the
\* new one, and what a reallocated payload contains is compared.
check_payload(p) ==
  LET old == IF Op.type = "REALLOC" THEN block_sizes[Op.index] ELSE 0
      list == IF Op.type = "REALLOC"
              THEN Checks!remove_range(ranges, blocks[Op.index]) ELSE ranges
      new == Checks!Extent(p, Op.size)
      accepted == Checks!add_range_accepts(list, new, mem_brk)
      preserved == \A a \in Words :
                     p <= a /\ a < p + Checks!Compared(Op.size, old)
                       => Checks!Char(mem'[a]) = Checks!Pattern(Op.index)
  IN  /\ ranges' = IF accepted THEN <<new>> \o list ELSE list
      /\ IF accepted /\ preserved
         THEN step' = "fill" /\ Remember(p) /\ UNCHANGED verdict
         ELSE /\ step' = "stop" /\ verdict' = "invalid"
              /\ UNCHANGED <<blocks, block_sizes, inuse>>

ResizeDelta_Gross(op) == op.size

\* By how much a payload adds to the total: mm_realloc takes the old size off.
ResizeDelta(op) ==
  IF op.type = "REALLOC" THEN op.size - block_sizes[op.index] ELSE op.size

returned ==
  /\ step = "called"
  /\ place
  /\ \/ /\ phase = "valid"
        /\ check_payload(call.bp)
        /\ UNCHANGED <<i, total_size, max_total_size, answers>>
     \/ /\ phase = "util"
        /\ Remember(call.bp)
        /\ total_size' = total_size + ResizeDelta(Op)
        /\ max_total_size' = Greater(total_size', max_total_size)
        /\ step' = "next" /\ i' = i + 1
        /\ UNCHANGED <<verdict, ranges, answers>>
     \/ /\ phase = "speed"
        /\ blocks' = Extend(blocks, Op.index, call.bp)
        /\ inuse' = inuse \union {Op.index}
        /\ step' = "next" /\ i' = i + 1
        /\ UNCHANGED <<verdict, ranges, answers, block_sizes, total_size, max_total_size>>
  /\ UNCHANGED <<phase, trace, repeat>>

\* The memset at the end of an operation of the correctness pass.
fill ==
  /\ step = "fill"
  /\ write(blocks[Op.index], Checks!Pattern(Op.index))
  /\ answers' = Append(answers, blocks[Op.index])
  /\ step' = "next" /\ i' = i + 1
  /\ UNCHANGED <<phase, verdict, trace, inuse, blocks, block_sizes, ranges,
                 total_size, max_total_size, repeat>>

free(op) ==
  /\ step = "next"
  /\ op.type = "FREE"
  /\ mm_free(blocks[op.index])
  /\ trace' = Recorded(op)
  /\ inuse' = inuse \ {op.index}
  /\ i' = i + 1
  /\ ranges' = IF phase = "valid"
               THEN Checks!remove_range(ranges, blocks[op.index]) ELSE ranges
  /\ answers' = IF phase = "valid" THEN Append(answers, NULL) ELSE answers
  /\ total_size' = IF phase = "util"
                   THEN total_size - block_sizes[op.index] ELSE total_size
  /\ UNCHANGED <<phase, step, verdict, blocks, block_sizes, max_total_size, repeat>>

\* A pass is over, and main goes on to the next one.
end_of_pass ==
  /\ step = "next"
  /\ phase # "valid" => i = Len(trace)
  /\ \/ phase = "valid" /\ phase' = "util" /\ step' = "init" /\ UNCHANGED repeat
     \/ phase = "util" /\ phase' = "speed" /\ step' = "init" /\ UNCHANGED repeat
     \/ /\ phase = "speed" /\ repeat + 1 < Repeats
        /\ repeat' = repeat + 1 /\ step' = "init" /\ UNCHANGED phase
     \/ /\ phase = "speed" /\ repeat + 1 = Repeats
        /\ repeat' = repeat + 1 /\ phase' = "done" /\ step' = "stop"
  /\ UNCHANGED <<verdict, trace, i, inuse, blocks, block_sizes, ranges,
                 total_size, max_total_size, answers>>
  /\ UNCHANGED vars

DNext ==
  \/ begin
  \/ \E op \in NextOps : call_allocator(op) \/ free(op)
  \/ search \/ failed \/ returned \/ fill
  \/ end_of_pass

DSpec == DInit /\ [][DNext]_<<vars, driver>>

-----------------------------------------------------------------------------

DTypeOK ==
  /\ phase \in {"valid", "util", "speed", "done"}
  /\ step \in {"init", "next", "called", "fill", "stop"}
  /\ verdict \in {"ok", "refused", "invalid", "exited"}
  /\ i \in 0 .. Len(trace) /\ Len(trace) <= MaxOps
  /\ inuse \subseteq DOMAIN blocks /\ DOMAIN blocks = DOMAIN block_sizes
  /\ max_total_size \in Nat /\ total_size <= max_total_size
  /\ step # "init" => DOMAIN live = { blocks[id] : id \in inuse }
  /\ repeat <= Repeats

\* The allocator passes the checks of the driver: the correctness pass reports
\* nothing but memory running out. What was allocated once is allocated again: a
\* trace that the correctness pass got through never ends the program in a later
\* pass (mdriver.c:577-685, 711, 721, 743, 794, 804, 813).
OnlyMemoryRunsOut == verdict \notin {"invalid", "exited"}

\* A replay on a reset heap gives the same answers as the first run, whatever
\* the earlier passes left in the region: the passes that are measured measure
\* what was checked (mdriver.c:291-308).
ReplaysAgree == phase # "valid" /\ pc = "place" => call.bp = answers[i + 1]

\* The total kept by eval_mm_util is what the trace holds, and its high water
\* mark never exceeds the heap, so that the utilization is at most 1
\* (mdriver.c:727-777).
UtilizationIsAFraction ==
  phase = "util" /\ step = "next" =>
    /\ total_size = MapThenSumSet(LAMBDA id : block_sizes[id], inuse)
    /\ max_total_size <= mem_heapsize

=============================================================================

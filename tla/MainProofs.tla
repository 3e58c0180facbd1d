----------------------------- MODULE MainProofs -----------------------------
(***************************************************************************)
(* Theorems about the memory system, for every region and every set of     *)
(* increments that do not wrap the address space, and about the main       *)
(* program over it: what the interval timer may do to it, what a pass      *)
(* finds in the memory system, what the report adds up, which traces the   *)
(* command line asks for, and between which limits the index stays.        *)
(***************************************************************************)
EXTENDS Main, ListLemmas

-----------------------------------------------------------------------------
(* The memory system.                                                      *)

\* No increment that counts as positive reaches the end of the address space
\* from inside the region.
IncrementsDoNotWrap ==
  \A size \in Sizes : ToInt(size) >= 0 => mem_max_addr + size < WORD

\* A negative increment is refused, and one that does not wrap moves the break
\* up by its value.
LEMMA AdvanceAdds ==
  ASSUME IncrementsDoNotWrap,
         NEW brk \in MEM_START .. mem_max_addr, NEW size \in Sizes,
         ToInt(size) >= 0
  PROVE  /\ ToInt(size) = size
         /\ size \in Nat
         /\ Advance(brk, size) = brk + size
<1>1. size \in 0 .. WORD - 1 /\ WORD \in Nat /\ MEM_START \in Nat /\ MAX_HEAP \in Nat
  BY MemLibAssumption
<1>2. ToInt(size) = size
  BY <1>1 DEF ToInt
<1>3. brk + size \in 0 .. WORD - 1
  BY <1>1 DEF IncrementsDoNotWrap, mem_max_addr
<1>4. (brk + size) % WORD = brk + size
  BY <1>1, <1>3
<1> QED
  BY <1>1, <1>2, <1>4 DEF Advance

\* The break never leaves the region (memlib.c:71-76).
THEOREM BreakStaysInRegion ==
  ASSUME IncrementsDoNotWrap
  PROVE  MemSpec => []BrkInRegion
<1>1. mem_init => BrkInRegion
  BY MemLibAssumption DEF mem_init, BrkInRegion, mem_max_addr
<1>2. BrkInRegion /\ [MemNext]_mem_brk => BrkInRegion'
  <2> SUFFICES ASSUME BrkInRegion, [MemNext]_mem_brk
               PROVE  BrkInRegion'
    OBVIOUS
  <2>1. CASE \E size \in Sizes : mem_sbrk(size)
    <3>1. PICK size \in Sizes : mem_sbrk(size)
      BY <2>1
    <3>2. mem_brk' = Advance(mem_brk, size) /\ mem_brk' <= mem_max_addr
          /\ ToInt(size) >= 0
      BY <3>1, MemLibAssumption DEF mem_sbrk, SbrkFails, Advance, ToInt, mem_max_addr,
         BrkInRegion
    <3>3. mem_brk' = mem_brk + size /\ size \in Nat
      BY <3>2, AdvanceAdds DEF BrkInRegion
    <3> QED
      BY <3>2, <3>3, MemLibAssumption DEF BrkInRegion, mem_max_addr
  <2>2. CASE \E size \in Sizes : mem_sbrk_fails(size)
    BY <2>2 DEF mem_sbrk_fails, BrkInRegion, mem_max_addr
  <2>3. CASE mem_reset_brk
    BY <2>3, MemLibAssumption DEF mem_reset_brk, BrkInRegion, mem_max_addr
  <2>4. CASE UNCHANGED mem_brk
    BY <2>4 DEF BrkInRegion, mem_max_addr
  <2> QED
    BY <2>1, <2>2, <2>3, <2>4 DEF MemNext
<1> QED
  BY <1>1, <1>2, PTL DEF MemSpec

\* The heap cannot be shrunk by mem_sbrk (memlib.c:62-63), as long as no sum of the
\* break and an increment wraps around (memlib.c:71).
THEOREM HeapIsNotShrunk ==
  ASSUME IncrementsDoNotWrap
  PROVE  MemSpec => HeapNeverShrinks
<1>1. BrkInRegion /\ [MemNext]_mem_brk
        => [mem_brk' >= mem_brk \/ mem_brk' = MEM_START]_mem_brk
  <2> SUFFICES ASSUME BrkInRegion, MemNext
               PROVE  mem_brk' >= mem_brk \/ mem_brk' = MEM_START
    OBVIOUS
  <2>1. CASE \E size \in Sizes : mem_sbrk(size)
    <3>1. PICK size \in Sizes : mem_sbrk(size)
      BY <2>1
    <3>2. mem_brk' = Advance(mem_brk, size) /\ ToInt(size) >= 0
      BY <3>1, MemLibAssumption DEF mem_sbrk, SbrkFails, ToInt
    <3>3. mem_brk' = mem_brk + size /\ size \in Nat
      BY <3>2, AdvanceAdds DEF BrkInRegion
    <3> QED
      BY <3>3, MemLibAssumption DEF BrkInRegion, mem_max_addr
  <2>2. CASE \E size \in Sizes : mem_sbrk_fails(size)
    BY <2>2, MemLibAssumption DEF mem_sbrk_fails, BrkInRegion, mem_max_addr
  <2>3. CASE mem_reset_brk
    BY <2>3 DEF mem_reset_brk
  <2> QED
    BY <2>1, <2>2, <2>3 DEF MemNext
<1> QED
  BY <1>1, BreakStaysInRegion, PTL DEF MemSpec, HeapNeverShrinks

-----------------------------------------------------------------------------
(* The interval timer.                                                     *)

\* While it is armed, what is left and what has passed make up a day. Nothing
\* follows an exit, so that what holds when the program is killed stays so.
TimerInv ==
  /\ remaining \in 0 .. MAX_ETIME /\ since \in Int
  /\ remaining > 0 => since + remaining = MAX_ETIME
  /\ status = "killed" => since >= MAX_ETIME
  /\ phase = "exited" <=> status # "none"

\* A step that leaves the timer alone, and is not the end by its signal.
Quiet ==
  /\ UNCHANGED timer
  /\ status = "none"
  /\ status' \in {"none", "ok", "failed"}
  /\ phase' = "exited" <=> status' # "none"

LEMMA QuietKeepsTimer ==
  ASSUME TimerInv, Quiet
  PROVE  TimerInv'
BY DEF TimerInv, Quiet, timer

\* The timer is set, or runs down without reaching 0.
Runs_On ==
  /\ remaining' \in 0 .. MAX_ETIME /\ since' \in Int
  /\ remaining' > 0 => since' + remaining' = MAX_ETIME

LEMMA StartTimingRunsOn ==
  ASSUME TimerInv, start_timing
  PROVE  Runs_On
BY FtimerAssumption DEF TimerInv, start_timing, init_etime, Runs_On

LEMMA RunDownRunsOn ==
  ASSUME TimerInv, NEW d \in Durations, run_down(d)
  PROVE  Runs_On
BY FtimerAssumption DEF TimerInv, run_down, Armed, Runs_On

LEMMA StopTimingRunsOn ==
  ASSUME TimerInv, stop_timing
  PROVE  Runs_On
BY DEF TimerInv, stop_timing, Runs_On

LEMMA ExpireAfterADay ==
  ASSUME TimerInv, NEW d \in Durations, expire(d), exit("killed")
  PROVE  TimerInv'
BY FtimerAssumption DEF TimerInv, expire, Armed, exit

LEMMA RunsOnKeepsTimer ==
  ASSUME TimerInv, Runs_On, NEW p, p # "exited", goto(p), status = "none"
  PROVE  TimerInv'
BY DEF TimerInv, Runs_On, goto

LEMMA TimerStep == TimerInv /\ [Next]_vars => TimerInv'
<1> SUFFICES ASSUME TimerInv, [Next]_vars
             PROVE  TimerInv'
  OBVIOUS
<1>a. phase # "exited" => status = "none"
  BY DEF TimerInv
<1>1. CASE \E o \in Option : option(o)
  <2>1. Quiet
    BY <1>1, <1>a DEF option, Quiet, goto, exit, TimerInv
  <2> QED
    BY <2>1, QuietKeepsTimer
<1>2. CASE check_team \/ init_fsecs
  <2>1. Quiet
    BY <1>2, <1>a DEF check_team, init_fsecs, Quiet, goto, exit, TimerInv
  <2> QED
    BY <2>1, QuietKeepsTimer
<1>3. CASE libc_read \/ libc_done \/ memory \/ mm_read \/ mm_done \/ finish
  <2>1. Quiet
    BY <1>3, <1>a DEF libc_read, libc_done, memory, mm_read, mm_done, finish,
       Quiet, goto, exit, TimerInv
  <2> QED
    BY <2>1, QuietKeepsTimer
<1>4. CASE \E size \in Sizes : sbrk(size)
  <2>1. Quiet
    BY <1>4, <1>a DEF sbrk, Quiet, TimerInv
  <2> QED
    BY <2>1, QuietKeepsTimer
<1>5. CASE libc_fsecs \/ fsecs
  BY <1>5, <1>a, StartTimingRunsOn, RunsOnKeepsTimer DEF libc_fsecs, fsecs
<1>6. CASE libc_next \/ mm_next
  BY <1>6, <1>a, StopTimingRunsOn, RunsOnKeepsTimer DEF libc_next, mm_next
<1>7. ASSUME NEW p, p # "exited", status = "none", unmeasured(goto(p))
      PROVE  TimerInv'
  BY <1>7, RunDownRunsOn, RunsOnKeepsTimer, ExpireAfterADay DEF unmeasured, idle
<1>8. ASSUME NEW p, p # "exited", status = "none", measured(goto(p))
      PROVE  TimerInv'
  BY <1>8, RunDownRunsOn, RunsOnKeepsTimer, ExpireAfterADay DEF measured, elapse
<1>9. CASE eval_libc_valid
  <2>1. CASE unmeasured(goto("libc_timed"))
    BY <1>9, <2>1, <1>a, <1>7 DEF eval_libc_valid
  <2>2. CASE exit("failed") /\ UNCHANGED timer
    <3>1. Quiet
      BY <1>9, <2>2, <1>a DEF eval_libc_valid, Quiet, exit
    <3> QED
      BY <3>1, QuietKeepsTimer
  <2> QED
    BY <1>9, <2>1, <2>2 DEF eval_libc_valid
<1>10. CASE eval_libc_speed
  <2>1. CASE measured(goto("libc_speed"))
    BY <1>10, <2>1, <1>a, <1>8 DEF eval_libc_speed
  <2>2. CASE exit("failed") /\ UNCHANGED timer
    <3>1. Quiet
      BY <1>10, <2>2, <1>a DEF eval_libc_speed, Quiet, exit
    <3> QED
      BY <3>1, QuietKeepsTimer
  <2> QED
    BY <1>10, <2>1, <2>2 DEF eval_libc_speed
<1>11. CASE eval_mm_valid
  <2>1. CASE unmeasured(goto("util"))
    BY <1>11, <2>1, <1>a, <1>7 DEF eval_mm_valid
  <2>2. CASE unmeasured(goto("mm"))
    BY <1>11, <2>2, <1>a, <1>7 DEF eval_mm_valid
  <2>3. CASE exit("failed") /\ UNCHANGED timer
    <3>1. Quiet
      BY <1>11, <2>3, <1>a DEF eval_mm_valid, Quiet, exit
    <3> QED
      BY <3>1, QuietKeepsTimer
  <2> QED
    BY <1>11, <2>1, <2>2, <2>3 DEF eval_mm_valid
<1>12. CASE eval_mm_util
  <2>1. CASE unmeasured(goto("timed"))
    BY <1>12, <2>1, <1>a, <1>7 DEF eval_mm_util
  <2>2. CASE exit("failed") /\ UNCHANGED timer
    <3>1. Quiet
      BY <1>12, <2>2, <1>a DEF eval_mm_util, Quiet, exit
    <3> QED
      BY <3>1, QuietKeepsTimer
  <2> QED
    BY <1>12, <2>1, <2>2 DEF eval_mm_util
<1>13. CASE eval_mm_speed
  <2>1. CASE measured(goto("speed"))
    BY <1>13, <2>1, <1>a, <1>8 DEF eval_mm_speed
  <2>2. CASE exit("failed") /\ UNCHANGED timer
    <3>1. Quiet
      BY <1>13, <2>2, <1>a DEF eval_mm_speed, Quiet, exit
    <3> QED
      BY <3>1, QuietKeepsTimer
  <2> QED
    BY <1>13, <2>1, <2>2 DEF eval_mm_speed
<1>14. CASE UNCHANGED vars
  BY <1>14 DEF vars, timer, TimerInv
<1> QED
  BY <1>1, <1>2, <1>3, <1>4, <1>5, <1>6, <1>9, <1>10, <1>11, <1>12, <1>13, <1>14
  DEF Next, Step

\* The interval timer ends the program only after a day without a measurement
\* (ftimer.c:78-111).
THEOREM KilledAfterADay == Spec => []KilledOnlyAfterADay
<1>1. Init => TimerInv
  BY FtimerAssumption DEF Init, TimerInit, TimerInv
<1>2. TimerInv => KilledOnlyAfterADay
  BY DEF TimerInv, KilledOnlyAfterADay
<1> QED
  BY <1>1, <1>2, TimerStep, PTL DEF Spec
-----------------------------------------------------------------------------
(* The memory system.                                                      *)

InPass == phase \in {"valid", "util", "speed"}

HeapInv ==
  /\ BrkInRegion
  /\ grown \in Int
  /\ InPass => mem_brk = MEM_START + grown

\* What every step does to the heap but that of the allocator under test: it
\* leaves it alone, and if a pass goes on it went on before; or it empties it.
Untouched == UNCHANGED heap /\ (InPass' => InPass)

LEMMA UntouchedKeepsHeap ==
  ASSUME HeapInv, Untouched
  PROVE  HeapInv'
BY DEF HeapInv, Untouched, InPass, heap, BrkInRegion, mem_max_addr

LEMMA EnterPassKeepsHeap ==
  ASSUME enter_pass
  PROVE  HeapInv'
BY MemLibAssumption DEF enter_pass, mem_reset_brk, HeapInv, InPass, BrkInRegion, mem_max_addr

LEMMA SbrkKeepsHeap ==
  ASSUME IncrementsDoNotWrap, HeapInv, NEW size \in Sizes, sbrk(size)
  PROVE  HeapInv'
<1>1. InPass /\ InPass'
  BY DEF sbrk, InPass
<1>2. CASE mem_sbrk_fails(size) /\ UNCHANGED grown
  BY <1>1, <1>2 DEF mem_sbrk_fails, HeapInv, BrkInRegion, mem_max_addr
<1>3. CASE mem_sbrk(size) /\ grown' = grown + ToInt(size)
  <2>1. mem_brk' = Advance(mem_brk, size) /\ mem_brk' <= mem_max_addr
        /\ ToInt(size) >= 0
    BY <1>3, MemLibAssumption DEF mem_sbrk, SbrkFails, Advance, ToInt, mem_max_addr,
       HeapInv, BrkInRegion
  <2>2. mem_brk' = mem_brk + size /\ size \in Nat /\ ToInt(size) = size
    BY <2>1, AdvanceAdds DEF HeapInv, BrkInRegion
  <2>3. mem_brk \in MEM_START .. mem_max_addr /\ mem_brk = MEM_START + grown
    BY <1>1 DEF HeapInv, BrkInRegion
  <2>4. MEM_START \in Nat /\ mem_max_addr \in Nat
    BY MemLibAssumption DEF mem_max_addr
  <2>5. mem_brk' \in MEM_START .. mem_max_addr
    BY <2>1, <2>2, <2>3, <2>4
  <2>6. grown' = grown + size
    BY <1>3, <2>2
  <2>7. grown \in Int
    BY DEF HeapInv
  <2>8. mem_brk' = MEM_START + grown' /\ grown' \in Int
    BY <2>2, <2>3, <2>4, <2>6, <2>7
  <2> QED
    BY <2>5, <2>8 DEF HeapInv, BrkInRegion, mem_max_addr
<1> QED
  BY <1>2, <1>3 DEF sbrk

LEMMA HeapStep ==
  ASSUME IncrementsDoNotWrap, HeapInv, [Next]_vars
  PROVE  HeapInv'
<1>1. CASE \E size \in Sizes : sbrk(size)
  BY <1>1, SbrkKeepsHeap
<1>2. CASE (\E o \in Option : option(o)) \/ check_team \/ init_fsecs
  <2>1. Untouched
    BY <1>2 DEF option, check_team, init_fsecs, Untouched, InPass, exit, goto
  <2> QED
    BY <2>1, UntouchedKeepsHeap
<1>3. CASE libc_read \/ libc_fsecs \/ libc_next \/ libc_done \/ memory
  <2>1. Untouched
    BY <1>3 DEF libc_read, libc_fsecs, libc_next, libc_done, memory, Untouched,
       InPass, exit, goto
  <2> QED
    BY <2>1, UntouchedKeepsHeap
<1>4. CASE eval_libc_valid \/ eval_libc_speed
  <2>1. Untouched
    BY <1>4 DEF eval_libc_valid, eval_libc_speed, unmeasured, measured, Untouched,
       InPass, exit, goto
  <2> QED
    BY <2>1, UntouchedKeepsHeap
<1>5. CASE mm_next \/ mm_done \/ finish \/ eval_mm_util
  <2>1. Untouched
    BY <1>5 DEF mm_next, mm_done, finish, eval_mm_util, unmeasured, Untouched,
       InPass, exit, goto
  <2> QED
    BY <2>1, UntouchedKeepsHeap
<1>6. CASE mm_read
  <2>1. enter_pass \/ Untouched
    BY <1>6 DEF mm_read, Untouched, InPass, exit
  <2> QED
    BY <2>1, UntouchedKeepsHeap, EnterPassKeepsHeap
<1>7. CASE eval_mm_valid
  <2>1. enter_pass \/ Untouched
    BY <1>7 DEF eval_mm_valid, unmeasured, Untouched, InPass, exit, goto
  <2> QED
    BY <2>1, UntouchedKeepsHeap, EnterPassKeepsHeap
<1>8. CASE fsecs
  BY <1>8, EnterPassKeepsHeap DEF fsecs
<1>9. CASE eval_mm_speed
  <2>1. enter_pass \/ Untouched
    BY <1>9 DEF eval_mm_speed, Untouched, InPass
  <2> QED
    BY <2>1, UntouchedKeepsHeap, EnterPassKeepsHeap
<1>10. CASE UNCHANGED vars
  <2>1. Untouched
    BY <1>10 DEF vars, Untouched, InPass
  <2> QED
    BY <2>1, UntouchedKeepsHeap
<1> QED
  BY <1>1, <1>2, <1>3, <1>4, <1>5, <1>6, <1>7, <1>8, <1>9, <1>10 DEF Next, Step

\* A pass is judged by the heap it asked for itself, as long as no sum of the
\* break and an increment wraps around (mdriver.c:588, 709, 792, memlib.c:53-91).
THEOREM PassStartsEmpty ==
  ASSUME IncrementsDoNotWrap
  PROVE  Spec => []HeapIsOfThisPass
<1>1. Init => HeapInv
  BY MemLibAssumption DEF Init, mem_init, HeapInv, InPass, BrkInRegion, mem_max_addr
<1>2. HeapInv => HeapIsOfThisPass
  BY MemLibAssumption
  DEF HeapInv, HeapIsOfThisPass, InPass, mem_heapsize, BrkInRegion
<1>3. HeapInv /\ [Next]_vars => HeapInv'
  BY HeapStep
<1> QED
  BY <1>1, <1>2, <1>3, PTL DEF Spec

\* What the program does to the break is what the memory system allows.
LEMMA MemoryStep ==
  ASSUME [Next]_vars
  PROVE  [MemNext]_mem_brk
<1>1. CASE \E size \in Sizes : sbrk(size)
  BY <1>1 DEF sbrk, MemNext
<1>2. CASE mm_read \/ eval_mm_valid \/ fsecs \/ eval_mm_speed
  BY <1>2 DEF mm_read, eval_mm_valid, fsecs, eval_mm_speed, enter_pass, heap, MemNext
<1>3. CASE (\E o \in Option : option(o)) \/ check_team \/ init_fsecs \/ memory
  BY <1>3 DEF option, check_team, init_fsecs, memory, heap
<1>4. CASE libc_read \/ eval_libc_valid \/ libc_fsecs \/ eval_libc_speed
  BY <1>4 DEF libc_read, eval_libc_valid, libc_fsecs, eval_libc_speed, heap
<1>5. CASE libc_next \/ libc_done \/ eval_mm_util \/ mm_next \/ mm_done \/ finish
  BY <1>5 DEF libc_next, libc_done, eval_mm_util, mm_next, mm_done, finish, heap
<1>6. CASE UNCHANGED vars
  BY <1>6 DEF vars, heap
<1> QED
  BY <1>1, <1>2, <1>3, <1>4, <1>5, <1>6 DEF Next, Step

\* Through all passes of the program the break moves down only when a pass begins
\* with an empty heap (memlib.c:53-78, mdriver.c:588, 709, 792).
THEOREM PassesNeverShrinkHeap ==
  ASSUME IncrementsDoNotWrap
  PROVE  Spec => HeapNeverShrinks
<1>1. Init => mem_init
  BY DEF Init
<1>2. [Next]_vars => [MemNext]_mem_brk
  BY MemoryStep
<1>3. Spec => MemSpec
  BY <1>1, <1>2, PTL DEF Spec, MemSpec
<1> QED
  BY <1>3, HeapIsNotShrunk

-----------------------------------------------------------------------------
(* The report.                                                             *)

Stats == [ops : Nat, valid : BOOLEAN, secs : Int, util : Int]

\* Writing one field of one record.
SetOps(f, k, x) == [f EXCEPT ![k].ops = x]
SetSecs(f, k, x) == [f EXCEPT ![k].secs = x]
SetUtil(f, k, x) == [f EXCEPT ![k].util = x]
SetValid(f, k) == [f EXCEPT ![k].valid = TRUE]

LEMMA FieldsSet ==
  ASSUME NEW n \in Nat, NEW f \in [1 .. n -> Stats], NEW k \in 1 .. n, NEW x \in Int,
         NEW g, \/ x \in Nat /\ g = SetOps(f, k, x)
                \/ g = SetSecs(f, k, x)
                \/ g = SetUtil(f, k, x)
  PROVE  /\ g \in [1 .. n -> Stats]
         /\ \A j \in 1 .. n : g[j].valid = f[j].valid
<1>1. CASE x \in Nat /\ g = SetOps(f, k, x)
  BY <1>1 DEF Stats, SetOps
<1>2. CASE g = SetSecs(f, k, x)
  BY <1>2 DEF Stats, SetSecs
<1>3. CASE g = SetUtil(f, k, x)
  BY <1>3 DEF Stats, SetUtil
<1> QED
  BY <1>1, <1>2, <1>3

LEMMA ValidSet ==
  ASSUME NEW n \in Nat, NEW f \in [1 .. n -> Stats], NEW k \in 1 .. n
  PROVE  /\ SetValid(f, k) \in [1 .. n -> Stats]
         /\ \A j \in 1 .. n : SetValid(f, k)[j].valid = (j = k \/ f[j].valid)
BY DEF Stats, SetValid

\* What is measured is a number, whatever the clocks do.
ReadingsInv == tod \in Int /\ start \in Int /\ remaining \in Int

TimerMoves ==
  \/ UNCHANGED timer
  \/ start_timing \/ stop_timing
  \/ \E d \in Durations : idle(d) \/ expire(d) \/ \E s \in Adjustments : elapse(d, s)

LEMMA NextMovesTimer == [Next]_vars => TimerMoves
<1> SUFFICES ASSUME [Next]_vars PROVE TimerMoves
  OBVIOUS
<1>1. ASSUME NEW p, unmeasured(p) \/ measured(p) PROVE TimerMoves
  BY <1>1 DEF unmeasured, measured, TimerMoves
<1>2. CASE eval_libc_valid
  BY <1>2, <1>1 DEF eval_libc_valid, TimerMoves
<1>3. CASE eval_mm_valid
  BY <1>3, <1>1 DEF eval_mm_valid, TimerMoves
<1>4. CASE eval_mm_util
  BY <1>4, <1>1 DEF eval_mm_util, TimerMoves
<1>5. CASE eval_libc_speed \/ eval_mm_speed
  BY <1>5, <1>1 DEF eval_libc_speed, eval_mm_speed, TimerMoves
<1>6. CASE libc_fsecs \/ fsecs \/ libc_next \/ mm_next
  BY <1>6 DEF libc_fsecs, fsecs, libc_next, mm_next, TimerMoves
<1>7. CASE (\E o \in Option : option(o)) \/ check_team \/ init_fsecs \/ libc_read \/ libc_done
  BY <1>7 DEF option, check_team, init_fsecs, libc_read, libc_done, TimerMoves
<1>8. CASE memory \/ mm_read \/ mm_done \/ finish \/ \E size \in Sizes : sbrk(size)
  BY <1>8 DEF memory, mm_read, mm_done, finish, sbrk, TimerMoves
<1>9. CASE UNCHANGED vars
  BY <1>9 DEF vars, TimerMoves
<1> QED
  BY <1>2, <1>3, <1>4, <1>5, <1>6, <1>7, <1>8, <1>9 DEF Next, Step

LEMMA ReadingsStep == ReadingsInv /\ [Next]_vars => ReadingsInv'
<1> SUFFICES ASSUME ReadingsInv, TimerMoves PROVE ReadingsInv'
  BY NextMovesTimer
<1>1. CASE UNCHANGED timer
  BY <1>1 DEF timer, ReadingsInv
<1>2. CASE start_timing \/ stop_timing
  BY <1>2, FtimerAssumption DEF start_timing, stop_timing, init_etime, get_etime, ReadingsInv
<1>3. ASSUME NEW d \in Durations, idle(d) \/ expire(d) \/ \E s \in Adjustments : elapse(d, s)
      PROVE  ReadingsInv'
  BY <1>3, FtimerAssumption DEF idle, expire, elapse, run_down, Armed, ReadingsInv
<1> QED
  BY <1>1, <1>2, <1>3 DEF TimerMoves

LEMMA MeasuredInt == ReadingsInv => tmeas \in Int
BY FtimerAssumption DEF ReadingsInv, tmeas, get_etime

Early == {"options", "start", "libc", "libc_valid", "libc_timed", "libc_speed", "memory"}
Late == {"mm", "valid", "util", "timed", "speed", "report"}

\* The error count is 0 exactly as long as every trace passed is valid, and the
\* traces to come are not.
BooksInv ==
  /\ num_tracefiles \in Nat /\ errors \in Nat
  /\ phase \in Early \union Late \union {"exited"}
  /\ phase \in Early => errors = 0
  /\ phase \in {"options", "start", "memory"} => i = 1
  /\ phase \in Late =>
       /\ i \in 1 .. num_tracefiles + 1
       /\ mm_stats \in [1 .. num_tracefiles -> Stats]
       /\ errors = 0 <=> \A j \in 1 .. i - 1 : mm_stats[j].valid
       /\ \A j \in i + 1 .. num_tracefiles : ~ mm_stats[j].valid
  /\ phase \in {"mm", "valid"} /\ i <= num_tracefiles => ~ mm_stats[i].valid
  /\ phase \in {"valid", "util", "timed", "speed"} => i <= num_tracefiles
  /\ phase \in {"util", "timed", "speed"} => mm_stats[i].valid
  /\ phase = "report" => i = num_tracefiles + 1

LEMMA BooksInit == Init => BooksInv /\ ReadingsInv /\ TimerInv
BY FtimerAssumption
DEF Init, TimerInit, BooksInv, ReadingsInv, TimerInv, num_tracefiles, Early, Late

LEMMA OptionKeepsBooks ==
  ASSUME BooksInv, NEW o \in Option, option(o)
  PROVE  BooksInv'
<1>1. phase = "options" /\ errors = 0 /\ i = 1 /\ num_tracefiles \in Nat
  BY DEF option, BooksInv, Early
<1>2. UNCHANGED <<i, errors>> /\ phase' \in {"options", "exited"}
  BY <1>1 DEF option, goto, exit
<1>3. num_tracefiles' \in Nat
  BY <1>1 DEF option, num_tracefiles
<1> QED
  BY <1>1, <1>2, <1>3 DEF BooksInv, Early, Late

LEMMA StartKeepsBooks ==
  ASSUME BooksInv, check_team \/ init_fsecs \/ memory
  PROVE  BooksInv'
<1>1. CASE check_team
  <2>1. phase = "options" /\ errors = 0 /\ i = 1 /\ num_tracefiles \in Nat
    BY <1>1 DEF check_team, BooksInv, Early
  <2>2. UNCHANGED <<i, errors>> /\ phase' \in {"start", "exited"}
    BY <1>1 DEF check_team, goto, exit
  <2>3. num_tracefiles' \in Nat
    BY <1>1, <2>1, MainAssumption DEF check_team, num_tracefiles
  <2> QED
    BY <2>1, <2>2, <2>3 DEF BooksInv, Early, Late
<1>2. CASE init_fsecs
  BY <1>2 DEF init_fsecs, BooksInv, num_tracefiles, goto, exit, Early, Late
<1>3. CASE memory
  <2>1. UNCHANGED <<tracefiles, i, errors>> /\ i = 1 /\ errors = 0
    BY <1>3 DEF memory, BooksInv, options, Early
  <2>2. num_tracefiles' = num_tracefiles /\ num_tracefiles \in Nat
    BY <2>1 DEF num_tracefiles, BooksInv
  <2>3. CASE phase' = "exited"
    BY <2>1, <2>2, <2>3 DEF BooksInv, Early, Late
  <2>4. CASE phase' = "mm" /\ mm_stats' = [j \in 1 .. num_tracefiles |-> Zero]
    <3>1. Zero \in Stats /\ Zero.valid = FALSE
      BY DEF Zero, Stats
    <3>2. mm_stats' \in [1 .. num_tracefiles -> Stats]
      BY <3>1, <2>4
    <3>3. \A j \in 1 .. num_tracefiles : ~ mm_stats'[j].valid
      BY <3>1, <2>4
    <3> QED
      BY <2>1, <2>2, <2>4, <3>2, <3>3 DEF BooksInv, Early, Late
  <2> QED
    BY <1>3, <2>3, <2>4 DEF memory, goto, exit
<1> QED
  BY <1>1, <1>2, <1>3

LEMMA LibcKeepsBooks ==
  ASSUME BooksInv,
         \/ libc_read \/ eval_libc_valid \/ libc_fsecs \/ eval_libc_speed
         \/ libc_next \/ libc_done
  PROVE  BooksInv'
<1>1. UNCHANGED tracefiles /\ errors = 0 /\ num_tracefiles \in Nat
  BY DEF libc_read, eval_libc_valid, libc_fsecs, eval_libc_speed, libc_next, libc_done,
     options, BooksInv, Early
<1>2. \/ errors' = 0 /\ phase' \in {"libc", "libc_valid", "libc_timed", "libc_speed"}
      \/ errors' = 0 /\ i' = 1 /\ phase' = "memory"
      \/ errors' \in Nat /\ phase' = "exited"
  BY <1>1 DEF libc_read, eval_libc_valid, libc_fsecs, eval_libc_speed, libc_next, libc_done,
     unmeasured, measured, goto, exit
<1> QED
  BY <1>1, <1>2 DEF BooksInv, num_tracefiles, Early, Late

\* A step that leaves the books as they are, within the passes over one trace.
LEMMA SamePassKeepsBooks ==
  ASSUME BooksInv, phase \in Late, UNCHANGED <<tracefiles, i, errors, mm_stats>>,
         \/ phase' = phase
         \/ phase = "timed" /\ phase' = "speed"
         \/ phase = "mm" /\ i > num_tracefiles /\ phase' = "report"
         \/ phase' = "exited"
  PROVE  BooksInv'
BY DEF BooksInv, num_tracefiles, Early, Late

LEMMA EndKeepsBooks ==
  ASSUME BooksInv, UNCHANGED <<tracefiles, errors>>, phase' = "exited"
  PROVE  BooksInv'
BY DEF BooksInv, num_tracefiles, Early, Late

LEMMA MMReadKeepsBooks ==
  ASSUME BooksInv, mm_read
  PROVE  BooksInv'
<1>1. phase = "mm" /\ i \in 1 .. num_tracefiles /\ num_tracefiles \in Nat
      /\ mm_stats \in [1 .. num_tracefiles -> Stats]
  BY DEF mm_read, BooksInv, Late
<1>2. UNCHANGED <<tracefiles, i, errors>> /\ num_tracefiles' = num_tracefiles
  BY DEF mm_read, options, num_tracefiles
<1>3. CASE phase' = "exited"
  BY <1>2, <1>3, EndKeepsBooks
<1>4. ASSUME NEW n \in OpCounts, mm_stats' = SetOps(mm_stats, i, n), phase' = "valid"
      PROVE  BooksInv'
  <2>1. n \in Nat
    BY MainAssumption
  <2>2. mm_stats' \in [1 .. num_tracefiles -> Stats]
        /\ \A j \in 1 .. num_tracefiles : mm_stats'[j].valid = mm_stats[j].valid
    BY <1>1, <1>4, <2>1, FieldsSet
  <2>3. /\ errors \in Nat
        /\ errors = 0 <=> \A j \in 1 .. i - 1 : mm_stats[j].valid
        /\ \A j \in i .. num_tracefiles : ~ mm_stats[j].valid
    BY <1>1 DEF BooksInv, Late
  <2>4. /\ errors = 0 <=> \A j \in 1 .. i - 1 : mm_stats'[j].valid
        /\ \A j \in i .. num_tracefiles : ~ mm_stats'[j].valid
    BY <1>1, <2>2, <2>3
  <2> QED
    BY <1>1, <1>2, <1>4, <2>2, <2>3, <2>4 DEF BooksInv, Early, Late
<1> QED
  BY <1>3, <1>4 DEF mm_read, goto, exit, SetOps

LEMMA ValidKeepsBooks ==
  ASSUME BooksInv, status = "none", eval_mm_valid
  PROVE  BooksInv'
<1>1. phase = "valid" /\ i \in 1 .. num_tracefiles /\ num_tracefiles \in Nat
      /\ errors \in Nat /\ mm_stats \in [1 .. num_tracefiles -> Stats]
  BY DEF eval_mm_valid, BooksInv, Late
<1>2. UNCHANGED tracefiles /\ num_tracefiles' = num_tracefiles
  BY DEF eval_mm_valid, options, num_tracefiles
<1>3. CASE phase' = "util" /\ UNCHANGED <<i, errors>>
           /\ mm_stats' = SetValid(mm_stats, i)
  <2>1. mm_stats' \in [1 .. num_tracefiles -> Stats]
        /\ \A j \in 1 .. num_tracefiles : mm_stats'[j].valid = (j = i \/ mm_stats[j].valid)
    BY <1>1, <1>3, ValidSet
  <2>2. mm_stats'[i].valid
    BY <1>1, <2>1
  <2>3. \A j \in 1 .. num_tracefiles : j # i => (mm_stats'[j].valid <=> mm_stats[j].valid)
    BY <2>1
  <2>4. errors = 0 <=> \A j \in 1 .. i - 1 : mm_stats'[j].valid
    <3>1. \A j \in 1 .. i - 1 : j \in 1 .. num_tracefiles /\ j # i
      BY <1>1
    <3>2. errors = 0 <=> \A j \in 1 .. i - 1 : mm_stats[j].valid
      BY <1>1 DEF BooksInv, Late
    <3> QED
      BY <2>3, <3>1, <3>2
  <2>5. \A j \in i + 1 .. num_tracefiles : ~ mm_stats'[j].valid
    <3>1. \A j \in i + 1 .. num_tracefiles : j \in 1 .. num_tracefiles /\ j # i
      BY <1>1
    <3>2. \A j \in i + 1 .. num_tracefiles : ~ mm_stats[j].valid
      BY <1>1 DEF BooksInv, Late
    <3> QED
      BY <2>3, <3>1, <3>2
  <2> QED
    BY <1>1, <1>2, <1>3, <2>1, <2>2, <2>4, <2>5 DEF BooksInv, Early, Late
<1>4. CASE phase' = "mm" /\ errors' = errors + 1 /\ i' = i + 1 /\ UNCHANGED mm_stats
  <2>1. ~ mm_stats[i].valid
    BY <1>1 DEF BooksInv
  <2>2. errors' # 0 /\ i \in 1 .. i' - 1 /\ i' \in 1 .. num_tracefiles + 1
    BY <1>1, <1>4
  <2> QED
    BY <1>1, <1>2, <1>4, <2>1, <2>2 DEF BooksInv, Early, Late
<1>5. CASE phase' = "exited" /\ errors' \in {errors, errors + 1}
  BY <1>1, <1>2, <1>5 DEF BooksInv, Early, Late
<1>6. \/ phase' = "exited" /\ errors' \in {errors, errors + 1}
      \/ /\ phase' = "util" /\ UNCHANGED <<i, errors>>
         /\ mm_stats' = SetValid(mm_stats, i)
      \/ phase' = "mm" /\ errors' = errors + 1 /\ i' = i + 1 /\ UNCHANGED mm_stats
  BY ZenonT(30) DEF eval_mm_valid, unmeasured, malloc_error, goto, exit, SetValid
<1> QED
  BY <1>3, <1>4, <1>5, <1>6

LEMMA UtilKeepsBooks ==
  ASSUME BooksInv, eval_mm_util
  PROVE  BooksInv'
<1>1. phase = "util" /\ i \in 1 .. num_tracefiles /\ num_tracefiles \in Nat
      /\ mm_stats \in [1 .. num_tracefiles -> Stats]
  BY DEF eval_mm_util, BooksInv, Late
<1>2. UNCHANGED <<tracefiles, i, errors>> /\ num_tracefiles' = num_tracefiles
  BY DEF eval_mm_util, options, num_tracefiles
<1>3. CASE phase' = "exited"
  BY <1>2, <1>3, EndKeepsBooks
<1>4. ASSUME NEW u \in Utils, mm_stats' = SetUtil(mm_stats, i, u), phase' = "timed"
      PROVE  BooksInv'
  <2>1. u \in Int
    BY MainAssumption
  <2>2. mm_stats' \in [1 .. num_tracefiles -> Stats]
        /\ \A j \in 1 .. num_tracefiles : mm_stats'[j].valid = mm_stats[j].valid
    BY <1>1, <1>4, <2>1, FieldsSet
  <2> QED
    BY <1>1, <1>2, <1>4, <2>2 DEF BooksInv, Early, Late
<1>5. phase' = "exited" \/ \E u \in Utils : /\ mm_stats' = SetUtil(mm_stats, i, u)
                                          /\ phase' = "timed"
  BY ZenonT(30) DEF eval_mm_util, unmeasured, goto, exit, SetUtil
<1> QED
  BY <1>3, <1>4, <1>5

LEMMA MMNextKeepsBooks ==
  ASSUME BooksInv, ReadingsInv, mm_next
  PROVE  BooksInv'
<1>1. phase = "speed" /\ i \in 1 .. num_tracefiles /\ num_tracefiles \in Nat
      /\ mm_stats \in [1 .. num_tracefiles -> Stats] /\ mm_stats[i].valid
  BY DEF mm_next, BooksInv, Late
<1>2. UNCHANGED <<tracefiles, errors>> /\ i' = i + 1 /\ phase' = "mm"
      /\ num_tracefiles' = num_tracefiles
  BY DEF mm_next, options, num_tracefiles, goto
<1>3. mm_stats' = SetSecs(mm_stats, i, tmeas) /\ tmeas \in Int
  BY MeasuredInt, Zenon DEF mm_next, SetSecs
<1>4. mm_stats' \in [1 .. num_tracefiles -> Stats]
      /\ \A j \in 1 .. num_tracefiles : mm_stats'[j].valid = mm_stats[j].valid
  BY <1>1, <1>3, FieldsSet
<1>5. i' \in 1 .. num_tracefiles + 1 /\ i' - 1 = i
      /\ \A j \in 1 .. i : j = i \/ j \in 1 .. i - 1
  BY <1>1, <1>2
<1>6. errors = 0 <=> \A j \in 1 .. i' - 1 : mm_stats'[j].valid
  <2>1. errors = 0 <=> \A j \in 1 .. i - 1 : mm_stats[j].valid
    BY <1>1 DEF BooksInv, Late
  <2>2. \A j \in 1 .. i : mm_stats'[j].valid = mm_stats[j].valid
    BY <1>1, <1>4
  <2>3. \A j \in 1 .. i - 1 : j \in 1 .. i
    BY <1>1
  <2>4. (\A j \in 1 .. i : mm_stats'[j].valid) <=> \A j \in 1 .. i - 1 : mm_stats[j].valid
    BY <1>1, <1>5, <2>2, <2>3
  <2> QED
    BY <1>5, <2>1, <2>4
<1>7. \A j \in i' .. num_tracefiles : ~ mm_stats'[j].valid
  BY <1>1, <1>2, <1>4 DEF BooksInv, Late
<1> QED
  BY <1>1, <1>2, <1>4, <1>5, <1>6, <1>7 DEF BooksInv, Early, Late

LEMMA BooksStep ==
  ASSUME BooksInv, ReadingsInv, TimerInv, [Next]_vars
  PROVE  BooksInv'
<1>1. CASE \E o \in Option : option(o)
  BY <1>1, OptionKeepsBooks
<1>2. CASE check_team \/ init_fsecs \/ memory
  BY <1>2, StartKeepsBooks
<1>3. CASE \/ libc_read \/ eval_libc_valid \/ libc_fsecs \/ eval_libc_speed
           \/ libc_next \/ libc_done
  BY <1>3, LibcKeepsBooks
<1>4. CASE mm_read
  BY <1>4, MMReadKeepsBooks
<1>5. CASE eval_mm_valid
  <2>1. status = "none"
    BY <1>5 DEF eval_mm_valid, TimerInv
  <2> QED
    BY <1>5, <2>1, ValidKeepsBooks
<1>6. CASE eval_mm_util
  BY <1>6, UtilKeepsBooks
<1>7. CASE mm_next
  BY <1>7, MMNextKeepsBooks
<1>8. CASE fsecs \/ eval_mm_speed \/ mm_done \/ finish \/ \E size \in Sizes : sbrk(size)
  <2>1. phase \in Late /\ UNCHANGED <<tracefiles, i, errors, mm_stats>>
    BY <1>8 DEF fsecs, eval_mm_speed, mm_done, finish, sbrk, options, Late
  <2>2. \/ phase' = phase
        \/ phase = "timed" /\ phase' = "speed"
        \/ phase = "mm" /\ i > num_tracefiles /\ phase' = "report"
        \/ phase' = "exited"
    BY <1>8 DEF fsecs, eval_mm_speed, mm_done, finish, sbrk, measured, goto, exit
  <2> QED
    BY <2>1, <2>2, SamePassKeepsBooks
<1>9. CASE UNCHANGED vars
  BY <1>9 DEF vars, options, BooksInv, num_tracefiles
<1> QED
  BY <1>1, <1>2, <1>3, <1>4, <1>5, <1>6, <1>7, <1>8, <1>9 DEF Next, Step

LEMMA BooksAgree == BooksInv => ReportAgrees
<1> SUFFICES ASSUME BooksInv, phase = "report"
             PROVE  /\ errors = 0 <=> numcorrect = num_tracefiles
                    /\ errors = 0 => printresults = Sums
  BY DEF ReportAgrees
<1> DEFINE N == num_tracefiles
           Valid == { j \in 1 .. N : mm_stats[j].valid }
<1>1. N \in Nat /\ i = N + 1
      /\ (errors = 0 <=> \A j \in 1 .. i - 1 : mm_stats[j].valid)
  BY DEF BooksInv, Late
<1>2. i - 1 = N
  BY <1>1
<1>3. errors = 0 <=> Valid = 1 .. N
  <2> HIDE DEF N
  <2> QED
    BY <1>1, <1>2
<1>4. IsFiniteSet(1 .. N) /\ Cardinality(1 .. N) = N
  BY <1>1, FS_Interval
<1>5. Valid \subseteq 1 .. N
  OBVIOUS
<1>6. Cardinality(Valid) = N <=> Valid = 1 .. N
  <2> HIDE DEF Valid
  <2> QED
    BY <1>4, <1>5, FS_Subset
<1>7. numcorrect = Cardinality(Valid) /\ printresults = Total(Valid) /\ Sums = Total(1 .. N)
  BY DEF numcorrect, printresults, Sums
<1> QED
  <2> HIDE DEF Valid, N
  <2>1. errors = 0 <=> numcorrect = N
    BY <1>3, <1>6, <1>7
  <2>2. errors = 0 => printresults = Sums
    BY <1>3, <1>7
  <2> QED
    BY <2>1, <2>2 DEF N

\* The index is printed exactly when every trace was correct, and the table then
\* adds up what the index does (mdriver.c:311-358, 931-971).
THEOREM CountAndFlagsAgree == Spec => []ReportAgrees
<1>1. Init => BooksInv /\ ReadingsInv /\ TimerInv
  BY BooksInit
<1>2. BooksInv /\ ReadingsInv /\ TimerInv /\ [Next]_vars
        => BooksInv' /\ ReadingsInv' /\ TimerInv'
  BY BooksStep, ReadingsStep, TimerStep
<1> QED
  BY <1>1, <1>2, BooksAgree, PTL DEF Spec

-----------------------------------------------------------------------------
(* The command line.                                                       *)

Of(o) == { j \in DOMAIN args : args[j].opt = o }
LastArg(o) == args[Max(Of(o))].arg
HasLast(o) == Of(o) # {} => Max(Of(o)) \in Of(o)

\* What FilesAreAsAsked says, while options are still read: there are no default
\* files yet.
AskedInv ==
  /\ args \in Seq(Option)
  /\ \A k : HasLast(k)
  /\ phase \in {"options", "start"} =>
       IF Of("f") # {}
       THEN tracefiles = <<LastArg("f")>> /\ tracedir = CurrDir
       ELSE /\ tracefiles = IF phase = "options" THEN << >> ELSE DEFAULT_TRACEFILES
            /\ tracedir = IF Of("t") = {} THEN TRACEDIR ELSE EndsWithSlash(LastArg("t"))

LEMMA MaxOfMore ==
  ASSUME NEW n \in Nat, NEW S \in SUBSET (1 .. n)
  PROVE  Max(S \union {n + 1}) = n + 1
<1>1. \A y \in S \union {n + 1} : y \in Int /\ n + 1 >= y
  OBVIOUS
<1>2. \A x \in S \union {n + 1} : (\A y \in S \union {n + 1} : x >= y) => x = n + 1
  BY <1>1
<1> QED
  BY <1>1, <1>2 DEF Max

\* The last option is the last of its kind, and changes nothing for the others.
LEMMA OneMoreOption ==
  ASSUME args \in Seq(Option), NEW o \in Option, args' = Append(args, o),
         NEW k, HasLast(k)
  PROVE  /\ args' \in Seq(Option) /\ HasLast(k)'
         /\ o.opt = k => Of(k)' # {} /\ LastArg(k)' = o.arg
         /\ o.opt # k => /\ Of(k)' = Of(k)
                         /\ Of(k) # {} => LastArg(k)' = LastArg(k)
<1> DEFINE n == Len(args)
<1>1. n \in Nat /\ DOMAIN args = 1 .. n /\ DOMAIN args' = 1 .. n + 1
      /\ args'[n + 1] = o /\ \A j \in 1 .. n : args'[j] = args[j]
  OBVIOUS
<1>2. args' \in Seq(Option)
  OBVIOUS
<1>3. Of(k) \subseteq 1 .. n
  BY <1>1 DEF Of
<1>4. CASE o.opt = k
  <2>1. Of(k)' = Of(k) \union {n + 1}
    BY <1>1, <1>4 DEF Of
  <2>2. Max(Of(k)') = n + 1
    BY <1>1, <1>3, <2>1, MaxOfMore
  <2> QED
    BY <1>1, <1>2, <1>4, <2>1, <2>2 DEF LastArg, HasLast
<1>5. CASE o.opt # k
  <2>1. Of(k)' = Of(k)
    BY <1>1, <1>5 DEF Of
  <2>2. ASSUME Of(k) # {} PROVE LastArg(k)' = LastArg(k)
    <3>1. Max(Of(k)) \in Of(k)
      BY <2>2 DEF HasLast
    <3> QED
      BY <1>1, <1>3, <2>1, <3>1 DEF LastArg
  <2> QED
    BY <1>2, <1>5, <2>1, <2>2 DEF HasLast
<1> QED
  BY <1>4, <1>5

LEMMA OptionKeepsAsked ==
  ASSUME AskedInv, NEW o \in Option, option(o)
  PROVE  AskedInv'
<1>1. args' = Append(args, o) /\ phase = "options" /\ args \in Seq(Option)
  BY DEF option, AskedInv
<1>2. phase' \in {"options", "exited"}
  BY <1>1 DEF option, goto, exit
<1>3. args' \in Seq(Option) /\ \A k : HasLast(k)'
  BY <1>1, OneMoreOption DEF AskedInv
<1>4. CASE o.opt = "f"
  <2>1. tracefiles' = <<o.arg>> /\ tracedir' = CurrDir
    BY <1>4, Zenon DEF option
  <2>2. Of("f")' # {} /\ LastArg("f")' = o.arg
    BY <1>1, <1>4, OneMoreOption DEF AskedInv
  <2> QED
    BY <1>3, <2>1, <2>2 DEF AskedInv
<1>5. CASE o.opt = "t"
  <2>1. UNCHANGED tracefiles
        /\ tracedir' = IF num_tracefiles = 1 THEN tracedir ELSE EndsWithSlash(o.arg)
    BY <1>5 DEF option, set_tracedir
  <2>2. Of("f")' = Of("f") /\ (Of("f") # {} => LastArg("f")' = LastArg("f"))
        /\ Of("t")' # {} /\ LastArg("t")' = o.arg
    BY <1>1, <1>5, OneMoreOption DEF AskedInv
  <2>3. num_tracefiles = 1 <=> Of("f") # {}
    <3>1. Of("f") # {} => tracefiles = <<LastArg("f")>>
      BY <1>1 DEF AskedInv
    <3>2. Of("f") = {} => tracefiles = << >>
      BY <1>1 DEF AskedInv
    <3>3. Len(<< >>) = 0 /\ Len(<<LastArg("f")>>) = 1
      OBVIOUS
    <3> QED
      BY <3>1, <3>2, <3>3 DEF num_tracefiles
  <2> QED
    BY <1>1, <1>2, <1>3, <2>1, <2>2, <2>3 DEF AskedInv
<1>6. CASE o.opt \notin {"f", "t"}
  <2>1. UNCHANGED <<tracefiles, tracedir>>
    BY <1>6 DEF option
  <2>2. \A k \in {"f", "t"} :
          Of(k)' = Of(k) /\ (Of(k) # {} => LastArg(k)' = LastArg(k))
    BY <1>1, <1>6, OneMoreOption DEF AskedInv
  <2> QED
    BY <1>1, <1>2, <1>3, <2>1, <2>2 DEF AskedInv
<1> QED
  BY <1>4, <1>5, <1>6

LEMMA TeamKeepsAsked ==
  ASSUME AskedInv, check_team
  PROVE  AskedInv'
<1>1. phase = "options" /\ UNCHANGED <<args, tracedir>>
      /\ tracefiles' = IF tracefiles = << >> THEN DEFAULT_TRACEFILES ELSE tracefiles
  BY DEF check_team
<1>2. Of("f")' = Of("f") /\ Of("t")' = Of("t") /\ LastArg("f")' = LastArg("f")
      /\ LastArg("t")' = LastArg("t") /\ \A k : HasLast(k)' = HasLast(k)
  BY <1>1 DEF Of, LastArg, HasLast
<1>3. phase' \in {"start", "exited"}
  BY DEF check_team, goto, exit
<1>4. <<LastArg("f")>> # << >>
  OBVIOUS
<1>5. CASE Of("f") # {}
  <2>1. tracefiles' = <<LastArg("f")>> /\ tracedir' = CurrDir
    BY <1>1, <1>4, <1>5 DEF AskedInv
  <2> QED
    BY <1>1, <1>2, <1>3, <1>5, <2>1 DEF AskedInv
<1>6. CASE Of("f") = {}
  <2>1. /\ tracefiles' = DEFAULT_TRACEFILES
        /\ tracedir' = IF Of("t") = {} THEN TRACEDIR ELSE EndsWithSlash(LastArg("t"))
    BY <1>1, <1>6 DEF AskedInv
  <2> QED
    BY <1>1, <1>2, <1>3, <1>6, <2>1 DEF AskedInv, EndsWithSlash
<1> QED
  BY <1>5, <1>6

LEMMA AskedStep ==
  ASSUME AskedInv, [Next]_vars
  PROVE  AskedInv'
<1>1. CASE \E o \in Option : option(o)
  BY <1>1, OptionKeepsAsked
<1>2. CASE check_team
  BY <1>2, TeamKeepsAsked
<1>3. CASE init_fsecs
  <2>1. args' = << >> /\ phase' \in {"libc", "memory", "exited"}
    BY <1>3 DEF init_fsecs, goto, exit
  <2>2. \A k : Of(k)' = {}
    BY <2>1 DEF Of
  <2> QED
    BY <2>1, <2>2 DEF AskedInv, HasLast
<1>4. CASE UNCHANGED args /\ phase' \notin {"options", "start"}
  BY <1>4 DEF AskedInv, HasLast, Of
<1>5. CASE \/ libc_read \/ eval_libc_valid \/ libc_fsecs \/ eval_libc_speed
           \/ libc_next \/ libc_done
  <2>1. UNCHANGED args /\ phase' \notin {"options", "start"}
    BY <1>5 DEF libc_read, eval_libc_valid, libc_fsecs, eval_libc_speed, libc_next,
       libc_done, unmeasured, measured, goto, exit, options
  <2> QED
    BY <2>1, <1>4
<1>6. CASE \/ memory \/ mm_read \/ eval_mm_valid \/ eval_mm_util \/ fsecs
           \/ eval_mm_speed \/ mm_next \/ mm_done \/ finish
  <2>1. UNCHANGED args /\ phase' \notin {"options", "start"}
    BY <1>6, ZenonT(60) DEF memory, mm_read, eval_mm_valid, eval_mm_util, fsecs, eval_mm_speed, mm_next,
       mm_done, finish, unmeasured, measured, goto, exit, options
  <2> QED
    BY <2>1, <1>4
<1>7. CASE \E size \in Sizes : sbrk(size)
  <2>1. UNCHANGED args /\ phase' \notin {"options", "start"}
    BY <1>7 DEF sbrk, options
  <2> QED
    BY <2>1, <1>4
<1>8. CASE UNCHANGED vars
  BY <1>8 DEF vars, options, AskedInv, HasLast, Of, LastArg
<1> QED
  BY <1>1, <1>2, <1>3, <1>5, <1>6, <1>7, <1>8 DEF Next, Step

\* Whatever the command line, the traces are those of the last -f, or the default
\* ones in the directory of the last -t (mdriver.c:166-180, 232-236).
THEOREM OptionsAreFollowed == Spec => []FilesAreAsAsked
<1>1. Init => AskedInv
  <2> SUFFICES ASSUME Init PROVE AskedInv
    OBVIOUS
  <2>1. args = << >> /\ phase = "options" /\ tracefiles = << >> /\ tracedir = TRACEDIR
    BY DEF Init
  <2>2. \A k : Of(k) = {}
    BY <2>1 DEF Of
  <2> QED
    BY <2>1, <2>2 DEF AskedInv, HasLast
<1>2. AskedInv => FilesAreAsAsked
  BY DEF AskedInv, FilesAreAsAsked, Of, LastArg, EndsWithSlash
<1>3. AskedInv /\ [Next]_vars => AskedInv'
  BY AskedStep
<1> QED
  BY <1>1, <1>2, <1>3, PTL DEF Spec

-----------------------------------------------------------------------------
(* Types.                                                                  *)

TypesInv ==
  /\ tracefiles \in Seq(Names \union ToSet(DEFAULT_TRACEFILES))
  /\ team_check \in BOOLEAN /\ run_libc \in BOOLEAN
  /\ status \in {"none", "ok", "failed", "killed"}
  /\ repeat \in 0 .. Runs

LEMMA DefaultFilesType ==
  /\ DEFAULT_TRACEFILES \in Seq(Names \union ToSet(DEFAULT_TRACEFILES))
  /\ \A n \in Names : <<n>> \in Seq(Names \union ToSet(DEFAULT_TRACEFILES))
<1>1. PICK F, T : F = ToSet(DEFAULT_TRACEFILES) /\ T = Names \union F
  OBVIOUS
<1>2. DEFAULT_TRACEFILES \in Seq(F) /\ F \subseteq T
  BY <1>1, MainAssumption
<1>3. DEFAULT_TRACEFILES \in Seq(T)
  BY <1>2
<1>4. \A n \in Names : n \in T /\ <<n>> \in Seq(T)
  BY <1>1
<1> QED
  BY <1>1, <1>3, <1>4

\* Nothing after the command line sets an option, and no result but these ends it.
Proceeds ==
  /\ UNCHANGED options
  /\ UNCHANGED status \/ status' \in {"ok", "failed", "killed"}

LEMMA ProceedsKeepsTypes ==
  ASSUME TypesInv, Proceeds,
         \/ UNCHANGED repeat
         \/ repeat < Runs /\ repeat' = repeat + 1
         \/ repeat' = 0
  PROVE  TypesInv'
BY FtimerAssumption DEF TypesInv, Proceeds, options

LEMMA TypesStep ==
  ASSUME TypesInv, [Next]_vars
  PROVE  TypesInv'
<1>1. ASSUME NEW o \in Option, option(o)
      PROVE  TypesInv'
  <2>1. UNCHANGED tracefiles \/ \E n \in Names : tracefiles' = <<n>>
    BY <1>1 DEF option, Option
  <2>2. tracefiles' \in Seq(Names \union ToSet(DEFAULT_TRACEFILES))
    BY <2>1, DefaultFilesType DEF TypesInv
  <2>3. UNCHANGED repeat /\ team_check' \in BOOLEAN /\ run_libc' \in BOOLEAN
    BY <1>1 DEF option
  <2>4. UNCHANGED status \/ status' \in {"ok", "failed"}
    BY <1>1 DEF option, exit, goto
  <2> QED
    BY <2>2, <2>3, <2>4 DEF TypesInv
<1>2. CASE check_team
  <2>1. tracefiles' \in Seq(Names \union ToSet(DEFAULT_TRACEFILES))
    BY <1>2, DefaultFilesType DEF check_team, TypesInv
  <2>2. UNCHANGED <<repeat, team_check, run_libc>>
        /\ (UNCHANGED status \/ status' \in {"ok", "failed"})
    BY <1>2 DEF check_team, exit, goto
  <2> QED
    BY <2>1, <2>2 DEF TypesInv
<1>3. CASE init_fsecs
  BY <1>3 DEF init_fsecs, TypesInv, exit, goto
<1>4. CASE libc_read \/ libc_fsecs \/ libc_done \/ memory \/ mm_read
  BY <1>4, ProceedsKeepsTypes
  DEF libc_read, libc_fsecs, libc_done, memory, mm_read, Proceeds, exit, goto
<1>5. CASE eval_libc_valid \/ eval_libc_speed \/ libc_next
  BY <1>5, ProceedsKeepsTypes
  DEF eval_libc_valid, eval_libc_speed, libc_next, unmeasured, measured, Proceeds, exit, goto
<1>6. CASE eval_mm_valid \/ eval_mm_util
  BY <1>6, ProceedsKeepsTypes
  DEF eval_mm_valid, eval_mm_util, unmeasured, Proceeds, exit, goto
<1>7. CASE fsecs \/ eval_mm_speed \/ mm_next
  BY <1>7, ProceedsKeepsTypes
  DEF fsecs, eval_mm_speed, mm_next, measured, Proceeds, exit, goto
<1>8. CASE mm_done \/ finish \/ \E size \in Sizes : sbrk(size)
  BY <1>8, ProceedsKeepsTypes DEF mm_done, finish, sbrk, Proceeds, exit, goto
<1>9. CASE UNCHANGED vars
  BY <1>9, ProceedsKeepsTypes DEF vars, Proceeds
<1> QED
  BY <1>1, <1>2, <1>3, <1>4, <1>5, <1>6, <1>7, <1>8, <1>9 DEF Next, Step

\* Every variable of the main program keeps its type; an exit, and only that,
\* leaves a status (mdriver.c:138-366).
THEOREM MainTypes == Spec => []TypeOK
<1>1. Init => TypesInv /\ BooksInv /\ ReadingsInv /\ TimerInv
  <2>1. \A S : << >> \in Seq(S)
    OBVIOUS
  <2>2. 0 \in 0 .. Runs
    BY FtimerAssumption
  <2>3. ASSUME Init PROVE TypesInv
    BY <2>1, <2>2, <2>3, Zenon DEF Init, TypesInv
  <2> QED
    BY <2>3, BooksInit
<1>2. TypesInv /\ BooksInv /\ TimerInv => TypeOK
  BY DEF TypesInv, BooksInv, TimerInv, TypeOK, Early, Late
<1>3. TypesInv /\ BooksInv /\ ReadingsInv /\ TimerInv /\ [Next]_vars
        => TypesInv' /\ BooksInv' /\ ReadingsInv' /\ TimerInv'
  BY TypesStep, BooksStep, ReadingsStep, TimerStep
<1> QED
  BY <1>1, <1>2, <1>3, PTL DEF Spec

-----------------------------------------------------------------------------
(* The index.                                                              *)

\* The interval timer never reads less than it did when the measurement began.
NotBackwards == package = "itimer" => start <= get_etime(remaining)

LEMMA BackwardsStep ==
  ASSUME NotBackwards, TimerInv, ReadingsInv, [Next]_vars
  PROVE  NotBackwards' /\ UNCHANGED package
<1>1. TimerMoves
  BY NextMovesTimer
<1>2. CASE UNCHANGED timer
  BY <1>2 DEF timer, NotBackwards, get_etime
<1>3. CASE start_timing \/ stop_timing
  BY <1>3, FtimerAssumption
  DEF start_timing, stop_timing, init_etime, get_etime, NotBackwards, TimerInv
<1>4. ASSUME NEW d \in Durations, idle(d) \/ expire(d) \/ \E s \in Adjustments : elapse(d, s)
      PROVE  NotBackwards' /\ UNCHANGED package
  <2>1. PICK left : left = remaining'
    OBVIOUS
  <2>2. UNCHANGED <<package, start>> /\ left \in Int /\ left <= remaining
    BY <1>4, <2>1, FtimerAssumption DEF idle, expire, elapse, run_down, Armed, TimerInv
  <2>3. MAX_ETIME \in Int /\ remaining \in Int /\ start \in Int
    BY FtimerAssumption DEF ReadingsInv
  <2>4. start <= MAX_ETIME - remaining => start <= MAX_ETIME - left
    BY <2>2, <2>3
  <2> QED
    BY <2>1, <2>2, <2>4 DEF NotBackwards, get_etime
<1> QED
  BY <1>1, <1>2, <1>3, <1>4 DEF TimerMoves

LEMMA MeasuredForwards ==
  ASSUME NotBackwards, ReadingsInv, package = "itimer"
  PROVE  tmeas \in Nat
BY FtimerAssumption DEF NotBackwards, ReadingsInv, tmeas, get_etime

\* What a step does to the statistics: it begins them, or writes one field.
StatsMove ==
  LET N == num_tracefiles
  IN  \/ mm_stats' = [j \in 1 .. N |-> Zero]
      \/ /\ phase \in Late
         /\ UNCHANGED mm_stats
      \/ /\ phase \in Late /\ i \in 1 .. N
         /\ \/ \E n \in OpCounts : mm_stats' = SetOps(mm_stats, i, n)
            \/ \E u \in Utils : mm_stats' = SetUtil(mm_stats, i, u)
            \/ mm_stats' = SetValid(mm_stats, i)
            \/ mm_stats' = SetSecs(mm_stats, i, tmeas)

LEMMA StatsMoves ==
  ASSUME BooksInv, [Next]_vars, phase' \in Late
  PROVE  UNCHANGED tracefiles /\ StatsMove
<1>1. CASE \/ \E o \in Option : option(o)
           \/ check_team \/ init_fsecs \/ libc_read \/ eval_libc_valid
  BY <1>1 DEF option, check_team, init_fsecs, libc_read, eval_libc_valid, unmeasured,
     goto, exit, Late
<1>2. CASE libc_fsecs \/ eval_libc_speed \/ libc_next \/ libc_done
  BY <1>2 DEF libc_fsecs, eval_libc_speed, libc_next, libc_done, measured, goto, exit, Late
<1>3. CASE memory
  BY <1>3 DEF memory, options, goto, exit, Late, StatsMove
<1>4. CASE mm_read
  BY <1>4 DEF mm_read, options, goto, exit, BooksInv, Late, StatsMove, SetOps
<1>5. CASE eval_mm_valid
  <2>1. UNCHANGED tracefiles /\ phase \in Late /\ i \in 1 .. num_tracefiles
    BY <1>5 DEF eval_mm_valid, options, BooksInv, Late
  <2>2. UNCHANGED mm_stats \/ mm_stats' = SetValid(mm_stats, i)
    BY <1>5, Zenon DEF eval_mm_valid, SetValid
  <2> QED
    BY <2>1, <2>2 DEF StatsMove
<1>6. CASE eval_mm_util
  <2>1. UNCHANGED tracefiles /\ phase \in Late /\ i \in 1 .. num_tracefiles
    BY <1>6 DEF eval_mm_util, options, BooksInv, Late
  <2>2. UNCHANGED mm_stats \/ \E u \in Utils : mm_stats' = SetUtil(mm_stats, i, u)
    BY <1>6, Zenon DEF eval_mm_util, SetUtil
  <2> QED
    BY <2>1, <2>2 DEF StatsMove
<1>7. CASE mm_next
  <2>1. UNCHANGED tracefiles /\ phase \in Late /\ i \in 1 .. num_tracefiles
    BY <1>7 DEF mm_next, options, BooksInv, Late
  <2>2. mm_stats' = SetSecs(mm_stats, i, tmeas)
    BY <1>7, Zenon DEF mm_next, SetSecs
  <2> QED
    BY <2>1, <2>2 DEF StatsMove
<1>8. CASE \/ fsecs \/ eval_mm_speed \/ mm_done \/ finish
           \/ \E size \in Sizes : sbrk(size)
  BY <1>8 DEF fsecs, eval_mm_speed, mm_done, finish, sbrk, options, Late, StatsMove
<1>9. CASE UNCHANGED vars
  BY <1>9 DEF vars, options, StatsMove
<1> QED
  BY <1>1, <1>2, <1>3, <1>4, <1>5, <1>6, <1>7, <1>8, <1>9 DEF Next, Step

\* What is noted of n traces is in its range, if the times measured are.
InRange(table, n, forwards) ==
  \A j \in 1 .. n : /\ table[j].util \in 0 .. 100
                    /\ forwards => table[j].secs \in Nat

LEMMA FieldKeepsRange ==
  ASSUME NEW n \in Nat, NEW f \in [1 .. n -> Stats], NEW k \in 1 .. n,
         NEW forwards \in BOOLEAN, InRange(f, n, forwards),
         NEW x, NEW g, \/ g = SetOps(f, k, x)
                       \/ g = SetValid(f, k)
                       \/ x \in 0 .. 100 /\ g = SetUtil(f, k, x)
                       \/ (forwards => x \in Nat) /\ g = SetSecs(f, k, x)
  PROVE  InRange(g, n, forwards)
<1> SUFFICES ASSUME NEW j \in 1 .. n
             PROVE  g[j].util \in 0 .. 100 /\ (forwards => g[j].secs \in Nat)
  BY DEF InRange
<1>1. f[j] \in Stats /\ f[j].util \in 0 .. 100 /\ (forwards => f[j].secs \in Nat)
  BY DEF InRange
<1>2. CASE g = SetOps(f, k, x)
  BY <1>1, <1>2 DEF SetOps, Stats
<1>3. CASE g = SetValid(f, k)
  BY <1>1, <1>3 DEF SetValid, Stats
<1>4. CASE x \in 0 .. 100 /\ g = SetUtil(f, k, x)
  BY <1>1, <1>4 DEF SetUtil, Stats
<1>5. CASE (forwards => x \in Nat) /\ g = SetSecs(f, k, x)
  BY <1>1, <1>5 DEF SetSecs, Stats
<1> QED
  BY <1>2, <1>3, <1>4, <1>5

\* There are traces, and what is noted of them is in its range.
StatsInv ==
  /\ phase \notin {"options", "exited"} => num_tracefiles # 0
  /\ phase \in Late => InRange(mm_stats, num_tracefiles, package = "itimer")

LEMMA SomeTracesStep ==
  ASSUME StatsInv, [Next]_vars, phase' \notin {"options", "exited"}
  PROVE  num_tracefiles' # 0
<1>1. CASE \E o \in Option : option(o)
  BY <1>1 DEF option, goto, exit
<1>2. CASE check_team
  BY <1>2, MainAssumption DEF check_team, num_tracefiles
<1>3. CASE init_fsecs \/ libc_read \/ eval_libc_valid \/ libc_fsecs
  BY <1>3 DEF init_fsecs, libc_read, eval_libc_valid, libc_fsecs, options, num_tracefiles,
     StatsInv
<1>4. CASE eval_libc_speed \/ libc_next \/ libc_done \/ memory \/ mm_read
  BY <1>4 DEF eval_libc_speed, libc_next, libc_done, memory, mm_read, options,
     num_tracefiles, StatsInv
<1>5. CASE eval_mm_valid \/ eval_mm_util \/ fsecs \/ eval_mm_speed
  BY <1>5, Zenon DEF eval_mm_valid, eval_mm_util, fsecs, eval_mm_speed, options,
     num_tracefiles, StatsInv
<1>6. CASE mm_next \/ mm_done \/ finish \/ \E size \in Sizes : sbrk(size)
  BY <1>6 DEF mm_next, mm_done, finish, sbrk, options, num_tracefiles, StatsInv
<1>7. CASE UNCHANGED vars
  BY <1>7 DEF vars, options, num_tracefiles, StatsInv
<1> QED
  BY <1>1, <1>2, <1>3, <1>4, <1>5, <1>6, <1>7 DEF Next, Step

LEMMA StatsStep ==
  ASSUME StatsInv, BooksInv, NotBackwards, ReadingsInv, TimerInv, [Next]_vars
  PROVE  StatsInv'
<1>1. phase' \notin {"options", "exited"} => num_tracefiles' # 0
  BY SomeTracesStep
<1>2. ASSUME phase' \in Late
      PROVE  InRange(mm_stats', num_tracefiles', package' = "itimer")
  <2>1. num_tracefiles' = num_tracefiles /\ package' = package /\ StatsMove
    BY <1>2, StatsMoves, BackwardsStep DEF num_tracefiles
  <2>2. PICK n, f, g, forwards :
          /\ n = num_tracefiles /\ f = mm_stats /\ g = mm_stats'
          /\ forwards = (package = "itimer")
    OBVIOUS
  <2>3. n \in Nat /\ forwards \in BOOLEAN
    BY <2>2 DEF BooksInv
  <2>4. CASE g = [j \in 1 .. n |-> Zero]
    <3>1. Zero.util \in 0 .. 100 /\ Zero.secs \in Nat
      BY DEF Zero
    <3>2. InRange(g, n, forwards)
      BY <2>4, <3>1 DEF InRange
    <3> QED
      BY <2>1, <2>2, <3>2
  <2>5. ASSUME phase \in Late
        PROVE  f \in [1 .. n -> Stats] /\ InRange(f, n, forwards)
    BY <2>2, <2>5 DEF BooksInv, StatsInv
  <2>6. CASE phase \in Late /\ g = f
    BY <2>1, <2>2, <2>5, <2>6
  <2>7. ASSUME NEW x, phase \in Late, i \in 1 .. n,
               \/ g = SetOps(f, i, x)
               \/ g = SetValid(f, i)
               \/ x \in 0 .. 100 /\ g = SetUtil(f, i, x)
               \/ (forwards => x \in Nat) /\ g = SetSecs(f, i, x)
        PROVE  InRange(g, n, forwards)
    BY <2>3, <2>5, <2>7, FieldKeepsRange
  <2>8. forwards => tmeas \in Nat
    BY <2>2, MeasuredForwards
  <2>9. CASE /\ phase \in Late /\ i \in 1 .. n
             /\ \/ \E x \in OpCounts : g = SetOps(f, i, x)
                \/ \E x \in Utils : g = SetUtil(f, i, x)
                \/ g = SetValid(f, i)
                \/ g = SetSecs(f, i, tmeas)
    <3>1. \A x \in Utils : x \in 0 .. 100
      BY MainAssumption
    <3>2. InRange(g, n, forwards)
      BY <2>7, <2>8, <2>9, <3>1
    <3> QED
      BY <2>1, <2>2, <3>2
  <2> QED
    BY <2>1, <2>2, <2>4, <2>6, <2>9 DEF StatsMove
<1> QED
  BY <1>1, <1>2 DEF StatsInv, Late

LEMMA DivideAtMost ==
  ASSUME NEW a \in Nat, NEW b \in Nat \ {0}, NEW k \in Nat, a <= k * b
  PROVE  a \div b \in 0 .. k
OBVIOUS

\* The points for the utilization, for averages of up to 100 percent.
LEMMA UtilPoints ==
  ASSUME NEW n \in Nat \ {0}, NEW u \in 0 .. 100 * n
  PROVE  (60 * u) \div (100 * n) \in 0 .. 60
<1>1. 60 * u \in Nat /\ 100 * n \in Nat \ {0} /\ 60 * u <= 60 * (100 * n)
  OBVIOUS
<1> QED
  BY <1>1, DivideAtMost

\* Those for the throughput: ops operations in each of Runs runs that together
\* took secs, against the throughput of libc.
LEMMA SpeedPoints ==
  ASSUME NEW t, t.ops \in Nat, t.secs \in Int
  PROVE  p2(t) \in Int /\ p2(t) <= 40 /\ (t.secs >= 0 => p2(t) >= 0)
<1>1. PICK a, d, s : a = t.ops * Runs /\ d = AVG_LIBC_THRUPUT /\ s = t.secs
  OBVIOUS
<1>2. a \in Nat /\ d \in Nat \ {0} /\ s \in Int /\ 40 * t.ops * Runs = 40 * a
  BY <1>1, FtimerAssumption, MainAssumption
<1>3. CASE Faster(t, AVG_LIBC_THRUPUT)
  BY <1>3 DEF p2
<1>4. CASE ~ Faster(t, AVG_LIBC_THRUPUT) /\ s > 0
  <2>1. p2(t) = (40 * a) \div (d * s) /\ a <= d * s
    BY <1>1, <1>2, <1>4 DEF p2, Quotient, Faster
  <2>2. d * s \in Nat \ {0} /\ 40 * a \in Nat /\ 40 * a <= 40 * (d * s)
    BY <1>2, <1>4, <2>1
  <2>3. p2(t) \in 0 .. 40
    BY <2>1, <2>2, DivideAtMost
  <2> QED
    BY <2>3
<1>5. CASE s < 0
  <2>1. ~ Faster(t, AVG_LIBC_THRUPUT) /\ ~ (s > 0)
    BY <1>1, <1>2, <1>5 DEF Faster
  <2>2. p2(t) = - ((40 * a) \div (d * (- s)))
    BY <1>1, <1>2, <2>1 DEF p2, Quotient
  <2>3. d * (- s) \in Nat \ {0} /\ 40 * a \in Nat
    BY <1>2, <1>5
  <2>4. (40 * a) \div (d * (- s)) \in Nat
    BY <2>3
  <2> QED
    BY <1>1, <1>5, <2>2, <2>4
<1>6. s = 0 => Faster(t, AVG_LIBC_THRUPUT)
  BY <1>1 DEF Faster
<1> QED
  BY <1>2, <1>3, <1>4, <1>5, <1>6

\* What the index adds up.
LEMMA SumsInRange ==
  ASSUME NEW n \in Nat, NEW f \in [1 .. n -> Stats],
         NEW forwards \in BOOLEAN, InRange(f, n, forwards)
  PROVE  /\ FieldSum(f, "ops", 1 .. n) \in Nat
         /\ FieldSum(f, "util", 1 .. n) \in 0 .. 100 * n
         /\ FieldSum(f, "secs", 1 .. n) \in Int
         /\ forwards => FieldSum(f, "secs", 1 .. n) \in Nat
<1>1. IsFiniteSet(1 .. n) /\ Cardinality(1 .. n) = n
  BY FS_Interval
<1>2. ASSUME NEW field, \A j \in 1 .. n : f[j][field] \in Int
      PROVE  /\ FieldSum(f, field, 1 .. n) \in Int
             /\ (\A j \in 1 .. n : f[j][field] \in Nat) => FieldSum(f, field, 1 .. n) \in Nat
             /\ (\A j \in 1 .. n : f[j][field] \in 0 .. 100)
                  => FieldSum(f, field, 1 .. n) \in 0 .. 100 * n
  <2>1. (\A j \in 1 .. n : f[j][field] \in 0 .. 100)
          => FieldSum(f, field, 1 .. n) \in 0 .. 100 * Cardinality(1 .. n)
    BY <1>1, <1>2, FieldSumBounds
  <2> QED
    BY <1>1, <1>2, <2>1, FieldSumBounds
<1>3. /\ \A j \in 1 .. n : f[j]["ops"] \in Int
      /\ \A j \in 1 .. n : f[j]["ops"] \in Nat
      /\ \A j \in 1 .. n : f[j]["secs"] \in Int
      /\ forwards => \A j \in 1 .. n : f[j]["secs"] \in Nat
      /\ \A j \in 1 .. n : f[j]["util"] \in Int
      /\ \A j \in 1 .. n : f[j]["util"] \in 0 .. 100
  BY DEF Stats, InRange
<1>4. FieldSum(f, "ops", 1 .. n) \in Nat
  BY <1>2, <1>3, Zenon
<1>5. FieldSum(f, "util", 1 .. n) \in 0 .. 100 * n
  BY <1>2, <1>3, Zenon
<1>6. /\ FieldSum(f, "secs", 1 .. n) \in Int
      /\ forwards => FieldSum(f, "secs", 1 .. n) \in Nat
  BY <1>2, <1>3, Zenon
<1> QED
  BY <1>4, <1>5, <1>6

LEMMA StatsBoundIndex ==
  ASSUME StatsInv, BooksInv, phase = "report"
  PROVE  /\ perfindex(Sums) <= 100
         /\ Sums.secs >= 0 \/ package = "itimer" => perfindex(Sums) >= 0
<1>1. PICK n, f, forwards : /\ n = num_tracefiles /\ f = mm_stats
                            /\ forwards = (package = "itimer")
  OBVIOUS
<1>2. n \in Nat \ {0} /\ f \in [1 .. n -> Stats] /\ forwards \in BOOLEAN
      /\ InRange(f, n, forwards)
  BY <1>1 DEF StatsInv, BooksInv, Late
<1>3. /\ Sums.ops = FieldSum(f, "ops", 1 .. n)
      /\ Sums.secs = FieldSum(f, "secs", 1 .. n)
      /\ Sums.util = FieldSum(f, "util", 1 .. n)
  BY <1>1 DEF Sums, Total, FieldSum, MapThenSumSet, MapThenFoldSet
<1>4. /\ Sums.ops \in Nat /\ Sums.secs \in Int /\ Sums.util \in 0 .. 100 * n
      /\ forwards => Sums.secs \in Nat
  BY <1>2, <1>3, SumsInRange
<1>5. p1(Sums) \in 0 .. 60
  BY <1>1, <1>2, <1>4, UtilPoints DEF p1
<1>6. p2(Sums) \in Int /\ p2(Sums) <= 40 /\ (Sums.secs >= 0 => p2(Sums) >= 0)
  BY <1>4, SpeedPoints
<1>7. package = "itimer" => Sums.secs >= 0
  <2>1. package = "itimer" => Sums.secs \in Nat
    BY <1>1, <1>4, Zenon
  <2> QED
    BY <2>1
<1>8. PICK a, b : a = p1(Sums) /\ b = p2(Sums)
  OBVIOUS
<1> QED
  BY <1>5, <1>6, <1>7, <1>8 DEF perfindex

\* The index is between 0 and 100 for any number of traces with any results, but
\* that a system clock that was set back can take it below 0
\* (mdriver.c:320-351, ftimer.c:27-59).
THEOREM IndexStaysInRange == Spec => []IndexInRange
<1>1. Init => StatsInv /\ NotBackwards
  BY FtimerAssumption DEF Init, TimerInit, StatsInv, NotBackwards, get_etime, Late
<1>2. StatsInv /\ BooksInv => IndexInRange
  BY StatsBoundIndex DEF IndexInRange
<1>3. /\ StatsInv /\ NotBackwards /\ BooksInv /\ ReadingsInv /\ TimerInv
      /\ [Next]_vars
      => StatsInv' /\ NotBackwards' /\ BooksInv' /\ ReadingsInv' /\ TimerInv'
  BY StatsStep, BackwardsStep, BooksStep, ReadingsStep, TimerStep
<1> QED
  BY <1>1, <1>2, <1>3, BooksInit, PTL DEF Spec

=============================================================================

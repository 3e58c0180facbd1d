# A verification of the malloc lab

TLA+ modules, TLC configurations and TLAPS proofs for the malloc lab in `src/`:
the allocator of `mm.c`, the memory system under it, the driver that checks and
measures it with its main program, the timing packages the driver uses, and the
scripts that write and check its traces. The program is a single thread of C for a
32-bit target (`-m32`); what is hard about it is long sequences of legal calls over
a structure that is stored inside the memory it manages, a checker that is itself
code, and clocks that go on, go around, or are set back while they are read.

Line numbers below and in the modules refer to the files under `src/`.

## 1. Inventory

| Component | Source | State | Operations |
|---|---|---|---|
| memory system | `memlib.c` | `mem_start_brk`, `mem_brk`, `mem_max_addr` | `mem_init`, `mem_sbrk`, `mem_reset_brk`, `mem_heap_lo/hi`, `mem_heapsize` |
| allocator | `mm.c` | the words of the heap, `heap_listp` | `mm_init`, `mm_malloc`, `mm_free`, `mm_realloc`; inside: `extend_heap`, `coalesce`, `find_fit`, `place` |
| driver, correctness pass | `mdriver.c` 375-464, 572-685 | range list, `trace->blocks`, `trace->block_sizes`, `errors` | `eval_mm_valid`, `add_range`, `remove_range`, `clear_ranges` |
| driver, measured passes | `mdriver.c` 688-826 | `total_size`, `max_total_size`, the same `blocks` | `eval_mm_util`, `eval_mm_speed` |
| driver, main program | `mdriver.c` 138-366, 918-973 | options, `mm_stats`, `libc_stats`, `errors` | option loop, team check, two loops over the traces, report |
| driver, trace files | `mdriver.c` 467-569 | `trace_t` | `read_trace`, `free_trace` |
| driver, libc passes | `mdriver.c` 834-911 | `trace->blocks` | `eval_libc_valid`, `eval_libc_speed` |
| K-best timing | `fcyc.c`, `fsecs.c` | `values`, `samplecount`, the parameters, `cache_buf` | `fcyc`, `add_sample`, `has_converged`, `clear`, setters |
| cycle counters | `clock.c` | last counter reading, `cyc_per_tick` | `start_counter`, `get_counter`, `callibrate`, compensated versions, `ovhd`, `mhz` |
| interval timers | `ftimer.c` | the timer and clock of the operating system | `ftimer_itimer`, `ftimer_gettod` |
| trace checker | `traces/checktrace.pl`, `traces/Makefile` | table of ids | one pass over a file; the printed file is checked again |
| trace generators | `traces/gen_*.pl` | the sequence of requests | print a trace |

How they interact. `main` reads a trace and runs three passes over it, each of
which calls `mem_reset_brk` and `mm_init` and then one `mm_*` function per
operation. `mm.c` gets memory from `mem_sbrk` and nowhere else and keeps all its
state in that memory: headers, footers and payload are words of one array, and
the client (the driver) writes into the payload words between calls. The driver
asks `mem_heap_lo/hi` where the heap is to judge an answer, and `mem_heapsize`
for the utilization. `fsecs` hands the speed pass to the timer that `config.h`
chose, which calls it back once per measurement (`fcyc`) or ten times for one
(`ftimer.c`); `fcyc` in turn calls the counters of `clock.c` around each. All calls
are synchronous; there are no messages. What runs beside the program are the
clocks: the cycle counter, the ticks of the timer interrupt with the user time they
advance, the interval timer and its signal, and the system clock.

What is hard, component by component, and what makes each correct:

* **Memory system.** Address arithmetic in 32 bits with an `int` increment. The
  break stays in the region and moves down only on a reset.
* **Allocator.** A wrong tag shows several calls later, when a neighbour is freed
  or a walk passes over it; payload may look like a tag; `mm_init` runs over the
  words of an earlier heap; `mm_realloc` allocates, copies and frees in one call,
  and may fail in the middle; sizes are rounded twice. Correct: the headers tile
  the heap, footers repeat them, no two free neighbours, allocated blocks are
  exactly those the client holds and big enough, the search finds the first fit,
  ends, and fails only when there is no room, and no call disturbs a held payload.
* **Correctness pass.** The range list must follow the trace through errors that
  leave a pass in the middle and into the next trace; a false alarm or an overlap
  that gets past makes the check worthless. Correct: nothing stale in the list,
  no alarm over an honest allocator, overlaps caught over any other, and the
  driver itself keeps the rules it checks.
* **Measured passes.** They reuse the region and `blocks` as found, and end the
  program where the correctness pass only reports. Correct: a trace that went
  through goes through again with the same answers; the total is what is held.
* **K-best timing.** A partly filled array kept in order, and a loop that only a
  limit ends when measurements never agree. Correct: the array holds the smallest
  measurements, the result is the minimum, every call returns.
* **Cycle counters.** Two words with a borrow; two readings, of the counter and of
  the user time, with a tick between them; a calibration loop that waits for ticks.
  Correct on the i386: the difference is what passed, however the two words go around;
  a tick that was seen late is not recorded as a cheap one; a measurement that is
  compensated is never above the truth and below it by no more than the ticks at its
  edges. On the Alpha, which has one word only: the difference is right as long as
  that word does not go around.
* **Interval timers.** The interval timer is set and never stopped, and its signal
  ends the program; the system clock may be set while it is read. Correct: the
  program is only killed when a day has passed; the report stays within its limits.
* **Main program.** The options write the same variables; the error count and the
  valid flags are kept apart; each pass relies on the reset before it. Correct: the
  traces are those asked for, whatever the order of the options; count, flags and
  table speak of the same traces; a pass sees only its own heap; the program ends.
* **Trace files, checker and generators.** Counts that are compared too late, ids
  that are used after their free, a free that is spliced in before its allocation.
  Correct: the checker dies of no trace that keeps the rules and of every one that does
  not, and what it prints, and what the scripts write, is read and run without a stray
  pointer.

`PROJECT.json` lists the single hazards, each at the line where it bites.

## 2. Modules

| Module | Models | Kind |
|---|---|---|
| `MemLib` | `memlib.c` | component |
| `MM` | `mm.c`, over `MemLib` | component |
| `MMSafety` | what `MM` keeps true; refinement mapping to `AllocatorPromise` | properties |
| `AllocatorPromise` | malloc, free, realloc as a client may rely on them | abstract specification |
| `DriverChecks` | range list tests and fill pattern of `mdriver.c` | operators |
| `EvalValid` | `eval_mm_valid` over an arbitrary allocator, trace after trace | component |
| `MDriver` | the passes of `mdriver.c` composed with `MM` | composition |
| `TraceFiles` | `checktrace.pl`, `read_trace`, and how the passes follow ids | composition |
| `Generators` | what `gen_*.pl` write, as sets of files | operators |
| `KBest` | `fcyc.c`: sampler, parameters, cache clearing | component |
| `Clock` | `clock.c`: counters, calibration, compensation | component |
| `Timing` | `fcyc` over the counters | composition of `KBest` and `Clock` |
| `Ftimer` | `ftimer.c` and the clocks it reads | component |
| `Main` | the main program over `MemLib` and `Ftimer` | composition |
| `MCMM`, `MCEvalValid`, `MCMDriver`, `MCTraceFiles`, `MCTiming`, `MCMain` | instances for TLC | model checking |
| `MMProofs` | rows of blocks and the operations on them; invariant and refinement of `MM` | proofs |
| `ListLemmas` | least elements, induction over a set of numbers, recursive functions, taking an entry out of a list and putting one in, lists of lists, sums over finite sets | lemmas |
| `EvalValidProofs` | theorems about the range list and the correctness pass | proofs |
| `MDriverProofs`, `ReplayProofs` | theorems about the passes over the allocator; replays | proofs |
| `TimingProofs` | theorems about the sampler and the counters | proofs |
| `TraceFilesProofs` | theorems about the trace files, the checker and the generators | proofs |
| `MainProofs` | theorems about the break, the timer, the heap of a pass, the report, the index and the options | proofs |

Conventions. State and operations keep the source's names. An operator `X_Y`
that stands beside an operator `X` is `X` with a slip `Y` that could be made in
the code (a dropped guard, an offset of one word, a forgotten reset). Nothing
refers to it; putting it in the place of `X` shows that a property notices.

### MemLib

`mem_brk` is the break; the region is `MEM_START .. mem_max_addr`. `mem_sbrk` and
`mem_sbrk_fails` are the two outcomes of the function, `SbrkFails` its test. All
addresses are numbers modulo `WORD` (2^32 in the program), and `ToInt` is the
conversion of a `size_t` argument to the `int` parameter.

### MM

`mem` maps the address of each 4-byte word of the region to a number: headers,
footers and payload alike. The macros `GET_SIZE`, `HDRP`, `FTRP`, `NEXT_BLKP` and
`PREV_BLKP` are operators on a memory; `coalesce`, `extend_heap`, `place` and
`mm_init` are operators from a memory to the memory (and the pointer) they leave,
with the PUTs in the order of the code, because a footer's address is computed
from the header just written. `find_fit` is the program's one loop over the heap
and is taken one iteration per step, with the cursor in `call.bp`. A call is:

    mm_malloc/mm_realloc -> find_fit_next* -> find_fit_hit | find_fit_miss -> place

`find_fit_miss` includes `extend_heap`, or ends the call with NULL; `place` is the
rest of `mm_malloc` and, with `call.old` set, the memcpy and `mm_free` of
`mm_realloc`. `mm_free`, `mm_init` (with the `mem_reset_brk` the driver always
makes before it) and `mm_malloc(0)` are single steps. `write` is the client
filling a payload it holds, with numbers that may look like tags. `live` is what
the client holds. `crashed` is where `mm_realloc(NULL, 0)` leads.

The bits of a tag are arithmetic: sizes are multiples of 8, so `size | alloc` is
`size + alloc`, `& ~7` is `x - x % 8` and `& 1` is `x % 2`.

### AllocatorPromise

`held` maps each pointer a client holds to the size it asked for and the words it
finds there; `top` is the end of the heap. `Allocate` may return any aligned place
inside the heap that is clear of what is held, `Resize` also carries contents over,
`Free` and `Overwrite` touch one payload, `Restart` drops all. Any operation may be
refused, which changes no payload; the heap may grow on its own (`Extend`), because
`mm_malloc` extends it before it places the block. `MMSafety!Held` computes `held` from the words of
`MM`; `EvalValid!Held` from the driver's books.

### EvalValid and DriverChecks

`eval_mm_valid` over an allocator that is the environment: an `honest` one
answers as `AllocatorPromise` allows, any other returns any address in or
around the heap and any contents. Each operation is one step: the call, the range
list, the comparison of the pattern, the fill. `verdict`, `valid`, `errors` are
what `main` keeps over several traces. The trace is chosen as it runs, among
operations that make sense. A size of 0 reaches `assert(size > 0)` of `add_range`
(`"aborted"`); and `exits` is the way out of a payload that was accepted when libc has no
memory for its record, the old record of an `mm_realloc` being gone already (`"exited"`).

### MDriver

The correctness, utilization and speed passes over one trace, run over the
actions of `MM` itself. The first pass makes the trace up, the others repeat it.
`answers` records what the first pass got.

### TraceFiles and Generators

A file is two header counts and a sequence of lines, a command and an id each. It
is any short file, or one that a script wrote. `Generators` gives the file of each
script for a number of rounds; of `gen_random.pl`, which splices a free for each
allocation in at a random place, the set of all files it may write (`Spliced`).

A file may be given to `checktrace.pl`, with or without `-s`; the version that it
prints is checked once more (`traces/Makefile`), and file or version is given to
`read_trace`. `HASH` is the Perl table; `Dies` the tests of a request in their order,
with the one test that never holds left out. `read_request` stores an operation if
the array has room, and otherwise the program is in undefined territory (`wild`),
because nothing is compared before the end of the file. What a trace has to be is said
apart from the scripts, in the words of `traces/README`: an id is allocated once, and
reallocated and freed while it is in use (`SensibleAt`). `run_op` is the loop of the
passes of either package reduced to the ids: it is `wild` to follow an id beyond
`num_ids` or to free or resize one that is not held. `next_pass` runs the trace
again; the student's heap is emptied before, that of libc is not, and `leaked` counts
what no entry of `blocks` has any more. `CheckedRunsThrough` is the assumption that
`EvalValid` and `MDriver` make of their traces, shown of files that went through the
checker with a right header; `GeneratedRunsThrough` shows it of generated files.

### KBest, Clock and Timing

`KBest` is one call of `fcyc` after another, with any parameter set between two
calls. Its loop is `clear` (the cache, if asked for; the buffer may be missing, and a
block smaller than a word makes the loop endless), the start of a measurement, its
end with `add_sample`, and the test with the outcomes `again` and `return`. The
insertion sort of `add_sample` is `Insert`: the place it finds, and what moves up.
Measurements are integers, possibly negative after compensation.

`Clock` has `get_counter` word by word for either machine (`Hi`, `Lo`, `Borrow`), with
words of `WORD` values. `pass` is one turn of the calibration loop, with a tick not at
all, before the reading of the counter (`"in"`), or between it and the reading of
the user time (`"late"`); `gap` and `ticks` are the differences to the readings that
the loop keeps. On the i386 `gap` is what passed, since 2^64 cycles do not pass in a
calibration. On the Alpha it is the difference of what the two readings say (`Growth`): it
jumps up when the low word goes around after `start_counter` (`cyc_lo`, with `since` cycles
passed), and down when it comes back to where it began, so that what is recorded may be
far more than a tick costs, and the loop may wait for a reading it never gets.
`MaxTicks` bounds the ticks that come while it waits. `get_comp_counter` is the compensated difference, with `n` ticks
inside and `out` more that only the user time shows.

`Timing` puts them together: `start` calibrates first as long as nothing is recorded,
and `measure` takes any cost, any ticks and any stand of the counter.

### Ftimer and Main

`Ftimer` has the interval timer (`remaining`) and the system clock (`tod`), which time
advances: `elapse` for a run that is measured, in which somebody may also set the
clock, and `idle` for one that is not. `expire` is the end of the countdown, `since`
the time since the timer was last set, kept to state the property.

`Main` is one action per decision of `main`: an option at a time; the team check; the
loop over the traces for libc and the one for the student's package, each with its
passes and every way out of the program; the report. A pass is what `main` sees of
it: it resets the break, lets the allocator call `mem_sbrk` (`sbrk`, the actions of
`MemLib`), takes time (the actions of `Ftimer`), and ends in one of its results.
`repeat` counts the runs of the function that is measured. What is printed are
operators on the final state: `numcorrect`, the sums of the table (`printresults`) and
of the index (`Sums`), `p1`, `p2`, `perfindex`.

## 3. Runs

| Run | Question | Bounds |
|---|---|---|
| `main` | options, passes, timers and report: whatever the command line, the clocks and the results | command lines of three options, one or two traces, two runs of the speed function, a timer of 4 units, clock set back by 0, 1 or 4, increments of 8 and 16, and one that is negative as `int` |
| `mm_heap` | heap structure, answers, promise, over all sequences of calls | region of 80 bytes (a chunk of 32 and one extension), requests 0, 8, 24, payload word 16 |
| `mm_slack` | odd multiples of 8: slack, rounding, termination | region of 96 bytes, chunk 16, requests 0, 12 |
| `mm_huge` | a block holds its request: **violated** near the largest `size_t` | `WORD` 256, request 250 |
| `driver` | over an honest allocator no false alarm and books in order, across two traces; over any allocator what the range list guarantees | two traces of up to four operations, two ids, sizes 0, 8, 16, 24, region of 24 bytes in cells of 4 |
| `driver_overlap` | accepted payloads never overlap: **violated** | |
| `driver_char` | no false alarm for ids from 128: **violated** | id 200 |
| `mdriver` | do the measured passes repeat the checked one? | two ids, five operations, speed pass twice |
| `timing` | the sampler over the counters, call after call, with parameters set between | up to 3 kept of at most 3, two costs, words of 16 values, three machines: i386 with ticks of 5 and 1 cycles, Alpha with ticks of 4 |
| `clock_alpha` | the Alpha times what is shorter than its span: **violated** | |
| `trace_files` | does the checker tell sense from nonsense, and does what it and the generators print run? | files of up to four lines over two ids, six headers; scripts with up to three rounds; two passes |
| `trace_reuse` | the checker refuses an id that is used again: **violated** | files of up to three lines |

Why the bounds are enough. A block is at least 16 bytes and the region of
`mm_heap` holds four of them after prologue and padding: that is enough for each
of the four cases of `coalesce`, for splitting and not splitting, for an
extension that meets a free last block and one that meets an allocated one, for
a request that only fits after coalescing, and for a refusal. Sequences of calls
are not bounded: TLC explores the whole state space. Requests of 8 and 24 bytes
give blocks of 16 and 32; the request of 12 in `mm_slack` gives 24, so that
remainders of 8, too small to split off, occur and `extend_heap` rounds 24 up to
32. The payload word 16 looks like the header of a free block of 16 bytes: a tag
read at the wrong address is believed. `WORD` is 65536 there and never reached;
`mm_huge` uses a small one on purpose. In the `driver` runs the region
holds two or three payloads, so that packing, moving, overlapping at each end,
containing and refusing occur. Only `MaxOps`, `NumTraces` and `Repeats` cut
sequences short; they are guards named in their modules. A file of four lines has
room for an allocation, a free, and a second life of the id, or for two ids that
cross; the headers are right, too small and too large by one. Three rounds of a
script are a first, a middle and a last one. In `timing` the array is of one
element, or partly or just filled (with `kbest` = `maxsamples`), the next call has
another `kbest`, and entries beyond the array are dropped with `kbest` below 3; words
of 16 values go around singly and together, and two events with two records or
none end the calibration. On the Alpha a
measurement from 12 goes around or ends before it does, and the calibration, which
counts in fours, goes around and comes back to where it began, with ticks on either side
(`MaxTicks` bounds those that come while it waits below its first reading). In `main` two durations, 1 and 3 of 4, make the timer
survive one pass or not; a set-back of 1 makes a measurement 0, and one of 4 makes it
negative. `MaxArgs` is a guard: three options are enough for `-t -f -t`. Deadlock is
checked except in the driver, main and file runs, where the program ends (after the
last trace, after an error, at the end of the passes).

### What the violated runs show

* `mm_huge` (mm.c:201): `size + 15` overflows and the request is given a block of
  less than 16 bytes.
* `driver_overlap` (mdriver.c:409): a new payload that contains an old one passes.
* `driver_char` (mdriver.c:656): the pattern is compared as a signed char, so a
  `mm_realloc` that preserved the data is reported for ids with low byte from 128.
* `clock_alpha` (clock.c:160): the high words of the Alpha are 0, and the borrow of a low
  word that went around makes the difference too large by 2^64 - 2^32, in a
  measurement however short, against "the counter can time things for about 9 seconds"
  (clock.c:117-119). What is left of it is proved
  (`AlphaWithinAWordIsExact`). Calibration takes
  the same readings, and so nothing like `CompensationIsBounded` and `EveryCallReturns` holds on
  the Alpha: a jump is recorded as the cost of a tick, and after a fall the loop sees no tick.
* `trace_reuse` (checktrace.pl:111): a free deletes the entry of its id, so the tests for
  a "reused ID" (line 96) and for a second free (line 105) never hold. An id that is
  allocated again after its free is accepted, against traces/README:44-47. It is harmless
  to the driver (`CheckedRunsThrough`), and a second free is caught by the test before.

Not a run, but met on the way:

* `(mem_brk + incr) > mem_max_addr` (memlib.c:71) is evaluated after the sum has wrapped,
  so that a large positive increment would move the break down, against "the heap cannot be
  shrunk" (memlib.c:62-63). It takes a region near the end of the address space.
  `HeapNeverShrinks` is checked (`main`) and proved for increments that do not wrap.
* Size 0 is tested before NULL (mm.c:352), so `mm_realloc(NULL, 0)` frees NULL and reads
  below address 0, where mm.c:357 says that it is the same as `mm_malloc`. The model has it
  as `mm_realloc_null`, which leads to `crashed`. The driver never calls it.
* The system clock can make the sum of the seconds negative or 0, and the throughput
  negative or infinite (mdriver.c:337). Only an upper bound is put on its points, so
  that the index can be below 0 (`IndexInRange`).
* A cache block of fewer than 4 bytes makes `clear` endless (fcyc.c:125). The driver
  never sets one. `EveryCallReturns` has it as an exception.
* `gen_random.pl` reads `@argv`, which Perl does not fill, so that its argument is
  ignored; `gen_realloc.pl:15` writes `num_iters` without a `$`, which changes only
  the suggested heap size, and that is read by nothing.

## 4. Fairness

The program is one thread that keeps executing. `MM!Spec` assumes weak fairness
of the steps inside a call only (`find_fit_*`, `place`): a function that was
entered runs on, but the client need never call again. `Timing!Spec` assumes the
same of the body and test of the loop of `fcyc` and of the calibration: the function
being measured returns, which holds because the speed pass is a loop over a finite
trace. It also assumes strong fairness of a tick that comes while the calibration
loop runs: the loop uses nothing but the processor, so the user time advances while
it runs, and it comes past the place where a tick counts again and again. Without it
the loop would not end, and that is what `times()` promises. It is not enough on the Alpha,
which `EveryCallReturns` leaves out. `Main!Spec` assumes weak
fairness of its own steps: the passes return, and the allocator under test does not
ask for memory for ever (`sbrk` is not in `Step`, so a pass may always end). No
other specification assumes fairness.

## 5. Proofs

The theorems below are checked to the last leaf by TLAPS. They hold for every region,
every `CHUNKSIZE`, every set of ids, requests, costs, machines, timers and command
lines that satisfy the named assumptions of the components (alignment of the region,
multiples of 8, words that can hold the addresses, thresholds of `clock.c` in the order
in which it defines them), for traces of any length and any number of calls. Some of
them need an assumption that the code does not enforce:

* `IncrementsDoNotWrap` (`MainProofs`): no positive increment reaches the end of
  the address space from inside the region. Without it `mem_sbrk` may shrink the heap.
* `RequestsDoNotWrap` (`MMProofs`): neither a request after rounding nor the
  extension made for it reaches the end of the address space. Without it `mm_huge`
  is violated.
* `IdsFit` (`EvalValidProofs`), `PatternsFit` (`MDriverProofs`): the low byte of an id
  is not negative as a `char`. Without it `driver_char` is violated. `PatternsFit`
  also says that the client of `MM` may write the pattern.
* `MeasurementsFit` (`TimingProofs`): what passes between two readings on an i386 fits
  into the two words of its counter. A longer measurement cannot be told from a shorter
  one. `AlphaWithinAWordIsExact` assumes nothing; what it is about is bounded by the
  property itself.

| Theorem | Says | Run |
|---|---|---|
| `BreakStaysInRegion` | the break stays in the region, whatever is called | |
| `HeapIsNotShrunk`, `PassesNeverShrinkHeap` | only a reset lowers the break: in the memory system alone, and through the passes of the program | `main` |
| `InvariantHolds` | `Spec => []IInv` | `mm_slack` |
| `TypesHold` | `TypeOK` | `mm_heap` |
| `BoundaryTagsHold`, `CoalescedHolds`, `NothingIsLeaked` | the structure of the heap | `mm_heap` |
| `SearchIsFirstFit`, `FoundBlockIsFree` | the search passes over no block that fits, and finds one that does | `mm_heap`, `mm_slack` |
| `PayloadsAreApart` | no byte has two holders; alignment | `mm_slack` |
| `RefusedWhenExhausted` | when a call may fail (action property) | `mm_heap` |
| `GrowsWhenNothingFits` | when the heap grows (action property) | |
| `AllocatorKeepsPromise` | `MM` implements `AllocatorPromise` under the mapping `View` | `mm_heap` |
| `DriverTypes` | `TypeOK` of `EvalValid` | `driver` |
| `OverlapsAreCaught` | under any allocator, containment is the only overlap that gets past the range list | `driver` |
| `RangeListTracksBlocks` | the list has one record for each payload that is held and no other | `driver` |
| `HonestIsNotReported` | an allocator that keeps its promise is reported only for running out of memory | `driver` |
| `DriverKeepsPromise` | the steps of the driver are steps of `AllocatorPromise` | `driver` |
| `DriverTypesHold` | `DTypeOK`: what the driver believes held is what the allocator handed out, in every pass | `mdriver` |
| `ReplaysAgreeHolds` | later passes get the answers of the correctness pass | `mdriver` |
| `OnlyMemoryRunsOutHolds` | no check fails over this allocator, and no later pass ends the program | `mdriver` |
| `UtilizationHolds` | the running total is the sum of what is held, and its high water mark never exceeds the heap | `mdriver` |
| `TimingTypes` | `TypeOK` of `Timing` | `timing` |
| `DifferenceIsExact` | on the i386 the difference of two readings is what passed, whichever words go around | `timing` |
| `AlphaWithinAWordIsExact` | on the Alpha it is as long as the low word does not | |
| `CompensationTakesOffTicks` | on the i386 compensation takes off the ticks, up to their slack, and nothing else | `timing` |
| `SmallestAreKept`, `BestIsReturned` | the array holds the smallest measurements, each as often as it was measured; the result is the minimum | `timing` |
| `CallsEndForAReason` | a call ends because it converged or reached its limit (action property) | `timing` |
| `KilledAfterADay` | the interval timer ends the program only when a day has passed since it was set | `main` |
| `PassStartsEmpty` | the heap of a pass is what that pass asked for | `main` |
| `CountAndFlagsAgree` | error count, valid flags, table and index agree | `main` |
| `OptionsAreFollowed` | `-f` and `-t` do what the whole command line asks for | `main` |
| `MainTypes` | `TypeOK` of `Main` | `main` |
| `TraceInvariantHolds` | `Spec => []TraceInv` of `TraceFiles` | `trace_files` |
| `TraceTypesHold` | `TypeOK` of `TraceFiles`, whatever the file | `trace_files` |
| `VerdictHolds` | the checker dies only of nonsense, lets nothing else pass but ids that are used again, and tells balanced files from others | `trace_files` |
| `PrintedRunsThrough` | what the checker printed of a file with a right header runs through | `trace_files` |
| `GeneratedHolds` | every file of every script, of any size, runs through | `trace_files` |
| `NothingLeaks` | what the checker printed leaves nothing allocated | `trace_files` |
| `ReturnedHolds` | what `read_trace` returns agrees with its header and stays in the arrays | `trace_files` |
| `IndexStaysInRange` | the index is at most 100, and below 0 only with a system clock that was set back | `main` |

### The allocator

The structure of the heap is not a field anywhere; it is what the
words say when they are followed from the prologue. The proofs therefore speak of a
*row*: a set `B` of block addresses such that each is a block with equal tags, each
begins where another ends, none overlap, and prologue and epilogue stand at the
ends (`Row`). `Good` adds that no two neighbours are free.

* `MMProofs` has the arithmetic of addresses (all are multiples of 4, pointers of
  8, so two tags are equal or a word apart) and four lemmas about rows: rewriting
  the tags of one block (`RetagBlock`), splitting one (`SplitBlock`), merging a run of
  free ones (`MergeFree`), and adding one at the end (`NewLastBlock`). `CoalesceTags`
  shows that each of the four cases of `coalesce` tags the whole run of free blocks
  around its argument as one; `CoalesceMerges` is what that does to the row. The word
  below a block is read as the footer of its predecessor, and that it is one is `PrevOf`.
* It lifts them to the operations: `ReleaseFrees` for `mm_free`,
  `PlaceAllocates` for `place`, `ExtendHeapGrows`, `InitHeapMakesARow` (whatever
  words the region held before), `PayloadWrite` for the client.
* It ends with the invariant. None of the safety properties is inductive alone:
  that coalescing is complete needs the tags to be right, that the tags survive a
  client's write needs payloads to lie inside allocated blocks, and that needs the
  blocks to account for what is held. `IInv` says of *one* row that it is sound,
  accounts for `live`, and carries the search: the cursor is a block of it (or the
  prologue, or the break), everything before it does not fit, and the block being
  placed is free and large enough. There is one lemma per action; the theorems
  then follow from `IInv`, the action properties from `IInv` and one step.
* The refinement, in the same module, maps states by `View`, which reads each held
  payload out of the words of the heap. Steps of the search and of `mm_malloc(0)`
  stutter, or extend the heap; `place` is `Allocate` or, with an old payload, `Resize`.
  What carries it is `ContentsKept`: an operation that leaves the words of a held block
  alone leaves its contents alone, whatever it does to other blocks.

The crashed state of `mm_realloc(NULL, 0)` is part of `Spec`: the heap is untouched
there and nothing follows.

### The correctness pass

`EvalValidProofs` has three invariants, each resting on the one before.

* `TypeInv`, under any allocator: besides the types, of two records in the list the
  newer lies beside the older or reaches over it at both ends (`Ordered`). That is what the
  two tests of `add_range` establish, and taking a record out keeps it.
* `TrackInv`, under any allocator and while a trace runs: the list has one record for
  each id in use and no other. `remove_range` takes out the first record
  with the address; that it is the right one needs the addresses to be distinct, and that
  needs `Ordered`, because two records with the same start would overlap.
* `HonestInv`, under an honest allocator and `IdsFit`: payloads lie apart and contain
  their pattern, so that the next answer is accepted and its contents compare equal.

`DriverKeepsPromise` reads the payloads as `Held` does and maps each step to one of
`AllocatorPromise`; the cells of a payload are numbered as there.

### The passes over the allocator

`DInv` (`MDriverProofs`) is the invariant of driver and allocator together: the
allocator's own `IInv`; `Script`, the trace makes sense and the ids in use are those
that its first `i` operations leave allocated; `Tied`, the entries of `blocks` of
these ids are exactly the payloads that the allocator counts as live, with their sizes;
`Checked`, in the correctness pass the range list records payloads only and those hold
their pattern; and the bookkeeping (`Met`, `Figures`, `Modes`). `Modes` includes that no
check has failed. It is inductive because `place` gives a payload apart from all others and
leaves the words of the others alone (`PlaceResult` of `MMProofs`).

`UInv` adds what the utilization pass keeps: the size it noted for an id in use is that
of the payload, the running total is the sum of these sizes, and its maximum is at
most the heap. The sum is a fold over a set, that is, a recursive function behind a
`CHOOSE`: `SumExists` shows that the function exists and `SumsAgree` that it is the only
one, so that an element can be added or taken out whichever comes first
(`SumOverTakesAny`). The maximum is bounded because payloads are intervals that lie
apart between the start of the region and the break, and such intervals
together are no longer than what they lie in (`ApartFitIn`, by taking the last one
off); the heap does not shrink within the pass.

`ReplayProofs` shows that a replay agrees. The memory differs from pass to pass, because
payloads and what earlier passes left in free blocks differ, and the tags are found by
reading that memory. What does not differ is the *shape*: the break and the header of
each block. For each function there is an operator on shapes (`CoalesceIn`, `PlaceIn`,
`ReleaseIn`, `GrowIn`, `Fresh`), and a lemma that the function, on any memory of
that shape, gives a memory of the shape that the operator says and the same pointer
(`CoalesceShape`, `PlaceShape`, `ReleaseShape`, `GrowShape`, `InitShape`); a memory has one
shape only (`RowIsUnique`), and the client's writes do not change it (`WriteShape`). So the
answer to an operation and the next shape are functions of shape and operation
(`AnswerTo`, `After`), and so is whether there is room (`Served`). `RInv` adds to `DInv`
that there is a history `H[0], H[1], ...` of what these functions give along the trace, that
every operation in it was served with the recorded answer, and that the pass stands at
`H[i]`. The correctness pass makes the history longer by one per operation (`HistoryGrows`);
the later ones follow it, and a failure in them would contradict `Served`. TLC cannot
enumerate the histories; the same formula with `H` computed from the trace was checked on the
instance of the run `mdriver` with four operations before it was proved.

### The timing package

* `DifferenceIsExact` and `AlphaWithinAWordIsExact` are arithmetic: `TwoWordDifference` and
  `OneWordDifference` say what `get_counter` computes for words of any size.
* `ClockInv`, on the i386: a tick that was recorded lies between the tick itself and its slack
  (`CalibrationBounds`); what was counted before and not yet recorded is below the
  threshold or includes a tick. That needs `THRESHOLD > 0` and
  `THRESHOLD + LOOP <= RECORDTHRESH + 1`, which the constants of `clock.c` satisfy.
* `KeptInv`: the part of the array in use is ascending, and for every value the number of
  places that hold it is the number of times it was measured, up to what the array has
  room for (`HoldsTheSmallest`). One sample more is one insertion (`PlacesOfInsertion`,
  `SampleKept`).

### The trace files

The properties compare the tables that the programs keep with what the file means, and
what it means is said by quantifiers over its lines: an id is in use when it was
allocated and not freed since (`InUse`). `TraceInv` ties the two at every step.

* `Checking`: in `checktrace`, `@lines` are the requests read so far, each of them in
  order, and the keys of `%HASH` are the ids in use behind them (`IdsInUse`), all with
  the entry `"a"`. `InUseNext` says what one more request does to the ids in use; that it
  is what `Tally` does to the keys needs the requests to be in order so far, and `Dies`
  finds the first that is not (`DiesIs`, `TallyIs`). It is not known of a file with unknown commands.
* `Printed`: what was printed is in order, has no blank line, leaves nothing in use, and its
  header is right if that of the file was. It is `FreesBalance`: frees of all ids in use,
  each once, in any order, are in order and leave none. The script sorts its keys as
  strings; model and proof allow every order.
* `Reading`, `Running`: `read_trace` has stored the requests and the greatest id of those
  that allocate; in the passes, the ids in use have their payloads. Of a printed file, these are
  the only payloads, in every pass, because the pass before ended with none.
* `Ended`: which files can have led where.

The lines that are not blank (`RequestsIn`) are a recursive function over the file; that
there is such a function is shown once (`RecursionExists`), and each step of it is then an
equation to use (`RequestsStep`). The formula was checked by TLC as an invariant on the instance
of `trace_files` before it was proved.

The generated files are in order for every number of iterations (`Proper`). For the
scripts without chance the place of each request is computed: what a loop
prints is a list of lists of one length, flattened (`FlattenBlocks`), so the request at a
place follows from quotient and remainder (`PlaceInBlock`). It is enough that an id is
allocated at one place, which lies before its reallocations and its free
(`OrderByPlaces`). For `gen_random` the
invariant of its loop is `Partial`: all blocks are allocated, those before the k-th are
freed behind their allocation, and no request is there twice; a free spliced in at any of
the places the script may draw keeps it (`PartialGrows`, by `InsertAtParts`).

### The main program

`MainProofs` proves six invariants of the main program. `TimerInv`: while the timer
is armed, what is left on it and what has passed since it was set make up a
day; so the signal comes only when a day is over, and nothing follows the exit. Most
steps leave the timer alone (`Quiet`). `HeapInv`: in a pass the break is the start of
the region plus what was added since the pass began. Most steps do not touch the
heap and none but `enter_pass` leads into a pass (`Untouched`). `BooksInv`: the error
count is 0 exactly when all traces passed so far are valid, and those to come are
marked as not valid; at the report every trace is passed, and a set of valid traces
as large as the set of all is that set (`FS_Subset`). `AskedInv` is what
`FilesAreAsAsked` says, of the options read so far and without default files yet;
the last option is the last of its kind (`OneMoreOption`). `NotBackwards`: the
interval timer never reads less than it did when the measurement began, so that no time
measured with it is negative. `StatsInv`: once the options are read there are traces,
and every utilization noted is between 0 and 100 and, with the interval timer, every
time at least 0. The index then is in range because a sum of n values of at most 100 is
at most 100 n (`FieldSumBounds`), and because the quotient for the throughput is taken
only when it is at most 1 (`SpeedPoints`). That no step shrinks the heap within a pass
(`PassesNeverShrinkHeap`) holds because every step of the program is a step of
`MemLib` or leaves the break alone (`MemoryStep`), whose theorem then carries over.

## 6. Only model-checked

* Liveness (`CallReturns`, `EveryCallReturns`, `Terminates`): fairness and ENABLED are
  beyond the prover.
* Induction over data with an operator as parameter is beyond the provers. Where a proof
  needs it, it goes through a set instead: the least element of a set of counterexamples
  (`LeastElement`), or induction by a set that holds 0 and every successor (`SetInduction`).
* What happens outside `RequestsDoNotWrap` and `IncrementsDoNotWrap`: the theorems
  assume it away; the run `mm_huge` shows what happens for requests.

## 7. Not modelled

* `mem_deinit` is never called; `mem_pagesize` is a constant.
* libc malloc: its passes check nothing and keep nothing, and it is modelled as
  succeeding (`TraceFiles`) or ending the program (`Main`).
* A line of a trace file that is not of the form of its command: `fscanf` then keeps
  the numbers of the line before.
* `-t ""`, with which `main` reads `tracedir[-1]`; `-g`, `-v` and `-V` only decide what is
  printed. The rounding of floating point in the sums and the index.
* Sizes in generated files. `int(rand max)` can be 0 (gen_random.pl:19), and such a
  request would be reported as a failure of `mm_malloc`; none of the traces in the
  repository has one.
* `ovhd` and `mhz` of `clock.c`: the first is never called, the second needs to know
  the seconds that `sleep` really took. Machines other than the two print an error
  and exit. Interrupts other than the timer's during the calibration, and two ticks
  closer to each other than a few turns of its loop.
* The virtual and profiling timers of `ftimer.c`, which are set beside the real one
  and read by nothing.
* Bytes inside a word: payload is written and compared in words (`MM`) or cells
  (`EvalValid`). The last word of a payload stands for the bytes of it that
  belong to the payload.
* libc running out of memory in `add_range` under `MDriver`: it ends the program, as `exits` of
  `EvalValid` and `exit` of `Main` show, and there is no later pass to say anything of.
* Floating point in the differences of the counters: a double holds those of the i386
  exactly up to 2^53, and those of an Alpha whose low word went around to 2048 cycles.
* Operations on ids that are not in use, in `EvalValid` and `MDriver`: they are given
  traces that make sense. `TraceFiles` shows which files are such traces; what the
  allocator does with a stale pointer is not modelled.

## 8. Plan

In order of what matters most to this program.

1. `MemLib`, `MM`, `MMSafety` with `AllocatorPromise` as the abstract
   specification, checked over all call sequences on small heaps. *Done.*
2. `DriverChecks`, `EvalValid`, and `MDriver` composing the driver with `MM`.
   *Done.*
3. `KBest`, then `Clock`, and `Timing` composing them. *Done.*
4. Proofs: the break, the inductive invariant of the allocator
   (`MMProofs`), and the refinement. *Done.*
5. `TraceFiles`: `checktrace.pl` and `read_trace`, with the files of `Generators` and
   the passes of both packages. *Done.*
6. `Ftimer`, and `Main` composing it with `MemLib`: options, passes, report. *Done.*
7. Proofs about `Main`: the timer, the heap of a pass, the report and the options.
   *Done.*
8. Theorems about the driver: the range list (`EvalValidProofs`), the passes over the
   allocator (`MDriverProofs`), and that replays agree (`ReplayProofs`). *Done.*
9. Theorems about `Timing`: the array holds the smallest measurements, its first
   element is the minimum; the difference of two readings is exact; a recorded tick costs
   at least a tick, on which `CompensationIsBounded` rests. *Done.*
10. Theorems with sums: the total of the utilization pass (`MDriverProofs`), and the
   limits of the index in `Main` (`MainProofs`). *Done.*
11. Theorems about `TraceFiles`: the table holds exactly the ids in use, so that the
   checker dies of nothing that makes sense, and what it prints is balanced; and every file of
   `Generators` is in order (`TraceFilesProofs`). *Done.*

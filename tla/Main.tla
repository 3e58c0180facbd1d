-------------------------------- MODULE Main --------------------------------
(***************************************************************************)
(* The main program of mdriver.c: options, team, the loop over the traces  *)
(* for libc and the loop for the student's package, the timer and the      *)
(* memory system that all passes share, and the report.                    *)
(*                                                                         *)
(* The passes themselves are those of EvalValid and MDriver. Here a pass   *)
(* is what main sees of it: it resets the break, calls mem_sbrk as often   *)
(* as the allocator under test likes, takes time, and ends in one of its   *)
(* results. -g, -v and -V only decide what is printed.                     *)
(***************************************************************************)
EXTENDS MemLib, Ftimer, SequencesExt

CONSTANTS
  TRACEDIR,            \* directories are [name, slash]: whether the path
  DEFAULT_TRACEFILES,  \*   ends with a "/"
  Dirs,                \* arguments of -t, none of them empty
  Names,               \* arguments of -f
  MaxArgs,             \* options on the command line, to bound the runs
  Teams,               \* the fields that are filled in, of the team in mm.c
  OpCounts,            \* numbers of operations of a trace
  Utils,               \* space utilization of a trace, in percent
  AVG_LIBC_THRUPUT     \* operations per unit of time

ASSUME MainAssumption ==
  /\ MaxArgs \in Nat
  /\ DEFAULT_TRACEFILES \in Seq(ToSet(DEFAULT_TRACEFILES))
  /\ Len(DEFAULT_TRACEFILES) # 0
  /\ OpCounts \subseteq Nat
  /\ Utils \subseteq 0 .. 100
  /\ AVG_LIBC_THRUPUT \in Nat \ {0}

VARIABLES
  args,        \* options read so far; forgotten once they have been followed
  tracedir, tracefiles, team_check, run_libc,
  phase,       \* "options"; "start"; "libc", "mm" between two traces;
               \* "libc_valid", "libc_speed", "valid", "util", "speed" in a
               \* pass; "libc_timed", "timed" before it is measured;
               \* "memory" before mem_init; "report"; "exited"
  status,      \* of the exit: "ok" for 0, "failed", "killed" by the timer
  i,           \* the trace at hand
  repeat,      \* runs of the function being measured
  errors,
  mm_stats,    \* [ops, valid, secs, util] of each trace
  grown        \* what mem_sbrk has added since the pass began

options == <<args, tracedir, tracefiles, team_check, run_libc>>
heap == <<mem_brk, grown>>
vars == <<options, phase, status, i, repeat, errors, mm_stats, heap, timer>>

CurrDir == [name |-> ".", slash |-> TRUE]
Option == [opt : {"f"}, arg : Names] \union [opt : {"t"}, arg : Dirs]
          \union [opt : {"a", "l", "h", "v", "?"}, arg : {""}]

num_tracefiles == Len(tracefiles)
Zero == [ops |-> 0, valid |-> FALSE, secs |-> 0, util |-> 0]

Init ==
  /\ args = << >>
  /\ tracedir = TRACEDIR /\ tracefiles = << >>
  /\ team_check = TRUE /\ run_libc = FALSE
  /\ phase = "options" /\ status = "none"
  /\ i = 1 /\ repeat = 0 /\ errors = 0 /\ mm_stats = << >>
  /\ mem_init /\ grown = 0
  /\ TimerInit

exit(s) == phase' = "exited" /\ status' = s
goto(p) == phase' = p /\ UNCHANGED status

-----------------------------------------------------------------------------
(* The command line. An operator X_Y is X with a slip Y that the           *)
(* properties are to notice.                                               *)

EndsWithSlash(dir) == [name |-> dir.name, slash |-> TRUE]

set_tracedir_Always(dir) == tracedir' = EndsWithSlash(dir)

\* -t is ignored once there was an -f.
set_tracedir(dir) ==
  tracedir' = IF num_tracefiles = 1 THEN tracedir ELSE EndsWithSlash(dir)

option(o) ==
  /\ phase = "options" /\ Len(args) < MaxArgs
  /\ args' = Append(args, o)
  /\ IF o.opt = "f" THEN tracefiles' = <<o.arg>> ELSE UNCHANGED tracefiles
  /\ CASE o.opt = "f" -> tracedir' = CurrDir
       [] o.opt = "t" -> set_tracedir(o.arg)
       [] OTHER -> UNCHANGED tracedir
  /\ team_check' = (team_check /\ o.opt # "a")
  /\ run_libc' = (run_libc \/ o.opt = "l")
  /\ CASE o.opt = "h" -> exit("ok")
       [] o.opt = "?" -> exit("failed")
       [] o.opt = "f" -> goto("options") \/ exit("failed")   \* no memory
       [] OTHER -> goto("options")
  /\ UNCHANGED <<i, repeat, errors, mm_stats, heap, timer>>

Complete(team) ==
  /\ {"teamname", "name1", "id1"} \subseteq team
  /\ "name2" \in team <=> "id2" \in team

check_team ==
  /\ phase = "options"
  /\ \E team \in Teams :
       IF team_check /\ ~ Complete(team) THEN exit("failed") ELSE goto("start")
  /\ tracefiles' = IF tracefiles = << >> THEN DEFAULT_TRACEFILES ELSE tracefiles
  /\ UNCHANGED <<args, tracedir, team_check, run_libc>>
  /\ UNCHANGED <<i, repeat, errors, mm_stats, heap, timer>>

\* init_fsecs, and the calloc of libc_stats.
init_fsecs ==
  /\ phase = "start"
  /\ args' = << >>
  /\ IF run_libc THEN goto("libc") \/ exit("failed") ELSE goto("memory")
  /\ UNCHANGED <<tracedir, tracefiles, team_check, run_libc>>
  /\ UNCHANGED <<i, repeat, errors, mm_stats, heap, timer>>

-----------------------------------------------------------------------------
(* The passes over libc malloc. They count an error only on the way out.   *)

\* A pass that is not measured, and a run of one that is, up to what follows;
\* or the timer ends it.
unmeasured(next) ==
  \E d \in Durations : \/ idle(d) /\ next
                       \/ expire(d) /\ exit("killed")

measured(next) ==
  \E d \in Durations : \/ \E s \in Adjustments : elapse(d, s) /\ next
                       \/ expire(d) /\ exit("killed")

libc_read ==
  /\ phase = "libc" /\ i <= num_tracefiles
  /\ goto("libc_valid") \/ exit("failed")
  /\ UNCHANGED <<options, i, repeat, errors, mm_stats, heap, timer>>

eval_libc_valid ==
  /\ phase = "libc_valid"
  /\ \/ unmeasured(goto("libc_timed")) /\ UNCHANGED errors
     \/ exit("failed") /\ errors' = errors + 1 /\ UNCHANGED timer
  /\ UNCHANGED <<options, i, repeat, mm_stats, heap>>

libc_fsecs ==
  /\ phase = "libc_timed"
  /\ start_timing
  /\ goto("libc_speed")
  /\ UNCHANGED <<options, i, repeat, errors, mm_stats, heap>>

eval_libc_speed ==
  /\ phase = "libc_speed" /\ repeat < Runs
  /\ repeat' = repeat + 1
  /\ \/ measured(goto("libc_speed"))
     \/ exit("failed") /\ UNCHANGED timer
  /\ UNCHANGED <<options, i, errors, mm_stats, heap>>

libc_next ==
  /\ phase = "libc_speed" /\ repeat = Runs
  /\ repeat' = 0 /\ i' = i + 1
  /\ stop_timing
  /\ goto("libc")
  /\ UNCHANGED <<options, errors, mm_stats, heap>>

libc_done ==
  /\ phase = "libc" /\ i > num_tracefiles
  /\ i' = 1
  /\ goto("memory")
  /\ UNCHANGED <<options, repeat, errors, mm_stats, heap, timer>>

-----------------------------------------------------------------------------
(* The passes over the student's package.                                  *)

\* calloc of mm_stats, and mem_init. Nothing used the region before, which is
\* why Init can have it already.
memory ==
  /\ phase = "memory"
  /\ \/ goto("mm") /\ mm_stats' = [j \in 1 .. num_tracefiles |-> Zero]
     \/ exit("failed") /\ UNCHANGED mm_stats
  /\ UNCHANGED <<options, i, repeat, errors, heap, timer>>

enter_pass_AsItIs == UNCHANGED mem_brk /\ grown' = 0

\* Every pass, and every run of the speed pass, starts with an empty heap.
enter_pass == mem_reset_brk /\ grown' = 0

mm_read ==
  /\ phase = "mm" /\ i <= num_tracefiles
  /\ \/ /\ \E n \in OpCounts : mm_stats' = [mm_stats EXCEPT ![i].ops = n]
        /\ enter_pass
        /\ goto("valid")
     \/ exit("failed") /\ UNCHANGED <<mm_stats, heap>>
  /\ UNCHANGED <<options, i, repeat, errors, timer>>

\* The allocator under test asks for memory.
sbrk(size) ==
  /\ phase \in {"valid", "util", "speed"}
  /\ \/ mem_sbrk(size) /\ grown' = grown + ToInt(size)
     \/ mem_sbrk_fails(size) /\ UNCHANGED grown
  /\ UNCHANGED <<options, phase, status, i, repeat, errors, mm_stats, timer>>

malloc_error_Lost == UNCHANGED errors
malloc_error == errors' = errors + 1

eval_mm_valid ==
  /\ phase = "valid"
  /\ \/ /\ unmeasured(goto("util"))
        /\ IF status' = "none"
           THEN mm_stats' = [mm_stats EXCEPT ![i].valid = TRUE] /\ enter_pass
           ELSE UNCHANGED <<mm_stats, heap>>
        /\ UNCHANGED <<i, errors>>
     \/ /\ unmeasured(goto("mm"))
        /\ malloc_error
        /\ i' = i + 1
        /\ UNCHANGED <<mm_stats, heap>>
     \/ /\ exit("failed")       \* the assert or the malloc of add_range
        /\ UNCHANGED <<i, errors, mm_stats, heap, timer>>
  /\ UNCHANGED <<options, repeat>>

eval_mm_util ==
  /\ phase = "util"
  /\ \/ /\ unmeasured(goto("timed"))
        /\ \E u \in Utils : mm_stats' = [mm_stats EXCEPT ![i].util = u]
     \/ exit("failed") /\ UNCHANGED <<mm_stats, timer>>
  /\ UNCHANGED <<options, i, repeat, errors, heap>>

fsecs ==
  /\ phase = "timed"
  /\ start_timing
  /\ enter_pass
  /\ goto("speed")
  /\ UNCHANGED <<options, i, repeat, errors, mm_stats>>

eval_mm_speed ==
  /\ phase = "speed" /\ repeat < Runs
  /\ repeat' = repeat + 1
  /\ \/ measured(goto("speed"))
     \/ exit("failed") /\ UNCHANGED timer
  /\ IF repeat' < Runs THEN enter_pass ELSE UNCHANGED heap
  /\ UNCHANGED <<options, i, errors, mm_stats>>

mm_next_SameTrace ==
  /\ phase = "speed" /\ repeat = Runs
  /\ mm_stats' = [mm_stats EXCEPT ![i].secs = tmeas]
  /\ repeat' = 0
  /\ stop_timing
  /\ goto("mm")
  /\ UNCHANGED <<i, options, errors, heap>>

mm_next ==
  /\ phase = "speed" /\ repeat = Runs
  /\ mm_stats' = [mm_stats EXCEPT ![i].secs = tmeas]
  /\ repeat' = 0 /\ i' = i + 1
  /\ stop_timing
  /\ goto("mm")
  /\ UNCHANGED <<options, errors, heap>>

mm_done ==
  /\ phase = "mm" /\ i > num_tracefiles
  /\ goto("report")
  /\ UNCHANGED <<options, i, repeat, errors, mm_stats, heap, timer>>

finish ==
  /\ phase = "report"
  /\ exit("ok")
  /\ UNCHANGED <<options, i, repeat, errors, mm_stats, heap, timer>>

Step ==
  \/ \E o \in Option : option(o)
  \/ check_team \/ init_fsecs
  \/ libc_read \/ eval_libc_valid \/ libc_fsecs \/ eval_libc_speed
  \/ libc_next \/ libc_done
  \/ memory \/ mm_read \/ eval_mm_valid \/ eval_mm_util \/ fsecs
  \/ eval_mm_speed \/ mm_next \/ mm_done \/ finish

Next == Step \/ \E size \in Sizes : sbrk(size)

\* The program keeps running, and the allocator under test returns.
Spec == Init /\ [][Next]_vars /\ WF_vars(Step)

-----------------------------------------------------------------------------
(* What is printed.                                                        *)

numcorrect == Cardinality({ j \in 1 .. num_tracefiles : mm_stats[j].valid })

Total(S) == [ops  |-> MapThenSumSet(LAMBDA j : mm_stats[j].ops, S),
             secs |-> MapThenSumSet(LAMBDA j : mm_stats[j].secs, S),
             util |-> MapThenSumSet(LAMBDA j : mm_stats[j].util, S)]

\* The sums of the index, and those in the last line of the table.
Sums == Total(1 .. num_tracefiles)
printresults == Total({ j \in 1 .. num_tracefiles : mm_stats[j].valid })

\* The points for the throughput, ops / secs, where secs are those of all runs.
\* With secs = 0 the quotient is infinite, or not a number if ops are 0 too.
Faster(t, a) == t.secs = 0 \/ (t.secs > 0 /\ t.ops * Runs > a * t.secs)

Quotient(t) ==
  IF t.secs > 0 THEN (40 * t.ops * Runs) \div (AVG_LIBC_THRUPUT * t.secs)
  ELSE - ((40 * t.ops * Runs) \div (AVG_LIBC_THRUPUT * (- t.secs)))

p2_Uncapped(t) == IF t.secs = 0 THEN 40 ELSE Quotient(t)

p2(t) == IF Faster(t, AVG_LIBC_THRUPUT) THEN 40 ELSE Quotient(t)

NaN(t) == t.ops = 0 /\ t.secs = 0

p1(t) == (60 * t.util) \div (100 * num_tracefiles)

perfindex(t) == p1(t) + p2(t)

-----------------------------------------------------------------------------

TypeOK ==
  /\ tracefiles \in Seq(Names \union ToSet(DEFAULT_TRACEFILES))
  /\ team_check \in BOOLEAN /\ run_libc \in BOOLEAN
  /\ phase \in {"options", "start", "libc", "libc_valid", "libc_timed", "libc_speed",
               "memory", "mm", "valid", "util", "timed", "speed", "report", "exited"}
  /\ status \in {"none", "ok", "failed", "killed"}
  /\ phase = "exited" <=> status # "none"
  /\ repeat \in 0 .. Runs
  /\ remaining \in 0 .. MAX_ETIME

\* The traces are those that the whole command line asks for, whatever the order
\* of -f and -t: the last -f, relative to the current directory, or else the
\* default files in the last -t, or else in TRACEDIR (mdriver.c:166-180, 232-236).
FilesAreAsAsked ==
  LET Of(o) == { j \in DOMAIN args : args[j].opt = o }
  IN  phase = "start" =>
        IF Of("f") # {}
        THEN tracefiles = <<args[Max(Of("f"))].arg>> /\ tracedir = CurrDir
        ELSE /\ tracefiles = DEFAULT_TRACEFILES
             /\ tracedir = IF Of("t") = {} THEN TRACEDIR
                           ELSE [name |-> args[Max(Of("t"))].arg.name, slash |-> TRUE]

\* The heap lies in its region, and the heap whose size judges a pass is what that
\* pass asked for, whatever the passes before it left (mdriver.c:588, 709, 777, 792).
HeapIsOfThisPass ==
  /\ BrkInRegion
  /\ phase \in {"valid", "util", "speed"} => mem_heapsize = grown

\* The error count decides whether there is an index, the table and numcorrect go
\* by the valid flags: they speak of the same traces, and when the total line of
\* the table is printed, its sums are those of the index (mdriver.c:311-358,
\* 931-971).
ReportAgrees ==
  phase = "report" =>
    /\ errors = 0 <=> numcorrect = num_tracefiles
    /\ errors = 0 => printresults = Sums

\* The index is at most 100, and at least 0 unless the system clock was set back
\* by more than the passes took; a clock that stands still gives full points for
\* the throughput. With the interval timer it is always in bounds
\* (mdriver.c:320-351, ftimer.c:27-59).
IndexInRange ==
  phase = "report" /\ errors = 0 /\ ~ NaN(Sums) =>
    /\ perfindex(Sums) <= 100
    /\ Sums.secs >= 0 \/ package = "itimer" => perfindex(Sums) >= 0

\* The interval timer is left running when a measurement is over. It does not end
\* the program unless a day has passed since the last measurement began
\* (ftimer.c:78-111).
KilledOnlyAfterADay == status = "killed" => since >= MAX_ETIME

\* The program ends (mdriver.c:138-366).
Terminates == <>(phase = "exited")

=============================================================================

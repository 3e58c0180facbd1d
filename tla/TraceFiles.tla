----------------------------- MODULE TraceFiles -----------------------------
(***************************************************************************)
(* The way of a trace file, one that a script generated or any other.      *)
(* traces/checktrace.pl reads it and either dies, or tells whether it is   *)
(* balanced (option -s), or prints a version with the missing frees        *)
(* appended, which traces/Makefile has it check again. mdriver reads the   *)
(* file, or that version of it, with read_trace. Its passes, over libc     *)
(* malloc or over the student's package, follow the ids of the operations  *)
(* into the array trace->blocks again and again; only the heap of the      *)
(* student's package is emptied in between.                                *)
(*                                                                         *)
(* A line is a command and an id. Sizes decide nothing here and are left   *)
(* out, and so are lines that are not of the form of their command. What   *)
(* the allocator does is the matter of other modules: here it succeeds.    *)
(***************************************************************************)
EXTENDS Generators

CONSTANTS
  Ids,        \* ids in files
  MaxLines,   \* request lines of a file, to bound the runs
  NumIds,     \* values of num_ids in the header
  NumOps,     \* values of num_ops in the header
  Iters,      \* numbers of iterations in the scripts that generate files
  Passes      \* how often a package runs a trace

ASSUME TraceAssumption ==
  /\ Ids \subseteq Nat
  /\ MaxLines \in Nat
  /\ NumIds \subseteq Nat /\ NumOps \subseteq Nat
  /\ Iters \subseteq Nat \ {0}
  /\ Passes \in Nat \ {0}

\* "x" stands for any word that is not a command.
Request == [cmd : {"a", "r", "f", "x"}, id : Ids]
Blank == [cmd |-> "", id |-> 0]

Files == [num_ids : NumIds, num_ops : NumOps,
          lines : BoundedSeq(Request \union {Blank}, MaxLines)]

GeneratedFiles == UNION { Generated(n) : n \in Iters }

VARIABLES
  file,       \* the file as it was written
  output,     \* what checktrace printed, once it did
  checked,    \* output is there, and mdriver is given output for file
  opt_s,      \* checktrace was called with -s
  step,       \* "start"; "check" in checktrace, "read" in read_trace, "run" in
              \* the passes; and how it ended: "died", "balanced",
              \* "unbalanced" for checktrace, "exited", "aborted" (by an
              \* assert), "done" for mdriver, and "wild" when it used memory
              \* it must not use, after which anything may happen
  pos,        \* lines read, or operations run
  HASH,       \* of checktrace: id -> command, of the ids outstanding
  lines,      \* of checktrace: @lines
  ops,        \* trace->ops, as far as filled
  max_index,  \* of read_trace
  package,    \* the one that runs the trace, "libc" or "mm"
  pass,       \* passes begun
  inuse,      \* ids whose entry of trace->blocks is a payload that is held
  leaked      \* payloads held that no entry has any more

script == <<output, checked, opt_s, HASH, lines>>
trace == <<ops, max_index>>
running == <<package, pass, inuse, leaked>>
vars == <<file, step, pos, script, trace, running>>

Empty == [id \in {} |-> ""]
NoFile == [num_ids |-> 0, num_ops |-> 0, lines |-> << >>]

\* The file that mdriver reads.
Given == IF checked THEN output ELSE file

-----------------------------------------------------------------------------
(* checktrace.pl. An operator X_Y is X with a slip Y that the properties   *)
(* are to notice.                                                          *)

\* $HASH{$id}, "" when there is no such entry.
Entry(id) == IF id \in DOMAIN HASH THEN HASH[id] ELSE ""

Dies_NotOnRealloc(l) ==
  \/ l.cmd = "a" /\ Entry(l.id) \in {"a", "f"}
  \/ l.cmd = "f" /\ l.id \notin DOMAIN HASH

\* The fifth test, of a free for an id that is free already, compares
\* (!$HASH{$id}) with "f" and never holds.
Dies(l) ==
  \/ l.cmd = "r" /\ Entry(l.id) = ""
  \/ l.cmd = "a" /\ Entry(l.id) \in {"a", "f"}
  \/ l.cmd = "f" /\ l.id \notin DOMAIN HASH

Without(id) == [k \in DOMAIN HASH \ {id} |-> HASH[k]]
With(id, cmd) == [k \in DOMAIN HASH \union {id} |-> IF k = id THEN cmd ELSE HASH[k]]

Tally_NoNext(l) == IF l.cmd = "f" THEN Without(l.id) ELSE With(l.id, l.cmd)

Tally_ReallocDeletes(l) ==
  IF l.cmd \in {"f", "r"} THEN Without(l.id) ELSE With(l.id, l.cmd)

Tally(l) ==
  CASE l.cmd = "r" -> HASH
    [] l.cmd = "f" -> Without(l.id)
    [] OTHER -> With(l.id, l.cmd)

Frees(keys) == [i \in DOMAIN keys |-> f(keys[i])]

Balanced_HeaderKept(keys) == [file EXCEPT !.lines = lines \o Frees(keys)]

\* The version that checktrace prints, with the missing frees in this order.
Balanced(keys) ==
  [file EXCEPT !.num_ops = @ + Cardinality(DOMAIN HASH),
               !.lines = lines \o Frees(keys)]

checktrace ==
  /\ step = "start"
  /\ step' = "check"
  /\ opt_s' \in (IF checked THEN {TRUE} ELSE BOOLEAN)
  /\ pos' = 0 /\ HASH' = Empty /\ lines' = << >>
  /\ UNCHANGED <<file, output, checked, trace, running>>

blank_line ==
  /\ step = "check" /\ pos < Len(Given.lines)
  /\ Given.lines[pos + 1] = Blank
  /\ pos' = pos + 1
  /\ UNCHANGED <<file, step, script, trace, running>>

request_line ==
  /\ step = "check" /\ pos < Len(Given.lines)
  /\ LET l == Given.lines[pos + 1]
     IN  /\ l # Blank
         /\ lines' = Append(lines, l)
         /\ \/ Dies(l) /\ step' = "died" /\ HASH' = HASH
            \/ ~ Dies(l) /\ step' = step /\ HASH' = Tally(l)
  /\ pos' = pos + 1
  /\ UNCHANGED <<file, output, checked, opt_s, trace, running>>

summary ==
  /\ step = "check" /\ pos = Len(Given.lines) /\ opt_s
  /\ step' = IF DOMAIN HASH = {} THEN "balanced" ELSE "unbalanced"
  /\ UNCHANGED <<file, pos, script, trace, running>>

\* The keys are sorted as strings; here any order will do. An entry that is
\* neither "a" nor "r" ends the script when its free is due.
print_balanced ==
  /\ step = "check" /\ pos = Len(Given.lines) /\ ~ opt_s
  /\ \/ /\ \A id \in DOMAIN HASH : HASH[id] \in {"a", "r"}
        /\ \E keys \in SetToSeqs(DOMAIN HASH) : output' = Balanced(keys)
        /\ checked' = TRUE
        /\ HASH' = Empty /\ lines' = << >> /\ pos' = 0
        /\ step' = "start"
     \/ /\ \E id \in DOMAIN HASH : HASH[id] \notin {"a", "r"}
        /\ step' = "died"
        /\ UNCHANGED <<output, checked, HASH, lines, pos>>
  /\ UNCHANGED <<file, opt_s, trace, running>>

-----------------------------------------------------------------------------
(* read_trace, and the passes.                                             *)

open ==
  /\ step = "start"
  /\ step' = "read"
  /\ pos' = 0 /\ ops' = << >> /\ max_index' = 0
  /\ UNCHANGED <<file, script, running>>

MaxIndex_AllocOnly(l) == IF l.cmd = "a" /\ l.id > max_index THEN l.id ELSE max_index

MaxIndex(l) == IF l.cmd \in {"a", "r"} /\ l.id > max_index THEN l.id ELSE max_index

\* The array of operations has num_ops entries, and nothing is compared with
\* that number before the file is at its end.
read_request ==
  /\ step = "read" /\ pos < Len(Given.lines)
  /\ LET l == Given.lines[pos + 1]
     IN  \/ /\ l = Blank
            /\ UNCHANGED <<step, ops, max_index>>
         \/ /\ l.cmd = "x" /\ step' = "exited"
            /\ UNCHANGED <<ops, max_index>>
         \/ /\ l.cmd \in {"a", "r", "f"} /\ Len(ops) >= Given.num_ops
            /\ step' = "wild"
            /\ UNCHANGED <<ops, max_index>>
         \/ /\ l.cmd \in {"a", "r", "f"} /\ Len(ops) < Given.num_ops
            /\ ops' = Append(ops, l)
            /\ max_index' = MaxIndex(l)
            /\ step' = step
  /\ pos' = pos + 1
  /\ UNCHANGED <<file, script, running>>

end_of_file ==
  /\ step = "read" /\ pos = Len(Given.lines)
  /\ step' = IF max_index = Given.num_ids - 1 /\ Given.num_ops = Len(ops)
             THEN "run" ELSE "aborted"
  /\ package' \in {"libc", "mm"} /\ pass' = 1
  /\ pos' = 0
  /\ UNCHANGED <<file, script, trace, inuse, leaked>>

Op == ops[pos + 1]

\* The entry of trace->blocks that an operation follows: it has to lie in the
\* array, and mm_realloc and mm_free are given what it contains.
Wild(op) ==
  \/ op.id >= Given.num_ids
  \/ op.cmd \in {"r", "f"} /\ op.id \notin inuse

run_op ==
  /\ step = "run" /\ pos < Len(ops)
  /\ \/ /\ Wild(Op)
        /\ step' = "wild"
        /\ UNCHANGED <<inuse, leaked>>
     \/ /\ ~ Wild(Op)
        /\ inuse' = IF Op.cmd = "f" THEN inuse \ {Op.id} ELSE inuse \union {Op.id}
        /\ leaked' = leaked + (IF Op.cmd = "a" /\ Op.id \in inuse THEN 1 ELSE 0)
        /\ step' = step
  /\ pos' = pos + 1
  /\ UNCHANGED <<file, script, trace, package, pass>>

\* The next run of the function that is measured.
next_pass ==
  /\ step = "run" /\ pos = Len(ops) /\ pass < Passes
  /\ pass' = pass + 1
  /\ pos' = 0
  /\ inuse' = IF package = "mm" THEN {} ELSE inuse
  /\ UNCHANGED <<file, step, script, trace, package, leaked>>

free_trace ==
  /\ step = "run" /\ pos = Len(ops) /\ pass = Passes
  /\ step' = "done"
  /\ ops' = << >>
  /\ UNCHANGED <<file, pos, script, max_index, running>>

-----------------------------------------------------------------------------

Init ==
  /\ file \in Files \union GeneratedFiles
  /\ output = NoFile /\ checked = FALSE /\ opt_s = FALSE
  /\ step = "start" /\ pos = 0
  /\ HASH = Empty /\ lines = << >>
  /\ ops = << >> /\ max_index = 0
  /\ package = "mm" /\ pass = 0 /\ inuse = {} /\ leaked = 0

Next ==
  \/ checktrace \/ blank_line \/ request_line \/ summary \/ print_balanced
  \/ open \/ read_request \/ end_of_file
  \/ run_op \/ next_pass \/ free_trace

Spec == Init /\ [][Next]_vars

-----------------------------------------------------------------------------
(* What a trace means: an id is in use from its allocation to its free.    *)

InUse(ls, n, id) ==
  \E j \in 1 .. n :
    /\ ls[j] = [cmd |-> "a", id |-> id]
    /\ \A k \in j + 1 .. n : ls[k] # [cmd |-> "f", id |-> id]

AllocatedIn(ls, n, id) == \E j \in 1 .. n : ls[j] = [cmd |-> "a", id |-> id]

\* An id "uniquely identifies an allocate or reallocate request"
\* (traces/README:44-47): it is allocated once, and reallocated and freed only
\* while it is in use.
SensibleAt(ls, n) ==
  /\ ls[n].cmd = "a" => ~ AllocatedIn(ls, n - 1, ls[n].id)
  /\ ls[n].cmd \in {"r", "f"} => InUse(ls, n - 1, ls[n].id)

Sensible(ls) == \A n \in DOMAIN ls : SensibleAt(ls, n)

\* The id of an allocation that was freed is allocated again.
ReusesAt(ls, n) ==
  /\ ls[n].cmd = "a"
  /\ AllocatedIn(ls, n - 1, ls[n].id) /\ ~ InUse(ls, n - 1, ls[n].id)

\* The lines that are not blank, of the first n and of all.
RequestsIn(ls, n) ==
  LET upto[k \in 0 .. Len(ls)] ==
        IF k = 0 THEN << >>
        ELSE IF ls[k] = Blank THEN upto[k - 1] ELSE Append(upto[k - 1], ls[k])
  IN  upto[n]

Requests(ls) == RequestsIn(ls, Len(ls))

Known(ls) == \A i \in DOMAIN ls : ls[i].cmd # "x"

\* The header agrees with the requests, as traces/README asks.
HeaderRight(given) ==
  LET allocated == { l.id : l \in { m \in ToSet(given.lines) : m.cmd \in {"a", "r"} } }
  IN  /\ given.num_ops = Len(Requests(given.lines))
      /\ given.num_ids - 1 \in allocated \union {0}
      /\ \A id \in allocated : id < given.num_ids

TypeOK ==
  /\ file \in Files \union GeneratedFiles
  /\ checked \in BOOLEAN /\ opt_s \in BOOLEAN
  /\ step \in {"start", "check", "read", "run", "died", "balanced", "unbalanced",
               "exited", "aborted", "done", "wild"}
  /\ pos \in 0 .. Len(Given.lines)
  /\ \A id \in DOMAIN HASH : HASH[id] \in {"a", "x"}
  /\ Len(lines) <= Len(Given.lines)
  /\ max_index \in Nat /\ Len(ops) <= Given.num_ops
  /\ package \in {"libc", "mm"} /\ pass \in 0 .. Passes
  /\ leaked \in Nat

\* What checktrace says of a file with known commands, one it printed itself
\* included: it dies of no file that makes sense, and in one it lets pass every
\* line makes sense, but for ids that are reused, of which ReusedIdIsRefused
\* speaks. Its summary says whether every allocate request has its free, which
\* is what traces/README:23-24 calls balanced (checktrace.pl:84-129), and what it
\* printed is balanced (checktrace.pl:131-153).
VerdictIsRight ==
  LET ls == Requests(Given.lines)
  IN  Known(ls) =>
        /\ step = "died" => ~ Sensible(ls)
        /\ checked \/ step \in {"balanced", "unbalanced"} =>
             \A n \in DOMAIN ls : SensibleAt(ls, n) \/ ReusesAt(ls, n)
        /\ step \in {"balanced", "unbalanced"} =>
             (step = "balanced" <=> \A l \in ToSet(ls) : ~ InUse(ls, Len(ls), l.id))
        /\ checked => step # "unbalanced"

\* "reused ID", checktrace dies of an allocation whose id was allocated and freed
\* before (checktrace.pl:96-98, traces/README:44-47). The run trace_reuse shows a
\* file that passes: the free deletes the entry of the id (checktrace.pl:110-112),
\* and the "f" that the test looks for is never there.
ReusedIdIsRefused ==
  LET ls == Requests(Given.lines)
  IN  Known(ls) /\ (checked \/ step \in {"balanced", "unbalanced"}) =>
        \A n \in DOMAIN ls : ~ ReusesAt(ls, n)

\* What checktrace prints of a file with a right header, mdriver can read and
\* run: the counts agree, nothing is written beyond the array, and mm_realloc
\* and mm_free are given payloads that are held. It is the assumption that the
\* models of the driver make of their traces (mdriver.c:518-555, 632-673).
CheckedRunsThrough ==
  checked /\ Known(file.lines) /\ HeaderRight(file) =>
    step \notin {"wild", "aborted", "exited"}

\* Every file that a script generates can be checked, and be run without, whether
\* it was checked or not: its requests are in order and its header is right
\* (gen_binary.pl, gen_coalescing.pl, gen_random.pl, gen_realloc.pl).
GeneratedRunsThrough ==
  file \in GeneratedFiles => step \notin {"died", "wild", "aborted", "exited"}

\* The passes over libc malloc leave what a trace does not free, each time they
\* run it; of what checktrace printed nothing is left, in either package
\* (mdriver.c:834-911).
PrintedLeaksNothing ==
  checked /\ step = "done" => inuse = {} /\ leaked = 0

\* Whatever the file, read_trace returns only a trace with as many operations as
\* its header says, whose allocations stay in the arrays (mdriver.c:551-552).
ReturnedIsInBounds ==
  step = "run" =>
    /\ Len(ops) = Given.num_ops
    /\ \A i \in DOMAIN ops : ops[i].cmd # "f" => ops[i].id < Given.num_ids

=============================================================================

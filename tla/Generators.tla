----------------------------- MODULE Generators -----------------------------
(***************************************************************************)
(* The trace files that the scripts traces/gen_*.pl write, for n iterations *)
(* (or n blocks). A file is its header and its request lines, a line is a  *)
(* command and an id; sizes are left out.                                  *)
(***************************************************************************)
EXTENDS Integers, Sequences, SequencesExt

Line(cmd, id) == [cmd |-> cmd, id |-> id]
a(id) == Line("a", id)
r(id) == Line("r", id)
f(id) == Line("f", id)

File(num_blocks, num_operations, trace) ==
  [num_ids |-> num_blocks, num_ops |-> num_operations, lines |-> trace]

\* What a loop prints, with body(k) in its round k.
For(from, to, body(_)) == FlattenSeq([k \in 1 .. to - from + 1 |-> body(from + k - 1)])

\* gen_binary2 differs in its sizes only, as does gen_realloc2.
gen_binary(n) ==
  LET pair(k) == <<a(2 * k), a(2 * k + 1)>>
      release(k) == <<f(2 * k + 1)>>
      both(k) == <<a(2 * n + k)>>
  IN  File(3 * n, 4 * n,
           For(0, n - 1, pair) \o For(0, n - 1, release) \o For(0, n - 1, both))

gen_coalescing(n) ==
  LET round(k) == <<a(3 * k), a(3 * k + 1), f(3 * k), f(3 * k + 1),
                    a(3 * k + 2), f(3 * k + 2)>>
  IN  File(3 * n, 6 * n, For(0, n - 1, round))

gen_realloc(n) ==
  LET round(k) == <<r(0), a(k + 1), f(k)>>
  IN  File(n + 1, 3 * n + 1,
           <<a(0), a(1)>> \o For(1, n - 1, round) \o <<f(n), f(0)>>)

\* Where gen_random may insert a free, behind minval entries and the allocation
\* it is for. rand(0) is rand(1): behind the last entry there is one place. An
\* operator X_Y is X with a slip Y that the properties are to notice.
Places_AtMinval(trace, minval) == minval .. Len(trace) - 1

Places(trace, minval) ==
  IF minval + 1 = Len(trace) THEN {Len(trace)} ELSE minval + 1 .. Len(trace) - 1

\* The traces with the free of block k spliced in.
Spliced(trace, k) ==
  LET minval == SelectInSeq(trace, LAMBDA l : l = a(k)) - 1
  IN  { InsertAt(trace, pos + 1, f(k)) : pos \in Places(trace, minval) }

\* Every file that gen_random may write.
gen_random(n) ==
  LET allocs == [k \in 1 .. n |-> a(k - 1)]
      traces[k \in 0 .. n] ==
        IF k = 0 THEN {allocs} ELSE UNION { Spliced(t, k - 1) : t \in traces[k - 1] }
  IN  { File(n, 2 * n, t) : t \in traces[n] }

Generated(n) ==
  {gen_binary(n), gen_coalescing(n), gen_realloc(n)} \union gen_random(n)

=============================================================================

---------------------------- MODULE DriverChecks ----------------------------
(***************************************************************************)
(* What the correctness pass of mdriver.c checks of every payload it gets. *)
(* The range list holds the extents of the payloads that the trace holds,  *)
(* most recent first; a new payload must not run into one of them. And a   *)
(* payload is filled with a pattern, looked for again after mm_realloc.    *)
(***************************************************************************)
EXTENDS Integers, Sequences, SequencesExt

CONSTANT Lo   \* mem_heap_lo()

ASSUME LoAssumption == Lo \in Nat

ALIGNMENT == 8

Extent(lo, size) == [lo |-> lo, hi |-> lo + size - 1]

\* An operator X_Y is X with a slip Y that the properties are to notice.
Overlaps_LowEnd(r, p) == r.lo >= p.lo /\ r.lo <= p.hi

\* The test of add_range: an end of the new payload lies in an old one.
Overlaps(r, p) ==
  \/ r.lo >= p.lo /\ r.lo <= p.hi
  \/ r.hi >= p.lo /\ r.hi <= p.hi

InHeap_LowEnd(r, end) == Lo <= r.lo /\ r.lo <= end - 1

InHeap(r, end) ==
  /\ Lo <= r.lo /\ r.lo <= end - 1
  /\ Lo <= r.hi /\ r.hi <= end - 1

add_range_accepts(list, r, end) ==
  /\ r.lo % ALIGNMENT = 0
  /\ InHeap(r, end)
  /\ \A i \in DOMAIN list : ~ Overlaps(r, list[i])

remove_range_Never(list, lo) == list

remove_range(list, lo) ==
  LET i == SelectInSeq(list, LAMBDA r : r.lo = lo)
  IN  IF i = 0 THEN list ELSE RemoveAt(list, i)

-----------------------------------------------------------------------------
(* The pattern: index & 0xFF is stored as a byte and read back as a char,  *)
(* which is signed on the target.                                          *)

Pattern(id) == id % 256

Char(byte) == IF byte < 128 THEN byte ELSE byte - 256

Compared_NewSize(size, oldsize) == size

\* How many bytes of a reallocated payload are compared.
Compared(size, oldsize) == IF size < oldsize THEN size ELSE oldsize

=============================================================================

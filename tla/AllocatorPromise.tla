-------------------------- MODULE AllocatorPromise --------------------------
(***************************************************************************)
(* What malloc, free and realloc promise a client, whatever the package    *)
(* behind them: the specification that mm.c is to implement and that the   *)
(* driver of mdriver.c relies on.                                          *)
(*                                                                         *)
(* A client holds payloads. The allocator chooses where a payload goes and *)
(* what a fresh one contains; it may refuse. It never touches the contents *)
(* of a payload that is held, except to carry them to a resized one.       *)
(***************************************************************************)
EXTENDS Integers

CONSTANTS
  Lo, Hi,      \* extent of the region the heap grows in
  CELL,        \* bytes that one entry of a payload's contents stands for
  Requests,    \* sizes a client asks for
  Values       \* what a cell may contain

ALIGNMENT == 8

VARIABLES
  held,        \* pointer -> [size, data] of every payload the client holds
  top          \* end of the heap so far

promise == <<held, top>>

LastCell(size) == (size + CELL - 1) \div CELL - 1
Data(size)     == [0 .. LastCell(size) -> Values]

Apart(p, m, q, n) == p + m <= q \/ q + n <= p

\* A payload of that size at p is aligned, inside the heap and away from the
\* payloads of h.
Fits(p, size, h) ==
  /\ p % ALIGNMENT = 0
  /\ Lo <= p /\ p + size <= top'
  /\ \A q \in DOMAIN h : Apart(p, size, q, h[q].size)

Minus(p)      == [q \in DOMAIN held \ {p} |-> held[q]]
Plus(h, p, b) == [q \in DOMAIN h \union {p} |-> IF q = p THEN b ELSE h[q]]

Grows == top' \in top .. Hi

-----------------------------------------------------------------------------

PromiseInit ==
  /\ held = [p \in {} |-> 0]
  /\ top = Lo

\* The package starts afresh on an empty heap; what was held is gone.
Restart ==
  /\ held' = [p \in {} |-> 0]
  /\ top' \in Lo .. Hi

\* The heap may grow before the payload it grows for is handed out.
Extend ==
  /\ Grows
  /\ UNCHANGED held

Allocate(p, size, data) ==
  /\ Grows
  /\ size > 0
  /\ data \in Data(size)
  /\ p \notin DOMAIN held
  /\ Fits(p, size, held)
  /\ held' = Plus(held, p, [size |-> size, data |-> data])

Free(p) ==
  /\ p \in DOMAIN held
  /\ held' = Minus(p)
  /\ UNCHANGED top

\* The new payload may lie anywhere clear of the others, over the old one too,
\* and starts with what the old one contained, as far as both reach.
Resize(p, q, size, data) ==
  /\ p \in DOMAIN held
  /\ Grows
  /\ size > 0
  /\ data \in Data(size)
  /\ q \notin DOMAIN held \ {p}
  /\ Fits(q, size, Minus(p))
  /\ \A i \in 0 .. LastCell(size) :
       i <= LastCell(held[p].size) => data[i] = held[p].data[i]
  /\ held' = Plus(Minus(p), q, [size |-> size, data |-> data])

\* The client writes into a payload it holds.
Overwrite(p, data) ==
  /\ p \in DOMAIN held
  /\ data \in Data(held[p].size)
  /\ held' = [held EXCEPT ![p].data = data]
  /\ UNCHANGED top

PromiseNext ==
  \/ Restart \/ Extend
  \/ \E q \in DOMAIN held', size \in Requests :
       \/ Allocate(q, size, held'[q].data)
       \/ \E p \in DOMAIN held : Resize(p, q, size, held'[q].data)
  \/ \E p \in DOMAIN held : Free(p)
  \/ \E p \in DOMAIN held \intersect DOMAIN held' : Overwrite(p, held'[p].data)

PromiseSpec == PromiseInit /\ [][PromiseNext]_promise

-----------------------------------------------------------------------------

\* No byte is given to two holders, and every payload lies inside the heap,
\* aligned: what a client may conclude without knowing the package.
PayloadsApart ==
  \A p \in DOMAIN held :
    /\ p % ALIGNMENT = 0 /\ Lo <= p /\ p + held[p].size <= top
    /\ \A q \in DOMAIN held \ {p} : Apart(p, held[p].size, q, held[q].size)

=============================================================================

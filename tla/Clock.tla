------------------------------- MODULE Clock -------------------------------
(***************************************************************************)
(* The cycle counters of clock.c: the difference of two readings, taken in *)
(* two words with a borrow, the compensation for timer interrupts, and the *)
(* loop that finds out how many cycles such an interrupt takes.            *)
(*                                                                         *)
(* The counter of the i386 counts modulo WORD * WORD; of the Alpha's there *)
(* is only the low word. Reading it and reading the user time are two      *)
(* calls: a timer interrupt, a tick, may come between them. Ticks are far  *)
(* apart: no two come between readings of the calibration loop that are    *)
(* compared, unless the Alpha's counter is going around, and none while    *)
(* the cycles of another are still to be read; nothing else interrupts the *)
(* loop. A double holds every reading here exactly; a real one holds those *)
(* of an Alpha whose low word went around to 2048 cycles.                  *)
(***************************************************************************)
EXTENDS Integers

CONSTANTS
  WORD,          \* 2^32
  NEVENT, THRESHOLD, RECORDTHRESH,
  LOOP,          \* cycles of one pass through the calibration loop
  MaxTicks,      \* bound: ticks of a calibration whose readings fell behind
  Machines       \* [counter : {"i386", "alpha"}, tick : cycles of a tick]

ASSUME ClockAssumption ==
  /\ WORD \in Nat \ {0}
  /\ NEVENT \in Nat \ {0} /\ LOOP \in Nat \ {0} /\ MaxTicks \in Nat \ {0}
  /\ THRESHOLD \in Nat \ {0} /\ RECORDTHRESH \in Nat
  /\ THRESHOLD + LOOP <= RECORDTHRESH + 1
  /\ Machines \subseteq [counter : {"i386", "alpha"}, tick : Nat]

VARIABLES
  machine,
  cyc_per_tick,  \* 0 while none has been recorded
  e,             \* of callibrate: events seen
  gap,           \* newt - oldt: what the readings grew by since oldt
  ticks,         \* newc - oldc: ticks since the last one that was seen
  cyc_lo,        \* the Alpha's: the low word when the calibration started
  since          \* the Alpha's: cycles since then, modulo WORD

clock == <<machine, cyc_per_tick, e, gap, ticks, cyc_lo, since>>

ClockInit ==
  /\ machine \in Machines
  /\ cyc_per_tick = 0
  /\ e = 0 /\ gap = 0 /\ ticks = 0
  /\ cyc_lo = 0 /\ since = 0

-----------------------------------------------------------------------------
(* The difference of two readings. An operator X_Y is X with a slip Y that *)
(* the properties are to notice.                                           *)

\* access_counter. The Alpha gives the low word only.
Hi(cycles) == IF machine.counter = "i386" THEN (cycles \div WORD) % WORD ELSE 0
Lo(cycles) == cycles % WORD

Borrow_Equal(lo, ncyc_lo) == IF lo >= ncyc_lo THEN 1 ELSE 0

Borrow(lo, ncyc_lo) == IF lo > ncyc_lo THEN 1 ELSE 0

\* start_counter at cycles, get_counter d cycles later.
get_counter(cycles, d) ==
  LET lo == (Lo(cycles + d) - Lo(cycles)) % WORD
      hi == (Hi(cycles + d) - Hi(cycles) - Borrow(lo, Lo(cycles + d))) % WORD
  IN  hi * WORD + lo

\* start_comp_counter and get_comp_counter around cost cycles of the function
\* and n ticks that fall into it; out more ticks come between a reading of the
\* counter and the reading of the user time that belongs to it.
get_comp_counter(cycles, cost, n, out) ==
  get_counter(cycles, cost + n * machine.tick) - (n + out) * cyc_per_tick

-----------------------------------------------------------------------------
(* callibrate.                                                             *)

\* How much more the loop reads after d more cycles. On the i386 the difference is
\* what passed, as 2^64 cycles do not pass in a calibration. On the Alpha it is
\* what the two readings say.
Growth(n, d) ==
  IF machine.counter = "i386" THEN d
  ELSE get_counter(cyc_lo, n + d) - get_counter(cyc_lo, n)

\* A tick may come between the first reading of the user time and that of the
\* counter, which stands at cycles.
start_callibrate(cycles) ==
  /\ e' = 0 /\ gap' = 0 /\ ticks' \in {0, 1}
  /\ cyc_lo' = IF machine.counter = "i386" THEN 0 ELSE Lo(cycles)
  /\ since' = 0

end_callibrate ==
  /\ e' = 0 /\ gap' = 0 /\ ticks' = 0
  /\ cyc_lo' = 0 /\ since' = 0

Records_AnyRatio(g, t) == cyc_per_tick = 0 \/ cyc_per_tick > g \div t

\* The ratio cpt is taken down to a whole number.
Records(g, t) ==
  /\ cyc_per_tick = 0 \/ cyc_per_tick > g \div t
  /\ g \div t > RECORDTHRESH

count_event_Recorded(g, t) == e' = IF Records(g, t) THEN e + 1 ELSE e

count_event(g, t) == e' = e + 1

\* A reading of the Alpha below oldt, the low word having gone around, keeps the
\* loop from looking at the user time while ticks go on.
TickMayCome ==
  \/ ticks = 0 /\ gap < THRESHOLD
  \/ gap < 0 /\ ticks < MaxTicks

\* One pass through the loop; a tick comes not at all, before the reading of the
\* counter ("in"), or behind it and before the reading of the user time ("late").
\* The cycles of a late one belong to the next pass.
pass(tick) ==
  LET spent == LOOP + (IF tick = "in" THEN machine.tick ELSE 0)
      later == IF tick = "late" THEN machine.tick ELSE 0
      newgap == gap + Growth(since, spent)
      left == Growth(since + spent, later)
      seen == ticks + (IF tick = "none" THEN 0 ELSE 1)
  IN  /\ e < NEVENT
      /\ tick = "none" \/ TickMayCome
      /\ \/ /\ newgap < THRESHOLD
            /\ gap' = newgap + left /\ ticks' = seen
            /\ UNCHANGED <<e, cyc_per_tick>>
         \/ /\ newgap >= THRESHOLD /\ seen = 0
            /\ gap' = left /\ ticks' = 0
            /\ UNCHANGED <<e, cyc_per_tick>>
         \/ /\ newgap >= THRESHOLD /\ seen > 0
            /\ cyc_per_tick' = IF Records(newgap, seen) THEN newgap \div seen
                               ELSE cyc_per_tick
            /\ count_event(newgap, seen)
            /\ gap' = left /\ ticks' = 0
      /\ since' = IF machine.counter = "i386" THEN 0
                  ELSE (since + spent + later) % WORD
  /\ UNCHANGED <<machine, cyc_lo>>

-----------------------------------------------------------------------------

\* How much more than its interrupt a tick is taken to cost, at most.
Slack == THRESHOLD + LOOP

\* On the i386, what was recorded is at least what a tick costs, and hardly more
\* (clock.c:257-292). On the Alpha the gap it was taken from may be a borrow.
CalibrationBounds ==
  machine.counter = "i386" /\ cyc_per_tick # 0 =>
    cyc_per_tick \in machine.tick .. machine.tick + Slack

=============================================================================

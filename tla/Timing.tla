------------------------------- MODULE Timing -------------------------------
(***************************************************************************)
(* The timing package with USE_FCYC: the K-best scheme over the cycle      *)
(* counter. A measurement starts the counter anywhere, since any time may  *)
(* have passed; the function takes one of some costs, and a timer tick may *)
(* come while it runs or at the edge of the measurement, and is measured,  *)
(* counted, or both.                                                       *)
(***************************************************************************)
EXTENDS KBest, Clock

CONSTANTS
  Counts,   \* what the counter may stand at when a measurement begins
  Costs     \* what a run of the function may take, without interrupts

ASSUME TimingAssumption ==
  /\ Counts \subseteq 0 .. WORD * WORD - 1
  /\ Costs \subseteq Nat

vars == <<params, cache, sampler, clock>>

Init == KInit /\ ClockInit

\* start_counter; or start_comp_counter, which calibrates while it has nothing
\* recorded, each time anew.
start ==
  /\ pc = "start"
  /\ \/ /\ compensate /\ cyc_per_tick = 0
        /\ pc' = "callibrate"
        /\ \E cycles \in Counts : start_callibrate(cycles)
        /\ UNCHANGED <<machine, cyc_per_tick>>
     \/ /\ ~ compensate \/ cyc_per_tick # 0
        /\ pc' = "measure"
        /\ UNCHANGED clock
  /\ UNCHANGED <<params, cache, values, samplecount, samples, result>>

callibrate(tick) ==
  /\ pc = "callibrate"
  /\ pass(tick)
  /\ UNCHANGED <<params, cache, sampler>>

callibrated ==
  /\ pc = "callibrate" /\ e = NEVENT
  /\ pc' = "measure"
  /\ end_callibrate
  /\ UNCHANGED <<machine, cyc_per_tick>>
  /\ UNCHANGED <<params, cache, values, samplecount, samples, result>>

\* f runs between the two readings.
measure ==
  \E cycles \in Counts, cost \in Costs, n \in {0, 1} :
    \/ ~ compensate /\ add_sample(get_counter(cycles, cost + n * machine.tick))
    \/ /\ compensate
       /\ \E out \in {0, 1} : add_sample(get_comp_counter(cycles, cost, n, out))

Loop == (clear \/ measure \/ again \/ return) /\ UNCHANGED clock

Calibration == callibrated \/ \E tick \in {"none", "in", "late"} : callibrate(tick)

Next ==
  \/ (set_parameter \/ fcyc) /\ UNCHANGED clock
  \/ Loop \/ start \/ Calibration

\* A call that has begun keeps running, the function measured returns, and the
\* timer keeps ticking while the calibration loop runs: it uses up user time.
Spec ==
  /\ Init /\ [][Next]_vars
  /\ WF_vars(Loop) /\ WF_vars(start) /\ WF_vars(Calibration)
  /\ SF_vars(callibrate("in") \/ callibrate("late"))

-----------------------------------------------------------------------------

TypeOK ==
  /\ kbest \in Ks /\ maxsamples \in Limits
  /\ cache_bytes \in Bytes /\ cache_block \in Blocks
  /\ cache_buf \in {0, cache_bytes}      \* what clear reads is there
  /\ samplecount \in Nat /\ IsABag(samples)
  /\ pc \in {"idle", "top", "start", "callibrate", "measure", "loop", "exited"}
  /\ pc # "idle" => values \in [Indices -> Int]
  /\ machine \in Machines
  /\ e \in 0 .. NEVENT /\ (e > 0 => pc = "callibrate")
  /\ gap \in Int /\ ticks \in 0 .. MaxTicks
  /\ cyc_lo \in 0 .. WORD - 1 /\ since \in 0 .. WORD - 1
  /\ cyc_per_tick = 0 \/ cyc_per_tick > RECORDTHRESH

\* At the beginning of a call, for every measurement that may follow.
AtStart == pc = "top" /\ samplecount = 0

\* On the i386, which has both words of the counter, the difference of two
\* readings is what passed between them, whichever words went around
\* (clock.c:68-87).
CounterIsExact ==
  AtStart /\ machine.counter = "i386" =>
    \A cycles \in Counts, cost \in Costs, n \in {0, 1} :
      get_counter(cycles, cost + n * machine.tick) = cost + n * machine.tick

\* On the i386, compensation never leaves a measurement above what the function
\* took, and takes off no more than the ticks at its edges and the slack of the
\* calibration for the one inside (clock.c:296-322). Nothing of the kind is so on
\* an Alpha, whose calibration may take a borrow for cycles of a tick.
CompensationIsBounded ==
  AtStart /\ machine.counter = "i386" /\ cyc_per_tick # 0 =>
    \A cycles \in Counts, cost \in Costs, n \in {0, 1}, out \in {0, 1} :
      get_comp_counter(cycles, cost, n, out) \in
        cost - n * Slack - out * (machine.tick + Slack) .. cost

\* On the i386 every call returns: measurements that never agree end at
\* maxsamples, and the calibration loop if the timer ticks, even when no tick
\* takes long enough to be recorded. Only clearing the cache in blocks smaller
\* than a word does not end (fcyc.c:110-159, clock.c:257-305). On an Alpha the
\* loop may wait for a reading that a low word that went around never gives.
EveryCallReturns ==
  pc = "top" /\ Incr > 0 /\ machine.counter = "i386" ~> pc \in {"idle", "exited"}

\* On an Alpha, what passes while the low word does not go around is timed exactly,
\* from its first cycle to its last: no borrow is seen that is not there
\* (clock.c:151-166).
AlphaIsExactWithinAWord ==
  AtStart /\ machine.counter = "alpha" =>
    \A cycles \in Counts, cost \in Costs, n \in {0, 1} :
      Lo(cycles) + cost + n * machine.tick < WORD =>
        get_counter(cycles, cost + n * machine.tick) = cost + n * machine.tick

\* "The counter has a very limited time span. With a 450MhZ clock the counter can
\* time things for about 9 seconds": what is shorter than the 2^32 cycles the
\* Alpha's low word counts is timed exactly (clock.c:117-119). The run
\* clock_alpha shows that it is not: a low word that goes around in between is
\* told by a borrow, and the borrow is taken from a high word that is 0 on both
\* sides (clock.c:158-161).
AlphaCountsItsSpan ==
  AtStart /\ machine.counter = "alpha" =>
    \A cycles \in Counts, cost \in Costs, n \in {0, 1} :
      cost + n * machine.tick < WORD =>
        get_counter(cycles, cost + n * machine.tick) = cost + n * machine.tick

=============================================================================

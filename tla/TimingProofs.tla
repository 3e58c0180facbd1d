---------------------------- MODULE TimingProofs ----------------------------
(***************************************************************************)
(* Theorems about the timing package, for words of any size, for any       *)
(* number of measurements kept and any costs: the difference of two        *)
(* readings, the calibration and what compensation takes off, and what the *)
(* K-best scheme keeps and returns.                                        *)
(***************************************************************************)
EXTENDS Timing, ListLemmas, FiniteSetTheorems

-----------------------------------------------------------------------------
(* The difference of two readings.                                         *)

\* One word more or less makes no difference to the remainder.
LEMMA RemainderAt ==
  ASSUME NEW w \in Nat \ {0}, NEW v \in 0 .. w - 1
  PROVE  v % w = v /\ (v + w) % w = v /\ (v - w) % w = v
  OBVIOUS

LEMMA DivisionParts ==
  ASSUME NEW w \in Nat \ {0}, NEW x \in Nat
  PROVE  /\ x \div w \in Nat /\ x % w \in 0 .. w - 1
         /\ x = w * (x \div w) + (x % w)
  OBVIOUS

LEMMA DivisionUnique ==
  ASSUME NEW w \in Nat \ {0}, NEW q \in Nat, NEW r \in 0 .. w - 1
  PROVE  (w * q + r) \div w = q /\ (w * q + r) % w = r
  OBVIOUS

LEMMA QuotientBelow ==
  ASSUME NEW w \in Nat \ {0}, NEW x \in Nat, x < w * w
  PROVE  x \div w \in 0 .. w - 1
<1> DEFINE q == x \div w
<1>1. q \in Nat /\ x % w \in 0 .. w - 1 /\ x = w * q + (x % w)
  BY DivisionParts
<1>2. q < w
  <2> SUFFICES ASSUME q >= w PROVE FALSE
    BY <1>1
  <2> HIDE DEF q
  <2>1. w * q >= w * w
    BY <1>1
  <2> QED
    BY <1>1, <2>1
<1> QED
  BY <1>1, <1>2

\* The high words are subtracted modulo the word, with the borrow.
LEMMA HighWords ==
  ASSUME NEW w \in Nat \ {0}, NEW q \in 0 .. w - 1, NEW k \in 0 .. w - 1,
         NEW b \in {0, 1}
  PROVE  (((q + k + b) % w) - q - b) % w = k
<1>1. CASE q + k + b < w
  <2>1. (q + k + b) % w = q + k + b
    <3>1. q + k + b \in 0 .. w - 1
      BY <1>1
    <3> QED
      BY <3>1, RemainderAt
  <2>2. ((q + k + b) % w) - q - b = k
    BY <2>1
  <2> QED
    BY <2>2, RemainderAt
<1>2. CASE q + k + b >= w
  <2>1. PICK v \in 0 .. w - 1 : q + k + b = v + w
    <3>1. q + k + b - w \in 0 .. w - 1 /\ q + k + b = (q + k + b - w) + w
      BY <1>2
    <3> QED
      BY <3>1
  <2>2. (q + k + b) % w = v
    BY <2>1, RemainderAt
  <2>3. v - q - b = k - w
    BY <2>1
  <2> QED
    BY <2>2, <2>3, RemainderAt
<1> QED
  BY <1>1, <1>2

\* Reading the counter in two words, subtracting them with a borrow, gives what
\* passed, whichever words went around in between.
LEMMA TwoWordDifference ==
  ASSUME WORD \in Nat \ {0}, machine.counter = "i386",
         NEW cycles \in 0 .. WORD * WORD - 1, NEW d \in 0 .. WORD * WORD - 1
  PROVE  get_counter(cycles, d) = d
<1> DEFINE Q1 == cycles \div WORD
           L1 == cycles % WORD
           Q2 == (cycles + d) \div WORD
           L2 == (cycles + d) % WORD
           dq == d \div WORD
           dl == d % WORD
<1>1. WORD \in Nat /\ WORD > 0 /\ cycles \in Nat /\ d \in Nat
      /\ cycles < WORD * WORD /\ d < WORD * WORD
  OBVIOUS
<1>2. Q1 \in 0 .. WORD - 1 /\ L1 \in 0 .. WORD - 1 /\ cycles = WORD * Q1 + L1
  BY <1>1, QuotientBelow, DivisionParts
<1>3. dq \in 0 .. WORD - 1 /\ dl \in 0 .. WORD - 1 /\ d = WORD * dq + dl
  BY <1>1, QuotientBelow, DivisionParts
<1>4. ASSUME L1 + dl < WORD
      PROVE  (L2 - L1) % WORD = dl /\ ((Q2 % WORD) - Q1 - Borrow(dl, L2)) % WORD = dq
  <2>1. Q2 = Q1 + dq /\ L2 = L1 + dl
    <3>1. PICK q, r : q = Q1 + dq /\ r = L1 + dl
      OBVIOUS
    <3>2. q \in Nat /\ r \in 0 .. WORD - 1 /\ cycles + d = WORD * q + r
      <4> HIDE DEF Q1, L1, dq, dl
      <4>1. WORD * (Q1 + dq) = WORD * Q1 + WORD * dq
        BY <1>1, <1>2, <1>3
      <4> QED
        BY <1>1, <1>2, <1>3, <1>4, <3>1, <4>1
    <3>3. (WORD * q + r) \div WORD = q /\ (WORD * q + r) % WORD = r
      BY <3>2, DivisionUnique
    <3> QED
      BY <3>1, <3>2, <3>3
  <2>2. Borrow(dl, L2) = 0
    <3> HIDE DEF L1, L2, dl
    <3> QED
      BY <1>2, <1>3, <2>1 DEF Borrow
  <2>3. (L2 - L1) % WORD = dl
    <3>1. L2 - L1 = dl
      <4> HIDE DEF L1, L2, dl
      <4> QED
        BY <1>2, <1>3, <2>1
    <3> QED
      BY <1>3, <3>1, RemainderAt
  <2>4. ((Q2 % WORD) - Q1 - 0) % WORD = dq
    <3>1. (((Q1 + dq + 0) % WORD) - Q1 - 0) % WORD = dq
      BY <1>2, <1>3, HighWords
    <3>2. Q1 + dq + 0 = Q2
      <4> HIDE DEF Q1, Q2, dq
      <4> QED
        BY <1>2, <1>3, <2>1
    <3> QED
      BY <3>1, <3>2
  <2>5. ((Q2 % WORD) - Q1 - Borrow(dl, L2)) % WORD = dq
    BY <2>2, <2>4
  <2> QED
    BY <2>3, <2>5
<1>5. ASSUME L1 + dl >= WORD
      PROVE  (L2 - L1) % WORD = dl /\ ((Q2 % WORD) - Q1 - Borrow(dl, L2)) % WORD = dq
  <2>1. Q2 = Q1 + dq + 1 /\ L2 = L1 + dl - WORD
    <3>1. PICK q, r : q = Q1 + dq + 1 /\ r = L1 + dl - WORD
      OBVIOUS
    <3>2. q \in Nat /\ r \in 0 .. WORD - 1 /\ cycles + d = WORD * q + r
      <4> HIDE DEF Q1, L1, dq, dl
      <4>1. WORD * (Q1 + dq + 1) = WORD * Q1 + WORD * dq + WORD
        BY <1>1, <1>2, <1>3
      <4> QED
        BY <1>1, <1>2, <1>3, <1>5, <3>1, <4>1
    <3>3. (WORD * q + r) \div WORD = q /\ (WORD * q + r) % WORD = r
      BY <3>2, DivisionUnique
    <3> QED
      BY <3>1, <3>2, <3>3
  <2>2. Borrow(dl, L2) = 1
    <3> HIDE DEF L1, L2, dl
    <3> QED
      BY <1>1, <1>2, <1>3, <2>1 DEF Borrow
  <2>3. (L2 - L1) % WORD = dl
    <3>1. L2 - L1 = dl - WORD
      <4> HIDE DEF L1, L2, dl
      <4> QED
        BY <1>1, <1>2, <1>3, <2>1
    <3> QED
      BY <1>3, <3>1, RemainderAt
  <2>4. ((Q2 % WORD) - Q1 - 1) % WORD = dq
    <3>1. (((Q1 + dq + 1) % WORD) - Q1 - 1) % WORD = dq
      BY <1>2, <1>3, HighWords
    <3> QED
      BY <2>1, <3>1
  <2>5. ((Q2 % WORD) - Q1 - Borrow(dl, L2)) % WORD = dq
    BY <2>2, <2>4
  <2> QED
    BY <2>3, <2>5
<1>6. (L2 - L1) % WORD = dl /\ ((Q2 % WORD) - Q1 - Borrow(dl, L2)) % WORD = dq
  <2>1. L1 + dl < WORD \/ L1 + dl >= WORD
    <3> HIDE DEF L1, dl
    <3> QED
      BY <1>1, <1>2, <1>3
  <2> QED
    BY <1>4, <1>5, <2>1
<1>7. Q1 % WORD = Q1
  BY <1>2, RemainderAt
<1>8. get_counter(cycles, d) = dq * WORD + dl
  <2>1. /\ Lo(cycles) = L1 /\ Lo(cycles + d) = L2
        /\ Hi(cycles) = Q1 /\ Hi(cycles + d) = Q2 % WORD
    BY <1>7 DEF Lo, Hi
  <2> HIDE DEF Q1, L1, Q2, L2, dq, dl
  <2>2. get_counter(cycles, d)
          = ((Hi(cycles + d) - Hi(cycles)
                - Borrow((Lo(cycles + d) - Lo(cycles)) % WORD, Lo(cycles + d))) % WORD) * WORD
            + ((Lo(cycles + d) - Lo(cycles)) % WORD)
    BY DEF get_counter
  <2>3. (Lo(cycles + d) - Lo(cycles)) % WORD = dl
    BY <1>6, <2>1
  <2>4. (Hi(cycles + d) - Hi(cycles) - Borrow(dl, Lo(cycles + d))) % WORD = dq
    BY <1>6, <2>1
  <2> QED
    BY <2>2, <2>3, <2>4
<1> QED
  <2> HIDE DEF dq, dl
  <2> QED
    BY <1>1, <1>3, <1>8

\* On the Alpha, which has the low word only, as long as it does not go around.
LEMMA OneWordDifference ==
  ASSUME WORD \in Nat \ {0}, machine.counter = "alpha",
         NEW cycles \in Nat, NEW d \in Nat, Lo(cycles) + d < WORD
  PROVE  get_counter(cycles, d) = d
<1> DEFINE Q1 == cycles \div WORD
           L1 == cycles % WORD
           L2 == (cycles + d) % WORD
<1>1. WORD \in Nat /\ WORD > 0 /\ L1 + d < WORD /\ d < WORD
  <2>1. L1 \in 0 .. WORD - 1 /\ Lo(cycles) = L1
    BY DivisionParts DEF Lo
  <2> QED
    BY <2>1
<1>2. Q1 \in Nat /\ L1 \in 0 .. WORD - 1 /\ cycles = WORD * Q1 + L1
  BY <1>1, DivisionParts
<1>3. get_counter(cycles, d)
        = ((0 - 0 - Borrow((L2 - L1) % WORD, L2)) % WORD) * WORD + ((L2 - L1) % WORD)
  <2>1. Hi(cycles) = 0 /\ Hi(cycles + d) = 0 /\ Lo(cycles) = L1 /\ Lo(cycles + d) = L2
    BY DEF Hi, Lo
  <2>2. get_counter(cycles, d)
          = ((Hi(cycles + d) - Hi(cycles)
                - Borrow((Lo(cycles + d) - Lo(cycles)) % WORD, Lo(cycles + d))) % WORD) * WORD
            + ((Lo(cycles + d) - Lo(cycles)) % WORD)
    BY DEF get_counter
  <2> HIDE DEF L1, L2
  <2> QED
    BY <2>1, <2>2
<1>4. L2 = L1 + d
  <2>1. PICK r \in 0 .. WORD - 1 : r = L1 + d /\ cycles + d = WORD * Q1 + r
    <3> HIDE DEF Q1, L1
    <3>1. L1 + d \in 0 .. WORD - 1 /\ cycles + d = WORD * Q1 + (L1 + d)
      BY <1>1, <1>2
    <3> QED
      BY <3>1
  <2>2. (WORD * Q1 + r) % WORD = r
    BY <1>2, DivisionUnique
  <2> QED
    BY <2>1, <2>2
<1> HIDE DEF L1, L2, Q1
<1>5. (L2 - L1) % WORD = d
  <2>1. L2 - L1 = d
    BY <1>1, <1>2, <1>4
  <2> QED
    BY <1>1, <2>1, RemainderAt
<1>6. Borrow(d, L2) = 0
  BY <1>1, <1>2, <1>4 DEF Borrow
<1>7. (0 - 0 - 0) % WORD = 0
  <2>1. 0 \in 0 .. WORD - 1 /\ 0 - 0 - 0 = 0
    BY <1>1
  <2> QED
    BY <2>1, RemainderAt
<1>8. get_counter(cycles, d) = 0 * WORD + d
  BY <1>3, <1>5, <1>6, <1>7
<1> QED
  BY <1>1, <1>8

\* What is measured on an i386 fits into the two words of its counter.
MeasurementsFit ==
  \A m \in Machines, cost \in Costs :
    m.counter = "i386" => cost + m.tick < WORD * WORD

LEMMA ReadingsAreExact ==
  ASSUME MeasurementsFit, machine \in Machines, machine.counter = "i386",
         NEW cycles \in Counts, NEW cost \in Costs, NEW n \in {0, 1}
  PROVE  get_counter(cycles, cost + n * machine.tick) = cost + n * machine.tick
<1>1. /\ WORD \in Nat \ {0} /\ cycles \in 0 .. WORD * WORD - 1 /\ cost \in Nat
      /\ machine.tick \in Nat
  BY ClockAssumption, TimingAssumption
<1>2. PICK d \in Nat : d = cost + n * machine.tick /\ d <= cost + machine.tick
  BY <1>1
<1>3. cost + machine.tick < WORD * WORD
  BY DEF MeasurementsFit
<1>4. d \in 0 .. WORD * WORD - 1
  BY <1>1, <1>2, <1>3
<1> QED
  BY <1>1, <1>2, <1>4, TwoWordDifference

\* Whatever passes, a reading is a number.
LEMMA ReadingIsInt ==
  ASSUME WORD \in Nat \ {0}, NEW cycles \in Nat, NEW d \in Nat
  PROVE  get_counter(cycles, d) \in Int
<1>3. \A x \in Nat : Lo(x) \in Int /\ Hi(x) \in Int
  BY DEF Lo, Hi
<1>4. \A x, y : Borrow(x, y) \in Int
  BY DEF Borrow
<1>5. PICK a \in Int, b \in Int, f \in Int, g \in Int :
        a = Lo(cycles) /\ b = Lo(cycles + d) /\ f = Hi(cycles) /\ g = Hi(cycles + d)
  BY <1>3
<1>6. PICK lo \in Int : lo = (b - a) % WORD
  OBVIOUS
<1>7. PICK hi \in Int : hi = (g - f - Borrow(lo, b)) % WORD
  BY <1>4
<1>8. get_counter(cycles, d) = hi * WORD + lo
  BY <1>5, <1>6, <1>7 DEF get_counter
<1> QED
  BY <1>8

-----------------------------------------------------------------------------
(* The calibration loop.                                                   *)

\* What a tick is taken to cost on an i386, and how far the loop is with the next
\* one: the cycles of a tick that has been seen are in the gap, or they never
\* count. On an Alpha the gap may be anything.
ClockInv ==
  /\ machine \in Machines /\ e \in 0 .. NEVENT
  /\ gap \in Int /\ ticks \in 0 .. MaxTicks /\ cyc_per_tick \in Nat
  /\ cyc_lo \in 0 .. WORD - 1 /\ since \in 0 .. WORD - 1
  /\ cyc_per_tick = 0 \/ cyc_per_tick > RECORDTHRESH
  /\ CalibrationBounds
  /\ machine.counter = "i386" =>
       /\ gap \in Nat /\ ticks \in {0, 1}
       /\ ticks = 1 =>
            gap < THRESHOLD \/ gap \in machine.tick .. machine.tick + THRESHOLD - 1

LEMMA ClockConstants ==
  /\ WORD \in Nat \ {0} /\ NEVENT \in Nat \ {0} /\ LOOP \in Nat \ {0}
  /\ MaxTicks \in Nat \ {0}
  /\ THRESHOLD \in Nat \ {0} /\ RECORDTHRESH \in Nat /\ THRESHOLD + LOOP <= RECORDTHRESH + 1
  /\ Slack = THRESHOLD + LOOP
  /\ \A m \in Machines : m.tick \in Nat /\ m.counter \in {"i386", "alpha"}
  BY ClockAssumption DEF Slack

LEMMA ClockAtInit ==
  ClockInit => ClockInv
  BY ClockConstants DEF ClockInit, ClockInv, CalibrationBounds

\* What a pass adds to the readings is a number, and what passed on an i386.
LEMMA GrowthIsInt ==
  ASSUME ClockInv, NEW n \in Nat, NEW d \in Nat
  PROVE  /\ Growth(n, d) \in Int
         /\ machine.counter = "i386" => Growth(n, d) = d
<1>1. WORD \in Nat \ {0} /\ cyc_lo \in Nat /\ n + d \in Nat
  BY ClockConstants DEF ClockInv
<1>2. get_counter(cyc_lo, n) \in Int /\ get_counter(cyc_lo, n + d) \in Int
  BY <1>1, ReadingIsInt
<1> QED
  BY <1>2 DEF Growth

LEMMA PassKeepsBounds ==
  ASSUME ClockInv, NEW tick \in {"none", "in", "late"}, pass(tick)
  PROVE  ClockInv'
<1>1. /\ machine \in Machines /\ e \in 0 .. NEVENT /\ e < NEVENT /\ machine' = machine
      /\ gap \in Int /\ ticks \in 0 .. MaxTicks /\ cyc_per_tick \in Nat
      /\ cyc_lo' = cyc_lo /\ cyc_lo \in 0 .. WORD - 1 /\ since \in 0 .. WORD - 1
      /\ cyc_per_tick = 0 \/ cyc_per_tick > RECORDTHRESH
      /\ tick = "none" \/ TickMayCome
  BY DEF ClockInv, pass
<1>2. /\ machine.tick \in Nat /\ machine.counter \in {"i386", "alpha"}
      /\ WORD \in Nat \ {0} /\ LOOP \in Nat \ {0} /\ MaxTicks \in Nat \ {0}
      /\ THRESHOLD \in Nat \ {0} /\ RECORDTHRESH \in Nat
      /\ THRESHOLD + LOOP <= RECORDTHRESH + 1 /\ Slack = THRESHOLD + LOOP /\ NEVENT \in Nat
  BY <1>1, ClockConstants
<1>3. PICK spent \in Nat, later \in Nat, seen \in 0 .. MaxTicks :
        /\ spent = LOOP + (IF tick = "in" THEN machine.tick ELSE 0)
        /\ later = IF tick = "late" THEN machine.tick ELSE 0
        /\ seen = ticks + (IF tick = "none" THEN 0 ELSE 1)
  BY <1>1, <1>2 DEF TickMayCome
<1>4. since \in Nat /\ since + spent \in Nat
  BY <1>1, <1>2, <1>3
<1>5. PICK newgap \in Int, left \in Int :
        newgap = gap + Growth(since, spent) /\ left = Growth(since + spent, later)
  BY <1>1, <1>3, <1>4, GrowthIsInt
<1>6. /\ since' = IF machine.counter = "i386" THEN 0 ELSE (since + spent + later) % WORD
      /\ \/ /\ newgap < THRESHOLD
            /\ gap' = newgap + left /\ ticks' = seen
            /\ UNCHANGED <<e, cyc_per_tick>>
         \/ /\ newgap >= THRESHOLD /\ seen = 0
            /\ gap' = left /\ ticks' = 0
            /\ UNCHANGED <<e, cyc_per_tick>>
         \/ /\ newgap >= THRESHOLD /\ seen > 0
            /\ cyc_per_tick' = IF Records(newgap, seen) THEN newgap \div seen
                               ELSE cyc_per_tick
            /\ count_event(newgap, seen)
            /\ gap' = left /\ ticks' = 0
  BY <1>3, <1>5 DEF pass
<1>7. newgap >= THRESHOLD /\ seen > 0 => newgap \div seen \in Nat
  BY <1>2, <1>3, DivisionParts
<1>8. /\ e' \in 0 .. NEVENT /\ gap' \in Int /\ ticks' \in 0 .. MaxTicks
      /\ cyc_per_tick' \in Nat
      /\ cyc_per_tick' = 0 \/ cyc_per_tick' > RECORDTHRESH
  BY <1>1, <1>2, <1>3, <1>6, <1>7 DEF count_event, Records
<1>9. since' \in 0 .. WORD - 1
  <2>1. since + spent + later \in Nat
    BY <1>3, <1>4
  <2> QED
    BY <1>2, <1>6, <2>1, DivisionParts
<1>10. ASSUME machine.counter = "i386"
       PROVE  /\ gap' \in Nat /\ ticks' \in {0, 1}
              /\ ticks' = 1 => gap' < THRESHOLD
                               \/ gap' \in machine.tick .. machine.tick + THRESHOLD - 1
              /\ cyc_per_tick' # 0 =>
                   cyc_per_tick' \in machine.tick .. machine.tick + Slack
  <2>1. /\ gap \in Nat /\ ticks \in {0, 1}
        /\ ticks = 1 => gap < THRESHOLD
                        \/ gap \in machine.tick .. machine.tick + THRESHOLD - 1
        /\ cyc_per_tick # 0 => cyc_per_tick \in machine.tick .. machine.tick + Slack
    BY <1>10 DEF ClockInv, CalibrationBounds
  <2>2. tick = "none" \/ (ticks = 0 /\ gap < THRESHOLD)
    BY <1>1, <2>1 DEF TickMayCome
  <2>3. newgap = gap + spent /\ left = later
    BY <1>3, <1>4, <1>5, <1>10, GrowthIsInt
  <2>4. newgap \in Nat /\ left \in Nat /\ seen \in {0, 1}
    BY <1>3, <2>1, <2>2, <2>3
  <2>5. CASE newgap < THRESHOLD
    BY <1>1, <1>2, <1>3, <1>6, <2>1, <2>2, <2>3, <2>4, <2>5
  <2>6. CASE newgap >= THRESHOLD /\ seen = 0
    BY <1>6, <2>1, <2>4, <2>6
  <2>7. CASE newgap >= THRESHOLD /\ seen > 0
    <3>1. seen = 1 /\ newgap \div seen = newgap
      BY <2>4, <2>7
    <3>2. newgap > RECORDTHRESH => newgap \in machine.tick .. machine.tick + Slack
      BY <1>2, <1>3, <2>1, <2>2, <2>3, <3>1
    <3>3. Records(newgap, seen) => newgap > RECORDTHRESH
      BY <3>1 DEF Records
    <3>4. /\ cyc_per_tick' = IF Records(newgap, seen) THEN newgap ELSE cyc_per_tick
          /\ gap' = left /\ ticks' = 0
      BY <1>2, <1>6, <2>7, <3>1
    <3> QED
      BY <1>2, <2>1, <2>4, <3>2, <3>3, <3>4
  <2> QED
    BY <1>2, <2>4, <2>5, <2>6, <2>7
<1> QED
  BY <1>1, <1>8, <1>9, <1>10 DEF ClockInv, CalibrationBounds, Slack

\* Compensation takes off a tick, and the slack of its calibration, at most.
LEMMA CompensationTakesOff ==
  ASSUME MeasurementsFit, ClockInv, cyc_per_tick # 0, machine.counter = "i386",
         NEW cycles \in Counts, NEW cost \in Costs, NEW n \in {0, 1}, NEW out \in {0, 1}
  PROVE  get_comp_counter(cycles, cost, n, out) \in
           cost - n * Slack - out * (machine.tick + Slack) .. cost
<1>1. machine \in Machines /\ cyc_per_tick \in machine.tick .. machine.tick + Slack
  BY DEF ClockInv, CalibrationBounds
<1>2. machine.tick \in Nat /\ Slack \in Nat /\ cost \in Nat
  BY <1>1, ClockConstants, TimingAssumption
<1>3. PICK d : d = cost + n * machine.tick
  OBVIOUS
<1>4. get_comp_counter(cycles, cost, n, out) = d - (n + out) * cyc_per_tick
  <2>1. get_counter(cycles, d) = d
    BY <1>1, <1>3, ReadingsAreExact
  <2> QED
    BY <1>3, <2>1 DEF get_comp_counter
<1>5. cyc_per_tick \in Nat /\ cyc_per_tick >= machine.tick
      /\ cyc_per_tick <= machine.tick + Slack
  BY <1>1, <1>2
<1>6. PICK c \in Nat, t \in Nat, s \in Nat, v \in Nat :
        c = cyc_per_tick /\ t = machine.tick /\ s = Slack /\ v = cost
  BY <1>2, <1>5
<1>7. v + n * t - (n + out) * c \in v - n * s - out * (t + s) .. v
  <2>1. c >= t /\ c <= t + s
    BY <1>5, <1>6
  <2>2. CASE n = 0 /\ out = 0
    BY <2>1, <2>2
  <2>3. CASE n = 0 /\ out = 1
    BY <2>1, <2>3
  <2>4. CASE n = 1 /\ out = 0
    BY <2>1, <2>4
  <2>5. CASE n = 1 /\ out = 1
    BY <2>1, <2>5
  <2> QED
    BY <2>2, <2>3, <2>4, <2>5
<1> QED
  BY <1>3, <1>4, <1>6, <1>7

-----------------------------------------------------------------------------
(* The insertion sort.                                                     *)

\* Where v stands among the first n entries of f.
Places(f, n, v) == { j \in 0 .. n - 1 : f[j] = v }

LEMMA PlacesFinite ==
  ASSUME NEW f, NEW n \in Nat, NEW v
  PROVE  /\ IsFiniteSet(Places(f, n, v))
         /\ Cardinality(Places(f, n, v)) \in Nat
<1>1. IsFiniteSet(0 .. n - 1)
  BY FS_Interval
<1>2. Places(f, n, v) \in SUBSET (0 .. n - 1)
  BY DEF Places
<1>3. IsFiniteSet(Places(f, n, v))
  BY <1>1, <1>2, FS_Subset
<1> QED
  BY <1>3, FS_CardinalityType

\* None at all exactly when v is not there.
LEMMA NoPlaces ==
  ASSUME NEW f, NEW n \in Nat, NEW v
  PROVE  Cardinality(Places(f, n, v)) = 0 <=> (\A j \in 0 .. n - 1 : f[j] # v)
<1>1. Cardinality(Places(f, n, v)) = 0 <=> Places(f, n, v) = {}
  BY PlacesFinite, FS_EmptySet
<1>2. Places(f, n, v) = {} <=> (\A j \in 0 .. n - 1 : f[j] # v)
  BY DEF Places
<1> QED
  BY <1>1, <1>2

\* One entry more.
LEMMA PlacesOfOneMore ==
  ASSUME NEW f, NEW n \in Nat, NEW v
  PROVE  Cardinality(Places(f, n + 1, v)) =
           Cardinality(Places(f, n, v)) + (IF f[n] = v THEN 1 ELSE 0)
<1>1. CASE f[n] = v
  <2>1. Places(f, n + 1, v) = Places(f, n, v) \union {n}
    BY <1>1 DEF Places
  <2>2. n \notin Places(f, n, v)
    BY DEF Places
  <2> QED
    BY <1>1, <2>1, <2>2, PlacesFinite, FS_AddElement
<1>2. CASE f[n] # v
  <2>1. Places(f, n + 1, v) = Places(f, n, v)
    BY <1>2 DEF Places
  <2> QED
    BY <1>2, <2>1, PlacesFinite
<1> QED
  BY <1>1, <1>2

\* An entry put in among the first n adds one to the places of its value.
LEMMA PlacesOfInsertion ==
  ASSUME NEW f, NEW g, NEW n \in Nat, NEW at \in 0 .. n, NEW val, NEW v,
         g[at] = val,
         \A j \in 0 .. n - 1 : g[Skip(at, j)] = f[j]
  PROVE  Cardinality(Places(g, n + 1, v)) =
           Cardinality(Places(f, n, v)) + (IF v = val THEN 1 ELSE 0)
<1> DEFINE A == Places(f, n, v)
           B == Places(g, n + 1, v) \ {at}
           up == [j \in A |-> Skip(at, j)]
<1>1. Cardinality(B) = Cardinality(A)
  <2>1. \A j \in A : j \in 0 .. n - 1 /\ f[j] = v /\ g[Skip(at, j)] = v
    BY DEF Places
  <2>2. \A j \in 0 .. n - 1 : Skip(at, j) \in 0 .. n /\ Skip(at, j) # at
    BY DEF Skip
  <2>3. \A j \in A : up[j] \in B
    BY <2>1, <2>2 DEF Places
  <2>4. \A i, j \in A : up[i] = up[j] => i = j
    BY <2>1 DEF Skip
  <2>5. ASSUME NEW k \in B PROVE \E j \in A : up[j] = k
    <3>1. k \in 0 .. n /\ k # at /\ g[k] = v
      BY DEF Places
    <3>2. CASE k < at
      <4>1. k \in 0 .. n - 1 /\ Skip(at, k) = k
        BY <3>1, <3>2 DEF Skip
      <4>2. k \in A
        BY <3>1, <4>1 DEF Places
      <4> QED
        BY <4>1, <4>2
    <3>3. CASE k > at
      <4>1. k - 1 \in 0 .. n - 1 /\ Skip(at, k - 1) = k
        BY <3>1, <3>3 DEF Skip
      <4>2. k - 1 \in A
        BY <3>1, <4>1 DEF Places
      <4> QED
        BY <4>1, <4>2
    <3> QED
      BY <3>1, <3>2, <3>3
  <2>6. up \in Bijection(A, B)
    <3>1. up \in [A -> B]
      BY <2>3
    <3> HIDE DEF up, A, B
    <3> QED
      BY <3>1, <2>4, <2>5 DEF Bijection, Injection, Surjection, IsInjective
  <2>7. ExistsBijection(A, B)
    BY <2>6 DEF ExistsBijection
  <2> QED
    BY <2>7, PlacesFinite, FS_Bijection
<1>2. /\ IsFiniteSet(Places(g, n + 1, v))
      /\ Cardinality(Places(g, n + 1, v)) \in Nat /\ Cardinality(A) \in Nat
  BY PlacesFinite
<1>3. Cardinality(B) = IF at \in Places(g, n + 1, v)
                       THEN Cardinality(Places(g, n + 1, v)) - 1
                       ELSE Cardinality(Places(g, n + 1, v))
  BY <1>2, FS_RemoveElement
<1>4. at \in Places(g, n + 1, v) <=> v = val
  BY DEF Places
<1> HIDE DEF A, B
<1>5. CASE v = val
  BY <1>1, <1>2, <1>3, <1>4, <1>5 DEF A
<1>6. CASE v # val
  BY <1>1, <1>2, <1>3, <1>4, <1>6 DEF A
<1> QED
  BY <1>5, <1>6 DEF A

\* Where the sort stops: behind the last measurement that is not greater.
LEMMA PlaceIs ==
  ASSUME NEW pos \in Nat, NEW val \in Int, \A j \in 0 .. pos - 1 : values[j] \in Int
  PROVE  /\ Place(val, pos) \in 0 .. pos
         /\ \A j \in Place(val, pos) .. pos - 1 : values[j] > val
         /\ Place(val, pos) = 0 \/ values[Place(val, pos) - 1] <= val
<1> DEFINE S == { a \in 0 .. pos : \A j \in a .. pos - 1 : values[j] > val }
<1>1. PICK a \in S : \A b \in S : a <= b
  <2>1. pos \in S
    OBVIOUS
  <2>2. S \in SUBSET Nat /\ S # {}
    BY <2>1
  <2> HIDE DEF S
  <2> QED
    BY <2>2, LeastElement
<1>2. a = 0 \/ values[a - 1] <= val
  <2> SUFFICES ASSUME a # 0, ~ (values[a - 1] <= val) PROVE FALSE
    OBVIOUS
  <2>1. a - 1 \in 0 .. pos /\ a - 1 \in 0 .. pos - 1
    OBVIOUS
  <2>2. values[a - 1] > val
    BY <2>1
  <2>3. \A j \in a - 1 .. pos - 1 : values[j] > val
    <3> TAKE j \in a - 1 .. pos - 1
    <3>1. j = a - 1 \/ j \in a .. pos - 1
      BY <2>1
    <3> QED
      BY <2>2, <3>1
  <2>4. a - 1 \in S
    BY <2>1, <2>3
  <2> QED
    BY <1>1, <2>1, <2>4
<1>3. \E at \in 0 .. pos : /\ \A j \in at .. pos - 1 : values[j] > val
                           /\ at = 0 \/ values[at - 1] <= val
  BY <1>2
<1> QED
  BY <1>3 DEF Place

\* What add_sample leaves in the array when it enters at pos.
LEMMA InsertParts ==
  ASSUME kbest \in Nat \ {0}, values \in [Indices -> Int],
         NEW pos \in Indices, NEW val \in Int
  PROVE  /\ Insert(val, pos) \in [Indices -> Int]
         /\ Place(val, pos) \in 0 .. pos
         /\ Insert(val, pos)[Place(val, pos)] = val
         /\ \A j \in 0 .. pos - 1 : Insert(val, pos)[Skip(Place(val, pos), j)] = values[j]
         /\ \A j \in Place(val, pos) .. pos - 1 : values[j] > val
         /\ Place(val, pos) = 0 \/ values[Place(val, pos) - 1] <= val
<1>1. pos \in Nat /\ pos < kbest /\ \A j \in 0 .. kbest - 1 : values[j] \in Int
  BY DEF Indices
<1>2. PICK at \in 0 .. pos : at = Place(val, pos)
  BY <1>1, PlaceIs
<1>3. /\ \A j \in at .. pos - 1 : values[j] > val
      /\ at = 0 \/ values[at - 1] <= val
  BY <1>1, <1>2, PlaceIs
<1>4. Insert(val, pos) = [j \in 0 .. kbest - 1 |->
                            IF j = at THEN val
                            ELSE IF at < j /\ j <= pos THEN values[j - 1]
                            ELSE values[j]]
  BY <1>2 DEF Insert, Indices
<1>5. Insert(val, pos) \in [0 .. kbest - 1 -> Int]
  <2>1. \A j \in 0 .. kbest - 1 : at < j => j - 1 \in 0 .. kbest - 1
    BY <1>1
  <2> QED
    BY <1>1, <1>4, <2>1
<1>6. Insert(val, pos)[at] = val
  BY <1>1, <1>4
<1>7. ASSUME NEW j \in 0 .. pos - 1
      PROVE  Insert(val, pos)[Skip(at, j)] = values[j]
  <2>1. CASE j < at
    BY <1>1, <1>4, <2>1 DEF Skip
  <2>2. CASE j >= at
    BY <1>1, <1>4, <2>2 DEF Skip
  <2> QED
    BY <2>1, <2>2
<1> QED
  BY <1>2, <1>3, <1>5, <1>6, <1>7 DEF Indices

\* add_sample enters a measurement into the array or not at all.
LEMMA EntryIs ==
  ASSUME kbest \in Nat \ {0}, samplecount \in Nat, values \in [Indices -> Int],
         NEW val \in Int
  PROVE  \/ samplecount < kbest /\ Entry(val) = samplecount /\ samplecount \in Indices
         \/ /\ samplecount >= kbest /\ val < values[kbest - 1]
            /\ Entry(val) = kbest - 1 /\ kbest - 1 \in Indices
         \/ samplecount >= kbest /\ val >= values[kbest - 1] /\ Entry(val) = -1
<1>1. values[kbest - 1] \in Int
  BY DEF Indices
<1> QED
  BY <1>1 DEF Entry, Indices

-----------------------------------------------------------------------------
(* Types.                                                                  *)

\* Within a call the array has room for kbest measurements, and every sample is
\* a number; the events of the calibration are counted there only.
TypesInv ==
  /\ kbest \in Ks /\ maxsamples \in Limits /\ epsilon \in Epsilons
  /\ compensate \in BOOLEAN /\ clear_cache \in BOOLEAN
  /\ cache_bytes \in Bytes /\ cache_block \in Blocks
  /\ cache_buf \in {0, cache_bytes}
  /\ samplecount \in Nat /\ IsABag(samples) /\ BagToSet(samples) \subseteq Int
  /\ pc \in {"idle", "top", "start", "callibrate", "measure", "loop", "exited"}
  /\ pc # "idle" => values \in [Indices -> Int]
  /\ ClockInv
  /\ e > 0 => pc = "callibrate"

\* How often v was measured.
Measured(v) == IF v \in BagToSet(samples) THEN samples[v] ELSE 0

LEMMA OneSampleMore ==
  ASSUME IsABag(samples), BagToSet(samples) \subseteq Int, NEW val \in Int,
         samples' = samples (+) SetToBag({val})
  PROVE  /\ IsABag(samples)' /\ BagToSet(samples)' \subseteq Int
         /\ BagToSet(samples)' = BagToSet(samples) \union {val}
         /\ \A v : Measured(v) \in Nat
         /\ \A v : Measured(v)' = Measured(v) + (IF v = val THEN 1 ELSE 0)
<1>1. samples \in [DOMAIN samples -> {n \in Nat : n > 0}] /\ DOMAIN samples \subseteq Int
  BY DEF IsABag, BagToSet
<1>2. samples' = [v \in DOMAIN samples \union {val} |->
                    (IF v \in DOMAIN samples THEN samples[v] ELSE 0)
                    + (IF v \in {val} THEN 1 ELSE 0)]
  <2>1. DOMAIN SetToBag({val}) = {val} /\ SetToBag({val})[val] = 1
    BY DEF SetToBag
  <2> QED
    BY <2>1 DEF (+)
<1>3. DOMAIN samples' = DOMAIN samples \union {val}
  BY <1>2
<1>4. \A v \in DOMAIN samples : samples[v] \in Nat /\ samples[v] > 0
  BY <1>1
<1>5. \A v \in DOMAIN samples' :
        samples'[v] = (IF v \in DOMAIN samples THEN samples[v] ELSE 0)
                      + (IF v = val THEN 1 ELSE 0)
  BY <1>2
<1>6. \A v \in DOMAIN samples' : samples'[v] \in Nat /\ samples'[v] > 0
  <2> TAKE v \in DOMAIN samples'
  <2>1. CASE v \in DOMAIN samples
    <3>1. samples'[v] = samples[v] + (IF v = val THEN 1 ELSE 0)
      BY <1>5, <2>1
    <3> QED
      BY <1>4, <2>1, <3>1
  <2>2. CASE v \notin DOMAIN samples
    <3>1. v = val
      BY <1>3, <2>2
    <3>2. samples'[v] = 0 + 1
      BY <1>5, <2>2, <3>1
    <3> QED
      BY <3>2
  <2> QED
    BY <2>1, <2>2
<1>7. samples' \in [DOMAIN samples' -> {n \in Nat : n > 0}]
  BY <1>2, <1>6
<1>8. IsABag(samples)' /\ BagToSet(samples)' = BagToSet(samples) \union {val}
  <2>1. PICK f : f = samples'
    OBVIOUS
  <2>2. IsABag(f)
    BY <1>7, <2>1 DEF IsABag
  <2> QED
    BY <1>3, <2>1, <2>2 DEF IsABag, BagToSet
<1>9. \A v : Measured(v) \in Nat
  BY <1>4 DEF Measured, BagToSet
<1>10. \A v : Measured(v)' = Measured(v) + (IF v = val THEN 1 ELSE 0)
  BY <1>3, <1>4, <1>5 DEF Measured, BagToSet
<1> QED
  BY <1>8, <1>9, <1>10

LEMMA MeasurementIsInt ==
  ASSUME TypesInv, NEW cycles \in Counts, NEW cost \in Costs,
         NEW n \in {0, 1}, NEW out \in {0, 1}
  PROVE  /\ get_counter(cycles, cost + n * machine.tick) \in Int
         /\ get_comp_counter(cycles, cost, n, out) \in Int
<1>1. WORD \in Nat \ {0} /\ machine.tick \in Nat /\ cost \in Nat /\ cyc_per_tick \in Nat
      /\ cycles \in Nat
  BY ClockConstants, TimingAssumption DEF TypesInv, ClockInv
<1>2. PICK d \in Nat : d = cost + n * machine.tick
  BY <1>1
<1>3. get_counter(cycles, d) \in Int
  BY <1>1, ReadingIsInt
<1> QED
  BY <1>1, <1>2, <1>3 DEF get_comp_counter

LEMMA KBestConstants ==
  Ks \subseteq Nat \ {0} /\ Limits \subseteq Nat /\ Epsilons \subseteq Nat
  BY KBestAssumption

LEMMA SampleTypes ==
  ASSUME TypesInv, NEW val \in Int, add_sample(val), UNCHANGED clock
  PROVE  TypesInv'
<1>1. kbest \in Nat \ {0} /\ samplecount \in Nat /\ values \in [Indices -> Int]
      /\ IsABag(samples) /\ BagToSet(samples) \subseteq Int /\ e = 0
  <2>1. pc = "measure" /\ e \in Nat
    BY ClockConstants DEF add_sample, TypesInv, ClockInv
  <2> QED
    BY <2>1, KBestConstants DEF TypesInv
<1>2. values' \in [Indices -> Int]
  <2>1. CASE Entry(val) = -1
    BY <1>1, <2>1 DEF add_sample
  <2>2. CASE Entry(val) # -1
    <3>1. Entry(val) \in Indices
      BY <1>1, <2>2, EntryIs
    <3>2. Insert(val, Entry(val)) \in [Indices -> Int]
      BY <1>1, <3>1, InsertParts
    <3> QED
      BY <2>2, <3>2 DEF add_sample
  <2> QED
    BY <2>1, <2>2
<1>3. IsABag(samples)' /\ BagToSet(samples)' \subseteq Int
  BY <1>1, OneSampleMore DEF add_sample
<1>4. Indices' = Indices
  BY DEF add_sample, params, Indices
<1>5. ClockInv'
  BY DEF TypesInv, clock, ClockInv, CalibrationBounds
<1>6. /\ kbest \in Ks /\ maxsamples \in Limits /\ epsilon \in Epsilons
      /\ compensate \in BOOLEAN /\ clear_cache \in BOOLEAN
      /\ cache_bytes \in Bytes /\ cache_block \in Blocks
      /\ cache_buf \in {0, cache_bytes}
  BY DEF TypesInv
<1>7. /\ UNCHANGED <<params, cache>> /\ pc' = "loop"
      /\ samplecount' = samplecount + 1 /\ e' = e
  BY DEF add_sample, clock
<1> QED
  BY <1>1, <1>2, <1>3, <1>4, <1>5, <1>6, <1>7 DEF TypesInv, params, cache

LEMMA TypesAtInit ==
  Init => TypesInv
<1> SUFFICES ASSUME Init PROVE TypesInv
  OBVIOUS
<1>1. ClockInv
  BY ClockAtInit DEF Init
<1>2. IsABag(samples) /\ BagToSet(samples) = {}
  <2>1. PICK b : b = samples
    OBVIOUS
  <2>2. b = [v \in {} |-> 1]
    BY <2>1 DEF Init, KInit, EmptyBag, SetToBag
  <2>3. b \in [{} -> {n \in Nat : n > 0}] /\ DOMAIN b = {}
    BY <2>2
  <2> QED
    BY <2>1, <2>3 DEF IsABag, BagToSet
<1> QED
  BY <1>1, <1>2 DEF Init, KInit, ClockInit, TypesInv

\* The bag is emptied.
LEMMA NoSamples ==
  ASSUME samples' = EmptyBag
  PROVE  /\ IsABag(samples)' /\ BagToSet(samples)' = {}
         /\ \A v : Measured(v)' = 0
<1>1. PICK b : b = samples'
  OBVIOUS
<1>2. b = [v \in {} |-> 1]
  BY <1>1 DEF EmptyBag, SetToBag
<1>3. b \in [{} -> {n \in Nat : n > 0}] /\ DOMAIN b = {}
  BY <1>2
<1> QED
  BY <1>1, <1>3 DEF IsABag, BagToSet, Measured

LEMMA SameClock ==
  ASSUME ClockInv, UNCHANGED clock
  PROVE  ClockInv'
  BY DEF ClockInv, clock, CalibrationBounds

\* The calibration begins with nothing in the gap, and one tick seen at most.
LEMMA StartKeepsClock ==
  ASSUME ClockInv, NEW cycles \in Counts, start_callibrate(cycles),
         UNCHANGED <<machine, cyc_per_tick>>
  PROVE  ClockInv' /\ e' = 0
<1>1. WORD \in Nat \ {0} /\ MaxTicks \in Nat \ {0} /\ THRESHOLD \in Nat \ {0}
      /\ NEVENT \in Nat \ {0} /\ cycles \in Nat
  BY ClockConstants, TimingAssumption
<1>2. cyc_lo' \in 0 .. WORD - 1
  BY <1>1, DivisionParts DEF start_callibrate, Lo
<1> QED
  BY <1>1, <1>2 DEF ClockInv, start_callibrate, CalibrationBounds, Slack

LEMMA TypesStep ==
  TypesInv /\ [Next]_vars => TypesInv'
<1> SUFFICES ASSUME TypesInv, [Next]_vars PROVE TypesInv'
  OBVIOUS
<1>1. CASE set_parameter /\ UNCHANGED clock
  <2>1. ClockInv' /\ e' = e /\ pc' = pc /\ pc = "idle"
    BY <1>1, SameClock DEF TypesInv, clock, set_parameter, setter
  <2>2. IsABag(samples)' /\ BagToSet(samples)' \subseteq Int
    BY <1>1, NoSamples DEF set_parameter, setter
  <2>3. /\ kbest' \in Ks /\ maxsamples' \in Limits /\ epsilon' \in Epsilons
        /\ compensate' \in BOOLEAN /\ clear_cache' \in BOOLEAN
        /\ cache_bytes' \in Bytes /\ cache_block' \in Blocks
        /\ cache_buf' \in {0, cache_bytes'} /\ samplecount' = samplecount
    BY <1>1 DEF TypesInv, set_parameter, setter, set_fcyc_cache_size, params, cache
  <2> QED
    BY <2>1, <2>2, <2>3 DEF TypesInv
<1>2. CASE fcyc /\ UNCHANGED clock
  <2>1. ClockInv' /\ e' = e /\ pc = "idle" /\ pc' = "top" /\ samplecount' = 0
        /\ UNCHANGED <<params, cache>>
    BY <1>2, SameClock DEF TypesInv, clock, fcyc
  <2>2. IsABag(samples)' /\ BagToSet(samples)' \subseteq Int
    BY <1>2, NoSamples DEF fcyc
  <2>3. values' \in [Indices -> Int]
    BY <1>2 DEF fcyc
  <2>4. Indices' = Indices
    BY <2>1 DEF Indices, params
  <2> QED
    BY <2>1, <2>2, <2>3, <2>4 DEF TypesInv, params, cache
<1>3. CASE clear /\ UNCHANGED clock
  <2>1. ClockInv' /\ e' = e /\ pc = "top" /\ pc' \in {"start", "exited"}
        /\ cache_buf' \in {0, cache_bytes}
        /\ UNCHANGED <<params, clear_cache, cache_bytes, cache_block>>
        /\ UNCHANGED <<values, samplecount, samples>>
    BY <1>3, SameClock DEF TypesInv, clock, clear
  <2>2. Indices' = Indices /\ IsABag(samples)' = IsABag(samples)
        /\ BagToSet(samples)' = BagToSet(samples)
    BY <2>1 DEF Indices, params
  <2> QED
    BY <2>1, <2>2 DEF TypesInv, params
<1>4. CASE measure /\ UNCHANGED clock
  <2>1. PICK val \in Int : add_sample(val)
    BY <1>4, MeasurementIsInt DEF measure
  <2> QED
    BY <1>4, <2>1, SampleTypes
<1>5. CASE (again \/ return) /\ UNCHANGED clock
  <2>1. ClockInv' /\ e' = e /\ pc = "loop" /\ pc' \in {"top", "idle"}
        /\ UNCHANGED <<params, cache, samplecount, samples>>
        /\ (pc' = "top" => values' = values)
    BY <1>5, SameClock DEF TypesInv, clock, again, return
  <2>2. Indices' = Indices /\ IsABag(samples)' = IsABag(samples)
        /\ BagToSet(samples)' = BagToSet(samples)
    BY <2>1 DEF Indices, params
  <2> QED
    BY <2>1, <2>2 DEF TypesInv, params, cache
<1>6. CASE start
  <2>1. pc = "start" /\ pc' \in {"callibrate", "measure"}
        /\ UNCHANGED <<params, cache, values, samplecount, samples>>
    BY <1>6 DEF start
  <2>2. ClockInv' /\ (e' = 0 \/ e' = e)
    <3>1. CASE UNCHANGED clock
      BY <3>1, SameClock DEF TypesInv, clock
    <3>2. CASE /\ \E cycles \in Counts : start_callibrate(cycles)
               /\ UNCHANGED <<machine, cyc_per_tick>>
      BY <3>2, StartKeepsClock DEF TypesInv
    <3> QED
      BY <1>6, <3>1, <3>2 DEF start
  <2>3. Indices' = Indices /\ IsABag(samples)' = IsABag(samples)
        /\ BagToSet(samples)' = BagToSet(samples)
    BY <2>1 DEF Indices, params
  <2> QED
    BY <2>1, <2>2, <2>3 DEF TypesInv, params, cache
<1>7. CASE callibrated
  <2>1. pc = "callibrate" /\ pc' = "measure" /\ e' = 0
        /\ UNCHANGED <<params, cache, values, samplecount, samples>>
    BY <1>7 DEF callibrated, end_callibrate
  <2>2. ClockInv'
    BY <1>7, ClockConstants
       DEF TypesInv, ClockInv, callibrated, end_callibrate, CalibrationBounds, Slack
  <2>3. Indices' = Indices /\ IsABag(samples)' = IsABag(samples)
        /\ BagToSet(samples)' = BagToSet(samples)
    BY <2>1 DEF Indices, params
  <2> QED
    BY <2>1, <2>2, <2>3 DEF TypesInv, params, cache
<1>8. ASSUME NEW tick \in {"none", "in", "late"}, callibrate(tick)
      PROVE  TypesInv'
  <2>1. pc = "callibrate" /\ UNCHANGED <<params, cache, sampler>> /\ pass(tick)
    BY <1>8 DEF callibrate
  <2>2. ClockInv'
    BY <2>1, PassKeepsBounds DEF TypesInv
  <2>3. Indices' = Indices /\ IsABag(samples)' = IsABag(samples)
        /\ BagToSet(samples)' = BagToSet(samples)
    BY <2>1 DEF Indices, params, sampler
  <2> QED
    BY <2>1, <2>2, <2>3 DEF TypesInv, params, cache, sampler
<1>9. CASE UNCHANGED vars
  <2>1. UNCHANGED <<params, cache, sampler, clock>>
    BY <1>9 DEF vars
  <2>2. ClockInv' /\ e' = e
    BY <2>1, SameClock DEF TypesInv, clock
  <2>3. Indices' = Indices /\ IsABag(samples)' = IsABag(samples)
        /\ BagToSet(samples)' = BagToSet(samples)
    BY <2>1 DEF Indices, params, sampler
  <2> QED
    BY <2>1, <2>2, <2>3 DEF TypesInv, params, cache, sampler
<1> QED
  BY <1>1, <1>2, <1>3, <1>4, <1>5, <1>6, <1>7, <1>8, <1>9
     DEF Next, Loop, Calibration

LEMMA TypesInvariant ==
  Spec => []TypesInv
  BY TypesAtInit, TypesStep, PTL DEF Spec

\* The timing package keeps its types: the array has kbest places within a call,
\* and the buffer that clear reads has cache_bytes bytes (fcyc.c:36-66, 119-124).
THEOREM TimingTypes == Spec => []TypeOK
<1>1. TypesInv => TypeOK
  BY DEF TypesInv, ClockInv, TypeOK
<1> QED
  BY <1>1, TypesInvariant, PTL

\* On the i386 a reading of the counter is what passed, whichever words went
\* around, for words of any size, as long as it fits into the two words
\* (clock.c:68-87). Of the Alpha it says nothing.
THEOREM DifferenceIsExact ==
  ASSUME MeasurementsFit
  PROVE  Spec => []CounterIsExact
<1>1. TypesInv => CounterIsExact
  BY ReadingsAreExact DEF TypesInv, ClockInv, CounterIsExact
<1> QED
  BY <1>1, TypesInvariant, PTL

\* On the Alpha it is, for words of any size, as long as the low word does not go
\* around in between (clock.c:151-166); that it may be anything else when it does
\* is what the run clock_alpha shows.
THEOREM AlphaWithinAWordIsExact == Spec => []AlphaIsExactWithinAWord
<1>1. ASSUME TypesInv PROVE AlphaIsExactWithinAWord
  <2> SUFFICES ASSUME machine.counter = "alpha",
                      NEW cycles \in Counts, NEW cost \in Costs, NEW n \in {0, 1},
                      Lo(cycles) + cost + n * machine.tick < WORD
               PROVE  get_counter(cycles, cost + n * machine.tick)
                        = cost + n * machine.tick
    BY DEF AlphaIsExactWithinAWord
  <2>1. WORD \in Nat \ {0} /\ machine.tick \in Nat /\ cost \in Nat /\ cycles \in Nat
    BY <1>1, ClockConstants, TimingAssumption DEF TypesInv, ClockInv
  <2>2. PICK d \in Nat : d = cost + n * machine.tick
    BY <2>1
  <2>3. Lo(cycles) \in Nat
    BY <2>1, DivisionParts DEF Lo
  <2>4. Lo(cycles) + d < WORD
    BY <2>1, <2>2, <2>3
  <2> QED
    BY <2>1, <2>2, <2>4, OneWordDifference
<1> QED
  BY <1>1, TypesInvariant, PTL

\* On the i386, whatever calibration finds, compensation takes off a tick and its
\* slack at most, and never leaves more than the function took
\* (clock.c:257-322).
THEOREM CompensationTakesOffTicks ==
  ASSUME MeasurementsFit
  PROVE  Spec => []CompensationIsBounded
<1>1. TypesInv => CompensationIsBounded
  BY CompensationTakesOff DEF TypesInv, CompensationIsBounded
<1> QED
  BY <1>1, TypesInvariant, PTL

-----------------------------------------------------------------------------
(* What is kept.                                                           *)

NumKept == IF samplecount < kbest THEN samplecount ELSE kbest

\* How often v stands in the part of the array that is in use.
Held(v) == Cardinality(Places(values, NumKept, v))

Ascending ==
  \A i, j \in 0 .. NumKept - 1 : i < j => values[i] <= values[j]

\* A measurement that is missing in the array is not smaller than any in it.
HoldsTheSmallest ==
  \A v \in Int :
    /\ Held(v) <= Measured(v)
    /\ Held(v) < Measured(v) => samplecount > kbest /\ values[kbest - 1] <= v

\* The inductive invariant of the scheme. A call comes to the end of the loop
\* with a measurement, and begins another one only below the limit.
KeptInv ==
  /\ pc # "idle" => Ascending /\ HoldsTheSmallest
  /\ pc = "loop" => samplecount > 0
  /\ pc \in {"top", "start", "callibrate", "measure"} =>
       samplecount < maxsamples \/ samplecount = 0
  /\ ReturnsTheBest

LEMMA NumKeptIs ==
  ASSUME TypesInv
  PROVE  /\ kbest \in Nat \ {0} /\ samplecount \in Nat /\ NumKept \in 0 .. kbest
         /\ Kept = 0 .. NumKept - 1 /\ 0 .. NumKept - 1 \subseteq Indices
         /\ samplecount >= kbest => NumKept = kbest
         /\ maxsamples \in Nat /\ epsilon \in Nat
  BY KBestConstants DEF TypesInv, NumKept, Kept, Indices

\* The array takes a measurement: it stays in order, and counts one val more.
LEMMA InsertKeeps ==
  ASSUME kbest \in Nat \ {0}, values \in [Indices -> Int],
         NEW pos \in Indices, NEW val \in Int,
         \A i, j \in 0 .. pos - 1 : i < j => values[i] <= values[j],
         NEW g, g = Insert(val, pos)
  PROVE  /\ \A i, j \in 0 .. pos : i < j => g[i] <= g[j]
         /\ \A v : Cardinality(Places(g, pos + 1, v)) =
                     Cardinality(Places(values, pos, v)) + (IF v = val THEN 1 ELSE 0)
         /\ pos > 0 => g[pos] = val \/ g[pos] = values[pos - 1]
         /\ pos = 0 => g[pos] = val
<1>1. PICK at \in 0 .. pos :
        /\ g \in [Indices -> Int] /\ g[at] = val
        /\ \A j \in 0 .. pos - 1 : g[Skip(at, j)] = values[j]
        /\ \A j \in at .. pos - 1 : values[j] > val
        /\ at = 0 \/ values[at - 1] <= val
  <2>1. PICK at : at = Place(val, pos)
    OBVIOUS
  <2>2. /\ g \in [Indices -> Int] /\ at \in 0 .. pos /\ g[at] = val
        /\ \A j \in 0 .. pos - 1 : g[Skip(at, j)] = values[j]
        /\ \A j \in at .. pos - 1 : values[j] > val
        /\ at = 0 \/ values[at - 1] <= val
    BY <2>1, InsertParts
  <2> QED
    BY <2>2
<1>2. pos \in Nat /\ \A j \in 0 .. pos : j \in Indices /\ values[j] \in Int /\ g[j] \in Int
  BY <1>1 DEF Indices
<1>3. \A j \in 0 .. at - 1 : values[j] <= val
  <2> TAKE j \in 0 .. at - 1
  <2>1. at - 1 \in 0 .. pos - 1 /\ j \in 0 .. pos - 1 /\ values[at - 1] <= val
    BY <1>1, <1>2
  <2>2. j = at - 1 \/ values[j] <= values[at - 1]
    BY <1>2, <2>1
  <2> QED
    BY <1>2, <2>1, <2>2
<1>4. \A j \in 0 .. at - 1 : g[j] = values[j] /\ j \in 0 .. pos - 1
  BY <1>1, <1>2 DEF Skip
<1>5. \A j \in at + 1 .. pos : g[j] = values[j - 1] /\ j - 1 \in at .. pos - 1
  <2> TAKE j \in at + 1 .. pos
  <2>1. j - 1 \in 0 .. pos - 1 /\ Skip(at, j - 1) = j
    BY <1>2 DEF Skip
  <2> QED
    BY <1>1, <1>2, <2>1
<1>6. ASSUME NEW i \in 0 .. pos, NEW j \in 0 .. pos, i < j
      PROVE  g[i] <= g[j]
  <2>1. CASE j < at
    <3>1. i \in 0 .. at - 1 /\ j \in 0 .. at - 1
      BY <1>2, <1>6, <2>1
    <3> QED
      BY <1>4, <1>6, <3>1
  <2>2. CASE j = at
    <3>1. i \in 0 .. at - 1
      BY <1>2, <1>6, <2>2
    <3> QED
      BY <1>1, <1>3, <1>4, <2>2, <3>1
  <2>3. CASE j > at /\ i < at
    <3>1. i \in 0 .. at - 1 /\ j \in at + 1 .. pos
      BY <1>2, <1>6, <2>3
    <3>2. g[i] = values[i] /\ values[i] <= val /\ g[j] = values[j - 1]
          /\ values[j - 1] > val /\ values[j - 1] \in Int /\ values[i] \in Int
      BY <1>1, <1>2, <1>3, <1>4, <1>5, <3>1
    <3> QED
      BY <3>2
  <2>4. CASE j > at /\ i = at
    <3>1. j \in at + 1 .. pos
      BY <1>2, <1>6, <2>4
    <3>2. g[i] = val /\ g[j] = values[j - 1] /\ values[j - 1] > val /\ values[j - 1] \in Int
      BY <1>1, <1>2, <1>5, <2>4, <3>1
    <3> QED
      BY <3>2
  <2>5. CASE i > at
    <3>1. i \in at + 1 .. pos /\ j \in at + 1 .. pos
      BY <1>2, <1>6, <2>5
    <3>2. /\ g[i] = values[i - 1] /\ g[j] = values[j - 1]
          /\ i - 1 \in 0 .. pos - 1 /\ j - 1 \in 0 .. pos - 1 /\ i - 1 < j - 1
      BY <1>2, <1>5, <1>6, <3>1
    <3> QED
      BY <3>2
  <2> QED
    BY <1>2, <1>6, <2>1, <2>2, <2>3, <2>4, <2>5
<1>7. \A v : Cardinality(Places(g, pos + 1, v)) =
               Cardinality(Places(values, pos, v)) + (IF v = val THEN 1 ELSE 0)
  BY <1>1, <1>2, PlacesOfInsertion
<1>8. g[pos] = val \/ (pos > 0 /\ g[pos] = values[pos - 1])
  <2>1. CASE at = pos
    BY <1>1, <2>1
  <2>2. CASE at < pos
    <3>1. pos \in at + 1 .. pos
      BY <1>2, <2>2
    <3> QED
      BY <1>2, <1>5, <2>2, <3>1
  <2> QED
    BY <1>2, <2>1, <2>2
<1> QED
  BY <1>2, <1>6, <1>7, <1>8

LEMMA SampleKept ==
  ASSUME TypesInv, KeptInv, NEW val \in Int, add_sample(val)
  PROVE  Ascending' /\ HoldsTheSmallest'
<1>1. /\ kbest \in Nat \ {0} /\ samplecount \in Nat /\ NumKept \in 0 .. kbest
      /\ samplecount >= kbest => NumKept = kbest
      /\ pc = "measure" /\ values \in [Indices -> Int]
      /\ Ascending /\ HoldsTheSmallest
      /\ kbest' = kbest /\ samplecount' = samplecount + 1
  BY NumKeptIs DEF TypesInv, KeptInv, add_sample, params
<1>2. PICK g : g = values'
  OBVIOUS
<1>3. \A v : /\ Measured(v) \in Nat
             /\ Measured(v)' = Measured(v) + (IF v = val THEN 1 ELSE 0)
  BY OneSampleMore DEF TypesInv, add_sample
<1>4. \A v : Held(v) \in Nat
  BY <1>1, PlacesFinite DEF Held
<1>5. \A v \in Int : /\ Held(v) <= Measured(v)
                     /\ Held(v) < Measured(v) => samplecount > kbest /\ values[kbest - 1] <= v
  BY <1>1 DEF HoldsTheSmallest
<1>6. \A i, j \in 0 .. NumKept - 1 : i < j => values[i] <= values[j]
  BY <1>1 DEF Ascending
<1>7. \A v : Held(v)' = Cardinality(Places(g, NumKept', v))
  BY <1>2 DEF Held
<1>8. CASE samplecount < kbest /\ Entry(val) = samplecount /\ samplecount \in Indices
  <2>1. NumKept = samplecount /\ NumKept' = samplecount + 1
    BY <1>1, <1>8 DEF NumKept
  <2>2. g = Insert(val, samplecount)
    BY <1>1, <1>2, <1>8 DEF add_sample
  <2>3. /\ \A i, j \in 0 .. samplecount : i < j => g[i] <= g[j]
        /\ \A v : Cardinality(Places(g, samplecount + 1, v)) =
                    Cardinality(Places(values, samplecount, v))
                    + (IF v = val THEN 1 ELSE 0)
    BY <1>1, <1>6, <1>8, <2>1, <2>2, InsertKeeps
  <2>4. \A v : Held(v)' = Held(v) + (IF v = val THEN 1 ELSE 0)
    BY <1>7, <2>1, <2>3 DEF Held
  <2>5. \A v \in Int : Held(v) = Measured(v)
    BY <1>1, <1>3, <1>4, <1>5, <1>8
  <2>6. \A v \in Int : Held(v)' = Measured(v)' /\ Held(v)' \in Nat
    BY <1>3, <1>4, <2>4, <2>5
  <2>7. Ascending'
    BY <1>1, <1>2, <2>1, <2>3 DEF Ascending
  <2>8. HoldsTheSmallest'
    BY <2>6 DEF HoldsTheSmallest
  <2> QED
    BY <2>7, <2>8
<1>9. CASE /\ samplecount >= kbest /\ val < values[kbest - 1]
           /\ Entry(val) = kbest - 1 /\ kbest - 1 \in Indices
  <2>1. PICK pos \in Nat : pos = kbest - 1
    BY <1>1
  <2>2. NumKept = pos + 1 /\ NumKept' = pos + 1 /\ pos \in Indices
    BY <1>1, <1>9, <2>1 DEF NumKept
  <2>3. g = Insert(val, pos)
    BY <1>1, <1>2, <1>9, <2>1 DEF add_sample
  <2>4. \A i, j \in 0 .. pos - 1 : i < j => values[i] <= values[j]
    BY <1>6, <2>2
  <2>5. /\ \A i, j \in 0 .. pos : i < j => g[i] <= g[j]
        /\ \A v : Cardinality(Places(g, pos + 1, v)) =
                    Cardinality(Places(values, pos, v)) + (IF v = val THEN 1 ELSE 0)
        /\ pos > 0 => g[pos] = val \/ g[pos] = values[pos - 1]
        /\ pos = 0 => g[pos] = val
    BY <1>1, <2>2, <2>3, <2>4, InsertKeeps
  <2>6. PICK largest \in Int, last \in Int :
          /\ largest = values[pos] /\ last = g[pos] /\ last <= largest
    <3>1. values[pos] \in Int /\ val < values[pos]
      BY <1>1, <1>9, <2>1, <2>2
    <3>2. CASE pos > 0
      <4>1. /\ pos - 1 \in 0 .. NumKept - 1 /\ pos \in 0 .. NumKept - 1
            /\ pos - 1 \in Indices
        BY <1>1, <2>1, <2>2, <3>2 DEF Indices
      <4>2. values[pos - 1] <= values[pos] /\ values[pos - 1] \in Int
        BY <1>1, <1>6, <4>1
      <4> QED
        BY <2>5, <3>1, <3>2, <4>2
    <3>3. CASE pos = 0
      BY <2>5, <3>1, <3>3
    <3> QED
      BY <3>2, <3>3
  <2>7. \A v : /\ Held(v) = Cardinality(Places(values, pos, v))
                            + (IF largest = v THEN 1 ELSE 0)
               /\ Cardinality(Places(values, pos, v)) \in Nat
    BY <2>2, <2>6, PlacesOfOneMore, PlacesFinite DEF Held
  <2>8. \A v : Held(v)' = Cardinality(Places(values, pos, v)) + (IF v = val THEN 1 ELSE 0)
    BY <1>7, <2>2, <2>5
  <2>9. ASSUME NEW v \in Int
        PROVE  /\ Held(v)' <= Measured(v)'
               /\ Held(v)' < Measured(v)' => last <= v
    <3>1. PICK h \in Nat, m \in Nat, c \in Nat :
            h = Held(v) /\ m = Measured(v) /\ c = Cardinality(Places(values, pos, v))
      BY <1>3, <1>4, <2>7
    <3>2. h <= m /\ (h < m => largest <= v)
      BY <1>5, <2>1, <2>6, <3>1
    <3>3. h = c + (IF largest = v THEN 1 ELSE 0)
      BY <2>7, <3>1
    <3>4. Held(v)' = c + (IF v = val THEN 1 ELSE 0)
          /\ Measured(v)' = m + (IF v = val THEN 1 ELSE 0)
      BY <1>3, <2>8, <3>1
    <3>5. CASE largest = v
      BY <2>6, <3>2, <3>3, <3>4, <3>5
    <3>6. CASE largest # v
      <4>1. h = c
        BY <3>3, <3>6
      <4>2. CASE v = val
        BY <2>6, <3>2, <3>4, <4>1, <4>2
      <4>3. CASE v # val
        BY <2>6, <3>2, <3>4, <4>1, <4>3
      <4> QED
        BY <4>2, <4>3
    <3> QED
      BY <3>5, <3>6
  <2>10. Ascending'
    BY <1>2, <2>2, <2>5 DEF Ascending
  <2>11. HoldsTheSmallest'
    <3>1. values'[kbest' - 1] = last
      BY <1>1, <1>2, <2>1, <2>6
    <3>2. samplecount' > kbest'
      BY <1>1, <1>9
    <3> QED
      BY <2>9, <3>1, <3>2 DEF HoldsTheSmallest
  <2> QED
    BY <2>10, <2>11
<1>10. CASE samplecount >= kbest /\ val >= values[kbest - 1] /\ Entry(val) = -1
  <2>1. g = values /\ NumKept' = NumKept /\ NumKept = kbest
    BY <1>1, <1>2, <1>10 DEF add_sample, NumKept
  <2>2. \A v : Held(v)' = Held(v)
    BY <1>7, <2>1 DEF Held
  <2>3. kbest - 1 \in Indices /\ values[kbest - 1] \in Int /\ values' = values
    BY <1>1, <1>2, <2>1 DEF Indices
  <2>4. ASSUME NEW v \in Int
        PROVE  /\ Held(v)' <= Measured(v)'
               /\ Held(v)' < Measured(v)' => values[kbest - 1] <= v
    <3>1. CASE v = val
      <4>1. Measured(v)' = Measured(v) + 1
        BY <1>3, <3>1
      <4> QED
        BY <1>3, <1>4, <1>5, <1>10, <2>2, <2>3, <3>1, <4>1
    <3>2. CASE v # val
      <4>1. Measured(v)' = Measured(v)
        BY <1>3, <3>2
      <4> QED
        BY <1>3, <1>4, <1>5, <2>2, <4>1
    <3> QED
      BY <3>1, <3>2
  <2>5. samplecount' > kbest'
    BY <1>1, <1>10
  <2>6. HoldsTheSmallest'
    BY <1>1, <2>3, <2>4, <2>5 DEF HoldsTheSmallest
  <2>7. Ascending'
    BY <1>1, <2>1, <2>3 DEF Ascending
  <2> QED
    BY <2>6, <2>7
<1> QED
  BY <1>1, <1>8, <1>9, <1>10, EntryIs

\* What the array holds was measured, and the first of it is the smallest of all.
LEMMA HeldWasMeasured ==
  ASSUME TypesInv, KeptInv, pc # "idle"
  PROVE  /\ \A j \in 0 .. NumKept - 1 : BagIn(values[j], samples)
         /\ \A v \in BagToSet(samples) : Held(v) = 0 => NumKept = kbest
         /\ samplecount > 0 => /\ BagIn(values[0], samples)
                               /\ \A v \in BagToSet(samples) : values[0] <= v
<1>1. /\ kbest \in Nat \ {0} /\ samplecount \in Nat /\ NumKept \in 0 .. kbest
      /\ samplecount >= kbest => NumKept = kbest
      /\ \A j \in 0 .. NumKept - 1 : j \in Indices /\ values[j] \in Int
      /\ Ascending /\ HoldsTheSmallest
      /\ BagToSet(samples) \subseteq Int /\ samples \in [BagToSet(samples) -> {n \in Nat : n > 0}]
  BY NumKeptIs DEF TypesInv, KeptInv, IsABag, BagToSet
<1>2. \A v : Held(v) \in Nat /\ (Held(v) = 0 <=> \A j \in 0 .. NumKept - 1 : values[j] # v)
  BY <1>1, PlacesFinite, NoPlaces DEF Held
<1>3. \A v \in Int : /\ Held(v) <= Measured(v)
                     /\ Held(v) < Measured(v) => samplecount > kbest /\ values[kbest - 1] <= v
  BY <1>1 DEF HoldsTheSmallest
<1>4. ASSUME NEW j \in 0 .. NumKept - 1
      PROVE  BagIn(values[j], samples)
  <2>1. PICK v \in Int : v = values[j]
    BY <1>1
  <2>2. Held(v) # 0
    BY <1>2, <2>1
  <2>3. Measured(v) # 0
    BY <1>2, <1>3, <2>2 DEF Measured
  <2> QED
    BY <2>1, <2>3 DEF Measured, BagIn
<1>5. \A v \in BagToSet(samples) : Measured(v) \in Nat /\ Measured(v) > 0 /\ v \in Int
  BY <1>1 DEF Measured
<1>6. ASSUME NEW v \in BagToSet(samples), Held(v) = 0
      PROVE  NumKept = kbest /\ values[kbest - 1] <= v
  <2>1. samplecount > kbest /\ values[kbest - 1] <= v
    BY <1>3, <1>5, <1>6
  <2> QED
    BY <1>1, <2>1
<1>7. ASSUME samplecount > 0, NEW v \in BagToSet(samples)
      PROVE  values[0] <= v
  <2>1. NumKept > 0 /\ 0 \in 0 .. NumKept - 1 /\ values[0] \in Int
    BY <1>1, <1>7 DEF NumKept
  <2>2. \A j \in 0 .. NumKept - 1 : values[0] <= values[j]
    BY <1>1, <2>1 DEF Ascending
  <2>3. CASE Held(v) = 0
    <3>1. kbest - 1 \in 0 .. NumKept - 1 /\ values[kbest - 1] <= v
      BY <1>1, <1>6, <2>3
    <3> QED
      BY <1>1, <1>5, <2>1, <2>2, <3>1
  <2>4. CASE Held(v) # 0
    BY <1>2, <2>2, <2>4
  <2> QED
    BY <2>3, <2>4
<1>8. samplecount > 0 => 0 \in 0 .. NumKept - 1
  BY <1>1 DEF NumKept
<1> QED
  BY <1>4, <1>6, <1>7, <1>8

LEMMA KeptShown ==
  TypesInv /\ KeptInv => KeepsTheSmallest
<1> SUFFICES ASSUME TypesInv, KeptInv, pc # "idle" PROVE KeepsTheSmallest
  BY DEF KeepsTheSmallest
<1>1. Kept = 0 .. NumKept - 1 /\ Ascending /\ HoldsTheSmallest
  BY NumKeptIs DEF KeptInv
<1>2. \A j \in Kept : BagIn(values[j], samples)
  BY <1>1, HeldWasMeasured
<1>3. \A v \in BagToSet(samples) :
        /\ Held(v) <= samples[v]
        /\ Held(v) < samples[v] => samplecount > kbest /\ values[kbest - 1] <= v
  BY <1>1 DEF HoldsTheSmallest, Measured, TypesInv
<1>4. \A v : Cardinality({ j \in Kept : values[j] = v }) = Held(v)
  BY <1>1 DEF Held, Places
<1>5. \A i, j \in Kept : i < j => values[i] <= values[j]
  BY <1>1 DEF Ascending
<1> QED
  BY <1>2, <1>3, <1>4, <1>5 DEF KeepsTheSmallest

LEMMA SameKept ==
  ASSUME KeptInv, pc # "idle", pc' # "idle",
         UNCHANGED <<kbest, maxsamples, values, samplecount, samples, result>>,
         pc' = "loop" => pc = "loop",
         pc' \in {"top", "start", "callibrate", "measure"} =>
           pc \in {"top", "start", "callibrate", "measure"} \/ samplecount < maxsamples
  PROVE  KeptInv'
<1>1. NumKept' = NumKept /\ \A v : Measured(v)' = Measured(v)
  BY DEF NumKept, Measured
<1>2. \A v : Held(v)' = Held(v)
  BY <1>1 DEF Held
<1>3. Ascending' /\ HoldsTheSmallest'
  BY <1>1, <1>2 DEF KeptInv, Ascending, HoldsTheSmallest
<1> QED
  BY <1>3 DEF KeptInv, ReturnsTheBest

LEMMA KeptAtInit ==
  Init => KeptInv
<1> SUFFICES ASSUME Init PROVE KeptInv
  OBVIOUS
<1>1. pc = "idle" /\ samples = EmptyBag
  BY DEF Init, KInit
<1> QED
  BY <1>1 DEF KeptInv, ReturnsTheBest

LEMMA KeptStep ==
  TypesInv /\ KeptInv /\ [Next]_vars => KeptInv'
<1> SUFFICES ASSUME TypesInv, KeptInv, [Next]_vars PROVE KeptInv'
  OBVIOUS
<1>1. CASE set_parameter
  <2>1. pc' = "idle" /\ samples' = EmptyBag
    BY <1>1 DEF set_parameter, setter
  <2> QED
    BY <2>1 DEF KeptInv, ReturnsTheBest, EmptyBag
<1>2. CASE fcyc
  <2>1. pc' = "top" /\ samplecount' = 0 /\ samples' = EmptyBag /\ kbest' = kbest
        /\ kbest \in Nat \ {0}
    BY <1>2, NumKeptIs DEF fcyc, params
  <2>2. NumKept' = 0 /\ \A v : Measured(v)' = 0
    BY <2>1, NoSamples DEF NumKept
  <2>3. \A v : Held(v)' = 0
    <3> TAKE v
    <3>1. PICK f : f = values'
      OBVIOUS
    <3>2. Cardinality(Places(f, 0, v)) = 0
      BY NoPlaces
    <3> QED
      BY <2>2, <3>1, <3>2 DEF Held
  <2>4. Ascending'
    BY <2>2 DEF Ascending
  <2>5. HoldsTheSmallest'
    BY <2>2, <2>3 DEF HoldsTheSmallest
  <2> QED
    BY <2>1, <2>4, <2>5 DEF KeptInv, ReturnsTheBest
<1>3. CASE clear
  <2>1. /\ pc = "top" /\ pc' \in {"start", "exited"}
        /\ UNCHANGED <<kbest, maxsamples, values, samplecount, samples, result>>
    BY <1>3 DEF clear, params
  <2> QED
    BY <2>1, SameKept
<1>4. CASE measure
  <2>1. PICK val \in Int : add_sample(val)
    BY <1>4, MeasurementIsInt DEF measure
  <2>2. Ascending' /\ HoldsTheSmallest'
    BY <2>1, SampleKept
  <2>3. pc' = "loop" /\ samplecount' > 0
    BY <2>1 DEF add_sample, TypesInv
  <2> QED
    BY <2>2, <2>3 DEF KeptInv, ReturnsTheBest
<1>5. CASE again
  <2>1. /\ pc = "loop" /\ pc' = "top" /\ samplecount < maxsamples
        /\ UNCHANGED <<kbest, maxsamples, values, samplecount, samples, result>>
    BY <1>5 DEF again, GoesOn, params
  <2> QED
    BY <2>1, SameKept
<1>6. CASE return
  <2>1. pc = "loop" /\ pc' = "idle" /\ result' = values[0] /\ samples' = samples
    BY <1>6 DEF return
  <2>2. samplecount > 0
    BY <2>1 DEF KeptInv
  <2>3. BagIn(values[0], samples) /\ \A v \in BagToSet(samples) : values[0] <= v
    BY <2>1, <2>2, HeldWasMeasured
  <2> QED
    BY <2>1, <2>3 DEF KeptInv, ReturnsTheBest
<1>7. CASE start \/ callibrated
  <2>1. /\ pc \in {"start", "callibrate"} /\ pc' \in {"callibrate", "measure"}
        /\ UNCHANGED <<kbest, maxsamples, values, samplecount, samples, result>>
    BY <1>7 DEF start, callibrated, params
  <2> QED
    BY <2>1, SameKept
<1>8. CASE UNCHANGED sampler /\ UNCHANGED params
  <2>1. pc' = pc /\ UNCHANGED <<kbest, maxsamples, values, samplecount, samples, result>>
    BY <1>8 DEF sampler, params
  <2>2. CASE pc = "idle"
    BY <2>1, <2>2 DEF KeptInv, ReturnsTheBest
  <2>3. CASE pc # "idle"
    BY <2>1, <2>3, SameKept
  <2> QED
    BY <2>2, <2>3
<1> QED
  BY <1>1, <1>2, <1>3, <1>4, <1>5, <1>6, <1>7, <1>8
     DEF Next, Loop, Calibration, callibrate, vars

LEMMA KeptInvariant ==
  Spec => []KeptInv
  BY TypesInvariant, KeptAtInit, KeptStep, PTL DEF Spec

\* Through any number of measurements, with compensation or without, the array
\* holds the kbest smallest of this call, in order, each as often as it was
\* measured (fcyc.c:52-91).
THEOREM SmallestAreKept == Spec => []KeepsTheSmallest
  BY KeptShown, TypesInvariant, KeptInvariant, PTL

\* fcyc returns the best measurement it took (fcyc.c:168, 245-256).
THEOREM BestIsReturned == Spec => []ReturnsTheBest
<1>1. KeptInv => ReturnsTheBest
  BY DEF KeptInv
<1> QED
  BY <1>1, KeptInvariant, PTL

\* A call that ends has converged or is at the limit.
LEMMA ReturnHasAReason ==
  ASSUME TypesInv, KeptInv, return
  PROVE  \/ samplecount >= maxsamples
         \/ /\ samplecount >= kbest
            /\ \A i, j \in Indices :
                 100 * (values[i] - values[j]) <= epsilon * values[0]
<1>1. pc = "loop" /\ (has_converged \/ ~ (samplecount < maxsamples))
      /\ samplecount \in Nat /\ maxsamples \in Nat /\ epsilon \in Nat
      /\ values \in [Indices -> Int] /\ kbest \in Nat \ {0} /\ Ascending
  BY NumKeptIs DEF return, GoesOn, TypesInv, KeptInv
<1>2. CASE ~ (samplecount < maxsamples)
  BY <1>1, <1>2
<1>3. CASE has_converged
  <2>1. /\ samplecount >= kbest /\ NumKept = kbest
        /\ (100 + epsilon) * values[0] >= 100 * values[kbest - 1]
    BY <1>1, <1>3, NumKeptIs DEF has_converged
  <2>2. PICK first \in Int, last \in Int, x \in Int :
          /\ first = values[0] /\ last = values[kbest - 1] /\ x = epsilon * first
    BY <1>1 DEF Indices
  <2>3. 100 * first + x >= 100 * last
    <3>1. (100 + epsilon) * first = 100 * first + epsilon * first
      BY <1>1
    <3> QED
      BY <2>1, <2>2, <3>1
  <2>4. ASSUME NEW i \in Indices, NEW j \in Indices
        PROVE  100 * (values[i] - values[j]) <= x
    <3>1. \A l \in Indices : l \in Int /\ 0 <= l /\ l <= kbest - 1 /\ l \in 0 .. NumKept - 1
      BY <1>1, <2>1 DEF Indices
    <3>2. 0 \in 0 .. NumKept - 1 /\ kbest - 1 \in 0 .. NumKept - 1
      BY <1>1, <2>1
    <3>3. \A k, l \in 0 .. NumKept - 1 : k < l => values[k] <= values[l]
      BY <1>1 DEF Ascending
    <3>4. values[i] \in Int /\ values[j] \in Int
      BY <1>1
    <3>5. values[i] <= last
      <4>1. i = kbest - 1 \/ i < kbest - 1
        BY <1>1, <3>1
      <4> QED
        BY <2>2, <3>1, <3>2, <3>3, <3>4, <4>1
    <3>6. first <= values[j]
      <4>1. j = 0 \/ 0 < j
        BY <3>1
      <4> QED
        BY <2>2, <3>1, <3>2, <3>3, <3>4, <4>1
    <3> QED
      BY <2>3, <3>4, <3>5, <3>6
  <2> QED
    BY <2>1, <2>2, <2>4
<1> QED
  BY <1>1, <1>2, <1>3

\* Every call ends for one of the two reasons, and takes maxsamples measurements
\* at most, but one (fcyc.c:97-102, 139-159).
THEOREM CallsEndForAReason == Spec => StopsForAReason
<1> DEFINE Reason ==
      /\ pc = "loop" /\ pc' = "idle" =>
           \/ samplecount >= maxsamples
           \/ /\ samplecount >= kbest
              /\ \A i, j \in Indices :
                   100 * (values[i] - values[j]) <= epsilon * values[0]
      /\ samplecount' > samplecount => samplecount' <= maxsamples \/ samplecount' = 1
<1>1. ASSUME TypesInv, KeptInv, [Next]_vars
      PROVE  [Reason]_<<params, sampler>>
  <2>1. samplecount \in Nat /\ maxsamples \in Nat
    BY <1>1, NumKeptIs
  <2>2. CASE return
    <3>1. samplecount' = samplecount
      BY <2>2 DEF return
    <3> QED
      BY <1>1, <2>1, <2>2, <3>1, ReturnHasAReason
  <2>3. CASE measure
    <3>1. pc = "measure" /\ pc' = "loop" /\ samplecount' = samplecount + 1
      BY <2>3 DEF measure, add_sample
    <3>2. samplecount < maxsamples \/ samplecount = 0
      BY <1>1, <3>1 DEF KeptInv
    <3> QED
      BY <2>1, <3>1, <3>2
  <2>4. CASE UNCHANGED <<params, sampler>>
    BY <2>4
  <2>5. ASSUME samplecount' = samplecount \/ samplecount' = 0, pc # "loop" \/ pc' # "idle"
        PROVE  Reason
    BY <2>1, <2>5
  <2>6. set_parameter => pc = "idle" /\ samplecount' = samplecount
    BY DEF set_parameter, setter
  <2>7. fcyc => pc = "idle" /\ samplecount' = 0
    BY DEF fcyc
  <2>8. clear => pc = "top" /\ samplecount' = samplecount
    BY DEF clear
  <2>9. again => pc' = "top" /\ samplecount' = samplecount
    BY DEF again
  <2>10. start => pc = "start" /\ samplecount' = samplecount
    BY DEF start
  <2>11. callibrated => pc' = "measure" /\ samplecount' = samplecount
    BY DEF callibrated
  <2> HIDE DEF Reason
  <2>12. CASE set_parameter \/ fcyc \/ clear \/ again \/ start \/ callibrated
    <3>1. samplecount' = samplecount \/ samplecount' = 0
      BY <2>6, <2>7, <2>8, <2>9, <2>10, <2>11, <2>12
    <3>2. pc # "loop" \/ pc' # "idle"
      BY <2>6, <2>7, <2>8, <2>9, <2>10, <2>11, <2>12
    <3> QED
      BY <2>5, <3>1, <3>2
  <2> QED
    BY <1>1, <2>2, <2>3, <2>4, <2>12 DEF Next, Loop, Calibration, callibrate, vars
<1>2. [](TypesInv /\ KeptInv) /\ [][Next]_vars => [][Reason]_<<params, sampler>>
  BY <1>1, PTL
<1>3. (Spec => [][Reason]_<<params, sampler>>) => (Spec => StopsForAReason)
  BY DEF StopsForAReason
<1> QED
  BY <1>2, <1>3, TypesInvariant, KeptInvariant, PTL DEF Spec

=============================================================================

------------------------------- MODULE Ftimer -------------------------------
(***************************************************************************)
(* The timers of ftimer.c, as fsecs uses them: a measurement is what a     *)
(* clock advances by while a function runs Runs times. gettimeofday reads  *)
(* the system clock, which may be set while it is read; the interval timer *)
(* counts down from MAX_ETIME and ends the program when it reaches 0.      *)
(*                                                                         *)
(* A measurement is kept as the time of all runs together: dividing it by  *)
(* Runs changes nothing that is compared.                                  *)
(***************************************************************************)
EXTENDS Integers

CONSTANTS
  MAX_ETIME,   \* what the interval timer is set to, 86400 seconds
  Runs,        \* how often the function is run, 10
  Durations,   \* how long a run of a pass takes
  Adjustments, \* by how much the system clock is set meanwhile
  Packages     \* timing packages: "gettod" (USE_GETTOD), "itimer" (USE_ITIMER)

ASSUME FtimerAssumption ==
  /\ MAX_ETIME \in Nat \ {0}
  /\ Runs \in Nat \ {0}
  /\ Durations \subseteq Nat
  /\ Adjustments \subseteq Int
  /\ Packages \subseteq {"gettod", "itimer"}

VARIABLES
  package,     \* the one that was built
  remaining,   \* on the real-time interval timer; 0 when it is not armed
  tod,         \* the system clock, relative to where the measurement began
  start,       \* what the clock read at the beginning of the measurement
  since        \* real time since fsecs was last called with the interval timer

timer == <<package, remaining, tod, start, since>>

TimerInit ==
  /\ package \in Packages
  /\ remaining = 0 /\ tod = 0 /\ start = 0 /\ since = 0

\* An operator X_Y is X with a slip Y that the properties are to notice.
init_etime_Once == remaining' = IF remaining = 0 THEN MAX_ETIME ELSE remaining

init_etime == remaining' = MAX_ETIME

\* The difference to first_p, which was set to MAX_ETIME like the real timer.
get_etime(left) == MAX_ETIME - left

start_timing ==
  /\ \/ /\ package = "itimer"
        /\ init_etime
        /\ start' = get_etime(remaining')
        /\ since' = 0
     \/ /\ package = "gettod"
        /\ start' = tod
        /\ UNCHANGED <<remaining, since>>
  /\ UNCHANGED <<package, tod>>

tmeas == (IF package = "itimer" THEN get_etime(remaining) ELSE tod) - start

\* The readings are local to ftimer.c, but for the timer itself.
stop_timing == tod' = 0 /\ start' = 0 /\ UNCHANGED <<package, remaining, since>>

Armed == remaining > 0

run_down_PastZero(d) ==
  /\ remaining' = IF Armed THEN remaining - d ELSE 0
  /\ since' = IF Armed THEN since + d ELSE 0
  /\ UNCHANGED <<package, start>>

\* A timer that is armed keeps running, in passes that are not measured too.
run_down(d) ==
  /\ ~ Armed \/ d < remaining
  /\ remaining' = IF Armed THEN remaining - d ELSE 0
  /\ since' = IF Armed THEN since + d ELSE 0
  /\ UNCHANGED <<package, start>>

\* A measured run takes d while the system clock is set by s.
elapse(d, s) ==
  /\ run_down(d)
  /\ tod' = IF package = "gettod" THEN tod + d + s ELSE tod

idle(d) == run_down(d) /\ UNCHANGED tod

\* The countdown ends first: SIGALRM, which nothing handles.
expire(d) ==
  /\ Armed /\ d >= remaining
  /\ remaining' = 0
  /\ since' = since + d
  /\ UNCHANGED <<package, tod, start>>

=============================================================================

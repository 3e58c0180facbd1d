------------------------------- MODULE KBest -------------------------------
(***************************************************************************)
(* The K-best timing scheme of fcyc.c: fcyc runs a function again and      *)
(* again, keeps the kbest smallest measurements in order, and stops when   *)
(* they agree within epsilon or when it has taken maxsamples of them. It   *)
(* may clear the cache before each. The parameters are set between calls.  *)
(*                                                                         *)
(* Measurements are integers here: compensation for timer interrupts is a  *)
(* subtraction, so they may be zero or negative. epsilon is given in       *)
(* hundredths. Where a measurement comes from is the matter of Timing.     *)
(***************************************************************************)
EXTENDS Integers, Bags, FiniteSets

CONSTANTS
  Ks, Limits, Epsilons,  \* what kbest, maxsamples and epsilon are set to
  Bytes, Blocks          \* the same for cache_bytes and cache_block

\* fcyc does not check its parameters; it reads values[0] and values[kbest-1].
ASSUME KBestAssumption ==
  /\ Ks \subseteq Nat \ {0}
  /\ Limits \subseteq Nat
  /\ Epsilons \subseteq Nat
  /\ Bytes \subseteq Nat /\ Blocks \subseteq Nat

VARIABLES
  kbest, maxsamples, epsilon, compensate,
  clear_cache, cache_bytes, cache_block,
  cache_buf,   \* bytes allocated for the buffer, 0 when there is none
  values,      \* the array of kbest measurements, empty when it is freed
  samplecount,
  samples,     \* the bag of measurements of the last call, until a parameter
               \* is set (an array in the code when KEEP_SAMPLES is set)
  pc,          \* "idle"; "top" of the loop, "start" of a measurement,
               \* "callibrate", "measure", "loop" at its test;
               \* "exited"
  result       \* what the last call of fcyc returned

params == <<kbest, maxsamples, epsilon, compensate>>
cache == <<clear_cache, cache_bytes, cache_block, cache_buf>>
sampler == <<values, samplecount, samples, pc, result>>

Indices == 0 .. kbest - 1

-----------------------------------------------------------------------------
\* Where a new measurement enters the array: behind the others while there is
\* room, over the largest if it beats it, else not at all (-1).
Entry_LastPlusOne(val) ==
  IF samplecount < kbest THEN samplecount
  ELSE IF val > values[kbest - 1] THEN kbest - 1 ELSE -1

Entry(val) ==
  IF samplecount < kbest THEN samplecount
  ELSE IF val < values[kbest - 1] THEN kbest - 1 ELSE -1

\* The insertion sort of add_sample moves val down from pos past every greater
\* measurement, which moves up by one.
Place(val, pos) ==
  CHOOSE at \in 0 .. pos :
    /\ \A j \in at .. pos - 1 : values[j] > val
    /\ at = 0 \/ values[at - 1] <= val

Insert_AtEntry(val, pos) == [values EXCEPT ![pos] = val]

Insert_OnePast(val, pos) ==
  LET at == Place(val, pos)
  IN  [j \in Indices \union {pos + 1} |->
         IF j = at THEN val ELSE IF at < j THEN values[j - 1] ELSE values[j]]

Insert(val, pos) ==
  LET at == Place(val, pos)
  IN  [j \in Indices |-> IF j = at THEN val
                         ELSE IF at < j /\ j <= pos THEN values[j - 1]
                         ELSE values[j]]

has_converged_Early ==
  (100 + epsilon) * values[0] >= 100 * values[kbest - 1]

has_converged ==
  /\ samplecount >= kbest
  /\ (100 + epsilon) * values[0] >= 100 * values[kbest - 1]

-----------------------------------------------------------------------------

KInit ==
  /\ kbest \in Ks /\ maxsamples \in Limits /\ epsilon \in Epsilons
  /\ compensate \in BOOLEAN /\ clear_cache \in BOOLEAN
  /\ cache_bytes \in Bytes /\ cache_block \in Blocks
  /\ cache_buf = 0
  /\ values = << >>
  /\ samplecount = 0
  /\ samples = EmptyBag
  /\ pc = "idle"
  /\ result = 0

\* A setter is called, between two calls of fcyc.
setter ==
  /\ pc = "idle"
  /\ samples' = EmptyBag
  /\ UNCHANGED <<values, samplecount, pc, result>>

\* A buffer of another size is given back.
set_fcyc_cache_size(bytes) ==
  /\ cache_bytes' = bytes
  /\ cache_buf' = IF bytes # cache_bytes THEN 0 ELSE cache_buf

set_parameter ==
  /\ setter
  /\ \/ kbest' \in Ks /\ UNCHANGED <<maxsamples, epsilon, compensate, cache>>
     \/ maxsamples' \in Limits /\ UNCHANGED <<kbest, epsilon, compensate, cache>>
     \/ epsilon' \in Epsilons /\ UNCHANGED <<kbest, maxsamples, compensate, cache>>
     \/ compensate' \in BOOLEAN /\ UNCHANGED <<kbest, maxsamples, epsilon, cache>>
     \/ /\ clear_cache' \in BOOLEAN
        /\ UNCHANGED <<params, cache_bytes, cache_block, cache_buf>>
     \/ /\ cache_block' \in Blocks
        /\ UNCHANGED <<params, clear_cache, cache_bytes, cache_buf>>
     \/ /\ \E bytes \in Bytes : set_fcyc_cache_size(bytes)
        /\ UNCHANGED <<params, clear_cache, cache_block>>

\* fcyc is called: init_sampler, and into the loop.
fcyc ==
  /\ pc = "idle"
  /\ values' = [j \in Indices |-> 0]
  /\ samplecount' = 0
  /\ samples' = EmptyBag
  /\ pc' = "top"
  /\ UNCHANGED <<params, cache, result>>

\* clear reads the buffer in steps of cache_block / sizeof(int) words. With a
\* block smaller than a word the step is 0, and it does not get through.
Incr == cache_block \div 4

clear ==
  /\ pc = "top"
  /\ \/ /\ clear_cache /\ (Incr > 0 \/ cache_bytes < 4)
        /\ cache_buf' = IF cache_buf = 0 THEN cache_bytes ELSE cache_buf
        /\ pc' = "start"
     \/ /\ clear_cache /\ cache_buf = 0      \* malloc returned null
        /\ pc' = "exited"
        /\ UNCHANGED cache_buf
     \/ /\ ~ clear_cache
        /\ pc' = "start"
        /\ UNCHANGED cache_buf
  /\ UNCHANGED <<params, clear_cache, cache_bytes, cache_block>>
  /\ UNCHANGED <<values, samplecount, samples, result>>

\* The end of the body of the loop: add_sample of what was measured.
add_sample(val) ==
  /\ pc = "measure"
  /\ values' = IF Entry(val) = -1 THEN values ELSE Insert(val, Entry(val))
  /\ samples' = samples (+) SetToBag({val})
  /\ samplecount' = samplecount + 1
  /\ pc' = "loop"
  /\ UNCHANGED <<params, cache, result>>

GoesOn == ~ has_converged /\ samplecount < maxsamples

again ==
  /\ pc = "loop"
  /\ GoesOn
  /\ pc' = "top"
  /\ UNCHANGED <<params, cache, values, samplecount, samples, result>>

return ==
  /\ pc = "loop"
  /\ ~ GoesOn
  /\ result' = values[0]
  /\ values' = << >>
  /\ pc' = "idle"
  /\ UNCHANGED <<params, cache, samplecount, samples>>

-----------------------------------------------------------------------------

Kept == { j \in Indices : j < samplecount }

\* The array holds the kbest smallest measurements of this call in ascending
\* order, each as often as it was measured, and nothing left from an earlier
\* call, with other parameters perhaps, or from calloc (fcyc.c:52-91).
KeepsTheSmallest ==
  pc # "idle" =>
    /\ \A i, j \in Kept : i < j => values[i] <= values[j]
    /\ \A j \in Kept : BagIn(values[j], samples)
    /\ \A v \in BagToSet(samples) :
         LET seen == samples[v]
             held == Cardinality({ j \in Kept : values[j] = v })
         IN  /\ held <= seen
             /\ held < seen => samplecount > kbest /\ values[kbest - 1] <= v

\* fcyc returns the best measurement it took (fcyc.c:168, 245-256).
ReturnsTheBest ==
  pc = "idle" /\ samples # EmptyBag =>
    /\ BagIn(result, samples)
    /\ \A v \in BagToSet(samples) : result <= v

\* It gives up early only when the kbest smallest lie within epsilon of each
\* other, and never takes more than maxsamples, but one (fcyc.c:97-102, 139-159).
StopsForAReason ==
  [][ /\ pc = "loop" /\ pc' = "idle" =>
           \/ samplecount >= maxsamples
           \/ /\ samplecount >= kbest
              /\ \A i, j \in Indices :
                   100 * (values[i] - values[j]) <= epsilon * values[0]
      /\ samplecount' > samplecount => samplecount' <= maxsamples \/ samplecount' = 1
    ]_<<params, sampler>>

=============================================================================

------------------------------- MODULE Runner -------------------------------
(***************************************************************************)
(* The measurement loops of benchkit's Runner: bench (back-to-back) and    *)
(* bench_open_loop (ops on a fixed schedule).  Time is a count of ticks;   *)
(* each prepare and each op takes one of a few durations, an op starts     *)
(* some delay after the loop last looked at the schedule, as the clock is  *)
(* read in a spin and the thread may be preempted there, and the OS may    *)
(* add a noise event (a context switch, a page fault) to any of them.  Of  *)
(* the histogram only the measured ops' times are kept; the values it      *)
(* stores are hdrhistogram's affair.                                       *)
(*                                                                         *)
(* Operators that stand directly before the one they vary are faulty       *)
(* versions of it, kept to show that the properties notice the slip.       *)
(***************************************************************************)
EXTENDS Integers, Sequences

CONSTANTS Warmup, Measure,
          Intervals,     \* ticks between scheduled ops, 0 for a rate beyond the clock
          PrepareTimes, ServiceTimes,
          Delays,        \* ticks from the end of the wait to the start of the op
          OVERLOAD_PCT,
          MaxNoise       \* bound on noise events

ASSUME RunnerAssumption ==
  /\ Warmup \in Nat /\ Measure \in Nat \ {0} /\ Intervals \subseteq Nat
  /\ PrepareTimes \subseteq Nat /\ ServiceTimes \subseteq Nat /\ Delays \subseteq Nat
  /\ OVERLOAD_PCT \in 1 .. 100 /\ MaxNoise \in Nat

VARIABLES open_loop,       \* bench_open_loop was called, not bench
          interval,        \* and with this interval
          i,               \* iteration, counted through warmup and measure
          at,              \* "prepare", "begin", "op" or "done"
          now,             \* the clock
          noise,           \* the thread's rusage counter
          rusage_before,
          schedule_start,
          late_ops,
          t0,              \* when the current op began
          sample,          \* the result: [stats, overloaded]
          measured,        \* ghost: noise events of measured prepares and ops
          ops              \* ghost: [start, end] of every measured op

vars == <<open_loop, interval, i, at, now, noise, rusage_before, schedule_start, late_ops, t0, sample,
          measured, ops>>

Measuring == i >= Warmup

Init ==
  /\ open_loop \in BOOLEAN /\ interval \in Intervals
  /\ i = 0 /\ at = "prepare" /\ now = 0
  /\ noise \in 0 .. 1              \* the thread ran before
  /\ rusage_before = 0 /\ schedule_start = 0 /\ late_ops = 0 /\ t0 = 0
  /\ sample = << >> /\ measured = 0 /\ ops = << >>

\* rusage is read when the measure phase begins: bench reads it in the loop,
\* after the prepare of the first measured iteration, bench_open_loop before
\* that prepare, together with the start of the schedule.
ReadsAtStart(where) == i = 0 /\ where = "prepare"

ReadsRusage(where) == i = Warmup /\ where = (IF open_loop THEN "prepare" ELSE "begin")

Prepare ==
  /\ at = "prepare" /\ i < Warmup + Measure
  /\ rusage_before' = IF ReadsRusage("prepare") THEN noise ELSE rusage_before
  /\ schedule_start' = IF open_loop /\ i = Warmup THEN now ELSE schedule_start
  /\ \E d \in PrepareTimes, n \in 0 .. 1 :
       /\ noise + n <= MaxNoise
       /\ now' = now + d
       /\ noise' = noise + n
       /\ measured' = IF (open_loop /\ Measuring) \/ i > Warmup THEN measured + n ELSE measured
  /\ at' = "begin"
  /\ UNCHANGED <<open_loop, interval, i, late_ops, t0, sample, ops>>

\* An op's place in the schedule.
DriftingDeadline == IF ops = << >> THEN schedule_start ELSE ops[Len(ops)].end + interval

Deadline == schedule_start + (i - Warmup) * interval

\* The loop waits for the deadline, or goes on at once and counts the op as
\* late; then it reads t0.
Begin ==
  LET scheduled == open_loop /\ Measuring
      waited    == IF scheduled /\ now < Deadline THEN Deadline ELSE now
  IN  /\ at = "begin"
      /\ rusage_before' = IF ReadsRusage("begin") THEN noise ELSE rusage_before
      /\ late_ops' = IF scheduled /\ now >= Deadline THEN late_ops + 1 ELSE late_ops
      /\ \E d \in Delays, n \in 0 .. 1 :
           /\ noise + n <= MaxNoise
           /\ now' = waited + d
           /\ t0' = waited + d
           /\ noise' = noise + n
           /\ measured' = IF Measuring THEN measured + n ELSE measured
      /\ at' = "op"
      /\ UNCHANGED <<open_loop, interval, i, schedule_start, sample, ops>>

Op ==
  /\ at = "op"
  /\ \E d \in ServiceTimes, n \in 0 .. 1 :
       /\ noise + n <= MaxNoise
       /\ now' = now + d
       /\ noise' = noise + n
       /\ measured' = IF Measuring THEN measured + n ELSE measured
       /\ ops' = IF Measuring THEN Append(ops, [start |-> t0, end |-> t0 + d]) ELSE ops
  /\ i' = i + 1
  /\ at' = "prepare"
  /\ UNCHANGED <<open_loop, interval, rusage_before, schedule_start, late_ops, t0, sample>>

\* A meaningful fraction of the ops missed their deadline.
OverloadedPctMisplaced == open_loop /\ late_ops * OVERLOAD_PCT >= Measure * 100

Overloaded == open_loop /\ late_ops * 100 >= Measure * OVERLOAD_PCT

\* Counters only grow; one that went back would count as no change.
delta_from(after, before) == IF after > before THEN after - before ELSE 0

Finish ==
  /\ at = "prepare" /\ i = Warmup + Measure
  /\ sample' = <<[stats |-> delta_from(noise, rusage_before), overloaded |-> Overloaded]>>
  /\ at' = "done"
  /\ UNCHANGED <<open_loop, interval, i, now, noise, rusage_before, schedule_start, late_ops, t0, measured,
                 ops>>

Next == Prepare \/ Begin \/ Op \/ Finish

Spec == Init /\ [][Next]_vars
-----------------------------------------------------------------------------
Done    == at = "done"
Service(k) == ops[k].end - ops[k].start

\* The noise counters of a sample come from its measure phase alone: warmup,
\* and whatever the thread did before, is never attributed to it.
NoiseIsFromTheMeasurePhase == Done => sample[1].stats = measured

\* The earliest moment op k could be looked at: the schedule's start, or the
\* end of the op before it.
Free(k) == IF k = 1 THEN schedule_start ELSE ops[k - 1].end

\* The place of op k in the schedule.
Place(k) == schedule_start + (k - 1) * interval

\* t is the place given, or when one prepare after `free` has ended if that is
\* later, and one delay after it.
StartsAt(t, place, free) ==
  \E p \in PrepareTimes, d \in Delays : t = (IF free + p < place THEN place ELSE free + p) + d

\* "A slow op does not delay the next op's clock": however long earlier ops,
\* prepares and delays took, op k starts at its place in the schedule, or as
\* soon as the loop gets to it when that place has passed, but for one delay
\* of its own.  Delays never add up.
ScheduleDoesNotDrift == open_loop => \A k \in DOMAIN ops : StartsAt(ops[k].start, Place(k), Free(k))

\* Every op that had one behind it ended early enough for any prepare to end
\* before that one's place.
KeptUp == \A k \in DOMAIN ops : k < Measure => \A p \in PrepareTimes : ops[k].end + p < Place(k + 1)

\* The flag tells a saturated run from one that keeps up.  A run whose every op
\* takes longer than the interval says so; one that keeps up with its schedule
\* does not, unless it is so short that its first op, which is always counted
\* late, is OVERLOAD_PCT percent of it.
OverloadIsTold ==
  Done /\ open_loop =>
    /\ (\A k \in DOMAIN ops : Service(k) > interval) => sample[1].overloaded
    /\ KeptUp => (sample[1].overloaded <=> Measure * OVERLOAD_PCT <= 100)
=============================================================================

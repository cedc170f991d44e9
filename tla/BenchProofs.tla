---------------------------- MODULE BenchProofs -----------------------------
(***************************************************************************)
(* Proofs about the two ways dex-core measures.  Of Runner, its three      *)
(* properties, for every number of iterations, interval and set of         *)
(* durations and delays.  Of CrossCore, that every message is counted, for every      *)
(* number of samples and every capacity: the count is inductive once the   *)
(* reader is known to be live under SkipToLatest and both counters to be   *)
(* integers.                                                               *)
(***************************************************************************)
EXTENDS Runner, CrossCore, TLAPS


\* What the noise counters can be, wherever the loop is.
NoiseTypes ==
  /\ open_loop \in BOOLEAN /\ i \in Nat
  /\ at \in {"prepare", "begin", "op", "done"}
  /\ noise \in Nat /\ rusage_before \in Nat /\ measured \in Nat
  /\ at # "prepare" /\ at # "done" => i < Warmup + Measure
  /\ i <= Warmup + Measure
  /\ at = "done" => i = Warmup + Measure

\* The reading that brackets the measure phase has been taken.
ReadingTaken ==
  \/ i > Warmup
  \/ i = Warmup /\ (IF open_loop THEN at # "prepare" ELSE at = "op")

\* Until the reading nothing is counted; from it on the counter has moved by
\* what was counted.
NoiseInv ==
  /\ NoiseTypes
  /\ IF ReadingTaken THEN noise = rusage_before + measured ELSE measured = 0
  /\ at = "done" => sample = <<[stats |-> noise - rusage_before, overloaded |-> Overloaded]>>

\* The noise counters of a sample come from its measure phase alone: what bench
\* and bench_open_loop subtract is the reading taken when that phase begins.
THEOREM NoiseIsMeasured == Spec => []NoiseIsFromTheMeasurePhase
<1> USE RunnerAssumption
<1>1. Init => NoiseInv
  BY DEF Init, NoiseInv, NoiseTypes, ReadingTaken
<1>2. NoiseInv /\ [Next]_vars => NoiseInv'
  <2> SUFFICES ASSUME NoiseInv, [Next]_vars PROVE NoiseInv'
    OBVIOUS
  <2>1. CASE Prepare
    BY <2>1 DEF Prepare, NoiseInv, NoiseTypes, ReadingTaken, ReadsRusage, Measuring
  <2>2. CASE Begin
    BY <2>2 DEF Begin, NoiseInv, NoiseTypes, ReadingTaken, ReadsRusage, Measuring
  <2>3. CASE Op
    BY <2>3 DEF Op, NoiseInv, NoiseTypes, ReadingTaken, Measuring
  <2>4. CASE Finish
    <3>1. ReadingTaken /\ ReadingTaken'
      BY <2>4 DEF Finish, NoiseInv, NoiseTypes, ReadingTaken
    <3>2. delta_from(noise, rusage_before) = noise - rusage_before
      BY <3>1 DEF NoiseInv, NoiseTypes, delta_from
    <3>3. sample' = <<[stats |-> noise - rusage_before, overloaded |-> Overloaded]>> /\ Overloaded' = Overloaded
      BY <2>4, <3>2 DEF Finish, Overloaded
    <3>. QED
      BY <2>4, <3>1, <3>3 DEF Finish, NoiseInv, NoiseTypes
  <2>5. CASE UNCHANGED vars
    BY <2>5 DEF vars, NoiseInv, NoiseTypes, ReadingTaken, Overloaded
  <2>. QED
    BY <2>1, <2>2, <2>3, <2>4, <2>5 DEF Next
<1>3. NoiseInv => NoiseIsFromTheMeasurePhase
  BY DEF NoiseInv, NoiseTypes, ReadingTaken, NoiseIsFromTheMeasurePhase, Done
<1>. QED
  BY <1>1, <1>2, <1>3, PTL DEF Spec
-----------------------------------------------------------------------------
\* One more interval.
LEMMA NextSlot ==
  ASSUME NEW a \in Int, NEW b \in Int
  PROVE  a * b \in Int /\ (a + 1) * b = a * b + b
  OBVIOUS

ScheduleTypes ==
  /\ open_loop \in BOOLEAN /\ interval \in Nat /\ i \in Nat
  /\ at \in {"prepare", "begin", "op", "done"}
  /\ now \in Nat /\ t0 \in Nat /\ schedule_start \in Nat /\ late_ops \in Nat
  /\ ops \in Seq([start : Nat, end : Nat])
  /\ Len(ops) = IF i > Warmup THEN i - Warmup ELSE 0
  /\ i <= Warmup + Measure /\ (at \in {"begin", "op"} => i < Warmup + Measure)
  /\ at = "op" => now = t0
  /\ at = "done" => i = Warmup + Measure

FreeNow == IF ops = << >> THEN schedule_start ELSE ops[Len(ops)].end

\* Where the loop stands between two ops: right after the last op, one
\* prepare later, or at the start of the next op, where the schedule puts it.
BetweenOps ==
  open_loop /\ i >= Warmup =>
    /\ at = "prepare" /\ i > Warmup => now = FreeNow
    /\ at = "begin" => \E p \in PrepareTimes : now = FreeNow + p
    /\ at = "op" => StartsAt(t0, Deadline, FreeNow)

ScheduleInv == ScheduleTypes /\ BetweenOps /\ ScheduleDoesNotDrift

\* An op appended to the record leaves the earlier ones where they are.
LEMMA Appended ==
  ASSUME NEW S, NEW s \in Seq(S), NEW e \in S
  PROVE  /\ Append(s, e) \in Seq(S) /\ Len(Append(s, e)) = Len(s) + 1
         /\ \A k \in 1 .. Len(s) : Append(s, e)[k] = s[k]
         /\ Append(s, e)[Len(s) + 1] = e
         /\ Len(s) \in Nat /\ DOMAIN s = 1 .. Len(s) /\ DOMAIN Append(s, e) = 1 .. Len(s) + 1
  OBVIOUS

\* The last op of a record is one of the record's.
LEMMA LastIn ==
  ASSUME NEW S, NEW s \in Seq(S), s # << >>
  PROVE  s[Len(s)] \in S
<1>1. Len(s) \in 1 .. Len(s)
  OBVIOUS
<1> QED
  BY <1>1

\* Every step keeps the schedule: a deadline moves only by whole intervals.
LEMMA ScheduleInductive == ScheduleInv /\ [Next]_vars => ScheduleInv'
<1> USE RunnerAssumption
<1> SUFFICES ASSUME ScheduleInv, [Next]_vars PROVE ScheduleInv'
  OBVIOUS
<1>0. /\ i \in Nat /\ interval \in Nat /\ schedule_start \in Nat /\ now \in Nat /\ t0 \in Nat
      /\ ops \in Seq([start : Nat, end : Nat]) /\ Len(ops) = IF i > Warmup THEN i - Warmup ELSE 0
  BY DEF ScheduleInv, ScheduleTypes
<1>a. ASSUME UNCHANGED <<open_loop, interval, schedule_start, ops>> PROVE ScheduleDoesNotDrift' /\ FreeNow' = FreeNow
  <2>1. \A k \in DOMAIN ops : Place(k)' = Place(k) /\ Free(k)' = Free(k)
    BY <1>a, Zenon DEF Place, Free
  <2>2. ScheduleDoesNotDrift'
    BY <1>a, <2>1, Zenon DEF ScheduleInv, ScheduleDoesNotDrift
  <2> QED
    BY <1>a, <2>2, Zenon DEF FreeNow
<1>1. CASE Prepare
  <2>1. ScheduleTypes'
    BY <1>1 DEF Prepare, ScheduleInv, ScheduleTypes
  <2>2. /\ UNCHANGED <<open_loop, interval, i, ops>> /\ at = "prepare" /\ at' = "begin"
        /\ schedule_start' = IF open_loop /\ i = Warmup THEN now ELSE schedule_start
    BY <1>1, Zenon DEF Prepare
  <2>3. PICK d \in PrepareTimes : now' = now + d
    BY <1>1, Zenon DEF Prepare
  <2>4. CASE i <= Warmup
    <3>1. ops = << >> /\ ops' = << >>
      BY <1>0, <2>2, <2>4
    <3>2. i = Warmup /\ open_loop => now' = FreeNow' + d
      BY <2>2, <2>3, <3>1 DEF FreeNow
    <3>3. BetweenOps'
      BY <1>0, <2>2, <2>3, <2>4, <3>2 DEF BetweenOps
    <3> QED
      BY <2>1, <3>1, <3>3 DEF ScheduleInv, ScheduleDoesNotDrift
  <2>5. CASE i > Warmup
    <3>1. UNCHANGED <<open_loop, interval, schedule_start, ops>> /\ i' = i
      BY <1>0, <2>2, <2>5
    <3>2. ScheduleDoesNotDrift' /\ FreeNow' = FreeNow
      BY <1>a, <3>1, Zenon
    <3>3. open_loop => now = FreeNow
      BY <1>0, <2>2, <2>5 DEF ScheduleInv, BetweenOps
    <3>4. BetweenOps'
      <4>1. open_loop' => now' = FreeNow' + d
        BY <2>2, <2>3, <3>2, <3>3
      <4> QED
        BY <2>2, <4>1 DEF BetweenOps
    <3> QED
      BY <2>1, <3>2, <3>4, Zenon DEF ScheduleInv
  <2> QED
    BY <1>0, <2>4, <2>5
<1>2. CASE Begin
  <2>1. UNCHANGED <<open_loop, interval, schedule_start, ops, i>> /\ at = "begin" /\ at' = "op"
    BY <1>2, Zenon DEF Begin
  <2>2. Deadline \in Int /\ Deadline' = Deadline
    <3>1. (i - Warmup) * interval \in Int
      BY <1>0, NextSlot
    <3> QED
      BY <1>0, <2>1, <3>1 DEF Deadline
  <2>3. PICK d \in Delays :
          /\ t0' = (IF open_loop /\ i >= Warmup /\ now < Deadline THEN Deadline ELSE now) + d
          /\ now' = t0'
    BY <1>2 DEF Begin, Measuring
  <2>4. late_ops' \in Nat
    BY <1>2 DEF Begin, ScheduleInv, ScheduleTypes
  <2>5. t0' \in Nat
    BY <1>0, <2>2, <2>3
  <2>6. ScheduleTypes'
    BY <2>1, <2>3, <2>4, <2>5 DEF ScheduleInv, ScheduleTypes
  <2>7. ScheduleDoesNotDrift' /\ FreeNow' = FreeNow
    BY <1>a, <2>1, Zenon
  <2>8. BetweenOps'
    <3> SUFFICES ASSUME open_loop, i >= Warmup PROVE StartsAt(t0', Deadline, FreeNow)
      BY <2>1, <2>2, <2>7, Zenon DEF BetweenOps, StartsAt
    <3>1. PICK p \in PrepareTimes : now = FreeNow + p
      BY <2>1, Zenon DEF ScheduleInv, BetweenOps
    <3>2. t0' = (IF FreeNow + p < Deadline THEN Deadline ELSE FreeNow + p) + d
      BY <2>3, <3>1, Zenon
    <3> QED
      BY <3>2, Zenon DEF StartsAt
  <2> QED
    BY <2>6, <2>7, <2>8, Zenon DEF ScheduleInv
<1>3. CASE Op
  <2>1. PICK d \in ServiceTimes :
          /\ now' = now + d
          /\ ops' = IF Measuring THEN Append(ops, [start |-> t0, end |-> t0 + d]) ELSE ops
    BY <1>3, Zenon DEF Op
  <2>2. /\ UNCHANGED <<open_loop, interval, schedule_start, late_ops, t0>>
        /\ at = "op" /\ at' = "prepare" /\ i' = i + 1
    BY <1>3, Zenon DEF Op
  <2>3. d \in Nat /\ now = t0 /\ i < Warmup + Measure
    BY <2>2 DEF ScheduleInv, ScheduleTypes
  <2>4. CASE i < Warmup
    <3>1. ops' = ops /\ ops = << >>
      BY <1>0, <2>1, <2>4 DEF Measuring
    <3> QED
      BY <2>1, <2>2, <2>3, <2>4, <3>1 DEF ScheduleInv, ScheduleTypes, BetweenOps, ScheduleDoesNotDrift
  <2>5. CASE i >= Warmup
    <3> DEFINE e == [start |-> t0, end |-> t0 + d]
    <3>1. e \in [start : Nat, end : Nat] /\ e.start = t0 /\ e.end = t0 + d
      BY <1>0, <2>3
    <3>2. ops' = Append(ops, e) /\ Len(ops) = i - Warmup
      BY <1>0, <2>1, <2>5 DEF Measuring
    <3> HIDE DEF e
    <3>3. /\ ops' \in Seq([start : Nat, end : Nat]) /\ Len(ops') = i - Warmup + 1
          /\ \A k \in 1 .. i - Warmup : ops'[k] = ops[k]
          /\ ops'[i - Warmup + 1] = e
      <4>0. ops \in Seq([start : Nat, end : Nat])
        BY <1>0
      <4>1. /\ ops' \in Seq([start : Nat, end : Nat]) /\ Len(ops') = Len(ops) + 1
            /\ \A k \in 1 .. Len(ops) : ops'[k] = ops[k]
            /\ ops'[Len(ops) + 1] = e
        BY <3>1, <3>2, <4>0, Appended, SMTT(60)
      <4> QED
        BY <3>2, <4>1, Zenon
    <3>4. DOMAIN ops = 1 .. i - Warmup /\ DOMAIN ops' = 1 .. i - Warmup + 1
      BY <1>0, <3>2, <3>3
    <3>5. ScheduleTypes'
      BY <2>1, <2>2, <2>3, <2>5, <3>3 DEF ScheduleInv, ScheduleTypes
    <3>6. BetweenOps'
      <4>1. now' = ops'[Len(ops')].end /\ ops' # << >>
        <5>1. Len(ops') = i - Warmup + 1 /\ ops'[Len(ops')] = e
          BY <3>3, Zenon
        <5>2. ops' # << >>
          BY <1>0, <2>5, <5>1
        <5> QED
          BY <2>1, <2>3, <3>1, <5>1, <5>2, Zenon
      <4> QED
        BY <2>2, <4>1, Zenon DEF BetweenOps, FreeNow
    <3>7. ASSUME open_loop, NEW k \in 1 .. i - Warmup + 1
          PROVE  StartsAt(ops'[k].start, Place(k)', Free(k)')
      <4>0. Place(k)' = Place(k) /\ k \in Int
        BY <2>2 DEF Place
      <4>1. CASE k <= i - Warmup
        <5>1. k \in 1 .. i - Warmup /\ (k # 1 => k - 1 \in 1 .. i - Warmup)
          BY <1>0, <4>0, <4>1
        <5>2. ops'[k] = ops[k] /\ Free(k)' = Free(k)
          BY <2>2, <3>3, <5>1, Zenon DEF Free
        <5>3. StartsAt(ops[k].start, Place(k), Free(k))
          BY <3>4, <3>7, <5>1, Zenon DEF ScheduleInv, ScheduleDoesNotDrift
        <5> QED
          BY <4>0, <5>2, <5>3, Zenon
      <4>2. CASE k = i - Warmup + 1
        <5>1. ops'[k].start = t0
          BY <3>1, <3>3, <4>2, Zenon
        <5>2. Place(k) = Deadline
          BY <1>0, <4>2 DEF Place, Deadline
        <5>3. k = 1 => ops = << >> /\ Free(k)' = FreeNow
          BY <1>0, <2>2, <3>2, <4>2 DEF Free, FreeNow
        <5>4. k # 1 => Free(k)' = FreeNow
          <6>1. k # 1 => k - 1 = Len(ops) /\ k - 1 \in 1 .. i - Warmup /\ ops # << >>
            BY <1>0, <3>2, <4>0, <4>2
          <6>2. k # 1 => ops'[k - 1] = ops[Len(ops)]
            BY <3>3, <6>1, Zenon
          <6> QED
            BY <6>1, <6>2, Zenon DEF Free, FreeNow
        <5>5. StartsAt(t0, Deadline, FreeNow)
          BY <2>2, <2>5, <3>7, Zenon DEF ScheduleInv, BetweenOps
        <5> QED
          BY <4>0, <5>1, <5>2, <5>3, <5>4, <5>5, Zenon
      <4>3. k <= i - Warmup \/ k = i - Warmup + 1
        BY <1>0
      <4> QED
        BY <4>1, <4>2, <4>3, Zenon
    <3>8. ScheduleDoesNotDrift'
      BY <2>2, <3>4, <3>7, Zenon DEF ScheduleDoesNotDrift, StartsAt
    <3> QED
      BY <3>5, <3>6, <3>8, Zenon DEF ScheduleInv
  <2> QED
    BY <1>0, <2>4, <2>5
<1>4. CASE Finish
  <2>1. /\ UNCHANGED <<open_loop, interval, schedule_start, ops, i, now, late_ops, t0>>
        /\ at' = "done" /\ i = Warmup + Measure
    BY <1>4, Zenon DEF Finish
  <2>2. ScheduleDoesNotDrift'
    BY <1>a, <2>1, Zenon
  <2>3. ScheduleTypes' /\ BetweenOps'
    BY <2>1 DEF ScheduleInv, ScheduleTypes, BetweenOps
  <2> QED
    BY <2>2, <2>3, Zenon DEF ScheduleInv
<1>5. CASE UNCHANGED vars
  <2>1. ScheduleDoesNotDrift' /\ FreeNow' = FreeNow
    BY <1>5, <1>a, Zenon DEF vars
  <2>2. ScheduleTypes' /\ BetweenOps'
    BY <1>5, <2>1, ZenonT(60) DEF vars, ScheduleInv, ScheduleTypes, BetweenOps, Deadline, StartsAt
  <2> QED
    BY <2>1, <2>2, Zenon DEF ScheduleInv
<1> QED
  BY <1>1, <1>2, <1>3, <1>4, <1>5, Zenon DEF Next

\* "A slow op does not delay the next op's clock": op k of bench_open_loop
\* starts at its place in the schedule, or as soon as the loop gets to it, but
\* for one delay of its own, whatever the ops before it took.
THEOREM ScheduleIsKept == Spec => []ScheduleDoesNotDrift
<1>1. Init => ScheduleInv
  BY RunnerAssumption DEF Init, ScheduleInv, ScheduleTypes, BetweenOps, ScheduleDoesNotDrift
<1>2. ScheduleInv => ScheduleDoesNotDrift
  BY DEF ScheduleInv
<1>. QED
  BY <1>1, <1>2, ScheduleInductive, PTL DEF Spec
-----------------------------------------------------------------------------
AllSlow == \A k \in DOMAIN ops : Service(k) > interval

\* As long as every op has overrun its slot, every op was late, and the loop
\* stands behind the next deadline.
LateInv ==
  open_loop =>
    /\ i < Warmup => late_ops = 0
    /\ AllSlow /\ i >= Warmup =>
         /\ late_ops = Len(ops) + (IF at = "op" THEN 1 ELSE 0)
         /\ at = "begin" => now >= Deadline
         /\ i > Warmup => ops[Len(ops)].end > Deadline
    /\ at = "done" => sample = <<[stats |-> delta_from(noise, rusage_before), overloaded |-> Overloaded]>>

\* Every step keeps the lateness bound that makes a saturated run show.
LEMMA LateInductive == ScheduleInv /\ ScheduleInv' /\ LateInv /\ [Next]_vars => LateInv'
<1> USE RunnerAssumption
<1> SUFFICES ASSUME ScheduleInv, ScheduleInv', LateInv, [Next]_vars, open_loop' PROVE LateInv'
  BY DEF LateInv
<1>0. i \in Nat /\ interval \in Nat /\ schedule_start \in Nat /\ now \in Nat /\ t0 \in Nat /\ late_ops \in Nat
  BY DEF ScheduleInv, ScheduleTypes
<1>a. \A n \in Nat : (n - Warmup) * interval \in Int
  BY <1>0, NextSlot
<1>b. Deadline \in Int /\ Deadline = schedule_start + (i - Warmup) * interval
  BY <1>0, <1>a DEF Deadline
<1>1. CASE Prepare
  <2>1. /\ UNCHANGED <<open_loop, interval, i, ops, late_ops>> /\ at = "prepare" /\ at' = "begin"
        /\ \E d \in PrepareTimes : now' = now + d
        /\ schedule_start' = IF i = Warmup THEN now ELSE schedule_start
    BY <1>1, Zenon DEF Prepare
  <2>2. AllSlow' = AllSlow
    BY <2>1, SMTT(60) DEF AllSlow, Service
  <2>3. CASE i = Warmup
    <3>1. Deadline' = now /\ now' >= now
      BY <1>0, <2>1, <2>3 DEF Deadline
    <3>. QED
      BY <2>1, <2>2, <2>3, <3>1 DEF LateInv
  <2>4. CASE i > Warmup
    <3>1. Deadline' = Deadline
      BY <2>1, <2>4 DEF Deadline
    <3>2. now = ops[Len(ops)].end /\ now' >= now
      BY <1>0, <2>1, <2>4 DEF ScheduleInv, ScheduleTypes, BetweenOps, FreeNow
    <3>3. AllSlow => now' >= Deadline
      <4>1. i >= Warmup
        BY <1>0, <2>4
      <4>2. AllSlow => now > Deadline
        BY <2>1, <2>4, <3>2, <4>1, Zenon DEF LateInv
      <4>3. now' \in Nat
        BY DEF ScheduleInv, ScheduleTypes
      <4>. QED
        BY <1>0, <1>b, <3>2, <4>2, <4>3
    <3>. QED
      BY <1>0, <2>1, <2>2, <2>4, <3>1, <3>3 DEF LateInv
  <2>5. CASE i < Warmup
    BY <1>0, <2>1, <2>5 DEF LateInv
  <2>. QED
    BY <1>0, <2>3, <2>4, <2>5
<1>2. CASE Begin
  <2>1. UNCHANGED <<open_loop, interval, i, ops, schedule_start>> /\ at = "begin" /\ at' = "op"
    BY <1>2, Zenon DEF Begin
  <2>2. AllSlow' = AllSlow /\ Deadline' = Deadline
    BY <2>1 DEF AllSlow, Service, Deadline
  <2>3. late_ops' = IF i >= Warmup /\ now >= Deadline THEN late_ops + 1 ELSE late_ops
    BY <1>2, <2>1 DEF Begin, Measuring
  <2>4. Len(ops) \in Nat
    BY DEF ScheduleInv, ScheduleTypes
  <2>. QED
    BY <1>0, <2>1, <2>2, <2>3, <2>4 DEF LateInv
<1>3. CASE Op
  <2>1. PICK d \in ServiceTimes :
          ops' = IF i < Warmup THEN ops
                 ELSE Append(ops, [start |-> t0, end |-> t0 + d])
    BY <1>0, <1>3 DEF Op, Measuring
  <2>2. /\ UNCHANGED <<open_loop, interval, schedule_start, late_ops, t0>>
        /\ at = "op" /\ at' = "prepare" /\ i' = i + 1
    BY <1>3, Zenon DEF Op
  <2>3. CASE i < Warmup
    <3>1. ops' = << >> /\ ops = << >>
      BY <1>0, <2>1, <2>3 DEF ScheduleInv, ScheduleTypes
    <3>2. late_ops' = 0 /\ Len(ops') = 0 /\ ~(i' > Warmup)
      BY <1>0, <2>2, <2>3, <3>1 DEF LateInv
    <3>. QED
      BY <2>2, <3>2 DEF LateInv
  <2>4. CASE i >= Warmup
    <3> DEFINE e == [start |-> t0, end |-> t0 + d]
    <3>1. e \in [start : Nat, end : Nat] /\ e.start = t0 /\ e.end = t0 + d
      BY <1>0, <1>b
    <3>2. ops' = Append(ops, e)
      BY <1>0, <2>1, <2>4
    <3> HIDE DEF e
    <3>3. ops \in Seq([start : Nat, end : Nat]) /\ Len(ops) \in Nat
      BY DEF ScheduleInv, ScheduleTypes
    <3>4. /\ Len(ops') = Len(ops) + 1 /\ ops'[Len(ops')] = e
          /\ \A k \in 1 .. Len(ops) : ops'[k] = ops[k]
          /\ DOMAIN ops' = 1 .. Len(ops) + 1 /\ DOMAIN ops = 1 .. Len(ops)
      BY <3>1, <3>2, <3>3, Appended
    <3>5. AllSlow' => AllSlow /\ d > interval
      <4>1. AllSlow' => AllSlow
        BY <2>2, <3>3, <3>4, SMTT(60) DEF AllSlow, Service
      <4>2. AllSlow' => e.end - e.start > interval
        BY <2>2, <3>3, <3>4, SMTT(60) DEF AllSlow, Service
      <4>. QED
        BY <1>0, <3>1, <4>1, <4>2
    <3>6. Deadline' = Deadline + interval
      <4>1. (i + 1 - Warmup) * interval = (i - Warmup) * interval + interval
        <5>1. i - Warmup \in Int /\ i + 1 - Warmup = (i - Warmup) + 1
          BY <1>0
        <5>. QED
          BY <1>0, <5>1, NextSlot
      <4>. QED
        BY <1>0, <1>a, <1>b, <2>2, <4>1 DEF Deadline
    <3>7. t0 >= Deadline
      <4>1. StartsAt(t0, Deadline, FreeNow)
        BY <2>2, <2>4 DEF ScheduleInv, BetweenOps
      <4>2. FreeNow \in Nat
        <5>1. ops # << >> => ops[Len(ops)] \in [start : Nat, end : Nat]
          BY <3>3, LastIn, Zenon
        <5> QED
          BY <1>0, <5>1 DEF FreeNow
      <4> QED
        BY <1>b, <4>1, <4>2 DEF StartsAt
    <3>8. AllSlow' => ops'[Len(ops')].end > Deadline'
      BY <1>0, <1>b, <3>1, <3>4, <3>5, <3>6, <3>7
    <3>9. AllSlow' => late_ops' = Len(ops')
      BY <1>0, <2>2, <2>4, <3>3, <3>4, <3>5 DEF LateInv
    <3>. QED
      BY <1>0, <2>2, <2>4, <3>3, <3>4, <3>8, <3>9 DEF LateInv
  <2>. QED
    BY <1>0, <2>3, <2>4
<1>4. CASE Finish
  <2>1. /\ UNCHANGED <<open_loop, interval, i, now, ops, schedule_start, late_ops, noise, rusage_before>>
        /\ at = "prepare" /\ at' = "done"
        /\ sample' = <<[stats |-> delta_from(noise, rusage_before), overloaded |-> Overloaded]>>
    BY <1>4, ZenonT(60) DEF Finish
  <2>2. AllSlow' = AllSlow /\ Deadline' = Deadline /\ Overloaded' = Overloaded
    BY <2>1, Zenon DEF AllSlow, Service, Deadline, Overloaded
  <2>. QED
    BY <2>1, <2>2 DEF LateInv, delta_from
<1>5. CASE UNCHANGED vars
  BY <1>5 DEF vars, LateInv, AllSlow, Service, Deadline, Overloaded, delta_from
<1>. QED
  BY <1>1, <1>2, <1>3, <1>4, <1>5 DEF Next

\* As long as every op has left room for the next prepare, only the first op
\* was late: the schedule starts before its prepare, and is due at once.
KeptInv ==
  open_loop =>
    /\ i < Warmup => late_ops = 0
    /\ KeptUp /\ i >= Warmup => late_ops = IF i > Warmup \/ at = "op" THEN 1 ELSE 0

\* Every step of a run that keeps up leaves its first op the only late one.
LEMMA KeptInductive == ScheduleInv /\ KeptInv /\ [Next]_vars => KeptInv'
<1> USE RunnerAssumption
<1> SUFFICES ASSUME ScheduleInv, KeptInv, [Next]_vars, open_loop' PROVE KeptInv'
  BY Zenon DEF KeptInv
<1>0. /\ i \in Nat /\ interval \in Nat /\ schedule_start \in Nat /\ now \in Nat /\ t0 \in Nat /\ late_ops \in Nat
      /\ ops \in Seq([start : Nat, end : Nat]) /\ Len(ops) = IF i > Warmup THEN i - Warmup ELSE 0
      /\ at \in {"begin", "op"} => i < Warmup + Measure
  BY DEF ScheduleInv, ScheduleTypes
<1>a. ASSUME UNCHANGED <<interval, schedule_start, ops>> PROVE KeptUp' <=> KeptUp
  BY <1>a, Zenon DEF KeptUp, Place
<1>1. CASE Prepare
  <2>1. /\ UNCHANGED <<open_loop, interval, i, ops, late_ops>> /\ at = "prepare" /\ at' = "begin"
        /\ schedule_start' = IF i = Warmup THEN now ELSE schedule_start
    BY <1>1, Zenon DEF Prepare
  <2>2. CASE i > Warmup
    <3>1. schedule_start' = schedule_start
      BY <1>0, <2>1, <2>2
    <3>2. KeptUp' <=> KeptUp
      BY <1>a, <2>1, <3>1, Zenon
    <3> QED
      BY <1>0, <2>1, <2>2, <3>2 DEF KeptInv
  <2>3. CASE i <= Warmup
    <3>1. KeptUp
      BY <1>0, <2>3 DEF KeptUp
    <3> QED
      BY <1>0, <2>1, <2>3, <3>1 DEF KeptInv
  <2> QED
    BY <1>0, <2>2, <2>3
<1>2. CASE Begin
  <2>1. UNCHANGED <<open_loop, interval, i, ops, schedule_start>> /\ at = "begin" /\ at' = "op"
    BY <1>2, Zenon DEF Begin
  <2>2. KeptUp' <=> KeptUp
    BY <1>a, <2>1, Zenon
  <2>3. late_ops' = IF i >= Warmup /\ now >= Deadline THEN late_ops + 1 ELSE late_ops
    BY <1>2, <2>1 DEF Begin, Measuring
  <2>4. CASE i < Warmup
    BY <1>0, <2>1, <2>3, <2>4 DEF KeptInv
  <2>5. CASE i >= Warmup
    <3>1. PICK p \in PrepareTimes : now = FreeNow + p
      BY <2>1, <2>5, Zenon DEF ScheduleInv, BetweenOps
    <3>2. CASE i = Warmup
      <4>1. now >= Deadline
        BY <1>0, <3>1, <3>2 DEF Deadline, FreeNow
      <4> QED
        BY <1>0, <2>1, <2>2, <2>3, <3>2, <4>1 DEF KeptInv
    <3>3. CASE i > Warmup
      <4>1. Len(ops) = i - Warmup /\ Len(ops) \in DOMAIN ops /\ Len(ops) < Measure /\ ops # << >>
        BY <1>0, <2>1, <3>3
      <4>2. Place(Len(ops) + 1) = Deadline
        BY <1>0, <4>1 DEF Place, Deadline
      <4>3. KeptUp => now < Deadline
        BY <3>1, <4>1, <4>2, Zenon DEF KeptUp, FreeNow
      <4>4. Deadline \in Int
        <5>1. (i - Warmup) * interval \in Int
          BY <1>0, NextSlot
        <5> QED
          BY <1>0, <5>1 DEF Deadline
      <4> QED
        BY <1>0, <2>1, <2>2, <2>3, <3>3, <4>3, <4>4 DEF KeptInv
    <3> QED
      BY <1>0, <2>5, <3>2, <3>3
  <2> QED
    BY <1>0, <2>4, <2>5
<1>3. CASE Op
  <2>1. PICK d \in ServiceTimes :
          ops' = IF i < Warmup THEN ops ELSE Append(ops, [start |-> t0, end |-> t0 + d])
    BY <1>0, <1>3 DEF Op, Measuring
  <2>2. /\ UNCHANGED <<open_loop, interval, schedule_start, late_ops>>
        /\ at = "op" /\ at' = "prepare" /\ i' = i + 1
    BY <1>3, Zenon DEF Op
  <2>3. CASE i < Warmup
    BY <1>0, <2>2, <2>3 DEF KeptInv
  <2>4. CASE i >= Warmup
    <3> DEFINE e == [start |-> t0, end |-> t0 + d]
    <3>1. e \in [start : Nat, end : Nat] /\ ops' = Append(ops, e)
      BY <1>0, <2>1, <2>4
    <3> HIDE DEF e
    <3>2. \A k \in DOMAIN ops : k \in DOMAIN ops' /\ ops'[k] = ops[k] /\ Place(k + 1)' = Place(k + 1)
      <4>1. ops \in Seq([start : Nat, end : Nat])
        BY <1>0
      <4>2. /\ \A k \in 1 .. Len(ops) : ops'[k] = ops[k]
            /\ DOMAIN ops = 1 .. Len(ops) /\ DOMAIN ops' = 1 .. Len(ops) + 1 /\ Len(ops) \in Nat
        BY <3>1, <4>1, Appended
      <4>3. \A k \in 1 .. Len(ops) : k \in 1 .. Len(ops) + 1
        BY <4>2
      <4>4. \A k : Place(k + 1)' = Place(k + 1)
        BY <2>2, Zenon DEF Place
      <4> QED
        BY <4>2, <4>3, <4>4, Zenon
    <3>3. KeptUp' => KeptUp
      BY <3>2, Zenon DEF KeptUp
    <3> QED
      BY <1>0, <2>2, <2>4, <3>3 DEF KeptInv
  <2> QED
    BY <1>0, <2>3, <2>4
<1>4. CASE Finish
  <2>1. UNCHANGED <<open_loop, interval, i, ops, schedule_start, late_ops>> /\ i = Warmup + Measure
    BY <1>4, Zenon DEF Finish
  <2>2. KeptUp' <=> KeptUp
    BY <1>a, <2>1, Zenon
  <2> QED
    BY <2>1, <2>2 DEF KeptInv
<1>5. CASE UNCHANGED vars
  <2>1. KeptUp' <=> KeptUp
    BY <1>5, <1>a, Zenon DEF vars
  <2> QED
    BY <1>5, <2>1 DEF vars, KeptInv
<1> QED
  BY <1>1, <1>2, <1>3, <1>4, <1>5, Zenon DEF Next

\* The sample's overload flag tells bench_open_loop's saturated runs, whose
\* every op takes longer than the interval, from those that keep up with the
\* schedule, whatever the threshold, unless the first op, which is always
\* counted late, is already that share of the run.
THEOREM OverloadShows == Spec => []OverloadIsTold
<1> USE RunnerAssumption
<1>1. Init => ScheduleInv /\ LateInv /\ KeptInv
  <2>1. Init => ScheduleInv
    BY DEF Init, ScheduleInv, ScheduleTypes, BetweenOps, ScheduleDoesNotDrift
  <2>2. Init => LateInv /\ KeptInv
    BY DEF Init, LateInv, KeptInv
  <2> QED
    BY <2>1, <2>2
<1>2. ScheduleInv /\ LateInv /\ KeptInv => OverloadIsTold
  <2> SUFFICES ASSUME ScheduleInv, LateInv, KeptInv, at = "done", open_loop
               PROVE  /\ AllSlow => sample[1].overloaded
                      /\ KeptUp => (sample[1].overloaded <=> Measure * OVERLOAD_PCT <= 100)
    BY Zenon DEF OverloadIsTold, Done, AllSlow
  <2>1. sample[1].overloaded = Overloaded /\ Overloaded = (late_ops * 100 >= Measure * OVERLOAD_PCT)
    BY DEF LateInv, Overloaded
  <2>2. AllSlow => late_ops = Measure
    BY DEF ScheduleInv, ScheduleTypes, LateInv
  <2>3. Measure * OVERLOAD_PCT <= Measure * 100
    <3>1. \A m \in Nat, p \in 1 .. 100 : m * p <= m * 100
      OBVIOUS
    <3> QED
      BY <3>1
  <2>4. KeptUp => late_ops = 1
    BY DEF ScheduleInv, ScheduleTypes, KeptInv
  <2>5. PICK m \in Int : m = Measure * OVERLOAD_PCT
    BY NextSlot
  <2>6. KeptUp => (Overloaded <=> Measure * OVERLOAD_PCT <= 100)
    <3>1. KeptUp => (late_ops * 100 >= m <=> m <= 100)
      BY <2>4
    <3> QED
      BY <2>1, <2>5, <3>1, Zenon
  <2>7. AllSlow => Overloaded
    BY <2>1, <2>2, <2>3, Zenon
  <2> QED
    BY <2>1, <2>6, <2>7, Zenon
<1> QED
  BY <1>1, <1>2, ScheduleInductive, LateInductive, KeptInductive, PTL DEF Spec
-----------------------------------------------------------------------------

Polled ==
  {NONE, [kind |-> "Empty"]}
  \cup {[kind |-> "Ready", seq |-> n, data |-> n] : n \in Nat}
  \cup {[kind |-> "Skipped", seq |-> n, lost |-> k] : n \in Nat, k \in Int}

Hop == [status : {"live"}, policy : {"SkipToLatest"}, next : Nat, last : Polled]

Counters ==
  /\ begun \in Nat /\ committed \in Nat /\ published \in Nat
  /\ reader \in [{hop} -> Hop]
  /\ recorded \in Nat /\ skipped \in Int

CountInv == Counters /\ EveryMessageCounted

\* Nothing is counted before the first poll.
LEMMA InitCount == HopInit => CountInv
  BY DEF HopInit, CountInv, Counters, EveryMessageCounted, Hop, Polled

\* A poll that returns a message, or reports a lap, counts what it passed;
\* the other steps of either thread move neither side of the count.
LEMMA NextCount == CountInv /\ [HopNext]_hop_vars => CountInv'
<1> SUFFICES ASSUME CountInv, [HopNext]_hop_vars PROVE CountInv'
  OBVIOUS
<1> USE DEF CountInv
<1> DEFINE seq == reader[hop].next
<1>0. /\ hop \in {hop} /\ reader[hop] \in Hop /\ seq \in Nat /\ seq + 1 \in Nat
      /\ reader[hop].policy = "SkipToLatest"
  BY DEF Counters, Hop
<1>1. CASE Publish
  BY <1>1 DEF Publish, Queue!Begin, Queue!Commit, Queue!Announce, Counters, EveryMessageCounted
<1>2. CASE RaiseDone
  BY <1>2 DEF RaiseDone, Counters, EveryMessageCounted
<1>3. CASE PollReady
  <2> DEFINE l == [kind |-> "Ready", seq |-> seq, data |-> seq]
  <2>1. l \in Polled
    BY <1>0 DEF Polled
  <2>2. reader' = [reader EXCEPT ![hop] = [@ EXCEPT !.next = seq + 1, !.last = l]]
    BY <1>3, Zenon DEF PollReady, Queue!Receive, Message
  <2> HIDE DEF l
  <2> DEFINE n == seq + 1
  <2> HIDE DEF n
  <2>3. reader' \in [{hop} -> Hop] /\ reader'[hop].next = n
    <3>1. n \in Nat /\ reader' = [reader EXCEPT ![hop] = [@ EXCEPT !.next = n, !.last = l]]
      BY <1>0, <2>2 DEF n
    <3> QED
      BY <1>0, <2>1, <3>1, Zenon DEF Counters, Hop
  <2> QED
    BY <1>0, <1>3, <2>3 DEF n, PollReady, Queue!Receive, Counters, EveryMessageCounted
<1>4. CASE PollSkipped
  <2> DEFINE l == [kind |-> "Skipped", seq |-> seq, lost |-> published - seq]
  <2>1. l \in Polled
    BY <1>0 DEF Polled, Counters
  <2>2. reader' = [reader EXCEPT ![hop] = [@ EXCEPT !.next = published, !.last = l]]
    BY <1>0, <1>4 DEF PollSkipped, Queue!Lap
  <2>3. /\ skipped' = skipped + (published - seq) /\ recorded' = recorded
        /\ UNCHANGED <<begun, committed, published>>
    BY <1>4 DEF PollSkipped, Queue!Lap, AfterSkip
  <2> HIDE DEF l
  <2>4. reader' \in [{hop} -> Hop] /\ reader'[hop].next = published
    BY <1>0, <2>1, <2>2, Zenon DEF Counters, Hop
  <2> QED
    BY <1>0, <2>3, <2>4 DEF Counters, EveryMessageCounted
<1>5. CASE PollEmpty
  <2> DEFINE l == [kind |-> "Empty"]
  <2>1. l \in Polled
    BY DEF Polled
  <2>2. reader' = [reader EXCEPT ![hop] = [@ EXCEPT !.last = l]]
    BY <1>5 DEF PollEmpty, Queue!Nothing
  <2> HIDE DEF l
  <2>3. reader' \in [{hop} -> Hop] /\ reader'[hop].next = seq
    BY <1>0, <2>1, <2>2 DEF Counters, Hop
  <2> QED
    BY <1>0, <1>5, <2>3 DEF PollEmpty, Queue!Nothing, Counters, EveryMessageCounted
<1>6. CASE CheckDone
  BY <1>6 DEF CheckDone, Counters, EveryMessageCounted
<1>7. CASE UNCHANGED hop_vars
  BY <1>7 DEF hop_vars, Counters, EveryMessageCounted
<1> QED
  BY <1>1, <1>2, <1>3, <1>4, <1>5, <1>6, <1>7 DEF HopNext, Produce, Consume

\* However often the consumer is lapped, the messages it recorded and those it
\* was told are lost are exactly those it has passed.
THEOREM CountIsExact == HopSpec => []EveryMessageCounted
<1>1. CountInv => EveryMessageCounted
  BY DEF CountInv
<1> QED
  BY InitCount, NextCount, <1>1, PTL DEF HopSpec
=============================================================================

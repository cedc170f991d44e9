--------------------------- MODULE MCConversions ----------------------------
(***************************************************************************)
(* One run for the parts that only convert what they are given: the wire   *)
(* codecs, the run-environment checks, the calendar and the regression     *)
(* gate.  They share no state; a behaviour exercises one of them and       *)
(* leaves the others idle.                                                 *)
(***************************************************************************)
EXTENDS EventCodec, RunEnv, UtcStamp, Compare

\* Every multi-byte sample has distinct bytes.
Digits(first, n) == [i \in 1 .. n |-> first + i]
Zeros(n)         == [i \in 1 .. n |-> 0]

TwoU64    == {Zeros(8), Digits(0, 8)}
TwoU32    == {Zeros(4), Digits(20, 4)}
TwoStamps == {Zeros(8), Digits(40, 8)}
TwoHashes == {[i \in 1 .. 32 |-> 90], [i \in 1 .. 32 |-> 100 + i]}

\* Prepared, unprepared, unreadable, and readable limits without a governor.
FourPolicies ==
  {[governor |-> "performance", min |-> 2, max |-> 2], [governor |-> "powersave", min |-> 1, max |-> 2],
   [governor |-> NONE, min |-> NONE, max |-> NONE], [governor |-> "", min |-> 1, max |-> 2]}

\* Hyperthread numbers of the same core are adjacent, or half the cpus apart;
\* or one core has all four threads.
ThreeTopologies == {[c \in Cpu |-> c \div 2], [c \in Cpu |-> c % 2], [c \in Cpu |-> 0]}

Affinities == {{c} : c \in Cpu} \union {{0, 1}, {1, 3}, Cpu}

\* A whole 400-year cycle from the epoch on, and the edges of hours and minutes.
CycleAndEdges ==
  {<<day, 0>> : day \in 0 .. 146097} \union
    {<<59, 3600 * h + 60 * mi + s>> : h \in {0, 1, 23}, mi \in {0, 1, 59}, s \in {0, 1, 59}}

Init ==
  \/ CodecInit /\ EnvIdle /\ ClockIdle /\ GateIdle
  \/ CodecIdle /\ EnvInit /\ ClockIdle /\ GateIdle
  \/ CodecIdle /\ EnvIdle /\ ClockInit /\ GateIdle
  \/ CodecIdle /\ EnvIdle /\ ClockIdle /\ GateInit

Next ==
  \/ CodecNext /\ UNCHANGED <<envVars, clockVars, gateVars>>
  \/ EnvNext /\ UNCHANGED <<codecVars, clockVars, gateVars>>
  \/ Stamp /\ UNCHANGED <<codecVars, envVars, gateVars>>
  \/ run_compare /\ UNCHANGED <<codecVars, envVars, clockVars>>

Spec == Init /\ [][Next]_<<codecVars, envVars, clockVars, gateVars>>
=============================================================================

------------------------------ MODULE Workload ------------------------------
(***************************************************************************)
(* The mixed stream of the matcher bench (realistic_workload), with the    *)
(* input generator it draws from (crates/benchkit/src/lcg.rs).  The low    *)
(* bits of the generator's state evolve on their own, as the low bits of   *)
(* an affine map modulo a power of two do, so the model keeps the state    *)
(* modulo Word and leaves the rest of each draw open.  The measured loop   *)
(* has no end here.                                                        *)
(***************************************************************************)
EXTENDS Integers

CONSTANTS Prefill,      \* orders before the measured phase, as 30 000 modulo Word
          MAX_ACTIVE,   \* 80 000 in the bench
          Sweep         \* quantity of an aggressive order, each resting one has 1

\* The low four bits of the state, the multiplier and the increment.
Word       == 16
Seed       == 9
Multiplier == 13
Increment  == 15

VARIABLES low,     \* the generator's state modulo Word
          filled,  \* prefill turns taken
          active,  \* hashes kept for cancelling, those of filled orders too
          depth    \* side -> resting orders

vars == <<low, filled, active, depth>>

Sides == {"Bid", "Ask"}

Opposite(side) == IF side = "Bid" THEN "Ask" ELSE "Bid"

Init ==
  /\ low = Seed
  /\ filled = 0 /\ active = 0
  /\ depth = [s \in Sides |-> 0]
-----------------------------------------------------------------------------
next_u64(x) == (Multiplier * x + Increment) % Word

\* rv & 1 == 0
SideOf(x) == IF x % 2 = 0 THEN "Bid" ELSE "Ask"

\* next_u64() % 100: its remainder modulo 4 is that of the low bits.
Picks(x) == {p \in 0 .. 99 : p % 4 = x % 4}

Rest(side) ==
  /\ active' = active + 1
  /\ depth' = [depth EXCEPT ![side] = @ + 1]

FillBook ==
  /\ filled < Prefill
  /\ filled' = filled + 1
  /\ low' = next_u64(low)
  /\ Rest(SideOf(low'))

Measured == filled = Prefill /\ UNCHANGED filled

\* Every turn draws twice: what to do, and with what.
Draw == low' = next_u64(next_u64(low))

Passive ==
  /\ Measured /\ Draw
  /\ \E pick \in Picks(next_u64(low)) : pick < 60
  /\ active < MAX_ACTIVE
  /\ Rest(SideOf(low'))

\* A random active order, which may have been filled meanwhile.
Cancel ==
  /\ Measured /\ Draw
  /\ \E pick \in Picks(next_u64(low)) : pick < 90 /\ (pick >= 60 \/ active >= MAX_ACTIVE)
  /\ active > 0 /\ active' = active - 1
  /\ \/ \E s \in Sides : depth[s] > 0 /\ depth' = [depth EXCEPT ![s] = @ - 1]
     \/ active > depth["Bid"] + depth["Ask"] /\ UNCHANGED depth

\* An IOC order through the whole other side, at most Sweep of it.
Aggressive ==
  /\ Measured /\ Draw
  /\ \E pick \in Picks(next_u64(low)) : pick >= 90 \/ (active = 0 /\ pick >= 60)
  /\ LET other == Opposite(SideOf(low'))
     IN  depth' = [depth EXCEPT ![other] = IF @ > Sweep THEN @ - Sweep ELSE 0]
  /\ UNCHANGED active

Next == FillBook \/ Passive \/ Cancel \/ Aggressive

Spec == Init /\ [][Next]_vars
-----------------------------------------------------------------------------
\* The generator's low bits n turns of the measured loop from now.
Later(n) ==
  LET x[k \in 0 .. n] == IF k = 0 THEN low ELSE next_u64(next_u64(x[k - 1])) IN x[n]

\* "Mixed stream around a mid ... Book hovers at steady depth": a side of the
\* book that sweeps and cancels of the measured stream have emptied is one
\* that passive orders still come for.
EmptySideRefills ==
  filled = Prefill =>
    \A s \in Sides : depth[s] = 0 => \E n \in 1 .. Word : SideOf(Later(n)) = s
=============================================================================

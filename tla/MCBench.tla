------------------------------ MODULE MCBench -------------------------------
(***************************************************************************)
(* One run for the two ways of measuring: a behaviour is one of the        *)
(* Runner's loops, or one of the cross-core hop.                           *)
(***************************************************************************)
EXTENDS Runner, CrossCore

\* No loop of the Runner was called.
RunnerIdle ==
  /\ open_loop = FALSE /\ interval = 0 /\ i = 0 /\ at = "idle" /\ now = 0 /\ noise = 0
  /\ rusage_before = 0 /\ schedule_start = 0 /\ late_ops = 0 /\ t0 = 0
  /\ sample = << >> /\ measured = 0 /\ ops = << >>

\* The hop is over, with every message received.
HopOver ==
  /\ begun = SAMPLES /\ committed = SAMPLES /\ published = SAMPLES
  /\ reader = [c \in {hop} |-> [status |-> "live", policy |-> "SkipToLatest", next |-> SAMPLES, last |-> NONE]]
  /\ done = TRUE /\ consumer = "left" /\ recorded = SAMPLES /\ skipped = 0

BenchInit == (Init /\ HopOver) \/ (RunnerIdle /\ HopInit)

BenchNext ==
  \/ Next /\ UNCHANGED hop_vars
  \/ HopNext /\ UNCHANGED vars

\* The fairness is the hop's.
BenchSpec == BenchInit /\ [][BenchNext]_<<vars, hop_vars>> /\ WF_hop_vars(Produce) /\ WF_hop_vars(Consume)
=============================================================================

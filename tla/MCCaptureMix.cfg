\* Two processes; two dirty trees of one run id, between which a scenario is renamed.
SPECIFICATION Spec
CONSTANTS
  NONE = NONE
  Procs = {"p1", "p2"}
  Trees <- SameIdTrees
  Scenarios <- Renaming
  BENCH_CRATES <- TheArena
  ALLOC_CRATES <- TheMatcher
  PERF_CRATES <- TheArena
  IAI_CRATES = {"matcher"}
  Requests <- Everything
  MaxRuns = 2
INVARIANT RunsNeverMix
CHECK_DEADLOCK FALSE

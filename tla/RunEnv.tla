------------------------------- MODULE RunEnv -------------------------------
(***************************************************************************)
(* The run-environment checks (crates/benchkit/src/env.rs): what the       *)
(* kernel's files say of the machine, what CorePrep and RunEnv make of it, *)
(* and which warnings a report carries.  xtask looks at the bench cores    *)
(* before a capture (Preflight); every bench process looks at its own core *)
(* when it starts (Detect); the machine may move in between.               *)
(*                                                                         *)
(* A machine is what is true of it: each cpu's frequency policy, the       *)
(* physical core it is a thread of, whether it is online, and which of the *)
(* kernel's files cannot be read.  The text of a cpu list is the sequence  *)
(* of its comma-separated parts, <<a>> for "a" and <<a, b>> for "a-b".  A  *)
(* warning is its kind with the values its text names.  Of a report's      *)
(* header the model keeps what says something of the machine: the two      *)
(* pinned marks and the warnings.                                          *)
(*                                                                         *)
(* Operators that stand directly before the one they vary are faulty       *)
(* versions of it, kept to show that the properties notice the slip.       *)
(***************************************************************************)
EXTENDS Integers, Sequences, SequencesExt, Option

CONSTANTS Cpu,          \* cpu numbers, with cpu 0 among them
          Policies,     \* frequency policies [governor, min, max]
          Topologies,   \* functions from cpus to physical cores
          Allowed       \* affinities a process may run with, sets of cpus

VARIABLES machine,   \* NONE when there is none to look at
          affinity,  \* the cpus the bench process may run on
          prep,      \* cpu -> CorePrep, as the preflight saw it
          env,       \* the bench process's RunEnv
          report,    \* the header of its report
          looked,    \* ghost: the machine Preflight looked at
          seen       \* ghost: the machine Detect looked at

envVars == <<machine, affinity, prep, env, report, looked, seen>>

\* Most cpus share a policy and one differs; cpu 0 cannot be taken offline.
Machines ==
  [policy : {[c \in Cpu |-> IF c = odd THEN p ELSE q] : odd \in Cpu, p \in Policies, q \in Policies},
   core : Topologies, online : {S \in SUBSET Cpu : 0 \in S},
   unreadable : {{}, {"topology"}, {"status"}}]

EnvInit ==
  /\ machine \in Machines
  /\ affinity \in Allowed /\ affinity \subseteq machine.online
  /\ prep = NONE /\ env = NONE /\ report = NONE /\ looked = NONE /\ seen = NONE

EnvIdle ==
  /\ machine = NONE /\ affinity = {}
  /\ prep = NONE /\ env = NONE /\ report = NONE /\ looked = NONE /\ seen = NONE
-----------------------------------------------------------------------------
\* The kernel writes a set of cpus as its maximal runs in ascending order.
CpuList(S) ==
  LET runs == {r \in S \X S : /\ r[1] <= r[2] /\ r[1] .. r[2] \subseteq S
                              /\ r[1] - 1 \notin S /\ r[2] + 1 \notin S}
      text(r) == IF r[1] = r[2] THEN <<r[1]>> ELSE r
      sorted  == SetToSortSeq(runs, LAMBDA r, t : r[1] < t[1])
  IN  [k \in DOMAIN sorted |-> text(sorted[k])]

\* topology/thread_siblings_list of a cpu; online, which cpu 0 does not have.
ThreadSiblingsList(m, c) ==
  IF "topology" \in m.unreadable THEN NONE ELSE CpuList({s \in Cpu : m.core[s] = m.core[c]})

OnlineFile(m, c) == IF c = 0 THEN NONE ELSE IF c \in m.online THEN "1" ELSE "0"

parse_cpu_list(list) ==
  UNION {IF Len(list[k]) = 1 THEN {list[k][1]} ELSE list[k][1] .. list[k][2] : k \in DOMAIN list}

\* A cpu without the file counts as offline.
OnlineOnlyIfSaid(file) == file = "1"

\* A cpu without the file cannot be taken offline.
IsOnline(file) == file \in {NONE, "1"}

online_siblings(m, core) ==
  IF ThreadSiblingsList(m, core) = NONE THEN {}
  ELSE {s \in parse_cpu_list(ThreadSiblingsList(m, core)) \ {core} : IsOnline(OnlineFile(m, s))}

read_governor(m, c) == IF m.policy[c].governor \in {NONE, ""} THEN "unknown" ELSE m.policy[c].governor

CorePrep_detect(m, c) ==
  [core |-> c, governor |-> read_governor(m, c), clock_min_khz |-> m.policy[c].min,
   clock_max_khz |-> m.policy[c].max, smt_siblings_online |-> online_siblings(m, c)]

GovernorWarning(governor) ==
  IF governor \in {"performance", "unknown"} THEN {} ELSE {<<"governor", governor>>}

ClockWarning(core, min, max) ==
  IF NONE \in {min, max} \/ min = max THEN {} ELSE {<<"clock", core, min, max>>}

SmtWarning(core, siblings) == IF siblings = {} THEN {} ELSE {<<"smt", core, siblings>>}

CorePrep_warnings(p) ==
  GovernorWarning(p.governor) \union ClockWarning(p.core, p.clock_min_khz, p.clock_max_khz)
    \union SmtWarning(p.core, p.smt_siblings_online)

\* The Cpus_allowed_list line of the process's status file.
read_affinity(m, allowed) == IF "status" \in m.unreadable THEN NONE ELSE CpuList(allowed)

\* A text with neither a range nor a comma.
is_single_core(list) == list # NONE /\ Len(list) = 1 /\ Len(list[1]) = 1

\* The report shows cpu 0's governor, whatever the bench core.
AlwaysCpu0(bench_core) == 0

GovernorCpu(bench_core) == IF bench_core = NONE THEN 0 ELSE bench_core

RunEnv_detect(m, allowed) ==
  LET text       == read_affinity(m, allowed)
      pinned     == is_single_core(text)
      bench_core == IF pinned THEN text[1][1] ELSE NONE
  IN  [affinity |-> text, pinned |-> pinned, bench_core |-> bench_core,
       governor |-> read_governor(m, GovernorCpu(bench_core)),
       clock_min_khz |-> IF pinned THEN CorePrep_detect(m, bench_core).clock_min_khz ELSE NONE,
       clock_max_khz |-> IF pinned THEN CorePrep_detect(m, bench_core).clock_max_khz ELSE NONE,
       smt_siblings_online |-> IF pinned THEN CorePrep_detect(m, bench_core).smt_siblings_online ELSE {}]

RunEnv_warnings(e) ==
  LET core == IF e.bench_core = NONE THEN 0 ELSE e.bench_core
  IN  (IF e.pinned THEN {} ELSE {<<"not pinned", e.affinity>>})
        \union GovernorWarning(e.governor)
        \union ClockWarning(core, e.clock_min_khz, e.clock_max_khz)
        \union SmtWarning(core, e.smt_siblings_online)

\* The clock line, when there is one, marks equal limits as pinned.
header(e) ==
  [affinity_ok |-> e.pinned,
   clock_ok |-> IF NONE \in {e.bench_core, e.clock_min_khz, e.clock_max_khz} THEN NONE
                ELSE e.clock_min_khz = e.clock_max_khz,
   warnings |-> RunEnv_warnings(e)]
-----------------------------------------------------------------------------
\* run_capture's look at the bench cores.
Preflight ==
  /\ machine # NONE /\ prep = NONE /\ env = NONE
  /\ prep' = [c \in Cpu |-> CorePrep_detect(machine, c)]
  /\ looked' = machine
  /\ UNCHANGED <<machine, affinity, env, report, seen>>

\* A daemon changes a cpu's policy, or a thread is taken off or put on line;
\* once, before or after the bench process looks.
MachineMoves ==
  /\ machine # NONE /\ machine = looked /\ report = NONE
  /\ \/ \E c \in Cpu, p \in Policies : machine' = [machine EXCEPT !.policy[c] = p]
     \/ \E c \in Cpu \ ({0} \union affinity) :
          machine' = [machine EXCEPT !.online = IF c \in @ THEN @ \ {c} ELSE @ \union {c}]
  /\ UNCHANGED <<affinity, prep, env, report, looked, seen>>

\* BenchmarkSuite::new, or a bench's own RunEnv::detect.
Detect ==
  /\ machine # NONE /\ env = NONE
  /\ env' = RunEnv_detect(machine, affinity)
  /\ seen' = machine
  /\ UNCHANGED <<machine, affinity, prep, report, looked>>

\* The report is written after the measurements, from what Detect saw.
WriteHeader ==
  /\ env # NONE /\ report = NONE
  /\ report' = header(env)
  /\ UNCHANGED <<machine, affinity, prep, env, looked, seen>>

EnvNext == Preflight \/ MachineMoves \/ Detect \/ WriteHeader
-----------------------------------------------------------------------------
\* On a quiet machine the process has one cpu to run on, which keeps one
\* frequency as far as can be read, and shares its physical core with no
\* other running thread that can be known of.
Quiet(m, allowed) ==
  \E c \in Cpu :
    /\ allowed = {c} /\ "status" \notin m.unreadable
    /\ m.policy[c].governor \in {"performance", "", NONE}
    /\ m.policy[c].min = m.policy[c].max \/ NONE \in {m.policy[c].min, m.policy[c].max}
    /\ "topology" \in m.unreadable \/ \A s \in m.online : m.core[s] = m.core[c] => s = c

\* "Empty == clean run": a report carries no warning exactly when the machine
\* was quiet at the time the bench process started, whatever the preflight had
\* seen before and whatever happened since; and then neither mark of the
\* header says otherwise.
CleanMeansQuiet ==
  report # NONE =>
    /\ (report.warnings = {}) = Quiet(seen, affinity)
    /\ report.warnings = {} => report.affinity_ok /\ report.clock_ok # FALSE

\* The preflight tells the truth about the runs to come: unless the machine
\* moves before the bench starts, a bench pinned to a core reports the very
\* warnings xtask printed for that core.
PreflightForetells ==
  report # NONE /\ seen = looked /\ env.pinned =>
    report.warnings = CorePrep_warnings(prep[env.bench_core])
=============================================================================

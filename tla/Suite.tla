------------------------------- MODULE Suite --------------------------------
(***************************************************************************)
(* The suite driver (crates/benchkit/src/suite.rs) over the report writer  *)
(* (report.rs): bench processes, one after the other, declare an intent    *)
(* and a rate, measure scenarios, and write their artifacts file by file   *)
(* into a run directory that later runs at the same id write again.  A     *)
(* process may be killed, or meet an I/O error, between any two of its     *)
(* writes and inside those of the markdown and the CSV; a markdown file    *)
(* cut short is NONE.                                                      *)
(*                                                                         *)
(* Operators that stand directly before the one they vary are faulty       *)
(* versions of it, kept to show that the properties notice the slip.       *)
(***************************************************************************)
EXTENDS Report, SequencesExt, TLC

CONSTANTS Dirs,           \* run directories
          Labels,         \* scenario labels, without commas
          Intents,        \* [latency, latency_under_load] records
          Rates,          \* arguments of at_rate
          NanosPerSec,    \* a second, scaled down
          DefaultInterval,
          MeasuredRows,   \* <<r1, r2, ...>>: what the n-th process measures
          CutFields,      \* fields a cut CSV line may end in
          MaxScenarios    \* <<m1, m2, ...>>: scenarios of the n-th process

ASSUME SuiteAssumption ==
  /\ Rates \subseteq Nat /\ {NanosPerSec, DefaultInterval} \subseteq Nat
  /\ DOMAIN MaxScenarios = DOMAIN MeasuredRows
  /\ \A k \in DOMAIN MeasuredRows : \A m \in Percentiles : MeasuredRows[k][m] \in Nat

VARIABLES suite,     \* the running process's BenchmarkSuite, NONE between processes
          pc,        \* its next write
          curve,     \* the sample its next curve file is of
          dir,       \* the directory out_dir gave it
          out,       \* directory -> artifacts
          started,   \* processes started so far
          whole,     \* ghost: directory -> the samples of the report finished
                     \* there last and the old curves it could not remove,
                     \* NONE while a later one is being written
          kept,      \* ghost: the curves the process could not remove
          asked,     \* ghost: the rate its bench asked for last, 0 for none
          load       \* ghost: of each pass under load, the rate asked for last
                     \* when it ran and whether it was saturated

vars == <<suite, pc, curve, dir, out, started, whole, kept, asked, load>>

NoFiles == [md |-> NONE, csv |-> <<>>, hdr |-> << >>, plot |-> <<>>]

Init ==
  /\ suite = NONE /\ pc = "run" /\ curve = 1 /\ dir = NONE
  /\ out = [d \in Dirs |-> NoFiles]
  /\ started = 0
  /\ whole = [d \in Dirs |-> NONE]
  /\ kept = {} /\ asked = 0 /\ load = <<>>
-----------------------------------------------------------------------------
\* BenchmarkSuite::new
New ==
  /\ suite = NONE /\ started < Len(MeasuredRows)
  /\ started' = started + 1
  /\ suite' = [intent |-> [latency |-> TRUE, latency_under_load |-> FALSE],
               interval_ns |-> DefaultInterval, samples |-> <<>>, load_samples |-> <<>>]
  /\ pc' = "run"
  /\ UNCHANGED <<curve, dir, out, whole, kept, asked, load>>

Running == suite # NONE /\ pc = "run"

set_intent ==
  /\ Running
  /\ \E i \in Intents : suite' = [suite EXCEPT !.intent = i]
  /\ UNCHANGED <<pc, curve, dir, out, started, whole, kept, asked, load>>

\* A rate of 0 is no rate: the schedule stays.
at_rate ==
  /\ Running
  /\ \E r \in Rates :
       /\ suite' = IF r > 0 THEN [suite EXCEPT !.interval_ns = NanosPerSec \div r] ELSE suite
       /\ asked' = IF r > 0 THEN r ELSE asked
  /\ UNCHANGED <<pc, curve, dir, out, started, whole, kept, load>>

All == suite.samples \o suite.load_samples

Sample(label, model, overloaded) ==
  [label |-> label, arrival_model |-> model, overloaded |-> overloaded, row |-> MeasuredRows[started]]

\* run_scenario and run_scenario_with: one pass per enabled regime.  Only the
\* open-loop runner sets the overload flag.
run_scenario ==
  /\ Running
  /\ Len(suite.samples) < MaxScenarios[started]
  /\ \E label \in Labels, overloaded \in BOOLEAN :
       LET plain  == Sample(label, BackToBack, FALSE)
           loaded == Sample(label \o <<"@", "load">>, OpenLoop(suite.interval_ns), overloaded)
       IN  /\ suite' = [suite EXCEPT
                !.samples = IF suite.intent.latency THEN Append(@, plain) ELSE @,
                !.load_samples = IF suite.intent.latency_under_load THEN Append(@, loaded) ELSE @]
           /\ load' = IF suite.intent.latency_under_load
                      THEN Append(load, [rate |-> asked, saturated |-> overloaded]) ELSE load
  /\ UNCHANGED <<pc, curve, dir, out, started, whole, kept, asked>>
-----------------------------------------------------------------------------
\* finish_and_report up to write_run's first write; out_dir is asked here.
finish_and_report ==
  /\ Running
  /\ \E d \in Dirs : dir' = d /\ whole' = [whole EXCEPT ![d] = NONE]
  /\ pc' = "md"
  /\ UNCHANGED <<suite, curve, out, started, kept, asked, load>>

WriteMarkdown ==
  /\ suite # NONE /\ pc = "md"
  /\ out' = [out EXCEPT ![dir].md = to_markdown(<<suite.samples, suite.load_samples>>)]
  /\ pc' = "csv"
  /\ UNCHANGED <<suite, curve, dir, started, whole, kept, asked, load>>

WriteCsv ==
  /\ suite # NONE /\ pc = "csv"
  /\ out' = [out EXCEPT ![dir].csv = to_csv(All)]
  /\ pc' = "clear"
  /\ UNCHANGED <<suite, curve, dir, started, whole, kept, asked, load>>

\* Curves of earlier runs are not asked to go.
RemovedNone(hdr) == {}

\* What remove_dir_all is to delete: every curve there is.
Removed(hdr) == DOMAIN hdr

\* remove_dir_all, whose error write_run ignores, so that any of the files may
\* still be there; then create_dir_all.
ClearCurves ==
  /\ suite # NONE /\ pc = "clear"
  /\ \E left \in SUBSET Removed(out[dir].hdr) :
       /\ out' = [out EXCEPT ![dir].hdr = Restrict(@, (DOMAIN @ \ Removed(@)) \union left)]
       /\ kept' = left
  /\ pc' = "curves" /\ curve' = 1
  /\ UNCHANGED <<suite, dir, started, whole, asked, load>>

\* The loop over all samples, one file each.
WriteCurve ==
  /\ suite # NONE /\ pc = "curves" /\ curve <= Len(All)
  /\ out' = [out EXCEPT ![dir].hdr = (sanitize(All[curve].label) :> All[curve]) @@ @]
  /\ curve' = curve + 1
  /\ UNCHANGED <<suite, pc, dir, started, whole, kept, asked, load>>

\* The process is gone, and with it all that it knew.
Exit ==
  /\ suite' = NONE /\ pc' = "run" /\ curve' = 1 /\ dir' = NONE
  /\ kept' = {} /\ asked' = 0 /\ load' = <<>>

\* The last write; the process then exits.
WriteScript ==
  /\ suite # NONE /\ pc = "curves" /\ curve > Len(All)
  /\ out' = [out EXCEPT ![dir].plot = gnuplot_script(All)]
  /\ whole' = [whole EXCEPT ![dir] = [samples |-> All, kept |-> kept]]
  /\ Exit
  /\ UNCHANGED <<started>>

\* The process is killed or a write fails: it leaves what it has written.
Stop ==
  /\ suite # NONE
  /\ \/ UNCHANGED out
     \/ pc = "md" /\ out' = [out EXCEPT ![dir].md = NONE]
     \/ pc = "csv" /\ \E cut \in Cuts(to_csv(All), CutFields) : out' = [out EXCEPT ![dir].csv = cut]
  /\ Exit
  /\ UNCHANGED <<started, whole>>

Next ==
  \/ New \/ set_intent \/ at_rate \/ run_scenario
  \/ finish_and_report \/ WriteMarkdown \/ WriteCsv \/ ClearCurves \/ WriteCurve \/ WriteScript \/ Stop

Spec == Init /\ [][Next]_vars
-----------------------------------------------------------------------------
\* A written section under load tells the load its numbers are of, however
\* rates were set between the scenarios.  With no alarm of mixed models every
\* pass ran while the rate asked for last was one of the stamped interval, or
\* none had been asked for and the interval is the default; with the alarm two
\* passes ran at rates of different intervals; and the overload alarm is shown
\* exactly when a pass was saturated.
StampTellsTheLoad ==
  suite # NONE /\ pc \in {"csv", "clear", "curves"} =>
    \A k \in DOMAIN out[dir].md :
      LET stamp == out[dir].md[k].stamp
          interval(n) == IF load[n].rate = 0 THEN DefaultInterval ELSE NanosPerSec \div load[n].rate
      IN  stamp.model # BackToBack =>
            /\ IF stamp.mixed THEN \E i, j \in DOMAIN load : interval(i) # interval(j)
               ELSE \A n \in DOMAIN load : interval(n) = stamp.model.interval_ns
            /\ stamp.overloaded = \E n \in DOMAIN load : load[n].saturated

\* "A stale .hdr must not survive into the new set": the artifacts of a report
\* that was finished are those of its own samples, whatever earlier runs at
\* the same id wrote or left half-written; every curve the script names is
\* there, and is this run's; a sample whose file name no other sample shares
\* has its own curve; and the only other curves are ones whose removal failed,
\* an error that write_run ignores, and the script draws none of them.
ReportIsOneRun ==
  \A d \in Dirs : whole[d] # NONE =>
    LET all   == whole[d].samples
        names == {sanitize(all[k].label) : k \in DOMAIN all}
    IN  /\ out[d].csv = to_csv(all)
        /\ out[d].md # NONE /\ FlattenSeq([k \in DOMAIN out[d].md |-> out[d].md[k].samples]) = all
        /\ DOMAIN out[d].hdr = names \union whole[d].kept
        /\ {out[d].plot[k] : k \in DOMAIN out[d].plot} = names
        /\ \A f \in names : \E k \in DOMAIN all : out[d].hdr[f] = all[k]
        /\ \A k \in DOMAIN all :
             (\A j \in DOMAIN all \ {k} : sanitize(all[j].label) # sanitize(all[k].label))
               => out[d].hdr[sanitize(all[k].label)] = all[k]

\* Whatever state a killed process left a CSV in, the gate takes no row from
\* it that no process measured: a line cut short is dropped, not read with a
\* shortened number.
GateReadsMeasurements ==
  \A d \in Dirs :
    LET rows == parse_csv(out[d].csv)
    IN  \A key \in DOMAIN rows : \E n \in 1 .. started : rows[key] = MeasuredRows[n]
=============================================================================

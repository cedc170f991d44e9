------------------------------- MODULE Report -------------------------------
(***************************************************************************)
(* Samples and what a Report renders of them (crates/benchkit/src: stats,  *)
(* report).  A sample is a record of its label, arrival model, percentiles *)
(* and overload flag; a label is the sequence of its characters, runs of   *)
(* alphanumeric ones taken together.  A rendered section keeps its stamp   *)
(* and its samples; a curve file keeps the sample it was rendered from.    *)
(*                                                                         *)
(* Operators that stand directly before the one they vary are faulty       *)
(* versions of it, kept to show that the properties notice the slip.       *)
(***************************************************************************)
EXTENDS Comparison

\* The characters that are not alphanumeric.
Punctuation == {"@", "_", "-"}

BackToBack == [kind |-> "back_to_back"]

OpenLoop(interval_ns) == [kind |-> "open_loop", interval_ns |-> interval_ns]

regime_tag(model) == model.kind

\* Only the kinds of the arrival models compared.
MixedKinds(samples) ==
  \E k \in DOMAIN samples : regime_tag(samples[k].arrival_model) # regime_tag(samples[1].arrival_model)

Mixed(samples) == \E k \in DOMAIN samples : samples[k].arrival_model # samples[1].arrival_model

Overloaded(samples) == \E k \in DOMAIN samples : samples[k].overloaded

\* The "Measured under" stamp: the first model, and the two alarms.
measured_under(samples) ==
  [model |-> samples[1].arrival_model, mixed |-> Mixed(samples), overloaded |-> Overloaded(samples)]

\* Sections without samples are not added by the suite.
Sections(groups) == SelectSeq(groups, LAMBDA samples : samples # <<>>)

to_markdown(groups) ==
  LET shown == Sections(groups)
  IN  [k \in DOMAIN shown |-> [stamp |-> measured_under(shown[k]), samples |-> shown[k]]]

\* One line per sample: regime, eight histogram columns, four rusage columns.
to_csv(samples) ==
  [k \in DOMAIN samples |->
     [len |-> 13, label |-> samples[k].label, regime |-> regime_tag(samples[k].arrival_model),
      row |-> samples[k].row]]

sanitize(label) == [k \in DOMAIN label |-> IF label[k] \in Punctuation THEN "_" ELSE label[k]]

\* The curves the script draws, by file name.
gnuplot_script(samples) == [k \in DOMAIN samples |-> sanitize(samples[k].label)]
-----------------------------------------------------------------------------
\* The column of a percentile, from 1.
Column(m) == CASE m = "p50" -> 5 [] m = "p99" -> 6 [] m = "p99_99" -> 7

\* A line whose text ends inside its n-th field: a number cut there has lost
\* its last digit, one behind is not there.
CutLine(line, n) ==
  [line EXCEPT !.len = n,
               !.row = [m \in Percentiles |-> IF Column(m) < n THEN line.row[m]
                                              ELSE IF Column(m) = n THEN line.row[m] \div 10 ELSE NONE]]

\* What a killed write leaves of a CSV body: nothing, or some whole lines and
\* a line cut in one of the given fields.
Cuts(csv, fields) ==
  {<<>>} \union {Append(SubSeq(csv, 1, k - 1), CutLine(csv[k], n)) : k \in DOMAIN csv, n \in fields}
=============================================================================

------------------------------ MODULE Compare -------------------------------
(***************************************************************************)
(* The regression gate (`cargo bench-all --compare BASE CUR`): xtask loads *)
(* two CSV files into a Comparison and turns any regression into a failing *)
(* exit.  The files are any sequences of lines, duplicated, unparsable and *)
(* unmatched ones among them, or cannot be read at all.                    *)
(***************************************************************************)
EXTENDS Comparison, SequencesExt

CONSTANTS Labels, Regimes,
          Values,    \* percentile values of rows
          MaxBase, MaxCur, \* bounds on the lines of the two CSV bodies
          Noises     \* noise bands in percent

ASSUME CompareAssumption == Values \subseteq Nat /\ {MaxBase, MaxCur} \subseteq Nat /\ Noises \subseteq Nat

VARIABLES base_csv, cur_csv,   \* the lines of the two files, NONE if unreadable
          noise_pct, \* NONE: the arguments are not two paths and a number
          exit       \* "running", then "ok", "regressed" or "error"

gateVars == <<base_csv, cur_csv, noise_pct, exit>>

\* The percentiles of one distribution are ordered.
Rows == {r \in [p50 : Values, p99 : Values, p99_99 : Values] : r.p50 <= r.p99 /\ r.p99 <= r.p99_99}

\* Lines of this version, flat ones without the rusage columns, and one whose
\* percentiles are no numbers.
Lines ==
  [len : {13}, label : Labels, regime : Regimes, row : Rows \union {[m \in Percentiles |-> NONE]}]
    \union [len : {9}, label : Labels, regime : Regimes, row : {[m \in Percentiles |-> v] : v \in Values}]

GateInit ==
  /\ base_csv \in BoundedSeq(Lines, MaxBase) \union {NONE}
  /\ cur_csv \in BoundedSeq(Lines, MaxCur) \union {NONE}
  /\ noise_pct \in Noises \union {NONE}
  /\ exit = "running"

GateIdle == base_csv = <<>> /\ cur_csv = <<>> /\ noise_pct = NONE /\ exit = NONE
-----------------------------------------------------------------------------
\* A file that cannot be read is taken for an empty one.
RefusedArguments == noise_pct = NONE

\* The early returns: --noise without a number, a number of paths other than
\* two, and a file that is missing or unreadable.
Refused == noise_pct = NONE \/ base_csv = NONE \/ cur_csv = NONE

Text(csv) == IF csv = NONE THEN <<>> ELSE csv

run_compare ==
  /\ exit = "running"
  /\ exit' = IF Refused THEN "error"
             ELSE IF any_regressed(from_strings(Text(base_csv), Text(cur_csv), noise_pct)) THEN "regressed"
             ELSE "ok"
  /\ UNCHANGED <<base_csv, cur_csv, noise_pct>>
-----------------------------------------------------------------------------
\* What each side says of a scenario: its last well-formed line.
Said(csv) ==
  LET good == {i \in DOMAIN csv : csv[i].row.p50 # NONE}
  IN  [key \in {<<csv[i].label, csv[i].regime>> : i \in good} |->
         csv[CHOOSE i \in good :
               /\ key = <<csv[i].label, csv[i].regime>>
               /\ \A j \in good : key = <<csv[j].label, csv[j].regime>> => j <= i].row]

Base == Said(Text(base_csv))
Cur  == Said(Text(cur_csv))
Both == DOMAIN Base \intersect DOMAIN Cur

\* A metric of a pair is worse than the noise band allows.
Worse(b, c, noise) == c > b /\ (c - b) * 100 > noise * b

\* The gate fails exactly when some scenario measured on both sides, with no
\* zero baseline, has any percentile beyond the band: neither an improvement
\* elsewhere nor a dropped, duplicated or unmatched line hides or invents one.
\* It gives a verdict, good or bad, only when the arguments made sense and both
\* files were read: a gate that could not compare never passes.
GateIsExact ==
  /\ exit \in {"ok", "regressed"} =>
       /\ NONE \notin {noise_pct, base_csv, cur_csv}
       /\ (exit = "regressed") =
            (\E key \in Both :
               /\ \A m \in Percentiles : Base[key][m] > 0
               /\ \E m \in Percentiles : Worse(Base[key][m], Cur[key][m], noise_pct))
  /\ exit = "error" => NONE \in {noise_pct, base_csv, cur_csv}

\* The percentile named with a verdict is the one that moved most in the
\* verdict's direction, the first of them in the order p50, p99, p99.99.
DriverIsTheExtreme ==
  exit \in {"ok", "regressed"} =>
    \A key \in Both :
      LET r == from_strings(base_csv, cur_csv, noise_pct)[key]
          b == Base[key]
          c == Cur[key]
      IN  r.driver # NONE =>
            /\ ~WithinBand(b[r.driver], c[r.driver], noise_pct)
            /\ \A m \in Percentiles :
                 IF r.verdict = "Regressed"
                 THEN ~LargerChange(b[m], c[m], b[r.driver], c[r.driver])
                 ELSE ~LargerChange(b[r.driver], c[r.driver], b[m], c[m])
            /\ \A j \in DOMAIN Metrics : \A k \in 1 .. j - 1 :
                 Metrics[j] = r.driver => (c[Metrics[k]] - b[Metrics[k]]) * b[r.driver]
                                            # (c[r.driver] - b[r.driver]) * b[Metrics[k]]
=============================================================================

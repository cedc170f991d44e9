----------------------------- MODULE Comparison -----------------------------
(***************************************************************************)
(* benchkit's Comparison (crates/benchkit/src/report.rs): two CSV bodies   *)
(* are parsed, their rows paired by (label, regime), and every pair is     *)
(* classified.  A CSV line is a record of how many comma-separated fields  *)
(* it has, its label, its regime and its three percentiles; a field that   *)
(* is no number is NONE.  Percentages are compared by cross-multiplication *)
(* instead of floating point.                                              *)
(*                                                                         *)
(* Operators that stand directly before the one they vary are faulty       *)
(* versions of it, kept to show that the properties notice the slip.       *)
(***************************************************************************)
EXTENDS Integers, Sequences, FiniteSetsExt, Option

Metrics == <<"p50", "p99", "p99_99">>

Percentiles == {"p50", "p99", "p99_99"}

Key(line) == <<line.label, line.regime>>

\* Seven fields hold all the columns the parser reads.
SevenFields(line) == line.len >= 7 /\ \A m \in Percentiles : line.row[m] # NONE

\* A line takes part when all its columns up to msgs_per_sec are there and its
\* percentiles are numbers.
Participates(line) == line.len >= 9 /\ \A m \in Percentiles : line.row[m] # NONE

LinesOf(csv, key) == {i \in DOMAIN csv : Participates(csv[i]) /\ Key(csv[i]) = key}

\* parse_csv: the map of (label, regime) to percentiles; a later line with the
\* same key replaces an earlier one.
parse_csv(csv) ==
  [key \in {Key(csv[i]) : i \in {j \in DOMAIN csv : Participates(csv[j])}} |->
     csv[Max(LinesOf(csv, key))].row]

\* |c - b| / b * 100 <= noise
AbsDiff(b, c) == IF c >= b THEN c - b ELSE b - c

WithinBand(b, c, noise) == AbsDiff(b, c) * 100 <= noise * b

\* change of (b1, c1) > change of (b2, c2)
LargerChange(b1, c1, b2, c2) == (c1 - b1) * b2 > (c2 - b2) * b1

\* The last regression met instead of the largest.
BeyondLatest(worst, m, base, cur) == m

\* The largest regression and the largest improvement met so far, an earlier
\* metric winning a tie.
Beyond(worst, m, base, cur) ==
  IF worst = NONE \/ LargerChange(base[m], cur[m], base[worst], cur[worst]) THEN m ELSE worst

Below(best, m, base, cur) ==
  IF best = NONE \/ LargerChange(base[best], cur[best], base[m], cur[m]) THEN m ELSE best

\* One turn of classify_pair's loop.
Weigh(acc, m, base, cur, noise) ==
  IF WithinBand(base[m], cur[m], noise) THEN acc
  ELSE IF cur[m] > base[m]
       THEN [worst |-> Beyond(acc.worst, m, base, cur), best |-> acc.best]
       ELSE [worst |-> acc.worst, best |-> Below(acc.best, m, base, cur)]

Scan(base, cur, noise) ==
  LET first  == Weigh([worst |-> NONE, best |-> NONE], "p50", base, cur, noise)
      second == Weigh(first, "p99", base, cur, noise)
  IN  Weigh(second, "p99_99", base, cur, noise)

Verdict(v, driver) == [verdict |-> v, driver |-> driver]

\* An improvement excuses a regression.
DecideByBest(s) ==
  IF s.best # NONE THEN Verdict("Improved", s.best)
  ELSE IF s.worst # NONE THEN Verdict("Regressed", s.worst) ELSE Verdict("WithinNoise", NONE)

Decide(s) ==
  IF s.worst # NONE THEN Verdict("Regressed", s.worst)
  ELSE IF s.best # NONE THEN Verdict("Improved", s.best) ELSE Verdict("WithinNoise", NONE)

classify_pair(base, cur, noise) ==
  IF \E m \in Percentiles : base[m] = 0 THEN Verdict("Incomparable", NONE)
  ELSE Decide(Scan(base, cur, noise))

\* from_strings, after parsing: one row per key of either side.
Rows_of(base, cur, noise) ==
  [key \in DOMAIN base \union DOMAIN cur |->
     IF key \in DOMAIN base \intersect DOMAIN cur
     THEN classify_pair(base[key], cur[key], noise)
     ELSE Verdict("Incomparable", NONE)]

from_strings(base, cur, noise) == Rows_of(parse_csv(base), parse_csv(cur), noise)

any_regressed(rows) == \E key \in DOMAIN rows : rows[key].verdict = "Regressed"
=============================================================================

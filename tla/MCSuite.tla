------------------------------ MODULE MCSuite -------------------------------
(* Values for Suite. *)
EXTENDS Suite

\* The second label is the first one's name under load, up to punctuation.
TwoLabels == {<<"a">>, <<"a", "_", "load">>}

\* The latency pass is always on.
TwoIntents == [latency : {TRUE}, latency_under_load : BOOLEAN]

OneThenTwo == <<1, 2>>

RowsByProcess == << [p50 |-> 10, p99 |-> 20, p99_99 |-> 35], [p50 |-> 11, p99 |-> 22, p99_99 |-> 44] >>
=============================================================================

----------------------------- MODULE MCCapture ------------------------------
(* A small instance of Capture for TLC: one benched crate, which has neither *)
(* an iai bench nor an allocation proof of its own, and two edits of one     *)
(* commit, between which a scenario is renamed.  Both trees are dirty, so    *)
(* they share a run id.                                                      *)
EXTENDS Capture, FiniteSets

Edited == [sha |-> "a", dirty |-> TRUE, edit |-> 1]
Again  == [sha |-> "a", dirty |-> TRUE, edit |-> 2]

SameIdTrees == {Edited, Again}

Renaming == [t \in SameIdTrees |-> IF t.edit = 1 THEN {"old"} ELSE {"new", "kept"}]

TheArena   == <<"arena">>
TheMatcher == <<"matcher">>

Everything == {[crates |-> TheArena, intents |-> Range(IntentOrder)]}

\* Bound on the files of earlier invocations among which a capture is followed:
\* a directory that was kept with more of them is checked but not gone on from.
MaxKept == 2

FewKept ==
  \A d \in PublishedDirs :
    Sole(d) \/ Cardinality({f \in DOMAIN fs[d] : fs[d][f].run # claim[d].run}) <= MaxKept
=============================================================================

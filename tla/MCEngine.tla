------------------------------ MODULE MCEngine ------------------------------
(* Small instances of Engine for TLC. *)
EXTENDS Engine

IntentSymmetry == Permutations(Intent)
=============================================================================

------------------------------ MODULE MCArena -------------------------------
(* Small instances of Arena for TLC. *)
EXTENDS Arena, TLC

\* Clients' values are only moved, never compared or inspected.
ValueSymmetry == Permutations(Value)

\* No action reads ret, so states that differ in it alone have the same steps;
\* each step's own ret is still compared with HandleStore's.
Memory == <<arena, alive, removed, issued>>
=============================================================================

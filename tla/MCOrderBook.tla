---------------------------- MODULE MCOrderBook -----------------------------
(* Small instances of OrderBook for TLC. *)
EXTENDS OrderBook, TLC

IntentSymmetry == Permutations(Intent)

\* Two slots and two prices, where two orders of 2 make a total that wraps at
\* QtyMod; three slots in one level, with cancels at its head, in its middle
\* and at its tail.
TwoInstances == 2 :> {<<1, 2>>, <<2, 2>>} @@ 3 :> {<<1, 1>>}

\* No action reads ret, so states that differ in it alone have the same steps;
\* each step's own ret is still compared with BookSpec's.
Memory == book
=============================================================================

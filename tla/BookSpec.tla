------------------------------ MODULE BookSpec ------------------------------
(***************************************************************************)
(* What an order book promises: per side and price a FIFO queue of orders, *)
(* at most capacity of them and one per intent.  No arena, no links, no    *)
(* index, no running totals.                                               *)
(***************************************************************************)
EXTENDS Integers, Sequences, FiniteSets

CONSTANTS Order, Price, Quantity, Intent, NONE

VARIABLES capacity,
          queue,   \* side -> price -> orders, oldest first
          ret      \* the last call and what it returned

vars == <<capacity, queue, ret>>

Return(call, result, o) == [call |-> call, result |-> result, order |-> o]

Resting == UNION {{queue[s][p][k] : k \in DOMAIN queue[s][p]} : s \in DOMAIN queue, p \in Price}

Best(s) ==
  LET prices == {p \in Price : queue[s][p] # <<>>}
  IN  CHOOSE p \in prices : \A q \in prices : IF s = "Bid" THEN p >= q ELSE p <= q

Without(q, k) == [i \in 1 .. Len(q) - 1 |-> IF i < k THEN q[i] ELSE q[i + 1]]

Empty(s) == \A p \in Price : queue[s][p] = <<>>

Init ==
  /\ capacity \in Nat \ {0}
  /\ queue = [s \in {"Bid", "Ask"} |-> [p \in Price |-> <<>>]]
  /\ ret = Return(<<"new">>, "unit", NONE)

Insert(o) ==
  \/ /\ ret' = Return(<<"insert", o>>, "DuplicateIntent", NONE)
     /\ \E r \in Resting : r.intent = o.intent
     /\ UNCHANGED queue
  \/ /\ ret' = Return(<<"insert", o>>, "ArenaFull", NONE)
     /\ LET resting == Resting IN
          Cardinality(resting) = capacity /\ \A r \in resting : r.intent # o.intent
     /\ UNCHANGED queue
  \/ /\ ret' = Return(<<"insert", o>>, "Ok", NONE)
     /\ LET resting == Resting IN
          Cardinality(resting) < capacity /\ \A r \in resting : r.intent # o.intent
     /\ queue' = [queue EXCEPT ![o.side][o.price] = Append(@, o)]

Cancel(intent) ==
  \/ /\ ret' = Return(<<"cancel", intent>>, "None", NONE)
     /\ \A r \in Resting : r.intent # intent
     /\ UNCHANGED queue
  \/ /\ ret'.call = <<"cancel", intent>>
     /\ \E s \in DOMAIN queue, p \in Price : \E k \in DOMAIN queue[s][p] :
          /\ queue[s][p][k].intent = intent
          /\ ret' = Return(<<"cancel", intent>>, "Some", queue[s][p][k])
          /\ queue' = [queue EXCEPT ![s][p] = Without(@, k)]

PopTop(s) ==
  \/ /\ ret' = Return(<<"pop_top", s>>, "None", NONE)
     /\ Empty(s) /\ UNCHANGED queue
  \/ /\ ret'.call = <<"pop_top", s>>
     /\ ~Empty(s)
     /\ LET best == Best(s) IN
          /\ ret' = Return(<<"pop_top", s>>, "Some", Head(queue[s][best]))
          /\ queue' = [queue EXCEPT ![s][best] = Tail(@)]

\* The oldest order at the best price shrinks and keeps its place.
ReduceTop(s, qty) ==
  /\ ret' = Return(<<"reduce_top", s, qty>>, "unit", NONE)
  /\ \/ Empty(s) /\ UNCHANGED queue
     \/ /\ ~Empty(s)
        /\ LET best == Best(s) IN
             /\ qty < Head(queue[s][best]).quantity
             /\ queue' = [queue EXCEPT ![s][best][1].quantity = @ - qty]

Next ==
  /\ UNCHANGED capacity
  /\ \/ \E o \in Order : Insert(o)
     \/ \E i \in Intent : Cancel(i)
     \/ \E s \in {"Bid", "Ask"} : PopTop(s)
     \/ \E s \in {"Bid", "Ask"}, most \in Quantity : \E qty \in 1 .. most : ReduceTop(s, qty)

Spec == Init /\ [][Next]_vars
=============================================================================

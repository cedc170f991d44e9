---------------------------- MODULE HandleStore -----------------------------
(***************************************************************************)
(* What the arena promises its clients, with no slots, generations or free *)
(* list: a store of at most Capacity values under opaque handles.          *)
(***************************************************************************)
EXTENDS Integers, FiniteSets

CONSTANTS Handle, Value, Capacity, NONE

VARIABLES store,   \* live handle -> value
          ret      \* the last call and what it returned

vars == <<store, ret>>

Return(call, value) == [call |-> call, value |-> value]

Init == store = [h \in {} |-> NONE] /\ ret = Return(<<"new">>, NONE)

Put(h, v) == [k \in DOMAIN store \cup {h} |-> IF k = h THEN v ELSE store[k]]

\* alloc fails exactly when Capacity values are stored; its handle is not live.
Alloc(v) ==
  \/ /\ Cardinality(DOMAIN store) < Capacity
     /\ \E h \in Handle \ DOMAIN store : store' = Put(h, v) /\ ret' = Return(<<"alloc", v>>, h)
  \/ /\ Cardinality(DOMAIN store) = Capacity
     /\ ret' = Return(<<"alloc", v>>, NONE)
     /\ UNCHANGED store

Get(h) ==
  /\ ret' = Return(<<"get", h>>, IF h \in DOMAIN store THEN store[h] ELSE NONE)
  /\ UNCHANGED store

GetMut(h, v) ==
  LET call == <<"get_mut", h, v>>
  IN  IF h \in DOMAIN store
        THEN store' = Put(h, v) /\ ret' = Return(call, v)
        ELSE ret' = Return(call, NONE) /\ UNCHANGED store

Remove(h) ==
  IF h \in DOMAIN store
    THEN /\ ret' = Return(<<"remove", h>>, store[h])
         /\ store' = [k \in DOMAIN store \ {h} |-> store[k]]
    ELSE ret' = Return(<<"remove", h>>, NONE) /\ UNCHANGED store

\* Dropping the store gives up every value it holds, each once.
Drop ==
  /\ ret' = Return(<<"drop">>, Cardinality(DOMAIN store))
  /\ store' = [h \in {} |-> NONE]

Next ==
  \/ \E v \in Value : Alloc(v)
  \/ \E h \in Handle : Get(h) \/ Remove(h) \/ \E v \in Value : GetMut(h, v)
  \/ Drop

Spec == Init /\ [][Next]_vars
=============================================================================

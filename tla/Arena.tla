------------------------------- MODULE Arena --------------------------------
(***************************************************************************)
(* The arena (crates/arena/src/lib.rs) under every sequence of calls: one  *)
(* action per public operation, called with any handle, live, stale,       *)
(* forged or SENTINEL.  The ghost variables count the removals of a slot   *)
(* and remember every handle ever issued with the count it was issued at.  *)
(***************************************************************************)
EXTENDS ArenaOps

CONSTANTS Capacity,      \* slots; Arena::new asserts 0 < capacity < u32::MAX
          Value,         \* what clients store
          MaxRemovals,   \* bound on the removals of one slot
          NONE           \* Option::None

ASSUME ArenaAssumption ==
  /\ U32Max \in Nat
  /\ Capacity \in Nat \ {0}
  /\ Capacity < U32Max
  /\ MaxRemovals \in Nat
  /\ NONE \notin Value

VARIABLES arena,     \* [slots, free_head, len]
          alive,     \* FALSE once the arena has been dropped
          ret,       \* the last call and what it returned
          removed,   \* ghost: slot -> number of removals so far
          issued     \* ghost: handles returned by alloc, [idx, epoch]

vars == <<arena, alive, ret, removed, issued>>

Slots == 0 .. Capacity - 1

Handle == [slot : 0 .. Capacity, generation : 0 .. U32Max]

Return(call, value) == [call |-> call, value |-> value]

Init ==
  /\ arena = ArenaNew(Capacity)
  /\ alive = TRUE
  /\ ret = Return(<<"new">>, NONE)
  /\ removed = [i \in Slots |-> 0]
  /\ issued = {}

AllocFails(v) ==
  /\ alive
  /\ ArenaFull(arena)
  /\ ret' = Return(<<"alloc", v>>, NONE)
  /\ UNCHANGED <<arena, alive, removed, issued>>

Alloc(v) ==
  /\ alive
  /\ ~ArenaFull(arena)
  /\ LET idx == AllocIdx(arena)
     IN  /\ arena' = ArenaAlloc(arena, v)
         /\ ret' = Return(<<"alloc", v>>, idx)
         /\ issued' = issued \cup {[idx |-> idx, epoch |-> removed[idx.slot]]}
  /\ UNCHANGED <<alive, removed>>

Get(h) ==
  /\ alive
  /\ ret' = Return(<<"get", h>>, IF ArenaHas(arena, h) THEN ArenaGet(arena, h) ELSE NONE)
  /\ UNCHANGED <<arena, alive, removed, issued>>

GetMut(h, v) ==
  /\ alive
  /\ IF ArenaHas(arena, h)
       THEN arena' = ArenaSet(arena, h, v) /\ ret' = Return(<<"get_mut", h, v>>, v)
       ELSE UNCHANGED arena /\ ret' = Return(<<"get_mut", h, v>>, NONE)
  /\ UNCHANGED <<alive, removed, issued>>

Remove(h) ==
  /\ alive
  /\ SlotMatches(arena, h)
  /\ removed[h.slot] < MaxRemovals
  /\ arena' = ArenaRemove(arena, h)
  /\ ret' = Return(<<"remove", h>>, ArenaGet(arena, h))
  /\ removed' = [removed EXCEPT ![h.slot] = @ + 1]
  /\ UNCHANGED <<alive, issued>>

RemoveFails(h) ==
  /\ alive
  /\ ~SlotMatches(arena, h)
  /\ ret' = Return(<<"remove", h>>, NONE)
  /\ UNCHANGED <<arena, alive, removed, issued>>

\* Drop for Arena<T>: assume_init_drop on each occupied slot.
Drop ==
  /\ alive
  /\ alive' = FALSE
  /\ ret' = Return(<<"drop">>, Cardinality({i \in DOMAIN arena.slots : arena.slots[i].occupied}))
  /\ UNCHANGED <<arena, removed, issued>>

Next ==
  \/ \E v \in Value : Alloc(v) \/ AllocFails(v)
  \/ \E h \in Handle : Get(h) \/ Remove(h) \/ RemoveFails(h)
  \/ \E h \in Handle, v \in Value : GetMut(h, v)
  \/ Drop

Spec == Init /\ [][Next]_vars
-----------------------------------------------------------------------------
Cell == Value \cup Slots \cup {U32Max}

ArenaType ==
  [slots     : [Slots -> [generation : 1 .. U32Max, occupied : BOOLEAN, cell : Cell]],
   free_head : Slots \cup {U32Max},
   len       : 0 .. Capacity]

\* The variables' types.  An occupied slot's storage is a value, so the
\* assume_init reads of Slot are never reads of a free-list link.
TypeOK ==
  /\ arena \in ArenaType
  /\ \A i \in Slots : arena.slots[i].occupied => arena.slots[i].cell \in Value
  /\ alive \in BOOLEAN
  /\ removed \in [Slots -> Nat]
  /\ issued \subseteq [idx : [slot : Slots, generation : 1 .. U32Max], epoch : Nat]

\* f lists the n free slots of a in the order free_head and the links visit
\* them: each unoccupied slot once, no occupied one, u32::MAX at the end.
IsFreeList(a, n, f) ==
  /\ \A i, j \in 1 .. n : f[i] = f[j] => i = j
  /\ \A s \in Slots : ~a.slots[s].occupied <=> \E i \in 1 .. n : f[i] = s
  /\ a.free_head = IF n = 0 THEN U32Max ELSE f[1]
  /\ \A i \in 1 .. n : a.slots[f[i]].cell = IF i = n THEN U32Max ELSE f[i + 1]
  /\ a.len = Capacity - n

\* The intrusive free list covers exactly the unoccupied slots and len counts
\* the others.  alloc's get_unchecked_mut and read_next_free rest on this.
FreeListCoversFreeSlots ==
  \E n \in 0 .. Capacity : \E f \in [1 .. n -> Slots] : IsFreeList(arena, n, f)

\* A handle whose value was removed (its slot has been removed from since)
\* resolves to a later value only after u32::MAX further removals of the same
\* slot, when Slot::remove's wrapping generation has come round.
StaleHandleWindow ==
  \A h \in issued :
    /\ ArenaHas(arena, h.idx)
    /\ removed[h.idx.slot] # h.epoch
    => removed[h.idx.slot] >= h.epoch + U32Max

\* What the arena stores: the value of every occupied slot, under its handle.
Stored ==
  IF alive THEN [h \in LiveHandles(arena) |-> ArenaGet(arena, h)] ELSE [h \in {} |-> NONE]

Store == INSTANCE HandleStore WITH store <- Stored

\* The arena is a store of values under handles: get, get_mut and remove see
\* the value last stored under that handle, no call disturbs another handle's
\* value, and alloc fails only when Capacity values are stored.
ImplementsHandleStore == Store!Spec
=============================================================================

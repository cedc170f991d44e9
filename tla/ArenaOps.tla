------------------------------ MODULE ArenaOps ------------------------------
(***************************************************************************)
(* The generational arena of crates/arena as operators on an arena value   *)
(*   [slots, free_head, len],                                              *)
(* so that the arena's own state machine (Arena) and the order book built  *)
(* on it (OrderBookOps) run the same code.  U32Max stands for u32::MAX: it *)
(* is the end-of-list mark of the free list and the largest generation, so *)
(* a small U32Max makes generations wrap within a few removals.            *)
(* Operators that stand directly before the one they vary (ArenaNewZero,   *)
(* SlotOccupied, ...) are faulty versions of it, kept to show that the     *)
(* properties notice such a slip; nothing else uses them.                  *)
(***************************************************************************)
EXTENDS Integers, FiniteSets

CONSTANT U32Max

ArenaIdx(s, g) == [slot |-> s, generation |-> g]

SENTINEL == ArenaIdx(0, 0)

IsValid(idx) == idx # SENTINEL

ArenaNewZero(capacity) ==
  [slots     |-> [i \in 0 .. capacity - 1 |->
                    [generation |-> 0, occupied |-> FALSE,
                     cell |-> IF i + 1 < capacity THEN i + 1 ELSE U32Max]],
   free_head |-> 0,
   len       |-> 0]

\* A slot's storage `cell` holds the value while the slot is occupied and the
\* index of the next free slot while it is not: the free list is intrusive.
ArenaNew(capacity) ==
  [slots     |-> [i \in 0 .. capacity - 1 |->
                    [generation |-> 1, occupied |-> FALSE,
                     cell |-> IF i + 1 < capacity THEN i + 1 ELSE U32Max]],
   free_head |-> 0,
   len       |-> 0]

SlotOccupied(a, idx) ==
  idx.slot \in DOMAIN a.slots /\ a.slots[idx.slot].occupied

\* Slot::get, Slot::get_mut and Slot::remove accept a generation alike.
SlotMatches(a, idx) ==
  /\ idx.slot \in DOMAIN a.slots
  /\ a.slots[idx.slot].occupied
  /\ a.slots[idx.slot].generation = idx.generation

\* Does get / get_mut return Some?
ArenaHas(a, idx) == IsValid(idx) /\ SlotMatches(a, idx)

ArenaGet(a, idx) == a.slots[idx.slot].cell

\* A write through the reference get_mut returns.
ArenaSet(a, idx, v) == [a EXCEPT !.slots[idx.slot].cell = v]

ArenaFull(a) == a.free_head = U32Max

\* The handle alloc returns; the arena it leaves behind.
AllocIdx(a) == ArenaIdx(a.free_head, a.slots[a.free_head].generation)

ArenaAlloc(a, v) ==
  LET head == a.slots[a.free_head]
  IN  [slots     |-> [a.slots EXCEPT ![a.free_head] =
                        [generation |-> head.generation,
                         occupied   |-> TRUE,
                         cell       |-> v]],
       free_head |-> head.cell,
       len       |-> a.len + 1]

SameGeneration(g) == g

\* wrapping_add(1), with 0 skipped: no live slot ever has the sentinel's generation.
NextGeneration(g) == IF g = U32Max THEN 1 ELSE g + 1

ArenaRemoveUnlinked(a, idx) ==
  LET s == a.slots[idx.slot]
  IN  [a EXCEPT !.slots[idx.slot] = [generation |-> NextGeneration(s.generation),
                                     occupied   |-> FALSE,
                                     cell       |-> a.free_head],
                !.len = @ - 1]

\* Arena::remove when SlotMatches(a, idx); otherwise it returns None and
\* leaves the arena alone.
ArenaRemove(a, idx) ==
  LET s == a.slots[idx.slot]
  IN  [slots     |-> [a.slots EXCEPT ![idx.slot] =
                        [generation |-> NextGeneration(s.generation),
                         occupied   |-> FALSE,
                         cell       |-> a.free_head]],
       free_head |-> idx.slot,
       len       |-> a.len - 1]

LiveHandles(a) ==
  {ArenaIdx(i, a.slots[i].generation) :
     i \in {j \in DOMAIN a.slots : a.slots[j].occupied}}
=============================================================================

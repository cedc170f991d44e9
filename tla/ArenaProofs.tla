---------------------------- MODULE ArenaProofs -----------------------------
(***************************************************************************)
(* Proofs about Arena, for every capacity below u32::MAX.  The inductive   *)
(* invariant adds to the properties how far a slot's generation is ahead   *)
(* of a handle's: one step per removal, until the generations wrap.  Then  *)
(* the arena implements HandleStore: under the mapping that reads the      *)
(* values off the occupied slots, each call of Arena is that call of the   *)
(* store, never another; the free list is what makes alloc fail exactly    *)
(* when the store is full.                                                 *)
(***************************************************************************)
EXTENDS Arena, FiniteSetTheorems, TLAPS

GenerationsAdvance ==
  \A h \in issued :
    LET s == h.idx.slot
        d == removed[s] - h.epoch
        g == h.idx.generation + d
    IN  /\ d >= 0
        /\ d < U32Max => arena.slots[s].generation = IF g <= U32Max THEN g ELSE g - U32Max

FreeListOf(a) == \E n \in 0 .. Capacity : \E f \in [1 .. n -> Slots] : IsFreeList(a, n, f)

\* Arena::new builds the list 0, 1, ..., capacity - 1.
LEMMA NewFreeList == FreeListOf(ArenaNew(Capacity))
<1> DEFINE f == [i \in 1 .. Capacity |-> i - 1]
<1>1. f \in [1 .. Capacity -> Slots]
  BY ArenaAssumption DEF Slots
<1>2. ASSUME NEW s \in Slots PROVE \E i \in 1 .. Capacity : f[i] = s
  <2>1. s + 1 \in 1 .. Capacity /\ f[s + 1] = s
    BY ArenaAssumption DEF Slots
  <2> QED
    BY <2>1
<1>3. IsFreeList(ArenaNew(Capacity), Capacity, f)
  BY ArenaAssumption, <1>1, <1>2 DEF IsFreeList, ArenaNew, Slots
<1> QED
  BY <1>1, <1>3, ArenaAssumption DEF FreeListOf

\* alloc takes the first element of the free list.
LEMMA AllocFreeList ==
  ASSUME NEW a \in ArenaType, FreeListOf(a), ~ArenaFull(a), NEW v \in Value
  PROVE  /\ FreeListOf(ArenaAlloc(a, v))
         /\ a.free_head \in Slots
         /\ ~a.slots[a.free_head].occupied
         /\ ArenaAlloc(a, v) \in ArenaType
<1>0. PICK n \in 0 .. Capacity : \E f \in [1 .. n -> Slots] : IsFreeList(a, n, f)
  BY DEF FreeListOf
<1>1. PICK f \in [1 .. n -> Slots] : IsFreeList(a, n, f)
  BY <1>0
<1>2. /\ n \in 1 .. Capacity /\ n - 1 \in 0 .. Capacity
      /\ a.free_head = f[1] /\ f[1] \in Slots /\ ~a.slots[f[1]].occupied
  BY <1>1, ArenaAssumption DEF IsFreeList, ArenaFull
<1> DEFINE g == [i \in 1 .. n - 1 |-> f[i + 1]]
           b == ArenaAlloc(a, v)
<1>3. g \in [1 .. n - 1 -> Slots]
  BY <1>2
<1>4. /\ b.slots = [a.slots EXCEPT ![f[1]] =
                     [generation |-> a.slots[f[1]].generation, occupied |-> TRUE, cell |-> v]]
      /\ b.free_head = a.slots[f[1]].cell
      /\ b.len = a.len + 1
  BY <1>2 DEF ArenaAlloc
<1>5. b \in ArenaType
  <2>1. a.slots[f[1]].cell \in Slots \cup {U32Max}
    BY <1>1, <1>2 DEF IsFreeList
  <2>2. b.len \in 0 .. Capacity
    BY <1>1, <1>2, <1>4, ArenaAssumption DEF IsFreeList
  <2>3. v \in Cell
    BY DEF Cell
  <2> QED
    BY <2>1, <2>2, <2>3, <1>2, <1>4 DEF ArenaType, ArenaAlloc
<1>6. IsFreeList(b, n - 1, g)
  <2>1. \A i, j \in 1 .. n - 1 : g[i] = g[j] => i = j
    BY <1>1, <1>2 DEF IsFreeList
  <2>2. ASSUME NEW s \in Slots
        PROVE  ~b.slots[s].occupied <=> \E i \in 1 .. n - 1 : g[i] = s
    <3>1. CASE s = f[1]
      <4>1. b.slots[s].occupied
        BY <3>1, <1>2, <1>4 DEF ArenaType
      <4>2. \A i \in 1 .. n - 1 : g[i] # s
        BY <3>1, <1>1, <1>2 DEF IsFreeList
      <4> QED
        BY <4>1, <4>2
    <3>2. CASE s # f[1]
      <4>1. b.slots[s].occupied = a.slots[s].occupied
        BY <3>2, <1>4, <1>2 DEF ArenaType
      <4>2. (\E i \in 1 .. n : f[i] = s) <=> \E i \in 1 .. n - 1 : g[i] = s
        <5>1. ASSUME NEW i \in 1 .. n, f[i] = s PROVE \E k \in 1 .. n - 1 : g[k] = s
          <6>1. i - 1 \in 1 .. n - 1 /\ g[i - 1] = s
            BY <5>1, <3>2, <1>2
          <6> QED
            BY <6>1
        <5>2. ASSUME NEW i \in 1 .. n - 1, g[i] = s PROVE \E k \in 1 .. n : f[k] = s
          BY <5>2, <1>2
        <5> QED
          BY <5>1, <5>2
      <4> QED
        BY <4>1, <4>2, <1>1 DEF IsFreeList
    <3> QED
      BY <3>1, <3>2
  <2>3. b.free_head = IF n - 1 = 0 THEN U32Max ELSE g[1]
    BY <1>1, <1>2, <1>4 DEF IsFreeList
  <2>4. ASSUME NEW i \in 1 .. n - 1
        PROVE  b.slots[g[i]].cell = IF i = n - 1 THEN U32Max ELSE g[i + 1]
    <3>1. g[i] # f[1] /\ g[i] \in Slots /\ g[i] = f[i + 1] /\ i + 1 \in 1 .. n
      BY <1>1, <1>2 DEF IsFreeList
    <3>2. b.slots[g[i]].cell = a.slots[f[i + 1]].cell
      BY <3>1, <1>2, <1>4 DEF ArenaType
    <3> QED
      BY <3>1, <3>2, <1>1 DEF IsFreeList
  <2>5. b.len = Capacity - (n - 1)
    BY <1>1, <1>2, <1>4, ArenaAssumption DEF IsFreeList
  <2> QED
    BY <2>1, <2>2, <2>3, <2>4, <2>5, ZenonT(60) DEF IsFreeList
<1> QED
  BY <1>2, <1>3, <1>5, <1>6 DEF FreeListOf

\* remove pushes the slot on the front of the free list.
LEMMA RemoveFreeList ==
  ASSUME NEW a \in ArenaType, FreeListOf(a), NEW h \in Handle, SlotMatches(a, h)
  PROVE  /\ FreeListOf(ArenaRemove(a, h))
         /\ h.slot \in Slots
         /\ ArenaRemove(a, h) \in ArenaType
<1>0. PICK n \in 0 .. Capacity : \E f \in [1 .. n -> Slots] : IsFreeList(a, n, f)
  BY DEF FreeListOf
<1>1. PICK f \in [1 .. n -> Slots] : IsFreeList(a, n, f)
  BY <1>0
<1>2. h.slot \in Slots /\ a.slots[h.slot].occupied
  BY DEF SlotMatches, ArenaType
<1> DEFINE g == [i \in 1 .. n + 1 |-> IF i = 1 THEN h.slot ELSE f[i - 1]]
           b == ArenaRemove(a, h)
<1>3. \A i \in 1 .. n : f[i] # h.slot
  BY <1>1, <1>2 DEF IsFreeList
<1>4. n + 1 \in 0 .. Capacity
  <2>1. SUFFICES ASSUME n = Capacity PROVE FALSE
    BY ArenaAssumption
  <2> DEFINE T == Slots \ {h.slot}
  <2>2. IsFiniteSet(T) /\ Cardinality(T) = Capacity - 1
    <3>1. IsFiniteSet(Slots) /\ Cardinality(Slots) = Capacity
      BY FS_Interval, ArenaAssumption DEF Slots
    <3> QED
      BY <3>1, <1>2, FS_RemoveElement, Zenon
  <2>3. IsFiniteSet(1 .. n) /\ Cardinality(1 .. n) = Capacity
    BY <2>1, FS_Interval, ArenaAssumption
  <2>4. f \in [1 .. n -> T]
    BY <1>3
  <2>5. \E i, j \in 1 .. n : i # j /\ f[i] = f[j]
    <3> HIDE DEF T
    <3> QED
      BY <2>2, <2>3, <2>4, FS_PigeonHole, ArenaAssumption
  <2> QED
    BY <2>5, <1>1 DEF IsFreeList
<1>5. g \in [1 .. n + 1 -> Slots]
  BY <1>2
<1>6. /\ b.slots = [a.slots EXCEPT ![h.slot] =
                     [generation |-> NextGeneration(a.slots[h.slot].generation),
                      occupied |-> FALSE, cell |-> a.free_head]]
      /\ b.free_head = h.slot
      /\ b.len = a.len - 1
  BY DEF ArenaRemove
<1>7. b \in ArenaType
  <2>1. NextGeneration(a.slots[h.slot].generation) \in 1 .. U32Max
    BY <1>2, ArenaAssumption DEF NextGeneration, ArenaType
  <2>2. a.free_head \in Cell
    BY DEF ArenaType, Cell
  <2>3. b.len \in 0 .. Capacity
    BY <1>1, <1>4, <1>6, ArenaAssumption, SMTT(60) DEF IsFreeList
  <2> QED
    BY <2>1, <2>2, <2>3, <1>2, <1>6 DEF ArenaType, ArenaRemove
<1>8. IsFreeList(b, n + 1, g)
  <2>1. \A i, j \in 1 .. n + 1 : g[i] = g[j] => i = j
    BY <1>1, <1>3 DEF IsFreeList
  <2>2. ASSUME NEW s \in Slots
        PROVE  ~b.slots[s].occupied <=> \E i \in 1 .. n + 1 : g[i] = s
    <3>1. CASE s = h.slot
      <4>1. ~b.slots[s].occupied
        BY <3>1, <1>2, <1>6 DEF ArenaType
      <4>2. 1 \in 1 .. n + 1 /\ g[1] = s
        BY <3>1
      <4> QED
        BY <4>1, <4>2, SMTT(60)
    <3>2. CASE s # h.slot
      <4>1. b.slots[s].occupied = a.slots[s].occupied
        BY <3>2, <1>6, <1>2 DEF ArenaType
      <4>2. ASSUME NEW i \in 1 .. n, f[i] = s PROVE \E k \in 1 .. n + 1 : g[k] = s
        <5>1. i + 1 \in 1 .. n + 1 /\ g[i + 1] = s
          BY <4>2
        <5> QED
          BY <5>1
      <4>3. ASSUME NEW i \in 1 .. n + 1, g[i] = s PROVE \E k \in 1 .. n : f[k] = s
        <5>1. i - 1 \in 1 .. n /\ f[i - 1] = s
          BY <4>3, <3>2
        <5> QED
          BY <5>1
      <4> QED
        BY <4>1, <4>2, <4>3, <1>1, SMTT(60) DEF IsFreeList
    <3> QED
      BY <3>1, <3>2
  <2>3. b.free_head = IF n + 1 = 0 THEN U32Max ELSE g[1]
    BY <1>6, SMTT(60)
  <2>4. ASSUME NEW i \in 1 .. n + 1
        PROVE  b.slots[g[i]].cell = IF i = n + 1 THEN U32Max ELSE g[i + 1]
    <3>1. CASE i = 1
      <4>1. b.slots[g[1]].cell = a.free_head
        BY <1>6, <1>2, SMTT(60) DEF ArenaType
      <4> QED
        BY <4>1, <3>1, <1>1, SMTT(60) DEF IsFreeList
    <3>2. CASE i # 1
      <4>1. g[i] = f[i - 1] /\ i - 1 \in 1 .. n /\ f[i - 1] # h.slot
        BY <3>2, <1>3
      <4>2. b.slots[g[i]].cell = a.slots[f[i - 1]].cell
        BY <4>1, <1>6 DEF ArenaType
      <4> QED
        BY <4>1, <4>2, <3>2, <1>1 DEF IsFreeList
    <3> QED
      BY <3>1, <3>2
  <2>5. b.len = Capacity - (n + 1)
    BY <1>1, <1>6, ArenaAssumption DEF IsFreeList
  <2> QED
    BY <2>1, <2>2, <2>3, <2>4, <2>5 DEF IsFreeList
<1> QED
  BY <1>2, <1>4, <1>5, <1>7, <1>8 DEF FreeListOf

\* A write through get_mut leaves the free list alone.
LEMMA SetFreeList ==
  ASSUME NEW a \in ArenaType, FreeListOf(a), NEW h \in Handle, ArenaHas(a, h),
         NEW v \in Value
  PROVE  /\ FreeListOf(ArenaSet(a, h, v))
         /\ h.slot \in Slots
         /\ ArenaSet(a, h, v) \in ArenaType
<1>0. PICK n \in 0 .. Capacity : \E f \in [1 .. n -> Slots] : IsFreeList(a, n, f)
  BY DEF FreeListOf
<1>1. PICK f \in [1 .. n -> Slots] : IsFreeList(a, n, f)
  BY <1>0
<1>2. h.slot \in Slots /\ a.slots[h.slot].occupied
  BY DEF ArenaHas, SlotMatches, ArenaType
<1> DEFINE b == ArenaSet(a, h, v)
<1>3. /\ b.slots = [a.slots EXCEPT ![h.slot] = [a.slots[h.slot] EXCEPT !.cell = v]]
      /\ b.free_head = a.free_head
      /\ b.len = a.len
      /\ b \in ArenaType
  <2>1. v \in Cell
    BY DEF Cell
  <2> QED
    BY <2>1, <1>2, ZenonT(60) DEF ArenaSet, ArenaType
<1>4. \A s \in Slots : b.slots[s].occupied = a.slots[s].occupied
  BY <1>2, <1>3 DEF ArenaType
<1>5. \A i \in 1 .. n : b.slots[f[i]].cell = a.slots[f[i]].cell
  <2>1. \A i \in 1 .. n : f[i] # h.slot
    BY <1>1, <1>2 DEF IsFreeList
  <2> QED
    BY <2>1, <1>2, <1>3 DEF ArenaType
<1>6. IsFreeList(b, n, f)
  BY <1>1, <1>3, <1>4, <1>5 DEF IsFreeList
<1> QED
  BY <1>2, <1>3, <1>6 DEF FreeListOf

Inv == TypeOK /\ FreeListCoversFreeSlots /\ GenerationsAdvance

\* Arena::new establishes the invariant.
LEMMA InitInv == Init => Inv
<1> SUFFICES ASSUME Init PROVE Inv
  OBVIOUS
<1>1. TypeOK
  BY ArenaAssumption DEF Init, TypeOK, ArenaType, ArenaNew, Slots, Cell
<1>2. FreeListCoversFreeSlots
  BY NewFreeList DEF Init, FreeListOf, FreeListCoversFreeSlots
<1>3. GenerationsAdvance
  BY DEF Init, GenerationsAdvance
<1> QED
  BY <1>1, <1>2, <1>3 DEF Inv

\* Every call preserves the invariant, whatever handle it is given.
LEMMA NextInv == Inv /\ [Next]_vars => Inv'
<1> SUFFICES ASSUME Inv, [Next]_vars PROVE Inv'
  OBVIOUS
<1> USE DEF Inv
<1>0. arena \in ArenaType /\ FreeListOf(arena)
  BY SMTT(60) DEF TypeOK, FreeListCoversFreeSlots, FreeListOf
<1>a. /\ arena.slots \in [Slots -> [generation : 1 .. U32Max, occupied : BOOLEAN, cell : Cell]]
      /\ \A s \in Slots : arena.slots[s].occupied => arena.slots[s].cell \in Value
      /\ removed \in [Slots -> Nat]
      /\ issued \subseteq [idx : [slot : Slots, generation : 1 .. U32Max], epoch : Nat]
      /\ alive \in BOOLEAN
  BY DEF TypeOK, ArenaType
<1>b. /\ DOMAIN arena.slots = Slots
      /\ \A s \in Slots : arena.slots[s].occupied => arena.slots[s].cell \in Value
  BY <1>a
<1>c. ASSUME UNCHANGED <<arena, removed, issued>>, alive' \in BOOLEAN PROVE Inv'
  <2>1. TypeOK'
    BY <1>c DEF TypeOK
  <2>2. FreeListCoversFreeSlots'
    BY <1>c DEF FreeListCoversFreeSlots
  <2>3. GenerationsAdvance'
    BY <1>c DEF GenerationsAdvance
  <2> QED
    BY <2>1, <2>2, <2>3
<1>1. ASSUME NEW v \in Value, AllocFails(v) PROVE Inv'
  BY <1>a, <1>c, <1>1 DEF AllocFails
<1>2. ASSUME NEW v \in Value, Alloc(v) PROVE Inv'
  <2>1. /\ FreeListOf(arena') /\ arena' \in ArenaType
        /\ arena.free_head \in Slots
    BY <1>0, <1>2, AllocFreeList, SMTT(60) DEF Alloc
  <2> DEFINE i == arena.free_head
  <2>2. /\ arena'.slots = [arena.slots EXCEPT ![i] =
             [generation |-> arena.slots[i].generation, occupied |-> TRUE, cell |-> v]]
        /\ issued' = issued \cup {[idx |-> ArenaIdx(i, arena.slots[i].generation),
                                   epoch |-> removed[i]]}
        /\ removed' = removed
    BY <1>2 DEF Alloc, ArenaAlloc, AllocIdx, ArenaIdx
  <2>3. /\ arena'.slots[i].generation = arena.slots[i].generation /\ arena'.slots[i].cell = v
        /\ \A s \in Slots : s # i => arena'.slots[s] = arena.slots[s]
    BY <1>b, <2>1, <2>2
  <2>4. \A s \in Slots : arena'.slots[s].generation = arena.slots[s].generation
    BY <2>3
  <2>5. TypeOK'
    <3>1. \A s \in Slots : arena'.slots[s].occupied => arena'.slots[s].cell \in Value
      BY <1>b, <2>3
    <3>2. issued' \subseteq [idx : [slot : Slots, generation : 1 .. U32Max], epoch : Nat]
      <4>1. i \in Slots /\ arena.slots[i].generation \in 1 .. U32Max /\ removed[i] \in Nat
        BY <1>a, <2>1
      <4> QED
        BY <1>a, <2>2, <4>1, SMTT(60) DEF ArenaIdx
    <3>3. alive' \in BOOLEAN /\ removed' \in [Slots -> Nat]
      BY <1>a, <1>2, <2>2 DEF Alloc
    <3> QED
      BY <2>1, <3>1, <3>2, <3>3 DEF TypeOK
  <2>6. GenerationsAdvance'
    <3> SUFFICES ASSUME NEW k \in issued'
                 PROVE  LET s == k.idx.slot
                            d == removed[s] - k.epoch
                            g == k.idx.generation + d
                        IN  /\ d >= 0
                            /\ d < U32Max => arena'.slots[s].generation =
                                               IF g <= U32Max THEN g ELSE g - U32Max
      BY <2>2 DEF GenerationsAdvance
    <3>1. CASE k \in issued
      BY <1>a, <2>4, <3>1 DEF GenerationsAdvance
    <3>2. CASE k = [idx |-> ArenaIdx(i, arena.slots[i].generation), epoch |-> removed[i]]
      <4>1. /\ k.idx.slot = i /\ k.idx.generation = arena.slots[i].generation /\ k.epoch = removed[i]
            /\ removed[i] \in Nat /\ arena.slots[i].generation \in 1 .. U32Max
        BY <1>a, <2>1, <3>2 DEF ArenaIdx
      <4> QED
        BY <2>1, <2>4, <4>1, ArenaAssumption, SMTT(60)
    <3> QED
      BY <2>2, <3>1, <3>2, Zenon
  <2> QED
    BY <2>1, <2>5, <2>6 DEF FreeListOf, FreeListCoversFreeSlots
<1>3. ASSUME NEW h \in Handle, Get(h) PROVE Inv'
  BY <1>a, <1>c, <1>3 DEF Get
<1>4. ASSUME NEW h \in Handle, Remove(h) PROVE Inv'
  <2>1. /\ FreeListOf(arena') /\ arena' \in ArenaType
        /\ h.slot \in Slots
    BY <1>0, <1>4, RemoveFreeList DEF Remove
  <2>2. /\ arena'.slots = [arena.slots EXCEPT ![h.slot] =
             [generation |-> NextGeneration(arena.slots[h.slot].generation),
              occupied |-> FALSE, cell |-> arena.free_head]]
        /\ removed' = [removed EXCEPT ![h.slot] = @ + 1]
        /\ issued' = issued
    BY <1>4, SMTT(60) DEF Remove, ArenaRemove
  <2>3. /\ arena'.slots[h.slot].generation = NextGeneration(arena.slots[h.slot].generation)
        /\ ~arena'.slots[h.slot].occupied
        /\ \A s \in Slots : s # h.slot => arena'.slots[s] = arena.slots[s]
        /\ removed' = [removed EXCEPT ![h.slot] = @ + 1]
    BY <1>b, <2>1, <2>2
  <2>4. TypeOK'
    <3>1. \A s \in Slots : arena'.slots[s].occupied => arena'.slots[s].cell \in Value
      BY <1>b, <2>3
    <3>2. removed' \in [Slots -> Nat]
      BY <1>a, <2>1, <2>3
    <3>3. alive' \in BOOLEAN /\ issued' = issued
      BY <1>a, <1>4, <2>2 DEF Remove
    <3> QED
      BY <1>a, <2>1, <3>1, <3>2, <3>3 DEF TypeOK
  <2>5. ASSUME NEW k \in issued
        PROVE  LET s == k.idx.slot
                   d == removed'[s] - k.epoch
                   g == k.idx.generation + d
               IN  /\ d >= 0
                   /\ d < U32Max => arena'.slots[s].generation =
                                      IF g <= U32Max THEN g ELSE g - U32Max
    <3>1. /\ k.idx.slot \in Slots /\ k.idx.generation \in 1 .. U32Max /\ k.epoch \in Nat
          /\ removed[k.idx.slot] \in Nat
      BY <1>a
    <3>2. CASE k.idx.slot = h.slot
      <4> DEFINE s == h.slot
                 gen == arena.slots[s].generation
      <4>1. removed'[s] = removed[s] + 1
        BY <1>a, <2>1, <2>3
      <4>2. arena'.slots[s].generation = NextGeneration(gen) /\ gen \in 1 .. U32Max
        BY <1>a, <2>1, <2>3
      <4>3. /\ removed[s] - k.epoch >= 0
            /\ removed[s] - k.epoch < U32Max =>
                 gen = IF k.idx.generation + (removed[s] - k.epoch) <= U32Max
                         THEN k.idx.generation + (removed[s] - k.epoch)
                         ELSE k.idx.generation + (removed[s] - k.epoch) - U32Max
        BY <3>1, <3>2, ArenaAssumption, SMTT(60) DEF GenerationsAdvance
      <4> HIDE DEF gen
      <4> QED
        BY <3>1, <3>2, <4>1, <4>2, <4>3, ArenaAssumption, SMTT(60) DEF NextGeneration
    <3>3. CASE k.idx.slot # h.slot
      BY <1>a, <3>1, <3>3, <2>3, SMTT(60) DEF GenerationsAdvance
    <3> QED
      BY <3>2, <3>3
  <2> QED
    BY <2>1, <2>2, <2>4, <2>5, ZenonT(60)
       DEF FreeListOf, FreeListCoversFreeSlots, GenerationsAdvance
<1>5. ASSUME NEW h \in Handle, RemoveFails(h) PROVE Inv'
  BY <1>a, <1>c, <1>5 DEF RemoveFails
<1>6. ASSUME NEW h \in Handle, NEW v \in Value, GetMut(h, v) PROVE Inv'
  <2>1. CASE ArenaHas(arena, h)
    <3>1. /\ FreeListOf(arena') /\ arena' \in ArenaType
          /\ h.slot \in Slots
      BY <2>1, <1>0, <1>6, SetFreeList DEF GetMut
    <3>2. arena'.slots = [arena.slots EXCEPT ![h.slot] = [arena.slots[h.slot] EXCEPT !.cell = v]]
      BY <2>1, <1>0, <1>6, <3>1 DEF GetMut, ArenaSet, ArenaType
    <3>3. \A s \in Slots :
            /\ arena'.slots[s].generation = arena.slots[s].generation
            /\ arena'.slots[s].occupied => arena'.slots[s].cell \in Value
      BY <1>a, <3>1, <3>2
    <3> QED
      BY <3>1, <3>3, <1>6, Zenon
         DEF GetMut, TypeOK, FreeListOf, FreeListCoversFreeSlots, GenerationsAdvance
  <2>2. CASE ~ArenaHas(arena, h)
    BY <1>a, <1>c, <2>2, <1>6 DEF GetMut
  <2> QED
    BY <2>1, <2>2
<1>7. CASE Drop
  BY <1>a, <1>c, <1>7, ZenonT(60) DEF Drop
<1>8. CASE UNCHANGED vars
  BY <1>a, <1>c, <1>8 DEF vars
<1> QED
  BY <1>1, <1>2, <1>3, <1>4, <1>5, <1>6, <1>7, <1>8 DEF Next

\* The state reached by any sequence of arena calls satisfies the invariant.
THEOREM ArenaInvariant == Spec => []Inv
  BY InitInv, NextInv, PTL DEF Spec

\* After any sequence of calls the intrusive free list links exactly the
\* unoccupied slots, so alloc never touches a live or an out-of-range slot.
THEOREM FreeListSound == Spec => []FreeListCoversFreeSlots
<1>1. Inv => FreeListCoversFreeSlots
  BY DEF Inv
<1> QED
  BY <1>1, ArenaInvariant, PTL

\* Links, generations and len stay in the ranges of their fields: an occupied
\* slot holds a value, and no generation is ever that of SENTINEL.
THEOREM FieldsInRange == Spec => []TypeOK
<1>1. Inv => TypeOK
  BY DEF Inv
<1> QED
  BY <1>1, ArenaInvariant, PTL

\* A stale handle resolves only after u32::MAX further removals of its slot.
THEOREM StaleHandleSound == Spec => []StaleHandleWindow
<1>1. Inv => StaleHandleWindow
  <2> SUFFICES ASSUME Inv, NEW h \in issued, ArenaHas(arena, h.idx),
                      removed[h.idx.slot] # h.epoch
               PROVE  removed[h.idx.slot] >= h.epoch + U32Max
    BY DEF StaleHandleWindow
  <2>1. /\ h.idx.slot \in Slots /\ h.idx.generation \in 1 .. U32Max /\ h.epoch \in Nat
        /\ removed[h.idx.slot] \in Nat
    BY DEF Inv, TypeOK
  <2>2. arena.slots[h.idx.slot].generation = h.idx.generation
    BY SMTT(60) DEF ArenaHas, SlotMatches
  <2> DEFINE d == removed[h.idx.slot] - h.epoch
             g == h.idx.generation + d
  <2>3. /\ d >= 0
        /\ d < U32Max => arena.slots[h.idx.slot].generation = IF g <= U32Max THEN g ELSE g - U32Max
    BY DEF Inv, GenerationsAdvance
  <2>4. d \in Int /\ d # 0
    BY <2>1
  <2>5. SUFFICES ASSUME d < U32Max PROVE FALSE
    BY <2>1, <2>4, ArenaAssumption, SMTT(60)
  <2>6. h.idx.generation = IF g <= U32Max THEN g ELSE g - U32Max
    BY <2>2, <2>3, <2>5
  <2> HIDE DEF d
  <2> QED
    BY <2>1, <2>3, <2>4, <2>5, <2>6, ArenaAssumption
<1> QED
  BY <1>1, ArenaInvariant, PTL
-----------------------------------------------------------------------------

Taken(a) == {i \in DOMAIN a.slots : a.slots[i].occupied}

StoreOf(a) == [h \in LiveHandles(a) |-> ArenaGet(a, h)]

\* get, get_mut and remove accept exactly the handles of the stored values.
LEMMA LiveIffMatches ==
  ASSUME NEW a \in ArenaType, NEW h \in Handle
  PROVE  /\ h \in LiveHandles(a) <=> SlotMatches(a, h)
         /\ ArenaHas(a, h) <=> SlotMatches(a, h)
<1>1. h = ArenaIdx(h.slot, h.generation)
  BY DEF Handle, ArenaIdx
<1>2. \A i \in DOMAIN a.slots : /\ ArenaIdx(i, a.slots[i].generation).slot = i
                                /\ ArenaIdx(i, a.slots[i].generation).generation = a.slots[i].generation
  BY DEF ArenaIdx
<1>3. h \in LiveHandles(a) <=> SlotMatches(a, h)
  BY <1>1, <1>2 DEF LiveHandles, SlotMatches
<1>4. SlotMatches(a, h) => h.generation # 0
  BY ArenaAssumption DEF SlotMatches, ArenaType
<1>5. SENTINEL.generation = 0
  BY DEF SENTINEL, ArenaIdx
<1> QED
  BY <1>3, <1>4, <1>5 DEF ArenaHas, IsValid

\* Every handle of a stored value is a slot's index with its generation.
LEMMA LiveAreHandles ==
  ASSUME NEW a \in ArenaType
  PROVE  LiveHandles(a) \subseteq Handle
<1> SUFFICES ASSUME NEW i \in DOMAIN a.slots PROVE ArenaIdx(i, a.slots[i].generation) \in Handle
  BY DEF LiveHandles
<1>1. i \in 0 .. Capacity /\ a.slots[i].generation \in 0 .. U32Max
  BY ArenaAssumption DEF ArenaType, Slots
<1> QED
  BY <1>1 DEF ArenaIdx, Handle

\* There are as many stored values as occupied slots.
LEMMA LiveCount ==
  ASSUME NEW a \in ArenaType
  PROVE  /\ Taken(a) \subseteq Slots
         /\ IsFiniteSet(Taken(a)) /\ IsFiniteSet(Slots) /\ Cardinality(Slots) = Capacity
         /\ Cardinality(Taken(a)) <= Capacity
         /\ Cardinality(Taken(a)) = Capacity => Taken(a) = Slots
         /\ Cardinality(LiveHandles(a)) = Cardinality(Taken(a))
<1>1. Taken(a) \subseteq Slots
  BY DEF Taken, ArenaType
<1>2. IsFiniteSet(Slots) /\ Cardinality(Slots) = Capacity
  BY FS_Interval, ArenaAssumption DEF Slots
<1>3. /\ IsFiniteSet(Taken(a)) /\ Cardinality(Taken(a)) <= Capacity
      /\ Cardinality(Taken(a)) = Capacity => Taken(a) = Slots
  BY <1>1, <1>2, FS_Subset
<1> DEFINE f == [i \in Taken(a) |-> ArenaIdx(i, a.slots[i].generation)]
<1>4. f \in Bijection(Taken(a), LiveHandles(a))
  <2>1. \A h \in LiveHandles(a) : \E i \in Taken(a) : f[i] = h
    BY DEF LiveHandles, Taken
  <2>2. f \in [Taken(a) -> LiveHandles(a)]
    BY DEF LiveHandles, Taken
  <2>3. \A i, j \in Taken(a) : f[i] = f[j] => i = j
    <3>1. \A i \in Taken(a) : f[i].slot = i
      BY DEF ArenaIdx
    <3> QED
      BY <3>1
  <2> HIDE DEF f
  <2> QED
    BY <2>1, <2>2, <2>3 DEF Bijection, Injection, IsInjective, Surjection
<1>5. Cardinality(LiveHandles(a)) = Cardinality(Taken(a))
  BY <1>3, <1>4, FS_Bijection DEF ExistsBijection
<1> QED
  BY <1>1, <1>2, <1>3, <1>5

\* alloc fails only when Capacity values are stored: an empty free list means
\* that no slot is unoccupied.
LEMMA FullStore ==
  ASSUME NEW a \in ArenaType, FreeListOf(a), ArenaFull(a)
  PROVE  Cardinality(LiveHandles(a)) = Capacity
<1>1. PICK n \in 0 .. Capacity : \E f \in [1 .. n -> Slots] : IsFreeList(a, n, f)
  BY DEF FreeListOf
<1>2. PICK f \in [1 .. n -> Slots] : IsFreeList(a, n, f)
  BY <1>1
<1>3. n = 0
  BY <1>2, ArenaAssumption DEF IsFreeList, ArenaFull, Slots
<1>4. \A s \in Slots : a.slots[s].occupied
  BY <1>2, <1>3 DEF IsFreeList
<1>5. Taken(a) = Slots
  BY <1>4 DEF Taken, ArenaType
<1> QED
  BY <1>5, LiveCount

\* alloc stores its value under a handle that was not live and leaves the
\* values of the other handles where they were.
LEMMA AllocStore ==
  ASSUME NEW a \in ArenaType, FreeListOf(a), ~ArenaFull(a), NEW v \in Value
  PROVE  LET h == AllocIdx(a)
         IN  /\ h \in Handle \ LiveHandles(a)
             /\ Cardinality(LiveHandles(a)) < Capacity
             /\ StoreOf(ArenaAlloc(a, v)) =
                  [k \in LiveHandles(a) \cup {h} |-> IF k = h THEN v ELSE StoreOf(a)[k]]
<1> DEFINE h == AllocIdx(a)
           b == ArenaAlloc(a, v)
           s == a.free_head
<1>1. s \in Slots /\ ~a.slots[s].occupied /\ b \in ArenaType
  BY AllocFreeList
<1>2. h.slot = s /\ h.generation = a.slots[s].generation /\ h \in Handle
  BY <1>1, ArenaAssumption, SMTT(60) DEF AllocIdx, ArenaIdx, Handle, ArenaType, Slots
<1>3. h \notin LiveHandles(a)
  BY <1>1, <1>2, LiveIffMatches DEF SlotMatches
<1>4. Cardinality(LiveHandles(a)) < Capacity
  <2>1. Taken(a) # Slots
    BY <1>1 DEF Taken
  <2>2. Cardinality(Taken(a)) \in Nat
    BY LiveCount, FS_CardinalityType
  <2> QED
    BY <2>1, <2>2, LiveCount, ArenaAssumption
<1>5. b.slots = [a.slots EXCEPT ![s] = [generation |-> a.slots[s].generation,
                                        occupied |-> TRUE, cell |-> v]]
  BY DEF ArenaAlloc
<1>6. \A k \in Handle : SlotMatches(b, k) <=> SlotMatches(a, k) \/ k = h
  <2> TAKE k \in Handle
  <2>1. k = h <=> k.slot = s /\ k.generation = a.slots[s].generation
    BY <1>2 DEF Handle
  <2> QED
    BY <1>1, <1>5, <2>1 DEF SlotMatches, ArenaType
<1>7. LiveHandles(b) = LiveHandles(a) \cup {h}
  BY <1>1, <1>2, <1>6, LiveIffMatches, LiveAreHandles
<1>8. \A k \in LiveHandles(b) : ArenaGet(b, k) = IF k = h THEN v ELSE ArenaGet(a, k)
  <2> TAKE k \in LiveHandles(b)
  <2>1. CASE k = h
    BY <2>1, <1>1, <1>2, <1>5 DEF ArenaGet, ArenaType
  <2>2. CASE k # h
    <3>1. k \in Handle /\ SlotMatches(a, k)
      BY <2>2, <1>7, LiveIffMatches, LiveAreHandles
    <3>2. k.slot # s /\ k.slot \in DOMAIN a.slots
      BY <3>1, <1>1 DEF SlotMatches
    <3> QED
      BY <2>2, <3>2, <1>5 DEF ArenaGet
  <2> QED
    BY <2>1, <2>2
<1> HIDE DEF h, b
<1>9. StoreOf(b) = [k \in LiveHandles(a) \cup {h} |-> IF k = h THEN v ELSE StoreOf(a)[k]]
  <2>1. \A k \in LiveHandles(a) : StoreOf(a)[k] = ArenaGet(a, k)
    BY DEF StoreOf
  <2>2. StoreOf(b) = [k \in LiveHandles(b) |-> ArenaGet(b, k)]
    BY DEF StoreOf
  <2>3. \A k \in LiveHandles(b) : ArenaGet(b, k) = IF k = h THEN v ELSE StoreOf(a)[k]
    BY <1>7, <1>8, <2>1
  <2> QED
    BY <1>7, <2>2, <2>3
<1> QED
  BY <1>2, <1>3, <1>4, <1>9 DEF h, b

\* remove takes its own handle's value out of the store and no other.
LEMMA RemoveStore ==
  ASSUME NEW a \in ArenaType, FreeListOf(a), NEW h \in Handle, SlotMatches(a, h)
  PROVE  StoreOf(ArenaRemove(a, h)) = [k \in LiveHandles(a) \ {h} |-> StoreOf(a)[k]]
<1> DEFINE b == ArenaRemove(a, h)
<1>1. b \in ArenaType /\ h.slot \in Slots
  BY RemoveFreeList
<1>2. b.slots = [a.slots EXCEPT ![h.slot] =
                   [generation |-> NextGeneration(a.slots[h.slot].generation),
                    occupied |-> FALSE, cell |-> a.free_head]]
  BY DEF ArenaRemove
<1>3. \A k \in Handle : /\ SlotMatches(b, k) <=> SlotMatches(a, k) /\ k # h
                        /\ SlotMatches(b, k) => ArenaGet(b, k) = ArenaGet(a, k)
  <2> TAKE k \in Handle
  <2>1. k = h <=> k.slot = h.slot /\ k.generation = h.generation
    BY DEF Handle
  <2> QED
    BY <1>1, <1>2, <2>1 DEF SlotMatches, ArenaType, ArenaGet
<1>4. LiveHandles(b) = LiveHandles(a) \ {h}
  BY <1>1, <1>3, LiveIffMatches, LiveAreHandles
<1>5. \A k \in LiveHandles(b) : ArenaGet(b, k) = StoreOf(a)[k]
  BY <1>1, <1>3, <1>4, LiveIffMatches, LiveAreHandles DEF StoreOf
<1> HIDE DEF b
<1>6. StoreOf(b) = [k \in LiveHandles(a) \ {h} |-> StoreOf(a)[k]]
  <2>1. StoreOf(b) = [k \in LiveHandles(b) |-> ArenaGet(b, k)]
    BY DEF StoreOf
  <2> QED
    BY <1>4, <1>5, <2>1
<1> QED
  BY <1>6 DEF b

\* A write through get_mut changes its own handle's value and no other.
LEMMA SetStore ==
  ASSUME NEW a \in ArenaType, FreeListOf(a), NEW h \in Handle, SlotMatches(a, h),
         NEW v \in Value
  PROVE  StoreOf(ArenaSet(a, h, v)) =
           [k \in LiveHandles(a) \cup {h} |-> IF k = h THEN v ELSE StoreOf(a)[k]]
<1> DEFINE b == ArenaSet(a, h, v)
<1>0. ArenaHas(a, h) /\ h \in LiveHandles(a)
  BY LiveIffMatches
<1>1. b \in ArenaType /\ h.slot \in Slots
  BY <1>0, SetFreeList
<1>2. b.slots = [a.slots EXCEPT ![h.slot] = [a.slots[h.slot] EXCEPT !.cell = v]]
  BY <1>1 DEF ArenaSet, ArenaType
<1>3. \A k \in Handle : /\ SlotMatches(b, k) <=> SlotMatches(a, k)
                        /\ SlotMatches(b, k) => ArenaGet(b, k) = IF k = h THEN v ELSE ArenaGet(a, k)
  <2> TAKE k \in Handle
  <2>1. k = h <=> k.slot = h.slot /\ k.generation = h.generation
    BY DEF Handle
  <2> QED
    BY <1>1, <1>2, <2>1 DEF SlotMatches, ArenaType, ArenaGet
<1>4. LiveHandles(b) = LiveHandles(a) \cup {h}
  BY <1>0, <1>1, <1>3, LiveIffMatches, LiveAreHandles
<1>5. \A k \in LiveHandles(b) : ArenaGet(b, k) = IF k = h THEN v ELSE StoreOf(a)[k]
  BY <1>0, <1>1, <1>3, <1>4, LiveIffMatches, LiveAreHandles DEF StoreOf
<1> HIDE DEF b
<1>6. StoreOf(b) = [k \in LiveHandles(a) \cup {h} |-> IF k = h THEN v ELSE StoreOf(a)[k]]
  <2>1. StoreOf(b) = [k \in LiveHandles(b) |-> ArenaGet(b, k)]
    BY DEF StoreOf
  <2> QED
    BY <1>4, <1>5, <2>1
<1> QED
  BY <1>6 DEF b

\* HandleStore counts with the same Cardinality.
LEMMA SameCardinality == \A S : Store!Cardinality(S) = Cardinality(S)
  BY DEF Cardinality, Store!Cardinality

\* A new arena is an empty store.
LEMMA InitMaps == Init => Store!Init
<1> SUFFICES ASSUME Init PROVE Store!Init
  OBVIOUS
<1>1. LiveHandles(arena) = {}
  BY DEF Init, LiveHandles, ArenaNew
<1>2. [h \in LiveHandles(arena) |-> ArenaGet(arena, h)] = [h \in {} |-> NONE]
  BY <1>1
<1> QED
  BY <1>2 DEF Init, Stored, Store!Init, Return, Store!Return

\* Every call of the arena is that call of the store.
LEMMA NextMaps == Inv /\ [Next]_vars => [Store!Next]_(Store!vars)
<1> SUFFICES ASSUME Inv, Next PROVE Store!Next
  <2>1. ASSUME UNCHANGED vars PROVE UNCHANGED Store!vars
    BY <2>1 DEF vars, Stored, Store!vars
  <2> QED
    BY <2>1
<1>0. arena \in ArenaType /\ FreeListOf(arena) /\ alive \in BOOLEAN
  BY DEF Inv, TypeOK, FreeListCoversFreeSlots, FreeListOf
<1> DEFINE Live == LiveHandles(arena)
<1>a. alive => Stored = StoreOf(arena) /\ DOMAIN Stored = Live
  BY DEF Stored, StoreOf
<1>b. alive' => Stored' = StoreOf(arena')
  BY DEF Stored, StoreOf
<1>c. UNCHANGED <<arena, alive>> => UNCHANGED Stored
  BY DEF Stored
<1>1. ASSUME NEW v \in Value, AllocFails(v) PROVE Store!Next
  <2>1. Cardinality(LiveHandles(arena)) = Capacity
    BY <1>0, <1>1, FullStore DEF AllocFails
  <2>2. Store!Alloc(v)
    BY <1>1, <1>a, <1>c, <2>1, SameCardinality DEF AllocFails, Store!Alloc, Return, Store!Return
  <2> QED
    BY <2>2 DEF Store!Next
<1>2. ASSUME NEW v \in Value, Alloc(v) PROVE Store!Next
  <2> DEFINE h == AllocIdx(arena)
  <2>1. /\ h \in Handle \ LiveHandles(arena)
        /\ Cardinality(LiveHandles(arena)) < Capacity
        /\ StoreOf(arena') =
             [k \in LiveHandles(arena) \cup {h} |-> IF k = h THEN v ELSE StoreOf(arena)[k]]
    BY <1>0, <1>2, AllocStore, Zenon DEF Alloc
  <2>2. ret' = Return(<<"alloc", v>>, h) /\ alive /\ alive'
    BY <1>2 DEF Alloc
  <2> HIDE DEF h
  <2>3. Store!Alloc(v)
    BY <1>a, <1>b, <2>1, <2>2, SameCardinality, SMTT(60) DEF Store!Alloc, Store!Put, Return, Store!Return
  <2> QED
    BY <2>3 DEF Store!Next
<1>3. ASSUME NEW h \in Handle, Get(h) PROVE Store!Next
  <2>1. ArenaHas(arena, h) <=> h \in LiveHandles(arena)
    BY <1>0, LiveIffMatches
  <2>2. Store!Get(h)
    BY <1>3, <1>a, <1>c, <2>1 DEF Get, Store!Get, StoreOf, Return, Store!Return
  <2> QED
    BY <2>2 DEF Store!Next
<1>4. ASSUME NEW h \in Handle, Remove(h) PROVE Store!Next
  <2>1. h \in LiveHandles(arena)
    BY <1>0, <1>4, LiveIffMatches DEF Remove
  <2>2. StoreOf(arena') = [k \in LiveHandles(arena) \ {h} |-> StoreOf(arena)[k]]
    BY <1>0, <1>4, RemoveStore DEF Remove
  <2>3. ret' = Return(<<"remove", h>>, ArenaGet(arena, h)) /\ alive /\ alive'
    BY <1>4 DEF Remove
  <2>4. Store!Remove(h)
    BY <1>a, <1>b, <2>1, <2>2, <2>3, SMTT(60) DEF Store!Remove, Return, Store!Return, StoreOf
  <2> QED
    BY <2>4 DEF Store!Next
<1>5. ASSUME NEW h \in Handle, RemoveFails(h) PROVE Store!Next
  <2>1. h \notin LiveHandles(arena)
    BY <1>0, <1>5, LiveIffMatches DEF RemoveFails
  <2>2. Store!Remove(h)
    BY <1>5, <1>a, <1>c, <2>1 DEF RemoveFails, Store!Remove, Return, Store!Return
  <2> QED
    BY <2>2 DEF Store!Next
<1>6. ASSUME NEW h \in Handle, NEW v \in Value, GetMut(h, v) PROVE Store!Next
  <2>1. CASE ArenaHas(arena, h)
    <3>1. h \in LiveHandles(arena) /\ SlotMatches(arena, h)
      BY <1>0, <2>1, LiveIffMatches
    <3>2. StoreOf(arena') =
            [k \in LiveHandles(arena) \cup {h} |-> IF k = h THEN v ELSE StoreOf(arena)[k]]
      BY <1>0, <1>6, <2>1, <3>1, SetStore, SMTT(60) DEF GetMut
    <3>3. ret' = Return(<<"get_mut", h, v>>, v) /\ alive /\ alive'
      BY <1>6, <2>1 DEF GetMut
    <3>4. Store!GetMut(h, v)
      BY <1>a, <1>b, <3>1, <3>2, <3>3 DEF Store!GetMut, Store!Put, Return, Store!Return
    <3> QED
      BY <3>4 DEF Store!Next
  <2>2. CASE ~ArenaHas(arena, h)
    <3>1. h \notin LiveHandles(arena)
      BY <1>0, <2>2, LiveIffMatches, SMTT(60)
    <3>2. Store!GetMut(h, v)
      BY <1>6, <1>a, <1>c, <2>2, <3>1 DEF GetMut, Store!GetMut, Return, Store!Return
    <3> QED
      BY <3>2 DEF Store!Next
  <2> QED
    BY <2>1, <2>2
<1>7. ASSUME Drop PROVE Store!Next
  <2>1. Cardinality(LiveHandles(arena)) = Cardinality(Taken(arena))
    BY <1>0, LiveCount
  <2>2. ~alive' => Stored' = [h \in {} |-> NONE]
    BY SMTT(60) DEF Stored
  <2>3. Store!Drop
    BY <1>7, <1>a, <2>1, <2>2, SameCardinality DEF Drop, Store!Drop, Return, Store!Return, Taken
  <2> QED
    BY <2>3 DEF Store!Next
<1> QED
  BY <1>1, <1>2, <1>3, <1>4, <1>5, <1>6, <1>7, SMTT(60) DEF Next

\* The arena is a store of at most Capacity values under opaque handles: what
\* any client sees of it, the abstract store could have answered.
THEOREM ArenaImplementsStore == Spec => ImplementsHandleStore
  BY InitMaps, NextMaps, ArenaInvariant, PTL DEF Spec, ImplementsHandleStore, Store!Spec
=============================================================================

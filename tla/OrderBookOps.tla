---------------------------- MODULE OrderBookOps ----------------------------
(***************************************************************************)
(* The order book of crates/orderbook as operators on a book value         *)
(*   [arena, levels, index]:                                               *)
(* levels[side] is the BTreeMap from prices to price levels, a level is an *)
(* intrusive doubly linked FIFO through the arena, and index finds the     *)
(* arena handle of an intent.  OrderBook drives these operators with every *)
(* sequence of calls; Engine drives them the way the matcher does.         *)
(*                                                                         *)
(* An order is [id, intent, side, price, quantity]; the fields the book    *)
(* only carries (origin_ts, instrument_id, order_type, tif) are left out.  *)
(* Arithmetic is that of a release build: a level's u64 total wraps at     *)
(* QtyMod.                                                                 *)
(*                                                                         *)
(* Operators that stand directly before the one they vary (WorstPrice,     *)
(* SpliceForward, ...) are faulty versions of it, kept to show that the    *)
(* properties notice the slip.                                             *)
(***************************************************************************)
EXTENDS ArenaOps, Sequences, FiniteSetsExt, Functions

CONSTANT QtyMod      \* 2^64, the width of total_qty

Side == {"Bid", "Ask"}

EmptyMap == [x \in {} |-> x]

MapPut(f, k, v) == [x \in DOMAIN f \cup {k} |-> IF x = k THEN v ELSE f[x]]

MapRemove(f, k) == Restrict(f, DOMAIN f \ {k})

OrderNode(o, prev, next) == [order |-> o, prev |-> prev, next |-> next]

PriceLevelDefault == [head |-> SENTINEL, tail |-> SENTINEL, len |-> 0, total_qty |-> 0]

BookNew(capacity) ==
  [arena  |-> ArenaNew(capacity),
   levels |-> [s \in Side |-> EmptyMap],
   index  |-> EmptyMap]

IsEmpty(b, side) == DOMAIN b.levels[side] = {}

WorstPrice(b, side) ==
  IF side = "Bid" THEN Min(DOMAIN b.levels[side]) ELSE Max(DOMAIN b.levels[side])

\* last_key_value of the bids, first_key_value of the asks.
BestPrice(b, side) ==
  IF side = "Bid" THEN Max(DOMAIN b.levels[side]) ELSE Min(DOMAIN b.levels[side])

IsCrossed(b) ==
  /\ ~IsEmpty(b, "Bid") /\ ~IsEmpty(b, "Ask")
  /\ BestPrice(b, "Bid") >= BestPrice(b, "Ask")

TopHandle(b, side) == b.levels[side][BestPrice(b, side)].head

\* peek_top returns Some, and the order it shows.
HasTop(b, side) ==
  /\ ~IsEmpty(b, side)
  /\ IsValid(TopHandle(b, side))
  /\ ArenaHas(b.arena, TopHandle(b, side))

TopOrder(b, side) == ArenaGet(b.arena, TopHandle(b, side)).order

LevelQty(b, side, price) ==
  IF price \in DOMAIN b.levels[side] THEN b.levels[side][price].total_qty ELSE 0

LowestFirst(side, rest) == Min(rest)

\* What the iterator of a side's map yields while rest is left of its prices:
\* bids are walked from the end of the map, asks from its beginning.
NextPrice(side, rest) == IF side = "Bid" THEN Max(rest) ELSE Min(rest)

\* bid_depth and ask_depth: at most max_levels pairs of price and quantity.
Depth(b, side, max_levels) ==
  LET prices == DOMAIN b.levels[side]
      at[k \in 1 .. Cardinality(prices)] == NextPrice(side, prices \ {at[j] : j \in 1 .. k - 1})
  IN  [k \in 1 .. Min({max_levels, Cardinality(prices)}) |-> <<at[k], LevelQty(b, side, at[k])>>]
-----------------------------------------------------------------------------
\* if let Some(n) = arena.get_mut(idx) { n.next = to }, and the same for prev.
SetNext(a, idx, to) ==
  IF ArenaHas(a, idx) THEN ArenaSet(a, idx, [ArenaGet(a, idx) EXCEPT !.next = to]) ELSE a

SetPrev(a, idx, to) ==
  IF ArenaHas(a, idx) THEN ArenaSet(a, idx, [ArenaGet(a, idx) EXCEPT !.prev = to]) ELSE a

SpliceForward(a, node) == SetNext(a, node.prev, node.next)

\* Relink the two neighbours around a removed node.
Splice(a, node) == SetPrev(SetNext(a, node.prev, node.next), node.next, node.prev)

\* A level that has become empty leaves the map.
StoreLevel(levels, side, price, level) ==
  [levels EXCEPT ![side] =
     IF level.len = 0 THEN MapRemove(@, price) ELSE MapPut(@, price, level)]

InsertResult(b, o) ==
  IF o.intent \in DOMAIN b.index THEN "DuplicateIntent"
  ELSE IF ArenaFull(b.arena) THEN "ArenaFull" ELSE "Ok"

\* insert when its result is Ok; otherwise the book is left alone.
Insert(b, o) ==
  LET idx   == AllocIdx(b.arena)
      level == IF o.price \in DOMAIN b.levels[o.side]
                 THEN b.levels[o.side][o.price] ELSE PriceLevelDefault
      tail  == level.tail
      a     == ArenaAlloc(b.arena, OrderNode(o, SENTINEL, SENTINEL))
  IN  [arena  |-> IF IsValid(tail) THEN SetPrev(SetNext(a, tail, idx), idx, tail) ELSE a,
       levels |-> StoreLevel(b.levels, o.side, o.price,
                    [head      |-> IF IsValid(tail) THEN level.head ELSE idx,
                     tail      |-> idx,
                     len       |-> level.len + 1,
                     total_qty |-> (level.total_qty + o.quantity) % QtyMod]),
       index  |-> MapPut(b.index, o.intent, idx)]

\* cancel returns Some, and the order it removes.
CancelFinds(b, intent) ==
  intent \in DOMAIN b.index /\ SlotMatches(b.arena, b.index[intent])

CancelOrder(b, intent) == ArenaGet(b.arena, b.index[intent]).order

\* cancel when it finds the order: the neighbours are spliced together.
Cancel(b, intent) ==
  LET idx   == b.index[intent]
      node  == ArenaGet(b.arena, idx)
      side  == node.order.side
      price == node.order.price
      level == b.levels[side][price]
      a     == ArenaRemove(b.arena, idx)
  IN  [arena  |-> Splice(a, node),
       levels |-> StoreLevel(b.levels, side, price,
                    [head      |-> IF IsValid(node.prev) THEN level.head ELSE node.next,
                     tail      |-> IF IsValid(node.next) THEN level.tail ELSE node.prev,
                     len       |-> level.len - 1,
                     total_qty |-> (level.total_qty - node.order.quantity) % QtyMod]),
       index  |-> MapRemove(b.index, intent)]

\* pop_top on a side that is not empty.
PopTop(b, side) ==
  LET price == BestPrice(b, side)
      level == b.levels[side][price]
      node  == ArenaGet(b.arena, level.head)
      a     == ArenaRemove(b.arena, level.head)
      more  == ArenaHas(a, node.next)
  IN  [arena  |-> SetPrev(a, node.next, SENTINEL),
       levels |-> StoreLevel(b.levels, side, price,
                    [head      |-> IF more THEN node.next ELSE SENTINEL,
                     tail      |-> IF more THEN level.tail ELSE SENTINEL,
                     len       |-> level.len - 1,
                     total_qty |-> (level.total_qty - node.order.quantity) % QtyMod]),
       index  |-> MapRemove(b.index, node.order.intent)]

ReduceOrderOnly(b, side, qty) ==
  LET head == TopHandle(b, side)
  IN  [b EXCEPT !.arena = ArenaSet(@, head, [ArenaGet(@, head) EXCEPT !.order.quantity = @ - qty])]

\* reduce_top on a side that is not empty.
ReduceTop(b, side, qty) ==
  LET price == BestPrice(b, side)
      head  == b.levels[side][price].head
      node  == ArenaGet(b.arena, head)
  IN  [arena  |-> ArenaSet(b.arena, head, [node EXCEPT !.order.quantity = @ - qty]),
       levels |-> [b.levels EXCEPT ![side][price].total_qty = (@ - qty) % QtyMod],
       index  |-> b.index]
-----------------------------------------------------------------------------
\* walk_level: the handles of a level in FIFO order, `len` steps from head.
WalkLevel(b, level) ==
  LET at[k \in 1 .. level.len] ==
        IF k = 1 THEN level.head
        ELSE IF ArenaHas(b.arena, at[k - 1])
          THEN ArenaGet(b.arena, at[k - 1]).next ELSE SENTINEL
  IN  [k \in 1 .. level.len |-> at[k]]

\* assert_invariants, I1 and I7: the walk meets live nodes whose back links
\* point at their predecessors, and it ends at the tail.
WellLinked(b, level) ==
  LET w == WalkLevel(b, level)
  IN  /\ level.len > 0
      /\ \A k \in 1 .. level.len :
           /\ IsValid(w[k]) /\ ArenaHas(b.arena, w[k])
           /\ ArenaGet(b.arena, w[k]).prev = IF k = 1 THEN SENTINEL ELSE w[k - 1]
      /\ level.tail = w[level.len]
      /\ ArenaGet(b.arena, level.tail).next = SENTINEL

\* The orders of one level in FIFO order, and all orders resting in the book.
LevelOrders(b, side, price) ==
  LET w == WalkLevel(b, b.levels[side][price])
  IN  [k \in DOMAIN w |-> ArenaGet(b.arena, w[k]).order]

Capacity(b) == Cardinality(DOMAIN b.arena.slots)

\* The queues behind a book's links, for the prices of P.
QueuesIn(b, P) ==
  [side \in Side |-> [price \in P |->
     IF price \in DOMAIN b.levels[side] THEN LevelOrders(b, side, price) ELSE << >>]]

RestingOrders(b) == {ArenaGet(b.arena, h).order : h \in LiveHandles(b.arena)}
=============================================================================

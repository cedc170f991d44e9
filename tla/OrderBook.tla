----------------------------- MODULE OrderBook ------------------------------
(***************************************************************************)
(* The order book (crates/orderbook/src/book.rs) under every sequence of   *)
(* its public mutating calls.                                              *)
(***************************************************************************)
EXTENDS OrderBookOps

CONSTANTS Intent,
          Offer,   \* for each capacity of a book the prices and quantities it is offered
          NONE

Price    == {p[1] : p \in UNION Range(Offer)}
Quantity == {p[2] : p \in UNION Range(Offer)}

ASSUME BookAssumption ==
  /\ U32Max \in Nat /\ QtyMod \in Nat \ {0}
  /\ DOMAIN Offer \subseteq 1 .. U32Max - 1
  /\ Price \subseteq Nat
  /\ Quantity \subseteq 1 .. QtyMod - 1

VARIABLES book,
          ret    \* the last call and what it returned

vars == <<book, ret>>

Return(call, result, o) == [call |-> call, result |-> result, order |-> o]

Order == [intent : Intent, side : Side, price : Price, quantity : Quantity]

Init ==
  /\ \E capacity \in DOMAIN Offer : book = BookNew(capacity)
  /\ ret = Return(<<"new">>, "unit", NONE)

CallInsert(o) ==
  /\ <<o.price, o.quantity>> \in Offer[Capacity(book)]
  /\ ret' = Return(<<"insert", o>>, InsertResult(book, o), NONE)
  /\ book' = IF InsertResult(book, o) = "Ok" THEN Insert(book, o) ELSE book

\* A cancel that finds nothing still removes the intent from the index.
CallCancel(intent) ==
  \/ /\ CancelFinds(book, intent)
     /\ ret' = Return(<<"cancel", intent>>, "Some", CancelOrder(book, intent))
     /\ book' = Cancel(book, intent)
  \/ /\ ~CancelFinds(book, intent)
     /\ ret' = Return(<<"cancel", intent>>, "None", NONE)
     /\ book' = [book EXCEPT !.index = MapRemove(@, intent)]

CallPopTop(side) ==
  \/ IsEmpty(book, side) /\ ret' = Return(<<"pop_top", side>>, "None", NONE) /\ UNCHANGED book
  \/ /\ ~IsEmpty(book, side)
     /\ ret' = Return(<<"pop_top", side>>, "Some", TopOrder(book, side))
     /\ book' = PopTop(book, side)

\* Callers keep reduce_top's contract, qty < the head's quantity; on an empty
\* side a release build returns.
CallReduceTop(side, qty) ==
  /\ ret' = Return(<<"reduce_top", side, qty>>, "unit", NONE)
  /\ \/ IsEmpty(book, side) /\ UNCHANGED book
     \/ /\ ~IsEmpty(book, side)
        /\ qty < TopOrder(book, side).quantity
        /\ book' = ReduceTop(book, side, qty)

Next ==
  \/ \E o \in Order : CallInsert(o)
  \/ \E intent \in Intent : CallCancel(intent)
  \/ \E side \in Side : CallPopTop(side)
  \/ \E side \in Side, most \in Quantity : \E qty \in 1 .. most : CallReduceTop(side, qty)

Spec == Init /\ [][Next]_vars
-----------------------------------------------------------------------------
\* The side and price of every level.
Levels(b) == {l \in Side \X Price : l[2] \in DOMAIN b.levels[l[1]]}

\* The book's documented invariants I1, I3, I4, I5 and I7 hold after every
\* call: no level is empty, every level's links are sound in both directions
\* from head to tail, its orders belong to it, and index leads from each
\* resting intent to its node.  No arena slot leaks: the occupied ones are
\* those index refers to.  The expects in insert, cancel, pop_top and
\* reduce_top rest on this.
BookWellFormed ==
  /\ \A side \in Side : \A price \in DOMAIN book.levels[side] :
       LET level == book.levels[side][price]
           w     == WalkLevel(book, level)
       IN  /\ WellLinked(book, level)
           /\ \A k \in DOMAIN w : LET o == ArenaGet(book.arena, w[k]).order IN
                /\ o.side = side /\ o.price = price
                /\ o.intent \in DOMAIN book.index /\ book.index[o.intent] = w[k]
  /\ Cardinality(DOMAIN book.index) =
       SumFunction([l \in Levels(book) |-> book.levels[l[1]][l[2]].len])
  /\ Range(book.index) = LiveHandles(book.arena)

\* I2: a level's running total is the sum of its orders' quantities (modulo
\* the width of a u64), whatever inserts, cancels, pops and partial fills
\* made it.
TotalsAreSums ==
  \A side \in Side : \A price \in DOMAIN book.levels[side] :
    LET q == LevelOrders(book, side, price)
    IN  book.levels[side][price].total_qty =
          SumFunction([k \in DOMAIN q |-> q[k].quantity]) % QtyMod

\* What a depth view shows is the book: from the best price on and no further
\* than asked, every price some order rests at, once; level_qty agrees for
\* every price.  The quantity shown is what rests there modulo the width of a
\* u64, the width of the level's running total, and so exactly what rests
\* there as long as that is below QtyMod.
DepthShowsTheBook ==
  \A side \in Side :
    LET resting(p) == {h \in LiveHandles(book.arena) :
                         LET o == ArenaGet(book.arena, h).order IN o.side = side /\ o.price = p}
        total(p)   == SumFunction([h \in resting(p) |-> ArenaGet(book.arena, h).order.quantity])
        better(p)  == {q \in Price : resting(q) # {} /\ (IF side = "Bid" THEN q >= p ELSE q <= p)}
        rank(p)    == Cardinality(better(p))
    IN  /\ \A p \in Price :
             /\ LevelQty(book, side, p) = total(p) % QtyMod
             /\ total(p) < QtyMod => LevelQty(book, side, p) = total(p)
        /\ \A n \in 0 .. Cardinality(Price) :
             {<<k, Depth(book, side, n)[k]>> : k \in DOMAIN Depth(book, side, n)}
               = {<<rank(p), <<p, LevelQty(book, side, p)>> >> : p \in {q \in Price : resting(q) # {} /\ rank(q) <= n}}

\* Behind its links the book is a FIFO queue per side and price: every call
\* returns, and changes, what the queues would.
Queues == INSTANCE BookSpec WITH capacity <- Capacity(book), queue <- QueuesIn(book, Price)

ImplementsQueues == Queues!Spec
=============================================================================

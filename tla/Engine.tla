------------------------------- MODULE Engine -------------------------------
(***************************************************************************)
(* The matching engine (crates/matcher): one order book per instrument and *)
(* one process() call at a time.  The call runs to its end before the next *)
(* begins; each iteration of cross_loop is a step of its own, so that the  *)
(* invariants also speak about the book in the middle of a sweep.  Event   *)
(* fields a request only passes through (origin_ts) are left out.          *)
(*                                                                         *)
(* Operators that stand directly before the one they vary (CrossingStrict, *)
(* SameOrderId, ...) are faulty versions of it, kept to show that the      *)
(* properties notice the slip.                                             *)
(***************************************************************************)
EXTENDS OrderBookOps, SequencesExt

CONSTANTS Instrument,
          BookCapacity,  \* capacities add_instrument is called with
          Intent,
          Price,         \* prices of requests; 0 is the invalid one
          Quantity,      \* quantities of requests; 0 is the invalid one
          MaxOrders,     \* bound on minted order ids
          NONE

ASSUME EngineAssumption ==
  /\ U32Max \in Nat
  /\ QtyMod \in Nat
  /\ MaxOrders \in Nat
  /\ BookCapacity \subseteq 0 .. U32Max
  /\ Price \subseteq Nat
  /\ Quantity \subseteq 0 .. QtyMod - 1

VARIABLES books,           \* instrument -> book
          next_order_id,
          call,            \* the call in progress or the last one
          out,             \* what it has emitted so far
          replica          \* ghost: id -> order, as a reader of the events sees them

vars == <<books, next_order_id, call, out, replica>>

TimeInForce == {"GTC", "IOC", "FOK"}

\* Requests, with the fields process() looks at; Amend looks at none.
NewRequest == [instrument : Instrument, side : Side, price : Price, quantity : Quantity,
               tif : TimeInForce, intent : Intent]

CancelRequest == [instrument : Instrument, intent : Intent]

Call(op, phase, req, id, remaining) ==
  [op |-> op, phase |-> phase, req |-> req, order_id |-> id, remaining |-> remaining]

Init ==
  /\ books = EmptyMap
  /\ next_order_id = 0
  /\ call = Call("new_engine", "done", NONE, NONE, 0)
  /\ out = << >>
  /\ replica = EmptyMap

Idle == call.phase = "done"
-----------------------------------------------------------------------------
Reject(reason, remaining, req) ==
  [kind |-> "Reject", id |-> 0, reason |-> reason, remaining_qty |-> remaining, intent |-> req.intent]

FillEvent(id, qty, price, remaining, intent) ==
  [kind |-> IF remaining = 0 THEN "Fill" ELSE "PartialFill", id |-> id, fill_qty |-> qty,
   fill_price |-> price, remaining_qty |-> remaining, intent |-> intent]

\* A reader's view of the resting orders after one more event.
Apply(view, e) ==
  CASE e.kind = "New"                 -> MapPut(view, e.order.id, e.order)
    [] e.kind \in {"Fill", "Cancel"}  -> MapRemove(view, e.id)
    [] e.kind = "PartialFill"         ->
         IF e.id \in DOMAIN view
           THEN [view EXCEPT ![e.id].quantity = e.remaining_qty] ELSE view
    [] OTHER                          -> view

\* The call emits further events.
Emit(before, events) ==
  /\ out' = before \o events
  /\ replica' = FoldLeft(Apply, replica, events)

CapacityRejected(cap) == cap = 0 \/ cap = U32Max - 1

\* Arena::new asserts capacity < u32::MAX.
AddInstrument(i, cap) ==
  /\ Idle
  /\ LET result == IF CapacityRejected(cap) THEN "InvalidCapacity"
                   ELSE IF i \in DOMAIN books THEN "AlreadyRegistered"
                   ELSE IF cap = U32Max THEN "panicked" ELSE "Ok"
     IN  /\ call' = Call("add_instrument", IF result = "panicked" THEN result ELSE "done",
                         NONE, NONE, 0)
         /\ books' = IF result = "Ok" THEN MapPut(books, i, BookNew(cap)) ELSE books
  /\ out' = << >>
  /\ UNCHANGED <<next_order_id, replica>>

Opposite(side) == IF side = "Ask" THEN "Bid" ELSE "Ask"

CrossingStrict(side, taker_price, maker_price) ==
  IF side = "Bid" THEN taker_price > maker_price ELSE taker_price < maker_price

Crossing(side, taker_price, maker_price) ==
  IF side = "Bid" THEN taker_price >= maker_price ELSE taker_price <= maker_price

AnyLiquidity(b, req) ==
  MapThenSumSet(LAMBDA q : b.levels[Opposite(req.side)][q].total_qty,
                DOMAIN b.levels[Opposite(req.side)]) >= req.quantity

BestLevelLiquidity(b, req) ==
  LET opp == Opposite(req.side)
  IN  /\ ~IsEmpty(b, opp)
      /\ Crossing(req.side, req.price, BestPrice(b, opp))
      /\ b.levels[opp][BestPrice(b, opp)].total_qty >= req.quantity

\* has_sufficient_liquidity: summing the opposite depth from the best price on,
\* in wrapping u64 arithmetic, until a level does not cross or the sum reaches
\* the quantity.
HasSufficientLiquidity(b, req) ==
  LET depth == Depth(b, Opposite(req.side), Cardinality(DOMAIN b.levels[Opposite(req.side)]))
  IN  \E n \in DOMAIN depth :
        /\ \A k \in 1 .. n : Crossing(req.side, req.price, depth[k][1])
        /\ MapThenSumSet(LAMBDA k : depth[k][2], 1 .. n) % QtyMod >= req.quantity

SameOrderId(n) == n

MintOrderId(n) == n + 1

\* process_new and match_limit up to cross_loop, with their early returns.
ProcessNew(req) ==
  /\ Idle
  /\ LET reject(reason) == /\ Emit(<< >>, <<Reject(reason, req.quantity, req)>>)
                           /\ UNCHANGED next_order_id
                           /\ call' = Call("new", "done", req, NONE, 0)
     IN  \/ req.instrument \notin DOMAIN books /\ reject("UnknownInstrument")
         \/ /\ req.instrument \in DOMAIN books
            /\ req.quantity = 0
            /\ reject("InvalidQuantity")
         \/ /\ req.instrument \in DOMAIN books
            /\ req.quantity # 0 /\ req.price = 0
            /\ reject("InvalidPrice")
         \/ /\ req.instrument \in DOMAIN books
            /\ req.quantity # 0 /\ req.price # 0
            /\ next_order_id < MaxOrders
            /\ next_order_id' = MintOrderId(next_order_id)
            /\ LET gated == /\ req.tif = "FOK"
                            /\ ~HasSufficientLiquidity(books[req.instrument], req)
               IN  /\ call' = Call("new", IF gated THEN "done" ELSE "crossing", req,
                                   next_order_id, IF gated THEN 0 ELSE req.quantity)
                   /\ Emit(<< >>, IF gated
                                    THEN <<Reject("InsufficientLiquidity", req.quantity, req)>>
                                    ELSE << >>)
  /\ UNCHANGED books

\* while remaining > 0, with its two breaks.
CanCross ==
  LET req == call.req
      b   == books[req.instrument]
      opp == Opposite(req.side)
  IN  /\ call.remaining > 0
      /\ HasTop(b, opp)
      /\ Crossing(req.side, req.price, BestPrice(b, opp))

FillNothing(remaining, maker_qty) == 0

FillQty(remaining, maker_qty) == Min({remaining, maker_qty})

TakerPrice(taker_price, maker_price) == taker_price

FillPrice(taker_price, maker_price) == maker_price

\* One iteration of cross_loop: a trade with the opposing top.
CrossStep ==
  /\ call.phase = "crossing"
  /\ CanCross
  /\ LET req       == call.req
         b         == books[req.instrument]
         opp       == Opposite(req.side)
         maker     == TopOrder(b, opp)
         fill      == FillQty(call.remaining, maker.quantity)
         price     == FillPrice(req.price, BestPrice(b, opp))
         remaining == call.remaining - fill
     IN  /\ call' = [call EXCEPT !.remaining = remaining]
         /\ Emit(out, <<FillEvent(call.order_id, fill, price, remaining, req.intent),
                        FillEvent(maker.id, fill, price, maker.quantity - fill, maker.intent)>>)
         /\ books' = [books EXCEPT ![req.instrument] =
                        IF maker.quantity = fill THEN PopTop(b, opp) ELSE ReduceTop(b, opp, fill)]
  /\ UNCHANGED next_order_id

RejectedWhole(req, remaining) == req.quantity

\* What an IOC order's trailing reject reports.
RejectedQty(req, remaining) == remaining

\* The rest of match_limit: what becomes of the unfilled quantity.
FinishMatch ==
  /\ call.phase = "crossing"
  /\ ~CanCross
  /\ LET req    == call.req
         b      == books[req.instrument]
         resting == [id |-> call.order_id, intent |-> req.intent, side |-> req.side,
                     price |-> req.price, quantity |-> call.remaining]
         rests  == call.remaining > 0 /\ req.tif = "GTC"
         result == InsertResult(b, resting)
     IN  /\ books' = IF rests /\ result = "Ok"
                       THEN [books EXCEPT ![req.instrument] = Insert(b, resting)] ELSE books
         /\ Emit(out,
              CASE call.remaining = 0 -> << >>
                [] rests /\ result = "Ok" -> <<[kind |-> "New", order |-> resting]>>
                [] rests /\ result = "ArenaFull" ->
                     <<Reject("SystemAtCapacity", call.remaining, req)>>
                [] rests /\ result = "DuplicateIntent" ->
                     <<Reject("DuplicateIntent", call.remaining, req)>>
                [] call.remaining > 0 /\ req.tif = "IOC" ->
                     <<Reject("InsufficientLiquidity", RejectedQty(req, call.remaining), req)>>
                [] OTHER -> << >>)
  /\ call' = [call EXCEPT !.phase = "done"]
  /\ UNCHANGED next_order_id

\* process_cancel; a cancel that finds nothing still drops the index entry.
ProcessCancel(req) ==
  /\ Idle
  /\ call' = Call("cancel", "done", req, NONE, 0)
  /\ \/ /\ req.instrument \notin DOMAIN books
        /\ Emit(<< >>, <<Reject("UnknownInstrument", 0, req)>>)
        /\ UNCHANGED books
     \/ /\ req.instrument \in DOMAIN books
        /\ CancelFinds(books[req.instrument], req.intent)
        /\ LET o == CancelOrder(books[req.instrument], req.intent)
           IN  Emit(<< >>, <<[kind |-> "Cancel", id |-> o.id, intent |-> req.intent]>>)
        /\ books' = [books EXCEPT ![req.instrument] = Cancel(@, req.intent)]
     \/ /\ req.instrument \in DOMAIN books
        /\ ~CancelFinds(books[req.instrument], req.intent)
        /\ Emit(<< >>, <<Reject("UnknownOrder", 0, req)>>)
        /\ books' = [books EXCEPT ![req.instrument].index = MapRemove(@, req.intent)]
  /\ UNCHANGED next_order_id

\* process_amend is todo!().
ProcessAmend ==
  /\ Idle
  /\ call' = Call("amend", "panicked", NONE, NONE, 0)
  /\ out' = << >>
  /\ UNCHANGED <<books, next_order_id, replica>>

Next ==
  \/ \E i \in Instrument, cap \in BookCapacity : AddInstrument(i, cap)
  \/ \E req \in NewRequest : ProcessNew(req)
  \/ \E req \in CancelRequest : ProcessCancel(req)
  \/ ProcessAmend
  \/ CrossStep
  \/ FinishMatch

Spec == Init /\ [][Next]_vars
-----------------------------------------------------------------------------
AllResting == UNION {RestingOrders(books[i]) : i \in DOMAIN books}

\* M1, "no book crossed at rest", and not in the middle of a sweep either:
\* the best bid stays below the best ask whatever mixture of GTC, IOC, FOK
\* orders, cancels and failed inserts the book has seen.
NeverCrossed == \A i \in DOMAIN books : ~IsCrossed(books[i])

\* The events are the whole story: a reader who applies New, Fill,
\* PartialFill and Cancel by order id holds exactly the resting orders, with
\* their remaining quantities, after every step of every call.
EventsRebuildBooks == Range(replica) = AllResting

Qty(events, S(_)) ==
  FoldLeft(LAMBDA sum, e : IF e.kind \in {"Fill", "PartialFill"} /\ S(e) THEN sum + e.fill_qty ELSE sum,
           0, events)

Residual(events) ==
  FoldLeft(LAMBDA sum, e : IF e.kind = "New" THEN sum + e.order.quantity
                           ELSE IF e.kind = "Reject" THEN sum + e.remaining_qty ELSE sum,
           0, events)

Minted == call.op = "new" /\ call.order_id # NONE

\* No quantity is lost or made up: makers give what the taker takes, and what
\* the taker asked for is what it got, plus what rested, plus what the
\* trailing reject reports.
QuantityConserved ==
  Minted =>
    LET taken == Qty(out, LAMBDA e : e.id = call.order_id)
        given == Qty(out, LAMBDA e : e.id # call.order_id)
    IN  /\ taken = given
        /\ taken + Residual(out) + (IF Idle THEN 0 ELSE call.remaining) = call.req.quantity

\* A FOK order trades all of its quantity or nothing, and an IOC or FOK order
\* never rests.
FillOrKill ==
  Minted /\ Idle /\ call.req.tif # "GTC" =>
    /\ \A o \in AllResting : o.id # call.order_id
    /\ call.req.tif = "FOK" =>
         Qty(out, LAMBDA e : e.id = call.order_id) \in {0, call.req.quantity}

\* The gate rejects "if the book can't fully fill" and only then: the orders
\* left in the book at crossing prices do not add up to the quantity.
FokRejectsOnlyUnfillable ==
  Minted /\ Idle /\ call.req.tif = "FOK" /\ Residual(out) > 0 =>
    MapThenSumSet(LAMBDA o : o.quantity,
      {o \in RestingOrders(books[call.req.instrument]) :
         o.side = Opposite(call.req.side) /\ Crossing(call.req.side, call.req.price, o.price)})
      < call.req.quantity

\* Price-time priority: every trade is at the resting order's price and with
\* the best-priced opposing order, of those the one whose id was minted first.
PriceTimePriority ==
  [][CrossStep =>
       \E m \in RestingOrders(books[call.req.instrument]) :
         /\ m.side = Opposite(call.req.side)
         /\ Last(out').id = m.id /\ Last(out').fill_price = m.price
         /\ \A o \in RestingOrders(books[call.req.instrument]) :
              o.side = m.side /\ o.id # m.id =>
                IF o.price = m.price THEN m.id < o.id
                ELSE ~Crossing(call.req.side, m.price, o.price)]_vars

\* cross_loop ends: a call makes at most one trade per order the book it is for
\* can hold, and one event more.
TradesAreBounded ==
  call.op \in {"new", "cancel"} /\ call.req.instrument \in DOMAIN books =>
    Len(out) <= 2 * Cardinality(DOMAIN books[call.req.instrument].arena.slots) + 1
=============================================================================

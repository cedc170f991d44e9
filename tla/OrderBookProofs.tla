-------------------------- MODULE OrderBookProofs ---------------------------
(***************************************************************************)
(* Proofs about OrderBook, for every capacity and every set of prices,     *)
(* quantities and intents.  The inductive invariant says that some layout  *)
(* of queues makes the book sound (BookLayout); the checked properties and *)
(* the refinement to BookSpec follow from it.                              *)
(***************************************************************************)
EXTENDS OrderBook, BookLayout, FiniteSetTheorems

\* A set of natural numbers has a least element.
LEMMA LeastNatural ==
  ASSUME NEW T \in SUBSET Nat, T # {}
  PROVE  \E n \in T : \A m \in T : n <= m
<1>1. IsWellFoundedOn(OpToRel(<, Nat), Nat)
  BY NatLessThanWellFounded, Zenon
<1>2. \E n \in T : \A m \in T : ~(<<m, n>> \in OpToRel(<, Nat))
  BY <1>1, WFMin, Zenon
<1>3. \A m, n \in Nat : m < n => <<m, n>> \in OpToRel(<, Nat)
  <2> TAKE m, n \in Nat
  <2> HAVE m < n
  <2>1. <<m, n>> \in Nat \X Nat /\ <<m, n>>[1] = m /\ <<m, n>>[2] = n
    BY Zenon
  <2>2. <<m, n>>[1] < <<m, n>>[2]
    BY <2>1, Zenon
  <2> QED
    BY <2>1, <2>2, Zenon DEF OpToRel
<1>4. \E n \in T : \A m \in T : ~(m < n)
  BY <1>2, <1>3, Zenon
<1> QED
  BY <1>4

\* What the lemmas about the book take from the library holds.
LEMMA FiniteFactsHold == FiniteFacts
<1>1. \A T \in SUBSET Nat : T # {} => \E n \in T : \A m \in T : n <= m
  BY LeastNatural, Zenon
<1>2. /\ IsFiniteSet({}) /\ Cardinality({}) = 0
      /\ \A S : IsFiniteSet(S) => Cardinality(S) \in Nat /\ (Cardinality(S) = 0 <=> S = {})
  BY FS_EmptySet, FS_CardinalityType, Zenon
<1>3. \A S, x : IsFiniteSet(S) => /\ IsFiniteSet(S \cup {x})
                                  /\ Cardinality(S \cup {x}) = IF x \in S THEN Cardinality(S) ELSE Cardinality(S) + 1
  BY FS_AddElement, Zenon
<1>4. \A S, x : IsFiniteSet(S) => /\ IsFiniteSet(S \ {x})
                                  /\ Cardinality(S \ {x}) = IF x \in S THEN Cardinality(S) - 1 ELSE Cardinality(S)
  BY FS_RemoveElement, Zenon
<1>5. \A S, T : IsFiniteSet(S) /\ T \in SUBSET S =>
                  /\ IsFiniteSet(T) /\ Cardinality(T) <= Cardinality(S)
                  /\ Cardinality(S) = Cardinality(T) => S = T
  BY FS_Subset, Zenon
<1>6. \A a, b \in Int : IsFiniteSet(a .. b) /\ Cardinality(a .. b) = IF a > b THEN 0 ELSE b - a + 1
  BY FS_Interval, Zenon
<1>7. \A S, T : IsFiniteSet(S) /\ IsFiniteSet(T) =>
                  /\ IsFiniteSet(S \cup T)
                  /\ Cardinality(S \cup T) = Cardinality(S) + Cardinality(T) - Cardinality(S \cap T)
  BY FS_Union, Zenon
<1>8. \A S, T : IsFiniteSet(S) /\ ExistsBijection(S, T) => IsFiniteSet(T) /\ Cardinality(T) = Cardinality(S)
  BY FS_Bijection, Zenon
<1>9. \A S, T : \A f \in Surjection(S, T) : IsFiniteSet(S) =>
                  /\ IsFiniteSet(T) /\ Cardinality(T) <= Cardinality(S)
                  /\ Cardinality(T) = Cardinality(S) <=> f \in Injection(S, T)
  BY FS_Surjection, Zenon
<1>10. \A S, T : \A f \in Injection(S, T) : IsFiniteSet(T) =>
                   /\ IsFiniteSet(S) /\ Cardinality(S) <= Cardinality(T)
                   /\ Cardinality(S) = Cardinality(T) <=> f \in Surjection(S, T)
  BY FS_Injection, Zenon
<1> QED
  BY <1>1, <1>2, <1>3, <1>4, <1>5, <1>6, <1>7, <1>8, <1>9, <1>10, Zenon
     DEF FiniteFacts, LeastFact, SizeFact, ElementFact, SubsetFact, IntervalFact, UnionFact, MapFact

USE FiniteFactsHold

\* What may rest in the book: a part fill leaves something of an order.
RestingOrder == [intent : Intent, side : Side, price : Price, quantity : Nat \ {0}]

\* The inductive invariant: the book is a queue of handles per side and price,
\* laid out in its arena, its levels and its index.
BookInv == \E cap \in DOMAIN Offer : Held(book, RestingOrder, Price, cap)

\* The orders that may rest are what the lemmas take an order to be.
LEMMA OrdersAreOK == OrdersOK(RestingOrder, Price)
  BY BookAssumption, Zenon DEF OrdersOK, RestingOrder

\* An order that was reduced may still rest.
LEMMA OrdersShrink == Shrinkable(RestingOrder)
<1>1. ASSUME NEW o \in RestingOrder, NEW qty \in Nat, NEW r, qty < o.quantity, r = [o EXCEPT !.quantity = @ - qty]
      PROVE  r \in RestingOrder /\ Shrinks(o, r, qty)
  BY <1>1 DEF RestingOrder, KeyOf, Shrinks
<1> QED
  BY <1>1, Zenon DEF Shrinkable

\* A new book holds no order.
LEMMA NewHeld ==
  ASSUME NEW cap \in DOMAIN Offer
  PROVE  Held(BookNew(cap), RestingOrder, Price, cap)
<1>1. U32Max \in Nat /\ cap \in 1 .. U32Max - 1
  BY BookAssumption, Zenon
<1> QED
  BY <1>1, OrdersAreOK, NewBookSound, Zenon DEF Held

\* An order that is inserted may rest.
LEMMA OrdersMayRest == Order \subseteq RestingOrder
<1>1. QtyMod \in Nat /\ \A q \in Quantity : q \in 1 .. QtyMod - 1
  BY BookAssumption, Zenon
<1>2. \A q \in 1 .. QtyMod - 1 : q \in Nat \ {0}
  BY <1>1
<1>3. \A q \in Quantity : q \in Nat \ {0}
  BY <1>1, <1>2, Zenon
<1> QED
  BY <1>3, Zenon DEF Order, RestingOrder

\* A new book is sound.
LEMMA InitBook == Init => BookInv
<1> SUFFICES ASSUME Init PROVE BookInv
  BY Zenon
<1>1. PICK cap \in DOMAIN Offer : book = BookNew(cap)
  BY Zenon DEF Init
<1> QED
  BY <1>1, NewHeld, Zenon DEF BookInv

\* Every call keeps the book sound: one step per method.
LEMMA NextBook ==
  ASSUME NEW cap \in DOMAIN Offer, Held(book, RestingOrder, Price, cap), [Next]_vars
  PROVE  Held(book', RestingOrder, Price, cap)
<1>1. CASE UNCHANGED vars
  BY <1>1, Zenon DEF vars
<1>2. ASSUME NEW o \in Order, CallInsert(o) PROVE Held(book', RestingOrder, Price, cap)
  <2>1. CASE InsertResult(book, o) = "Ok"
    <3>1. book' = Insert(book, o) /\ o \in RestingOrder
      BY <1>2, <2>1, OrdersMayRest, Zenon DEF CallInsert
    <3> QED
      BY <2>1, <3>1, InsertStep, Zenon
  <2>2. CASE InsertResult(book, o) # "Ok"
    <3>1. book' = book
      BY <1>2, <2>2, Zenon DEF CallInsert
    <3> QED
      BY <3>1, Zenon
  <2> QED
    BY <2>1, <2>2, Zenon
<1>3. ASSUME NEW i \in Intent, CallCancel(i) PROVE Held(book', RestingOrder, Price, cap)
  <2>1. CASE CancelFinds(book, i) /\ book' = Cancel(book, i)
    <3>1. i \in DOMAIN book.index
      BY <2>1, Zenon DEF CancelFinds
    <3>2. Held(Cancel(book, i), RestingOrder, Price, cap)
      BY <3>1, CancelMeets, Zenon
    <3> QED
      BY <2>1, <3>2, Zenon
  <2>2. CASE ~CancelFinds(book, i) /\ book' = [book EXCEPT !.index = MapRemove(@, i)]
    <3>1. [book EXCEPT !.index = MapRemove(@, i)] = book
      BY <2>2, MissStep, Zenon
    <3> QED
      BY <2>2, <3>1, Zenon
  <2> QED
    BY <1>3, <2>1, <2>2, Zenon DEF CallCancel
<1>4. ASSUME NEW s \in Side, CallPopTop(s) PROVE Held(book', RestingOrder, Price, cap)
  <2>1. CASE ~IsEmpty(book, s) /\ book' = PopTop(book, s)
    BY <2>1, PopStep, Zenon
  <2>2. CASE UNCHANGED book
    BY <2>2, Zenon
  <2> QED
    BY <1>4, <2>1, <2>2, Zenon DEF CallPopTop
<1>5. ASSUME NEW s \in Side, NEW most \in Quantity, NEW qty \in 1 .. most, CallReduceTop(s, qty) PROVE Held(book', RestingOrder, Price, cap)
  <2>1. CASE ~IsEmpty(book, s) /\ qty < TopOrder(book, s).quantity /\ book' = ReduceTop(book, s, qty)
    <3>1. qty \in Nat
      OBVIOUS
    <3> QED
      BY <2>1, <3>1, OrdersShrink, ReduceStep, Zenon
  <2>2. CASE UNCHANGED book
    BY <2>2, Zenon
  <2> QED
    BY <1>5, <2>1, <2>2, Zenon DEF CallReduceTop
<1> QED
  BY <1>1, <1>2, <1>3, <1>4, <1>5, Zenon DEF Next

\* The book is sound in every state.
LEMMA BookInvariant == Spec => []BookInv
<1>1. Init => BookInv
  BY InitBook, Zenon
<1>2. BookInv /\ [Next]_vars => BookInv'
  BY NextBook, Zenon DEF BookInv
<1> QED
  BY <1>1, <1>2, PTL DEF Spec

-----------------------------------------------------------------------------
\* A sound book keeps the documented invariants.
LEMMA SoundIsWellFormed ==
  ASSUME NEW cap, Held(book, RestingOrder, Price, cap)
  PROVE  BookWellFormed
<1>1. PICK Q : BookSound(book, RestingOrder, Price, cap, Q)
  BY Zenon DEF Held
<1>2. PICK M, a, L, I : M = NodesOf(book.arena) /\ a = book.arena /\ L = book.levels /\ I = book.index
  BY Zenon
<1>3. /\ OrdersOK(RestingOrder, Price) /\ ArenaSound(a, Node(RestingOrder), cap) /\ QueuesSound(M, Q, Price)
      /\ LevelsSound(L, M, Q, Price) /\ IndexSound(I, M)
  BY <1>1, <1>2, Zenon DEF BookSound
<1>4. DOMAIN M = LiveHandles(a) /\ \A h \in DOMAIN M : M[h] = ArenaGet(a, h)
  BY <1>2, Zenon DEF NodesOf
<1>5. \A h \in DOMAIN M : IsValid(h) /\ ArenaHas(a, h)
  <2>1. \A h \in LiveHandles(a) : h # SENTINEL /\ SlotMatches(a, h) /\ ArenaHas(a, h)
    BY <1>3, LiveHas, Zenon
  <2> QED
    BY <1>4, <2>1, Zenon DEF IsValid
<1>6. ASSUME NEW s \in Side, NEW p \in DOMAIN book.levels[s]
      PROVE  LET level == book.levels[s][p]
                 w     == WalkLevel(book, level)
             IN  /\ WellLinked(book, level)
                 /\ \A k \in DOMAIN w : LET o == ArenaGet(book.arena, w[k]).order IN
                      /\ o.side = s /\ o.price = p
                      /\ o.intent \in DOMAIN book.index /\ book.index[o.intent] = w[k]
  <2>0. PICK level, w : level = book.levels[s][p] /\ w = WalkLevel(book, book.levels[s][p])
    BY Zenon
  <2>1. PICK c, q : c = <<s, p>> /\ q = Q[<<s, p>>]
    BY Zenon
  <2>2. LevelIs(Price, book, M, q, s, p)
    BY <1>1, <1>2, <1>6, <2>1, LevelMeets, Zenon
  <2>3. /\ p \in Price /\ level = LevelOf(M, q, <<s, p>>) /\ Linked(M, q) /\ q \in Seq(DOMAIN M)
        /\ Len(q) \in Nat \ {0} /\ w = q
    BY <2>0, <2>2, Zenon DEF LevelIs, Walks
  <2>4. level.len = Len(q) /\ level.tail = q[Len(q)]
    BY <2>3, Zenon DEF LevelOf
  <2>5. \A k \in 1 .. Len(q) : q[k] \in DOMAIN M /\ M[q[k]] = ArenaGet(a, q[k])
    BY <1>4, <2>3, SMTT(30), SMTT(60)
  <2>6. \A k \in 1 .. Len(q) : /\ IsValid(q[k]) /\ ArenaHas(a, q[k])
                               /\ ArenaGet(a, q[k]).prev = IF k = 1 THEN SENTINEL ELSE q[k - 1]
    BY <1>5, <2>3, <2>5, Zenon DEF Linked
  <2>7. ArenaGet(a, q[Len(q)]).next = SENTINEL
    <3>1. Len(q) \in 1 .. Len(q)
      BY <2>3
    <3> QED
      BY <2>3, <2>5, <3>1, Zenon DEF Linked
  <2>8. WellLinked(book, level)
    <3>1. level.len > 0
      BY <2>3, <2>4, SMTT(30), SMTT(60)
    <3>2. WalkLevel(book, level) = q
      BY <2>0, <2>3, Zenon
    <3> QED
      BY <1>2, <2>4, <2>6, <2>7, <3>1, <3>2, Zenon DEF WellLinked
  <2>9. ASSUME NEW k \in DOMAIN q, NEW o, o = ArenaGet(a, q[k]).order
        PROVE  o.side = s /\ o.price = p /\ o.intent \in DOMAIN I /\ I[o.intent] = q[k]
    <3>1. k \in 1 .. Len(q) /\ q[k] \in DOMAIN M /\ o = M[q[k]].order
      BY <2>3, <2>5, <2>9, SMTT(30), SMTT(60)
    <3>2. <<s, p>> \in Side \X Price
      BY <2>3, Zenon
    <3>3. KeyOf(o) = <<s, p>>
      BY <1>3, <2>1, <3>1, <3>2, Zenon DEF QueuesSound
    <3>4. I[o.intent] = q[k]
      BY <1>3, <3>1, Zenon DEF IndexSound
    <3>5. o.intent \in DOMAIN I
      BY <1>3, <3>1, Zenon DEF IndexSound
    <3> QED
      BY <3>3, <3>4, <3>5, Zenon DEF KeyOf
  <2>10. \A k \in DOMAIN q : /\ ArenaGet(a, q[k]).order.side = s /\ ArenaGet(a, q[k]).order.price = p
                             /\ ArenaGet(a, q[k]).order.intent \in DOMAIN I
                             /\ I[ArenaGet(a, q[k]).order.intent] = q[k]
    BY <2>9, Zenon
  <2>11. WellLinked(book, book.levels[s][p]) /\ q = WalkLevel(book, book.levels[s][p])
    BY <2>0, <2>3, <2>8, Zenon
  <2> QED
    BY <1>2, <2>10, <2>11, Zenon
<1>7. Cardinality(DOMAIN I) = SumFunction([l \in Levels(book) |-> L[l[1]][l[2]].len])
  <2>1. PICK K, f : K = {c \in Side \X Price : Q[c] # << >>} /\ f = [c \in K |-> Len(Q[c])]
    BY Zenon
  <2>2. IsFiniteSet(DOMAIN M)
    BY <1>3, <1>4, FullIs, Zenon
  <2>3. Cardinality(DOMAIN I) = SumFunction(f)
    BY <1>3, <2>1, <2>2, LensAddUp, Zenon
  <2>4. \A s \in Side, p \in Price : p \in DOMAIN L[s] <=> Q[<<s, p>>] # << >>
    BY <1>3, Zenon DEF LevelsSound
  <2>5. \A l \in Side \X Price : l[2] \in DOMAIN L[l[1]] <=> Q[l] # << >>
    BY <2>4, SMTT(30), SMTT(60)
  <2>6. Levels(book) = K
    BY <1>2, <2>1, <2>5, Zenon DEF Levels
  <2>7. ASSUME NEW l \in K PROVE L[l[1]][l[2]].len = Len(Q[l])
    <3>1. PICK s \in Side, p \in Price : l = <<s, p>>
      BY <2>1, SMTT(30), SMTT(60)
    <3>2. p \in DOMAIN L[s]
      BY <2>1, <2>4, <3>1, Zenon
    <3>3. L[s][p] = LevelOf(M, Q[<<s, p>>], <<s, p>>)
      BY <1>3, <3>2, Zenon DEF LevelsSound
    <3>4. L[s][p].len = Len(Q[<<s, p>>])
      BY <3>3, SMTT(30), SMTT(60) DEF LevelOf
    <3> QED
      BY <3>1, <3>4, Zenon
  <2>8. [l \in K |-> L[l[1]][l[2]].len] = f
    BY <2>1, <2>7, Zenon
  <2> QED
    BY <2>3, <2>6, <2>8, Zenon
<1>8. Range(I) = LiveHandles(a)
  <2>1. DOMAIN I = {M[h].order.intent : h \in DOMAIN M} /\ \A h \in DOMAIN M : I[M[h].order.intent] = h
    BY <1>3, Zenon DEF IndexSound
  <2> QED
    BY <1>4, <2>1, SMTT(30), SMTT(60) DEF Range
<1>9. /\ Cardinality(DOMAIN book.index) =
            SumFunction([l \in Levels(book) |-> book.levels[l[1]][l[2]].len])
       /\ Range(book.index) = LiveHandles(book.arena)
  BY <1>2, <1>7, <1>8, Zenon
<1> QED
  BY <1>6, <1>9, Zenon DEF BookWellFormed

\* I1, I3, I4, I5 and I7 hold after every call, and no arena slot leaks: for any
\* capacity, prices, quantities and intents.
THEOREM BookStaysWellFormed == Spec => []BookWellFormed
<1>1. BookInv => BookWellFormed
  BY SoundIsWellFormed, Zenon DEF BookInv
<1> QED
  BY <1>1, BookInvariant, PTL


\* In a sound book the totals are the sums, modulo the field's width.
LEMMA SoundTotals ==
  ASSUME NEW cap, Held(book, RestingOrder, Price, cap)
  PROVE  TotalsAreSums
<1>1. PICK Q : BookSound(book, RestingOrder, Price, cap, Q)
  BY Zenon DEF Held
<1>2. PICK M : M = NodesOf(book.arena)
  BY Zenon
<1>3. QueuesSound(M, Q, Price) /\ Counted(M)
  <2>1. ArenaSound(book.arena, Node(RestingOrder), cap) /\ QueuesSound(M, Q, Price) /\ OrdersOK(RestingOrder, Price)
    BY <1>1, <1>2, Zenon DEF BookSound
  <2> QED
    BY <1>2, <2>1, NodesCounted, Zenon
<1>4. QueuesIn(book, Price) = QueuesOf(M, Q, Price)
  BY <1>1, <1>2, QueuesAre, SMTT(30), SMTT(60)
<1>5. ASSUME NEW s \in Side, NEW p \in DOMAIN book.levels[s]
      PROVE  LET q == LevelOrders(book, s, p)
             IN  book.levels[s][p].total_qty = SumFunction([k \in DOMAIN q |-> q[k].quantity]) % QtyMod
  <2>1. PICK w, q, g : w = LevelOrders(book, s, p) /\ q = Q[<<s, p>>] /\ g = [k \in DOMAIN w |-> w[k].quantity]
    BY Zenon
  <2>2. LevelIs(Price, book, M, q, s, p)
    BY <1>1, <1>2, <2>1, LevelMeets, Zenon
  <2>3. p \in Price /\ book.levels[s][p] = LevelOf(M, q, <<s, p>>) /\ q \in Seq(DOMAIN M)
    BY <2>2, Zenon DEF LevelIs
  <2>4. w = OrdersOf(M, q)
    <3>1. QueuesIn(book, Price)[s][p] = w
      BY <2>1, <2>3, Zenon DEF QueuesIn
    <3>2. QueuesOf(M, Q, Price)[s][p] = OrdersOf(M, q)
      BY <2>1, <2>3, Zenon DEF QueuesOf
    <3> QED
      BY <1>4, <3>1, <3>2, Zenon
  <2>5. g = Sizes(M, q)
    <3>1. DOMAIN w = 1 .. Len(q)
      BY <2>4, Zenon DEF OrdersOf
    <3> QED
      BY <2>1, <2>4, <3>1, Zenon DEF Sizes
  <2>6. SumFunction(g) = QtyAt(M, <<s, p>>)
    <3>1. PICK c \in Side \X Price : c = <<s, p>>
      BY <2>3, Zenon
    <3>2. SumFunction(Sizes(M, Q[c])) = QtyAt(M, c)
      BY <1>3, QtyAddsUp, Zenon
    <3> QED
      BY <2>1, <2>5, <3>1, <3>2, Zenon
  <2>7. book.levels[s][p].total_qty = QtyAt(M, <<s, p>>) % QtyMod
    BY <2>3 DEF LevelOf
  <2>8. book.levels[s][p].total_qty = SumFunction(g) % QtyMod
    BY <2>6, <2>7, Zenon
  <2> QED
    BY <2>1, <2>8, Zenon
<1> QED
  BY <1>5, Zenon DEF TotalsAreSums

\* I2: the running total every call keeps by adding and subtracting is, modulo
\* the width of the field, the sum of the quantities that rest at the level.
THEOREM TotalsStaySums == Spec => []TotalsAreSums
<1>1. BookInv => TotalsAreSums
  BY SoundTotals, Zenon DEF BookInv
<1> QED
  BY <1>1, BookInvariant, PTL

-----------------------------------------------------------------------------
\* The operators of BookSpec's own copies of the library are the library's.
LEMMA SameOps ==
  /\ \A S : Queues!Cardinality(S) = Cardinality(S)
  /\ \A q, k : Queues!Without(q, k) = Without(q, k)
  /\ \A c, r, o : Queues!Return(c, r, o) = Return(c, r, o)
<1>1. \A S : Queues!Cardinality(S) = Cardinality(S)
  BY Zenon DEF Cardinality, Queues!Cardinality
<1>3. \A q, k : Queues!Without(q, k) = Without(q, k)
  BY Zenon DEF Without, Queues!Without
<1>4. \A c, r, o : Queues!Return(c, r, o) = Return(c, r, o)
  BY Zenon DEF Return, Queues!Return
<1> QED
  BY <1>1, <1>3, <1>4, Zenon

\* The resting orders, the empty sides and the best price of the queues are
\* those the book reads off its index, its free list and its maps.
LEMMA QueuesRead ==
  ASSUME NEW cap, Held(book, RestingOrder, Price, cap)
  PROVE  /\ DOMAIN QueuesIn(book, Price) = Side /\ Queues!Resting = Rest(book, Price)
         /\ \A s \in Side : Queues!Empty(s) <=> IsEmpty(book, s)
         /\ \A s \in Side : \A p : Tops(RestingOrder, Price, book, s, p) => Queues!Best(s) = p
<1>1. PICK F : F = QueuesIn(book, Price)
  BY Zenon
<1>2. DOMAIN F = Side
  BY <1>1, Zenon DEF QueuesIn
<1>3. Queues!Resting = Rest(book, Price)
  <2>1. Queues!Resting = UNION {{F[s][p][k] : k \in DOMAIN F[s][p]} : s \in DOMAIN F, p \in Price}
    BY <1>1, SMTT(30), SMTT(60) DEF Queues!Resting
  <2>2. Rest(book, Price) = UNION {Range(F[s][p]) : s \in Side, p \in Price}
    BY <1>1 DEF Rest, RestIn
  <2> QED
    BY <1>2, <2>1, <2>2, SMTT(30), SMTT(60) DEF Range
<1>4. ASSUME NEW s \in Side PROVE Queues!Empty(s) <=> IsEmpty(book, s)
  <2>1. Reads(Price, book, cap)
    BY RestMeets, Zenon
  <2>2. IsEmpty(book, s) <=> \A p \in Price : QueuesIn(book, Price)[s][p] = << >>
    BY <2>1, Zenon DEF Reads
  <2> QED
    BY <2>2, Zenon DEF Queues!Empty
<1>5. ASSUME NEW s \in Side, NEW p, Tops(RestingOrder, Price, book, s, p) PROVE Queues!Best(s) = p
  <2>1. PICK S : S = {r \in Price : F[s][r] # << >>}
    BY Zenon
  <2>2. Queues!Best(s) = CHOOSE r \in S : \A x \in S : IF s = "Bid" THEN r >= x ELSE r <= x
    BY <1>1, <2>1, Zenon DEF Queues!Best
  <2>3. S \subseteq Nat /\ p \in S /\ \A r \in S : IF s = "Bid" THEN p >= r ELSE p <= r
    <3>1. Price \subseteq Nat
      BY BookAssumption, Zenon
    <3> QED
      BY <1>1, <1>5, <2>1, <3>1, Zenon DEF Tops
  <2>4. \A r \in S : (\A x \in S : IF s = "Bid" THEN r >= x ELSE r <= x) => r = p
    BY <2>3
  <2> QED
    BY <2>2, <2>3, <2>4, Zenon
<1> QED
  BY <1>1, <1>2, <1>3, <1>4, <1>5, Zenon

\* A new book is a book of empty queues.
LEMMA InitQueues == Init => Queues!Init
<1> SUFFICES ASSUME Init PROVE Queues!Init
  BY Zenon
<1>1. PICK cap \in DOMAIN Offer : book = BookNew(cap)
  BY Zenon DEF Init
<1>2. Capacity(book) = cap
  <2>1. Held(book, RestingOrder, Price, cap)
    BY <1>1, NewHeld, Zenon
  <2>2. Reads(Price, book, cap)
    BY <2>1, RestMeets, Zenon
  <2> QED
    BY <2>2, Zenon DEF Reads
<1>3. cap \in Nat \ {0}
  <2>1. cap \in 1 .. U32Max - 1 /\ U32Max \in Nat
    BY BookAssumption, Zenon
  <2> QED
    BY <2>1
<1>4. \A s \in Side : book.levels[s] = EmptyMap
  BY <1>1, Zenon DEF BookNew
<1>5. \A s \in Side : DOMAIN book.levels[s] = {}
  BY <1>4, Zenon DEF EmptyMap
<1>6. QueuesIn(book, Price) = [s \in {"Bid", "Ask"} |-> [p \in Price |-> << >>]]
  BY <1>5, Zenon DEF QueuesIn, Side
<1>7. ret = Queues!Return(<<"new">>, "unit", NONE)
  BY SameOps, Zenon DEF Init
<1> QED
  BY <1>2, <1>3, <1>6, <1>7, Zenon DEF Queues!Init


\* insert is the queues' Insert: each of its three results for the same reason.
LEMMA InsertMaps ==
  ASSUME NEW cap, Held(book, RestingOrder, Price, cap), NEW o \in Order, CallInsert(o)
  PROVE  Queues!Insert(o)
<1>1. Reads(Price, book, cap)
  BY RestMeets, Zenon
<1>2. PICK S : S = Rest(book, Price) /\ S = Queues!Resting
  BY QueuesRead, Zenon
<1>3. ret' = Queues!Return(<<"insert", o>>, InsertResult(book, o), NONE)
  BY SameOps, Zenon DEF CallInsert
<1>4. o.intent \in DOMAIN book.index <=> \E r \in S : r.intent = o.intent
  BY <1>1, <1>2, Zenon DEF Reads
<1>5. CASE o.intent \in DOMAIN book.index
  <2>1. InsertResult(book, o) = "DuplicateIntent"
    BY <1>5, Zenon DEF InsertResult
  <2>2. book' = book
    BY <2>1, Zenon DEF CallInsert
  <2>3. UNCHANGED QueuesIn(book, Price)
    BY <2>2, Zenon
  <2> QED
    BY <1>2, <1>3, <1>4, <1>5, <2>1, <2>3, Zenon DEF Queues!Insert
<1>6. CASE o.intent \notin DOMAIN book.index /\ ArenaFull(book.arena)
  <2>1. InsertResult(book, o) = "ArenaFull"
    BY <1>6, Zenon DEF InsertResult
  <2>2. book' = book
    BY <2>1, Zenon DEF CallInsert
  <2>3. UNCHANGED QueuesIn(book, Price)
    BY <2>2, Zenon
  <2>4. Queues!Cardinality(S) = Capacity(book) /\ \A r \in S : r.intent # o.intent
    BY <1>1, <1>2, <1>4, <1>6, SameOps, Zenon DEF Reads
  <2> QED
    BY <1>2, <1>3, <2>1, <2>3, <2>4, Zenon DEF Queues!Insert
<1>7. CASE o.intent \notin DOMAIN book.index /\ ~ArenaFull(book.arena)
  <2>1. InsertResult(book, o) = "Ok"
    BY <1>7, Zenon DEF InsertResult
  <2>2. book' = Insert(book, o) /\ o \in RestingOrder
    BY <2>1, OrdersMayRest, Zenon DEF CallInsert
  <2>5. Follows(Price, book, book', o.side, o.price, Append(QueuesIn(book, Price)[o.side][o.price], o))
    BY <2>1, <2>2, InsertStep, Zenon
  <2>3. QueuesIn(book', Price) = [QueuesIn(book, Price) EXCEPT ![o.side][o.price] = Append(@, o)]
    BY <2>5, Zenon DEF Follows
  <2>4. Queues!Cardinality(S) < Capacity(book) /\ \A r \in S : r.intent # o.intent
    BY <1>1, <1>2, <1>4, <1>7, SameOps, Zenon DEF Reads
  <2> QED
    BY <1>2, <1>3, <2>1, <2>3, <2>4, Zenon DEF Queues!Insert
<1> QED
  BY <1>5, <1>6, <1>7, Zenon

\* cancel takes the order of the intent out of its queue, wherever it stands.
LEMMA CancelMaps ==
  ASSUME NEW cap, Held(book, RestingOrder, Price, cap), NEW i \in Intent, CallCancel(i)
  PROVE  Queues!Cancel(i)
<1>1. CASE CancelFinds(book, i) /\ ret' = Return(<<"cancel", i>>, "Some", CancelOrder(book, i)) /\ book' = Cancel(book, i)
  <2>1. i \in DOMAIN book.index
    BY <1>1, Zenon DEF CancelFinds
  <2>2. PICK s \in Side, p \in Price : \E k \in DOMAIN QueuesIn(book, Price)[s][p] : Cancels(Price, book, i, s, p, k, Cancel(book, i))
    BY <2>1, CancelMeets, Zenon
  <2>3. PICK k \in DOMAIN QueuesIn(book, Price)[s][p] : Cancels(Price, book, i, s, p, k, book')
    BY <1>1, <2>2, Zenon
  <2>4. /\ QueuesIn(book, Price)[s][p][k] = CancelOrder(book, i) /\ CancelOrder(book, i).intent = i
        /\ Follows(Price, book, book', s, p, Without(QueuesIn(book, Price)[s][p], k))
    BY <2>3, Zenon DEF Cancels
  <2>5. QueuesIn(book', Price) = [QueuesIn(book, Price) EXCEPT ![s][p] = Queues!Without(QueuesIn(book, Price)[s][p], k)]
    BY <2>4, SameOps, Zenon DEF Follows
  <2>6. ret' = Queues!Return(<<"cancel", i>>, "Some", QueuesIn(book, Price)[s][p][k])
    BY <1>1, <2>4, SameOps, Zenon
  <2>7. ret'.call = <<"cancel", i>>
    BY <1>1, Zenon DEF Return
  <2>8. s \in DOMAIN QueuesIn(book, Price) /\ QueuesIn(book, Price)[s][p][k].intent = i
    BY <2>4, QueuesRead, Zenon
  <2>9. \E t \in DOMAIN QueuesIn(book, Price), r \in Price : \E j \in DOMAIN QueuesIn(book, Price)[t][r] :
          /\ QueuesIn(book, Price)[t][r][j].intent = i
          /\ ret' = Queues!Return(<<"cancel", i>>, "Some", QueuesIn(book, Price)[t][r][j])
          /\ QueuesIn(book', Price) = [QueuesIn(book, Price) EXCEPT ![t][r] = Queues!Without(@, j)]
    <3>1. s \in DOMAIN QueuesIn(book, Price)
      BY <2>8, Zenon
    <3> WITNESS s \in DOMAIN QueuesIn(book, Price), p \in Price
    <3> WITNESS k \in DOMAIN QueuesIn(book, Price)[s][p]
    <3> QED
      BY <2>5, <2>6, <2>8, Zenon
  <2> QED
    BY <2>7, <2>9, Zenon DEF Queues!Cancel
<1>2. CASE ~CancelFinds(book, i) /\ ret' = Return(<<"cancel", i>>, "None", NONE) /\ book' = [book EXCEPT !.index = MapRemove(@, i)]
  <2>1. [book EXCEPT !.index = MapRemove(@, i)] = book /\ i \notin DOMAIN book.index
    BY <1>2, MissStep, Zenon
  <2>2. book' = book
    BY <1>2, <2>1, Zenon
  <2>3. UNCHANGED QueuesIn(book, Price)
    BY <2>2, Zenon
  <2>4. Reads(Price, book, cap)
    BY RestMeets, Zenon
  <2>5. Queues!Resting = Rest(book, Price)
    BY QueuesRead, Zenon
  <2>6. \A r \in Queues!Resting : r.intent # i
    BY <2>1, <2>4, <2>5, Zenon DEF Reads
  <2>7. ret' = Queues!Return(<<"cancel", i>>, "None", NONE)
    BY <1>2, SameOps, Zenon
  <2> QED
    BY <2>3, <2>6, <2>7, Zenon DEF Queues!Cancel
<1> QED
  BY <1>1, <1>2, Zenon DEF CallCancel


\* The best price of a side that is not empty, and the order pop_top and
\* reduce_top find there.
LEMMA TopRead ==
  ASSUME NEW cap, Held(book, RestingOrder, Price, cap), NEW s \in Side, NEW p, Tops(RestingOrder, Price, book, s, p)
  PROVE  Queues!Best(s) = p /\ Head(QueuesIn(book, Price)[s][p]) = TopOrder(book, s)
<1>1. QueuesIn(book, Price)[s][p] \in Seq(RestingOrder) /\ QueuesIn(book, Price)[s][p][1] = TopOrder(book, s)
  BY Zenon DEF Tops
<1>2. Head(QueuesIn(book, Price)[s][p]) = QueuesIn(book, Price)[s][p][1]
  BY <1>1 DEF Head
<1> QED
  BY <1>1, <1>2, QueuesRead, Zenon

\* pop_top takes the oldest order at the best price.
LEMMA PopMaps ==
  ASSUME NEW cap, Held(book, RestingOrder, Price, cap), NEW s \in Side, CallPopTop(s)
  PROVE  Queues!PopTop(s)
<1>1. Queues!Empty(s) <=> IsEmpty(book, s)
  BY QueuesRead, Zenon
<1>2. CASE IsEmpty(book, s) /\ ret' = Return(<<"pop_top", s>>, "None", NONE) /\ UNCHANGED book
  <2>1. UNCHANGED QueuesIn(book, Price)
    BY <1>2, Zenon
  <2>2. ret' = Queues!Return(<<"pop_top", s>>, "None", NONE)
    BY <1>2, SameOps, Zenon
  <2> QED
    BY <1>1, <1>2, <2>1, <2>2, Zenon DEF Queues!PopTop
<1>3. CASE /\ ~IsEmpty(book, s) /\ book' = PopTop(book, s)
           /\ ret' = Return(<<"pop_top", s>>, "Some", TopOrder(book, s))
  <2>1. PICK p : p = BestPrice(book, s)
    BY Zenon
  <2>2. Tops(RestingOrder, Price, book, s, p) /\ Follows(Price, book, book', s, p, Tail(QueuesIn(book, Price)[s][p]))
    BY <1>3, <2>1, PopStep, Zenon
  <2>3. Queues!Best(s) = p /\ Head(QueuesIn(book, Price)[s][p]) = TopOrder(book, s)
    BY <2>2, TopRead, Zenon
  <2>4. ret' = Queues!Return(<<"pop_top", s>>, "Some", Head(QueuesIn(book, Price)[s][Queues!Best(s)]))
    BY <1>3, <2>3, SameOps, Zenon
  <2>5. QueuesIn(book', Price) = [QueuesIn(book, Price) EXCEPT ![s][Queues!Best(s)] = Tail(@)]
    BY <2>2, <2>3, Zenon DEF Follows
  <2>6. ret'.call = <<"pop_top", s>>
    BY <1>3, Zenon DEF Return
  <2> QED
    BY <1>1, <1>3, <2>4, <2>5, <2>6, Zenon DEF Queues!PopTop
<1> QED
  BY <1>2, <1>3, Zenon DEF CallPopTop

\* reduce_top shrinks the oldest order at the best price in its place.
LEMMA ReduceMaps ==
  ASSUME NEW cap, Held(book, RestingOrder, Price, cap), NEW s \in Side, NEW qty \in Nat, CallReduceTop(s, qty)
  PROVE  Queues!ReduceTop(s, qty)
<1>1. Queues!Empty(s) <=> IsEmpty(book, s)
  BY QueuesRead, Zenon
<1>2. ret' = Queues!Return(<<"reduce_top", s, qty>>, "unit", NONE)
  BY SameOps, Zenon DEF CallReduceTop
<1>3. CASE IsEmpty(book, s) /\ UNCHANGED book
  <2>1. UNCHANGED QueuesIn(book, Price)
    BY <1>3, Zenon
  <2> QED
    BY <1>1, <1>2, <1>3, <2>1, Zenon DEF Queues!ReduceTop
<1>4. CASE ~IsEmpty(book, s) /\ qty < TopOrder(book, s).quantity /\ book' = ReduceTop(book, s, qty)
  <2>1. PICK p, r : p = BestPrice(book, s) /\ r = [TopOrder(book, s) EXCEPT !.quantity = @ - qty]
    BY Zenon
  <2>2. Tops(RestingOrder, Price, book, s, p) /\ Follows(Price, book, book', s, p, [QueuesIn(book, Price)[s][p] EXCEPT ![1] = r])
    BY <1>4, <2>1, OrdersShrink, ReduceStep, Zenon
  <2>3. Queues!Best(s) = p /\ Head(QueuesIn(book, Price)[s][p]) = TopOrder(book, s)
    BY <2>2, TopRead, Zenon
  <2>4. qty < Head(QueuesIn(book, Price)[s][Queues!Best(s)]).quantity
    BY <1>4, <2>3, Zenon
  <2>5. r = [QueuesIn(book, Price)[s][p][1] EXCEPT !.quantity = @ - qty]
    BY <2>1, <2>2, Zenon DEF Tops
  <2>6. QueuesIn(book', Price) = [QueuesIn(book, Price) EXCEPT ![s][Queues!Best(s)][1].quantity = @ - qty]
    BY <2>2, <2>3, <2>5, Zenon DEF Follows
  <2> QED
    BY <1>1, <1>2, <1>4, <2>4, <2>6, Zenon DEF Queues!ReduceTop
<1> QED
  BY <1>3, <1>4, Zenon DEF CallReduceTop

\* Every call of the book is that call of the queues.
LEMMA NextMaps ==
  ASSUME NEW cap \in DOMAIN Offer, Held(book, RestingOrder, Price, cap), [Next]_vars
  PROVE  [Queues!Next]_(Queues!vars)
<1>1. UNCHANGED Capacity(book)
  <2>1. Held(book', RestingOrder, Price, cap)
    BY NextBook, Zenon
  <2>2. Reads(Price, book, cap) /\ Reads(Price, book', cap)
    BY <2>1, RestMeets, Zenon
  <2> QED
    BY <2>2, Zenon DEF Reads
<1>2. CASE UNCHANGED vars
  <2>1. book' = book /\ ret' = ret
    BY <1>2, Zenon DEF vars
  <2>2. UNCHANGED Queues!vars
    BY <2>1, Zenon DEF Queues!vars
  <2> QED
    BY <2>2, Zenon
<1>3. ASSUME NEW o \in Order, CallInsert(o) PROVE Queues!Next
  <2>1. Queues!Insert(o)
    BY <1>3, InsertMaps, Zenon
  <2> QED
    BY <1>1, <2>1, Zenon DEF Queues!Next
<1>4. ASSUME NEW i \in Intent, CallCancel(i) PROVE Queues!Next
  <2>1. Queues!Cancel(i)
    BY <1>4, CancelMaps, Zenon
  <2> QED
    BY <1>1, <2>1, Zenon DEF Queues!Next
<1>5. ASSUME NEW s \in Side, CallPopTop(s) PROVE Queues!Next
  <2>1. Queues!PopTop(s) /\ s \in {"Bid", "Ask"}
    BY <1>5, PopMaps, Zenon DEF Side
  <2> QED
    BY <1>1, <2>1, Zenon DEF Queues!Next
<1>6. ASSUME NEW s \in Side, NEW most \in Quantity, NEW qty \in 1 .. most, CallReduceTop(s, qty) PROVE Queues!Next
  <2>1. qty \in Nat /\ s \in {"Bid", "Ask"}
    BY DEF Side
  <2>2. Queues!ReduceTop(s, qty)
    BY <1>6, <2>1, ReduceMaps, Zenon
  <2> QED
    BY <1>1, <2>1, <2>2, Zenon DEF Queues!Next
<1> QED
  BY <1>2, <1>3, <1>4, <1>5, <1>6, Zenon DEF Next

\* Arena, links, index and running totals implement a FIFO queue per side and
\* price: every call returns, and changes, what the queues would, for any
\* capacity, prices, quantities and intents.
THEOREM BookImplementsQueues == Spec => ImplementsQueues
<1>1. BookInv /\ [Next]_vars => [Queues!Next]_(Queues!vars)
  BY NextMaps, Zenon DEF BookInv
<1> QED
  BY <1>1, InitQueues, BookInvariant, PTL DEF Spec, ImplementsQueues, Queues!Spec

-----------------------------------------------------------------------------
\* The views of a sound book show what rests in it.
LEMMA SoundDepth ==
  ASSUME NEW cap, Held(book, RestingOrder, Price, cap)
  PROVE  DepthShowsTheBook
<1>1. PICK Q : BookSound(book, RestingOrder, Price, cap, Q)
  BY Zenon DEF Held
<1>2. PICK M, a : M = NodesOf(book.arena) /\ a = book.arena
  BY Zenon
<1>3. DOMAIN M = LiveHandles(a) /\ \A h \in DOMAIN M : M[h] = ArenaGet(a, h)
  BY <1>2, Zenon DEF NodesOf
<1>4. SUFFICES ASSUME NEW side \in Side
               PROVE  LET resting(p) == {h \in LiveHandles(book.arena) :
                                           LET o == ArenaGet(book.arena, h).order IN o.side = side /\ o.price = p}
                          total(p)   == SumFunction([h \in resting(p) |-> ArenaGet(book.arena, h).order.quantity])
                          better(p)  == {q \in Price : resting(q) # {} /\ (IF side = "Bid" THEN q >= p ELSE q <= p)}
                          rank(p)    == Cardinality(better(p))
                      IN  /\ \A p \in Price :
                               /\ LevelQty(book, side, p) = total(p) % QtyMod
                               /\ total(p) < QtyMod => LevelQty(book, side, p) = total(p)
                          /\ \A n \in 0 .. Cardinality(Price) :
                               {<<k, Depth(book, side, n)[k]>> : k \in DOMAIN Depth(book, side, n)}
                                 = {<<rank(p), <<p, LevelQty(book, side, p)>> >> :
                                      p \in {q \in Price : resting(q) # {} /\ rank(q) <= n}}
  BY Zenon DEF DepthShowsTheBook
<1> DEFINE resting(p) == {h \in LiveHandles(book.arena) :
                            LET o == ArenaGet(book.arena, h).order IN o.side = side /\ o.price = p}
           total(p)   == SumFunction([h \in resting(p) |-> ArenaGet(book.arena, h).order.quantity])
           qty(p)     == LevelQty(book, side, p)
           better(p)  == {q \in Price : resting(q) # {} /\ (IF side = "Bid" THEN q >= p ELSE q <= p)}
           rank(p)    == Cardinality(better(p))
<1>5. PICK D : D = DOMAIN book.levels[side]
  BY Zenon
<1>6. D \in SUBSET Nat /\ IsFiniteSet(D) /\ D \subseteq Price
  <2>1. PricesAre(D, Q, Price, side)
    BY <1>1, <1>5, PricesFinite, Zenon
  <2> QED
    BY <2>1, Zenon DEF PricesAre
<1>7. ASSUME NEW p \in Price PROVE resting(p) = At(M, <<side, p>>)
  <2>1. \A h \in DOMAIN M : KeyOf(M[h].order) = <<side, p>> <=> M[h].order.side = side /\ M[h].order.price = p
    BY Zenon DEF KeyOf
  <2> QED
    BY <1>2, <1>3, <2>1, Zenon DEF At
<1>8. ASSUME NEW p \in Price
      PROVE  /\ LevelQty(book, side, p) = total(p) % QtyMod
             /\ total(p) < QtyMod => LevelQty(book, side, p) = total(p)
             /\ resting(p) # {} <=> p \in D
  <2>1. /\ LevelQty(book, side, p) = QtyAt(M, <<side, p>>) % QtyMod
        /\ p \in D <=> At(M, <<side, p>>) # {}
    <3>1. Shows(book, side, p, M)
      BY <1>1, <1>2, LevelQtyIs, Zenon
    <3> QED
      BY <1>5, <3>1, Zenon DEF Shows
  <2>2. [h \in resting(p) |-> ArenaGet(book.arena, h).order.quantity] = [h \in At(M, <<side, p>>) |-> M[h].order.quantity]
    <3>1. \A h \in At(M, <<side, p>>) : ArenaGet(book.arena, h).order.quantity = M[h].order.quantity
      BY <1>2, <1>3, Zenon DEF At
    <3> HIDE DEF resting
    <3> QED
      BY <1>7, <3>1, Zenon
  <2> HIDE DEF resting
  <2>3. total(p) = QtyAt(M, <<side, p>>)
    BY <2>2, Zenon DEF QtyAt
  <2>4. QtyAt(M, <<side, p>>) \in Nat /\ QtyMod \in Nat \ {0}
    <3>1. ArenaSound(book.arena, Node(RestingOrder), cap) /\ OrdersOK(RestingOrder, Price)
      BY <1>1, Zenon DEF BookSound
    <3>2. Counted(M)
      BY <1>2, <3>1, NodesCounted, Zenon
    <3> QED
      BY <3>1, <3>2, QtyNat, Zenon DEF OrdersOK
  <2>5. \A t \in Nat, m \in Nat \ {0} : t < m => t % m = t
    OBVIOUS
  <2> HIDE DEF total
  <2> QED
    BY <1>7, <2>1, <2>3, <2>4, <2>5, Zenon
<1> HIDE DEF resting, total, qty
<1>9. \A p \in Price : rank(p) = Rank(side, D, p)
  <2>1. ASSUME NEW p \in Price PROVE better(p) = Ahead(side, D, p)
    <3>1. \A q : q \in better(p) <=> q \in Ahead(side, D, p)
      BY <1>6, <1>8, Zenon DEF Ahead
    <3> QED
      BY <3>1, Zenon
  <2> HIDE DEF better
  <2> QED
    BY <2>1, Zenon DEF Rank
<1> HIDE DEF better, rank
<1>10. ASSUME NEW n \in 0 .. Cardinality(Price)
       PROVE  {<<k, Depth(book, side, n)[k]>> : k \in DOMAIN Depth(book, side, n)}
                = {<<rank(p), <<p, qty(p)>> >> : p \in {q \in Price : resting(q) # {} /\ rank(q) <= n}}
  <2>1. PICK d, S : d = Depth(book, side, n) /\ S = {q \in Price : resting(q) # {} /\ rank(q) <= n}
    BY Zenon
  <2>2. n \in Nat
    OBVIOUS
  <2>3. Lists(Depth(book, side, n), book, side, DOMAIN book.levels[side], n)
    BY <1>5, <1>6, <2>2, DepthIs, Zenon
  <2>4. Lists(d, book, side, D, n)
    BY <1>5, <2>1, <2>3, Zenon
  <2>5. \A p : p \in S <=> p \in D /\ Rank(side, D, p) <= n
    BY <1>6, <1>8, <1>9, <2>1, Zenon
  <2>6. \A p \in S : p \in Price /\ rank(p) = Rank(side, D, p) /\ qty(p) = LevelQty(book, side, p)
    BY <1>9, <2>1, Zenon DEF qty
  <2>7. ASSUME NEW k \in DOMAIN d PROVE \E p \in S : <<k, d[k]>> = <<rank(p), <<p, qty(p)>> >>
    <3>1. PICK p \in D : Rank(side, D, p) = k /\ k <= n /\ d[k] = <<p, LevelQty(book, side, p)>>
      BY <2>4, Zenon DEF Lists
    <3>2. p \in S
      BY <2>5, <3>1, Zenon
    <3> QED
      BY <2>6, <3>1, <3>2, Zenon
  <2>8. ASSUME NEW p \in S PROVE \E k \in DOMAIN d : <<k, d[k]>> = <<rank(p), <<p, qty(p)>> >>
    <3>1. Rank(side, D, p) \in DOMAIN d /\ d[Rank(side, D, p)] = <<p, LevelQty(book, side, p)>>
      BY <2>4, <2>5, Zenon DEF Lists
    <3> QED
      BY <2>6, <3>1, Zenon
  <2>9. {<<k, d[k]>> : k \in DOMAIN d} = {<<rank(p), <<p, qty(p)>> >> : p \in S}
    BY <2>7, <2>8, SMTT(30), SMTT(60)
  <2> QED
    BY <2>1, <2>9, Zenon
<1> QED
  BY <1>8, <1>10, Zenon DEF resting, total, qty, better, rank

\* level_qty, bid_depth and ask_depth show what rests in the arena: each price
\* once, best first, for every number of levels asked for, with the sum of its
\* orders modulo QtyMod, the width of total_qty: exactly that sum as long as
\* it is below QtyMod.
THEOREM DepthStaysTrue == Spec => []DepthShowsTheBook
<1>1. BookInv => DepthShowsTheBook
  BY SoundDepth, Zenon DEF BookInv
<1> QED
  BY <1>1, BookInvariant, PTL
=============================================================================

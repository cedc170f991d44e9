---------------------------- MODULE BookLayout ------------------------------
(***************************************************************************)
(* BookSound(b, O, P, cap, Q): arena, levels and index of a book b fit     *)
(* together, where Q gives for each side and price the handles of its      *)
(* queue, oldest first.  Every method of the book keeps it, and changes Q  *)
(* as a method of FIFO queues would.                                       *)
(***************************************************************************)
EXTENDS BookLemmas

\* The level the map holds for c.
LevelOf(M, q, c) == [head |-> q[1], tail |-> q[Len(q)], len |-> Len(q), total_qty |-> QtyAt(M, c) % QtyMod]

\* A map for each side.
AreMaps(L) == L = [s \in Side |-> L[s]] /\ \A s \in Side : L[s] = [p \in DOMAIN L[s] |-> L[s][p]]

\* The map holds the levels some order rests at, and no other.
LevelsSound(L, M, Q, P) ==
  /\ AreMaps(L)
  /\ \A s \in Side :
       /\ DOMAIN L[s] = {p \in P : Q[<<s, p>>] # << >>}
       /\ \A p \in DOMAIN L[s] : L[s][p] = LevelOf(M, Q[<<s, p>>], <<s, p>>)

\* What StoreLevel makes of the maps.
Stored(L, s, p, level, K) ==
  /\ AreMaps(K)
  /\ \A t \in Side : t # s => K[t] = L[t]
  /\ level.len = 0 => DOMAIN K[s] = DOMAIN L[s] \ {p} /\ \A r \in DOMAIN K[s] : K[s][r] = L[s][r]
  /\ level.len # 0 => /\ DOMAIN K[s] = DOMAIN L[s] \cup {p} /\ K[s][p] = level
                      /\ \A r \in DOMAIN K[s] : r # p => K[s][r] = L[s][r]

\* A level stored in place of the old one of a queue that changed.
LEMMA LevelsStore ==
  \A L, M, N, Q, P, q, R, level : \A s \in Side, p \in P :
    LevelsSound(L, M, Q, P) /\ DOMAIN Q = Side \X P /\ ((q = << >>) <=> (Len(q) = 0)) /\
    R = [Q EXCEPT ![<<s, p>>] = q] /\ level.len = Len(q) /\
    (q # << >> => level = LevelOf(N, q, <<s, p>>)) /\
    (\A d : d # <<s, p>> => QtyAt(N, d) = QtyAt(M, d)) =>
    LevelsSound(StoreLevel(L, s, p, level), N, R, P)
<1>StoreIs. ASSUME NEW L, AreMaps(L), NEW s \in Side, NEW p, NEW level, NEW K, K = StoreLevel(L, s, p, level)
            PROVE  Stored(L, s, p, level, K)
  <2> USE <1>StoreIs
  <2>1. PICK new : new = IF level.len = 0 THEN MapRemove(L[s], p) ELSE MapPut(L[s], p, level)
    BY Zenon
  <2>2. K = [L EXCEPT ![s] = new]
    BY <2>1, Zenon DEF StoreLevel
  <2>3. K = [t \in Side |-> K[t]] /\ K[s] = new /\ \A t \in Side : t # s => K[t] = L[t]
    BY <2>2, Zenon DEF AreMaps
  <2>a. (K[s] = [r \in DOMAIN K[s] |-> K[s][r]]) => AreMaps(K)
    BY <2>3, Zenon DEF AreMaps
  <2>4. CASE level.len = 0
    <3>1. new = [r \in DOMAIN L[s] \ {p} |-> L[s][r]]
      BY <2>1, <2>4, Zenon DEF MapRemove, Restrict
    <3>2. /\ DOMAIN K[s] = DOMAIN L[s] \ {p} /\ \A r \in DOMAIN K[s] : K[s][r] = L[s][r]
          /\ K[s] = [r \in DOMAIN K[s] |-> K[s][r]]
      BY <2>3, <3>1, ZenonT(60)
    <3> QED
      BY <2>3, <2>4, <2>a, <3>2, Zenon DEF Stored
  <2>5. CASE level.len # 0
    <3>1. new = [r \in DOMAIN L[s] \cup {p} |-> IF r = p THEN level ELSE L[s][r]]
      BY <2>1, <2>5, Zenon DEF MapPut
    <3>2. /\ DOMAIN K[s] = DOMAIN L[s] \cup {p} /\ K[s][p] = level
          /\ \A r \in DOMAIN K[s] : r # p => K[s][r] = L[s][r]
          /\ K[s] = [r \in DOMAIN K[s] |-> K[s][r]]
      BY <2>3, <3>1, ZenonT(60)
    <3> QED
      BY <2>3, <2>5, <2>a, <3>2, Zenon DEF Stored
  <2> QED
    BY <2>4, <2>5, Zenon
<1> TAKE L, M, N, Q, P, q, R, level
<1> TAKE s \in Side, p \in P
<1> HAVE LevelsSound(L, M, Q, P) /\ DOMAIN Q = Side \X P /\ ((q = << >>) <=> (Len(q) = 0)) /\
         R = [Q EXCEPT ![<<s, p>>] = q] /\ level.len = Len(q) /\
         (q # << >> => level = LevelOf(N, q, <<s, p>>)) /\
         (\A d : d # <<s, p>> => QtyAt(N, d) = QtyAt(M, d))
<1>1. PICK K : K = StoreLevel(L, s, p, level)
  BY Zenon
<1>2. /\ AreMaps(L)
      /\ \A t \in Side : /\ DOMAIN L[t] = {r \in P : Q[<<t, r>>] # << >>}
                         /\ \A r \in DOMAIN L[t] : L[t][r] = LevelOf(M, Q[<<t, r>>], <<t, r>>)
  BY Zenon DEF LevelsSound
<1>3. /\ AreMaps(K)
      /\ \A t \in Side : t # s => K[t] = L[t]
      /\ level.len = 0 => DOMAIN K[s] = DOMAIN L[s] \ {p} /\ \A r \in DOMAIN K[s] : K[s][r] = L[s][r]
      /\ level.len # 0 => /\ DOMAIN K[s] = DOMAIN L[s] \cup {p} /\ K[s][p] = level
                          /\ \A r \in DOMAIN K[s] : r # p => K[s][r] = L[s][r]
  <2>1. Stored(L, s, p, level, K)
    BY <1>1, <1>2, <1>StoreIs, Zenon
  <2> QED
    BY <2>1, Zenon DEF Stored
<1>4. /\ R[<<s, p>>] = q
      /\ \A t \in Side, r \in P : t # s \/ r # p => <<t, r>> # <<s, p>> /\ R[<<t, r>>] = Q[<<t, r>>]
  BY Zenon
<1>5. ASSUME NEW t \in Side, NEW r \in P, t # s \/ r # p
      PROVE  LevelOf(N, R[<<t, r>>], <<t, r>>) = LevelOf(M, Q[<<t, r>>], <<t, r>>)
  <2>1. QtyAt(N, <<t, r>>) = QtyAt(M, <<t, r>>) /\ R[<<t, r>>] = Q[<<t, r>>]
    BY <1>4, <1>5, Zenon
  <2> QED
    BY <2>1, Zenon DEF LevelOf
<1>6. ASSUME NEW t \in Side, t # s
      PROVE  /\ DOMAIN K[t] = {r \in P : R[<<t, r>>] # << >>}
             /\ \A r \in DOMAIN K[t] : K[t][r] = LevelOf(N, R[<<t, r>>], <<t, r>>)
  <2>1. K[t] = L[t] /\ DOMAIN L[t] = {r \in P : Q[<<t, r>>] # << >>}
    BY <1>2, <1>3, <1>6, Zenon
  <2>2. {r \in P : Q[<<t, r>>] # << >>} = {r \in P : R[<<t, r>>] # << >>}
    BY <1>4, <1>6, Zenon
  <2>3. \A r \in DOMAIN K[t] : r \in P /\ K[t][r] = LevelOf(M, Q[<<t, r>>], <<t, r>>)
    BY <1>2, <2>1, Zenon
  <2> QED
    BY <1>5, <1>6, <2>1, <2>2, <2>3, Zenon
<1>7. DOMAIN K[s] = {r \in P : R[<<s, r>>] # << >>}
  <2>1. DOMAIN L[s] = {r \in P : Q[<<s, r>>] # << >>}
    BY <1>2, Zenon
  <2>2. \A r \in P : r # p => R[<<s, r>>] = Q[<<s, r>>]
    BY <1>4, Zenon
  <2>3. CASE level.len = 0
    <3>1. q = << >> /\ DOMAIN K[s] = DOMAIN L[s] \ {p}
      BY <1>3, <2>3, Zenon
    <3> QED
      BY <1>4, <2>1, <2>2, <3>1, Zenon
  <2>4. CASE level.len # 0
    <3>1. q # << >> /\ DOMAIN K[s] = DOMAIN L[s] \cup {p}
      BY <1>3, <2>4, Zenon
    <3> QED
      BY <1>4, <2>1, <2>2, <3>1
  <2> QED
    BY <2>3, <2>4, Zenon
<1>8. ASSUME NEW r \in DOMAIN K[s] PROVE K[s][r] = LevelOf(N, R[<<s, r>>], <<s, r>>)
  <2>1. r \in P
    BY <1>7, Zenon
  <2>2. CASE r # p
    <3>1. r \in DOMAIN L[s] /\ K[s][r] = L[s][r]
      <4>1. CASE level.len = 0
        BY <1>3, <2>2, <4>1, Zenon
      <4>2. CASE level.len # 0
        BY <1>3, <2>2, <4>2, Zenon
      <4> QED
        BY <4>1, <4>2, Zenon
    <3>2. L[s][r] = LevelOf(M, Q[<<s, r>>], <<s, r>>)
      BY <1>2, <3>1, Zenon
    <3> QED
      BY <1>5, <2>1, <2>2, <3>1, <3>2, Zenon
  <2>3. CASE r = p
    <3>1. R[<<s, p>>] # << >>
      BY <1>7, <2>3, Zenon
    <3>2. q # << >> /\ level.len # 0
      BY <1>4, <3>1, Zenon
    <3>3. K[s][p] = level /\ level = LevelOf(N, q, <<s, p>>)
      BY <1>3, <3>2, Zenon
    <3> QED
      BY <1>4, <2>3, <3>3, Zenon
  <2> QED
    BY <2>2, <2>3, Zenon
<1>9. ASSUME NEW t \in Side
      PROVE  /\ DOMAIN K[t] = {r \in P : R[<<t, r>>] # << >>}
             /\ \A r \in DOMAIN K[t] : K[t][r] = LevelOf(N, R[<<t, r>>], <<t, r>>)
  <2>2. CASE t # s
    BY <1>6, <2>2, Zenon
  <2>3. CASE t = s
    BY <1>7, <1>8, <2>3, Zenon
  <2> QED
    BY <2>2, <2>3, Zenon
<1>10. LevelsSound(K, N, R, P)
  BY <1>3, <1>9, Zenon DEF LevelsSound
<1> QED
  BY <1>1, <1>10, Zenon

\* The level insert reads, and the levels insert and cancel store.
LevelFor(M, q, c) == IF q = << >> THEN PriceLevelDefault ELSE LevelOf(M, q, c)

InsertLevel(level, x, qty) ==
  [head      |-> IF IsValid(level.tail) THEN level.head ELSE x,
   tail      |-> x,
   len       |-> level.len + 1,
   total_qty |-> (level.total_qty + qty) % QtyMod]

CancelLevel(level, node, qty) ==
  [head      |-> IF IsValid(node.prev) THEN level.head ELSE node.next,
   tail      |-> IF IsValid(node.next) THEN level.tail ELSE node.prev,
   len       |-> level.len - 1,
   total_qty |-> (level.total_qty - qty) % QtyMod]

-----------------------------------------------------------------------------
\* What the book's arithmetic and its callers' orders must be.
OrdersOK(O, P) ==
  /\ QtyMod \in Nat \ {0} /\ P \subseteq Nat
  /\ \A o \in O : o.side \in Side /\ o.price \in P /\ o.quantity \in Nat

\* The book is the queues Q, laid out in its arena.
BookSound(b, O, P, cap, Q) ==
  /\ OrdersOK(O, P)
  /\ b = [arena |-> b.arena, levels |-> b.levels, index |-> b.index]
  /\ ArenaSound(b.arena, Node(O), cap)
  /\ QueuesSound(NodesOf(b.arena), Q, P)
  /\ LevelsSound(b.levels, NodesOf(b.arena), Q, P)
  /\ IndexSound(b.index, NodesOf(b.arena))

\* A sound arena's nodes.
LEMMA NodesCounted ==
  ASSUME FiniteFacts, NEW O, NEW P, OrdersOK(O, P), NEW cap, NEW a, ArenaSound(a, Node(O), cap), NEW M, M = NodesOf(a)
  PROVE  /\ DOMAIN M = LiveHandles(a) /\ SENTINEL \notin DOMAIN M /\ Counted(M)
         /\ \A h \in DOMAIN M : M[h] = ArenaGet(a, h) /\ M[h] \in Node(O) /\ M[h].order \in O
<1>1. M \in [LiveHandles(a) -> Node(O)] /\ \A h \in LiveHandles(a) : ArenaGet(a, h) = M[h]
  BY LiveNode, Zenon
<1>2. DOMAIN M = LiveHandles(a) /\ \A h \in DOMAIN M : M[h] = ArenaGet(a, h) /\ M[h] \in Node(O) /\ M[h].order \in O
  BY <1>1, Zenon DEF Node
<1>3. SENTINEL \notin DOMAIN M
  BY <1>2, LiveHas, Zenon
<1>4. IsFiniteSet(DOMAIN M)
  <2>1. cap \in Nat /\ DOMAIN a.slots = 0 .. cap - 1
    BY DEF ArenaSound, SlotsSound
  <2>2. PICK f : f = [h \in LiveHandles(a) |-> h.slot]
    BY Zenon
  <2>3. \A h \in LiveHandles(a) : h.slot \in 0 .. cap - 1 /\ h = ArenaIdx(h.slot, a.slots[h.slot].generation)
    BY LiveSlot, SMTT(60)
  <2>4. f \in [LiveHandles(a) -> 0 .. cap - 1] /\ \A h \in LiveHandles(a) : f[h] = h.slot
    BY <2>2, <2>3, Zenon
  <2>5. \A g, h \in LiveHandles(a) : f[g] = f[h] => g = h
    BY <2>3, <2>4, ZenonT(60)
  <2>6. f \in Injection(LiveHandles(a), 0 .. cap - 1)
    BY <2>4, <2>5, Zenon DEF Injection, IsInjective
  <2>7. IsFiniteSet(0 .. cap - 1)
    BY <2>1, IntervalFin
  <2> QED
    BY <1>2, <2>6, <2>7, InjectionFin, Zenon DEF ExistsInjection
<1>5. Counted(M)
  BY <1>2, <1>4, Zenon DEF Counted, OrdersOK
<1> QED
  BY <1>2, <1>3, <1>5, Zenon

\* What the map holds for c, and what insert reads of it.
LEMMA LevelRead ==
  ASSUME NEW L, NEW M, NEW Q, NEW P, LevelsSound(L, M, Q, P), NEW s \in Side, NEW p \in P
  PROVE  /\ p \in DOMAIN L[s] <=> Q[<<s, p>>] # << >>
         /\ p \in DOMAIN L[s] => L[s][p] = LevelOf(M, Q[<<s, p>>], <<s, p>>)
         /\ (IF p \in DOMAIN L[s] THEN L[s][p] ELSE PriceLevelDefault)
              = LevelFor(M, Q[<<s, p>>], <<s, p>>)
<1>1. DOMAIN L[s] = {r \in P : Q[<<s, r>>] # << >>}
  BY Zenon DEF LevelsSound
<1>2. p \in DOMAIN L[s] <=> Q[<<s, p>>] # << >>
  BY <1>1, Zenon
<1>3. p \in DOMAIN L[s] => L[s][p] = LevelOf(M, Q[<<s, p>>], <<s, p>>)
  BY Zenon DEF LevelsSound
<1> QED
  BY <1>2, <1>3, ZenonT(60) DEF LevelFor

\* insert appends the new node to the queue of its level and keeps the book
\* sound.
LEMMA InsertSound ==
  ASSUME FiniteFacts
  PROVE  \A O, P, cap, b, Q, x, e : \A o \in O :
           BookSound(b, O, P, cap, Q) /\ o.intent \notin DOMAIN b.index /\ ~ArenaFull(b.arena) /\
           x = AllocIdx(b.arena) /\ e = Insert(b, o) =>
           /\ BookSound(e, O, P, cap, [Q EXCEPT ![KeyOf(o)] = Append(Q[KeyOf(o)], x)])
           /\ InsertNodes(NodesOf(b.arena), x, o, Last1(Q[KeyOf(o)]), NodesOf(e.arena))
           /\ x \notin LiveHandles(b.arena)
\* The level insert stores is the level of the longer queue.
<1>LevelInsert. ASSUME QtyMod \in Nat \ {0}, NEW M, NEW N, NEW c, NEW H, SENTINEL \notin H, NEW q \in Seq(H), NEW x,
                       NEW level, level = LevelFor(M, q, c), NEW qty \in Nat,
                       QtyAt(M, c) \in Nat, QtyAt(N, c) = QtyAt(M, c) + qty, q = << >> => QtyAt(M, c) = 0,
                       NEW new, new = InsertLevel(level, x, qty)
                PROVE  /\ level.tail = Last1(q)
                       /\ new = LevelOf(N, Append(q, x), c) /\ new.len = Len(Append(q, x)) /\ Append(q, x) # << >>
  <2> USE <1>LevelInsert
  <2>1. PICK r : r = Append(q, x)
    BY Zenon
  <2>2. /\ Len(q) \in Nat /\ Len(r) = Len(q) + 1 /\ \A i \in 1 .. Len(q) : r[i] = q[i] /\ q[i] \in H
        /\ r[Len(r)] = x /\ r # << >> /\ (q = << >> <=> Len(q) = 0)
    BY <2>1
  <2>3. level.tail = Last1(q) /\ level.len = Len(q) /\ level.total_qty = QtyAt(M, c) % QtyMod
    <3>1. CASE q = << >>
      BY <2>2, <3>1 DEF LevelFor, PriceLevelDefault, Last1
    <3>2. CASE q # << >>
      BY <3>2, Zenon DEF LevelFor, LevelOf, Last1
    <3> QED
      BY <3>1, <3>2, Zenon
  <2>4. (IF IsValid(level.tail) THEN level.head ELSE x) = r[1]
    <3>1. CASE q = << >>
      <4>1. ~IsValid(level.tail) /\ Len(r) = 1
        BY <2>2, <2>3, <3>1 DEF Last1, IsValid
      <4> QED
        BY <2>2, <4>1, Zenon
    <3>2. CASE q # << >>
      <4>1. Len(q) \in 1 .. Len(q) /\ 1 \in 1 .. Len(q)
        BY <2>2, <3>2
      <4>2. IsValid(level.tail) /\ level.head = q[1]
        BY <2>2, <2>3, <3>2, <4>1, Zenon DEF Last1, IsValid, LevelFor, LevelOf
      <4> QED
        BY <2>2, <4>1, <4>2, Zenon
    <3> QED
      BY <3>1, <3>2, Zenon
  <2>5. (level.total_qty + qty) % QtyMod = QtyAt(N, c) % QtyMod
    <3>1. PICK t \in Int : t = QtyAt(M, c)
      OBVIOUS
    <3>2. qty \in Int
      OBVIOUS
    <3>3. ((t % QtyMod) + qty) % QtyMod = (t + qty) % QtyMod
      BY <3>2, ModAdd, ZenonT(60)
    <3> QED
      BY <2>3, <3>1, <3>3, Zenon
  <2>6. new = LevelOf(N, r, c)
    BY <2>2, <2>3, <2>4, <2>5, Zenon DEF InsertLevel, LevelOf
  <2>7. new.len = Len(r)
    BY <2>6 DEF LevelOf
  <2> QED
    BY <2>1, <2>2, <2>3, <2>6, <2>7, Zenon
<1>IndexInsert. ASSUME NEW M, NEW N, NEW I, IndexSound(I, M), NEW x, x \notin DOMAIN M, NEW o, o.intent \notin DOMAIN I, NEW tail,
                       InsertNodes(M, x, o, tail, N)
                PROVE  IndexSound(MapPut(I, o.intent, x), N)
  <2> USE <1>IndexInsert
  <2>1. PICK J, i : J = MapPut(I, o.intent, x) /\ i = o.intent
    BY Zenon
  <2>2. /\ J = [k \in DOMAIN J |-> J[k]] /\ DOMAIN J = DOMAIN I \cup {i} /\ J[i] = x
        /\ \A k \in DOMAIN I : k # i /\ J[k] = I[k]
    BY <2>1, Zenon DEF MapPut
  <2>3. /\ DOMAIN N = DOMAIN M \cup {x} /\ N[x].order = o /\ \A h \in DOMAIN M : N[h].order = M[h].order
    BY Zenon DEF InsertNodes
  <2>4. /\ DOMAIN I = {M[h].order.intent : h \in DOMAIN M} /\ \A h \in DOMAIN M : I[M[h].order.intent] = h
    BY Zenon DEF IndexSound
  <2>5. DOMAIN J = {N[h].order.intent : h \in DOMAIN N}
    BY <2>1, <2>2, <2>3, <2>4, SMTT(30), SMTT(60)
  <2>6. \A h \in DOMAIN N : J[N[h].order.intent] = h
    <3>1. \A h \in DOMAIN M : M[h].order.intent \in DOMAIN I
      BY <2>4, Zenon
    <3> QED
      BY <2>1, <2>2, <2>3, <2>4, <3>1
  <2> QED
    BY <2>1, <2>2, <2>5, <2>6, Zenon DEF IndexSound
<1> TAKE O, P, cap, b, Q, x, e
<1> TAKE o \in O
<1> HAVE BookSound(b, O, P, cap, Q) /\ o.intent \notin DOMAIN b.index /\ ~ArenaFull(b.arena) /\
         x = AllocIdx(b.arena) /\ e = Insert(b, o)
<1>1. PICK a, L, I, M, s, p, c, q :
        /\ a = b.arena /\ L = b.levels /\ I = b.index /\ M = NodesOf(a)
        /\ s = o.side /\ p = o.price /\ c = <<s, p>> /\ q = Q[c]
  BY Zenon
<1>2. /\ OrdersOK(O, P) /\ ArenaSound(a, Node(O), cap) /\ QueuesSound(M, Q, P) /\ LevelsSound(L, M, Q, P) /\ IndexSound(I, M)
  BY <1>1, Zenon DEF BookSound
<1>3. s \in Side /\ p \in P /\ c \in Side \X P /\ o.quantity \in Nat /\ QtyMod \in Nat \ {0} /\ c = KeyOf(o)
  BY <1>1, <1>2, Zenon DEF OrdersOK, KeyOf
<1>4. DOMAIN M = LiveHandles(a) /\ SENTINEL \notin DOMAIN M /\ Counted(M)
  BY <1>1, <1>2, NodesCounted, Zenon
<1>5. Linked(M, q) /\ q \in Seq(DOMAIN M) /\ \A h : h \in At(M, c) <=> \E i \in 1 .. Len(q) : q[i] = h
  <2>1. q = Q[c]
    BY <1>1, Zenon
  <2>2. Linked(M, Q[c]) /\ Q[c] \in Seq(DOMAIN M) /\ \A h : h \in At(M, c) <=> \E i \in 1 .. Len(Q[c]) : Q[c][i] = h
    BY <1>2, <1>3, QueueAt, SMTT(30), SMTT(60)
  <2> QED
    BY <2>1, <2>2, Zenon
<1>6. PICK level : level = IF p \in DOMAIN L[s] THEN L[s][p] ELSE PriceLevelDefault
  BY Zenon
<1>7. level = LevelFor(M, q, c)
  <2>1. c = <<s, p>> /\ q = Q[<<s, p>>]
    BY <1>1, Zenon
  <2>2. level = LevelFor(M, Q[<<s, p>>], <<s, p>>)
    BY <1>2, <1>3, <1>6, LevelRead, SMTT(30), SMTT(60)
  <2> QED
    BY <2>1, <2>2, Zenon
<1>8. PICK new, A, t :
        /\ t = level.tail
        /\ new = InsertLevel(level, x, o.quantity)
        /\ A = IF IsValid(t) THEN SetPrev(SetNext(ArenaAlloc(a, OrderNode(o, SENTINEL, SENTINEL)), t, x), x, t)
                             ELSE ArenaAlloc(a, OrderNode(o, SENTINEL, SENTINEL))
  BY Zenon
<1>9. e = [arena |-> A, levels |-> StoreLevel(L, s, p, new), index |-> MapPut(I, o.intent, x)]
  BY <1>1, <1>6, <1>8, ZenonT(60) DEF Insert, InsertLevel
<1>10. t = Last1(q) /\ t \in DOMAIN M \cup {SENTINEL}
  <2>1. CASE q = << >>
    BY <1>7, <1>8, <2>1, Zenon DEF LevelFor, PriceLevelDefault, Last1
  <2>2. CASE q # << >>
    <3>1. Len(q) \in 1 .. Len(q) /\ q[Len(q)] \in DOMAIN M
      BY <1>5, <2>2
    <3> QED
      BY <1>7, <1>8, <2>2, <3>1, Zenon DEF LevelFor, LevelOf, Last1
  <2> QED
    BY <2>1, <2>2, Zenon
<1>11. PICK N : N = NodesOf(A)
  BY Zenon
<1>12. ArenaSound(A, Node(O), cap) /\ x \notin LiveHandles(a) /\ InsertNodes(M, x, o, t, N)
  <2>1. t \in LiveHandles(a) \cup {SENTINEL} /\ x = AllocIdx(a) /\ ~ArenaFull(a)
    BY <1>1, <1>4, <1>10, Zenon
  <2> QED
    BY <1>1, <1>2, <1>8, <1>11, <2>1, InsertArena, SMTT(30), SMTT(60)
<1>13. PICK R : R = [Q EXCEPT ![c] = Append(q, x)]
  BY Zenon
<1>14. QueuesSound(N, R, P)
  <2>1. InsertNodes(M, x, o, Last1(Q[c]), N) /\ x \notin DOMAIN M /\ R = [Q EXCEPT ![c] = Append(Q[c], x)]
    BY <1>1, <1>4, <1>10, <1>12, <1>13, Zenon
  <2>2. QueuesSound(N, [Q EXCEPT ![c] = Append(Q[c], x)], P)
    BY <1>2, <1>3, <1>4, <2>1, QueuesInsert, Zenon
  <2> QED
    BY <2>1, <2>2, Zenon, Zenon
<1>15. /\ Counted(N) /\ QtyAt(N, c) = QtyAt(M, c) + o.quantity
       /\ \A d : d # c => QtyAt(N, d) = QtyAt(M, d)
  <2>1. x \notin DOMAIN M /\ Counted(M)
    BY <1>4, <1>12, Zenon
  <2>2. o.quantity \in Nat /\ c = KeyOf(o) /\ InsertNodes(M, x, o, t, N)
    BY <1>3, <1>12, Zenon
  <2>3. QtyMoves(M, N, c, QtyAt(M, c) + o.quantity)
    BY <2>1, <2>2, QtyInsert, ZenonT(60)
  <2> QED
    BY <2>3, ZenonT(60) DEF QtyMoves
<1>16. QtyAt(M, c) \in Nat /\ (q = << >> => QtyAt(M, c) = 0)
  <2>1. QtyAt(M, c) \in Nat /\ [h \in At(M, c) |-> M[h].order.quantity] \in [At(M, c) -> Nat]
    BY <1>4, QtyNat, Zenon
  <2>2. ASSUME q = << >> PROVE QtyAt(M, c) = 0
    <3>1. At(M, c) = {}
      BY <1>5, <2>2
    <3> QED
      BY <2>1, <3>1, SumEmpty, Zenon DEF QtyAt
  <2> QED
    BY <2>1, <2>2, Zenon
<1>17. new = LevelOf(N, Append(q, x), c) /\ new.len = Len(Append(q, x)) /\ Append(q, x) # << >>
  <2>2. PICK H, qty : H = DOMAIN M /\ qty = o.quantity
    BY Zenon
  <2>3. SENTINEL \notin H /\ q \in Seq(H) /\ qty \in Nat /\ QtyAt(N, c) = QtyAt(M, c) + qty
    BY <1>3, <1>4, <1>5, <1>15, <2>2, Zenon
  <2>4. new = InsertLevel(level, x, qty)
    BY <1>8, <2>2, Zenon
  <2> QED
    BY <1>3, <1>7, <1>16, <2>3, <2>4, <1>LevelInsert, SMTT(30), SMTT(60)
<1>18. LevelsSound(StoreLevel(L, s, p, new), N, R, P)
  <2>1. PICK r : r = Append(q, x)
    BY Zenon
  <2>2. r = << >> <=> Len(r) = 0
    BY <1>5, <2>1, SMTT(60)
  <2>3. DOMAIN Q = Side \X P
    BY <1>2, Zenon DEF QueuesSound
  <2>4. R = [Q EXCEPT ![<<s, p>>] = r] /\ \A d : d # <<s, p>> => QtyAt(N, d) = QtyAt(M, d)
    BY <1>1, <1>13, <1>15, <2>1, ZenonT(60)
  <2>5. new.len = Len(r) /\ new = LevelOf(N, r, <<s, p>>)
    BY <1>1, <1>17, <2>1, ZenonT(60)
  <2> QED
    BY <1>2, <1>3, <2>2, <2>3, <2>4, <2>5, LevelsStore, ZenonT(60)
<1>19. IndexSound(MapPut(I, o.intent, x), N)
  BY <1>1, <1>2, <1>4, <1>12, <1>IndexInsert, Zenon
<1>20. /\ e = [arena |-> e.arena, levels |-> e.levels, index |-> e.index] /\ e.arena = A
       /\ e.levels = StoreLevel(L, s, p, new) /\ e.index = MapPut(I, o.intent, x)
  BY <1>9, SMTT(60)
<1>21. BookSound(e, O, P, cap, R)
  BY <1>2, <1>11, <1>12, <1>14, <1>18, <1>19, <1>20, Zenon DEF BookSound
<1> QED
  BY <1>1, <1>3, <1>10, <1>11, <1>12, <1>13, <1>20, <1>21, Zenon

CancelAt(b, i, x, node, s, p) ==
  [arena  |-> Splice(ArenaRemove(b.arena, x), node),
   levels |-> StoreLevel(b.levels, s, p, CancelLevel(b.levels[s][p], node, node.order.quantity)),
   index  |-> MapRemove(b.index, i)]

CancelWith(b, i, x, node) == CancelAt(b, i, x, node, node.order.side, node.order.price)

\* cancel, with the handle and the node it works on named.
LEMMA CancelIs ==
  ASSUME NEW b, NEW i
  PROVE  Cancel(b, i) = CancelWith(b, i, b.index[i], ArenaGet(b.arena, b.index[i]))
  BY ZenonT(60) DEF Cancel, CancelWith, CancelAt, CancelLevel

\* cancel takes the node out of its queue, at any place, and keeps the book
\* sound.
LEMMA CancelSound ==
  ASSUME FiniteFacts
  PROVE  \A O, P, cap, b, Q, M, x, i, e : \A c \in Side \X P : \A k \in 1 .. Len(Q[c]) :
           BookSound(b, O, P, cap, Q) /\ M = NodesOf(b.arena) /\ x = Q[c][k] /\ i = M[x].order.intent /\
           e = Cancel(b, i) =>
           /\ BookSound(e, O, P, cap, [Q EXCEPT ![c] = Without(Q[c], k)])
           /\ CancelNodes(M, x, NodesOf(e.arena))
\* The level cancel stores is the level of the shorter queue.
<1>LevelCancel. ASSUME QtyMod \in Nat \ {0}, NEW M, NEW N, NEW c, SENTINEL \notin DOMAIN M, NEW q, Linked(M, q), NEW k \in 1 .. Len(q),
                       NEW level, level = LevelOf(M, q, c), NEW node, node = M[q[k]], NEW qty \in Nat,
                       QtyAt(M, c) \in Nat, QtyAt(N, c) = QtyAt(M, c) - qty,
                       NEW new, new = CancelLevel(level, node, qty)
                PROVE  /\ new.len = Len(Without(q, k)) /\ (Without(q, k) = << >> <=> Len(Without(q, k)) = 0)
                       /\ Without(q, k) # << >> => new = LevelOf(N, Without(q, k), c)
  <2> USE <1>LevelCancel
  <2>1. PICK r, n : r = Without(q, k) /\ n = Len(q)
    BY Zenon
  <2>2. /\ q \in Seq(DOMAIN M) /\ n \in Nat /\ k \in 1 .. n
        /\ \A i \in 1 .. n : q[i] \in DOMAIN M /\ q[i] # SENTINEL
        /\ node.prev = (IF k = 1 THEN SENTINEL ELSE q[k - 1])
        /\ node.next = (IF k = n THEN SENTINEL ELSE q[k + 1])
    BY <2>1 DEF Linked
  <2>3. /\ Len(r) = n - 1 /\ \A i \in 1 .. n - 1 : r[i] = IF i < k THEN q[i] ELSE q[i + 1]
        /\ r = << >> <=> n - 1 = 0
    <3>1. r \in Seq(DOMAIN M) /\ Len(r) = n - 1 /\ \A i \in 1 .. n - 1 : r[i] = IF i < k THEN q[i] ELSE q[i + 1]
      BY <2>1, <2>2, WithoutIs, ZenonT(60)
    <3>2. r = << >> <=> Len(r) = 0
      BY <3>1, SeqHas, ZenonT(60)
    <3> QED
      BY <3>1, <3>2, Zenon
  <2>4. level.head = q[1] /\ level.tail = q[n] /\ level.len = n /\ level.total_qty = QtyAt(M, c) % QtyMod
    BY <2>1, Zenon DEF LevelOf
  <2>5. new.len = n - 1
    BY <2>4, Zenon DEF CancelLevel
  <2>6. ASSUME r # << >> PROVE new = LevelOf(N, r, c)
    <3>0. n - 1 \in 1 .. n - 1 /\ 1 \in 1 .. n - 1
      BY <2>2, <2>3, <2>6
    <3>1. (IF IsValid(node.prev) THEN level.head ELSE node.next) = r[1]
      <4>1. CASE k = 1
        BY <2>2, <2>3, <3>0, <4>1, SMTT(60) DEF IsValid
      <4>2. CASE k # 1
        <5>1. k - 1 \in 1 .. n /\ 1 < k
          BY <2>2, <4>2
        <5>2. IsValid(node.prev)
          BY <2>2, <4>2, <5>1, Zenon DEF IsValid
        <5> QED
          BY <2>3, <2>4, <3>0, <5>1, <5>2, Zenon
      <4> QED
        BY <4>1, <4>2, Zenon
    <3>2. (IF IsValid(node.next) THEN level.tail ELSE node.prev) = r[n - 1]
      <4>1. CASE k = n
        <5>1. n # 1 /\ n - 1 < n
          BY <2>2, <2>3, <2>6
        <5> QED
          BY <2>2, <2>3, <3>0, <4>1, <5>1, Zenon DEF IsValid
      <4>2. CASE k # n
        <5>1. k + 1 \in 1 .. n /\ ~(n - 1 < k) /\ (n - 1) + 1 = n
          BY <2>2, <4>2
        <5>2. IsValid(node.next)
          BY <2>2, <4>2, <5>1, Zenon DEF IsValid
        <5> QED
          BY <2>3, <2>4, <3>0, <5>1, <5>2, Zenon
      <4> QED
        BY <4>1, <4>2, Zenon
    <3>3. (level.total_qty - qty) % QtyMod = QtyAt(N, c) % QtyMod
      <4>1. PICK y \in Int : y = 0 - qty
        OBVIOUS
      <4>2. PICK t \in Int : t = QtyAt(M, c)
        OBVIOUS
      <4>3. ((t % QtyMod) + y) % QtyMod = (t + y) % QtyMod
        BY ModAdd, Zenon
      <4>4. PICK z : z = t % QtyMod
        BY Zenon
      <4>5. z \in Int
        BY <4>4
      <4>6. z + y = z - qty /\ t + y = QtyAt(N, c)
        BY <4>1, <4>2, <4>5, SMTT(60)
      <4>7. level.total_qty = z
        BY <2>4, <4>2, <4>4, ZenonT(60)
      <4> QED
        BY <4>3, <4>4, <4>6, <4>7, Zenon
    <3> QED
      BY <2>3, <2>4, <3>1, <3>2, <3>3, Zenon DEF CancelLevel, LevelOf
  <2> QED
    BY <2>1, <2>3, <2>5, <2>6, Zenon
<1>IndexCancel. ASSUME NEW M, NEW N, NEW I, IndexSound(I, M), NEW x \in DOMAIN M, CancelNodes(M, x, N)
                PROVE  IndexSound(MapRemove(I, M[x].order.intent), N)
  <2> USE <1>IndexCancel
  <2>1. PICK J, i : J = MapRemove(I, M[x].order.intent) /\ i = M[x].order.intent
    BY Zenon
  <2>2. /\ J = [k \in DOMAIN J |-> J[k]] /\ DOMAIN J = DOMAIN I \ {i}
        /\ \A k \in DOMAIN I : k # i => J[k] = I[k]
    BY <2>1, Zenon DEF MapRemove, Restrict
  <2>3. /\ DOMAIN N = DOMAIN M \ {x} /\ \A h \in DOMAIN N : N[h].order = M[h].order
    BY Zenon DEF CancelNodes
  <2>4. /\ DOMAIN I = {M[h].order.intent : h \in DOMAIN M} /\ \A h \in DOMAIN M : I[M[h].order.intent] = h
    BY Zenon DEF IndexSound
  <2>5. \A h \in DOMAIN N : h \in DOMAIN M /\ M[h].order.intent \in DOMAIN I /\ M[h].order.intent # i
    BY <2>1, <2>3, <2>4, Zenon
  <2>6. DOMAIN J = {N[h].order.intent : h \in DOMAIN N}
    BY <2>1, <2>2, <2>3, <2>4, <2>5
  <2>7. \A h \in DOMAIN N : J[N[h].order.intent] = h
    BY <2>2, <2>3, <2>4, <2>5, ZenonT(60)
  <2> QED
    BY <2>1, <2>2, <2>6, <2>7, Zenon DEF IndexSound
<1> TAKE O, P, cap, b, Q, M, x, i, e
<1> TAKE c \in Side \X P
<1> TAKE k \in 1 .. Len(Q[c])
<1> HAVE BookSound(b, O, P, cap, Q) /\ M = NodesOf(b.arena) /\ x = Q[c][k] /\
         i = M[x].order.intent /\ e = Cancel(b, i)
<1>1. PICK a, L, I : a = b.arena /\ L = b.levels /\ I = b.index
  BY Zenon
<1>2. PICK s \in Side, p \in P : c = <<s, p>>
  OBVIOUS
<1>3. PICK q, node : q = Q[c] /\ node = M[x]
  BY Zenon
<1>4. /\ OrdersOK(O, P) /\ ArenaSound(a, Node(O), cap) /\ QueuesSound(M, Q, P) /\ LevelsSound(L, M, Q, P) /\ IndexSound(I, M)
      /\ M = NodesOf(a)
  BY <1>1, Zenon DEF BookSound
<1>5. /\ DOMAIN M = LiveHandles(a) /\ SENTINEL \notin DOMAIN M /\ Counted(M)
      /\ \A h \in DOMAIN M : M[h] = ArenaGet(a, h) /\ M[h] \in Node(O) /\ M[h].order \in O
  BY <1>4, NodesCounted, Zenon
<1>6. Linked(M, q) /\ q \in Seq(DOMAIN M) /\ k \in 1 .. Len(q) /\ x = q[k]
  <2>1. Linked(M, Q[c]) /\ Q[c] \in Seq(DOMAIN M)
    BY <1>4, QueueAt, Zenon
  <2> QED
    BY <1>3, <2>1, Zenon
<1>7. x \in DOMAIN M /\ KeyOf(M[x].order) = c
  <2>1. x \in DOMAIN M
    BY <1>6
  <2>2. KeyOf(M[Q[c][k]].order) = c
    BY <1>4, Zenon DEF QueuesSound
  <2> QED
    BY <2>1, <2>2, Zenon
<1>8. /\ node = ArenaGet(a, x) /\ node.order.quantity \in Nat /\ node.order.side = s /\ node.order.price = p
      /\ I[i] = x
  <2>1. node = ArenaGet(a, x) /\ node.order.quantity \in Nat
    BY <1>3, <1>5, <1>7, Zenon DEF Counted
  <2>2. <<node.order.side, node.order.price>> = <<s, p>>
    BY <1>2, <1>3, <1>7, Zenon DEF KeyOf
  <2>3. I[i] = x
    BY <1>4, <1>7, Zenon DEF IndexSound
  <2> QED
    BY <2>1, <2>2, <2>3, Zenon
<1>9. /\ node.prev \in LiveHandles(a) \cup {SENTINEL} /\ node.next \in LiveHandles(a) \cup {SENTINEL}
      /\ node.prev # x /\ node.next # x
  <2>1. Beside(M, x, c)
    BY <1>4, Neighbours, Zenon
  <2>2. \A y \in {node.prev, node.next} : y # SENTINEL => y \in DOMAIN M /\ y # x
    BY <1>3, <2>1, Zenon DEF Beside
  <2> QED
    BY <1>5, <1>7, <2>2, Zenon
<1>10. PICK A : A = Splice(ArenaRemove(a, x), node)
  BY Zenon
<1>11. PICK N : N = NodesOf(A)
  BY Zenon
<1>12. ArenaSound(A, Node(O), cap) /\ CancelNodes(M, x, N)
  <2>1. node = NodesOf(a)[x] /\ x \in LiveHandles(a)
    BY <1>3, <1>4, <1>5, <1>7, Zenon
  <2>2. Cancelled(A, O, cap, a, x)
    BY <1>4, <1>9, <1>10, <2>1, CancelArena, Zenon
  <2> QED
    BY <1>4, <1>11, <2>2, Zenon DEF Cancelled
<1>13. PICK level, new : level = L[s][p] /\ new = CancelLevel(level, node, node.order.quantity)
  BY Zenon
<1>14. e = [arena |-> A, levels |-> StoreLevel(L, s, p, new), index |-> MapRemove(I, i)]
  <2>1. b.arena = a /\ b.levels = L /\ b.index = I /\ ArenaGet(a, x) = node /\ I[i] = x
    BY <1>1, <1>8, Zenon
  <2>2. node.order.side = s /\ node.order.price = p /\ L[s][p] = level
    BY <1>8, <1>13, Zenon
  <2>3. e = CancelWith(b, i, b.index[i], ArenaGet(b.arena, b.index[i]))
    BY CancelIs, Zenon
  <2>4. b.index[i] = x /\ ArenaGet(b.arena, x) = node
    BY <2>1, Zenon
  <2>5. e = CancelWith(b, i, x, node)
    BY <2>3, <2>4, Zenon
  <2>6. e = CancelAt(b, i, x, node, s, p)
    BY <2>2, <2>5, ZenonT(60) DEF CancelWith
  <2> QED
    BY <1>10, <1>13, <2>1, <2>6, Zenon DEF CancelAt
<1>15. PICK R, r : R = [Q EXCEPT ![c] = Without(Q[c], k)] /\ r = Without(q, k)
  BY Zenon
<1>16. QueuesSound(N, R, P)
  <2>1. CancelNodes(M, Q[c][k], N)
    BY <1>12, Zenon
  <2> QED
    BY <1>4, <1>5, <1>15, <2>1, QueuesCancel, Zenon
<1>17. QtyMoves(M, N, c, QtyAt(M, c) - M[x].order.quantity)
  BY <1>5, <1>7, <1>12, QtyCancel, Zenon
<1>18. /\ QtyAt(N, c) = QtyAt(M, c) - node.order.quantity
       /\ \A d : d # c => QtyAt(N, d) = QtyAt(M, d)
  BY <1>3, <1>17, Zenon DEF QtyMoves
<1>19. level = LevelOf(M, q, c)
  <2>1. /\ p \in DOMAIN L[s] <=> Q[<<s, p>>] # << >>
        /\ p \in DOMAIN L[s] => L[s][p] = LevelOf(M, Q[<<s, p>>], <<s, p>>)
    BY <1>4, LevelRead, SMTT(30), SMTT(60)
  <2>2. Q[<<s, p>>] = q /\ q # << >>
    BY <1>2, <1>3, <1>6, SMTT(30), SMTT(60)
  <2> QED
    BY <1>2, <1>13, <2>1, <2>2, ZenonT(60)
<1>20. new.len = Len(r) /\ (r = << >> <=> Len(r) = 0) /\ (r # << >> => new = LevelOf(N, r, c))
  <2>1. PICK qty \in Nat : qty = node.order.quantity
    BY <1>8, Zenon
  <2>2. new = CancelLevel(level, node, qty) /\ QtyAt(N, c) = QtyAt(M, c) - qty
    BY <1>13, <1>18, <2>1, Zenon
  <2>3. QtyAt(M, c) \in Nat /\ QtyMod \in Nat \ {0}
    <3>1. QtyAt(M, c) \in Nat
      BY <1>5, QtyNat, Zenon
    <3> QED
      BY <1>4, <3>1, Zenon DEF OrdersOK
  <2>4. node = M[q[k]]
    BY <1>3, <1>6, Zenon
  <2>5. k \in 1 .. Len(q) /\ Linked(M, q) /\ SENTINEL \notin DOMAIN M
    BY <1>5, <1>6, Zenon
  <2> QED
    BY <1>15, <1>19, <2>2, <2>3, <2>4, <2>5, <1>LevelCancel, SMTT(30), SMTT(60)
<1>21. LevelsSound(StoreLevel(L, s, p, new), N, R, P)
  <2>1. DOMAIN Q = Side \X P
    BY <1>4, Zenon DEF QueuesSound
  <2>2. R = [Q EXCEPT ![<<s, p>>] = r] /\ \A d : d # <<s, p>> => QtyAt(N, d) = QtyAt(M, d)
    BY <1>2, <1>3, <1>15, <1>18, Zenon
  <2>3. r # << >> => new = LevelOf(N, r, <<s, p>>)
    BY <1>2, <1>20, Zenon
  <2> QED
    BY <1>4, <1>20, <2>1, <2>2, <2>3, LevelsStore, ZenonT(60)
<1>22. IndexSound(MapRemove(I, i), N)
  BY <1>4, <1>7, <1>12, <1>IndexCancel, ZenonT(60)
<1>23. /\ e = [arena |-> e.arena, levels |-> e.levels, index |-> e.index] /\ e.arena = A
       /\ e.levels = StoreLevel(L, s, p, new) /\ e.index = MapRemove(I, i)
  BY <1>14
<1>24. BookSound(e, O, P, cap, R)
  BY <1>4, <1>11, <1>12, <1>16, <1>21, <1>22, <1>23, ZenonT(60) DEF BookSound
<1> QED
  BY <1>11, <1>12, <1>15, <1>23, <1>24, Zenon

-----------------------------------------------------------------------------

\* p is the price to trade at first on side s.
BestOf(Q, P, s, p) ==
  /\ p \in P /\ Q[<<s, p>>] # << >>
  /\ \A r \in P : Q[<<s, r>>] # << >> => IF s = "Bid" THEN p >= r ELSE p <= r

\* The prices in a side's map are those some order rests at.
PricesAre(S, Q, P, s) ==
  S \in SUBSET Nat /\ IsFiniteSet(S) /\ \A r : r \in S <=> r \in P /\ Q[<<s, r>>] # << >>

\* A side has finitely many levels, each of a price some queue is not empty at.
LEMMA PricesFinite ==
  ASSUME FiniteFacts, NEW O, NEW P, NEW cap, NEW b, NEW Q, BookSound(b, O, P, cap, Q), NEW s \in Side
  PROVE  PricesAre(DOMAIN b.levels[s], Q, P, s)
<1>1. PICK S, M : S = DOMAIN b.levels[s] /\ M = NodesOf(b.arena)
  BY Zenon
<1>2. /\ OrdersOK(O, P) /\ ArenaSound(b.arena, Node(O), cap) /\ QueuesSound(M, Q, P) /\ LevelsSound(b.levels, M, Q, P)
  BY <1>1, Zenon DEF BookSound
<1>3. S = {r \in P : Q[<<s, r>>] # << >>} /\ P \subseteq Nat
  BY <1>1, <1>2, Zenon DEF LevelsSound, OrdersOK
<1>5. IsFiniteSet(S)
  <2>1. Counted(M)
    BY <1>1, <1>2, NodesCounted, Zenon
  <2>2. PICK T : T = {M[h].order.price : h \in DOMAIN M}
    BY Zenon
  <2>3. IsFiniteSet(T)
    <3>1. PICK f : f = [h \in DOMAIN M |-> M[h].order.price]
      BY Zenon
    <3>2. f \in Surjection(DOMAIN M, T)
      BY <2>2, <3>1, Zenon DEF Surjection
    <3> QED
      BY <2>1, <3>2, SurjectionFin, Zenon DEF Counted, ExistsSurjection
  <2>4. ASSUME NEW r \in S PROVE r \in T
    <3>1. PICK c : c = <<s, r>>
      BY Zenon
    <3>2. c \in Side \X P /\ Q[c] # << >>
      BY <1>3, <3>1, Zenon
    <3>3. Q[c] \in Seq(DOMAIN M) /\ \A i \in 1 .. Len(Q[c]) : KeyOf(M[Q[c][i]].order) = c
      BY <1>2, <3>2, Zenon DEF QueuesSound, Linked
    <3>4. 1 \in 1 .. Len(Q[c]) /\ Q[c][1] \in DOMAIN M
      BY <3>2, <3>3
    <3>5. PICK h \in DOMAIN M : KeyOf(M[h].order) = c
      BY <3>3, <3>4, Zenon
    <3>6. M[h].order.price = r
      BY <3>1, <3>5 DEF KeyOf
    <3> QED
      BY <2>2, <3>6, Zenon
  <2> QED
    BY <2>3, <2>4, SubsetFin, Zenon
<1>6. PricesAre(S, Q, P, s)
  BY <1>3, <1>5, Zenon DEF PricesAre
<1> QED
  BY <1>1, <1>6, Zenon

\* A sound book's best price, and the order peek_top shows.
LEMMA BestIs ==
  ASSUME FiniteFacts
  PROVE  \A O, P, cap, b, Q, p : \A s \in Side :
           BookSound(b, O, P, cap, Q) /\ ~IsEmpty(b, s) /\ p = BestPrice(b, s) =>
           BestOf(Q, P, s, p) /\ p \in DOMAIN b.levels[s]
<1>MaxIs. ASSUME NEW S \in SUBSET Nat, S # {}, IsFiniteSet(S)
          PROVE  Max(S) \in S /\ \A y \in S : Max(S) >= y
  <2> USE <1>MaxIs
  <2> DEFINE Top(t) == \E x \in t : \A y \in t : x >= y
             Bad == {n \in Nat : \E t \in SUBSET S : t # {} /\ Cardinality(t) = n /\ ~Top(t)}
  <2>1. SUFFICES Bad = {}
    <3>1. Cardinality(S) \in Nat
      BY CardinalityFin, Zenon
    <3>2. Top(S)
      BY <2>1, <3>1, Zenon
    <3> QED
      BY <3>2, Zenon DEF Max
  <2>2. SUFFICES ASSUME Bad # {} PROVE FALSE
    BY Zenon
  <2>3. PICK n \in Bad : \A m \in Bad : n <= m
    <3>1. Bad \in SUBSET Nat
      BY Zenon
    <3> HIDE DEF Bad
    <3> QED
      BY <2>2, <3>1, Least, Zenon
  <2>4. PICK t \in SUBSET S : t # {} /\ Cardinality(t) = n /\ ~Top(t)
    BY <2>3, Zenon
  <2>5. PICK x \in t : TRUE
    BY <2>4, Zenon
  <2>6. IsFiniteSet(t) /\ n \in Nat
    BY <2>3, <2>4, SubsetFin, Zenon
  <2>7. Cardinality(t \ {x}) = n - 1 /\ Cardinality(t \ {x}) \in Nat
    <3>1. IsFiniteSet(t \ {x}) /\ Cardinality(t \ {x}) = Cardinality(t) - 1
      BY <2>5, <2>6, RemoveFin, Zenon
    <3> QED
      BY <2>4, <3>1, CardinalityFin, Zenon
  <2>8. n - 1 \notin Bad
    BY <2>3, <2>6, <2>7
  <2>9. CASE t \ {x} = {}
    <3>1. t = {x} /\ x \in Nat
      BY <2>5, <2>9, Zenon
    <3>2. Top(t)
      BY <3>1
    <3> QED
      BY <2>4, <3>2, Zenon
  <2>10. CASE t \ {x} # {}
    <3>1. Top(t \ {x})
      BY <2>7, <2>8, <2>10, Zenon
    <3>2. PICK z \in t \ {x} : \A y \in t \ {x} : z >= y
      BY <3>1, Zenon
    <3>3. x \in Nat /\ z \in Nat /\ t \subseteq Nat
      BY <2>5, <3>2, Zenon
    <3>4. CASE z >= x
      <4>1. z \in t /\ \A y \in t : z >= y
        BY <3>2, <3>4, Zenon
      <4> QED
        BY <2>4, <4>1, Zenon
    <3>5. CASE ~(z >= x)
      <4>1. x \in t /\ \A y \in t : x >= y
        BY <2>5, <3>2, <3>3, <3>5, SMTT(30), SMTT(60)
      <4> QED
        BY <2>4, <4>1, Zenon
    <3> QED
      BY <3>4, <3>5, Zenon
  <2> QED
    BY <2>9, <2>10, Zenon
<1> TAKE O, P, cap, b, Q, p
<1> TAKE s \in Side
<1> HAVE BookSound(b, O, P, cap, Q) /\ ~IsEmpty(b, s) /\ p = BestPrice(b, s)
<1>1. PICK S : S = DOMAIN b.levels[s]
  BY Zenon
<1>2. PricesAre(S, Q, P, s)
  BY <1>1, PricesFinite, Zenon
<1>3. S \in SUBSET Nat /\ IsFiniteSet(S) /\ \A r : r \in S <=> r \in P /\ Q[<<s, r>>] # << >>
  BY <1>2, Zenon DEF PricesAre
<1>4. S # {}
  BY <1>1, Zenon DEF IsEmpty
<1>6. p \in S /\ \A y \in S : IF s = "Bid" THEN p >= y ELSE p <= y
  <2>1. CASE s = "Bid"
    <3>1. p = Max(S)
      BY <1>1, <2>1, Zenon DEF BestPrice
    <3> QED
      BY <1>3, <1>4, <2>1, <3>1, <1>MaxIs, Zenon
  <2>2. CASE s # "Bid"
    <3>1. p = Min(S)
      BY <1>1, <2>2, Zenon DEF BestPrice
    <3> QED
      BY <1>3, <1>4, <2>2, <3>1, MinIs, SMTT(30), SMTT(60)
  <2> QED
    BY <2>1, <2>2, Zenon
<1>7. p \in P /\ Q[<<s, p>>] # << >> /\ \A r \in P : Q[<<s, r>>] # << >> => r \in S
  BY <1>3, <1>6, Zenon
<1>8. BestOf(Q, P, s, p)
  BY <1>6, <1>7, Zenon DEF BestOf
<1> QED
  BY <1>1, <1>6, <1>8, Zenon

\* A side's top is the head of the queue at its best price.
TopOf(b, M, Q, P, s, p) ==
  /\ BestOf(Q, P, s, p) /\ Len(Q[<<s, p>>]) \in Nat \ {0} /\ Q[<<s, p>>][1] \in DOMAIN M
  /\ TopHandle(b, s) = Q[<<s, p>>][1] /\ b.levels[s][p] = LevelOf(M, Q[<<s, p>>], <<s, p>>)
  /\ M[Q[<<s, p>>][1]].prev = SENTINEL /\ KeyOf(M[Q[<<s, p>>][1]].order) = <<s, p>>

\* The top order of a side is the first of the queue at its best price.
LEMMA TopIs ==
  ASSUME FiniteFacts, NEW O, NEW P, NEW cap, NEW b, NEW Q, BookSound(b, O, P, cap, Q), NEW s \in Side, ~IsEmpty(b, s),
         NEW p, p = BestPrice(b, s), NEW M, M = NodesOf(b.arena)
  PROVE  TopOf(b, M, Q, P, s, p)
<1>1. BestOf(Q, P, s, p) /\ p \in DOMAIN b.levels[s]
  BY BestIs, Zenon
<1>2. OrdersOK(O, P) /\ ArenaSound(b.arena, Node(O), cap) /\ QueuesSound(M, Q, P) /\ LevelsSound(b.levels, M, Q, P)
  BY Zenon DEF BookSound
<1>3. PICK c, q : c = <<s, p>> /\ q = Q[c]
  BY Zenon
<1>4. p \in P /\ c \in Side \X P /\ q # << >>
  BY <1>1, <1>3, Zenon DEF BestOf
<1>5. Linked(M, q) /\ q \in Seq(DOMAIN M)
  BY <1>2, <1>3, <1>4, QueueAt, Zenon
<1>6. Len(q) \in Nat \ {0} /\ 1 \in 1 .. Len(q) /\ q[1] \in DOMAIN M
  BY <1>4, <1>5
<1>7. M[q[1]].prev = SENTINEL
  BY <1>5, <1>6, Zenon DEF Linked
<1>8. KeyOf(M[q[1]].order) = c
  BY <1>2, <1>3, <1>4, <1>6, ZenonT(60) DEF QueuesSound
<1>9. b.levels[s][p] = LevelOf(M, q, c)
  BY <1>1, <1>2, <1>3, <1>4, LevelRead
<1>10. TopHandle(b, s) = q[1]
  BY <1>9 DEF TopHandle, LevelOf
<1> QED
  BY <1>1, <1>3, <1>6, <1>7, <1>8, <1>9, <1>10, Zenon DEF TopOf

\* pop_top is a cancel of the top order.
LEMMA PopIsCancel ==
  ASSUME FiniteFacts, NEW O, NEW P, NEW cap, NEW b, NEW Q, BookSound(b, O, P, cap, Q), NEW s \in Side, ~IsEmpty(b, s)
  PROVE  PopTop(b, s) = Cancel(b, TopOrder(b, s).intent)
<1>1. PICK p, a, L, I : p = BestPrice(b, s) /\ a = b.arena /\ L = b.levels /\ I = b.index
  BY Zenon
<1>2. PICK M : M = NodesOf(a)
  BY Zenon
<1>3. TopOf(b, M, Q, P, s, p)
  BY <1>1, <1>2, TopIs, Zenon
<1>4. PICK c, x : c = <<s, p>> /\ x = Q[c][1]
  BY Zenon
<1>5. PICK node : node = M[x]
  BY Zenon
<1>6. OrdersOK(O, P) /\ ArenaSound(a, Node(O), cap) /\ QueuesSound(M, Q, P) /\ IndexSound(I, M)
  BY <1>1, <1>2, Zenon DEF BookSound
<1>7. /\ DOMAIN M = LiveHandles(a) /\ SENTINEL \notin DOMAIN M
      /\ \A h \in DOMAIN M : M[h] = ArenaGet(a, h) /\ M[h] \in Node(O) /\ M[h].order \in O
  BY <1>2, <1>6, NodesCounted, SMTT(30), SMTT(60)
<1>8. /\ x \in DOMAIN M /\ TopHandle(b, s) = x /\ KeyOf(node.order) = c /\ node.prev = SENTINEL
      /\ L[s][p].head = x /\ c \in Side \X P /\ 1 \in 1 .. Len(Q[c])
  <2>1. /\ x \in DOMAIN M /\ TopHandle(b, s) = x /\ KeyOf(node.order) = c /\ node.prev = SENTINEL
        /\ Len(Q[c]) \in Nat \ {0} /\ p \in P
    BY <1>3, <1>4, <1>5, Zenon DEF TopOf, BestOf
  <2>2. L[s][p].head = x
    BY <1>1, <2>1, Zenon DEF TopHandle
  <2> QED
    BY <1>4, <2>1, <2>2
<1>9. ArenaGet(a, x) = node /\ I[node.order.intent] = x
  BY <1>5, <1>6, <1>7, <1>8, Zenon DEF IndexSound
<1>10. node.order.side = s /\ node.order.price = p
  BY <1>4, <1>8 DEF KeyOf
<1>11. node.next # SENTINEL => node.next \in DOMAIN M /\ node.next # x
  <2>1. Beside(M, x, c)
    BY <1>4, <1>6, <1>8, Neighbours, Zenon
  <2> QED
    BY <1>5, <2>1, Zenon DEF Beside
<1>12. PICK d, i : d = ArenaRemove(a, x) /\ i = node.order.intent
  BY Zenon
<1>13. ArenaSound(d, Node(O), cap) /\ LiveHandles(d) = LiveHandles(a) \ {x}
  <2>0. x \in LiveHandles(a)
    BY <1>7, <1>8, Zenon
  <2>a. ArenaSound(ArenaRemove(a, x), Node(O), cap) /\ NodesOf(ArenaRemove(a, x)) = MapRemove(NodesOf(a), x)
    BY <1>6, <2>0, RemoveSound, SMTT(30), SMTT(60)
  <2>1. ArenaSound(d, Node(O), cap) /\ NodesOf(d) = MapRemove(M, x)
    BY <1>2, <1>12, <2>a, Zenon
  <2>2. DOMAIN NodesOf(d) = DOMAIN M \ {x}
    BY <2>1, Zenon DEF MapRemove, Restrict
  <2>3. DOMAIN NodesOf(d) = LiveHandles(d)
    BY Zenon DEF NodesOf
  <2> QED
    BY <1>7, <2>1, <2>2, <2>3, Zenon
<1>14. ArenaHas(d, node.next) <=> IsValid(node.next)
  <2>1. (\A h \in LiveHandles(d) : ArenaHas(d, h)) /\ ~ArenaHas(d, SENTINEL)
    BY <1>13, LiveHas, Zenon
  <2> QED
    BY <1>7, <1>11, <1>13, <2>1, Zenon DEF IsValid
<1>15. SetNext(d, node.prev, node.next) = d
  BY <1>8, <1>13, LiveHas, Zenon DEF SetNext
<1>16. Splice(d, node) = SetPrev(d, node.next, SENTINEL)
  BY <1>8, <1>15, Zenon DEF Splice
<1>17. PICK level : level = L[s][p]
  BY Zenon
<1>18. PICK new : new = [head      |-> IF ArenaHas(d, node.next) THEN node.next ELSE SENTINEL,
                         tail      |-> IF ArenaHas(d, node.next) THEN level.tail ELSE SENTINEL,
                         len       |-> level.len - 1,
                         total_qty |-> (level.total_qty - node.order.quantity) % QtyMod]
  BY Zenon
<1>19. new = CancelLevel(level, node, node.order.quantity)
  <2>1. (IF ArenaHas(d, node.next) THEN node.next ELSE SENTINEL)
           = IF IsValid(node.prev) THEN level.head ELSE node.next
    BY <1>8, <1>14, Zenon DEF IsValid
  <2>2. (IF ArenaHas(d, node.next) THEN level.tail ELSE SENTINEL)
           = IF IsValid(node.next) THEN level.tail ELSE node.prev
    BY <1>8, <1>14, Zenon
  <2> QED
    BY <1>18, <2>1, <2>2, Zenon DEF CancelLevel
<1>20. PopTop(b, s) = [arena |-> SetPrev(d, node.next, SENTINEL), levels |-> StoreLevel(L, s, p, new), index |-> MapRemove(I, i)]
  <2>1. b.arena = a /\ b.levels = L /\ b.index = I /\ BestPrice(b, s) = p
    BY <1>1, Zenon
  <2>2. L[s][p] = level /\ level.head = x /\ ArenaGet(a, x) = node /\ ArenaRemove(a, x) = d /\ node.order.intent = i
    BY <1>8, <1>9, <1>12, <1>17, Zenon
  <2> QED
    BY <1>18, <2>1, <2>2, ZenonT(60) DEF PopTop
<1>21. Cancel(b, i) = CancelAt(b, i, x, node, s, p)
  <2>1. Cancel(b, i) = CancelWith(b, i, b.index[i], ArenaGet(b.arena, b.index[i]))
    BY CancelIs, Zenon
  <2>2. b.index[i] = x /\ ArenaGet(b.arena, x) = node
    BY <1>1, <1>9, <1>12, Zenon
  <2>3. Cancel(b, i) = CancelWith(b, i, x, node)
    BY <2>1, <2>2, Zenon
  <2> QED
    BY <1>10, <2>3, ZenonT(60) DEF CancelWith
<1>22. CancelAt(b, i, x, node, s, p) = PopTop(b, s)
  <2>1. b.arena = a /\ b.levels = L /\ b.index = I
    BY <1>1, Zenon
  <2>2. CancelAt(b, i, x, node, s, p) = [arena |-> Splice(d, node),
          levels |-> StoreLevel(L, s, p, CancelLevel(level, node, node.order.quantity)), index |-> MapRemove(I, i)]
    BY <1>12, <1>17, <2>1, Zenon DEF CancelAt
  <2> QED
    BY <1>16, <1>19, <1>20, <2>2, Zenon
<1>23. TopOrder(b, s).intent = i
  <2>1. TopOrder(b, s) = node.order
    BY <1>1, <1>8, <1>9, Zenon DEF TopOrder
  <2> QED
    BY <1>12, <2>1, Zenon
<1> QED
  BY <1>21, <1>22, <1>23, Zenon

-----------------------------------------------------------------------------
\* The level reduce_top stores.
ReducedLevel(level, qty) ==
  [head |-> level.head, tail |-> level.tail, len |-> level.len, total_qty |-> (level.total_qty - qty) % QtyMod]

\* A level that some order rests at.
InUse(level) ==
  /\ level = [head |-> level.head, tail |-> level.tail, len |-> level.len, total_qty |-> level.total_qty]
  /\ level.len # 0

ReduceAt(b, x, s, p, qty) ==
  [arena  |-> ArenaSet(b.arena, x, [ArenaGet(b.arena, x) EXCEPT !.order.quantity = @ - qty]),
   levels |-> StoreLevel(b.levels, s, p, ReducedLevel(b.levels[s][p], qty)),
   index  |-> b.index]

\* r is the order o with qty less.
Shrinks(o, r, qty) ==
  /\ r = [o EXCEPT !.quantity = @ - qty] /\ r.intent = o.intent
  /\ KeyOf(r) = KeyOf(o) /\ r.quantity = o.quantity - qty

\* What reduce_top makes of a sound book.
Reduced(e, O, P, cap, Q, M, x, o) == BookSound(e, O, P, cap, Q) /\ ReduceNodes(M, x, o, NodesOf(e.arena))

\* reduce_top shrinks the top order and its level's total together.
LEMMA ReduceSound ==
  ASSUME FiniteFacts
  PROVE  \A O, P, cap, b, Q, M, x, e : \A s \in Side, qty \in Nat, o \in O :
           BookSound(b, O, P, cap, Q) /\ ~IsEmpty(b, s) /\ M = NodesOf(b.arena) /\ x = TopHandle(b, s) /\
           Shrinks(M[x].order, o, qty) /\ e = ReduceTop(b, s, qty) =>
           Reduced(e, O, P, cap, Q, M, x, o)
\* reduce_top moves no link.
<1>QueuesReduce. ASSUME NEW M, NEW N, NEW P, NEW Q, QueuesSound(M, Q, P), NEW x \in DOMAIN M, NEW o,
                        KeyOf(o) = KeyOf(M[x].order), ReduceNodes(M, x, o, N)
                 PROVE  QueuesSound(N, Q, P)
  <2> USE <1>QueuesReduce
  <2>1. DOMAIN N = DOMAIN M
    BY Zenon DEF ReduceNodes
  <2>2. ASSUME NEW h \in DOMAIN M
        PROVE  N[h].prev = M[h].prev /\ N[h].next = M[h].next /\ KeyOf(N[h].order) = KeyOf(M[h].order)
    <3>1. CASE h = x
      BY <3>1, Zenon DEF ReduceNodes
    <3>2. CASE h # x
      BY <3>2, Zenon DEF ReduceNodes
    <3> QED
      BY <3>1, <3>2, Zenon
  <2>3. ASSUME NEW c \in Side \X P
        PROVE  Linked(N, Q[c]) /\ \A i \in 1 .. Len(Q[c]) : KeyOf(N[Q[c][i]].order) = c
    <3>1. PICK q : q = Q[c]
      BY Zenon
    <3>2. Linked(M, q) /\ \A i \in 1 .. Len(q) : KeyOf(M[q[i]].order) = c
      BY <3>1, Zenon DEF QueuesSound
    <3>3. \A i \in 1 .. Len(q) : q[i] \in DOMAIN M
      BY <3>2 DEF Linked
    <3>4. \A i \in 1 .. Len(q) : q[i] \in DOMAIN N /\ N[q[i]].prev = M[q[i]].prev /\ N[q[i]].next = M[q[i]].next
      BY <2>1, <2>2, <3>3, Zenon
    <3>5. Linked(N, q)
      BY <3>2, <3>4, LinkKeep, Zenon
    <3>6. \A i \in 1 .. Len(q) : KeyOf(N[q[i]].order) = c
      BY <2>2, <3>2, <3>3, Zenon
    <3> QED
      BY <3>1, <3>5, <3>6, Zenon
  <2>4. \A h \in DOMAIN N : /\ KeyOf(N[h].order) \in Side \X P
                            /\ \E i \in 1 .. Len(Q[KeyOf(N[h].order)]) : Q[KeyOf(N[h].order)][i] = h
    <3>1. \A h \in DOMAIN M : /\ KeyOf(M[h].order) \in Side \X P
                              /\ \E i \in 1 .. Len(Q[KeyOf(M[h].order)]) : Q[KeyOf(M[h].order)][i] = h
      BY Zenon DEF QueuesSound
    <3> QED
      BY <2>1, <2>2, <3>1
  <2>5. DOMAIN Q = Side \X P /\ Q = [c \in Side \X P |-> Q[c]]
    BY Zenon DEF QueuesSound
  <2> QED
    BY <2>3, <2>4, <2>5, Zenon DEF QueuesSound
<1>IndexReduce. ASSUME NEW M, NEW N, NEW I, IndexSound(I, M), NEW x \in DOMAIN M, NEW o, o.intent = M[x].order.intent,
                       ReduceNodes(M, x, o, N)
                PROVE  IndexSound(I, N)
  <2> USE <1>IndexReduce
  <2>1. DOMAIN N = DOMAIN M /\ \A h \in DOMAIN M : N[h].order.intent = M[h].order.intent
    BY Zenon DEF ReduceNodes
  <2>2. \A h \in DOMAIN N : I[N[h].order.intent] = h
    BY <2>1, Zenon DEF IndexSound
  <2>3. {N[h].order.intent : h \in DOMAIN N} = {M[h].order.intent : h \in DOMAIN M}
    BY <2>1, Zenon
  <2> QED
    BY <2>2, <2>3, Zenon DEF IndexSound
<1>ModSub. ASSUME NEW x \in Int, NEW y \in Int, NEW m \in Nat \ {0}
           PROVE  ((x % m) - y) % m = (x - y) % m
  <2> USE <1>ModSub
  <2>1. PICK z \in Int : z = 0 - y
    OBVIOUS
  <2>2. ((x % m) + z) % m = (x + z) % m
    BY ModAdd, Zenon
  <2>3. PICK r \in Int : r = x % m
    OBVIOUS
  <2>4. r + z = r - y /\ x + z = x - y
    BY <2>1
  <2> QED
    BY <2>2, <2>3, <2>4, Zenon
<1>ReduceIs. ASSUME NEW b, AreMaps(b.levels), NEW s \in Side, BestPrice(b, s) \in DOMAIN b.levels[s],
                    InUse(b.levels[s][BestPrice(b, s)]), NEW qty
             PROVE  ReduceTop(b, s, qty) = ReduceAt(b, TopHandle(b, s), s, BestPrice(b, s), qty)
  <2> USE <1>ReduceIs
  <2>0. PICK p, x : p = BestPrice(b, s) /\ x = TopHandle(b, s)
    BY Zenon
  <2>1. PICK L, level, new, A : /\ L = b.levels /\ level = L[s][p] /\ new = ReducedLevel(level, qty)
                                /\ A = ArenaSet(b.arena, x, [ArenaGet(b.arena, x) EXCEPT !.order.quantity = @ - qty])
    BY Zenon
  <2>2. InUse(level) /\ AreMaps(L) /\ p \in DOMAIN L[s]
    BY <2>0, <2>1, ZenonT(60)
  <2>3. new = [level EXCEPT !.total_qty = (@ - qty) % QtyMod] /\ new.len # 0
    BY <2>1, <2>2 DEF InUse, ReducedLevel
  <2>4. StoreLevel(L, s, p, new) = [L EXCEPT ![s] = MapPut(L[s], p, new)]
    BY <2>3, Zenon DEF StoreLevel
  <2>5. L[s] = [r \in DOMAIN L[s] |-> L[s][r]]
    BY <2>2, Zenon DEF AreMaps
  <2>6. MapPut(L[s], p, new) = [L[s] EXCEPT ![p] = new]
    BY <2>2, <2>5, Zenon DEF MapPut
  <2>7. [L EXCEPT ![s][p].total_qty = (@ - qty) % QtyMod] = [L EXCEPT ![s] = [L[s] EXCEPT ![p] = new]]
    BY <2>1, <2>3, Zenon
  <2>8. b.levels[s][p].head = x
    BY <2>0, Zenon DEF TopHandle
  <2>9. ReduceTop(b, s, qty) = [arena |-> A, levels |-> [L EXCEPT ![s][p].total_qty = (@ - qty) % QtyMod], index |-> b.index]
    BY <2>0, <2>1, <2>8, Zenon DEF ReduceTop
  <2>10. [L EXCEPT ![s][p].total_qty = (@ - qty) % QtyMod] = StoreLevel(L, s, p, new)
    BY <2>4, <2>6, <2>7, Zenon
  <2>11. ReduceTop(b, s, qty) = [arena |-> A, levels |-> StoreLevel(L, s, p, new), index |-> b.index]
    BY <2>9, <2>10, Zenon
  <2>12. StoreLevel(L, s, p, new) = StoreLevel(b.levels, s, p, ReducedLevel(b.levels[s][p], qty))
    BY <2>1, Zenon
  <2>13. ReduceTop(b, s, qty) = ReduceAt(b, x, s, p, qty)
    BY <2>1, <2>11, <2>12, ZenonT(60) DEF ReduceAt
  <2> QED
    BY <2>0, <2>13, Zenon
<1> TAKE O, P, cap, b, Q, M, x, e
<1> TAKE s \in Side, qty \in Nat, o \in O
<1> HAVE BookSound(b, O, P, cap, Q) /\ ~IsEmpty(b, s) /\ M = NodesOf(b.arena) /\
         x = TopHandle(b, s) /\ Shrinks(M[x].order, o, qty) /\ e = ReduceTop(b, s, qty)
<1>0. /\ o = [M[x].order EXCEPT !.quantity = @ - qty] /\ o.intent = M[x].order.intent
      /\ KeyOf(o) = KeyOf(M[x].order) /\ o.quantity = M[x].order.quantity - qty
  BY Zenon DEF Shrinks
<1>1. PICK p, a, L, I : p = BestPrice(b, s) /\ a = b.arena /\ L = b.levels /\ I = b.index
  BY Zenon
<1>2. OrdersOK(O, P) /\ ArenaSound(a, Node(O), cap) /\ QueuesSound(M, Q, P) /\ LevelsSound(L, M, Q, P) /\ IndexSound(I, M)
  BY <1>1, Zenon DEF BookSound
<1>3. PICK c, q : c = <<s, p>> /\ q = Q[c]
  BY Zenon
<1>4. /\ BestOf(Q, P, s, p) /\ Len(q) \in Nat \ {0} /\ x \in DOMAIN M /\ x = q[1]
      /\ L[s][p] = LevelOf(M, q, c) /\ KeyOf(M[x].order) = c
  <2>1. TopOf(b, M, Q, P, s, p)
    BY <1>1, TopIs, Zenon
  <2> QED
    BY <1>1, <1>3, <2>1, Zenon DEF TopOf
<1>5. p \in DOMAIN b.levels[s] /\ p \in P /\ AreMaps(b.levels) /\ DOMAIN Q = Side \X P /\ c \in Side \X P
  <2>1. p \in DOMAIN b.levels[s]
    BY <1>1, BestIs, Zenon
  <2> QED
    BY <1>1, <1>2, <1>3, <1>4, <2>1, ZenonT(60) DEF BestOf, LevelsSound, QueuesSound
<1>6. /\ DOMAIN M = LiveHandles(a) /\ SENTINEL \notin DOMAIN M /\ Counted(M)
      /\ \A h \in DOMAIN M : M[h] = ArenaGet(a, h) /\ M[h] \in Node(O) /\ M[h].order \in O
  BY <1>1, <1>2, NodesCounted, SMTT(30), SMTT(60)
<1>7. PICK node : node = [M[x] EXCEPT !.order.quantity = @ - qty]
  BY Zenon
<1>8. node = [M[x] EXCEPT !.order = o]
  BY <1>0, <1>7, Zenon
<1>9. M[x] \in Node(O)
  BY <1>4, <1>6, Zenon
<1>10. node \in Node(O) /\ node.order = o /\ node.prev = M[x].prev /\ node.next = M[x].next
  BY <1>8, <1>9, Zenon DEF Node
<1>11. PICK A, new : A = ArenaSet(a, x, node) /\ new = ReducedLevel(L[s][p], qty)
  BY Zenon
<1>12. e = [arena |-> A, levels |-> StoreLevel(L, s, p, new), index |-> I]
  <2>0. PICK l : l = LevelOf(M, q, c)
    BY Zenon
  <2>8. l.len = Len(q) /\ l = [head |-> l.head, tail |-> l.tail, len |-> l.len, total_qty |-> l.total_qty]
    BY <2>0, Zenon DEF LevelOf
  <2>9. Len(q) # 0
    BY <1>4, Zenon
  <2>1. InUse(b.levels[s][p])
    BY <1>1, <1>4, <2>0, <2>8, <2>9, ZenonT(60) DEF InUse
  <2>2. BestPrice(b, s) \in DOMAIN b.levels[s] /\ InUse(b.levels[s][BestPrice(b, s)])
    BY <1>1, <1>5, <2>1, Zenon
  <2>5. ReduceTop(b, s, qty) = ReduceAt(b, TopHandle(b, s), s, BestPrice(b, s), qty)
    BY <1>5, <2>2, <1>ReduceIs, ZenonT(60)
  <2>6. BestPrice(b, s) = p
    BY <1>1, Zenon
  <2>7. e = ReduceAt(b, x, s, p, qty)
    BY <2>5, <2>6, Zenon
  <2>3. ArenaGet(a, x) = M[x]
    BY <1>4, <1>6, Zenon
  <2>4. b.arena = a /\ b.levels = L /\ b.index = I
    BY <1>1, Zenon
  <2> QED
    BY <1>7, <1>11, <2>3, <2>4, <2>7, ZenonT(60) DEF ReduceAt
<1>13. PICK N : N = NodesOf(A)
  BY Zenon
<1>14. ArenaSound(A, Node(O), cap) /\ N = [M EXCEPT ![x] = node]
  <2>1. x \in LiveHandles(a) /\ M = NodesOf(a)
    BY <1>1, <1>4, <1>6, ZenonT(60)
  <2>2. ArenaSound(ArenaSet(a, x, node), Node(O), cap) /\ NodesOf(ArenaSet(a, x, node)) = [NodesOf(a) EXCEPT ![x] = node]
    BY <1>2, <1>10, <2>1, SetSound, SMTT(30), SMTT(60)
  <2> QED
    BY <1>11, <1>13, <2>1, <2>2, Zenon
<1>15. ReduceNodes(M, x, o, N)
  BY <1>4, <1>10, <1>14, Zenon DEF ReduceNodes
<1>16. QueuesSound(N, Q, P)
  BY <1>0, <1>2, <1>4, <1>15, <1>QueuesReduce, ZenonT(60)
<1>17. IndexSound(I, N)
  BY <1>0, <1>2, <1>4, <1>15, <1>IndexReduce, ZenonT(60)
<1>18. o.quantity \in Nat /\ M[x].order.quantity \in Nat
  BY <1>0, <1>2, <1>4, <1>6, ZenonT(60) DEF OrdersOK
<1>19. Counted(N) /\ QtyAt(N, c) = QtyAt(M, c) - qty /\ \A d : d # c => QtyAt(N, d) = QtyAt(M, d)
  <2>1. QtyMoves(M, N, c, QtyAt(M, c) - (M[x].order.quantity - o.quantity))
    BY <1>0, <1>4, <1>6, <1>15, <1>18, QtyReduce, ZenonT(60)
  <2>2. M[x].order.quantity - o.quantity = qty
    BY <1>0, <1>18, SMTT(30), SMTT(60)
  <2> QED
    BY <2>1, <2>2, Zenon DEF QtyMoves
<1>20. new = LevelOf(N, q, c) /\ new.len = Len(q)
  <2>1. PICK t \in Nat : t = QtyAt(M, c)
    BY <1>6, QtyNat, Zenon
  <2>2. QtyMod \in Nat \ {0}
    BY <1>2, Zenon DEF OrdersOK
  <2>3. ((t % QtyMod) - qty) % QtyMod = (t - qty) % QtyMod
    <3>1. t \in Int /\ qty \in Int
      OBVIOUS
    <3> QED
      BY <2>2, <3>1, <1>ModSub, Zenon
  <2>4. new = [head |-> q[1], tail |-> q[Len(q)], len |-> Len(q), total_qty |-> ((t % QtyMod) - qty) % QtyMod]
    <3>1. PICK l : l = LevelOf(M, q, c)
      BY Zenon
    <3>2. l.head = q[1] /\ l.tail = q[Len(q)] /\ l.len = Len(q) /\ l.total_qty = QtyAt(M, c) % QtyMod
      BY <3>1, Zenon DEF LevelOf
    <3> QED
      BY <1>4, <1>11, <2>1, <3>1, <3>2, ZenonT(60) DEF ReducedLevel
  <2>5. QtyAt(N, c) = t - qty
    BY <1>19, <2>1, Zenon
  <2>6. new = LevelOf(N, q, c)
    BY <2>3, <2>4, <2>5, Zenon DEF LevelOf
  <2> QED
    BY <2>4, <2>6
<1>21. LevelsSound(StoreLevel(L, s, p, new), N, Q, P)
  <2>1. q = << >> <=> Len(q) = 0
    <3>1. q \in Seq(DOMAIN M)
      BY <1>2, <1>3, <1>5, QueueAt, ZenonT(60)
    <3> QED
      BY <3>1
  <2>2. [Q EXCEPT ![<<s, p>>] = q] = Q
    <3>1. Q = [d \in Side \X P |-> Q[d]] /\ <<s, p>> \in Side \X P /\ q = Q[<<s, p>>]
      BY <1>2, <1>3, <1>5, Zenon DEF QueuesSound
    <3> QED
      BY <1>3, <3>1, Zenon
  <2>3. PICK R : R = [Q EXCEPT ![<<s, p>>] = q]
    BY Zenon
  <2>4. new = LevelOf(N, q, <<s, p>>) /\ \A d : d # <<s, p>> => QtyAt(N, d) = QtyAt(M, d)
    BY <1>3, <1>19, <1>20, Zenon
  <2>5. LevelsSound(StoreLevel(L, s, p, new), N, R, P)
    BY <1>2, <1>5, <1>20, <2>1, <2>3, <2>4, LevelsStore, ZenonT(60)
  <2> QED
    BY <2>2, <2>3, <2>5, ZenonT(60)
<1>22. /\ e = [arena |-> e.arena, levels |-> e.levels, index |-> e.index] /\ e.arena = A
       /\ e.levels = StoreLevel(L, s, p, new) /\ e.index = I
  BY <1>12
<1>23. BookSound(e, O, P, cap, Q)
  BY <1>2, <1>13, <1>14, <1>16, <1>17, <1>21, <1>22, ZenonT(60) DEF BookSound
<1> QED
  BY <1>13, <1>15, <1>22, <1>23, Zenon DEF Reduced

-----------------------------------------------------------------------------
\* The queues of a book that holds nothing.
NoQueues(P) == [c \in Side \X P |-> << >>]

\* The book is some queues of handles, laid out.
Held(b, O, P, cap) == \E Q : BookSound(b, O, P, cap, Q)

\* A new book is sound, with no queues.
LEMMA NewBookSound ==
  ASSUME NEW O, NEW P, OrdersOK(O, P), NEW cap \in 1 .. U32Max - 1, U32Max \in Nat
  PROVE  BookSound(BookNew(cap), O, P, cap, NoQueues(P))
<1>1. PICK b, a, M : b = BookNew(cap) /\ a = ArenaNew(cap) /\ M = NodesOf(a)
  BY Zenon
<1>2. b = [arena |-> a, levels |-> [s \in Side |-> EmptyMap], index |-> EmptyMap]
  BY <1>1, Zenon DEF BookNew
<1>3. b = [arena |-> b.arena, levels |-> b.levels, index |-> b.index] /\ b.arena = a
      /\ b.levels = [s \in Side |-> EmptyMap] /\ b.index = EmptyMap
  BY <1>2, Zenon
<1>4. ArenaSound(a, Node(O), cap) /\ LiveHandles(a) = {}
  BY <1>1, NewSound, Zenon
<1>5. DOMAIN M = {}
  BY <1>1, <1>4, Zenon DEF NodesOf
<1>6. QueuesSound(M, NoQueues(P), P)
  <2>1. ASSUME NEW c \in Side \X P PROVE NoQueues(P)[c] = << >> /\ Linked(M, << >>) /\ Len(<< >>) = 0
    BY <2>1 DEF NoQueues, Linked
  <2>2. DOMAIN NoQueues(P) = Side \X P /\ NoQueues(P) = [c \in Side \X P |-> NoQueues(P)[c]]
    BY Zenon DEF NoQueues
  <2>3. 1 .. 0 = {}
    OBVIOUS
  <2> QED
    BY <1>5, <2>1, <2>2, <2>3, Zenon DEF QueuesSound
<1>7. DOMAIN EmptyMap = {} /\ EmptyMap = [r \in DOMAIN EmptyMap |-> EmptyMap[r]]
  BY Zenon DEF EmptyMap
<1>8. LevelsSound(b.levels, M, NoQueues(P), P)
  <2>1. b.levels = [s \in Side |-> b.levels[s]] /\ \A s \in Side : b.levels[s] = EmptyMap
    BY <1>3, Zenon
  <2>2. AreMaps(b.levels)
    BY <1>7, <2>1, Zenon DEF AreMaps
  <2>3. \A s \in Side : {p \in P : NoQueues(P)[<<s, p>>] # << >>} = {}
    BY Zenon DEF NoQueues
  <2> QED
    BY <1>7, <2>1, <2>2, <2>3, Zenon DEF LevelsSound
<1>9. IndexSound(b.index, M)
  <2>1. {M[h].order.intent : h \in DOMAIN M} = {}
    BY <1>5, Zenon
  <2> QED
    BY <1>3, <1>5, <1>7, <2>1, Zenon DEF IndexSound
<1> QED
  BY <1>1, <1>3, <1>4, <1>6, <1>8, <1>9, Zenon DEF BookSound

\* index finds the order, and the order is in its level's queue.
Found(b, M, Q, P, i) ==
  /\ CancelFinds(b, i) /\ CancelOrder(b, i) = M[b.index[i]].order /\ b.index[i] \in DOMAIN M
  /\ M[b.index[i]].order.intent = i
  /\ \E c \in Side \X P : c = KeyOf(M[b.index[i]].order) /\ \E k \in 1 .. Len(Q[c]) : Q[c][k] = b.index[i]

\* The index leads to a node in some queue.
LEMMA LookUp ==
  ASSUME FiniteFacts, NEW O, NEW P, NEW cap, NEW b, NEW Q, BookSound(b, O, P, cap, Q), NEW i \in DOMAIN b.index
  PROVE  Found(b, NodesOf(b.arena), Q, P, i)
<1>1. PICK M, a, I : M = NodesOf(b.arena) /\ a = b.arena /\ I = b.index
  BY Zenon
<1>2. OrdersOK(O, P) /\ ArenaSound(a, Node(O), cap) /\ QueuesSound(M, Q, P) /\ IndexSound(I, M)
  BY <1>1, Zenon DEF BookSound
<1>3. PICK h \in DOMAIN M : M[h].order.intent = i
  BY <1>1, <1>2 DEF IndexSound
<1>4. I[i] = h
  BY <1>2, <1>3, Zenon DEF IndexSound
<1>5. DOMAIN M = LiveHandles(a) /\ ArenaGet(a, h) = M[h]
  <2>1. /\ DOMAIN M = LiveHandles(a) /\ SENTINEL \notin DOMAIN M /\ Counted(M)
        /\ \A g \in DOMAIN M : M[g] = ArenaGet(a, g) /\ M[g] \in Node(O) /\ M[g].order \in O
    BY <1>1, <1>2, NodesCounted
  <2> QED
    BY <1>3, <2>1, Zenon
<1>6. CancelFinds(b, i) /\ CancelOrder(b, i) = M[h].order
  <2>1. SlotMatches(a, h)
    BY <1>2, <1>3, <1>5, LiveHas, Zenon
  <2> QED
    BY <1>1, <1>4, <1>5, <2>1, Zenon DEF CancelFinds, CancelOrder
<1>7. KeyOf(M[h].order) \in Side \X P /\ \E k \in 1 .. Len(Q[KeyOf(M[h].order)]) : Q[KeyOf(M[h].order)][k] = h
  BY <1>2, <1>3, Zenon DEF QueuesSound
<1>8. b.index[i] = h
  BY <1>1, <1>4, Zenon
<1>9. Found(b, M, Q, P, i)
  BY <1>3, <1>6, <1>7, <1>8, Zenon DEF Found
<1> QED
  BY <1>1, <1>9, Zenon

-----------------------------------------------------------------------------
\* A level of a sound book, and the handles walk_level meets there.
LevelIs(P, b, M, q, s, p) ==
  /\ p \in P /\ b.levels[s][p] = LevelOf(M, q, <<s, p>>)
  /\ Linked(M, q) /\ q \in Seq(DOMAIN M) /\ Len(q) \in Nat \ {0} /\ Walks(b, b.levels[s][p], q)

\* A walk along a level passes through exactly its queue.
LEMMA LevelMeets ==
  ASSUME FiniteFacts, NEW O, NEW P, NEW cap, NEW b, NEW Q, BookSound(b, O, P, cap, Q), NEW s \in Side, NEW p \in DOMAIN b.levels[s]
  PROVE  LevelIs(P, b, NodesOf(b.arena), Q[<<s, p>>], s, p)
<1>1. PICK L, M, c, q : L = b.levels /\ M = NodesOf(b.arena) /\ c = <<s, p>> /\ q = Q[c]
  BY Zenon
<1>2. ArenaSound(b.arena, Node(O), cap) /\ QueuesSound(M, Q, P) /\ LevelsSound(L, M, Q, P)
  BY <1>1, Zenon DEF BookSound
<1>3. p \in P /\ q # << >> /\ L[s][p] = LevelOf(M, q, c)
  BY <1>1, <1>2, Zenon DEF LevelsSound
<1>4. c \in Side \X P
  BY <1>1, <1>3, Zenon
<1>5. Linked(M, q) /\ q \in Seq(DOMAIN M)
  BY <1>1, <1>2, <1>4, QueueAt, Zenon
<1>6. Len(q) \in Nat \ {0}
  BY <1>3, <1>5, SMTT(30), SMTT(60)
<1>7. Describes(L[s][p], q)
  BY <1>3 DEF LevelOf, Describes
<1>8. Linked(NodesOf(b.arena), q) /\ Describes(b.levels[s][p], q)
  BY <1>1, <1>5, <1>7, Zenon
<1>9. Walks(b, b.levels[s][p], q)
  BY <1>2, <1>8, WalkIs, Zenon
<1>10. LevelIs(P, b, M, q, s, p)
  BY <1>1, <1>3, <1>5, <1>6, <1>9, ZenonT(60) DEF LevelIs
<1> QED
  BY <1>1, <1>10, Zenon

\* The queues an observer reads off a sound book are its queues of handles.
LEMMA QueuesAre ==
  ASSUME FiniteFacts, NEW O, NEW P, NEW cap, NEW b, NEW Q, BookSound(b, O, P, cap, Q), NEW M, M = NodesOf(b.arena)
  PROVE  QueuesIn(b, P) = QueuesOf(M, Q, P)
<1>1. PICK L, a : L = b.levels /\ a = b.arena
  BY Zenon
<1>2. /\ OrdersOK(O, P) /\ ArenaSound(a, Node(O), cap) /\ QueuesSound(M, Q, P)
      /\ LevelsSound(L, M, Q, P)
  BY <1>1, Zenon DEF BookSound
<1>3. \A h \in DOMAIN M : M[h] = ArenaGet(a, h)
  <2>1. /\ DOMAIN M = LiveHandles(a) /\ SENTINEL \notin DOMAIN M /\ Counted(M)
        /\ \A g \in DOMAIN M : M[g] = ArenaGet(a, g) /\ M[g] \in Node(O) /\ M[g].order \in O
    BY <1>1, <1>2, NodesCounted
  <2> QED
    BY <2>1, Zenon
<1>4. ASSUME NEW s \in Side, NEW p \in P
      PROVE  (IF p \in DOMAIN L[s] THEN LevelOrders(b, s, p) ELSE << >>) = OrdersOf(M, Q[<<s, p>>])
  <2>0. <<s, p>> \in Side \X P
    BY Zenon
  <2>1. PICK c, q : c \in Side \X P /\ c = <<s, p>> /\ q = Q[c]
    BY <2>0, Zenon
  <2>2. /\ p \in DOMAIN L[s] <=> q # << >>
        /\ p \in DOMAIN L[s] => L[s][p] = LevelOf(M, q, c)
    BY <1>2, <1>4, <2>1, LevelRead, SMTT(30), SMTT(60)
  <2>3. Linked(M, q) /\ q \in Seq(DOMAIN M)
    BY <1>2, <2>1, QueueAt, Zenon
  <2>4. CASE p \notin DOMAIN L[s]
    <3>1. q = << >>
      BY <2>2, <2>4, Zenon
    <3>2. OrdersOf(M, << >>) = << >>
      BY DEF OrdersOf
    <3> QED
      BY <2>1, <2>4, <3>1, <3>2, Zenon
  <2>5. CASE p \in DOMAIN L[s]
    <3>1. LevelIs(P, b, M, q, s, p)
      BY <1>1, <2>1, <2>5, LevelMeets, Zenon
    <3>7. WalkLevel(b, b.levels[s][p]) = q
      BY <3>1, Zenon DEF LevelIs, Walks
    <3>4. LevelOrders(b, s, p) = [k \in DOMAIN q |-> ArenaGet(a, q[k]).order]
      BY <1>1, <3>7, Zenon DEF LevelOrders
    <3>5. DOMAIN q = 1 .. Len(q) /\ \A k \in 1 .. Len(q) : q[k] \in DOMAIN M
      BY <2>3
    <3>6. [k \in DOMAIN q |-> ArenaGet(a, q[k]).order] = OrdersOf(M, q)
      BY <1>3, <3>5, Zenon DEF OrdersOf
    <3> QED
      BY <2>1, <2>5, <3>4, <3>6, Zenon
  <2> QED
    BY <2>4, <2>5, Zenon
<1> QED
  BY <1>1, <1>4, Zenon DEF QueuesIn, QueuesOf


\* Of e's queues, s and p's is w and the others are b's.
Follows(P, b, e, s, p, w) == QueuesIn(e, P) = [QueuesIn(b, P) EXCEPT ![s][p] = w]

\* When the orders of one queue of a sound book change, that is what changes in
\* the queues an observer reads.
LEMMA QueuesFollow ==
  ASSUME FiniteFacts, NEW O, NEW P, NEW cap, NEW b, NEW Q, BookSound(b, O, P, cap, Q), NEW e, NEW R, BookSound(e, O, P, cap, R),
         NEW s \in Side, NEW p \in P, NEW w,
         Becomes(NodesOf(b.arena), Q, NodesOf(e.arena), R, P, <<s, p>>, w)
  PROVE  Follows(P, b, e, s, p, w)
<1>1. PICK M, N : M = NodesOf(b.arena) /\ N = NodesOf(e.arena)
  BY Zenon
<1>2. Becomes(M, Q, N, R, P, <<s, p>>, w)
  BY <1>1, Zenon
<1>3. QueuesOf(N, R, P) = [QueuesOf(M, Q, P) EXCEPT ![s][p] = w]
  BY <1>2, QueuesChange, SMTT(30), SMTT(60)
<1>4. QueuesIn(b, P) = QueuesOf(M, Q, P)
  BY <1>1, QueuesAre, SMTT(30), SMTT(60)
<1>5. QueuesIn(e, P) = QueuesOf(N, R, P)
  BY <1>1, QueuesAre, SMTT(30), SMTT(60)
<1> QED
  BY <1>3, <1>4, <1>5, Zenon DEF Follows

\* One queue of a sound book, as the observer reads it.
LEMMA QueueIs ==
  ASSUME FiniteFacts, NEW O, NEW P, NEW cap, NEW b, NEW Q, BookSound(b, O, P, cap, Q), NEW s \in Side, NEW p \in P
  PROVE  QueuesIn(b, P)[s][p] = OrdersOf(NodesOf(b.arena), Q[<<s, p>>])
<1>1. QueuesIn(b, P) = QueuesOf(NodesOf(b.arena), Q, P)
  BY QueuesAre
<1> QED
  BY <1>1 DEF QueuesOf

\* What insert makes of the queues.
LEMMA InsertStep ==
  ASSUME FiniteFacts, NEW O, NEW P, NEW cap, NEW b, Held(b, O, P, cap), NEW o \in O, InsertResult(b, o) = "Ok", NEW e, e = Insert(b, o)
  PROVE  Held(e, O, P, cap) /\ Follows(P, b, e, o.side, o.price, Append(QueuesIn(b, P)[o.side][o.price], o))
<1>1. PICK Q : BookSound(b, O, P, cap, Q)
  BY Zenon DEF Held
<1>2. PICK M, N, x, s, p, R : /\ M = NodesOf(b.arena) /\ N = NodesOf(e.arena) /\ x = AllocIdx(b.arena)
                              /\ s = o.side /\ p = o.price
                              /\ R = [Q EXCEPT ![<<s, p>>] = Append(Q[<<s, p>>], x)]
  BY Zenon
<1>3. s \in Side /\ p \in P /\ <<s, p>> \in Side \X P /\ KeyOf(o) = <<s, p>>
  BY <1>1, <1>2, Zenon DEF BookSound, OrdersOK, KeyOf
<1>4. o.intent \notin DOMAIN b.index /\ ~ArenaFull(b.arena)
  BY Zenon DEF InsertResult
<1>5. /\ BookSound(e, O, P, cap, R)
      /\ InsertNodes(M, x, o, Last1(Q[<<s, p>>]), N) /\ x \notin LiveHandles(b.arena)
  <2>1. /\ BookSound(e, O, P, cap, [Q EXCEPT ![KeyOf(o)] = Append(Q[KeyOf(o)], x)])
        /\ InsertNodes(NodesOf(b.arena), x, o, Last1(Q[KeyOf(o)]), NodesOf(e.arena))
        /\ x \notin LiveHandles(b.arena)
    BY <1>1, <1>2, <1>4, InsertSound, ZenonT(60)
  <2> QED
    BY <1>2, <1>3, <2>1, Zenon
<1>6. QueuesSound(M, Q, P) /\ x \notin DOMAIN M
  BY <1>1, <1>2, <1>5, Zenon DEF BookSound, NodesOf
<1>7. Becomes(M, Q, N, R, P, <<s, p>>, Append(OrdersOf(M, Q[<<s, p>>]), o))
  <2>1. Becomes(M, Q, N, [Q EXCEPT ![<<s, p>>] = Append(Q[<<s, p>>], x)], P, <<s, p>>,
                Append(OrdersOf(M, Q[<<s, p>>]), o))
    BY <1>3, <1>5, <1>6, OrdersInsert, ZenonT(60)
  <2> QED
    BY <1>2, <2>1, Zenon
<1>8. Follows(P, b, e, s, p, Append(OrdersOf(M, Q[<<s, p>>]), o))
  <2>1. Becomes(NodesOf(b.arena), Q, NodesOf(e.arena), R, P, <<s, p>>, Append(OrdersOf(M, Q[<<s, p>>]), o))
    BY <1>2, <1>7, Zenon
  <2>2. BookSound(e, O, P, cap, R)
    BY <1>5, ZenonT(60)
  <2> QED
    BY <1>1, <1>3, <2>1, <2>2, QueuesFollow, ZenonT(60)
<1>9. QueuesIn(b, P)[s][p] = OrdersOf(M, Q[<<s, p>>])
  BY <1>1, <1>2, <1>3, QueueIs, SMTT(30), SMTT(60)
<1> QED
  BY <1>2, <1>5, <1>8, <1>9, Zenon DEF Held


\* What cancel finds, as the observer reads it, and what it makes of the queues.
Cancels(P, b, i, s, p, k, e) ==
  /\ QueuesIn(b, P)[s][p][k] = CancelOrder(b, i) /\ CancelOrder(b, i).intent = i
  /\ Follows(P, b, e, s, p, Without(QueuesIn(b, P)[s][p], k))

\* cancel as a change of the queues of orders.
LEMMA CancelMeets ==
  ASSUME FiniteFacts, NEW O, NEW P, NEW cap, NEW b, Held(b, O, P, cap), NEW i \in DOMAIN b.index
  PROVE  /\ CancelFinds(b, i) /\ Held(Cancel(b, i), O, P, cap)
         /\ \E s \in Side, p \in P : \E k \in DOMAIN QueuesIn(b, P)[s][p] : Cancels(P, b, i, s, p, k, Cancel(b, i))
<1>1. PICK Q : BookSound(b, O, P, cap, Q)
  BY Zenon DEF Held
<1>2. PICK M, x : M = NodesOf(b.arena) /\ x = b.index[i]
  BY Zenon
<1>3. Found(b, M, Q, P, i)
  BY <1>1, <1>2, LookUp, Zenon
<1>4. /\ CancelFinds(b, i) /\ CancelOrder(b, i) = M[x].order /\ x \in DOMAIN M /\ M[x].order.intent = i
      /\ \E c \in Side \X P : \E k \in 1 .. Len(Q[c]) : Q[c][k] = x
  BY <1>2, <1>3, Zenon DEF Found
<1>11. PICK c \in Side \X P : \E k \in 1 .. Len(Q[c]) : Q[c][k] = x
  BY <1>4, Zenon
<1>5. PICK k \in 1 .. Len(Q[c]) : Q[c][k] = x
  BY <1>11, Zenon
<1>6. PICK s \in Side, p \in P : c = <<s, p>>
  OBVIOUS
<1>7. PICK F : F = QueuesIn(b, P)[s][p]
  BY ZenonT(60)
<1>8. F = OrdersOf(M, Q[c])
  BY <1>1, <1>2, <1>6, <1>7, QueueIs, SMTT(30), SMTT(60)
<1>9. k \in DOMAIN F /\ F[k] = M[x].order
  BY <1>5, <1>8, Zenon DEF OrdersOf
<1>10. ASSUME NEW e, e = Cancel(b, i) PROVE Held(e, O, P, cap) /\ Follows(P, b, e, s, p, Without(F, k))
  <2>1. PICK N, R : N = NodesOf(e.arena) /\ R = [Q EXCEPT ![c] = Without(Q[c], k)]
    BY Zenon
  <2>2. BookSound(e, O, P, cap, R) /\ CancelNodes(M, x, N)
    <3>1. i = M[x].order.intent /\ x = Q[c][k] /\ M = NodesOf(b.arena)
      BY <1>2, <1>4, <1>5, Zenon
    <3>2. /\ BookSound(e, O, P, cap, [Q EXCEPT ![c] = Without(Q[c], k)])
          /\ CancelNodes(M, x, NodesOf(e.arena))
      BY <1>1, <1>5, <1>10, <3>1, CancelSound, ZenonT(60)
    <3> QED
      BY <2>1, <3>2, Zenon
  <2>3. QueuesSound(M, Q, P) /\ CancelNodes(M, Q[c][k], N)
    BY <1>1, <1>2, <1>5, <2>2, Zenon DEF BookSound
  <2>4. Becomes(M, Q, N, [Q EXCEPT ![c] = Without(Q[c], k)], P, c, Without(OrdersOf(M, Q[c]), k))
    BY <1>5, <2>3, OrdersCancel, Zenon
  <2>5. Becomes(NodesOf(b.arena), Q, NodesOf(e.arena), R, P, <<s, p>>, Without(F, k))
    BY <1>2, <1>6, <1>8, <2>1, <2>4, ZenonT(60)
  <2>6. Follows(P, b, e, s, p, Without(F, k))
    BY <1>1, <1>6, <2>2, <2>5, QueuesFollow, ZenonT(60)
  <2> QED
    BY <2>2, <2>6, Zenon DEF Held
<1>12. Held(Cancel(b, i), O, P, cap) /\ Follows(P, b, Cancel(b, i), s, p, Without(F, k))
  BY <1>10, Zenon
<1>13. Cancels(P, b, i, s, p, k, Cancel(b, i)) /\ k \in DOMAIN QueuesIn(b, P)[s][p]
  BY <1>4, <1>7, <1>9, <1>12, Zenon DEF Cancels
<1> QED
  BY <1>4, <1>6, <1>12, <1>13, ZenonT(60)


\* Each queue the observer reads is one of orders, as long as that of handles.
Mirrors(O, w, M, q) ==
  /\ w \in Seq(O) /\ Len(w) = Len(q) /\ (w = << >> <=> q = << >>)
  /\ \A k \in 1 .. Len(q) : w[k] = M[q[k]].order

\* The orders read along a level are the orders of its queue's nodes.
LEMMA QueueMirrors ==
  ASSUME FiniteFacts, NEW O, NEW P, NEW cap, NEW b, NEW Q, BookSound(b, O, P, cap, Q), NEW s \in Side, NEW p \in P
  PROVE  Mirrors(O, QueuesIn(b, P)[s][p], NodesOf(b.arena), Q[<<s, p>>])
<1>1. PICK M, a, q, w : M = NodesOf(b.arena) /\ a = b.arena /\ q = Q[<<s, p>>] /\ w = QueuesIn(b, P)[s][p]
  BY Zenon
<1>2. w = [k \in 1 .. Len(q) |-> M[q[k]].order]
  <2>1. QueuesIn(b, P)[s][p] = OrdersOf(NodesOf(b.arena), Q[<<s, p>>])
    BY QueueIs
  <2> QED
    BY <1>1, <2>1, Zenon DEF OrdersOf
<1>3. OrdersOK(O, P) /\ ArenaSound(a, Node(O), cap) /\ QueuesSound(M, Q, P)
  BY <1>1, Zenon DEF BookSound
<1>4. \A h \in DOMAIN M : M[h].order \in O
  <2>1. /\ DOMAIN M = LiveHandles(a) /\ SENTINEL \notin DOMAIN M /\ Counted(M)
        /\ \A g \in DOMAIN M : M[g] = ArenaGet(a, g) /\ M[g] \in Node(O) /\ M[g].order \in O
    BY <1>1, <1>3, NodesCounted, SMTT(30), SMTT(60)
  <2> QED
    BY <2>1, ZenonT(60)
<1>5. q \in Seq(DOMAIN M)
  <2>1. <<s, p>> \in Side \X P
    BY Zenon
  <2> QED
    BY <1>1, <1>3, <2>1, QueueAt, Zenon
<1>6. \A k \in 1 .. Len(q) : M[q[k]].order \in O
  BY <1>4, <1>5, SMTT(30), SMTT(60)
<1>7. Mirrors(O, w, M, q)
  BY <1>2, <1>5, <1>6 DEF Mirrors
<1> QED
  BY <1>1, <1>7, Zenon

\* What peek_top shows is the head of the queue at the best price.
Tops(O, P, b, s, p) ==
  /\ p \in P /\ QueuesIn(b, P)[s][p] \in Seq(O) /\ QueuesIn(b, P)[s][p] # << >>
  /\ QueuesIn(b, P)[s][p][1] = TopOrder(b, s)
  /\ \A r \in P : QueuesIn(b, P)[s][r] # << >> => IF s = "Bid" THEN p >= r ELSE p <= r

TopSeen(b, O, P, M, Q, s, p) ==
  Tops(O, P, b, s, p) /\ TopOf(b, M, Q, P, s, p) /\ TopOrder(b, s) = M[TopHandle(b, s)].order

\* The top order as the head of the queue of orders at the best price.
LEMMA TopMeets ==
  ASSUME FiniteFacts, NEW O, NEW P, NEW cap, NEW b, NEW Q, BookSound(b, O, P, cap, Q), NEW s \in Side, ~IsEmpty(b, s),
         NEW p, p = BestPrice(b, s), NEW M, M = NodesOf(b.arena)
  PROVE  TopSeen(b, O, P, M, Q, s, p)
<1>1. TopOf(b, M, Q, P, s, p)
  BY TopIs, Zenon
<1>2. /\ BestOf(Q, P, s, p) /\ Len(Q[<<s, p>>]) \in Nat \ {0} /\ Q[<<s, p>>][1] \in DOMAIN M
      /\ TopHandle(b, s) = Q[<<s, p>>][1]
  BY <1>1, Zenon DEF TopOf
<1>3. /\ p \in P /\ Q[<<s, p>>] # << >>
      /\ \A r \in P : Q[<<s, r>>] # << >> => IF s = "Bid" THEN p >= r ELSE p <= r
  BY <1>2, Zenon DEF BestOf
<1>4. \A r \in P : Mirrors(O, QueuesIn(b, P)[s][r], M, Q[<<s, r>>])
  BY QueueMirrors, Zenon
<1>5. M[Q[<<s, p>>][1]] = ArenaGet(b.arena, Q[<<s, p>>][1])
  BY <1>2, Zenon DEF NodesOf
<1>6. TopOrder(b, s) = M[TopHandle(b, s)].order
  BY <1>2, <1>5, ZenonT(60) DEF TopOrder
<1>7. 1 \in 1 .. Len(Q[<<s, p>>])
  BY <1>2
<1>8. Tops(O, P, b, s, p)
  BY <1>2, <1>3, <1>4, <1>6, <1>7, ZenonT(60) DEF Tops, Mirrors
<1> QED
  BY <1>1, <1>6, <1>8, Zenon DEF TopSeen


\* What pop_top makes of the queues.
LEMMA PopStep ==
  ASSUME FiniteFacts, NEW O, NEW P, NEW cap, NEW b, Held(b, O, P, cap), NEW s \in Side, ~IsEmpty(b, s), NEW p, p = BestPrice(b, s),
         NEW e, e = PopTop(b, s)
  PROVE  Held(e, O, P, cap) /\ Tops(O, P, b, s, p) /\ Follows(P, b, e, s, p, Tail(QueuesIn(b, P)[s][p]))
<1>1. PICK Q : BookSound(b, O, P, cap, Q)
  BY Zenon DEF Held
<1>2. PICK M, N, x, c, R : /\ M = NodesOf(b.arena) /\ N = NodesOf(e.arena) /\ x = TopHandle(b, s)
                           /\ c = <<s, p>> /\ R = [Q EXCEPT ![c] = Without(Q[c], 1)]
  BY Zenon
<1>3. Tops(O, P, b, s, p) /\ TopOf(b, M, Q, P, s, p) /\ TopOrder(b, s) = M[x].order
  <2>1. TopSeen(b, O, P, M, Q, s, p)
    BY <1>1, <1>2, TopMeets, Zenon
  <2> QED
    BY <1>2, <2>1, Zenon DEF TopSeen
<1>4. /\ p \in P /\ c \in Side \X P /\ Len(Q[c]) \in Nat \ {0} /\ x = Q[c][1]
  BY <1>2, <1>3, Zenon DEF TopOf, Tops
<1>5. 1 \in 1 .. Len(Q[c])
  <2>1. Len(Q[c]) \in Nat \ {0}
    BY <1>4, Zenon
  <2> QED
    BY <2>1
<1>6. PICK i : i = M[x].order.intent
  BY Zenon
<1>7. e = Cancel(b, i)
  <2>1. PopTop(b, s) = Cancel(b, TopOrder(b, s).intent)
    BY <1>1, PopIsCancel, Zenon
  <2> QED
    BY <1>3, <1>6, <2>1, Zenon
<1>8. BookSound(e, O, P, cap, R) /\ CancelNodes(M, Q[c][1], N)
  <2>1. x = Q[c][1] /\ M = NodesOf(b.arena)
    BY <1>2, <1>4, Zenon
  <2>2. /\ BookSound(e, O, P, cap, [Q EXCEPT ![c] = Without(Q[c], 1)])
        /\ CancelNodes(M, x, NodesOf(e.arena))
    <3>1. c \in Side \X P /\ 1 \in 1 .. Len(Q[c]) /\ i = M[x].order.intent /\ e = Cancel(b, i)
      BY <1>4, <1>5, <1>6, <1>7, Zenon
    <3> QED
      BY <1>1, <2>1, <3>1, CancelSound, Zenon
  <2> QED
    BY <1>2, <2>1, <2>2, Zenon
<1>9. QueuesSound(M, Q, P)
  BY <1>1, <1>2, Zenon DEF BookSound
<1>10. Becomes(M, Q, N, [Q EXCEPT ![c] = Without(Q[c], 1)], P, c, Without(OrdersOf(M, Q[c]), 1))
  BY <1>4, <1>5, <1>8, <1>9, OrdersCancel, ZenonT(60)
<1>11. PICK w : w = QueuesIn(b, P)[s][p]
  BY Zenon
<1>12. w = OrdersOf(M, Q[c])
  <2>1. QueuesIn(b, P)[s][p] = OrdersOf(NodesOf(b.arena), Q[<<s, p>>])
    BY <1>1, <1>4, QueueIs, SMTT(30), SMTT(60)
  <2> QED
    BY <1>2, <1>11, <2>1, ZenonT(60)
<1>13. Without(w, 1) = Tail(w)
  <2>1. w \in Seq(O) /\ w # << >>
    BY <1>3, <1>11, Zenon DEF Tops
  <2>2. \A k \in 1 .. Len(w) - 1 : ~(k < 1)
    BY <2>1
  <2>3. Without(w, 1) = [k \in 1 .. Len(w) - 1 |-> w[k + 1]]
    BY <2>2, Zenon DEF Without
  <2> QED
    BY <2>1, <2>3
<1>14. Becomes(NodesOf(b.arena), Q, NodesOf(e.arena), R, P, <<s, p>>, Tail(w))
  BY <1>2, <1>10, <1>12, <1>13, ZenonT(60)
<1>15. Follows(P, b, e, s, p, Tail(w))
  BY <1>1, <1>4, <1>8, <1>14, QueuesFollow, ZenonT(60)
<1> QED
  BY <1>3, <1>8, <1>11, <1>15, Zenon DEF Held

\* What reduce_top makes of the queues.
\* Orders that rest still may when they shrink.
Shrinkable(O) ==
  \A o \in O : \A qty \in Nat : \A r :
    qty < o.quantity /\ r = [o EXCEPT !.quantity = @ - qty] => r \in O /\ Shrinks(o, r, qty)

\* reduce_top as a change of the queues of orders.
LEMMA ReduceStep ==
  ASSUME FiniteFacts, NEW O, NEW P, NEW cap, NEW b, Held(b, O, P, cap), Shrinkable(O), NEW s \in Side, ~IsEmpty(b, s),
         NEW p, p = BestPrice(b, s), NEW qty \in Nat, qty < TopOrder(b, s).quantity,
         NEW e, e = ReduceTop(b, s, qty), NEW r, r = [TopOrder(b, s) EXCEPT !.quantity = @ - qty]
  PROVE  Held(e, O, P, cap) /\ Tops(O, P, b, s, p) /\ Follows(P, b, e, s, p, [QueuesIn(b, P)[s][p] EXCEPT ![1] = r])
<1>1. PICK Q : BookSound(b, O, P, cap, Q)
  BY Zenon DEF Held
<1>2. PICK M, N, x, c : M = NodesOf(b.arena) /\ N = NodesOf(e.arena) /\ x = TopHandle(b, s) /\ c = <<s, p>>
  BY Zenon
<1>3. Tops(O, P, b, s, p) /\ TopOf(b, M, Q, P, s, p) /\ TopOrder(b, s) = M[x].order
  <2>1. TopSeen(b, O, P, M, Q, s, p)
    BY <1>1, <1>2, TopMeets, ZenonT(60)
  <2> QED
    BY <1>2, <2>1, Zenon DEF TopSeen
<1>4. /\ p \in P /\ c \in Side \X P /\ Len(Q[c]) # 0 /\ x = Q[c][1]
  BY <1>2, <1>3, Zenon DEF TopOf, Tops
<1>5. PICK o : o = M[x].order
  BY Zenon
<1>6. o \in O
  <2>1. QueuesIn(b, P)[s][p] \in Seq(O) /\ QueuesIn(b, P)[s][p] # << >> /\ QueuesIn(b, P)[s][p][1] = o
    BY <1>3, <1>5, Zenon DEF Tops
  <2>2. PICK w : w = QueuesIn(b, P)[s][p]
    BY Zenon
  <2>3. w \in Seq(O) /\ w # << >> /\ w[1] = o
    BY <2>1, <2>2, Zenon
  <2> QED
    BY <2>3
<1>7. /\ qty < o.quantity /\ r = [o EXCEPT !.quantity = @ - qty]
  BY <1>3, <1>5, Zenon
<1>8. r \in O /\ Shrinks(o, r, qty)
  BY <1>6, <1>7, Zenon DEF Shrinkable
<1>9. BookSound(e, O, P, cap, Q) /\ ReduceNodes(M, x, r, N)
  <2>1. Shrinks(M[x].order, r, qty) /\ M = NodesOf(b.arena) /\ x = TopHandle(b, s)
    BY <1>2, <1>5, <1>8, Zenon
  <2>2. r \in O
    BY <1>8, Zenon
  <2>3. Reduced(e, O, P, cap, Q, M, x, r)
    BY <1>1, <2>1, <2>2, ReduceSound, ZenonT(60)
  <2> QED
    BY <1>2, <2>3, Zenon DEF Reduced
<1>10. QueuesSound(M, Q, P) /\ ReduceNodes(M, Q[c][1], r, N)
  BY <1>1, <1>2, <1>4, <1>9, ZenonT(60) DEF BookSound
<1>11. Becomes(M, Q, N, Q, P, c, [OrdersOf(M, Q[c]) EXCEPT ![1] = r])
  BY <1>4, <1>10, OrdersReduce, ZenonT(60)
<1>12. QueuesIn(b, P)[s][p] = OrdersOf(M, Q[c])
  BY <1>1, <1>2, <1>4, QueueIs, SMTT(30), SMTT(60)
<1>13. Becomes(NodesOf(b.arena), Q, NodesOf(e.arena), Q, P, <<s, p>>, [QueuesIn(b, P)[s][p] EXCEPT ![1] = r])
  BY <1>2, <1>11, <1>12, ZenonT(60)
<1>14. Follows(P, b, e, s, p, [QueuesIn(b, P)[s][p] EXCEPT ![1] = r])
  BY <1>1, <1>4, <1>9, <1>13, QueuesFollow, ZenonT(60)
<1> QED
  BY <1>3, <1>9, <1>14, ZenonT(60) DEF Held


\* What insert reads of the book, as the observer sees it.
Rest(b, P) == RestIn(QueuesIn(b, P), P)

Reads(P, b, cap) ==
  /\ \A i : i \in DOMAIN b.index <=> \E r \in Rest(b, P) : r.intent = i
  /\ ArenaFull(b.arena) => Cardinality(Rest(b, P)) = cap
  /\ ~ArenaFull(b.arena) => Cardinality(Rest(b, P)) < cap
  /\ Capacity(b) = cap
  /\ \A s \in Side : IsEmpty(b, s) <=> \A p \in P : QueuesIn(b, P)[s][p] = << >>

\* The orders in the queues are those in the arena, one per intent, and the
\* arena is full exactly when they are as many as its slots.
LEMMA RestMeets ==
  ASSUME FiniteFacts, NEW O, NEW P, NEW cap, NEW b, Held(b, O, P, cap)
  PROVE  Reads(P, b, cap)
<1>1. PICK Q : BookSound(b, O, P, cap, Q)
  BY Zenon DEF Held
<1>2. PICK M, a, I, L, F, S : /\ M = NodesOf(b.arena) /\ a = b.arena /\ I = b.index /\ L = b.levels
                              /\ F = QueuesIn(b, P) /\ S = OrdersIn(M)
  BY Zenon
<1>3. /\ ArenaSound(a, Node(O), cap) /\ QueuesSound(M, Q, P)
      /\ LevelsSound(L, M, Q, P) /\ IndexSound(I, M)
  BY <1>1, <1>2, Zenon DEF BookSound
<1>4. /\ IsFiniteSet(LiveHandles(a)) /\ cap \in Nat /\ Cardinality(DOMAIN a.slots) = cap
      /\ ArenaFull(a) => Cardinality(LiveHandles(a)) = cap
      /\ ~ArenaFull(a) => Cardinality(LiveHandles(a)) < cap
  BY <1>3, FullIs, Zenon
<1>5. DOMAIN M = LiveHandles(a)
  BY <1>2, Zenon DEF NodesOf
<1>6. F = QueuesOf(M, Q, P)
  BY <1>1, <1>2, QueuesAre, SMTT(30), SMTT(60)
<1>7. RestIn(F, P) = S /\ Cardinality(S) = Cardinality(DOMAIN M)
  <2>1. IsFiniteSet(DOMAIN M)
    BY <1>4, <1>5, Zenon
  <2>2. AllRest(QueuesOf(M, Q, P), P, M)
    BY <1>3, <2>1, RestingIs, ZenonT(60)
  <2> QED
    BY <1>2, <1>6, <2>2, ZenonT(60) DEF AllRest
<1>8. Rest(b, P) = S
  BY <1>2, <1>7, Zenon DEF Rest
<1>9. ASSUME NEW i PROVE i \in DOMAIN I <=> \E r \in S : r.intent = i
  <2>1. DOMAIN I = {M[h].order.intent : h \in DOMAIN M}
    BY <1>3, Zenon DEF IndexSound
  <2>2. S = {M[h].order : h \in DOMAIN M}
    BY <1>2, Zenon DEF OrdersIn
  <2> QED
    BY <2>1, <2>2, Zenon
<1>10. Capacity(b) = cap
  BY <1>2, <1>4, Zenon DEF Capacity
<1>11. ASSUME NEW s \in Side PROVE IsEmpty(b, s) <=> \A p \in P : F[s][p] = << >>
  <2>1. DOMAIN L[s] = {p \in P : Q[<<s, p>>] # << >>}
    BY <1>3, Zenon DEF LevelsSound
  <2>2. \A p \in P : Mirrors(O, F[s][p], M, Q[<<s, p>>])
    BY <1>1, <1>2, QueueMirrors, ZenonT(60)
  <2>3. \A p \in P : F[s][p] = << >> <=> Q[<<s, p>>] = << >>
    BY <2>2, Zenon DEF Mirrors
  <2>4. IsEmpty(b, s) <=> DOMAIN L[s] = {}
    BY <1>2, Zenon DEF IsEmpty
  <2> QED
    BY <2>1, <2>3, <2>4, ZenonT(60)
<1>12. /\ ArenaFull(a) => Cardinality(S) = cap
       /\ ~ArenaFull(a) => Cardinality(S) < cap
  BY <1>4, <1>5, <1>7, ZenonT(60)
<1>13. \A i : i \in DOMAIN I <=> \E r \in S : r.intent = i
  BY <1>9, Zenon
<1>14. \A s \in Side : IsEmpty(b, s) <=> \A p \in P : F[s][p] = << >>
  BY <1>11, Zenon
<1> QED
  BY <1>2, <1>8, <1>10, <1>12, <1>13, <1>14, ZenonT(60) DEF Reads


\* A cancel that finds nothing changes nothing: what it removes from index is
\* not there.
LEMMA MissStep ==
  ASSUME FiniteFacts, NEW O, NEW P, NEW cap, NEW b, Held(b, O, P, cap), NEW i, ~CancelFinds(b, i)
  PROVE  [b EXCEPT !.index = MapRemove(@, i)] = b /\ i \notin DOMAIN b.index
<1>1. PICK Q : BookSound(b, O, P, cap, Q)
  BY Zenon DEF Held
<1>2. i \notin DOMAIN b.index
  BY CancelMeets, Zenon
<1>3. PICK I : I = b.index
  BY Zenon
<1>4. MapRemove(I, i) = I
  <2>1. I = [x \in DOMAIN I |-> I[x]]
    BY <1>1, <1>3, Zenon DEF BookSound, IndexSound
  <2>2. DOMAIN I \ {i} = DOMAIN I
    BY <1>2, <1>3, Zenon
  <2>3. MapRemove(I, i) = [x \in DOMAIN I |-> I[x]]
    BY <2>2, Zenon DEF MapRemove, Restrict
  <2> QED
    BY <2>1, <2>3, Zenon
<1>5. PICK A, L : b = [arena |-> A, levels |-> L, index |-> I]
  BY <1>1, <1>3, Zenon DEF BookSound
<1>6. [[arena |-> A, levels |-> L, index |-> I] EXCEPT !.index = I] = [arena |-> A, levels |-> L, index |-> I]
  OBVIOUS
<1>7. [b EXCEPT !.index = MapRemove(b.index, i)] = b
  BY <1>3, <1>4, <1>5, <1>6, ZenonT(60)
<1> QED
  BY <1>2, <1>7, Zenon

\* What level_qty says of a price, and whether the price has a level.
Shows(b, s, p, M) ==
  /\ LevelQty(b, s, p) = QtyAt(M, <<s, p>>) % QtyMod
  /\ p \in DOMAIN b.levels[s] <=> At(M, <<s, p>>) # {}

\* level_qty is the sum of what rests at the price, modulo the field's width.
LEMMA LevelQtyIs ==
  ASSUME FiniteFacts, NEW O, NEW P, NEW cap, NEW b, NEW Q, BookSound(b, O, P, cap, Q), NEW s \in Side, NEW p \in P,
         NEW M, M = NodesOf(b.arena)
  PROVE  Shows(b, s, p, M)
<1>0. <<s, p>> \in Side \X P
  BY Zenon
<1>1. PICK c, q, L : c \in Side \X P /\ c = <<s, p>> /\ q = Q[c] /\ L = b.levels
  BY <1>0, Zenon
<1>2. OrdersOK(O, P) /\ ArenaSound(b.arena, Node(O), cap) /\ QueuesSound(M, Q, P) /\ LevelsSound(L, M, Q, P)
  BY <1>1, Zenon DEF BookSound
<1>3. /\ p \in DOMAIN L[s] <=> q # << >>
      /\ p \in DOMAIN L[s] => L[s][p] = LevelOf(M, q, c)
  <2>1. /\ p \in DOMAIN L[s] <=> Q[<<s, p>>] # << >>
        /\ p \in DOMAIN L[s] => L[s][p] = LevelOf(M, Q[<<s, p>>], <<s, p>>)
    BY <1>2, LevelRead, SMTT(30), SMTT(60)
  <2> QED
    BY <1>1, <2>1, ZenonT(60)
<1>4. q \in Seq(DOMAIN M) /\ \A h : h \in At(M, c) <=> \E i \in 1 .. Len(q) : q[i] = h
  <2>1. QueuesSound(M, Q, P) /\ c \in Side \X P
    BY <1>1, <1>2, ZenonT(60)
  <2>2. /\ Q[c] \in Seq(DOMAIN M)
        /\ \A h : h \in At(M, c) <=> \E i \in 1 .. Len(Q[c]) : Q[c][i] = h
    BY <2>1, QueueAt, SMTT(30), SMTT(60)
  <2> QED
    BY <1>1, <2>2, Zenon
<1>5. q # << >> <=> At(M, c) # {}
  <2>1. q # << >> => 1 \in 1 .. Len(q)
    BY <1>4
  <2>2. q = << >> => 1 .. Len(q) = {}
    OBVIOUS
  <2> QED
    BY <1>4, <2>1, <2>2, ZenonT(60)
<1>6. CASE p \in DOMAIN L[s]
  <2>1. L[s][p].total_qty = QtyAt(M, c) % QtyMod
    BY <1>3, <1>6 DEF LevelOf
  <2> QED
    BY <1>1, <1>3, <1>5, <1>6, <2>1, ZenonT(60) DEF LevelQty, Shows
<1>7. CASE p \notin DOMAIN L[s]
  <2>1. PICK f : f = [h \in At(M, c) |-> M[h].order.quantity]
    BY Zenon
  <2>2. At(M, c) = {}
    BY <1>3, <1>5, <1>7, Zenon
  <2>3. f \in [{} -> Nat]
    BY <2>1, <2>2, Zenon
  <2>4. QtyAt(M, c) = 0
    BY <2>1, <2>3, SumEmpty, Zenon DEF QtyAt
  <2>5. 0 % QtyMod = 0
    BY <1>2 DEF OrdersOK
  <2> QED
    BY <1>1, <1>3, <1>5, <1>7, <2>4, <2>5, ZenonT(60) DEF LevelQty, Shows
<1> QED
  BY <1>6, <1>7, Zenon

=============================================================================

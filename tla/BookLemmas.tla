---------------------------- MODULE BookLemmas ------------------------------
(***************************************************************************)
(* Lemmas about what the order book is made of: sums over finite sets, the *)
(* arena's slots as a map from live handles to nodes, queues of handles    *)
(* that the nodes' links follow, what the methods do to nodes and queues,  *)
(* the orders along a queue, and the prices of a side by rank.             *)
(***************************************************************************)
EXTENDS OrderBookOps, TLAPS

(***************************************************************************)
(* What the library's theorems say of finite sets and of the natural       *)
(* numbers, as far as the book's lemmas use it: OrderBookProofs proves it  *)
(* from them.                                                              *)
(***************************************************************************)
LeastFact == \A T \in SUBSET Nat : T # {} => \E n \in T : \A m \in T : n <= m

SizeFact ==
  /\ IsFiniteSet({}) /\ Cardinality({}) = 0
  /\ \A S : IsFiniteSet(S) => Cardinality(S) \in Nat /\ (Cardinality(S) = 0 <=> S = {})

ElementFact ==
  /\ \A S, x : IsFiniteSet(S) => /\ IsFiniteSet(S \cup {x})
                                 /\ Cardinality(S \cup {x}) = IF x \in S THEN Cardinality(S) ELSE Cardinality(S) + 1
  /\ \A S, x : IsFiniteSet(S) => /\ IsFiniteSet(S \ {x})
                                 /\ Cardinality(S \ {x}) = IF x \in S THEN Cardinality(S) - 1 ELSE Cardinality(S)

SubsetFact ==
  \A S, T : IsFiniteSet(S) /\ T \in SUBSET S =>
              /\ IsFiniteSet(T) /\ Cardinality(T) <= Cardinality(S)
              /\ Cardinality(S) = Cardinality(T) => S = T

IntervalFact == \A a, b \in Int : IsFiniteSet(a .. b) /\ Cardinality(a .. b) = IF a > b THEN 0 ELSE b - a + 1

UnionFact ==
  \A S, T : IsFiniteSet(S) /\ IsFiniteSet(T) =>
              /\ IsFiniteSet(S \cup T)
              /\ Cardinality(S \cup T) = Cardinality(S) + Cardinality(T) - Cardinality(S \cap T)

MapFact ==
  /\ \A S, T : IsFiniteSet(S) /\ ExistsBijection(S, T) => IsFiniteSet(T) /\ Cardinality(T) = Cardinality(S)
  /\ \A S, T : \A f \in Surjection(S, T) : IsFiniteSet(S) =>
                 /\ IsFiniteSet(T) /\ Cardinality(T) <= Cardinality(S)
                 /\ Cardinality(T) = Cardinality(S) <=> f \in Injection(S, T)
  /\ \A S, T : \A f \in Injection(S, T) : IsFiniteSet(T) =>
                 /\ IsFiniteSet(S) /\ Cardinality(S) <= Cardinality(T)
                 /\ Cardinality(S) = Cardinality(T) <=> f \in Surjection(S, T)

FiniteFacts == LeastFact /\ SizeFact /\ ElementFact /\ SubsetFact /\ IntervalFact /\ UnionFact /\ MapFact

\* Its parts, by name.
LEMMA Least ==
  ASSUME FiniteFacts, NEW T \in SUBSET Nat, T # {}
  PROVE  \E n \in T : \A m \in T : n <= m
  BY Zenon DEF FiniteFacts, LeastFact

\* The empty set, and no other, has no element.
LEMMA EmptyFin ==
  ASSUME FiniteFacts
  PROVE  IsFiniteSet({}) /\ Cardinality({}) = 0 /\ \A S : IsFiniteSet(S) => (Cardinality(S) = 0 <=> S = {})
  BY Zenon DEF FiniteFacts, SizeFact

\* The size of a finite set is a natural number.
LEMMA CardinalityFin == ASSUME FiniteFacts, NEW S, IsFiniteSet(S) PROVE Cardinality(S) \in Nat
  BY Zenon DEF FiniteFacts, SizeFact

\* A set with an element added.
LEMMA AddFin ==
  ASSUME FiniteFacts, NEW S, NEW x, IsFiniteSet(S)
  PROVE  /\ IsFiniteSet(S \cup {x})
         /\ Cardinality(S \cup {x}) = IF x \in S THEN Cardinality(S) ELSE Cardinality(S) + 1
  BY Zenon DEF FiniteFacts, ElementFact

\* A set with an element removed.
LEMMA RemoveFin ==
  ASSUME FiniteFacts, NEW S, NEW x, IsFiniteSet(S)
  PROVE  /\ IsFiniteSet(S \ {x})
         /\ Cardinality(S \ {x}) = IF x \in S THEN Cardinality(S) - 1 ELSE Cardinality(S)
  BY Zenon DEF FiniteFacts, ElementFact

\* A subset of a finite set is finite, and smaller unless it is the set.
LEMMA SubsetFin ==
  ASSUME FiniteFacts, NEW S, IsFiniteSet(S), NEW T \in SUBSET S
  PROVE  IsFiniteSet(T) /\ Cardinality(T) <= Cardinality(S) /\ (Cardinality(S) = Cardinality(T) => S = T)
  BY Zenon DEF FiniteFacts, SubsetFact

\* The size of an interval.
LEMMA IntervalFin ==
  ASSUME FiniteFacts, NEW a \in Int, NEW b \in Int
  PROVE  IsFiniteSet(a .. b) /\ Cardinality(a .. b) = IF a > b THEN 0 ELSE b - a + 1
  BY Zenon DEF FiniteFacts, IntervalFact

\* The size of a union.
LEMMA UnionFin ==
  ASSUME FiniteFacts, NEW S, IsFiniteSet(S), NEW T, IsFiniteSet(T)
  PROVE  /\ IsFiniteSet(S \cup T)
         /\ Cardinality(S \cup T) = Cardinality(S) + Cardinality(T) - Cardinality(S \cap T)
  BY Zenon DEF FiniteFacts, UnionFact

\* A bijection keeps the size.
LEMMA BijectionFin ==
  ASSUME FiniteFacts, NEW S, NEW T, IsFiniteSet(S), ExistsBijection(S, T)
  PROVE  IsFiniteSet(T) /\ Cardinality(T) = Cardinality(S)
  BY Zenon DEF FiniteFacts, MapFact

\* An image is at most as large, and as large only if no two elements meet.
LEMMA SurjectionFin ==
  ASSUME FiniteFacts, NEW S, NEW T, NEW f \in Surjection(S, T), IsFiniteSet(S)
  PROVE  /\ IsFiniteSet(T) /\ Cardinality(T) <= Cardinality(S)
         /\ Cardinality(T) = Cardinality(S) <=> f \in Injection(S, T)
  BY Zenon DEF FiniteFacts, MapFact

\* A set that is mapped injectively is at most as large as the range.
LEMMA InjectionFin ==
  ASSUME FiniteFacts, NEW S, NEW T, NEW f \in Injection(S, T), IsFiniteSet(T)
  PROVE  /\ IsFiniteSet(S) /\ Cardinality(S) <= Cardinality(T)
         /\ Cardinality(S) = Cardinality(T) <=> f \in Surjection(S, T)
  BY Zenon DEF FiniteFacts, MapFact

\* The unit cells under the graph of f over s.
Bars(f, s) == {b \in s \X Nat : b[2] \in 1 .. f[b[1]]}

\* One more argument adds the unit cells of its value.
LEMMA BarsAdd ==
  ASSUME FiniteFacts, NEW S, NEW f \in [S -> Nat], NEW s \in SUBSET S, NEW x \in s, IsFiniteSet(Bars(f, s \ {x}))
  PROVE  IsFiniteSet(Bars(f, s)) /\ Cardinality(Bars(f, s)) = f[x] + Cardinality(Bars(f, s \ {x}))
<1> DEFINE X == {b \in {x} \X Nat : b[2] \in 1 .. f[x]}
<1>0. f[x] \in Nat
  BY Zenon
<1>1. IsFiniteSet(X) /\ Cardinality(X) = f[x]
  <2> DEFINE g == [i \in 1 .. f[x] |-> <<x, i>>]
  <2>1. g \in [1 .. f[x] -> X]
    BY <1>0
  <2>2. \A b \in X : b = <<x, b[2]>>
    OBVIOUS
  <2>3. \A b \in X : \E i \in 1 .. f[x] : g[i] = b
    BY <2>2, Zenon
  <2>4. \A i, k \in 1 .. f[x] : g[i] = g[k] => i = k
    BY Zenon
  <2>5. g \in Bijection(1 .. f[x], X)
    BY <2>1, <2>3, <2>4, Zenon DEF Bijection, Injection, Surjection, IsInjective
  <2>6. IsFiniteSet(1 .. f[x]) /\ Cardinality(1 .. f[x]) = f[x]
    BY <1>0, IntervalFin, SMTT(30), SMTT(60)
  <2>7. ExistsBijection(1 .. f[x], X)
    BY <2>5, Zenon DEF ExistsBijection
  <2> HIDE DEF X
  <2> QED
    BY <2>6, <2>7, BijectionFin, ZenonT(60)
<1>2. Bars(f, s) = X \cup Bars(f, s \ {x}) /\ X \cap Bars(f, s \ {x}) = {}
  <2>1. \A b : b \in Bars(f, s) <=> b \in X \/ b \in Bars(f, s \ {x})
    BY Zenon DEF Bars
  <2>2. \A b \in X : b \notin Bars(f, s \ {x})
    BY Zenon DEF Bars
  <2> HIDE DEF X
  <2> QED
    BY <2>1, <2>2, Zenon
<1> HIDE DEF X
<1>3. /\ IsFiniteSet(X \cup Bars(f, s \ {x}))
      /\ Cardinality(X \cup Bars(f, s \ {x})) = Cardinality(X) + Cardinality(Bars(f, s \ {x})) - Cardinality(X \cap Bars(f, s \ {x}))
  BY <1>1, UnionFin, Zenon
<1>4. Cardinality(X \cap Bars(f, s \ {x})) = 0
  BY <1>2, EmptyFin, Zenon
<1>5. Cardinality(Bars(f, s \ {x})) \in Nat
  BY CardinalityFin, Zenon
<1> QED
  BY <1>0, <1>1, <1>2, <1>3, <1>4, <1>5

\* The cells under a function on a finite set are finite in number: else take
\* a smallest subset with infinitely many.
LEMMA BarsFinite ==
  ASSUME FiniteFacts, NEW S, IsFiniteSet(S), NEW f \in [S -> Nat], NEW s \in SUBSET S
  PROVE  IsFiniteSet(Bars(f, s))
<1> DEFINE Bad == {n \in Nat : \E t \in SUBSET S : Cardinality(t) = n /\ ~IsFiniteSet(Bars(f, t))}
<1> SUFFICES ASSUME Bad # {} PROVE FALSE
  <2>1. Cardinality(s) \in Nat
    BY SubsetFin, CardinalityFin, Zenon
  <2> QED
    BY <2>1, Zenon
<1>1. PICK n \in Bad : \A m \in Bad : n <= m
  <2>1. Bad \in SUBSET Nat
    BY Zenon
  <2> HIDE DEF Bad
  <2> QED
    BY <2>1, Least, Zenon
<1>2. PICK t \in SUBSET S : Cardinality(t) = n /\ ~IsFiniteSet(Bars(f, t))
  BY <1>1, Zenon
<1>3. t # {}
  <2>1. Bars(f, {}) = {}
    BY Zenon DEF Bars
  <2> QED
    BY <1>2, <2>1, EmptyFin, Zenon
<1>4. PICK x \in t : TRUE
  BY <1>3, Zenon
<1>5. IsFiniteSet(t) /\ n \in Nat
  BY <1>1, <1>2, SubsetFin, Zenon
<1>6. Cardinality(t \ {x}) = n - 1
  BY <1>2, <1>4, <1>5, RemoveFin, Zenon
<1>7. Cardinality(t \ {x}) \in Nat
  BY <1>5, RemoveFin, CardinalityFin, Zenon
<1>8. n - 1 \notin Bad
  BY <1>1, <1>5, <1>6, <1>7
<1>9. IsFiniteSet(Bars(f, t \ {x}))
  BY <1>6, <1>7, <1>8, Zenon
<1> QED
  BY <1>2, <1>4, <1>9, BarsAdd, Zenon

\* The fold that sums a function counts the cells under it: a function defined
\* by recursion over subsets agrees with the count, else at a smallest subset.
LEMMA SumBars ==
  ASSUME FiniteFacts, NEW S, IsFiniteSet(S), NEW f \in [S -> Nat]
  PROVE  SumFunction(f) = Cardinality(Bars(f, S))
<1> DEFINE E(g) == [s \in SUBSET S |-> IF s = {} THEN 0 ELSE f[CHOOSE x \in s : TRUE] + g[s \ {CHOOSE x \in s : TRUE}]]
           G == [s \in SUBSET S |-> Cardinality(Bars(f, s))]
           I == CHOOSE g : g = E(g)
<1>1. SumFunction(f) = I[S]
  BY Zenon DEF SumFunction, SumFunctionOnSet, FoldFunctionOnSet, MapThenFoldSet
<1>a. ASSUME NEW s \in SUBSET S, NEW x \in s
      PROVE  Cardinality(Bars(f, s)) = f[x] + Cardinality(Bars(f, s \ {x}))
  <2>1. IsFiniteSet(Bars(f, s \ {x}))
    BY BarsFinite, Zenon
  <2> QED
    BY <2>1, BarsAdd
<1>2. G = E(G)
  <2>1. \A s \in SUBSET S : G[s] = E(G)[s]
    <3> TAKE s \in SUBSET S
    <3>1. CASE s = {}
      <4>1. Bars(f, {}) = {}
        BY Zenon DEF Bars
      <4> QED
        BY <3>1, <4>1, EmptyFin, Zenon
    <3>2. CASE s # {}
      <4>1. PICK x \in s : x = CHOOSE y \in s : TRUE
        BY <3>2, Zenon
      <4>3. Cardinality(Bars(f, s)) = f[x] + Cardinality(Bars(f, s \ {x}))
        BY <1>a, Zenon
      <4>4. G[s] = Cardinality(Bars(f, s)) /\ G[s \ {x}] = Cardinality(Bars(f, s \ {x}))
        BY Zenon
      <4>5. E(G)[s] = f[x] + G[s \ {x}]
        BY <3>2, <4>1, Zenon
      <4> QED
        BY <4>3, <4>4, <4>5, Zenon
    <3> QED
      BY <3>1, <3>2, Zenon
  <2>2. G = [s \in SUBSET S |-> G[s]] /\ E(G) = [s \in SUBSET S |-> E(G)[s]]
    OBVIOUS
  <2> HIDE DEF G, E
  <2> QED
    BY <2>1, <2>2, Zenon
<1>3. I = E(I)
  <2>1. \E g : g = E(g)
    BY <1>2, Zenon
  <2> HIDE DEF E
  <2> QED
    BY <2>1, Zenon
<1> HIDE DEF I, G
<1> DEFINE Bad == {n \in Nat : \E t \in SUBSET S : Cardinality(t) = n /\ I[t] # G[t]}
<1>4. SUFFICES ASSUME Bad # {} PROVE FALSE
  <2>1. Cardinality(S) \in Nat
    BY CardinalityFin, Zenon
  <2>2. I[S] = G[S]
    BY <1>4, <2>1, Zenon
  <2> QED
    BY <1>1, <2>2, Zenon DEF G
<1>5. PICK n \in Bad : \A m \in Bad : n <= m
  <2>1. Bad \in SUBSET Nat
    BY Zenon
  <2> HIDE DEF Bad
  <2> QED
    BY <1>4, <2>1, Least, Zenon
<1>6. PICK t \in SUBSET S : Cardinality(t) = n /\ I[t] # G[t]
  BY <1>5, Zenon
<1>7. t # {}
  <2>1. I[{}] = 0 /\ G[{}] = 0
    BY <1>2, <1>3, Zenon
  <2> QED
    BY <1>6, <2>1, Zenon
<1>8. PICK x \in t : x = CHOOSE y \in t : TRUE
  BY <1>7, Zenon
<1>9. I[t] = f[x] + I[t \ {x}] /\ G[t] = f[x] + G[t \ {x}]
  <2>1. I[t] = E(I)[t] /\ G[t] = E(G)[t]
    BY <1>2, <1>3, Zenon
  <2>2. \A g : E(g)[t] = f[x] + g[t \ {x}]
    BY <1>7, <1>8, Zenon
  <2> QED
    BY <2>1, <2>2, Zenon
<1>10. IsFiniteSet(t) /\ n \in Nat
  BY <1>5, <1>6, SubsetFin, Zenon
<1>11. Cardinality(t \ {x}) = n - 1 /\ Cardinality(t \ {x}) \in Nat
  BY <1>6, <1>8, <1>10, RemoveFin, CardinalityFin, Zenon
<1>12. n - 1 \notin Bad
  BY <1>5, <1>10, <1>11
<1>13. I[t \ {x}] = G[t \ {x}]
  BY <1>11, <1>12, Zenon
<1> QED
  BY <1>6, <1>9, <1>13, Zenon

\* The empty sum.
LEMMA SumEmpty == ASSUME FiniteFacts, NEW f \in [{} -> Nat] PROVE SumFunction(f) = 0
<1>1. Bars(f, {}) = {}
  BY Zenon DEF Bars
<1> QED
  BY <1>1, SumBars, EmptyFin, Zenon

\* A sum may be reduced before or after an addition, as wrapping counters do.
LEMMA ModAdd ==
  \A x \in Int : \A y \in Int : \A m \in Nat \ {0} :
    ((x % m) + y) % m = (x + y) % m
<1>DM. ASSUME NEW x \in Int, NEW m \in Nat \ {0} PROVE \E q \in Int : x = m * q + (x % m) /\ x % m \in 0 .. m - 1
  <2> USE <1>DM
  <2>1. x \div m \in Int
    OBVIOUS
  <2>2. x = m * (x \div m) + (x % m)
    OBVIOUS
  <2>3. x % m \in 0 .. m - 1
    OBVIOUS
  <2> QED
    BY <2>1, <2>2, <2>3, Zenon
<1>DU. ASSUME NEW x \in Int, NEW m \in Nat \ {0}, NEW q \in Int, NEW r \in 0 .. m-1, x = m * q + r PROVE x % m = r
  BY <1>DU
<1> SUFFICES ASSUME NEW x \in Int, NEW y \in Int, NEW m \in Nat \ {0} PROVE ((x % m) + y) % m = (x + y) % m
  BY Zenon
<1>1. PICK q \in Int : x = m * q + (x % m) /\ x % m \in 0 .. m - 1
  BY <1>DM, Zenon
<1>0. PICK s \in Int : s = x + y
  OBVIOUS
<1>2. PICK p \in Int : s = m * p + (s % m) /\ s % m \in 0 .. m - 1
  BY <1>DM, Zenon
<1>3. PICK a, r : a = x % m /\ r = s % m
  BY Zenon
<1>a. m * (p - q) = m * p - m * q
  OBVIOUS
<1>b. PICK mp, mq \in Int : mp = m * p /\ mq = m * q
  OBVIOUS
<1>c. x = mq + a /\ s = mp + r /\ a \in 0 .. m - 1 /\ r \in 0 .. m - 1
  BY <1>1, <1>2, <1>3, <1>b, Zenon
<1>d. a + y = (mp - mq) + r
  BY <1>0, <1>c
<1>4. a \in Int /\ r \in 0 .. m - 1 /\ a + y = m * (p - q) + r
  BY <1>a, <1>b, <1>c, <1>d
<1>5. PICK z, d : z = a + y /\ d = p - q
  BY Zenon
<1>6. z \in Int /\ d \in Int /\ z = m * d + r
  BY <1>4, <1>5
<1>7. z % m = r
  BY <1>4, <1>6, <1>DU, Zenon
<1> QED
  BY <1>0, <1>3, <1>5, <1>7, Zenon

-----------------------------------------------------------------------------
Slot(V) == [generation : 1 .. U32Max, occupied : BOOLEAN, cell : V \cup (0 .. U32Max)]

\* f lists the n free ones of the slots S from the end of the free list to its head.
FreeStack(S, head, cap, n, f) ==
  /\ \A i, j \in 1 .. n : f[i] = f[j] => i = j
  /\ \A s \in 0 .. cap - 1 : ~S[s].occupied <=> \E i \in 1 .. n : f[i] = s
  /\ head = IF n = 0 THEN U32Max ELSE f[n]
  /\ \A i \in 1 .. n : S[f[i]].cell = IF i = 1 THEN U32Max ELSE f[i - 1]

SlotsSound(S, head, V, cap) ==
  /\ U32Max \in Nat /\ cap \in 1 .. U32Max - 1
  /\ S \in [0 .. cap - 1 -> Slot(V)]
  /\ \A i \in 0 .. cap - 1 : S[i].occupied => S[i].cell \in V
  /\ \E n \in Nat : \E f \in [1 .. n -> 0 .. cap - 1] : FreeStack(S, head, cap, n, f)

\* An arena of cap slots that stores members of V.
ArenaSound(a, V, cap) ==
  /\ a = [slots |-> a.slots, free_head |-> a.free_head, len |-> a.len]
  /\ SlotsSound(a.slots, a.free_head, V, cap)

\* What an arena stores, by handle.
NodesOf(a) == [h \in LiveHandles(a) |-> ArenaGet(a, h)]

\* A new arena is sound and holds nothing.
LEMMA NewSound ==
  ASSUME NEW V, U32Max \in Nat, NEW cap \in 1 .. U32Max - 1
  PROVE  ArenaSound(ArenaNew(cap), V, cap) /\ LiveHandles(ArenaNew(cap)) = {}
<1>0. PICK S : S = [i \in 0 .. cap - 1 |-> [generation |-> 1, occupied |-> FALSE,
                                            cell |-> IF i + 1 < cap THEN i + 1 ELSE U32Max]]
  BY Zenon
<1>1. PICK f : f = [i \in 1 .. cap |-> cap - i]
  BY Zenon
<1>2. f \in [1 .. cap -> 0 .. cap - 1] /\ cap \in Nat
  BY <1>1
<1>3. ASSUME NEW s \in 0 .. cap - 1 PROVE \E i \in 1 .. cap : f[i] = s
  <2>1. cap - s \in 1 .. cap /\ f[cap - s] = s
    BY <1>1
  <2> QED
    BY <2>1, Zenon
<1>4. S \in [0 .. cap - 1 -> Slot(V)] /\ \A i \in 0 .. cap - 1 : ~S[i].occupied
  BY <1>0 DEF Slot
<1>5. FreeStack(S, 0, cap, cap, f)
  BY <1>0, <1>1, <1>2, <1>3 DEF FreeStack
<1>6. SlotsSound(S, 0, V, cap)
  BY <1>2, <1>4, <1>5, Zenon DEF SlotsSound
<1>7. ArenaNew(cap) = [slots |-> S, free_head |-> 0, len |-> 0]
  BY <1>0, Zenon DEF ArenaNew
<1>8. DOMAIN S = 0 .. cap - 1
  BY <1>0, Zenon
<1>9. LiveHandles(ArenaNew(cap)) = {}
  BY <1>4, <1>7, <1>8 DEF LiveHandles
<1> QED
  BY <1>6, <1>7, <1>9 DEF ArenaSound

\* A live handle names an occupied slot and its generation.
LEMMA LiveSlot ==
  ASSUME NEW V, NEW cap, NEW a, ArenaSound(a, V, cap), NEW h \in LiveHandles(a)
  PROVE  /\ h.slot \in 0 .. cap - 1 /\ h.slot \in DOMAIN a.slots
         /\ h.generation \in 1 .. U32Max
         /\ h = ArenaIdx(h.slot, a.slots[h.slot].generation)
         /\ a.slots[h.slot].generation = h.generation
         /\ a.slots[h.slot].occupied
         /\ a.slots[h.slot].cell \in V
<1>1. PICK i \in DOMAIN a.slots : a.slots[i].occupied /\ h = ArenaIdx(i, a.slots[i].generation)
  BY Zenon DEF LiveHandles
<1>2. h.slot = i /\ h.generation = a.slots[i].generation
  BY <1>1, Zenon DEF ArenaIdx
<1>3. /\ DOMAIN a.slots = 0 .. cap - 1
      /\ \A j \in 0 .. cap - 1 : /\ a.slots[j].generation \in 1 .. U32Max
                                 /\ a.slots[j].occupied => a.slots[j].cell \in V
  BY Zenon DEF ArenaSound, SlotsSound, Slot
<1> QED
  BY <1>1, <1>2, <1>3, Zenon

\* Of the live handles and SENTINEL, get and remove accept the live ones.
LEMMA LiveHas ==
  ASSUME NEW V, NEW cap, NEW a, ArenaSound(a, V, cap)
  PROVE  /\ \A h \in LiveHandles(a) : h # SENTINEL /\ SlotMatches(a, h) /\ ArenaHas(a, h)
         /\ ~ArenaHas(a, SENTINEL) /\ SENTINEL \notin LiveHandles(a)
<1>1. ASSUME NEW h \in LiveHandles(a) PROVE h # SENTINEL /\ SlotMatches(a, h) /\ ArenaHas(a, h)
  <2>1. SlotMatches(a, h)
    BY LiveSlot DEF SlotMatches
  <2>2. h.generation \in 1 .. U32Max
    BY LiveSlot, Zenon
  <2>3. SENTINEL.generation = 0
    BY Zenon DEF SENTINEL, ArenaIdx
  <2>4. h # SENTINEL
    BY <2>2, <2>3
  <2> QED
    BY <2>1, <2>4, Zenon DEF ArenaHas, IsValid
<1>2. ~ArenaHas(a, SENTINEL)
  BY Zenon DEF ArenaHas, IsValid
<1> QED
  BY <1>1, <1>2, Zenon

\* A live handle resolves to its node.
LEMMA LiveNode ==
  ASSUME NEW V, NEW cap, NEW a, ArenaSound(a, V, cap)
  PROVE  /\ NodesOf(a) \in [LiveHandles(a) -> V]
         /\ \A h \in LiveHandles(a) : ArenaGet(a, h) = NodesOf(a)[h]
<1>1. \A h \in LiveHandles(a) : ArenaGet(a, h) \in V
  BY LiveSlot, Zenon DEF ArenaGet
<1> QED
  BY <1>1, Zenon DEF NodesOf

\* remove forgets one handle and leaves what is stored under the others.
LEMMA RemoveSound ==
  \A V, cap, a : \A h \in LiveHandles(a) :
    ArenaSound(a, V, cap) =>
    /\ ArenaSound(ArenaRemove(a, h), V, cap)
    /\ NodesOf(ArenaRemove(a, h)) = MapRemove(NodesOf(a), h)
\* remove puts its slot at the head of the free list.
\* Every free slot's generation moves on to one that no handle of it carries yet.
<1>NextGenerationIs. ASSUME U32Max \in Nat, NEW g \in 1 .. U32Max
                     PROVE  NextGeneration(g) \in 1 .. U32Max
  BY <1>NextGenerationIs DEF NextGeneration
<1>RemoveSlots. ASSUME NEW S, NEW head, NEW V, NEW cap, SlotsSound(S, head, V, cap),
                       NEW x \in 0 .. cap - 1, S[x].occupied, NEW g \in 1 .. U32Max,
                       NEW T, T = [S EXCEPT ![x] = [generation |-> g, occupied |-> FALSE, cell |-> head]]
                PROVE  SlotsSound(T, x, V, cap)
  <2> USE <1>RemoveSlots
  <2>0. U32Max \in Nat /\ cap \in 1 .. U32Max - 1 /\ S \in [0 .. cap - 1 -> Slot(V)]
    BY Zenon DEF SlotsSound
  <2>1. PICK n \in Nat : \E f \in [1 .. n -> 0 .. cap - 1] : FreeStack(S, head, cap, n, f)
    BY Zenon DEF SlotsSound
  <2>2. PICK f \in [1 .. n -> 0 .. cap - 1] : FreeStack(S, head, cap, n, f)
    BY <2>1, Zenon
  <2>3. head = (IF n = 0 THEN U32Max ELSE f[n]) /\ head \in 0 .. U32Max
    BY <2>0, <2>2 DEF FreeStack
  <2>4. /\ T \in [0 .. cap - 1 -> Slot(V)]
        /\ ~T[x].occupied /\ T[x].cell = head
        /\ \A i \in 0 .. cap - 1 : i # x => T[i] = S[i]
    BY <2>0, <2>3, Zenon DEF Slot
  <2>5. PICK e : e = [i \in 1 .. n + 1 |-> IF i = n + 1 THEN x ELSE f[i]]
    BY Zenon
  <2>6. /\ e \in [1 .. n + 1 -> 0 .. cap - 1] /\ e[n + 1] = x /\ n + 1 \in 1 .. n + 1
        /\ \A i \in 1 .. n + 1 : i # n + 1 => i \in 1 .. n
        /\ \A i \in 1 .. n : i \in 1 .. n + 1 /\ e[i] = f[i] /\ f[i] # x /\ f[i] \in 0 .. cap - 1
    BY <2>2, <2>5 DEF FreeStack
  <2>7. FreeStack(T, x, cap, n + 1, e)
    <3>1. \A i, j \in 1 .. n + 1 : e[i] = e[j] => i = j
      BY <2>2, <2>6, SMTT(30), SMTT(60) DEF FreeStack
    <3>2. ASSUME NEW s \in 0 .. cap - 1 PROVE ~T[s].occupied <=> \E i \in 1 .. n + 1 : e[i] = s
      <4>1. CASE s = x
        BY <2>4, <2>6, <4>1, Zenon
      <4>2. CASE s # x
        <5>1. T[s] = S[s] /\ (~S[s].occupied <=> \E i \in 1 .. n : f[i] = s)
          BY <2>2, <2>4, <4>2, Zenon DEF FreeStack
        <5>2. (\E i \in 1 .. n + 1 : e[i] = s) <=> \E i \in 1 .. n : f[i] = s
          BY <2>6, <4>2, Zenon
        <5> QED
          BY <5>1, <5>2, Zenon
      <4> QED
        BY <4>1, <4>2, Zenon
    <3>3. \A i \in 1 .. n + 1 : T[e[i]].cell = IF i = 1 THEN U32Max ELSE e[i - 1]
      <4> TAKE i \in 1 .. n + 1
      <4>1. CASE i = n + 1
        BY <2>3, <2>4, <2>6, <4>1
      <4>2. CASE i # n + 1
        <5>1. i \in 1 .. n /\ (i # 1 => i - 1 \in 1 .. n)
          BY <4>2
        <5> QED
          BY <2>2, <2>4, <2>6, <5>1, SMTT(30), SMTT(60) DEF FreeStack
      <4> QED
        BY <4>1, <4>2, Zenon
    <3> QED
      BY <2>6, <3>1, <3>2, <3>3 DEF FreeStack
  <2>8. \A i \in 0 .. cap - 1 : T[i].occupied => T[i].cell \in V
    BY <2>4, Zenon DEF SlotsSound
  <2>9. n + 1 \in Nat
    OBVIOUS
  <2>10. \E m \in Nat : \E k \in [1 .. m -> 0 .. cap - 1] : FreeStack(T, x, cap, m, k)
    BY <2>6, <2>7, <2>9, Zenon
  <2> QED
    BY <2>0, <2>4, <2>8, <2>10, Zenon DEF SlotsSound
<1> TAKE V, cap, a
<1> TAKE h \in LiveHandles(a)
<1> HAVE ArenaSound(a, V, cap)
<1>1. PICK S, x, g : S = a.slots /\ x = h.slot /\ g = NextGeneration(S[x].generation)
  BY Zenon
<1>2. /\ x \in 0 .. cap - 1 /\ S[x].occupied /\ h = ArenaIdx(x, S[x].generation)
      /\ S[x].generation \in 1 .. U32Max
  <2>1. /\ h.slot \in 0 .. cap - 1 /\ a.slots[h.slot].occupied
        /\ h = ArenaIdx(h.slot, a.slots[h.slot].generation)
        /\ a.slots[h.slot].generation \in 1 .. U32Max
    BY LiveSlot
  <2> QED
    BY <1>1, <2>1, Zenon
<1>3. g \in 1 .. U32Max
  BY <1>1, <1>2, <1>NextGenerationIs, Zenon DEF ArenaSound, SlotsSound
<1>4. PICK T : T = [S EXCEPT ![x] = [generation |-> g, occupied |-> FALSE, cell |-> a.free_head]]
  BY Zenon
<1>5. PICK b : b = ArenaRemove(a, h)
  BY Zenon
<1>6. b = [slots |-> T, free_head |-> x, len |-> a.len - 1]
  BY <1>1, <1>4, <1>5, Zenon DEF ArenaRemove
<1>7. SlotsSound(T, x, V, cap)
  <2>1. SlotsSound(S, a.free_head, V, cap)
    BY <1>1, Zenon DEF ArenaSound
  <2> QED
    BY <1>2, <1>3, <1>4, <2>1, <1>RemoveSlots, Zenon
<1>8. ArenaSound(b, V, cap)
  BY <1>6, <1>7, Zenon DEF ArenaSound
<1>9. DOMAIN S = 0 .. cap - 1
  BY <1>1, Zenon DEF ArenaSound, SlotsSound
<1>10. /\ DOMAIN T = 0 .. cap - 1 /\ ~T[x].occupied
       /\ \A i \in 0 .. cap - 1 : i # x => T[i] = S[i]
  BY <1>2, <1>4, <1>9, Zenon
<1>11. \A k \in LiveHandles(a) : /\ k.slot \in 0 .. cap - 1 /\ S[k.slot].occupied
                                 /\ k = ArenaIdx(k.slot, S[k.slot].generation)
  <2>1. \A k \in LiveHandles(a) : /\ k.slot \in 0 .. cap - 1 /\ a.slots[k.slot].occupied
                                  /\ k = ArenaIdx(k.slot, a.slots[k.slot].generation)
    BY LiveSlot
  <2> QED
    BY <1>1, <2>1, Zenon
<1>12. LiveHandles(b) = LiveHandles(a) \ {h}
  <2>1. \A k : k \in LiveHandles(b) <=> \E i \in 0 .. cap - 1 : T[i].occupied /\ k = ArenaIdx(i, T[i].generation)
    BY <1>6, <1>10, Zenon DEF LiveHandles
  <2>2. \A k : k \in LiveHandles(a) <=> \E i \in 0 .. cap - 1 : S[i].occupied /\ k = ArenaIdx(i, S[i].generation)
    BY <1>1, <1>9, Zenon DEF LiveHandles
  <2>3. \A i : ArenaIdx(i, S[i].generation).slot = i
    BY Zenon DEF ArenaIdx
  <2>4. \A i \in 0 .. cap - 1 : i # x => ArenaIdx(i, S[i].generation) # h
    BY <1>1, <2>3, Zenon
  <2> QED
    BY <1>2, <1>10, <2>1, <2>2, <2>4
<1>13. \A k \in LiveHandles(a) \ {h} : ArenaGet(b, k) = ArenaGet(a, k)
  <2> TAKE k \in LiveHandles(a) \ {h}
  <2>1. k.slot # x
    BY <1>2, <1>11, Zenon
  <2> QED
    BY <1>1, <1>6, <1>10, <1>11, <2>1, Zenon DEF ArenaGet
<1>14. NodesOf(b) = MapRemove(NodesOf(a), h)
  BY <1>12, <1>13, Zenon DEF NodesOf, MapRemove, Restrict
<1> QED
  BY <1>5, <1>8, <1>14, Zenon

\* A write through get_mut changes what is stored under that handle alone.
LEMMA SetSound ==
  ASSUME NEW V, NEW cap, NEW a, ArenaSound(a, V, cap), NEW h \in LiveHandles(a), NEW v \in V
  PROVE  /\ ArenaSound(ArenaSet(a, h, v), V, cap)
         /\ LiveHandles(ArenaSet(a, h, v)) = LiveHandles(a)
         /\ NodesOf(ArenaSet(a, h, v)) = [NodesOf(a) EXCEPT ![h] = v]
<1>1. PICK S, x : S = a.slots /\ x = h.slot
  BY Zenon
<1>2. x \in 0 .. cap - 1 /\ S[x].occupied /\ h = ArenaIdx(x, S[x].generation)
  <2>1. /\ h.slot \in 0 .. cap - 1 /\ a.slots[h.slot].occupied
        /\ h = ArenaIdx(h.slot, a.slots[h.slot].generation)
    BY LiveSlot
  <2> QED
    BY <1>1, <2>1, Zenon
<1>3. PICK T : T = [S EXCEPT ![x].cell = v]
  BY Zenon
<1>4. PICK b : b = ArenaSet(a, h, v)
  BY Zenon
<1>5. b = [slots |-> T, free_head |-> a.free_head, len |-> a.len]
  BY <1>1, <1>3, <1>4, Zenon DEF ArenaSet, ArenaSound
<1>6. SlotsSound(S, a.free_head, V, cap) /\ S \in [0 .. cap - 1 -> Slot(V)]
  BY <1>1, Zenon DEF ArenaSound, SlotsSound
<1>7. /\ T \in [0 .. cap - 1 -> Slot(V)] /\ T[x].cell = v
      /\ \A i \in 0 .. cap - 1 : /\ T[i].occupied = S[i].occupied /\ T[i].generation = S[i].generation
                                 /\ i # x => T[i] = S[i]
  BY <1>2, <1>3, <1>6, Zenon DEF Slot
<1>8. SlotsSound(T, a.free_head, V, cap)
  <2>1. PICK n \in Nat : \E f \in [1 .. n -> 0 .. cap - 1] : FreeStack(S, a.free_head, cap, n, f)
    BY <1>6, Zenon DEF SlotsSound
  <2>2. PICK f \in [1 .. n -> 0 .. cap - 1] : FreeStack(S, a.free_head, cap, n, f)
    BY <2>1, Zenon
  <2>a. \A i \in 1 .. n : f[i] \in 0 .. cap - 1 /\ ~S[f[i]].occupied
    BY <2>2, Zenon DEF FreeStack
  <2>3. \A i \in 1 .. n : f[i] \in 0 .. cap - 1 /\ T[f[i]] = S[f[i]]
    BY <1>2, <1>7, <2>a, Zenon
  <2>b. /\ \A i \in 1 .. n : S[f[i]].cell = IF i = 1 THEN U32Max ELSE f[i - 1]
        /\ \A s \in 0 .. cap - 1 : ~S[s].occupied <=> \E i \in 1 .. n : f[i] = s
    BY <2>2, Zenon DEF FreeStack
  <2>c. \A i \in 1 .. n : T[f[i]].cell = IF i = 1 THEN U32Max ELSE f[i - 1]
    BY <2>3, <2>b, Zenon
  <2>d. \A s \in 0 .. cap - 1 : ~T[s].occupied <=> \E i \in 1 .. n : f[i] = s
    BY <1>7, <2>b, Zenon
  <2>4. FreeStack(T, a.free_head, cap, n, f)
    BY <2>2, <2>c, <2>d, Zenon DEF FreeStack
  <2>5. \A i \in 0 .. cap - 1 : T[i].occupied => T[i].cell \in V
    BY <1>6, <1>7, Zenon DEF SlotsSound
  <2> QED
    BY <1>6, <1>7, <2>4, <2>5, Zenon DEF SlotsSound
<1>9. ArenaSound(b, V, cap)
  BY <1>5, <1>8, Zenon DEF ArenaSound
<1>a. b.slots = T /\ a.slots = S /\ DOMAIN T = 0 .. cap - 1 /\ DOMAIN S = 0 .. cap - 1
  BY <1>1, <1>5, <1>6, <1>7, Zenon
<1>10. LiveHandles(b) = LiveHandles(a)
  <2>1. \A k : k \in LiveHandles(b) <=> \E i \in 0 .. cap - 1 : T[i].occupied /\ k = ArenaIdx(i, T[i].generation)
    BY <1>a, Zenon DEF LiveHandles
  <2>2. \A k : k \in LiveHandles(a) <=> \E i \in 0 .. cap - 1 : S[i].occupied /\ k = ArenaIdx(i, S[i].generation)
    BY <1>a, Zenon DEF LiveHandles
  <2>3. \A i \in 0 .. cap - 1 : T[i].occupied = S[i].occupied /\ T[i].generation = S[i].generation
    BY <1>7, Zenon
  <2>4. \A k : k \in LiveHandles(b) <=> k \in LiveHandles(a)
    BY <2>1, <2>2, <2>3, Zenon
  <2> QED
    BY <2>4, Zenon
<1>11. ArenaGet(b, h) = v
  BY <1>1, <1>5, <1>7, Zenon DEF ArenaGet
<1>12. \A k \in LiveHandles(a) : k # h => ArenaGet(b, k) = ArenaGet(a, k)
  <2> SUFFICES ASSUME NEW k \in LiveHandles(a), k # h PROVE ArenaGet(b, k) = ArenaGet(a, k)
    BY Zenon
  <2>1. k.slot \in 0 .. cap - 1 /\ k = ArenaIdx(k.slot, a.slots[k.slot].generation)
    BY LiveSlot, SMTT(60)
  <2>2. k.slot # x
    BY <1>1, <1>2, <2>1, Zenon
  <2> QED
    BY <1>1, <1>5, <1>7, <2>1, <2>2, Zenon DEF ArenaGet
<1>13. NodesOf(b) = [NodesOf(a) EXCEPT ![h] = v]
  BY <1>10, <1>11, <1>12, Zenon DEF NodesOf
<1> QED
  BY <1>4, <1>9, <1>10, <1>13, Zenon

\* SetNext and SetPrev as the book calls them: on a live handle or SENTINEL.
NextSet(M, x, to) == IF x \in DOMAIN M THEN [M EXCEPT ![x].next = to] ELSE M

PrevSet(M, x, to) == IF x \in DOMAIN M THEN [M EXCEPT ![x].prev = to] ELSE M

Handles == [slot : Nat, generation : Nat]

Node(O) == [order : O, prev : Handles, next : Handles]

\* Setting a link of a node changes that link only; setting one of the sentinel
\* changes nothing.
LEMMA SetLinkSound ==
  ASSUME NEW O, NEW cap, NEW a, ArenaSound(a, Node(O), cap), NEW to \in Handles,
         NEW x \in LiveHandles(a) \cup {SENTINEL}
  PROVE  /\ ArenaSound(SetNext(a, x, to), Node(O), cap)
         /\ LiveHandles(SetNext(a, x, to)) = LiveHandles(a)
         /\ NodesOf(SetNext(a, x, to)) = NextSet(NodesOf(a), x, to)
         /\ ArenaSound(SetPrev(a, x, to), Node(O), cap)
         /\ LiveHandles(SetPrev(a, x, to)) = LiveHandles(a)
         /\ NodesOf(SetPrev(a, x, to)) = PrevSet(NodesOf(a), x, to)
<1>1. CASE x \notin LiveHandles(a)
  <2>1. ~ArenaHas(a, x)
    BY <1>1, LiveHas, Zenon
  <2>2. SetNext(a, x, to) = a /\ SetPrev(a, x, to) = a
    BY <2>1, Zenon DEF SetNext, SetPrev
  <2>3. NextSet(NodesOf(a), x, to) = NodesOf(a) /\ PrevSet(NodesOf(a), x, to) = NodesOf(a)
    BY <1>1, LiveNode, Zenon DEF NextSet, PrevSet
  <2> QED
    BY <2>2, <2>3, Zenon
<1>2. CASE x \in LiveHandles(a)
  <2>1. ArenaHas(a, x)
    BY <1>2, LiveHas, Zenon
  <2>2. PICK M : M = NodesOf(a)
    BY Zenon
  <2>3. M \in [LiveHandles(a) -> Node(O)] /\ ArenaGet(a, x) = M[x]
    BY <1>2, <2>2, LiveNode, Zenon
  <2>4. PICK v, w : v = [M[x] EXCEPT !.next = to] /\ w = [M[x] EXCEPT !.prev = to]
    BY Zenon
  <2>5. v \in Node(O) /\ w \in Node(O)
    BY <1>2, <2>3, <2>4, Zenon DEF Node
  <2>6. SetNext(a, x, to) = ArenaSet(a, x, v) /\ SetPrev(a, x, to) = ArenaSet(a, x, w)
    BY <2>1, <2>3, <2>4, Zenon DEF SetNext, SetPrev
  <2>7. NextSet(M, x, to) = [M EXCEPT ![x] = v] /\ PrevSet(M, x, to) = [M EXCEPT ![x] = w]
    BY <1>2, <2>3, <2>4, Zenon DEF NextSet, PrevSet
  <2>8. \A u \in Node(O) : /\ ArenaSound(ArenaSet(a, x, u), Node(O), cap)
                           /\ LiveHandles(ArenaSet(a, x, u)) = LiveHandles(a)
                           /\ NodesOf(ArenaSet(a, x, u)) = [NodesOf(a) EXCEPT ![x] = u]
    <3> TAKE u \in Node(O)
    <3> QED
      BY <1>2, SetSound
  <2>9. /\ ArenaSound(ArenaSet(a, x, v), Node(O), cap) /\ ArenaSound(ArenaSet(a, x, w), Node(O), cap)
        /\ LiveHandles(ArenaSet(a, x, v)) = LiveHandles(a) /\ LiveHandles(ArenaSet(a, x, w)) = LiveHandles(a)
        /\ NodesOf(ArenaSet(a, x, v)) = [NodesOf(a) EXCEPT ![x] = v]
        /\ NodesOf(ArenaSet(a, x, w)) = [NodesOf(a) EXCEPT ![x] = w]
    BY <2>5, <2>8, Zenon
  <2> QED
    BY <2>2, <2>6, <2>7, <2>9, Zenon
<1> QED
  BY <1>1, <1>2, Zenon

-----------------------------------------------------------------------------
\* q lists handles of M in the order of their links, both ways.
Linked(M, q) ==
  /\ q \in Seq(DOMAIN M)
  /\ \A i, j \in 1 .. Len(q) : q[i] = q[j] => i = j
  /\ \A i \in 1 .. Len(q) :
       /\ M[q[i]].prev = IF i = 1 THEN SENTINEL ELSE q[i - 1]
       /\ M[q[i]].next = IF i = Len(q) THEN SENTINEL ELSE q[i + 1]

Without(q, k) == [i \in 1 .. Len(q) - 1 |-> IF i < k THEN q[i] ELSE q[i + 1]]

Last1(q) == IF q = << >> THEN SENTINEL ELSE q[Len(q)]

\* A function on 1 .. n is a sequence.
LEMMA SeqIs ==
  ASSUME NEW S, NEW n \in Nat, NEW f \in [1 .. n -> S]
  PROVE  f \in Seq(S) /\ Len(f) = n
  OBVIOUS

\* A sequence is a function on 1 .. Len.
LEMMA SeqHas ==
  ASSUME NEW S, NEW q \in Seq(S)
  PROVE  Len(q) \in Nat /\ DOMAIN q = 1 .. Len(q) /\ q \in [1 .. Len(q) -> S] /\ (q = << >> <=> Len(q) = 0)
  OBVIOUS

\* What Append is.
LEMMA AppendIs ==
  ASSUME NEW S, NEW q \in Seq(S), NEW x
  PROVE  /\ Append(q, x) \in Seq(S \cup {x}) /\ Len(Append(q, x)) = Len(q) + 1
         /\ \A i \in 1 .. Len(q) : Append(q, x)[i] = q[i]
         /\ Append(q, x)[Len(q) + 1] = x
  OBVIOUS

\* What a sequence is without its k-th element.
LEMMA WithoutIs ==
  ASSUME NEW S, NEW q \in Seq(S), NEW k \in 1 .. Len(q)
  PROVE  /\ Without(q, k) \in Seq(S) /\ Len(Without(q, k)) = Len(q) - 1
         /\ \A i \in 1 .. Len(q) - 1 : Without(q, k)[i] = IF i < k THEN q[i] ELSE q[i + 1]
<1>1. PICK w, n : w = Without(q, k) /\ n = Len(q) - 1
  BY Zenon
<1>2. n \in Nat /\ w = [i \in 1 .. n |-> IF i < k THEN q[i] ELSE q[i + 1]]
  BY <1>1 DEF Without
<1>3. w \in [1 .. n -> S]
  BY <1>1, <1>2
<1>4. w \in Seq(S) /\ Len(w) = n
  BY <1>2, <1>3, SeqIs, Zenon
<1> QED
  BY <1>1, <1>2, <1>4, Zenon

\* A chain does not notice changes to nodes that are not on it.
LEMMA LinkKeep ==
  ASSUME NEW M, NEW N, NEW q, Linked(M, q),
         \A i \in 1 .. Len(q) : q[i] \in DOMAIN N /\ N[q[i]].prev = M[q[i]].prev /\ N[q[i]].next = M[q[i]].next
  PROVE  Linked(N, q)
<1>1. q \in Seq(DOMAIN M)
  BY Zenon DEF Linked
<1>2. Len(q) \in Nat /\ q \in [1 .. Len(q) -> DOMAIN M]
  BY <1>1, SeqHas, Zenon
<1>3. q \in [1 .. Len(q) -> DOMAIN N]
  BY <1>2, Zenon
<1>4. q \in Seq(DOMAIN N)
  BY <1>2, <1>3, SeqIs, Zenon
<1> QED
  BY <1>4, Zenon DEF Linked

\* The nodes after insert has linked its order behind tail.
InsertNodes(M, x, o, tail, N) ==
  /\ DOMAIN N = DOMAIN M \cup {x}
  /\ N[x].order = o /\ N[x].prev = tail /\ N[x].next = SENTINEL
  /\ \A h \in DOMAIN M : /\ N[h].order = M[h].order /\ N[h].prev = M[h].prev
                         /\ N[h].next = IF h = tail THEN x ELSE M[h].next

\* The nodes after cancel has spliced the neighbours of x together.
CancelNodes(M, x, N) ==
  /\ DOMAIN N = DOMAIN M \ {x}
  /\ \A h \in DOMAIN N : /\ N[h].order = M[h].order
                         /\ N[h].prev = IF h = M[x].next THEN M[x].prev ELSE M[h].prev
                         /\ N[h].next = IF h = M[x].prev THEN M[x].next ELSE M[h].next

\* Live handles are handles, and so is the sentinel.
LEMMA HandlesOf ==
  ASSUME NEW V, NEW cap, NEW a, ArenaSound(a, V, cap)
  PROVE  LiveHandles(a) \subseteq Handles /\ SENTINEL \in Handles
<1>1. ASSUME NEW h \in LiveHandles(a) PROVE h \in Handles
  <2>1. /\ h.slot \in 0 .. cap - 1 /\ h.generation \in 1 .. U32Max
        /\ h = ArenaIdx(h.slot, h.generation)
    BY LiveSlot
  <2>2. \A i \in 0 .. cap - 1 : \A g \in 1 .. U32Max : i \in Nat /\ g \in Nat
    BY DEF ArenaSound, SlotsSound
  <2>3. h.slot \in Nat /\ h.generation \in Nat
    BY <2>1, <2>2, Zenon
  <2> QED
    BY <2>1, <2>3, Zenon DEF ArenaIdx, Handles
<1>2. SENTINEL \in Handles
  BY Zenon DEF SENTINEL, ArenaIdx, Handles
<1> QED
  BY <1>1, <1>2, Zenon

\* What insert does to the arena.
LEMMA InsertArena ==
  \A O, cap, a, x, b, c : \A o \in O, tail \in LiveHandles(a) \cup {SENTINEL} :
    ArenaSound(a, Node(O), cap) /\ ~ArenaFull(a) /\ x = AllocIdx(a) /\
    b = ArenaAlloc(a, OrderNode(o, SENTINEL, SENTINEL)) /\
    (c = IF IsValid(tail) THEN SetPrev(SetNext(b, tail, x), x, tail) ELSE b) =>
    /\ ArenaSound(c, Node(O), cap)
    /\ x \notin LiveHandles(a) /\ x # SENTINEL
    /\ InsertNodes(NodesOf(a), x, o, tail, NodesOf(c))
\* alloc stores its value under a handle that was not live.
<1>AllocSound. \A V, cap, a : ArenaSound(a, V, cap) /\ ~ArenaFull(a) => \A v \in V :
                   /\ ArenaSound(ArenaAlloc(a, v), V, cap)
                   /\ AllocIdx(a) \notin LiveHandles(a)
                   /\ NodesOf(ArenaAlloc(a, v)) = MapPut(NodesOf(a), AllocIdx(a), v)
               \* alloc takes the head of the free list.
  <2>AllocSlots. ASSUME NEW S, NEW x, NEW V, NEW cap, SlotsSound(S, x, V, cap), x # U32Max, NEW v \in V,
                        NEW T, T = [S EXCEPT ![x] = [generation |-> S[x].generation, occupied |-> TRUE, cell |-> v]]
                 PROVE  SlotsSound(T, S[x].cell, V, cap) /\ x \in 0 .. cap - 1 /\ ~S[x].occupied
    <3> USE <2>AllocSlots
    <3>0. U32Max \in Nat /\ cap \in 1 .. U32Max - 1 /\ S \in [0 .. cap - 1 -> Slot(V)]
      BY Zenon DEF SlotsSound
    <3>1. PICK n \in Nat : \E f \in [1 .. n -> 0 .. cap - 1] : FreeStack(S, x, cap, n, f)
      BY Zenon DEF SlotsSound
    <3>2. PICK f \in [1 .. n -> 0 .. cap - 1] : FreeStack(S, x, cap, n, f)
      BY <3>1, Zenon
    <3>3. n \in 1 .. n /\ n - 1 \in Nat /\ x = f[n] /\ x \in 0 .. cap - 1 /\ ~S[x].occupied
      BY <3>0, <3>2 DEF FreeStack
    <3>4. S[x].cell = (IF n = 1 THEN U32Max ELSE f[n - 1]) /\ S[x].generation \in 1 .. U32Max
      BY <3>0, <3>2, <3>3, Zenon DEF FreeStack, Slot
    <3>5. /\ T \in [0 .. cap - 1 -> Slot(V)]
          /\ T[x].occupied /\ T[x].cell \in V
          /\ \A i \in 0 .. cap - 1 : i # x => T[i] = S[i]
      BY <3>0, <3>3, <3>4, Zenon DEF Slot
    <3>6. PICK g : g = [i \in 1 .. n - 1 |-> f[i]]
      BY Zenon
    <3>7. /\ g \in [1 .. n - 1 -> 0 .. cap - 1]
          /\ \A i \in 1 .. n - 1 : i \in 1 .. n /\ g[i] = f[i] /\ f[i] # x /\ f[i] \in 0 .. cap - 1
      BY <3>2, <3>3, <3>6 DEF FreeStack
    <3>8. FreeStack(T, S[x].cell, cap, n - 1, g)
      <4>1. \A i, j \in 1 .. n - 1 : g[i] = g[j] => i = j
        BY <3>2, <3>7, ZenonT(60) DEF FreeStack
      <4>2. ASSUME NEW s \in 0 .. cap - 1 PROVE ~T[s].occupied <=> \E i \in 1 .. n - 1 : g[i] = s
        <5>1. CASE s = x
          BY <3>5, <3>7, <5>1, Zenon
        <5>2. CASE s # x
          <6>1. T[s] = S[s] /\ (~S[s].occupied <=> \E i \in 1 .. n : f[i] = s)
            BY <3>2, <3>5, <5>2, Zenon DEF FreeStack
          <6>2. (\E i \in 1 .. n : f[i] = s) => \E i \in 1 .. n - 1 : g[i] = s
            BY <3>3, <3>7, <5>2
          <6> QED
            BY <6>1, <6>2, <3>7, Zenon
        <5> QED
          BY <5>1, <5>2, Zenon
      <4>3. S[x].cell = IF n - 1 = 0 THEN U32Max ELSE g[n - 1]
        BY <3>3, <3>4, <3>6
      <4>4. \A i \in 1 .. n - 1 : T[g[i]].cell = IF i = 1 THEN U32Max ELSE g[i - 1]
        BY <3>2, <3>5, <3>7 DEF FreeStack
      <4> QED
        BY <4>1, <4>2, <4>3, <4>4, Zenon DEF FreeStack
    <3>9. \A i \in 0 .. cap - 1 : T[i].occupied => T[i].cell \in V
      BY <3>5, Zenon DEF SlotsSound
    <3> QED
      BY <3>0, <3>3, <3>5, <3>7, <3>8, <3>9, Zenon DEF SlotsSound
  <2> SUFFICES ASSUME NEW V, NEW cap, NEW a, ArenaSound(a, V, cap), ~ArenaFull(a), NEW v \in V
               PROVE  /\ ArenaSound(ArenaAlloc(a, v), V, cap)
                      /\ AllocIdx(a) \notin LiveHandles(a)
                      /\ NodesOf(ArenaAlloc(a, v)) = MapPut(NodesOf(a), AllocIdx(a), v)
    BY Zenon
  <2>1. PICK S, x : S = a.slots /\ x = a.free_head
    BY Zenon
  <2>2. PICK T : T = [S EXCEPT ![x] = [generation |-> S[x].generation, occupied |-> TRUE, cell |-> v]]
    BY Zenon
  <2>3. PICK b : b = ArenaAlloc(a, v)
    BY Zenon
  <2>4. b = [slots |-> T, free_head |-> S[x].cell, len |-> a.len + 1]
    BY <2>1, <2>2, <2>3, Zenon DEF ArenaAlloc
  <2>5. SlotsSound(T, S[x].cell, V, cap) /\ x \in 0 .. cap - 1 /\ ~S[x].occupied
    BY <2>1, <2>2, <2>AllocSlots, ZenonT(60) DEF ArenaSound, ArenaFull
  <2>6. ArenaSound(b, V, cap)
    BY <2>4, <2>5, Zenon DEF ArenaSound
  <2>7. PICK idx : idx = AllocIdx(a)
    BY Zenon
  <2>8. idx = ArenaIdx(x, S[x].generation) /\ idx.slot = x
    BY <2>1, <2>7, Zenon DEF AllocIdx, ArenaIdx
  <2>9. idx \notin LiveHandles(a)
    <3>1. \A h \in LiveHandles(a) : a.slots[h.slot].occupied
      BY LiveSlot, Zenon
    <3> QED
      BY <2>1, <2>5, <2>8, <3>1, Zenon
  <2>10. DOMAIN S = 0 .. cap - 1 /\ S \in [0 .. cap - 1 -> Slot(V)]
    BY <2>1, Zenon DEF ArenaSound, SlotsSound
  <2>11. /\ DOMAIN T = 0 .. cap - 1 /\ T[x].occupied /\ T[x].cell = v /\ T[x].generation = S[x].generation
         /\ \A i \in 0 .. cap - 1 : i # x => T[i] = S[i]
    BY <2>2, <2>5, <2>10, Zenon
  <2>12. LiveHandles(b) = LiveHandles(a) \cup {idx}
    <3>1. \A h : h \in LiveHandles(b) <=> \E i \in 0 .. cap - 1 : T[i].occupied /\ h = ArenaIdx(i, T[i].generation)
      BY <2>4, <2>11, Zenon DEF LiveHandles
    <3>2. \A h : h \in LiveHandles(a) <=> \E i \in 0 .. cap - 1 : S[i].occupied /\ h = ArenaIdx(i, S[i].generation)
      BY <2>1, <2>10, Zenon DEF LiveHandles
    <3> QED
      BY <2>5, <2>8, <2>11, <3>1, <3>2
  <2>13. \A h \in LiveHandles(a) : ArenaGet(b, h) = ArenaGet(a, h)
    <3>1. \A h \in LiveHandles(a) : h.slot \in 0 .. cap - 1 /\ a.slots[h.slot].occupied
      BY LiveSlot, Zenon
    <3> QED
      BY <2>1, <2>4, <2>5, <2>11, <3>1, Zenon DEF ArenaGet
  <2>14. ArenaGet(b, idx) = v
    BY <2>4, <2>8, <2>11, Zenon DEF ArenaGet
  <2>15. NodesOf(b) = MapPut(NodesOf(a), idx, v)
    BY <2>9, <2>12, <2>13, <2>14, Zenon DEF NodesOf, MapPut
  <2> QED
    BY <2>3, <2>6, <2>7, <2>9, <2>15, Zenon
<1>PutNodes. ASSUME NEW O, NEW H, NEW M \in [H -> Node(O)], NEW o \in O, NEW x \in Handles, x \notin H,
                    SENTINEL \in Handles, NEW tail \in H, tail \in Handles,
                    NEW A, A = MapPut(M, x, OrderNode(o, SENTINEL, SENTINEL)),
                    NEW N, N = PrevSet(NextSet(A, tail, x), x, tail)
             PROVE  InsertNodes(M, x, o, tail, N)
  <2> USE <1>PutNodes
  <2>1. /\ A \in [H \cup {x} -> Node(O)] /\ \A h \in H : A[h] = M[h]
        /\ A[x].order = o /\ A[x].prev = SENTINEL /\ A[x].next = SENTINEL
    BY Zenon DEF MapPut, OrderNode, Node
  <2>2. PICK B : B = NextSet(A, tail, x)
    BY Zenon
  <2>3. B = [A EXCEPT ![tail].next = x]
    BY <2>1, <2>2, Zenon DEF NextSet
  <2>4. /\ B \in [H \cup {x} -> Node(O)] /\ \A h \in H : h # tail => B[h] = M[h]
        /\ B[x] = A[x] /\ B[tail].next = x /\ B[tail].order = M[tail].order /\ B[tail].prev = M[tail].prev
    BY <2>1, <2>3, ZenonT(60) DEF Node
  <2>5. N = [B EXCEPT ![x].prev = tail]
    BY <2>2, <2>4, Zenon DEF PrevSet
  <2>6. /\ DOMAIN N = H \cup {x} /\ \A h \in H : N[h] = B[h]
        /\ N[x].prev = tail /\ N[x].order = o /\ N[x].next = SENTINEL
    BY <2>1, <2>4, <2>5 DEF Node
  <2> QED
    BY <2>4, <2>6, ZenonT(60) DEF InsertNodes
<1> TAKE O, cap, a, x, b, c
<1> TAKE o \in O, tail \in LiveHandles(a) \cup {SENTINEL}
<1> HAVE ArenaSound(a, Node(O), cap) /\ ~ArenaFull(a) /\ x = AllocIdx(a) /\
         b = ArenaAlloc(a, OrderNode(o, SENTINEL, SENTINEL)) /\
         (c = IF IsValid(tail) THEN SetPrev(SetNext(b, tail, x), x, tail) ELSE b)
<1>1. OrderNode(o, SENTINEL, SENTINEL) \in Node(O)
  BY HandlesOf, Zenon DEF Node, OrderNode
<1>2. /\ ArenaSound(b, Node(O), cap) /\ x \notin LiveHandles(a)
      /\ NodesOf(b) = MapPut(NodesOf(a), x, OrderNode(o, SENTINEL, SENTINEL))
  BY <1>1, <1>AllocSound
<1>3. NodesOf(a) \in [LiveHandles(a) -> Node(O)]
  BY LiveNode, Zenon
<1>4. LiveHandles(b) = LiveHandles(a) \cup {x}
  <2>1. DOMAIN NodesOf(b) = LiveHandles(b) /\ DOMAIN NodesOf(a) = LiveHandles(a)
    BY Zenon DEF NodesOf
  <2>2. DOMAIN MapPut(NodesOf(a), x, OrderNode(o, SENTINEL, SENTINEL)) = DOMAIN NodesOf(a) \cup {x}
    BY Zenon DEF MapPut
  <2> QED
    BY <1>2, <2>1, <2>2, Zenon
<1>5. x \in Handles /\ x # SENTINEL /\ SENTINEL \in Handles /\ SENTINEL \notin LiveHandles(b)
  BY <1>2, <1>4, HandlesOf, LiveHas, Zenon
<1>6. CASE tail = SENTINEL
  <2>1. c = b
    BY <1>6, Zenon DEF IsValid
  <2>2. InsertNodes(NodesOf(a), x, o, tail, NodesOf(b))
    <3>1. PICK M, N : M = NodesOf(a) /\ N = NodesOf(b)
      BY Zenon
    <3>2. M \in [LiveHandles(a) -> Node(O)] /\ N = MapPut(M, x, OrderNode(o, SENTINEL, SENTINEL))
      BY <1>2, <1>3, <3>1, Zenon
    <3>3. SENTINEL \notin LiveHandles(a)
      BY LiveHas, Zenon
    <3>4. InsertNodes(M, x, o, tail, N)
      BY <1>2, <1>6, <3>2, <3>3, Zenon DEF InsertNodes, MapPut, OrderNode
    <3> QED
      BY <3>1, <3>4, Zenon
  <2> QED
    BY <1>2, <1>5, <2>1, <2>2, Zenon
<1>7. CASE tail \in LiveHandles(a)
  <2>1. tail # SENTINEL /\ tail \in Handles
    BY <1>7, LiveHas, HandlesOf, Zenon
  <2>2. PICK d : d = SetNext(b, tail, x)
    BY Zenon
  <2>3. ArenaSound(d, Node(O), cap) /\ LiveHandles(d) = LiveHandles(b) /\ NodesOf(d) = NextSet(NodesOf(b), tail, x)
    BY <1>2, <1>4, <1>5, <1>7, <2>2, SetLinkSound, SMTT(30), SMTT(60)
  <2>4. c = SetPrev(d, x, tail)
    BY <2>1, <2>2, Zenon DEF IsValid
  <2>5. ArenaSound(c, Node(O), cap) /\ NodesOf(c) = PrevSet(NodesOf(d), x, tail)
    BY <1>4, <2>1, <2>3, <2>4, SetLinkSound, SMTT(60)
  <2>6. NodesOf(c) = PrevSet(NextSet(MapPut(NodesOf(a), x, OrderNode(o, SENTINEL, SENTINEL)), tail, x), x, tail)
    BY <1>2, <2>3, <2>5, Zenon
  <2>7. InsertNodes(NodesOf(a), x, o, tail, NodesOf(c))
    BY <1>2, <1>3, <1>5, <1>7, <2>1, <2>6, <1>PutNodes, Zenon
  <2> QED
    BY <1>2, <1>5, <2>5, <2>7, Zenon
<1> QED
  BY <1>6, <1>7, Zenon

\* What taking x out of the arena and of its list leaves.
Cancelled(c, O, cap, a, x) == ArenaSound(c, Node(O), cap) /\ CancelNodes(NodesOf(a), x, NodesOf(c))

\* What cancel does to the arena.
LEMMA CancelArena ==
  \A O, cap, a, node, c : \A x \in LiveHandles(a) :
    ArenaSound(a, Node(O), cap) /\ node = NodesOf(a)[x] /\ node.prev # x /\ node.next # x /\
    node.prev \in LiveHandles(a) \cup {SENTINEL} /\ node.next \in LiveHandles(a) \cup {SENTINEL} /\
    c = Splice(ArenaRemove(a, x), node) =>
    Cancelled(c, O, cap, a, x)
<1>SpliceNodes. ASSUME NEW O, NEW H, NEW M \in [H -> Node(O)], NEW x \in H, SENTINEL \notin H,
                       NEW p \in H \cup {SENTINEL}, NEW n \in H \cup {SENTINEL}, p # x, n # x,
                       p \in Handles, n \in Handles, M[x].prev = p, M[x].next = n,
                       NEW A, A = MapRemove(M, x), NEW N, N = PrevSet(NextSet(A, p, n), n, p)
                PROVE  CancelNodes(M, x, N)
  <2> USE <1>SpliceNodes
  <2>1. A \in [H \ {x} -> Node(O)] /\ \A h \in H \ {x} : A[h] = M[h]
    BY Zenon DEF MapRemove, Restrict
  <2>2. PICK B : B = NextSet(A, p, n)
    BY Zenon
  <2>3. /\ B \in [H \ {x} -> Node(O)]
        /\ \A h \in H \ {x} : /\ B[h].order = M[h].order /\ B[h].prev = M[h].prev
                              /\ B[h].next = IF h = p THEN n ELSE M[h].next
    <3>1. CASE p = SENTINEL
      BY <2>1, <2>2, <3>1, Zenon DEF NextSet
    <3>2. CASE p # SENTINEL
      <4>1. p \in H \ {x} /\ B = [A EXCEPT ![p].next = n]
        BY <2>1, <2>2, <3>2, ZenonT(60) DEF NextSet
      <4> QED
        BY <2>1, <4>1 DEF Node
    <3> QED
      BY <3>1, <3>2, Zenon
  <2>4. /\ N \in [H \ {x} -> Node(O)]
        /\ \A h \in H \ {x} : /\ N[h].order = B[h].order /\ N[h].next = B[h].next
                              /\ N[h].prev = IF h = n THEN p ELSE B[h].prev
    <3>1. CASE n = SENTINEL
      BY <2>2, <2>3, <3>1, ZenonT(60) DEF PrevSet
    <3>2. CASE n # SENTINEL
      <4>1. n \in H \ {x} /\ N = [B EXCEPT ![n].prev = p]
        BY <2>2, <2>3, <3>2, ZenonT(60) DEF PrevSet
      <4> QED
        BY <2>3, <4>1 DEF Node
    <3> QED
      BY <3>1, <3>2, Zenon
  <2> QED
    BY <2>3, <2>4, SMTT(60) DEF CancelNodes
<1> TAKE O, cap, a, node, c
<1> TAKE x \in LiveHandles(a)
<1> HAVE ArenaSound(a, Node(O), cap) /\ node = NodesOf(a)[x] /\ node.prev # x /\ node.next # x /\
         node.prev \in LiveHandles(a) \cup {SENTINEL} /\
         node.next \in LiveHandles(a) \cup {SENTINEL} /\ c = Splice(ArenaRemove(a, x), node)
<1>1. PICK p, n, b : p = node.prev /\ n = node.next /\ b = ArenaRemove(a, x)
  BY Zenon
<1>2. ArenaSound(b, Node(O), cap) /\ NodesOf(b) = MapRemove(NodesOf(a), x)
  BY <1>1, RemoveSound, SMTT(60)
<1>3. NodesOf(a) \in [LiveHandles(a) -> Node(O)]
  BY LiveNode, Zenon
<1>4. LiveHandles(b) = LiveHandles(a) \ {x}
  <2>1. DOMAIN NodesOf(b) = LiveHandles(b) /\ DOMAIN NodesOf(a) = LiveHandles(a)
    BY Zenon DEF NodesOf
  <2>2. DOMAIN MapRemove(NodesOf(a), x) = DOMAIN NodesOf(a) \ {x}
    BY Zenon DEF MapRemove, Restrict
  <2> QED
    BY <1>2, <2>1, <2>2, Zenon
<1>5. /\ p \in LiveHandles(b) \cup {SENTINEL} /\ n \in LiveHandles(b) \cup {SENTINEL}
      /\ p # x /\ n # x /\ p \in LiveHandles(a) \cup {SENTINEL} /\ n \in LiveHandles(a) \cup {SENTINEL}
      /\ NodesOf(a)[x].prev = p /\ NodesOf(a)[x].next = n
  BY <1>1, <1>4, Zenon
<1>6. p \in Handles /\ n \in Handles /\ SENTINEL \notin LiveHandles(a)
  BY <1>5, HandlesOf, LiveHas, Zenon
<1>7. PICK d : d = SetNext(b, p, n)
  BY ZenonT(60)
<1>8. ArenaSound(d, Node(O), cap) /\ LiveHandles(d) = LiveHandles(b) /\ NodesOf(d) = NextSet(NodesOf(b), p, n)
  BY <1>2, <1>5, <1>6, <1>7, SetLinkSound, SMTT(60)
<1>9. c = SetPrev(d, n, p)
  BY <1>1, <1>7, Zenon DEF Splice
<1>10. ArenaSound(c, Node(O), cap) /\ NodesOf(c) = PrevSet(NodesOf(d), n, p)
  BY <1>5, <1>6, <1>8, <1>9, SetLinkSound, SMTT(60)
<1>11. NodesOf(c) = PrevSet(NextSet(MapRemove(NodesOf(a), x), p, n), n, p)
  BY <1>2, <1>8, <1>10, Zenon
<1>12. CancelNodes(NodesOf(a), x, NodesOf(c))
  BY <1>3, <1>5, <1>6, <1>11, <1>SpliceNodes, Zenon
<1> QED
  BY <1>10, <1>12, Zenon DEF Cancelled

-----------------------------------------------------------------------------
\* The level an order belongs to.
KeyOf(o) == <<o.side, o.price>>

\* Q lists, for each side and price, the handles of the orders resting there.
QueuesSound(M, Q, P) ==
  /\ DOMAIN Q = Side \X P /\ Q = [c \in Side \X P |-> Q[c]]
  /\ \A c \in Side \X P : /\ Linked(M, Q[c])
                          /\ \A i \in 1 .. Len(Q[c]) : KeyOf(M[Q[c][i]].order) = c
  /\ \A h \in DOMAIN M : /\ KeyOf(M[h].order) \in Side \X P
                         /\ \E i \in 1 .. Len(Q[KeyOf(M[h].order)]) : Q[KeyOf(M[h].order)][i] = h

\* Linking a node behind the tail keeps the queues sound, with the node
\* appended to its own.
LEMMA QueuesInsert ==
  \A M, N, P, Q : QueuesSound(M, Q, P) => \A o, x :
    x \notin DOMAIN M /\ SENTINEL \notin DOMAIN M => \A c \in Side \X P :
    c = KeyOf(o) /\ InsertNodes(M, x, o, Last1(Q[c]), N) =>
    QueuesSound(N, [Q EXCEPT ![c] = Append(Q[c], x)], P)
\* A node linked behind the last one makes a longer chain.
<1>LinkAppend. ASSUME NEW M, NEW N, NEW q, Linked(M, q), NEW x, x \notin DOMAIN M, DOMAIN N = DOMAIN M \cup {x},
                      N[x].prev = Last1(q), N[x].next = SENTINEL,
                      \A h \in DOMAIN M : N[h].prev = M[h].prev /\ N[h].next = IF h = Last1(q) THEN x ELSE M[h].next
               PROVE  Linked(N, Append(q, x))
  <2> USE <1>LinkAppend
  <2>1. PICK n, p : n = Len(q) /\ p = Append(q, x)
    BY Zenon
  <2>2. /\ n \in Nat /\ q \in Seq(DOMAIN M) /\ \A i \in 1 .. n : q[i] \in DOMAIN M
        /\ q = << >> <=> n = 0
    BY <2>1, SeqHas, SMTT(40) DEF Linked
  <2>3. p \in Seq(DOMAIN N) /\ Len(p) = n + 1 /\ p[n + 1] = x /\ \A i \in 1 .. n : p[i] = q[i]
    BY <2>1, <2>2, AppendIs
  <2>4. \A i, j \in 1 .. n + 1 : p[i] = p[j] => i = j
    BY <2>1, <2>2, <2>3 DEF Linked
  <2>5. \A i \in 1 .. n : q[i] = Last1(q) <=> i = n
    BY <2>1, <2>2 DEF Linked, Last1
  <2>6. ASSUME NEW i \in 1 .. n + 1
        PROVE  /\ N[p[i]].prev = IF i = 1 THEN SENTINEL ELSE p[i - 1]
               /\ N[p[i]].next = IF i = n + 1 THEN SENTINEL ELSE p[i + 1]
    <3>1. CASE i = n + 1
      BY <2>1, <2>2, <2>3, <3>1 DEF Last1
    <3>2. CASE i # n + 1
      <4>1. i \in 1 .. n /\ (i # 1 => i - 1 \in 1 .. n) /\ (i # n => i + 1 \in 1 .. n)
        BY <2>2, <3>2
      <4>2. /\ M[q[i]].prev = (IF i = 1 THEN SENTINEL ELSE q[i - 1])
            /\ M[q[i]].next = (IF i = n THEN SENTINEL ELSE q[i + 1])
        BY <2>1, <4>1, Zenon DEF Linked
      <4>3. N[p[i]].prev = M[q[i]].prev /\ N[p[i]].next = IF i = n THEN x ELSE M[q[i]].next
        BY <2>2, <2>3, <2>5, <4>1, ZenonT(60)
      <4> QED
        BY <2>2, <2>3, <3>2, <4>1, <4>2, <4>3, Zenon
    <3> QED
      BY <3>1, <3>2, Zenon
  <2>7. \A i, j \in 1 .. Len(p) : p[i] = p[j] => i = j
    BY <2>3, <2>4, Zenon
  <2>8. \A i \in 1 .. Len(p) : /\ N[p[i]].prev = IF i = 1 THEN SENTINEL ELSE p[i - 1]
                              /\ N[p[i]].next = IF i = Len(p) THEN SENTINEL ELSE p[i + 1]
    BY <2>3, <2>6, Zenon
  <2>9. Linked(N, p)
    BY <2>3, <2>7, <2>8, Zenon DEF Linked
  <2> QED
    BY <2>1, <2>9, Zenon
<1> TAKE M, N, P, Q
<1> HAVE QueuesSound(M, Q, P)
<1> TAKE o, x
<1> HAVE x \notin DOMAIN M /\ SENTINEL \notin DOMAIN M
<1> TAKE c \in Side \X P
<1> HAVE c = KeyOf(o) /\ InsertNodes(M, x, o, Last1(Q[c]), N)
<1>1. PICK R, t : R = [Q EXCEPT ![c] = Append(Q[c], x)] /\ t = Last1(Q[c])
  BY Zenon
<1>2. /\ DOMAIN R = Side \X P /\ R = [d \in Side \X P |-> R[d]]
      /\ R[c] = Append(Q[c], x) /\ \A d \in Side \X P : d # c => R[d] = Q[d]
  BY <1>1, Zenon DEF QueuesSound
<1>3. \A d \in Side \X P : /\ Linked(M, Q[d]) /\ Q[d] \in Seq(DOMAIN M)
                           /\ \A i \in 1 .. Len(Q[d]) : Q[d][i] \in DOMAIN M /\ KeyOf(M[Q[d][i]].order) = d
  BY SMTT(60) DEF QueuesSound, Linked
<1>4. /\ DOMAIN N = DOMAIN M \cup {x} /\ N[x].order = o /\ N[x].prev = t /\ N[x].next = SENTINEL
      /\ \A h \in DOMAIN M : /\ N[h].order = M[h].order /\ N[h].prev = M[h].prev
                             /\ N[h].next = IF h = t THEN x ELSE M[h].next
  BY <1>1, Zenon DEF InsertNodes
<1>5. t \in DOMAIN M => KeyOf(M[t].order) = c
  <2>1. PICK q : q = Q[c]
    BY ZenonT(60)
  <2>2. Len(q) \in Nat /\ (q = << >> <=> Len(q) = 0) /\ \A i \in 1 .. Len(q) : KeyOf(M[q[i]].order) = c
    BY <1>3, <2>1
  <2>3. CASE q = << >>
    BY <1>1, <2>1, <2>3, Zenon DEF Last1
  <2>4. CASE q # << >>
    <3>1. t = q[Len(q)] /\ Len(q) \in 1 .. Len(q)
      BY <1>1, <2>1, <2>2, <2>4, SMTT(60) DEF Last1
    <3> QED
      BY <2>2, <3>1, Zenon
  <2> QED
    BY <2>3, <2>4, Zenon
<1>6. Linked(N, R[c])
  <2>1. Linked(M, Q[c])
    BY <1>3, Zenon
  <2> QED
    BY <1>1, <1>2, <1>4, <2>1, <1>LinkAppend, SMTT(60)
<1>7. ASSUME NEW d \in Side \X P, d # c PROVE Linked(N, R[d])
  <2>1. Linked(M, Q[d]) /\ R[d] = Q[d]
    BY <1>2, <1>3, <1>7, Zenon
  <2>2. \A i \in 1 .. Len(Q[d]) : Q[d][i] \in DOMAIN M /\ Q[d][i] # t
    BY <1>3, <1>5, <1>7, ZenonT(60)
  <2>3. \A i \in 1 .. Len(Q[d]) : /\ Q[d][i] \in DOMAIN N /\ N[Q[d][i]].prev = M[Q[d][i]].prev
                                  /\ N[Q[d][i]].next = M[Q[d][i]].next
    BY <1>4, <2>2, Zenon
  <2> QED
    BY <2>1, <2>3, LinkKeep, Zenon
<1>8. ASSUME NEW d \in Side \X P, NEW i \in 1 .. Len(R[d]) PROVE KeyOf(N[R[d][i]].order) = d
  <2>1. CASE d # c
    <3>1. R[d] = Q[d]
      BY <1>2, <2>1, Zenon
    <3> QED
      BY <1>3, <1>4, <3>1
  <2>2. CASE d = c
    <3>1. PICK q \in Seq(DOMAIN M) : q = Q[c]
      BY <1>3, Zenon
    <3>2. /\ Len(R[c]) = Len(q) + 1 /\ R[c][Len(q) + 1] = x /\ Len(q) \in Nat
          /\ \A j \in 1 .. Len(q) : R[c][j] = q[j]
      BY <1>2, <3>1, AppendIs, SMTT(60)
    <3>3. CASE i = Len(q) + 1
      BY <1>4, <2>2, <3>2, <3>3, Zenon
    <3>4. CASE i # Len(q) + 1
      <4>1. i \in 1 .. Len(q)
        BY <2>2, <3>2, <3>4, SMTT(60)
      <4>2. R[c][i] = q[i] /\ q[i] \in DOMAIN M /\ KeyOf(M[q[i]].order) = c
        BY <1>3, <3>1, <3>2, <4>1, Zenon
      <4> QED
        BY <1>4, <2>2, <4>2, Zenon
    <3> QED
      BY <3>3, <3>4, Zenon
  <2> QED
    BY <2>1, <2>2, Zenon
<1>9. ASSUME NEW h \in DOMAIN N
      PROVE  /\ KeyOf(N[h].order) \in Side \X P
             /\ \E i \in 1 .. Len(R[KeyOf(N[h].order)]) : R[KeyOf(N[h].order)][i] = h
  <2>0. PICK q \in Seq(DOMAIN M) : q = Q[c]
    BY <1>3, Zenon
  <2>a. /\ Len(R[c]) = Len(q) + 1 /\ R[c][Len(q) + 1] = x /\ Len(q) \in Nat
        /\ \A j \in 1 .. Len(q) : R[c][j] = q[j]
    BY <1>2, <2>0, AppendIs, SMTT(60)
  <2>1. CASE h = x
    <3>1. Len(q) + 1 \in 1 .. Len(R[c])
      BY <2>a, SMTT(60)
    <3> QED
      BY <1>4, <2>1, <2>a, <3>1, Zenon
  <2>2. CASE h # x
    <3>1. h \in DOMAIN M /\ N[h].order = M[h].order
      BY <1>4, <2>2, Zenon
    <3>2. PICK d \in Side \X P : d = KeyOf(M[h].order)
      BY <3>1, Zenon DEF QueuesSound
    <3>3. PICK i \in 1 .. Len(Q[d]) : Q[d][i] = h
      BY <3>1, <3>2, Zenon DEF QueuesSound
    <3>4. i \in 1 .. Len(R[d]) /\ R[d][i] = h
      BY <1>2, <2>0, <2>a, <3>3, SMTT(30), SMTT(60)
    <3> QED
      BY <3>1, <3>2, <3>4, Zenon
  <2> QED
    BY <2>1, <2>2, Zenon
<1>10. \A d \in Side \X P : Linked(N, R[d])
  BY <1>6, <1>7, Zenon
<1>11. QueuesSound(N, R, P)
  BY <1>2, <1>8, <1>9, <1>10, Zenon DEF QueuesSound
<1> QED
  BY <1>1, <1>11, Zenon

\* The neighbours of node x are other nodes of its level c.
Beside(M, x, c) ==
  /\ x \in DOMAIN M
  /\ \A y \in {M[x].prev, M[x].next} : y # SENTINEL => y \in DOMAIN M /\ y # x /\ KeyOf(M[y].order) = c

\* The neighbours of a node in a queue are nodes of the same level, or the
\* sentinel.
LEMMA Neighbours ==
  ASSUME NEW M, NEW P, NEW Q, QueuesSound(M, Q, P), NEW c \in Side \X P, NEW k \in 1 .. Len(Q[c]), NEW x, x = Q[c][k]
  PROVE  Beside(M, x, c)
<1>1. PICK q : q = Q[c]
  BY Zenon
<1>a. Linked(M, q) /\ \A i \in 1 .. Len(q) : KeyOf(M[q[i]].order) = c
  BY <1>1, Zenon DEF QueuesSound
<1>2. /\ q \in Seq(DOMAIN M) /\ Len(q) \in Nat /\ \A i, j \in 1 .. Len(q) : q[i] = q[j] => i = j
      /\ \A i \in 1 .. Len(q) : /\ q[i] \in DOMAIN M /\ KeyOf(M[q[i]].order) = c
                                /\ M[q[i]].prev = IF i = 1 THEN SENTINEL ELSE q[i - 1]
                                /\ M[q[i]].next = IF i = Len(q) THEN SENTINEL ELSE q[i + 1]
  BY <1>a, SMTT(30), SMTT(60) DEF Linked
<1>3. /\ k \in 1 .. Len(q)
      /\ k # 1 => k - 1 \in 1 .. Len(q) /\ k - 1 # k
      /\ k # Len(q) => k + 1 \in 1 .. Len(q) /\ k + 1 # k
  BY <1>1, <1>2, SMTT(60)
<1>4. q[k] \in DOMAIN M
  BY <1>2, <1>3, Zenon
<1>5. M[q[k]].prev # SENTINEL =>
        M[q[k]].prev \in DOMAIN M /\ M[q[k]].prev # q[k] /\ KeyOf(M[M[q[k]].prev].order) = c
  BY <1>2, <1>3, SMTT(30), SMTT(60)
<1>6. M[q[k]].next # SENTINEL =>
        M[q[k]].next \in DOMAIN M /\ M[q[k]].next # q[k] /\ KeyOf(M[M[q[k]].next].order) = c
  BY <1>2, <1>3, SMTT(30), SMTT(60)
<1>7. Beside(M, q[k], c)
  BY <1>4, <1>5, <1>6, Zenon DEF Beside
<1> QED
  BY <1>1, <1>7, Zenon

\* Splicing a node's neighbours keeps the queues sound, without the node.
LEMMA QueuesCancel ==
  \A M, N, P, Q : \A c \in Side \X P : \A k \in 1 .. Len(Q[c]) :
    QueuesSound(M, Q, P) /\ SENTINEL \notin DOMAIN M /\ CancelNodes(M, Q[c][k], N) =>
    QueuesSound(N, [Q EXCEPT ![c] = Without(Q[c], k)], P)
\* Splicing the neighbours of the k-th node together makes a shorter chain.
<1>LinkRemove. ASSUME NEW M, NEW N, NEW q, Linked(M, q), NEW k \in 1 .. Len(q), DOMAIN N = DOMAIN M \ {q[k]},
                      SENTINEL \notin DOMAIN M,
                      \A h \in DOMAIN N : /\ N[h].prev = IF h = M[q[k]].next THEN M[q[k]].prev ELSE M[h].prev
                                          /\ N[h].next = IF h = M[q[k]].prev THEN M[q[k]].next ELSE M[h].next
               PROVE  Linked(N, Without(q, k))
  <2> USE <1>LinkRemove
  <2>1. PICK n, w : n = Len(q) /\ w = Without(q, k)
    BY Zenon
  <2>2. /\ n \in Nat /\ q \in Seq(DOMAIN M) /\ \A i \in 1 .. n : q[i] \in DOMAIN M
        /\ \A i, j \in 1 .. n : q[i] = q[j] => i = j
        /\ \A i \in 1 .. n : /\ M[q[i]].prev = (IF i = 1 THEN SENTINEL ELSE q[i - 1])
                             /\ M[q[i]].next = (IF i = n THEN SENTINEL ELSE q[i + 1])
    <3>1. /\ q \in Seq(DOMAIN M) /\ \A i, j \in 1 .. n : q[i] = q[j] => i = j
          /\ \A i \in 1 .. n : /\ M[q[i]].prev = (IF i = 1 THEN SENTINEL ELSE q[i - 1])
                               /\ M[q[i]].next = (IF i = n THEN SENTINEL ELSE q[i + 1])
      BY <2>1, Zenon DEF Linked
    <3>2. n \in Nat /\ \A i \in 1 .. n : q[i] \in DOMAIN M
      BY <2>1, <3>1
    <3> QED
      BY <3>1, <3>2, Zenon
  <2>3. Len(w) = n - 1 /\ \A i \in 1 .. n - 1 : w[i] = IF i < k THEN q[i] ELSE q[i + 1]
    BY <2>1, <2>2, WithoutIs, SMTT(30), SMTT(60)
  <2>a. PICK m \in Nat : m = n - 1
    <3>1. k \in 1 .. n /\ n \in Nat
      BY <2>1, <2>2, Zenon
    <3>2. n - 1 \in Nat
      BY <3>1
    <3> QED
      BY <3>2, Zenon
  <2>4. \A i \in 1 .. m : w[i] \in DOMAIN N
    BY <2>a, <2>1, <2>2, <2>3, SMTT(30), SMTT(60)
  <2>5. w \in [1 .. m -> DOMAIN N]
    BY <2>a, <2>1, <2>2, <2>4, Zenon DEF Without
  <2>6. w \in Seq(DOMAIN N)
    BY <2>5, SeqIs, Zenon
  <2>b. n \in Nat /\ k \in 1 .. n /\ m = n - 1
    BY <2>a, <2>1, <2>2, Zenon
  <2>7. ASSUME NEW i \in 1 .. m, NEW j \in 1 .. m, w[i] = w[j] PROVE i = j
    <3>1. PICK c \in 1 .. n : c = IF i < k THEN i ELSE i + 1
      BY <2>b
    <3>2. PICK d \in 1 .. n : d = IF j < k THEN j ELSE j + 1
      BY <2>b
    <3>3. w[i] = q[c] /\ w[j] = q[d]
      BY <2>b, <2>3, <3>1, <3>2, Zenon
    <3>a. q[c] = q[d]
      BY <2>7, <3>3, Zenon
    <3>4. c = d
      BY <2>2, <3>a, Zenon
    <3> QED
      BY <2>b, <3>1, <3>2, <3>4
  <2>8. ASSUME NEW i \in 1 .. m
        PROVE  /\ N[w[i]].prev = IF i = 1 THEN SENTINEL ELSE w[i - 1]
               /\ N[w[i]].next = IF i = m THEN SENTINEL ELSE w[i + 1]
    <3>1. PICK j \in 1 .. n : j = IF i < k THEN i ELSE i + 1
      BY <2>a, <2>2
    <3>2. w[i] = q[j] /\ q[j] \in DOMAIN N /\ q[j] \in DOMAIN M /\ j # k
      <4>1. w[i] = q[j] /\ j # k
        BY <2>b, <2>3, <3>1
      <4> QED
        BY <2>2, <2>4, <4>1, Zenon
    <3>3. q[j] = M[q[k]].next <=> j = k + 1
      <4>1. CASE k = n
        BY <2>b, <2>2, <3>2, <4>1
      <4>2. CASE k # n
        <5>1. k + 1 \in 1 .. n /\ M[q[k]].next = q[k + 1]
          BY <2>b, <2>2, <4>2, SMTT(30), SMTT(60)
        <5> QED
          BY <2>2, <5>1, ZenonT(60)
      <4> QED
        BY <4>1, <4>2, Zenon
    <3>4. q[j] = M[q[k]].prev <=> j = k - 1
      <4>1. CASE k = 1
        BY <2>b, <2>2, <3>2, <4>1
      <4>2. CASE k # 1
        <5>1. k - 1 \in 1 .. n /\ M[q[k]].prev = q[k - 1]
          BY <2>b, <2>2, <4>2
        <5> QED
          BY <2>2, <5>1, ZenonT(60)
      <4> QED
        BY <4>1, <4>2, Zenon
    <3>5. /\ N[w[i]].prev = IF j = k + 1 THEN M[q[k]].prev ELSE M[q[j]].prev
          /\ N[w[i]].next = IF j = k - 1 THEN M[q[k]].next ELSE M[q[j]].next
      BY <3>2, <3>3, <3>4, Zenon
    <3>6. CASE i < k
      <4>1. j = i /\ j # k + 1 /\ (i # 1 => i - 1 \in 1 .. m /\ w[i - 1] = q[i - 1])
        BY <2>a, <2>b, <2>3, <3>1, <3>6, SMTT(60)
      <4>2. N[w[i]].prev = IF i = 1 THEN SENTINEL ELSE w[i - 1]
        BY <2>2, <3>5, <4>1, ZenonT(60)
      <4>3. CASE i = k - 1
        <5>1. N[w[i]].next = IF k = n THEN SENTINEL ELSE q[k + 1]
          BY <2>b, <2>2, <3>5, <4>1, <4>3, Zenon
        <5>2. i # m => i + 1 \in 1 .. m /\ w[i + 1] = q[k + 1]
          BY <2>a, <2>b, <2>3, <4>3, SMTT(30), SMTT(60)
        <5>3. i = m <=> k = n
          BY <2>a, <2>b, <4>3, SMTT(60)
        <5> QED
          BY <4>2, <5>1, <5>2, <5>3, Zenon
      <4>4. CASE i # k - 1
        <5>1. i + 1 \in 1 .. m /\ i # m /\ w[i + 1] = q[i + 1] /\ i # n
          BY <2>a, <2>b, <2>3, <3>6, <4>4
        <5> QED
          BY <2>2, <3>5, <4>1, <4>2, <4>4, <5>1, ZenonT(60)
      <4> QED
        BY <4>3, <4>4, Zenon
    <3>7. CASE ~(i < k)
      <4>1. j = i + 1 /\ j # k - 1 /\ (i # m => i + 1 \in 1 .. m /\ w[i + 1] = q[i + 2] /\ q[i + 2] = q[j + 1]) /\ (i = m <=> j = n)
        BY <2>a, <2>b, <2>3, <3>1, <3>7, SMTT(60)
      <4>2. N[w[i]].next = IF i = m THEN SENTINEL ELSE w[i + 1]
        BY <2>2, <3>5, <4>1
      <4>3. CASE i = k
        <5>1. N[w[i]].prev = IF i = 1 THEN SENTINEL ELSE q[i - 1]
          BY <2>b, <2>2, <3>5, <4>1, <4>3, Zenon
        <5>2. i # 1 => i - 1 \in 1 .. m /\ w[i - 1] = q[i - 1]
          BY <2>a, <2>b, <2>3, <4>3, SMTT(30), SMTT(60)
        <5> QED
          BY <4>2, <5>1, <5>2, Zenon
      <4>4. CASE i # k
        <5>1. i - 1 \in 1 .. m /\ i # 1 /\ w[i - 1] = q[i] /\ j # 1 /\ j - 1 = i /\ j # k + 1
          <6>1. PICK l : l = i - 1
            BY Zenon
          <6>2. l \in 1 .. m /\ i # 1 /\ ~(l < k) /\ l + 1 = i /\ j # 1 /\ j - 1 = i /\ j # k + 1
            BY <2>a, <2>b, <3>7, <4>1, <4>4, <6>1, SMTT(30), SMTT(60)
          <6>3. w[l] = q[i]
            BY <2>a, <2>3, <6>2, Zenon
          <6> QED
            BY <6>1, <6>2, <6>3, Zenon
        <5> QED
          BY <2>2, <3>5, <4>1, <4>2, <5>1, SMTT(60)
      <4> QED
        BY <4>3, <4>4, Zenon
    <3> QED
      BY <3>6, <3>7, Zenon
  <2> QED
    BY <2>a, <2>1, <2>3, <2>6, <2>7, <2>8 DEF Linked
<1> TAKE M, N, P, Q
<1> TAKE c \in Side \X P
<1> TAKE k \in 1 .. Len(Q[c])
<1> HAVE QueuesSound(M, Q, P) /\ SENTINEL \notin DOMAIN M /\ CancelNodes(M, Q[c][k], N)
<1>1. PICK R, q, x : R = [Q EXCEPT ![c] = Without(Q[c], k)] /\ q = Q[c] /\ x = q[k]
  BY Zenon
<1>2. /\ DOMAIN R = Side \X P /\ R = [d \in Side \X P |-> R[d]]
      /\ R[c] = Without(q, k) /\ \A d \in Side \X P : d # c => R[d] = Q[d]
  BY <1>1, Zenon DEF QueuesSound
<1>3. \A d \in Side \X P : /\ Linked(M, Q[d])
                           /\ \A i \in 1 .. Len(Q[d]) : Q[d][i] \in DOMAIN M /\ KeyOf(M[Q[d][i]].order) = d
  BY SMTT(30), SMTT(60) DEF QueuesSound, Linked
<1>4. /\ DOMAIN N = DOMAIN M \ {x}
      /\ \A h \in DOMAIN N : /\ N[h].order = M[h].order
                             /\ N[h].prev = IF h = M[x].next THEN M[x].prev ELSE M[h].prev
                             /\ N[h].next = IF h = M[x].prev THEN M[x].next ELSE M[h].next
  BY <1>1, Zenon DEF CancelNodes
<1>5. /\ x \in DOMAIN M /\ KeyOf(M[x].order) = c
      /\ M[x].prev # SENTINEL => KeyOf(M[M[x].prev].order) = c
      /\ M[x].next # SENTINEL => KeyOf(M[M[x].next].order) = c
  <2>2. k \in 1 .. Len(Q[c]) /\ Q[c][k] = x
    BY <1>1, Zenon
  <2>1. Beside(M, x, c)
    BY <2>2, Neighbours, Zenon
  <2>3. x \in DOMAIN M /\ KeyOf(M[x].order) = c
    BY <1>3, <2>2, Zenon
  <2> QED
    BY <2>1, <2>3, Zenon DEF Beside
<1>6. q \in Seq(DOMAIN M) /\ Len(q) \in Nat /\ k \in 1 .. Len(q) /\ \A i, j \in 1 .. Len(q) : q[i] = q[j] => i = j
  BY <1>1, <1>3 DEF Linked
<1>7. Len(R[c]) = Len(q) - 1 /\ \A i \in 1 .. Len(q) - 1 : R[c][i] = IF i < k THEN q[i] ELSE q[i + 1]
  BY <1>2, <1>6, WithoutIs
<1>8. Linked(N, R[c])
  <2>1. Linked(M, q)
    BY <1>1, <1>3, Zenon
  <2>2. /\ DOMAIN N = DOMAIN M \ {q[k]}
        /\ \A h \in DOMAIN N : /\ N[h].prev = IF h = M[q[k]].next THEN M[q[k]].prev ELSE M[h].prev
                               /\ N[h].next = IF h = M[q[k]].prev THEN M[q[k]].next ELSE M[h].next
    BY <1>1, <1>4, ZenonT(60)
  <2>3. Linked(N, Without(q, k))
    BY <1>6, <2>1, <2>2, <1>LinkRemove, Zenon
  <2> QED
    BY <1>2, <2>3, Zenon
<1>9. ASSUME NEW d \in Side \X P, d # c PROVE Linked(N, R[d])
  <2>1. Linked(M, Q[d]) /\ R[d] = Q[d]
    BY <1>2, <1>3, <1>9, Zenon
  <2>2. \A i \in 1 .. Len(Q[d]) : Q[d][i] \in DOMAIN M /\ Q[d][i] # x /\ Q[d][i] # M[x].prev /\ Q[d][i] # M[x].next
    BY <1>3, <1>5, <1>9
  <2>3. \A i \in 1 .. Len(Q[d]) : /\ Q[d][i] \in DOMAIN N /\ N[Q[d][i]].prev = M[Q[d][i]].prev
                                  /\ N[Q[d][i]].next = M[Q[d][i]].next
    BY <1>4, <2>2, ZenonT(60)
  <2> QED
    BY <2>1, <2>3, LinkKeep, Zenon
<1>10. ASSUME NEW d \in Side \X P, NEW i \in 1 .. Len(R[d]) PROVE KeyOf(N[R[d][i]].order) = d
  <2>0. Linked(N, R[d])
    BY <1>8, <1>9, Zenon
  <2>1. R[d][i] \in DOMAIN N
    BY <2>0 DEF Linked
  <2>2. CASE d # c
    <3>1. R[d] = Q[d]
      BY <1>2, <2>2, Zenon
    <3>2. KeyOf(M[R[d][i]].order) = d
      BY <1>3, <3>1, Zenon
    <3> QED
      BY <1>4, <2>1, <3>2, Zenon
  <2>3. CASE d = c
    <3>1. PICK j \in 1 .. Len(q) : R[c][i] = q[j]
      <4>1. i \in 1 .. Len(q) - 1
        BY <1>7, <2>3, Zenon
      <4>2. PICK j : j = IF i < k THEN i ELSE i + 1
        BY Zenon
      <4>3. j \in 1 .. Len(q)
        BY <1>6, <4>1, <4>2, SMTT(60)
      <4>4. R[c][i] = q[j]
        BY <1>7, <4>1, <4>2, Zenon
      <4> QED
        BY <4>3, <4>4, Zenon
    <3>2. KeyOf(M[q[j]].order) = c
      BY <1>1, <1>3, Zenon
    <3> QED
      BY <1>4, <2>1, <2>3, <3>1, <3>2, Zenon
  <2> QED
    BY <2>2, <2>3, Zenon
<1>11. ASSUME NEW h \in DOMAIN N
       PROVE  /\ KeyOf(N[h].order) \in Side \X P
              /\ \E i \in 1 .. Len(R[KeyOf(N[h].order)]) : R[KeyOf(N[h].order)][i] = h
  <2>1. h \in DOMAIN M /\ h # x /\ N[h].order = M[h].order
    BY <1>4, Zenon
  <2>2. PICK d \in Side \X P : d = KeyOf(M[h].order)
    BY <2>1, Zenon DEF QueuesSound
  <2>3. PICK i \in 1 .. Len(Q[d]) : Q[d][i] = h
    BY <2>1, <2>2, Zenon DEF QueuesSound
  <2>4. \E j \in 1 .. Len(R[d]) : R[d][j] = h
    <3>1. CASE d # c
      BY <1>2, <2>3, <3>1, Zenon
    <3>2. CASE d = c
      <4>1. i \in 1 .. Len(q) /\ q[i] = h /\ i # k
        BY <1>1, <2>1, <2>3, <3>2, Zenon
      <4>2. PICK j \in 1 .. Len(q) - 1 : i = IF j < k THEN j ELSE j + 1
        <5>1. CASE i < k
          BY <1>6, <4>1, <5>1, SMTT(60)
        <5>2. CASE ~(i < k)
          <6>1. PICK j : j = i - 1
            BY Zenon
          <6>2. i \in Int /\ k \in Int /\ Len(q) \in Int
            BY <1>6, <4>1
          <6>3. j \in 1 .. Len(q) - 1 /\ ~(j < k) /\ i = j + 1
            BY <4>1, <5>2, <6>1, <6>2, SMTT(60)
          <6> QED
            BY <6>3, Zenon
        <5> QED
          BY <5>1, <5>2, Zenon
      <4> QED
        BY <1>7, <3>2, <4>1, <4>2, Zenon
    <3> QED
      BY <3>1, <3>2, Zenon
  <2> QED
    BY <2>1, <2>2, <2>4, Zenon
<1>12. \A d \in Side \X P : Linked(N, R[d])
  BY <1>8, <1>9, Zenon
<1>13. QueuesSound(N, R, P)
  BY <1>2, <1>10, <1>11, <1>12, Zenon DEF QueuesSound
<1> QED
  BY <1>1, <1>13, Zenon

-----------------------------------------------------------------------------
\* The nodes of one level, and the quantity resting there.
At(M, c) == {h \in DOMAIN M : KeyOf(M[h].order) = c}

QtyAt(M, c) == SumFunction([h \in At(M, c) |-> M[h].order.quantity])

Counted(M) == IsFiniteSet(DOMAIN M) /\ \A h \in DOMAIN M : M[h].order.quantity \in Nat

\* The quantity at a level is a natural number.
LEMMA QtyNat ==
  ASSUME FiniteFacts
  PROVE  \A M, c :
           Counted(M) =>
           /\ IsFiniteSet(At(M, c)) /\ At(M, c) \subseteq DOMAIN M
           /\ [h \in At(M, c) |-> M[h].order.quantity] \in [At(M, c) -> Nat] /\ QtyAt(M, c) \in Nat
<1>SumNat. ASSUME NEW S, IsFiniteSet(S), NEW f \in [S -> Nat] PROVE SumFunction(f) \in Nat
  BY <1>SumNat, SumBars, BarsFinite, CardinalityFin
<1> TAKE M, c
<1> HAVE Counted(M)
<1>1. At(M, c) \subseteq DOMAIN M
  BY Zenon DEF At
<1>2. IsFiniteSet(At(M, c))
  BY <1>1, SubsetFin, Zenon DEF Counted
<1>3. [h \in At(M, c) |-> M[h].order.quantity] \in [At(M, c) -> Nat]
  BY <1>1, Zenon DEF Counted
<1> QED
  BY <1>1, <1>2, <1>3, <1>SumNat, Zenon DEF QtyAt

\* A level whose nodes and quantities stay keeps its quantity.
LEMMA QtySame ==
  ASSUME NEW M, NEW N, NEW c, At(N, c) = At(M, c), \A h \in At(M, c) : N[h].order = M[h].order
  PROVE  QtyAt(N, c) = QtyAt(M, c)
<1>1. [h \in At(N, c) |-> N[h].order.quantity] = [h \in At(M, c) |-> M[h].order.quantity]
  BY Zenon
<1> QED
  BY <1>1, Zenon DEF QtyAt

\* g is f with one point more.
Grows(S, x, f, g) ==
  IsFiniteSet(S) /\ x \notin S /\ f \in [S -> Nat] /\ g \in [S \cup {x} -> Nat] /\ \A y \in S : g[y] = f[y]

\* One node more adds its quantity.
LEMMA QtyMore ==
  ASSUME FiniteFacts
  PROVE  \A M, N, c, x :
           Counted(M) /\ Counted(N) /\ x \notin At(M, c) /\ x \in DOMAIN N /\
           At(N, c) = At(M, c) \cup {x} /\ (\A h \in At(M, c) : N[h].order = M[h].order) =>
           QtyAt(N, c) = N[x].order.quantity + QtyAt(M, c)
<1>SumPut. ASSUME NEW S, NEW x, NEW f, NEW g, Grows(S, x, f, g)
           PROVE  SumFunction(g) = g[x] + SumFunction(f)
  <2> USE <1>SumPut DEF Grows
  <2> DEFINE T == S \cup {x}
  <2>1. IsFiniteSet(T) /\ T \ {x} = S
    BY AddFin, Zenon
  <2>2. Bars(g, S) = Bars(f, S)
    BY Zenon DEF Bars
  <2>3. IsFiniteSet(Bars(f, S))
    BY BarsFinite, Zenon
  <2> HIDE DEF T
  <2>4. Cardinality(Bars(g, T)) = g[x] + Cardinality(Bars(g, T \ {x}))
    <3>1. T \in SUBSET T /\ x \in T /\ g \in [T -> Nat]
      BY Zenon DEF T
    <3> QED
      BY <2>1, <2>2, <2>3, <3>1, BarsAdd
  <2>5. SumFunction(g) = Cardinality(Bars(g, T))
    <3>1. g \in [T -> Nat]
      BY Zenon DEF T
    <3> QED
      BY <2>1, <3>1, SumBars, Zenon
  <2> QED
    BY <2>1, <2>2, <2>4, <2>5, SumBars, Zenon
<1> TAKE M, N, c, x
<1> HAVE Counted(M) /\ Counted(N) /\ x \notin At(M, c) /\ x \in DOMAIN N /\
         At(N, c) = At(M, c) \cup {x} /\ (\A h \in At(M, c) : N[h].order = M[h].order)
<1>1. PICK S, f, g : /\ S = At(M, c) /\ f = [h \in At(M, c) |-> M[h].order.quantity]
                     /\ g = [h \in At(N, c) |-> N[h].order.quantity]
  BY Zenon
<1>2. IsFiniteSet(S) /\ f \in [S -> Nat] /\ g \in [S \cup {x} -> Nat]
  <2>1. IsFiniteSet(S) /\ f \in [S -> Nat]
    BY <1>1, QtyNat, Zenon
  <2>2. g \in [At(N, c) -> Nat]
    BY <1>1, QtyNat, Zenon
  <2> QED
    BY <1>1, <2>1, <2>2, Zenon
<1>3. \A y \in S : g[y] = f[y]
  <2>1. \A y \in At(M, c) : y \in At(N, c)
    BY Zenon
  <2> QED
    BY <1>1, <2>1, Zenon
<1>4. g[x] = N[x].order.quantity
  BY <1>1, Zenon
<1>5. x \notin S
  BY <1>1, Zenon
<1>6. SumFunction(g) = g[x] + SumFunction(f)
  <2>1. Grows(S, x, f, g)
    BY <1>2, <1>3, <1>5, Zenon DEF Grows
  <2> QED
    BY <2>1, <1>SumPut
<1>7. QtyAt(N, c) = SumFunction(g) /\ QtyAt(M, c) = SumFunction(f)
  BY <1>1, Zenon DEF QtyAt
<1> QED
  BY <1>4, <1>6, <1>7, Zenon


\* The quantity at c becomes n, and that of no other level changes.
QtyMoves(M, N, c, n) == /\ Counted(N) /\ QtyAt(N, c) = n
                        /\ \A d : d # c => QtyAt(N, d) = QtyAt(M, d)

\* A node inserted adds its quantity to its level's and leaves the others.
LEMMA QtyInsert ==
  ASSUME FiniteFacts, NEW M, NEW N, Counted(M), NEW o, o.quantity \in Nat, NEW x, x \notin DOMAIN M, NEW tail, NEW c, c = KeyOf(o),
         InsertNodes(M, x, o, tail, N)
  PROVE  QtyMoves(M, N, c, QtyAt(M, c) + o.quantity)
<1>1. /\ DOMAIN N = DOMAIN M \cup {x} /\ N[x].order = o
      /\ \A h \in DOMAIN M : N[h].order = M[h].order
  BY Zenon DEF InsertNodes
<1>2. Counted(N)
  <2>1. IsFiniteSet(DOMAIN N)
    BY <1>1, AddFin, Zenon DEF Counted
  <2> QED
    BY <1>1, <2>1, Zenon DEF Counted
<1>3. At(N, c) = At(M, c) \cup {x} /\ x \notin At(M, c) /\ \A h \in At(M, c) : h \in DOMAIN M
  BY <1>1, Zenon DEF At
<1>4. QtyAt(N, c) = N[x].order.quantity + QtyAt(M, c)
  <2>1. \A h \in At(M, c) : N[h].order = M[h].order
    BY <1>1, <1>3, Zenon
  <2>2. x \in DOMAIN N
    BY <1>1, Zenon
  <2> QED
    BY <1>2, <1>3, <2>1, <2>2, QtyMore, SMTT(60)
<1>5. ASSUME NEW d, d # c PROVE QtyAt(N, d) = QtyAt(M, d)
  <2>1. At(N, d) = At(M, d) /\ \A h \in At(M, d) : N[h].order = M[h].order
    BY <1>1, <1>5, Zenon DEF At
  <2> QED
    BY <2>1, QtySame, ZenonT(60)
<1>6. QtyAt(M, c) \in Nat
  BY QtyNat, Zenon
<1>7. QtyAt(N, c) = QtyAt(M, c) + o.quantity
  BY <1>1, <1>4, <1>6
<1> QED
  BY <1>2, <1>5, <1>7, Zenon DEF QtyMoves

\* A node cancelled takes its quantity from its level's and leaves the others.
LEMMA QtyCancel ==
  ASSUME FiniteFacts, NEW M, NEW N, Counted(M), NEW x \in DOMAIN M, NEW c, c = KeyOf(M[x].order), CancelNodes(M, x, N)
  PROVE  QtyMoves(M, N, c, QtyAt(M, c) - M[x].order.quantity)
<1>1. /\ DOMAIN N = DOMAIN M \ {x} /\ x \notin DOMAIN N
      /\ \A h \in DOMAIN N : h \in DOMAIN M /\ N[h].order = M[h].order
  BY Zenon DEF CancelNodes
<1>2. Counted(N)
  <2>1. IsFiniteSet(DOMAIN N)
    BY <1>1, SubsetFin, Zenon DEF Counted
  <2> QED
    BY <1>1, <2>1, Zenon DEF Counted
<1>3. At(M, c) = At(N, c) \cup {x} /\ x \notin At(N, c) /\ \A h \in At(N, c) : h \in DOMAIN N
  BY <1>1, Zenon DEF At
<1>4. QtyAt(M, c) = M[x].order.quantity + QtyAt(N, c)
  <2>1. \A h \in At(N, c) : M[h].order = N[h].order
    BY <1>1, <1>3, Zenon
  <2> QED
    BY <1>2, <1>3, <2>1, QtyMore, SMTT(60)
<1>5. ASSUME NEW d, d # c PROVE QtyAt(N, d) = QtyAt(M, d)
  <2>1. At(N, d) = At(M, d) /\ \A h \in At(M, d) : N[h].order = M[h].order
    BY <1>1, <1>5, SMTT(60) DEF At
  <2> QED
    BY <2>1, QtySame, ZenonT(60)
<1>6. QtyAt(N, c) \in Nat /\ M[x].order.quantity \in Nat
  BY <1>2, QtyNat, Zenon DEF Counted
<1>7. QtyAt(N, c) = QtyAt(M, c) - M[x].order.quantity
  BY <1>4, <1>6
<1> QED
  BY <1>2, <1>5, <1>7, ZenonT(60) DEF QtyMoves

\* The nodes after reduce_top: one order is smaller.
ReduceNodes(M, x, o, N) ==
  /\ DOMAIN N = DOMAIN M
  /\ N[x].order = o /\ N[x].prev = M[x].prev /\ N[x].next = M[x].next
  /\ \A h \in DOMAIN M \ {x} : N[h] = M[h]

\* A node reduced takes the difference from its level's quantity and leaves the
\* others.
LEMMA QtyReduce ==
  ASSUME FiniteFacts, NEW M, NEW N, Counted(M), NEW x \in DOMAIN M, NEW c, c = KeyOf(M[x].order), NEW o, o.quantity \in Nat,
         KeyOf(o) = c, ReduceNodes(M, x, o, N)
  PROVE  QtyMoves(M, N, c, QtyAt(M, c) - (M[x].order.quantity - o.quantity))
<1>1. /\ DOMAIN N = DOMAIN M /\ N[x].order = o
      /\ \A h \in DOMAIN M : h # x => N[h] = M[h]
  BY Zenon DEF ReduceNodes
<1>2. Counted(N)
  BY <1>1, Zenon DEF Counted
<1>3. PICK K : K = [h \in DOMAIN M \ {x} |-> M[h]]
  BY Zenon
<1>4. DOMAIN K = DOMAIN M \ {x} /\ x \notin DOMAIN K /\ \A h \in DOMAIN K : h \in DOMAIN M /\ h # x /\ K[h] = M[h] /\ K[h] = N[h]
  BY <1>1, <1>3, Zenon
<1>5. Counted(K)
  <2>1. IsFiniteSet(DOMAIN K)
    BY <1>4, SubsetFin, Zenon DEF Counted
  <2> QED
    BY <1>4, <2>1, Zenon DEF Counted
<1>6. /\ At(M, c) = At(K, c) \cup {x} /\ At(N, c) = At(K, c) \cup {x} /\ x \notin At(K, c)
      /\ \A h \in At(K, c) : M[h].order = K[h].order /\ N[h].order = K[h].order
  BY <1>1, <1>4, Zenon DEF At
<1>7. QtyAt(M, c) = M[x].order.quantity + QtyAt(K, c)
  BY <1>5, <1>6, QtyMore, SMTT(30), SMTT(60)
<1>8. QtyAt(N, c) = N[x].order.quantity + QtyAt(K, c)
  <2>1. x \in DOMAIN N
    BY <1>1, Zenon
  <2> QED
    BY <1>2, <1>5, <1>6, <2>1, QtyMore, SMTT(60)
<1>9. ASSUME NEW d, d # c PROVE QtyAt(N, d) = QtyAt(M, d)
  <2>1. At(N, d) = At(M, d) /\ \A h \in At(M, d) : N[h].order = M[h].order
    BY <1>1, <1>9, Zenon DEF At
  <2> QED
    BY <2>1, QtySame, Zenon
<1>10. QtyAt(K, c) \in Nat /\ M[x].order.quantity \in Nat
  BY <1>5, QtyNat, Zenon DEF Counted
<1>11. QtyAt(N, c) = QtyAt(M, c) - (M[x].order.quantity - o.quantity)
  BY <1>1, <1>7, <1>8, <1>10
<1> QED
  BY <1>2, <1>9, <1>11, ZenonT(60) DEF QtyMoves

\* The handles of a queue are the nodes of its level.
LEMMA QueueAt ==
  ASSUME NEW M, NEW Q, NEW P, QueuesSound(M, Q, P), NEW c \in Side \X P
  PROVE  /\ Linked(M, Q[c]) /\ Q[c] \in Seq(DOMAIN M)
         /\ \A h : h \in At(M, c) <=> \E i \in 1 .. Len(Q[c]) : Q[c][i] = h
<1>1. Linked(M, Q[c]) /\ \A i \in 1 .. Len(Q[c]) : KeyOf(M[Q[c][i]].order) = c
  BY Zenon DEF QueuesSound
<1>2. Q[c] \in Seq(DOMAIN M)
  BY <1>1, Zenon DEF Linked
<1>3. \A i \in 1 .. Len(Q[c]) : Q[c][i] \in At(M, c)
  BY <1>1, <1>2 DEF At
<1>4. ASSUME NEW h \in At(M, c) PROVE \E i \in 1 .. Len(Q[c]) : Q[c][i] = h
  BY Zenon DEF At, QueuesSound
<1> QED
  BY <1>1, <1>2, <1>3, <1>4, Zenon

\* What Min is.
LEMMA MinIs ==
  ASSUME FiniteFacts, NEW S \in SUBSET Nat, S # {}
  PROVE  Min(S) \in S /\ \A y \in S : Min(S) <= y
<1>1. \E x \in S : \A y \in S : x <= y
  BY Least, Zenon
<1> QED
  BY <1>1, Zenon DEF Min

\* The handles walk_level meets are those of the queue.
Describes(level, q) == level.len = Len(q) /\ (Len(q) # 0 => level.head = q[1])

Walks(b, level, q) == WalkLevel(b, level) = q

\* A walk from a level's head along the links, as long as the level says, is
\* the queue.
LEMMA WalkIs ==
  ASSUME FiniteFacts, NEW V, NEW cap, NEW b, ArenaSound(b.arena, V, cap), NEW q, Linked(NodesOf(b.arena), q),
         NEW level, Describes(level, q)
  PROVE  Walks(b, level, q)
<1>12. PICK M : M = NodesOf(b.arena)
  BY Zenon
<1>13. Linked(M, q) /\ level.len = Len(q) /\ (Len(q) # 0 => level.head = q[1])
  BY <1>12, Zenon DEF Describes
<1>1. PICK a, n : a = b.arena /\ n = Len(q)
  BY Zenon
<1>2. n \in Nat /\ q = [k \in 1 .. n |-> q[k]] /\ \A k \in 1 .. n : q[k] \in DOMAIN M
  BY <1>1, <1>13 DEF Linked
<1>3. ASSUME NEW k \in 1 .. n
      PROVE  ArenaHas(a, q[k]) /\ ArenaGet(a, q[k]).next = IF k = n THEN SENTINEL ELSE q[k + 1]
  <2>1. q[k] \in LiveHandles(a) /\ M[q[k]] = ArenaGet(a, q[k])
    BY <1>1, <1>2, <1>12, Zenon DEF NodesOf
  <2>2. ArenaHas(a, q[k])
    BY <1>1, <2>1, LiveHas, Zenon
  <2>3. M[q[k]].next = IF k = n THEN SENTINEL ELSE q[k + 1]
    BY <1>1, <1>13, Zenon DEF Linked
  <2> QED
    BY <2>1, <2>2, <2>3, Zenon
<1> DEFINE F(f) == [k \in 1 .. level.len |->
                      IF k = 1 THEN level.head
                      ELSE IF ArenaHas(b.arena, f[k - 1]) THEN ArenaGet(b.arena, f[k - 1]).next ELSE SENTINEL]
           w == CHOOSE f : f = F(f)
<1>4. WalkLevel(b, level) = [k \in 1 .. level.len |-> w[k]]
  BY Zenon DEF WalkLevel
<1>5. q = F(q)
  <2>1. ASSUME NEW k \in 1 .. n PROVE q[k] = F(q)[k]
    <3>1. CASE k = 1
      BY <1>1, <1>2, <1>13, <3>1
    <3>2. CASE k # 1
      <4>1. PICK j \in 1 .. n : j = k - 1 /\ j # n /\ j + 1 = k
        BY <1>2, <3>2
      <4>2. ArenaHas(a, q[j]) /\ ArenaGet(a, q[j]).next = q[k]
        BY <1>3, <4>1, Zenon
      <4> QED
        BY <1>1, <1>13, <3>2, <4>1, <4>2, Zenon
    <3> QED
      BY <3>1, <3>2, Zenon
  <2>2. F(q) = [k \in 1 .. n |-> F(q)[k]]
    BY <1>1, <1>13, Zenon
  <2> HIDE DEF F
  <2> QED
    BY <1>2, <2>1, <2>2, Zenon
<1>6. w = F(w)
  BY <1>5, Zenon
<1>7. PICK g : g = w
  BY Zenon
<1>8. /\ g = [k \in 1 .. n |-> g[k]]
      /\ \A k \in 1 .. n : g[k] = IF k = 1 THEN level.head
                                  ELSE IF ArenaHas(a, g[k - 1]) THEN ArenaGet(a, g[k - 1]).next ELSE SENTINEL
  <2>1. g = F(g)
    BY <1>6, <1>7, Zenon
  <2> QED
    BY <1>1, <1>13, <2>1, Zenon
<1> HIDE DEF w, F
<1>9. \A k \in 1 .. n : g[k] = q[k]
  <2> DEFINE Bad == {k \in 1 .. n : g[k] # q[k]}
  <2>1. SUFFICES ASSUME Bad # {} PROVE FALSE
    BY Zenon
  <2>2. Bad \in SUBSET Nat
    BY <1>2
  <2>3. PICK k \in Bad : \A j \in Bad : k <= j
    <3> HIDE DEF Bad
    <3> QED
      BY <2>1, <2>2, Least, Zenon
  <2>4. k # 1
    <3>1. k \in 1 .. n /\ g[k] # q[k]
      BY <2>3, Zenon
    <3>2. n # 0
      BY <1>2, <3>1
    <3>3. level.head = q[1]
      BY <1>1, <1>13, <3>2, Zenon
    <3>4. k = 1 => g[k] = level.head
      BY <1>8, <3>1, Zenon
    <3> QED
      BY <3>1, <3>3, <3>4, Zenon
  <2>5. PICK j \in 1 .. n : j = k - 1 /\ j # n /\ j + 1 = k
    BY <1>2, <2>3, <2>4
  <2>6. g[j] = q[j]
    BY <1>2, <2>3, <2>5
  <2>7. ArenaHas(a, q[j]) /\ ArenaGet(a, q[j]).next = q[k]
    BY <1>3, <2>5, Zenon
  <2> QED
    BY <1>8, <2>3, <2>4, <2>5, <2>6, <2>7, Zenon
<1>10. g = q
  BY <1>2, <1>8, <1>9, Zenon
<1>11. WalkLevel(b, level) = [k \in 1 .. n |-> g[k]]
  BY <1>1, <1>4, <1>7, <1>13, Zenon
<1> QED
  BY <1>8, <1>10, <1>11, Zenon DEF Walks

\* The free list is empty exactly when every slot is taken.
LEMMA FullIs ==
  ASSUME FiniteFacts, NEW V, NEW cap, NEW a, ArenaSound(a, V, cap)
  PROVE  /\ IsFiniteSet(LiveHandles(a)) /\ cap \in Nat /\ Cardinality(DOMAIN a.slots) = cap
         /\ ArenaFull(a) => Cardinality(LiveHandles(a)) = cap
         /\ ~ArenaFull(a) => Cardinality(LiveHandles(a)) < cap
<1>1. PICK S, H : S = a.slots /\ H = LiveHandles(a)
  BY Zenon
<1>2. cap \in Nat /\ U32Max \in Nat /\ cap < U32Max /\ S \in [0 .. cap - 1 -> Slot(V)]
  BY <1>1 DEF ArenaSound, SlotsSound
<1>3. PICK n \in Nat : \E f \in [1 .. n -> 0 .. cap - 1] : FreeStack(S, a.free_head, cap, n, f)
  BY <1>1, Zenon DEF ArenaSound, SlotsSound
<1>4. PICK f \in [1 .. n -> 0 .. cap - 1] : FreeStack(S, a.free_head, cap, n, f)
  BY <1>3, Zenon
<1>5. PICK T : T = {i \in 0 .. cap - 1 : S[i].occupied}
  BY Zenon
<1>6. IsFiniteSet(0 .. cap - 1) /\ Cardinality(0 .. cap - 1) = cap
  <2>1. 0 \in Int /\ cap - 1 \in Int
    BY <1>2
  <2>2. IsFiniteSet(0 .. cap - 1) /\ Cardinality(0 .. cap - 1) = IF 0 > cap - 1 THEN 0 ELSE (cap - 1) - 0 + 1
    BY <2>1, IntervalFin, Zenon
  <2> QED
    BY <1>2, <2>2
<1>7. IsFiniteSet(T) /\ T \subseteq 0 .. cap - 1
  BY <1>5, <1>6, SubsetFin, Zenon
<1>8. IsFiniteSet(H) /\ Cardinality(H) = Cardinality(T)
  <2>1. PICK m : m = [i \in T |-> ArenaIdx(i, S[i].generation)]
    BY Zenon
  <2>2. H = {ArenaIdx(i, S[i].generation) : i \in T}
    BY <1>1, <1>2, <1>5, Zenon DEF LiveHandles
  <2>3. m \in [T -> H] /\ \A i \in T : m[i] = ArenaIdx(i, S[i].generation)
    BY <2>1, <2>2, Zenon
  <2>4. \A i, j \in T : m[i] = m[j] => i = j
    BY <2>3 DEF ArenaIdx
  <2>5. \A h \in H : \E i \in T : m[i] = h
    BY <2>2, <2>3, Zenon
  <2>6. m \in Bijection(T, H)
    BY <2>3, <2>4, <2>5, Zenon DEF Bijection, Injection, Surjection, IsInjective
  <2> QED
    BY <1>7, <2>6, BijectionFin, Zenon DEF ExistsBijection
<1>9. ASSUME ArenaFull(a) PROVE Cardinality(H) = cap
  <2>1. n = 0
    <3>1. a.free_head = U32Max /\ a.free_head = IF n = 0 THEN U32Max ELSE f[n]
      BY <1>4, <1>9, Zenon DEF ArenaFull, FreeStack
    <3>2. n # 0 => f[n] \in 0 .. cap - 1
      OBVIOUS
    <3> QED
      BY <1>2, <3>1, <3>2
  <2>2. 1 .. n = {}
    BY <2>1
  <2>3. \A i \in 0 .. cap - 1 : S[i].occupied
    BY <1>4, <2>2, Zenon DEF FreeStack
  <2>4. T = 0 .. cap - 1
    BY <1>5, <2>3, Zenon
  <2> QED
    BY <1>6, <1>8, <2>4, Zenon
<1>10. ASSUME ~ArenaFull(a) PROVE Cardinality(H) < cap
  <2>1. n # 0
    BY <1>4, <1>10, Zenon DEF ArenaFull, FreeStack
  <2>2. n \in 1 .. n
    BY <2>1
  <2>3. f[n] \in 0 .. cap - 1 /\ ~S[f[n]].occupied
    BY <1>4, <2>2, Zenon DEF FreeStack
  <2>4. T # 0 .. cap - 1
    BY <1>5, <2>3, Zenon
  <2>5. Cardinality(T) < Cardinality(0 .. cap - 1)
    <3>1. Cardinality(T) <= Cardinality(0 .. cap - 1) /\ (Cardinality(T) = Cardinality(0 .. cap - 1) => T = 0 .. cap - 1)
      BY <1>6, <1>7, SubsetFin, Zenon
    <3>2. Cardinality(T) \in Nat
      BY <1>7, CardinalityFin, Zenon
    <3> QED
      BY <1>2, <1>6, <2>4, <3>1, <3>2
  <2> QED
    BY <1>6, <1>8, <2>5, Zenon
<1>11. DOMAIN a.slots = 0 .. cap - 1
  BY <1>1, <1>2, Zenon
<1> QED
  BY <1>1, <1>2, <1>6, <1>8, <1>9, <1>10, <1>11, Zenon

\* The orders of a queue of handles, and those of every queue.
OrdersOf(M, q) == [k \in 1 .. Len(q) |-> M[q[k]].order]

QueuesOf(M, Q, P) == [s \in Side |-> [p \in P |-> OrdersOf(M, Q[<<s, p>>])]]

\* The orders of every queue but c's stay.
OthersStay(M, Q, N, R, P, c) == \A d \in Side \X P : d # c => OrdersOf(N, R[d]) = OrdersOf(M, Q[d])

\* The orders of c's queue become w and no other queue changes.
Becomes(M, Q, N, R, P, c, w) == OthersStay(M, Q, N, R, P, c) /\ OrdersOf(N, R[c]) = w

\* A change of one queue of handles is a change of one queue of orders.
LEMMA QueuesChange ==
  ASSUME NEW M, NEW N, NEW Q, NEW R, NEW P, NEW s \in Side, NEW p \in P, NEW w, Becomes(M, Q, N, R, P, <<s, p>>, w)
  PROVE  QueuesOf(N, R, P) = [QueuesOf(M, Q, P) EXCEPT ![s][p] = w]
<1>0. OthersStay(M, Q, N, R, P, <<s, p>>)
  BY Zenon DEF Becomes
<1>1. PICK F, G : F = QueuesOf(M, Q, P) /\ G = QueuesOf(N, R, P) /\ w = OrdersOf(N, R[<<s, p>>])
  BY Zenon DEF Becomes
<1>2. F = [t \in Side |-> F[t]] /\ \A t \in Side : F[t] = [r \in P |-> OrdersOf(M, Q[<<t, r>>])]
  BY <1>1, Zenon DEF QueuesOf
<1>3. G = [t \in Side |-> G[t]] /\ \A t \in Side : G[t] = [r \in P |-> OrdersOf(N, R[<<t, r>>])]
  BY <1>1, Zenon DEF QueuesOf
<1>4. PICK fs : fs = [F[s] EXCEPT ![p] = w]
  BY Zenon
<1>5. ASSUME NEW t \in Side, t # s PROVE G[t] = F[t]
  <2>1. \A r \in P : OrdersOf(N, R[<<t, r>>]) = OrdersOf(M, Q[<<t, r>>])
    <3> TAKE r \in P
    <3>1. <<t, r>> \in Side \X P /\ <<t, r>> # <<s, p>>
      BY <1>5, Zenon
    <3> QED
      BY <1>0, <3>1, Zenon DEF OthersStay
  <2>2. G[t] = [r \in P |-> OrdersOf(N, R[<<t, r>>])] /\ F[t] = [r \in P |-> OrdersOf(M, Q[<<t, r>>])]
    BY <1>2, <1>3, Zenon
  <2> QED
    BY <2>1, <2>2, Zenon
<1>6. G[s] = fs
  <2>1. \A r \in P : r # p => OrdersOf(N, R[<<s, r>>]) = OrdersOf(M, Q[<<s, r>>])
    <3> TAKE r \in P
    <3> HAVE r # p
    <3>1. <<s, r>> \in Side \X P /\ <<s, r>> # <<s, p>>
      BY Zenon
    <3> QED
      BY <1>0, <3>1, Zenon DEF OthersStay
  <2>2. G[s] = [r \in P |-> OrdersOf(N, R[<<s, r>>])] /\ F[s] = [r \in P |-> OrdersOf(M, Q[<<s, r>>])]
    BY <1>2, <1>3, Zenon
  <2>3. w = OrdersOf(N, R[<<s, p>>])
    BY <1>1, Zenon
  <2>4. fs = [r \in P |-> IF r = p THEN w ELSE OrdersOf(M, Q[<<s, r>>])]
    <3>1. PICK y : y = [r \in P |-> OrdersOf(M, Q[<<s, r>>])]
      BY Zenon
    <3>2. fs = [y EXCEPT ![p] = w] /\ \A r \in P : y[r] = OrdersOf(M, Q[<<s, r>>])
      BY <1>4, <2>2, <3>1, Zenon
    <3> QED
      BY <3>1, <3>2, Zenon
  <2>5. \A r \in P : OrdersOf(N, R[<<s, r>>]) = IF r = p THEN w ELSE OrdersOf(M, Q[<<s, r>>])
    BY <2>1, <2>3, Zenon
  <2> QED
    BY <2>2, <2>4, <2>5, Zenon
<1>7. G = [F EXCEPT ![s] = fs]
  <2>1. \A t \in Side : G[t] = IF t = s THEN fs ELSE F[t]
    BY <1>5, <1>6, Zenon
  <2> QED
    BY <1>2, <1>3, <2>1, Zenon
<1> QED
  BY <1>1, <1>4, <1>7, Zenon

\* insert puts its order at the end of its queue.
LEMMA OrdersInsert ==
  ASSUME NEW P, NEW M, NEW N, NEW Q, QueuesSound(M, Q, P), NEW x, x \notin DOMAIN M, NEW o, NEW tail,
         InsertNodes(M, x, o, tail, N), NEW c \in Side \X P
  PROVE  Becomes(M, Q, N, [Q EXCEPT ![c] = Append(Q[c], x)], P, c, Append(OrdersOf(M, Q[c]), o))
<1>1. DOMAIN Q = Side \X P
  BY Zenon DEF QueuesSound
<1>0. PICK R : R = [Q EXCEPT ![c] = Append(Q[c], x)]
  BY Zenon
<1>2. R[c] = Append(Q[c], x) /\ \A d \in Side \X P : d # c => R[d] = Q[d]
  BY <1>0, <1>1, Zenon
<1>3. N[x].order = o /\ \A h \in DOMAIN M : N[h].order = M[h].order
  BY Zenon DEF InsertNodes
<1>4. \A d \in Side \X P : Q[d] \in Seq(DOMAIN M)
  BY QueueAt, Zenon
<1>5. ASSUME NEW d \in Side \X P PROVE OrdersOf(N, Q[d]) = OrdersOf(M, Q[d])
  <2>1. \A k \in 1 .. Len(Q[d]) : N[Q[d][k]].order = M[Q[d][k]].order
    BY <1>3, <1>4
  <2> QED
    BY <2>1, Zenon DEF OrdersOf
<1>6. OthersStay(M, Q, N, R, P, c)
  BY <1>2, <1>5, Zenon DEF OthersStay
<1>7. PICK q, r, w : q = Q[c] /\ r = Append(q, x) /\ w = OrdersOf(M, q)
  BY Zenon
<1>8. PICK S : S = {M[h].order : h \in DOMAIN M}
  BY Zenon
<1>9. q \in Seq(DOMAIN M)
  BY <1>4, <1>7, Zenon
<1>10. w \in Seq(S) /\ Len(w) = Len(q) /\ \A k \in 1 .. Len(q) : w[k] = M[q[k]].order
  BY <1>7, <1>8, <1>9 DEF OrdersOf
<1>11. OrdersOf(N, r) = [k \in 1 .. Len(q) + 1 |-> IF k = Len(q) + 1 THEN o ELSE w[k]]
  <2>1. Len(r) = Len(q) + 1 /\ r[Len(q) + 1] = x /\ \A k \in 1 .. Len(q) : r[k] = q[k] /\ q[k] \in DOMAIN M
    BY <1>7, <1>9
  <2>2. OrdersOf(N, r) = [k \in 1 .. Len(q) + 1 |-> N[r[k]].order]
    BY <2>1, Zenon DEF OrdersOf
  <2>3. \A k \in 1 .. Len(q) + 1 : k \in 1 .. Len(q) \/ k = Len(q) + 1
    BY <1>9
  <2> QED
    BY <1>3, <1>10, <2>1, <2>2, <2>3
<1>12. Append(w, o) = [k \in 1 .. Len(q) + 1 |-> IF k = Len(q) + 1 THEN o ELSE w[k]]
  <2>1. w \in Seq(S) /\ Len(w) = Len(q)
    BY <1>10, Zenon
  <2>2. PICK v, n : v = Append(w, o) /\ n = Len(w)
    BY Zenon
  <2>3. v \in Seq(S \cup {o}) /\ Len(v) = n + 1 /\ n \in Nat /\ v[n + 1] = o /\ \A k \in 1 .. n : v[k] = w[k]
    BY <2>1, <2>2, AppendIs
  <2>4. v = [k \in 1 .. n + 1 |-> v[k]]
    BY <2>3
  <2>5. \A k \in 1 .. n + 1 : v[k] = IF k = n + 1 THEN o ELSE w[k]
    BY <2>3
  <2>6. v = [k \in 1 .. n + 1 |-> IF k = n + 1 THEN o ELSE w[k]]
    BY <2>4, <2>5, Zenon
  <2> QED
    BY <2>1, <2>2, <2>6, Zenon
<1>13. Becomes(M, Q, N, R, P, c, Append(OrdersOf(M, Q[c]), o))
  BY <1>2, <1>6, <1>7, <1>11, <1>12, Zenon DEF Becomes
<1> QED
  BY <1>0, <1>13, Zenon

\* cancel takes its order out and keeps the rest in place.
LEMMA OrdersCancel ==
  ASSUME NEW P, NEW M, NEW N, NEW Q, QueuesSound(M, Q, P), NEW c \in Side \X P, NEW k \in 1 .. Len(Q[c]),
         CancelNodes(M, Q[c][k], N)
  PROVE  Becomes(M, Q, N, [Q EXCEPT ![c] = Without(Q[c], k)], P, c, Without(OrdersOf(M, Q[c]), k))
<1>1. DOMAIN Q = Side \X P
  BY Zenon DEF QueuesSound
<1>0. PICK R : R = [Q EXCEPT ![c] = Without(Q[c], k)]
  BY Zenon
<1>2. R[c] = Without(Q[c], k) /\ \A d \in Side \X P : d # c => R[d] = Q[d]
  BY <1>0, <1>1, Zenon
<1>3. \A h \in DOMAIN M : h # Q[c][k] => N[h].order = M[h].order
  BY Zenon DEF CancelNodes
<1>4. \A d \in Side \X P : Q[d] \in Seq(DOMAIN M) /\ Linked(M, Q[d])
  BY QueueAt, Zenon
<1>5. ASSUME NEW d \in Side \X P, d # c PROVE OrdersOf(N, Q[d]) = OrdersOf(M, Q[d])
  <2>1. ASSUME NEW j \in 1 .. Len(Q[d]) PROVE Q[d][j] \in DOMAIN M /\ Q[d][j] # Q[c][k]
    <3>1. KeyOf(M[Q[d][j]].order) = d /\ KeyOf(M[Q[c][k]].order) = c
      BY Zenon DEF QueuesSound
    <3> QED
      BY <1>4, <1>5, <3>1
  <2> QED
    BY <1>3, <2>1, Zenon DEF OrdersOf
<1>6. OthersStay(M, Q, N, R, P, c)
  BY <1>2, <1>5, Zenon DEF OthersStay
<1>7. PICK q, r, w : q = Q[c] /\ r = Without(q, k) /\ w = OrdersOf(M, q)
  BY Zenon
<1>8. q \in Seq(DOMAIN M) /\ k \in 1 .. Len(q) /\ Len(q) \in Nat /\ \A i, j \in 1 .. Len(q) : q[i] = q[j] => i = j
  BY <1>4, <1>7 DEF Linked
<1>9. Len(w) = Len(q) /\ \A j \in 1 .. Len(q) : w[j] = M[q[j]].order
  BY <1>7, <1>8 DEF OrdersOf
<1>10. Len(r) = Len(q) - 1 /\ \A j \in 1 .. Len(q) - 1 : r[j] = IF j < k THEN q[j] ELSE q[j + 1]
  <2>1. /\ Len(Without(q, k)) = Len(q) - 1
        /\ \A j \in 1 .. Len(q) - 1 : Without(q, k)[j] = IF j < k THEN q[j] ELSE q[j + 1]
    BY <1>8, WithoutIs, ZenonT(60)
  <2>2. r = Without(q, k)
    BY <1>7, Zenon
  <2> QED
    BY <2>1, <2>2, Zenon
<1>11. ASSUME NEW j \in 1 .. Len(q) - 1 PROVE N[r[j]].order = IF j < k THEN w[j] ELSE w[j + 1]
  <2>1. j \in 1 .. Len(q) /\ j + 1 \in 1 .. Len(q)
    BY <1>8
  <2>2. PICK i \in 1 .. Len(q) : i = (IF j < k THEN j ELSE j + 1) /\ i # k
    BY <1>8, <2>1
  <2>3. r[j] = q[i] /\ w[i] = IF j < k THEN w[j] ELSE w[j + 1]
    BY <1>10, <2>2, Zenon
  <2>4. q[i] \in DOMAIN M /\ q[i] # Q[c][k]
    BY <1>7, <1>8, <2>2
  <2> QED
    BY <1>3, <1>9, <2>3, <2>4, Zenon
<1>12. OrdersOf(N, r) = [j \in 1 .. Len(q) - 1 |-> N[r[j]].order]
  BY <1>10, Zenon DEF OrdersOf
<1>13. Without(w, k) = [j \in 1 .. Len(q) - 1 |-> IF j < k THEN w[j] ELSE w[j + 1]]
  BY <1>9, Zenon DEF Without
<1>14. OrdersOf(N, r) = Without(w, k)
  BY <1>11, <1>12, <1>13, Zenon
<1>15. Becomes(M, Q, N, R, P, c, Without(OrdersOf(M, Q[c]), k))
  BY <1>2, <1>6, <1>7, <1>14, Zenon DEF Becomes
<1> QED
  BY <1>0, <1>15, Zenon

\* reduce_top changes the order at the head of its queue.
LEMMA OrdersReduce ==
  ASSUME NEW P, NEW M, NEW N, NEW Q, QueuesSound(M, Q, P), NEW c \in Side \X P, Len(Q[c]) # 0, NEW o,
         ReduceNodes(M, Q[c][1], o, N)
  PROVE  Becomes(M, Q, N, Q, P, c, [OrdersOf(M, Q[c]) EXCEPT ![1] = o])
<1>1. N[Q[c][1]].order = o /\ \A h \in DOMAIN M : h # Q[c][1] => N[h].order = M[h].order
  BY Zenon DEF ReduceNodes
<1>2. \A d \in Side \X P : Q[d] \in Seq(DOMAIN M) /\ Linked(M, Q[d])
  BY QueueAt, Zenon
<1>3. 1 \in 1 .. Len(Q[c])
  BY <1>2
<1>4. ASSUME NEW d \in Side \X P, d # c PROVE OrdersOf(N, Q[d]) = OrdersOf(M, Q[d])
  <2>1. ASSUME NEW j \in 1 .. Len(Q[d]) PROVE Q[d][j] \in DOMAIN M /\ Q[d][j] # Q[c][1]
    <3>1. KeyOf(M[Q[d][j]].order) = d /\ KeyOf(M[Q[c][1]].order) = c
      BY <1>3, Zenon DEF QueuesSound
    <3> QED
      BY <1>2, <1>4, <3>1
  <2> QED
    BY <1>1, <2>1, Zenon DEF OrdersOf
<1>5. OthersStay(M, Q, N, Q, P, c)
  BY <1>4, Zenon DEF OthersStay
<1>6. PICK q : q = Q[c]
  BY Zenon
<1>7. q \in Seq(DOMAIN M) /\ \A i, j \in 1 .. Len(q) : q[i] = q[j] => i = j
  BY <1>2, <1>6, Zenon DEF Linked
<1>8. \A j \in 1 .. Len(q) : N[q[j]].order = IF j = 1 THEN o ELSE M[q[j]].order
  BY <1>1, <1>3, <1>6, <1>7
<1>9. OrdersOf(N, q) = [OrdersOf(M, q) EXCEPT ![1] = o]
  BY <1>8, Zenon DEF OrdersOf
<1> QED
  BY <1>5, <1>6, <1>9, Zenon DEF Becomes

\* index leads from each resting intent to its node, and from no other.
IndexSound(I, M) ==
  /\ I = [i \in DOMAIN I |-> I[i]]
  /\ DOMAIN I = {M[h].order.intent : h \in DOMAIN M}
  /\ \A h \in DOMAIN M : I[M[h].order.intent] = h

\* What rests is what the nodes hold, an order each.
RestIn(F, P) == UNION {Range(F[s][p]) : s \in Side, p \in P}

OrdersIn(M) == {M[h].order : h \in DOMAIN M}

AllRest(F, P, M) == RestIn(F, P) = OrdersIn(M) /\ Cardinality(OrdersIn(M)) = Cardinality(DOMAIN M)

\* The orders in the queues are those of the nodes, each once, since no two
\* have one intent.
LEMMA RestingIs ==
  ASSUME FiniteFacts, NEW P, NEW M, NEW Q, QueuesSound(M, Q, P), NEW I, IndexSound(I, M), IsFiniteSet(DOMAIN M)
  PROVE  AllRest(QueuesOf(M, Q, P), P, M)
<1>0. PICK F, S : F = QueuesOf(M, Q, P) /\ S = OrdersIn(M)
  BY Zenon
<1>a. S = {M[h].order : h \in DOMAIN M}
  BY <1>0, Zenon DEF OrdersIn
<1> USE <1>0, <1>a
<1>1. \A s \in Side, p \in P : F[s][p] = OrdersOf(M, Q[<<s, p>>])
  BY Zenon DEF QueuesOf
<1>2. ASSUME NEW s \in Side, NEW p \in P, NEW o \in Range(F[s][p]) PROVE o \in S
  <2>1. <<s, p>> \in Side \X P
    BY Zenon
  <2>2. PICK q : q = Q[<<s, p>>]
    BY Zenon
  <2>3. q \in Seq(DOMAIN M)
    BY <2>1, <2>2, QueueAt, Zenon
  <2>a. F[s][p] = OrdersOf(M, q)
    BY <1>1, <2>2, Zenon
  <2>b. F[s][p] = [k \in 1 .. Len(q) |-> M[q[k]].order]
    BY <2>a, Zenon DEF OrdersOf
  <2>4. PICK k \in 1 .. Len(q) : o = M[q[k]].order
    BY <1>2, <2>b, Zenon DEF Range
  <2> QED
    BY <2>3, <2>4
<1>3. ASSUME NEW h \in DOMAIN M PROVE \E s \in Side, p \in P : M[h].order \in Range(F[s][p])
  <2>1. PICK c : c = KeyOf(M[h].order)
    BY Zenon
  <2>2. c \in Side \X P /\ \E k \in 1 .. Len(Q[c]) : Q[c][k] = h
    BY <2>1, Zenon DEF QueuesSound
  <2>3. PICK s \in Side, p \in P : c = <<s, p>>
    BY <2>2
  <2>4. PICK k \in 1 .. Len(Q[c]) : Q[c][k] = h
    BY <2>2, Zenon
  <2>a. F[s][p] = OrdersOf(M, Q[c])
    BY <1>1, <2>3, Zenon
  <2>5. F[s][p] = [j \in 1 .. Len(Q[c]) |-> M[Q[c][j]].order]
    BY <2>a, Zenon DEF OrdersOf
  <2>6. M[h].order \in Range(F[s][p])
    BY <2>4, <2>5, Zenon DEF Range
  <2> QED
    BY <2>6, Zenon
<1>4. UNION {Range(F[s][p]) : s \in Side, p \in P} = S
  <2>1. ASSUME NEW o \in UNION {Range(F[s][p]) : s \in Side, p \in P} PROVE o \in S
    <3>1. PICK s \in Side, p \in P : o \in Range(F[s][p])
      BY <2>1
    <3> QED
      BY <1>2, <3>1
  <2>2. ASSUME NEW o \in S PROVE o \in UNION {Range(F[s][p]) : s \in Side, p \in P}
    <3>1. PICK h \in DOMAIN M : o = M[h].order
      BY Zenon
    <3>2. PICK s \in Side, p \in P : o \in Range(F[s][p])
      BY <1>3, <3>1, Zenon
    <3> QED
      BY <3>2
  <2> QED
    BY <2>1, <2>2
<1>5. PICK m : m = [h \in DOMAIN M |-> M[h].order]
  BY Zenon
<1>6. m \in [DOMAIN M -> S] /\ \A h \in DOMAIN M : m[h] = M[h].order
  BY <1>5, Zenon
<1>7. \A g, h \in DOMAIN M : m[g] = m[h] => g = h
  BY <1>6, Zenon DEF IndexSound
<1>8. \A o \in S : \E h \in DOMAIN M : m[h] = o
  BY <1>6, Zenon
<1>9. m \in Bijection(DOMAIN M, S)
  BY <1>6, <1>7, <1>8, Zenon DEF Bijection, Injection, Surjection, IsInjective
<1>10. Cardinality(S) = Cardinality(DOMAIN M)
  BY <1>9, BijectionFin, Zenon DEF ExistsBijection
<1>11. RestIn(F, P) = S
  BY <1>4 DEF RestIn
<1> QED
  BY <1>10, <1>11, Zenon DEF AllRest

\* The lengths of the queues add up to the number of intents.
LEMMA LensAddUp ==
  ASSUME FiniteFacts
  PROVE  \A P, M, Q, I, K, f :
           QueuesSound(M, Q, P) /\ IndexSound(I, M) /\ IsFiniteSet(DOMAIN M) /\
           K = {c \in Side \X P : Q[c] # << >>} /\ f = [c \in K |-> Len(Q[c])] =>
           Cardinality(DOMAIN I) = SumFunction(f)
<1>IsBijection. ASSUME NEW S, NEW T, NEW f \in [S -> T], \A x, y \in S : f[x] = f[y] => x = y, \A z \in T : \E x \in S : f[x] = z
                PROVE  f \in Bijection(S, T)
  BY <1>IsBijection, Zenon DEF Bijection, Injection, Surjection, IsInjective
<1> TAKE P, M, Q, I, K, f
<1> HAVE QueuesSound(M, Q, P) /\ IndexSound(I, M) /\ IsFiniteSet(DOMAIN M) /\
         K = {c \in Side \X P : Q[c] # << >>} /\ f = [c \in K |-> Len(Q[c])]
<1>1. \A c \in Side \X P : Q[c] \in Seq(DOMAIN M) /\ Linked(M, Q[c])
  BY QueueAt, Zenon
<1>2. f \in [K -> Nat] /\ \A c \in K : f[c] = Len(Q[c]) /\ c \in Side \X P
  BY <1>1
<1>3. ASSUME NEW h \in DOMAIN M
      PROVE  KeyOf(M[h].order) \in K /\ \E k \in 1 .. Len(Q[KeyOf(M[h].order)]) : Q[KeyOf(M[h].order)][k] = h
  <2>1. PICK c : c = KeyOf(M[h].order)
    BY Zenon
  <2>2. c \in Side \X P /\ \E k \in 1 .. Len(Q[c]) : Q[c][k] = h
    BY <2>1, Zenon DEF QueuesSound
  <2>3. Q[c] # << >>
    BY <2>2
  <2> QED
    BY <2>1, <2>2, <2>3, Zenon
<1>4. ASSUME NEW c \in Side \X P, NEW k \in 1 .. Len(Q[c]) PROVE Q[c][k] \in DOMAIN M /\ KeyOf(M[Q[c][k]].order) = c
  <2>1. KeyOf(M[Q[c][k]].order) = c
    BY Zenon DEF QueuesSound
  <2> QED
    BY <1>1, <2>1
<1>5. IsFiniteSet(K)
  <2>1. PICK m : m = [h \in DOMAIN M |-> KeyOf(M[h].order)]
    BY Zenon
  <2>2. m \in [DOMAIN M -> K] /\ \A h \in DOMAIN M : m[h] = KeyOf(M[h].order)
    BY <1>3, <2>1, Zenon
  <2>3. \A c \in K : \E h \in DOMAIN M : m[h] = c
    <3> TAKE c \in K
    <3>1. 1 \in 1 .. Len(Q[c]) /\ c \in Side \X P
      BY <1>1
    <3> QED
      BY <1>4, <2>2, <3>1
  <2>4. m \in Surjection(DOMAIN M, K)
    BY <2>2, <2>3, Zenon DEF Surjection
  <2> QED
    BY <2>4, SurjectionFin, Zenon DEF ExistsSurjection
<1>6. SumFunction(f) = Cardinality(Bars(f, K)) /\ IsFiniteSet(Bars(f, K))
  BY <1>2, <1>5, SumBars, BarsFinite, Zenon
<1>7. PICK n : n = [b \in Bars(f, K) |-> Q[b[1]][b[2]]]
  BY Zenon
<1>8. ASSUME NEW b \in Bars(f, K) PROVE b = <<b[1], b[2]>> /\ b[1] \in Side \X P /\ b[2] \in 1 .. Len(Q[b[1]]) /\ n[b] = Q[b[1]][b[2]]
  BY <1>2, <1>7 DEF Bars
<1>9. n \in [Bars(f, K) -> DOMAIN M]
  <2>1. \A b \in Bars(f, K) : n[b] \in DOMAIN M
    BY <1>4, <1>8
  <2> QED
    BY <1>7, <2>1, Zenon
<1>10. ASSUME NEW b \in Bars(f, K), NEW d \in Bars(f, K), n[b] = n[d] PROVE b = d
  <2>1. PICK c, k, e, j : c = b[1] /\ k = b[2] /\ e = d[1] /\ j = d[2]
    BY Zenon
  <2>2. /\ b = <<c, k>> /\ d = <<e, j>> /\ c \in Side \X P /\ e \in Side \X P
        /\ k \in 1 .. Len(Q[c]) /\ j \in 1 .. Len(Q[e]) /\ Q[c][k] = Q[e][j]
    BY <1>8, <1>10, <2>1, Zenon
  <2>3. c = e
    BY <1>4, <2>2, Zenon
  <2>4. \A i, l \in 1 .. Len(Q[c]) : Q[c][i] = Q[c][l] => i = l
    BY <1>1, <2>2, Zenon DEF Linked
  <2> QED
    BY <2>2, <2>3, <2>4, Zenon
<1>11. ASSUME NEW h \in DOMAIN M PROVE \E b \in Bars(f, K) : n[b] = h
  <2>1. PICK c : c = KeyOf(M[h].order)
    BY Zenon
  <2>2. c \in K /\ \E k \in 1 .. Len(Q[c]) : Q[c][k] = h
    BY <1>3, <2>1, Zenon
  <2>3. PICK k \in 1 .. Len(Q[c]) : Q[c][k] = h
    BY <2>2, Zenon
  <2>4. k \in Nat /\ k \in 1 .. f[c]
    BY <1>2, <2>2
  <2>5. <<c, k>> \in Bars(f, K) /\ <<c, k>>[1] = c /\ <<c, k>>[2] = k
    BY <2>2, <2>4, Zenon DEF Bars
  <2>6. n[<<c, k>>] = h
    BY <1>8, <2>3, <2>5, Zenon
  <2> QED
    BY <2>5, <2>6, Zenon
<1>12. Cardinality(Bars(f, K)) = Cardinality(DOMAIN M)
  <2>a. \A b, d \in Bars(f, K) : n[b] = n[d] => b = d
    BY <1>10, Zenon
  <2>b. \A h \in DOMAIN M : \E b \in Bars(f, K) : n[b] = h
    BY <1>11, Zenon
  <2>1. n \in Bijection(Bars(f, K), DOMAIN M)
    BY <1>9, <2>a, <2>b, <1>IsBijection, Zenon
  <2> QED
    BY <1>6, <2>1, BijectionFin, Zenon DEF ExistsBijection
<1>13. Cardinality(DOMAIN I) = Cardinality(DOMAIN M)
  <2>1. PICK m : m = [h \in DOMAIN M |-> M[h].order.intent]
    BY Zenon
  <2>2. m \in [DOMAIN M -> DOMAIN I] /\ \A h \in DOMAIN M : m[h] = M[h].order.intent /\ I[m[h]] = h
    BY <2>1, Zenon DEF IndexSound
  <2>3. \A g, h \in DOMAIN M : m[g] = m[h] => g = h
    BY <2>2, Zenon
  <2>4. \A i \in DOMAIN I : \E h \in DOMAIN M : m[h] = i
    BY <2>2 DEF IndexSound
  <2>5. m \in Bijection(DOMAIN M, DOMAIN I)
    BY <2>2, <2>3, <2>4, Zenon DEF Bijection, Injection, Surjection, IsInjective
  <2> QED
    BY <2>5, BijectionFin, Zenon DEF ExistsBijection
<1> QED
  BY <1>6, <1>12, <1>13, Zenon

\* A sum depends on the values and not on what they are filed under.
Carries(m, T, g, S, f) ==
  /\ IsFiniteSet(S) /\ f \in [S -> Nat] /\ g \in [T -> Nat] /\ m \in Bijection(T, S)
  /\ \A t \in T : g[t] = f[m[t]]

\* A queue's quantities add up to its level's.
Sizes(M, q) == [k \in 1 .. Len(q) |-> OrdersOf(M, q)[k].quantity]

\* The sum along a queue is the quantity at its level.
LEMMA QtyAddsUp ==
  ASSUME FiniteFacts
  PROVE  \A P, M, Q : \A c \in Side \X P :
           QueuesSound(M, Q, P) /\ Counted(M) =>
           SumFunction(Sizes(M, Q[c])) = QtyAt(M, c)
<1>SumMoved. ASSUME NEW S, NEW f, NEW T, NEW g, NEW m, Carries(m, T, g, S, f)
             PROVE  SumFunction(g) = SumFunction(f)
  <2> USE <1>SumMoved
  <2> SUFFICES ASSUME IsFiniteSet(S), f \in [S -> Nat], g \in [T -> Nat], m \in Bijection(T, S), \A t \in T : g[t] = f[m[t]]
               PROVE  SumFunction(g) = SumFunction(f)
    BY Zenon DEF Carries
  <2>1. m \in [T -> S] /\ (\A t, u \in T : m[t] = m[u] => t = u) /\ \A s \in S : \E t \in T : m[t] = s
    BY Zenon DEF Bijection, Injection, Surjection, IsInjective
  <2>2. IsFiniteSet(T)
    <3>1. m \in Injection(T, S)
      BY Zenon DEF Bijection
    <3> QED
      BY <3>1, InjectionFin, Zenon DEF ExistsInjection
  <2>3. SumFunction(f) = Cardinality(Bars(f, S)) /\ SumFunction(g) = Cardinality(Bars(g, T))
    BY <2>2, SumBars, Zenon
  <2>4. IsFiniteSet(Bars(f, S)) /\ IsFiniteSet(Bars(g, T))
    BY <2>2, BarsFinite, Zenon
  <2>5. PICK n : n = [b \in Bars(g, T) |-> <<m[b[1]], b[2]>>]
    BY Zenon
  <2>6. n \in [Bars(g, T) -> Bars(f, S)] /\ \A b \in Bars(g, T) : n[b] = <<m[b[1]], b[2]>>
    BY <2>1, <2>5, Zenon DEF Bars
  <2>7. ASSUME NEW b \in Bars(g, T), NEW c \in Bars(g, T), n[b] = n[c] PROVE b = c
    <3>1. b = <<b[1], b[2]>> /\ c = <<c[1], c[2]>> /\ b[1] \in T /\ c[1] \in T
      BY DEF Bars
    <3>2. m[b[1]] = m[c[1]] /\ b[2] = c[2]
      BY <2>6, <2>7
    <3> QED
      BY <2>1, <3>1, <3>2, Zenon
  <2>8. ASSUME NEW c \in Bars(f, S) PROVE \E b \in Bars(g, T) : n[b] = c
    <3>1. c = <<c[1], c[2]>> /\ c[1] \in S /\ c[2] \in Nat /\ c[2] \in 1 .. f[c[1]]
      BY DEF Bars
    <3>2. PICK t \in T : m[t] = c[1]
      BY <2>1, <3>1, Zenon
    <3>3. <<t, c[2]>> \in Bars(g, T)
      BY <3>1, <3>2, Zenon DEF Bars
    <3> QED
      BY <2>6, <3>1, <3>2, <3>3, SMTT(30), SMTT(60)
  <2>9. n \in Bijection(Bars(g, T), Bars(f, S))
    BY <2>6, <2>7, <2>8, ZenonT(60) DEF Bijection, Injection, Surjection, IsInjective
  <2>10. Cardinality(Bars(g, T)) = Cardinality(Bars(f, S))
    BY <2>4, <2>9, BijectionFin, Zenon DEF ExistsBijection
  <2> QED
    BY <2>3, <2>10, Zenon
<1> TAKE P, M, Q
<1> TAKE c \in Side \X P
<1> HAVE QueuesSound(M, Q, P) /\ Counted(M)
<1>1. PICK q, S, f, g : q = Q[c] /\ S = At(M, c) /\ f = [h \in S |-> M[h].order.quantity] /\ g = Sizes(M, Q[c])
  BY Zenon
<1>2. /\ Linked(M, q) /\ q \in Seq(DOMAIN M) /\ \A h : h \in S <=> \E i \in 1 .. Len(q) : q[i] = h
  <2>1. /\ Linked(M, Q[c]) /\ Q[c] \in Seq(DOMAIN M) /\ \A h : h \in At(M, c) <=> \E i \in 1 .. Len(Q[c]) : Q[c][i] = h
    BY QueueAt
  <2> QED
    BY <1>1, <2>1, Zenon
<1>3. IsFiniteSet(S) /\ f \in [S -> Nat] /\ SumFunction(f) = QtyAt(M, c)
  BY <1>1, QtyNat, Zenon DEF QtyAt
<1>4. g = [k \in 1 .. Len(q) |-> M[q[k]].order.quantity]
  <2>1. Sizes(M, q) = [k \in 1 .. Len(q) |-> M[q[k]].order.quantity]
    BY Zenon DEF Sizes, OrdersOf
  <2> QED
    BY <1>1, <2>1, Zenon
<1>5. q \in [1 .. Len(q) -> S] /\ \A k \in 1 .. Len(q) : q[k] \in S
  BY <1>2
<1>6. g \in [1 .. Len(q) -> Nat] /\ \A k \in 1 .. Len(q) : g[k] = f[q[k]]
  <2>0. f = [h \in S |-> M[h].order.quantity]
    BY <1>1, Zenon
  <2>1. \A h \in S : f[h] \in Nat /\ f[h] = M[h].order.quantity
    BY <1>3, <2>0, Zenon
  <2>2. \A k \in 1 .. Len(q) : g[k] = M[q[k]].order.quantity
    BY <1>4, Zenon
  <2>3. \A k \in 1 .. Len(q) : g[k] = f[q[k]] /\ g[k] \in Nat
    BY <1>5, <2>1, <2>2, ZenonT(60)
  <2> QED
    BY <1>4, <2>3, Zenon
<1>7. q \in Bijection(1 .. Len(q), S)
  <2>1. \A i, j \in 1 .. Len(q) : q[i] = q[j] => i = j
    BY <1>2, Zenon DEF Linked
  <2>2. \A h \in S : \E i \in 1 .. Len(q) : q[i] = h
    BY <1>2, Zenon
  <2> QED
    BY <1>5, <2>1, <2>2, ZenonT(60) DEF Bijection, Injection, Surjection, IsInjective
<1>8. PICK T : T = 1 .. Len(q)
  BY Zenon
<1>9. g \in [T -> Nat] /\ q \in Bijection(T, S) /\ \A k \in T : g[k] = f[q[k]]
  BY <1>6, <1>7, <1>8, Zenon
<1>10. SumFunction(g) = SumFunction(f)
  <2>1. Carries(q, T, g, S, f)
    BY <1>3, <1>9, Zenon DEF Carries
  <2> QED
    BY <2>1, <1>SumMoved, Zenon
<1> QED
  BY <1>1, <1>3, <1>10, Zenon

\* The prices of D a walk of the side meets no later than p, and p's place.
Ahead(s, D, p) == {q \in D : IF s = "Bid" THEN q >= p ELSE q <= p}

Rank(s, D, p) == Cardinality(Ahead(s, D, p))

\* The ranks number the prices in the order of the walk.
Ranked(s, D, n) ==
  /\ n \in Nat /\ \A p \in D : Rank(s, D, p) \in 1 .. n
  /\ \A p, q \in D : Rank(s, D, p) <= Rank(s, D, q) => IF s = "Bid" THEN p >= q ELSE p <= q
  /\ \A k \in 1 .. n : \E p \in D : Rank(s, D, p) = k

\* The ranks of the prices of a side are 1 to their number, each once.
LEMMA RankIs ==
  ASSUME FiniteFacts, NEW s, NEW D \in SUBSET Nat, IsFiniteSet(D)
  PROVE  Ranked(s, D, Cardinality(D))
<1>1. PICK n : n = Cardinality(D)
  BY Zenon
<1>2. n \in Nat
  BY <1>1, CardinalityFin, Zenon
<1>3. ASSUME NEW p \in D
      PROVE  IsFiniteSet(Ahead(s, D, p)) /\ Rank(s, D, p) \in 1 .. n
  <2>1. Ahead(s, D, p) \in SUBSET D /\ p \in Ahead(s, D, p)
    BY DEF Ahead
  <2>2. IsFiniteSet(Ahead(s, D, p)) /\ Cardinality(Ahead(s, D, p)) <= n
    BY <1>1, <2>1, SubsetFin, Zenon
  <2>3. Cardinality(Ahead(s, D, p)) \in Nat /\ Cardinality(Ahead(s, D, p)) # 0
    BY <2>1, <2>2, CardinalityFin, EmptyFin, Zenon
  <2> QED
    BY <1>2, <2>2, <2>3 DEF Rank
<1>4. ASSUME NEW p \in D, NEW q \in D, ~(IF s = "Bid" THEN p >= q ELSE p <= q)
      PROVE  Rank(s, D, q) < Rank(s, D, p)
  <2>1. PICK A, B : A = Ahead(s, D, q) /\ B = Ahead(s, D, p)
    BY Zenon
  <2>7. /\ \A x : x \in A <=> x \in D /\ IF s = "Bid" THEN x >= q ELSE x <= q
        /\ \A x : x \in B <=> x \in D /\ IF s = "Bid" THEN x >= p ELSE x <= p
    BY <2>1, Zenon DEF Ahead
  <2>2. A \in SUBSET B /\ p \in B /\ p \notin A
    <3>1. CASE s = "Bid"
      <4>1. /\ \A x : x \in A <=> x \in D /\ x >= q
            /\ \A x : x \in B <=> x \in D /\ x >= p
        BY <2>7, <3>1, Zenon
      <4>2. ~(p >= q)
        BY <1>4, <3>1, Zenon
      <4>3. \A x \in D : x >= q => x >= p
        BY <4>2
      <4>4. p >= p
        OBVIOUS
      <4> QED
        BY <4>1, <4>2, <4>3, <4>4, Zenon
    <3>2. CASE s # "Bid"
      <4>1. /\ \A x : x \in A <=> x \in D /\ x <= q
            /\ \A x : x \in B <=> x \in D /\ x <= p
        BY <2>7, <3>2, Zenon
      <4>2. ~(p <= q)
        BY <1>4, <3>2, Zenon
      <4>3. \A x \in D : x <= q => x <= p
        BY <4>2
      <4>4. p <= p
        OBVIOUS
      <4> QED
        BY <4>1, <4>2, <4>3, <4>4, Zenon
    <3> QED
      BY <3>1, <3>2, Zenon
  <2>3. IsFiniteSet(B) /\ Cardinality(B) \in Nat
    BY <1>3, <2>1, CardinalityFin, Zenon
  <2>4. IsFiniteSet(A) /\ Cardinality(A) <= Cardinality(B) /\ (Cardinality(B) = Cardinality(A) => B = A)
    BY <2>2, <2>3, SubsetFin, Zenon
  <2>5. Cardinality(A) \in Nat
    BY <2>4, CardinalityFin, Zenon
  <2>6. Cardinality(A) < Cardinality(B)
    BY <2>2, <2>3, <2>4, <2>5
  <2> QED
    BY <2>1, <2>6, Zenon DEF Rank
<1>5. ASSUME NEW p \in D, NEW q \in D, Rank(s, D, p) <= Rank(s, D, q)
      PROVE  IF s = "Bid" THEN p >= q ELSE p <= q
  <2>1. Rank(s, D, p) \in Nat /\ Rank(s, D, q) \in Nat /\ ~(Rank(s, D, q) < Rank(s, D, p))
    BY <1>2, <1>3, <1>5
  <2> QED
    BY <1>4, <2>1, Zenon
<1>6. ASSUME NEW k \in 1 .. n PROVE \E p \in D : Rank(s, D, p) = k
  <2>1. PICK T, r : T = 1 .. n /\ r = [p \in D |-> Rank(s, D, p)]
    BY Zenon
  <2>2. r \in [D -> T]
    BY <1>3, <2>1, Zenon
  <2>3. ASSUME NEW p \in D, NEW q \in D, r[p] = r[q] PROVE p = q
    <3>1. Rank(s, D, p) <= Rank(s, D, q) /\ Rank(s, D, q) <= Rank(s, D, p)
      BY <1>2, <1>3, <2>1, <2>3
    <3>2. (IF s = "Bid" THEN p >= q ELSE p <= q) /\ (IF s = "Bid" THEN q >= p ELSE q <= p)
      BY <1>5, <3>1, Zenon
    <3> QED
      BY <3>2
  <2>4. r \in Injection(D, T)
    BY <2>2, <2>3, Zenon DEF Injection, IsInjective
  <2>5. IsFiniteSet(T) /\ Cardinality(T) = n
    BY <1>2, <2>1, IntervalFin
  <2>6. r \in Surjection(D, T)
    BY <1>1, <2>4, <2>5, InjectionFin, Zenon
  <2>7. \E p \in D : r[p] = k
    BY <2>1, <2>6, Zenon DEF Surjection
  <2> QED
    BY <2>1, <2>7, Zenon
<1>7. Ranked(s, D, n)
  BY <1>2, <1>3, <1>5, <1>6, Zenon DEF Ranked
<1> QED
  BY <1>1, <1>7, Zenon

\* bid_depth and ask_depth list the prices of D by rank, as many as were asked
\* for, each with what level_qty says of it.
Lists(d, b, s, D, m) ==
  /\ \A k \in DOMAIN d : \E p \in D : Rank(s, D, p) = k /\ k <= m /\ d[k] = <<p, LevelQty(b, s, p)>>
  /\ \A p \in D : Rank(s, D, p) <= m => Rank(s, D, p) \in DOMAIN d /\ d[Rank(s, D, p)] = <<p, LevelQty(b, s, p)>>

\* The depth view lists the prices by rank, cut at the number asked for.
LEMMA DepthIs ==
  ASSUME FiniteFacts
  PROVE  \A b, s : \A m \in Nat :
           DOMAIN b.levels[s] \in SUBSET Nat /\ IsFiniteSet(DOMAIN b.levels[s]) =>
           Lists(Depth(b, s, m), b, s, DOMAIN b.levels[s], m)
\* The walk yields the price of rank k after those of the ranks below k.
<1>NextIs. ASSUME NEW s, NEW D \in SUBSET Nat, IsFiniteSet(D), NEW p \in D,
                  NEW T, \A q : q \in T <=> q \in D /\ Rank(s, D, q) >= Rank(s, D, p)
           PROVE  NextPrice(s, T) = p
  <2> USE <1>NextIs
  <2>1. p \in T /\ \A q \in T : IF s = "Bid" THEN p >= q ELSE p <= q
    <3>4. Ranked(s, D, Cardinality(D))
      BY RankIs, Zenon
    <3>1. \A q \in D : Rank(s, D, q) \in Nat
      BY <3>4 DEF Ranked
    <3>2. Rank(s, D, p) >= Rank(s, D, p)
      BY <3>1
    <3>3. ASSUME NEW q \in T PROVE IF s = "Bid" THEN p >= q ELSE p <= q
      <4>1. q \in D /\ Rank(s, D, p) <= Rank(s, D, q)
        BY <3>1, Zenon
      <4> QED
        BY <3>4, <4>1, Zenon DEF Ranked
    <3> QED
      BY <3>2, <3>3, Zenon
  <2>2. T \subseteq Nat
    BY Zenon
  <2>3. CASE s = "Bid"
    <3>1. \A x \in T : (\A y \in T : x >= y) => x = p
      BY <2>1, <2>2, <2>3
    <3>2. Max(T) = p
      BY <2>1, <2>3, <3>1, Zenon DEF Max
    <3> QED
      BY <2>3, <3>2, Zenon DEF NextPrice
  <2>4. CASE s # "Bid"
    <3>1. \A x \in T : (\A y \in T : x <= y) => x = p
      BY <2>1, <2>2, <2>4
    <3>2. Min(T) = p
      BY <2>1, <2>4, <3>1, Zenon DEF Min
    <3> QED
      BY <2>4, <3>2, Zenon DEF NextPrice
  <2> QED
    BY <2>3, <2>4, Zenon
<1> TAKE b, s
<1> TAKE m \in Nat
<1> HAVE DOMAIN b.levels[s] \in SUBSET Nat /\ IsFiniteSet(DOMAIN b.levels[s])
<1>1. PICK D, n : D = DOMAIN b.levels[s] /\ n = Cardinality(D)
  BY Zenon
<1>2. D \in SUBSET Nat /\ IsFiniteSet(D)
  BY <1>1, Zenon
<1>3. /\ n \in Nat /\ \A p \in D : Rank(s, D, p) \in 1 .. n
      /\ \A p, q \in D : Rank(s, D, p) <= Rank(s, D, q) => IF s = "Bid" THEN p >= q ELSE p <= q
      /\ \A k \in 1 .. n : \E p \in D : Rank(s, D, p) = k
  <2>1. Ranked(s, D, Cardinality(D))
    BY <1>2, RankIs, Zenon
  <2>2. Ranked(s, D, n)
    BY <1>1, <2>1, Zenon
  <2> QED
    BY <2>2, Zenon DEF Ranked
<1>4. \A p, q \in D : Rank(s, D, p) = Rank(s, D, q) => p = q
  <2>1. ASSUME NEW p \in D, NEW q \in D, Rank(s, D, p) = Rank(s, D, q) PROVE p = q
    <3>1. Rank(s, D, p) <= Rank(s, D, q) /\ Rank(s, D, q) <= Rank(s, D, p)
      BY <1>3, <2>1
    <3>2. (IF s = "Bid" THEN p >= q ELSE p <= q) /\ (IF s = "Bid" THEN q >= p ELSE q <= p)
      BY <1>3, <3>1, Zenon
    <3>3. p \in Nat /\ q \in Nat
      BY <1>2, Zenon
    <3> QED
      BY <3>2, <3>3
  <2> QED
    BY <2>1, Zenon
<1>5. PICK g : g = [k \in 1 .. n |-> CHOOSE p \in D : Rank(s, D, p) = k]
  BY Zenon
<1>6. \A k \in 1 .. n : g[k] \in D /\ Rank(s, D, g[k]) = k
  <2>1. \A k \in 1 .. n : g[k] = CHOOSE p \in D : Rank(s, D, p) = k
    BY <1>5, Zenon
  <2> QED
    BY <1>3, <2>1, Zenon
<1> DEFINE F(f) == [k \in 1 .. Cardinality(DOMAIN b.levels[s]) |->
                      NextPrice(s, DOMAIN b.levels[s] \ {f[j] : j \in 1 .. k - 1})]
           w == CHOOSE f : f = F(f)
<1>7. Depth(b, s, m) = [k \in 1 .. Min({m, Cardinality(DOMAIN b.levels[s])}) |-> <<w[k], LevelQty(b, s, w[k])>>]
  BY Zenon DEF Depth

<1>9. ASSUME NEW k \in 1 .. n PROVE NextPrice(s, D \ {g[j] : j \in 1 .. k - 1}) = g[k]
  <2>1. PICK T, p : T = D \ {g[j] : j \in 1 .. k - 1} /\ p = g[k]
    BY Zenon
  <2>2. p \in D /\ Rank(s, D, p) = k
    BY <1>6, <2>1, Zenon
  <2>3. ASSUME NEW q \in D PROVE q \in T <=> Rank(s, D, q) >= Rank(s, D, p)
    <3>1. PICK i \in 1 .. n : i = Rank(s, D, q)
      BY <1>3, Zenon
    <3>2. g[i] = q
      BY <1>4, <1>6, <3>1, Zenon
    <3>3. CASE i < k
      <4>1. i \in 1 .. k - 1
        BY <1>3, <3>3
      <4>2. q \notin T
        BY <2>1, <3>2, <4>1, Zenon
      <4> QED
        BY <1>3, <2>2, <3>1, <3>3, <4>2, SMTT(30), SMTT(60)
    <3>4. CASE ~(i < k)
      <4>1. \A j \in 1 .. k - 1 : j \in 1 .. n /\ j # i
        BY <1>3, <3>4
      <4>2. \A j \in 1 .. k - 1 : g[j] # q
        BY <1>6, <3>1, <4>1, Zenon
      <4>3. q \in T
        BY <2>1, <4>2, Zenon
      <4> QED
        BY <1>3, <2>2, <3>1, <3>4, <4>3, SMTT(30), SMTT(60)
    <3> QED
      BY <3>3, <3>4, Zenon
  <2>4. \A q : q \in T <=> q \in D /\ Rank(s, D, q) >= Rank(s, D, p)
    BY <2>1, <2>3, Zenon
  <2>5. NextPrice(s, T) = p
    BY <1>2, <2>2, <2>4, <1>NextIs, Zenon
  <2> QED
    BY <2>1, <2>5, Zenon
<1>10. g = F(g)
  <2>1. g = [k \in 1 .. n |-> g[k]]
    BY <1>5
  <2>2. F(g) = [k \in 1 .. n |-> NextPrice(s, D \ {g[j] : j \in 1 .. k - 1})]
    BY <1>1, Zenon
  <2> HIDE DEF F
  <2> QED
    BY <1>9, <2>1, <2>2, Zenon
<1>11. w = F(w)
  BY <1>10, Zenon
<1>12. PICK h : h = w
  BY Zenon
<1>13. \A k \in 1 .. n : h[k] = NextPrice(s, D \ {h[j] : j \in 1 .. k - 1})
  <2>1. h = F(h)
    BY <1>11, <1>12, ZenonT(60)
  <2>2. h = [k \in 1 .. n |-> NextPrice(s, D \ {h[j] : j \in 1 .. k - 1})]
    BY <1>1, <2>1, Zenon
  <2> QED
    BY <2>2, Zenon
<1>14. Depth(b, s, m) = [k \in 1 .. Min({m, n}) |-> <<h[k], LevelQty(b, s, h[k])>>]
  BY <1>1, <1>7, <1>12, Zenon
<1> HIDE DEF w, F
<1>15. \A k \in 1 .. n : h[k] = g[k]
  <2> DEFINE Bad == {k \in 1 .. n : h[k] # g[k]}
  <2>1. SUFFICES ASSUME Bad # {} PROVE FALSE
    BY Zenon
  <2>2. Bad \in SUBSET Nat
    OBVIOUS
  <2>3. PICK k \in Bad : \A j \in Bad : k <= j
    <3> HIDE DEF Bad
    <3> QED
      BY <2>1, <2>2, Least, Zenon
  <2>4. k \in 1 .. n /\ h[k] # g[k]
    BY Zenon
  <2>5. \A j \in 1 .. k - 1 : j \in 1 .. n /\ ~(k <= j)
    BY <1>3, <2>4
  <2>6. \A j \in 1 .. k - 1 : h[j] = g[j]
    BY <2>3, <2>5, Zenon
  <2>7. {h[j] : j \in 1 .. k - 1} = {g[j] : j \in 1 .. k - 1}
    BY <2>6, Zenon
  <2>8. h[k] = g[k]
    BY <1>9, <1>13, <2>4, <2>7, Zenon
  <2> QED
    BY <2>4, <2>8, Zenon
<1>16. PICK e, d : e = Min({m, n}) /\ d = Depth(b, s, m)
  BY Zenon
<1>17. e \in Nat /\ \A k \in 1 .. n : k <= m <=> k \in 1 .. e
  <2>1. {m, n} \in SUBSET Nat /\ {m, n} # {}
    BY <1>3, Zenon
  <2>2. e \in {m, n} /\ \A y \in {m, n} : e <= y
    BY <1>16, <2>1, MinIs, Zenon
  <2> QED
    BY <1>3, <2>2
<1>18. e <= n
  <2>1. {m, n} \in SUBSET Nat /\ {m, n} # {}
    BY <1>3, Zenon
  <2> QED
    BY <1>16, <2>1, MinIs, Zenon
<1>19. DOMAIN d = 1 .. e /\ \A k \in 1 .. e : k \in 1 .. n /\ k <= m /\ d[k] = <<g[k], LevelQty(b, s, g[k])>>
  <2>1. d = [k \in 1 .. e |-> <<h[k], LevelQty(b, s, h[k])>>]
    BY <1>14, <1>16, Zenon
  <2>2. \A k \in 1 .. e : k \in 1 .. n
    BY <1>3, <1>17, <1>18
  <2> QED
    BY <1>15, <1>17, <2>1, <2>2, Zenon
<1>20. Lists(d, b, s, D, m)
  <2>1. ASSUME NEW k \in DOMAIN d
        PROVE  \E p \in D : Rank(s, D, p) = k /\ k <= m /\ d[k] = <<p, LevelQty(b, s, p)>>
    BY <1>6, <1>19, Zenon
  <2>2. ASSUME NEW p \in D, Rank(s, D, p) <= m
        PROVE  Rank(s, D, p) \in DOMAIN d /\ d[Rank(s, D, p)] = <<p, LevelQty(b, s, p)>>
    <3>1. PICK k \in 1 .. n : k = Rank(s, D, p)
      BY <1>3, Zenon
    <3>2. g[k] = p
      BY <1>4, <1>6, <3>1, Zenon
    <3>3. k \in 1 .. e
      BY <1>17, <2>2, <3>1, Zenon
    <3> QED
      BY <1>19, <3>1, <3>2, <3>3, Zenon
  <2> QED
    BY <2>1, <2>2, Zenon DEF Lists
<1> QED
  BY <1>1, <1>16, <1>20, Zenon

=============================================================================

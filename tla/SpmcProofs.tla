----------------------------- MODULE SpmcProofs ------------------------------
(***************************************************************************)
(* Proofs about SpmcQueue, for every capacity, payload size and number of  *)
(* readers.  First the producer's side of the seqlock: stores become       *)
(* visible out of program order, so the invariant says which stores may be *)
(* pending, how they restrict each other, and what a slot's version tells  *)
(* about the slot's words.  Then the consumers: no answer of poll is       *)
(* false, and the ring implements the log of SpmcLog.                      *)
(***************************************************************************)
EXTENDS SpmcQueue, TLAPS

\* Multiplication by the capacity distributes over a difference.
LEMMA Distribute ==
  ASSUME NEW n \in Int, NEW a \in Int, NEW b \in Int
  PROVE  n * (b - a) = n * b - n * a
  OBVIOUS

\* A sequence number is its lap times the capacity plus its slot.
LEMMA DivMod ==
  ASSUME NEW s \in Nat
  PROVE  /\ SlotOf(s) \in 0 .. Capacity - 1
         /\ Lap(s) \in Nat
         /\ s = Capacity * Lap(s) + SlotOf(s)
<1>1. Capacity \in Nat \ {0}
  BY QueueAssumption
<1>2. ASSUME NEW n \in Nat \ {0} PROVE s % n \in 0 .. n - 1
  OBVIOUS
<1>3. ASSUME NEW n \in Nat \ {0} PROVE s \div n \in Nat
  OBVIOUS
<1>4. ASSUME NEW n \in Nat \ {0} PROVE s = n * (s \div n) + (s % n)
  OBVIOUS
<1> QED
  BY <1>1, <1>2, <1>3, <1>4, Zenon DEF SlotOf, Lap

\* Two numbers that share a slot differ by whole laps.
LEMMA SameSlot ==
  ASSUME NEW s \in Nat, NEW t \in Nat, SlotOf(s) = SlotOf(t)
  PROVE  /\ Lap(s) = Lap(t) => s = t
         /\ s < t => Lap(s) < Lap(t)
         /\ Lap(s) < Lap(t) => s + Capacity <= t
<1>1. Lap(s) \in Nat /\ Lap(t) \in Nat /\ Capacity \in Nat \ {0} /\ SlotOf(s) \in Nat
  BY DivMod, QueueAssumption
<1>2. s = Capacity * Lap(s) + SlotOf(s) /\ t = Capacity * Lap(t) + SlotOf(s)
  BY DivMod
<1> DEFINE a == Lap(s)
           b == Lap(t)
<1> HIDE DEF a, b
<1>3. a \in Nat /\ b \in Nat /\ Capacity * (b - a) = Capacity * b - Capacity * a
  BY <1>1, Distribute DEF a, b
<1>7. t - s = Capacity * (b - a)
  BY <1>1, <1>2, <1>3 DEF a, b
<1>4. a < b => Capacity * (b - a) >= Capacity
  BY <1>1, <1>3
<1>5. b < a => Capacity * (b - a) < 0
  BY <1>1, <1>3
<1>6. a = b => Capacity * (b - a) = 0
  BY <1>1, <1>3
<1> QED
  BY <1>1, <1>3, <1>4, <1>5, <1>6, <1>7 DEF a, b
-----------------------------------------------------------------------------
DataStore(seq, w) == Store("data", SlotOf(seq), w, seq + 1, FALSE, 4 * seq + 1)

EvenStore(seq) == Store("version", SlotOf(seq), NONE, 2 * Lap(seq) + 2, TRUE, 4 * seq + 2)

PubStore(seq) == Store("published", 0, NONE, seq + 1, TRUE, 4 * seq + 3)

\* The stores of a commit, by name.
LEMMA CommitStoresAre ==
  ASSUME NEW seq \in Nat
  PROVE  CommitStores(seq) = {DataStore(seq, w) : w \in Words} \cup {EvenStore(seq), PubStore(seq)}
<1>1. \A w \in Words : Payload(seq)[w] = seq + 1
  BY DEF Payload
<1> QED
  BY <1>1, Zenon DEF CommitStores, DataStore, EvenStore, PubStore

\* Different stores differ as records.
LEMMA StoresDiffer ==
  ASSUME NEW s \in Nat, NEW t \in Nat
  PROVE  /\ OddStore(s) = OddStore(t) => s = t
         /\ EvenStore(s) = EvenStore(t) => s = t
         /\ PubStore(s) = PubStore(t) => s = t
         /\ OddStore(s) # EvenStore(t) /\ OddStore(s) # PubStore(t) /\ EvenStore(s) # PubStore(t)
<1>1. /\ OddStore(s).po = 4 * s /\ OddStore(t).po = 4 * t /\ OddStore(s).to = "version"
      /\ EvenStore(s).po = 4 * s + 2 /\ EvenStore(t).po = 4 * t + 2 /\ EvenStore(s).to = "version"
      /\ PubStore(s).po = 4 * s + 3 /\ PubStore(t).po = 4 * t + 3 /\ PubStore(t).to = "published"
  BY DEF OddStore, EvenStore, PubStore, Store
<1>2. /\ 4 * s = 4 * t <=> s = t
      /\ 4 * s + 2 = 4 * t + 2 <=> s = t
      /\ 4 * s + 3 = 4 * t + 3 <=> s = t
      /\ 4 * s # 4 * t + 2
  OBVIOUS
<1> QED
  BY <1>1, <1>2, Zenon

\* A payload store differs from every version and published store.
LEMMA WordsDiffer ==
  ASSUME NEW s \in Nat, NEW t \in Nat, NEW w \in Words, NEW x \in Words
  PROVE  /\ DataStore(s, w) = DataStore(t, x) => s = t /\ w = x
         /\ DataStore(s, w) # OddStore(t) /\ DataStore(s, w) # EvenStore(t) /\ DataStore(s, w) # PubStore(t)
<1>1. /\ DataStore(s, w).po = 4 * s + 1 /\ DataStore(t, x).po = 4 * t + 1 /\ DataStore(s, w).to = "data"
      /\ DataStore(s, w).word = w /\ DataStore(t, x).word = x
      /\ OddStore(t).to = "version" /\ EvenStore(t).to = "version" /\ PubStore(t).to = "published"
  BY DEF OddStore, EvenStore, PubStore, DataStore, Store
<1>2. 4 * s + 1 = 4 * t + 1 <=> s = t
  OBVIOUS
<1> QED
  BY <1>1, <1>2, Zenon

Ring == 0 .. Capacity - 1

MemoryTypes ==
  /\ version \in [Ring -> Nat]
  /\ data \in [Ring -> [Words -> Nat]]
  /\ published \in Nat
  /\ producer \in [cursor : Nat, writing : BOOLEAN]

\* What may be pending: the mark of the slot being written, and the stores of
\* the last commit.
BufferHolds ==
  \A s \in buf :
    \/ producer.writing /\ s = OddStore(producer.cursor)
    \/ \E seq \in Nat : /\ producer.cursor = seq + 1
                        /\ \/ s = EvenStore(seq) \/ s = PubStore(seq)
                           \/ \E w \in Words : s = DataStore(seq, w)

\* The slots of entries still to come are behind them.
Behind ==
  \A seq \in Nat :
    \/ seq > producer.cursor
    \/ seq = producer.cursor /\ (producer.writing => OddStore(seq) \in buf)
    => version[SlotOf(seq)] <= 2 * Lap(seq)

Marked ==
  producer.writing /\ OddStore(producer.cursor) \notin buf =>
    version[SlotOf(producer.cursor)] = 2 * Lap(producer.cursor) + 1

\* While the even version is pending the slot is marked, and each word is
\* there or pending; a word is pending only as long as the even version is.
Committing ==
  \A seq \in Nat :
    /\ EvenStore(seq) \in buf =>
         /\ PubStore(seq) \in buf
         /\ version[SlotOf(seq)] = 2 * Lap(seq) + 1
         /\ \A w \in Words : DataStore(seq, w) \in buf \/ data[SlotOf(seq)][w] = seq + 1
    /\ \A w \in Words : DataStore(seq, w) \in buf => EvenStore(seq) \in buf

Done ==
  \A seq \in Nat :
    seq < producer.cursor => version[SlotOf(seq)] >= 2 * Lap(seq) + 2 \/ EvenStore(seq) \in buf

Announced ==
  /\ \A seq \in Nat : PubStore(seq) \in buf => published = seq
  /\ (\A seq \in Nat : PubStore(seq) \notin buf) => published = producer.cursor

\* A slot whose version says it holds seq does.
Whole ==
  \A seq \in Nat : version[SlotOf(seq)] = 2 * Lap(seq) + 2 => data[SlotOf(seq)] = Payload(seq)

MemoryInv ==
  MemoryTypes /\ BufferHolds /\ Behind /\ Marked /\ Committing /\ Done /\ Announced /\ Whole

\* The fresh ring satisfies the memory invariant.
LEMMA InitMemory == Init => MemoryInv
<1> SUFFICES ASSUME Init PROVE MemoryInv
  OBVIOUS
<1>0. \A seq \in Nat : SlotOf(seq) \in Ring /\ Lap(seq) \in Nat
  BY DivMod DEF Ring
<1>1. MemoryTypes
  BY DEF Init, MemoryTypes, Ring
<1>2. BufferHolds /\ Marked /\ Committing /\ Done /\ Announced
  BY DEF Init, BufferHolds, Marked, Committing, Done, Announced
<1>3. Behind /\ Whole
  BY <1>0 DEF Init, Behind, Whole, Ring
<1> QED
  BY <1>1, <1>2, <1>3 DEF MemoryInv

\* The four kinds of store that can become visible, with what CanDrain says
\* about those still pending.
DrainOdd ==
  LET seq == producer.cursor
  IN  /\ producer.writing /\ OddStore(seq) \in buf
      /\ \A t \in Nat : EvenStore(t) \in buf => SlotOf(t) # SlotOf(seq)
      /\ buf' = buf \ {OddStore(seq)}
      /\ version' = [version EXCEPT ![SlotOf(seq)] = 2 * Lap(seq) + 1]
      /\ UNCHANGED <<data, published, producer, consumer>>

DrainData(seq, w) ==
  /\ producer.cursor = seq + 1 /\ DataStore(seq, w) \in buf
  /\ buf' = buf \ {DataStore(seq, w)}
  /\ data' = [data EXCEPT ![SlotOf(seq)][w] = seq + 1]
  /\ UNCHANGED <<version, published, producer, consumer>>

DrainEven(seq) ==
  /\ producer.cursor = seq + 1 /\ EvenStore(seq) \in buf
  /\ \A w \in Words : DataStore(seq, w) \notin buf
  /\ buf' = buf \ {EvenStore(seq)}
  /\ version' = [version EXCEPT ![SlotOf(seq)] = 2 * Lap(seq) + 2]
  /\ UNCHANGED <<data, published, producer, consumer>>

DrainPub(seq) ==
  /\ producer.cursor = seq + 1 /\ PubStore(seq) \in buf
  /\ EvenStore(seq) \notin buf
  /\ buf' = buf \ {PubStore(seq)}
  /\ published' = seq + 1
  /\ UNCHANGED <<version, data, producer, consumer>>

\* A pending store that becomes visible is an odd version, a payload word,
\* an even version or published: nothing else is ever in the buffer.
LEMMA DrainIs ==
  ASSUME MemoryInv, NEW s \in buf, Drain(s)
  PROVE  \/ DrainOdd
         \/ \E seq \in Nat : DrainEven(seq) \/ DrainPub(seq) \/ \E w \in Words : DrainData(seq, w)
<1>1. CASE producer.writing /\ s = OddStore(producer.cursor)
  <2> DEFINE n == producer.cursor
  <2>1. n \in Nat
    BY DEF MemoryInv, MemoryTypes
  <2>2. s.to = "version" /\ s.at = SlotOf(n) /\ s.word = NONE /\ s.val = 2 * Lap(n) + 1 /\ s.po = 4 * n
    BY <1>1 DEF OddStore, Store
  <2>3. ASSUME NEW t \in Nat, EvenStore(t) \in buf PROVE SlotOf(t) # SlotOf(n)
    <3>1. /\ EvenStore(t).to = "version" /\ EvenStore(t).at = SlotOf(t) /\ EvenStore(t).word = NONE
          /\ EvenStore(t).po = 4 * t + 2
      BY DEF EvenStore, Store
    <3>2. t < n
      <4>1. EvenStore(t) # OddStore(n)
        BY <2>1, StoresDiffer
      <4>2. PICK seq \in Nat : /\ n = seq + 1
                               /\ \/ EvenStore(t) = EvenStore(seq) \/ EvenStore(t) = PubStore(seq)
                                  \/ \E w \in Words : EvenStore(t) = DataStore(seq, w)
        BY <2>3, <4>1 DEF MemoryInv, BufferHolds
      <4>3. t = seq
        BY <4>2, StoresDiffer, WordsDiffer
      <4> QED
        BY <4>2, <4>3
    <3>3. 4 * t + 2 < 4 * n
      BY <2>1, <3>2
    <3> QED
      BY <2>2, <2>3, <3>1, <3>3 DEF Drain, CanDrain
  <2> QED
    BY <1>1, <2>2, <2>3 DEF Drain, DrainOdd
<1>2. ASSUME NEW seq \in Nat, producer.cursor = seq + 1, s = EvenStore(seq) PROVE DrainEven(seq)
  <2>1. /\ s.to = "version" /\ s.at = SlotOf(seq) /\ s.val = 2 * Lap(seq) + 2
        /\ s.po = 4 * seq + 2 /\ s.release
    BY <1>2 DEF EvenStore, Store
  <2>2. ASSUME NEW w \in Words PROVE DataStore(seq, w) \notin buf
    <3>1. DataStore(seq, w).po = 4 * seq + 1
      BY DEF DataStore, Store
    <3> QED
      BY <2>1, <3>1 DEF Drain, CanDrain
  <2> QED
    BY <1>2, <2>1, <2>2 DEF Drain, DrainEven
<1>3. ASSUME NEW seq \in Nat, producer.cursor = seq + 1, s = PubStore(seq) PROVE DrainPub(seq)
  <2>1. s.to = "published" /\ s.val = seq + 1 /\ s.po = 4 * seq + 3 /\ s.release
    BY <1>3 DEF PubStore, Store
  <2>2. EvenStore(seq).po = 4 * seq + 2
    BY DEF EvenStore, Store
  <2> QED
    BY <1>3, <2>1, <2>2 DEF Drain, CanDrain, DrainPub
<1>4. ASSUME NEW seq \in Nat, producer.cursor = seq + 1, NEW w \in Words, s = DataStore(seq, w)
      PROVE  DrainData(seq, w)
  <2>1. s.to = "data" /\ s.at = SlotOf(seq) /\ s.word = w /\ s.val = seq + 1
    BY <1>4 DEF DataStore, Store
  <2> QED
    BY <1>4, <2>1 DEF Drain, DrainData
<1> QED
  BY <1>1, <1>2, <1>3, <1>4 DEF MemoryInv, BufferHolds

\* publish marks its slot: the odd version joins the pending stores.
LEMMA BeginMemory == MemoryInv /\ PublishBegin => MemoryInv'
<1> SUFFICES ASSUME MemoryInv, PublishBegin PROVE MemoryInv'
  OBVIOUS
<1> DEFINE n == producer.cursor
<1>1. /\ n \in Nat /\ ~producer.writing
      /\ producer' \in [cursor : Nat, writing : BOOLEAN] /\ producer'.cursor = n /\ producer'.writing
      /\ buf' = buf \cup {OddStore(n)}
      /\ UNCHANGED <<version, data, published>>
  BY Zenon DEF MemoryInv, MemoryTypes, PublishBegin
<1>2. \A seq \in Nat : /\ (EvenStore(seq) \in buf' <=> EvenStore(seq) \in buf)
                       /\ (PubStore(seq) \in buf' <=> PubStore(seq) \in buf)
                       /\ \A w \in Words : DataStore(seq, w) \in buf' <=> DataStore(seq, w) \in buf
  BY <1>1, StoresDiffer, WordsDiffer
<1> HIDE DEF n
<1>3. MemoryTypes' /\ BufferHolds' /\ Marked'
  BY <1>1 DEF n, MemoryInv, MemoryTypes, BufferHolds, Marked
<1>4. Behind'
  BY <1>1 DEF n, MemoryInv, Behind
<1>5. Committing' /\ Done' /\ Announced' /\ Whole'
  BY <1>1, <1>2 DEF n, MemoryInv, Committing, Done, Announced, Whole
<1> QED
  BY <1>3, <1>4, <1>5 DEF MemoryInv

\* publish passes its fence: the buffer is empty, so the odd version is
\* visible before any word of the payload is even issued.
LEMMA CommitMemory == MemoryInv /\ PublishCommit => MemoryInv'
<1> SUFFICES ASSUME MemoryInv, PublishCommit PROVE MemoryInv'
  OBVIOUS
<1> DEFINE n == producer.cursor
<1>1. /\ n \in Nat /\ producer.writing /\ buf = {}
      /\ producer' \in [cursor : Nat, writing : BOOLEAN] /\ producer'.cursor = n + 1 /\ ~producer'.writing
      /\ UNCHANGED <<version, data, published>>
  BY DEF MemoryInv, MemoryTypes, PublishCommit, FenceRelease
<1>2. buf' = {DataStore(n, w) : w \in Words} \cup {EvenStore(n), PubStore(n)}
  BY <1>1, CommitStoresAre DEF PublishCommit
<1> HIDE DEF n
<1>3. \A seq \in Nat : /\ (EvenStore(seq) \in buf' <=> seq = n)
                       /\ (PubStore(seq) \in buf' <=> seq = n)
                       /\ \A w \in Words : DataStore(seq, w) \in buf' <=> seq = n
  BY <1>1, <1>2, StoresDiffer, WordsDiffer
<1>4. version[SlotOf(n)] = 2 * Lap(n) + 1
  BY <1>1 DEF n, MemoryInv, Marked
<1>5. MemoryTypes' /\ BufferHolds' /\ Marked'
  BY <1>1, <1>2 DEF MemoryInv, MemoryTypes, BufferHolds, Marked
<1>6. Behind'
  BY <1>1 DEF n, MemoryInv, Behind
<1>7. Committing'
  BY <1>1, <1>3, <1>4 DEF Committing
<1>8. Done'
  <2>1. \A seq \in Nat : seq < n + 1 => seq < n \/ seq = n
    BY <1>1
  <2> QED
    BY <1>1, <1>3, <2>1 DEF n, MemoryInv, Done
<1>9. Announced' /\ Whole'
  <2>1. published = n
    BY <1>1 DEF n, MemoryInv, Announced
  <2> QED
    BY <1>1, <1>3, <2>1 DEF MemoryInv, Announced, Whole
<1> QED
  BY <1>5, <1>6, <1>7, <1>8, <1>9 DEF MemoryInv

\* The odd version becomes visible: the old entry is no longer readable.
LEMMA OddMemory == MemoryInv /\ DrainOdd => MemoryInv'
<1> SUFFICES ASSUME MemoryInv, DrainOdd PROVE MemoryInv'
  OBVIOUS
<1> DEFINE n == producer.cursor
<1>1. /\ n \in Nat /\ producer.writing /\ OddStore(n) \in buf
      /\ buf' = buf \ {OddStore(n)}
      /\ version' = [version EXCEPT ![SlotOf(n)] = 2 * Lap(n) + 1]
      /\ \A t \in Nat : EvenStore(t) \in buf => SlotOf(t) # SlotOf(n)
      /\ UNCHANGED <<data, published, producer>>
      /\ version \in [Ring -> Nat]
  BY DEF MemoryInv, MemoryTypes, DrainOdd
<1>2. \A seq \in Nat : SlotOf(seq) \in Ring /\ Lap(seq) \in Nat
  BY DivMod DEF Ring
<1>3. \A seq \in Nat : /\ (EvenStore(seq) \in buf' <=> EvenStore(seq) \in buf)
                       /\ (PubStore(seq) \in buf' <=> PubStore(seq) \in buf)
                       /\ \A w \in Words : DataStore(seq, w) \in buf' <=> DataStore(seq, w) \in buf
  BY <1>1, StoresDiffer, WordsDiffer
<1>4. version[SlotOf(n)] <= 2 * Lap(n)
  BY <1>1 DEF n, MemoryInv, Behind
<1> HIDE DEF n
<1>5. \A seq \in Nat : version'[SlotOf(seq)] = IF SlotOf(seq) = SlotOf(n) THEN 2 * Lap(n) + 1 ELSE version[SlotOf(seq)]
  BY <1>1, <1>2
<1>6. MemoryTypes' /\ BufferHolds' /\ Marked'
  <2>1. 2 * Lap(n) + 1 \in Nat
    BY <1>1, <1>2
  <2>2. version' \in [Ring -> Nat]
    BY <1>1, <1>2, <2>1
  <2>3. BufferHolds' /\ Marked'
    BY <1>1, <1>5 DEF n, MemoryInv, BufferHolds, Marked
  <2> QED
    BY <1>1, <2>2, <2>3 DEF MemoryInv, MemoryTypes
<1>7. Behind'
  <2> SUFFICES ASSUME NEW seq \in Nat, seq > n PROVE version'[SlotOf(seq)] <= 2 * Lap(seq)
    BY <1>1 DEF Behind, n
  <2>1. CASE SlotOf(seq) = SlotOf(n)
    BY <1>1, <1>2, <1>5, <2>1, SameSlot
  <2>2. CASE SlotOf(seq) # SlotOf(n)
    BY <1>5, <2>2 DEF n, MemoryInv, Behind
  <2> QED
    BY <2>1, <2>2
<1>8. Committing'
  BY <1>1, <1>3, <1>5 DEF MemoryInv, Committing
<1>9. Done'
  <2> SUFFICES ASSUME NEW seq \in Nat, seq < n, EvenStore(seq) \notin buf
               PROVE  version'[SlotOf(seq)] >= 2 * Lap(seq) + 2
    BY <1>1, <1>3 DEF Done, n
  <2>1. version[SlotOf(seq)] >= 2 * Lap(seq) + 2 /\ version[SlotOf(seq)] \in Nat
    BY <1>1, <1>2 DEF n, MemoryInv, Done
  <2>2. version'[SlotOf(seq)] >= version[SlotOf(seq)] /\ version'[SlotOf(seq)] \in Nat
    BY <1>1, <1>2, <1>4, <1>5, <2>1
  <2> QED
    BY <1>2, <2>1, <2>2
<1>10. Announced'
  BY <1>1, <1>3 DEF MemoryInv, Announced
<1>11. Whole'
  <2> SUFFICES ASSUME NEW seq \in Nat, version'[SlotOf(seq)] = 2 * Lap(seq) + 2
               PROVE  data[SlotOf(seq)] = Payload(seq)
    BY <1>1 DEF Whole
  <2>1. SlotOf(seq) # SlotOf(n)
    BY <1>1, <1>2, <1>5
  <2> QED
    BY <1>5, <2>1 DEF MemoryInv, Whole
<1> QED
  BY <1>6, <1>7, <1>8, <1>9, <1>10, <1>11 DEF MemoryInv

\* A payload word becomes visible, in a slot whose version is odd.
LEMMA DataMemory ==
  ASSUME MemoryInv, NEW n \in Nat, NEW x \in Words, DrainData(n, x)
  PROVE  MemoryInv'
<1>1. /\ producer.cursor = n + 1 /\ DataStore(n, x) \in buf
      /\ buf' = buf \ {DataStore(n, x)}
      /\ data' = [data EXCEPT ![SlotOf(n)][x] = n + 1]
      /\ UNCHANGED <<version, published, producer>>
      /\ data \in [Ring -> [Words -> Nat]]
  BY DEF MemoryInv, MemoryTypes, DrainData
<1>2. \A seq \in Nat : SlotOf(seq) \in Ring /\ Lap(seq) \in Nat
  BY DivMod DEF Ring
<1>3. \A seq \in Nat : /\ (EvenStore(seq) \in buf' <=> EvenStore(seq) \in buf)
                       /\ (PubStore(seq) \in buf' <=> PubStore(seq) \in buf)
                       /\ (OddStore(seq) \in buf' <=> OddStore(seq) \in buf)
                       /\ \A w \in Words : DataStore(seq, w) \in buf' <=>
                                             DataStore(seq, w) \in buf /\ (seq # n \/ w # x)
  BY <1>1, StoresDiffer, WordsDiffer
<1>4. version[SlotOf(n)] = 2 * Lap(n) + 1
  BY <1>1 DEF MemoryInv, Committing
<1>5. \A seq \in Nat, w \in Words :
        data'[SlotOf(seq)][w] = IF SlotOf(seq) = SlotOf(n) /\ w = x THEN n + 1 ELSE data[SlotOf(seq)][w]
  BY <1>1, <1>2
<1>6. MemoryTypes' /\ BufferHolds' /\ Marked'
  <2>1. data' \in [Ring -> [Words -> Nat]]
    BY <1>1, <1>2
  <2>2. BufferHolds'
    BY <1>1 DEF MemoryInv, BufferHolds
  <2>3. Marked'
    BY <1>1, <1>3 DEF MemoryInv, Marked, MemoryTypes
  <2> QED
    BY <1>1, <2>1, <2>2, <2>3 DEF MemoryInv, MemoryTypes
<1>7. Behind' /\ Done' /\ Announced'
  BY <1>1, <1>3 DEF MemoryInv, Behind, Done, Announced
<1>8. Committing'
  <2> SUFFICES ASSUME NEW seq \in Nat
               PROVE  /\ EvenStore(seq) \in buf =>
                           /\ PubStore(seq) \in buf
                           /\ version[SlotOf(seq)] = 2 * Lap(seq) + 1
                           /\ \A w \in Words : DataStore(seq, w) \in buf' \/ data'[SlotOf(seq)][w] = seq + 1
                      /\ \A w \in Words : DataStore(seq, w) \in buf' => EvenStore(seq) \in buf
    BY <1>1, <1>3 DEF Committing
  <2>1. ASSUME EvenStore(seq) \in buf, NEW w \in Words, DataStore(seq, w) \notin buf'
        PROVE  data'[SlotOf(seq)][w] = seq + 1
    <3>1. EvenStore(n) \in buf
      BY <1>1 DEF MemoryInv, Committing
    <3>2. SlotOf(seq) = SlotOf(n) => seq = n
      BY <1>2, <1>4, <2>1, SameSlot DEF MemoryInv, Committing
    <3>3. CASE seq = n /\ w = x
      BY <1>5, <3>3
    <3>4. CASE seq # n \/ w # x
      BY <1>3, <1>5, <2>1, <3>2, <3>4 DEF MemoryInv, Committing
    <3> QED
      BY <3>3, <3>4
  <2> QED
    BY <1>1, <1>3, <2>1 DEF MemoryInv, Committing
<1>9. Whole'
  <2> SUFFICES ASSUME NEW seq \in Nat, version[SlotOf(seq)] = 2 * Lap(seq) + 2
               PROVE  data'[SlotOf(seq)] = Payload(seq)
    BY <1>1 DEF Whole
  <2>1. SlotOf(seq) # SlotOf(n)
    BY <1>2, <1>4
  <2>2. data'[SlotOf(seq)] = data[SlotOf(seq)]
    BY <1>1, <1>2, <2>1
  <2> QED
    BY <2>2 DEF MemoryInv, Whole
<1> QED
  BY <1>6, <1>7, <1>8, <1>9 DEF MemoryInv

\* The even version becomes visible: a Release store, so every word is there.
LEMMA EvenMemory ==
  ASSUME MemoryInv, NEW n \in Nat, DrainEven(n)
  PROVE  MemoryInv'
<1>1. /\ producer.cursor = n + 1 /\ EvenStore(n) \in buf
      /\ \A w \in Words : DataStore(n, w) \notin buf
      /\ buf' = buf \ {EvenStore(n)}
      /\ version' = [version EXCEPT ![SlotOf(n)] = 2 * Lap(n) + 2]
      /\ UNCHANGED <<data, published, producer>>
      /\ version \in [Ring -> Nat] /\ data \in [Ring -> [Words -> Nat]]
  BY DEF MemoryInv, MemoryTypes, DrainEven
<1>2. \A seq \in Nat : SlotOf(seq) \in Ring /\ Lap(seq) \in Nat
  BY DivMod DEF Ring
<1>3. \A seq \in Nat : /\ (EvenStore(seq) \in buf' <=> EvenStore(seq) \in buf /\ seq # n)
                       /\ (PubStore(seq) \in buf' <=> PubStore(seq) \in buf)
                       /\ (OddStore(seq) \in buf' <=> OddStore(seq) \in buf)
                       /\ \A w \in Words : DataStore(seq, w) \in buf' <=> DataStore(seq, w) \in buf
  BY <1>1, StoresDiffer, WordsDiffer
<1>4. /\ version[SlotOf(n)] = 2 * Lap(n) + 1
      /\ \A w \in Words : data[SlotOf(n)][w] = n + 1
  BY <1>1 DEF MemoryInv, Committing
<1>5. \A seq \in Nat : version'[SlotOf(seq)] = IF SlotOf(seq) = SlotOf(n) THEN 2 * Lap(n) + 2 ELSE version[SlotOf(seq)]
  BY <1>1, <1>2
<1>a. \A seq \in Nat : EvenStore(seq) \in buf /\ SlotOf(seq) = SlotOf(n) => seq = n
  BY <1>2, <1>4, SameSlot DEF MemoryInv, Committing
<1>6. MemoryTypes' /\ BufferHolds'
  <2>1. 2 * Lap(n) + 2 \in Nat
    BY <1>2
  <2>2. version' \in [Ring -> Nat]
    BY <1>1, <1>2, <2>1
  <2>3. BufferHolds'
    BY <1>1 DEF MemoryInv, BufferHolds
  <2> QED
    BY <1>1, <2>2, <2>3 DEF MemoryInv, MemoryTypes
<1>7. Marked'
  <2> SUFFICES ASSUME producer.writing, OddStore(n + 1) \notin buf
               PROVE  version'[SlotOf(n + 1)] = 2 * Lap(n + 1) + 1
    BY <1>1, <1>3 DEF Marked
  <2>1. version[SlotOf(n + 1)] = 2 * Lap(n + 1) + 1
    BY <1>1 DEF MemoryInv, Marked
  <2>2. SlotOf(n + 1) = SlotOf(n) => Lap(n) < Lap(n + 1)
    BY SameSlot
  <2>3. SlotOf(n + 1) # SlotOf(n)
    BY <1>2, <1>4, <2>1, <2>2
  <2> QED
    BY <1>5, <2>1, <2>3
<1>8. Behind'
  <2> SUFFICES ASSUME NEW seq \in Nat, seq >= n + 1, version[SlotOf(seq)] <= 2 * Lap(seq)
               PROVE  version'[SlotOf(seq)] <= 2 * Lap(seq)
    BY <1>1, <1>3 DEF MemoryInv, Behind
  <2>1. CASE SlotOf(seq) = SlotOf(n)
    BY <1>2, <1>5, <2>1, SameSlot, SMTT(60)
  <2>2. CASE SlotOf(seq) # SlotOf(n)
    BY <1>5, <2>2
  <2> QED
    BY <2>1, <2>2
<1>9. Committing'
  BY <1>1, <1>3, <1>5, <1>a DEF MemoryInv, Committing
<1>10. Done'
  <2> SUFFICES ASSUME NEW seq \in Nat, seq < n + 1, EvenStore(seq) \notin buf \/ seq = n
               PROVE  version'[SlotOf(seq)] >= 2 * Lap(seq) + 2
    BY <1>1, <1>3 DEF Done
  <2>1. CASE seq = n
    BY <1>2, <1>5, <2>1
  <2>2. CASE seq # n
    <3>1. version[SlotOf(seq)] >= 2 * Lap(seq) + 2 /\ version[SlotOf(seq)] \in Nat
      BY <1>1, <1>2, <2>2 DEF MemoryInv, Done
    <3>2. version'[SlotOf(seq)] >= version[SlotOf(seq)] /\ version'[SlotOf(seq)] \in Nat
      BY <1>2, <1>4, <1>5, <3>1
    <3> QED
      BY <1>2, <3>1, <3>2
  <2> QED
    BY <2>1, <2>2
<1>11. Announced'
  BY <1>1, <1>3 DEF MemoryInv, Announced
<1>12. Whole'
  <2> SUFFICES ASSUME NEW seq \in Nat, version'[SlotOf(seq)] = 2 * Lap(seq) + 2
               PROVE  data[SlotOf(seq)] = Payload(seq)
    BY <1>1 DEF Whole
  <2>1. CASE SlotOf(seq) = SlotOf(n)
    <3>1. seq = n
      BY <1>2, <1>5, <2>1, SameSlot
    <3>2. data[SlotOf(n)] = [w \in Words |-> n + 1]
      BY <1>1, <1>2, <1>4
    <3> QED
      BY <3>1, <3>2 DEF Payload
  <2>2. CASE SlotOf(seq) # SlotOf(n)
    BY <1>5, <2>2 DEF MemoryInv, Whole
  <2> QED
    BY <2>1, <2>2
<1> QED
  BY <1>6, <1>7, <1>8, <1>9, <1>10, <1>11, <1>12 DEF MemoryInv

\* published becomes visible: a Release store, so the even version is there.
LEMMA PubMemory ==
  ASSUME MemoryInv, NEW n \in Nat, DrainPub(n)
  PROVE  MemoryInv'
<1>1. /\ producer.cursor = n + 1 /\ PubStore(n) \in buf /\ EvenStore(n) \notin buf
      /\ buf' = buf \ {PubStore(n)} /\ published' = n + 1
      /\ UNCHANGED <<version, data, producer>>
  BY DEF DrainPub
<1>2. \A seq \in Nat : /\ (EvenStore(seq) \in buf' <=> EvenStore(seq) \in buf)
                       /\ (PubStore(seq) \in buf' <=> PubStore(seq) \in buf /\ seq # n)
                       /\ (OddStore(seq) \in buf' <=> OddStore(seq) \in buf)
                       /\ \A w \in Words : DataStore(seq, w) \in buf' <=> DataStore(seq, w) \in buf
  BY <1>1, StoresDiffer, WordsDiffer
<1>3. MemoryTypes' /\ BufferHolds'
  BY <1>1 DEF MemoryInv, MemoryTypes, BufferHolds
<1>4. Marked' /\ Behind' /\ Done' /\ Whole'
  BY <1>1, <1>2 DEF MemoryInv, Marked, Behind, Done, Whole
<1>5. \A seq \in Nat : PubStore(seq) \in buf => seq = n
  BY <1>1 DEF MemoryInv, Announced
<1>6. Committing'
  BY <1>1, <1>2, <1>5 DEF MemoryInv, Committing
<1>7. Announced'
  BY <1>1, <1>2, <1>5 DEF Announced
<1> QED
  BY <1>3, <1>4, <1>6, <1>7 DEF MemoryInv

\* Every step keeps the memory invariant: the consumers only read.
LEMMA NextMemory == MemoryInv /\ [Next]_vars => MemoryInv'
<1> SUFFICES ASSUME MemoryInv, [Next]_vars PROVE MemoryInv'
  OBVIOUS
<1>1. ASSUME UNCHANGED <<version, data, published, buf, producer>> PROVE MemoryInv'
  BY <1>1 DEF MemoryInv, MemoryTypes, BufferHolds, Behind, Marked, Committing, Done, Announced, Whole
<1>2. ASSUME NEW s \in buf, Drain(s) PROVE MemoryInv'
  BY <1>2, DrainIs, OddMemory, DataMemory, EvenMemory, PubMemory, SMTT(60)
<1>3. ASSUME NEW c \in Consumers, ConsumerStep(c) \/ \E policy \in LapPolicy : Subscribe(c, policy)
      PROVE  UNCHANGED <<version, data, published, buf, producer>>
  BY <1>3, Zenon DEF ConsumerStep, PollHalted, PollVersion, PollRead, PollRecheck, ApplyLapPolicy, Subscribe
<1>4. ASSUME UNCHANGED vars PROVE UNCHANGED <<version, data, published, buf, producer>>
  BY <1>4 DEF vars
<1> QED
  BY <1>1, <1>2, <1>3, <1>4, BeginMemory, CommitMemory DEF Next
-----------------------------------------------------------------------------
\* A slot's version never goes back.
LEMMA VersionsGrow ==
  ASSUME MemoryInv, [Next]_vars, NEW seq \in Nat
  PROVE  /\ version'[SlotOf(seq)] >= version[SlotOf(seq)]
         /\ version[SlotOf(seq)] \in Nat /\ version'[SlotOf(seq)] \in Nat
<1>1. /\ \A t \in Nat : SlotOf(t) \in Ring /\ Lap(t) \in Nat
      /\ version \in [Ring -> Nat] /\ version' \in [Ring -> Nat] /\ producer.cursor \in Nat
  BY DivMod, NextMemory, Zenon DEF MemoryInv, MemoryTypes, Ring
<1>2. CASE DrainOdd
  <2>1. version[SlotOf(producer.cursor)] <= 2 * Lap(producer.cursor)
    BY <1>1, <1>2 DEF DrainOdd, MemoryInv, Behind
  <2> QED
    BY <1>1, <1>2, <2>1 DEF DrainOdd
<1>3. ASSUME NEW n \in Nat, DrainEven(n) PROVE version'[SlotOf(seq)] >= version[SlotOf(seq)]
  <2>1. version[SlotOf(n)] = 2 * Lap(n) + 1
    BY <1>3 DEF DrainEven, MemoryInv, Committing
  <2> QED
    BY <1>1, <1>3, <2>1 DEF DrainEven
<1>4. ASSUME NEW s \in buf, Drain(s) PROVE version'[SlotOf(seq)] >= version[SlotOf(seq)]
  <2>1. \/ DrainOdd
        \/ \E n \in Nat : DrainEven(n) \/ DrainPub(n) \/ \E w \in Words : DrainData(n, w)
    BY <1>4, DrainIs
  <2>2. ASSUME NEW n \in Nat, DrainPub(n) \/ \E w \in Words : DrainData(n, w) PROVE UNCHANGED version
    BY <2>2 DEF DrainPub, DrainData
  <2> QED
    BY <1>1, <1>2, <1>3, <2>1, <2>2
<1>5. ASSUME ~\E s \in buf : Drain(s) PROVE UNCHANGED version
  BY <1>5, ZenonT(60)
     DEF Next, vars, PublishBegin, PublishCommit, ConsumerStep, PollHalted, PollVersion, PollRead,
         PollRecheck, ApplyLapPolicy, Subscribe
<1> QED
  BY <1>1, <1>4, <1>5

\* One lap further in the same slot.
LEMMA NextLap ==
  ASSUME NEW s \in Nat
  PROVE  s + Capacity \in Nat /\ SlotOf(s + Capacity) = SlotOf(s) /\ Lap(s + Capacity) = Lap(s) + 1
<1>1. Capacity \in Nat \ {0}
  BY QueueAssumption
<1>2. ASSUME NEW n \in Nat \ {0} PROVE (s + n) % n = s % n /\ (s + n) \div n = (s \div n) + 1
  OBVIOUS
<1>3. s + Capacity \in Nat
  BY <1>1
<1>4. (s + Capacity) % Capacity = s % Capacity /\ (s + Capacity) \div Capacity = (s \div Capacity) + 1
  BY <1>1, <1>2, Zenon
<1> QED
  BY <1>3, <1>4, Zenon DEF SlotOf, Lap

\* Begun and Committed in terms of the named stores.
Counts ==
  /\ Begun = producer.cursor + IF producer.writing /\ OddStore(producer.cursor) \notin buf THEN 1 ELSE 0
  /\ Committed = producer.cursor - IF \E seq \in Nat : EvenStore(seq) \in buf THEN 1 ELSE 0

\* The counts Begun and Committed, from the stores that may be pending.
LEMMA CountsAre == MemoryInv => Counts
<1> SUFFICES ASSUME MemoryInv PROVE Counts
  OBVIOUS
<1>1. producer.cursor \in Nat /\ \A n \in Nat : Lap(n) \in Nat
  BY DivMod DEF MemoryInv, MemoryTypes
<1>2. \A n \in Nat : (2 * n + 1) % 2 = 1 /\ (2 * n + 2) % 2 = 0
  OBVIOUS
<1>3. \A n \in Nat : OddStore(n).to = "version" /\ OddStore(n).val % 2 = 1
  BY <1>1, <1>2, Zenon DEF OddStore, Store
<1>4. \A n \in Nat : EvenStore(n).to = "version" /\ EvenStore(n).val % 2 = 0
  BY <1>1, <1>2, Zenon DEF EvenStore, Store
<1>5. \A n \in Nat : PubStore(n).to = "published" /\ \A w \in Words : DataStore(n, w).to = "data"
  BY DEF PubStore, DataStore, Store
<1>6. (\E s \in buf : s.to = "version" /\ s.val % 2 = 1) <=> producer.writing /\ OddStore(producer.cursor) \in buf
  <2>1. ASSUME NEW s \in buf, s.to = "version", s.val % 2 = 1
        PROVE  producer.writing /\ s = OddStore(producer.cursor)
    <3>1. s.val % 2 # 0
      BY <2>1
    <3> QED
      BY <1>4, <1>5, <2>1, <3>1, Zenon DEF MemoryInv, BufferHolds
  <2> QED
    BY <1>1, <1>3, <2>1, Zenon
<1>7. (\E s \in buf : s.to = "version" /\ s.val % 2 = 0) <=> \E seq \in Nat : EvenStore(seq) \in buf
  <2>1. ASSUME NEW s \in buf, s.to = "version", s.val % 2 = 0
        PROVE  \E seq \in Nat : s = EvenStore(seq)
    <3>1. s.val % 2 # 1
      BY <2>1
    <3> QED
      BY <1>1, <1>3, <1>5, <2>1, <3>1, Zenon DEF MemoryInv, BufferHolds
  <2> QED
    BY <1>4, <2>1, Zenon
<1> QED
  BY <1>6, <1>7 DEF Begun, Committed, Counts

\* The pending commit is of the entry before the cursor.
LEMMA PendingIsLast ==
  ASSUME MemoryInv, NEW seq \in Nat
  PROVE  /\ EvenStore(seq) \in buf => producer.cursor = seq + 1
         /\ PubStore(seq) \in buf => producer.cursor = seq + 1
<1>1. producer.cursor \in Nat
  BY DEF MemoryInv, MemoryTypes
<1> QED
  BY <1>1, StoresDiffer, WordsDiffer DEF MemoryInv, BufferHolds

\* How far the counts lie apart.
Ordered ==
  /\ producer.cursor \in Nat /\ Begun \in Nat /\ Committed \in Nat /\ published \in Nat
  /\ producer.cursor <= Begun /\ Begun <= producer.cursor + 1
  /\ published <= Committed /\ Committed <= producer.cursor /\ producer.cursor <= published + 1

\* The counts are ordered, and no more than two entries apart.
LEMMA CountsOrdered == MemoryInv => Ordered
<1> SUFFICES ASSUME MemoryInv PROVE Ordered
  OBVIOUS
<1>1. producer.cursor \in Nat /\ published \in Nat
  BY DEF MemoryInv, MemoryTypes
<1>2. CASE \E seq \in Nat : EvenStore(seq) \in buf
  <2>1. PICK seq \in Nat : EvenStore(seq) \in buf
    BY <1>2
  <2>2. producer.cursor = seq + 1 /\ published = seq
    BY <2>1, PendingIsLast DEF MemoryInv, Committing, Announced
  <2> QED
    BY <1>1, <1>2, <2>2, CountsAre DEF Counts, Ordered
<1>3. CASE ~\E seq \in Nat : EvenStore(seq) \in buf
  <2>1. ASSUME NEW seq \in Nat, PubStore(seq) \in buf PROVE producer.cursor = seq + 1 /\ published = seq
    BY <2>1, PendingIsLast DEF MemoryInv, Announced
  <2>2. published = producer.cursor \/ producer.cursor = published + 1
    BY <1>1, <2>1 DEF MemoryInv, Announced
  <2> QED
    BY <1>1, <1>3, <2>2, CountsAre DEF Counts, Ordered
<1> QED
  BY <1>2, <1>3

\* What a reader learns from a slot's version: that its entry is there, or
\* that it is being, or has been, overwritten.
LEMMA VersionTells ==
  ASSUME MemoryInv, NEW seq \in Nat
  PROVE  /\ version[SlotOf(seq)] = 2 * Lap(seq) + 2 <=> seq < Committed /\ Begun <= seq + Capacity
         /\ version[SlotOf(seq)] > 2 * Lap(seq) + 2 <=> Begun > seq + Capacity
<1> DEFINE v == version[SlotOf(seq)]
           l == Lap(seq)
           n == producer.cursor
           t == seq + Capacity
<1>1. /\ l \in Nat /\ v \in Nat /\ n \in Nat
  BY DivMod, Zenon DEF MemoryInv, MemoryTypes, Ring
<1>2. t \in Nat /\ SlotOf(t) = SlotOf(seq) /\ Lap(t) = l + 1 /\ Capacity \in Nat \ {0}
  BY NextLap, QueueAssumption
<1>3. /\ Begun = n + IF producer.writing /\ OddStore(n) \notin buf THEN 1 ELSE 0
      /\ Committed = n - IF \E k \in Nat : EvenStore(k) \in buf THEN 1 ELSE 0
  BY CountsAre DEF Counts
<1>4. v >= 2 * l + 2 => seq < Committed
  <2> SUFFICES ASSUME v >= 2 * l + 2 PROVE seq < Committed
    OBVIOUS
  <2>1. seq < n
    BY <1>1 DEF MemoryInv, Behind, Marked
  <2>2. EvenStore(seq) \notin buf
    BY <1>1 DEF MemoryInv, Committing
  <2>3. \A k \in Nat : EvenStore(k) \in buf => n = k + 1 /\ k # seq
    BY <2>2, PendingIsLast
  <2> QED
    BY <1>1, <1>3, <2>1, <2>3
<1>5. v < 2 * l + 2 => seq >= Committed
  <2> SUFFICES ASSUME v < 2 * l + 2, seq < n PROVE seq >= Committed
    BY <1>1, <1>3
  <2>1. EvenStore(seq) \in buf
    BY <1>1 DEF MemoryInv, Done
  <2> QED
    BY <1>1, <1>3, <2>1, PendingIsLast
<1>6. v > 2 * l + 2 => Begun > t
  <2> SUFFICES ASSUME v > 2 * l + 2 PROVE Begun > t
    OBVIOUS
  <2>1. ~(version[SlotOf(t)] <= 2 * Lap(t))
    BY <1>1, <1>2
  <2>2. t < n \/ (t = n /\ producer.writing /\ OddStore(n) \notin buf)
    BY <1>1, <1>2, <2>1 DEF MemoryInv, Behind
  <2> QED
    BY <1>1, <1>2, <1>3, <2>2
<1>7. Begun > t => v > 2 * l + 2
  <2> SUFFICES ASSUME Begun > t PROVE v > 2 * l + 2
    OBVIOUS
  <2>1. t < n \/ (t = n /\ producer.writing /\ OddStore(n) \notin buf)
    BY <1>1, <1>2, <1>3
  <2>2. version[SlotOf(t)] >= 2 * Lap(t) + 1
    <3>1. CASE t < n
      BY <1>1, <1>2, <3>1 DEF MemoryInv, Done, Committing
    <3>2. CASE t = n /\ producer.writing /\ OddStore(n) \notin buf
      BY <1>1, <1>2, <3>2 DEF MemoryInv, Marked
    <3> QED
      BY <2>1, <3>1, <3>2
  <2> QED
    BY <1>1, <1>2, <2>2
<1>8. Begun \in Nat /\ Committed \in Nat
  BY CountsOrdered DEF Ordered
<1> HIDE DEF v, l, t
<1>9. /\ v = 2 * l + 2 <=> seq < Committed /\ Begun <= t
      /\ v > 2 * l + 2 <=> Begun > t
  BY <1>1, <1>2, <1>4, <1>5, <1>6, <1>7, <1>8
<1> QED
  BY <1>9 DEF v, l, t

\* CountsAre, in the next state.
LEMMA CountsArePrimed == MemoryInv' => Counts'
  BY CountsAre, PTL

\* CountsOrdered, in the next state.
LEMMA CountsOrderedPrimed == MemoryInv' => Ordered'
  BY CountsOrdered, PTL

\* What each step does to the counts of begun, committed and announced entries.
LEMMA CountsMove ==
  ASSUME MemoryInv, [Next]_vars
  PROVE  /\ producer'.cursor >= producer.cursor /\ Begun' >= Begun
         /\ \/ UNCHANGED <<Begun, Committed, published>>
            \/ Begun' = Begun + 1 /\ Begun <= published + 1 /\ UNCHANGED <<Committed, published, consumer>>
            \/ Committed' = Committed + 1 /\ Committed < Begun /\ UNCHANGED <<Begun, published, consumer>>
            \/ published' = published + 1 /\ published < Committed /\ UNCHANGED <<Begun, Committed, consumer>>
         /\ UNCHANGED consumer \/ UNCHANGED <<version, data, published, buf, producer>>
<1> DEFINE n == producer.cursor
           odd == producer.writing /\ OddStore(n) \notin buf
           even == \E seq \in Nat : EvenStore(seq) \in buf
<1>0. MemoryInv' /\ n \in Nat /\ producer.writing \in BOOLEAN
  BY NextMemory DEF MemoryInv, MemoryTypes
<1>1. /\ Begun = n + (IF odd THEN 1 ELSE 0) /\ Begun' = n' + (IF odd' THEN 1 ELSE 0)
      /\ Committed = n - (IF even THEN 1 ELSE 0) /\ Committed' = n' - (IF even' THEN 1 ELSE 0)
  BY <1>0, CountsAre, CountsArePrimed DEF Counts
<1>2. /\ n <= Begun /\ Committed <= n /\ n <= published + 1 /\ published <= Committed
      /\ Begun \in Nat /\ Committed \in Nat /\ published \in Nat
  BY CountsOrdered DEF Ordered
<1> DEFINE Still  == UNCHANGED <<Begun, Committed, published>>
           Begin  == Begun' = Begun + 1 /\ Begun <= published + 1 /\ UNCHANGED <<Committed, published>>
           Commit == Committed' = Committed + 1 /\ Committed < Begun /\ UNCHANGED <<Begun, published>>
           Announce == published' = published + 1 /\ published < Committed /\ UNCHANGED <<Begun, Committed>>
<1>3. ASSUME PublishBegin PROVE Still /\ UNCHANGED consumer /\ n' = n
  <2>1. /\ ~producer.writing /\ n' = n /\ producer'.writing /\ buf' = buf \cup {OddStore(n)}
        /\ published' = published /\ UNCHANGED consumer
    BY <1>3 DEF PublishBegin, MemoryInv, MemoryTypes
  <2>2. ~odd /\ ~odd' /\ (even' <=> even)
    BY <1>0, <2>1, StoresDiffer
  <2> HIDE DEF n, odd, even
  <2> QED
    BY <1>1, <2>1, <2>2
<1>4. ASSUME PublishCommit PROVE Still /\ UNCHANGED consumer /\ n' = n + 1
  <2>1. /\ producer.writing /\ n' = n + 1 /\ ~producer'.writing /\ buf = {} /\ EvenStore(n) \in buf'
        /\ published' = published /\ UNCHANGED consumer
    BY <1>0, <1>4, CommitStoresAre DEF PublishCommit, FenceRelease
  <2>2. odd /\ ~odd' /\ ~even /\ even'
    BY <1>0, <2>1
  <2> HIDE DEF n, odd, even
  <2> QED
    BY <1>0, <1>1, <2>1, <2>2
<1>5. ASSUME DrainOdd PROVE Begin /\ UNCHANGED consumer /\ n' = n
  <2>1. /\ producer.writing /\ OddStore(n) \in buf /\ buf' = buf \ {OddStore(n)}
        /\ UNCHANGED <<producer, published, consumer>>
    BY <1>5 DEF DrainOdd
  <2>2. ~odd /\ odd' /\ (even' <=> even)
    BY <1>0, <2>1, StoresDiffer
  <2>3. n' = n
    BY <2>1
  <2> HIDE DEF n, odd, even
  <2> QED
    BY <1>0, <1>1, <1>2, <2>1, <2>2, <2>3
<1>6. ASSUME NEW s \in Nat, DrainEven(s) PROVE Commit /\ UNCHANGED consumer /\ n' = n
  <2>1. /\ n = s + 1 /\ EvenStore(s) \in buf /\ buf' = buf \ {EvenStore(s)}
        /\ UNCHANGED <<producer, published, consumer>>
    BY <1>6 DEF DrainEven
  <2>2. \A k \in Nat : EvenStore(k) \in buf => k = s
    BY <2>1, PendingIsLast
  <2>3. even /\ ~even' /\ (odd' <=> odd) /\ n' = n
    BY <1>0, <2>1, <2>2, StoresDiffer
  <2> HIDE DEF n, odd, even
  <2> QED
    BY <1>0, <1>1, <1>2, <2>1, <2>3
<1>7. ASSUME NEW s \in Nat, DrainPub(s) PROVE Announce /\ UNCHANGED consumer /\ n' = n
  <2>1. /\ n = s + 1 /\ PubStore(s) \in buf /\ EvenStore(s) \notin buf /\ buf' = buf \ {PubStore(s)}
        /\ published' = s + 1 /\ UNCHANGED <<producer, consumer>>
    BY <1>7 DEF DrainPub
  <2>2. published = s
    BY <2>1 DEF MemoryInv, Announced
  <2>3. ~even
    BY <2>1, PendingIsLast
  <2>4. ~even' /\ (odd' <=> odd) /\ n' = n
    BY <1>0, <2>1, <2>3, StoresDiffer
  <2> HIDE DEF n, odd, even
  <2> QED
    BY <1>0, <1>1, <2>1, <2>2, <2>3, <2>4
<1>8. ASSUME NEW s \in Nat, NEW w \in Words, DrainData(s, w) PROVE Still /\ UNCHANGED consumer /\ n' = n
  <2>1. buf' = buf \ {DataStore(s, w)} /\ UNCHANGED <<producer, published, consumer>>
    BY <1>8 DEF DrainData
  <2>2. (even' <=> even) /\ (odd' <=> odd) /\ n' = n
    BY <1>0, <2>1, WordsDiffer
  <2> HIDE DEF n, odd, even
  <2> QED
    BY <1>1, <2>1, <2>2
<1>9. ASSUME UNCHANGED <<version, data, published, buf, producer>> PROVE Still /\ n' = n
  BY <1>9, SMTT(60) DEF Begun, Committed
<1>10. ASSUME NEW c \in Consumers, ConsumerStep(c) \/ \E policy \in LapPolicy : Subscribe(c, policy)
       PROVE  UNCHANGED <<version, data, published, buf, producer>>
  BY <1>10, Zenon DEF ConsumerStep, PollHalted, PollVersion, PollRead, PollRecheck, ApplyLapPolicy, Subscribe
<1>11. ASSUME UNCHANGED vars PROVE UNCHANGED <<version, data, published, buf, producer>>
  BY <1>11 DEF vars
<1>12. \/ (Still \/ Begin \/ Commit \/ Announce) /\ UNCHANGED consumer /\ (n' = n \/ n' = n + 1)
       \/ UNCHANGED <<version, data, published, buf, producer>> /\ Still /\ n' = n
  <2>1. ASSUME NEW s \in buf, Drain(s)
        PROVE  (Still \/ Begin \/ Commit \/ Announce) /\ UNCHANGED consumer /\ n' = n
    <3>1. \/ DrainOdd
          \/ \E seq \in Nat : DrainEven(seq) \/ DrainPub(seq) \/ \E w \in Words : DrainData(seq, w)
      BY <2>1, DrainIs
    <3> HIDE DEF Still, Begin, Commit, Announce, n
    <3> QED
      BY <3>1, <1>5, <1>6, <1>7, <1>8
  <2> HIDE DEF Still, Begin, Commit, Announce, n
  <2> QED
    BY <2>1, <1>3, <1>4, <1>9, <1>10, <1>11 DEF Next
<1> QED
  BY <1>0, <1>2, <1>12
-----------------------------------------------------------------------------

Copies == UNION {[D -> Nat] : D \in SUBSET Words}

Polls == [pc : {"unsubscribed", "idle", "reading", "lapped", "panicked"}, v1 : Nat, got : Copies]

Answers ==
  {NONE, [kind |-> "Empty"]}
  \cup {[kind |-> "Ready", seq |-> n, data |-> d] : n \in Nat, d \in Copies}
  \cup {[kind |-> k, seq |-> n, lost |-> l] : k \in {"Halted", "Panicked", "Skipped"}, n \in Nat, l \in Int}

Policies == LapPolicy \cup {NONE}

Halts == Int \cup {NONE}

Reader == [cursor : Nat, policy : Policies, halted : Halts, last : Answers, poll : Polls]

\* A poll under way: the version it saw was its entry's, and as long as the
\* slot has that version the words copied so far are the entry's.
Reads(k) ==
  k.poll.pc = "reading" =>
    /\ k.poll.v1 = 2 * Lap(k.cursor) + 2
    /\ version[SlotOf(k.cursor)] >= k.poll.v1
    /\ version[SlotOf(k.cursor)] = k.poll.v1 => \A w \in DOMAIN k.poll.got : k.poll.got[w] = k.cursor + 1

SeesLap(k) == k.poll.pc = "lapped" => Begun > k.cursor + Capacity

IsLap(lost, seq) == lost >= Capacity - 1 /\ Begun > seq + Capacity

StaysHalted(k) == k.halted # NONE => k.poll.pc = "idle" /\ IsLap(k.halted, k.cursor)

ReadyTrue(k) ==
  k.last # NONE /\ k.last.kind = "Ready" => k.last.data = Payload(k.last.seq) /\ k.last.seq < producer.cursor

LapTrue(k) ==
  k.last # NONE /\ k.last.kind \in {"Halted", "Panicked", "Skipped"} => IsLap(k.last.lost, k.last.seq)

\* A halted consumer has said so, and one not yet subscribed has said nothing.
HasTold(k) ==
  /\ k.halted # NONE => k.last = [kind |-> "Halted", seq |-> k.cursor, lost |-> k.halted]
  /\ k.poll.pc = "unsubscribed" => k.last = NONE

Truthful(k) == Reads(k) /\ SeesLap(k) /\ StaysHalted(k) /\ ReadyTrue(k) /\ LapTrue(k) /\ HasTold(k)

ConsumerInv == consumer \in [Consumers -> Reader] /\ \A c \in Consumers : Truthful(consumer[c])

QueueInv == MemoryInv /\ ConsumerInv

\* A copy in progress with one more word in it.
LEMMA CopyGrows ==
  ASSUME NEW g \in Copies, NEW w \in Words, NEW v \in Nat
  PROVE  [x \in DOMAIN g \cup {w} |-> IF x = w THEN v ELSE g[x]] \in Copies
<1>1. PICK D \in SUBSET Words : g \in [D -> Nat]
  BY DEF Copies
<1>2. [x \in D \cup {w} |-> IF x = w THEN v ELSE g[x]] \in [D \cup {w} -> Nat]
  BY <1>1
<1> QED
  BY <1>1, <1>2, ZenonT(60) DEF Copies

\* The state of a consumer between two polls.
LEMMA IdleType == Idle \in Polls /\ Idle.pc = "idle"
<1>1. [w \in {} |-> 0] \in [{} -> Nat]
  OBVIOUS
<1>2. [w \in {} |-> 0] \in Copies
  BY <1>1 DEF Copies
<1> QED
  BY <1>2 DEF Idle, Polls

\* Consumers that have not subscribed satisfy the invariant.
LEMMA InitConsumers == Init => ConsumerInv
<1> SUFFICES ASSUME Init PROVE ConsumerInv
  OBVIOUS
<1> DEFINE new == [cursor |-> 0, policy |-> NONE, halted |-> NONE, last |-> NONE,
                   poll |-> [Idle EXCEPT !.pc = "unsubscribed"]]
<1>1. NONE \in Answers /\ NONE \in Policies /\ NONE \in Halts
  BY DEF Answers, Policies, Halts
<1>2. [Idle EXCEPT !.pc = "unsubscribed"] \in Polls /\ [Idle EXCEPT !.pc = "unsubscribed"].pc = "unsubscribed"
  BY IdleType DEF Polls
<1>3. new \in Reader /\ new.poll.pc = "unsubscribed" /\ new.halted = NONE /\ new.last = NONE
  BY <1>1, <1>2, Zenon DEF Reader
<1>4. \A c \in Consumers : consumer[c] = new
  BY DEF Init
<1>5. consumer \in [Consumers -> Reader]
  BY <1>3, Zenon DEF Init
<1> HIDE DEF new
<1>6. Truthful(new)
  BY <1>3, Zenon DEF Truthful, Reads, SeesLap, StaysHalted, ReadyTrue, LapTrue, HasTold
<1> QED
  BY <1>4, <1>5, <1>6 DEF ConsumerInv

\* What was true of a consumer stays true while the producer and the memory
\* move on.
LEMMA TruthStays ==
  ASSUME MemoryInv, [Next]_vars, NEW k \in Reader, Truthful(k)
  PROVE  Truthful(k)'
<1>1. k.cursor \in Nat /\ k.poll.v1 \in Nat /\ k.last \in Answers
  BY DEF Reader, Polls
<1>2. /\ version'[SlotOf(k.cursor)] >= version[SlotOf(k.cursor)]
      /\ version[SlotOf(k.cursor)] \in Nat /\ version'[SlotOf(k.cursor)] \in Nat
  BY <1>1, VersionsGrow
<1>3. /\ Begun' >= Begun /\ producer'.cursor >= producer.cursor
      /\ Begun \in Nat /\ Begun' \in Nat /\ producer.cursor \in Nat /\ producer'.cursor \in Nat
      /\ Capacity \in Nat
  BY CountsMove, CountsOrdered, NextMemory, CountsOrderedPrimed, QueueAssumption, Zenon DEF Ordered
<1>4. k.last # NONE /\ k.last.kind # "Empty" => k.last.seq \in Nat
  BY <1>1 DEF Answers
<1>5. Reads(k)'
  BY <1>1, <1>2 DEF Truthful, Reads
<1>6. SeesLap(k)' /\ StaysHalted(k)'
  BY <1>1, <1>3 DEF Truthful, SeesLap, StaysHalted, IsLap
<1>7. ReadyTrue(k)' /\ LapTrue(k)'
  BY <1>3, <1>4 DEF Truthful, ReadyTrue, LapTrue, IsLap
<1> QED
  BY <1>5, <1>6, <1>7 DEF Truthful, HasTold

\* What a step of a consumer may show of it: nothing new, or what a reader of
\* the log does.
Shows(x, y) ==
  \/ y = x
  \/ /\ x.status = "unsubscribed"
     /\ \E p \in LapPolicy : y = [status |-> "live", policy |-> p, next |-> published, last |-> NONE]
  \/ /\ x.status = "live" /\ x.next < Committed /\ Begun <= x.next + Capacity
     /\ y = [status |-> "live", policy |-> x.policy, next |-> x.next + 1,
             last |-> [kind |-> "Ready", seq |-> x.next, data |-> Payload(x.next)]]
  \/ /\ x.status = "live" /\ ~(x.next < Committed /\ Begun <= x.next + Capacity)
     /\ y = [status |-> "live", policy |-> x.policy, next |-> x.next, last |-> [kind |-> "Empty"]]
  \/ /\ x.status = "live" /\ IsLap(published - x.next, x.next)
     /\ \/ /\ x.policy = "Halt"
           /\ y = [status |-> "halted", policy |-> x.policy, next |-> x.next,
                   last |-> [kind |-> "Halted", seq |-> x.next, lost |-> published - x.next]]
        \/ /\ x.policy = "Panic"
           /\ y = [status |-> "panicked", policy |-> x.policy, next |-> x.next,
                   last |-> [kind |-> "Panicked", seq |-> x.next, lost |-> published - x.next]]
        \/ /\ x.policy # "Halt" /\ x.policy # "Panic"
           /\ y = [status |-> "live", policy |-> x.policy, next |-> published,
                   last |-> [kind |-> "Skipped", seq |-> x.next, lost |-> published - x.next]]

\* A consumer's step, seen from outside: it moves to a state whose answers
\* are true, never back, not at all once halted, and as the log allows.
StepsTo(c, k) ==
  /\ k \in Reader
  /\ consumer' = [consumer EXCEPT ![c] = k]
  /\ Truthful(k)
  /\ consumer[c].poll.pc # "unsubscribed" => k.cursor >= consumer[c].cursor
  /\ consumer[c].halted # NONE => k.cursor = consumer[c].cursor /\ k.halted = consumer[c].halted
  /\ Shows(View(consumer[c]), View(k))

\* The state in which poll returns r.
Answered(k, r) == [k EXCEPT !.poll = Idle, !.last = r]

\* poll returns: only the answer and the poll in progress change.
LEMMA AnsweredType ==
  ASSUME NEW k \in Reader, NEW r \in Answers
  PROVE  /\ Answered(k, r) \in Reader
         /\ Answered(k, r).poll.pc = "idle" /\ Answered(k, r).last = r
         /\ Answered(k, r).cursor = k.cursor /\ Answered(k, r).halted = k.halted
         /\ Answered(k, r).policy = k.policy
<1>1. Idle \in Polls /\ Idle.pc = "idle"
  BY IdleType
<1> HIDE DEF Idle
<1> QED
  BY <1>1, Zenon DEF Answered, Reader

\* subscribe starts at published with nothing told.
LEMMA SubscribeSteps ==
  ASSUME QueueInv, NEW c \in Consumers, NEW p \in LapPolicy, Subscribe(c, p)
  PROVE  \E k \in Reader : StepsTo(c, k)
<1> DEFINE k0 == consumer[c]
           k == [k0 EXCEPT !.cursor = published, !.policy = p, !.poll = Idle]
<1>1. k0 \in Reader /\ Truthful(k0) /\ k0.poll.pc = "unsubscribed"
  BY DEF QueueInv, ConsumerInv, Subscribe
<1>2. consumer' = [consumer EXCEPT ![c] = k]
  BY Zenon DEF Subscribe
<1>3. Idle \in Polls /\ Idle.pc = "idle" /\ p \in Policies /\ published \in Nat
  BY IdleType, Zenon DEF Policies, QueueInv, MemoryInv, MemoryTypes
<1>4. k0.halted = NONE
  BY <1>1 DEF Truthful, StaysHalted
<1>5. /\ k \in Reader /\ k.poll.pc = "idle" /\ k.halted = NONE /\ k.last = k0.last
      /\ k.policy = p /\ k.cursor = published
  BY <1>1, <1>3, <1>4, Zenon DEF Reader
<1> HIDE DEF k, k0
<1>6. Truthful(k)
  BY <1>1, <1>5, Zenon DEF Truthful, Reads, SeesLap, StaysHalted, ReadyTrue, LapTrue, HasTold
<1>7. View(k0).status = "unsubscribed" /\ k0.last = NONE
  BY <1>1, <1>4, Zenon DEF View, Truthful, HasTold
<1>8. View(k) = [status |-> "live", policy |-> p, next |-> published, last |-> NONE]
  BY <1>5, <1>7, Zenon DEF View
<1>9. Shows(View(k0), View(k))
  BY <1>7, <1>8, Zenon DEF Shows
<1>10. StepsTo(c, k)
  BY <1>1, <1>2, <1>4, <1>5, <1>6, <1>9, Zenon DEF StepsTo, k0
<1> QED
  BY <1>5, <1>10

\* A halted consumer repeats its answer.
LEMMA HaltedSteps ==
  ASSUME QueueInv, NEW c \in Consumers, PollHalted(c)
  PROVE  \E k \in Reader : StepsTo(c, k)
<1> DEFINE k0 == consumer[c]
           r == [kind |-> "Halted", seq |-> k0.cursor, lost |-> k0.halted]
           k == Answered(k0, r)
<1>1. k0 \in Reader /\ Truthful(k0) /\ k0.halted # NONE
  BY DEF QueueInv, ConsumerInv, PollHalted
<1>2. consumer' = [consumer EXCEPT ![c] = k]
  BY DEF PollHalted, Return, Answered
<1>3. k0.halted \in Int /\ k0.cursor \in Nat
  BY <1>1, Zenon DEF Reader, Halts
<1>5. r \in Answers
  BY <1>3 DEF Answers
<1>6. r.kind = "Halted" /\ r.lost = k0.halted /\ r.seq = k0.cursor
  BY Zenon
<1>7. IsLap(k0.halted, k0.cursor)
  BY <1>1, Zenon DEF Truthful, StaysHalted
<1> HIDE DEF k0, r
<1>8. /\ k \in Reader /\ k.poll.pc = "idle" /\ k.last = r /\ k.cursor = k0.cursor /\ k.halted = k0.halted
      /\ k.policy = k0.policy
  BY <1>1, <1>5, AnsweredType, Zenon
<1> HIDE DEF k
<1>9. Truthful(k)
  <2>1. r = [kind |-> "Halted", seq |-> k.cursor, lost |-> k.halted]
    BY <1>8 DEF r
  <2> QED
    BY <1>1, <1>5, <1>6, <1>7, <1>8, <2>1, Zenon DEF Truthful, Reads, SeesLap, StaysHalted, ReadyTrue, LapTrue, HasTold
<1>10. k.cursor >= k0.cursor
  BY <1>3, <1>8
<1>11. k0.last = r
  BY <1>1, Zenon DEF Truthful, HasTold, r
<1>12. View(k) = View(k0)
  BY <1>1, <1>8, <1>11, Zenon DEF View
<1>13. StepsTo(c, k)
  BY <1>2, <1>8, <1>9, <1>10, <1>12, Zenon DEF StepsTo, Shows, k0
<1> QED
  BY <1>8, <1>13, Zenon

\* poll answers Empty.
LEMMA EmptySteps ==
  ASSUME QueueInv, NEW c \in Consumers, consumer[c].halted = NONE, consumer[c].poll.pc \in {"idle", "reading"},
         version[SlotOf(consumer[c].cursor)] # 2 * Lap(consumer[c].cursor) + 2,
         consumer' = [consumer EXCEPT ![c] = Answered(consumer[c], [kind |-> "Empty"])]
  PROVE  \E k \in Reader : StepsTo(c, k)
<1> DEFINE k0 == consumer[c]
           r == [kind |-> "Empty"]
           k == Answered(k0, r)
<1>1. k0 \in Reader /\ Truthful(k0) /\ k0.cursor \in Nat
  BY Zenon DEF QueueInv, ConsumerInv, Reader
<1>2. r \in Answers /\ r.kind = "Empty"
  BY DEF Answers
<1> HIDE DEF r
<1>3. /\ k \in Reader /\ k.poll.pc = "idle" /\ k.last = r /\ k.cursor = k0.cursor /\ k.halted = k0.halted
      /\ k.policy = k0.policy
  BY <1>1, <1>2, AnsweredType, Zenon
<1>4. consumer' = [consumer EXCEPT ![c] = k] /\ k0.halted = NONE
  BY Zenon DEF r
<1> HIDE DEF k, k0
<1>5. Truthful(k)
  BY <1>1, <1>2, <1>3, <1>4, Zenon DEF Truthful, Reads, SeesLap, StaysHalted, ReadyTrue, LapTrue, HasTold
<1>6. k.cursor >= k0.cursor
  BY <1>1, <1>3
<1>7. View(k0).status = "live" /\ View(k0).next = k0.cursor /\ View(k0).policy = k0.policy
  BY <1>4, Zenon DEF View, k0
<1>8. ~(k0.cursor < Committed /\ Begun <= k0.cursor + Capacity)
  BY <1>1, VersionTells, Zenon DEF QueueInv, k0
<1>9. View(k) = [status |-> "live", policy |-> k0.policy, next |-> k0.cursor, last |-> [kind |-> "Empty"]]
  BY <1>3, <1>4, Zenon DEF View, r
<1>10. Shows(View(k0), View(k))
  BY <1>7, <1>8, <1>9 DEF Shows
<1>11. StepsTo(c, k)
  BY <1>3, <1>4, <1>5, <1>6, <1>10, Zenon DEF StepsTo, k0
<1> QED
  BY <1>3, <1>11

\* The first load of the version tells whether the entry is there, not yet
\* there or overwritten.
LEMMA VersionSteps ==
  ASSUME QueueInv, NEW c \in Consumers, PollVersion(c)
  PROVE  \E k \in Reader : StepsTo(c, k)
<1> DEFINE k0 == consumer[c]
           seq == k0.cursor
           v1 == version[SlotOf(seq)]
           k(pc) == [k0 EXCEPT !.poll = [Idle EXCEPT !.pc = pc, !.v1 = v1]]
<1>1. k0 \in Reader /\ Truthful(k0) /\ seq \in Nat /\ k0.halted = NONE /\ k0.poll.pc = "idle"
  BY Zenon DEF QueueInv, ConsumerInv, Reader, PollVersion
<1>2. v1 \in Nat /\ Lap(seq) \in Nat /\ SlotOf(seq) \in Ring
  BY <1>1, DivMod DEF QueueInv, MemoryInv, MemoryTypes, Ring
<1>3. 2 * (Lap(seq) + 1) = 2 * Lap(seq) + 2
  BY <1>2
<1>4. \/ v1 > 2 * Lap(seq) + 2 /\ consumer' = [consumer EXCEPT ![c] = k("lapped")]
      \/ v1 # 2 * Lap(seq) + 2 /\ consumer' = [consumer EXCEPT ![c] = Answered(k0, [kind |-> "Empty"])]
      \/ v1 = 2 * Lap(seq) + 2 /\ consumer' = [consumer EXCEPT ![c] = k("reading")]
  <2>1. \/ IsLapped(v1, 2 * (Lap(seq) + 1)) /\ consumer' = [consumer EXCEPT ![c] = k("lapped")]
        \/ /\ v1 < 2 * (Lap(seq) + 1) \/ v1 % 2 = 1
           /\ consumer' = [consumer EXCEPT ![c] = Answered(k0, [kind |-> "Empty"])]
        \/ /\ ~IsLapped(v1, 2 * (Lap(seq) + 1)) /\ v1 >= 2 * (Lap(seq) + 1)
           /\ consumer' = [consumer EXCEPT ![c] = k("reading")]
    BY DEF PollVersion, Return, Answered
  <2> HIDE DEF k, k0, seq, v1
  <2> QED
    BY <1>2, <1>3, <2>1 DEF IsLapped
<1>5. ASSUME NEW pc \in {"lapped", "reading"}
      PROVE  /\ k(pc) \in Reader /\ k(pc).poll.pc = pc /\ k(pc).poll.v1 = v1 /\ k(pc).cursor = seq
             /\ k(pc).halted = NONE /\ k(pc).last = k0.last /\ DOMAIN k(pc).poll.got = {}
             /\ k(pc).policy = k0.policy
  <2> DEFINE q == [Idle EXCEPT !.pc = pc, !.v1 = v1]
  <2>1. Idle \in Polls /\ DOMAIN Idle.got = {}
    BY IdleType, Zenon DEF Idle
  <2>2. q \in Polls /\ q.pc = pc /\ q.v1 = v1 /\ DOMAIN q.got = {}
    BY <1>2, <2>1, Zenon DEF Polls
  <2> HIDE DEF q
  <2> QED
    BY <1>1, <2>2, ZenonT(60) DEF Reader, q
<1>6. ASSUME NEW pc \in {"lapped", "reading"}, Truthful(k(pc)), consumer' = [consumer EXCEPT ![c] = k(pc)]
      PROVE  StepsTo(c, k(pc))
  <2> DEFINE x == k(pc)
  <2>1. /\ x \in Reader /\ Truthful(x) /\ consumer' = [consumer EXCEPT ![c] = x]
        /\ x.cursor = seq /\ consumer[c].cursor = seq /\ consumer[c].halted = NONE
        /\ x.poll.pc = pc /\ x.halted = NONE /\ x.last = consumer[c].last /\ x.policy = consumer[c].policy
        /\ consumer[c].poll.pc = "idle"
    BY <1>1, <1>5, <1>6, ZenonT(60)
  <2> HIDE DEF x, k, k0, v1, seq
  <2>2. View(x) = View(consumer[c])
    BY <2>1 DEF View
  <2>3. Shows(View(consumer[c]), View(x))
    BY <2>2, Zenon DEF Shows
  <2>4. StepsTo(c, x)
    BY <1>1, <2>1, <2>3 DEF StepsTo
  <2> QED
    BY <2>4 DEF x
<1>7. CASE v1 > 2 * Lap(seq) + 2 /\ consumer' = [consumer EXCEPT ![c] = k("lapped")]
  <2>1. Begun > seq + Capacity
    BY <1>1, <1>7, VersionTells DEF QueueInv
  <2>2. Truthful(k("lapped"))
    <3> DEFINE x == k("lapped")
    <3>1. x.poll.pc = "lapped" /\ x.cursor = seq /\ x.halted = NONE /\ x.last = k0.last
      BY <1>5, Zenon
    <3> HIDE DEF x, k0, seq
    <3>2. Truthful(x)
      BY <1>1, <2>1, <3>1 DEF Truthful, Reads, SeesLap, StaysHalted, ReadyTrue, LapTrue, HasTold
    <3> QED
      BY <3>2 DEF x
  <2> QED
    BY <1>5, <1>6, <1>7, <2>2
<1>8. CASE v1 = 2 * Lap(seq) + 2 /\ consumer' = [consumer EXCEPT ![c] = k("reading")]
  <2>1. Truthful(k("reading"))
    <3> DEFINE x == k("reading")
    <3>1. /\ x.poll.pc = "reading" /\ x.cursor = seq /\ x.halted = NONE /\ x.last = k0.last
          /\ x.poll.v1 = v1 /\ DOMAIN x.poll.got = {}
      BY <1>5
    <3>2. version[SlotOf(seq)] = v1
      OBVIOUS
    <3> HIDE DEF x, k0, seq, v1
    <3>3. Truthful(x)
      BY <1>1, <1>2, <1>8, <3>1, <3>2, SMTT(60) DEF Truthful, Reads, SeesLap, StaysHalted, ReadyTrue, LapTrue, HasTold
    <3> QED
      BY <3>3 DEF x
  <2> QED
    BY <1>5, <1>6, <1>8, <2>1
<1>9. CASE v1 # 2 * Lap(seq) + 2 /\ consumer' = [consumer EXCEPT ![c] = Answered(k0, [kind |-> "Empty"])]
  BY <1>1, <1>9, EmptySteps, Zenon
<1> QED
  BY <1>4, <1>7, <1>8, <1>9

\* A copied word is the entry's if the version has not moved meanwhile.
LEMMA ReadSteps ==
  ASSUME QueueInv, NEW c \in Consumers, NEW w \in Words, PollRead(c, w)
  PROVE  \E k \in Reader : StepsTo(c, k)
<1> DEFINE k0 == consumer[c]
           seq == k0.cursor
           v == data[SlotOf(seq)][w]
           g == [x \in DOMAIN k0.poll.got \cup {w} |-> IF x = w THEN v ELSE k0.poll.got[x]]
           k == [k0 EXCEPT !.poll.got = g]
<1>1. k0 \in Reader /\ Truthful(k0) /\ seq \in Nat /\ k0.poll.pc = "reading" /\ k0.poll \in Polls
  BY DEF QueueInv, ConsumerInv, Reader, PollRead
<1>2. consumer' = [consumer EXCEPT ![c] = k]
  BY DEF PollRead
<1>3. k0.poll.got \in Copies /\ k0.poll.v1 \in Nat
  BY <1>1 DEF Polls
<1>4. SlotOf(seq) \in Ring /\ Lap(seq) \in Nat /\ v \in Nat /\ version[SlotOf(seq)] \in Nat
  BY <1>1, DivMod, ZenonT(60) DEF QueueInv, MemoryInv, MemoryTypes, Ring
<1>5. g \in Copies
  BY <1>3, <1>4, CopyGrows, Zenon
<1>6. k0.halted = NONE
  BY <1>1 DEF Truthful, StaysHalted
<1>7. version[SlotOf(seq)] = 2 * Lap(seq) + 2 => v = seq + 1
  BY <1>1, ZenonT(60) DEF QueueInv, MemoryInv, Whole, Payload
<1>8. /\ DOMAIN g = DOMAIN k0.poll.got \cup {w}
      /\ \A x \in DOMAIN g : g[x] = IF x = w THEN v ELSE k0.poll.got[x]
  OBVIOUS
<1> HIDE DEF g, v
<1>9. k.poll \in Polls /\ k.poll.pc = "reading" /\ k.poll.got = g /\ k.poll.v1 = k0.poll.v1
  BY <1>1, <1>5 DEF Reader, Polls
<1>10. k \in Reader /\ k.cursor = seq /\ k.halted = NONE /\ k.last = k0.last /\ k.policy = k0.policy
  BY <1>1, <1>5, <1>6, Zenon DEF Reader, Polls
<1>11. Reads(k)
  <2> HIDE DEF k, k0, seq
  <2>1. /\ k0.poll.v1 = 2 * Lap(seq) + 2 /\ version[SlotOf(seq)] >= k0.poll.v1
        /\ version[SlotOf(seq)] = k0.poll.v1 =>
             \A x \in DOMAIN k0.poll.got : k0.poll.got[x] = seq + 1
    BY <1>1, SMTT(60) DEF Truthful, Reads, seq
  <2> QED
    BY <1>7, <1>8, <1>9, <1>10, <2>1, Zenon DEF Reads
<1> HIDE DEF k
<1>12. Truthful(k)
  <2>1. SeesLap(k) /\ StaysHalted(k)
    BY <1>9, <1>10, Zenon DEF SeesLap, StaysHalted
  <2>2. ReadyTrue(k) /\ LapTrue(k)
    BY <1>1, <1>9, <1>10, Zenon DEF Truthful, ReadyTrue, LapTrue
  <2>3. HasTold(k)
    BY <1>1, <1>9, <1>10, Zenon DEF Truthful, HasTold
  <2> QED
    BY <1>11, <2>1, <2>2, <2>3, Zenon DEF Truthful
<1>13. k.cursor >= k0.cursor
  BY <1>1, <1>10
<1>14. View(k) = View(k0)
  <2> HIDE DEF k0
  <2> QED
    BY <1>1, <1>6, <1>9, <1>10, Zenon DEF View
<1>15. StepsTo(c, k)
  BY <1>2, <1>6, <1>10, <1>12, <1>13, <1>14, SMTT(60) DEF StepsTo, Shows
<1> QED
  BY <1>10, <1>15

\* The second load: an unmoved version proves the copy whole, a moved one
\* that the entry is gone.
LEMMA RecheckSteps ==
  ASSUME QueueInv, NEW c \in Consumers, PollRecheck(c)
  PROVE  \E k \in Reader : StepsTo(c, k)
<1> DEFINE k0 == consumer[c]
           seq == k0.cursor
           r == [kind |-> "Ready", seq |-> seq, data |-> k0.poll.got]
           k == [Answered(k0, r) EXCEPT !.cursor = seq + 1]
<1>1. k0 \in Reader /\ Truthful(k0) /\ seq \in Nat /\ k0.poll.pc = "reading" /\ DOMAIN k0.poll.got = Words
  BY Zenon DEF QueueInv, ConsumerInv, Reader, PollRecheck
<1>2. k0.poll.got \in Copies /\ k0.halted = NONE
  BY <1>1 DEF Reader, Polls, Truthful, StaysHalted
<1>3. \/ /\ k0.poll.v1 # version[SlotOf(seq)]
         /\ consumer' = [consumer EXCEPT ![c] = Answered(k0, [kind |-> "Empty"])]
      \/ k0.poll.v1 = version[SlotOf(seq)] /\ consumer' = [consumer EXCEPT ![c] = k]
  BY Zenon DEF PollRecheck, IsTorn, Return, Answered
<1>4. CASE /\ k0.poll.v1 # version[SlotOf(seq)]
           /\ consumer' = [consumer EXCEPT ![c] = Answered(k0, [kind |-> "Empty"])]
  <2>1. k0.poll.v1 = 2 * Lap(seq) + 2
    BY <1>1, Zenon DEF Truthful, Reads
  <2> QED
    BY <1>1, <1>2, <1>4, <2>1, EmptySteps, ZenonT(60)
<1>5. CASE k0.poll.v1 = version[SlotOf(seq)] /\ consumer' = [consumer EXCEPT ![c] = k]
  <2>1. r \in Answers
    BY <1>1, <1>2 DEF Answers
  <2>2. r.kind = "Ready" /\ r.seq = seq /\ r.data = k0.poll.got
    OBVIOUS
  <2>3. /\ version[SlotOf(seq)] = 2 * Lap(seq) + 2
        /\ \A w \in Words : k0.poll.got[w] = seq + 1
    BY <1>1, <1>5, Zenon DEF Truthful, Reads
  <2>4. seq < Committed
    BY <1>1, <2>3, VersionTells, Zenon DEF QueueInv
  <2>5. seq < producer.cursor
    BY <1>1, <2>4, CountsOrdered DEF QueueInv, Ordered
  <2>6. k0.poll.got = Payload(seq)
    <3>1. PICK D \in SUBSET Words : k0.poll.got \in [D -> Nat]
      BY <1>2, Zenon DEF Copies
    <3>2. k0.poll.got \in [Words -> Nat]
      BY <1>1, <3>1
    <3> QED
      BY <2>3, <3>2 DEF Payload
  <2>7. /\ k \in Reader /\ k.poll.pc = "idle" /\ k.last = r /\ k.cursor = seq + 1 /\ k.halted = NONE
        /\ k.policy = k0.policy
    <3> DEFINE a == Answered(k0, r)
    <3> HIDE DEF r
    <3>1. a \in Reader /\ a.poll.pc = "idle" /\ a.last = r /\ a.halted = NONE /\ a.policy = k0.policy
      BY <1>1, <1>2, <2>1, AnsweredType
    <3> HIDE DEF a
    <3>2. seq + 1 \in Nat /\ k = [a EXCEPT !.cursor = seq + 1]
      BY <1>1 DEF a
    <3> HIDE DEF k
    <3> QED
      BY <3>1, <3>2 DEF Reader
  <2> HIDE DEF k, r
  <2>8. Truthful(k)
    <3>1. Reads(k) /\ SeesLap(k) /\ StaysHalted(k)
      BY <2>7, Zenon DEF Reads, SeesLap, StaysHalted
    <3>2. ReadyTrue(k) /\ LapTrue(k) /\ HasTold(k)
      BY <2>2, <2>5, <2>6, <2>7, Zenon DEF ReadyTrue, LapTrue, HasTold
    <3> QED
      BY <3>1, <3>2, Zenon DEF Truthful
  <2>9. /\ View(k0).status = "live" /\ View(k0).next = seq /\ View(k0).policy = k0.policy
        /\ seq < Committed /\ Begun <= seq + Capacity
    BY <1>1, <1>2, <2>3, VersionTells, Zenon DEF View, QueueInv
  <2>10. View(k) = [status |-> "live", policy |-> k0.policy, next |-> seq + 1,
                    last |-> [kind |-> "Ready", seq |-> seq, data |-> Payload(seq)]]
    BY <2>6, <2>7, Zenon DEF View, r
  <2>11. Shows(View(k0), View(k))
    BY <2>9, <2>10, Zenon DEF Shows
  <2>12. StepsTo(c, k)
    BY <1>1, <1>2, <1>5, <2>7, <2>8, <2>11 DEF StepsTo
  <2> QED
    BY <2>7, <2>12, Zenon
<1> QED
  BY <1>3, <1>4, <1>5

\* apply_lap_policy: the count of lost entries is taken from a later load of
\* published, and is never negative.
LEMMA LapSteps ==
  ASSUME QueueInv, NEW c \in Consumers, ApplyLapPolicy(c)
  PROVE  \E k \in Reader : StepsTo(c, k)
<1> DEFINE k0 == consumer[c]
           seq == k0.cursor
           lost == published - seq
           r(kind) == [kind |-> kind, seq |-> seq, lost |-> lost]
           a(kind) == Answered(k0, r(kind))
<1>1. k0 \in Reader /\ Truthful(k0) /\ seq \in Nat /\ k0.poll.pc = "lapped"
  BY DEF QueueInv, ConsumerInv, Reader, ApplyLapPolicy
<1>2. published \in Nat /\ lost \in Int
  BY <1>1 DEF QueueInv, MemoryInv, MemoryTypes
<1>3. IsLap(lost, seq) /\ lost >= 0 /\ k0.halted = NONE
  <2>1. Begun > seq + Capacity /\ k0.halted = NONE
    BY <1>1 DEF Truthful, SeesLap, StaysHalted
  <2>2. Begun \in Nat /\ Begun <= published + 2 /\ Capacity \in Nat \ {0}
    BY CountsOrdered, QueueAssumption, SMTT(60) DEF QueueInv, Ordered
  <2> QED
    BY <1>1, <1>2, <2>1, <2>2 DEF IsLap
<1>4. ASSUME NEW kind \in {"Halted", "Panicked", "Skipped"}
      PROVE  /\ a(kind) \in Reader /\ a(kind).poll \in Polls /\ a(kind).poll.pc = "idle"
             /\ a(kind).last = r(kind) /\ a(kind).cursor = seq /\ a(kind).halted = NONE
             /\ a(kind).policy = k0.policy
             /\ r(kind).kind = kind /\ r(kind).seq = seq /\ r(kind).lost = lost
  <2>1. r(kind) \in Answers
    BY <1>1, <1>2, SMTT(60) DEF Answers
  <2>2. r(kind).kind = kind /\ r(kind).seq = seq /\ r(kind).lost = lost
    BY Zenon
  <2> HIDE DEF r, lost, seq
  <2>3. /\ a(kind) \in Reader /\ a(kind).poll.pc = "idle"
        /\ a(kind).last = r(kind) /\ a(kind).cursor = seq /\ a(kind).halted = NONE
             /\ a(kind).policy = k0.policy
    BY <1>1, <1>3, <2>1, AnsweredType, Zenon DEF seq
  <2>4. a(kind).poll \in Polls
    BY <2>3 DEF Reader
  <2> QED
    BY <2>2, <2>3, <2>4, Zenon
<1> DEFINE kH == [a("Halted") EXCEPT !.halted = lost]
           kP == [a("Panicked") EXCEPT !.poll.pc = "panicked"]
           kS == [a("Skipped") EXCEPT !.cursor = published]
<1>5. consumer' = [consumer EXCEPT ![c] = IF k0.policy = "Halt" THEN kH
                                          ELSE IF k0.policy = "Panic" THEN kP ELSE kS]
  BY Zenon DEF ApplyLapPolicy, Return, Answered, SkipTo
<1> HIDE DEF r, a, lost, seq
<1>6. /\ kH \in Reader /\ kH.poll.pc = "idle" /\ kH.last = r("Halted") /\ kH.cursor = seq /\ kH.halted = lost
      /\ kH.policy = k0.policy
  <2>1. lost \in Halts
    BY <1>2 DEF Halts
  <2> QED
    BY <1>4, <2>1 DEF Reader
<1>7. /\ kP \in Reader /\ kP.poll.pc = "panicked" /\ kP.last = r("Panicked") /\ kP.cursor = seq /\ kP.halted = NONE
      /\ kP.policy = k0.policy
  <2> DEFINE x == a("Panicked")
  <2>1. x \in Reader /\ x.poll \in Polls /\ x.last = r("Panicked") /\ x.cursor = seq /\ x.halted = NONE
        /\ x.policy = k0.policy
    BY <1>4
  <2> HIDE DEF x
  <2>2. [x.poll EXCEPT !.pc = "panicked"] \in Polls /\ [x.poll EXCEPT !.pc = "panicked"].pc = "panicked"
    BY <2>1 DEF Polls
  <2>3. kP = [x EXCEPT !.poll = [x.poll EXCEPT !.pc = "panicked"]]
    BY <2>1 DEF Reader, x
  <2> HIDE DEF kP
  <2> QED
    BY <2>1, <2>2, <2>3, Zenon DEF Reader
<1>8. /\ kS \in Reader /\ kS.poll.pc = "idle" /\ kS.last = r("Skipped") /\ kS.cursor = published /\ kS.halted = NONE
      /\ kS.policy = k0.policy
  BY <1>2, <1>4, Zenon DEF Reader
<1>9. /\ r("Halted").kind = "Halted" /\ r("Panicked").kind = "Panicked" /\ r("Skipped").kind = "Skipped"
      /\ \A kind \in {"Halted", "Panicked", "Skipped"} : r(kind).seq = seq /\ r(kind).lost = lost
  BY <1>4, Zenon
<1> HIDE DEF kH, kP, kS
<1>17. r("Halted") = [kind |-> "Halted", seq |-> kH.cursor, lost |-> kH.halted]
  BY <1>6, SMTT(60) DEF r
<1>10. Truthful(kH) /\ Truthful(kP) /\ Truthful(kS)
  <2> USE DEF Truthful, Reads, SeesLap, StaysHalted, ReadyTrue, LapTrue, HasTold
  <2>1. Truthful(kH)
    BY <1>3, <1>6, <1>9, <1>17, Zenon
  <2>2. Truthful(kP)
    BY <1>3, <1>7, <1>9, Zenon
  <2>3. Truthful(kS)
    BY <1>3, <1>8, <1>9, Zenon
  <2> QED
    BY <2>1, <2>2, <2>3, ZenonT(60)
<1>11. kH.cursor >= seq /\ kP.cursor >= seq /\ kS.cursor >= seq
  BY <1>1, <1>2, <1>3, <1>6, <1>7, <1>8, SMTT(60) DEF lost, seq
<1>12. consumer[c].cursor = seq /\ consumer[c].halted = NONE
  BY <1>3, Zenon DEF seq
<1>13. /\ View(k0).status = "live" /\ View(k0).next = seq /\ View(k0).policy = k0.policy
       /\ IsLap(published - seq, seq)
  BY <1>1, <1>3, SMTT(60) DEF View, seq, lost
<1>14. CASE k0.policy = "Halt"
  <2>1. View(kH) = [status |-> "halted", policy |-> k0.policy, next |-> seq,
                    last |-> [kind |-> "Halted", seq |-> seq, lost |-> published - seq]]
    BY <1>2, <1>6, QueueAssumption, Zenon DEF View, r, lost
  <2>2. Shows(View(k0), View(kH))
    BY <1>13, <1>14, <2>1, Zenon DEF Shows
  <2> QED
    BY <1>5, <1>6, <1>10, <1>11, <1>12, <1>14, <2>2, ZenonT(60) DEF StepsTo
<1>15. CASE k0.policy # "Halt" /\ k0.policy = "Panic"
  <2>1. View(kP) = [status |-> "panicked", policy |-> k0.policy, next |-> seq,
                    last |-> [kind |-> "Panicked", seq |-> seq, lost |-> published - seq]]
    BY <1>7, Zenon DEF View, r, lost
  <2>2. Shows(View(k0), View(kP))
    BY <1>13, <1>15, <2>1, Zenon DEF Shows
  <2> QED
    BY <1>5, <1>7, <1>10, <1>11, <1>12, <1>15, <2>2, ZenonT(60) DEF StepsTo
<1>16. CASE k0.policy # "Halt" /\ k0.policy # "Panic"
  <2>1. View(kS) = [status |-> "live", policy |-> k0.policy, next |-> published,
                    last |-> [kind |-> "Skipped", seq |-> seq, lost |-> published - seq]]
    BY <1>8, Zenon DEF View, r, lost
  <2>2. Shows(View(k0), View(kS))
    BY <1>13, <1>16, <2>1, Zenon DEF Shows
  <2> QED
    BY <1>5, <1>8, <1>10, <1>11, <1>12, <1>16, <2>2, ZenonT(60) DEF StepsTo
<1> QED
  BY <1>14, <1>15, <1>16

\* Every step of a consumer is such a step.
LEMMA ConsumerSteps ==
  ASSUME QueueInv, NEW c \in Consumers, ConsumerStep(c) \/ \E policy \in LapPolicy : Subscribe(c, policy)
  PROVE  /\ \E k \in Reader : StepsTo(c, k)
         /\ UNCHANGED <<version, data, published, buf, producer>>
<1>1. \E k \in Reader : StepsTo(c, k)
  BY SubscribeSteps, HaltedSteps, VersionSteps, ReadSteps, RecheckSteps, LapSteps DEF ConsumerStep
<1>2. UNCHANGED <<version, data, published, buf, producer>>
  BY Zenon DEF ConsumerStep, PollHalted, PollVersion, PollRead, PollRecheck, ApplyLapPolicy, Subscribe
<1> QED
  BY <1>1, <1>2

\* Every step keeps the consumers' part of the invariant.
LEMMA NextConsumers == QueueInv /\ [Next]_vars => ConsumerInv'
<1> SUFFICES ASSUME QueueInv, [Next]_vars PROVE ConsumerInv'
  OBVIOUS
<1>0. consumer \in [Consumers -> Reader] /\ \A c \in Consumers : Truthful(consumer[c])
  BY DEF QueueInv, ConsumerInv
<1>1. \A k \in Reader : Truthful(k) => Truthful(k)'
  BY TruthStays, SMTT(60) DEF QueueInv
<1>2. ASSUME NEW d \in Consumers, NEW j \in Reader, consumer'[d] = j, Truthful(j)
      PROVE  Truthful(consumer[d])'
  <2>1. Truthful(j)'
    BY <1>1, <1>2, SMTT(60)
  <2>2. Reads(consumer[d])'
    BY <1>2, <2>1, Zenon DEF Truthful, Reads
  <2>3. SeesLap(consumer[d])' /\ StaysHalted(consumer[d])'
    BY <1>2, <2>1, Zenon DEF Truthful, SeesLap, StaysHalted, IsLap
  <2>4. ReadyTrue(consumer[d])' /\ LapTrue(consumer[d])'
    BY <1>2, <2>1, Zenon DEF Truthful, ReadyTrue, LapTrue, IsLap
  <2>5. HasTold(consumer[d])'
    BY <1>2, <2>1, Zenon DEF Truthful, HasTold
  <2> QED
    BY <2>2, <2>3, <2>4, <2>5 DEF Truthful
<1>3. ASSUME consumer' \in [Consumers -> Reader],
             \A d \in Consumers : \E j \in Reader : consumer'[d] = j /\ Truthful(j)
      PROVE  ConsumerInv'
  BY <1>2, <1>3 DEF ConsumerInv
<1>4. CASE UNCHANGED consumer
  <2>1. \A d \in Consumers : \E j \in Reader : consumer'[d] = j /\ Truthful(j)
    BY <1>0, <1>4
  <2> QED
    BY <1>0, <1>3, <1>4, <2>1
<1>5. ASSUME NEW c \in Consumers, ConsumerStep(c) \/ \E policy \in LapPolicy : Subscribe(c, policy)
      PROVE  ConsumerInv'
  <2>1. PICK k \in Reader : StepsTo(c, k)
    BY <1>5, ConsumerSteps, Zenon
  <2>2. consumer' = [consumer EXCEPT ![c] = k] /\ Truthful(k)
    BY <2>1 DEF StepsTo
  <2>3. consumer' \in [Consumers -> Reader]
    BY <1>0, <2>2
  <2>4. \A d \in Consumers : \E j \in Reader : consumer'[d] = j /\ Truthful(j)
    BY <1>0, <2>2
  <2> QED
    BY <1>3, <2>3, <2>4
<1>6. ~UNCHANGED consumer =>
        \E c \in Consumers : ConsumerStep(c) \/ \E policy \in LapPolicy : Subscribe(c, policy)
  BY Zenon DEF Next, vars, PublishBegin, PublishCommit, Drain
<1> QED
  BY <1>4, <1>5, <1>6

\* Every reachable state satisfies the invariant.
THEOREM QueueInvariant == Spec => []QueueInv
<1>1. Init => QueueInv
  BY InitMemory, InitConsumers DEF QueueInv
<1>2. QueueInv /\ [Next]_vars => QueueInv'
  BY NextMemory, NextConsumers DEF QueueInv
<1> QED
  BY <1>1, <1>2, PTL DEF Spec

\* For every capacity, every number of readers and every payload size: what
\* poll returns as Ready is the whole payload published under that number.
THEOREM NoTornReads == Spec => []ReadyIsPublished
<1>1. QueueInv => ReadyIsPublished
  BY Zenon DEF QueueInv, ConsumerInv, Truthful, ReadyTrue, ReadyIsPublished
<1> QED
  BY <1>1, QueueInvariant, PTL

\* A reported lap is one, and the subtraction in apply_lap_policy never
\* underflows.
THEOREM LapsAreReal == Spec => []LapReportIsTrue
<1>1. QueueInv => LapReportIsTrue
  BY DEF QueueInv, ConsumerInv, Truthful, LapTrue, IsLap, LapReportIsTrue
<1> QED
  BY <1>1, QueueInvariant, PTL

\* published never runs ahead of the slots it announces.
THEOREM AnnouncedIsReadable == Spec => []PublishedIsReadable
<1>1. QueueInv => PublishedIsReadable
  <2> SUFFICES ASSUME QueueInv, NEW seq \in 0 .. published - 1
               PROVE  version[SlotOf(seq)] >= 2 * (Lap(seq) + 1)
    BY DEF PublishedIsReadable
  <2>1. published \in Nat /\ Committed \in Nat /\ Begun \in Nat /\ published <= Committed /\ Capacity \in Nat
    BY CountsOrdered, QueueAssumption DEF QueueInv, Ordered
  <2>2. seq \in Nat /\ seq < Committed
    BY <2>1
  <2>3. Lap(seq) \in Nat /\ version[SlotOf(seq)] \in Nat
    BY <2>2, DivMod DEF QueueInv, MemoryInv, MemoryTypes, Ring
  <2>4. version[SlotOf(seq)] >= 2 * Lap(seq) + 2
    BY <2>1, <2>2, <2>3, VersionTells DEF QueueInv
  <2> QED
    BY <2>3, <2>4
<1> QED
  BY <1>1, QueueInvariant, PTL

\* A consumer's cursor never goes back, and a halted one never moves.
THEOREM CursorsAdvance == Spec => CursorNeverGoesBack
<1> DEFINE Forward ==
      \A c \in Consumers :
        /\ consumer[c].poll.pc # "unsubscribed" => consumer'[c].cursor >= consumer[c].cursor
        /\ consumer[c].halted # NONE =>
             /\ consumer'[c].cursor = consumer[c].cursor
             /\ consumer'[c].halted = consumer[c].halted
<1>1. QueueInv /\ [Next]_vars => [Forward]_vars
  <2> SUFFICES ASSUME QueueInv, Next PROVE Forward
    OBVIOUS
  <2>0. consumer \in [Consumers -> Reader] /\ \A d \in Consumers : consumer[d].cursor \in Nat
    BY DEF QueueInv, ConsumerInv, Reader
  <2>1. CASE UNCHANGED consumer
    BY <2>0, <2>1
  <2>2. ASSUME NEW c \in Consumers, ConsumerStep(c) \/ \E policy \in LapPolicy : Subscribe(c, policy)
        PROVE  Forward
    <3>1. PICK k \in Reader : StepsTo(c, k)
      BY <2>2, ConsumerSteps
    <3> QED
      BY <2>0, <3>1 DEF StepsTo
  <2>3. ~UNCHANGED consumer =>
          \E c \in Consumers : ConsumerStep(c) \/ \E policy \in LapPolicy : Subscribe(c, policy)
    BY Zenon DEF Next, PublishBegin, PublishCommit, Drain
  <2> QED
    BY <2>1, <2>2, <2>3, Zenon
<1> QED
  BY <1>1, QueueInvariant, PTL DEF Spec, CursorNeverGoesBack

-----------------------------------------------------------------------------
\* The ring before its first publish is the log before its first entry.
LEMMA InitLog == Init => Log!Init
<1> SUFFICES ASSUME Init PROVE Log!Init
  OBVIOUS
<1>1. Begun = 0 /\ Committed = 0 /\ published = 0
  BY DEF Init, Begun, Committed
<1>2. ASSUME NEW c \in Consumers
      PROVE  View(consumer[c]) = [status |-> "unsubscribed", policy |-> NONE, next |-> 0, last |-> NONE]
  <2> DEFINE q == [Idle EXCEPT !.pc = "unsubscribed"]
  <2>1. q.pc = "unsubscribed"
    BY IdleType DEF Polls
  <2> HIDE DEF q
  <2>2. consumer[c] = [cursor |-> 0, policy |-> NONE, halted |-> NONE, last |-> NONE, poll |-> q]
    BY Zenon DEF Init, q
  <2>3. /\ consumer[c].cursor = 0 /\ consumer[c].policy = NONE /\ consumer[c].halted = NONE
        /\ consumer[c].last = NONE /\ consumer[c].poll.pc = "unsubscribed"
    BY <2>1, <2>2
  <2> QED
    BY <2>3 DEF View
<1> QED
  BY <1>1, <1>2 DEF Log!Init, Readers

\* A step of the producer or of its store buffer leaves the readers' views
\* alone and moves the log's counts as CountsMove says.
LEMMA WriterLog ==
  ASSUME QueueInv, [Next]_vars, UNCHANGED consumer
  PROVE  Log!Next \/ UNCHANGED Log!vars
<1>1. Readers' = Readers
  BY Zenon DEF Readers, View
<1> QED
  BY <1>1, CountsMove, Zenon DEF QueueInv, Log!Next, Log!Begin, Log!Commit, Log!Announce, Log!vars

\* A step of a consumer is a step of the log's reader, or does not show.
LEMMA ReaderLog ==
  ASSUME QueueInv, NEW c \in Consumers, NEW k \in Reader, StepsTo(c, k),
         UNCHANGED <<version, data, published, buf, producer>>
  PROVE  Log!Next \/ UNCHANGED Log!vars
<1> DEFINE x == View(consumer[c])
           y == View(k)
<1>1. UNCHANGED <<Begun, Committed, published>>
  BY DEF Begun, Committed
<1>2. Readers' = [Readers EXCEPT ![c] = y] /\ Readers[c] = x
  BY ZenonT(60) DEF StepsTo, QueueInv, ConsumerInv, Readers
<1>3. x = [status |-> x.status, policy |-> x.policy, next |-> x.next, last |-> x.last]
  BY Zenon DEF View
<1>4. Shows(x, y)
  BY Zenon DEF StepsTo
<1>5. Readers = [d \in Consumers |-> Readers[d]]
  BY DEF Readers
<1> HIDE DEF x, y
<1>6. CASE y = x
  BY <1>1, <1>2, <1>5, <1>6 DEF Log!vars
<1>7. CASE /\ x.status = "unsubscribed"
           /\ \E p \in LapPolicy : y = [status |-> "live", policy |-> p, next |-> published, last |-> NONE]
  BY <1>1, <1>2, <1>7, Zenon DEF Log!Next, Log!Subscribe
<1>8. CASE /\ x.status = "live" /\ x.next < Committed /\ Begun <= x.next + Capacity
           /\ y = [status |-> "live", policy |-> x.policy, next |-> x.next + 1,
                   last |-> [kind |-> "Ready", seq |-> x.next, data |-> Payload(x.next)]]
  <2> DEFINE r == [kind |-> "Ready", seq |-> x.next, data |-> Payload(x.next)]
  <2>0. y = [status |-> x.status, policy |-> x.policy, next |-> x.next + 1, last |-> r]
    BY <1>8
  <2> HIDE DEF r
  <2>1. y = [x EXCEPT !.next = x.next + 1, !.last = r]
    <3> DEFINE n == x.next + 1
               z == [x EXCEPT !.next = n]
    <3>1. y = [status |-> x.status, policy |-> x.policy, next |-> n, last |-> r]
      BY <2>0
    <3> HIDE DEF n
    <3>2. z = [status |-> x.status, policy |-> x.policy, next |-> n, last |-> x.last]
      BY <1>3
    <3>3. [x EXCEPT !.next = n, !.last = r] = [z EXCEPT !.last = r]
      OBVIOUS
    <3> HIDE DEF z
    <3>4. [z EXCEPT !.last = r] = [status |-> x.status, policy |-> x.policy, next |-> n, last |-> r]
      BY <3>2
    <3>5. y = [x EXCEPT !.next = n, !.last = r]
      BY <3>1, <3>3, <3>4
    <3> QED
      BY <3>5, Zenon DEF n
  <2> USE DEF r
  <2>2. Log!Receive(c)
    BY <1>1, <1>2, <1>5, <1>8, <2>1, Zenon DEF Log!Receive, Log!Readable
  <2> QED
    BY <2>2, Zenon DEF Log!Next
<1>9. CASE /\ x.status = "live" /\ ~(x.next < Committed /\ Begun <= x.next + Capacity)
           /\ y = [status |-> "live", policy |-> x.policy, next |-> x.next, last |-> [kind |-> "Empty"]]
  <2>1. y = [x EXCEPT !.last = [kind |-> "Empty"]]
    BY <1>3, <1>9
  <2>2. Log!Nothing(c)
    BY <1>1, <1>2, <1>9, <2>1, Zenon DEF Log!Nothing, Log!Readable
  <2> QED
    BY <2>2 DEF Log!Next
<1> DEFINE told(kind) == [kind |-> kind, seq |-> x.next, lost |-> published - x.next]
<1>10. CASE /\ x.status = "live" /\ IsLap(published - x.next, x.next)
            /\ \/ /\ x.policy = "Halt"
                  /\ y = [status |-> "halted", policy |-> x.policy, next |-> x.next, last |-> told("Halted")]
               \/ /\ x.policy = "Panic"
                  /\ y = [status |-> "panicked", policy |-> x.policy, next |-> x.next, last |-> told("Panicked")]
               \/ /\ x.policy # "Halt" /\ x.policy # "Panic"
                  /\ y = [status |-> "live", policy |-> x.policy, next |-> published, last |-> told("Skipped")]
  <2> HIDE DEF told
  <2>1. y = CASE x.policy = "Halt"  -> [x EXCEPT !.status = "halted", !.last = told("Halted")]
              [] x.policy = "Panic" -> [x EXCEPT !.status = "panicked", !.last = told("Panicked")]
              [] OTHER              -> [x EXCEPT !.next = published, !.last = told("Skipped")]
    BY <1>3, <1>10, Zenon
  <2>2. Readers' = [Readers EXCEPT ![c] =
                      CASE x.policy = "Halt"  -> [x EXCEPT !.status = "halted", !.last = told("Halted")]
                        [] x.policy = "Panic" -> [x EXCEPT !.status = "panicked", !.last = told("Panicked")]
                        [] OTHER              -> [x EXCEPT !.next = published, !.last = told("Skipped")]]
    BY <1>2, <2>1, Zenon
  <2>3. Log!Overwritten(x.next) /\ published - x.next >= Capacity - 1
    BY <1>10 DEF IsLap, Log!Overwritten
  <2>4. Log!Lap(c)
    BY <1>1, <1>2, <1>10, <2>2, <2>3, Zenon DEF Log!Lap, told
  <2> QED
    BY <2>4 DEF Log!Next
<1> QED
  BY <1>4, <1>6, <1>7, <1>8, <1>9, <1>10, Zenon DEF Shows

\* For every capacity, payload size and number of readers: the ring with its
\* store buffer implements the log.  A poll reads several locations at
\* different times, yet shows its reader one step of the log.
THEOREM RingImplementsLog == Spec => ImplementsLog
<1>1. QueueInv /\ [Next]_vars => [Log!Next]_(Log!vars)
  <2> SUFFICES ASSUME QueueInv, [Next]_vars PROVE Log!Next \/ UNCHANGED Log!vars
    OBVIOUS
  <2>1. CASE UNCHANGED consumer
    BY <2>1, WriterLog
  <2>2. ASSUME NEW c \in Consumers, ConsumerStep(c) \/ \E policy \in LapPolicy : Subscribe(c, policy)
        PROVE  Log!Next \/ UNCHANGED Log!vars
    BY <2>2, ConsumerSteps, ReaderLog
  <2>3. ~UNCHANGED consumer =>
          \E c \in Consumers : ConsumerStep(c) \/ \E policy \in LapPolicy : Subscribe(c, policy)
    BY Zenon DEF Next, vars, PublishBegin, PublishCommit, Drain
  <2> QED
    BY <2>1, <2>2, <2>3
<1> QED
  BY <1>1, InitLog, QueueInvariant, PTL DEF Spec, ImplementsLog, Log!Spec
=============================================================================

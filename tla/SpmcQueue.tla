------------------------------ MODULE SpmcQueue -----------------------------
(***************************************************************************)
(* The single-producer, multi-consumer seqlock ring of crates/ipc, one     *)
(* action per access to shared memory.  The producer's stores go through   *)
(* a store buffer `buf` and become visible one at a time in any order that *)
(* the orderings in the code allow (an ARMv8-like model):                  *)
(*   - two stores to one location stay in program order,                   *)
(*   - a Release store becomes visible after every earlier store,          *)
(*   - fence(Release) lets no later store pass an earlier one.             *)
(* A payload is several words read and written one by one, so that a read  *)
(* racing with a write can be torn.                                        *)
(*                                                                         *)
(* Operators that stand directly before the one they vary (NoFence,        *)
(* NeverTorn, ...) are faulty versions of it, kept to show that the        *)
(* properties notice the slip.                                             *)
(***************************************************************************)
EXTENDS Integers

CONSTANTS Capacity,    \* slots; Queue::new asserts a power of two
          Consumers,
          Words,       \* the words of a payload
          MaxSeq,      \* bound on the number of publishes
          NONE         \* Option::None

LapPolicy == {"Halt", "Panic", "SkipAndAlert", "SkipToLatest"}

ASSUME QueueAssumption ==
  /\ Capacity \in Nat \ {0}
  /\ \E k \in 0 .. Capacity : Capacity = 2 ^ k
  /\ MaxSeq \in Nat
  /\ NONE \notin Int

VARIABLES version, data, published,   \* shared memory
          buf,                        \* the producer's pending stores
          producer,                   \* [cursor, writing]
          consumer                    \* consumer -> its fields and its poll in progress

vars == <<version, data, published, buf, producer, consumer>>

SlotOf(seq) == seq % Capacity              \* seq & mask

Lap(seq) == seq \div Capacity              \* seq >> log2_cap

\* The payload published under seq; 0 is the zeroed initial payload.
Payload(seq) == [w \in Words |-> seq + 1]

Idle == [pc |-> "idle", v1 |-> 0, got |-> [w \in {} |-> 0]]

Init ==
  /\ version = [i \in 0 .. Capacity - 1 |-> 0]
  /\ data = [i \in 0 .. Capacity - 1 |-> [w \in Words |-> 0]]
  /\ published = 0
  /\ buf = {}
  /\ producer = [cursor |-> 0, writing |-> FALSE]
  /\ consumer = [c \in Consumers |-> [cursor |-> 0, policy |-> NONE, halted |-> NONE, last |-> NONE,
                                      poll |-> [Idle EXCEPT !.pc = "unsubscribed"]]]
-----------------------------------------------------------------------------
\* A pending store; `po` is its position in the producer's program order.
Store(to, at, word, val, release, po) ==
  [to |-> to, at |-> at, word |-> word, val |-> val, release |-> release, po |-> po]

OddStore(seq) == Store("version", SlotOf(seq), NONE, 2 * Lap(seq) + 1, FALSE, 4 * seq)

CommitStoresAnnouncedFirst(seq) ==
  {Store("data", SlotOf(seq), w, Payload(seq)[w], FALSE, 4 * seq + 1) : w \in Words}
    \cup {Store("published", 0, NONE, seq + 1, TRUE, 4 * seq + 2),
          Store("version", SlotOf(seq), NONE, 2 * Lap(seq) + 2, TRUE, 4 * seq + 3)}

\* The payload's words, then the even version, then published.
CommitStores(seq) ==
  {Store("data", SlotOf(seq), w, Payload(seq)[w], FALSE, 4 * seq + 1) : w \in Words}
    \cup {Store("version", SlotOf(seq), NONE, 2 * Lap(seq) + 2, TRUE, 4 * seq + 2),
          Store("published", 0, NONE, seq + 1, TRUE, 4 * seq + 3)}

NoFence == TRUE

\* fence(Release).  The producer reads no shared memory, so a fence that orders
\* the stores around it is one that waits for the earlier ones.
FenceRelease == buf = {}

\* publish, up to the fence: mark the slot write-in-progress.
PublishBegin ==
  LET seq == producer.cursor
  IN  /\ ~producer.writing
      /\ seq < MaxSeq
      /\ buf' = buf \cup {OddStore(seq)}
      /\ producer' = [producer EXCEPT !.writing = TRUE]
      /\ UNCHANGED <<version, data, published, consumer>>

\* publish, from the fence on.
PublishCommit ==
  LET seq == producer.cursor
  IN  /\ producer.writing
      /\ FenceRelease
      /\ buf' = buf \cup CommitStores(seq)
      /\ producer' = [cursor |-> seq + 1, writing |-> FALSE]
      /\ UNCHANGED <<version, data, published, consumer>>

CanDrain(s) ==
  \A t \in buf : t.po < s.po =>
    ~s.release /\ <<t.to, t.at, t.word>> # <<s.to, s.at, s.word>>

\* The memory system makes one pending store visible.
Drain(s) ==
  /\ CanDrain(s)
  /\ buf' = buf \ {s}
  /\ version'   = IF s.to = "version" THEN [version EXCEPT ![s.at] = s.val] ELSE version
  /\ data'      = IF s.to = "data" THEN [data EXCEPT ![s.at][s.word] = s.val] ELSE data
  /\ published' = IF s.to = "published" THEN s.val ELSE published
  /\ UNCHANGED <<producer, consumer>>
-----------------------------------------------------------------------------
\* poll returns r: the consumer is ready for the next call.
Return(c, r) == [consumer[c] EXCEPT !.poll = Idle, !.last = r]

Subscribe(c, policy) ==
  /\ consumer[c].poll.pc = "unsubscribed"
  /\ consumer' = [consumer EXCEPT ![c].cursor = published, ![c].policy = policy, ![c].poll = Idle]
  /\ UNCHANGED <<version, data, published, buf, producer>>

PollHalted(c) ==
  /\ consumer[c].poll.pc = "idle"
  /\ consumer[c].halted # NONE
  /\ consumer' = [consumer EXCEPT ![c] =
                    Return(c, [kind |-> "Halted", seq |-> @.cursor, lost |-> @.halted])]
  /\ UNCHANGED <<version, data, published, buf, producer>>

LappedEarly(v1, expected) == v1 >= expected

IsLapped(v1, expected) == v1 > expected

\* poll's first load of the slot's version (Acquire) and the branches on it.
PollVersion(c) ==
  LET seq      == consumer[c].cursor
      expected == 2 * (Lap(seq) + 1)
      v1       == version[SlotOf(seq)]
      goto(pc) == [consumer EXCEPT ![c].poll = [Idle EXCEPT !.pc = pc, !.v1 = v1]]
  IN  /\ consumer[c].poll.pc = "idle"
      /\ consumer[c].halted = NONE
      /\ \/ IsLapped(v1, expected) /\ consumer' = goto("lapped")
         \/ /\ ~IsLapped(v1, expected)
            /\ v1 < expected \/ v1 % 2 = 1
            /\ consumer' = [consumer EXCEPT ![c] = Return(c, [kind |-> "Empty"])]
         \/ /\ ~IsLapped(v1, expected)
            /\ v1 >= expected /\ v1 % 2 = 0
            /\ consumer' = goto("reading")
      /\ UNCHANGED <<version, data, published, buf, producer>>

\* The payload is copied word by word, in any order.
PollRead(c, w) ==
  /\ consumer[c].poll.pc = "reading"
  /\ w \notin DOMAIN consumer[c].poll.got
  /\ consumer' = [consumer EXCEPT ![c].poll.got =
                    [x \in DOMAIN @ \cup {w} |->
                       IF x = w THEN data[SlotOf(consumer[c].cursor)][w] ELSE @[x]]]
  /\ UNCHANGED <<version, data, published, buf, producer>>

NeverTorn(v1, v2) == FALSE

IsTorn(v1, v2) == v2 # v1

\* After fence(Acquire) every word has been read: the version is loaded again.
PollRecheck(c) ==
  LET seq == consumer[c].cursor
  IN  /\ consumer[c].poll.pc = "reading"
      /\ DOMAIN consumer[c].poll.got = Words
      /\ consumer' =
           [consumer EXCEPT ![c] =
              IF IsTorn(@.poll.v1, version[SlotOf(seq)])
                THEN Return(c, [kind |-> "Empty"])
                ELSE [Return(c, [kind |-> "Ready", seq |-> seq, data |-> @.poll.got])
                        EXCEPT !.cursor = seq + 1]]
      /\ UNCHANGED <<version, data, published, buf, producer>>

SkipNowhere(seq, live) == seq

SkipToOldest(seq, live) == live - Capacity

\* Where a skip policy moves the cursor.
SkipTo(seq, live) == live

\* apply_lap_policy: published is loaded after the lap was seen.
ApplyLapPolicy(c) ==
  LET seq  == consumer[c].cursor
      lost == published - seq
      r(k) == Return(c, [kind |-> k, seq |-> seq, lost |-> lost])
  IN  /\ consumer[c].poll.pc = "lapped"
      /\ consumer' =
           [consumer EXCEPT ![c] =
              CASE @.policy = "Halt"  -> [r("Halted") EXCEPT !.halted = lost]
                [] @.policy = "Panic" -> [r("Panicked") EXCEPT !.poll.pc = "panicked"]
                [] OTHER              -> [r("Skipped") EXCEPT !.cursor = SkipTo(seq, published)]]
      /\ UNCHANGED <<version, data, published, buf, producer>>

ConsumerStep(c) ==
  \/ PollHalted(c) \/ PollVersion(c) \/ PollRecheck(c) \/ ApplyLapPolicy(c)
  \/ \E w \in Words : PollRead(c, w)

Next ==
  \/ PublishBegin \/ PublishCommit
  \/ \E s \in buf : Drain(s)
  \/ \E c \in Consumers : ConsumerStep(c) \/ \E policy \in LapPolicy : Subscribe(c, policy)

Spec == Init /\ [][Next]_vars

\* Hardware drains store buffers, a producer inside publish finishes it, and
\* consumers poll in a loop; nobody is bound to start another publish.
FairSpec ==
  /\ Spec
  /\ WF_vars(PublishCommit)
  /\ WF_vars(\E s \in buf : Drain(s))
  /\ \A c \in Consumers : WF_vars(\E policy \in LapPolicy : Subscribe(c, policy)) /\ WF_vars(ConsumerStep(c))
-----------------------------------------------------------------------------
\* Entries whose overwriting, and whose commit, is visible in memory.
Begun ==
  producer.cursor +
    IF producer.writing /\ ~\E s \in buf : s.to = "version" /\ s.val % 2 = 1 THEN 1 ELSE 0

Committed ==
  producer.cursor - IF \E s \in buf : s.to = "version" /\ s.val % 2 = 0 THEN 1 ELSE 0

\* poll never returns a torn, stale or later payload: Ready carries exactly
\* the payload published under the consumer's sequence number, although the
\* producer may overwrite the slot between any two of the copied words.
ReadyIsPublished ==
  \A c \in Consumers : LET r == consumer[c].last IN
    r # NONE /\ r.kind = "Ready" => r.data = Payload(r.seq) /\ r.seq < producer.cursor

\* apply_lap_policy's u64 subtraction `live - cursor` never underflows, and a
\* lap costs at least Capacity - 1 entries: a consumer that is still inside
\* the ring is never told that it was lapped.
LapReportIsTrue ==
  \A c \in Consumers : LET r == consumer[c].last IN
    r # NONE /\ r.kind \in {"Halted", "Panicked", "Skipped"} =>
      /\ r.lost >= Capacity - 1
      /\ Begun > r.seq + Capacity

\* Every sequence number below `published` is readable or already
\* overwritten: published never announces a slot whose version is behind.
PublishedIsReadable ==
  \A seq \in 0 .. published - 1 : version[SlotOf(seq)] >= 2 * (Lap(seq) + 1)

\* A consumer never goes back, and once halted never moves again.
CursorNeverGoesBack ==
  [][\A c \in Consumers :
       /\ consumer[c].poll.pc # "unsubscribed" => consumer'[c].cursor >= consumer[c].cursor
       /\ consumer[c].halted # NONE =>
            /\ consumer'[c].cursor = consumer[c].cursor
            /\ consumer'[c].halted = consumer[c].halted]_vars

\* A consumer that keeps polling gets every published entry, or is told of
\* the ones it lost: it catches up with the producer or stops by its policy.
ConsumersCatchUp ==
  \A seq \in 1 .. MaxSeq, c \in Consumers :
    producer.cursor = seq ~>
      \/ consumer[c].cursor >= seq
      \/ consumer[c].halted # NONE
      \/ consumer[c].poll.pc = "panicked"

\* A consumer as the log's reader: a poll in progress does not show.
View(k) ==
  [status |-> IF k.halted # NONE THEN "halted"
              ELSE IF k.poll.pc \in {"unsubscribed", "panicked"} THEN k.poll.pc ELSE "live",
   policy |-> k.policy,
   next   |-> k.cursor,
   last   |-> k.last]

Readers == [c \in Consumers |-> View(consumer[c])]

Log == INSTANCE SpmcLog WITH begun <- Begun, committed <- Committed, reader <- Readers

\* The ring implements the log: readers receive entries in order, each once,
\* whole and only when committed, and every gap is a reported lap.
ImplementsLog == Log!Spec
=============================================================================

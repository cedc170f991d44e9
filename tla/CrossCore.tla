----------------------------- MODULE CrossCore ------------------------------
(***************************************************************************)
(* The cross-core hop benchmark (crates/ipc/benches/cross_core.rs): one    *)
(* thread publishes SAMPLES messages and raises `done`, the other polls,   *)
(* records, and leaves when it has them all or finds the queue empty after *)
(* the end.  The queue is taken as what it promises, SpmcLog; pacing and   *)
(* pinning are left out.  Operators that stand directly before the one     *)
(* they vary are faulty versions of it, kept to show that the properties   *)
(* notice the slip.                                                        *)
(***************************************************************************)
EXTENDS Integers

CONSTANTS SAMPLES,
          CAP,          \* capacity of the queue
          NONE

ASSUME CrossCoreAssumption == SAMPLES \in Nat \ {0} /\ CAP \in Nat \ {0, 1}

VARIABLES begun, committed, published, reader,  \* the queue
          done,                                 \* the AtomicBool
          consumer,                             \* what it does: "poll", "empty" or "left"
          recorded,
          skipped                               \* ghost: messages given up to laps

hop_vars == <<begun, committed, published, reader, done, consumer, recorded, skipped>>

hop == "hop"

\* What the n-th message carries, as far as the benchmark cares: its number.
Message(n) == n

Queue == INSTANCE SpmcLog
           WITH Capacity <- CAP, Consumers <- {hop}, LapPolicy <- {"SkipToLatest"},
                Payload <- Message

HopInit ==
  /\ begun = 0 /\ committed = 0 /\ published = 0
  /\ reader = [c \in {hop} |-> [status |-> "live", policy |-> "SkipToLatest", next |-> 0, last |-> NONE]]
  /\ done = FALSE /\ consumer = "poll" /\ recorded = 0 /\ skipped = 0

\* prod.publish, seen from outside: overwriting, commit and announcement.
Publish ==
  /\ \/ begun < SAMPLES /\ Queue!Begin
     \/ Queue!Commit
     \/ Queue!Announce
  /\ UNCHANGED <<done, consumer, recorded, skipped>>

\* On x86-64 stores become visible in order, so `done` follows the last message.
RaiseDone ==
  /\ published = SAMPLES /\ ~done
  /\ done' = TRUE
  /\ UNCHANGED <<begun, committed, published, reader, consumer, recorded, skipped>>

Recorded(n) == IF n = SAMPLES THEN "left" ELSE "poll"

PollReady ==
  /\ consumer = "poll"
  /\ Queue!Receive(hop)
  /\ recorded' = recorded + 1
  /\ consumer' = Recorded(recorded + 1)
  /\ UNCHANGED <<done, skipped>>

SkippedIsRecorded(lost) == recorded + lost

AfterSkip(lost) == recorded

PollSkipped ==
  /\ consumer = "poll"
  /\ Queue!Lap(hop)
  /\ skipped' = skipped + (published - reader[hop].next)
  /\ recorded' = AfterSkip(published - reader[hop].next)
  /\ UNCHANGED <<done, consumer>>

PollEmpty ==
  /\ consumer = "poll"
  /\ Queue!Nothing(hop)
  /\ consumer' = "empty"
  /\ UNCHANGED <<done, recorded, skipped>>

\* The load of `done` comes after the poll that found nothing.
NeverStops == "poll"

AfterEmpty == IF done THEN "left" ELSE "poll"

CheckDone ==
  /\ consumer = "empty"
  /\ consumer' = AfterEmpty
  /\ UNCHANGED <<begun, committed, published, reader, done, recorded, skipped>>

Produce == Publish \/ RaiseDone
Consume == PollReady \/ PollSkipped \/ PollEmpty \/ CheckDone

HopNext == Produce \/ Consume

\* Both threads run on cores of their own: each keeps taking steps while it can.
HopSpec == HopInit /\ [][HopNext]_hop_vars /\ WF_hop_vars(Produce) /\ WF_hop_vars(Consume)
-----------------------------------------------------------------------------
\* Every sequence number the consumer has passed was either recorded once or
\* reported as lost: the histogram's count is the number of messages received.
EveryMessageCounted == recorded + skipped = reader[hop].next

\* The benchmark ends, also when laps make SAMPLES records impossible.
ConsumerLeaves == <>(consumer = "left")

\* "producer finished and we've drained": a consumer that leaves has passed
\* every message.
LeavesDrained == consumer = "left" => reader[hop].next = SAMPLES
=============================================================================

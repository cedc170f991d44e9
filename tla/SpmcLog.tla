------------------------------- MODULE SpmcLog ------------------------------
(***************************************************************************)
(* What the SPMC queue promises: one log, written in order, of which the   *)
(* last Capacity entries can be read.  Each reader takes the entries in    *)
(* order, each once and whole, until the writer laps it; a lap is reported *)
(* with the number of entries given up.  No slots, versions or memory      *)
(* orders here: begun, committed and published are the counts of entries   *)
(* whose overwriting, commit and announcement are visible.                 *)
(***************************************************************************)
EXTENDS Integers

CONSTANTS Capacity, Consumers, LapPolicy, Payload(_), NONE

VARIABLES begun, committed, published, reader

vars == <<begun, committed, published, reader>>

Readable(seq) == seq < committed /\ begun <= seq + Capacity

Overwritten(seq) == begun > seq + Capacity

Init ==
  /\ begun = 0 /\ committed = 0 /\ published = 0
  /\ reader = [c \in Consumers |-> [status |-> "unsubscribed", policy |-> NONE, next |-> 0, last |-> NONE]]

\* The writer runs at most one entry ahead of its last announcement.
Begin ==
  /\ begun <= published + 1
  /\ begun' = begun + 1
  /\ UNCHANGED <<committed, published, reader>>

Commit ==
  /\ committed < begun
  /\ committed' = committed + 1
  /\ UNCHANGED <<begun, published, reader>>

Announce ==
  /\ published < committed
  /\ published' = published + 1
  /\ UNCHANGED <<begun, committed, reader>>

Subscribe(c, policy) ==
  /\ reader[c].status = "unsubscribed"
  /\ reader' = [reader EXCEPT ![c] = [status |-> "live", policy |-> policy,
                                      next |-> published, last |-> NONE]]
  /\ UNCHANGED <<begun, committed, published>>

Receive(c) ==
  LET seq == reader[c].next
  IN  /\ reader[c].status = "live"
      /\ Readable(seq)
      /\ reader' = [reader EXCEPT ![c].next = seq + 1,
                                  ![c].last = [kind |-> "Ready", seq |-> seq, data |-> Payload(seq)]]
      /\ UNCHANGED <<begun, committed, published>>

\* Empty is returned only when the reader's next entry cannot be read now.
Nothing(c) ==
  /\ reader[c].status = "live"
  /\ ~Readable(reader[c].next)
  /\ reader' = [reader EXCEPT ![c].last = [kind |-> "Empty"]]
  /\ UNCHANGED <<begun, committed, published>>

\* A lap is reported only when the reader's next entry is being, or has been,
\* overwritten; the reader then gives up what was announced since.
Lap(c) ==
  LET seq  == reader[c].next
      lost == published - seq
      told(kind) == [kind |-> kind, seq |-> seq, lost |-> lost]
  IN  /\ reader[c].status = "live"
      /\ Overwritten(seq)
      /\ lost >= Capacity - 1
      /\ reader' =
           [reader EXCEPT ![c] =
              CASE @.policy = "Halt"  -> [@ EXCEPT !.status = "halted", !.last = told("Halted")]
                [] @.policy = "Panic" -> [@ EXCEPT !.status = "panicked", !.last = told("Panicked")]
                [] OTHER              -> [@ EXCEPT !.next = published, !.last = told("Skipped")]]
      /\ UNCHANGED <<begun, committed, published>>

Next ==
  \/ Begin \/ Commit \/ Announce
  \/ \E c \in Consumers :
       \/ \E policy \in LapPolicy : Subscribe(c, policy)
       \/ Receive(c) \/ Nothing(c) \/ Lap(c)

Spec == Init /\ [][Next]_vars
=============================================================================

----------------------------- MODULE EventCodec -----------------------------
(***************************************************************************)
(* The wire forms of order events and positions (crates/types): an         *)
(* OrderEvent becomes a PodOrderEvent, an 88-byte record with a tag, a     *)
(* timestamp and 72 payload bytes laid out by hand, and comes back through *)
(* a checked conversion.  The payload is modelled byte by byte, so that    *)
(* overlapping or misplaced fields show.  An integer is the sequence of    *)
(* its base-256 digits, least significant first, which is what             *)
(* to_ne_bytes and from_ne_bytes turn it into and back on x86-64.          *)
(* A Position travels as a PodPosition, whose three fields the model keeps *)
(* apart (position.rs).  A reader may also meet bytes no writer of this    *)
(* version wrote: Garble changes one byte.                                 *)
(*                                                                         *)
(* Operators that stand directly before the one they vary are faulty       *)
(* versions of it, kept to show that the properties notice the slip.       *)
(***************************************************************************)
EXTENDS Integers, Sequences, Option

CONSTANTS U64,      \* sample 64-bit values
          U32,      \* sample 32-bit values
          Stamps,   \* sample origin_ts values
          Hashes,   \* sample intent hashes: sequences of 32 bytes
          Bytes     \* values Garble writes

PayloadSize == 72

SideBytes   == 0 .. 1
TypeBytes   == {0}
TifBytes    == 0 .. 2
ReasonBytes == 0 .. 10

ASSUME CodecAssumption ==
  /\ U64 \union Stamps \subseteq [1 .. 8 -> 0 .. 255]
  /\ U32 \subseteq [1 .. 4 -> 0 .. 255]
  /\ Hashes \subseteq [1 .. 32 -> 0 .. 255]
  /\ Bytes \subseteq 0 .. 255

VARIABLES event,  \* the event or position the writer sends
          pod,    \* its wire form, NONE before the conversion
          back,   \* the reader's result, NONE before it has one
          intact  \* ghost: the wire form is as it was written

codecVars == <<event, pod, back, intact>>

NewEvents ==
  [kind : {"New"}, order_id : U64, price : U64, quantity : U64, origin_ts : Stamps,
   instrument_id : U32, side : SideBytes, order_type : TypeBytes, tif : TifBytes, intent_hash : Hashes]

OrderEvents ==
  NewEvents
  \union [kind : {"Fill"}, id : U64, fill_qty : U64, fill_price : U64,
          origin_ts : Stamps, intent_hash : Hashes]
  \union [kind : {"PartialFill"}, id : U64, fill_qty : U64, fill_price : U64, remaining_qty : U64,
          origin_ts : Stamps, intent_hash : Hashes]
  \union [kind : {"Cancel"}, id : U64, origin_ts : Stamps, intent_hash : Hashes]
  \union [kind : {"Reject"}, id : U64, reason : ReasonBytes, remaining_qty : U64,
          origin_ts : Stamps, intent_hash : Hashes]

Positions == [kind : {"Flat"}] \union [kind : {"Long", "Short"}, qty : U64, avg_price : U64]

CodecInit == event \in OrderEvents \union Positions /\ pod = NONE /\ back = NONE /\ intact = TRUE

CodecIdle == event = NONE /\ pod = NONE /\ back = NONE /\ intact = TRUE
-----------------------------------------------------------------------------
Zeroed == [i \in 0 .. PayloadSize - 1 |-> 0]

\* payload[off .. off + Len(bs)].copy_from_slice(bs)
Write(payload, off, bs) ==
  [i \in DOMAIN payload |-> IF i \in off .. off + Len(bs) - 1 THEN bs[i - off + 1] ELSE payload[i]]

U64Zero == [i \in 1 .. 8 |-> 0]

Slice(payload, off, n) == [i \in 1 .. n |-> payload[off + i - 1]]

WriteAll(fields) ==
  LET w[i \in 0 .. Len(fields)] ==
        IF i = 0 THEN Zeroed ELSE Write(w[i - 1], fields[i][1], fields[i][2])
  IN  w[Len(fields)]

\* bytes_of(&order): the repr(C) layout of Order.
OrderBytes(o) ==
  <<  <<0, o.order_id>>, <<8, o.price>>, <<16, o.quantity>>,
      <<24, o.origin_ts>>, <<32, o.instrument_id>>,
      <<36, <<o.side, o.order_type, o.tif, 0>> >>, <<40, o.intent_hash>> >>

\* The remaining quantity written over the hash.
RejectFieldsOverlap(e) ==
  << <<0, e.id>>, <<8, e.intent_hash>>, <<32, e.remaining_qty>>,
     <<48, <<e.reason>> >> >>

RejectFields(e) ==
  << <<0, e.id>>, <<8, e.intent_hash>>, <<40, e.remaining_qty>>,
     <<48, <<e.reason>> >> >>

\* From<OrderEvent>: the tag and the payload writes of each variant, in order.
TagOf(kind) ==
  CASE kind = "New" -> 0 [] kind = "Fill" -> 1 [] kind = "PartialFill" -> 2
    [] kind = "Cancel" -> 3 [] kind = "Reject" -> 4

PayloadFields(e) ==
  CASE e.kind = "New"    -> OrderBytes(e)
    [] e.kind = "Fill"   -> << <<0, e.id>>, <<8, e.fill_qty>>,
                               <<16, e.fill_price>>, <<24, e.intent_hash>> >>
    [] e.kind = "PartialFill" ->
                            << <<0, e.id>>, <<8, e.fill_qty>>,
                               <<16, e.fill_price>>, <<24, e.remaining_qty>>,
                               <<32, e.intent_hash>> >>
    [] e.kind = "Cancel" -> << <<0, e.id>>, <<8, e.intent_hash>> >>
    [] e.kind = "Reject" -> RejectFields(e)

ToPod(e) == [tag |-> TagOf(e.kind), origin_ts |-> e.origin_ts, payload |-> WriteAll(PayloadFields(e))]

\* checked::try_from_bytes accepts only bytes that are a value of the enum.
OrderUnchecked(p) == TRUE

OrderIsValid(p) == p[36] \in SideBytes /\ p[37] \in TypeBytes /\ p[38] \in TifBytes

Ok(e)         == [ok |-> TRUE, event |-> e]
InvalidTag(b) == [ok |-> FALSE, tag |-> b]

\* TryFrom<PodOrderEvent>
FromPod(v) ==
  LET p        == v.payload
      u64(off) == Slice(p, off, 8)
      hash(off) == Slice(p, off, 32)
  IN  CASE v.tag = 0 ->
             IF OrderIsValid(p)
             THEN Ok([kind |-> "New", order_id |-> u64(0), price |-> u64(8), quantity |-> u64(16),
                      origin_ts |-> u64(24), instrument_id |-> Slice(p, 32, 4),
                      side |-> p[36], order_type |-> p[37], tif |-> p[38], intent_hash |-> hash(40)])
             ELSE InvalidTag(0)
        [] v.tag = 1 -> Ok([kind |-> "Fill", id |-> u64(0), fill_qty |-> u64(8), fill_price |-> u64(16),
                            origin_ts |-> v.origin_ts, intent_hash |-> hash(24)])
        [] v.tag = 2 -> Ok([kind |-> "PartialFill", id |-> u64(0), fill_qty |-> u64(8),
                            fill_price |-> u64(16), remaining_qty |-> u64(24),
                            origin_ts |-> v.origin_ts, intent_hash |-> hash(32)])
        [] v.tag = 3 -> Ok([kind |-> "Cancel", id |-> u64(0), origin_ts |-> v.origin_ts,
                            intent_hash |-> hash(8)])
        [] v.tag = 4 ->
             IF p[48] \in ReasonBytes
             THEN Ok([kind |-> "Reject", id |-> u64(0), reason |-> p[48], remaining_qty |-> u64(40),
                      origin_ts |-> v.origin_ts, intent_hash |-> hash(8)])
             ELSE InvalidTag(p[48])
        [] OTHER -> InvalidTag(v.tag)

PositionToPod(p) ==
  CASE p.kind = "Flat"  -> [tag |-> 0, qty |-> U64Zero, avg_price |-> U64Zero]
    [] p.kind = "Long"  -> [tag |-> 1, qty |-> p.qty, avg_price |-> p.avg_price]
    [] p.kind = "Short" -> [tag |-> 2, qty |-> p.qty, avg_price |-> p.avg_price]

PositionFromPod(v) ==
  CASE v.tag = 0 -> Ok([kind |-> "Flat"])
    [] v.tag = 1 -> Ok([kind |-> "Long", qty |-> v.qty, avg_price |-> v.avg_price])
    [] v.tag = 2 -> Ok([kind |-> "Short", qty |-> v.qty, avg_price |-> v.avg_price])
    [] OTHER     -> InvalidTag(v.tag)
-----------------------------------------------------------------------------
IsPosition == event \in Positions

Encode ==
  /\ event # NONE /\ pod = NONE
  /\ pod' = IF IsPosition THEN PositionToPod(event) ELSE ToPod(event)
  /\ UNCHANGED <<event, back, intact>>

\* The bytes whose values the reader checks.
Garble ==
  /\ pod # NONE /\ back = NONE /\ intact
  /\ \E b \in Bytes :
       \/ pod' = [pod EXCEPT !.tag = b]
       \/ /\ ~IsPosition
          /\ \E off \in {36, 37, 38, 48} : pod' = [pod EXCEPT !.payload[off] = b]
  /\ intact' = (pod' = pod)
  /\ UNCHANGED <<event, back>>

\* The reader knows which of the two types it expects.
Decode ==
  /\ pod # NONE /\ back = NONE
  /\ back' = IF IsPosition THEN PositionFromPod(pod) ELSE FromPod(pod)
  /\ UNCHANGED <<event, pod, intact>>

CodecNext == Encode \/ Garble \/ Decode
-----------------------------------------------------------------------------
\* What the reader gets for an untouched record is the event that was sent,
\* field for field, in every variant.
RoundTrip == intact /\ back # NONE => back = Ok(event)

\* The payload bytes a variant carries its fields in.
UsedBytes(e) ==
  UNION {(f[1] .. f[1] + Len(f[2]) - 1) : f \in {PayloadFields(e)[i] : i \in DOMAIN PayloadFields(e)}}

\* Whatever bytes arrive, a value handed to the reader has valid enum fields
\* and is what the record says: encoding it again gives the same tag and the
\* same used bytes.
DecodedIsFaithful ==
  back # NONE /\ back.ok =>
    LET e == back.event
        w == IF IsPosition THEN PositionToPod(e) ELSE ToPod(e)
    IN  /\ e.kind = "New" => e.side \in SideBytes /\ e.order_type \in TypeBytes /\ e.tif \in TifBytes
        /\ e.kind = "Reject" => e.reason \in ReasonBytes
        /\ w.tag = pod.tag
        /\ IF IsPosition THEN e.kind = "Flat" \/ w = pod
           ELSE \A i \in UsedBytes(e) : w.payload[i] = pod.payload[i]
=============================================================================

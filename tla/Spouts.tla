-------------------------------- MODULE Spouts --------------------------------
(***************************************************************************)
(* Chains of spouts, and the producer and consumer handles of an MPSC ring. *)
(* Every producer has its own chain, cloned from one prototype:             *)
(*     ProducerSpout -> BatchSpout or ReduceSpout -> what setup.mode names: *)
(*   "channel"   FramedSpout -> SyncChannelSpout, whose receiver may go     *)
(*   "mutex"     FramedSpout -> Arc<Mutex<CollectSpout>>, which a panic     *)
(*               poisons                                                    *)
(*   "ring"      CollectSpout; in front of the chain stands the SpillRing   *)
(*               of a Producer, which delivers everything when dropped      *)
(*   "consumer"  none: the SpillRing's overflow goes to a DropSpout and a   *)
(*               Consumer collects the rings and drains them                *)
(* The threads of the producers run concurrently; a call that hands several *)
(* batches on gives its batches to the sink one at a time (flight).  The    *)
(* ProducerSpout has no send_all of its own: behind it every item is sent   *)
(* by itself, and the override of BatchSpout and ReduceSpout is reached by  *)
(* inner_mut() alone.                                                       *)
(***************************************************************************)
EXTENDS ByteCast
LOCAL INSTANCE SequencesExt

CONSTANTS
  Producers,   \* positions of the producers
  Setups,      \* a sequence of records [mode, type, items, reduce]: the items a producer
               \* sends in their order, their type, and which of the two buffers it has
  Threshold,   \* BatchSpout::new
  RingCap,     \* capacity of a SpillRing
  ChannelCap,  \* capacity of the sync channel
  MaxReloads   \* bound: snapshots that are restored

ASSUME SpoutAssumption ==
  /\ Threshold \in Nat \ {0} /\ RingCap \in Nat \ {0}
  /\ ChannelCap \in Nat \ {0} /\ MaxReloads \in Nat

VARIABLES
  chosen,    \* position of the setup
  nextId,    \* ProducerSpout.next_id, shared by the clones
  id,        \* producer_id of a clone
  op,        \* the call a producer is in: "none" before it is cloned, "idle", "send",
             \* "each" (send_all of the chain), "all" (that of its buffer), "flush",
             \* "drop", and "gone" when its chain is dropped
  accepted,  \* items that were handed over
  unsent,    \* what the iterator of a send_all still has
  ring,      \* the Producer's ring
  buffer,    \* BatchSpout.buffer
  flight,    \* the batch that is being given to the sink
  handed,    \* batches given to the sink: how they were cut off and what became of them
  sink,      \* frames in the channel or in the shared collection
  broken,    \* the receiver is gone, or the mutex is poisoned
  rings,     \* Consumer.rings
  got,       \* what came out under each id
  reloads

vars == <<chosen, nextId, id, op, accepted, unsent, ring, buffer, flight, handed, sink, broken,
          rings, got, reloads>>

setup == Setups[chosen]
Framed == setup.mode \in {"channel", "mutex"}
Batched == setup.mode # "consumer"

-------------------------------------------------------------------------------
(* Payloads and frames *)

Batch == Vec(setup.type)
\* What the buffer forwards: the batch, or what the reduction makes of it, here the
\* number of the items and the last of them.
LoadType == IF setup.reduce THEN Prod(<<U32, setup.type>>) ELSE Batch
Load(batch) == IF setup.reduce THEN <<Len(batch), Last(batch)>> ELSE batch

FrameHeader == Prod(<<Usize, U32>>)

\* The payload fits the buffer, at the latest when it is enlarged, and the length field.
CanFrame(batch) ==
  /\ Fits(LoadType, Load(batch), MaxSize(FrameHeader))
  /\ Len(Encode(LoadType, Load(batch))) < (2 * Radix) ^ U32Width

Frame(from, batch) ==
  LET payload == Encode(LoadType, Load(batch))
  IN  Encode(FrameHeader, <<from, Len(payload)>>) \o payload

\* Mutant of DecodeFrame: bytes after the payload are left alone.
DecodeFrameAhead(f) ==
  LET head == Decode(FrameHeader, f)
      rest == SubSeq(f, head.used + 1, Len(f))
  IN  IF ~head.ok THEN Refused
      ELSE IF Len(rest) < head.val[2] THEN Refused
      ELSE IF ~Decode(LoadType, rest).ok THEN Refused
      ELSE [ok |-> TRUE, from |-> head.val[1], load |-> Decode(LoadType, rest).val]

\* decode_frame: the payload is exactly as long as the header says.
DecodeFrame(f) ==
  LET head == Decode(FrameHeader, f)
      rest == SubSeq(f, head.used + 1, Len(f))
      item == DecodeExact(LoadType, rest)
  IN  IF ~head.ok THEN Refused
      ELSE IF Len(rest) # head.val[2] THEN Refused
      ELSE IF ~item.ok THEN Refused
      ELSE [ok |-> TRUE, from |-> head.val[1], load |-> item.val]

\* The snapshot of a BatchSpout, and what decode_batch makes of it.
Snapshot == Prod(<<Usize, Batch>>)
CanSnapshot(buf) == Fits(Snapshot, <<Threshold, buf>>, 0)
DecodeBatch(bytes) ==
  LET r == DecodeExact(Snapshot, bytes)
  IN  IF r.ok /\ r.val[1] # 0 THEN r ELSE Refused

-------------------------------------------------------------------------------
Greater(a, b) == IF a > b THEN a ELSE b
Lesser(a, b) == IF a < b THEN a ELSE b

Init ==
  /\ chosen \in DOMAIN Setups
  /\ nextId = 1
  /\ id = [p \in Producers |-> 0]
  /\ op = [p \in Producers |-> "none"]
  /\ accepted = [p \in Producers |-> 0]
  /\ unsent = [p \in Producers |-> <<>>]
  /\ ring = [p \in Producers |-> <<>>]
  /\ buffer = [p \in Producers |-> <<>>]
  /\ flight = [p \in Producers |-> <<>>]
  /\ handed = [p \in Producers |-> <<>>]
  /\ sink = <<>>
  /\ broken = FALSE
  /\ rings = <<>>
  /\ got = [n \in 0 .. Cardinality(Producers) |-> <<>>]
  /\ reloads = 0

\* A clone takes the next id; its inner spout is made by the factory when it first sends.
Clone(p) ==
  /\ op[p] = "none"
  /\ op' = [op EXCEPT ![p] = "idle"]
  /\ id' = [id EXCEPT ![p] = nextId]
  /\ nextId' = nextId + 1
  /\ UNCHANGED <<chosen, accepted, unsent, ring, buffer, flight, handed, sink, broken, rings, got,
                 reloads>>

\* How many of the items the call puts into the buffer at once, in front of the next
\* batch: send_all of BatchSpout and ReduceSpout takes them all, that of the chain goes
\* on as long as the buffer is too short.
Entering(buf, items, call) ==
  IF call \in {"each", "drop"} THEN Lesser(Len(items), Greater(Threshold - Len(buf), 1))
                               ELSE Len(items)

\* Mutant of Taken: send waits for one item more.
TakenLate(buf, call) ==
  CASE call = "send"            -> IF Len(buf) > Threshold THEN Len(buf) ELSE 0
    [] call = "each"            -> IF Len(buf) >= Threshold THEN Len(buf) ELSE 0
    [] call = "all"             -> IF Len(buf) >= Threshold THEN Threshold ELSE 0
    [] call \in {"flush", "drop"} -> Len(buf)

\* How many items of the buffer the call hands on next.  A drop flushes at the end.
Taken(buf, call) ==
  CASE call \in {"send", "each"}  -> IF Len(buf) >= Threshold THEN Len(buf) ELSE 0
    [] call = "all"               -> IF Len(buf) >= Threshold THEN Threshold ELSE 0
    [] call \in {"flush", "drop"} -> Len(buf)

\* Mutant of Advance: the rest of the buffer goes with the batch.
AdvanceDropsRest(p, old, items, call) ==
  LET k   == Entering(old, items, call)
      buf == old \o SubSeq(items, 1, k)
      n   == Taken(buf, call)
  IN  /\ flight' = [flight EXCEPT ![p] = SubSeq(buf, 1, n)]
      /\ buffer' = [buffer EXCEPT ![p] = IF n = 0 THEN buf ELSE <<>>]
      /\ unsent' = [unsent EXCEPT ![p] = SubSeq(items, k + 1, Len(items))]
      /\ op' = [op EXCEPT ![p] = IF n > 0 THEN call
                                 ELSE IF call = "drop" THEN "gone" ELSE "idle"]

\* The call goes on with old in the buffer and items still to enter it: its next batch
\* is cut off, or it returns.
Advance(p, old, items, call) ==
  LET k   == Entering(old, items, call)
      buf == old \o SubSeq(items, 1, k)
      n   == Taken(buf, call)
  IN  /\ flight' = [flight EXCEPT ![p] = SubSeq(buf, 1, n)]
      /\ buffer' = [buffer EXCEPT ![p] = SubSeq(buf, n + 1, Len(buf))]
      /\ unsent' = [unsent EXCEPT ![p] = SubSeq(items, k + 1, Len(items))]
      /\ op' = [op EXCEPT ![p] = IF n > 0 THEN call
                                 ELSE IF call = "drop" THEN "gone" ELSE "idle"]

NextItems(p, n) == SubSeq(setup.items, accepted[p] + 1, accepted[p] + n)

\* ProducerSpout::send, and with it BatchSpout::send or ReduceSpout::send
Send(p) ==
  /\ op[p] = "idle" /\ Framed
  /\ accepted[p] < Len(setup.items)
  /\ accepted' = [accepted EXCEPT ![p] = @ + 1]
  /\ Advance(p, buffer[p], NextItems(p, 1), "send")
  /\ UNCHANGED <<chosen, nextId, id, ring, handed, sink, broken, rings, got, reloads>>

\* Spout::send_all of the chain sends item by item; send_all of the BatchSpout or
\* ReduceSpout in it, which inner_mut() gives once a first item has been sent, takes
\* them all at once.
SendAll(p) ==
  /\ op[p] = "idle" /\ Framed
  /\ \E n \in 2 .. Len(setup.items) - accepted[p], call \in {"each", "all"} :
       /\ call = "all" => accepted[p] > 0
       /\ accepted' = [accepted EXCEPT ![p] = @ + n]
       /\ Advance(p, buffer[p], NextItems(p, n), call)
  /\ UNCHANGED <<chosen, nextId, id, ring, handed, sink, broken, rings, got, reloads>>

\* flush: what is buffered, in one batch.
Flush(p) ==
  /\ op[p] = "idle" /\ Framed
  /\ buffer[p] # <<>>
  /\ Advance(p, buffer[p], <<>>, "flush")
  /\ UNCHANGED <<chosen, nextId, id, accepted, ring, handed, sink, broken, rings, got, reloads>>

\* Producer::push: the oldest item of a full ring goes to the chain, or is dropped.
Push(p) ==
  /\ op[p] = "idle" /\ ~Framed
  /\ accepted[p] < Len(setup.items)
  /\ accepted' = [accepted EXCEPT ![p] = @ + 1]
  /\ IF Len(ring[p]) < RingCap
     THEN /\ ring' = [ring EXCEPT ![p] = @ \o NextItems(p, 1)]
          /\ UNCHANGED <<op, unsent, buffer, flight, handed>>
     ELSE /\ ring' = [ring EXCEPT ![p] = Tail(@) \o NextItems(p, 1)]
          /\ IF Batched
             THEN Advance(p, buffer[p], <<Head(ring[p])>>, "send") /\ UNCHANGED handed
             ELSE /\ handed' = [handed EXCEPT ![p] = Append(@, [batch |-> <<Head(ring[p])>>,
                                                        by |-> "push", fate |-> "lost"])]
                  /\ UNCHANGED <<op, unsent, buffer, flight>>
  /\ UNCHANGED <<chosen, nextId, id, sink, broken, rings, got, reloads>>

\* The chain of a Producer is dropped: its ring is sent and flushed.
DropProducer(p) ==
  /\ op[p] = "idle" /\ setup.mode = "ring"
  /\ Advance(p, buffer[p], ring[p], "drop")
  /\ ring' = [ring EXCEPT ![p] = <<>>]
  /\ UNCHANGED <<chosen, nextId, id, accepted, handed, sink, broken, rings, got, reloads>>

\* A chain without a Producer in front, or a ring over a DropSpout, goes with its items.
DropChain(p) ==
  /\ op[p] = "idle" /\ setup.mode # "ring"
  /\ op' = [op EXCEPT ![p] = "gone"]
  /\ handed' = [handed EXCEPT ![p] = Append(@, [batch |-> buffer[p] \o ring[p],
                                               by |-> "drop", fate |-> "lost"])]
  /\ buffer' = [buffer EXCEPT ![p] = <<>>]
  /\ ring' = [ring EXCEPT ![p] = <<>>]
  /\ UNCHANGED <<chosen, nextId, id, accepted, unsent, flight, sink, broken, rings, got, reloads>>

\* What an iterator still had goes with it.
Abandoned(p) == IF unsent[p] = <<>> THEN <<>>
             ELSE <<[batch |-> unsent[p], by |-> "iterator", fate |-> "lost"]>>

\* The sink has answered for the batch in flight.  An error ends the call: the batch is
\* lost with it, and what a send_all of the chain had not sent yet; what the buffer has
\* stays there.
Settle(p, fate) ==
  LET done == Append(handed[p], [batch |-> flight[p], by |-> op[p], fate |-> fate])
  IN  IF fate = "ok" /\ op[p] \in {"each", "all", "drop"}
      THEN /\ handed' = [handed EXCEPT ![p] = done]
           /\ Advance(p, buffer[p], unsent[p], op[p])
      ELSE /\ handed' = [handed EXCEPT ![p] = done \o Abandoned(p)]
           /\ flight' = [flight EXCEPT ![p] = <<>>]
           /\ unsent' = [unsent EXCEPT ![p] = <<>>]
           /\ op' = [op EXCEPT ![p] = "idle"]
           /\ UNCHANGED buffer

\* A channel that is full blocks the sender.
Deliver(p) ==
  /\ flight[p] # <<>>
  /\ IF Framed
     THEN /\ CanFrame(flight[p]) /\ ~broken
          /\ setup.mode = "channel" => Len(sink) < ChannelCap
          /\ sink' = Append(sink, Frame(id[p], flight[p]))
          /\ UNCHANGED got
     ELSE /\ got' = [got EXCEPT ![id[p]] = Append(@, Load(flight[p]))]
          /\ UNCHANGED sink
  /\ Settle(p, "ok")
  /\ UNCHANGED <<chosen, nextId, id, accepted, ring, broken, rings, reloads>>

\* The frame cannot be made, the receiver is gone or the mutex is poisoned.
Refuse(p) ==
  /\ flight[p] # <<>> /\ Framed
  /\ broken \/ ~CanFrame(flight[p])
  /\ Settle(p, "lost")
  /\ UNCHANGED <<chosen, nextId, id, accepted, ring, sink, broken, rings, got, reloads>>

\* The spout under the mutex panics: the thread unwinds and the mutex is poisoned.
SinkPanics(p) ==
  /\ flight[p] # <<>> /\ setup.mode = "mutex" /\ ~broken /\ CanFrame(flight[p])
  /\ broken' = TRUE
  /\ handed' = [handed EXCEPT ![p] = @ \o
                  <<[batch |-> flight[p], by |-> op[p], fate |-> "lost"],
                    [batch |-> buffer[p], by |-> "drop", fate |-> "lost"]>> \o Abandoned(p)]
  /\ flight' = [flight EXCEPT ![p] = <<>>]
  /\ unsent' = [unsent EXCEPT ![p] = <<>>]
  /\ buffer' = [buffer EXCEPT ![p] = <<>>]
  /\ op' = [op EXCEPT ![p] = "gone"]
  /\ UNCHANGED <<chosen, nextId, id, accepted, ring, sink, rings, got, reloads>>

\* The receiver takes a frame, or the owner of the collection does.
Receive ==
  /\ sink # <<>> /\ DecodeFrame(Head(sink)).ok
  /\ ~(broken /\ setup.mode = "channel")
  /\ LET f == DecodeFrame(Head(sink))
     IN  got' = [got EXCEPT ![f.from] = Append(@, f.load)]
  /\ sink' = Tail(sink)
  /\ UNCHANGED <<chosen, nextId, id, op, accepted, unsent, ring, buffer, flight, handed, broken, rings,
                 reloads>>

ReceiverGoes ==
  /\ setup.mode = "channel" /\ ~broken
  /\ broken' = TRUE
  /\ sink' = <<>>
  /\ UNCHANGED <<chosen, nextId, id, op, accepted, unsent, ring, buffer, flight, handed, rings, got,
                 reloads>>

\* The owner stores the BatchSpout and builds it anew from the snapshot.
Reload(p) ==
  /\ op[p] = "idle" /\ Framed /\ ~setup.reduce
  /\ reloads < MaxReloads
  /\ CanSnapshot(buffer[p])
  /\ reloads' = reloads + 1
  /\ LET r == DecodeBatch(Encode(Snapshot, <<Threshold, buffer[p]>>))
     IN  r.ok /\ Advance(p, <<>>, r.val[2], "all")
  /\ UNCHANGED <<chosen, nextId, id, accepted, ring, handed, sink, broken, rings, got>>

\* Consumer::collect takes over the ring of a producer that has finished.
Collect(p) ==
  /\ op[p] = "idle" /\ setup.mode = "consumer"
  /\ op' = [op EXCEPT ![p] = "gone"]
  /\ rings' = Append(rings, p)
  /\ UNCHANGED <<chosen, nextId, id, accepted, unsent, ring, buffer, flight, handed, sink, broken,
                 got, reloads>>

\* Consumer::drain, ring by ring in the order they were collected.
Drain ==
  /\ \E i \in DOMAIN rings : ring[rings[i]] # <<>>
  /\ got' = [n \in DOMAIN got |->
       IF \E i \in DOMAIN rings : id[rings[i]] = n
       THEN Append(got[n], ring[CHOOSE p \in ToSet(rings) : id[p] = n]) ELSE got[n]]
  /\ handed' = [p \in Producers |->
       IF p \in ToSet(rings)
       THEN Append(handed[p], [batch |-> ring[p], by |-> "drain", fate |-> "ok"])
       ELSE handed[p]]
  /\ ring' = [p \in Producers |-> IF p \in ToSet(rings) THEN <<>> ELSE ring[p]]
  /\ UNCHANGED <<chosen, nextId, id, op, accepted, unsent, buffer, flight, sink, broken, rings,
                 reloads>>

Next ==
  \/ \E p \in Producers :
       \/ Clone(p) \/ Send(p) \/ SendAll(p) \/ Flush(p) \/ Push(p) \/ DropProducer(p)
       \/ DropChain(p) \/ Deliver(p) \/ Refuse(p) \/ SinkPanics(p) \/ Reload(p) \/ Collect(p)
  \/ Receive \/ ReceiverGoes \/ Drain

Spec == Init /\ [][Next]_vars

-------------------------------------------------------------------------------
(* Properties *)

Batches(p) == FlattenSeq([i \in DOMAIN handed[p] |-> handed[p][i].batch])
\* The loads that were delivered for p, and those that came out or wait in the sink.
Loads(p) ==
  LET ok == SelectSeq(handed[p], LAMBDA h : h.fate = "ok")
  IN  [i \in DOMAIN ok |-> Load(ok[i].batch)]
Out(p) ==
  LET waiting == SelectSeq([i \in DOMAIN sink |-> DecodeFrame(sink[i])],
                           LAMBDA f : f.from = id[p])
  IN  got[id[p]] \o [i \in DOMAIN waiting |-> waiting[i].load]

\* Every item a producer handed over is in exactly one place, in the order it was
\* handed over: in a batch the sink has taken or an error has reported, in the call under
\* way, in the buffer or in the ring, or it went with the iterator of a send_all, which
\* only an error or a panic that this call met can do; and what comes out under the
\* producer's id is what the sink has taken from it, batch by batch (traits.rs send_all,
\* core_impls.rs ProducerSpout, BatchSpout, Producer, Consumer).
Delivery ==
  \A p \in Producers :
    /\ Batches(p) \o flight[p] \o buffer[p] \o unsent[p] \o ring[p]
         = SubSeq(setup.items, 1, accepted[p])
    /\ unsent[p] # <<>> => flight[p] # <<>> /\ op[p] \in {"each", "drop"}
    /\ \A i \in DOMAIN handed[p] : handed[p][i].by = "iterator" =>
         \E j \in {i - 1, i - 2} \intersect DOMAIN handed[p] :
            handed[p][j].by = "each" /\ handed[p][j].fate = "lost"
    /\ op[p] # "none" =>
         IF setup.mode = "channel" /\ broken THEN IsPrefix(Out(p), Loads(p))
                                             ELSE Out(p) = Loads(p)

\* A frame is read back as the producer's id and its load; cut short anywhere or with
\* a byte added it is refused, so frames cannot run into each other (decode_frame).
\* Every frame is the last one when it is sent.
FramesStandAlone ==
  sink # <<>> =>
    LET frame == Last(sink)
        read  == DecodeFrame(frame)
    IN  /\ read.ok
        /\ \E p \in Producers : read.from = id[p] /\ op[p] # "none" /\ read.load \in ToSet(Loads(p))
        /\ \A n \in 0 .. Len(frame) - 1 : ~DecodeFrame(SubSeq(frame, 1, n)).ok
        /\ \A b \in Byte : ~DecodeFrame(Append(frame, b)).ok

\* As long as no batch was refused, what send and send_all hand on has exactly the
\* threshold's length and between calls the buffer holds less, also after the snapshot
\* of a buffer is restored (BatchSpout's contract).
BatchesAreFull ==
  \A p \in Producers :
    Batched /\ (\A i \in DOMAIN handed[p] : handed[p][i].fate = "ok") =>
      /\ op[p] \in {"idle", "gone"} => Len(buffer[p]) < Threshold
      /\ \A i \in DOMAIN handed[p] :
           handed[p][i].by \in {"send", "each", "all"} => Len(handed[p][i].batch) = Threshold

\* Does not hold (see the README): an error loses no more than the batch it is for.
ErrorLosesOneBatch ==
  \A p \in Producers : \A i \in DOMAIN handed[p] : handed[p][i].by # "iterator"

\* Does not hold (see the README): a batch is longer than the threshold when an earlier
\* one of the same send_all was refused.
NeverMoreThanThreshold ==
  \A p \in Producers : Batched => Len(flight[p]) <= Threshold

\* Does not hold (see the README): a Producer's items wait in its ring for a consumer
\* when it is dropped.
DroppedWaitInRing ==
  \A p \in Producers : op[p] = "gone" /\ p \notin ToSet(rings) => buffer[p] = <<>> /\
    (accepted[p] > 0 /\ setup.mode \in {"ring", "consumer"} => ring[p] # <<>>)
===============================================================================

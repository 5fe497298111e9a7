---------------------------- MODULE PacketStore ----------------------------
(***************************************************************************)
(* The timeline's packet collection (src/store/packet-store.ts): packets   *)
(* arrive one at a time and wait in a batch until a timer or the batch     *)
(* size flushes them, or arrive as an array; a flush merges them into the  *)
(* list, newest timestamp first, and the retention limit cuts its end off. *)
(*                                                                         *)
(* A packet is its arrival number n, its session s and its timestamp t;    *)
(* its content, its annotations and the retention warning are left out.    *)
(***************************************************************************)
EXTENDS Integers, Sequences, FiniteSets, Arrangements

CONSTANTS
  Sessions,     \* session ids packets belong to
  Times,        \* timestamps
  BatchMax,     \* maxPacketBatchSize
  Limits,       \* values of settings.packetRetentionLimit explored
  AllSessions   \* clearPackets() without a session

VARIABLES
  packets,      \* the timeline
  pending,      \* pendingPacketBatch
  timer,        \* packetBatchTimer is set
  limit         \* settings.packetRetentionLimit

timelineVars == <<packets, pending, timer, limit>>

Packet == [n : Nat, s : Sessions, t : Times]

TypeOK ==
  /\ packets \in Seq(Packet)
  /\ pending \in Seq(Packet)
  /\ timer \in BOOLEAN
  /\ limit \in Limits

Init ==
  /\ packets = <<>>
  /\ pending = <<>>
  /\ timer = FALSE
  /\ limit \in Limits

(***************************************************************************)
(* sortPacketsByTimestamp: a stable sort, so packets with equal timestamps *)
(* keep the order they arrived in.                                         *)
(***************************************************************************)
SortOldestFirst(ps) ==       \* faulty: comparator the wrong way round
  LET before == {ij \in (DOMAIN ps) \X (DOMAIN ps) :
                   \/ ps[ij[1]].t < ps[ij[2]].t
                   \/ ps[ij[1]].t = ps[ij[2]].t /\ ij[1] < ij[2]}
      order  == Arranged(DOMAIN ps, before)
  IN  [k \in DOMAIN ps |-> ps[order[k]]]

SortByTimestamp(ps) == NewestFirst(ps)

(***************************************************************************)
(* mergePacketsByTimestamp: its loop moves one packet a turn, from the     *)
(* left list if that one goes first, as it does on equal timestamps.       *)
(* leftIndex after k turns is LeftIndex(left, right)[k], and rightIndex is *)
(* what remains of k.                                                      *)
(***************************************************************************)
LeftGoesFirst(left, right, leftIndex, rightIndex) ==
  /\ leftIndex < Len(left)
  /\ rightIndex < Len(right) => left[leftIndex + 1].t >= right[rightIndex + 1].t

LeftIndex(left, right) ==
  LET index[k \in 0 .. Len(left) + Len(right)] ==
        IF k = 0 THEN 0
        ELSE IF LeftGoesFirst(left, right, index[k - 1], k - 1 - index[k - 1])
             THEN index[k - 1] + 1 ELSE index[k - 1]
  IN  index

Merge(left, right) ==
  LET index == LeftIndex(left, right)
  IN  [k \in 1 .. Len(left) + Len(right) |->
         IF index[k] > index[k - 1] THEN left[index[k]] ELSE right[k - index[k]]]

RetainLast(ps, max) ==       \* faulty: slices from the wrong end
  SubSeq(ps, IF Len(ps) <= max THEN 1 ELSE Len(ps) - max + 1, Len(ps))

RetainNewest(ps, max) == SubSeq(ps, 1, IF Len(ps) <= max THEN Len(ps) ELSE max)

(***************************************************************************)
(* What the timeline becomes when the batch b is flushed into it, and      *)
(* flushPendingPackets itself, the first thing every operation but         *)
(* addPacket does.                                                         *)
(***************************************************************************)
WithBatch(b, max) ==
  IF b = <<>> THEN packets
  ELSE RetainNewest(Merge(SortByTimestamp(b), packets), max)

BatchGone == pending' = <<>> /\ timer' = FALSE

FlushTo(timeline) == packets' = timeline /\ BatchGone

AddPacketUntimed(p) ==       \* faulty: relies on a timer that is already set
  LET batch == Append(pending, p) IN
  /\ \/ /\ Len(batch) >= BatchMax
        /\ FlushTo(WithBatch(batch, limit))
     \/ /\ Len(batch) < BatchMax
        /\ pending' = batch
        /\ UNCHANGED <<packets, timer>>
  /\ UNCHANGED limit

AddPacket(p) ==
  LET batch == Append(pending, p) IN
  /\ \/ /\ Len(batch) >= BatchMax
        /\ FlushTo(WithBatch(batch, limit))
     \/ /\ Len(batch) < BatchMax
        /\ pending' = batch
        /\ timer' = TRUE
        /\ UNCHANGED packets
  /\ UNCHANGED limit

AddPackets(ps) ==
  LET flushed == WithBatch(pending, limit) IN
  /\ FlushTo(IF ps = <<>> THEN flushed
             ELSE RetainNewest(Merge(SortByTimestamp(ps), flushed), limit))
  /\ UNCHANGED limit

(***************************************************************************)
(* packets.filter: what is left without the packets of session s.          *)
(***************************************************************************)
OfOthers(ps, s) == Kept(ps, {i \in DOMAIN ps : ps[i].s # s})

ClearPacketsUnflushed(s) ==  \* faulty: forgets the packets still in the batch
  /\ packets' = IF s = AllSessions THEN <<>>
                ELSE OfOthers(packets, s)
  /\ UNCHANGED <<pending, timer, limit>>

ClearPackets(s) ==
  /\ FlushTo(IF s = AllSessions THEN <<>>
             ELSE OfOthers(WithBatch(pending, limit), s))
  /\ UNCHANGED limit

UpdateAnnotations ==         \* flushes; the annotated packet keeps its place
  /\ FlushTo(WithBatch(pending, limit))
  /\ UNCHANGED limit

(***************************************************************************)
(* The settings pages store a new limit and call trimToRetentionLimit in   *)
(* the same event handler.                                                 *)
(***************************************************************************)
ChangeLimit(l) ==
  /\ limit' = l
  /\ FlushTo(RetainNewest(WithBatch(pending, l), l))

TimerFires ==
  /\ timer
  /\ FlushTo(WithBatch(pending, limit))
  /\ UNCHANGED limit

----------------------------------------------------------------------------

(***************************************************************************)
(* The timeline is ordered by timestamp, newest first, however bursts,     *)
(* imports and late packets were interleaved, and holds no more packets    *)
(* than the limit in force.                                                *)
(***************************************************************************)
TimelineOrderedAndBounded ==
  /\ \A i, j \in DOMAIN packets : i < j => packets[i].t >= packets[j].t
  /\ Len(packets) <= limit

(***************************************************************************)
(* A packet that waits in the batch has a timer coming for it.             *)
(***************************************************************************)
BatchIsScheduled == timer <=> pending # <<>>

=============================================================================

-------------------------- MODULE PacketRelations --------------------------
(***************************************************************************)
(* What is derived from the packets of the timeline: the relations of      *)
(* lib/packet-relationships.ts, the flows of lib/flow-analysis.ts and the  *)
(* groups of lib/packet-grouping.ts, over a timeline that grows.           *)
(*                                                                         *)
(* A packet names what its payload holds: a type the decoders know, a      *)
(* request id, a message id, the message it replies to, and, for a replay, *)
(* the packet it was made from.  The timeline is newest first; a sort by   *)
(* timestamp is stable, so of two packets of one millisecond the one       *)
(* higher on the timeline counts as the earlier.                           *)
(***************************************************************************)
EXTENDS Arrangements, Functions

CONSTANTS
  Sessions,
  Contents,          \* [type, request, message, reply, direction, summary] of a packet,
                     \* where summary is PacketDecoding's Summary(type)
  AuthWindow,        \* 5 s
  ReconnectWindow,   \* 10 s
  Steps,             \* how much later the next packet may be
  MaxPackets         \* bound: packets on the timeline

None     == "none"
NoPacket == 0
Gone     == -1          \* the id of a packet that left the timeline

VARIABLE packets

Init == packets = <<>>

----------------------------------------------------------------------------
(* Packets and their order *)

Indices == DOMAIN packets

Before(i, j) == packets[i].ts < packets[j].ts \/ (packets[i].ts = packets[j].ts /\ i < j)

----------------------------------------------------------------------------
(* Relations: [kind, reason, from, to], of two packet ids *)

Present(id) == \E i \in Indices : packets[i].id = id
ById(id)    == packets[CHOOSE i \in Indices : packets[i].id = id]

Relates(r) ==
  /\ r.from # r.to
  /\ Present(r.from) /\ Present(r.to)
  /\ ById(r.from).s = ById(r.to).s

Relation(kind, reason, from, to) == [kind |-> kind, reason |-> reason, from |-> from, to |-> to]

Related(kind, Reason(_, _), Test(_, _)) ==
  {Relation(kind, Reason(ij[1], ij[2]), packets[ij[1]].id, packets[ij[2]].id) :
     ij \in {ab \in Indices \X Indices : Test(ab[1], ab[2])}}

Replays ==
  {Relation("replay-source", "replay-source", p.source, p.id) : p \in {q \in Range(packets) : q.source # NoPacket}}

(***************************************************************************)
(* Two packets of a session with one request id, one in each direction,    *)
(* and no third.                                                           *)
(***************************************************************************)
Sharing(i) == {j \in Indices : packets[j].s = packets[i].s /\ packets[j].request = packets[i].request}

PairReason(i, j) ==
  IF packets[i].type = "ping" /\ packets[j].type = "pong" THEN "ping-pong" ELSE "request-id"

PairsAmongMany ==             \* faulty: any two of the packets with the id
  Related("request-response", PairReason,
          LAMBDA i, j : /\ packets[i].request # None /\ j \in Sharing(i) /\ Before(i, j)
                        /\ packets[i].direction # packets[j].direction)

Pairs ==
  Related("request-response", PairReason,
          LAMBDA i, j : /\ packets[i].request # None
                        /\ i # j /\ Sharing(i) = {i, j} /\ Before(i, j)
                        /\ packets[i].direction # packets[j].direction)

(***************************************************************************)
(* A reply belongs to the one packet, of any session, that carries the     *)
(* message id and is not later.                                            *)
(***************************************************************************)
Answered(i) ==
  {j \in Indices : packets[j].message = packets[i].reply /\ packets[j].ts <= packets[i].ts}

Replies ==
  Related("request-response", LAMBDA i, j : "reply-to",
          LAMBDA i, j : packets[j].reply # None /\ Answered(j) = {i})

(***************************************************************************)
(* Neighbours among a session's packets of one class, close in time.       *)
(***************************************************************************)
Sequence(mark, window, kind, reason) ==
  LET class == {i \in Indices : packets[i].summary[mark]}
      next(i, j) == /\ i \in class /\ j \in class
                    /\ packets[i].s = packets[j].s /\ Before(i, j)
                    /\ ~\E k \in class : packets[k].s = packets[i].s /\ Before(i, k) /\ Before(k, j)
                    /\ packets[j].ts - packets[i].ts <= window
  IN  Related(kind, LAMBDA i, j : reason, next)

Relations ==
  {r \in Replays \cup Pairs \cup Replies
         \cup Sequence("auth", AuthWindow, "auth-flow", "auth-sequence")
         \cup Sequence("reconnect", ReconnectWindow, "reconnect-flow", "reconnect-sequence")
     : Relates(r)}

----------------------------------------------------------------------------
(* Flows: [kind, reason, ids] *)

OfKind(rels, kind) == {r \in rels : r.kind = kind}

Connected(id, rels) ==        \* the smallest set with id that no relation leaves
  LET ids == {r.from : r \in rels} \cup {r.to : r \in rels}
      closed == {c \in SUBSET ids : id \in c /\ \A r \in rels : r.from \in c <=> r.to \in c}
  IN  {i \in ids : \A c \in closed : i \in c}

Components(rels) == {Connected(r.from, rels) : r \in rels}

(***************************************************************************)
(* A draft also has a title, which depends on what it was made from.       *)
(***************************************************************************)
Draft(kind, reason, ids, title) == [kind |-> kind, reason |-> reason, ids |-> ids, title |-> title]

RelationDrafts(rels) ==
  {Draft("auth", "auth-sequence", c, "sequence") : c \in Components(OfKind(rels, "auth-flow"))}
  \cup {Draft("reconnect", "reconnect-sequence", c, "sequence")
          : c \in Components(OfKind(rels, "reconnect-flow"))}
  \cup {IF r.reason = "ping-pong"
          THEN Draft("heartbeat", "heartbeat-sequence", {r.from, r.to}, r.reason)
          ELSE Draft("request-response", "request-response", {r.from, r.to}, r.reason)
          : r \in OfKind(rels, "request-response")}
  \cup {Draft("replay", "replay-source", {r.from, r.to}, r.reason) : r \in OfKind(rels, "replay-source")}

Alike(p, q) == p.s = q.s /\ p.direction = q.direction /\ p.type = q.type

RepeatedDrafts ==
  LET sets == {{q \in Range(packets) : Alike(p, q)} : p \in Range(packets)}
      beat(group) == \E p \in group : p.summary.beat
  IN  {IF beat(g) THEN Draft("heartbeat", "heartbeat-sequence", {p.id : p \in g}, "repeated")
                  ELSE Draft("repeated-event", "repeated-event", {p.id : p \in g}, "repeated")
         : g \in {h \in sets : Cardinality(h) >= 3}}

Dedupe(drafts) ==
  {CHOOSE d \in drafts : d.kind = e.kind /\ d.reason = e.reason /\ d.ids = e.ids : e \in drafts}

Flows(rels) == {d \in Dedupe(RelationDrafts(rels) \cup RepeatedDrafts) : Cardinality(d.ids) >= 2}

FlowId(f) ==
  LET earlier(a, b) == ById(a).ts < ById(b).ts \/ (ById(a).ts = ById(b).ts /\ a < b)
      first == CHOOSE a \in f.ids : \A b \in f.ids \ {a} : earlier(a, b)
      last  == CHOOSE b \in f.ids : \A a \in f.ids \ {b} : earlier(a, b)
  IN  <<f.kind, f.reason, first, last, Cardinality(f.ids)>>

----------------------------------------------------------------------------
(* Groups of the timeline: runs of packets with one key *)

Key(p) ==
  LET kind == p.summary.group
  IN  IF kind = "repeated-event" THEN <<kind, p.direction, p.type>> ELSE <<kind>>

Runs(list) ==                 \* first and last index of each longest run
  {run \in (DOMAIN list) \X (DOMAIN list) :
     /\ run[1] <= run[2]
     /\ \A i \in run[1] .. run[2] : Key(list[i]) = Key(list[run[1]])
     /\ run[1] = 1 \/ Key(list[run[1] - 1]) # Key(list[run[1]])
     /\ run[2] = Len(list) \/ Key(list[run[2] + 1]) # Key(list[run[1]])}

IsGroup(list, run) ==
  run[2] - run[1] + 1 >= (IF Key(list[run[1]])[1] = "repeated-event" THEN 3 ELSE 2)

GroupId(list, run) == <<Key(list[run[1]]), list[run[2]].id>>

Groups(list) == {run \in Runs(list) : IsGroup(list, run)}

GroupIds(list) == {GroupId(list, run) : run \in Groups(list)}

(***************************************************************************)
(* The rows shown: a group's packets only when it is expanded.  Of what    *)
(* could be shown, 2 * i is the place of the i-th packet and 2 * i - 1     *)
(* that of the group that begins with it.                                  *)
(***************************************************************************)
PacketItem(p) == [type |-> "packet", packet |-> p]
GroupItem(id) == [type |-> "group", id |-> id]

Rows(list, expanded) ==
  LET items == [n \in 1 .. 2 * Len(list) |->
                  IF n % 2 = 0 THEN PacketItem(list[n \div 2])
                  ELSE GroupItem(GroupId(list, CHOOSE run \in Groups(list) : 2 * run[1] - 1 = n))]
      hidden == UNION {run[1] .. run[2] : run \in {r \in Groups(list) : GroupId(list, r) \notin expanded}}
  IN  Kept(items, {2 * i : i \in DOMAIN list \ hidden} \cup {2 * run[1] - 1 : run \in Groups(list)})

----------------------------------------------------------------------------
(* The timeline grows; a packet of the same batch and millisecond goes     *)
(* below those that came before it                                         *)

PutBelow(p, n) == SubSeq(packets, 1, n) \o <<p>> \o SubSeq(packets, n + 1, Len(packets))

Arrive ==
  /\ Len(packets) < MaxPackets
  /\ \E s \in Sessions, c \in Contents, step \in Steps, source \in {Gone, NoPacket} \cup Indices :
       LET last == IF packets = <<>> THEN 1 ELSE packets[1].ts
           p == [id |-> Len(packets) + 1, ts |-> last + step, s |-> s, type |-> c.type,
                 summary |-> c.summary, request |-> c.request, message |-> c.message,
                 reply |-> c.reply, direction |-> c.direction, source |-> source]
           tied == {i \in Indices : packets[i].ts = p.ts}
       IN  /\ source # NoPacket => c.direction = "outbound"
           /\ packets' = PutBelow(p, 0) \/ packets' = PutBelow(p, Cardinality(tied))

Next == Arrive

Spec == Init /\ [][Next]_packets

----------------------------------------------------------------------------
(* Properties *)

(***************************************************************************)
(* A relation joins two different packets that are still on the timeline,  *)
(* of one session, and points forward in time.                             *)
(***************************************************************************)
RelationsPointForward(rels) ==
  \A r \in rels :
    /\ r.from # r.to /\ Present(r.from) /\ Present(r.to)
    /\ ById(r.from).s = ById(r.to).s
    /\ r.kind # "replay-source" => ById(r.from).ts <= ById(r.to).ts

(***************************************************************************)
(* A request has one answer: no packet is in two pairs of request ids, and *)
(* no packet is a reply to two.                                            *)
(***************************************************************************)
OneAnswer(answers) ==
  \A r, t \in answers :
    /\ r.reason = "reply-to" /\ t.reason = "reply-to" /\ r.to = t.to => r = t
    /\ r.reason # "reply-to" /\ t.reason # "reply-to" /\ {r.from, r.to} \cap {t.from, t.to} # {} => r = t

(***************************************************************************)
(* Flow ids, the keys of the list of flows and of packetFlowIds, are       *)
(* different; a packet of an authentication or reconnect sequence is in    *)
(* exactly one flow of that kind.                                          *)
(***************************************************************************)
FlowsAreDistinct(rels, flows) ==
  /\ \A f, g \in flows : f # g => FlowId(f) # FlowId(g)
  /\ \A r \in rels : r.kind \in {"auth-flow", "reconnect-flow"} =>
       Cardinality({f \in flows : f.kind \in {"auth", "reconnect"} /\ r.from \in f.ids
                                  /\ f.reason = r.reason}) = 1

(***************************************************************************)
(* Expanding every group shows every packet once and in order, and a new   *)
(* packet on top leaves the ids of the groups, so what is expanded stays.  *)
(***************************************************************************)
GroupsAreStable(list, groups) ==
  /\ LET rows == Rows(list, groups)
     IN  Kept(rows, {n \in DOMAIN rows : rows[n].type = "packet"}) = [i \in DOMAIN list |-> PacketItem(list[i])]
  /\ list # <<>> => GroupIds(Tail(list)) \subseteq groups

(***************************************************************************)
(* All of this of what is derived from the timeline as it is.              *)
(***************************************************************************)
RelationLaws ==
  LET rels == Relations
  IN  /\ RelationsPointForward(rels)
      /\ OneAnswer(OfKind(rels, "request-response"))
      /\ FlowsAreDistinct(rels, Flows(rels))
      /\ GroupsAreStable(packets, GroupIds(packets))

=============================================================================

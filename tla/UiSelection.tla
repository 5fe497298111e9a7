---------------------------- MODULE UiSelection ----------------------------
(***************************************************************************)
(* Which packet is selected: the selection part of store/ui-store.ts, the  *)
(* handlers that use it, and the effect of App.tsx that repairs it.  New   *)
(* packets wait in a batch for 16 ms (PacketStore) and so does the         *)
(* selection of the latest one; both timers have the same delay, so they   *)
(* fire in the order they were set.                                        *)
(*                                                                         *)
(* A packet is its number, its session and whether the filter may hide it. *)
(* Packets arrive with increasing timestamps.  The effect runs right after *)
(* the handler that changed the stores, so every action ends with it.      *)
(***************************************************************************)
EXTENDS Arrangements, SequencesExt

CONSTANTS
  Sessions,
  Retained,     \* settings.packetRetentionLimit
  MaxPackets,   \* bound: packets that ever arrive
  None          \* no packet, no session

VARIABLES
  timeline,     \* packets of the packet store, newest first
  batch,        \* pendingPacketBatch
  due,          \* timers that are set: "flush" and "select", in order
  latest,       \* pendingSelectedPacketId
  selected,     \* selectedPacketId
  mode,         \* packetSelectionMode
  session,      \* selectedSessionId, which filterState.sessionId always equals
  hiding,       \* whether the filter hides what it may hide
  arrived       \* packets so far

selectionVars == <<timeline, batch, due, latest, selected, mode, session, hiding, arrived>>

PacketIds == 1 .. MaxPackets
Packet    == [id : PacketIds, s : Sessions, noise : BOOLEAN]

TypeOK ==
  /\ timeline \in Seq(Packet) /\ Len(timeline) <= Retained
  /\ batch \in Seq(Packet)
  /\ due \in Seq({"flush", "select"}) /\ Len(due) <= 2
  /\ {latest, selected} \subseteq PacketIds \cup {None}
  /\ mode \in {"follow", "manual"}
  /\ session \in Sessions \cup {None}
  /\ hiding \in BOOLEAN
  /\ arrived \in 0 .. MaxPackets

Init ==
  /\ timeline = <<>>
  /\ batch = <<>>
  /\ due = <<>>
  /\ latest = None
  /\ selected = None
  /\ mode = "follow"
  /\ session = None
  /\ hiding = FALSE
  /\ arrived = 0

----------------------------------------------------------------------------
(* What is visible, and the effect *)

Shown(packets, s, hide) ==
  Kept(packets, {i \in DOMAIN packets : /\ s = None \/ packets[i].s = s
                                       /\ ~(hide /\ packets[i].noise)})

IdsOf(packets) == {p.id : p \in ToSet(packets)}

FirstId(packets) == IF packets = <<>> THEN None ELSE packets[1].id

ModeFor(id) == IF id = None THEN "follow" ELSE "manual"       \* selectPacket

(***************************************************************************)
(* The handler leaves the selection at id with mode m; the effect selects  *)
(* the newest visible packet in place of one that is not visible.          *)
(***************************************************************************)
SettleUnless(id, m) ==        \* faulty: does nothing when nothing is visible
  LET shown == Shown(timeline', session', hiding')
      kept  == id = None \/ shown = <<>> \/ id \in IdsOf(shown)
  IN  /\ selected' = IF kept THEN id ELSE FirstId(shown)
      /\ mode' = IF kept THEN m ELSE ModeFor(FirstId(shown))

Settle(id, m) ==
  LET shown == Shown(timeline', session', hiding')
      kept  == id = None \/ id \in IdsOf(shown)
  IN  /\ selected' = IF kept THEN id ELSE FirstId(shown)
      /\ mode' = IF kept THEN m ELSE ModeFor(FirstId(shown))

Keep   == Settle(selected, mode)
Choose(id) == Settle(id, ModeFor(id))

----------------------------------------------------------------------------
(* Packets *)

Merged(packets) ==            \* a flush: newest first, the oldest dropped
  LET all == Reverse(packets) \o timeline
  IN  SubSeq(all, 1, IF Len(all) < Retained THEN Len(all) ELSE Retained)

Set(timer, timers) == IF Contains(timers, timer) THEN timers ELSE Append(timers, timer)

NewPacket(s, noise) == [id |-> arrived + 1, s |-> s, noise |-> noise]

(***************************************************************************)
(* A captured packet: addPacket and selectLatestPacket.                    *)
(***************************************************************************)
Arrives ==
  /\ arrived < MaxPackets
  /\ arrived' = arrived + 1
  /\ \E s \in Sessions, noise \in BOOLEAN : batch' = Append(batch, NewPacket(s, noise))
  /\ latest' = arrived + 1
  /\ due' = Set("select", Set("flush", due))
  /\ UNCHANGED <<timeline, session, hiding>>
  /\ Keep

(***************************************************************************)
(* sendMessage: addPacket and selectPacket.  The packet is in the batch    *)
(* still, so the effect finds it not visible.                              *)
(***************************************************************************)
Sent ==
  /\ arrived < MaxPackets
  /\ arrived' = arrived + 1
  /\ \E s \in Sessions : batch' = Append(batch, NewPacket(s, FALSE))
  /\ due' = Set("flush", due)
  /\ UNCHANGED <<timeline, latest, session, hiding>>
  /\ Choose(arrived + 1)

BatchDone == batch' = <<>> /\ due' = Kept(due, {i \in DOMAIN due : due[i] # "flush"})

FlushTimer ==
  /\ due # <<>> /\ Head(due) = "flush"
  /\ timeline' = Merged(batch)
  /\ BatchDone
  /\ UNCHANGED <<latest, session, hiding, arrived>>
  /\ Keep

SelectTimerAlways ==          \* faulty: does not look at the mode
  /\ due # <<>> /\ Head(due) = "select"
  /\ due' = Tail(due)
  /\ UNCHANGED <<timeline, batch, latest, session, hiding, arrived>>
  /\ Settle(latest, mode)

SelectTimer ==
  /\ due # <<>> /\ Head(due) = "select"
  /\ due' = Tail(due)
  /\ UNCHANGED <<timeline, batch, latest, session, hiding, arrived>>
  /\ IF mode = "follow" THEN Settle(latest, "follow") ELSE Keep

(***************************************************************************)
(* emitInvestorDemoStep: packets of one step, of which one is selected.    *)
(***************************************************************************)
TourStep ==
  /\ arrived < MaxPackets
  /\ arrived' = arrived + 1
  /\ \E s \in Sessions : timeline' = Merged(Append(batch, NewPacket(s, FALSE)))
  /\ BatchDone
  /\ UNCHANGED <<latest, session, hiding>>
  /\ Choose(arrived + 1)

(***************************************************************************)
(* updatePacketAnnotations and the like flush the batch in passing.        *)
(***************************************************************************)
Annotate ==
  /\ batch # <<>>
  /\ timeline' = Merged(batch)
  /\ BatchDone
  /\ UNCHANGED <<latest, session, hiding, arrived>>
  /\ Keep

----------------------------------------------------------------------------
(* The user *)

SelectPacket ==
  /\ UNCHANGED <<timeline, batch, due, latest, session, hiding, arrived>>
  /\ \E p \in ToSet(Shown(timeline, session, hiding)) : Choose(p.id)

HandleJumpToLatestPacket ==
  /\ UNCHANGED <<timeline, batch, due, latest, session, hiding, arrived>>
  /\ Settle(FirstId(Shown(timeline, session, hiding)), "follow")

(***************************************************************************)
(* selectSession by a connect, a demo or a proxy session that starts.      *)
(***************************************************************************)
SelectSession ==
  /\ session' \in Sessions \cup {None}
  /\ UNCHANGED <<timeline, batch, due, latest, hiding, arrived>>
  /\ Settle(None, "follow")

(***************************************************************************)
(* handleSelectSession chooses the newest packet of the session, whether   *)
(* the other filters show it or not.                                       *)
(***************************************************************************)
HandleSelectSession ==
  /\ session' \in Sessions
  /\ UNCHANGED <<timeline, batch, due, latest, hiding, arrived>>
  /\ Choose(FirstId(Shown(timeline, session', FALSE)))

UpdateFilterState ==          \* resetFilters among them
  /\ hiding' = ~hiding
  /\ UNCHANGED <<timeline, batch, due, latest, session, arrived>>
  /\ Keep

(***************************************************************************)
(* clearPackets flushes the batch first; then nothing is selected.         *)
(***************************************************************************)
HandleClearCapturedFrames ==
  /\ Shown(timeline, session, FALSE) # <<>>
  /\ LET all == Merged(batch)
     IN  timeline' = Kept(all, {i \in DOMAIN all : session # None /\ all[i].s # session})
  /\ BatchDone
  /\ UNCHANGED <<latest, session, hiding, arrived>>
  /\ Settle(None, "follow")

Next ==
  \/ Arrives
  \/ Sent
  \/ FlushTimer
  \/ SelectTimer
  \/ TourStep
  \/ Annotate
  \/ SelectPacket
  \/ HandleJumpToLatestPacket
  \/ SelectSession
  \/ HandleSelectSession
  \/ UpdateFilterState
  \/ HandleClearCapturedFrames

Spec == Init /\ [][Next]_selectionVars

----------------------------------------------------------------------------
(* Properties *)

(***************************************************************************)
(* Whatever is trimmed, cleared, filtered or late, the selection is of a   *)
(* packet on the timeline as it is shown, or of none.                      *)
(***************************************************************************)
SelectedIsShown ==
  selected # None => selected \in IdsOf(Shown(timeline, session, hiding))

(***************************************************************************)
(* While the user looks at an older packet, neither packets that arrive    *)
(* nor the two timers move the selection away, until it is trimmed.        *)
(***************************************************************************)
SelectionStays ==
  mode = "manual" /\ (Arrives \/ FlushTimer \/ SelectTimer)
    => selected' = selected \/ selected \notin IdsOf(timeline')

ManualSelectionStays == [][SelectionStays]_selectionVars

=============================================================================

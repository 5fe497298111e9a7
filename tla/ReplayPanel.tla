---------------------------- MODULE ReplayPanel ----------------------------
(***************************************************************************)
(* Sending and replaying: components/manual-send-panel.tsx.  A sequence is *)
(* an async loop over a copy of recent outgoing packets that waits between *)
(* two sends; it goes on only while the panel's run number is its own.     *)
(* After every step the panel renders, and an effect cancels the run when  *)
(* the connection is gone and a status is shown.                           *)
(***************************************************************************)
EXTENDS Integers, Sequences, FiniteSets, SequencesExt

CONSTANTS
  Count,          \* replaySequenceCount
  MaxRuns,        \* bound: run numbers
  MaxSends,       \* bound: packets sent
  MaxEpochs       \* bound: connections

VARIABLES
  connected,      \* isConnected
  epoch,          \* number of the connection
  kind,           \* replayStatus.kind
  runId,          \* sequenceRunIdRef
  loops,          \* waiting loops: [run, next, frames]
  selected,       \* selectedPacketId, 0 when none
  sent            \* what went out: [run, frame], 0 outside a sequence

panelVars == <<connected, epoch, kind, runId, loops, selected, sent>>

Outside == 0

TypeOK ==
  /\ kind \in {"idle", "running", "success", "error"}
  /\ runId \in 0 .. MaxRuns
  /\ \A loop \in loops : loop.run \in 1 .. MaxRuns /\ loop.next \in DOMAIN loop.frames
  /\ selected \in 0 .. Len(sent)

Init ==
  /\ connected = FALSE
  /\ epoch = 0
  /\ kind = "idle"
  /\ runId = 0
  /\ loops = {}
  /\ selected = 0
  /\ sent = <<>>

----------------------------------------------------------------------------
(***************************************************************************)
(* The panel shows k; the effect then resets a status shown without a      *)
(* connection.                                                             *)
(***************************************************************************)
Show(k, run, online) ==
  LET reset == ~online /\ k # "idle"
  IN  /\ kind' = IF reset THEN "idle" ELSE k
      /\ runId' = IF reset THEN run + 1 ELSE run

(***************************************************************************)
(* getReplaySequencePackets: from the selected packet back, oldest first.  *)
(* A packet's number is its place among the sent ones.                     *)
(***************************************************************************)
ReplaySequencePackets ==
  LET last == IF selected = 0 THEN Len(sent) ELSE selected
      size == IF last < Count THEN last ELSE Count
  IN  [n \in 1 .. size |-> last - size + n]

Send(run, frame) == Append(sent, [run |-> run, frame |-> frame])

----------------------------------------------------------------------------
(* The connection *)

Connects ==
  /\ ~connected /\ epoch < MaxEpochs
  /\ connected' = TRUE
  /\ epoch' = epoch + 1
  /\ UNCHANGED <<kind, runId, loops, selected, sent>>

Disconnects ==
  /\ connected /\ runId < MaxRuns
  /\ connected' = FALSE
  /\ Show(kind, runId, FALSE)
  /\ UNCHANGED <<epoch, loops, selected, sent>>

----------------------------------------------------------------------------
(* Single sends *)

SendOne ==
  /\ connected
  /\ \/ /\ Len(sent) < MaxSends
        /\ sent' = Send(Outside, 0)
        /\ kind' = "success"
     \/ kind' = "error" /\ UNCHANGED sent
  /\ UNCHANGED <<connected, epoch, runId, loops>>

HandleSendDraft == SendOne /\ selected' = IF kind' = "success" THEN 0 ELSE selected

HandleReplayPacket ==         \* a row of the outgoing packets, enabled during a sequence
  \E frame \in DOMAIN sent :
    SendOne /\ selected' = IF kind' = "success" THEN frame ELSE selected

HandleLoadPacket ==
  /\ \E frame \in DOMAIN sent : selected' = frame
  /\ kind' = "idle"
  /\ UNCHANGED <<connected, epoch, runId, loops, sent>>

EditDraft ==                  \* or the delay
  /\ kind = "error"
  /\ kind' = "idle"
  /\ UNCHANGED <<connected, epoch, runId, loops, selected, sent>>

----------------------------------------------------------------------------
(* Sequences *)

(***************************************************************************)
(* The first frame goes out at once, the others after a delay each; with   *)
(* no delay the whole loop runs here.                                      *)
(***************************************************************************)
HandleReplaySequence ==
  /\ connected /\ kind # "running"
  /\ runId < MaxRuns
  /\ LET frames == ReplaySequencePackets
         run == runId + 1
     IN  /\ frames # <<>> /\ Len(sent) + Len(frames) <= MaxSends
         /\ runId' = run
         /\ \/ kind' = "error" /\ UNCHANGED <<loops, sent>>               \* the first send fails
            \/ /\ Len(frames) = 1
               /\ sent' = Send(run, frames[1])
               /\ kind' = "success" /\ UNCHANGED loops
            \/ /\ Len(frames) > 1
               /\ sent' = Send(run, frames[1])
               /\ loops' = loops \cup {[run |-> run, next |-> 2, frames |-> frames]}
               /\ kind' = "running"
            \/ /\ Len(frames) > 1
               /\ sent' = sent \o [n \in DOMAIN frames |-> [run |-> run, frame |-> frames[n]]]
               /\ kind' = "success" /\ UNCHANGED loops
  /\ UNCHANGED <<connected, epoch, selected>>

MayGoOnAnyway(loop) == TRUE           \* faulty: does not look again after the delay

MayGoOn(loop) == loop.run = runId

Cancelled(loop) ==
  /\ ~MayGoOn(loop)
  /\ loops' = loops \ {loop}
  /\ UNCHANGED <<connected, epoch, kind, runId, selected, sent>>

SendsNext(loop) ==
  /\ MayGoOn(loop) /\ connected /\ Len(sent) < MaxSends
  /\ sent' = Send(loop.run, loop.frames[loop.next])
  /\ IF loop.next = Len(loop.frames)
       THEN kind' = "success" /\ loops' = loops \ {loop}
       ELSE kind' = "running" /\ loops' = (loops \ {loop}) \cup {[loop EXCEPT !.next = @ + 1]}
  /\ UNCHANGED <<connected, epoch, runId, selected>>

SendFails(loop) ==
  /\ MayGoOn(loop)
  /\ connected \/ runId < MaxRuns
  /\ loops' = loops \ {loop}
  /\ Show("error", runId, connected)
  /\ UNCHANGED <<connected, epoch, selected, sent>>

DelayEnds(loop) == Cancelled(loop) \/ SendsNext(loop) \/ SendFails(loop)

HandleClearReplayErrors ==
  /\ runId < MaxRuns
  /\ runId' = runId + 1
  /\ kind' = "idle"
  /\ UNCHANGED <<connected, epoch, loops, selected, sent>>

Unmount ==                    \* the next mount starts anew
  /\ runId < MaxRuns
  /\ runId' = runId + 1
  /\ kind' = "idle"
  /\ selected' = 0
  /\ UNCHANGED <<connected, epoch, loops, sent>>

Next ==
  \/ Connects
  \/ Disconnects
  \/ HandleSendDraft
  \/ HandleReplayPacket
  \/ HandleLoadPacket
  \/ EditDraft
  \/ HandleReplaySequence
  \/ \E loop \in loops : DelayEnds(loop)
  \/ HandleClearReplayErrors
  \/ Unmount

(***************************************************************************)
(* A delay of at most ten seconds ends.                                    *)
(***************************************************************************)
Delays == \E loop \in loops : DelayEnds(loop)
Fairness == WF_panelVars(Delays)

----------------------------------------------------------------------------
(* Properties *)

(***************************************************************************)
(* The buttons a running sequence disables come back: a status "running"   *)
(* belongs to a loop that is still waiting and may go on.                  *)
(***************************************************************************)
RunningHasALoop == kind = "running" => \E loop \in loops : loop.run = runId

(***************************************************************************)
(* At most one sequence sends: the frames of a run come one after another  *)
(* in the order they were first sent, and no frame of an earlier run       *)
(* follows one of a later run.                                             *)
(***************************************************************************)
RunsDoNotMix ==
  \A i, j \in DOMAIN sent :
    i < j /\ sent[i].run # Outside /\ sent[j].run # Outside =>
      /\ sent[i].run <= sent[j].run
      /\ sent[i].run = sent[j].run => sent[i].frame < sent[j].frame

SequenceEnds == kind = "running" ~> kind # "running"

=============================================================================

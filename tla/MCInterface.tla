---------------------------- MODULE MCInterface ----------------------------
(***************************************************************************)
(* The frontend's asynchronous components for TLC, one at a time: each     *)
(* behaviour is about one `subject`, whose specification it follows while  *)
(* the other components keep their initial state.  The components share no *)
(* state here, so one run explores each of them as a run of its own would. *)
(***************************************************************************)
EXTENDS ProxyListeners, DemoModes

CONSTANTS
  Count, MaxRuns, MaxSends, MaxEpochs,                  \* ReplayPanel
  Packets, Urls, Model, Nothing, MaxRequests, MaxMounts,   \* AiAssistant
  Rules, Times, Limits,                                    \* SessionFiles
  MaxCaptured, MaxPackets, MaxSessions, MaxFiles, MaxRunning

ASSUME ReplayAssumption == Count \in Nat /\ MaxRuns \in Nat /\ MaxSends \in Nat
ASSUME AiAssumption == Urls # {} /\ MaxRequests \in Nat /\ MaxMounts \in Nat \ {0}
ASSUME FilesAssumption ==
  /\ Rules \subseteq {"none", "valid", "invalid"} /\ \E r \in Rules : r # "invalid"
  /\ Times \subseteq Nat /\ Limits \subseteq Nat /\ Limits # {}
  /\ MaxSessions \in Nat \ {0} /\ MaxFiles \in Nat /\ MaxPackets \in Nat /\ MaxCaptured \in 0 .. MaxPackets /\ MaxRunning \in Nat

VARIABLES
  subject,      \* the component this behaviour is about
  connected, epoch, kind, runId, loops, replaySelected, replaySent,
  provider, pageOpen, pageMount, loading, models, selected,
  panelMount, panel, requests, asked, sent,
  filePackets, sessions, limit, current, redacting, rule, unsafe, pending, running, disk, used

Replay == INSTANCE ReplayPanel WITH selected <- replaySelected, sent <- replaySent
Ai == INSTANCE AiAssistant WITH None <- Nothing

Files == INSTANCE SessionFiles WITH packets <- filePackets

replayVars == <<connected, epoch, kind, runId, loops, replaySelected, replaySent>>

aiVars == <<provider, pageOpen, pageMount, loading, models, selected,
            panelMount, panel, requests, asked, sent>>

fileVars == <<filePackets, sessions, limit, used, current, redacting, rule, unsafe,
              pending, running, disk>>

vars == <<subject, listenerVars, demoVars, replayVars, aiVars, fileVars>>

Subjects == {"listeners", "demos", "replay", "ai", "files"}

MCInit ==
  /\ subject \in Subjects
  /\ Init /\ DemoInit /\ Replay!Init /\ Ai!Init /\ Files!Init

Others(name) ==
  /\ UNCHANGED subject
  /\ IF name = "listeners" THEN TRUE ELSE UNCHANGED listenerVars
  /\ IF name = "demos"     THEN TRUE ELSE UNCHANGED demoVars
  /\ IF name = "replay"    THEN TRUE ELSE UNCHANGED replayVars
  /\ IF name = "ai"        THEN TRUE ELSE UNCHANGED aiVars
  /\ IF name = "files"     THEN TRUE ELSE UNCHANGED fileVars

MCNext ==
  \/ subject = "listeners" /\ Next        /\ Others("listeners")
  \/ subject = "demos"     /\ DemoNext    /\ Others("demos")
  \/ subject = "replay"    /\ Replay!Next /\ Others("replay")
  \/ subject = "ai"        /\ Ai!Next     /\ Others("ai")
  \/ subject = "files"     /\ Files!Next  /\ Others("files")

(***************************************************************************)
(* Each component with its own fairness; a component that is not the       *)
(* subject has nothing under way that could be enabled.                    *)
(***************************************************************************)
MCSpec ==
  /\ MCInit /\ [][MCNext]_vars
  /\ \A r \in Regs : WF_listenerVars(PromiseSteps(r))
  /\ WF_demoVars(Ticks)
  /\ Replay!Fairness
  /\ Ai!Timers

----------------------------------------------------------------------------
(* Properties *)

(***************************************************************************)
(* manual-send-panel.tsx: a "running" status belongs to a loop that still  *)
(* waits and may go on, and what sequences send never mixes.               *)
(***************************************************************************)
SequencesAreCancellable ==
  IF subject = "replay" THEN Replay!TypeOK /\ Replay!RunningHasALoop /\ Replay!RunsDoNotMix
  ELSE TRUE

(***************************************************************************)
(* ai-analysis-panel.tsx: the panel shows the state of the last action     *)
(* taken in it, never of one it has overtaken.                             *)
(***************************************************************************)
PanelShowsTheLastAction ==
  IF subject = "ai" THEN Ai!TypeOK /\ Ai!PanelShowsTheLastAction ELSE TRUE

(***************************************************************************)
(* What a timer drives ends: a tour reaches its last step, a replayed      *)
(* sequence its last packet or a failure, and no request waits for its     *)
(* headers beyond its timeout.                                             *)
(***************************************************************************)
TimersRunOut == TourCompletes /\ Replay!SequenceEnds /\ Ai!HeadersAreBounded

(***************************************************************************)
(* session-file.ts, session-redaction.ts: but for the session's name, a    *)
(* redacted file holds no secret, an unredacted one was confirmed, and     *)
(* imports do not mix.                                                     *)
(***************************************************************************)
FilesAreSafe ==
  IF subject = "files" THEN Files!TypeOK /\ Files!FilesAreSafe /\ Files!ImportsAreClosedWorlds ELSE TRUE

(***************************************************************************)
(* docs/privacy.md: custom rules apply to what a redacted file holds, its  *)
(* session's name included.  App.tsx puts the name in after redaction.     *)
(***************************************************************************)
NameIsRedacted == IF subject = "files" THEN Files!NameIsRedacted ELSE TRUE

(***************************************************************************)
(* Loading a file brings back what was saved, links included, as far as    *)
(* the retention limit lets it.                                            *)
(***************************************************************************)
LoadRestoresTranscript ==
  [][IF subject = "files" THEN Files!TranscriptRestored ELSE TRUE]_vars

=============================================================================

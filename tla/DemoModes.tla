----------------------------- MODULE DemoModes -----------------------------
(***************************************************************************)
(* The two sources of synthetic traffic, the demo stream (demo-stream.ts)  *)
(* and the guided demo or tour (investor-demo.ts), next to a direct        *)
(* connection.  Both demos share demoMode of the UI store, keep a timer of *)
(* their own, and own a session and an entry of the connection list for    *)
(* as long as they run.  A demo goes by the number of its session.         *)
(*                                                                         *)
(* The direct connection is reduced to how far its socket got; its         *)
(* handlers are in DirectConnection.                                       *)
(***************************************************************************)
EXTENDS Naturals

CONSTANTS
  Steps,      \* investorDemoSteps.length
  MaxDemos    \* bound: demos started

ASSUME DemoAssumption == Steps \in Nat \ {0} /\ MaxDemos \in Nat

VARIABLES
  connection,   \* "off", "connecting" or "open"
  demo,         \* demoMode: the demo it shows as active, or NoDemo
  tour,         \* investorDemo: isActive, sessionId, currentStepIndex, completedAt
  context,      \* investorDemoContext: whose, or NoDemo
  nextStep,     \* investorDemoStepIndex
  streamTimer,  \* demoTimer: the demo whose interval it holds, or NoDemo
  tourTimer,    \* investorDemoTimer, likewise
  intervals,    \* demos whose interval goes on ticking
  demos,        \* demos started so far
  demoSession,  \* status of each demo's session
  demoEntry,    \* status of each demo's entry in the connection list
  shown         \* demos with packets on the timeline

demoVars == <<connection, demo, tour, context, nextStep, streamTimer, tourTimer,
              intervals, demos, demoSession, demoEntry, shown>>

Demos  == 1 .. MaxDemos
NoDemo == 0
NoTour == [on |-> FALSE, of |-> NoDemo, step |-> 0, done |-> FALSE]   \* inactiveInvestorDemo

DemoTypeOK ==
  /\ connection \in {"off", "connecting", "open"}
  /\ {demo, context, streamTimer, tourTimer} \subseteq Demos \cup {NoDemo}
  /\ tour \in [on : BOOLEAN, of : Demos \cup {NoDemo}, step : 0 .. Steps - 1, done : BOOLEAN]
  /\ nextStep \in 0 .. Steps
  /\ intervals \subseteq Demos
  /\ demos \in 0 .. MaxDemos
  /\ demoSession \in [Demos -> {"none", "connected", "closed", "removed"}]
  /\ demoEntry \in [Demos -> {"none", "connected", "disconnected"}]
  /\ shown \subseteq Demos

DemoInit ==
  /\ connection = "off"
  /\ demo = NoDemo
  /\ tour = NoTour
  /\ context = NoDemo
  /\ nextStep = 0
  /\ streamTimer = NoDemo
  /\ tourTimer = NoDemo
  /\ intervals = {}
  /\ demos = 0
  /\ demoSession = [d \in Demos |-> "none"]
  /\ demoEntry = [d \in Demos |-> "none"]
  /\ shown = {}

----------------------------------------------------------------------------
(* The session and list entry of a demo *)

NewDemo == demos + 1

SetStatus(entries, d, st) ==        \* setConnectionStatus patches what is listed
  IF d # NoDemo /\ entries[d] # "none" THEN [entries EXCEPT ![d] = st] ELSE entries

Ended(sessions, d) ==               \* updateSessionStatus, of a session that is listed
  IF d # NoDemo /\ sessions[d] = "connected" THEN [sessions EXCEPT ![d] = "closed"] ELSE sessions

(***************************************************************************)
(* startSession and registerConnection for the new demo, after the demo    *)
(* `old` was ended.                                                        *)
(***************************************************************************)
BeginAfter(old) ==
  /\ demos < MaxDemos
  /\ demos' = NewDemo
  /\ demo' = NewDemo
  /\ demoSession' = [Ended(demoSession, old) EXCEPT ![NewDemo] = "connected"]
  /\ demoEntry' = [SetStatus(demoEntry, old, "disconnected") EXCEPT ![NewDemo] = "connected"]

----------------------------------------------------------------------------
(* The demo stream *)

(***************************************************************************)
(* The function checks demoMode and isConnected only; that no connection   *)
(* is being opened is checked where the button is rendered.                *)
(***************************************************************************)
CanStart == connection = "off"      \* canStartDemo, canStartInvestorDemo

StartStream ==
  /\ CanStart
  /\ demo = NoDemo
  /\ BeginAfter(NoDemo)
  /\ shown' = shown \cup {NewDemo}  \* the first packet comes at once
  /\ streamTimer' = NewDemo
  /\ intervals' = intervals \cup {NewDemo}
  /\ UNCHANGED <<connection, tour, context, nextStep, tourTimer>>

StreamTick(d) ==
  /\ d \in intervals
  /\ d = streamTimer
  /\ shown' = shown \cup {d}
  /\ UNCHANGED <<connection, demo, tour, context, nextStep, streamTimer, tourTimer,
                 intervals, demos, demoSession, demoEntry>>

StopStream ==
  /\ demo # NoDemo
  /\ intervals' = intervals \ {streamTimer}
  /\ streamTimer' = NoDemo
  /\ demo' = NoDemo
  /\ demoSession' = Ended(demoSession, demo)
  /\ demoEntry' = SetStatus(demoEntry, demo, "disconnected")
  /\ UNCHANGED <<connection, tour, context, nextStep, tourTimer, demos, shown>>

----------------------------------------------------------------------------
(* The guided demo *)

(***************************************************************************)
(* playNextInvestorDemoStep: shows the step, emits its packets and, after  *)
(* the last one, completes the tour, which stays active.                   *)
(***************************************************************************)
Play(t, step, of) ==
  /\ tour' = [t EXCEPT !.step = step, !.done = (step + 1 >= Steps)]
  /\ nextStep' = step + 1
  /\ shown' = shown \cup {of}

(***************************************************************************)
(* A running stream is stopped first.  (The buttons do not offer a tour    *)
(* during a stream; the function does not rely on that.)  The first step   *)
(* is played before the interval is set, so a tour of one step would keep  *)
(* its interval until the next tick.                                       *)
(***************************************************************************)
StartTour ==
  /\ CanStart
  /\ ~tour.on
  /\ BeginAfter(demo)
  /\ streamTimer' = IF demo # NoDemo THEN NoDemo ELSE streamTimer
  /\ intervals' = (intervals \ (IF demo # NoDemo THEN {streamTimer, tourTimer} ELSE {tourTimer}))
                  \cup {NewDemo}
  /\ tourTimer' = NewDemo
  /\ context' = NewDemo
  /\ Play([on |-> TRUE, of |-> NewDemo, step |-> 0, done |-> FALSE], 0, NewDemo)
  /\ UNCHANGED connection

TourTick(d) ==
  /\ d \in intervals
  /\ d = tourTimer
  /\ IF context # NoDemo /\ nextStep < Steps
     THEN /\ Play(tour, nextStep, context)
          /\ IF nextStep + 1 >= Steps
             THEN intervals' = intervals \ {tourTimer} /\ tourTimer' = NoDemo
             ELSE UNCHANGED <<intervals, tourTimer>>
     ELSE /\ intervals' = intervals \ {tourTimer}    \* no context, or a tour of one step
          /\ tourTimer' = NoDemo
          /\ UNCHANGED <<tour, nextStep, shown>>
  /\ UNCHANGED <<connection, demo, context, streamTimer, demos, demoSession, demoEntry>>

StopTourKeepingTimer ==      \* faulty: the interval goes on
  /\ tour.on
  /\ tour' = NoTour
  /\ demo' = NoDemo
  /\ context' = NoDemo
  /\ demoSession' = Ended(demoSession, tour.of)
  /\ demoEntry' = SetStatus(demoEntry, tour.of, "disconnected")
  /\ UNCHANGED <<connection, nextStep, streamTimer, tourTimer, intervals, demos, shown>>

StopTour ==
  /\ tour.on
  /\ intervals' = intervals \ {tourTimer}
  /\ tourTimer' = NoDemo
  /\ tour' = NoTour
  /\ demo' = NoDemo
  /\ context' = NoDemo
  /\ demoSession' = Ended(demoSession, tour.of)
  /\ demoEntry' = SetStatus(demoEntry, tour.of, "disconnected")
  /\ UNCHANGED <<connection, nextStep, streamTimer, demos, shown>>

(***************************************************************************)
(* resetInvestorDemo: stops the tour and removes its packets, its session  *)
(* and its list entry.  Once a tour was stopped, investorDemo no longer    *)
(* names its session, and a reset removes nothing.                         *)
(***************************************************************************)
ResetTour ==
  LET d == tour.of IN
  /\ intervals' = intervals \ {tourTimer}
  /\ tourTimer' = NoDemo
  /\ context' = NoDemo
  /\ tour' = NoTour
  /\ demo' = IF tour.on THEN NoDemo ELSE demo
  /\ demoSession' = IF d = NoDemo THEN demoSession ELSE [demoSession EXCEPT ![d] = "removed"]
  /\ demoEntry' = IF d = NoDemo THEN demoEntry ELSE [demoEntry EXCEPT ![d] = "none"]
  /\ shown' = shown \ {d}
  /\ UNCHANGED <<connection, nextStep, streamTimer, demos>>

----------------------------------------------------------------------------
(* The shell *)

(***************************************************************************)
(* handleStopDemo, and cleanupBeforeClose as far as the demos go: the tour *)
(* first, which leaves no demoMode for stopDemoStream to end.              *)
(***************************************************************************)
HandleStopDemo == StopTour \/ (~tour.on /\ StopStream)

(***************************************************************************)
(* connect() refuses while demoMode is active.  Later steps of the         *)
(* connection do not look at it.                                           *)
(***************************************************************************)
ConnectionGoes(from, to) ==
  /\ connection = from
  /\ connection' = to
  /\ UNCHANGED <<demo, tour, context, nextStep, streamTimer, tourTimer, intervals,
                 demos, demoSession, demoEntry, shown>>

Connect  == demo = NoDemo /\ ConnectionGoes("off", "connecting")
Opened   == ConnectionGoes("connecting", "open")
HangUp   == \E from \in {"connecting", "open"} : ConnectionGoes(from, "off")

(***************************************************************************)
(* clearConnectionHistory keeps only the active direct connection.         *)
(***************************************************************************)
ClearHistory ==
  /\ demoEntry' = [d \in Demos |-> "none"]
  /\ UNCHANGED <<connection, demo, tour, context, nextStep, streamTimer, tourTimer,
                 intervals, demos, demoSession, shown>>

Ticks == \E d \in Demos : StreamTick(d) \/ TourTick(d)

DemoNext ==
  \/ StartStream
  \/ StartTour
  \/ HandleStopDemo
  \/ ResetTour
  \/ Ticks
  \/ Connect
  \/ Opened
  \/ HangUp
  \/ ClearHistory

DemoSpec == DemoInit /\ [][DemoNext]_demoVars /\ WF_demoVars(Ticks)

----------------------------------------------------------------------------
(* Properties *)

(***************************************************************************)
(* Whatever is started, stopped and reset in whatever order, packets come  *)
(* from one source at a time: an interval ticks only for the demo that is  *)
(* shown as active, none ticks next to a connection, and both timers can   *)
(* be cleared by the handle that is kept.                                  *)
(***************************************************************************)
OneSourceAtATime ==
  /\ intervals \subseteq {demo}
  /\ intervals = {streamTimer, tourTimer} \ {NoDemo}
  /\ demo # NoDemo => connection = "off"
  /\ tour.on => tour.of = demo

(***************************************************************************)
(* A demo's session and list entry show it as connected exactly as long as *)
(* it is active, unless the list was cleared.                              *)
(***************************************************************************)
DemoSessionsEnd ==
  \A d \in Demos :
    /\ demoSession[d] = "connected" <=> d = demo
    /\ demoEntry[d] = "connected" => d = demo

(***************************************************************************)
(* Both at once: at most one demo is active, and it alone ticks and is     *)
(* shown as connected (startDemoStream, startInvestorDemo, handleStopDemo).*)
(***************************************************************************)
DemosExclude == OneSourceAtATime /\ DemoSessionsEnd

(***************************************************************************)
(* A tour that is not stopped reaches its last step, and its timer ends.   *)
(***************************************************************************)
TourCompletes == tour.on ~> (tour.done /\ tourTimer = NoDemo) \/ ~tour.on

=============================================================================

---------------------------- MODULE MirrorProofs ----------------------------
(***************************************************************************)
(* Theorems about ProxyMirror, for any clients and any number of runs and  *)
(* of pages: what is proved of the backend alone holds in the composition, *)
(* and the panel of a page that waits for nothing agrees with the backend. *)
(***************************************************************************)
EXTENDS ProxyMirror, ProxyProofs

----------------------------------------------------------------------------
(* The backend *)

(***************************************************************************)
(* Steps the backend takes by itself; they leave the page's copy alone.    *)
(***************************************************************************)
OwnSteps ==
  \/ \E g \in Runs : StopSteps(g) \/ ListenerSteps(g)
  \/ \E g \in Runs, c \in Conns : Accept(g, c)
  \/ \E c \in Conns : ConnSteps(c)

CopyVars == <<page, mirror, busy, calls, answers, overtaken>>

ListenersStep == ListenersMove \/ \E r \in Listeners!Regs : ListenersFail(r)

LEMMA OwnStepsAreNext == OwnSteps => Next
BY DEF OwnSteps, ConnSteps, Next

LEMMA BackendStepsAreOwn ==
  ASSUME (BackendSteps /\ UNCHANGED mirrorVars) \/ \E c \in Conns : EmittingSteps(c)
  PROVE  OwnSteps /\ UNCHANGED <<CopyVars, native>>
<1>1. CASE BackendSteps /\ UNCHANGED mirrorVars
  BY <1>1 DEF BackendSteps, OwnSteps, ConnSteps, SilentTaskSteps, TaskSteps, mirrorVars, pageVars, CopyVars
<1>2. CASE \E c \in Conns : EmittingSteps(c)
  BY <1>2 DEF EmittingSteps, Emit, OwnSteps, ConnSteps, TaskSteps, CopyVars
<1> QED
  BY <1>1, <1>2

(***************************************************************************)
(* Only start() and stop() change isRunning: a listener that marks the     *)
(* runtime stopped was told to end by a stop(), which already reset it.    *)
(***************************************************************************)
LEMMA OwnStepsKeepRunning ==
  ASSUME RunsInv, OwnSteps
  PROVE  isRunning' = isRunning
<1>1. ASSUME NEW g \in Runs, StopSteps(g) PROVE isRunning' = isRunning
  BY <1>1 DEF StopSteps, StopBroadcast, StopListener, StopAbort, runtimeVars
<1>2. ASSUME NEW g \in Runs, ListenerSteps(g) PROVE isRunning' = isRunning
  <2>1. CASE ListenerLeaves(g) \/ ListenerAborted(g)
    BY <2>1 DEF ListenerLeaves, ListenerAborted, runtimeVars
  <2>2. CASE MarkStopped(g)
    <3>1. stopPc[g] # "none"
      BY <2>2 DEF MarkStopped, RunsInv, OnlyStopsEndListeners
    <3>2. generation = g => ~isRunning
      BY <3>1 DEF RunsInv, UnstoppedRuns
    <3>3. isRunning \in BOOLEAN
      BY DEF RunsInv, TypeOK
    <3> QED
      BY <2>2, <3>2, <3>3 DEF MarkStopped, ResetRuntime, runtimeVars
  <2> QED
    BY <1>2, <2>1, <2>2 DEF ListenerSteps
<1>3. ASSUME NEW g \in Runs, NEW c \in Conns, Accept(g, c) PROVE isRunning' = isRunning
  BY <1>3 DEF Accept, runtimeVars
<1>4. ASSUME NEW c \in Conns, ConnSteps(c) PROVE isRunning' = isRunning
  BY <1>4, ConnStepsLeaveRuns
<1> QED
  BY <1>1, <1>2, <1>3, <1>4 DEF OwnSteps

(***************************************************************************)
(* What executing a command does to the backend.                           *)
(***************************************************************************)
LEMMA CommandsAreNext ==
  ASSUME NEW call \in calls, Execute(call)
  PROVE  [Next]_vars
BY DEF Execute, ExecuteStatus, ExecuteStart, ExecuteStop, Refuse, Next

LEMMA StepsOfTheBackend == [MirrorNext]_allVars => [Next]_vars
<1> SUFFICES ASSUME [MirrorNext]_allVars PROVE [Next]_vars
  OBVIOUS
<1>1. CASE UNCHANGED allVars
  BY <1>1 DEF allVars
<1>2. CASE PressStart \/ PressStop \/ Deliver \/ ListenersStep \/ Reload
  BY <1>2 DEF PressStart, PressStop, Press, Deliver, ListenersStep, ListenersMove, ListenersFail, Reload
<1>3. CASE \E call \in calls : Execute(call)
  BY <1>3, CommandsAreNext
<1>4. CASE \E a \in answers : TakeAnswer(a)
  BY <1>4 DEF TakeAnswer
<1>5. CASE (BackendSteps /\ UNCHANGED mirrorVars) \/ \E c \in Conns : EmittingSteps(c)
  BY <1>5, BackendStepsAreOwn, OwnStepsAreNext
<1> QED
  BY <1>1, <1>2, <1>3, <1>4, <1>5 DEF MirrorNext, ListenersStep

----------------------------------------------------------------------------
(* The inductive invariant *)

Own == {call \in calls : call.page = page}

IsStatus(s) == {"known", "isRunning"} \subseteq DOMAIN s

(***************************************************************************)
(* A status tells the truth unless an older page's command came in between.*)
(***************************************************************************)
Fresh(s) == IsStatus(s) /\ s.known /\ (overtaken \/ s.isRunning = isRunning)

(***************************************************************************)
(* Where the page is.  It waits for its first status, or has it under way; *)
(* it is at rest; or it sent one command, or has its answer under way.     *)
(* The buttons keep it from having two things under way at once.           *)
(***************************************************************************)
Asking == Own = {AsksStatus(page)} /\ answers = {} /\ native # "ready" /\ ~busy

Told ==
  /\ Own = {} /\ native # "ready" /\ ~busy
  /\ \E a : answers = {a} /\ a.ok /\ Fresh(a.status)

AtRest == Own = {} /\ answers = {} /\ Fresh(mirror)

Commanding ==
  /\ answers = {} /\ busy /\ Fresh(mirror)
  /\ \E call : Own = {call} /\ call.cmd \in {"start", "stop"}

Answered ==
  /\ Own = {} /\ busy
  /\ \E a : answers = {a} /\ IF a.ok THEN Fresh(a.status) ELSE Fresh(mirror)

Stage == Asking \/ Told \/ AtRest \/ Commanding \/ Answered

PagesInv ==
  /\ page \in Nat /\ overtaken \in BOOLEAN
  /\ \A call \in calls : call.page \in Nat /\ call.page <= page
  /\ AsksStatus(page) \in calls => Own = {AsksStatus(page)}

AgreementInv == RunsInv /\ PagesInv /\ Stage

----------------------------------------------------------------------------

LEMMA MirrorInitHolds == MirrorInit => AgreementInv
<1> SUFFICES ASSUME MirrorInit PROVE AgreementInv
  OBVIOUS
<1>1. RunsInv
  BY RunsInvInit DEF MirrorInit
<1>2. Own = {AsksStatus(page)}
  BY DEF MirrorInit, Own, AsksStatus
<1>3. PagesInv
  <2>1. page = 1 /\ calls = {AsksStatus(1)} /\ overtaken = FALSE
    BY DEF MirrorInit
  <2>2. \A call \in calls : call.page \in Nat /\ call.page <= page
    BY <2>1 DEF AsksStatus
  <2>3. page \in Nat /\ overtaken \in BOOLEAN
    BY <2>1
  <2> QED
    BY <1>2, <2>2, <2>3 DEF PagesInv
<1>4. Asking
  BY <1>2 DEF MirrorInit, Asking
<1> QED
  BY <1>1, <1>3, <1>4 DEF AgreementInv, Stage

(***************************************************************************)
(* Steps that change neither the page's copy nor isRunning, and at most    *)
(* take the backend for broken.                                            *)
(***************************************************************************)
LEMMA Unaffected ==
  ASSUME PagesInv, Stage, UNCHANGED <<CopyVars, isRunning>>, native' \in {native, "error"}
  PROVE  PagesInv' /\ Stage'
<1>1. /\ UNCHANGED <<page, mirror, busy, calls, answers, overtaken, isRunning>>
      /\ native # "ready" => native' # "ready"
  BY DEF CopyVars
<1>2. Own' = Own
  BY <1>1 DEF Own
<1>3. PagesInv'
  BY <1>1, <1>2 DEF PagesInv, AsksStatus
<1>4. \A s : Fresh(s)' = Fresh(s)
  BY <1>1 DEF Fresh, IsStatus
<1>5. Stage'
  BY <1>1, <1>2 DEF Stage, Asking, Told, AtRest, Commanding, Answered, Fresh, IsStatus, AsksStatus
<1> QED
  BY <1>3, <1>5

(***************************************************************************)
(* A button works only on a page at rest.                                  *)
(***************************************************************************)
LEMMA PressKeeps ==
  ASSUME PagesInv, Stage, PressStart \/ PressStop
  PROVE  PagesInv' /\ Stage'
<1>1. PICK cmd \in {"start", "stop"} : Press(cmd)
  BY DEF PressStart, PressStop
<1> DEFINE call == [cmd |-> cmd, page |-> page, copy |-> 1]
<1>2. AtRest
  BY <1>1 DEF Press, Stage, Asking, Told, Commanding, Answered
<1>3. /\ calls' = calls \cup {call} /\ busy'
      /\ UNCHANGED <<page, mirror, answers, overtaken, isRunning>>
  BY <1>1 DEF Press, vars, runtimeVars
<1>4. Own' = {call} /\ AsksStatus(page)' \notin calls'
  <2>1. AsksStatus(page) \notin calls
    BY <1>2 DEF AtRest, Own, AsksStatus
  <2>2. AsksStatus(page) # call
    BY DEF AsksStatus
  <2>3. Own' = Own \cup {call}
    BY <1>3 DEF Own
  <2> QED
    BY <1>2, <1>3, <2>1, <2>2, <2>3 DEF AtRest, AsksStatus
<1>5. PagesInv'
  BY <1>3, <1>4 DEF PagesInv
<1>6. Commanding'
  <2>1. Fresh(mirror)'
    BY <1>2, <1>3 DEF AtRest, Fresh, IsStatus
  <2>2. answers' = {}
    BY <1>2, <1>3 DEF AtRest
  <2>3. Own' = {call} /\ call.cmd \in {"start", "stop"}
    BY <1>4
  <2> HIDE DEF call
  <2> QED
    BY <1>3, <2>1, <2>2, <2>3 DEF Commanding
<1> QED
  BY <1>5, <1>6 DEF Stage

LEMMA ReloadKeeps ==
  ASSUME PagesInv, Reload
  PROVE  PagesInv' /\ Stage'
<1>1. /\ page' = page + 1 /\ native' = "checking" /\ ~busy' /\ answers' = {} /\ overtaken' = FALSE
      /\ calls' = calls \cup Goodbye \cup {AsksStatus(page + 1)}
  BY DEF Reload
<1>2. \A call \in Goodbye : call.page = page
  BY DEF Goodbye
<1>3. Own' = {AsksStatus(page + 1)}
  BY <1>1, <1>2 DEF Own, AsksStatus, PagesInv
<1>4. PagesInv'
  <2>1. \A call \in calls' : call.page \in Nat /\ call.page <= page'
    BY <1>1, <1>2 DEF PagesInv, AsksStatus
  <2>2. page' \in Nat
    BY <1>1 DEF PagesInv
  <2>3. overtaken' \in BOOLEAN
    BY DEF Reload
  <2>4. Own' = {AsksStatus(page)'}
    BY <1>1, <1>3 DEF AsksStatus
  <2> QED
    BY <2>1, <2>2, <2>3, <2>4 DEF PagesInv
<1>5. Asking'
  BY <1>1, <1>3 DEF Asking, AsksStatus
<1> QED
  BY <1>4, <1>5 DEF Stage

(***************************************************************************)
(* Events change the number of clients and the address only.               *)
(***************************************************************************)
LEMMA DeliverKeeps ==
  ASSUME PagesInv, Stage, Deliver
  PROVE  PagesInv' /\ Stage'
<1>1. /\ mirror' = Patched(Head(inbox), Heard(Head(inbox)))
      /\ UNCHANGED <<page, native, busy, calls, answers, overtaken, isRunning>>
  BY DEF Deliver, vars, runtimeVars
<1>2. Own' = Own
  BY <1>1 DEF Own
<1>3. PagesInv'
  BY <1>1, <1>2 DEF PagesInv, AsksStatus
<1>4. IsStatus(mirror) => IsStatus(mirror') /\ mirror'.known = mirror.known /\ mirror'.isRunning = mirror.isRunning
  BY <1>1 DEF Patched, IsStatus
<1>5. Fresh(mirror) => Fresh(mirror)'
  BY <1>1, <1>4 DEF Fresh, IsStatus
<1>6. \A a : Fresh(a.status) => (overtaken' \/ a.status.isRunning = isRunning') /\ IsStatus(a.status) /\ a.status.known
  BY <1>1 DEF Fresh
<1>7. Stage'
  <2>1. CASE Asking
    BY <1>1, <1>2, <2>1 DEF Stage, Asking, AsksStatus
  <2>2. CASE Told
    BY <1>1, <1>2, <1>6, <2>2 DEF Stage, Told, Fresh, IsStatus
  <2>3. CASE AtRest
    BY <1>1, <1>2, <1>5, <2>3 DEF Stage, AtRest
  <2>4. CASE Commanding
    BY <1>1, <1>2, <1>5, <2>4 DEF Stage, Commanding
  <2>5. CASE Answered
    <3>1. PICK a : answers = {a} /\ IF a.ok THEN Fresh(a.status) ELSE Fresh(mirror)
      BY <2>5 DEF Answered
    <3>2. answers' = {a} /\ IF a.ok THEN Fresh(a.status)' ELSE Fresh(mirror)'
      BY <1>1, <1>5, <1>6, <3>1 DEF Fresh, IsStatus
    <3> QED
      BY <1>1, <1>2, <2>5, <3>2 DEF Stage, Answered
  <2> QED
    BY <2>1, <2>2, <2>3, <2>4, <2>5 DEF Stage
<1> QED
  BY <1>3, <1>7

(***************************************************************************)
(* The only answer under way puts the page to rest.                        *)
(***************************************************************************)
LEMMA TakeAnswerKeeps ==
  ASSUME PagesInv, Stage, NEW a \in answers, TakeAnswer(a)
  PROVE  PagesInv' /\ Stage'
<1>1. /\ mirror' = IF a.ok THEN a.status ELSE mirror
      /\ answers' = answers \ {a} /\ UNCHANGED <<page, calls, overtaken, isRunning>>
  BY DEF TakeAnswer, NewStatus, vars, runtimeVars
<1>2. Own' = Own
  BY <1>1 DEF Own
<1>3. PagesInv'
  BY <1>1, <1>2 DEF PagesInv, AsksStatus
<1>4. /\ Own = {} /\ answers = {a}
      /\ IF a.ok THEN Fresh(a.status) ELSE Fresh(mirror)
  BY DEF Stage, Asking, Told, AtRest, Commanding, Answered
<1>5. Fresh(mirror)'
  BY <1>1, <1>4 DEF Fresh, IsStatus
<1>6. AtRest'
  BY <1>1, <1>2, <1>4, <1>5 DEF AtRest
<1> QED
  BY <1>3, <1>6 DEF Stage

(***************************************************************************)
(* An older page's command: either nothing changes, or the page counts as  *)
(* overtaken, or it has not got its status yet.                            *)
(***************************************************************************)
LEMMA OlderCommandKeeps ==
  ASSUME PagesInv, Stage, NEW call \in calls, Execute(call), call.page # page
  PROVE  PagesInv' /\ Stage'
<1>1. calls' = calls \ {call} /\ answers' = answers /\ UNCHANGED <<page, native, mirror, busy>>
  BY DEF Execute, ExecuteStatus, ExecuteStart, ExecuteStop, Refuse, Reply, pageVars
<1>2. Own' = Own
  BY <1>1 DEF Own
<1>3. AsksStatus(page) # call
  BY DEF AsksStatus
<1>4. overtaken' \in BOOLEAN
  BY DEF Execute, ExecuteStatus, ExecuteStart, ExecuteStop, Refuse, Overtakes, PagesInv
<1>5. PagesInv'
  BY <1>1, <1>2, <1>3, <1>4 DEF PagesInv, AsksStatus
<1>6. \/ UNCHANGED <<isRunning, overtaken>>
      \/ overtaken'
      \/ AsksStatus(page) \in calls
  <2>1. call.page < page
    BY DEF PagesInv
  <2> QED
    BY <2>1 DEF Execute, ExecuteStatus, ExecuteStart, ExecuteStop, Refuse, Overtakes, vars, runtimeVars
<1>7. CASE Asking
  BY <1>1, <1>2, <1>5, <1>7 DEF Stage, Asking, AsksStatus
<1>8. CASE ~Asking
  <2>1. AsksStatus(page) \notin calls
    BY <1>8 DEF Stage, Asking, Told, AtRest, Commanding, Answered, Own, AsksStatus
  <2>2. UNCHANGED <<isRunning, overtaken>> \/ overtaken'
    BY <1>6, <2>1
  <2>3. \A s : Fresh(s) => IsStatus(s) /\ s.known /\ (overtaken' \/ s.isRunning = isRunning')
    BY <2>2 DEF Fresh
  <2>4. Fresh(mirror) => Fresh(mirror)'
    BY <1>1, <2>3 DEF Fresh, IsStatus
  <2>5. CASE Told
    BY <1>1, <1>2, <1>5, <2>3, <2>5 DEF Stage, Told, Fresh, IsStatus
  <2>6. CASE AtRest
    BY <1>1, <1>2, <1>5, <2>4, <2>6 DEF Stage, AtRest
  <2>7. CASE Commanding
    BY <1>1, <1>2, <1>5, <2>4, <2>7 DEF Stage, Commanding
  <2>8. CASE Answered
    <3>1. PICK a : answers = {a} /\ IF a.ok THEN Fresh(a.status) ELSE Fresh(mirror)
      BY <2>8 DEF Answered
    <3>2. answers' = {a} /\ IF a.ok THEN Fresh(a.status)' ELSE Fresh(mirror)'
      BY <1>1, <2>3, <2>4, <3>1 DEF Fresh, IsStatus
    <3> QED
      BY <1>1, <1>2, <1>5, <2>8, <3>2 DEF Stage, Answered
  <2> QED
    BY <1>8, <2>5, <2>6, <2>7, <2>8 DEF Stage
<1> QED
  BY <1>5, <1>7, <1>8

LEMMA NotOvertaken ==
  ASSUME PagesInv, NEW call, call.page = page, Overtakes(call)
  PROVE  overtaken' = overtaken
<1>1. ~(call.page < page) /\ overtaken \in BOOLEAN
  BY DEF PagesInv
<1> QED
  BY <1>1 DEF Overtakes

(***************************************************************************)
(* The page's own command: its answer tells what the backend has become.   *)
(***************************************************************************)
LEMMA OwnCommandKeeps ==
  ASSUME RunsInv, PagesInv, Stage, NEW call \in calls, Execute(call), call.page = page
  PROVE  PagesInv' /\ Stage'
<1>1. call \in Own
  BY DEF Own
<1>2. calls' = calls \ {call} /\ UNCHANGED <<page, native, mirror, busy>>
  BY DEF Execute, pageVars
<1>3. Own = {call} /\ answers = {} /\ Own' = {}
  <2>1. Own = {call} /\ answers = {}
    BY <1>1 DEF Stage, Asking, Told, AtRest, Commanding, Answered
  <2> QED
    BY <1>2, <2>1 DEF Own
<1>4. ASSUME overtaken' = overtaken PROVE PagesInv'
  <2>1. AsksStatus(page)' \notin calls'
    BY <1>2, <1>3 DEF Own, AsksStatus
  <2> QED
    BY <1>2, <1>4, <2>1 DEF PagesInv
<1>5. ASSUME NEW ok \in BOOLEAN, NEW status, NEW after,
             answers' = {[call |-> call, ok |-> ok, status |-> status, after |-> after]},
             overtaken' = overtaken,
             IF ok THEN IsStatus(status) /\ status.known /\ status.isRunning = isRunning'
                   ELSE call.cmd # "status" /\ isRunning' = isRunning
      PROVE  Stage'
  <2> DEFINE a == [call |-> call, ok |-> ok, status |-> status, after |-> after]
  <2>1. answers' = {a} /\ a.ok = ok /\ a.status = status
    BY <1>5
  <2>2. ok => Fresh(status)'
    BY <1>5 DEF Fresh, IsStatus
  <2>3. ok => Fresh(a.status)'
    BY <2>1, <2>2 DEF Fresh, IsStatus
  <2> HIDE DEF a
  <2>4. CASE Asking
    <3>1. ok
      BY <1>3, <1>5, <2>4 DEF Asking, AsksStatus
    <3> QED
      BY <1>2, <1>3, <2>1, <2>3, <2>4, <3>1 DEF Stage, Asking, Told
  <2>5. CASE Commanding
    <3>1. ~ok => Fresh(mirror)'
      BY <1>2, <1>5, <2>5 DEF Commanding, Fresh, IsStatus
    <3>2. IF a.ok THEN Fresh(a.status)' ELSE Fresh(mirror)'
      BY <2>1, <2>3, <3>1
    <3> QED
      BY <1>2, <1>3, <2>1, <2>5, <3>2 DEF Stage, Commanding, Answered
  <2> QED
    BY <1>3, <2>4, <2>5 DEF Stage, Told, AtRest, Answered
<1>6. CASE ExecuteStatus(call)
  <2>1. answers' = {[call |-> call, ok |-> TRUE, status |-> Snapshot, after |-> NoRun]}
    BY <1>3, <1>6 DEF ExecuteStatus, Reply
  <2>2. overtaken' = overtaken /\ isRunning' = isRunning
    BY <1>6 DEF ExecuteStatus, vars, runtimeVars
  <2>3. IsStatus(Snapshot) /\ Snapshot.known /\ Snapshot.isRunning = isRunning
    BY DEF Snapshot, IsStatus
  <2> QED
    BY <1>4, <1>5, <2>1, <2>2, <2>3
<1>7. CASE Refuse(call) /\ call.cmd # "status"
  <2>1. answers' = {[call |-> call, ok |-> FALSE, status |-> NoStatus, after |-> NoRun]}
    BY <1>3, <1>7 DEF Refuse, Reply
  <2>2. overtaken' = overtaken /\ isRunning' = isRunning
    BY <1>7 DEF Refuse, vars, runtimeVars
  <2> QED
    BY <1>4, <1>5, <1>7, <2>1, <2>2
<1>8. CASE ExecuteStart(call) /\ ~Refuse(call)
  <2>1. answers' = {[call |-> call, ok |-> TRUE, status |-> Running, after |-> NoRun]}
    BY <1>3, <1>8 DEF ExecuteStart, Reply
  <2>2. isRunning' = TRUE
    BY <1>8 DEF ExecuteStart, Start
  <2>3. overtaken' = overtaken
    BY <1>8, NotOvertaken DEF ExecuteStart, Overtakes
  <2>4. IsStatus(Running) /\ Running.known /\ Running.isRunning = TRUE
    BY DEF Running, IsStatus
  <2> QED
    BY <1>4, <1>5, <2>1, <2>2, <2>3, <2>4
<1>9. CASE ExecuteStop(call) /\ ~Refuse(call)
  <2>1. answers' = {[call |-> call, ok |-> TRUE, status |-> Stopped, after |-> handles]}
    BY <1>3, <1>9 DEF ExecuteStop, Reply
  <2>2. isRunning' = FALSE
    BY <1>9 DEF ExecuteStop, StopTake, ResetRuntime
  <2>3. overtaken' = overtaken
    BY <1>9, NotOvertaken DEF ExecuteStop, Overtakes
  <2>4. IsStatus(Stopped) /\ Stopped.known /\ Stopped.isRunning = FALSE
    BY DEF Stopped, IsStatus
  <2> QED
    BY <1>4, <1>5, <2>1, <2>2, <2>3, <2>4
<1> QED
  BY <1>6, <1>7, <1>8, <1>9 DEF Execute, ExecuteStart, ExecuteStop

LEMMA MirrorNextKeeps == AgreementInv /\ [MirrorNext]_allVars => AgreementInv'
<1> SUFFICES ASSUME AgreementInv, [MirrorNext]_allVars PROVE AgreementInv'
  OBVIOUS
<1>1. RunsInv'
  BY StepsOfTheBackend, RunsInvStep DEF AgreementInv
<1>2. RunsInv /\ PagesInv /\ Stage
  BY DEF AgreementInv
<1>3. CASE UNCHANGED allVars \/ ListenersStep
  <2>1. UNCHANGED <<CopyVars, isRunning>> /\ native' \in {native, "error"}
    BY <1>3 DEF allVars, mirrorVars, pageVars, CopyVars, vars, runtimeVars, ListenersStep, ListenersMove,
                ListenersFail
  <2> QED
    BY <1>1, <1>2, <2>1, Unaffected DEF AgreementInv
<1>4. CASE (BackendSteps /\ UNCHANGED mirrorVars) \/ \E c \in Conns : EmittingSteps(c)
  BY <1>1, <1>2, <1>4, BackendStepsAreOwn, OwnStepsKeepRunning, Unaffected DEF AgreementInv
<1>5. CASE \E call \in calls : Execute(call)
  BY <1>1, <1>2, <1>5, OlderCommandKeeps, OwnCommandKeeps DEF AgreementInv
<1>6. CASE \E a \in answers : TakeAnswer(a)
  BY <1>1, <1>2, <1>6, TakeAnswerKeeps DEF AgreementInv
<1>7. CASE PressStart \/ PressStop
  BY <1>1, <1>2, <1>7, PressKeeps DEF AgreementInv
<1>8. CASE Deliver
  BY <1>1, <1>2, <1>8, DeliverKeeps DEF AgreementInv
<1>9. CASE Reload
  BY <1>1, <1>2, <1>9, ReloadKeeps DEF AgreementInv
<1> QED
  BY <1>3, <1>4, <1>5, <1>6, <1>7, <1>8, <1>9 DEF MirrorNext, ListenersStep

LEMMA AgreementGivesAgreement == AgreementInv => AgreesUnlessOvertaken
<1> SUFFICES ASSUME AgreementInv, Settled, ~overtaken
             PROVE  mirror.known /\ mirror.isRunning = isRunning
  BY DEF AgreesUnlessOvertaken
<1>1. Own = {} /\ answers = {}
  BY DEF Settled, Own
<1>2. AtRest
  BY <1>1 DEF AgreementInv, Stage, Asking, Told, Commanding, Answered
<1> QED
  BY <1>2 DEF AtRest, Fresh

----------------------------------------------------------------------------
(* The number of clients shown on the first page *)

StartsUnderWay ==
  {c \in Conns : \E i \in DOMAIN inbox : inbox[i].kind = "started" /\ inbox[i].conn = c}

Sessions == RegisteredConns \cup EndsUnderWay \cup missed

(***************************************************************************)
(* The sessions whose start the page has seen, or missed for good.         *)
(***************************************************************************)
Shown == {c \in Sessions : conn[c] # "registered" /\ c \notin StartsUnderWay}

(***************************************************************************)
(* A connection announces itself once and ends once, in this order.        *)
(***************************************************************************)
EventsInOrder ==
  \A i, j \in DOMAIN inbox :
    i < j /\ inbox[i].conn = inbox[j].conn =>
      inbox[i].kind = "started" /\ inbox[j].kind = "closed"

EventsFitPhases ==
  /\ \A c \in StartsUnderWay : c \in Sessions /\ conn[c] # "registered"
  /\ \A c \in EndsUnderWay \cup missed : conn[c] \in {"deregistered", "done"}

Untouched == generation = 0 /\ active = 0 /\ \A c \in Conns : conn[c] = "idle"

(***************************************************************************)
(* On the first page no status can count a client: the only one that reads *)
(* the counter is executed before any proxy has been started.              *)
(***************************************************************************)
FirstPage ==
  page = 1 =>
    /\ AsksStatus(1) \in calls => Untouched
    /\ \A a \in answers : a.ok => a.status.active = 0
    /\ mirror.active <= Cardinality(Shown) + surplus
    /\ ~mirror.known => mirror.active = 0

CountedInv == MirrorTypeOK /\ EventsInOrder /\ EventsFitPhases /\ FirstPage

LEMMA ShownIsFinite ==
  ASSUME MirrorTypeOK
  PROVE  Cardinality(Shown) \in Nat /\ Shown \in SUBSET Conns
<1>1. Shown \in SUBSET Conns
  BY DEF MirrorTypeOK, Shown, Sessions, RegisteredConns, EndsUnderWay
<1> QED
  BY <1>1, ConnsAssumption, FS_Subset, FS_CardinalityType

----------------------------------------------------------------------------
(* Types of the page's state *)

LEMMA FirstListeners ==
  ASSUME registrations = 1, mounted = 1, holder = Listeners!NoReg, phase = FirstRegistration, subs = {}
  PROVE  Listeners!TypeOK
<1>1. 1 \in Listeners!Regs /\ 1 \in 0 .. MaxRegs
  BY MirrorRegsAssumption DEF Listeners!Regs
<1>2. FirstRegistration \in [Listeners!Regs -> Listeners!Phases]
  BY DEF FirstRegistration, Listeners!Phases
<1> QED
  BY <1>1, <1>2 DEF Listeners!TypeOK

LEMMA ListenersTypeStep ==
  ASSUME Listeners!TypeOK, [MirrorNext]_allVars
  PROVE  Listeners!TypeOK'
<1>1. CASE UNCHANGED listenVars
  BY <1>1 DEF listenVars, Listeners!TypeOK
<1>2. CASE Reload
  <2>1. /\ registrations' = 1 /\ mounted' = 1 /\ holder' = Listeners!NoReg
        /\ phase' = FirstRegistration /\ subs' = {}
    BY <1>2 DEF Reload
  <2>2. 1 \in Listeners!Regs /\ 1 \in 0 .. MaxRegs
    BY MirrorRegsAssumption DEF Listeners!Regs
  <2>3. FirstRegistration \in [Listeners!Regs -> Listeners!Phases]
    BY DEF FirstRegistration, Listeners!Phases
  <2> QED
    BY <2>1, <2>2, <2>3 DEF Listeners!TypeOK
<1>3. CASE Listeners!Rerun
  <2>1. registrations + 1 \in Listeners!Regs /\ registrations' = registrations + 1
        /\ registrations' \in 0 .. MaxRegs
    BY <1>3, MirrorRegsAssumption DEF Listeners!Rerun, Listeners!Register, Listeners!TypeOK, Listeners!Regs
  <2>2. mounted' = registrations + 1 /\ holder' = Listeners!NoReg
    BY <1>3 DEF Listeners!Rerun, Listeners!Register
  <2>3. subs' \subseteq subs
    BY <1>3 DEF Listeners!Rerun, Listeners!Register
  <2>4. phase' \in [Listeners!Regs -> Listeners!Phases]
    BY <1>3 DEF Listeners!Rerun, Listeners!TypeOK, Listeners!Phases
  <2> QED
    BY <2>1, <2>2, <2>3, <2>4 DEF Listeners!TypeOK
<1>4. ASSUME NEW r \in Listeners!Regs, Listeners!PromiseSteps(r) PROVE Listeners!TypeOK'
  <2>1. ASSUME NEW e \in {"started", "closed"}, Listeners!Listened(r, e) PROVE Listeners!TypeOK'
    BY <2>1 DEF Listeners!Listened, Listeners!TypeOK
  <2>2. CASE Listeners!Resolved(r)
    BY <2>2 DEF Listeners!Resolved, Listeners!TypeOK, Listeners!Phases
  <2>3. CASE Listeners!Settled(r)
    BY <2>3 DEF Listeners!Settled, Listeners!Unlisten, Listeners!TypeOK, Listeners!Phases
  <2> QED
    BY <1>4, <2>1, <2>2, <2>3 DEF Listeners!PromiseSteps
<1>5. ASSUME NEW r \in Listeners!Regs, Listeners!ListenFails(r) PROVE Listeners!TypeOK'
  BY <1>5 DEF Listeners!ListenFails, Listeners!TypeOK, Listeners!Phases
<1>6. CASE ~UNCHANGED listenVars
  <2>1. Reload \/ ListenersStep
    BY <1>6
       DEF MirrorNext, ListenersStep, allVars, mirrorVars, pageVars, PressStart, PressStop, Press,
           Execute, TakeAnswer, Deliver, EmittingSteps, Emit
  <2>2. CASE ListenersStep
    BY <1>3, <1>4, <1>5, <2>2 DEF ListenersStep, ListenersMove, ListenersFail
  <2> QED
    BY <1>2, <2>1, <2>2
<1> QED
  BY <1>1, <1>6

LEMMA HeardIsNat == ASSUME NEW e PROVE Heard(e) \in Nat
<1>1. IsFiniteSet(Listeners!Regs)
  BY MirrorRegsAssumption, FS_Interval DEF Listeners!Regs
<1>2. e.to \cap Reached(e.kind) \subseteq Listeners!Regs
  BY DEF Reached
<1> QED
  BY <1>1, <1>2, FS_Subset, FS_CardinalityType DEF Heard

LEMMA MirrorTypeStep == MirrorTypeOK /\ [MirrorNext]_allVars => MirrorTypeOK'
<1> SUFFICES ASSUME MirrorTypeOK, [MirrorNext]_allVars PROVE MirrorTypeOK'
  OBVIOUS
<1>0. TypeOK /\ TypeOK' /\ 1 \in Pages /\ Listeners!TypeOK'
  BY StepsOfTheBackend, TypeStep, ListenersTypeStep, PagesAssumption DEF MirrorTypeOK, Pages
<1> USE DEF MirrorTypeOK
<1>1. CASE UNCHANGED allVars
  BY <1>0, <1>1 DEF allVars, mirrorVars, pageVars
<1>2. CASE PressStart \/ PressStop
  <2>1. PICK cmd \in {"start", "stop"} : Press(cmd)
    BY <1>2 DEF PressStart, PressStop
  <2>2. [cmd |-> cmd, page |-> page, copy |-> 1] \in Call
    BY DEF Call
  <2>3. busy' \in BOOLEAN
    BY <2>1 DEF Press
  <2> QED
    BY <1>0, <2>1, <2>2, <2>3 DEF Press
<1>3. CASE Reload
  <2>1. page' \in Pages
    BY <1>3, PagesAssumption DEF Reload, Pages
  <2>2. NoStatus \in Status
    BY DEF NoStatus, Status
  <2>3. Goodbye \subseteq Call /\ AsksStatus(page') \in Call
    BY <2>1 DEF Goodbye, Call, AsksStatus
  <2>4. busy' \in BOOLEAN /\ overtaken' \in BOOLEAN /\ surplus' \in Nat
    BY <1>3 DEF Reload
  <2>5. /\ page' = page + 1 /\ native' = "checking" /\ mirror' = NoStatus /\ inbox' = <<>>
        /\ missed' = {} /\ calls' = calls \cup Goodbye \cup {AsksStatus(page')} /\ answers' = {}
    BY <1>3 DEF Reload
  <2> QED
    BY <1>0, <2>1, <2>2, <2>3, <2>4, <2>5
<1>4. CASE Deliver
  <2>1. Head(inbox) \in Event /\ Tail(inbox) \in Seq(Event)
    BY <1>4 DEF Deliver
  <2> DEFINE e == Head(inbox)
  <2>2. Heard(e) \in Nat /\ e.conn \in Conns
    BY <2>1, HeardIsNat DEF Event
  <2> HIDE DEF e
  <2>3. Patched(e, Heard(e)) \in Status
    <3>1. mirror.active + Heard(e) \in Nat /\ LessBy(mirror.active, Heard(e)) \in Nat
      BY <2>2 DEF Status, LessBy
    <3> QED
      BY <3>1 DEF Patched, Status
  <2>4. missed' \subseteq Conns /\ surplus' \in Nat /\ mirror' \in Status
    BY <1>4, <2>2, <2>3 DEF Deliver, e
  <2> QED
    BY <1>0, <1>4, <2>1, <2>4 DEF Deliver
<1>5. CASE ListenersStep
  <2>1. native' \in {"checking", "ready", "error"}
    BY <1>5 DEF ListenersStep, ListenersMove, ListenersFail
  <2>2. UNCHANGED <<page, mirror, busy, inbox, missed, surplus, calls, answers, overtaken, vars>>
    BY <1>5 DEF ListenersStep, ListenersMove, ListenersFail
  <2> QED
    BY <1>0, <2>1, <2>2
<1>6. ASSUME NEW a \in answers, TakeAnswer(a) PROVE MirrorTypeOK'
  <2>1. mirror' \in Status /\ surplus' \in Nat
    BY <1>6 DEF TakeAnswer, NewStatus, Answer
  <2>2. busy' \in BOOLEAN
    BY <1>6 DEF TakeAnswer
  <2> QED
    BY <1>0, <1>6, <2>1, <2>2 DEF TakeAnswer
<1>7. ASSUME NEW call \in calls, Execute(call) PROVE MirrorTypeOK'
  <2>1. UNCHANGED <<page, native, mirror, busy, inbox, missed, surplus>> /\ calls' \subseteq Call
    BY <1>7 DEF Execute, pageVars
  <2>2. ASSUME NEW ok \in BOOLEAN, NEW status \in Status, NEW after \in 0 .. MaxRuns,
               Reply(call, ok, status, after)
        PROVE  answers' \subseteq Answer
    <3>1. [call |-> call, ok |-> ok, status |-> status, after |-> after] \in Answer
      BY DEF Answer
    <3> QED
      BY <2>2, <3>1 DEF Reply
  <2>3. NoRun \in 0 .. MaxRuns /\ NoStatus \in Status /\ Stopped \in Status /\ handles \in 0 .. MaxRuns
    BY <1>0, MaxRunsIsNat DEF NoRun, NoStatus, Stopped, Status, TypeOK
  <2>4. Snapshot \in Status
    BY <1>0 DEF Snapshot, Status, TypeOK
  <2>5. Running \in Status
    BY DEF Running, Status
  <2>6. answers' \subseteq Answer
    BY <1>7, <2>2, <2>3, <2>4, <2>5 DEF Execute, ExecuteStatus, ExecuteStart, ExecuteStop, Refuse
  <2>7. overtaken' \in BOOLEAN
    BY <1>7 DEF Execute, ExecuteStatus, ExecuteStart, ExecuteStop, Refuse, Overtakes
  <2> QED
    BY <1>0, <2>1, <2>6, <2>7
<1>8. CASE BackendSteps /\ UNCHANGED mirrorVars
  BY <1>0, <1>8 DEF mirrorVars, pageVars
<1>9. ASSUME NEW c \in Conns, NEW kind \in {"started", "closed"}, Emit(kind, c) PROVE MirrorTypeOK'
  <2>1. [kind |-> kind, conn |-> c, to |-> Reached(kind)] \in Event
    BY DEF Event, Reached
  <2> QED
    BY <1>0, <1>9, <2>1 DEF Emit
<1> QED
  BY <1>1, <1>2, <1>3, <1>4, <1>5, <1>6, <1>7, <1>8, <1>9 DEF MirrorNext, EmittingSteps, ListenersStep

----------------------------------------------------------------------------
(* Events and phases *)

(***************************************************************************)
(* How a connection moves when it emits nothing: the phases before, within *)
(* and after its announced session are not left without an event.          *)
(***************************************************************************)
SilentMove(from, to) ==
  \/ to = from
  \/ {from, to} \subseteq {"idle", "accepted", "counted"}
  \/ from = "counted" /\ to = "registered"
  \/ {from, to} \subseteq Registered \ {"registered"}
  \/ {from, to} \subseteq {"deregistered", "done"}

LEMMA BackendStepsAreSilent ==
  ASSUME TypeOK, BackendSteps
  PROVE  \A c \in Conns : SilentMove(conn[c], conn'[c])
<1>1. ASSUME NEW g \in Runs, StopSteps(g) \/ ListenerSteps(g) PROVE conn' = conn
  BY <1>1 DEF StopSteps, StopBroadcast, StopListener, StopAbort, ListenerSteps,
              ListenerLeaves, ListenerAborted, MarkStopped, connVars
<1>2. ASSUME NEW g \in Runs, NEW d \in Conns, Accept(g, d)
      PROVE  conn' = [conn EXCEPT ![d] = "accepted"] /\ conn[d] = "idle"
  BY <1>2 DEF Accept
<1>3. ASSUME NEW d \in Conns, SilentTaskSteps(d) \/ PeerSteps(d)
      PROVE  \E to : conn' = [conn EXCEPT ![d] = to] /\ SilentMove(conn[d], to)
  BY <1>3
     DEF SilentTaskSteps, PeerSteps, IncrementActive, RegisterSession, Subscribe, HeardShutdown,
         DecrementActive, HandshakeDone, TargetConnected, ConnectFailed, ForwardingEnds, Advance,
         Finish, SilentMove, Registered, Subscribed
<1> QED
  BY <1>1, <1>2, <1>3 DEF BackendSteps, SilentMove, TypeOK

LEMMA SilentKeepsEvents ==
  ASSUME MirrorTypeOK, EventsInOrder, EventsFitPhases, UNCHANGED <<inbox, missed>>,
         \A c \in Conns : SilentMove(conn[c], conn'[c])
  PROVE  EventsInOrder' /\ EventsFitPhases' /\ Shown' = Shown
<1>1. EventsInOrder' /\ UNCHANGED <<StartsUnderWay, EndsUnderWay>>
  BY DEF EventsInOrder, StartsUnderWay, EndsUnderWay
<1>2. EndsUnderWay \subseteq Conns /\ StartsUnderWay \subseteq Conns /\ missed \subseteq Conns
  BY DEF EndsUnderWay, StartsUnderWay, MirrorTypeOK
<1>3. \A c \in EndsUnderWay \cup missed : conn'[c] \in {"deregistered", "done"}
  BY <1>2 DEF EventsFitPhases, SilentMove, Registered, Subscribed
<1>4. \A c \in Conns : conn'[c] \in Registered \ {"registered"} <=> conn[c] \in Registered \ {"registered"}
  BY DEF SilentMove, Registered, Subscribed
<1>5. \A c \in Conns : c \in Sessions' /\ conn'[c] # "registered" <=> c \in Sessions /\ conn[c] # "registered"
  <2>1. \A c \in Conns : c \in Sessions /\ conn[c] # "registered"
          <=> conn[c] \in Registered \ {"registered"} \/ c \in EndsUnderWay \cup missed
    BY DEF Sessions, RegisteredConns, EventsFitPhases
  <2>2. \A c \in Conns : c \in Sessions' /\ conn'[c] # "registered"
          <=> conn'[c] \in Registered \ {"registered"} \/ c \in EndsUnderWay \cup missed
    BY <1>1, <1>3 DEF Sessions, RegisteredConns
  <2> QED
    BY <1>4, <2>1, <2>2
<1>6. EventsFitPhases'
  BY <1>1, <1>2, <1>3, <1>5 DEF EventsFitPhases
<1>7. Sessions \subseteq Conns /\ Sessions' \subseteq Conns
  BY <1>1, <1>2 DEF Sessions, RegisteredConns
<1> QED
  BY <1>1, <1>5, <1>6, <1>7 DEF Shown

LEMMA EmitStarted ==
  ASSUME MirrorTypeOK, EventsInOrder, EventsFitPhases,
         NEW c \in Conns, AnnounceSession(c), Emit("started", c)
  PROVE  EventsInOrder' /\ EventsFitPhases' /\ Shown \subseteq Shown'
<1> DEFINE e == [kind |-> "started", conn |-> c, to |-> Reached("started")]
<1>1. conn[c] = "registered" /\ conn' = [conn EXCEPT ![c] = "announced"] /\ conn \in [Conns -> Phases]
  BY DEF AnnounceSession, Advance, MirrorTypeOK, TypeOK
<1>2. c \notin StartsUnderWay /\ c \notin EndsUnderWay /\ c \notin missed
  BY <1>1 DEF EventsFitPhases
<1>3. missed' = missed /\ inbox' \in {inbox, Append(inbox, e)}
  BY DEF Emit
<1>4. inbox \in Seq(Event) /\ e \in Event
  BY DEF MirrorTypeOK, Event, Reached
<1>5. \A i \in DOMAIN inbox : inbox[i] \in Event /\ inbox[i].conn # c
  <2>1. \A i \in DOMAIN inbox : inbox[i] \in Event
    BY <1>4
  <2>2. ASSUME NEW i \in DOMAIN inbox, inbox[i].conn = c PROVE FALSE
    <3>1. inbox[i].kind = "started" \/ inbox[i].kind = "closed"
      BY <2>1 DEF Event
    <3> QED
      BY <1>2, <2>2, <3>1 DEF StartsUnderWay, EndsUnderWay
  <2> QED
    BY <2>1, <2>2
<1>6. EventsInOrder' /\ EndsUnderWay' = EndsUnderWay /\ StartsUnderWay \subseteq StartsUnderWay'
      /\ StartsUnderWay' \subseteq StartsUnderWay \cup {c}
  <2>1. CASE inbox' = inbox
    BY <2>1 DEF EventsInOrder, EndsUnderWay, StartsUnderWay
  <2>2. CASE inbox' = Append(inbox, e)
    <3> HIDE DEF e
    <3>1. /\ DOMAIN inbox' = DOMAIN inbox \cup {Len(inbox) + 1}
          /\ Len(inbox) + 1 \notin DOMAIN inbox
          /\ \A i \in DOMAIN inbox : inbox'[i] = inbox[i] /\ i < Len(inbox) + 1
          /\ inbox'[Len(inbox) + 1] = e
      BY <1>4, <2>2
    <3>2. e.kind = "started" /\ e.conn = c
      BY DEF e
    <3>3. EventsInOrder'
      BY <1>5, <3>1, <3>2 DEF EventsInOrder
    <3>5. EndsUnderWay' = EndsUnderWay
      BY <3>1, <3>2 DEF EndsUnderWay
    <3>6. \A d \in StartsUnderWay' : d \in StartsUnderWay \/ d = c
      BY <3>1, <3>2 DEF StartsUnderWay
    <3>7. StartsUnderWay \subseteq StartsUnderWay'
      BY <3>1 DEF StartsUnderWay
    <3> QED
      BY <3>3, <3>5, <3>6, <3>7
  <2> QED
    BY <1>3, <2>1, <2>2
<1>7. Sessions' = Sessions /\ c \in Sessions
  BY <1>1, <1>3, <1>6 DEF Sessions, RegisteredConns, Registered, Subscribed
<1>8. EventsFitPhases'
  BY <1>1, <1>2, <1>3, <1>6, <1>7 DEF EventsFitPhases, EndsUnderWay, MirrorTypeOK
<1>9. Shown \subseteq Shown'
  BY <1>1, <1>6, <1>7 DEF Shown
<1> QED
  BY <1>6, <1>8, <1>9

LEMMA EmitClosed ==
  ASSUME MirrorTypeOK, EventsInOrder, EventsFitPhases,
         NEW c \in Conns, CloseSession(c), Emit("closed", c)
  PROVE  EventsInOrder' /\ EventsFitPhases' /\ Shown' = Shown
<1> DEFINE e == [kind |-> "closed", conn |-> c, to |-> Reached("closed")]
<1>1. conn[c] = "finished" /\ conn' = [conn EXCEPT ![c] = "deregistered"] /\ conn \in [Conns -> Phases]
  BY DEF CloseSession, Advance, MirrorTypeOK, TypeOK
<1>2. c \notin EndsUnderWay /\ c \notin missed
  BY <1>1 DEF EventsFitPhases
<1>3. (inbox' = inbox /\ missed' = missed \cup {c}) \/ (inbox' = Append(inbox, e) /\ missed' = missed)
  BY DEF Emit
<1>4. inbox \in Seq(Event) /\ e \in Event
  BY DEF MirrorTypeOK, Event, Reached
<1>5. \A i \in DOMAIN inbox : inbox[i].conn = c => inbox[i].kind = "started"
  <2>1. \A i \in DOMAIN inbox : inbox[i] \in Event
    BY <1>4
  <2>2. ASSUME NEW i \in DOMAIN inbox, inbox[i].conn = c, inbox[i].kind # "started" PROVE FALSE
    <3>1. inbox[i].kind = "closed"
      BY <2>1, <2>2 DEF Event
    <3> QED
      BY <1>2, <2>2, <3>1 DEF EndsUnderWay
  <2> QED
    BY <2>2
<1>6. EventsInOrder' /\ StartsUnderWay' = StartsUnderWay
      /\ EndsUnderWay' \cup missed' = EndsUnderWay \cup missed \cup {c}
  <2>1. CASE inbox' = inbox /\ missed' = missed \cup {c}
    BY <2>1 DEF EventsInOrder, EndsUnderWay, StartsUnderWay
  <2>2. CASE inbox' = Append(inbox, e) /\ missed' = missed
    <3> HIDE DEF e
    <3>1. /\ DOMAIN inbox' = DOMAIN inbox \cup {Len(inbox) + 1}
          /\ Len(inbox) + 1 \notin DOMAIN inbox
          /\ \A i \in DOMAIN inbox : inbox'[i] = inbox[i] /\ i < Len(inbox) + 1
          /\ inbox'[Len(inbox) + 1] = e
      BY <1>4, <2>2
    <3>2. e.kind = "closed" /\ e.conn = c
      BY DEF e
    <3>3. EventsInOrder'
      BY <1>5, <3>1, <3>2 DEF EventsInOrder
    <3>5. StartsUnderWay' = StartsUnderWay
      BY <3>1, <3>2 DEF StartsUnderWay
    <3>6. \A d \in EndsUnderWay' : d \in EndsUnderWay \/ d = c
      BY <3>1, <3>2 DEF EndsUnderWay
    <3>7. EndsUnderWay \cup {c} \subseteq EndsUnderWay'
      BY <3>1, <3>2 DEF EndsUnderWay
    <3> QED
      BY <2>2, <3>3, <3>5, <3>6, <3>7
  <2> QED
    BY <1>3, <2>1, <2>2
<1>7. Sessions' = Sessions /\ c \in Sessions
  BY <1>1, <1>6 DEF Sessions, RegisteredConns, Registered, Subscribed
<1>8. EventsFitPhases'
  BY <1>1, <1>6, <1>7 DEF EventsFitPhases, EndsUnderWay, MirrorTypeOK
<1>9. Shown' = Shown
  <2>1. \A d \in Sessions : conn'[d] = "registered" <=> conn[d] = "registered"
    BY <1>1 DEF Sessions, RegisteredConns, EndsUnderWay, MirrorTypeOK
  <2> QED
    BY <1>6, <1>7, <2>1 DEF Shown
<1> QED
  BY <1>6, <1>8, <1>9

(***************************************************************************)
(* Delivering a start adds its session to those shown; delivering an end   *)
(* takes away at most the one that ended, and none if nobody hears it.     *)
(***************************************************************************)
LEMMA DeliverKeepsEvents ==
  ASSUME MirrorTypeOK, EventsInOrder, EventsFitPhases, Deliver
  PROVE  /\ EventsInOrder' /\ EventsFitPhases'
         /\ Head(inbox).kind = "started" => \E c \in Conns \ Shown : Shown' = Shown \cup {c}
         /\ Head(inbox).kind = "closed" =>
              /\ \E c \in Conns : Shown \ {c} \subseteq Shown'
              /\ Heard(Head(inbox)) = 0 => Shown \subseteq Shown'
<1> DEFINE h == Head(inbox)
           c == h.conn
<1>1. /\ inbox \in Seq(Event) /\ inbox # <<>> /\ inbox' = Tail(inbox) /\ conn' = conn
      /\ missed' = IF h.kind = "closed" /\ Heard(h) = 0 THEN missed \cup {c} ELSE missed
  BY DEF MirrorTypeOK, Deliver, vars, connVars
<1>2. /\ h = inbox[1] /\ h \in Event /\ 1 \in DOMAIN inbox
      /\ \A i \in DOMAIN inbox' : i + 1 \in DOMAIN inbox /\ inbox'[i] = inbox[i + 1] /\ 1 < i + 1
      /\ \A i \in DOMAIN inbox : i > 1 => i - 1 \in DOMAIN inbox' /\ inbox[i] = inbox'[i - 1]
  BY <1>1
<1>3. DOMAIN inbox \subseteq Int /\ DOMAIN inbox' \subseteq Int /\ \A i \in DOMAIN inbox : i >= 1
  BY <1>1
<1>4. c \in Conns /\ h.kind \in {"started", "closed"}
  BY <1>2 DEF Event
<1> HIDE DEF h
<1>5. EventsInOrder'
  <2> SUFFICES ASSUME NEW i \in DOMAIN inbox', NEW j \in DOMAIN inbox', i < j, inbox'[i].conn = inbox'[j].conn
               PROVE  inbox'[i].kind = "started" /\ inbox'[j].kind = "closed"
    BY DEF EventsInOrder
  <2>1. i + 1 < j + 1
    BY <1>3
  <2> QED
    BY <1>2, <2>1 DEF EventsInOrder
<1>6. \A i \in DOMAIN inbox : i > 1 /\ inbox[i].conn = c => inbox[i].kind = "closed" /\ h.kind = "started"
  BY <1>2 DEF EventsInOrder
<1>7. RegisteredConns' = RegisteredConns
  BY <1>1 DEF RegisteredConns
<1>8. CASE h.kind = "started"
  <2>1. missed' = missed
    BY <1>1, <1>8
  <2>2. EndsUnderWay' = EndsUnderWay
    <3>1. \A d \in Conns : (\E i \in DOMAIN inbox : inbox[i].kind = "closed" /\ inbox[i].conn = d)
                       <=> (\E i \in DOMAIN inbox' : inbox'[i].kind = "closed" /\ inbox'[i].conn = d)
      BY <1>2, <1>3, <1>8
    <3> QED
      BY <3>1 DEF EndsUnderWay
  <2>3. StartsUnderWay' = StartsUnderWay \ {c}
    <3>1. c \notin StartsUnderWay'
      BY <1>2, <1>6 DEF StartsUnderWay
    <3>2. \A d \in Conns \ {c} : (\E i \in DOMAIN inbox : inbox[i].kind = "started" /\ inbox[i].conn = d)
                             <=> (\E i \in DOMAIN inbox' : inbox'[i].kind = "started" /\ inbox'[i].conn = d)
      BY <1>2, <1>3, <1>4
    <3> QED
      BY <3>1, <3>2 DEF StartsUnderWay
  <2>4. c \in StartsUnderWay
    BY <1>2, <1>4, <1>8 DEF StartsUnderWay
  <2>5. Sessions' = Sessions /\ c \in Sessions /\ conn[c] # "registered"
    BY <1>7, <2>1, <2>2, <2>4 DEF Sessions, EventsFitPhases
  <2>6. EventsFitPhases'
    BY <1>1, <2>1, <2>2, <2>3, <2>5 DEF EventsFitPhases
  <2>7. Shown' = Shown \cup {c} /\ c \notin Shown
    BY <1>1, <2>3, <2>4, <2>5 DEF Shown
  <2> QED
    BY <1>4, <1>5, <1>8, <2>6, <2>7 DEF h
<1>9. CASE h.kind = "closed"
  <2>1. StartsUnderWay' = StartsUnderWay /\ c \notin StartsUnderWay
    <3>1. \A d \in Conns : (\E i \in DOMAIN inbox : inbox[i].kind = "started" /\ inbox[i].conn = d)
                       <=> (\E i \in DOMAIN inbox' : inbox'[i].kind = "started" /\ inbox'[i].conn = d)
      BY <1>2, <1>3, <1>9
    <3>2. \A i \in DOMAIN inbox : ~(inbox[i].kind = "started" /\ inbox[i].conn = c)
      BY <1>2, <1>3, <1>6, <1>9
    <3> QED
      BY <3>1, <3>2 DEF StartsUnderWay
  <2>2. EndsUnderWay \ {c} \subseteq EndsUnderWay' /\ EndsUnderWay' \subseteq EndsUnderWay
    <3>1. \A d \in Conns \ {c} : (\E i \in DOMAIN inbox : inbox[i].kind = "closed" /\ inbox[i].conn = d)
                              => (\E i \in DOMAIN inbox' : inbox'[i].kind = "closed" /\ inbox'[i].conn = d)
      BY <1>2, <1>3
    <3>2. \A d \in Conns : (\E i \in DOMAIN inbox' : inbox'[i].kind = "closed" /\ inbox'[i].conn = d)
                        => (\E i \in DOMAIN inbox : inbox[i].kind = "closed" /\ inbox[i].conn = d)
      BY <1>2
    <3> QED
      BY <3>1, <3>2 DEF EndsUnderWay
  <2>3. /\ Sessions \ {c} \subseteq Sessions'
        /\ Heard(h) = 0 => Sessions \subseteq Sessions'
    BY <1>1, <1>7, <1>9, <2>2 DEF Sessions
  <2>4. EventsFitPhases'
    <3>1. c \in EndsUnderWay
      BY <1>2, <1>4, <1>9 DEF EndsUnderWay
    <3> QED
      BY <1>1, <2>1, <2>2, <2>3, <3>1 DEF EventsFitPhases
  <2>5. Shown \ {c} \subseteq Shown' /\ (Heard(h) = 0 => Shown \subseteq Shown')
    BY <1>1, <2>1, <2>3 DEF Shown
  <2> QED
    BY <1>4, <1>5, <1>9, <2>4, <2>5 DEF h
<1> QED
  BY <1>4, <1>8, <1>9

----------------------------------------------------------------------------
(* The first page counts no client too many *)

(***************************************************************************)
(* Before the first command nothing moves: there is no listener yet.       *)
(***************************************************************************)
LEMMA NothingStartsByItself ==
  ASSUME RunsInv, Untouched, OwnSteps
  PROVE  Untouched'
<1>1. \A g \in Runs : listener[g] = "unborn"
  BY DEF RunsInv, StartedRuns, Untouched, Runs
<1>2. ASSUME NEW g \in Runs, StopSteps(g) PROVE Untouched'
  BY <1>2 DEF StopSteps, StopBroadcast, StopListener, StopAbort, runtimeVars, connVars, Untouched
<1>3. ASSUME NEW g \in Runs, ListenerSteps(g) PROVE FALSE
  BY <1>1, <1>3 DEF ListenerSteps, ListenerLeaves, ListenerAborted, MarkStopped
<1>4. ASSUME NEW g \in Runs, NEW c \in Conns, Accept(g, c) PROVE FALSE
  BY <1>1, <1>4 DEF Accept
<1>5. ASSUME NEW c \in Conns, ConnSteps(c) PROVE FALSE
  BY <1>5
     DEF Untouched, ConnSteps, TaskSteps, PeerSteps, IncrementActive, RegisterSession,
         AnnounceSession, Subscribe, HeardShutdown, CloseSession, DecrementActive, HandshakeDone,
         TargetConnected, ConnectFailed, ForwardingEnds, Advance, Subscribed
<1> QED
  BY <1>2, <1>3, <1>4, <1>5 DEF OwnSteps

(***************************************************************************)
(* Fewer are shown only if fewer are counted.                              *)
(***************************************************************************)
LEMMA MoreShown ==
  ASSUME MirrorTypeOK, MirrorTypeOK', Shown \subseteq Shown'
  PROVE  Cardinality(Shown) <= Cardinality(Shown')
<1>1. Shown' \in SUBSET Conns
  BY DEF MirrorTypeOK, Shown, Sessions, RegisteredConns, EndsUnderWay
<1> QED
  BY <1>1, ConnsAssumption, FS_Subset

(***************************************************************************)
(* A step of the page or of the backend that leaves what is shown alone.   *)
(***************************************************************************)
LEMMA CountKeptByPage ==
  ASSUME MirrorTypeOK, MirrorTypeOK', FirstPage, Shown \subseteq Shown', UNCHANGED <<page, mirror, surplus>>,
         AsksStatus(1) \in calls' /\ page = 1 => AsksStatus(1) \in calls /\ (Untouched => Untouched'),
         \A a \in answers' : page = 1 => a \in answers \/ ~a.ok \/ a.status.active = 0
  PROVE  FirstPage'
<1>1. Cardinality(Shown) \in Nat /\ Cardinality(Shown') \in Nat
      /\ Cardinality(Shown) <= Cardinality(Shown') /\ mirror.active \in Nat /\ surplus \in Nat
  <2>1. Shown \in SUBSET Conns /\ Shown' \in SUBSET Conns
    BY DEF MirrorTypeOK, Shown, Sessions, RegisteredConns, EndsUnderWay
  <2> QED
    BY <2>1, MoreShown, ConnsAssumption, FS_Subset, FS_CardinalityType DEF MirrorTypeOK, Status
<1> QED
  BY <1>1 DEF FirstPage, Untouched, AsksStatus

LEMMA CommandsKeepCount ==
  ASSUME MirrorTypeOK, MirrorTypeOK', AgreementInv, EventsInOrder, EventsFitPhases, FirstPage,
         NEW call \in calls, Execute(call)
  PROVE  EventsInOrder' /\ EventsFitPhases' /\ FirstPage'
<1>1. UNCHANGED <<conn, page, mirror, inbox, missed, surplus>> /\ calls' = calls \ {call}
  BY DEF Execute, ExecuteStatus, ExecuteStart, ExecuteStop, Refuse, Start, StopTake, pageVars,
         vars, connVars
<1>2. EventsInOrder' /\ EventsFitPhases' /\ Shown' = Shown
  BY <1>1, SilentKeepsEvents DEF SilentMove
<1>3. ASSUME page = 1, AsksStatus(1) \in calls PROVE call = AsksStatus(1)
  BY <1>3 DEF AgreementInv, PagesInv, Own, MirrorTypeOK, Call, Pages
<1>4. ASSUME page = 1, call.cmd = "status" PROVE AsksStatus(1) \in calls
  <2>1. call \in Own
    BY <1>4 DEF AgreementInv, PagesInv, Own, MirrorTypeOK, Call, Pages
  <2>2. Asking
    BY <1>4, <2>1 DEF AgreementInv, Stage, Told, AtRest, Commanding, Answered
  <2> QED
    BY <1>4, <2>2 DEF Asking, Own
<1>5. \A a \in answers' : page = 1 => a \in answers \/ ~a.ok \/ a.status.active = 0
  <2>1. CASE ExecuteStatus(call)
    <3>1. page = 1 => Snapshot.active = 0
      BY <1>4, <2>1 DEF ExecuteStatus, Snapshot, FirstPage, Untouched
    <3> QED
      BY <2>1, <3>1 DEF ExecuteStatus, Reply
  <2>2. CASE ExecuteStart(call) \/ ExecuteStop(call)
    BY <2>2 DEF ExecuteStart, ExecuteStop, Refuse, Reply, Running, Stopped
  <2> QED
    BY <2>1, <2>2 DEF Execute
<1> QED
  BY <1>1, <1>2, <1>3, <1>5, CountKeptByPage

LEMMA EventsKeepCount ==
  ASSUME MirrorTypeOK, MirrorTypeOK', EventsInOrder, EventsFitPhases, FirstPage, Deliver
  PROVE  EventsInOrder' /\ EventsFitPhases' /\ FirstPage'
<1> DEFINE e == Head(inbox)
           n == Heard(e)
<1>1. EventsInOrder' /\ EventsFitPhases'
  BY DeliverKeepsEvents
<1>2. /\ mirror' = Patched(e, n) /\ e \in Event
      /\ surplus' = IF e.kind = "started" /\ n > 1 THEN surplus + (n - 1) ELSE surplus
      /\ UNCHANGED <<page, calls, answers, generation, active, conn>>
  BY DEF Deliver, MirrorTypeOK, vars, runtimeVars, connVars
<1>3. /\ mirror.active \in Nat /\ surplus \in Nat /\ n \in Nat
      /\ Shown \in SUBSET Conns /\ Shown' \in SUBSET Conns
  BY HeardIsNat DEF MirrorTypeOK, Status, Shown, Sessions, RegisteredConns, EndsUnderWay
<1>4. /\ Cardinality(Shown) \in Nat /\ Cardinality(Shown') \in Nat
      /\ \A c \in Conns : Cardinality(Shown \ {c}) \in Nat
  BY <1>3, ConnsAssumption, FS_Subset, FS_CardinalityType
<1>5. /\ e.kind = "started" => \E c \in Conns \ Shown : Shown' = Shown \cup {c}
      /\ e.kind = "closed" =>
           /\ \E c \in Conns : Shown \ {c} \subseteq Shown'
           /\ n = 0 => Shown \subseteq Shown'
  BY DeliverKeepsEvents
<1> HIDE DEF e, n
<1>6. CASE e.kind = "started"
  <2>1. PICK c \in Conns \ Shown : Shown' = Shown \cup {c}
    BY <1>5, <1>6
  <2>2. Cardinality(Shown') = Cardinality(Shown) + 1
    BY <1>3, <2>1, CardinalityByOne
  <2>3. mirror'.active \in {mirror.active, mirror.active + n} /\ (~mirror.known => mirror' = mirror)
        /\ mirror'.known = mirror.known
    BY <1>2, <1>6 DEF Patched, MirrorTypeOK, Status
  <2>4. n <= 1 => surplus' = surplus
    BY <1>2, <1>3
  <2>5. n > 1 => surplus' = surplus + (n - 1)
    BY <1>2, <1>6
  <2>6. page = 1 => mirror'.active <= Cardinality(Shown') + surplus'
    BY <1>3, <1>4, <2>2, <2>3, <2>4, <2>5 DEF FirstPage
  <2> QED
    BY <1>1, <1>2, <2>3, <2>6 DEF FirstPage, AsksStatus, Untouched
<1>7. CASE e.kind = "closed"
  <2>1. /\ mirror'.known = mirror.known /\ surplus' = surplus /\ (~mirror.known => mirror' = mirror)
        /\ n = 0 => mirror' = mirror
        /\ mirror.known /\ n # 0 => mirror'.active = LessBy(mirror.active, n)
    BY <1>2, <1>7 DEF Patched, MirrorTypeOK, Status
  <2>2. PICK c \in Conns : Shown \ {c} \subseteq Shown'
    BY <1>5, <1>7
  <2>3. Cardinality(Shown \ {c}) <= Cardinality(Shown')
    BY <1>3, <2>2, ConnsAssumption, FS_Subset
  <2>4. Cardinality(Shown \ {c}) >= Cardinality(Shown) - 1
    <3>1. c \notin Shown => Shown \ {c} = Shown
      OBVIOUS
    <3>2. c \in Shown => Cardinality(Shown \ {c}) = Cardinality(Shown) - 1
      BY <1>3, CardinalityByOne
    <3> QED
      BY <1>4, <3>1, <3>2
  <2>5. n = 0 => Cardinality(Shown) <= Cardinality(Shown')
    BY <1>3, <1>5, <1>7, ConnsAssumption, FS_Subset
  <2>6. ASSUME page = 1 PROVE mirror'.active <= Cardinality(Shown') + surplus'
    <3>1. mirror.active <= Cardinality(Shown) + surplus /\ (~mirror.known => mirror.active = 0)
      BY <2>6 DEF FirstPage
    <3>2. CASE n = 0
      BY <1>3, <1>4, <2>1, <2>5, <3>1, <3>2
    <3>3. CASE n # 0 /\ mirror.known
      <4>1. mirror'.active = LessBy(mirror.active, n)
        BY <2>1, <3>3
      <4>2. LessBy(mirror.active, n) <= Cardinality(Shown') + surplus
        BY <1>3, <1>4, <2>3, <2>4, <3>1, <3>3 DEF LessBy
      <4> QED
        BY <2>1, <4>1, <4>2
    <3>4. CASE ~mirror.known
      BY <1>3, <1>4, <2>1, <3>1, <3>4
    <3> QED
      BY <3>2, <3>3, <3>4
  <2> QED
    BY <1>1, <1>2, <2>1, <2>6 DEF FirstPage, AsksStatus, Untouched
<1> QED
  BY <1>2, <1>6, <1>7 DEF Event

LEMMA CountedInit == MirrorInit => CountedInv
<1> SUFFICES ASSUME MirrorInit PROVE CountedInv
  OBVIOUS
<1>1. TypeOK /\ 1 \in Pages
  BY TypeInit, PagesAssumption DEF MirrorInit, Pages
<1>2. NoStatus \in Status /\ AsksStatus(1) \in Call
  BY <1>1, MaxRunsIsNat DEF NoStatus, Status, NoRun, AsksStatus, Call
<1>3. busy \in BOOLEAN /\ overtaken \in BOOLEAN /\ surplus \in Nat /\ Listeners!TypeOK
  BY FirstListeners DEF MirrorInit
<1>4. MirrorTypeOK
  BY <1>1, <1>2, <1>3 DEF MirrorInit, MirrorTypeOK
<1>5. EndsUnderWay = {} /\ StartsUnderWay = {} /\ RegisteredConns = {} /\ EventsInOrder
  BY DEF MirrorInit, EndsUnderWay, StartsUnderWay, EventsInOrder, Init, RegisteredConns,
         Registered, Subscribed
<1>6. EventsFitPhases /\ Shown = {}
  BY <1>5 DEF MirrorInit, EventsFitPhases, Shown, Sessions
<1>7. FirstPage
  BY <1>6, NoneCounted DEF MirrorInit, Init, FirstPage, NoStatus, Untouched
<1> QED
  BY <1>4, <1>5, <1>6, <1>7 DEF CountedInv

LEMMA CountedStep == AgreementInv /\ CountedInv /\ [MirrorNext]_allVars => CountedInv'
<1> SUFFICES ASSUME AgreementInv, CountedInv, [MirrorNext]_allVars
             PROVE  EventsInOrder' /\ EventsFitPhases' /\ FirstPage'
  BY MirrorTypeStep DEF CountedInv
<1>0. MirrorTypeOK /\ MirrorTypeOK' /\ EventsInOrder /\ EventsFitPhases /\ FirstPage /\ RunsInv
  BY MirrorTypeStep DEF CountedInv, AgreementInv
<1>1. ASSUME UNCHANGED <<page, mirror, inbox, missed, surplus, answers>>,
             \A c \in Conns : SilentMove(conn[c], conn'[c]),
             AsksStatus(1) \in calls' /\ page = 1 => AsksStatus(1) \in calls,
             Untouched => Untouched'
      PROVE  EventsInOrder' /\ EventsFitPhases' /\ FirstPage'
  BY <1>0, <1>1, SilentKeepsEvents, CountKeptByPage
<1>2. CASE UNCHANGED allVars \/ ListenersStep
  BY <1>1, <1>2
     DEF allVars, mirrorVars, pageVars, vars, runtimeVars, connVars, ListenersStep, ListenersMove,
         ListenersFail, SilentMove, Untouched
<1>3. CASE PressStart \/ PressStop
  BY <1>1, <1>3
     DEF PressStart, PressStop, Press, AsksStatus, vars, runtimeVars, connVars, SilentMove, Untouched
<1>4. CASE BackendSteps /\ UNCHANGED mirrorVars
  <2>1. Untouched => Untouched'
    BY <1>0, <1>4, BackendStepsAreOwn, NothingStartsByItself
  <2> QED
    BY <1>0, <1>1, <1>4, <2>1, BackendStepsAreSilent DEF mirrorVars, pageVars, MirrorTypeOK
<1>5. ASSUME NEW c \in Conns, EmittingSteps(c) PROVE EventsInOrder' /\ EventsFitPhases' /\ FirstPage'
  <2>1. UNCHANGED <<page, mirror, surplus, calls, answers>>
    BY <1>5 DEF EmittingSteps, Emit
  <2>2. EventsInOrder' /\ EventsFitPhases' /\ Shown \subseteq Shown'
    BY <1>0, <1>5, EmitStarted, EmitClosed DEF EmittingSteps
  <2>3. Untouched => Untouched'
    BY <1>0, <1>5, BackendStepsAreOwn, NothingStartsByItself
  <2> QED
    BY <1>0, <2>1, <2>2, <2>3, CountKeptByPage
<1>6. CASE \E call \in calls : Execute(call)
  BY <1>0, <1>6, CommandsKeepCount DEF AgreementInv
<1>7. ASSUME NEW a \in answers, TakeAnswer(a) PROVE EventsInOrder' /\ EventsFitPhases' /\ FirstPage'
  <2>1. UNCHANGED <<page, inbox, missed, conn, calls, generation, active>> /\ answers' \subseteq answers
    BY <1>7 DEF TakeAnswer, vars, connVars, runtimeVars
  <2>2. EventsInOrder' /\ EventsFitPhases' /\ Shown' = Shown
    BY <1>0, <2>1, SilentKeepsEvents DEF SilentMove
  <2>3. (mirror' = mirror /\ surplus' = surplus) \/ (a.ok /\ mirror' = a.status /\ surplus' = 0)
    BY <1>7 DEF TakeAnswer, NewStatus
  <2>4. Cardinality(Shown) \in Nat
    BY <1>0, ShownIsFinite
  <2>5. FirstPage'
    BY <1>0, <2>1, <2>2, <2>3, <2>4 DEF FirstPage, AsksStatus, Untouched
  <2> QED
    BY <2>2, <2>5
<1>8. CASE Deliver
  BY <1>0, <1>8, EventsKeepCount
<1>9. CASE Reload
  <2>1. inbox' = <<>> /\ missed' = {} /\ page' = page + 1 /\ page \in Nat \ {0}
    BY <1>0, <1>9 DEF Reload, MirrorTypeOK, Pages
  <2>2. EndsUnderWay' = {} /\ StartsUnderWay' = {} /\ EventsInOrder'
    BY <2>1 DEF EndsUnderWay, StartsUnderWay, EventsInOrder
  <2> QED
    BY <2>1, <2>2 DEF EventsFitPhases, FirstPage
<1> QED
  BY <1>2, <1>3, <1>4, <1>5, <1>6, <1>7, <1>8, <1>9 DEF MirrorNext, ListenersStep

LEMMA CountedBounds == CountedInv => NeverOvercounts
<1> SUFFICES ASSUME CountedInv, page = 1
             PROVE  mirror.active <= Cardinality(RegisteredConns \cup EndsUnderWay \cup missed) + surplus
  BY DEF NeverOvercounts
<1>1. mirror.active <= Cardinality(Shown) + surplus /\ mirror.active \in Nat /\ surplus \in Nat
  BY DEF CountedInv, FirstPage, MirrorTypeOK, Status
<1>2. Shown \subseteq Sessions /\ Sessions \in SUBSET Conns
  BY DEF CountedInv, MirrorTypeOK, Shown, Sessions, RegisteredConns, EndsUnderWay
<1>3. Cardinality(Shown) <= Cardinality(Sessions) /\ Cardinality(Shown) \in Nat
      /\ Cardinality(Sessions) \in Nat
  BY <1>2, ConnsAssumption, FS_Subset, FS_CardinalityType
<1> QED
  BY <1>1, <1>3 DEF Sessions

----------------------------------------------------------------------------
(* Theorems *)

(***************************************************************************)
(* The composition drives the backend only as Proxy allows: every theorem  *)
(* about it holds next to any pages (commands.rs, App.tsx).                *)
(***************************************************************************)
THEOREM MirrorDrivesProxy == MirrorSpec => Spec
<1>1. MirrorInit => Init
  BY DEF MirrorInit
<1> QED
  BY <1>1, StepsOfTheBackend, PTL DEF MirrorSpec, Spec

(***************************************************************************)
(* A page that waits for no answer knows whether a proxy runs, in any      *)
(* order of commands, answers, events and reloads, unless a command of an  *)
(* older page was executed after it read its status (App.tsx).             *)
(***************************************************************************)
THEOREM AgreementCorrect == MirrorSpec => []AgreesUnlessOvertaken
BY AgreementGivesAgreement, MirrorInitHolds, MirrorNextKeeps, PTL DEF MirrorSpec

(***************************************************************************)
(* What the proxy panel shows is true, for any clients, runs and pages:    *)
(* whether a proxy runs, as above, and on the first page never a client    *)
(* whose end has reached the page, but for the starts that overlapping     *)
(* registrations heard twice, although the count is patched by events that *)
(* travel apart from the answers that reset it (App.tsx, onSessionClosed). *)
(***************************************************************************)
THEOREM MirrorCorrect == MirrorSpec => []MirrorIsTruthful
<1>1. MirrorInit => AgreementInv /\ CountedInv
  BY MirrorInitHolds, CountedInit
<1>2. AgreementInv /\ CountedInv /\ [MirrorNext]_allVars => (AgreementInv /\ CountedInv)'
  BY MirrorNextKeeps, CountedStep
<1>3. AgreementInv => AgreesUnlessOvertaken
  BY AgreementGivesAgreement
<1>4. CountedInv => MirrorTypeOK /\ NeverOvercounts
  BY CountedBounds DEF CountedInv
<1>5. AgreementInv /\ CountedInv => MirrorIsTruthful
  BY <1>3, <1>4 DEF MirrorIsTruthful
<1> QED
  BY <1>1, <1>2, <1>5, PTL DEF MirrorSpec

=============================================================================

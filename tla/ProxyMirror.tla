---------------------------- MODULE ProxyMirror ----------------------------
(***************************************************************************)
(* The frontend's copy of the proxy status (App.tsx), composed with the    *)
(* backend it mirrors (Proxy).  The copy is replaced by the answers of     *)
(* get_backend_status, start_proxy and stop_proxy and patched by session   *)
(* events.  Commands and events travel by different ways: events keep      *)
(* their order, a command is executed some time after it was sent, and its *)
(* answer arrives some time after that.  An event goes to every listener   *)
(* there is for it (ProxyListeners): a language change registers the       *)
(* listeners anew, and meanwhile there may be none, or two.                *)
(*                                                                         *)
(* A reload starts another page.  What the old page sent is still          *)
(* executed, its answers and the events under way to it are lost.          *)
(***************************************************************************)
EXTENDS Proxy, Sequences

CONSTANTS
  MaxPages,   \* bound: pages loaded one after the other
  MaxRegs,    \* bound: registrations of the listeners on one page
  MaxMoves    \* bound: these two and the runs together, for what MayMove guards

ASSUME PagesAssumption == MaxPages \in Nat \ {0}
ASSUME MirrorRegsAssumption == MaxRegs \in Nat \ {0}

VARIABLES
  page,       \* number of the page that is loaded
  native,     \* nativeBackendState
  mirror,     \* proxyStatus, known = FALSE for null
  busy,       \* proxyBusy
  registrations, holder, mounted, phase, subs,   \* the listeners (ProxyListeners)
  inbox,      \* events emitted to the page, in order
  calls,      \* commands sent and not executed yet
  answers,    \* answers to the page under way
  overtaken,  \* history: an older page's command ran after this page's status was read
  missed,     \* history: connections whose session-closed event found no listener
  surplus     \* history: session-started events handled twice since the copy was replaced

Listeners == INSTANCE ProxyListeners WITH
  Events <- {"started", "closed"},
  generation <- registrations,
  nativeError <- (native = "error")

listenVars == <<registrations, holder, mounted, phase, subs>>
pageVars   == <<page, native, mirror, busy, listenVars, inbox, missed, surplus>>
mirrorVars == <<pageVars, calls, answers, overtaken>>
allVars    == <<vars, mirrorVars>>

Pages  == 1 .. MaxPages
Call   == [cmd : {"status", "start", "stop"}, page : Pages, copy : 1 .. 2]
Status == [known : BOOLEAN, isRunning : BOOLEAN, active : Nat]
Answer == [call : Call, ok : BOOLEAN, status : Status, after : 0 .. MaxRuns]
Event  == [kind : {"started", "closed"}, conn : Conns, to : SUBSET Listeners!Regs]

NoStatus == [known |-> FALSE, isRunning |-> FALSE, active |-> 0]

MirrorTypeOK ==
  /\ TypeOK
  /\ page \in Pages
  /\ native \in {"checking", "ready", "error"}
  /\ mirror \in Status
  /\ busy \in BOOLEAN
  /\ Listeners!TypeOK
  /\ inbox \in Seq(Event)
  /\ calls \subseteq Call
  /\ answers \subseteq Answer
  /\ overtaken \in BOOLEAN
  /\ missed \subseteq Conns
  /\ surplus \in Nat

AsksStatus(p) == [cmd |-> "status", page |-> p, copy |-> 1]

(***************************************************************************)
(* Bounds, to keep the combinations few: listeners are registered anew,    *)
(* and a page is loaded, only while little has happened; a run is started  *)
(* only then too, or once the page's first and only registration is over.  *)
(***************************************************************************)
MayMove  == page + registrations + generation < MaxMoves
MayStart == MayMove \/ (registrations = 1 /\ phase[1] = "settled")

(***************************************************************************)
(* A page begins with its first registration under way.                    *)
(***************************************************************************)
FirstRegistration == [r \in Listeners!Regs |-> IF r = 1 THEN "listening" ELSE "none"]

MirrorInit ==
  /\ Init
  /\ page = 1
  /\ native = "checking"
  /\ mirror = NoStatus
  /\ busy = FALSE
  /\ registrations = 1 /\ mounted = 1 /\ holder = Listeners!NoReg
  /\ phase = FirstRegistration /\ subs = {}
  /\ inbox = <<>>
  /\ calls = {AsksStatus(1)}
  /\ answers = {}
  /\ overtaken = FALSE
  /\ missed = {} /\ surplus = 0

----------------------------------------------------------------------------
(* The proxy panel *)

Press(cmd) ==
  /\ native = "ready"
  /\ ~busy
  /\ busy' = TRUE
  /\ calls' = calls \cup {[cmd |-> cmd, page |-> page, copy |-> 1]}
  /\ UNCHANGED <<page, native, mirror, listenVars, inbox, missed, surplus, answers, overtaken, vars>>

PressStart == ~mirror.isRunning /\ Press("start")   \* canStart
PressStop  == mirror.isRunning /\ Press("stop")     \* canStop

----------------------------------------------------------------------------
(* The backend executes commands in any order *)

(***************************************************************************)
(* An answer goes to the page that asked, if it is still there.            *)
(***************************************************************************)
Reply(call, ok, status, after) ==
  answers' = answers \cup
    IF call.page = page
    THEN {[call |-> call, ok |-> ok, status |-> status, after |-> after]}
    ELSE {}

Running  == [known |-> TRUE, isRunning |-> TRUE, active |-> 0]
Stopped  == [known |-> TRUE, isRunning |-> FALSE, active |-> 0]
Snapshot == [known |-> TRUE, isRunning |-> isRunning, active |-> active]

Refuse(call) ==               \* AppError: nothing is assigned
  /\ Reply(call, FALSE, NoStatus, NoRun)
  /\ UNCHANGED <<vars, overtaken>>

Overtakes(call) ==
  overtaken' = (overtaken \/ (call.page < page /\ AsksStatus(page) \notin calls))

ExecuteStatus(call) ==
  /\ call.cmd = "status"
  /\ Reply(call, TRUE, Snapshot, NoRun)
  /\ UNCHANGED <<vars, overtaken>>

ExecuteStart(call) ==
  /\ call.cmd = "start"
  /\ \/ Refuse(call)          \* ProxyAlreadyRunning, or ProxyBindFailed
     \/ /\ MayStart
        /\ \E t \in Targets : Start(t)
        /\ Reply(call, TRUE, Running, NoRun)
        /\ Overtakes(call)

ExecuteStop(call) ==
  /\ call.cmd = "stop"
  /\ \/ ~isRunning /\ Refuse(call)   \* ProxyNotRunning
     \/ /\ StopTake
        /\ Reply(call, TRUE, Stopped, handles)
        /\ Overtakes(call)

Execute(call) ==
  /\ call \in calls
  /\ calls' = calls \ {call}
  /\ ExecuteStatus(call) \/ ExecuteStart(call) \/ ExecuteStop(call)
  /\ UNCHANGED pageVars

----------------------------------------------------------------------------
(* Answers and events reach the page *)

StatusOfStarts(a) ==         \* faulty: a successful stop leaves the copy as it is
  IF a.ok /\ a.call.cmd # "stop" THEN a.status ELSE mirror

(***************************************************************************)
(* setProxyStatus(result.data) after any command that succeeded; a failed  *)
(* one leaves the copy and takes the backend for broken.                   *)
(***************************************************************************)
NewStatus(a) == IF a.ok THEN a.status ELSE mirror

(***************************************************************************)
(* stop() answers only after it has gone through all its steps.            *)
(***************************************************************************)
Returned(a) == a.after # NoRun => stopPc[a.after] = "done"

TakeAnswer(a) ==
  /\ a \in answers
  /\ Returned(a)
  /\ answers' = answers \ {a}
  /\ mirror' = NewStatus(a)
  /\ surplus' = IF a.ok THEN 0 ELSE surplus
  /\ native' = IF a.ok THEN "ready" ELSE "error"
  /\ busy' = IF a.call.cmd = "status" THEN busy ELSE FALSE
  /\ UNCHANGED <<page, listenVars, inbox, missed, calls, overtaken, vars>>

LessBy(n, k) == IF n >= k THEN n - k ELSE 0    \* Math.max(activeConnections - 1, 0), k times

(***************************************************************************)
(* onSessionStarted and onSessionClosed patch the copy, if there is one;   *)
(* they run once for each of the n listeners that hear the event.          *)
(***************************************************************************)
Patched(e, n) ==
  IF ~mirror.known \/ n = 0 THEN mirror
  ELSE IF e.kind = "started"
       THEN [mirror EXCEPT !.active = @ + n]
       ELSE [mirror EXCEPT !.active = LessBy(@, n)]

(***************************************************************************)
(* The listeners an event reaches: those registered when it was emitted    *)
(* and not removed since.                                                  *)
(***************************************************************************)
Reached(kind) == {r \in Listeners!Regs : <<r, kind>> \in subs}
Heard(e)      == Cardinality(e.to \cap Reached(e.kind))

Deliver ==
  /\ inbox # <<>>
  /\ inbox' = Tail(inbox)
  /\ LET e == Head(inbox)
     IN /\ mirror' = Patched(e, Heard(e))
        /\ missed' = IF e.kind = "closed" /\ Heard(e) = 0 THEN missed \cup {e.conn} ELSE missed
        /\ surplus' = IF e.kind = "started" /\ Heard(e) > 1 THEN surplus + (Heard(e) - 1) ELSE surplus
  /\ UNCHANGED <<page, native, busy, listenVars, calls, answers, overtaken, vars>>

(***************************************************************************)
(* The language changes: the effect is cleaned up and run again, and the   *)
(* registrations go on as their promises settle.  A failed one takes the   *)
(* backend for broken.                                                     *)
(***************************************************************************)
ListenersMove ==
  /\ UNCHANGED native
  /\ \/ MayMove /\ Listeners!Rerun
     \/ \E r \in Listeners!Regs : Listeners!PromiseSteps(r)
  /\ UNCHANGED <<page, mirror, busy, inbox, missed, surplus, calls, answers, overtaken, vars>>

ListenersFail(r) ==
  /\ native' = IF mounted = r THEN "error" ELSE native
  /\ Listeners!ListenFails(r)
  /\ UNCHANGED <<page, mirror, busy, inbox, missed, surplus, calls, answers, overtaken, vars>>

(***************************************************************************)
(* Reload: cleanupBeforeClose runs on beforeunload and again on pagehide   *)
(* and sends stop_proxy each time if the copy says that a proxy runs.      *)
(***************************************************************************)
Goodbye == IF mirror.isRunning
           THEN {[cmd |-> "stop", page |-> page, copy |-> n] : n \in 1 .. 2} ELSE {}

Reload ==
  /\ page < MaxPages /\ MayMove
  /\ page' = page + 1
  /\ native' = "checking"
  /\ mirror' = NoStatus
  /\ busy' = FALSE
  /\ registrations' = 1 /\ mounted' = 1 /\ holder' = Listeners!NoReg
  /\ phase' = FirstRegistration /\ subs' = {}
  /\ inbox' = <<>>
  /\ missed' = {} /\ surplus' = 0
  /\ calls' = calls \cup Goodbye \cup {AsksStatus(page')}
  /\ answers' = {}
  /\ overtaken' = FALSE
  /\ UNCHANGED vars

----------------------------------------------------------------------------
(* The backend's tasks, two of whose steps emit events *)

Emit(kind, c) ==
  /\ inbox' = IF Reached(kind) = {} THEN inbox
              ELSE Append(inbox, [kind |-> kind, conn |-> c, to |-> Reached(kind)])
  /\ missed' = IF kind = "closed" /\ Reached(kind) = {} THEN missed \cup {c} ELSE missed
  /\ UNCHANGED <<page, native, mirror, busy, listenVars, surplus, calls, answers, overtaken>>

SilentTaskSteps(c) ==
  \/ IncrementActive(c)
  \/ RegisterSession(c)
  \/ Subscribe(c)
  \/ DecrementActive(c)

EmittingSteps(c) ==
  \/ AnnounceSession(c) /\ Emit("started", c)
  \/ CloseSession(c) /\ Emit("closed", c)

BackendSteps ==
  \/ \E g \in Runs : StopSteps(g) \/ ListenerSteps(g)
  \/ \E g \in Runs, c \in Conns : Accept(g, c)
  \/ \E c \in Conns : SilentTaskSteps(c) \/ PeerSteps(c)

MirrorNext ==
  \/ PressStart
  \/ PressStop
  \/ \E call \in calls : Execute(call)
  \/ \E a \in answers : TakeAnswer(a)
  \/ Deliver
  \/ ListenersMove
  \/ \E r \in Listeners!Regs : ListenersFail(r)
  \/ Reload
  \/ BackendSteps /\ UNCHANGED mirrorVars
  \/ \E c \in Conns : EmittingSteps(c)

MirrorSpec == MirrorInit /\ [][MirrorNext]_allVars

----------------------------------------------------------------------------
(* Properties *)

(***************************************************************************)
(* Once a page's commands are answered, its panel shows a running proxy    *)
(* exactly when one runs, whatever the order in which answers and events   *)
(* came, unless a command of an older page overtook the page's status.     *)
(***************************************************************************)
Settled == answers = {} /\ \A call \in calls : call.page # page

AgreesUnlessOvertaken ==
  Settled /\ ~overtaken => mirror.known /\ mirror.isRunning = isRunning

(***************************************************************************)
(* The shown number of clients never exceeds the connections that have a   *)
(* session, those whose end has not reached the page, those whose end it   *)
(* missed while its listeners were replaced, and the starts that two sets  *)
(* of listeners counted twice.  (On the first page; a later one may read a *)
(* status in which a connection counts whose session-started event is      *)
(* still to come.)                                                         *)
(***************************************************************************)
EndsUnderWay ==
  {c \in Conns : \E i \in DOMAIN inbox : inbox[i].kind = "closed" /\ inbox[i].conn = c}

NeverOvercounts ==
  page = 1 =>
    mirror.active <= Cardinality(RegisteredConns \cup EndsUnderWay \cup missed) + surplus

(***************************************************************************)
(* What the panel and the status bar show of the proxy: once the page's    *)
(* commands are answered, whether one runs, and at all times no client     *)
(* that is gone and known to be gone.                                      *)
(***************************************************************************)
MirrorIsTruthful == MirrorTypeOK /\ AgreesUnlessOvertaken /\ NeverOvercounts

(***************************************************************************)
(* What the documentation says of the effect that registers the listeners  *)
(* (App.tsx): no session is counted twice because two registrations        *)
(* overlap.                                                                *)
(***************************************************************************)
CountedOnce == surplus = 0

=============================================================================
